---------------------------- MODULE MCOrderDesk ----------------------------
(* Small values for the constants of OrderDesk. *)
EXTENDS OrderDesk

(* Sells sent again and again while the rate changes; a screenshot relayed while
   merchants decide and the process dies; codes that are rejected. *)
SceneBounds == [s \in Scenes |->
    CASE s = "sells" -> [contents |-> {"SELL"}, forms |-> 2, sends |-> 4,
                         rates |-> 2, crashes |-> 0, staff |-> {"m1"}]
      [] s = "relay" -> [contents |-> {"good"}, forms |-> 1, sends |-> 2,
                         rates |-> 1, crashes |-> 1, staff |-> {"m1", "m2"}]
      [] s = "codes" -> [contents |-> {"good", "bad"}, forms |-> 2, sends |-> 3,
                         rates |-> 1, crashes |-> 0, staff |-> {}]]
=============================================================================
