--------------------------- MODULE MCAuthSessions ---------------------------
(* Small values for the constants of AuthSessions. *)
EXTENDS AuthSessions

(* Tabs of one browser; more devices than a user may have, one after the other;
   one that signs the other or itself out; a reset while others sign in and
   refresh, with a hash of an old kind; or nothing at all. *)
SmallBudget == [x \in Scenarios |->
    CASE x = "none"    -> [browsers |-> {}, tabs |-> {}, kinds |-> {},
                           calls |-> 0, faults |-> 0]
      [] x = "tabs"    -> [browsers |-> {"b1"}, tabs |-> {"t1", "t2"},
                           kinds |-> {"plain", "link", "logout"},
                           calls |-> 4, faults |-> 1]
      [] x = "devices" -> [browsers |-> {"b1", "b2", "b3"}, tabs |-> {"t1"},
                           kinds |-> {"me", "link", "others"},
                           calls |-> 5, faults |-> 0]
      [] x = "signout" -> [browsers |-> {"b1", "b2"}, tabs |-> {"t1"},
                           kinds |-> {"plain", "link", "one"},
                           calls |-> 4, faults |-> 0]
      [] x = "reset"   -> [browsers |-> {"b1", "b2"}, tabs |-> {"t1", "t2"},
                           kinds |-> {"plain", "login", "reset"},
                           calls |-> 3, faults |-> 0]]
=============================================================================
