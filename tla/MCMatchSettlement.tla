------------------------- MODULE MCMatchSettlement -------------------------
(* Small values for the constants of MatchSettlement. *)
EXTENDS MatchSettlement

CONSTANTS u1, u2, u3

ThreePlayers == {u1, u2, u3}

(* Match 2 is private, and u1 has sent its invite to nobody. *)
SecondIsPrivate == [m \in Matches |-> IF m = 2 THEN {u1} ELSE Users]

(* A wager of 10 loses a unit to rounding in a draw.  One player can stake it
   twice, the others once. *)
Tight == [u \in Users |-> IF u = u1 THEN 20 ELSE 10]
=============================================================================
