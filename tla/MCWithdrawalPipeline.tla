------------------------ MODULE MCWithdrawalPipeline ------------------------
(* Small instances of WithdrawalPipeline.  The amounts let a user's balance *)
(* or daily limit run out before the withdrawals do.                        *)
EXTENDS WithdrawalPipeline, TLC

CONSTANTS u1, u2

(* Two users with one withdrawal each: what they share is the pipeline.    *)
TwoUsers    == {u1, u2}
OwnerEach   == [w \in Withdrawals |-> IF w = 1 THEN u1 ELSE u2]
UnitAmount  == [w \in Withdrawals |-> 1]
UnitBalance == [u \in Users |-> 1]

(* One user whose balance covers every withdrawal; the limit covers one.   *)
OneUser      == {u1}
OneOwner     == [w \in Withdrawals |-> u1]
AmpleBalance == [u \in Users |-> Cardinality(Withdrawals)]

(* Processes are interchangeable, and so are operators. *)
Interchangeable == Permutations(Procs) \cup Permutations(Admins)
=============================================================================
