-------------------------- MODULE MCWithdrawalPair --------------------------
(* The requests of a browser, and withdrawals in the pipeline.  Everything a
   queued withdrawal does is the pipeline's and nothing of it returns to the
   request, so that either of them moves while the other rests. *)
EXTENDS MCWithdrawalPipeline, WithdrawalRequest

CONSTANTS d1, d2, c1, c2

VARIABLE asking   \* it is the request that moves

PairInit == asking \in BOOLEAN /\ RequestInit /\ Init

PairNext ==
    \/ asking /\ RequestNext /\ UNCHANGED <<asking, vars>>
    \/ ~asking /\ Next /\ UNCHANGED <<asking, requestVars>>

PairSpec == PairInit /\ [][PairNext]_<<asking, requestVars, vars>>

(* No definition tells the details of a withdrawal, or the deliveries of one
   request, apart. *)
Alike == Permutations({d1, d2}) \cup Permutations({c1, c2})
=============================================================================
