--------------------------- MODULE DepositLedger ---------------------------
(***************************************************************************)
(* What the server promises about a transfer to its hot wallet, however    *)
(* often and by whom it is looked at: it is credited once at most, to one  *)
(* user, by itself or after a review; what is dismissed or rejected is not *)
(* credited; and none of these is ever undone.                             *)
(*                                                                         *)
(* DepositIngestion implements this module: see its Ledger instance.       *)
(***************************************************************************)
EXTENDS Integers

CONSTANTS Transfers, Users, AmountOf, NoUser

VARIABLES
    fate,     \* what has become of each transfer
    owner,    \* the user it was credited to, or NoUser
    balance

vars == <<fate, owner, balance>>

Init == /\ fate = [t \in Transfers |-> "new"]
        /\ owner = [t \in Transfers |-> NoUser]
        /\ balance = [u \in Users |-> 0]

Credit(t, u) ==
    /\ fate[t] \in {"new", "review"}
    /\ fate' = [fate EXCEPT ![t] = "credited"]
    /\ owner' = [owner EXCEPT ![t] = u]
    /\ balance' = [balance EXCEPT ![u] = @ + AmountOf[t]]

Change(t, from, to) ==
    /\ fate[t] = from
    /\ fate' = [fate EXCEPT ![t] = to]
    /\ UNCHANGED <<owner, balance>>

Next == \E t \in Transfers :
    \/ \E u \in Users : Credit(t, u)
    \/ Change(t, "new", "review")
    \/ Change(t, "new", "rejected")
    \/ Change(t, "review", "dismissed")

Spec == Init /\ [][Next]_vars
============================================================================
