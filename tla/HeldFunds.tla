----------------------------- MODULE HeldFunds -----------------------------
(***************************************************************************)
(* What the withdrawal pipeline promises about a user's money, whatever    *)
(* its worker, its sweeps, its operators and the chain do: a withdrawal's  *)
(* amount is taken from the balance once, when the request is accepted,    *)
(* and from then on it is held until it is either settled (counted as      *)
(* withdrawn) or returned to the balance.  It is never returned twice,     *)
(* never settled twice and never both.                                     *)
(*                                                                         *)
(* WithdrawalPipeline implements this module: see its Funds instance.      *)
(***************************************************************************)
EXTENDS Integers

CONSTANTS
    Withdrawals,     \* withdrawal documents that may come to exist
    Users,
    UserOf,          \* the owner of each withdrawal
    Amount,          \* its amount, in raw units
    InitialBalance   \* each user's balance before any withdrawal

VARIABLES
    fund,        \* what has become of each withdrawal's amount
    balance,     \* user_balances.balanceRaw
    withdrawn    \* user_balances.totalWithdrawnRaw

vars == <<fund, balance, withdrawn>>

Credit(ledger, w, sign) ==
    [ledger EXCEPT ![UserOf[w]] = @ + sign * Amount[w]]

Init == /\ fund = [w \in Withdrawals |-> "none"]
        /\ balance = InitialBalance
        /\ withdrawn = [u \in Users |-> 0]

(* The request is accepted: the balance covers the amount and loses it. *)
Hold(w) == /\ fund[w] = "none"
           /\ balance[UserOf[w]] >= Amount[w]
           /\ fund' = [fund EXCEPT ![w] = "held"]
           /\ balance' = Credit(balance, w, -1)
           /\ UNCHANGED withdrawn

(* The transfer is known to have been made. *)
Settle(w) == /\ fund[w] = "held"
             /\ fund' = [fund EXCEPT ![w] = "settled"]
             /\ withdrawn' = Credit(withdrawn, w, 1)
             /\ UNCHANGED balance

(* The withdrawal is given up and its amount goes back to the balance. *)
Return(w) == /\ fund[w] = "held"
             /\ fund' = [fund EXCEPT ![w] = "returned"]
             /\ balance' = Credit(balance, w, 1)
             /\ UNCHANGED withdrawn

Next == \E w \in Withdrawals : Hold(w) \/ Settle(w) \/ Return(w)

Spec == Init /\ [][Next]_vars
============================================================================
