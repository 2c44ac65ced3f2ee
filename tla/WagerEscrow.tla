---------------------------- MODULE WagerEscrow ----------------------------
(***************************************************************************)
(* What a match promises about its players' money, however its room, its   *)
(* players, its timers and its processes interleave: a player who takes a  *)
(* seat stakes the wager once, at most two sit down, and the stakes leave  *)
(* the escrow once: back to a player who sat alone, or shared among the    *)
(* two players and the house with at most one raw unit lost to rounding.   *)
(*                                                                         *)
(* MatchSettlement implements this module: see its Escrow instance.        *)
(***************************************************************************)
EXTENDS Integers

CONSTANTS
    Matches, Users,
    Wagers,           \* the amounts a match may be played for, in raw units
    InitialBalance    \* each user's balance before any match

VARIABLES
    seated,    \* who has staked the wager of each match
    wager,     \* the wager of each match that has a player, else 0
    settled,   \* whether its stakes have left the escrow
    balance,   \* user_balances.balanceRaw
    house      \* the commission account

vars == <<seated, wager, settled, balance, house>>

Init == /\ seated = [m \in Matches |-> {}]
        /\ wager = [m \in Matches |-> 0]
        /\ settled = [m \in Matches |-> FALSE]
        /\ balance = InitialBalance
        /\ house = 0

Sit(m, u, w) ==
    /\ ~settled[m]
    /\ u \notin seated[m]
    /\ \/ seated[m] = {}
       \/ \E v \in Users : seated[m] = {v} /\ w = wager[m]
    /\ balance[u] >= w
    /\ seated' = [seated EXCEPT ![m] = @ \cup {u}]
    /\ wager' = [wager EXCEPT ![m] = w]
    /\ balance' = [balance EXCEPT ![u] = @ - w]
    /\ UNCHANGED <<settled, house>>

(* The only player gets the stake back. *)
GiveBack(m, u) ==
    /\ ~settled[m]
    /\ seated[m] = {u}
    /\ settled' = [settled EXCEPT ![m] = TRUE]
    /\ balance' = [balance EXCEPT ![u] = @ + wager[m]]
    /\ UNCHANGED <<seated, wager, house>>

(* u gets a, v gets b, and the house the rest but for the rounding. *)
Share(m, u, v) ==
    /\ ~settled[m]
    /\ u # v
    /\ seated[m] = {u, v}
    /\ settled' = [settled EXCEPT ![m] = TRUE]
    /\ \E a \in 0 .. 2 * wager[m], lost \in {0, 1} :
         \E b \in 0 .. (2 * wager[m] - a - lost) :
            /\ balance' = [balance EXCEPT ![u] = @ + a, ![v] = @ + b]
            /\ house' = house + (2 * wager[m] - a - b - lost)
    /\ UNCHANGED <<seated, wager>>

Next == \E m \in Matches, u \in Users :
            \/ \E w \in Wagers : Sit(m, u, w)
            \/ GiveBack(m, u)
            \/ \E v \in Users : Share(m, u, v)

Spec == Init /\ [][Next]_vars
============================================================================
