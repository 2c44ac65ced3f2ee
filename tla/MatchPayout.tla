---------------------------- MODULE MatchPayout ----------------------------
(***************************************************************************)
(* What a settled match pays, in raw units of USDT: the winner takes the   *)
(* pot less the commission; in a draw each player gets half of what a      *)
(* smaller commission leaves.  Divisions round down, as divideRounded does *)
(* with 'down' and as BigInt division does.                                *)
(***************************************************************************)
EXTENDS Integers

BasisPoints   == 10000
CommissionBps == 1000
DrawBps       == 500

Pot(wager) == 2 * wager

WinCommission(wager) == (Pot(wager) * CommissionBps) \div BasisPoints
WinnerAmount(wager)  == Pot(wager) - WinCommission(wager)

DrawCommission(wager) == (Pot(wager) * DrawBps) \div BasisPoints

(* Faulty variant: each half is rounded up. *)
RefundRoundedUp(wager) == (Pot(wager) - DrawCommission(wager) + 1) \div 2

(* The rounding of the two halves leaves up to one raw unit in no account. *)
RefundPerPlayer(wager) == (Pot(wager) - DrawCommission(wager)) \div 2
============================================================================
