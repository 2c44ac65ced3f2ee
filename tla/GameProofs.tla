----------------------------- MODULE GameProofs -----------------------------
(***************************************************************************)
(* Matches: that the stakes of a match leave the escrow once, that its     *)
(* result is final and that fresh activity beats an expiry, in every       *)
(* behaviour of MatchSettlement.                                           *)
(*                                                                         *)
(* SettlementTypeOK is not inductive: a settlement pays who sits in the    *)
(* match, so the seats have to go with the status (Seating); and an expiry *)
(* of a waiting match does not look at the last activity again, so what    *)
(* the job has listed has to be idle while it waits (Listing).             *)
(*                                                                         *)
(* Rooms: that they do to a match what MatchSettlement allows, that what   *)
(* is stored is a game and what is paid is its result, and that no move    *)
(* which was reported is lost while no handler loses its lock, in every    *)
(* behaviour of GameRoom.                                                  *)
(*                                                                         *)
(* What a handler holds is a copy of its match (Copy), or the move it has  *)
(* decided on (Persistable, Completing); these stay true whatever others   *)
(* do to the match (Kept), so that GameIsSound needs no lock.  That a copy *)
(* is not out of date when it is used does, and is LockInv.                *)
(***************************************************************************)
EXTENDS GameRoom, SequenceTheorems, SumTheorems, TLAPS

-----------------------------------------------------------------------------
(* Matches. *)
DocsTyped ==
    /\ mstatus \in [Matches -> {"none", "waiting", "active", "completed"}]
    /\ player1 \in [Matches -> Users \cup {NoUser}]
    /\ player2 \in [Matches -> Users \cup {NoUser}]
    /\ wager \in [Matches -> Nat]
    /\ moves \in [Matches -> Seq(Moves)]
    /\ winner \in [Matches -> Users \cup {NoUser, Draw}]
    /\ reason \in [Matches -> {"none", "winner", "draw", "resigned",
                              "waiting_expired", "active_expired"}]

MoneyTyped == balance \in [Users -> Nat] /\ house \in Nat

JobsTyped == /\ idle \in [Jobs -> SUBSET Matches]
             /\ todo \in [Jobs -> SUBSET (Matches \X {"waiting", "active"})]

(* Who sits in a match that is not settled. *)
SeatsOf(m) ==
    /\ mstatus[m] = "none" => player1[m] = NoUser /\ player2[m] = NoUser
    /\ mstatus[m] = "waiting" => player1[m] \in Users /\ player2[m] = NoUser
    /\ mstatus[m] = "active" =>
         player1[m] \in Users /\ player2[m] \in Users /\ player1[m] # player2[m]
    /\ mstatus[m] \in {"waiting", "active"} => wager[m] \in Wagers

Seating == \A m \in Matches : SeatsOf(m)

(* What the job has listed exists, and is idle while it still waits. *)
Listing == \A j \in Jobs, m \in Matches :
    /\ \A s \in {"waiting", "active"} : <<m, s>> \in todo[j] => mstatus[m] # "none"
    /\ <<m, "waiting">> \in todo[j] /\ mstatus[m] = "waiting" => m \in idle[j]

IInv == DocsTyped /\ MoneyTyped /\ JobsTyped /\ Seating /\ Listing

-----------------------------------------------------------------------------
(* The payouts are natural numbers and divide the pot: the winner and the  *)
(* house share it, and a draw loses at most one raw unit.                  *)
LEMMA WinDividesPot ==
    ASSUME NEW n \in Nat
    PROVE  /\ WinnerAmount(n) \in Nat
           /\ WinCommission(n) \in Nat
           /\ WinnerAmount(n) + WinCommission(n) = 2 * n
BY DEF WinnerAmount, WinCommission, Pot, CommissionBps, BasisPoints

(* The stakes of a draw are divided but for one raw unit. *)
LEMMA DrawDividesPot ==
    ASSUME NEW n \in Nat
    PROVE  /\ RefundPerPlayer(n) \in Nat
           /\ DrawCommission(n) \in Nat
           /\ 2 * n - 2 * RefundPerPlayer(n) - DrawCommission(n) \in {0, 1}
<1> DEFINE c == (2 * n * 500) \div 10000
<1>1. c \in Nat /\ c <= 2 * n
  OBVIOUS
<1>2. ASSUME NEW k \in Nat
      PROVE  k \div 2 \in Nat /\ k - 2 * (k \div 2) \in {0, 1}
  OBVIOUS
<1>3. 2 * n - c \in Nat
  BY <1>1
<1>4. DrawCommission(n) = c /\ RefundPerPlayer(n) = (2 * n - c) \div 2
  BY DEF DrawCommission, RefundPerPlayer, Pot, DrawBps, BasisPoints
<1>5. QED
  BY <1>1, <1>2, <1>3, <1>4

(* Histories are sequences of moves. *)
LEMMA HistoriesAreSequences == Histories \subseteq Seq(Moves)
BY SettlementAssumption, SeqDef DEF Histories

-----------------------------------------------------------------------------
(* A settlement of a match that two players are in. *)
Reasons == {"winner", "draw", "resigned", "active_expired"}

Settles(m, w, why, h) ==
    /\ mstatus[m] = "active"
    /\ w \in Seats(m) \/ (w = Draw /\ why = "draw")
    /\ PayOut(m, w)
    /\ Close(m, w, why, h)

CallsOff(m, why) == /\ why \in {"resigned", "waiting_expired"}
                    /\ CallOff(m, why)

SomeSit == \E m \in Matches, u \in Users :
               (\E w \in Wagers : CreateMatch(m, u, w)) \/ JoinMatch(m, u)
SomeCallOff == \E m \in Matches, why \in {"resigned", "waiting_expired"} : CallsOff(m, why)
SomeSettle == \E m \in Matches, w \in Users \cup {Draw}, why \in Reasons, h \in Seq(Moves) :
                  Settles(m, w, why, h)
SomePersist == \E m \in Matches, h \in Seq(Moves) : PersistMoveHistory(m, h)
NoneTouched == UNCHANGED <<docVars, moneyVars>>

(* A finalization settles an active match or leaves a completed one as it  *)
(* is (finalizeMatch).                                                     *)
LEMMA FinalizeSettles ==
    ASSUME NEW m \in Matches, NEW w \in Users \cup {Draw}, NEW why \in Reasons,
           NEW h \in Seq(Moves), mstatus[m] \in {"active", "completed"},
           Finalize(m, w, why, h)
    PROVE  Settles(m, w, why, h) \/ NoneTouched
BY DEF Finalize, Settles, NoneTouched

(* Every step is of one of five kinds for the documents and the money. *)
LEMMA Kinds ==
    ASSUME IInv, SettlementNext
    PROVE  SomeSit \/ SomeCallOff \/ SomeSettle \/ SomePersist \/ NoneTouched
<1>1. CASE Requests
  <2>1. PICK m \in Matches, u \in Users :
            \/ \E w \in Wagers : CreateMatch(m, u, w)
            \/ JoinMatch(m, u)
            \/ CancelMatch(m, u)
            \/ ResignMatch(m, u)
    BY <1>1 DEF Requests
  <2>2. CASE (\E w \in Wagers : CreateMatch(m, u, w)) \/ JoinMatch(m, u)
    BY <2>2 DEF SomeSit
  <2>3. CASE CancelMatch(m, u)
    BY <2>3 DEF CancelMatch, SomeCallOff, CallsOff
  <2>4. CASE ResignMatch(m, u)
    <3>1. Opponent(m, u) \in Users
      BY <2>4 DEF ResignMatch, Opponent, IInv, Seating, SeatsOf
    <3>2. moves[m] \in Seq(Moves)
      BY DEF IInv, DocsTyped
    <3>3. Settles(m, Opponent(m, u), "resigned", moves[m]) \/ NoneTouched
      BY <2>4, <3>1, <3>2, FinalizeSettles DEF ResignMatch, Reasons
    <3>4. QED
      BY <3>1, <3>2, <3>3 DEF SomeSettle, Reasons
  <2>5. QED
    BY <2>1, <2>2, <2>3, <2>4
<1>2. CASE Expiry
  <2>1. PICK j \in Jobs :
            \/ \E found \in SUBSET Matches : ExpiryScan(j, found)
            \/ \E m \in Matches : ExpireWaiting(j, m) \/ ExpireActive(j, m)
            \/ ExpiryAborts(j)
    BY <1>2 DEF Expiry
  <2>2. CASE (\E found \in SUBSET Matches : ExpiryScan(j, found)) \/ ExpiryAborts(j)
    BY <2>2 DEF ExpiryScan, ExpiryAborts, NoneTouched
  <2>3. ASSUME NEW m \in Matches, ExpireWaiting(j, m)
        PROVE  SomeCallOff \/ NoneTouched
    BY <2>3 DEF ExpireWaiting, SomeCallOff, CallsOff, NoneTouched
  <2>4. ASSUME NEW m \in Matches, ExpireActive(j, m)
        PROVE  SomeSettle \/ NoneTouched
    <3>1. CASE StillIdle(j, m)
      <4>1. InTime(m, moves[m]) \in Users
        BY <3>1 DEF StillIdle, InTime, OnTurn, Opponent, IInv, Seating, SeatsOf
      <4>2. moves[m] \in Seq(Moves)
        BY DEF IInv, DocsTyped
      <4>3. Settles(m, InTime(m, moves[m]), "active_expired", moves[m]) \/ NoneTouched
        BY <2>4, <3>1, <4>1, <4>2, FinalizeSettles DEF ExpireActive, StillIdle, Reasons
      <4>4. QED
        BY <4>1, <4>2, <4>3 DEF SomeSettle, Reasons
    <3>2. QED
      BY <2>4, <3>1 DEF ExpireActive, NoneTouched
  <2>5. QED
    BY <2>1, <2>2, <2>3, <2>4
<1>3. CASE RoomSteps
  <2>1. PICK m \in Matches, h \in Histories :
            \/ PersistMoveHistory(m, h)
            \/ \E w \in Users \cup {Draw} : CompleteMatch(m, w, h)
    BY <1>3 DEF RoomSteps
  <2>2. h \in Seq(Moves)
    BY HistoriesAreSequences
  <2>3. ASSUME NEW w \in Users \cup {Draw}, CompleteMatch(m, w, h)
        PROVE  SomeSettle \/ NoneTouched
    <3>1. PICK why \in Reasons : Finalize(m, w, why, h)
      BY <2>3 DEF CompleteMatch, Reasons
    <3>2. QED
      BY <2>2, <2>3, <3>1, FinalizeSettles DEF CompleteMatch, SomeSettle
  <2>4. QED
    BY <2>1, <2>2, <2>3 DEF SomePersist
<1>4. QED
  BY <1>1, <1>2, <1>3 DEF SettlementNext

-----------------------------------------------------------------------------
(* The invariant holds when there are no matches yet. *)
LEMMA InitIInv == SettlementInit => IInv
<1> SUFFICES ASSUME SettlementInit PROVE IInv
  OBVIOUS
<1>1. <<>> \in Seq(Moves)
  OBVIOUS
<1>2. DocsTyped
  BY <1>1 DEF SettlementInit, DocsTyped
<1>3. MoneyTyped
  BY SettlementAssumption DEF SettlementInit, MoneyTyped
<1>4. JobsTyped
  BY DEF SettlementInit, JobsTyped
<1>5. Seating
  BY DEF SettlementInit, Seating, SeatsOf
<1>6. Listing
  BY DEF SettlementInit, Listing
<1>7. QED
  BY <1>2, <1>3, <1>4, <1>5, <1>6 DEF IInv

(* A step leaves the lists of the jobs or shortens one, and if it touches  *)
(* a match, that is not one that was waiting and still is.                 *)
Shortens == /\ todo' \in [Jobs -> SUBSET (Matches \X {"waiting", "active"})]
            /\ \A j \in Jobs : todo'[j] \subseteq todo[j]

Touches(m) == /\ Touch(m)
              /\ \E s \in {"waiting", "active", "completed"} :
                    /\ mstatus' = [mstatus EXCEPT ![m] = s]
                    /\ s = "waiting" => mstatus[m] = "none"

SomeTouch == (\E m \in Matches : Touches(m)) \/ UNCHANGED <<mstatus, idle>>

SomeScan == \E j \in Jobs, found \in SUBSET Matches : ExpiryScan(j, found)

(* A settlement touches its match. *)
LEMMA FinalizeTouches ==
    ASSUME NEW m \in Matches, NEW w, NEW why, NEW h, Finalize(m, w, why, h)
    PROVE  SomeTouch
BY DEF Finalize, Close, SomeTouch, Touches, docVars

(* So does calling it off. *)
LEMMA CallOffTouches ==
    ASSUME NEW m \in Matches, NEW why, CallOff(m, why)
    PROVE  SomeTouch
BY DEF CallOff, Close, SomeTouch, Touches

(* A step starts a scan, or takes matches from the lists and touches no other. *)
LEMMA JobKinds ==
    ASSUME IInv, SettlementNext
    PROVE  SomeScan \/ (Shortens /\ SomeTouch)
<1>1. ASSUME UNCHANGED todo PROVE Shortens
  BY <1>1 DEF Shortens, IInv, JobsTyped
<1>2. ASSUME NEW j \in Jobs, NEW l \in SUBSET todo[j], todo' = [todo EXCEPT ![j] = l]
      PROVE  Shortens
  BY <1>2 DEF Shortens, IInv, JobsTyped
<1>3. CASE Requests
  <2>1. PICK m \in Matches, u \in Users :
            \/ \E w \in Wagers : CreateMatch(m, u, w)
            \/ JoinMatch(m, u)
            \/ CancelMatch(m, u)
            \/ ResignMatch(m, u)
    BY <1>3 DEF Requests
  <2>2. ASSUME NEW w \in Wagers, CreateMatch(m, u, w)
        PROVE  UNCHANGED todo /\ SomeTouch
    BY <2>2 DEF CreateMatch, SomeTouch, Touches
  <2>3. CASE JoinMatch(m, u)
    BY <1>1, <2>3 DEF JoinMatch, SomeTouch, Touches
  <2>4. CASE CancelMatch(m, u)
    BY <1>1, <2>4, CallOffTouches DEF CancelMatch
  <2>5. CASE ResignMatch(m, u)
    BY <1>1, <2>5, FinalizeTouches DEF ResignMatch
  <2>6. QED
    BY <1>1, <2>1, <2>2, <2>3, <2>4, <2>5
<1>4. CASE Expiry
  <2>1. PICK j \in Jobs :
            \/ \E found \in SUBSET Matches : ExpiryScan(j, found)
            \/ \E m \in Matches : ExpireWaiting(j, m) \/ ExpireActive(j, m)
            \/ ExpiryAborts(j)
    BY <1>4 DEF Expiry
  <2>2. CASE \E found \in SUBSET Matches : ExpiryScan(j, found)
    BY <2>2 DEF SomeScan
  <2>3. ASSUME NEW m \in Matches, ExpireWaiting(j, m)
        PROVE  Shortens /\ SomeTouch
    <3>1. Shortens
      BY <1>2, <2>3 DEF ExpireWaiting, Dealt
    <3>2. SomeTouch
      BY <2>3, CallOffTouches DEF ExpireWaiting, docVars, SomeTouch
    <3>3. QED
      BY <3>1, <3>2
  <2>4. ASSUME NEW m \in Matches, ExpireActive(j, m)
        PROVE  Shortens /\ SomeTouch
    <3>1. Shortens
      BY <1>2, <2>4 DEF ExpireActive, Dealt
    <3>2. SomeTouch
      BY <2>4, FinalizeTouches DEF ExpireActive, docVars, SomeTouch
    <3>3. QED
      BY <3>1, <3>2
  <2>5. CASE ExpiryAborts(j)
    BY <1>2, <2>5 DEF ExpiryAborts, docVars, SomeTouch
  <2>6. QED
    BY <2>1, <2>2, <2>3, <2>4, <2>5
<1>5. CASE RoomSteps
  <2>1. PICK m \in Matches, h \in Histories :
            \/ PersistMoveHistory(m, h)
            \/ \E w \in Users \cup {Draw} : CompleteMatch(m, w, h)
    BY <1>5 DEF RoomSteps
  <2>2. CASE PersistMoveHistory(m, h)
    <3>1. mstatus' = [mstatus EXCEPT ![m] = "active"]
      BY <2>2 DEF PersistMoveHistory, IInv, DocsTyped
    <3>2. QED
      BY <1>1, <2>2, <3>1 DEF PersistMoveHistory, SomeTouch, Touches
  <2>3. ASSUME NEW w \in Users \cup {Draw}, CompleteMatch(m, w, h)
        PROVE  UNCHANGED todo /\ SomeTouch
    BY <2>3, FinalizeTouches DEF CompleteMatch
  <2>4. QED
    BY <1>1, <2>1, <2>2, <2>3
<1>6. QED
  BY <1>3, <1>4, <1>5 DEF SettlementNext

(* What the expiry jobs have listed stays as the lists say. *)
LEMMA JobsPreserved ==
    ASSUME IInv, SettlementNext
    PROVE  JobsTyped' /\ Listing'
<1>1. CASE SomeScan
  <2>1. PICK j \in Jobs, found \in SUBSET Matches : ExpiryScan(j, found)
    BY <1>1 DEF SomeScan
  <2>2. Listed(found) \in SUBSET (Matches \X {"waiting", "active"})
    BY DEF Listed
  <2>3. JobsTyped'
    BY <2>1, <2>2 DEF ExpiryScan, IInv, JobsTyped
  <2>4. UNCHANGED mstatus
    BY <2>1 DEF ExpiryScan, docVars
  <2>5. ASSUME NEW k \in Jobs, NEW m \in Matches
        PROVE  /\ \A s \in {"waiting", "active"} : <<m, s>> \in todo'[k] => mstatus[m] # "none"
               /\ <<m, "waiting">> \in todo'[k] /\ mstatus[m] = "waiting" => m \in idle'[k]
    <3>1. CASE k = j
      <4>1. todo'[k] = Listed(found) /\ idle'[k] = found
        BY <2>1, <3>1 DEF ExpiryScan, IInv, JobsTyped
      <4>2. ASSUME NEW s, <<m, s>> \in Listed(found)
            PROVE  m \in found /\ mstatus[m] = s
        BY <4>2 DEF Listed
      <4>3. QED
        BY <2>1, <4>1, <4>2 DEF ExpiryScan
    <3>2. CASE k # j
      <4>1. todo'[k] = todo[k] /\ idle'[k] = idle[k]
        BY <2>1, <3>2 DEF ExpiryScan, IInv, JobsTyped
      <4>2. QED
        BY <4>1 DEF IInv, Listing
    <3>3. QED
      BY <3>1, <3>2
  <2>6. Listing'
    BY <2>4, <2>5 DEF Listing
  <2>7. QED
    BY <2>3, <2>6
<1>2. CASE Shortens /\ UNCHANGED <<mstatus, idle>>
  <2>1. JobsTyped'
    BY <1>2 DEF Shortens, IInv, JobsTyped
  <2>2. Listing'
    BY <1>2 DEF Shortens, IInv, Listing
  <2>3. QED
    BY <2>1, <2>2
<1>3. ASSUME Shortens, NEW m \in Matches, Touches(m)
      PROVE  JobsTyped' /\ Listing'
  <2>1. idle' \in [Jobs -> SUBSET Matches]
    BY <1>3 DEF Touches, Touch, IInv, JobsTyped
  <2>2. ASSUME NEW k \in Jobs, NEW n \in Matches, NEW s \in {"waiting", "active"},
               <<n, s>> \in todo'[k]
        PROVE  mstatus'[n] # "none" /\ (s = "waiting" /\ mstatus'[n] = "waiting" => n \in idle'[k])
    <3>1. <<n, s>> \in todo[k]
      BY <1>3, <2>2 DEF Shortens
    <3>2. mstatus[n] # "none" /\ (s = "waiting" /\ mstatus[n] = "waiting" => n \in idle[k])
      BY <3>1 DEF IInv, Listing
    <3>3. idle'[k] = idle[k] \ {m}
      BY <1>3 DEF Touches, Touch
    <3>4. PICK t \in {"waiting", "active", "completed"} :
              mstatus' = [mstatus EXCEPT ![m] = t] /\ (t = "waiting" => mstatus[m] = "none")
      BY <1>3 DEF Touches
    <3>5. mstatus'[n] = IF n = m THEN t ELSE mstatus[n]
      BY <3>4 DEF IInv, DocsTyped
    <3>6. QED
      BY <3>2, <3>3, <3>4, <3>5
  <2>3. JobsTyped'
    BY <1>3, <2>1 DEF Shortens, JobsTyped
  <2>4. Listing'
    BY <2>2 DEF Listing
  <2>5. QED
    BY <2>3, <2>4
<1>4. QED
  BY <1>1, <1>2, <1>3, JobKinds DEF SomeTouch

-----------------------------------------------------------------------------
(* Taking a seat keeps documents, money and seats in order. *)
LEMMA SitPreserves ==
    ASSUME IInv, SomeSit
    PROVE  DocsTyped' /\ MoneyTyped' /\ Seating'
<1>1. PICK m \in Matches, u \in Users :
          (\E w \in Wagers : CreateMatch(m, u, w)) \/ JoinMatch(m, u)
  BY DEF SomeSit
<1> USE SettlementAssumption
<1>2. ASSUME NEW w \in Wagers, CreateMatch(m, u, w)
      PROVE  DocsTyped' /\ MoneyTyped' /\ Seating'
  <2>1. DocsTyped'
    BY <1>2 DEF CreateMatch, IInv, DocsTyped
  <2>2. MoneyTyped'
    <3>1. balance[u] - w \in Nat
      BY <1>2 DEF CreateMatch, Covers, IInv, MoneyTyped
    <3>2. QED
      BY <1>2, <3>1 DEF CreateMatch, IInv, MoneyTyped
  <2>3. Seating'
    BY <1>2 DEF CreateMatch, IInv, DocsTyped, Seating, SeatsOf
  <2>4. QED
    BY <2>1, <2>2, <2>3
<1>3. CASE JoinMatch(m, u)
  <2>1. DocsTyped'
    BY <1>3 DEF JoinMatch, IInv, DocsTyped
  <2>2. MoneyTyped'
    <3>1. balance[u] - wager[m] \in Nat
      BY <1>3 DEF JoinMatch, Covers, IInv, DocsTyped, MoneyTyped
    <3>2. QED
      BY <1>3, <3>1 DEF JoinMatch, IInv, MoneyTyped
  <2>3. mstatus[m] = "waiting" /\ u # player1[m]
    BY <1>3 DEF JoinMatch, Joinable, Seats, IInv, Seating, SeatsOf
  <2>4. Seating'
    BY <1>3, <2>3 DEF JoinMatch, IInv, DocsTyped, Seating, SeatsOf
  <2>5. QED
    BY <2>1, <2>2, <2>4
<1>4. QED
  BY <1>1, <1>2, <1>3

(* So does calling a match off, *)
LEMMA CallOffPreserves ==
    ASSUME IInv, SomeCallOff
    PROVE  DocsTyped' /\ MoneyTyped' /\ Seating'
<1>1. PICK m \in Matches, why \in {"resigned", "waiting_expired"} : CallsOff(m, why)
  BY DEF SomeCallOff
<1>2. DocsTyped'
  BY <1>1 DEF CallsOff, CallOff, Close, IInv, DocsTyped
<1>3. MoneyTyped'
  <2>1. player1[m] \in Users /\ wager[m] \in Nat
    BY <1>1 DEF CallsOff, CallOff, IInv, DocsTyped, Seating, SeatsOf
  <2>2. balance[player1[m]] + wager[m] \in Nat
    BY <2>1 DEF IInv, MoneyTyped
  <2>3. QED
    BY <1>1, <2>1, <2>2 DEF CallsOff, CallOff, IInv, MoneyTyped
<1>4. Seating'
  BY <1>1 DEF CallsOff, CallOff, Close, IInv, DocsTyped, Seating, SeatsOf
<1>5. QED
  BY <1>2, <1>3, <1>4

(* and persisting a history or writing nothing, *)
LEMMA PersistPreserves ==
    ASSUME IInv, SomePersist \/ NoneTouched
    PROVE  DocsTyped' /\ MoneyTyped' /\ Seating'
<1>1. DocsTyped'
  BY DEF SomePersist, PersistMoveHistory, NoneTouched, docVars, IInv, DocsTyped
<1>2. MoneyTyped'
  BY DEF SomePersist, PersistMoveHistory, NoneTouched, moneyVars, IInv, MoneyTyped
<1>3. Seating'
  BY DEF SomePersist, PersistMoveHistory, NoneTouched, docVars, IInv, Seating, SeatsOf
<1>4. QED
  BY <1>1, <1>2, <1>3

(* Payments to two users. *)
LEMMA PaidAreNatural ==
    ASSUME NEW S, NEW f \in [S -> Nat], NEW x \in S, NEW y \in S, x # y,
           NEW a \in Nat, NEW b \in Nat
    PROVE  [f EXCEPT ![x] = @ + a, ![y] = @ + b] \in [S -> Nat]
<1>1. f[x] + a \in Nat /\ f[y] + b \in Nat
  OBVIOUS
<1>2. QED
  BY <1>1

(* A settlement shares the pot among the two players and the house. *)
Shared(m, a, b, lost) ==
    /\ balance' = [balance EXCEPT ![player1[m]] = @ + a, ![player2[m]] = @ + b]
    /\ house' = house + (2 * wager[m] - a - b - lost)

(* Something of the pot is lost in a draw only. *)
SharesPot(m, why) ==
    \E a \in 0 .. 2 * wager[m], lost \in {0, 1} :
       \E b \in 0 .. (2 * wager[m] - a - lost) :
          Shared(m, a, b, lost) /\ (lost = 1 => why = "draw")

(* A settlement has two different players and shares out their stakes. *)
LEMMA SettlementShares ==
    ASSUME IInv, NEW m \in Matches, NEW w \in Users \cup {Draw}, NEW why, NEW h,
           Settles(m, w, why, h)
    PROVE  /\ player1[m] \in Users /\ player2[m] \in Users /\ player1[m] # player2[m]
           /\ SharesPot(m, why)
<1>1. /\ player1[m] \in Users /\ player2[m] \in Users /\ player1[m] # player2[m]
      /\ wager[m] \in Nat
  BY DEF Settles, IInv, DocsTyped, Seating, SeatsOf
<1>2. CASE w = Draw
  <2> DEFINE a == RefundPerPlayer(wager[m])
             lost == 2 * wager[m] - 2 * a - DrawCommission(wager[m])
  <2>1. /\ a \in Nat /\ DrawCommission(wager[m]) \in Nat /\ lost \in {0, 1}
    BY <1>1, DrawDividesPot
  <2>2. DrawCommission(wager[m]) = 2 * wager[m] - a - a - lost
    BY <1>1, <2>1
  <2>3. a \in 0 .. 2 * wager[m] /\ a \in 0 .. (2 * wager[m] - a - lost)
    BY <1>1, <2>1, <2>2
  <2>4. Shared(m, a, a, lost) /\ why = "draw"
    BY <1>1, <1>2, <2>2, SettlementAssumption DEF Settles, Seats, PayOut, Shared
  <2>5. QED
    BY <1>1, <2>1, <2>3, <2>4 DEF SharesPot
<1>3. CASE w # Draw
  <2> DEFINE c == WinCommission(wager[m])
             a == WinnerAmount(wager[m])
  <2>1. a \in Nat /\ c \in Nat /\ a + c = 2 * wager[m]
    BY <1>1, WinDividesPot
  <2>2. balance' = [balance EXCEPT ![w] = @ + a] /\ house' = house + c
    BY <1>3 DEF Settles, PayOut
  <2> HIDE DEF a, c
  <2>3. balance \in [Users -> Nat]
    BY DEF IInv, MoneyTyped
  <2>8. /\ [balance EXCEPT ![player1[m]] = @ + a]
              = [balance EXCEPT ![player1[m]] = @ + a, ![player2[m]] = @ + 0]
        /\ [balance EXCEPT ![player2[m]] = @ + a]
              = [balance EXCEPT ![player1[m]] = @ + 0, ![player2[m]] = @ + a]
    <3> DEFINE x == player1[m]
               y == player2[m]
    <3>1. x \in Users /\ y \in Users /\ x # y
      BY <1>1
    <3> HIDE DEF x, y
    <3>2. balance[x] \in Nat /\ balance[y] \in Nat
          /\ balance[x] + 0 = balance[x] /\ balance[y] + 0 = balance[y]
      BY <2>3, <3>1
    <3>3. \A z \in Users : [balance EXCEPT ![x] = @ + a][z]
                             = [balance EXCEPT ![x] = @ + a, ![y] = @ + 0][z]
      BY <2>3, <3>1, <3>2
    <3>4. \A z \in Users : [balance EXCEPT ![y] = @ + a][z]
                             = [balance EXCEPT ![x] = @ + 0, ![y] = @ + a][z]
      BY <2>3, <3>1, <3>2
    <3>5. /\ [balance EXCEPT ![x] = @ + a] = [balance EXCEPT ![x] = @ + a, ![y] = @ + 0]
          /\ [balance EXCEPT ![y] = @ + a] = [balance EXCEPT ![x] = @ + 0, ![y] = @ + a]
      BY <2>3, <3>3, <3>4
    <3>6. QED
      BY <3>5 DEF x, y
  <2>4. w = player1[m] \/ w = player2[m]
    BY <1>3 DEF Settles, Seats
  <2>5. CASE w = player1[m]
    <3>1. balance' = [balance EXCEPT ![player1[m]] = @ + a, ![player2[m]] = @ + 0]
      BY <2>2, <2>8, <2>5
    <3>2. c = 2 * wager[m] - a - 0 - 0
      BY <1>1, <2>1
    <3>3. Shared(m, a, 0, 0)
      BY <2>2, <3>1, <3>2 DEF Shared
    <3>4. a \in 0 .. 2 * wager[m] /\ 0 \in 0 .. (2 * wager[m] - a - 0)
      BY <1>1, <2>1
    <3>5. 0 # 1 /\ 0 \in {0, 1}
      OBVIOUS
    <3>6. QED
      BY <1>1, <3>3, <3>4, <3>5 DEF SharesPot
  <2>6. CASE w = player2[m]
    <3>1. balance' = [balance EXCEPT ![player1[m]] = @ + 0, ![player2[m]] = @ + a]
      BY <2>2, <2>8, <2>6
    <3>2. c = 2 * wager[m] - 0 - a - 0
      BY <1>1, <2>1
    <3>3. Shared(m, 0, a, 0)
      BY <2>2, <3>1, <3>2 DEF Shared
    <3>4. 0 \in 0 .. 2 * wager[m] /\ a \in 0 .. (2 * wager[m] - 0 - 0)
      BY <1>1, <2>1
    <3>5. 0 # 1 /\ 0 \in {0, 1}
      OBVIOUS
    <3>6. QED
      BY <1>1, <3>3, <3>4, <3>5 DEF SharesPot
  <2>7. QED
    BY <2>4, <2>5, <2>6
<1>4. QED
  BY <1>2, <1>3

(* and settling a match of two players. *)
LEMMA SettlePreserves ==
    ASSUME IInv, SomeSettle
    PROVE  DocsTyped' /\ MoneyTyped' /\ Seating'
<1>1. PICK m \in Matches, w \in Users \cup {Draw}, why \in Reasons, h \in Seq(Moves) :
          Settles(m, w, why, h)
  BY DEF SomeSettle
<1>2. DocsTyped'
  BY <1>1 DEF Settles, Close, Reasons, IInv, DocsTyped
<1>3. MoneyTyped'
  <2>1. /\ player1[m] \in Users /\ player2[m] \in Users /\ player1[m] # player2[m]
        /\ SharesPot(m, why)
    BY <1>1, SettlementShares
  <2>2. wager[m] \in Nat
    BY DEF IInv, DocsTyped
  <2>3. PICK a \in 0 .. 2 * wager[m], lost \in {0, 1} :
            \E b \in 0 .. (2 * wager[m] - a - lost) : Shared(m, a, b, lost)
    BY <2>1 DEF SharesPot
  <2>4. PICK b \in 0 .. (2 * wager[m] - a - lost) : Shared(m, a, b, lost)
    BY <2>3
  <2>5. a \in Nat /\ b \in Nat /\ 2 * wager[m] - a - b - lost \in Nat
    BY <2>2, <2>4
  <2>6. balance' \in [Users -> Nat]
    BY <2>1, <2>4, <2>5, PaidAreNatural DEF Shared, IInv, MoneyTyped
  <2>7. house' \in Nat
    BY <2>4, <2>5 DEF Shared, IInv, MoneyTyped
  <2>8. QED
    BY <2>6, <2>7 DEF MoneyTyped
<1>4. Seating'
  BY <1>1 DEF Settles, Close, IInv, DocsTyped, Seating, SeatsOf
<1>5. QED
  BY <1>2, <1>3, <1>4

(* The invariant is inductive. *)
LEMMA NextPreserves ==
    ASSUME IInv, [SettlementNext]_settlementVars
    PROVE  IInv'
<1>1. CASE SettlementNext
  BY <1>1, Kinds, JobsPreserved, SitPreserves, CallOffPreserves, PersistPreserves,
     SettlePreserves DEF IInv
<1>2. CASE UNCHANGED settlementVars
  BY <1>2 DEF settlementVars, docVars, moneyVars, jobVars, IInv, DocsTyped,
     MoneyTyped, JobsTyped, Seating, SeatsOf, Listing
<1>3. QED
  BY <1>1, <1>2

(* The inductive invariant: types, seats that go with the status, and lists of the job
   that are right about matches that wait. *)
THEOREM SettlementInvariant == SettlementSpec => []IInv
BY InitIInv, NextPreserves, PTL DEF SettlementSpec

(* SettlementTypeOK: no balance is ever negative, whatever is staked or    *)
(* settled at the same time (deductBalanceRawIfSufficient).                *)
THEOREM SettlementTypeCorrect == SettlementSpec => []SettlementTypeOK
<1>1. IInv => SettlementTypeOK
  BY DEF IInv, DocsTyped, MoneyTyped, JobsTyped, SettlementTypeOK
<1>2. QED
  BY <1>1, SettlementInvariant, PTL

-----------------------------------------------------------------------------
(* ResultsAreFinal: no kind of step applies to a match that is completed.  *)
THEOREM ResultsStay == SettlementSpec => ResultsAreFinal
<1>1. ASSUME IInv, [SettlementNext]_settlementVars, NEW m \in Matches,
             mstatus[m] = "completed"
      PROVE  mstatus'[m] = "completed" /\ Result(m)' = Result(m)
  <2> USE DEF IInv, DocsTyped, Result
  <2>1. CASE SomeSit
    <3>1. PICK n \in Matches, u \in Users :
              (\E w \in Wagers : CreateMatch(n, u, w)) \/ JoinMatch(n, u)
      BY <2>1 DEF SomeSit
    <3>2. n # m
      BY <1>1, <3>1 DEF CreateMatch, JoinMatch, Joinable
    <3>3. QED
      BY <1>1, <3>1, <3>2 DEF CreateMatch, JoinMatch
  <2>2. CASE SomeCallOff
    <3>1. PICK n \in Matches, why \in {"resigned", "waiting_expired"} : CallsOff(n, why)
      BY <2>2 DEF SomeCallOff
    <3>2. n # m
      BY <1>1, <3>1 DEF CallsOff, CallOff
    <3>3. QED
      BY <1>1, <3>1, <3>2 DEF CallsOff, CallOff, Close
  <2>3. CASE SomeSettle
    <3>1. PICK n \in Matches, w \in Users \cup {Draw}, why \in Reasons, h \in Seq(Moves) :
              Settles(n, w, why, h)
      BY <2>3 DEF SomeSettle
    <3>2. n # m
      BY <1>1, <3>1 DEF Settles
    <3>3. QED
      BY <1>1, <3>1, <3>2 DEF Settles, Close
  <2>4. CASE SomePersist
    <3>1. PICK n \in Matches, h \in Seq(Moves) : PersistMoveHistory(n, h)
      BY <2>4 DEF SomePersist
    <3>2. n # m
      BY <1>1, <3>1 DEF PersistMoveHistory
    <3>3. QED
      BY <1>1, <3>1, <3>2 DEF PersistMoveHistory
  <2>5. CASE NoneTouched \/ UNCHANGED settlementVars
    BY <1>1, <2>5 DEF NoneTouched, settlementVars, docVars
  <2>6. QED
    BY <1>1, <2>1, <2>2, <2>3, <2>4, <2>5, Kinds
<1>2. IInv /\ [SettlementNext]_settlementVars =>
          [\A m \in Matches : mstatus[m] = "completed" =>
               mstatus'[m] = "completed" /\ Result(m)' = Result(m)]_settlementVars
  BY <1>1
<1>3. QED
  BY <1>2, SettlementInvariant, PTL DEF SettlementSpec, ResultsAreFinal

-----------------------------------------------------------------------------
(* A finalization records its own reason, if it records one. *)
LEMMA FinalizeRecords ==
    ASSUME NEW m \in Matches, NEW w, NEW why, NEW h, Finalize(m, w, why, h)
    PROVE  reason' = reason \/ reason' = [reason EXCEPT ![m] = why]
BY DEF Finalize, Close, docVars

(* Only the job records an expiry, and only on a match that is idle.       *)
LEMMA ExpiriesAreIdle ==
    ASSUME IInv, SettlementNext
    PROVE  \/ reason' = reason
           \/ \E n \in Matches, why \in {"resigned", "winner", "draw"} :
                 reason' = [reason EXCEPT ![n] = why]
           \/ \E j \in Jobs : \E n \in idle[j] :
                 \E why : reason' = [reason EXCEPT ![n] = why]
<1>1. CASE Requests
  <2>1. PICK m \in Matches, u \in Users :
            \/ \E w \in Wagers : CreateMatch(m, u, w)
            \/ JoinMatch(m, u)
            \/ CancelMatch(m, u)
            \/ ResignMatch(m, u)
    BY <1>1 DEF Requests
  <2>2. CASE (\E w \in Wagers : CreateMatch(m, u, w)) \/ JoinMatch(m, u)
    BY <2>2 DEF CreateMatch, JoinMatch
  <2>3. CASE CancelMatch(m, u)
    BY <2>3 DEF CancelMatch, CallOff, Close
  <2>4. CASE ResignMatch(m, u)
    BY <2>4, FinalizeRecords DEF ResignMatch
  <2>5. QED
    BY <2>1, <2>2, <2>3, <2>4
<1>2. CASE Expiry
  <2>1. PICK j \in Jobs :
            \/ \E found \in SUBSET Matches : ExpiryScan(j, found)
            \/ \E m \in Matches : ExpireWaiting(j, m) \/ ExpireActive(j, m)
            \/ ExpiryAborts(j)
    BY <1>2 DEF Expiry
  <2>2. CASE (\E found \in SUBSET Matches : ExpiryScan(j, found)) \/ ExpiryAborts(j)
    BY <2>2 DEF ExpiryScan, ExpiryAborts, docVars
  <2>3. ASSUME NEW m \in Matches, ExpireWaiting(j, m)
        PROVE  \/ reason' = reason
               \/ m \in idle[j] /\ reason' = [reason EXCEPT ![m] = "waiting_expired"]
    <3>1. CASE CallOff(m, "waiting_expired")
      <4>1. m \in idle[j]
        BY <2>3, <3>1 DEF ExpireWaiting, Due, CallOff, IInv, Listing
      <4>2. QED
        BY <3>1, <4>1 DEF CallOff, Close
    <3>2. QED
      BY <2>3, <3>1 DEF ExpireWaiting, docVars
  <2>4. ASSUME NEW m \in Matches, ExpireActive(j, m)
        PROVE  \/ reason' = reason
               \/ m \in idle[j] /\ reason' = [reason EXCEPT ![m] = "active_expired"]
    BY <2>4, FinalizeRecords DEF ExpireActive, StillIdle, docVars
  <2>5. QED
    BY <2>1, <2>2, <2>3, <2>4
<1>3. CASE RoomSteps
  <2>1. PICK m \in Matches, h \in Histories :
            \/ PersistMoveHistory(m, h)
            \/ \E w \in Users \cup {Draw} : CompleteMatch(m, w, h)
    BY <1>3 DEF RoomSteps
  <2>2. ASSUME NEW w \in Users \cup {Draw}, CompleteMatch(m, w, h)
        PROVE  reason' = reason \/ \E why \in {"winner", "draw"} :
                                      reason' = [reason EXCEPT ![m] = why]
    BY <2>2, FinalizeRecords DEF CompleteMatch
  <2>3. QED
    BY <2>1, <2>2 DEF PersistMoveHistory
<1>4. QED
  BY <1>1, <1>2, <1>3 DEF SettlementNext

(* ActivityWins: an expiry takes effect only on a match that nobody has    *)
(* touched since the cutoff of its run (expireStaleMatches).               *)
THEOREM FreshActivityWins == SettlementSpec => ActivityWins
<1>1. ASSUME IInv, SettlementNext, NEW m \in Matches, Expired(m)', ~Expired(m)
      PROVE  \E j \in Jobs : m \in idle[j]
  <2>1. reason'[m] # reason[m] /\ reason'[m] \in {"waiting_expired", "active_expired"}
    BY <1>1 DEF Expired
  <2>2. DOMAIN reason = Matches
    BY <1>1 DEF IInv, DocsTyped
  <2>3. ASSUME NEW n \in Matches, NEW why, reason' = [reason EXCEPT ![n] = why]
        PROVE  n = m /\ why \in {"waiting_expired", "active_expired"}
    BY <2>1, <2>2, <2>3
  <2>4. \A j \in Jobs : idle[j] \subseteq Matches
    BY <1>1 DEF IInv, JobsTyped
  <2>5. PICK j \in Jobs, n \in Matches : n \in idle[j] /\ \E why : reason' = [reason EXCEPT ![n] = why]
    BY <1>1, <2>1, <2>3, <2>4, ExpiriesAreIdle
  <2>6. QED
    BY <2>3, <2>5
<1>2. IInv /\ [SettlementNext]_settlementVars =>
          [\A m \in Matches : Expired(m)' /\ ~Expired(m) =>
               \E j \in Jobs : m \in idle[j]]_settlementVars
  BY <1>1
<1>3. QED
  BY <1>2, SettlementInvariant, PTL DEF SettlementSpec, ActivityWins

-----------------------------------------------------------------------------
(* How the escrow sees the documents. *)
Seated  == [m \in Matches |-> Seats(m)]
Settled == [m \in Matches |-> mstatus[m] = "completed"]

(* Taking a seat puts one stake into escrow. *)
LEMMA SitsInEscrow ==
    ASSUME IInv, SomeSit
    PROVE  Escrow!Next
<1>1. PICK m \in Matches, u \in Users :
          (\E w \in Wagers : CreateMatch(m, u, w)) \/ JoinMatch(m, u)
  BY DEF SomeSit
<1>2. PICK w \in Wagers :
          /\ balance[u] >= w
          /\ balance' = [balance EXCEPT ![u] = @ - w]
          /\ UNCHANGED house
          /\ mstatus[m] # "completed"
          /\ \E s \in {"waiting", "active"} : mstatus' = [mstatus EXCEPT ![m] = s]
          /\ wager' = [wager EXCEPT ![m] = w]
          /\ u \notin Seats(m)
          /\ Seats(m) = {} \/ (w = wager[m] /\ \E v \in Users : Seats(m) = {v})
          /\ \A n \in Matches : Seats(n)' = IF n = m THEN Seats(n) \cup {u} ELSE Seats(n)
  <2> USE SettlementAssumption DEF IInv, DocsTyped
  <2>1. ASSUME NEW w \in Wagers, CreateMatch(m, u, w)
        PROVE  /\ mstatus[m] # "completed" /\ Seats(m) = {}
               /\ \A n \in Matches : Seats(n)' = IF n = m THEN Seats(n) \cup {u} ELSE Seats(n)
    BY <2>1 DEF CreateMatch, Seating, SeatsOf, Seats
  <2>2. ASSUME NEW w \in Wagers, CreateMatch(m, u, w)
        PROVE  /\ balance[u] >= w
               /\ balance' = [balance EXCEPT ![u] = @ - w]
               /\ UNCHANGED house
               /\ mstatus' = [mstatus EXCEPT ![m] = "waiting"]
               /\ wager' = [wager EXCEPT ![m] = w]
    BY <2>2 DEF CreateMatch, Covers
  <2>3. CASE JoinMatch(m, u)
    <3>1. mstatus[m] = "waiting" /\ u \notin Seats(m) /\ player2[m] = NoUser
      BY <2>3 DEF JoinMatch, Joinable, Seats, Seating, SeatsOf
    <3>2. player1[m] \in Users /\ wager[m] \in Wagers
      BY <3>1 DEF Seating, SeatsOf
    <3>3. Seats(m) = {player1[m]}
      BY <3>1, <3>2 DEF Seats
    <3>4. \A n \in Matches : Seats(n)' = IF n = m THEN Seats(n) \cup {u} ELSE Seats(n)
      BY <2>3, <3>1, <3>2 DEF JoinMatch, Seats
    <3>5. wager' = [wager EXCEPT ![m] = wager[m]]
      BY <2>3 DEF JoinMatch
    <3>6. /\ balance[u] >= wager[m]
          /\ balance' = [balance EXCEPT ![u] = @ - wager[m]]
          /\ UNCHANGED house
          /\ mstatus' = [mstatus EXCEPT ![m] = "active"]
      BY <2>3 DEF JoinMatch, Covers
    <3>7. QED
      BY <3>1, <3>2, <3>3, <3>4, <3>5, <3>6
  <2>4. QED
    BY <1>1, <2>1, <2>2, <2>3
<1>3. Seated' = [Seated EXCEPT ![m] = @ \cup {u}]
  BY <1>2 DEF Seated
<1>4. Settled' = Settled
  <2>1. \A n \in Matches : (mstatus'[n] = "completed") = (mstatus[n] = "completed")
    BY <1>2 DEF IInv, DocsTyped
  <2>2. QED
    BY <2>1 DEF Settled
<1>5. Escrow!Sit(m, u, w)
  BY <1>2, <1>3, <1>4 DEF Escrow!Sit, Seated, Settled
<1>6. QED
  BY <1>5 DEF Escrow!Next

(* Closing a match settles it and keeps its seats and its wager. *)
LEMMA ClosesInEscrow ==
    ASSUME IInv, NEW m \in Matches, NEW w, NEW why, NEW h,
           mstatus[m] # "completed", Close(m, w, why, h)
    PROVE  Seated' = Seated /\ Settled' = [Settled EXCEPT ![m] = TRUE] /\ wager' = wager
<1>1. Seated' = Seated
  BY DEF Close, Seated, Seats
<1>2. \A n \in Matches :
          (mstatus'[n] = "completed") = IF n = m THEN TRUE ELSE mstatus[n] = "completed"
  BY DEF Close, IInv, DocsTyped
<1>3. QED
  BY <1>1, <1>2 DEF Close, Settled

(* Every step is one of the escrow, or none. *)
LEMMA EscrowSteps ==
    ASSUME IInv, [SettlementNext]_settlementVars
    PROVE  [Escrow!Next]_Escrow!vars
<1>1. CASE SomeSit
  BY <1>1, SitsInEscrow
<1>2. CASE SomeCallOff
  <2>1. PICK m \in Matches, why \in {"resigned", "waiting_expired"} : CallsOff(m, why)
    BY <1>2 DEF SomeCallOff
  <2>2. mstatus[m] = "waiting" /\ player1[m] \in Users /\ player2[m] = NoUser
    BY <2>1 DEF CallsOff, CallOff, IInv, Seating, SeatsOf
  <2>3. Seats(m) = {player1[m]}
    BY <2>2, SettlementAssumption DEF Seats
  <2>4. Seated' = Seated /\ Settled' = [Settled EXCEPT ![m] = TRUE] /\ wager' = wager
    BY <2>1, <2>2, ClosesInEscrow DEF CallsOff, CallOff
  <2>5. PICK u \in Users : u = player1[m]
    BY <2>2
  <2>6. Escrow!GiveBack(m, u)
    BY <2>1, <2>2, <2>3, <2>4, <2>5 DEF CallsOff, CallOff, Escrow!GiveBack, Seated, Settled
  <2>7. QED
    BY <2>6 DEF Escrow!Next
<1>3. CASE SomeSettle
  <2>1. PICK m \in Matches, w \in Users \cup {Draw}, why \in Reasons, h \in Seq(Moves) :
            Settles(m, w, why, h)
    BY <1>3 DEF SomeSettle
  <2>2. /\ player1[m] \in Users /\ player2[m] \in Users /\ player1[m] # player2[m]
        /\ SharesPot(m, why)
    BY <2>1, SettlementShares
  <2>3. Seats(m) = {player1[m], player2[m]}
    BY <2>2, SettlementAssumption DEF Seats
  <2>4. Seated' = Seated /\ Settled' = [Settled EXCEPT ![m] = TRUE] /\ wager' = wager
    BY <2>1, ClosesInEscrow DEF Settles
  <2>5. mstatus[m] # "completed"
    BY <2>1 DEF Settles
  <2>6. PICK u \in Users, v \in Users : u = player1[m] /\ v = player2[m]
    BY <2>2
  <2>7. Escrow!Share(m, u, v)
    <3>1. /\ ~Settled[m] /\ Seated[m] = {u, v} /\ u # v
      BY <2>2, <2>3, <2>5, <2>6 DEF Seated, Settled
    <3>2. \E a \in 0 .. 2 * wager[m], lost \in {0, 1} :
            \E b \in 0 .. (2 * wager[m] - a - lost) :
              /\ balance' = [balance EXCEPT ![u] = @ + a, ![v] = @ + b]
              /\ house' = house + (2 * wager[m] - a - b - lost)
      BY <2>2, <2>6 DEF Shared, SharesPot
    <3>3. QED
      BY <2>4, <3>1, <3>2 DEF Escrow!Share, Seated, Settled
  <2>8. QED
    BY <2>7 DEF Escrow!Next
<1>4. CASE SomePersist \/ NoneTouched \/ UNCHANGED settlementVars
  <2>1. UNCHANGED <<mstatus, player1, player2, wager, balance, house>>
    BY <1>4 DEF SomePersist, PersistMoveHistory, NoneTouched, settlementVars, docVars, moneyVars
  <2>2. QED
    BY <2>1 DEF Escrow!vars, Seats
<1>5. QED
  BY <1>1, <1>2, <1>3, <1>4, Kinds

(* StakesLeaveOnce: a seat is taken by one player and the stakes leave the *)
(* escrow once, back to a player who sat alone or shared among the two     *)
(* players and the house.                                                  *)
THEOREM SettlementKeepsEscrow == SettlementSpec => StakesLeaveOnce
<1>1. SettlementInit => Escrow!Init
  <2> SUFFICES ASSUME SettlementInit PROVE Escrow!Init
    OBVIOUS
  <2>1. \A m \in Matches : Seats(m) = {}
    BY DEF SettlementInit, Seats
  <2>2. Seated = [m \in Matches |-> {}]
    BY <2>1 DEF Seated
  <2>3. Settled = [m \in Matches |-> FALSE]
    BY DEF SettlementInit, Settled
  <2>4. QED
    BY <2>2, <2>3 DEF SettlementInit, Escrow!Init, Seated, Settled
<1>2. IInv /\ [SettlementNext]_settlementVars => [Escrow!Next]_Escrow!vars
  BY EscrowSteps
<1>3. QED
  BY <1>1, <1>2, SettlementInvariant, PTL DEF SettlementSpec, StakesLeaveOnce, Escrow!Spec

-----------------------------------------------------------------------------
(* Where the money is, with the sums as SumTheorems has them.              *)
EscrowOf == [m \in Matches |-> Escrowed(m)]

HeldIn == SumOf(balance, Users) + house + SumOf(EscrowOf, Matches)

(* A drawn match is settled: what it loses is lost once.                   *)
DrawnIsSettled == \A m \in Matches : mstatus[m] # "completed" => reason[m] = "none"

MoneyAddsUp == SumOf(InitialBalance, Users) - HeldIn \in 0 .. Cardinality(Drawn)

Accounts == DrawnIsSettled /\ MoneyAddsUp

(* The sums of FundsConserved are those.                                   *)
LEMMA SumUnique ==
    ASSUME NEW F, NEW S, IsFiniteSet(S), NEW g, IsSum(F, S, g)
    PROVE  g[S] = SumOf(F, S)
<1>1. PICK h : IsSum(F, S, h) /\ SumOf(F, S) = h[S]
  BY SumIsSum
<1>2. QED
  BY <1>1, SumAgrees

(* The sum of FundsConserved is the sum the theorems are about, *)
LEMMA BalanceSum == MapThenSumSet(LAMBDA u : balance[u], Users) = SumOf(balance, Users)
BY Zenon DEF MapThenSumSet, MapThenFoldSet, SumOf, IsSum, Pick

(* also at the start, *)
LEMMA InitialSum == MapThenSumSet(LAMBDA u : InitialBalance[u], Users) = SumOf(InitialBalance, Users)
BY Zenon DEF MapThenSumSet, MapThenFoldSet, SumOf, IsSum, Pick

(* and for what matches hold in escrow. *)
LEMMA EscrowSum ==
    ASSUME IsFiniteSet(Matches)
    PROVE  MapThenSumSet(Escrowed, Matches) = SumOf(EscrowOf, Matches)
<1> DEFINE P(g) == g = [s \in SUBSET Matches |->
                          IF s = {} THEN 0 ELSE Escrowed(Pick(s)) + g[s \ {Pick(s)}]]
<1>1. \A s \in SUBSET Matches : s # {} => EscrowOf[Pick(s)] = Escrowed(Pick(s))
  BY DEF EscrowOf, Pick
<1>2. \A g : P(g) <=> IsSum(EscrowOf, Matches, g)
  <2> HIDE DEF EscrowOf
  <2>1. ASSUME NEW g
        PROVE  [s \in SUBSET Matches |->
                  IF s = {} THEN 0 ELSE Escrowed(Pick(s)) + g[s \ {Pick(s)}]]
               = [s \in SUBSET Matches |->
                  IF s = {} THEN 0 ELSE EscrowOf[Pick(s)] + g[s \ {Pick(s)}]]
    BY <1>1
  <2>2. QED
    BY <2>1 DEF IsSum
<1>3. \E g : P(g)
  <2> HIDE DEF P
  <2>1. QED
    BY <1>2, SumExists
<1>4. P(CHOOSE g : P(g))
  <2> HIDE DEF P
  <2>1. QED
    BY <1>3
<1>5. IsSum(EscrowOf, Matches, CHOOSE g : P(g))
  <2> HIDE DEF P
  <2>1. QED
    BY <1>2, <1>4
<1>6. (CHOOSE g : P(g))[Matches] = SumOf(EscrowOf, Matches)
  <2> HIDE DEF P
  <2>1. QED
    BY <1>5, SumUnique
<1>7. MapThenSumSet(Escrowed, Matches) = (CHOOSE g : P(g))[Matches]
  BY Zenon DEF MapThenSumSet, MapThenFoldSet, Pick
<1>8. QED
  BY <1>6, <1>7

(* One entry of an account changes, or two do.                             *)
LEMMA EntryChange ==
    ASSUME NEW S, IsFiniteSet(S), NEW f \in [S -> Int], NEW x \in S, NEW n \in Int
    PROVE  /\ SumOf([f EXCEPT ![x] = n], S) = SumOf(f, S) + (n - f[x])
           /\ SumOf(f, S) \in Int
<1> DEFINE g == [f EXCEPT ![x] = n]
<1>1. /\ \A y \in S : f[y] \in Int /\ g[y] \in Int
      /\ \A y \in S \ {x} : f[y] = g[y]
      /\ g[x] = n
  OBVIOUS
<1>2. SumOf(f, S) \in Int
  BY SumType
<1>3. SumOf(g, S) = SumOf(f, S) + (g[x] - f[x])
  <2> HIDE DEF g
  <2>1. QED
    BY <1>1, SumChange
<1>4. QED
  BY <1>1, <1>2, <1>3

(* A payment of a to x and of b to y.                                      *)
TwoPaid(f, x, a, y, b) == [f EXCEPT ![x] = @ + a, ![y] = @ + b]

(* Paying a to x and b to another entry y adds a + b to the sum.            *)
LEMMA TwoEntriesChange ==
    ASSUME NEW S, IsFiniteSet(S), NEW f \in [S -> Nat], NEW x \in S, NEW y \in S, x # y,
           NEW a \in Nat, NEW b \in Nat
    PROVE  SumOf(TwoPaid(f, x, a, y, b), S) = SumOf(f, S) + a + b
<1> DEFINE n == f[x] + a
           o == f[y] + b
           g == [f EXCEPT ![x] = n]
           h == [g EXCEPT ![y] = o]
<1>0. \A k \in [S -> Int], z \in S, i \in Int :
         SumOf([k EXCEPT ![z] = i], S) = SumOf(k, S) + (i - k[z]) /\ SumOf(k, S) \in Int
  BY EntryChange
<1>1. /\ f \in [S -> Int] /\ g \in [S -> Int] /\ n \in Int /\ o \in Int
      /\ f[x] \in Int /\ f[y] \in Int
  OBVIOUS
<1>2. g[y] = f[y] /\ h = TwoPaid(f, x, a, y, b)
  BY DEF TwoPaid
<1>3. SumOf(g, S) = SumOf(f, S) + (n - f[x]) /\ SumOf(f, S) \in Int
  <2> HIDE DEF n
  <2>1. QED
    BY <1>0, <1>1
<1>4. SumOf(h, S) = SumOf(g, S) + (o - g[y])
  <2> HIDE DEF g, o
  <2>1. QED
    BY <1>0, <1>1
<1>5. SumOf(h, S) = SumOf(f, S) + a + b
  <2> HIDE DEF g, h
  <2>1. QED
    BY <1>1, <1>2, <1>3, <1>4
<1>6. QED
  BY <1>2, <1>5

(* What a match's change of status does to the escrow.                     *)
LEMMA EscrowChange ==
    ASSUME IInv, NEW m \in Matches, NEW s, NEW n \in Nat,
           mstatus' = [mstatus EXCEPT ![m] = s], wager' = [wager EXCEPT ![m] = n],
           IsFiniteSet(Matches)
    PROVE  /\ SumOf(EscrowOf', Matches) = SumOf(EscrowOf, Matches)
                 + ((CASE s = "waiting" -> n [] s = "active" -> 2 * n [] OTHER -> 0)
                    - Escrowed(m))
           /\ SumOf(EscrowOf, Matches) \in Int /\ Escrowed(m) \in Nat
<1> DEFINE e == CASE s = "waiting" -> n [] s = "active" -> 2 * n [] OTHER -> 0
<1>1. /\ mstatus \in [Matches -> {"none", "waiting", "active", "completed"}]
      /\ wager \in [Matches -> Nat]
  BY DEF IInv, DocsTyped
<1>2. \A k \in Matches : Escrowed(k) \in Nat
  BY <1>1 DEF Escrowed, Pot
<1>3. EscrowOf \in [Matches -> Int] /\ EscrowOf[m] = Escrowed(m)
  BY <1>2 DEF EscrowOf
<1>4. e \in Int
  OBVIOUS
<1>5. EscrowOf' = [EscrowOf EXCEPT ![m] = e]
  <2>1. \A k \in Matches : k # m => Escrowed(k)' = Escrowed(k)
    BY <1>1 DEF Escrowed
  <2>2. Escrowed(m)' = e
    BY <1>1 DEF Escrowed, Pot
  <2>3. EscrowOf' = [k \in Matches |-> Escrowed(k)']
    BY DEF EscrowOf
  <2>4. EscrowOf = [k \in Matches |-> Escrowed(k)]
    BY DEF EscrowOf
  <2> HIDE DEF e
  <2>5. QED
    BY <2>1, <2>2, <2>3, <2>4
<1>6. SumOf(EscrowOf', Matches) = SumOf(EscrowOf, Matches) + (e - EscrowOf[m])
      /\ SumOf(EscrowOf, Matches) \in Int
  <2> HIDE DEF e
  <2>1. QED
    BY <1>3, <1>4, <1>5, EntryChange
<1>7. QED
  BY <1>2, <1>3, <1>6

(* A step of each kind, seen from the accounts.                            *)
LEMMA SitAddsUp ==
    ASSUME IInv, Accounts, SomeSit, IsFiniteSet(Users), IsFiniteSet(Matches)
    PROVE  Accounts'
<1>1. PICK m \in Matches, u \in Users :
         /\ mstatus[m] # "completed" /\ reason' = reason /\ house' = house
         /\ \E s \in {"waiting", "active"}, n \in Nat :
              /\ mstatus' = [mstatus EXCEPT ![m] = s]
              /\ wager' = [wager EXCEPT ![m] = n]
              /\ balance' = [balance EXCEPT ![u] = @ - n] /\ balance[u] >= n
              /\ (CASE s = "waiting" -> n [] s = "active" -> 2 * n [] OTHER -> 0) - Escrowed(m) = n
  <2>1. PICK m \in Matches, u \in Users :
           (\E w \in Wagers : CreateMatch(m, u, w)) \/ JoinMatch(m, u)
    BY DEF SomeSit
  <2>2. ASSUME NEW w \in Wagers, CreateMatch(m, u, w)
        PROVE  /\ mstatus[m] # "completed" /\ reason' = reason /\ house' = house
               /\ w \in Nat
               /\ mstatus' = [mstatus EXCEPT ![m] = "waiting"]
               /\ wager' = [wager EXCEPT ![m] = w]
               /\ balance' = [balance EXCEPT ![u] = @ - w] /\ balance[u] >= w
               /\ Escrowed(m) = 0
    BY <2>2, SettlementAssumption DEF CreateMatch, Covers, Escrowed
  <2>3. CASE \E w \in Wagers : CreateMatch(m, u, w)
    <3>1. PICK w \in Wagers : CreateMatch(m, u, w)
      BY <2>3
    <3>2. w - 0 = w
      BY <2>2, <3>1
    <3>3. QED
      BY <2>2, <3>1, <3>2
  <2>4. CASE JoinMatch(m, u)
    <3>1. /\ mstatus[m] = "waiting" /\ wager[m] \in Nat
          /\ wager' = [wager EXCEPT ![m] = wager[m]]
      <4>1. mstatus[m] \in {"waiting", "active"} /\ player2[m] = NoUser
        BY <2>4 DEF JoinMatch, Joinable
      <4>2. mstatus[m] # "active"
        BY <4>1, SettlementAssumption DEF IInv, Seating, SeatsOf
      <4>3. QED
        BY <2>4, <4>1, <4>2 DEF JoinMatch, IInv, DocsTyped
    <3>2. Escrowed(m) = wager[m] /\ 2 * wager[m] - wager[m] = wager[m]
      BY <3>1 DEF Escrowed
    <3>3. QED
      BY <2>4, <3>1, <3>2 DEF JoinMatch, Covers
  <2>5. QED
    BY <2>1, <2>3, <2>4
<1>2. PICK s \in {"waiting", "active"}, n \in Nat :
         /\ mstatus' = [mstatus EXCEPT ![m] = s]
         /\ wager' = [wager EXCEPT ![m] = n]
         /\ balance' = [balance EXCEPT ![u] = @ - n] /\ balance[u] >= n
         /\ (CASE s = "waiting" -> n [] s = "active" -> 2 * n [] OTHER -> 0) - Escrowed(m) = n
  BY <1>1
<1>3. /\ SumOf(EscrowOf', Matches) = SumOf(EscrowOf, Matches) + n
      /\ SumOf(EscrowOf, Matches) \in Int
  BY <1>2, EscrowChange
<1>4. /\ SumOf(balance', Users) = SumOf(balance, Users) + ((balance[u] - n) - balance[u])
      /\ SumOf(balance, Users) \in Int
  <2> DEFINE o == balance[u] - n
  <2>1. balance \in [Users -> Int] /\ o \in Int /\ balance' = [balance EXCEPT ![u] = o]
    BY <1>2 DEF IInv, MoneyTyped
  <2> HIDE DEF o
  <2>2. SumOf(balance', Users) = SumOf(balance, Users) + (o - balance[u])
        /\ SumOf(balance, Users) \in Int
    BY <2>1, EntryChange
  <2>3. QED
    BY <2>2 DEF o
<1>5. house \in Nat /\ balance[u] \in Nat /\ house' = house
  BY <1>1 DEF IInv, MoneyTyped
<1>6. HeldIn' = HeldIn
  BY <1>2, <1>3, <1>4, <1>5 DEF HeldIn
<1>7. Drawn' = Drawn /\ DrawnIsSettled'
  BY <1>1, <1>2 DEF Accounts, DrawnIsSettled, Drawn, IInv, DocsTyped
<1>8. QED
  BY <1>6, <1>7 DEF Accounts, MoneyAddsUp

(* Money adds up when a match is called off, *)
LEMMA CallOffAddsUp ==
    ASSUME IInv, Accounts, SomeCallOff, IsFiniteSet(Users), IsFiniteSet(Matches)
    PROVE  Accounts'
<1>1. PICK m \in Matches, why \in {"resigned", "waiting_expired"} : CallsOff(m, why)
  BY DEF SomeCallOff
<1> DEFINE u == player1[m]
           n == wager[m]
<1>2. /\ u \in Users /\ n \in Nat /\ Escrowed(m) = n /\ mstatus[m] = "waiting"
      /\ balance' = [balance EXCEPT ![u] = @ + n] /\ house' = house
      /\ mstatus' = [mstatus EXCEPT ![m] = "completed"]
      /\ wager' = [wager EXCEPT ![m] = n]
      /\ reason' = [reason EXCEPT ![m] = why]
  BY <1>1 DEF CallsOff, CallOff, Close, IInv, DocsTyped, Seating, SeatsOf, Escrowed
<1> HIDE DEF u, n
<1>3. /\ SumOf(EscrowOf', Matches) = SumOf(EscrowOf, Matches) + (0 - n)
      /\ SumOf(EscrowOf, Matches) \in Int
  <2>1. (CASE "completed" = "waiting" -> n [] "completed" = "active" -> 2 * n [] OTHER -> 0) = 0
    OBVIOUS
  <2>2. QED
    BY <1>2, <2>1, EscrowChange
<1>4. /\ SumOf(balance', Users) = SumOf(balance, Users) + ((balance[u] + n) - balance[u])
      /\ SumOf(balance, Users) \in Int
  <2> DEFINE o == balance[u] + n
  <2>1. balance \in [Users -> Int] /\ o \in Int /\ balance' = [balance EXCEPT ![u] = o]
    BY <1>2 DEF IInv, MoneyTyped
  <2> HIDE DEF o
  <2>2. SumOf([balance EXCEPT ![u] = o], Users) = SumOf(balance, Users) + (o - balance[u])
        /\ SumOf(balance, Users) \in Int
    <3>1. \A f \in [Users -> Int], z \in Users, i \in Int :
             SumOf([f EXCEPT ![z] = i], Users) = SumOf(f, Users) + (i - f[z])
             /\ SumOf(f, Users) \in Int
      BY EntryChange
    <3>2. QED
      BY <1>2, <2>1, <3>1
  <2>3. QED
    BY <2>1, <2>2 DEF o
<1>5. house \in Nat /\ balance[u] \in Nat
  BY <1>2 DEF IInv, MoneyTyped
<1>6. HeldIn' = HeldIn
  BY <1>2, <1>3, <1>4, <1>5 DEF HeldIn
<1>7. reason[m] = "none"
  BY <1>2 DEF Accounts, DrawnIsSettled
<1>8. Drawn' = Drawn /\ DrawnIsSettled'
  BY <1>2, <1>7 DEF Accounts, DrawnIsSettled, Drawn, IInv, DocsTyped
<1>9. QED
  BY <1>6, <1>8 DEF Accounts, MoneyAddsUp

(* and when one is settled. *)
LEMMA SettleAddsUp ==
    ASSUME IInv, Accounts, SomeSettle, IsFiniteSet(Users), IsFiniteSet(Matches)
    PROVE  Accounts'
<1>1. PICK m \in Matches, w \in Users \cup {Draw}, why \in Reasons, h \in Seq(Moves) :
          Settles(m, w, why, h)
  BY DEF SomeSettle
<1>2. /\ player1[m] \in Users /\ player2[m] \in Users /\ player1[m] # player2[m]
      /\ SharesPot(m, why)
  BY <1>1, SettlementShares
<1> DEFINE n == wager[m]
           x == player1[m]
           y == player2[m]
<1>3. PICK a \in 0 .. 2 * n, lost \in {0, 1} :
         \E b \in 0 .. (2 * n - a - lost) : Shared(m, a, b, lost) /\ (lost = 1 => why = "draw")
  BY <1>2 DEF SharesPot
<1>4. PICK b \in 0 .. (2 * n - a - lost) : Shared(m, a, b, lost) /\ (lost = 1 => why = "draw")
  BY <1>3
<1>5. /\ n \in Nat /\ a \in Nat /\ b \in Nat /\ lost \in Nat
      /\ Escrowed(m) = 2 * n /\ mstatus[m] = "active"
      /\ mstatus' = [mstatus EXCEPT ![m] = "completed"]
      /\ wager' = [wager EXCEPT ![m] = n]
      /\ reason' = [reason EXCEPT ![m] = why]
  <2>1. n \in Nat
    BY DEF IInv, DocsTyped
  <2>2. a \in Nat /\ lost \in Nat /\ b \in Nat
    BY <2>1, <1>4
  <2>3. QED
    BY <1>1, <2>1, <2>2 DEF Settles, Close, IInv, DocsTyped, Escrowed, Pot
<1>6. /\ balance' = [balance EXCEPT ![x] = @ + a, ![y] = @ + b]
      /\ house' = house + (2 * n - a - b - lost)
  BY <1>4 DEF Shared
<1>20. x \in Users /\ y \in Users /\ x # y
  BY <1>2
<1> HIDE DEF n, x, y
<1>7. /\ SumOf(EscrowOf', Matches) = SumOf(EscrowOf, Matches) + (0 - 2 * n)
      /\ SumOf(EscrowOf, Matches) \in Int
  <2>1. (CASE "completed" = "waiting" -> n [] "completed" = "active" -> 2 * n [] OTHER -> 0) = 0
    OBVIOUS
  <2>2. QED
    BY <1>5, <2>1, EscrowChange
<1>8. /\ SumOf(balance', Users) = SumOf(balance, Users) + a + b
      /\ SumOf(balance, Users) \in Int
  <2>1. balance \in [Users -> Nat] /\ \A v \in Users : balance[v] \in Int
    BY DEF IInv, MoneyTyped
  <2>2. SumOf(TwoPaid(balance, x, a, y, b), Users) = SumOf(balance, Users) + a + b
    BY <1>20, <1>5, <2>1, TwoEntriesChange
  <2>3. balance' = TwoPaid(balance, x, a, y, b)
    BY <1>6 DEF TwoPaid
  <2>4. QED
    BY <2>1, <2>2, <2>3, SumType
<1>9. house \in Nat
  BY DEF IInv, MoneyTyped
<1>10. HeldIn' = HeldIn - lost /\ HeldIn \in Int
  BY <1>5, <1>6, <1>7, <1>8, <1>9 DEF HeldIn
<1>11. reason[m] = "none"
  BY <1>5 DEF Accounts, DrawnIsSettled
<1>12. DrawnIsSettled'
  BY <1>5 DEF Accounts, DrawnIsSettled, IInv, DocsTyped
<1>13. /\ Cardinality(Drawn') \in Nat /\ Cardinality(Drawn) \in Nat
       /\ Cardinality(Drawn') >= Cardinality(Drawn) + lost
  <2>1. IsFiniteSet(Drawn) /\ Cardinality(Drawn) \in Nat
    BY FS_Subset, FS_CardinalityType DEF Drawn
  <2>2. CASE why = "draw"
    <3>1. Drawn' = Drawn \cup {m} /\ m \notin Drawn
      BY <1>5, <1>11, <2>2 DEF Drawn, IInv, DocsTyped
    <3>2. Cardinality(Drawn') = Cardinality(Drawn) + 1
      BY <2>1, <3>1, FS_AddElement
    <3>3. QED
      BY <2>1, <3>2
  <2>3. CASE why # "draw"
    <3>1. Drawn' = Drawn /\ lost = 0
      BY <1>4, <1>5, <1>11, <2>3 DEF Drawn, IInv, DocsTyped
    <3>2. QED
      BY <2>1, <3>1
  <2>4. QED
    BY <2>2, <2>3
<1>14. SumOf(InitialBalance, Users) \in Int
  <2>1. \A v \in Users : InitialBalance[v] \in Int
    BY SettlementAssumption
  <2>2. QED
    BY <2>1, SumType
<1>15. MoneyAddsUp'
  <2>1. SumOf(InitialBalance, Users) - HeldIn \in 0 .. Cardinality(Drawn)
    BY DEF Accounts, MoneyAddsUp
  <2>2. SumOf(InitialBalance, Users) - HeldIn' \in 0 .. Cardinality(Drawn')
    BY <1>5, <1>10, <1>13, <1>14, <2>1
  <2>3. QED
    BY <2>2 DEF MoneyAddsUp
<1>16. QED
  BY <1>12, <1>15 DEF Accounts

(* Every step keeps the accounts. *)
LEMMA StepAddsUp ==
    ASSUME IInv, Accounts, [SettlementNext]_settlementVars,
           IsFiniteSet(Users), IsFiniteSet(Matches)
    PROVE  Accounts'
<1>1. CASE SomePersist \/ NoneTouched \/ UNCHANGED settlementVars
  <2>1. UNCHANGED <<mstatus, wager, reason, balance, house>>
    BY <1>1 DEF SomePersist, PersistMoveHistory, NoneTouched, settlementVars, docVars, moneyVars
  <2>2. EscrowOf' = EscrowOf /\ Drawn' = Drawn
    BY <2>1 DEF EscrowOf, Escrowed, Drawn
  <2>3. QED
    BY <2>1, <2>2 DEF Accounts, DrawnIsSettled, MoneyAddsUp, HeldIn
<1>2. QED
  BY <1>1, Kinds, SitAddsUp, CallOffAddsUp, SettleAddsUp

(* However creations, joins, moves, resignations and expiries interleave,  *)
(* the balances, the commission and the open stakes add up to what the     *)
(* users brought, less at most one raw unit a draw (debit, payout and      *)
(* refund under the guards of their transactions).                         *)
THEOREM MatchBooksAddUp ==
    ASSUME IsFiniteSet(Users), IsFiniteSet(Matches)
    PROVE  SettlementSpec => []MatchBooksOK
<1>1. SettlementInit => Accounts
  <2> SUFFICES ASSUME SettlementInit PROVE Accounts
    OBVIOUS
  <2>1. DrawnIsSettled /\ Drawn = {} /\ balance = InitialBalance /\ house = 0
    BY DEF SettlementInit, DrawnIsSettled, Drawn
  <2>2. \A m \in Matches : EscrowOf[m] = 0
    BY DEF SettlementInit, EscrowOf, Escrowed
  <2>3. SumOf(EscrowOf, Matches) = 0
    BY <2>2, SumZero
  <2>4. SumOf(InitialBalance, Users) \in Int
    <3>1. \A v \in Users : InitialBalance[v] \in Int
      BY SettlementAssumption
    <3>2. QED
      BY <3>1, SumType
  <2>5. Cardinality(Drawn) = 0
    BY <2>1, FS_EmptySet
  <2>6. MoneyAddsUp
    BY <2>1, <2>3, <2>4, <2>5 DEF MoneyAddsUp, HeldIn
  <2>7. QED
    BY <2>1, <2>6 DEF Accounts
<1>2. IInv /\ Accounts /\ [SettlementNext]_settlementVars => Accounts'
  BY StepAddsUp
<1>3. Accounts => FundsConserved
  BY BalanceSum, InitialSum, EscrowSum DEF Accounts, MoneyAddsUp, HeldIn, FundsConserved
<1>4. QED
  BY <1>1, <1>2, <1>3, SettlementInvariant, SettlementTypeCorrect, PTL
     DEF SettlementSpec, MatchBooksOK

-----------------------------------------------------------------------------
(* Rooms. *)

(* A history as a game of p, who begins, and q. *)
Mover(i, p, q) == IF i % 2 = 1 THEN p ELSE q

Game(h, p, q) == \A i \in 1 .. Len(h) :
    /\ h[i].by = Mover(i, p, q)
    /\ h[i].row = LandingRow(BoardOf(SubSeq(h, 1, i - 1), p, q), h[i].col)

Disc(x, p) == IF x.by = p THEN "R" ELSE "B"

Dropped(board, x, symbol) == [board EXCEPT ![<<x.row, x.col>>] = symbol]

LineOf(h, i, p, q) ==
    CheckWin(BoardOf(SubSeq(h, 1, i), p, q), h[i].row, h[i].col, Disc(h[i], p))

NoLineUpTo(h, n, p, q) == \A i \in 1 .. n : LineOf(h, i, p, q) = <<>>

(* The game ends with its last move, for w. *)
EndsFor(h, w, p, q) ==
    /\ Len(h) > 0
    /\ NoLineUpTo(h, Len(h) - 1, p, q)
    /\ \/ w # Draw /\ w = h[Len(h)].by /\ LineOf(h, Len(h), p, q) # <<>>
       \/ w = Draw /\ Len(h) = Rows * Cols /\ LineOf(h, Len(h), p, q) = <<>>

-----------------------------------------------------------------------------
(* Prefixes. *)
LEMMA PrefixMeans ==
    ASSUME NEW h \in Seq(Moves), NEW g \in Seq(Moves)
    PROVE  IsPrefix(h, g) <=> /\ Len(h) <= Len(g)
                              /\ \A i \in 1 .. Len(h) : h[i] = g[i]
<1>1. Len(h) \in Nat /\ Len(g) \in Nat
  OBVIOUS
<1>2. CASE Len(h) <= Len(g)
  <2>1. /\ SubSeq(h, 1, Len(h)) \in Seq(Moves) /\ SubSeq(g, 1, Len(h)) \in Seq(Moves)
        /\ Len(SubSeq(h, 1, Len(h))) = Len(h) /\ Len(SubSeq(g, 1, Len(h))) = Len(h)
        /\ \A i \in 1 .. Len(h) : /\ SubSeq(h, 1, Len(h))[i] = h[i]
                                  /\ SubSeq(g, 1, Len(h))[i] = g[i]
    BY <1>1, <1>2
  <2>2. SubSeq(h, 1, Len(h)) = SubSeq(g, 1, Len(h)) <=> \A i \in 1 .. Len(h) : h[i] = g[i]
    BY <2>1, SeqEqual
  <2> QED BY <1>2, <2>2 DEF IsPrefix
<1> QED BY <1>2 DEF IsPrefix

(* A sequence is a prefix of itself and of its extensions. *)
LEMMA PrefixGrows ==
    ASSUME NEW h \in Seq(Moves)
    PROVE  IsPrefix(h, h) /\ \A x \in Moves : IsPrefix(h, Append(h, x))
<1>1. \A x \in Moves : /\ Append(h, x) \in Seq(Moves) /\ Len(Append(h, x)) = Len(h) + 1
                       /\ \A i \in 1 .. Len(h) : Append(h, x)[i] = h[i]
  OBVIOUS
<1>2. Len(h) \in Nat
  OBVIOUS
<1>3. ASSUME NEW x \in Moves PROVE IsPrefix(h, Append(h, x))
  <2>1. PICK g \in Seq(Moves) : g = Append(h, x)
    BY <1>1
  <2>2. Len(g) = Len(h) + 1 /\ \A i \in 1 .. Len(h) : h[i] = g[i]
    BY <1>1, <2>1
  <2>3. IsPrefix(h, g)
    BY <1>2, <2>2, PrefixMeans
  <2> QED BY <2>1, <2>3
<1>4. IsPrefix(h, h)
  BY <1>2, PrefixMeans
<1> QED BY <1>3, <1>4

(* A prefix of a prefix is a prefix. *)
LEMMA PrefixChain ==
    ASSUME NEW f \in Seq(Moves), NEW g \in Seq(Moves), NEW h \in Seq(Moves),
           IsPrefix(f, g), IsPrefix(g, h)
    PROVE  IsPrefix(f, h)
<1>1. Len(f) \in Nat /\ Len(g) \in Nat /\ Len(h) \in Nat
  OBVIOUS
<1> QED BY <1>1, PrefixMeans

(* A prefix of the same length is the whole. *)
LEMMA PrefixWhole ==
    ASSUME NEW g \in Seq(Moves), NEW h \in Seq(Moves), IsPrefix(g, h), Len(g) = Len(h)
    PROVE  g = h
BY PrefixMeans, SeqEqual

-----------------------------------------------------------------------------
(* The board. *)

(* The greatest element of a set of small numbers. *)
LEMMA Highest ==
    ASSUME NEW n \in Nat, NEW S \in SUBSET (0 .. n), S # {}
    PROVE  Max(S) \in S /\ \A x \in S : x <= Max(S)
<1> DEFINE T == {n - x : x \in S}
<1>1. T \in SUBSET Nat /\ T # {}
  OBVIOUS
<1>2. PICK k \in T : \A m \in T : k <= m
  BY <1>1, Least
<1>3. PICK x \in S : k = n - x
  BY <1>2
<1>4. \A y \in S : x >= y
  BY <1>2, <1>3
<1>5. \E z \in S : \A y \in S : z >= y
  BY <1>4
<1> QED BY <1>5 DEF Max

(* A disc falls to a free cell. *)
LEMMA DiscFalls ==
    ASSUME NEW board, NEW col, LandingRow(board, col) # -1
    PROVE  /\ LandingRow(board, col) \in 0 .. Rows - 1
           /\ board[<<LandingRow(board, col), col>>] = "_"
<1> DEFINE free == {r \in 0 .. Rows - 1 : board[<<r, col>>] = "_"}
<1>1. LandingRow(board, col) = IF free = {} THEN -1 ELSE Max(free)
  BY DEF LandingRow
<1>2. free # {} /\ LandingRow(board, col) = Max(free)
  BY <1>1
<1>3. Rows - 1 \in Nat
  BY BoardAssumption
<1>4. free \in SUBSET (0 .. Rows - 1)
  OBVIOUS
<1>5. Max(free) \in free
  BY <1>2, <1>3, <1>4, Highest
<1> QED BY <1>2, <1>5

(* The board after one more move. *)
LEMMA BoardGrows ==
    ASSUME NEW h \in Seq(Moves), NEW p, NEW q, NEW x \in Moves, x.by \in {p, q}
    PROVE  BoardOf(Append(h, x), p, q) = Dropped(BoardOf(h, p, q), x, Disc(x, p))
<1> DEFINE g == Append(h, x)
           n == Len(h)
<1>1. /\ n \in Nat /\ g \in Seq(Moves) /\ Len(g) = n + 1 /\ g[n + 1] = x
      /\ \A i \in 1 .. n : g[i] = h[i]
      /\ DOMAIN g = 1 .. n + 1 /\ DOMAIN h = 1 .. n
  OBVIOUS
<1>2. ASSUME NEW cell \in Cells
      PROVE  /\ cell = <<x.row, x.col>> => BoardOf(g, p, q)[cell] = Disc(x, p)
             /\ cell # <<x.row, x.col>> => BoardOf(g, p, q)[cell] = BoardOf(h, p, q)[cell]
  <2> DEFINE S == Marks(g, p, q, cell)
             T == Marks(h, p, q, cell)
  <2>1. /\ BoardOf(g, p, q)[cell] = IF S = {} THEN "_" ELSE IF g[Max(S)].by = p THEN "R" ELSE "B"
        /\ BoardOf(h, p, q)[cell] = IF T = {} THEN "_" ELSE IF h[Max(T)].by = p THEN "R" ELSE "B"
    BY DEF BoardOf
  <2>2. T \in SUBSET (1 .. n) /\ T \in SUBSET (0 .. n + 1) /\ S \in SUBSET (0 .. n + 1)
    BY <1>1 DEF Marks
  <2>3. CASE cell = <<x.row, x.col>>
    <3>1. n + 1 \in S
      BY <1>1, <2>3 DEF Marks
    <3>2. Max(S) \in S /\ Max(S) >= n + 1
      <4>1. n + 1 \in Nat /\ S # {}
        BY <1>1, <3>1
      <4> HIDE DEF S
      <4> QED BY <2>2, <3>1, <4>1, Highest
    <3>3. Max(S) = n + 1
      BY <1>1, <2>2, <3>2
    <3> QED BY <1>1, <2>1, <2>3, <3>1, <3>3 DEF Disc
  <2>4. CASE cell # <<x.row, x.col>>
    <3>1. S = T
      <4>1. \A i \in 1 .. n : i \in S <=> i \in T
        BY <1>1 DEF Marks
      <4>2. n + 1 \notin S
        BY <1>1, <2>4 DEF Marks
      <4>3. S \in SUBSET (1 .. n + 1)
        BY <1>1 DEF Marks
      <4>4. \A i \in 1 .. n + 1 : i \in 1 .. n \/ i = n + 1
        BY <1>1
      <4>5. n + 1 \notin T
        BY <1>1, <2>2
      <4> HIDE DEF S, T
      <4> QED BY <2>2, <4>1, <4>2, <4>3, <4>4, <4>5
    <3>2. T # {} => Max(T) \in 1 .. n
      <4> HIDE DEF T
      <4>1. n \in Nat /\ T \in SUBSET (0 .. n)
        BY <1>1, <2>2
      <4>2. T # {} => Max(T) \in T
        BY <4>1, Highest
      <4> QED BY <2>2, <4>2
    <3> QED BY <1>1, <2>1, <2>4, <3>1, <3>2
  <2> QED BY <2>3, <2>4
<1>3. x.row \in 0 .. Rows - 1 /\ x.col \in 0 .. Cols - 1
  BY RoomAssumption
<1>4. /\ BoardOf(g, p, q) = [cell \in Cells |-> BoardOf(g, p, q)[cell]]
      /\ BoardOf(h, p, q) = [cell \in Cells |-> BoardOf(h, p, q)[cell]]
  BY DEF BoardOf
<1> QED BY <1>2, <1>3, <1>4 DEF Cells, Dropped

-----------------------------------------------------------------------------
(* Games. *)

(* The line of a move depends on the moves up to it. *)
LEMMA EarlierLines ==
    ASSUME NEW h \in Seq(Moves), NEW x \in Moves, NEW p, NEW q, NEW i \in 1 .. Len(h)
    PROVE  LineOf(Append(h, x), i, p, q) = LineOf(h, i, p, q)
<1>1. Append(h, x)[i] = h[i] /\ SubSeq(Append(h, x), 1, i) = SubSeq(h, 1, i)
  OBVIOUS
<1> QED BY <1>1 DEF LineOf

(* A move on turn that falls to a free cell continues a game. *)
LEMMA GameGrows ==
    ASSUME NEW h \in Seq(Moves), NEW p, NEW q, NEW x \in Moves,
           Game(h, p, q), x.by = Mover(Len(h) + 1, p, q),
           x.row = LandingRow(BoardOf(h, p, q), x.col)
    PROVE  /\ Game(Append(h, x), p, q)
           /\ LineOf(Append(h, x), Len(h) + 1, p, q) =
                  CheckWin(Dropped(BoardOf(h, p, q), x, Disc(x, p)),
                           x.row, x.col, Disc(x, p))
<1> DEFINE g == Append(h, x)
           n == Len(h)
<1>1. /\ n \in Nat /\ Len(g) = n + 1 /\ g[n + 1] = x
      /\ \A i \in 1 .. n : g[i] = h[i] /\ SubSeq(g, 1, i - 1) = SubSeq(h, 1, i - 1)
      /\ SubSeq(g, 1, (n + 1) - 1) = h /\ SubSeq(g, 1, n + 1) = g
  OBVIOUS
<1>2. Game(g, p, q)
  <2> SUFFICES ASSUME NEW i \in 1 .. n + 1
               PROVE  /\ g[i].by = Mover(i, p, q)
                      /\ g[i].row = LandingRow(BoardOf(SubSeq(g, 1, i - 1), p, q), g[i].col)
    BY <1>1 DEF Game
  <2>1. CASE i = n + 1
    BY <1>1, <2>1
  <2>2. CASE i \in 1 .. n
    BY <1>1, <2>2 DEF Game
  <2> QED BY <1>1, <2>1, <2>2
<1>3. x.by \in {p, q}
  BY DEF Mover
<1>4. BoardOf(g, p, q) = Dropped(BoardOf(h, p, q), x, Disc(x, p))
  BY <1>3, BoardGrows
<1> QED BY <1>1, <1>2, <1>4 DEF LineOf

(* No two moves of a game are on one cell, so that it is not longer than   *)
(* the board is large.                                                     *)
LEMMA GameIsShort ==
    ASSUME NEW h \in Seq(Moves), NEW p, NEW q, Game(h, p, q)
    PROVE  Len(h) <= Rows * Cols
<1> DEFINE n == Len(h)
           at == [i \in 1 .. n |-> <<h[i].row, h[i].col>>]
<1>1. /\ n \in Nat /\ \A i \in 1 .. n : h[i] \in Moves
      /\ \A i \in 1 .. n : h[i].row \in 0 .. Rows - 1 /\ h[i].col \in 0 .. Cols - 1
  <2>1. n \in Nat /\ \A i \in 1 .. n : h[i] \in Moves
    OBVIOUS
  <2> QED BY <2>1, RoomAssumption
<1>2. at \in [1 .. n -> Cells]
  BY <1>1 DEF Cells
<1>3. ASSUME NEW i \in 1 .. n, NEW j \in 1 .. n, j < i
      PROVE  at[i] # at[j]
  <2> DEFINE g == SubSeq(h, 1, i - 1)
             board == BoardOf(g, p, q)
  <2>1. /\ g \in Seq(Moves) /\ j \in DOMAIN g /\ g[j] = h[j] /\ DOMAIN g = 1 .. i - 1
    BY <1>1, <1>3
  <2>2. h[i].row = LandingRow(board, h[i].col) /\ h[j].by \in {p, q}
    BY <1>1 DEF Game, Mover
  <2>3. LandingRow(board, h[i].col) # -1
    BY <1>1, <2>2
  <2>4. board[at[i]] = "_"
    BY <2>2, <2>3, DiscFalls
  <2>5. ASSUME at[i] = at[j] PROVE FALSE
    <3> DEFINE S == Marks(g, p, q, at[i])
    <3>1. j \in S
      BY <2>1, <2>2, <2>5 DEF Marks
    <3>2. at[i] \in Cells
      BY <1>2
    <3>3. board[at[i]] = IF S = {} THEN "_" ELSE IF g[Max(S)].by = p THEN "R" ELSE "B"
      BY <3>2 DEF BoardOf
    <3> QED BY <2>4, <3>1, <3>3
  <2> QED BY <2>5
<1>4. at \in Injection(1 .. n, Cells)
  <2>1. \A i, j \in 1 .. n : i = j \/ i < j \/ j < i
    BY <1>1
  <2>2. \A i, j \in 1 .. n : at[i] = at[j] => i = j
    <3> HIDE DEF at
    <3> QED BY <1>3, <2>1
  <2> HIDE DEF at
  <2> QED BY <1>2, <2>2 DEF Injection, IsInjective
<1>5. /\ IsFiniteSet(0 .. Rows - 1) /\ Cardinality(0 .. Rows - 1) = Rows
      /\ IsFiniteSet(0 .. Cols - 1) /\ Cardinality(0 .. Cols - 1) = Cols
  <2>1. {Rows, Cols} \subseteq Nat \ {0}
    BY BoardAssumption
  <2>2. Rows - 1 \in Int /\ Cols - 1 \in Int /\ ~(0 > Rows - 1) /\ ~(0 > Cols - 1)
        /\ (Rows - 1) - 0 + 1 = Rows /\ (Cols - 1) - 0 + 1 = Cols
    BY <2>1
  <2> QED BY <2>2, FS_Interval
<1>6. IsFiniteSet(Cells) /\ Cardinality(Cells) = Rows * Cols
  BY <1>5, FS_Product DEF Cells
<1>7. Cardinality(1 .. n) = n
  <2>1. n \in Int /\ 1 \in Int /\ (n = 0 \/ ~(1 > n)) /\ (1 > n => n = 0) /\ n - 1 + 1 = n
    BY <1>1
  <2> QED BY <2>1, FS_Interval
<1>8. Cardinality(1 .. n) <= Cardinality(Cells)
  <2> HIDE DEF at
  <2> QED BY <1>4, <1>6, FS_Injection
<1> QED BY <1>6, <1>7, <1>8

-----------------------------------------------------------------------------
(* The invariant. *)

(* A history says of its match what was played and how it ended. *)
DocStands(m) ==
    /\ mstatus[m] # "none" => player1[m] \in Users
    /\ player2[m] \in Users => mstatus[m] # "none" /\ player1[m] # player2[m]
    /\ player2[m] \notin Users => moves[m] = <<>>
    /\ reason[m] = "none" <=> mstatus[m] # "completed"
    /\ Game(moves[m], player1[m], player2[m])
    /\ reason[m] \in {"winner", "draw"} =>
         /\ EndsFor(moves[m], winner[m], player1[m], player2[m])
         /\ reason[m] = "draw" <=> winner[m] = Draw
    /\ reason[m] \notin {"winner", "draw"} =>
         NoLineUpTo(moves[m], Len(moves[m]), player1[m], player2[m])
    /\ reason[m] = "active_expired" /\ moves[m] # <<>> =>
         moves[m][Len(moves[m])].by = winner[m]

(* What a room of m may hold: the match before somebody joined, or a game  *)
(* of its two players, perhaps out of date.                                *)
Alone(r, m) == /\ r.players = <<player1[m]>>
               /\ r.moves = <<>>
               /\ r.status # "active"

Paired(r, m) == /\ r.players = <<player1[m], player2[m]>>
                /\ player1[m] \in Users /\ player2[m] \in Users /\ player1[m] # player2[m]
                /\ Game(r.moves, player1[m], player2[m])

Playing(r, m) == /\ r.turn = OnTurn(m, r.moves)
                 /\ NoLineUpTo(r.moves, Len(r.moves), player1[m], player2[m])

Copy(r, m) == /\ r \in RoomStates
              /\ mstatus[m] # "none"
              /\ \/ Alone(r, m)
                 \/ Paired(r, m) /\ (r.status = "active" => Playing(r, m))

Persistable(r, m) == Copy(r, m) /\ r.status = "active"

Completing(r, m) == /\ r \in RoomStates
                    /\ mstatus[m] # "none"
                    /\ Paired(r, m)
                    /\ EndsFor(r.moves, r.winner, player1[m], player2[m])

Steps == {"idle", "read", "fetch", "refresh", "complete", "persist", "latest",
          "store", "release"}

TaskStates == [pc : Steps, kind : {"join", "move"}, m : Matches \cup {0},
               user : Users \cup {NoUser}, col : 0 .. Cols - 1,
               doc : RoomStates \cup {NoRoom}, room : RoomStates \cup {NoRoom},
               reply : BOOLEAN]

(* What a handler at its step has in hand. *)
Stands(k) ==
    k.pc # "idle" =>
      /\ k.m \in Matches /\ mstatus[k.m] # "none"
      /\ k.pc \in {"read", "fetch", "refresh"} => k.user \in Users
      /\ k.pc \in {"fetch", "refresh"} => Copy(k.doc, k.m)
      /\ k.pc = "persist" => Persistable(k.room, k.m)
      /\ k.pc = "complete" => Completing(k.room, k.m)
      /\ k.pc = "store" => Copy(k.room, k.m)

RoomTyped ==
    /\ setting \in Settings
    /\ room \in [Matches -> RoomStates \cup {NoRoom}]
    /\ lock \in [Matches -> Tasks \cup {NoTask}]
    /\ task \in [Tasks -> TaskStates]
    /\ lapses \in 0 .. setting.lapses
    /\ crashes \in 0 .. setting.crashes
    /\ shown \in [Matches -> Seq(Moves)]

DocsStand  == \A m \in Matches : DocStands(m)
RoomsStand == \A m \in Matches : room[m] # NoRoom => Copy(room[m], m)
TasksStand == \A t \in Tasks : Stands(task[t])

GInv == IInv /\ RoomTyped /\ DocsStand /\ RoomsStand /\ TasksStand

-----------------------------------------------------------------------------
(* What becomes of a match. *)

(* Who sits in a match stays, and so does all of one that is completed. *)
Kept(m) ==
    /\ mstatus[m] # "none" => mstatus'[m] # "none" /\ player1'[m] = player1[m]
    /\ player2[m] \in Users => player2'[m] = player2[m]
    /\ mstatus[m] = "completed" => mstatus'[m] = "completed" /\ RoomOf(m)' = RoomOf(m)

(* Matches are kept by every step of MatchSettlement. *)
LEMMA MatchesKept ==
    ASSUME IInv, [SettlementNext]_settlementVars, NEW m \in Matches
    PROVE  Kept(m)
<1> USE DEF IInv, DocsTyped, Kept, RoomOf, OnTurn
<1>0. SeatsOf(m) /\ NoUser \notin Users
  BY SettlementAssumption DEF Seating
<1>1. CASE SomeSit
  <2>1. PICK n \in Matches, u \in Users :
            (\E w \in Wagers : CreateMatch(n, u, w)) \/ JoinMatch(n, u)
    BY <1>1 DEF SomeSit
  <2>2. CASE \E w \in Wagers : CreateMatch(n, u, w)
    BY <1>0, <2>2 DEF CreateMatch, SeatsOf
  <2>3. CASE JoinMatch(n, u)
    BY <1>0, <2>3 DEF JoinMatch, Joinable
  <2> QED BY <2>1, <2>2, <2>3
<1>2. CASE SomeCallOff
  <2>1. PICK n \in Matches, why \in {"resigned", "waiting_expired"} : CallsOff(n, why)
    BY <1>2 DEF SomeCallOff
  <2> QED BY <2>1 DEF CallsOff, CallOff, Close
<1>3. CASE SomeSettle
  <2>1. PICK n \in Matches, w \in Users \cup {Draw}, why \in Reasons, h \in Seq(Moves) :
            Settles(n, w, why, h)
    BY <1>3 DEF SomeSettle
  <2> QED BY <2>1 DEF Settles, Close
<1>4. CASE SomePersist
  <2>1. PICK n \in Matches, h \in Seq(Moves) : PersistMoveHistory(n, h)
    BY <1>4 DEF SomePersist
  <2> QED BY <2>1 DEF PersistMoveHistory
<1>5. CASE NoneTouched \/ UNCHANGED settlementVars
  BY <1>5 DEF NoneTouched, settlementVars, docVars
<1> QED BY <1>1, <1>2, <1>3, <1>4, <1>5, Kinds

(* What a handler or a room holds of a match that is kept stays right. *)
LEMMA CopiesKept ==
    ASSUME NEW m \in Matches, NEW r, Kept(m)
    PROVE  /\ Copy(r, m) => Copy(r, m)'
           /\ Persistable(r, m) => Persistable(r, m)'
           /\ Completing(r, m) => Completing(r, m)'
<1>1. Alone(r, m) /\ mstatus[m] # "none" => Alone(r, m)'
  BY DEF Kept, Alone
<1>2. Paired(r, m) /\ mstatus[m] # "none" =>
          Paired(r, m)' /\ player1'[m] = player1[m] /\ player2'[m] = player2[m]
  BY DEF Kept, Paired
<1>3. Copy(r, m) => Copy(r, m)'
  BY <1>1, <1>2 DEF Kept, Copy, Playing, OnTurn
<1>4. Completing(r, m) => Completing(r, m)'
  BY <1>2 DEF Kept, Completing
<1> QED BY <1>3, <1>4 DEF Persistable

(* Also what a handler has in hand, at whatever step it is. *)
LEMMA StandsKept ==
    ASSUME \A m \in Matches : Kept(m), NEW k, Stands(k)
    PROVE  Stands(k)'
<1>1. CASE k.pc = "idle"
  BY <1>1 DEF Stands
<1>2. CASE k.pc # "idle"
  <2>1. PICK m \in Matches : m = k.m
    BY <1>2 DEF Stands
  <2>2. Kept(m)
    OBVIOUS
  <2>3. mstatus[m] # "none" => mstatus'[m] # "none"
    BY <2>2 DEF Kept
  <2>4. PICK r : r = k.room
    OBVIOUS
  <2>5. PICK doc : doc = k.doc
    OBVIOUS
  <2>6. /\ Copy(r, m) => Copy(r, m)'
        /\ Persistable(r, m) => Persistable(r, m)'
        /\ Completing(r, m) => Completing(r, m)'
        /\ Copy(doc, m) => Copy(doc, m)'
    BY <2>2, CopiesKept
  <2> QED BY <1>2, <2>1, <2>3, <2>4, <2>5, <2>6 DEF Stands
<1> QED BY <1>1, <1>2

-----------------------------------------------------------------------------
(* With locks that are kept. *)

(* Not ahead of the match, and the whole truth about a completed one. *)
UpToDate(r, m) == /\ IsPrefix(r.moves, moves[m])
                  /\ r.status = "completed" => r = RoomOf(m)

(* What a handler has read or decided still goes with the history. *)
Current(k) ==
    k.pc # "idle" =>
      /\ k.pc \in {"fetch", "refresh"} => UpToDate(k.doc, k.m) /\ k.doc.moves = moves[k.m]
      /\ k.pc \in {"persist", "complete"} => IsPrefix(moves[k.m], k.room.moves)
      /\ k.pc = "store" => UpToDate(k.room, k.m)

LocksHold    == \A t \in Tasks : task[t].pc # "idle" => lock[task[t].m] = t
TasksCurrent == \A t \in Tasks : Current(task[t])
RoomsCurrent == \A m \in Matches : room[m] # NoRoom => UpToDate(room[m], m)

AllHold == LocksHold /\ TasksCurrent /\ RoomsCurrent /\ ShownIsKept

LockInv == lapses = 0 => AllHold

-----------------------------------------------------------------------------
(* What steps write to a match. *)
SomeStop == \E m \in Matches, w \in Users, why \in {"resigned", "active_expired"} :
                /\ Settles(m, w, why, moves[m])
                /\ why = "active_expired" => w = InTime(m, moves[m])

(* Requests and the job seat somebody, call a match off or stop one with   *)
(* the history it has.                                                     *)
LEMMA OthersDo ==
    ASSUME IInv, Requests \/ Expiry
    PROVE  SomeSit \/ SomeCallOff \/ SomeStop \/ NoneTouched
<1>1. CASE Requests
  <2>1. PICK m \in Matches, u \in Users :
            \/ \E w \in Wagers : CreateMatch(m, u, w)
            \/ JoinMatch(m, u)
            \/ CancelMatch(m, u)
            \/ ResignMatch(m, u)
    BY <1>1 DEF Requests
  <2>2. CASE (\E w \in Wagers : CreateMatch(m, u, w)) \/ JoinMatch(m, u)
    BY <2>2 DEF SomeSit
  <2>3. CASE CancelMatch(m, u)
    BY <2>3 DEF CancelMatch, SomeCallOff, CallsOff
  <2>4. CASE ResignMatch(m, u)
    <3>1. Opponent(m, u) \in Users
      BY <2>4 DEF ResignMatch, Opponent, IInv, Seating, SeatsOf
    <3>2. moves[m] \in Seq(Moves)
      BY DEF IInv, DocsTyped
    <3>3. Settles(m, Opponent(m, u), "resigned", moves[m]) \/ NoneTouched
      BY <2>4, <3>1, <3>2, FinalizeSettles DEF ResignMatch, Reasons
    <3> QED BY <3>1, <3>3 DEF SomeStop
  <2> QED BY <2>1, <2>2, <2>3, <2>4
<1>2. CASE Expiry
  <2>1. PICK j \in Jobs :
            \/ \E found \in SUBSET Matches : ExpiryScan(j, found)
            \/ \E m \in Matches : ExpireWaiting(j, m) \/ ExpireActive(j, m)
            \/ ExpiryAborts(j)
    BY <1>2 DEF Expiry
  <2>2. CASE (\E found \in SUBSET Matches : ExpiryScan(j, found)) \/ ExpiryAborts(j)
    BY <2>2 DEF ExpiryScan, ExpiryAborts, NoneTouched
  <2>3. ASSUME NEW m \in Matches, ExpireWaiting(j, m)
        PROVE  SomeCallOff \/ NoneTouched
    BY <2>3 DEF ExpireWaiting, SomeCallOff, CallsOff, NoneTouched
  <2>4. ASSUME NEW m \in Matches, ExpireActive(j, m)
        PROVE  SomeStop \/ NoneTouched
    <3>1. CASE StillIdle(j, m)
      <4>1. InTime(m, moves[m]) \in Users
        BY <3>1 DEF StillIdle, InTime, OnTurn, Opponent, IInv, Seating, SeatsOf
      <4>2. moves[m] \in Seq(Moves)
        BY DEF IInv, DocsTyped
      <4>3. Settles(m, InTime(m, moves[m]), "active_expired", moves[m]) \/ NoneTouched
        BY <2>4, <3>1, <4>1, <4>2, FinalizeSettles DEF ExpireActive, StillIdle, Reasons
      <4> QED BY <4>1, <4>3 DEF SomeStop
    <3> QED BY <2>4, <3>1 DEF ExpireActive, NoneTouched
  <2> QED BY <2>1, <2>2, <2>3, <2>4
<1> QED BY <1>1, <1>2

(* An empty history is a game without a line. *)
LEMMA EmptyGame ==
    ASSUME NEW p, NEW q
    PROVE  Game(<<>>, p, q) /\ NoLineUpTo(<<>>, Len(<<>>), p, q)
BY DEF Game, NoLineUpTo

(* A match that is written to in none of its fields stands as before. *)
LEMMA DocUntouched ==
    ASSUME NEW m \in Matches, DocStands(m),
           mstatus'[m] = mstatus[m], player1'[m] = player1[m], player2'[m] = player2[m],
           moves'[m] = moves[m], winner'[m] = winner[m], reason'[m] = reason[m]
    PROVE  DocStands(m)'
BY DEF DocStands

(* The last mover of a game is the opponent of whoever is on turn. *)
LEMMA LastMoverInTime ==
    ASSUME NEW m \in Matches, moves[m] \in Seq(Moves), moves[m] # <<>>,
           Game(moves[m], player1[m], player2[m]), player1[m] # player2[m]
    PROVE  moves[m][Len(moves[m])].by = InTime(m, moves[m])
<1>1. PICK n \in Nat \ {0} : n = Len(moves[m])
  OBVIOUS
<1>2. moves[m][n].by = Mover(n, player1[m], player2[m])
  BY <1>1 DEF Game
<1>3. CASE n % 2 = 1
  <2>1. moves[m][n].by = player1[m]
    BY <1>2, <1>3 DEF Mover
  <2>2. OnTurn(m, moves[m]) = player2[m]
    <3>1. n % 2 # 0
      BY <1>3
    <3> QED BY <1>1, <3>1 DEF OnTurn
  <2> QED BY <1>1, <2>1, <2>2 DEF InTime, Opponent
<1>4. CASE n % 2 = 0
  <2>1. moves[m][n].by = player2[m]
    BY <1>2, <1>4 DEF Mover
  <2>2. OnTurn(m, moves[m]) = player1[m]
    BY <1>1, <1>4 DEF OnTurn
  <2> QED BY <1>1, <2>1, <2>2 DEF InTime, Opponent
<1>5. n % 2 \in 0 .. 1
  OBVIOUS
<1> QED BY <1>3, <1>4, <1>5

(* What requests and the job do leaves games games. *)
LEMMA OthersKeepDocs ==
    ASSUME IInv, DocsStand, SomeSit \/ SomeCallOff \/ SomeStop \/ NoneTouched,
           NEW m \in Matches
    PROVE  DocStands(m)'
<1> USE DEF IInv, DocsTyped
<1>0. SeatsOf(m) /\ NoUser \notin Users /\ DocStands(m)
  BY SettlementAssumption DEF Seating, DocsStand
<1>1. CASE SomeSit
  <2>1. PICK n \in Matches, u \in Users :
            (\E w \in Wagers : CreateMatch(n, u, w)) \/ JoinMatch(n, u)
    BY <1>1 DEF SomeSit
  <2>2. CASE n # m
    BY <1>0, <2>1, <2>2, DocUntouched DEF CreateMatch, JoinMatch
  <2>3. CASE n = m /\ \E w \in Wagers : CreateMatch(n, u, w)
    <3>1. player2[m] = NoUser /\ moves[m] = <<>> /\ reason[m] = "none"
      BY <1>0, <2>3 DEF CreateMatch, SeatsOf, DocStands
    <3>2. /\ mstatus'[m] = "waiting" /\ player1'[m] = u /\ player2'[m] = NoUser
          /\ moves'[m] = <<>> /\ reason'[m] = "none"
      BY <2>3, <3>1 DEF CreateMatch
    <3> QED BY <1>0, <3>2, EmptyGame DEF DocStands
  <2>4. CASE n = m /\ JoinMatch(n, u)
    <3>1. player2[m] = NoUser /\ moves[m] = <<>> /\ reason[m] = "none"
          /\ player1[m] \in Users /\ u # player1[m]
      BY <1>0, <2>4 DEF JoinMatch, Joinable, Seats, DocStands
    <3>2. /\ mstatus'[m] = "active" /\ player1'[m] = player1[m] /\ player2'[m] = u
          /\ moves'[m] = <<>> /\ reason'[m] = "none"
      BY <2>4, <3>1 DEF JoinMatch
    <3> QED BY <1>0, <3>1, <3>2, EmptyGame DEF DocStands
  <2> QED BY <2>1, <2>2, <2>3, <2>4
<1>2. CASE SomeCallOff
  <2>1. PICK n \in Matches, why \in {"resigned", "waiting_expired"} : CallsOff(n, why)
    BY <1>2 DEF SomeCallOff
  <2>2. CASE n # m
    BY <1>0, <2>1, <2>2, DocUntouched DEF CallsOff, CallOff, Close
  <2>3. CASE n = m
    <3>1. player2[m] = NoUser /\ moves[m] = <<>> /\ player1[m] \in Users
      BY <1>0, <2>1, <2>3 DEF CallsOff, CallOff, SeatsOf, DocStands
    <3>2. /\ mstatus'[m] = "completed" /\ player1'[m] = player1[m] /\ player2'[m] = NoUser
          /\ moves'[m] = <<>> /\ reason'[m] = why
      BY <2>1, <2>3, <3>1 DEF CallsOff, CallOff, Close
    <3> QED BY <1>0, <3>1, <3>2, EmptyGame DEF DocStands
  <2> QED BY <2>2, <2>3
<1>3. CASE SomeStop
  <2>1. PICK n \in Matches, w \in Users, why \in {"resigned", "active_expired"} :
            /\ Settles(n, w, why, moves[n])
            /\ why = "active_expired" => w = InTime(n, moves[n])
    BY <1>3 DEF SomeStop
  <2>2. CASE n # m
    BY <1>0, <2>1, <2>2, DocUntouched DEF Settles, Close
  <2>3. CASE n = m
    <3>1. /\ mstatus[m] = "active" /\ player1[m] \in Users /\ player2[m] \in Users
          /\ player1[m] # player2[m]
      BY <1>0, <2>1, <2>3 DEF Settles, SeatsOf
    <3>2. /\ mstatus'[m] = "completed" /\ player1'[m] = player1[m] /\ player2'[m] = player2[m]
          /\ moves'[m] = moves[m] /\ reason'[m] = why /\ winner'[m] = w
      BY <2>1, <2>3 DEF Settles, Close
    <3>3. /\ Game(moves[m], player1[m], player2[m])
          /\ NoLineUpTo(moves[m], Len(moves[m]), player1[m], player2[m])
      BY <1>0, <3>1 DEF DocStands
    <3>4. why = "active_expired" /\ moves[m] # <<>> => moves[m][Len(moves[m])].by = w
      BY <2>1, <2>3, <3>1, <3>3, LastMoverInTime
    <3> QED BY <1>0, <3>1, <3>2, <3>3, <3>4 DEF DocStands
  <2> QED BY <2>2, <2>3
<1>4. CASE NoneTouched
  BY <1>0, <1>4, DocUntouched DEF NoneTouched, docVars
<1> QED BY <1>1, <1>2, <1>3, <1>4

(* A history that a handler persists is the game it decided on. *)
LEMMA PersistStands ==
    ASSUME IInv, DocsStand, NEW n \in Matches, NEW r, Persistable(r, n),
           PersistMoveHistory(n, r.moves), NEW m \in Matches
    PROVE  DocStands(m)'
<1> USE DEF IInv, DocsTyped
<1>0. SeatsOf(m) /\ DocStands(m)
  BY DEF Seating, DocsStand
<1>1. CASE n # m
  BY <1>0, <1>1, DocUntouched DEF PersistMoveHistory
<1>2. CASE n = m
  <2>1. /\ player1[m] \in Users /\ player2[m] \in Users /\ player1[m] # player2[m]
        /\ Game(r.moves, player1[m], player2[m])
        /\ NoLineUpTo(r.moves, Len(r.moves), player1[m], player2[m])
    BY <1>2 DEF Persistable, Copy, Alone, Paired, Playing
  <2>2. mstatus[m] = "active" /\ reason[m] = "none"
    BY <1>0, <1>2 DEF PersistMoveHistory, DocStands
  <2>3. /\ mstatus'[m] = "active" /\ player1'[m] = player1[m] /\ player2'[m] = player2[m]
        /\ moves'[m] = r.moves /\ reason'[m] = "none"
    BY <1>2, <2>2 DEF PersistMoveHistory
  <2> QED BY <2>1, <2>3 DEF DocStands
<1> QED BY <1>1, <1>2

(* The move that ends a match ends its game. *)
LEMMA CompleteStands ==
    ASSUME IInv, DocsStand, NEW n \in Matches, NEW r, Completing(r, n),
           CompleteMatch(n, r.winner, r.moves), NEW m \in Matches
    PROVE  DocStands(m)'
<1> USE DEF IInv, DocsTyped
<1>0. SeatsOf(m) /\ DocStands(m)
  BY DEF Seating, DocsStand
<1>1. CASE mstatus[n] = "completed" \/ n # m
  BY <1>0, <1>1, DocUntouched DEF CompleteMatch, Finalize, Close, docVars
<1>2. CASE mstatus[n] # "completed" /\ n = m
  <2>1. /\ player1[m] \in Users /\ player2[m] \in Users /\ player1[m] # player2[m]
        /\ Game(r.moves, player1[m], player2[m])
        /\ EndsFor(r.moves, r.winner, player1[m], player2[m])
    BY <1>2 DEF Completing, Paired
  <2>2. /\ mstatus'[m] = "completed" /\ player1'[m] = player1[m] /\ player2'[m] = player2[m]
        /\ moves'[m] = r.moves /\ winner'[m] = r.winner
        /\ reason'[m] = IF r.winner = Draw THEN "draw" ELSE "winner"
    BY <1>2 DEF CompleteMatch, Finalize, Close
  <2> QED BY <2>1, <2>2 DEF DocStands
<1> QED BY <1>1, <1>2

-----------------------------------------------------------------------------
(* What a handler takes in hand. *)

DocsAreCopies == IInv /\ DocsStand =>
    \A m \in Matches : mstatus[m] # "none" => Copy(RoomOf(m), m)

(* The room made of a match is a copy of it (createRoomStateFromMatch). *)
LEMMA DocIsCopy == DocsAreCopies
<1> SUFFICES ASSUME NEW m \in Matches, IInv, DocsStand, mstatus[m] # "none"
             PROVE  Copy(RoomOf(m), m)
  BY DEF DocsAreCopies
<1>1. DocStands(m) /\ SeatsOf(m)
  BY DEF DocsStand, IInv, Seating
<1>2. /\ mstatus[m] \in {"waiting", "active", "completed"} /\ player1[m] \in Users
      /\ player2[m] \in Users \cup {NoUser} /\ moves[m] \in Seq(Moves)
      /\ winner[m] \in Users \cup {NoUser, Draw} /\ NoUser \notin Users
  BY <1>1, SettlementAssumption DEF IInv, DocsTyped, DocStands
<1>3. RoomOf(m).turn \in Users \cup {NoUser}
  BY <1>1, <1>2 DEF RoomOf, OnTurn, SeatsOf
<1>4. RoomOf(m).players \in Seq(Users)
  BY <1>2 DEF RoomOf
<1>5. RoomOf(m) \in RoomStates
  BY <1>2, <1>3, <1>4 DEF RoomOf, RoomStates
<1>6. CASE player2[m] = NoUser
  BY <1>1, <1>2, <1>5, <1>6 DEF Copy, Alone, RoomOf, DocStands, SeatsOf
<1>7. CASE player2[m] \in Users
  <2>1. mstatus[m] = "active" => Playing(RoomOf(m), m)
    BY <1>1, <1>2 DEF Playing, RoomOf, DocStands
  <2>2. Paired(RoomOf(m), m)
    BY <1>1, <1>2, <1>7 DEF Paired, RoomOf, DocStands
  <2>3. RoomOf(m).status = mstatus[m]
    BY DEF RoomOf
  <2> QED BY <1>2, <1>5, <2>1, <2>2, <2>3 DEF Copy
<1> QED BY <1>2, <1>6, <1>7

(* Where a handler goes when it has decided on a move in a copy: it leaves  *)
(* it, has a game to persist or one that ends; and it only adds a move.    *)
LEMMA Decides ==
    ASSUME GInv, NEW t \in Tasks, NEW m \in Matches, task[t].m = m,
           task[t].user \in Users, NEW r, Copy(r, m), Decide(t, r)
    PROVE  \/ Goto(t, "release", NoRoom, FALSE)
           \/ \E n \in RoomStates :
                 /\ Persistable(n, m) /\ IsPrefix(r.moves, n.moves)
                 /\ Goto(t, "persist", n, FALSE)
           \/ \E n \in RoomStates :
                 /\ Completing(n, m) /\ IsPrefix(r.moves, n.moves)
                 /\ Goto(t, "complete", n, FALSE)
<1> DEFINE p == player1[m]
           q == player2[m]
           u == task[t].user
           col == task[t].col
           board == BoardOf(r.moves, r.players[1], r.players[2])
           row == LandingRow(board, col)
           symbol == IF r.players[1] = u THEN "R" ELSE "B"
           next == [board EXCEPT ![<<row, col>>] = symbol]
           x == [by |-> u, col |-> col, row |-> row]
           h == Append(r.moves, x)
           other == IF r.players[1] = u THEN r.players[2] ELSE r.players[1]
           ended == EndedBy(CheckWin(next, row, col, symbol), h, u)
<1>1. CASE ~MayMove(r, u) \/ row = -1
  BY <1>1 DEF Decide
<1>2. CASE MayMove(r, u) /\ row # -1
  <2>1. /\ r \in RoomStates /\ mstatus[m] # "none" /\ r.status = "active" /\ r.turn = u
        /\ r.players = <<p, q>> /\ p \in Users /\ q \in Users /\ p # q
        /\ Game(r.moves, p, q) /\ r.turn = OnTurn(m, r.moves)
        /\ NoLineUpTo(r.moves, Len(r.moves), p, q)
    BY <1>2 DEF MayMove, Copy, Alone, Paired, Playing
  <2>2. r.moves \in Seq(Moves) /\ r.players[1] = p /\ r.players[2] = q
    BY <2>1 DEF RoomStates
  <2>3. PICK n \in Nat : n = Len(r.moves)
    BY <2>2
  <2>4. u = Mover(n + 1, p, q)
    <3>1. n % 2 = 0 => (n + 1) % 2 = 1
      OBVIOUS
    <3>2. n % 2 # 0 => (n + 1) % 2 # 1
      OBVIOUS
    <3>3. u = IF n % 2 = 0 THEN p ELSE q
      BY <2>1, <2>3 DEF OnTurn
    <3> QED BY <3>1, <3>2, <3>3 DEF Mover
  <2>5. task[t].col \in 0 .. Cols - 1
    BY DEF GInv, RoomTyped, TaskStates
  <2>6. row \in 0 .. Rows - 1
    BY <1>2, DiscFalls
  <2>7. x \in Moves
    <3> HIDE DEF row, board
    <3> QED BY <2>5, <2>6, RoomAssumption
  <2>8. /\ h \in Seq(Moves) /\ Len(h) = n + 1 /\ h[n + 1] = x
        /\ IsPrefix(r.moves, h)
    <3>1. IsPrefix(r.moves, h)
      BY <2>2, <2>7, PrefixGrows
    <3> HIDE DEF x
    <3> QED BY <2>2, <2>3, <2>7, <3>1
  <2>9. x.by = u /\ x.col = col /\ x.row = row
    OBVIOUS
  <2>10. symbol = Disc(x, p) /\ board = BoardOf(r.moves, p, q) /\ next = Dropped(board, x, symbol)
    BY <2>2, <2>9 DEF Disc, Dropped
  <2>11. Game(h, p, q) /\ LineOf(h, n + 1, p, q) = CheckWin(next, row, col, symbol)
    <3>1. x.row = LandingRow(BoardOf(r.moves, p, q), x.col)
      BY <2>9, <2>10
    <3> HIDE DEF x, next, row, board, symbol
    <3>3. x.by = Mover(Len(r.moves) + 1, p, q)
      BY <2>3, <2>4, <2>9
    <3> HIDE DEF p, q
    <3>2. /\ Game(h, p, q)
          /\ LineOf(h, n + 1, p, q) = CheckWin(Dropped(BoardOf(r.moves, p, q), x, Disc(x, p)),
                                               x.row, x.col, Disc(x, p))
      BY <2>1, <2>2, <2>3, <2>7, <3>1, <3>3, GameGrows
    <3> QED BY <2>9, <2>10, <3>2
  <2>12. \A i \in 1 .. n : LineOf(h, i, p, q) = <<>>
    <3> HIDE DEF x
    <3> QED BY <2>1, <2>2, <2>3, <2>7, EarlierLines DEF NoLineUpTo
  <2>13. ended = EndedBy(LineOf(h, n + 1, p, q), h, u)
    BY <2>11
  <2>14. other = IF p = u THEN q ELSE p
    BY <2>2
  <2>15. IF ended = NoUser
         THEN Goto(t, "persist", [r EXCEPT !.moves = h, !.turn = other], FALSE)
         ELSE Goto(t, "complete", [r EXCEPT !.moves = h, !.winner = ended], FALSE)
    BY <1>2 DEF Decide
  <2> HIDE DEF x, next, row, board, symbol, ended, h, other
  <2>16. CASE ended = NoUser
    <3> DEFINE new == [r EXCEPT !.moves = h, !.turn = other]
    <3>1. /\ new \in RoomStates /\ new.moves = h /\ new.players = r.players
          /\ new.status = "active" /\ new.turn = other
      BY <2>1, <2>8, <2>14 DEF RoomStates
    <3>2. LineOf(h, n + 1, p, q) = <<>>
      BY <2>13, <2>16, SettlementAssumption, <2>1 DEF EndedBy
    <3>3. NoLineUpTo(h, Len(h), p, q)
      <4>1. \A i \in 1 .. n + 1 : i \in 1 .. n \/ i = n + 1
        OBVIOUS
      <4> QED BY <2>8, <2>12, <3>2, <4>1 DEF NoLineUpTo
    <3>4. other = OnTurn(m, h)
      <4>1. n % 2 = 0 => (n + 1) % 2 # 0
        OBVIOUS
      <4>2. n % 2 # 0 => (n + 1) % 2 = 0
        OBVIOUS
      <4>3. u = IF n % 2 = 0 THEN p ELSE q
        BY <2>1, <2>3 DEF OnTurn
      <4> QED BY <2>1, <2>8, <2>14, <4>1, <4>2, <4>3 DEF OnTurn
    <3>5. Persistable(new, m)
      <4> HIDE DEF new
      <4> QED BY <2>1, <2>11, <3>1, <3>3, <3>4 DEF Persistable, Copy, Paired, Playing
    <3> QED BY <2>8, <2>15, <2>16, <3>1, <3>5
  <2>17. CASE ended # NoUser
    <3> DEFINE new == [r EXCEPT !.moves = h, !.winner = ended]
    <3>1. ended \in Users \cup {Draw}
      BY <2>1, <2>13, <2>17 DEF EndedBy
    <3>2. /\ new \in RoomStates /\ new.moves = h /\ new.players = r.players
          /\ new.winner = ended
      BY <2>1, <2>8, <3>1 DEF RoomStates
    <3>3. EndsFor(h, ended, p, q)
      <4>1. (n + 1) - 1 = n /\ n + 1 > 0
        OBVIOUS
      <4>2. NoLineUpTo(h, Len(h) - 1, p, q)
        BY <2>8, <2>12, <4>1 DEF NoLineUpTo
      <4>3. CASE LineOf(h, n + 1, p, q) # <<>>
        BY <2>1, <2>8, <2>9, <2>13, <4>1, <4>2, <4>3, SettlementAssumption DEF EndsFor, EndedBy
      <4>4. CASE LineOf(h, n + 1, p, q) = <<>>
        BY <2>1, <2>8, <2>13, <2>17, <4>1, <4>2, <4>4 DEF EndsFor, EndedBy
      <4> QED BY <4>3, <4>4
    <3>4. Completing(new, m)
      <4> HIDE DEF new
      <4> QED BY <2>1, <2>11, <3>2, <3>3 DEF Completing, Paired
    <3> QED BY <2>8, <2>15, <2>17, <3>2, <3>4
  <2> QED BY <2>16, <2>17
<1> QED BY <1>1, <1>2

-----------------------------------------------------------------------------
(* One step keeps what handlers and rooms hold. *)

(* The invariant after a step, read entry by entry. *)
LEMMA HandsAfter ==
    ASSUME \A s \in Tasks : \A k : k = task'[s] => Stands(k)'
    PROVE  TasksStand'
BY DEF TasksStand, Stands, Copy, Persistable, Completing, Alone, Paired, Playing

(* The same for the rooms. *)
LEMMA RoomsAfter ==
    ASSUME \A m \in Matches : \A r : r = room'[m] /\ r # NoRoom => Copy(r, m)'
    PROVE  RoomsStand'
BY DEF RoomsStand, Copy, Alone, Paired, Playing

(* A copy of the match as a step leaves it. *)
LEMMA CopyAfter ==
    ASSUME IInv', DocsStand', NEW m \in Matches, mstatus'[m] # "none", NEW r, r = RoomOf(m)'
    PROVE  Copy(r, m)'
<1>1. DocsAreCopies'
  BY DocIsCopy, PTL
<1>2. Copy(RoomOf(m), m)'
  BY <1>1 DEF DocsAreCopies
<1> QED BY <1>2 DEF Copy, Alone, Paired, Playing

(* A step in which one handler goes on, with what it may have in hand. *)
LEMMA HandAfter ==
    ASSUME GInv, \A m \in Matches : Kept(m), NEW t \in Tasks, NEW k \in TaskStates,
           task' = [task EXCEPT ![t] = k], Stands(k)'
    PROVE  TasksStand' /\ task' \in [Tasks -> TaskStates]
<1>1. task \in [Tasks -> TaskStates] /\ TasksStand
  BY DEF GInv, RoomTyped
<1>2. ASSUME NEW s \in Tasks, NEW j, j = task'[s] PROVE Stands(j)'
  <2>1. CASE s = t
    <3>1. j = k
      BY <1>1, <1>2, <2>1
    <3> QED BY <3>1
  <2>2. CASE s # t
    <3>1. j = task[s]
      BY <1>1, <1>2, <2>2
    <3>2. Stands(j)
      BY <1>1, <3>1 DEF TasksStand
    <3> QED BY <3>2, StandsKept
  <2> QED BY <2>1, <2>2
<1> QED BY <1>1, <1>2, HandsAfter

(* A step in which no handler goes on. *)
LEMMA HandsKept ==
    ASSUME GInv, \A m \in Matches : Kept(m), task' = task
    PROVE  TasksStand' /\ task' \in [Tasks -> TaskStates]
<1>1. ASSUME NEW s \in Tasks, NEW j, j = task'[s] PROVE Stands(j)'
  <2>1. j = task[s]
    BY <1>1
  <2>2. Stands(j)
    BY <2>1 DEF GInv, TasksStand
  <2> QED BY <2>2, StandsKept
<1> QED BY <1>1, HandsAfter DEF GInv, RoomTyped

(* A step that leaves the rooms, stores one or drops some. *)
LEMMA RoomsKept ==
    ASSUME GInv, \A m \in Matches : Kept(m), room' \in [Matches -> RoomStates \cup {NoRoom}],
           \A m \in Matches : \A r : r = room'[m] =>
               r = room[m] \/ r = NoRoom \/ Copy(r, m)
    PROVE  RoomsStand'
<1>1. ASSUME NEW m \in Matches, NEW r, r = room'[m], r # NoRoom PROVE Copy(r, m)'
  <2>1. r = room[m] => Copy(r, m)
    BY <1>1 DEF GInv, RoomsStand
  <2>2. Copy(r, m) /\ Kept(m)
    BY <1>1, <2>1
  <2> QED BY <2>2, CopiesKept
<1> QED BY <1>1, RoomsAfter

(* What a handler takes along. *)
LEMMA Goes ==
    ASSUME NEW t \in Tasks, task[t].m \in Matches, NEW pc \in Steps,
           NEW r \in RoomStates \cup {NoRoom}, NEW reply \in BOOLEAN, Goto(t, pc, r, reply)
    PROVE  \E k \in TaskStates :
               /\ task' = [task EXCEPT ![t] = k]
               /\ k.pc = pc /\ k.m = task[t].m /\ k.room = r /\ k.reply = reply
<1> DEFINE k == [IdleTask EXCEPT !.pc = pc, !.m = task[t].m, !.room = r, !.reply = reply]
<1>1. 0 \in 0 .. Cols - 1
  BY BoardAssumption
<1>2. k \in TaskStates /\ k.pc = pc /\ k.m = task[t].m /\ k.room = r /\ k.reply = reply
  BY <1>1 DEF TaskStates, IdleTask
<1>3. task' = [task EXCEPT ![t] = k]
  BY DEF Goto
<1> HIDE DEF k
<1> QED BY <1>2, <1>3

-----------------------------------------------------------------------------
(* The documents: what a step of the rooms does to them. *)
SomeMoveKept == \E t \in Tasks, m \in Matches, n \in RoomStates :
    /\ task[t].pc = "persist" /\ task[t].m = m /\ n = task[t].room
    /\ Persistable(n, m) /\ PersistMoveHistory(m, n.moves)

SomeMoveEnds == \E t \in Tasks, m \in Matches, n \in RoomStates :
    /\ task[t].pc = "complete" /\ task[t].m = m /\ n = task[t].room
    /\ Completing(n, m) /\ CompleteMatch(m, n.winner, n.moves)

SomeOther == (Requests \/ Expiry) /\ UNCHANGED roomVars

(* A handler persists the move it decided on or ends the match with it, and *)
(* all else is done by requests and the job.                               *)
LEMMA DocSteps ==
    ASSUME GInv, [GameNext]_vars
    PROVE  \/ SomeMoveKept \/ SomeMoveEnds \/ SomeOther
           \/ UNCHANGED settlementVars
<1>1. ASSUME NEW t \in Tasks, PersistMove(t)
      PROVE  SomeMoveKept \/ UNCHANGED settlementVars
  <2>1. Stands(task[t]) /\ task[t].pc = "persist"
    BY <1>1 DEF GInv, TasksStand, PersistMove
  <2>2. PICK m \in Matches : m = task[t].m
    BY <2>1 DEF Stands
  <2>3. PICK n \in RoomStates : n = task[t].room /\ Persistable(n, m)
    BY <2>1, <2>2 DEF Stands, Persistable, Copy
  <2> QED BY <1>1, <2>1, <2>2, <2>3 DEF PersistMove, SomeMoveKept
<1>2. ASSUME NEW t \in Tasks, EndByMove(t) PROVE SomeMoveEnds
  <2>1. Stands(task[t]) /\ task[t].pc = "complete"
    BY <1>2 DEF GInv, TasksStand, EndByMove
  <2>2. PICK m \in Matches : m = task[t].m
    BY <2>1 DEF Stands
  <2>3. PICK n \in RoomStates : n = task[t].room /\ Completing(n, m)
    BY <2>1, <2>2 DEF Stands, Completing
  <2> QED BY <1>2, <2>1, <2>2, <2>3 DEF EndByMove, SomeMoveEnds
<1>3. ASSUME NEW t \in Tasks,
             \/ \E m \in Matches, u \in Users :
                  \/ Begin(t, "join", m, u, 0)
                  \/ \E col \in 0 .. Cols - 1 : Begin(t, "move", m, u, col)
             \/ ReadMatch(t) \/ FetchRoom(t) \/ RefreshRoom(t) \/ ReadLatest(t)
             \/ StoreRoom(t) \/ TaskFails(t) \/ Release(t)
      PROVE  UNCHANGED settlementVars
  BY <1>3 DEF Begin, ReadMatch, FetchRoom, RefreshRoom, ReadLatest, StoreRoom, TaskFails, Release
<1>4. ASSUME NEW m \in Matches,
             LockExpires(m) \/ LockLapses(m) \/ RoomExpires(m) \/ QueueIsDropped(m)
      PROVE  UNCHANGED settlementVars
  BY <1>4 DEF LockExpires, LockLapses, RoomExpires, QueueIsDropped
<1>5. ASSUME NEW p \in Procs, Crash(p) PROVE UNCHANGED settlementVars
  BY <1>5 DEF Crash
<1>6. CASE TaskSteps
  BY <1>1, <1>2, <1>3, <1>6 DEF TaskSteps
<1>7. CASE UNCHANGED vars
  BY <1>7 DEF vars
<1> QED BY <1>4, <1>5, <1>6, <1>7 DEF GameNext, SomeOther

(* A history that fits the board is one that MatchSettlement allows. *)
LEMMA GamesAreHistories ==
    ASSUME NEW h \in Seq(Moves), NEW p, NEW q, Game(h, p, q)
    PROVE  h \in Histories
<1>1. Len(h) \in 0 .. MaxMoves
  <2>1. Len(h) <= Rows * Cols
    BY GameIsShort
  <2>2. Len(h) <= MaxMoves
    BY <2>1, RoomAssumption, Zenon
  <2>3. MaxMoves \in Nat /\ Len(h) \in Nat
    BY SettlementAssumption
  <2> QED BY <2>2, <2>3
<1>2. h \in [1 .. Len(h) -> Moves]
  OBVIOUS
<1> QED BY <1>1, <1>2 DEF Histories

(* Every step of the rooms is one that MatchSettlement allows. *)
LEMMA StepsSettle ==
    ASSUME GInv, [GameNext]_vars
    PROVE  [SettlementNext]_settlementVars
<1>1. CASE SomeMoveKept
  <2>1. PICK m \in Matches, n \in RoomStates : Persistable(n, m) /\ PersistMoveHistory(m, n.moves)
    BY <1>1 DEF SomeMoveKept
  <2>2. \E p, q : Game(n.moves, p, q)
    BY <2>1 DEF Persistable, Copy, Alone, Paired
  <2>3. n.moves \in Histories
    BY <2>2, GamesAreHistories DEF RoomStates
  <2> QED BY <2>1, <2>3 DEF SettlementNext, RoomSteps
<1>2. CASE SomeMoveEnds
  <2>1. PICK m \in Matches, n \in RoomStates :
            Completing(n, m) /\ CompleteMatch(m, n.winner, n.moves)
    BY <1>2 DEF SomeMoveEnds
  <2>2. n.moves \in Histories
    BY <2>1, GamesAreHistories DEF Completing, Paired, RoomStates
  <2>3. n.winner \in Users \cup {Draw}
    <3>1. n.moves \in Seq(Moves)
      BY DEF RoomStates
    <3>2. Len(n.moves) > 0 => n.moves[Len(n.moves)] \in Moves
      BY <3>1
    <3>3. Len(n.moves) > 0 => n.moves[Len(n.moves)].by \in Users
      BY <3>2, RoomAssumption
    <3> QED BY <2>1, <3>3 DEF Completing, EndsFor
  <2> QED BY <2>1, <2>2, <2>3 DEF SettlementNext, RoomSteps
<1>3. CASE SomeOther
  BY <1>3 DEF SomeOther, SettlementNext
<1> QED BY <1>1, <1>2, <1>3, DocSteps

(* The documents and the games in them after a step. *)
LEMMA DocsAfter ==
    ASSUME GInv, [GameNext]_vars
    PROVE  IInv' /\ DocsStand' /\ \A m \in Matches : Kept(m)
<1>1. [SettlementNext]_settlementVars
  BY StepsSettle
<1>2. IInv'
  BY <1>1, NextPreserves DEF GInv
<1>3. \A m \in Matches : Kept(m)
  BY <1>1, MatchesKept DEF GInv
<1>4. ASSUME NEW m \in Matches PROVE DocStands(m)'
  <2>1. CASE SomeMoveKept
    <3>1. PICK n \in Matches, r \in RoomStates :
              Persistable(r, n) /\ PersistMoveHistory(n, r.moves)
      BY <2>1 DEF SomeMoveKept
    <3> QED BY <3>1, PersistStands DEF GInv
  <2>2. CASE SomeMoveEnds
    <3>1. PICK n \in Matches, r \in RoomStates :
              Completing(r, n) /\ CompleteMatch(n, r.winner, r.moves)
      BY <2>2 DEF SomeMoveEnds
    <3> QED BY <3>1, CompleteStands DEF GInv
  <2>3. CASE SomeOther
    BY <2>3, OthersDo, OthersKeepDocs DEF GInv, SomeOther
  <2>4. CASE UNCHANGED settlementVars
    <3>1. DocStands(m)
      BY DEF GInv, DocsStand
    <3> QED BY <2>4, <3>1, DocUntouched DEF settlementVars, docVars
  <2> QED BY <2>1, <2>2, <2>3, <2>4, DocSteps
<1> QED BY <1>2, <1>3, <1>4 DEF DocsStand

-----------------------------------------------------------------------------
(* The handlers and the rooms. *)
HandsAndRooms == /\ TasksStand' /\ task' \in [Tasks -> TaskStates]
                 /\ RoomsStand' /\ room' \in [Matches -> RoomStates \cup {NoRoom}]
                 /\ lock' \in [Matches -> Tasks \cup {NoTask}]
                 /\ shown' \in [Matches -> Seq(Moves)]

(* A handler begins. *)
LEMMA BeginKeeps ==
    ASSUME GInv, \A m \in Matches : Kept(m), NEW t \in Tasks, NEW kind \in {"join", "move"},
           NEW m \in Matches, NEW u \in Users, NEW col \in 0 .. Cols - 1,
           Begin(t, kind, m, u, col)
    PROVE  HandsAndRooms
<1> DEFINE k == [IdleTask EXCEPT !.pc = "read", !.kind = kind, !.m = m, !.user = u, !.col = col]
<1>1. /\ k \in TaskStates /\ k.pc = "read" /\ k.m = m /\ k.user = u
      /\ task' = [task EXCEPT ![t] = k]
  BY BoardAssumption DEF IdleTask, TaskStates, Steps, Begin
<1> HIDE DEF k
<1>2. Stands(k) /\ UNCHANGED <<room, shown>> /\ lock' = [lock EXCEPT ![m] = t]
  BY <1>1 DEF Stands, Begin
<1>3. Stands(k)'
  BY <1>2, StandsKept
<1>4. TasksStand' /\ task' \in [Tasks -> TaskStates]
  BY <1>1, <1>3, HandAfter
<1>5. room' \in [Matches -> RoomStates \cup {NoRoom}]
  BY <1>2 DEF GInv, RoomTyped
<1>6. RoomsStand'
  BY <1>2, <1>5, RoomsKept
<1> QED BY <1>2, <1>4, <1>5, <1>6 DEF HandsAndRooms, GInv, RoomTyped

(* A handler goes on with a room in hand, and leaves the rooms. *)
LEMMA HandKeeps ==
    ASSUME GInv, \A m \in Matches : Kept(m), NEW t \in Tasks, task[t].pc # "idle",
           NEW pc \in {"complete", "persist", "latest", "store", "release"},
           NEW r \in RoomStates \cup {NoRoom}, NEW reply \in BOOLEAN, Goto(t, pc, r, reply),
           pc = "persist" => Persistable(r, task[t].m),
           pc = "complete" => Completing(r, task[t].m),
           pc = "store" => \A m \in Matches : m = task[t].m => Copy(r, m) \/ Copy(r, m)'
    PROVE  TasksStand' /\ task' \in [Tasks -> TaskStates]
<1>1. Stands(task[t])
  BY DEF GInv, TasksStand
<1>2. PICK m \in Matches : m = task[t].m /\ mstatus[m] # "none"
  BY <1>1 DEF Stands
<1>3. PICK k \in TaskStates : /\ task' = [task EXCEPT ![t] = k]
                              /\ k.pc = pc /\ k.m = m /\ k.room = r /\ k.reply = reply
  <2>1. pc \in Steps
    BY DEF Steps
  <2> QED BY <1>2, <2>1, Goes
<1>4. /\ mstatus'[m] # "none"
      /\ pc = "persist" => Persistable(r, m)'
      /\ pc = "complete" => Completing(r, m)'
      /\ pc = "store" => Copy(r, m)'
  <2>1. Kept(m)
    OBVIOUS
  <2>2. mstatus'[m] # "none"
    BY <1>2, <2>1 DEF Kept
  <2>3. /\ pc = "persist" => Persistable(r, m)
        /\ pc = "complete" => Completing(r, m)
        /\ pc = "store" => Copy(r, m) \/ Copy(r, m)'
    BY <1>2
  <2> QED BY <2>1, <2>2, <2>3, CopiesKept
<1>5. Stands(k)'
  BY <1>3, <1>4 DEF Stands
<1> QED BY <1>3, <1>5, HandAfter

(* Whatever a handler does next. *)
LEMMA OtherSteps ==
    ASSUME GInv, [GameNext]_vars, NEW t \in Tasks,
           ReadMatch(t) \/ FetchRoom(t) \/ RefreshRoom(t) \/ EndByMove(t) \/ PersistMove(t)
             \/ ReadLatest(t) \/ StoreRoom(t) \/ TaskFails(t) \/ Release(t)
    PROVE  HandsAndRooms
<1> USE DEF Steps
<1>0. IInv' /\ DocsStand' /\ \A m \in Matches : Kept(m)
  BY DocsAfter
<1>1. task[t].pc # "idle" /\ Stands(task[t])
  BY DEF ReadMatch, FetchRoom, RefreshRoom, EndByMove, PersistMove, ReadLatest, StoreRoom,
         TaskFails, Release, GInv, TasksStand
<1>2. PICK m \in Matches : m = task[t].m /\ mstatus[m] # "none"
  BY <1>1 DEF Stands
<1>3. /\ room \in [Matches -> RoomStates \cup {NoRoom}]
      /\ lock \in [Matches -> Tasks \cup {NoTask}]
      /\ shown \in [Matches -> Seq(Moves)]
      /\ task \in [Tasks -> TaskStates]
  BY DEF GInv, RoomTyped
<1>4. ASSUME TasksStand', task' \in [Tasks -> TaskStates], UNCHANGED <<room, shown>>,
             lock' \in [Matches -> Tasks \cup {NoTask}]
      PROVE  HandsAndRooms
  <2>1. room' \in [Matches -> RoomStates \cup {NoRoom}]
    BY <1>3, <1>4
  <2>2. RoomsStand'
    BY <1>0, <1>4, <2>1, RoomsKept
  <2> QED BY <1>3, <1>4, <2>1, <2>2 DEF HandsAndRooms
<1>5. ASSUME TasksStand', task' \in [Tasks -> TaskStates], NEW r, Copy(r, m),
             room' = [room EXCEPT ![m] = r], UNCHANGED lock, shown' \in [Matches -> Seq(Moves)]
      PROVE  HandsAndRooms
  <2>1. r \in RoomStates
    BY <1>5 DEF Copy
  <2>2. room' \in [Matches -> RoomStates \cup {NoRoom}]
    BY <1>3, <1>5, <2>1
  <2>3. ASSUME NEW n \in Matches, NEW s, s = room'[n] PROVE s = room[n] \/ Copy(s, n)
    BY <1>3, <1>5, <2>3
  <2>4. RoomsStand'
    BY <1>0, <2>2, <2>3, RoomsKept
  <2> QED BY <1>3, <1>5, <2>2, <2>4 DEF HandsAndRooms
<1>6. ASSUME NEW r, Copy(r, m), task[t].user \in Users, Decide(t, r)
      PROVE  TasksStand' /\ task' \in [Tasks -> TaskStates]
  <2>1. CASE Goto(t, "release", NoRoom, FALSE)
    BY <1>0, <1>1, <2>1, HandKeeps
  <2>2. ASSUME NEW n \in RoomStates, Persistable(n, m), Goto(t, "persist", n, FALSE)
        PROVE  TasksStand' /\ task' \in [Tasks -> TaskStates]
    BY <1>0, <1>1, <1>2, <2>2, HandKeeps
  <2>3. ASSUME NEW n \in RoomStates, Completing(n, m), Goto(t, "complete", n, FALSE)
        PROVE  TasksStand' /\ task' \in [Tasks -> TaskStates]
    BY <1>0, <1>1, <1>2, <2>3, HandKeeps
  <2> QED BY <1>2, <1>6, <2>1, <2>2, <2>3, Decides
<1>7. ASSUME NEW r, Copy(r, m) \/ Copy(r, m)', NEW reply \in BOOLEAN, Goto(t, "store", r, reply)
      PROVE  TasksStand' /\ task' \in [Tasks -> TaskStates]
  <2>1. r \in RoomStates
    BY <1>7 DEF Copy
  <2> QED BY <1>0, <1>1, <1>2, <1>7, <2>1, HandKeeps
<1>8. ASSUME Goto(t, "release", NoRoom, FALSE)
      PROVE  TasksStand' /\ task' \in [Tasks -> TaskStates]
  BY <1>0, <1>1, <1>8, HandKeeps
<1>9. PICK doc : doc = RoomOf(m) /\ Copy(doc, m)
  BY <1>2, DocIsCopy DEF DocsAreCopies, GInv
<1>10. PICK latest : latest = RoomOf(m)' /\ Copy(latest, m)'
  <2>1. mstatus'[m] # "none"
    BY <1>0, <1>2 DEF Kept
  <2> QED BY <1>0, <2>1, CopyAfter

<1>11. CASE ReadMatch(t)
  <2>1. UNCHANGED <<room, shown, lock>> /\ task[t].pc = "read" /\ task[t].user \in Users
    BY <1>1, <1>11 DEF ReadMatch, Stands
  <2>2. CASE Goto(t, "release", NoRoom, FALSE)
    BY <1>3, <1>4, <1>8, <2>1, <2>2
  <2>3. CASE Goto(t, "store", RoomOf(m), FALSE)
    BY <1>3, <1>4, <1>7, <1>9, <2>1, <2>3
  <2>4. CASE task' = [task EXCEPT ![t].pc = "fetch", ![t].doc = RoomOf(m)]
    <3> DEFINE k == [task[t] EXCEPT !.pc = "fetch", !.doc = doc]
    <3>1. task' = [task EXCEPT ![t] = k] /\ k \in TaskStates /\ k.pc = "fetch" /\ k.m = m
          /\ k.user \in Users /\ k.doc = doc
      BY <1>2, <1>3, <1>9, <2>1, <2>4 DEF TaskStates, Copy
    <3> HIDE DEF k
    <3>2. PICK j : j = k
      OBVIOUS
    <3>3. Stands(j)
      BY <1>2, <1>9, <3>1, <3>2 DEF Stands
    <3>4. Stands(j)'
      BY <1>0, <3>3, StandsKept
    <3>5. TasksStand' /\ task' \in [Tasks -> TaskStates]
      BY <1>0, <3>1, <3>2, <3>4, HandAfter
    <3> QED BY <1>3, <1>4, <2>1, <3>5
  <2> QED BY <1>2, <1>11, <2>2, <2>3, <2>4 DEF ReadMatch
<1>12. CASE FetchRoom(t)
  <2>1. /\ UNCHANGED <<room, shown, lock>> /\ task[t].pc = "fetch" /\ task[t].user \in Users
        /\ Copy(task[t].doc, m)
    BY <1>1, <1>2, <1>12 DEF FetchRoom, Stands
  <2>2. CASE task' = [task EXCEPT ![t].pc = "refresh"]
    <3> DEFINE k == [task[t] EXCEPT !.pc = "refresh"]
    <3>1. task' = [task EXCEPT ![t] = k] /\ k \in TaskStates /\ k.pc = "refresh" /\ k.m = m
          /\ k.user \in Users /\ k.doc = task[t].doc
      BY <1>2, <1>3, <2>1, <2>2 DEF TaskStates
    <3> HIDE DEF k
    <3>2. PICK j : j = k
      OBVIOUS
    <3>3. Stands(j)
      BY <1>2, <2>1, <3>1, <3>2 DEF Stands
    <3>4. Stands(j)'
      BY <1>0, <3>3, StandsKept
    <3>5. TasksStand' /\ task' \in [Tasks -> TaskStates]
      BY <1>0, <3>1, <3>2, <3>4, HandAfter
    <3> QED BY <1>3, <1>4, <2>1, <3>5
  <2>3. PICK r : r = room[m]
    OBVIOUS
  <2>4. r # NoRoom => Copy(r, m)
    BY <2>3 DEF GInv, RoomsStand
  <2>5. CASE r # NoRoom /\ Goto(t, "store", r, TRUE)
    BY <1>3, <1>4, <1>7, <2>1, <2>4, <2>5
  <2>6. CASE r # NoRoom /\ Decide(t, r)
    BY <1>3, <1>4, <1>6, <2>1, <2>4, <2>6
  <2>7. task[t].kind \in {"join", "move"}
    BY <1>3 DEF TaskStates
  <2>8. \/ task' = [task EXCEPT ![t].pc = "refresh"]
        \/ r # NoRoom /\ (Goto(t, "store", r, TRUE) \/ Decide(t, r))
    <3> DEFINE stale == room[m] = NoRoom \/ Drift(task[t].doc, room[m])
                          \/ (task[t].kind = "join" /\ task[t].doc.status = "completed")
    <3>1. CASE stale
      BY <1>2, <1>12, <3>1 DEF FetchRoom
    <3>2. CASE ~stale /\ task[t].kind = "join"
      BY <1>2, <1>12, <2>3, <3>2 DEF FetchRoom
    <3>3. CASE ~stale /\ task[t].kind = "move"
      BY <1>2, <1>12, <2>3, <3>3 DEF FetchRoom
    <3> QED BY <2>7, <3>1, <3>2, <3>3
  <2> QED BY <2>2, <2>5, <2>6, <2>8
<1>13. CASE RefreshRoom(t)
  <2>1. PICK r : r = task[t].doc
    OBVIOUS
  <2>2. /\ UNCHANGED <<shown, lock>> /\ task[t].user \in Users /\ Copy(r, m)
        /\ room' = [room EXCEPT ![m] = r]
        /\ Goto(t, "store", r, TRUE) \/ Decide(t, r)
    BY <1>1, <1>2, <1>13, <2>1 DEF RefreshRoom, Stands
  <2>3. TasksStand' /\ task' \in [Tasks -> TaskStates]
    BY <1>6, <1>7, <2>2
  <2> QED BY <1>3, <1>5, <2>2, <2>3
<1>14. CASE EndByMove(t)
  <2>1. UNCHANGED <<room, shown, lock>> /\ Goto(t, "store", latest, TRUE)
    BY <1>2, <1>10, <1>14 DEF EndByMove, Outcome
  <2> QED BY <1>3, <1>4, <1>7, <1>10, <2>1
<1>15. CASE PersistMove(t)
  <2>1. PICK r : r = task[t].room
    OBVIOUS
  <2>2. UNCHANGED <<room, shown, lock>> /\ Copy(r, m)
    BY <1>1, <1>2, <1>15, <2>1 DEF PersistMove, Stands, Persistable
  <2>3. CASE Goto(t, "store", r, TRUE)
    BY <1>3, <1>4, <1>7, <2>2, <2>3
  <2>4. CASE Goto(t, "latest", NoRoom, FALSE)
    <3>1. TasksStand' /\ task' \in [Tasks -> TaskStates]
      BY <1>0, <1>1, <2>4, HandKeeps
    <3> QED BY <1>3, <1>4, <2>2, <3>1
  <2> QED BY <1>15, <2>1, <2>3, <2>4 DEF PersistMove
<1>16. CASE ReadLatest(t)
  <2>1. /\ UNCHANGED <<room, shown, lock>>
        /\ \E reply \in BOOLEAN : Goto(t, "store", doc, reply)
    BY <1>2, <1>9, <1>16 DEF ReadLatest
  <2> QED BY <1>3, <1>4, <1>7, <1>9, <2>1
<1>17. CASE StoreRoom(t)
  <2>1. PICK r : r = task[t].room
    OBVIOUS
  <2>2. /\ UNCHANGED lock /\ Copy(r, m) /\ room' = [room EXCEPT ![m] = r]
        /\ Goto(t, "release", NoRoom, FALSE)
        /\ shown' = shown \/ shown' = [shown EXCEPT ![m] = r.moves]
    BY <1>1, <1>2, <1>17, <2>1 DEF StoreRoom, Stands
  <2>3. r.moves \in Seq(Moves)
    BY <2>2 DEF Copy, RoomStates
  <2>4. shown' \in [Matches -> Seq(Moves)]
    BY <1>3, <2>2, <2>3
  <2> QED BY <1>5, <1>8, <2>2, <2>4
<1>18. CASE TaskFails(t)
  BY <1>3, <1>4, <1>8, <1>18 DEF TaskFails
<1>19. CASE Release(t)
  <2>1. /\ UNCHANGED <<room, shown>> /\ task' = [task EXCEPT ![t] = IdleTask]
        /\ lock' = [lock EXCEPT ![m] = Freed(t, m)]
    BY <1>2, <1>19 DEF Release
  <2>2. lock' \in [Matches -> Tasks \cup {NoTask}]
    BY <1>3, <2>1 DEF Freed
  <2>3. IdleTask \in TaskStates
    BY BoardAssumption DEF IdleTask, TaskStates
  <2>4. Stands(IdleTask)'
    BY DEF Stands, IdleTask
  <2>5. TasksStand' /\ task' \in [Tasks -> TaskStates]
    BY <1>0, <2>1, <2>3, <2>4, HandAfter
  <2> QED BY <1>4, <2>1, <2>2, <2>5
<1> QED BY <1>11, <1>12, <1>13, <1>14, <1>15, <1>16, <1>17, <1>18, <1>19

(* Steps of nobody's handler leave what handlers hold, or end handlers, and *)
(* drop rooms and locks.                                                   *)
LEMMA OtherThanHandlers ==
    ASSUME GInv, [GameNext]_vars,
           \/ \E m \in Matches :
                LockExpires(m) \/ LockLapses(m) \/ RoomExpires(m) \/ QueueIsDropped(m)
           \/ \E p \in Procs : Crash(p)
           \/ UNCHANGED <<room, lock, task, shown>>
    PROVE  HandsAndRooms
<1>0. \A m \in Matches : Kept(m)
  BY DocsAfter
<1>1. /\ room \in [Matches -> RoomStates \cup {NoRoom}]
      /\ lock \in [Matches -> Tasks \cup {NoTask}]
      /\ shown \in [Matches -> Seq(Moves)]
      /\ task \in [Tasks -> TaskStates] /\ TasksStand
  BY DEF GInv, RoomTyped
<1>2. shown' = shown
  BY DEF LockExpires, LockLapses, RoomExpires, QueueIsDropped, Crash
<1>3. /\ room' \in [Matches -> RoomStates \cup {NoRoom}]
      /\ \A n \in Matches : room'[n] = room[n] \/ room'[n] = NoRoom
      /\ lock' \in [Matches -> Tasks \cup {NoTask}]
  <2>1. CASE \E m \in Matches :
                LockExpires(m) \/ LockLapses(m) \/ RoomExpires(m) \/ QueueIsDropped(m)
    BY <1>1, <2>1 DEF LockExpires, LockLapses, RoomExpires, QueueIsDropped
  <2>2. CASE \E p \in Procs : Crash(p)
    BY <1>1, <2>2 DEF Crash
  <2>3. CASE UNCHANGED <<room, lock, task, shown>>
    BY <1>1, <2>3
  <2> QED BY <2>1, <2>2, <2>3
<1>4. RoomsStand'
  BY <1>0, <1>3, RoomsKept
<1>5. TasksStand' /\ task' \in [Tasks -> TaskStates]
  <2>1. CASE UNCHANGED task
    BY <1>0, <2>1, HandsKept
  <2>2. CASE \E p \in Procs : Crash(p)
    <3>1. PICK p \in Procs : task' = [s \in Tasks |-> IF Dies(p, s) THEN IdleTask ELSE task[s]]
      BY <2>2 DEF Crash
    <3>2. IdleTask \in TaskStates
      BY BoardAssumption DEF IdleTask, TaskStates, Steps
    <3>3. ASSUME NEW s \in Tasks, NEW k, k = task'[s] PROVE Stands(k)'
      <4>1. CASE k = IdleTask
        BY <4>1 DEF Stands, IdleTask
      <4>2. CASE k = task[s]
        <5>1. Stands(k)
          BY <1>1, <4>2 DEF TasksStand
        <5> QED BY <1>0, <5>1, StandsKept
      <4> QED BY <3>1, <3>3, <4>1, <4>2
    <3> QED BY <1>1, <3>1, <3>2, <3>3, HandsAfter
  <2>3. CASE \E m \in Matches :
                LockExpires(m) \/ LockLapses(m) \/ RoomExpires(m) \/ QueueIsDropped(m)
    BY <2>1, <2>3 DEF LockExpires, LockLapses, RoomExpires, QueueIsDropped
  <2> QED BY <2>1, <2>2, <2>3
<1> QED BY <1>1, <1>2, <1>3, <1>4, <1>5 DEF HandsAndRooms

(* The counters stay within their bounds. *)
LEMMA CountersKept ==
    ASSUME GInv, [GameNext]_vars
    PROVE  /\ setting' = setting
           /\ lapses' \in 0 .. setting.lapses /\ crashes' \in 0 .. setting.crashes
           /\ lapses' = lapses \/ lapses' = lapses + 1
<1>1. /\ lapses \in 0 .. setting.lapses /\ crashes \in 0 .. setting.crashes
      /\ setting.lapses \in Nat /\ setting.crashes \in Nat
  BY RoomAssumption DEF GInv, RoomTyped
<1>2. CASE TaskSteps
  BY <1>1, <1>2 DEF TaskSteps, Begin, ReadMatch, FetchRoom, RefreshRoom, EndByMove, PersistMove,
     ReadLatest, StoreRoom, TaskFails, Release
<1>3. CASE \E m \in Matches :
              LockExpires(m) \/ LockLapses(m) \/ RoomExpires(m) \/ QueueIsDropped(m)
  BY <1>1, <1>3 DEF LockExpires, LockLapses, RoomExpires, QueueIsDropped
<1>4. CASE \E p \in Procs : Crash(p)
  BY <1>1, <1>4 DEF Crash
<1>5. CASE UNCHANGED roomVars \/ UNCHANGED vars
  BY <1>1, <1>5 DEF roomVars, vars
<1> QED BY <1>2, <1>3, <1>4, <1>5 DEF GameNext

(* The invariant is inductive. *)
LEMMA GameStepKeeps ==
    ASSUME GInv, [GameNext]_vars
    PROVE  GInv'
<1>1. IInv' /\ DocsStand' /\ \A m \in Matches : Kept(m)
  BY DocsAfter
<1>2. HandsAndRooms
  <2>1. ASSUME NEW t \in Tasks, NEW m \in Matches, NEW u \in Users,
               \/ Begin(t, "join", m, u, 0)
               \/ \E col \in 0 .. Cols - 1 : Begin(t, "move", m, u, col)
        PROVE  HandsAndRooms
    <3>1. 0 \in 0 .. Cols - 1
      BY BoardAssumption
    <3> QED BY <1>1, <2>1, <3>1, BeginKeeps
  <2>2. CASE TaskSteps
    <3>1. PICK t \in Tasks :
              \/ \E m \in Matches, u \in Users :
                   \/ Begin(t, "join", m, u, 0)
                   \/ \E col \in 0 .. Cols - 1 : Begin(t, "move", m, u, col)
              \/ ReadMatch(t) \/ FetchRoom(t) \/ RefreshRoom(t) \/ EndByMove(t)
              \/ PersistMove(t) \/ ReadLatest(t) \/ StoreRoom(t) \/ TaskFails(t) \/ Release(t)
      BY <2>2 DEF TaskSteps
    <3> QED BY <2>1, <3>1, OtherSteps
  <2>3. CASE UNCHANGED roomVars \/ UNCHANGED vars
    BY <2>3, OtherThanHandlers DEF roomVars, vars
  <2> QED BY <2>2, <2>3, OtherThanHandlers DEF GameNext
<1>3. RoomTyped'
  BY <1>2, CountersKept DEF GInv, RoomTyped, HandsAndRooms
<1> QED BY <1>1, <1>2, <1>3 DEF GInv, HandsAndRooms

(* It holds before there are matches. *)
LEMMA GameStarts == GameInit => GInv
<1> SUFFICES ASSUME GameInit PROVE GInv
  OBVIOUS
<1>1. IInv
  BY InitIInv DEF GameInit
<1>2. IdleTask \in TaskStates
  BY BoardAssumption DEF IdleTask, TaskStates, Steps
<1>3. RoomTyped
  <2>1. setting.lapses \in Nat /\ setting.crashes \in Nat
    BY RoomAssumption DEF GameInit
  <2>2. <<>> \in Seq(Moves)
    OBVIOUS
  <2> QED BY <1>2, <2>1, <2>2 DEF GameInit, RoomTyped
<1>4. ASSUME NEW m \in Matches PROVE DocStands(m)
  <2>1. /\ mstatus[m] = "none" /\ player2[m] = NoUser /\ moves[m] = <<>> /\ reason[m] = "none"
        /\ NoUser \notin Users
    BY SettlementAssumption DEF GameInit, SettlementInit
  <2> QED BY <2>1, EmptyGame DEF DocStands
<1>5. RoomsStand /\ TasksStand
  BY DEF GameInit, RoomsStand, TasksStand, Stands, IdleTask
<1> QED BY <1>1, <1>3, <1>4, <1>5 DEF GInv, DocsStand

(* The inductive invariant: what handlers and rooms hold goes with their   *)
(* match, and a history is a game.                                         *)
THEOREM GameInvariant == GameSpec => []GInv
BY GameStarts, GameStepKeeps, PTL DEF GameSpec

(* Rooms do to matches what MatchSettlement allows: what is proved of the  *)
(* documents and the stakes there is true of the matches that are played   *)
(* in rooms (completeMatch and persistMoveHistory as makeMove calls them). *)
THEOREM RoomsImplementSettlement == GameSpec => SettlementSpec
<1>1. GameInit => SettlementInit
  BY DEF GameInit
<1> QED BY <1>1, StepsSettle, GameInvariant, PTL DEF GameSpec, SettlementSpec

-----------------------------------------------------------------------------
(* With locks that are kept: LockInv is inductive. *)

(* The invariant after a step, read entry by entry. *)
LEMMA TasksCurrentAfter ==
    ASSUME \A s \in Tasks : \A k : k = task'[s] => Current(k)'
    PROVE  TasksCurrent'
BY DEF TasksCurrent, Current, UpToDate

(* The same for the rooms. *)
LEMMA RoomsCurrentAfter ==
    ASSUME \A m \in Matches : \A r : r = room'[m] /\ r # NoRoom => UpToDate(r, m)'
    PROVE  RoomsCurrent'
BY DEF RoomsCurrent, UpToDate

(* The history of a match gets longer or stays as it is. *)
Grows(m) == IsPrefix(moves[m], moves'[m])

(* What is up to date of a match that is kept and only grows stays so. *)
LEMMA UpToDateKept ==
    ASSUME NEW m \in Matches, NEW r, r.moves \in Seq(Moves), UpToDate(r, m),
           moves[m] \in Seq(Moves), moves'[m] \in Seq(Moves), Kept(m), Grows(m)
    PROVE  UpToDate(r, m)'
<1>1. IsPrefix(r.moves, moves'[m])
  BY PrefixChain DEF UpToDate, Grows
<1>2. ASSUME r.status = "completed" PROVE r = RoomOf(m)'
  <2>1. r = RoomOf(m)
    BY <1>2 DEF UpToDate
  <2>2. mstatus[m] = "completed"
    BY <1>2, <2>1 DEF RoomOf
  <2> QED BY <2>1, <2>2 DEF Kept
<1> QED BY <1>1, <1>2 DEF UpToDate

(* A handler whose match has no new move still goes with it. *)
LEMMA CurrentKept ==
    ASSUME NEW k \in TaskStates, Stands(k), Current(k),
           \A m \in Matches : moves[m] \in Seq(Moves) /\ Kept(m),
           k.pc # "idle" => moves'[k.m] = moves[k.m]
    PROVE  Current(k)'
<1>1. CASE k.pc = "idle"
  BY <1>1 DEF Current
<1>2. CASE k.pc # "idle"
  <2>1. PICK m \in Matches : m = k.m /\ moves'[m] = moves[m] /\ moves[m] \in Seq(Moves)
    BY <1>2 DEF Stands
  <2>2. Grows(m) /\ Kept(m)
    BY <2>1, PrefixGrows DEF Grows
  <2>3. PICK r : r = k.room
    OBVIOUS
  <2>4. PICK doc : doc = k.doc
    OBVIOUS
  <2>5. k.pc = "store" => r.moves \in Seq(Moves)
    BY <1>2, <2>1, <2>3 DEF Stands, Copy, RoomStates
  <2>6. k.pc \in {"fetch", "refresh"} => doc.moves \in Seq(Moves)
    BY <1>2, <2>1, <2>4 DEF Stands, Copy, RoomStates
  <2>7. k.pc = "store" => UpToDate(r, m)'
    BY <1>2, <2>1, <2>2, <2>3, <2>5, UpToDateKept DEF Current
  <2>8. k.pc \in {"fetch", "refresh"} => UpToDate(doc, m)'
    BY <1>2, <2>1, <2>2, <2>4, <2>6, UpToDateKept DEF Current
  <2> QED BY <1>2, <2>1, <2>3, <2>4, <2>7, <2>8 DEF Current
<1> QED BY <1>1, <1>2

(* Requests and the job make no moves. *)
LEMMA OthersMakeNoMoves ==
    ASSUME GInv, SomeOther
    PROVE  moves' = moves
<1>1. moves \in [Matches -> Seq(Moves)]
  BY DEF GInv, IInv, DocsTyped
<1>2. CASE SomeSit
  BY <1>2 DEF SomeSit, CreateMatch, JoinMatch
<1>3. CASE SomeCallOff
  BY <1>1, <1>3 DEF SomeCallOff, CallsOff, CallOff, Close
<1>4. CASE SomeStop
  BY <1>1, <1>4 DEF SomeStop, Settles, Close
<1>5. CASE NoneTouched
  BY <1>5 DEF NoneTouched, docVars
<1> QED BY <1>2, <1>3, <1>4, <1>5, OthersDo DEF SomeOther, GInv

(* Moves are only added, to one match at most, by a handler that works on it. *)
LEMMA HistoriesGrow ==
    ASSUME GInv, TasksCurrent, [GameNext]_vars
    PROVE  /\ \A m \in Matches : Grows(m) /\ moves'[m] \in Seq(Moves)
           /\ \/ moves' = moves
              \/ \E t \in Tasks : /\ PersistMove(t) \/ EndByMove(t)
                                  /\ \A m \in Matches \ {task[t].m} : moves'[m] = moves[m]
<1>1. moves \in [Matches -> Seq(Moves)] /\ moves' \in [Matches -> Seq(Moves)]
  BY DocsAfter DEF GInv, IInv, DocsTyped
<1>2. ASSUME moves' = moves PROVE \A m \in Matches : Grows(m)
  BY <1>1, <1>2, PrefixGrows DEF Grows
<1>3. ASSUME NEW t \in Tasks, PersistMove(t) \/ EndByMove(t), moves' # moves
      PROVE  /\ \A m \in Matches : Grows(m)
             /\ \A m \in Matches \ {task[t].m} : moves'[m] = moves[m]
  <2>1. Stands(task[t]) /\ Current(task[t]) /\ task[t].pc \in {"persist", "complete"}
    BY <1>3 DEF GInv, TasksStand, TasksCurrent, PersistMove, EndByMove
  <2>2. PICK n \in Matches : n = task[t].m
    BY <2>1 DEF Stands
  <2>3. IsPrefix(moves[n], task[t].room.moves)
    BY <2>1, <2>2 DEF Current
  <2>4. moves' = [moves EXCEPT ![n] = task[t].room.moves]
    BY <1>3, <2>2 DEF PersistMove, PersistMoveHistory, EndByMove, CompleteMatch, Finalize,
       Close, settlementVars, docVars
  <2>5. Grows(n)
    BY <1>1, <2>3, <2>4 DEF Grows
  <2>6. \A m \in Matches \ {n} : moves'[m] = moves[m] /\ Grows(m)
    BY <1>1, <2>4, PrefixGrows DEF Grows
  <2> QED BY <2>2, <2>5, <2>6
<1>4. CASE SomeOther \/ UNCHANGED settlementVars
  <2>1. moves' = moves
    BY <1>4, OthersMakeNoMoves DEF settlementVars, docVars
  <2> QED BY <1>1, <1>2, <2>1
<1>5. CASE \E t \in Tasks : PersistMove(t) \/ EndByMove(t)
  BY <1>1, <1>2, <1>3, <1>5
<1>6. SomeOther \/ UNCHANGED settlementVars \/ \E t \in Tasks : PersistMove(t) \/ EndByMove(t)
  <2>1. CASE TaskSteps
    BY <2>1 DEF TaskSteps, Begin, ReadMatch, FetchRoom, RefreshRoom, ReadLatest, StoreRoom,
       TaskFails, Release
  <2>2. CASE \/ \E m \in Matches :
                   LockExpires(m) \/ LockLapses(m) \/ RoomExpires(m) \/ QueueIsDropped(m)
             \/ \E p \in Procs : Crash(p)
    BY <2>2 DEF LockExpires, LockLapses, RoomExpires, QueueIsDropped, Crash
  <2>3. CASE UNCHANGED vars
    BY <2>3 DEF vars
  <2> QED BY <2>1, <2>2, <2>3 DEF GameNext, SomeOther
<1> QED BY <1>4, <1>5, <1>6

(* One handler goes on, and what the others have in hand goes with the     *)
(* history still if nothing is added to the matches they work on.          *)
LEMMA HandCurrent ==
    ASSUME GInv, LocksHold, TasksCurrent, [GameNext]_vars, NEW t \in Tasks, NEW k,
           task' = [task EXCEPT ![t] = k], Current(k)',
           \A s \in Tasks \ {t} : task[s].pc # "idle" => moves'[task[s].m] = moves[task[s].m]
    PROVE  TasksCurrent'
<1>1. /\ task \in [Tasks -> TaskStates]
      /\ \A m \in Matches : moves[m] \in Seq(Moves) /\ Kept(m)
  BY DocsAfter DEF GInv, RoomTyped, IInv, DocsTyped
<1>2. ASSUME NEW s \in Tasks, NEW j, j = task'[s] PROVE Current(j)'
  <2>1. CASE s = t
    <3>1. j = k
      BY <1>1, <1>2, <2>1
    <3> QED BY <3>1
  <2>2. CASE s # t
    <3>1. j = task[s] /\ j \in TaskStates
      BY <1>1, <1>2, <2>2
    <3>2. Stands(j) /\ Current(j) /\ (j.pc # "idle" => moves'[j.m] = moves[j.m])
      BY <2>2, <3>1 DEF GInv, TasksStand, TasksCurrent
    <3> QED BY <1>1, <3>1, <3>2, CurrentKept
  <2> QED BY <2>1, <2>2
<1> QED BY <1>2, TasksCurrentAfter

(* One handler at a time works on a match. *)
LEMMA AloneInRoom ==
    ASSUME LocksHold, NEW t \in Tasks, task[t].pc # "idle",
           NEW s \in Tasks \ {t}, task[s].pc # "idle"
    PROVE  task[s].m # task[t].m
BY DEF LocksHold

(* A handler goes on with what it has in hand and keeps its lock. *)
LEMMA GoesCurrent ==
    ASSUME GInv, LocksHold, TasksCurrent, [GameNext]_vars, NEW t \in Tasks,
           task[t].pc # "idle", NEW m \in Matches, m = task[t].m,
           NEW k, k.m = m, task' = [task EXCEPT ![t] = k], Current(k)', lock' = lock,
           \A n \in Matches \ {m} : moves'[n] = moves[n]
    PROVE  TasksCurrent' /\ LocksHold'
<1>1. ASSUME NEW s \in Tasks \ {t}, task[s].pc # "idle"
      PROVE  moves'[task[s].m] = moves[task[s].m]
  <2>1. task[s].m \in Matches \ {m}
    BY <1>1, AloneInRoom DEF GInv, TasksStand, Stands
  <2> QED BY <2>1
<1>2. TasksCurrent'
  BY <1>1, HandCurrent
<1>3. LocksHold'
  BY DEF LocksHold, GInv, RoomTyped
<1> QED BY <1>2, <1>3

(* The same, where it needs only a room for its next step. *)
LEMMA GotoCurrent ==
    ASSUME GInv, LocksHold, TasksCurrent, [GameNext]_vars, NEW t \in Tasks,
           task[t].pc # "idle", NEW m \in Matches, m = task[t].m, lock' = lock,
           \A n \in Matches \ {m} : moves'[n] = moves[n],
           NEW pc \in {"complete", "persist", "latest", "store", "release"},
           NEW r, NEW reply, Goto(t, pc, r, reply),
           pc \in {"persist", "complete"} => IsPrefix(moves'[m], r.moves),
           pc = "store" => UpToDate(r, m)'
    PROVE  TasksCurrent' /\ LocksHold'
<1> DEFINE k == [IdleTask EXCEPT !.pc = pc, !.m = task[t].m, !.room = r, !.reply = reply]
<1>1. k.pc = pc /\ k.m = m /\ k.room = r /\ task' = [task EXCEPT ![t] = k]
  BY DEF Goto, IdleTask
<1> HIDE DEF k
<1>2. PICK j : j = k
  OBVIOUS
<1>3. Current(j)'
  BY <1>1, <1>2 DEF Current
<1> QED BY <1>1, <1>2, <1>3, GoesCurrent

(* What the match is at the end of a step is up to date then. *)
LEMMA DocIsCurrent ==
    ASSUME NEW m \in Matches, moves'[m] \in Seq(Moves), NEW r, r = RoomOf(m)'
    PROVE  UpToDate(r, m)' /\ r.moves = moves'[m]
<1>1. r.moves = moves'[m]
  BY DEF RoomOf
<1> QED BY <1>1, PrefixGrows DEF UpToDate

(* The rooms, unless one is dropped or stored that is up to date. *)
LEMMA RoomsStayCurrent ==
    ASSUME GInv, RoomsCurrent, [GameNext]_vars, \A m \in Matches : Grows(m),
           \A m \in Matches : \A r : r = room'[m] =>
               r = room[m] \/ r = NoRoom \/ UpToDate(r, m)'
    PROVE  RoomsCurrent'
<1>1. \A m \in Matches : Kept(m) /\ moves[m] \in Seq(Moves) /\ moves'[m] \in Seq(Moves)
  BY DocsAfter DEF GInv, IInv, DocsTyped
<1>2. ASSUME NEW m \in Matches, NEW r, r = room'[m], r # NoRoom PROVE UpToDate(r, m)'
  <2>1. CASE r = room[m]
    <3>1. UpToDate(r, m)
      BY <1>2, <2>1 DEF RoomsCurrent
    <3>2. r.moves \in Seq(Moves)
      BY <1>2, <2>1 DEF GInv, RoomsStand, Copy, RoomStates
    <3> QED BY <1>1, <3>1, <3>2, UpToDateKept
  <2> QED BY <1>2, <2>1
<1> QED BY <1>2, RoomsCurrentAfter

(* What was reported stays in a history that only grows. *)
LEMMA ShownStays ==
    ASSUME GInv, ShownIsKept, [GameNext]_vars, \A m \in Matches : Grows(m),
           \A m \in Matches : \/ shown'[m] = shown[m]
                              \/ IsPrefix(shown'[m], moves'[m])
    PROVE  ShownIsKept'
<1>1. ASSUME NEW m \in Matches PROVE IsPrefix(shown'[m], moves'[m])
  <2>1. shown[m] \in Seq(Moves) /\ moves[m] \in Seq(Moves) /\ moves'[m] \in Seq(Moves)
    BY DocsAfter DEF GInv, IInv, DocsTyped, RoomTyped
  <2>2. IsPrefix(shown[m], moves'[m])
    BY <2>1, PrefixChain DEF ShownIsKept, Grows
  <2> QED BY <2>2
<1> QED BY <1>1 DEF ShownIsKept

(* A handler begins only in a room nobody else is in. *)
LEMMA BeginAgrees ==
    ASSUME GInv, AllHold, [GameNext]_vars, NEW t \in Tasks, NEW kind, NEW m \in Matches,
           NEW u, NEW col, Begin(t, kind, m, u, col)
    PROVE  AllHold'
<1> DEFINE k == [IdleTask EXCEPT !.pc = "read", !.kind = kind, !.m = m, !.user = u, !.col = col]
<1>1. k.pc = "read" /\ k.m = m /\ task' = [task EXCEPT ![t] = k]
  BY DEF IdleTask, Begin
<1> HIDE DEF k
<1>2. /\ lock[m] = NoTask /\ lock' = [lock EXCEPT ![m] = t] /\ moves' = moves
      /\ UNCHANGED <<room, shown>>
  BY DEF Begin, settlementVars, docVars
<1>3. \A n \in Matches : Grows(n)
  BY <1>2, HistoriesGrow DEF AllHold
<1>4. TasksCurrent'
  <2>1. PICK j : j = k
    OBVIOUS
  <2>2. Current(j)'
    BY <1>1, <2>1 DEF Current
  <2> QED BY <1>1, <1>2, <2>1, <2>2, HandCurrent DEF AllHold
<1>5. LocksHold'
  <2>1. NoTask \notin Tasks
    BY RoomAssumption
  <2> QED BY <1>1, <1>2, <2>1 DEF AllHold, LocksHold, GInv, RoomTyped
<1>6. RoomsCurrent' /\ ShownIsKept'
  BY <1>2, <1>3, RoomsStayCurrent, ShownStays DEF AllHold
<1> QED BY <1>4, <1>5, <1>6 DEF AllHold

(* The lock is deleted by the handler that holds it. *)
LEMMA ReleaseAgrees ==
    ASSUME GInv, AllHold, [GameNext]_vars, NEW t \in Tasks, Release(t)
    PROVE  AllHold'
<1>1. PICK m \in Matches : m = task[t].m
  BY DEF Release, GInv, TasksStand, Stands
<1>2. /\ task[t].pc = "release" /\ task' = [task EXCEPT ![t] = IdleTask] /\ moves' = moves
      /\ lock' = [lock EXCEPT ![m] = Freed(t, m)] /\ UNCHANGED <<room, shown>>
  BY <1>1 DEF Release, settlementVars, docVars
<1>3. \A n \in Matches : Grows(n)
  BY <1>2, HistoriesGrow DEF AllHold
<1>4. TasksCurrent'
  <2>1. PICK j : j = IdleTask
    OBVIOUS
  <2>2. Current(j)'
    BY <2>1 DEF Current, IdleTask
  <2> QED BY <1>2, <2>1, <2>2, HandCurrent DEF AllHold
<1>5. LocksHold'
  <2>1. ASSUME NEW s \in Tasks, task'[s].pc # "idle" PROVE lock'[task'[s].m] = s
    <3>1. s # t /\ task'[s] = task[s]
      BY <1>2, <2>1 DEF GInv, RoomTyped, IdleTask
    <3>2. task[s].m # m /\ lock[task[s].m] = s /\ task[s].m \in Matches
      BY <1>1, <1>2, <2>1, <3>1, AloneInRoom DEF AllHold, LocksHold, GInv, TasksStand, Stands
    <3> QED BY <1>2, <3>1, <3>2 DEF GInv, RoomTyped
  <2> QED BY <2>1 DEF LocksHold
<1>6. RoomsCurrent' /\ ShownIsKept'
  BY <1>2, <1>3, RoomsStayCurrent, ShownStays DEF AllHold
<1> QED BY <1>4, <1>5, <1>6 DEF AllHold

(* A move decided on in a room with the whole history adds to it. *)
LEMMA DecidesCurrent ==
    ASSUME GInv, AllHold, [GameNext]_vars, NEW t \in Tasks, task[t].pc # "idle",
           NEW m \in Matches, m = task[t].m, task[t].user \in Users,
           NEW r, Copy(r, m), r.moves = moves[m], Decide(t, r),
           lock' = lock, moves' = moves
    PROVE  TasksCurrent' /\ LocksHold'
<1>1. CASE Goto(t, "release", NoRoom, FALSE)
  BY <1>1, GotoCurrent DEF AllHold
<1>2. ASSUME NEW n \in RoomStates, IsPrefix(r.moves, n.moves),
             Goto(t, "persist", n, FALSE) \/ Goto(t, "complete", n, FALSE)
      PROVE  TasksCurrent' /\ LocksHold'
  <2>1. IsPrefix(moves'[m], n.moves)
    BY <1>2
  <2> QED BY <1>2, <2>1, GotoCurrent DEF AllHold
<1> QED BY <1>1, <1>2, Decides

(* Whatever a handler does next, it keeps the room to itself. *)
LEMMA HandlersAgree ==
    ASSUME GInv, AllHold, [GameNext]_vars, NEW t \in Tasks,
           ReadMatch(t) \/ FetchRoom(t) \/ RefreshRoom(t) \/ EndByMove(t) \/ PersistMove(t)
             \/ ReadLatest(t) \/ StoreRoom(t) \/ TaskFails(t)
    PROVE  AllHold'
<1>1. task[t].pc # "idle" /\ Stands(task[t]) /\ Current(task[t]) /\ lock' = lock
  BY DEF ReadMatch, FetchRoom, RefreshRoom, EndByMove, PersistMove, ReadLatest, StoreRoom,
         TaskFails, GInv, TasksStand, AllHold, TasksCurrent
<1>2. PICK m \in Matches : m = task[t].m
  BY <1>1 DEF Stands
<1>3. /\ \A n \in Matches : /\ Grows(n) /\ Kept(n)
                            /\ moves[n] \in Seq(Moves) /\ moves'[n] \in Seq(Moves)
      /\ room \in [Matches -> RoomStates \cup {NoRoom}]
      /\ shown \in [Matches -> Seq(Moves)]
      /\ moves \in [Matches -> Seq(Moves)]
      /\ task \in [Tasks -> TaskStates]
  BY HistoriesGrow, DocsAfter DEF AllHold, GInv, IInv, DocsTyped, RoomTyped
<1>4. PICK latest : latest = RoomOf(m)' /\ UpToDate(latest, m)'
  BY <1>3, DocIsCurrent
<1>5. ASSUME UNCHANGED <<room, shown>>, TasksCurrent', LocksHold'
      PROVE  AllHold'
  BY <1>3, <1>5, RoomsStayCurrent, ShownStays DEF AllHold
<1>6. ASSUME UNCHANGED shown, TasksCurrent', LocksHold', NEW r, UpToDate(r, m)',
             room' = [room EXCEPT ![m] = r]
      PROVE  AllHold'
  <2>1. \A n \in Matches : \A s : s = room'[n] => s = room[n] \/ UpToDate(s, n)'
    BY <1>3, <1>6
  <2> QED BY <1>3, <1>6, <2>1, RoomsStayCurrent, ShownStays DEF AllHold
<1>7. ASSUME NEW r, r.moves \in Seq(Moves), UpToDate(r, m)
      PROVE  UpToDate(r, m)'
  BY <1>3, <1>7, UpToDateKept
<1>8. ASSUME UNCHANGED settlementVars PROVE moves' = moves /\ RoomOf(m)' = RoomOf(m)
  BY <1>8 DEF settlementVars, docVars, RoomOf, OnTurn

<1>11. CASE ReadMatch(t)
  <2>1. UNCHANGED <<room, shown>> /\ moves' = moves /\ RoomOf(m) = latest /\ task[t].pc = "read"
    BY <1>4, <1>8, <1>11 DEF ReadMatch
  <2>2. CASE Goto(t, "release", NoRoom, FALSE)
    BY <1>1, <1>2, <1>5, <2>1, <2>2, GotoCurrent DEF AllHold
  <2>3. CASE Goto(t, "store", latest, FALSE)
    BY <1>1, <1>2, <1>4, <1>5, <2>1, <2>3, GotoCurrent DEF AllHold
  <2>4. CASE task' = [task EXCEPT ![t].pc = "fetch", ![t].doc = latest]
    <3> DEFINE k == [task[t] EXCEPT !.pc = "fetch", !.doc = latest]
    <3>1. task' = [task EXCEPT ![t] = k] /\ k.pc = "fetch" /\ k.m = m /\ k.doc = latest
      BY <1>2, <1>3, <2>4 DEF TaskStates
    <3> HIDE DEF k
    <3>2. PICK j : j = k
      OBVIOUS
    <3>3. latest.moves = moves'[m]
      BY <1>4 DEF RoomOf
    <3>4. Current(j)'
      BY <1>4, <3>1, <3>2, <3>3 DEF Current
    <3>5. TasksCurrent' /\ LocksHold'
      BY <1>1, <1>2, <2>1, <3>1, <3>2, <3>4, GoesCurrent DEF AllHold
    <3> QED BY <1>5, <2>1, <3>5
  <2> QED BY <1>2, <1>11, <2>1, <2>2, <2>3, <2>4 DEF ReadMatch
<1>12. CASE FetchRoom(t)
  <2>1. PICK doc : doc = task[t].doc
    OBVIOUS
  <2>2. PICK r : r = room[m]
    OBVIOUS
  <2>3. /\ UNCHANGED <<room, shown>> /\ moves' = moves /\ task[t].user \in Users
        /\ UpToDate(doc, m) /\ doc.moves = moves[m] /\ task[t].pc = "fetch"
    BY <1>1, <1>2, <1>8, <1>12, <2>1 DEF FetchRoom, Current, Stands
  <2>4. r # NoRoom => Copy(r, m) /\ UpToDate(r, m)
    BY <2>2 DEF GInv, RoomsStand, AllHold, RoomsCurrent
  <2>5. CASE task' = [task EXCEPT ![t].pc = "refresh"]
    <3> DEFINE k == [task[t] EXCEPT !.pc = "refresh"]
    <3>1. task' = [task EXCEPT ![t] = k] /\ k.pc = "refresh" /\ k.m = m /\ k.doc = doc
      BY <1>2, <1>3, <2>1, <2>5 DEF TaskStates
    <3> HIDE DEF k
    <3>2. PICK j : j = k
      OBVIOUS
    <3>3. UpToDate(doc, m)' /\ doc.moves = moves'[m]
      BY <1>3, <1>7, <2>3
    <3>4. Current(j)'
      BY <3>1, <3>2, <3>3 DEF Current
    <3>5. TasksCurrent' /\ LocksHold'
      BY <1>1, <1>2, <2>3, <3>1, <3>2, <3>4, GoesCurrent DEF AllHold
    <3> QED BY <1>5, <2>3, <3>5
  <2>6. CASE r # NoRoom /\ Goto(t, "store", r, TRUE)
    <3>1. UpToDate(r, m)'
      BY <1>7, <2>4, <2>6 DEF Copy, RoomStates
    <3> QED BY <1>1, <1>2, <1>5, <2>3, <2>6, <3>1, GotoCurrent DEF AllHold
  <2>7. CASE r # NoRoom /\ ~Drift(doc, r) /\ Decide(t, r)
    <3>1. r.moves \in Seq(Moves) /\ IsPrefix(r.moves, moves[m]) /\ Len(r.moves) = Len(moves[m])
      BY <2>3, <2>4, <2>7 DEF Copy, RoomStates, UpToDate, Drift
    <3>2. r.moves = moves[m]
      BY <1>3, <3>1, PrefixWhole
    <3>3. TasksCurrent' /\ LocksHold'
      BY <1>1, <1>2, <2>3, <2>4, <2>7, <3>2, DecidesCurrent
    <3> QED BY <1>5, <2>3, <3>3
  <2>8. \/ task' = [task EXCEPT ![t].pc = "refresh"]
        \/ /\ r # NoRoom
           /\ Goto(t, "store", r, TRUE) \/ (~Drift(doc, r) /\ Decide(t, r))
    <3>0. task[t].kind \in {"join", "move"}
      BY <1>3 DEF TaskStates
    <3> DEFINE stale == room[m] = NoRoom \/ Drift(task[t].doc, room[m])
                          \/ (task[t].kind = "join" /\ task[t].doc.status = "completed")
    <3>1. CASE stale
      BY <1>2, <1>12, <3>1 DEF FetchRoom
    <3>2. CASE ~stale /\ task[t].kind = "join"
      BY <1>2, <1>12, <2>2, <3>2 DEF FetchRoom
    <3>3. CASE ~stale /\ task[t].kind = "move"
      BY <1>2, <1>12, <2>1, <2>2, <3>3 DEF FetchRoom
    <3> QED BY <3>0, <3>1, <3>2, <3>3
  <2> QED BY <2>5, <2>6, <2>7, <2>8
<1>13. CASE RefreshRoom(t)
  <2>1. PICK doc : doc = task[t].doc
    OBVIOUS
  <2>2. /\ UNCHANGED shown /\ moves' = moves /\ task[t].user \in Users /\ Copy(doc, m)
        /\ UpToDate(doc, m) /\ doc.moves = moves[m] /\ room' = [room EXCEPT ![m] = doc]
        /\ Goto(t, "store", doc, TRUE) \/ Decide(t, doc)
    BY <1>1, <1>2, <1>8, <1>13, <2>1 DEF RefreshRoom, Current, Stands
  <2>3. UpToDate(doc, m)'
    BY <1>7, <2>2 DEF Copy, RoomStates
  <2>4. CASE Goto(t, "store", doc, TRUE)
    BY <1>1, <1>2, <1>6, <2>2, <2>3, <2>4, GotoCurrent DEF AllHold
  <2>5. CASE Decide(t, doc)
    <3>1. TasksCurrent' /\ LocksHold'
      BY <1>1, <1>2, <2>2, <2>5, DecidesCurrent
    <3> QED BY <1>6, <2>2, <2>3, <3>1
  <2> QED BY <2>2, <2>4, <2>5
<1>14. CASE EndByMove(t)
  <2>1. UNCHANGED <<room, shown>> /\ Goto(t, "store", latest, TRUE)
    BY <1>2, <1>4, <1>14 DEF EndByMove, Outcome
  <2>2. \A n \in Matches \ {m} : moves'[n] = moves[n]
    BY <1>2, <1>3, <1>14 DEF EndByMove, CompleteMatch, Finalize, Close, settlementVars, docVars
  <2> QED BY <1>1, <1>2, <1>4, <1>5, <2>1, <2>2, GotoCurrent DEF AllHold
<1>15. CASE PersistMove(t)
  <2>1. PICK r : r = task[t].room
    OBVIOUS
  <2>2. UNCHANGED <<room, shown>> /\ Persistable(r, m)
    BY <1>1, <1>2, <1>15, <2>1 DEF PersistMove, Stands
  <2>3. CASE PersistMoveHistory(m, r.moves) /\ Goto(t, "store", r, TRUE)
    <3>1. moves' = [moves EXCEPT ![m] = r.moves]
      BY <2>3 DEF PersistMoveHistory
    <3>2. moves'[m] = r.moves /\ \A n \in Matches \ {m} : moves'[n] = moves[n]
      BY <1>3, <3>1
    <3>3. UpToDate(r, m)'
      <4>1. r.moves \in Seq(Moves) /\ r.status # "completed"
        BY <2>2 DEF Persistable, Copy, RoomStates
      <4>2. IsPrefix(r.moves, moves'[m])
        BY <3>2, <4>1, PrefixGrows
      <4> QED BY <4>1, <4>2 DEF UpToDate
    <3> QED BY <1>1, <1>2, <1>5, <2>2, <2>3, <3>2, <3>3, GotoCurrent DEF AllHold
  <2>4. CASE Goto(t, "latest", NoRoom, FALSE) /\ UNCHANGED settlementVars
    <3>1. moves' = moves
      BY <1>8, <2>4
    <3> QED BY <1>1, <1>2, <1>5, <2>2, <2>4, <3>1, GotoCurrent DEF AllHold
  <2> QED BY <1>2, <1>15, <2>1, <2>3, <2>4 DEF PersistMove
<1>16. CASE ReadLatest(t)
  <2>1. /\ UNCHANGED <<room, shown>> /\ moves' = moves
        /\ \E reply \in BOOLEAN : Goto(t, "store", latest, reply)
    BY <1>2, <1>4, <1>8, <1>16 DEF ReadLatest
  <2> QED BY <1>1, <1>2, <1>4, <1>5, <2>1, GotoCurrent DEF AllHold
<1>17. CASE StoreRoom(t)
  <2>1. PICK r : r = task[t].room
    OBVIOUS
  <2>2. /\ UpToDate(r, m) /\ r.moves \in Seq(Moves) /\ room' = [room EXCEPT ![m] = r]
        /\ Goto(t, "release", NoRoom, FALSE) /\ moves' = moves
        /\ shown' = shown \/ shown' = [shown EXCEPT ![m] = r.moves]
    BY <1>1, <1>2, <1>8, <1>17, <2>1 DEF StoreRoom, Stands, Current, Copy, RoomStates
  <2>3. TasksCurrent' /\ LocksHold'
    BY <1>1, <1>2, <2>2, GotoCurrent DEF AllHold
  <2>4. UpToDate(r, m)'
    BY <1>7, <2>2
  <2>5. \A n \in Matches : shown'[n] = shown[n] \/ IsPrefix(shown'[n], moves'[n])
    BY <1>3, <2>2 DEF UpToDate
  <2>6. \A n \in Matches : \A s : s = room'[n] => s = room[n] \/ UpToDate(s, n)'
    BY <1>3, <2>2, <2>4
  <2>7. RoomsCurrent' /\ ShownIsKept'
    BY <1>3, <2>5, <2>6, RoomsStayCurrent, ShownStays DEF AllHold
  <2> QED BY <2>3, <2>7 DEF AllHold
<1>18. CASE TaskFails(t)
  <2>1. UNCHANGED <<room, shown>> /\ moves' = moves /\ Goto(t, "release", NoRoom, FALSE)
    BY <1>8, <1>18 DEF TaskFails
  <2> QED BY <1>1, <1>2, <1>5, <2>1, GotoCurrent DEF AllHold
<1> QED BY <1>11, <1>12, <1>13, <1>14, <1>15, <1>16, <1>17, <1>18

(* Steps that end handlers, drop rooms and free locks of dead handlers, or *)
(* change documents but make no moves.                                     *)
LEMMA OthersAgree ==
    ASSUME GInv, AllHold, [GameNext]_vars, moves' = moves, shown' = shown,
           \A s \in Tasks : task'[s] = task[s] \/ task'[s] = IdleTask,
           \A s \in Tasks : task'[s].pc # "idle" => lock'[task'[s].m] = s,
           \A m \in Matches : room'[m] = room[m] \/ room'[m] = NoRoom
    PROVE  AllHold'
<1>1. \A m \in Matches : Kept(m) /\ Grows(m) /\ moves[m] \in Seq(Moves)
  BY DocsAfter, HistoriesGrow DEF AllHold, GInv, IInv, DocsTyped
<1>2. ASSUME NEW s \in Tasks, NEW j, j = task'[s] PROVE Current(j)'
  <2>1. CASE j = IdleTask
    BY <2>1 DEF Current, IdleTask
  <2>2. CASE j = task[s]
    <3>1. j \in TaskStates /\ Stands(j) /\ Current(j)
      BY <2>2 DEF GInv, RoomTyped, TasksStand, AllHold, TasksCurrent
    <3> QED BY <1>1, <3>1, CurrentKept
  <2> QED BY <1>2, <2>1, <2>2
<1>3. TasksCurrent' /\ LocksHold'
  BY <1>2, TasksCurrentAfter DEF LocksHold
<1>4. RoomsCurrent' /\ ShownIsKept'
  BY <1>1, RoomsStayCurrent, ShownStays DEF AllHold
<1> QED BY <1>3, <1>4 DEF AllHold

(* The invariant of the locks is inductive. *)
LEMMA LockStepKeeps ==
    ASSUME GInv, LockInv, [GameNext]_vars
    PROVE  LockInv'
<1> SUFFICES ASSUME lapses' = 0 PROVE AllHold'
  BY DEF LockInv, AllHold
<1>1. lapses = 0 /\ AllHold
  <2>1. lapses \in Nat
    BY RoomAssumption DEF GInv, RoomTyped
  <2>2. lapses = 0
    BY <2>1, CountersKept
  <2> QED BY <2>2 DEF LockInv, AllHold
<1>2. /\ task \in [Tasks -> TaskStates] /\ lock \in [Matches -> Tasks \cup {NoTask}]
      /\ room \in [Matches -> RoomStates \cup {NoRoom}] /\ NoTask \notin Tasks
      /\ \A s \in Tasks : task[s].pc # "idle" =>
             lock[task[s].m] = s /\ task[s].m \in Matches
  BY <1>1, RoomAssumption DEF GInv, RoomTyped, AllHold, LocksHold, TasksStand, Stands
<1>3. CASE TaskSteps
  <2>1. PICK t \in Tasks :
            \/ \E m \in Matches, u \in Users :
                 \/ Begin(t, "join", m, u, 0)
                 \/ \E col \in 0 .. Cols - 1 : Begin(t, "move", m, u, col)
            \/ Release(t)
            \/ ReadMatch(t) \/ FetchRoom(t) \/ RefreshRoom(t) \/ EndByMove(t)
                 \/ PersistMove(t) \/ ReadLatest(t) \/ StoreRoom(t) \/ TaskFails(t)
    BY <1>3 DEF TaskSteps
  <2> QED BY <1>1, <2>1, BeginAgrees, ReleaseAgrees, HandlersAgree
<1>4. ASSUME NEW m \in Matches, LockExpires(m) PROVE AllHold'
  <2>1. /\ UNCHANGED <<moves, shown, task, room>> /\ lock' = [lock EXCEPT ![m] = NoTask]
        /\ lock[m] \in Tasks /\ ~Working(lock[m], m)
    BY <1>2, <1>4 DEF LockExpires, NotRenewed, settlementVars, docVars
  <2>2. \A s \in Tasks : task[s].pc # "idle" => task[s].m # m
    BY <1>2, <2>1 DEF Working
  <2> QED BY <1>1, <1>2, <2>1, <2>2, OthersAgree
<1>5. ASSUME NEW m \in Matches, LockLapses(m) \/ QueueIsDropped(m) PROVE FALSE
  BY <1>1, <1>5 DEF LockLapses, QueueIsDropped
<1>6. ASSUME NEW m \in Matches, RoomExpires(m) PROVE AllHold'
  <2>1. /\ UNCHANGED <<moves, shown, task, lock>> /\ room' = [room EXCEPT ![m] = NoRoom]
    BY <1>6 DEF RoomExpires, settlementVars, docVars
  <2> QED BY <1>1, <1>2, <2>1, OthersAgree
<1>7. ASSUME NEW p \in Procs, Crash(p) PROVE AllHold'
  <2>1. /\ UNCHANGED <<moves, shown>>
        /\ task' = [s \in Tasks |-> IF Dies(p, s) THEN IdleTask ELSE task[s]]
        /\ \A m \in Matches : room'[m] = room[m] \/ room'[m] = NoRoom
        /\ lock' = lock \/ registry = "memory"
    <3>1. registry \in {"redis", "memory"}
      BY RoomAssumption DEF GInv, RoomTyped, registry
    <3> QED BY <1>7, <3>1 DEF Crash, settlementVars, docVars
  <2>2. ASSUME NEW s \in Tasks, task'[s].pc # "idle" PROVE lock'[task'[s].m] = s
    <3>1. ~Dies(p, s) /\ task'[s] = task[s]
      BY <2>1, <2>2 DEF IdleTask
    <3>2. lock' = lock
      BY <2>1, <3>1 DEF Dies
    <3> QED BY <1>2, <2>2, <3>1, <3>2
  <2>3. \A s \in Tasks : task'[s] = task[s] \/ task'[s] = IdleTask
    BY <2>1
  <2> QED BY <1>1, <2>1, <2>2, <2>3, OthersAgree
<1>8. CASE SomeOther
  BY <1>1, <1>2, <1>8, OthersMakeNoMoves, OthersAgree DEF SomeOther, roomVars
<1>9. CASE UNCHANGED vars
  BY <1>1, <1>2, <1>9, OthersAgree DEF vars, roomVars, settlementVars, docVars
<1> QED BY <1>3, <1>4, <1>5, <1>6, <1>7, <1>8, <1>9 DEF GameNext, SomeOther

(* LockInv: at most one handler works on a match while none has lost its   *)
(* lock, so that what it has read and decided goes with the history when   *)
(* it is written (runExclusive).                                           *)
THEOREM LocksKeepRooms == GameSpec => [](GInv /\ LockInv)
<1>1. GameInit => LockInv
  <2> SUFFICES ASSUME GameInit PROVE LockInv
    OBVIOUS
  <2>1. LocksHold /\ TasksCurrent /\ RoomsCurrent
    BY DEF GameInit, LocksHold, TasksCurrent, RoomsCurrent, Current, IdleTask
  <2>2. ShownIsKept
    <3>1. \A m \in Matches : shown[m] = <<>> /\ moves[m] = <<>>
      BY DEF GameInit, SettlementInit
    <3>2. IsPrefix(<<>>, <<>>)
      <4>1. <<>> \in Seq(Moves)
        OBVIOUS
      <4> QED BY <4>1, PrefixGrows
    <3> QED BY <3>1, <3>2 DEF ShownIsKept
  <2> QED BY <2>1, <2>2 DEF LockInv, AllHold
<1> QED BY <1>1, GameStarts, GameStepKeeps, LockStepKeeps, PTL DEF GameSpec

-----------------------------------------------------------------------------
(* LockedRoomsAgree: no move that was reported to the players is lost, and *)
(* no room is ahead of its match, whatever crashes, failed calls,          *)
(* resignations and expiries fall between the steps of makeMove, while no  *)
(* handler loses its lock.                                                 *)
THEOREM LockedRoomsStayTrue == GameSpec => []LockedRoomsAgree
<1>1. GInv /\ LockInv => LockedRoomsAgree
  <2> SUFFICES ASSUME GInv, LockInv PROVE LockedRoomsAgree
    OBVIOUS
  <2>1. GameTypeOK
    <3>1. SettlementTypeOK
      BY DEF GInv, IInv, DocsTyped, MoneyTyped, JobsTyped, SettlementTypeOK
    <3>2. /\ setting \in Settings /\ room \in [Matches -> RoomStates \cup {NoRoom}]
          /\ lock \in [Matches -> Tasks \cup {NoTask}]
          /\ lapses \in 0 .. setting.lapses /\ crashes \in 0 .. setting.crashes
          /\ shown \in [Matches -> Seq(Moves)]
      BY DEF GInv, RoomTyped
    <3>3. ASSUME NEW t \in Tasks
          PROVE  /\ task[t].pc \in Steps
                 /\ task[t].pc # "idle" => task[t].m \in Matches
                 /\ task[t].pc \in {"read", "fetch", "refresh"} => task[t].user \in Users
                 /\ {task[t].doc, task[t].room} \subseteq RoomStates \cup {NoRoom}
      <4>1. task[t] \in TaskStates /\ Stands(task[t])
        BY DEF GInv, RoomTyped, TasksStand
      <4>2. /\ task[t].pc \in Steps
            /\ {task[t].doc, task[t].room} \subseteq RoomStates \cup {NoRoom}
        BY <4>1 DEF TaskStates
      <4> QED BY <4>1, <4>2 DEF Stands
    <3> QED BY <3>1, <3>2, <3>3 DEF GameTypeOK, Steps
  <2>2. ASSUME RoomsCurrent PROVE RoomIsNotAhead
    BY <2>2 DEF RoomsCurrent, UpToDate, RoomIsNotAhead
  <2> QED BY <2>1, <2>2 DEF LockedRoomsAgree, LockInv, AllHold
<1> QED BY <1>1, LocksKeepRooms, PTL

(* HistoryOnlyGrows: moves are only added to a match by a step in which no *)
(* handler has lost its lock (persistMoveHistory writes the whole history).*)
THEOREM HistoriesOnlyGrow == GameSpec => HistoryOnlyGrows
<1>1. ASSUME GInv, LockInv, [GameNext]_vars, lapses' = 0, NEW m \in Matches
      PROVE  IsPrefix(moves[m], moves'[m])
  <2>1. lapses = 0
    <3>1. lapses \in Nat
      BY <1>1, RoomAssumption DEF GInv, RoomTyped
    <3> QED BY <1>1, <3>1, CountersKept
  <2>2. TasksCurrent
    BY <1>1, <2>1 DEF LockInv, AllHold
  <2> QED BY <1>1, <2>2, HistoriesGrow DEF Grows
<1>2. GInv /\ LockInv /\ [GameNext]_vars =>
          [lapses' = 0 => \A m \in Matches : IsPrefix(moves[m], moves'[m])]_vars
  BY <1>1
<1> QED BY <1>2, LocksKeepRooms, PTL DEF GameSpec, HistoryOnlyGrows

(* GameIsSound: what is stored is a game, what is paid is the result on    *)
(* the board, and all stakes are accounted for, even when handlers lose    *)
(* their locks (makeMove, checkWin, completeMatch, expireStaleMatches).    *)
THEOREM GamesAreSound ==
    ASSUME IsFiniteSet(Users), IsFiniteSet(Matches)
    PROVE  GameSpec => []GameIsSound
<1>1. GInv => HistoryIsAGame /\ ResultIsOnTheBoard /\ LastMoverIsNotLate
  <2> SUFFICES ASSUME GInv, NEW m \in Matches
               PROVE  /\ \A i \in DOMAIN moves[m] :
                           /\ moves[m][i].by = IF i % 2 = 1 THEN player1[m] ELSE player2[m]
                           /\ moves[m][i].row = LandingRow(
                                BoardOf(SubSeq(moves[m], 1, i - 1), player1[m], player2[m]),
                                moves[m][i].col)
                           /\ LineAt(m, i) # <<>> => i = Len(moves[m]) /\ reason[m] = "winner"
                      /\ reason[m] = "winner" =>
                           /\ Len(moves[m]) > 0
                           /\ moves[m][Len(moves[m])].by = winner[m]
                           /\ LineAt(m, Len(moves[m])) # <<>>
                      /\ reason[m] = "draw" => /\ Len(moves[m]) = Rows * Cols
                                               /\ LineAt(m, Len(moves[m])) = <<>>
                      /\ reason[m] = "active_expired" /\ moves[m] # <<>> =>
                           moves[m][Len(moves[m])].by = winner[m]
    BY Zenon DEF HistoryIsAGame, ResultIsOnTheBoard, LastMoverIsNotLate
  <2> DEFINE p == player1[m]
             q == player2[m]
             h == moves[m]
  <2>1. DocStands(m) /\ h \in Seq(Moves) /\ DOMAIN h = 1 .. Len(h) /\ Len(h) \in Nat
    BY DEF GInv, DocsStand, IInv, DocsTyped
  <2>2. \A i : LineAt(m, i) = LineOf(h, i, p, q)
    BY DEF LineAt, LineOf, Disc
  <2>3. ASSUME NEW i \in DOMAIN h
        PROVE  /\ h[i].by = IF i % 2 = 1 THEN p ELSE q
               /\ h[i].row = LandingRow(BoardOf(SubSeq(h, 1, i - 1), p, q), h[i].col)
    BY <2>1, <2>3 DEF DocStands, Game, Mover
  <2>4. ASSUME NEW i \in DOMAIN h, LineOf(h, i, p, q) # <<>>
        PROVE  i = Len(h) /\ reason[m] = "winner"
    <3>1. reason[m] \in {"winner", "draw"}
      BY <2>1, <2>4 DEF DocStands, NoLineUpTo
    <3>2. EndsFor(h, winner[m], p, q) /\ (reason[m] = "draw" <=> winner[m] = Draw)
      BY <2>1, <3>1 DEF DocStands
    <3>3. i = Len(h)
      <4>1. i \in 1 .. Len(h) - 1 \/ i = Len(h)
        BY <2>1, <2>4
      <4> QED BY <2>4, <3>2, <4>1 DEF EndsFor, NoLineUpTo
    <3> QED BY <2>4, <3>1, <3>2, <3>3 DEF EndsFor
  <2>5. reason[m] = "winner" =>
            /\ Len(h) > 0 /\ h[Len(h)].by = winner[m] /\ LineOf(h, Len(h), p, q) # <<>>
    BY <2>1 DEF DocStands, EndsFor
  <2>6. reason[m] = "draw" => Len(h) = Rows * Cols /\ LineOf(h, Len(h), p, q) = <<>>
    BY <2>1 DEF DocStands, EndsFor
  <2>7. reason[m] = "active_expired" /\ h # <<>> => h[Len(h)].by = winner[m]
    BY <2>1 DEF DocStands
  <2> QED BY <2>2, <2>3, <2>4, <2>5, <2>6, <2>7
<1>2. GameSpec => []MatchBooksOK
  BY MatchBooksAddUp, RoomsImplementSettlement
<1> QED BY <1>1, <1>2, GameInvariant, PTL DEF GameIsSound
=============================================================================
