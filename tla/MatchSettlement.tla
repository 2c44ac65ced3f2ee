-------------------------- MODULE MatchSettlement --------------------------
(***************************************************************************)
(* The life of a match document and of the wagers staked on it: a player   *)
(* creates a match, another joins, moves are persisted, and the match is   *)
(* settled by a winning or drawing move, by a resignation or by the expiry *)
(* job, whichever comes first.                                             *)
(*                                                                         *)
(* An action is a Mongo transaction or a single update.  The transactions  *)
(* read the match document and write it, so two of them that overlap, or   *)
(* one that overlaps with a move, conflict and one runs again from the     *)
(* top: each takes effect at one moment.  A transaction that fails leaves  *)
(* nothing behind.                                                         *)
(*                                                                         *)
(* GameRoom composes this module with the rooms in which moves are made;   *)
(* here any history a room may hand over is persisted or completes the     *)
(* match.  Ratings, audit rows and events are left out.  Definitions no    *)
(* action uses are faulty variants for mutation runs.                      *)
(***************************************************************************)
EXTENDS MatchPayout, Sequences, FiniteSets, FiniteSetsExt

CONSTANTS
    Matches,          \* matches that may be created
    Users,
    MayAccess,        \* who may open each match: everybody, or the invited
    Wagers,           \* amounts a match may be played for, in raw units
    InitialBalance,   \* each user's balance before any match
    Moves,            \* entries of a moveHistory
    MaxMoves,         \* bound on the length of a history (42 in the code)
    Jobs,             \* processes that run the expiry job
    DbMayFail,        \* a transaction of the job may fail
    NoUser, Draw

ASSUME SettlementAssumption ==
    /\ MayAccess \in [Matches -> SUBSET Users]
    /\ Wagers \subseteq Nat
    /\ InitialBalance \in [Users -> Nat]
    /\ MaxMoves \in Nat
    /\ DbMayFail \in BOOLEAN
    /\ NoUser \notin Users
    /\ Draw \notin Users \cup {NoUser}

Histories == UNION {[1 .. n -> Moves] : n \in 0 .. MaxMoves}

VARIABLES
    (* the matches collection *)
    mstatus,      \* "none" before the document exists
    player1, player2,
    wager,
    moves,        \* moveHistory
    winner,       \* winnerId: a user, Draw, or NoUser while there is none
    reason,       \* settlementReason, or "none"
    (* the other collections a match touches *)
    balance,
    house,        \* balance of the commission account
    (* each process's expiry job *)
    idle,         \* matches last active before the cutoff of its last scan
    todo          \* the rooms it found and has not come to: <<match, status>>

docVars   == <<mstatus, player1, player2, wager, moves, winner, reason>>
moneyVars == <<balance, house>>
jobVars   == <<idle, todo>>
settlementVars == <<docVars, moneyVars, jobVars>>

SettlementInit ==
    /\ mstatus = [m \in Matches |-> "none"]
    /\ player1 = [m \in Matches |-> NoUser]
    /\ player2 = [m \in Matches |-> NoUser]
    /\ wager = [m \in Matches |-> 0]
    /\ moves = [m \in Matches |-> <<>>]
    /\ winner = [m \in Matches |-> NoUser]
    /\ reason = [m \in Matches |-> "none"]
    /\ balance = InitialBalance
    /\ house = 0
    /\ idle = [j \in Jobs |-> {}]
    /\ todo = [j \in Jobs |-> {}]

-----------------------------------------------------------------------------
(* Helpers. *)

(* lastActivityAt is set to now: later than every cutoff taken so far. *)
Touch(m) == idle' = [j \in Jobs |-> idle[j] \ {m}]

Seats(m) == {player1[m], player2[m]} \ {NoUser}

(* The player whose turn it is after h (determineCurrentTurn). *)
OnTurn(m, h) == IF Len(h) % 2 = 0 THEN player1[m] ELSE player2[m]

Opponent(m, u) == IF u = player1[m] THEN player2[m] ELSE player1[m]

Close(m, w, why, h) ==
    /\ mstatus' = [mstatus EXCEPT ![m] = "completed"]
    /\ winner' = [winner EXCEPT ![m] = w]
    /\ reason' = [reason EXCEPT ![m] = why]
    /\ moves' = [moves EXCEPT ![m] = h]
    /\ Touch(m)
    /\ UNCHANGED <<player1, player2, wager>>

(* handleWagerSettlement for a match with two players. *)
PayOut(m, w) ==
    IF w = Draw
    THEN /\ balance' = [balance EXCEPT ![player1[m]] = @ + RefundPerPlayer(wager[m]),
                                       ![player2[m]] = @ + RefundPerPlayer(wager[m])]
         /\ house' = house + DrawCommission(wager[m])
    ELSE /\ balance' = [balance EXCEPT ![w] = @ + WinnerAmount(wager[m])]
         /\ house' = house + WinCommission(wager[m])

(* Faulty variant: settles a match that another path has settled already. *)
FinalizeAgain(m, w, why, h) ==
    /\ PayOut(m, w)
    /\ Close(m, w, why, h)

(* finalizeMatch: a match that is completed already is returned as it is.  *)
(* The winner must be a participant; both checks come before any write.    *)
Finalize(m, w, why, h) ==
    IF mstatus[m] = "completed"
    THEN UNCHANGED <<docVars, moneyVars, idle>>
    ELSE /\ w \in Seats(m) \/ (w = Draw /\ why = "draw")
         /\ PayOut(m, w)
              /\ Close(m, w, why, h)

-----------------------------------------------------------------------------
(* Requests. *)

(* deductBalanceRawIfSufficient. *)
Covers(u, w) == balance[u] >= w

(* createMatchForUser: the wager is debited where the balance covers it. *)
CreateMatch(m, u, w) ==
    /\ mstatus[m] = "none"
    /\ Covers(u, w)
    /\ balance' = [balance EXCEPT ![u] = @ - w]
    /\ mstatus' = [mstatus EXCEPT ![m] = "waiting"]
    /\ player1' = [player1 EXCEPT ![m] = u]
    /\ wager' = [wager EXCEPT ![m] = w]
    /\ Touch(m)
    /\ UNCHANGED <<player2, moves, winner, reason, house, todo>>

(* Faulty variant: a match that was called off can still be joined. *)
JoinableLate(m, u) == mstatus[m] # "none" /\ u # player1[m] /\ player2[m] = NoUser

(* The checks of joinMatch: the match is not settled, the user is not in   *)
(* it, and the second seat is free.                                        *)
Joinable(m, u) ==
    /\ mstatus[m] \in {"waiting", "active"}
    /\ u \notin Seats(m)
    /\ player2[m] = NoUser

(* canAccessMatch: a private match is for its players and the invited. *)
CanAccess(m, u) == u \in MayAccess[m]

JoinMatch(m, u) ==
    /\ CanAccess(m, u)
    /\ Joinable(m, u)
    /\ Covers(u, wager[m])
    /\ balance' = [balance EXCEPT ![u] = @ - wager[m]]
    /\ player2' = [player2 EXCEPT ![m] = u]
    /\ mstatus' = [mstatus EXCEPT ![m] = "active"]
    /\ Touch(m)
    /\ UNCHANGED <<player1, wager, moves, winner, reason, house, todo>>

(* A waiting match is called off: its only player gets the stake back. *)
CallOff(m, why) ==
    /\ mstatus[m] = "waiting"
    /\ balance' = [balance EXCEPT ![player1[m]] = @ + wager[m]]
    /\ Close(m, Draw, why, moves[m])
    /\ UNCHANGED <<house>>

(* resignMatch before and after an opponent has joined. *)
CancelMatch(m, u) == /\ u \in Seats(m)
                     /\ CallOff(m, "resigned")
                     /\ UNCHANGED todo

ResignMatch(m, u) ==
    /\ u \in Seats(m)
    /\ mstatus[m] = "active"
    /\ Finalize(m, Opponent(m, u), "resigned", moves[m])
    /\ UNCHANGED todo

-----------------------------------------------------------------------------
(* What a room does to a match. *)

(* persistMoveHistory: replaces the history of an active match. *)
PersistMoveHistory(m, h) ==
    /\ mstatus[m] = "active"
    /\ moves' = [moves EXCEPT ![m] = h]
    /\ Touch(m)
    /\ UNCHANGED <<mstatus, player1, player2, wager, winner, reason,
                   moneyVars, todo>>

(* completeMatch, for a player whose move won or for a full board.  Rooms  *)
(* call it for matches they have seen active.                              *)
CompleteMatch(m, w, h) ==
    /\ mstatus[m] \in {"active", "completed"}
    /\ Finalize(m, w, IF w = Draw THEN "draw" ELSE "winner", h)
    /\ UNCHANGED todo

-----------------------------------------------------------------------------
(* expireStaleMatches. *)

(* The rooms the two queries return. *)
Listed(found) == {t \in found \X {"waiting", "active"} : mstatus[t[1]] = t[2]}

(* The cutoffs are taken and the rooms last active before them are listed. *)
(* Time has passed since the last scan: what was idle and has not been     *)
(* active since is idle still, and more may be.                            *)
ExpiryScan(j, found) ==
    /\ todo[j] = {}
    /\ idle[j] \subseteq found
    /\ \A m \in found : mstatus[m] \in {"waiting", "active"}
    /\ idle' = [idle EXCEPT ![j] = found]
    /\ todo' = [todo EXCEPT ![j] = Listed(found)]
    /\ UNCHANGED <<docVars, moneyVars>>

Dealt(j, m, s) == todo' = [todo EXCEPT ![j] = @ \ {<<m, s>>}]

(* Waiting rooms are dealt with before the active ones. *)
Due(j, m, s) == /\ <<m, s>> \in todo[j]
                /\ s = "active" => \A t \in todo[j] : t[2] = "active"

(* expireWaitingMatch: the status is read again; a match somebody has      *)
(* joined meanwhile is left alone.                                         *)
ExpireWaiting(j, m) ==
    /\ Due(j, m, "waiting")
    /\ \/ CallOff(m, "waiting_expired")
       \/ mstatus[m] # "waiting" /\ UNCHANGED <<docVars, moneyVars, idle>>
    /\ Dealt(j, m, "waiting")

(* Faulty variants: the last activity is not read again, or the comparison *)
(* is the wrong way round.                                                 *)
StillIdleAtScan(j, m) == mstatus[m] = "active"
StillIdleReversed(j, m) == mstatus[m] = "active" /\ m \notin idle[j]

StillIdle(j, m) == mstatus[m] = "active" /\ m \in idle[j]

(* Faulty variant: the player who is on turn is taken to be in time. *)
InTimeOnTurn(m, h) == OnTurn(m, h)

(* The opponent of the player who let the time pass. *)
InTime(m, h) == Opponent(m, OnTurn(m, h))

(* expireActiveMatch: status and lastActivityAt are read again. *)
ExpireActive(j, m) ==
    /\ Due(j, m, "active")
    /\ IF StillIdle(j, m)
       THEN Finalize(m, InTime(m, moves[m]), "active_expired", moves[m])
       ELSE UNCHANGED <<docVars, moneyVars, idle>>
    /\ Dealt(j, m, "active")

(* A transaction fails or the process dies: the rest waits for a new run. *)
ExpiryAborts(j) ==
    /\ DbMayFail
    /\ todo[j] # {}
    /\ todo' = [todo EXCEPT ![j] = {}]
    /\ UNCHANGED <<docVars, moneyVars, idle>>

-----------------------------------------------------------------------------
Requests == \E m \in Matches, u \in Users :
    \/ \E w \in Wagers : CreateMatch(m, u, w)
    \/ JoinMatch(m, u)
    \/ CancelMatch(m, u)
    \/ ResignMatch(m, u)

Expiry == \E j \in Jobs :
    \/ \E found \in SUBSET Matches : ExpiryScan(j, found)
    \/ \E m \in Matches : ExpireWaiting(j, m) \/ ExpireActive(j, m)
    \/ ExpiryAborts(j)

RoomSteps == \E m \in Matches, h \in Histories :
    \/ PersistMoveHistory(m, h)
    \/ \E w \in Users \cup {Draw} : CompleteMatch(m, w, h)

SettlementNext == Requests \/ Expiry \/ RoomSteps

SettlementSpec == SettlementInit /\ [][SettlementNext]_settlementVars

(* The timer of the job does not stop, and time passes: a match nobody     *)
(* touches is found by a later scan.  A transaction that is tried again on *)
(* every run does not fail for ever.                                       *)
FoundByScan(j, m) == \E found \in SUBSET Matches : m \in found /\ ExpiryScan(j, found)

ExpiryFairness == \A j \in Jobs, m \in Matches :
    /\ SF_settlementVars(FoundByScan(j, m))
    /\ SF_settlementVars(ExpireWaiting(j, m))
    /\ SF_settlementVars(ExpireActive(j, m))

FairSettlement == SettlementSpec /\ ExpiryFairness

-----------------------------------------------------------------------------
(* Properties. *)

(* Types: above all no balance is ever negative, whatever is staked at     *)
(* the same time (deductBalanceRawIfSufficient).                           *)
SettlementTypeOK ==
    /\ mstatus \in [Matches -> {"none", "waiting", "active", "completed"}]
    /\ player1 \in [Matches -> Users \cup {NoUser}]
    /\ player2 \in [Matches -> Users \cup {NoUser}]
    /\ wager \in [Matches -> Nat]
    /\ moves \in [Matches -> Seq(Moves)]
    /\ winner \in [Matches -> Users \cup {NoUser, Draw}]
    /\ reason \in [Matches -> {"none", "winner", "draw", "resigned",
                              "waiting_expired", "active_expired"}]
    /\ balance \in [Users -> Nat]
    /\ house \in Nat
    /\ idle \in [Jobs -> SUBSET Matches]
    /\ todo \in [Jobs -> SUBSET (Matches \X {"waiting", "active"})]

(* What the escrow holds of a match. *)
Escrowed(m) == CASE mstatus[m] = "waiting" -> wager[m]
                 [] mstatus[m] = "active"  -> Pot(wager[m])
                 [] OTHER -> 0
Drawn == {m \in Matches : reason[m] = "draw"}

(* No path makes money or loses it: balances, commission and open stakes   *)
(* add up to what the users brought, less at most one raw unit a draw.     *)
FundsConserved ==
    LET held == MapThenSumSet(LAMBDA u : balance[u], Users) + house
                  + MapThenSumSet(Escrowed, Matches)
        brought == MapThenSumSet(LAMBDA u : InitialBalance[u], Users)
    IN  brought - held \in 0 .. Cardinality(Drawn)

(* A seat is taken by one player and the stakes leave the escrow once,     *)
(* whichever of the room, the players and the job settles the match.       *)
Escrow == INSTANCE WagerEscrow WITH
    seated  <- [m \in Matches |-> Seats(m)],
    settled <- [m \in Matches |-> mstatus[m] = "completed"]
StakesLeaveOnce == Escrow!Spec

(* A settled match keeps its players, its history and its result: the      *)
(* loser of the race between a move, a resignation and an expiry changes   *)
(* nothing of what the winner of it wrote.                                 *)
Result(m) == <<player1[m], player2[m], moves[m], winner[m], reason[m]>>
ResultsAreFinal ==
    [][\A m \in Matches : mstatus[m] = "completed" =>
           mstatus'[m] = "completed" /\ Result(m)' = Result(m)]_settlementVars

(* An expiry takes effect only on a match that nobody has touched since    *)
(* the cutoff of that run: fresh activity wins the race.                   *)
Expired(m) == reason[m] \in {"waiting_expired", "active_expired"}
ActivityWins ==
    [][\A m \in Matches : Expired(m)' /\ ~Expired(m) =>
           \E j \in Jobs : m \in idle[j]]_settlementVars

(* A host does not wait for ever with the stake locked: somebody joins,    *)
(* the host cancels, or the match expires.                                 *)
WaitingEnds == \A m \in Matches : mstatus[m] = "waiting" ~> mstatus[m] # "waiting"

(* A match in which nobody moves any more is settled.                      *)
AbandonedIsSettled == \A m \in Matches :
    \/ []<><<\E h \in Histories : PersistMoveHistory(m, h)>>_settlementVars
    \/ mstatus[m] = "active" ~> mstatus[m] = "completed"

(* Documents, balances, commission and escrow are well formed and add up.  *)
MatchBooksOK == SettlementTypeOK /\ FundsConserved

(* No stake is locked for ever.                                            *)
StakesAreFreed == WaitingEnds /\ AbandonedIsSettled
=============================================================================
