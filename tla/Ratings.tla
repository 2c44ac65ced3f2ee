------------------------------ MODULE Ratings ------------------------------
(***************************************************************************)
(* The rating of a decided match, inside the transaction that settles it:  *)
(* the players and the pair's recent matches are read, an event is kept,   *)
(* and both players are updated by the difference the event records.       *)
(* Transactions read a snapshot; one that writes a document changed since, *)
(* or written by another still open, is undone and tried again.            *)
(*                                                                         *)
(* The formula of the difference is left open within its bounds: the       *)
(* winner gains at most K times the weight of the match, what the loser    *)
(* loses, and no rating falls below MinimumRating.                         *)
(***************************************************************************)
EXTENDS Integers, Sequences, FiniteSets

CONSTANTS
    Players, Matches,
    FirstPlayer, SecondPlayer,  \* the players of each match
    K,                    \* the most a match of full weight can move
    StartingRating, MinimumRating,
    FullLimit, HalfLimit, \* rated matches of a pair at full, at half weight
    MaxLost               \* calls of the database that fail unnoticed

PairOf(m) == {FirstPlayer[m], SecondPlayer[m]}

VARIABLES
    elo,      \* each player's rating
    version,  \* writes each player's document has seen
    events,   \* RatingEvent, in the order of their commits
    tx,       \* the transaction that settles each match
    lostCalls \* matches whose rating failed without ending the transaction

ratingVars == <<elo, version, events, tx, lostCalls>>

Idle == [at |-> "open", version |-> [p \in Players |-> 0], event |-> <<>>, wrote |-> {}]

RatingInit ==
    /\ elo = [p \in Players |-> StartingRating]
    /\ version = [p \in Players |-> 0]
    /\ events = <<>>
    /\ tx = [m \in Matches |-> Idle]
    /\ lostCalls = {}

(***************************************************************************)
(* calculateRatingChange                                                   *)
(***************************************************************************)
Weight(n) == IF n < FullLimit THEN 2 ELSE IF n < HalfLimit THEN 1 ELSE 0
Most(n)   == (K * Weight(n)) \div 2

Differences(outcome, n) ==
    CASE outcome = "player1_win" -> 0..Most(n)
      [] outcome = "player2_win" -> {0 - d : d \in 0..Most(n)}
      [] outcome = "draw"        -> (0 - Most(n) \div 2)..(Most(n) \div 2)
      [] outcome = "no_contest"  -> {0}

(* Each side is rounded on its own, and a half is rounded up.              *)
Opposites(outcome, n, d) ==
    {e \in {0 - d, 1 - d} : 0 - e \in Differences(outcome, n)}

Floor(r) == IF r < MinimumRating THEN MinimumRating ELSE r

(* All of it happens within one repeatPairWindowMs.                        *)
PairEvents(p) == {i \in DOMAIN events : PairOf(events[i].of) = p /\ events[i].applied}

(***************************************************************************)
(* The transaction.                                                        *)
(***************************************************************************)
BeginsRating(m) ==
    /\ tx[m].at = "open"
    /\ \E outcome \in {"player1_win", "player2_win", "draw", "no_contest"} :
          LET n == Cardinality(PairEvents(PairOf(m)))
          IN \E d \in Differences(outcome, n) : \E e \in Opposites(outcome, n, d) :
               tx' = [tx EXCEPT ![m] =
                  [at |-> "rated", version |-> version, wrote |-> {},
                   event |-> [of |-> m, outcome |-> outcome,
                              applied |-> outcome # "no_contest" /\ Weight(n) > 0,
                              before |-> [p \in PairOf(m) |-> elo[p]],
                              after  |-> [p \in PairOf(m) |->
                                           Floor(elo[p] + IF p = FirstPlayer[m] THEN d ELSE e)]]]]
    /\ UNCHANGED <<elo, version, events, lostCalls>>

GoesTo(m, step, wrote) ==
    tx' = [tx EXCEPT ![m] = [at |-> step, version |-> tx[m].version, event |-> tx[m].event,
                             wrote |-> wrote]]

CreatesEvent(m) ==
    /\ tx[m].at = "rated"
    /\ GoesTo(m, IF tx[m].event.outcome = "no_contest" THEN "settles" ELSE "kept", {"event"})
    /\ UNCHANGED <<elo, version, events, lostCalls>>

NeverConflicts(m, p) == FALSE
Conflicts(m, p) == \/ version[p] # tx[m].version[p]
                   \/ \E o \in Matches \ {m} : p \in tx[o].wrote

Updates(m, p, from, to) ==
    /\ tx[m].at = from
    /\ IF Conflicts(m, p) THEN tx' = [tx EXCEPT ![m] = Idle]
       ELSE GoesTo(m, to, tx[m].wrote \cup {p})
    /\ UNCHANGED <<elo, version, events, lostCalls>>
UpdatesFirst(m)  == Updates(m, FirstPlayer[m], "kept", "half")
UpdatesSecond(m) == Updates(m, SecondPlayer[m], "half", "settles")

(* finalizeMatch takes any failure of the rating for its end and settles   *)
(* the match all the same.  One that has undone the transaction comes back *)
(* at the next call; a call lost on its way has not undone anything.       *)
LosesCall(m) ==
    /\ tx[m].at \in {"rated", "kept", "half"} /\ Cardinality(lostCalls) < MaxLost
    /\ GoesTo(m, "settles", tx[m].wrote)
    /\ lostCalls' = lostCalls \cup {m}
    /\ UNCHANGED <<elo, version, events>>

Undone(m) ==
    /\ tx[m].at \notin {"open", "done"}
    /\ tx' = [tx EXCEPT ![m] = Idle]
    /\ lostCalls' = lostCalls \ {m}
    /\ UNCHANGED <<elo, version, events>>

(* The update adds the difference to the rating the document holds.        *)
Change(e, p) == e.after[p] - e.before[p]
Commits(m) ==
    /\ tx[m].at = "settles"
    /\ LET e == tx[m].event
           wrote == tx[m].wrote \cap Players
       IN /\ elo' = [p \in Players |-> IF p \in wrote THEN Floor(elo[p] + Change(e, p))
                                       ELSE elo[p]]
          /\ version' = [p \in Players |-> IF p \in wrote THEN version[p] + 1 ELSE version[p]]
          /\ events' = IF "event" \in tx[m].wrote THEN Append(events, e) ELSE events
    /\ tx' = [tx EXCEPT ![m] = [Idle EXCEPT !.at = "done"]]
    /\ UNCHANGED <<lostCalls>>

RatingNext == \E m \in Matches : \/ BeginsRating(m) \/ CreatesEvent(m) \/ UpdatesFirst(m)
                                 \/ UpdatesSecond(m) \/ LosesCall(m) \/ Undone(m)
                                 \/ Commits(m)

RatingSpec == RatingInit /\ [][RatingNext]_ratingVars

-----------------------------------------------------------------------------
Of(p)      == {i \in DOMAIN events : p \in PairOf(events[i].of)
                                     /\ events[i].outcome # "no_contest"}
LastOf(s)  == CHOOSE i \in s : \A j \in s : j <= i
Sound(p)   == ~\E m \in lostCalls : p \in PairOf(m)

(* rating.service.ts, user.service.ts: a player's events follow on each    *)
(* other, each starting at the rating the last one left, and the rating is *)
(* the one the last event left; a pair is rated no more often in a window  *)
(* than its limit allows, however many of its matches are settled at once. *)
(* A match whose rating failed on the way to the database is excepted: its *)
(* event may be kept without the players' updates.                         *)
RatingsFollowEvents ==
    /\ \A p \in {q \in Players : Sound(q)} :
          LET mine == Of(p)
          IN /\ elo[p] = IF mine = {} THEN StartingRating
                         ELSE events[LastOf(mine)].after[p]
             /\ \A i \in mine :
                   LET earlier == {j \in mine : j < i}
                   IN events[i].before[p] = IF earlier = {} THEN StartingRating
                                            ELSE events[LastOf(earlier)].after[p]
    /\ \A m \in Matches : (\A p \in PairOf(m) : Sound(p)) =>
                            Cardinality(PairEvents(PairOf(m))) <= HalfLimit
=============================================================================
