-------------------------- MODULE TransactionFeed --------------------------
(***************************************************************************)
(* The history of the bank page.  The server cuts its list, newest first,  *)
(* into pages by counting from the top, while transactions are added at    *)
(* the top; the page of the browser appends what it has not seen yet.      *)
(* A transaction is the number of those that came before it.               *)
(***************************************************************************)
EXTENDS Naturals, Sequences

CONSTANTS
    PageSize,
    Kept,      \* transactions there are at first
    MaxTotal,  \* and at most
    Fetches,   \* requests under way at a time
    MaxFetches

VARIABLES
    total,    \* transactions on the server
    feed,     \* the reducer's state; more: hasMoreTransactions
    fetch,    \* what each request is doing
    portal,   \* the history is the view of the bank that is shown
    grown     \* total when the pages that are shown began to be asked for

feedVars == <<total, feed, fetch, portal, grown>>

NoFetch == [at |-> "idle"]

FeedInit ==
    /\ total = Kept
    /\ feed = [rows |-> <<>>, page |-> 0, first |-> FALSE, next |-> FALSE,
               more |-> FALSE, failed |-> FALSE, asked |-> 0]
    /\ fetch = [f \in Fetches |-> NoFetch]
    /\ portal = FALSE
    /\ grown = Kept

(* getTransactions: what stands on page p of n transactions. *)
PageOf(p, n) ==
    LET from == (p - 1) * PageSize
        size == IF n > from THEN (IF n - from < PageSize THEN n - from ELSE PageSize) ELSE 0
    IN  [i \in 1 .. size |-> n - from - i + 1]

AppendAll(rows, new) == rows \o new
Unseen(rows, new) == LET known == {rows[i] : i \in DOMAIN rows}
                         isNew(t) == t \notin known
                     IN  rows \o SelectSeq(new, isNew)

Sends(f, p, replace, v) ==
    /\ fetch[f] = NoFetch /\ feed.asked < MaxFetches
    /\ fetch' = [fetch EXCEPT ![f] = [at |-> "sent", page |-> p, replace |-> replace,
                                      number |-> feed.asked + 1, rows |-> <<>>, total |-> 0]]
    /\ feed' = [v EXCEPT !.asked = @ + 1]

(* Coming back to the history loads its first page; leaving it aborts that load
   and keeps what was shown. *)
OpenFeed(f) ==
    /\ ~portal
    /\ portal' = TRUE
    /\ Sends(f, 1, TRUE, [feed EXCEPT !.first = TRUE, !.next = FALSE])
    /\ UNCHANGED <<total, grown>>
LeaveFeed ==
    /\ portal
    /\ portal' = FALSE
    /\ fetch' = [f \in Fetches |-> IF fetch[f] # NoFetch /\ fetch[f].replace
                                   THEN NoFetch ELSE fetch[f]]
    /\ UNCHANGED <<total, feed, grown>>

LoadMore(f) ==
    /\ portal /\ ~feed.first /\ ~feed.next /\ feed.more
    /\ Sends(f, feed.page + 1, FALSE, [feed EXCEPT !.next = TRUE])
    /\ UNCHANGED <<total, portal, grown>>

Arrives ==
    /\ total < MaxTotal
    /\ total' = total + 1
    /\ UNCHANGED <<feed, fetch, portal, grown>>

FeedServes(f) ==
    /\ fetch[f].at = "sent"
    /\ fetch' = [fetch EXCEPT ![f].at = "served", ![f].total = total,
                              ![f].rows = PageOf(fetch[f].page, total)]
    /\ UNCHANGED <<total, feed, portal, grown>>

PageLoaded(f) ==
    /\ fetch[f].at = "served"
    /\ fetch' = [fetch EXCEPT ![f] = NoFetch]
    /\ LET a == fetch[f]
       IN  IF a.number = feed.asked
           THEN /\ feed' = [feed EXCEPT
                      !.rows = IF a.replace THEN a.rows ELSE Unseen(@, a.rows),
                      !.page = a.page, !.next = FALSE, !.failed = FALSE,
                      !.first = @ /\ ~a.replace,
                      !.more = a.page * PageSize < a.total]
                /\ grown' = IF a.replace THEN a.total ELSE grown
           ELSE UNCHANGED <<feed, grown>>
    /\ UNCHANGED <<total, portal>>

(* A failure is reported whichever request was the latest. *)
PageFailed(f) ==
    /\ fetch[f].at \in {"sent", "served"}
    /\ fetch' = [fetch EXCEPT ![f] = NoFetch]
    /\ feed' = [feed EXCEPT !.next = FALSE, !.failed = TRUE,
                            !.first = @ /\ ~fetch[f].replace]
    /\ UNCHANGED <<total, portal, grown>>

FeedNext ==
    \/ \E f \in Fetches : \/ OpenFeed(f) \/ LoadMore(f) \/ FeedServes(f)
                          \/ PageLoaded(f) \/ PageFailed(f)
    \/ LeaveFeed
    \/ Arrives

FeedSpec == FeedInit /\ [][FeedNext]_feedVars

-----------------------------------------------------------------------------
Shown == DOMAIN feed.rows

(* However many transactions arrive between two pages, up to a page of them *)
(* the history shown has no gap and no repetition, and it is all there is   *)
(* below the first row once the button for more has gone; and a history     *)
(* that waits for nothing does not say that it loads.                       *)
FeedIsWhole ==
    /\ total <= grown + PageSize =>
          /\ \A i \in Shown \ {1} : feed.rows[i - 1] = feed.rows[i] + 1
          /\ feed.rows # <<>> /\ ~feed.more /\ ~feed.failed => feed.rows[Len(feed.rows)] = 1
    /\ portal /\ (\A f \in Fetches : fetch[f] = NoFetch) => ~feed.first /\ ~feed.next
=============================================================================
