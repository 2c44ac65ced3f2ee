----------------------------- MODULE MCGameRoom -----------------------------
(* Small values for the constants of GameRoom; and beside it, in behaviours of their
   own, the page that shows a match (GameView) and the pages with lists (Screens), whose
   state is held in v1 to v12. *)
EXTENDS GameRoom

CONSTANTS u1, u2, t1, t2, p1, p2,
          Pages, Facts, Asks, MaxLoads, MaxActs,
          MatchRooms, Own, Over, MaxVisits, MaxLinks, MaxTelling

VARIABLES part, v1, v2, v3, v4, v5, v6, v7, v8, v9, v10, v11, v12

Screen == INSTANCE Screens WITH
    page <- v1, server <- v2, view <- v3, asked <- v4, told <- v5, crossed
    <- v6, Requests <- Asks
View   == INSTANCE GameView WITH
    table <- v1, players <- v2, telling <- v3, told <- v4, url <- v5,
    preview <- v6, link <- v7, snap <- v8, calls <- v9, strayed <- v10,
    visits <- v11, links <- v12, Rooms <- MatchRooms

from7 == <<v7, v8, v9, v10, v11, v12>>
from1 == <<v1, v2, v3, v4, v5, v6, from7>>

Players   == {u1, u2}
Everybody == [m \in Matches |-> Users]
Brought   == [u \in Users |-> 10]
BoardMoves == [by : Users, col : 0 .. Cols - 1, row : 0 .. Rows - 1]

(* Everything but a lost lock or queue, and that with nothing else, with rooms
   in Redis and in the memory of a single process. *)
FourSettings ==
    {[registry |-> r, expiry |-> ~lapse, fails |-> ~lapse,
      lapses |-> IF lapse THEN 1 ELSE 0, crashes |-> IF lapse THEN 0 ELSE 1]
        : r \in {"redis", "memory"}, lapse \in BOOLEAN}

OneEach  == [t \in Tasks |-> IF t = t1 THEN p1 ELSE p2]

(* The players are interchangeable, and so are the processes with their
   handlers, and the requests of a page. *)
Swap(S, x) == IF x \in S THEN CHOOSE y \in S : y # x ELSE x
Interchangeable ==
    {[x \in Users \cup Tasks \cup Procs \cup Asks |->
         IF x \in Users THEN Swap(us, x) ELSE IF x \in Tasks THEN Swap(ts, x)
         ELSE IF x \in Asks THEN Swap(as, x)
         ELSE IF ts = {} THEN x ELSE Swap(Procs, x)]
       : us \in {{}, Users}, ts \in {{}, Tasks}, as \in {{}, Asks}}

Zero7 == v7 = 0 /\ v8 = 0 /\ v9 = 0 /\ v10 = 0 /\ v11 = 0 /\ v12 = 0
Zero1 == /\ v1 = 0 /\ v2 = 0 /\ v3 = 0 /\ v4 = 0 /\ v5 = 0 /\ v6 = 0 /\ Zero7

PartsInit ==
    /\ GameInit
    /\ \/ part = "rooms" /\ Zero1
       \/ part = "lists" /\ Screen!ScreensInit /\ Zero7
       \/ part = "page"  /\ View!ViewInit
    /\ part # "rooms" => setting = CHOOSE x \in Settings : TRUE

PartsNext ==
    \/ part = "rooms" /\ GameNext /\ UNCHANGED <<part, from1>>
    \/ part = "lists" /\ Screen!ScreensNext /\ UNCHANGED <<part, vars, from7>>
    \/ part = "page"  /\ View!ViewNext /\ UNCHANGED <<part, vars>>
    \/ part # "rooms" /\ UNCHANGED <<part, vars, from1>>   \* a page may rest

PartsSpec == PartsInit /\ [][PartsNext]_<<part, vars, from1>>

(* What the page of a match shows of it (GameView), and the lists that a browser loads
   and acts on (Screens). *)
PagesAreCurrent == /\ part = "page" => View!GameViewIsCurrent
                   /\ part = "lists" => Screen!ScreenIsCurrent
=============================================================================
