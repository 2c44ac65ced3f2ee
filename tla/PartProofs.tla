----------------------------- MODULE PartProofs -----------------------------
(***************************************************************************)
(* The server's smaller parts and the deposit panel, each with any number  *)
(* of sockets, calls, transfers, processes, jobs, matches or memos.        *)
(*                                                                         *)
(* RoomPresence: which sockets a room shows.  The sockets of a room, and   *)
(* of the copy a handler is going to store, are bound to it or gone with   *)
(* an excuse (Shows), and one handler at a time is inside (OneInside).     *)
(* CircuitBreaker: when nobody calls a service.  The count of failures is  *)
(* that of the last calls that ended, which all failed (FailedLast).       *)
(* FinalityWatcher: that final transfers are taken in.  One that is not,   *)
(* nor was missed, is on the stream or in the hands of a task (WatchInv).  *)
(* SharedCache: why a copy may be old.  A copy, what a load has read and   *)
(* what an update works from are what is stored, or have a reason not to   *)
(* be, or somebody is still to clear them (CopiesInv, EditsInv).           *)
(* ServerLifecycle: what a shutdown cuts short.  What is under way has the *)
(* part it needs, and a part goes when nothing needs it (PartsInv).        *)
(* Ratings: how ratings follow the events kept.  Who has written a player  *)
(* keeps the version it read (HeldInv), and a snapshot that is not behind  *)
(* holds the rating and the number of the pair's matches (SnapshotInv).    *)
(* DepositFlow: what the panel says of a payment.  A memo still to come is *)
(* unused (NewInv), and one that needs no excuse has one payment at most,  *)
(* whose report the panel awaits (PayInv).                                 *)
(***************************************************************************)
EXTENDS RoomPresence, CircuitBreaker, FinalityWatcher, SharedCache, ServerLifecycle, Ratings,
        DepositFlow, SumTheorems, TLAPS

-----------------------------------------------------------------------------
(* The sockets of a room. *)

Shown == Sockets \cup {None}
Rooms == [is : BOOLEAN, status : {"none", "waiting", "active", "completed"},
          sock : [Pair -> Shown]]
Hands == [kind : {"join", "move", "leave"}, by : Sockets,
          at : {"asks", "waits", "in", "drift", "has", "stored"},
          copy : Rooms, db : {"none", "waiting", "active", "completed"}]

RoomTyped ==
    /\ mode \in {"redis", "memory"} /\ match \in {"waiting", "active", "completed"}
    /\ room \in Rooms /\ bindings \subseteq Sockets
    /\ socket \in [Sockets -> {"open", "closed", "gone"}]
    /\ calls \subseteq Hands /\ seat \in [Pair -> Shown] /\ late \subseteq Sockets

(* Who disconnects will find that s has to be taken out of the room. *)
Bound(s) == \/ s \in bindings
            \/ \E d \in calls : d.kind = "join" /\ d.by = s /\ d.at = "stored"
            \/ socket[s] = "gone" /\ s \in late

GoneIsLate(s) == socket[s] = "gone" => s \in late

(* The sockets of a room or of a copy of it. *)
Shows(r) == \A u \in Pair : r.sock[u] # None =>
                /\ UserOf[r.sock[u]] = u
                /\ GoneIsLate(r.sock[u])
                /\ mode = "redis" => Bound(r.sock[u])

(* The match has started when a room says so. *)
Started(status) == status = "active" => match # "waiting"

RoomInv == (room.is => Shows(room)) /\ Started(room.status)

(* What a handler has read, or is to store. *)
CallOK(c) ==
    /\ Shows(c.copy) /\ Started(c.copy.status) /\ Started(c.db)
    /\ c.kind = "join" => GoneIsLate(c.by)
    /\ c.at \in {"asks", "waits", "in"} => c.copy = NotStored
    /\ c.kind = "leave" => c.at \in {"asks", "waits"} /\ mode = "redis"
    /\ c.at \in {"in", "drift", "has"} => c.db # "none"

CallInv == \A c \in calls : CallOK(c)

OneInside == \A c, d \in calls : Inside(c) /\ Inside(d) => c = d

(* The socket that joined last for a player is in r. *)
SeatsIn(r) == \A u \in Pair :
    seat[u] # None /\ socket[seat[u]] = "open" => r.sock[u] = seat[u]

CopyIsUsed(c) == c.at \in {"drift", "has"}

SeatInv == /\ room.is => SeatsIn(room)
           /\ \A c \in calls : CopyIsUsed(c) => SeatsIn(c.copy)

PresenceInv == RoomTyped /\ RoomInv /\ CallInv /\ OneInside /\ SeatInv

(* What is stored is what was to be stored: the fallback to the old socket makes
   the list of members idle. *)
LEMMA StoredIs == \A r \in Rooms : Stored(r) = r
<1> TAKE r \in Rooms
<1>1. [u \in Pair |-> Or(IF u \in members THEN r.sock[u] ELSE None, r.sock[u])] = r.sock
  BY DEF Or, Rooms
<1> QED BY <1>1 DEF Stored, Rooms

LEMMA NothingShown == NotStored \in Rooms /\ NotStored.is = FALSE /\ Shows(NotStored)
    /\ Shows(NotStored)' /\ Started(NotStored.status) /\ Started(NotStored.status)'
<1>1. \A u \in Pair : NotStored.sock[u] = None
  BY DEF NotStored, NoSockets
<1> QED BY <1>1 DEF NotStored, NoSockets, Rooms, Shown, Shows, Started

LEMMA FreshIs ==
    ASSUME NEW status \in {"waiting", "active", "completed"}
    PROVE  /\ Fresh(status) \in Rooms /\ Fresh(status).is = TRUE
           /\ Fresh(status).status = status /\ \A u \in Pair : Fresh(status).sock[u] = None
BY DEF Fresh, Rooms, NoSockets, Shown

MatchStates == {"waiting", "active", "completed"}

LEMMA CarriedIs ==
    ASSUME NEW status \in MatchStates, NEW r \in Rooms
    PROVE  /\ Carried(status, r) \in Rooms /\ Carried(status, r).is = TRUE
           /\ Carried(status, r).status = status
           /\ \A u \in Pair : Carried(status, r).sock[u] \in {None, r.sock[u]}
           /\ status # "waiting" => \A u \in Pair : Carried(status, r).sock[u] = r.sock[u]
<1> DEFINE sock == [u \in Pair |-> IF u \in Playing(status) THEN r.sock[u] ELSE None]
<1>1. sock \in [Pair -> Shown]
  BY DEF Rooms, Shown
<1>2. Carried(status, r) = [Fresh(status) EXCEPT !.sock = sock]
  BY Zenon DEF Carried
<1>3. status # "waiting" => sock = [u \in Pair |-> r.sock[u]]
  BY DEF Playing
<1>4. \A u \in Pair : sock[u] \in {None, r.sock[u]}
  OBVIOUS
<1> HIDE DEF sock
<1> QED BY <1>1, <1>2, <1>3, <1>4, FreshIs DEF Rooms, MatchStates

(* What is shown stays excused and bound as long as nobody forgets it. *)
LEMMA ShownStays ==
    ASSUME NEW r, Shows(r), mode' = mode,
           \A u \in Pair : r.sock[u] # None =>
              /\ GoneIsLate(r.sock[u]) => GoneIsLate(r.sock[u])'
              /\ mode = "redis" /\ Bound(r.sock[u]) => Bound(r.sock[u])'
    PROVE  Shows(r)'
BY DEF Shows

LEMMA CallStays ==
    ASSUME PresenceInv, NEW c \in calls, mode' = mode,
           match # "waiting" => match' # "waiting",
           \A s : Knows(c, s) /\ GoneIsLate(s) => GoneIsLate(s)',
           \A s : Knows(c, s) /\ mode = "redis" /\ Bound(s) => Bound(s)'
    PROVE  CallOK(c)'
<1>1. CallOK(c)
  BY DEF PresenceInv, CallInv
<1>2. Shows(c.copy)'
  BY <1>1, ShownStays DEF CallOK, Knows
<1> QED BY <1>1, <1>2 DEF CallOK, Knows, Started

(* Where no socket goes and no binding is lost, all that is shown stays so. *)
LEMMA NobodyGoes ==
    ASSUME UNCHANGED <<mode, socket, late>>, bindings \subseteq bindings',
           \A d \in calls : d.kind = "join" /\ d.at = "stored" =>
               d \in calls' \/ d.by \in bindings'
    PROVE  /\ \A s : GoneIsLate(s) => GoneIsLate(s)'
           /\ \A s : Bound(s) => Bound(s)'
           /\ \A r : Shows(r) => Shows(r)'
<1>1. \A s : GoneIsLate(s) => GoneIsLate(s)'
  BY DEF GoneIsLate
<1>2. \A s : Bound(s) => Bound(s)'
  BY DEF Bound
<1> QED BY <1>1, <1>2 DEF Shows

LEMMA NobodyGone ==
    ASSUME UNCHANGED <<mode, socket, late>>, bindings \subseteq bindings', NEW c \in calls,
           c.at # "stored", calls \ {c} \subseteq calls'
    PROVE  /\ \A s : GoneIsLate(s) => GoneIsLate(s)'
           /\ \A r : Shows(r) => Shows(r)'
BY NobodyGoes

(* The one handler inside goes on, ends, and may store a room. *)
LEMMA InsideGoesOn ==
    ASSUME PresenceInv, NEW c \in calls, Inside(c), UNCHANGED <<mode, socket, late>>,
           bindings \subseteq bindings', bindings' \subseteq Sockets,
           c.at = "stored" => c.kind # "join" \/ c.by \in bindings',
           match' \in {"waiting", "active", "completed"},
           match # "waiting" => match' # "waiting",
           seat' \in [Pair -> Shown],
           room' \in Rooms, room'.is => Shows(room)', Started(room.status)',
           room'.is => SeatsIn(room)',
           NEW S \in SUBSET Hands, \A n, m \in S : n = m,
           calls' = (calls \ {c}) \cup S,
           \A n \in S : /\ CallOK(n)'
                        /\ CopyIsUsed(n) => SeatsIn(n.copy)'
    PROVE  PresenceInv'
<1>1. RoomTyped' /\ RoomInv'
  BY DEF PresenceInv, RoomTyped, RoomInv
<1>2. \A d \in calls \ {c} : ~Inside(d)
  BY DEF PresenceInv, OneInside
<1>3. ASSUME NEW d \in calls \ {c} PROVE CallOK(d)' /\ ~CopyIsUsed(d)
  <2>1. \A x \in calls : x.kind = "join" /\ x.at = "stored" =>
          x \in calls' \/ x.by \in bindings'
    OBVIOUS
  <2>2. /\ \A s : GoneIsLate(s) => GoneIsLate(s)'
        /\ \A s : Bound(s) => Bound(s)'
    BY <2>1, NobodyGoes
  <2>3. CallOK(d)'
    BY <2>2, CallStays
  <2>4. ~CopyIsUsed(d)
    BY <1>2 DEF Inside, CopyIsUsed
  <2> QED BY <2>3, <2>4
<1>4. CallInv'
  BY <1>3 DEF CallInv
<1>5. OneInside'
  BY <1>2 DEF OneInside, Inside
<1>6. SeatInv'
  BY <1>3 DEF SeatInv, CopyIsUsed
<1> QED BY <1>1, <1>4, <1>5, <1>6 DEF PresenceInv

(* A step beside the handler inside: it keeps its copy, and the sockets it knows of
   are excused when they go. *)
LEMMA HandlersStay ==
    ASSUME PresenceInv, RoomTyped', RoomInv', mode' = mode,
           match # "waiting" => match' # "waiting",
           \A c \in calls' \ calls : c.at \in {"asks", "waits"} /\ CallOK(c)',
           \A c \in calls : \A s :
              /\ Knows(c, s) /\ GoneIsLate(s) => GoneIsLate(s)'
              /\ Knows(c, s) /\ mode = "redis" /\ Bound(s) => Bound(s)',
           room'.is => SeatsIn(room)',
           \A c \in calls : CopyIsUsed(c) /\ SeatsIn(c.copy) => SeatsIn(c.copy)'
    PROVE  PresenceInv'
<1>1. CallInv'
  <2>1. \A c \in calls : CallOK(c)'
    BY CallStays
  <2> QED BY <2>1 DEF CallInv
<1>2. OneInside'
  BY DEF PresenceInv, OneInside, Inside
<1>3. SeatInv'
  BY DEF PresenceInv, SeatInv, CopyIsUsed
<1> QED BY <1>1, <1>2, <1>3 DEF PresenceInv

LEMMA MatchGoesKeeps == PresenceInv /\ MatchGoes => PresenceInv'
<1> SUFFICES ASSUME PresenceInv, MatchGoes PROVE PresenceInv'
  OBVIOUS
<1>1. /\ match' \in {"active", "completed"}
      /\ UNCHANGED <<mode, room, members, bindings, socket, calls, seat, late, tally>>
  BY DEF MatchGoes
<1>2. /\ \A s : GoneIsLate(s) => GoneIsLate(s)'
      /\ \A s : Bound(s) => Bound(s)'
      /\ \A r : Shows(r) => Shows(r)'
  BY <1>1, NobodyGoes
<1>3. RoomTyped' /\ RoomInv'
  BY <1>1, <1>2 DEF PresenceInv, RoomTyped, RoomInv, Started
<1>4. \A r : SeatsIn(r) => SeatsIn(r)'
  BY <1>1 DEF SeatsIn
<1>5. room'.is => SeatsIn(room)'
  BY <1>1, <1>4 DEF PresenceInv, SeatInv
<1> QED BY <1>1, <1>2, <1>3, <1>4, <1>5, HandlersStay

LEMMA AskKeeps ==
    ASSUME PresenceInv, NEW s \in Sockets, NEW kind \in {"join", "move"}, Ask(kind, s)
    PROVE  PresenceInv'
<1> DEFINE n == Handler(kind, s)
<1>1. /\ calls' = calls \cup {n} /\ socket[s] = "open"
      /\ UNCHANGED <<mode, match, room, bindings, socket, seat, late>>
  BY DEF Ask
<1>2. /\ n \in Hands /\ n.at = "waits" /\ n.kind = kind /\ n.by = s /\ n.copy = NotStored
      /\ n.db = "none"
  BY NothingShown DEF Handler, Hands
<1> HIDE DEF n
<1>3. /\ \A t : GoneIsLate(t) => GoneIsLate(t)'
      /\ \A t : Bound(t) => Bound(t)'
      /\ \A r : Shows(r) => Shows(r)'
  BY <1>1, NobodyGoes
<1>4. RoomTyped' /\ RoomInv'
  BY <1>1, <1>2, <1>3 DEF PresenceInv, RoomTyped, RoomInv, Started
<1>5. \A r : SeatsIn(r) => SeatsIn(r)'
  BY <1>1 DEF SeatsIn
<1>6. room'.is => SeatsIn(room)'
  BY <1>1, <1>5 DEF PresenceInv, SeatInv
<1>7. CallOK(n)'
  BY <1>1, <1>2, NothingShown DEF CallOK, GoneIsLate, Started
<1> QED BY <1>1, <1>2, <1>3, <1>4, <1>5, <1>6, <1>7, HandlersStay

(* A room or a copy without the socket that leaves. *)
LEMMA DetachedIs ==
    ASSUME NEW r \in Rooms, NEW s
    PROVE  /\ Detached(r, s) \in Rooms
           /\ Detached(r, s).is = r.is /\ Detached(r, s).status = r.status
           /\ \A u \in Pair : /\ Detached(r, s).sock[u] = None \/
                                    /\ Detached(r, s).sock[u] = r.sock[u]
                                    /\ r.sock[u] # s
                              /\ r.sock[u] # s => Detached(r, s).sock[u] = r.sock[u]
<1> DEFINE sock == [u \in Pair |-> IF r.sock[u] = s THEN None ELSE r.sock[u]]
<1>1. sock \in [Pair -> Shown]
  BY DEF Rooms, Shown
<1>2. Detached(r, s) = [r EXCEPT !.sock = sock]
  BY Zenon DEF Detached
<1>3. \A u \in Pair : /\ sock[u] = None \/ (sock[u] = r.sock[u] /\ r.sock[u] # s)
                      /\ r.sock[u] # s => sock[u] = r.sock[u]
  OBVIOUS
<1> HIDE DEF sock
<1> QED BY <1>1, <1>2, <1>3 DEF Rooms

(* A socket that goes is late if a handler knows it; any other is as it was. *)
LEMMA GoneAs ==
    ASSUME PresenceInv, NEW s \in Sockets, Late(s), socket' = [socket EXCEPT ![s] = "gone"]
    PROVE  /\ \A t : t # s => (GoneIsLate(t) => GoneIsLate(t)')
           /\ \A c \in calls : Knows(c, s) => s \in late'
           /\ socket'[s] = "gone" /\ late \subseteq late' /\ late' \subseteq Sockets
           /\ \A r : SeatsIn(r) /\ seat' = seat => SeatsIn(r)'
<1>1. socket \in [Sockets -> {"open", "closed", "gone"}] /\ late \subseteq Sockets
  BY DEF PresenceInv, RoomTyped
<1>2. \A t : t # s => socket'[t] = socket[t]
  BY <1>1
<1>3. late \subseteq late' /\ late' \subseteq Sockets /\ \A c \in calls : Knows(c, s) => s \in late'
  BY <1>1 DEF Late
<1>4. \A r : SeatsIn(r) /\ seat' = seat => SeatsIn(r)'
  BY <1>1, <1>2 DEF SeatsIn
<1> QED BY <1>1, <1>2, <1>3, <1>4 DEF GoneIsLate

LEMMA DisconnectKeeps ==
    ASSUME PresenceInv, NEW s \in Sockets, Disconnect(s)
    PROVE  PresenceInv'
<1>1. UNCHANGED <<mode, match, bindings, seat>> /\ room \in Rooms /\ mode \in {"redis", "memory"}
  BY DEF Disconnect, PresenceInv, RoomTyped
<1>2. CASE mode = "memory"
  <2>1. /\ room' = IF room.is THEN Detached(room, s) ELSE room
        /\ socket' = [socket EXCEPT ![s] = "gone"] /\ Late(s) /\ calls' = calls
    BY <1>2 DEF Disconnect
  <2>2. /\ \A t : t # s => (GoneIsLate(t) => GoneIsLate(t)')
        /\ \A c \in calls : Knows(c, s) => s \in late'
        /\ socket'[s] = "gone" /\ late \subseteq late' /\ late' \subseteq Sockets
        /\ \A r : SeatsIn(r) => SeatsIn(r)'
    BY <1>1, <2>1, GoneAs
  <2>3. /\ room' \in Rooms /\ room'.is = room.is /\ room'.status = room.status
        /\ \A u \in Pair : /\ \/ room'.sock[u] = None
                              \/ /\ room'.sock[u] = room.sock[u]
                                 /\ room.is => room.sock[u] # s
                           /\ room.sock[u] # s => room'.sock[u] = room.sock[u]
    BY <1>1, <2>1, DetachedIs
  <2>4. RoomTyped'
    BY <1>1, <2>1, <2>2, <2>3 DEF PresenceInv, RoomTyped
  <2>5. RoomInv'
    BY <1>1, <1>2, <2>2, <2>3 DEF PresenceInv, RoomInv, Shows, Started
  <2>6. room'.is => SeatsIn(room)'
    BY <1>1, <2>2, <2>3 DEF PresenceInv, SeatInv, SeatsIn
  <2>7. \A c \in calls : \A t : Knows(c, t) /\ GoneIsLate(t) => GoneIsLate(t)'
    BY <2>2 DEF GoneIsLate
  <2> QED BY <1>1, <1>2, <2>1, <2>2, <2>4, <2>5, <2>6, <2>7, HandlersStay
<1>3. CASE mode = "redis"
  <2> DEFINE n == [Handler("leave", s) EXCEPT !.at = "asks"]
  <2>1. /\ calls' = calls \cup {n} /\ socket' = [socket EXCEPT ![s] = "closed"]
        /\ room' = room /\ late' = late
    BY <1>3 DEF Disconnect
  <2>2. /\ n \in Hands /\ n.at = "asks" /\ n.kind = "leave" /\ n.by = s /\ n.copy = NotStored
        /\ n.db = "none"
    BY NothingShown DEF Handler, Hands
  <2> HIDE DEF n
  <2>3. socket \in [Sockets -> {"open", "closed", "gone"}] /\ socket[s] = "open"
    BY DEF PresenceInv, RoomTyped, Disconnect
  <2>4. /\ \A t : GoneIsLate(t) => GoneIsLate(t)'
        /\ \A t : Bound(t) => Bound(t)'
        /\ \A r : SeatsIn(r) => SeatsIn(r)'
    BY <1>1, <2>1, <2>3 DEF GoneIsLate, Bound, SeatsIn
  <2>5. RoomTyped'
    BY <1>1, <2>1, <2>2, <2>3 DEF PresenceInv, RoomTyped
  <2>6. RoomInv'
    BY <1>1, <2>1, <2>4 DEF PresenceInv, RoomInv, Shows, Started
  <2>7. CallOK(n)'
    BY <1>1, <1>3, <2>2, NothingShown DEF CallOK, Started
  <2>8. room'.is => SeatsIn(room)'
    BY <2>1, <2>4 DEF PresenceInv, SeatInv
  <2> QED BY <1>1, <2>1, <2>2, <2>4, <2>5, <2>6, <2>7, <2>8, HandlersStay
<1> QED BY <1>1, <1>2, <1>3

LEMMA LeaveAsksKeeps ==
    ASSUME PresenceInv, NEW c \in calls, LeaveAsks(c)
    PROVE  PresenceInv'
<1>1. /\ UNCHANGED <<mode, match, room, bindings, seat>> /\ c.kind = "leave" /\ c.at = "asks"
      /\ c \in Hands /\ c.by \in Sockets /\ CallOK(c)
  BY DEF LeaveAsks, PresenceInv, RoomTyped, CallInv, Hands
<1>2. CASE c.by \in bindings
  <2> DEFINE n == [c EXCEPT !.at = "waits"]
  <2>1. calls' = (calls \ {c}) \cup {n} /\ UNCHANGED <<socket, late>>
    BY <1>2 DEF LeaveAsks, Turns
  <2>2. /\ n \in Hands /\ n.at = "waits" /\ n.kind = "leave" /\ n.by = c.by /\ n.copy = c.copy
        /\ n.db = c.db
    BY <1>1 DEF Hands
  <2> HIDE DEF n
  <2>3. /\ \A t : GoneIsLate(t) => GoneIsLate(t)'
        /\ \A t : Bound(t) => Bound(t)'
        /\ \A r : Shows(r) => Shows(r)'
    BY <1>1, <2>1, NobodyGoes
  <2>4. RoomTyped' /\ RoomInv'
    BY <1>1, <2>1, <2>2, <2>3 DEF PresenceInv, RoomTyped, RoomInv, Started
  <2>5. \A r : SeatsIn(r) => SeatsIn(r)'
    BY <1>1, <2>1 DEF SeatsIn
  <2>6. room'.is => SeatsIn(room)'
    BY <1>1, <2>5 DEF PresenceInv, SeatInv
  <2>7. CallOK(n)'
    BY <1>1, <2>2, <2>3 DEF CallOK, Started
  <2> QED BY <1>1, <2>1, <2>2, <2>3, <2>4, <2>5, <2>6, <2>7, HandlersStay
<1>3. CASE c.by \notin bindings
  <2> DEFINE s == c.by
  <2>1. /\ calls' = calls \ {c} /\ Late(s) /\ socket' = [socket EXCEPT ![s] = "gone"]
    BY <1>3 DEF LeaveAsks, Done
  <2>2. /\ \A t : t # s => (GoneIsLate(t) => GoneIsLate(t)')
        /\ \A d \in calls : Knows(d, s) => s \in late'
        /\ socket'[s] = "gone" /\ late \subseteq late' /\ late' \subseteq Sockets
        /\ \A r : SeatsIn(r) => SeatsIn(r)'
    BY <1>1, <2>1, GoneAs
  <2> HIDE DEF s
  <2>3. socket \in [Sockets -> {"open", "closed", "gone"}]
    BY DEF PresenceInv, RoomTyped
  <2>4. \A t : Bound(t) => Bound(t)'
    BY <1>1, <2>1, <2>2, <2>3 DEF Bound
  <2>5. Bound(s) => s \in late'
    BY <1>3, <2>2 DEF Bound, Knows, s
  <2>6. RoomTyped'
    BY <1>1, <2>1, <2>2, <2>3 DEF PresenceInv, RoomTyped
  <2>7. RoomInv'
    <3>1. mode = "redis"
      BY <1>1 DEF CallOK
    <3>2. room.is => Shows(room)'
      BY <1>1, <2>2, <2>4, <2>5, <3>1 DEF PresenceInv, RoomInv, Shows, GoneIsLate
    <3> QED BY <1>1, <3>2 DEF PresenceInv, RoomInv, Started
  <2>8. room'.is => SeatsIn(room)'
    BY <1>1, <2>2 DEF PresenceInv, SeatInv
  <2>9. \A d \in calls : \A t : Knows(d, t) /\ GoneIsLate(t) => GoneIsLate(t)'
    BY <2>2 DEF GoneIsLate
  <2> QED BY <1>1, <2>1, <2>2, <2>4, <2>6, <2>7, <2>8, <2>9, HandlersStay
<1> QED BY <1>2, <1>3

LEMMA LeaveKeeps ==
    ASSUME PresenceInv, NEW c \in calls, Leave(c)
    PROVE  PresenceInv'
<1> DEFINE s == c.by
<1>1. /\ UNCHANGED <<mode, match, seat>> /\ c.kind = "leave" /\ ~\E d \in calls : Inside(d)
      /\ s \in Sockets /\ calls' = calls \ {c} /\ Late(s) /\ bindings' = bindings \ {s}
      /\ socket' = [socket EXCEPT ![s] = "gone"] /\ room \in Rooms
  BY DEF Leave, Done, PresenceInv, RoomTyped, Hands
<1>2. room' = IF room.is THEN Detached(room, s) ELSE room
  BY <1>1, DetachedIs, StoredIs DEF Leave
<1>3. /\ \A t : t # s => (GoneIsLate(t) => GoneIsLate(t)')
      /\ \A d \in calls : Knows(d, s) => s \in late'
      /\ socket'[s] = "gone" /\ late \subseteq late' /\ late' \subseteq Sockets
      /\ \A r : SeatsIn(r) => SeatsIn(r)'
  BY <1>1, GoneAs
<1> HIDE DEF s
<1>4. /\ room' \in Rooms /\ room'.is = room.is /\ room'.status = room.status
      /\ \A u \in Pair : /\ \/ room'.sock[u] = None
                            \/ /\ room'.sock[u] = room.sock[u]
                               /\ room.is => room.sock[u] # s
                         /\ room.sock[u] # s => room'.sock[u] = room.sock[u]
  BY <1>1, <1>2, DetachedIs
<1>5. socket \in [Sockets -> {"open", "closed", "gone"}]
  BY DEF PresenceInv, RoomTyped
<1>6. \A t : t # s => (Bound(t) => Bound(t)')
  BY <1>1, <1>3, <1>5 DEF Bound
<1>7. \A d \in calls : Knows(d, s) => GoneIsLate(s)' /\ Bound(s)'
  BY <1>3 DEF GoneIsLate, Bound
<1>8. RoomTyped'
  BY <1>1, <1>3, <1>4, <1>5 DEF PresenceInv, RoomTyped
<1>9. RoomInv'
  BY <1>1, <1>3, <1>4, <1>6 DEF PresenceInv, RoomInv, Shows, Started
<1>10. room'.is => SeatsIn(room)'
  BY <1>1, <1>3, <1>4 DEF PresenceInv, SeatInv, SeatsIn
<1> QED BY <1>1, <1>3, <1>6, <1>7, <1>8, <1>9, <1>10, HandlersStay

(* A room that is gone shows nobody, and nobody is inside when it goes. *)
LEMMA RoomGoes ==
    ASSUME PresenceInv, Clean \/ Expire
    PROVE  PresenceInv'
<1>1. /\ room' = NotStored /\ seat' = NoSockets /\ ~\E c \in calls : Inside(c)
      /\ UNCHANGED <<mode, match, bindings, socket, calls, late>>
  BY DEF Clean, Expire
<1>2. /\ \A s : GoneIsLate(s) => GoneIsLate(s)'
      /\ \A s : Bound(s) => Bound(s)'
  BY <1>1, NobodyGoes
<1>3. RoomTyped' /\ RoomInv'
  BY <1>1, NothingShown DEF PresenceInv, RoomTyped, RoomInv, NoSockets, Shown
<1>4. \A c \in calls : ~CopyIsUsed(c)
  BY <1>1 DEF CopyIsUsed, Inside
<1> QED BY <1>1, <1>2, <1>3, <1>4, NothingShown, HandlersStay

LEMMA DieKeeps ==
    ASSUME PresenceInv, NEW s \in Sockets, Die(s)
    PROVE  PresenceInv'
<1>1. /\ socket' = [socket EXCEPT ![s] = "gone"] /\ late' = late \cup {s}
      /\ calls' = {c \in calls : c.by # s} /\ UNCHANGED <<mode, match, room, bindings, seat>>
      /\ socket \in [Sockets -> {"open", "closed", "gone"}]
  BY DEF Die, PresenceInv, RoomTyped
<1>2. /\ \A t : GoneIsLate(t) => GoneIsLate(t)'
      /\ \A t : Bound(t) => Bound(t)'
      /\ \A r : SeatsIn(r) => SeatsIn(r)'
  BY <1>1 DEF GoneIsLate, Bound, SeatsIn
<1>3. RoomTyped' /\ RoomInv'
  BY <1>1, <1>2 DEF PresenceInv, RoomTyped, RoomInv, Shows, Started
<1>4. room'.is => SeatsIn(room)'
  BY <1>1, <1>2 DEF PresenceInv, SeatInv
<1> QED BY <1>1, <1>2, <1>3, <1>4, HandlersStay

-----------------------------------------------------------------------------
(* Handlers in the queue or under the lock. *)

(* What a handler has in hand. *)
LEMMA CallInHand ==
    ASSUME PresenceInv, NEW c \in calls
    PROVE  /\ c \in Hands /\ CallOK(c) /\ c.copy \in Rooms /\ c.by \in Sockets
           /\ CopyIsUsed(c) => SeatsIn(c.copy)
           /\ CopyIsUsed(c) \/ c.at = "in" => c.db \in {"waiting", "active", "completed"}
BY DEF PresenceInv, RoomTyped, CallInv, SeatInv, Hands, CopyIsUsed, CallOK

LEMMA EnterKeeps ==
    ASSUME PresenceInv, NEW c \in calls, Enter(c)
    PROVE  PresenceInv'
<1>0. PICK n : n = [c EXCEPT !.at = "in", !.db = match]
  OBVIOUS
<1>1. /\ c.at = "waits" /\ c.kind # "leave" /\ calls' = (calls \ {c}) \cup {n}
      /\ ~\E d \in calls : Inside(d)
      /\ UNCHANGED <<mode, match, room, bindings, socket, seat, late>>
      /\ match \in {"waiting", "active", "completed"}
  BY <1>0 DEF Enter, Turns, PresenceInv, RoomTyped
<1>2. /\ n \in Hands /\ n.at = "in" /\ n.kind = c.kind /\ n.by = c.by /\ n.copy = c.copy
      /\ n.db = match
  BY <1>0, <1>1, CallInHand DEF Hands
<1>3. /\ \A t : GoneIsLate(t) => GoneIsLate(t)'
      /\ \A t : Bound(t) => Bound(t)'
      /\ \A r : Shows(r) => Shows(r)'
  BY <1>1, NobodyGoes
<1>4. \A r : SeatsIn(r) => SeatsIn(r)'
  BY <1>1 DEF SeatsIn
<1>5. CallOK(n)'
  BY <1>1, <1>2, <1>3, CallInHand DEF CallOK, Started
<1>6. RoomTyped' /\ RoomInv'
  BY <1>1, <1>2, <1>3 DEF PresenceInv, RoomTyped, RoomInv, Started
<1>7. CallInv'
  <2>1. \A d \in calls : CallOK(d)'
    BY <1>1, <1>3, CallStays
  <2> QED BY <1>1, <1>5, <2>1 DEF CallInv
<1>8. OneInside' /\ SeatInv'
  BY <1>1, <1>2, <1>4 DEF PresenceInv, OneInside, Inside, SeatInv, CopyIsUsed
<1> QED BY <1>6, <1>7, <1>8 DEF PresenceInv

(* A room with the sockets of r is as good as r. *)
LEMMA SameSockets ==
    ASSUME NEW q \in Rooms, NEW r \in Rooms, Shows(r)', SeatsIn(r),
           \A u \in Pair : q.sock[u] \in {None, r.sock[u]}, seat \in [Pair -> Shown],
           socket' = socket,
           \A u \in Pair : seat'[u] = IF q.sock[u] = None THEN None ELSE seat[u]
    PROVE  Shows(q)' /\ SeatsIn(q)'
<1>1. \A u \in Pair : q.sock[u] # None => q.sock[u] = r.sock[u]
  OBVIOUS
<1>2. Shows(q)'
  BY <1>1 DEF Shows
<1>3. SeatsIn(q)'
  BY <1>1 DEF SeatsIn
<1> QED BY <1>2, <1>3

LEMMA SeatsOfIs ==
    ASSUME NEW r, seat \in [Pair -> Shown]
    PROVE  /\ SeatsOf(r) \in [Pair -> Shown]
           /\ \A u \in Pair : SeatsOf(r)[u] = IF r.sock[u] = None THEN None ELSE seat[u]
BY DEF SeatsOf, Shown

LEMMA BeginKeeps ==
    ASSUME PresenceInv, NEW c \in calls, Begin(c)
    PROVE  PresenceInv'
<1>1. /\ c.at = "in" /\ UNCHANGED <<mode, match, bindings, socket, late>> /\ Inside(c)
      /\ bindings \subseteq bindings' /\ bindings' \subseteq Sockets
      /\ match' \in {"waiting", "active", "completed"}
      /\ match # "waiting" => match' # "waiting"
      /\ room \in Rooms /\ seat \in [Pair -> Shown]
  BY DEF Begin, Inside, PresenceInv, RoomTyped
<1>2. /\ c \in Hands /\ CallOK(c) /\ c.db \in {"waiting", "active", "completed"}
  BY <1>1, CallInHand
<1>3. /\ \A s : GoneIsLate(s) => GoneIsLate(s)'
      /\ \A r : Shows(r) => Shows(r)'
  BY <1>1, NobodyGone DEF Begin, Done, Turns
<1>4. c.kind # "leave"
  BY <1>1, <1>2 DEF CallOK
<1>5. ASSUME NEW r \in Rooms, NEW to \in {"drift", "has"}, Shows(r)', Started(r.status)',
             NEW n, n = [c EXCEPT !.at = to, !.copy = r]
      PROVE  n \in Hands /\ CallOK(n)' /\ n.copy = r
  <2>1. /\ n \in Hands /\ n.at = to /\ n.copy = r /\ n.kind = c.kind /\ n.by = c.by /\ n.db = c.db
    BY <1>2, <1>5 DEF Hands
  <2> QED BY <1>1, <1>2, <1>3, <1>4, <1>5, <2>1 DEF CallOK, Started
<1>6. CASE ~room.is \/ c.db = "completed"
  <2> DEFINE r == Fresh(c.db)
  <2>1. /\ r \in Rooms /\ r.is = TRUE /\ r.status = c.db /\ \A u \in Pair : r.sock[u] = None
    BY <1>2, FreshIs
  <2>2. room' = r /\ seat' = NoSockets
    BY <1>6, <2>1, StoredIs DEF Begin, Stores
  <2>3. PICK n : n = [c EXCEPT !.at = "has", !.copy = r]
    OBVIOUS
  <2>4. calls' = calls \ {c} \/ calls' = (calls \ {c}) \cup {n}
    BY <1>6, <2>3 DEF Begin, Done, Turns
  <2> HIDE DEF r
  <2>5. Shows(r)' /\ Started(r.status)' /\ SeatsIn(r)'
    BY <1>1, <1>2, <2>1, <2>2 DEF Shows, Started, CallOK, SeatsIn, NoSockets
  <2>6. n \in Hands /\ CallOK(n)' /\ n.copy = r
    BY <1>5, <2>1, <2>3, <2>5
  <2>7. Shows(room)' /\ Started(room.status)' /\ SeatsIn(room)' /\ seat' \in [Pair -> Shown]
        /\ room' \in Rooms
    BY <2>1, <2>2, <2>5 DEF Shows, Started, SeatsIn, NoSockets, Shown
  <2>8. PICK S \in {{}, {n}} : calls' = (calls \ {c}) \cup S
    BY <2>4
  <2>9. \A m \in S : m \in Hands /\ CallOK(m)' /\ SeatsIn(m.copy)'
    BY <2>5, <2>6, <2>8
  <2>10. S \in SUBSET Hands /\ \A m, k \in S : m = k
    BY <2>6, <2>8
  <2> QED BY <1>1, <2>7, <2>8, <2>9, <2>10, InsideGoesOn
<1>7. CASE room.is /\ c.db # "completed"
  <2>1. PICK r : r = room /\ Shows(r)
    BY <1>7 DEF PresenceInv, RoomInv
  <2>2. PICK to \in {"drift", "has"} : to = IF room.status # c.db THEN "drift" ELSE "has"
    OBVIOUS
  <2>3. PICK n : n = [c EXCEPT !.at = to, !.copy = r]
    OBVIOUS
  <2>4. calls' = (calls \ {c}) \cup {n} /\ room' = room /\ seat' = seat
    BY <1>7, <2>1, <2>2, <2>3 DEF Begin, Turns
  <2>5. Shows(r)' /\ Started(r.status)' /\ SeatsIn(r)'
    <3>1. SeatsIn(r) /\ Started(r.status)
      BY <1>7, <2>1 DEF PresenceInv, RoomInv, SeatInv
    <3> QED BY <1>1, <1>3, <2>1, <2>4, <3>1 DEF Started, SeatsIn
  <2>6. n \in Hands /\ CallOK(n)' /\ n.copy = r
    BY <1>1, <1>5, <2>1, <2>2, <2>3, <2>5
  <2>7. Shows(room)' /\ Started(room.status)' /\ SeatsIn(room)'
    BY <2>1, <2>4, <2>5 DEF Shows, Started, SeatsIn
  <2>8. \A m \in {n} : m \in Hands /\ CallOK(m)' /\ SeatsIn(m.copy)'
    BY <2>5, <2>6
  <2>9. room' \in Rooms /\ seat' \in [Pair -> Shown]
    BY <1>1, <2>4
  <2>10. {n} \in SUBSET Hands /\ \A m, k \in {n} : m = k
    BY <2>6
  <2> QED BY <1>1, <2>4, <2>7, <2>8, <2>9, <2>10, InsideGoesOn
<1> QED BY <1>1, <1>6, <1>7 DEF PresenceInv, RoomTyped

(* The handler inside stores a room with sockets it has read, and ends or goes on. *)
LEMMA StoresCopy ==
    ASSUME PresenceInv, NEW c \in calls, CopyIsUsed(c), UNCHANGED <<mode, bindings, socket, late>>,
           match' \in {"waiting", "active", "completed"},
           match # "waiting" => match' # "waiting",
           NEW r \in Rooms, room' = r, Started(r.status)',
           \A u \in Pair : r.sock[u] \in {None, c.copy.sock[u]},
           seat' \in [Pair -> Shown],
           \A u \in Pair : seat'[u] = IF r.sock[u] = None THEN None ELSE seat[u],
           \/ calls' = calls \ {c}
           \/ \E n \in Hands : /\ calls' = (calls \ {c}) \cup {n}
                               /\ n = [c EXCEPT !.at = "has", !.copy = r]
    PROVE  PresenceInv'
<1>1. /\ Inside(c) /\ c.at # "stored" /\ c.at \notin {"asks", "waits", "in"}
      /\ bindings \subseteq bindings' /\ bindings' \subseteq Sockets /\ seat \in [Pair -> Shown]
  BY DEF CopyIsUsed, Inside, PresenceInv, RoomTyped
<1>2. /\ c \in Hands /\ CallOK(c) /\ SeatsIn(c.copy) /\ c.copy \in Rooms
  BY CallInHand
<1>3. /\ \A s : GoneIsLate(s) => GoneIsLate(s)'
      /\ \A q : Shows(q) => Shows(q)'
  BY <1>1, NobodyGone
<1>4. Shows(r)' /\ SeatsIn(r)'
  BY <1>1, <1>2, <1>3, SameSockets DEF CallOK
<1>5. Shows(room)' /\ SeatsIn(room)' /\ Started(room.status)'
  BY <1>4 DEF Shows, SeatsIn, Started
<1>6. PICK S \in SUBSET Hands :
         /\ calls' = (calls \ {c}) \cup S /\ \A n, m \in S : n = m
         /\ \A n \in S : n = [c EXCEPT !.at = "has", !.copy = r]
  <2>1. CASE calls' = calls \ {c}
    <3>1. calls' = (calls \ {c}) \cup {}
      BY <2>1
    <3>2. {} \in SUBSET Hands /\ \A x, y \in {} : x = y
      OBVIOUS
    <3> QED BY <3>1, <3>2
  <2>2. CASE \E n \in Hands : /\ calls' = (calls \ {c}) \cup {n}
                              /\ n = [c EXCEPT !.at = "has", !.copy = r]
    <3>1. PICK n \in Hands : /\ calls' = (calls \ {c}) \cup {n}
                             /\ n = [c EXCEPT !.at = "has", !.copy = r]
      BY <2>2
    <3>2. {n} \in SUBSET Hands /\ \A x, y \in {n} : x = y
      OBVIOUS
    <3> QED BY <3>1, <3>2
  <2> QED BY <2>1, <2>2
<1>7. ASSUME NEW n \in S PROVE CallOK(n)' /\ SeatsIn(n.copy)'
  <2>0. n = [c EXCEPT !.at = "has", !.copy = r]
    BY <1>6
  <2>1. /\ n.at = "has" /\ n.copy = r /\ n.kind = c.kind /\ n.by = c.by /\ n.db = c.db
    BY <1>2, <2>0 DEF Hands
  <2>2. c.kind # "leave" /\ c.db # "none"
    BY <1>1, <1>2 DEF CallOK, CopyIsUsed
  <2>3. CallOK(n)'
    BY <1>2, <1>3, <1>4, <2>1, <2>2 DEF CallOK, Started
  <2>4. n.copy = r
    BY <2>1
  <2> QED BY <1>4, <2>3, <2>4
<1> QED BY <1>1, <1>5, <1>6, <1>7, InsideGoesOn

LEMMA DriftKeeps ==
    ASSUME PresenceInv, NEW c \in calls, Drift(c)
    PROVE  PresenceInv'
<1> DEFINE r == Carried(c.db, c.copy)
<1>1. /\ CopyIsUsed(c) /\ UNCHANGED <<mode, match, bindings, socket, late>>
      /\ match' \in {"waiting", "active", "completed"} /\ seat \in [Pair -> Shown]
  BY DEF Drift, CopyIsUsed, PresenceInv, RoomTyped
<1>2. /\ c \in Hands /\ CallOK(c) /\ c.db \in {"waiting", "active", "completed"}
      /\ c.copy \in Rooms
  BY <1>1, CallInHand
<1>3. /\ r \in Rooms /\ r.is = TRUE /\ r.status = c.db
      /\ \A u \in Pair : r.sock[u] \in {None, c.copy.sock[u]}
  <2>1. PICK d \in MatchStates, x \in Rooms : d = c.db /\ x = c.copy
    BY <1>2 DEF MatchStates
  <2>2. /\ Carried(d, x) \in Rooms /\ Carried(d, x).is = TRUE /\ Carried(d, x).status = d
        /\ \A u \in Pair : Carried(d, x).sock[u] \in {None, x.sock[u]}
    BY CarriedIs
  <2> QED BY <2>1, <2>2, Zenon
<1>4. room' = r /\ seat' = SeatsOf(r)
  BY <1>3, StoredIs DEF Drift, Stores
<1>5. PICK n : n = [c EXCEPT !.at = "has", !.copy = r]
  OBVIOUS
<1>6. calls' = (calls \ {c}) \cup {n}
  BY <1>5 DEF Drift, Turns
<1> HIDE DEF r
<1>7. n \in Hands
  BY <1>2, <1>3, <1>5 DEF Hands
<1>8. Started(r.status)'
  BY <1>1, <1>2, <1>3 DEF Started, CallOK
<1>9. /\ seat' \in [Pair -> Shown]
      /\ \A u \in Pair : seat'[u] = IF r.sock[u] = None THEN None ELSE seat[u]
  BY <1>1, <1>4, SeatsOfIs
<1> QED BY <1>1, <1>3, <1>4, <1>5, <1>6, <1>7, <1>8, <1>9, StoresCopy

(* The socket that joins is the one the room shows for its player from now on. *)
LEMMA JoinKeeps ==
    ASSUME PresenceInv, NEW c \in calls, Join(c)
    PROVE  PresenceInv'
<1> DEFINE user == UserOf[c.by]
           r    == Seated(c)
<1>1. /\ c.kind = "join" /\ c.at = "has" /\ CopyIsUsed(c) /\ Inside(c)
      /\ UNCHANGED <<mode, match, bindings, socket, late>>
      /\ match' \in {"waiting", "active", "completed"}
      /\ match # "waiting" => match' # "waiting"
      /\ bindings \subseteq bindings' /\ bindings' \subseteq Sockets
      /\ seat \in [Pair -> Shown] /\ room \in Rooms /\ mode \in {"redis", "memory"}
  BY DEF Join, CopyIsUsed, Inside, PresenceInv, RoomTyped
<1>2. /\ c \in Hands /\ CallOK(c) /\ SeatsIn(c.copy) /\ c.copy \in Rooms /\ c.by \in Sockets
  BY <1>1, CallInHand
<1>3. /\ \A s : GoneIsLate(s) => GoneIsLate(s)'
      /\ \A q : Shows(q) => Shows(q)'
  BY <1>1, NobodyGone DEF Join, Done, Turns
<1>4. CASE user \notin Playing(c.copy.status)
  <2>1. calls' = (calls \ {c}) \cup {} /\ room' = room /\ seat' = seat
    BY <1>4 DEF Join, Done
  <2>2. room'.is => Shows(room)' /\ SeatsIn(room)'
    BY <1>1, <1>3, <2>1 DEF PresenceInv, RoomInv, SeatInv, SeatsIn
  <2>3. Started(room.status)'
    BY <1>1, <2>1 DEF PresenceInv, RoomInv, Started
  <2>4. {} \in SUBSET Hands
    OBVIOUS
  <2> QED BY <1>1, <2>1, <2>2, <2>3, <2>4, InsideGoesOn
<1>5. CASE user \in Playing(c.copy.status)
  <2>1. user \in Pair
    BY <1>5 DEF Playing, Pair
  <2>2. /\ r \in Rooms /\ r.is = c.copy.is /\ r.status = c.copy.status
        /\ \A u \in Pair : r.sock[u] = IF u = user THEN c.by ELSE c.copy.sock[u]
    <3>1. c.by \in Shown
      BY <1>2 DEF Shown
    <3>2. r = [c.copy EXCEPT !.sock = [@ EXCEPT ![user] = c.by]]
      BY DEF Seated
    <3> HIDE DEF r, user
    <3> QED BY <1>2, <2>1, <3>1, <3>2 DEF Rooms
  <2>3. PICK n : n = [c EXCEPT !.at = "stored"]
    OBVIOUS
  <2>4. /\ n \in Hands /\ n.at = "stored" /\ n.kind = "join" /\ n.by = c.by /\ n.copy = c.copy
        /\ n.db = c.db
    BY <1>1, <1>2, <2>3 DEF Hands
  <2>5. PICK S \in {{}, {n}} :
           calls' = (calls \ {c}) \cup S /\ (mode = "redis" => n \in S)
    <3>1. CASE mode = "redis"
      BY <1>5, <2>3, <3>1 DEF Join, Turns
    <3>2. CASE mode # "redis"
      BY <1>5, <3>2 DEF Join, Done
    <3> QED BY <3>1, <3>2
  <2>6. room' = r /\ seat' = [seat EXCEPT ![user] = c.by]
    BY <1>5, <2>2, StoredIs DEF Join, Stores
  <2>7. Shows(r)'
    <3>1. Shows(c.copy)' /\ GoneIsLate(c.by)'
      BY <1>1, <1>2, <1>3 DEF CallOK
    <3>2. mode = "redis" => Bound(c.by)'
      BY <2>4, <2>5 DEF Bound
    <3>3. ASSUME NEW u \in Pair, r.sock[u] # None
          PROVE  /\ UserOf[r.sock[u]] = u /\ GoneIsLate(r.sock[u])'
                 /\ mode = "redis" => Bound(r.sock[u])'
      <4>1. CASE u = user
        BY <2>2, <3>1, <3>2, <4>1
      <4>2. CASE u # user
        <5>1. r.sock[u] = c.copy.sock[u]
          BY <2>2, <4>2
        <5> HIDE DEF r
        <5> QED BY <1>1, <3>1, <3>3, <5>1 DEF Shows
      <4> QED BY <4>1, <4>2
    <3> HIDE DEF r
    <3> QED BY <1>1, <3>3 DEF Shows
  <2> HIDE DEF r, user
  <2>8. SeatsIn(r)' /\ seat' \in [Pair -> Shown]
    BY <1>1, <1>2, <2>1, <2>2, <2>6 DEF SeatsIn, Shown
  <2>9. Started(r.status)'
    BY <1>1, <1>2, <2>2 DEF CallOK, Started
  <2>10. Shows(room)' /\ SeatsIn(room)' /\ Started(room.status)'
    BY <2>6, <2>7, <2>8, <2>9 DEF Shows, SeatsIn, Started
  <2>11. CallOK(n)' /\ ~CopyIsUsed(n)
    BY <1>1, <1>2, <1>3, <2>4 DEF CallOK, Started, CopyIsUsed
  <2>12. S \in SUBSET Hands /\ \A m, k \in S : m = k
    BY <2>4, <2>5
  <2>13. \A m \in S : CallOK(m)' /\ (CopyIsUsed(m) => SeatsIn(m.copy)')
    BY <2>5, <2>11
  <2>14. room' \in Rooms
    BY <2>2, <2>6
  <2> QED BY <1>1, <2>5, <2>8, <2>10, <2>12, <2>13, <2>14, InsideGoesOn
<1> QED BY <1>4, <1>5

LEMMA BindKeeps ==
    ASSUME PresenceInv, NEW c \in calls, Bind(c)
    PROVE  PresenceInv'
<1>1. /\ c.kind = "join" /\ c.at = "stored" /\ Inside(c) /\ c.by \in bindings'
      /\ bindings' = bindings \cup {c.by} /\ calls' = (calls \ {c}) \cup {}
      /\ UNCHANGED <<mode, match, room, socket, seat, late>>
  BY DEF Bind, Done, Inside
<1>2. /\ c.by \in Sockets /\ bindings \subseteq bindings' /\ bindings' \subseteq Sockets
      /\ match' \in {"waiting", "active", "completed"}
      /\ match # "waiting" => match' # "waiting"
      /\ seat' \in [Pair -> Shown] /\ room' \in Rooms
  BY <1>1, CallInHand DEF PresenceInv, RoomTyped
<1>3. \A d \in calls : d.kind = "join" /\ d.at = "stored" => d \in calls' \/ d.by \in bindings'
  BY <1>1
<1>4. \A q : Shows(q) => Shows(q)'
  BY <1>1, <1>2, <1>3, NobodyGoes
<1>5. room'.is => Shows(room)' /\ SeatsIn(room)'
  BY <1>1, <1>4 DEF PresenceInv, RoomInv, SeatInv, SeatsIn
<1>6. Started(room.status)'
  BY <1>1 DEF PresenceInv, RoomInv, Started
<1>7. {} \in SUBSET Hands
  OBVIOUS
<1> QED BY <1>1, <1>2, <1>5, <1>6, <1>7, InsideGoesOn

LEMMA MoveKeeps ==
    ASSUME PresenceInv, NEW c \in calls, Move(c)
    PROVE  PresenceInv'
<1>1. /\ CopyIsUsed(c) /\ Inside(c) /\ c.at # "stored" /\ UNCHANGED <<mode, bindings, socket, late>>
      /\ calls' = calls \ {c} /\ match \in {"waiting", "active", "completed"}
      /\ bindings \subseteq bindings' /\ bindings' \subseteq Sockets
      /\ seat \in [Pair -> Shown] /\ room \in Rooms
  BY DEF Move, Done, CopyIsUsed, Inside, PresenceInv, RoomTyped
<1>2. /\ CallOK(c) /\ c.copy \in Rooms
  BY CallInHand
<1>3. CASE UNCHANGED <<match, room, seat>>
  <2>1. \A q : Shows(q) => Shows(q)'
    BY <1>1, NobodyGone
  <2>2. room'.is => Shows(room)' /\ SeatsIn(room)'
    BY <1>1, <1>3, <2>1 DEF PresenceInv, RoomInv, SeatInv, SeatsIn
  <2>3. Started(room.status)'
    BY <1>3 DEF PresenceInv, RoomInv, Started
  <2>4. {} \in SUBSET Hands /\ calls' = (calls \ {c}) \cup {}
    BY <1>1
  <2> QED BY <1>1, <1>3, <2>2, <2>3, <2>4, InsideGoesOn
<1>4. CASE c.copy.status = "active" /\ seat' = SeatsOf(c.copy)
           /\ \/ match = "active" /\ Stores(c.copy) /\ match' = match
              \/ /\ match = "active" /\ match' = "completed"
                 /\ Stores([c.copy EXCEPT !.status = "completed"])
              \/ match # "active" /\ Stores(Carried(match, c.copy)) /\ match' = match
  <2>1. match # "waiting"
    BY <1>2, <1>4 DEF CallOK, Started
  <2>2. /\ match' \in {"waiting", "active", "completed"} /\ match' # "waiting"
    BY <1>1, <1>4, <2>1
  <2>3. PICK r \in Rooms : room' = r /\ \A u \in Pair : r.sock[u] = c.copy.sock[u]
    <3>1. CASE Stores(c.copy)
      BY <1>2, <3>1, StoredIs DEF Stores
    <3>2. CASE Stores([c.copy EXCEPT !.status = "completed"])
      <4> DEFINE q == [c.copy EXCEPT !.status = "completed"]
      <4>1. q \in Rooms /\ q.sock = c.copy.sock
        BY <1>2 DEF Rooms
      <4> HIDE DEF q
      <4>2. room' = q
        BY <3>2, <4>1, StoredIs DEF Stores, q
      <4> QED BY <4>1, <4>2
    <3>3. CASE Stores(Carried(match, c.copy))
      <4> DEFINE q == Carried(match, c.copy)
      <4>1. q \in Rooms /\ \A u \in Pair : q.sock[u] = c.copy.sock[u]
        BY <1>1, <1>2, <2>1, CarriedIs DEF MatchStates
      <4> HIDE DEF q
      <4>2. room' = q
        BY <3>3, <4>1, StoredIs DEF Stores, q
      <4> QED BY <4>1, <4>2
    <3> QED BY <1>4, <3>1, <3>2, <3>3
  <2>4. Started(r.status)'
    BY <2>2 DEF Started
  <2>5. /\ seat' \in [Pair -> Shown]
        /\ \A u \in Pair : seat'[u] = IF r.sock[u] = None THEN None ELSE seat[u]
    BY <1>1, <1>4, <2>3, SeatsOfIs
  <2> QED BY <1>1, <2>2, <2>3, <2>4, <2>5, StoresCopy
<1> QED BY <1>3, <1>4 DEF Move

LEMMA PresenceStarts == PresenceInit => PresenceInv
<1> SUFFICES ASSUME PresenceInit PROVE PresenceInv
  OBVIOUS
<1>1. /\ mode \in {"redis", "memory"} /\ match = "waiting" /\ room = NotStored
      /\ bindings = {} /\ calls = {} /\ late = {} /\ seat \in [Pair -> Shown]
      /\ socket \in [Sockets -> {"open", "closed", "gone"}]
  BY DEF PresenceInit, NoSockets, Shown
<1>2. RoomTyped /\ RoomInv
  BY <1>1, NothingShown DEF RoomTyped, RoomInv
<1>3. CallInv /\ OneInside /\ SeatInv
  BY <1>1, NothingShown DEF CallInv, OneInside, SeatInv
<1> QED BY <1>2, <1>3 DEF PresenceInv

LEMMA PresenceStays == PresenceInv /\ PresenceNext => PresenceInv'
<1> SUFFICES ASSUME PresenceInv, PresenceNext PROVE PresenceInv'
  OBVIOUS
<1>1. CASE MatchGoes \/ Clean \/ Expire
  BY <1>1, MatchGoesKeeps, RoomGoes
<1>2. ASSUME NEW s \in Sockets, Ask("join", s) \/ Ask("move", s) \/ Disconnect(s) \/ Die(s)
      PROVE  PresenceInv'
  BY <1>2, AskKeeps, DisconnectKeeps, DieKeeps
<1>3. ASSUME NEW c \in calls,
             \/ Enter(c) \/ Begin(c) \/ Drift(c) \/ Join(c) \/ Bind(c) \/ Move(c)
             \/ LeaveAsks(c) \/ Leave(c)
      PROVE  PresenceInv'
  BY <1>3, EnterKeeps, BeginKeeps, DriftKeeps, JoinKeeps, BindKeeps, MoveKeeps,
     LeaveAsksKeeps, LeaveKeeps
<1> QED BY <1>1, <1>2, <1>3 DEF PresenceNext

(* In every behaviour of any number of sockets, joins, moves, lost rooms and processes, a
   room shows a player's own sockets, those that are gone only with an excuse, and the one
   that joined last as long as it is open (joinRoom, detachSocket, cleanupStaleRooms). *)
THEOREM PresenceStaysTrue == PresenceSpec => []PresenceIsTrue
<1>1. PresenceInv /\ UNCHANGED presenceVars => PresenceInv'
  BY DEF PresenceInv, RoomTyped, RoomInv, CallInv, CallOK, OneInside, Inside, SeatInv, SeatsIn,
         CopyIsUsed, Shows, Bound, GoneIsLate, Started, presenceVars
<1>2. PresenceInv => PresenceIsTrue
  BY DEF PresenceInv, RoomInv, Shows, GoneIsLate, SeatInv, SeatsIn, PresenceIsTrue
<1> QED BY <1>1, <1>2, PresenceStarts, PresenceStays, PTL DEF PresenceSpec

-----------------------------------------------------------------------------
(* The circuit of a service. *)

Ending == [ok : BOOLEAN, when : Nat]

(* The last calls that ended, as many as were counted, failed; the one before did not. *)
FailedLast(n) ==
    /\ n <= Len(ended)
    /\ \A i \in (Len(ended) - n + 1) .. Len(ended) : ~ended[i].ok
    /\ n < Len(ended) => ended[Len(ended) - n].ok

CircuitInv ==
    /\ clock \in Nat \ {0} /\ ended \in Seq(Ending)
    /\ circuit \in [failures : Nat, until : Nat]
    /\ FailedLast(circuit.failures)
    /\ circuit.until = IF circuit.failures >= Threshold
                       THEN ended[Len(ended)].when + ResetAfter ELSE 0

LEMMA CircuitStays ==
    ASSUME Threshold \in Nat \ {0}, ResetAfter \in Nat, CircuitInv, BreakerNext
    PROVE  CircuitInv'
<1>1. /\ clock \in Nat \ {0} /\ ended \in Seq(Ending) /\ Len(ended) \in Nat
      /\ circuit \in [failures : Nat, until : Nat] /\ FailedLast(circuit.failures)
  BY DEF CircuitInv
<1>2. ASSUME NEW c \in Calls, BeginCall(c) \/ Retry(c) \/ Wake(c)
      PROVE  CircuitInv'
  BY <1>2 DEF BeginCall, Retry, Wake, CircuitInv, FailedLast
<1>3. ASSUME NEW c \in Calls, Succeed(c)
      PROVE  CircuitInv'
  <2> DEFINE e == [ok |-> TRUE, when |-> clock]
  <2>1. /\ e \in Ending /\ e.ok /\ ended' = Append(ended, e)
        /\ circuit' = [failures |-> 0, until |-> 0] /\ clock' = clock
    BY <1>1, <1>3 DEF Succeed, Ends, AfterSuccess, Closed, Ending
  <2> HIDE DEF e
  <2>2. ended' \in Seq(Ending) /\ Len(ended') = Len(ended) + 1 /\ ended'[Len(ended')] = e
    BY <1>1, <2>1
  <2>3. circuit' \in [failures : Nat, until : Nat] /\ circuit'.failures = 0 /\ circuit'.until = 0
    BY <2>1
  <2>4. FailedLast(circuit.failures)'
    BY <1>1, <2>1, <2>2, <2>3 DEF FailedLast
  <2> QED BY <1>1, <2>1, <2>2, <2>3, <2>4 DEF CircuitInv
<1>4. ASSUME NEW c \in Calls, Fail(c)
      PROVE  CircuitInv'
  <2> DEFINE e == [ok |-> FALSE, when |-> clock]
  <2>1. /\ e \in Ending /\ ~e.ok /\ e.when = clock /\ ended' = Append(ended, e)
        /\ circuit' = AfterFailure(circuit) /\ clock' = clock
    BY <1>1, <1>4 DEF Fail, Ends, Ending
  <2> HIDE DEF e
  <2>2. /\ ended' \in Seq(Ending) /\ Len(ended') = Len(ended) + 1 /\ ended'[Len(ended')] = e
        /\ \A i \in 1 .. Len(ended) : ended'[i] = ended[i]
    BY <1>1, <2>1
  <2>3. /\ circuit' \in [failures : Nat, until : Nat]
        /\ circuit'.failures = circuit.failures + 1
        /\ circuit'.until = IF circuit'.failures >= Threshold THEN clock + ResetAfter
                            ELSE circuit.until
    BY <1>1, <2>1 DEF AfterFailure
  <2>4. FailedLast(circuit.failures)'
    <3>1. PICK n \in Nat, f \in Nat :
               /\ n = Len(ended) /\ f = circuit.failures /\ f <= n
               /\ \A i \in (n - f + 1) .. n : ~ended[i].ok
               /\ f < n => ended[n - f].ok
      BY <1>1 DEF FailedLast
    <3>2. Len(ended') = n + 1 /\ circuit'.failures = f + 1 /\ ~ended'[n + 1].ok
      BY <2>1, <2>2, <2>3, <3>1
    <3>3. \A i \in 1 .. n : ended'[i] = ended[i]
      BY <2>2, <3>1
    <3>4. ASSUME NEW i \in (n - f + 1) .. (n + 1)
          PROVE  ~ended'[i].ok
      <4>1. CASE i = n + 1
        BY <3>2, <4>1
      <4>2. CASE i # n + 1
        <5>1. i \in (n - f + 1) .. n /\ i \in 1 .. n
          BY <3>1, <4>2
        <5> QED BY <3>1, <3>3, <5>1
      <4> QED BY <4>1, <4>2
    <3>5. f + 1 < n + 1 => ended'[n - f].ok
      <4>1. f < n => n - f \in 1 .. n
        BY <3>1
      <4> QED BY <3>1, <3>3, <4>1
    <3>6. /\ (n + 1) - (f + 1) + 1 = n - f + 1 /\ (n + 1) - (f + 1) = n - f
          /\ f + 1 <= n + 1
      BY <3>1
    <3> QED BY <3>2, <3>4, <3>5, <3>6 DEF FailedLast
  <2>5. circuit'.failures < Threshold => circuit'.until = 0
    BY <1>1, <2>3 DEF CircuitInv
  <2> QED BY <1>1, <2>1, <2>2, <2>3, <2>4, <2>5 DEF CircuitInv
<1>5. CASE Tick
  BY <1>1, <1>5 DEF Tick, CircuitInv, FailedLast
<1> QED BY <1>2, <1>3, <1>4, <1>5 DEF BreakerNext

(* However calls overlap, with any threshold from one on, the circuit is open exactly for
   the time after the last of enough failures in a row (executeWithResilience). *)
THEOREM CircuitStaysHonest ==
    ASSUME Threshold \in Nat \ {0}, ResetAfter \in Nat
    PROVE  BreakerSpec => []CircuitIsHonest
<1>1. BreakerInit => CircuitInv
  BY DEF BreakerInit, CircuitInv, FailedLast, Closed
<1>2. CircuitInv /\ BreakerNext => CircuitInv'
  BY CircuitStays
<1>3. CircuitInv /\ UNCHANGED breakerVars => CircuitInv'
  BY DEF CircuitInv, FailedLast, breakerVars
<1>4. CircuitInv => CircuitIsHonest
  <2> SUFFICES ASSUME CircuitInv PROVE CircuitIsHonest
    OBVIOUS
  <2>1. PICK n \in Nat, f \in Nat :
             /\ n = Len(ended) /\ f = circuit.failures /\ f <= n
             /\ \A i \in (n - f + 1) .. n : ~ended[i].ok
             /\ f < n => ended[n - f].ok
    <3>1. circuit.failures \in Nat /\ Len(ended) \in Nat /\ FailedLast(circuit.failures)
      BY DEF CircuitInv
    <3> QED BY <3>1 DEF FailedLast
  <2>2. f >= Threshold => LastFailed
    <3>1. f >= Threshold => Threshold <= n
                            /\ \A i \in (n - Threshold + 1) .. n : i \in (n - f + 1) .. n
      BY <2>1
    <3> QED BY <2>1, <3>1 DEF LastFailed
  <2>3. ASSUME f < Threshold PROVE ~LastFailed
    <3>1. Threshold <= n => f < n /\ n - f \in (n - Threshold + 1) .. n
      BY <2>1, <2>3
    <3> QED BY <2>1, <3>1 DEF LastFailed
  <2>4. LastFailed <=> circuit.failures >= Threshold
    BY <2>1, <2>2, <2>3
  <2> QED BY <2>4 DEF CircuitIsHonest, Open, CircuitInv
<1> QED BY <1>1, <1>2, <1>3, <1>4, PTL DEF BreakerSpec

-----------------------------------------------------------------------------
(* The stream of TON events. *)

Finality == {"none", "pending", "final", "gone"}
WatchRuns == [busy : BOOLEAN, read : BOOLEAN, sees : SUBSET Transfers]
WatchTasks == [by : {"event", "timer", "interval"}, job : Jobs, then : BOOLEAN, waits : BOOLEAN]
WatchEvents == [of : Transfers, finality : {"pending", "final", "gone"}]

WatchTyped ==
    /\ seen \in [Transfers -> Finality]
    /\ stream \in [up : BOOLEAN, events : Seq(WatchEvents)]
    /\ ~stream.up => stream.events = <<>>
    /\ tasks \subseteq WatchTasks /\ job \in [Jobs -> WatchRuns]
    /\ caught \subseteq Transfers

(* A final transfer is still on the stream. *)
OnItsWay(t) == \E i \in DOMAIN stream.events :
                  stream.events[i].of = t /\ stream.events[i].finality = "final"

(* A task that is to run k from its start, or that waits for a run of k which has not
   read yet or has read t. *)
WillRun(k) == \E x \in tasks : \/ ~x.waits /\ x.job = k
                               \/ x.then /\ k = "withdrawals"
IsRunning(k, t) == \E x \in tasks : /\ x.waits /\ x.job = k
                                    /\ ~job[k].read \/ t \in job[k].sees

OneRunOfEach ==
    /\ \A x, y \in tasks : x.waits /\ y.waits /\ x.job = y.job => x = y
    /\ \A x \in tasks : x.waits => job[x.job].busy

WatchInv ==
    /\ WatchTyped /\ OneRunOfEach
    /\ \A k \in Jobs : \A t \in Uncaught(k) :
          t \in missed \/ OnItsWay(t) \/ WillRun(k) \/ IsRunning(k, t)

LEMMA JobsAre == "deposits" \in Jobs /\ "withdrawals" \in Jobs /\ \A k \in Jobs : Due(k) \subseteq Transfers
BY DEF Jobs, Due, Transfers

LEMMA WatchStarts == WatchInit => WatchInv
BY JobsAre DEF WatchInit, WatchInv, WatchTyped, OneRunOfEach, Uncaught, Finality, WatchRuns, NoRun,
       NoStream

(* Whatever is on the stream and is not final, or is missed, is left out of the count:
   what remains is to be said of the tasks. *)
LEMMA AdvancesKeeps ==
    ASSUME WatchInv, NEW t \in Transfers, Advances(t)
    PROVE  WatchInv'
<1>1. PICK f \in {"pending", "final", "gone"} :
          /\ seen[t] = "none" \/ seen[t] = "pending"
          /\ seen' = [seen EXCEPT ![t] = f]
          /\ IF stream.up
             THEN stream' = [stream EXCEPT !.events = Append(@, Event(t, f))]
                  /\ UNCHANGED missed
             ELSE missed' = (IF f = "final" THEN missed \cup {t} ELSE missed)
                  /\ UNCHANGED stream
  BY DEF Advances
<1>2. UNCHANGED <<tasks, job, caught>>
  BY DEF Advances
<1>3. seen' \in [Transfers -> Finality]
  BY <1>1 DEF WatchInv, WatchTyped, Finality
<1>4. /\ stream' \in [up : BOOLEAN, events : Seq(WatchEvents)]
      /\ \A u : OnItsWay(u) => OnItsWay(u)'
      /\ f = "final" => t \in missed' \/ OnItsWay(t)'
      /\ missed \subseteq missed' /\ (~stream.up => stream.events = <<>>)'
  <2>1. stream \in [up : BOOLEAN, events : Seq(WatchEvents)] /\ (~stream.up => stream.events = <<>>)
    BY DEF WatchInv, WatchTyped
  <2>2. CASE stream.up
    <3>1. Event(t, f) \in WatchEvents /\ Event(t, f).of = t /\ Event(t, f).finality = f
      BY <1>1 DEF Event, WatchEvents
    <3>2. PICK q : q = Append(stream.events, Event(t, f))
      OBVIOUS
    <3>3. /\ q \in Seq(WatchEvents) /\ Len(q) = Len(stream.events) + 1
          /\ q[Len(q)] = Event(t, f) /\ Len(q) \in DOMAIN q
          /\ \A i \in DOMAIN stream.events : i \in DOMAIN q /\ q[i] = stream.events[i]
      BY <2>1, <3>1, <3>2
    <3>4. stream'.events = q /\ stream'.up /\ stream' \in [up : BOOLEAN, events : Seq(WatchEvents)]
          /\ missed' = missed
      BY <1>1, <2>1, <2>2, <3>2, <3>3
    <3> QED BY <3>1, <3>3, <3>4 DEF OnItsWay
  <2>3. CASE ~stream.up
    BY <1>1, <2>1, <2>3 DEF OnItsWay
  <2> QED BY <2>2, <2>3
<1>5. \A k \in Jobs : \A u \in Uncaught(k)' : u \in Uncaught(k) \/ (u = t /\ f = "final")
  BY <1>1, <1>2, JobsAre DEF Uncaught, WatchInv, WatchTyped
<1>6. \A k \in Jobs : \A u : (WillRun(k) => WillRun(k)') /\ (IsRunning(k, u) => IsRunning(k, u)')
  BY <1>2 DEF WillRun, IsRunning
<1>7. WatchTyped' /\ OneRunOfEach'
  BY <1>2, <1>3, <1>4 DEF WatchTyped, OneRunOfEach, WatchInv
<1>8. ASSUME NEW k \in Jobs, NEW u \in Uncaught(k)'
      PROVE  u \in missed' \/ OnItsWay(u)' \/ WillRun(k)' \/ IsRunning(k, u)'
  BY <1>4, <1>5, <1>6, <1>8 DEF WatchInv
<1> QED BY <1>7, <1>8 DEF WatchInv

(* The stream is lost with what was announced on it. *)
LEMMA AnnouncedIs == ASSUME NEW t, OnItsWay(t) PROVE t \in Announced
BY DEF OnItsWay, Announced

LEMMA StreamKeeps == WatchInv /\ (Opens \/ Breaks \/ Restarts) => WatchInv'
<1> SUFFICES ASSUME WatchInv, Opens \/ Breaks \/ Restarts PROVE WatchInv'
  OBVIOUS
<1>1. UNCHANGED <<seen, tasks, job, caught>> /\ missed \subseteq missed'
  BY DEF Opens, Breaks, Restarts
<1>2. /\ stream \in [up : BOOLEAN, events : Seq(WatchEvents)]
      /\ ~stream.up => stream.events = <<>>
  BY DEF WatchInv, WatchTyped
<1>3. /\ \/ stream' = [up |-> TRUE, events |-> <<>>] /\ ~stream.up
         \/ stream' = [up |-> FALSE, events |-> <<>>] /\ missed' = missed \cup Announced
         \/ stream' = stream
      /\ <<>> \in Seq(WatchEvents)
  BY DEF Opens, Breaks, Restarts, NoStream
<1>4. /\ stream' \in [up : BOOLEAN, events : Seq(WatchEvents)]
      /\ (~stream.up => stream.events = <<>>)'
  <2>1. ASSUME NEW r \in {[up |-> TRUE, events |-> <<>>], [up |-> FALSE, events |-> <<>>], stream}
        PROVE  /\ r \in [up : BOOLEAN, events : Seq(WatchEvents)]
               /\ ~r.up => r.events = <<>>
    <3>1. CASE r = [up |-> TRUE, events |-> <<>>]
      <4>1. r.up /\ r.events = <<>>
        BY <3>1
      <4> QED BY <1>3, <3>1, <4>1
    <3>2. CASE r = [up |-> FALSE, events |-> <<>>]
      <4>1. r.events = <<>>
        BY <3>2
      <4> QED BY <1>3, <3>2, <4>1
    <3>3. CASE r = stream
      BY <1>2, <3>3
    <3> QED BY <2>1, <3>1, <3>2, <3>3
  <2> QED BY <1>3, <2>1
<1>7. ASSUME NEW u, OnItsWay(u) PROVE u \in missed' \/ OnItsWay(u)'
  <2>1. stream.events # <<>>
    BY <1>7 DEF OnItsWay
  <2> QED BY <1>2, <1>3, <1>7, <2>1, AnnouncedIs DEF OnItsWay
<1>5. WatchTyped' /\ OneRunOfEach'
  BY <1>1, <1>4 DEF WatchTyped, OneRunOfEach, WatchInv
<1>6. ASSUME NEW k \in Jobs, NEW u \in Uncaught(k)'
      PROVE  u \in missed' \/ OnItsWay(u)' \/ WillRun(k)' \/ IsRunning(k, u)'
  BY <1>1, <1>6, <1>7 DEF WatchInv, Uncaught, WillRun, IsRunning
<1> QED BY <1>5, <1>6 DEF WatchInv

(* More tasks keep what tasks are to do. *)
LEMMA MoreTasks ==
    ASSUME WatchInv, UNCHANGED <<seen, caught, job>>, tasks \subseteq tasks'
    PROVE  /\ \A k \in Jobs : /\ Uncaught(k)' = Uncaught(k)
                              /\ WillRun(k) => WillRun(k)'
                              /\ \A u : IsRunning(k, u) => IsRunning(k, u)'
BY DEF Uncaught, WillRun, IsRunning

LEMMA NewTask ==
    ASSUME WatchInv, UNCHANGED job, NEW x \in WatchTasks, ~x.waits,
           tasks' = tasks \cup {x}
    PROVE  OneRunOfEach' /\ tasks' \subseteq WatchTasks
BY DEF WatchInv, WatchTyped, OneRunOfEach

LEMMA BothAre ==
    ASSUME NEW by \in {"event", "timer", "interval"}
    PROVE  Both(by) \in WatchTasks /\ ~Both(by).waits /\ Both(by).then /\ Both(by).job = "deposits"
BY DEF Both, Task, WatchTasks, Jobs

LEMMA HearsKeeps == WatchInv /\ Hears => WatchInv'
<1> SUFFICES ASSUME WatchInv, Hears PROVE WatchInv'
  OBVIOUS
<1>1. /\ stream \in [up : BOOLEAN, events : Seq(WatchEvents)]
      /\ ~stream.up => stream.events = <<>>
      /\ stream.events # <<>> /\ UNCHANGED <<seen, job, caught>>
      /\ stream' = [stream EXCEPT !.events = Tail(@)]
  BY DEF WatchInv, WatchTyped, Hears
<1>2. PICK q \in Seq(WatchEvents), e \in WatchEvents :
         q = stream.events /\ q # <<>> /\ e = Head(q) /\ e = q[1]
  BY <1>1
<1>3. Tail(q) \in Seq(WatchEvents) /\ \A i \in DOMAIN q : i = 1 \/ (i - 1 \in DOMAIN Tail(q) /\ Tail(q)[i - 1] = q[i])
  BY <1>2
<1>4. stream'.events = Tail(q) /\ stream'.up = stream.up /\ stream.up
      /\ stream' \in [up : BOOLEAN, events : Seq(WatchEvents)]
  BY <1>1, <1>2, <1>3
<1>5. ASSUME NEW u, OnItsWay(u)
      PROVE  OnItsWay(u)' \/ (u = e.of /\ e.finality = "final")
  <2>1. PICK i \in DOMAIN q : q[i].of = u /\ q[i].finality = "final"
    BY <1>2, <1>5 DEF OnItsWay
  <2>2. CASE i = 1
    BY <1>2, <2>1, <2>2
  <2>3. CASE i # 1
    <3>1. i - 1 \in DOMAIN Tail(q) /\ Tail(q)[i - 1] = q[i]
      BY <1>3, <2>3
    <3>2. \E j \in DOMAIN stream'.events :
             stream'.events[j].of = u /\ stream'.events[j].finality = "final"
      BY <1>4, <2>1, <3>1
    <3> QED BY <3>2 DEF OnItsWay
  <2> QED BY <2>2, <2>3
<1>6. CASE e.finality = "final" /\ Starts(Both("event")) /\ UNCHANGED <<timer, missed>>
  <2>1. tasks' = tasks \cup {Both("event")}
    BY <1>6 DEF Starts
  <2>2. OneRunOfEach' /\ tasks' \subseteq WatchTasks
    BY <1>1, <2>1, NewTask, BothAre
  <2>3. WillRun("deposits")' /\ WillRun("withdrawals")'
    BY <2>1, BothAre DEF WillRun
  <2> QED BY <1>1, <1>4, <2>2, <2>3 DEF WatchInv, WatchTyped, Jobs
<1>7. CASE /\ missed' = missed \cup (IF e.finality = "final" THEN {e.of} ELSE {})
           /\ tasks' = tasks \/ Starts(Both("event"))
  <2>1. /\ tasks \subseteq tasks' /\ OneRunOfEach' /\ tasks' \subseteq WatchTasks
    <3>1. CASE tasks' = tasks
      BY <1>1, <3>1 DEF WatchInv, WatchTyped, OneRunOfEach
    <3>2. CASE Starts(Both("event"))
      <4>1. tasks' = tasks \cup {Both("event")}
        BY <3>2 DEF Starts
      <4> QED BY <1>1, <4>1, NewTask, BothAre
    <3> QED BY <1>7, <3>1, <3>2
  <2>2. ASSUME NEW k \in Jobs, NEW u \in Uncaught(k)'
        PROVE  u \in missed' \/ OnItsWay(u)' \/ WillRun(k)' \/ IsRunning(k, u)'
    BY <1>1, <1>5, <1>7, <2>1, <2>2, MoreTasks DEF WatchInv
  <2> QED BY <1>1, <1>4, <2>1, <2>2 DEF WatchInv, WatchTyped
<1>8. \/ e.finality = "final" /\ Starts(Both("event")) /\ UNCHANGED <<timer, missed>>
      \/ /\ missed' = missed \cup (IF e.finality = "final" THEN {e.of} ELSE {})
         /\ tasks' = tasks \/ Starts(Both("event"))
  BY <1>2 DEF Hears
<1> QED BY <1>6, <1>7, <1>8

LEMMA StartsKeep ==
    ASSUME WatchInv, NEW k0 \in Jobs, Fires \/ Interval(k0)
    PROVE  WatchInv'
<1>1. PICK x \in WatchTasks : tasks' = tasks \cup {x} /\ ~x.waits
  <2>1. Task("interval", k0, FALSE) \in WatchTasks /\ ~Task("interval", k0, FALSE).waits
    BY DEF Task, WatchTasks
  <2> QED BY <2>1, BothAre DEF Fires, Interval, Starts
<1>2. UNCHANGED <<seen, stream, job, caught, missed>>
  BY DEF Fires, Interval
<1>3. OneRunOfEach' /\ tasks' \subseteq WatchTasks
  BY <1>1, <1>2, NewTask
<1>4. \A k \in Jobs : /\ Uncaught(k)' = Uncaught(k)
                      /\ WillRun(k) => WillRun(k)'
                      /\ \A u : IsRunning(k, u) => IsRunning(k, u)'
  BY <1>1, <1>2, MoreTasks
<1> QED BY <1>2, <1>3, <1>4 DEF WatchInv, WatchTyped, OnItsWay

LEMMA OnwardsAre ==
    ASSUME NEW x \in WatchTasks
    PROVE  /\ Onwards(x) \subseteq WatchTasks /\ \A y \in Onwards(x) : ~y.waits
           /\ x.then => \E y \in Onwards(x) : y.job = "withdrawals"
<1>1. PICK y \in WatchTasks : y = Task(x.by, "withdrawals", FALSE)
  BY DEF Task, WatchTasks, Jobs
<1>2. ~y.waits /\ y.job = "withdrawals"
  BY <1>1 DEF Task
<1>3. CASE x.then
  BY <1>1, <1>2, <1>3 DEF Onwards
<1>4. CASE ~x.then
  BY <1>4 DEF Onwards
<1> QED BY <1>3, <1>4

(* A task that is through leaves its second job behind; others go on. *)
LEMMA TaskEnds ==
    ASSUME WatchInv, NEW x \in tasks, NEW more \in {{}, Onwards(x)},
           tasks' = (tasks \ {x}) \cup more,
           job' = job \/ (x.waits /\ job' = [job EXCEPT ![x.job] = NoRun])
    PROVE  /\ OneRunOfEach' /\ tasks' \subseteq WatchTasks /\ job' \in [Jobs -> WatchRuns]
           /\ \A k \in Jobs : /\ WillRun(k) =>
                                    \/ WillRun(k)'
                                    \/ ~x.waits /\ x.job = k
                                    \/ more = {} /\ x.then /\ k = "withdrawals"
                              /\ \A u : IsRunning(k, u) =>
                                    \/ IsRunning(k, u)'
                                    \/ /\ x.waits /\ x.job = k
                                       /\ (~job[k].read \/ u \in job[k].sees)
<1>1. /\ x \in WatchTasks /\ x.job \in Jobs /\ tasks \subseteq WatchTasks /\ job \in [Jobs -> WatchRuns]
      /\ OneRunOfEach
  BY DEF WatchInv, WatchTyped, WatchTasks
<1>2. more \subseteq WatchTasks /\ \A y \in more : ~y.waits
  BY <1>1, OnwardsAre
<1>3. tasks' \subseteq WatchTasks /\ job' \in [Jobs -> WatchRuns]
  <2>1. NoRun \in WatchRuns
    BY DEF NoRun, WatchRuns
  <2> QED BY <1>1, <1>2, <2>1
<1>4. \A y \in tasks' : y.waits => y \in tasks /\ y # x
  BY <1>2
<1>5. \A y \in tasks : y.waits /\ y # x => job'[y.job] = job[y.job]
  BY <1>1 DEF OneRunOfEach, WatchTasks
<1>6. OneRunOfEach'
  BY <1>1, <1>4, <1>5 DEF OneRunOfEach
<1>7. ASSUME NEW k \in Jobs, WillRun(k)
      PROVE  \/ WillRun(k)' \/ (~x.waits /\ x.job = k)
             \/ more = {} /\ x.then /\ k = "withdrawals"
  <2>1. PICK y \in tasks : (~y.waits /\ y.job = k) \/ (y.then /\ k = "withdrawals")
    BY <1>7 DEF WillRun
  <2>2. CASE y # x
    BY <2>1, <2>2 DEF WillRun
  <2>3. CASE y = x /\ more = {}
    BY <2>1, <2>3
  <2>4. CASE y = x /\ more = Onwards(x) /\ x.then /\ k = "withdrawals"
    <3>1. PICK z \in Onwards(x) : z.job = "withdrawals" /\ ~z.waits
      BY <1>1, <2>4, OnwardsAre
    <3> QED BY <2>4, <3>1 DEF WillRun
  <2> QED BY <2>1, <2>2, <2>3, <2>4
<1>8. ASSUME NEW k \in Jobs, NEW u, IsRunning(k, u)
      PROVE  \/ IsRunning(k, u)'
             \/ x.waits /\ x.job = k /\ (~job[k].read \/ u \in job[k].sees)
  <2>1. PICK y \in tasks : y.waits /\ y.job = k /\ (~job[k].read \/ u \in job[k].sees)
    BY <1>8 DEF IsRunning
  <2>2. CASE y # x
    BY <1>5, <2>1, <2>2 DEF IsRunning
  <2> QED BY <2>1, <2>2
<1> QED BY <1>3, <1>6, <1>7, <1>8

LEMMA SkipsKeeps ==
    ASSUME WatchInv, NEW x \in tasks, Skips(x)
    PROVE  WatchInv'
<1>1. /\ ~x.waits /\ missed' = missed \cup Uncaught(x.job)
      /\ tasks' = (tasks \ {x}) \cup Onwards(x) /\ UNCHANGED <<seen, stream, job, caught>>
  BY DEF Skips
<1>2. /\ OneRunOfEach' /\ tasks' \subseteq WatchTasks
      /\ \A k \in Jobs : /\ WillRun(k) =>
                               WillRun(k)' \/ x.job = k \/ (Onwards(x) = {} /\ x.then)
                         /\ \A u : IsRunning(k, u) => IsRunning(k, u)'
  BY <1>1, TaskEnds
<1>3. x \in WatchTasks
  BY DEF WatchInv, WatchTyped
<1>4. x.then => Onwards(x) # {}
  BY <1>3, OnwardsAre
<1>5. \A k \in Jobs : Uncaught(k)' = Uncaught(k)
  BY <1>1 DEF Uncaught
<1> QED BY <1>1, <1>2, <1>4, <1>5 DEF WatchInv, WatchTyped, OnItsWay

LEMMA RunsKeeps ==
    ASSUME WatchInv, NEW x \in tasks, Runs(x)
    PROVE  WatchInv'
<1> DEFINE y == [x EXCEPT !.waits = TRUE]
<1>1. /\ x \in WatchTasks /\ x.job \in Jobs /\ ~x.waits /\ ~job[x.job].busy
      /\ tasks' = (tasks \ {x}) \cup {y} /\ job \in [Jobs -> WatchRuns]
      /\ tasks \subseteq WatchTasks /\ OneRunOfEach
      /\ UNCHANGED <<seen, stream, caught, missed>>
  BY DEF Runs, WatchInv, WatchTyped, WatchTasks
<1>2. y \in WatchTasks /\ y.waits /\ y.job = x.job /\ y.then = x.then
  BY <1>1 DEF WatchTasks
<1> HIDE DEF y
<1>3. PICK r \in WatchRuns : r.busy /\ ~r.read /\ job' = [job EXCEPT ![x.job] = r]
  <2>1. /\ [NoRun EXCEPT !.busy = TRUE] \in WatchRuns /\ [NoRun EXCEPT !.busy = TRUE].busy
        /\ ~[NoRun EXCEPT !.busy = TRUE].read
    BY DEF NoRun, WatchRuns
  <2> QED BY <2>1 DEF Runs
<1>4. /\ job' \in [Jobs -> WatchRuns] /\ job'[x.job] = r
      /\ \A k \in Jobs \ {x.job} : job'[k] = job[k]
  BY <1>1, <1>3
<1>5. \A z \in tasks : z.waits => z.job # x.job /\ z.job \in Jobs
  BY <1>1 DEF OneRunOfEach, WatchTasks
<1>6. tasks' \subseteq WatchTasks /\ OneRunOfEach'
  BY <1>1, <1>2, <1>3, <1>4, <1>5 DEF OneRunOfEach
<1>7. ASSUME NEW k \in Jobs, WillRun(k)
      PROVE  WillRun(k)' \/ k = x.job
  BY <1>1, <1>2, <1>7 DEF WillRun
<1>8. ASSUME NEW k \in Jobs, NEW u, IsRunning(k, u)
      PROVE  IsRunning(k, u)'
  BY <1>1, <1>4, <1>5, <1>8 DEF IsRunning
<1>9. \A u : IsRunning(x.job, u)'
  BY <1>1, <1>2, <1>3, <1>4 DEF IsRunning
<1>10. \A k \in Jobs : Uncaught(k)' = Uncaught(k)
  BY <1>1 DEF Uncaught
<1> QED BY <1>1, <1>4, <1>6, <1>7, <1>8, <1>9, <1>10 DEF WatchInv, WatchTyped, OnItsWay

LEMMA JobReadsKeeps ==
    ASSUME WatchInv, NEW k0 \in Jobs, JobReads(k0)
    PROVE  WatchInv'
<1>1. PICK found \in SUBSET Uncaught(k0) :
      /\ job[k0].busy /\ ~job[k0].read /\ job \in [Jobs -> WatchRuns]
      /\ job' = [job EXCEPT ![k0] = [busy |-> TRUE, read |-> TRUE, sees |-> found]]
      /\ missed' = missed \cup (Uncaught(k0) \ found)
      /\ UNCHANGED <<seen, stream, tasks, caught>>
  BY DEF JobReads, WatchInv, WatchTyped
<1>2. \A k \in Jobs : Uncaught(k) \subseteq Transfers /\ Uncaught(k)' = Uncaught(k)
  BY <1>1, JobsAre DEF Uncaught
<1>3. PICK r \in WatchRuns : r = [busy |-> TRUE, read |-> TRUE, sees |-> found]
  BY <1>2 DEF WatchRuns
<1>4. /\ job' \in [Jobs -> WatchRuns] /\ job'[k0] = r /\ r.busy /\ r.sees = found
      /\ \A k \in Jobs \ {k0} : job'[k] = job[k]
  BY <1>1, <1>3
<1>5. OneRunOfEach'
  BY <1>1, <1>4 DEF OneRunOfEach, WatchInv, WatchTyped, WatchTasks
<1>6. ASSUME NEW k \in Jobs, NEW u \in Uncaught(k)
      PROVE  (WillRun(k) => WillRun(k)') /\ (IsRunning(k, u) => IsRunning(k, u)' \/ u \in missed')
  BY <1>1, <1>4, <1>6 DEF WillRun, IsRunning
<1> QED BY <1>1, <1>2, <1>4, <1>5, <1>6 DEF WatchInv, WatchTyped, OnItsWay

LEMMA JobDoneKeeps ==
    ASSUME WatchInv, NEW x \in tasks, JobDone(x)
    PROVE  WatchInv'
<1>1. /\ x \in WatchTasks /\ x.job \in Jobs /\ x.waits /\ job[x.job].read
      /\ job \in [Jobs -> WatchRuns] /\ caught \subseteq Transfers
      /\ caught' = caught \cup job[x.job].sees
      /\ job' = [job EXCEPT ![x.job] = NoRun]
      /\ tasks' = (tasks \ {x}) \cup Onwards(x) /\ UNCHANGED <<seen, stream, missed>>
  BY DEF JobDone, WatchInv, WatchTyped, WatchTasks
<1>2. /\ OneRunOfEach' /\ tasks' \subseteq WatchTasks /\ job' \in [Jobs -> WatchRuns]
      /\ \A k \in Jobs : /\ WillRun(k) =>
                               WillRun(k)' \/ (Onwards(x) = {} /\ x.then)
                         /\ \A u : IsRunning(k, u) =>
                               \/ IsRunning(k, u)'
                               \/ x.job = k /\ u \in job[x.job].sees
  BY <1>1, TaskEnds
<1>3. x.then => Onwards(x) # {}
  BY <1>1, OnwardsAre
<1>4. caught' \subseteq Transfers
  BY <1>1 DEF WatchRuns
<1>5. \A k \in Jobs : \A u \in Uncaught(k)' : u \in Uncaught(k) /\ u \notin job[x.job].sees
  BY <1>1 DEF Uncaught
<1> QED BY <1>1, <1>2, <1>3, <1>4, <1>5 DEF WatchInv, WatchTyped, OnItsWay

LEMMA JobFailsKeeps ==
    ASSUME WatchInv, NEW x \in tasks, JobFails(x)
    PROVE  WatchInv'
<1>1. /\ x \in WatchTasks /\ x.job \in Jobs /\ x.waits /\ UNCHANGED <<seen, caught>>
  BY DEF JobFails, WatchInv, WatchTyped, WatchTasks
<1>2. \A k \in Jobs : Uncaught(k)' = Uncaught(k)
  BY <1>1 DEF Uncaught
<1>3. CASE Queues /\ x.by = "timer"
  <2>1. /\ stream' = [up |-> FALSE, events |-> <<>>] /\ tasks' = {}
        /\ job' = [k \in Jobs |-> NoRun]
        /\ missed' = missed \cup AllUncaught \cup Announced
    BY <1>3 DEF JobFails, NoStream
  <2>2. /\ stream' \in [up : BOOLEAN, events : Seq(WatchEvents)]
        /\ stream'.events = <<>> /\ job' \in [Jobs -> WatchRuns]
    BY <2>1 DEF NoRun, WatchRuns
  <2>3. \A k \in Jobs : Uncaught(k) \subseteq missed'
    BY <2>1 DEF AllUncaught
  <2> QED BY <1>1, <1>2, <2>1, <2>2, <2>3 DEF WatchInv, WatchTyped, OneRunOfEach
<1>4. CASE ~(Queues /\ x.by = "timer")
  <2>1. /\ job' = [job EXCEPT ![x.job] = NoRun]
        /\ tasks' = (tasks \ {x}) \cup (IF Queues THEN {} ELSE Onwards(x))
        /\ missed' = missed \cup Uncaught(x.job) \cup
                        (IF Queues /\ x.then THEN Uncaught("withdrawals") ELSE {})
        /\ UNCHANGED stream
    BY <1>4 DEF JobFails
  <2>2. PICK more \in {{}, Onwards(x)} : /\ more = IF Queues THEN {} ELSE Onwards(x)
                                         /\ tasks' = (tasks \ {x}) \cup more
    BY <2>1
  <2>3. /\ OneRunOfEach' /\ tasks' \subseteq WatchTasks /\ job' \in [Jobs -> WatchRuns]
        /\ \A k \in Jobs : /\ WillRun(k) =>
                                 \/ WillRun(k)'
                                 \/ more = {} /\ x.then /\ k = "withdrawals"
                           /\ \A u : IsRunning(k, u) => IsRunning(k, u)' \/ x.job = k
    BY <1>1, <2>1, <2>2, TaskEnds
  <2>4. more = {} /\ x.then => Uncaught("withdrawals") \subseteq missed'
    <3>1. x.then => Onwards(x) # {}
      BY <1>1, OnwardsAre
    <3> QED BY <2>1, <2>2, <3>1
  <2> QED BY <1>1, <1>2, <2>1, <2>3, <2>4 DEF WatchInv, WatchTyped, OnItsWay
<1> QED BY <1>3, <1>4

(* However events, runs, breaks, faults and restarts fall, and however far the index that the
   runs ask is behind, a final transfer that its job has not taken in at rest was missed for one
   of the named reasons: a broken stream, a key handled already, a run that overlapped, failed
   or did not find it (TonStreamingService, createJobRunner). *)
THEOREM FinalStaysCaught == WatchSpec => []FinalIsCaught
<1>1. ASSUME WatchInv, WatchNext PROVE WatchInv'
  <2>1. ASSUME NEW t \in Transfers, Advances(t) PROVE WatchInv'
    BY <1>1, <2>1, AdvancesKeeps
  <2>2. ASSUME NEW k \in Jobs, Interval(k) \/ JobReads(k) PROVE WatchInv'
    BY <1>1, <2>2, StartsKeep, JobReadsKeeps
  <2>3. ASSUME NEW x \in tasks, Skips(x) \/ Runs(x) \/ JobDone(x) \/ JobFails(x) PROVE WatchInv'
    BY <1>1, <2>3, SkipsKeeps, RunsKeeps, JobDoneKeeps, JobFailsKeeps
  <2>4. CASE Opens \/ Breaks \/ Hears \/ Fires \/ Restarts
    BY <1>1, <2>4, StreamKeeps, HearsKeeps, StartsKeep, JobsAre
  <2> QED BY <1>1, <2>1, <2>2, <2>3, <2>4 DEF WatchNext
<1>2. WatchInv /\ UNCHANGED watchVars => WatchInv'
  BY DEF WatchInv, WatchTyped, OneRunOfEach, Uncaught, OnItsWay, WillRun, IsRunning, watchVars
<1>3. WatchInv => FinalIsCaught
  BY DEF WatchInv, FinalIsCaught, AtRest, AllUncaught, OnItsWay, WillRun, IsRunning
<1> QED BY <1>1, <1>2, <1>3, WatchStarts, PTL DEF WatchSpec

-----------------------------------------------------------------------------
(* The cache. *)

Whys == {"raced", "elsewhere", "failed", "overlap"}
Config == [Fields -> Nat]
CacheCopies == [is : BOOLEAN, value : Config, why : SUBSET Whys]
CacheLoads == [at : {"none", "asked", "read", "kept"}, value : Config, why : SUBSET Whys]
CacheEdits == [id : Nat, by : Processes, field : Fields,
               at : {"asks", "waits", "ready", "written", "cleared"},
               current : Config, why : SUBSET Whys]

Counters == [edits : Nat, loads : Nat, failures : Nat]

CacheTyped ==
    /\ stored \in Config /\ redis \in CacheCopies
    /\ copyAt \in [Processes -> CacheCopies] /\ loads \in [Processes -> CacheLoads]
    /\ edits \subseteq CacheEdits /\ counted \in Counters

Written == \E e \in edits : e.at = "written"
Clearing == \E e \in edits : e.at = "cleared"

(* What somebody has read from the store: as it is now, or with a reason not to be. *)
Told(v, why) == v = stored \/ why # {}

CopiesInv ==
    /\ Current(redis) \/ Written \/ Clearing
    /\ \A p \in Processes : Current(copyAt[p]) \/ Written
    /\ \A p \in Processes : loads[p].at \in {"read", "kept"} =>
          Told(loads[p].value, loads[p].why) \/ Written

(* An update that is still to write has what is stored, or a reason; beside one that has
   written and is not through, a reason in any case. *)
EditsInv ==
    \A e \in edits : e.at \in {"asks", "waits", "ready"} =>
        /\ Written \/ Clearing => e.why # {}
        /\ e.at = "ready" => Told(e.current, e.why)

LostInv ==
    /\ \A l \in lost : l.why # {}
    /\ lost = {} => stored = acked

CacheInv == CacheTyped /\ CopiesInv /\ EditsInv /\ LostInv

LEMMA CacheStarts == CacheInit => CacheInv
<1> SUFFICES ASSUME CacheInit PROVE CacheInv
  OBVIOUS
<1>1. /\ NoCopy \in CacheCopies /\ ~NoCopy.is /\ NoLoad \in CacheLoads /\ NoLoad.at = "none"
      /\ [f \in Fields |-> 0] \in Config
  BY DEF NoCopy, CacheCopies, Config, NoLoad, CacheLoads
<1> QED BY <1>1 DEF CacheInit, Counters, CacheInv, CacheTyped, CopiesInv, EditsInv, LostInv, Current

LEMMA CountersCount ==
    ASSUME counted \in Counters
    PROVE  /\ Tallies("edits") \/ Tallies("loads") \/ Tallies("failures") => counted' \in Counters
           /\ \A a, b \in {0, 1} :
                counted' = [counted EXCEPT !.failures = @ + a, !.loads = @ + b] => counted' \in Counters
           /\ counted' = [counted EXCEPT !.loads = @ + 1, !.failures = @ + 1] => counted' \in Counters
<1>1. ASSUME NEW r \in Counters, NEW a \in Nat, NEW b \in Nat
      PROVE  /\ [r EXCEPT !.edits = @ + 1] \in Counters
             /\ [r EXCEPT !.failures = @ + a, !.loads = @ + b] \in Counters
             /\ [r EXCEPT !.loads = @ + 1, !.failures = @ + 1] \in Counters
             /\ [r EXCEPT !.loads = @ + 1] \in Counters
             /\ [r EXCEPT !.failures = @ + 1] \in Counters
  <2>1. ASSUME NEW q \in Counters, NEW n \in Nat
        PROVE  /\ [q EXCEPT !.edits = @ + n] \in Counters
               /\ [q EXCEPT !.loads = @ + n] \in Counters
               /\ [q EXCEPT !.failures = @ + n] \in Counters
    BY DEF Counters
  <2>2. [r EXCEPT !.failures = @ + a, !.loads = @ + b]
            = [[r EXCEPT !.failures = @ + a] EXCEPT !.loads = @ + b]
    OBVIOUS
  <2>3. [r EXCEPT !.loads = @ + 1, !.failures = @ + 1]
            = [[r EXCEPT !.loads = @ + 1] EXCEPT !.failures = @ + 1]
    OBVIOUS
  <2>4. [r EXCEPT !.failures = @ + a] \in Counters /\ [r EXCEPT !.loads = @ + 1] \in Counters
    BY <2>1
  <2> QED BY <2>1, <2>2, <2>3, <2>4
<1>2. Tallies("edits") \/ Tallies("loads") \/ Tallies("failures") => counted' \in Counters
  <2>1. counted \in Counters
    OBVIOUS
  <2> QED BY <1>1, <2>1 DEF Tallies
<1>3. ASSUME NEW a \in {0, 1}, NEW b \in {0, 1},
             counted' = [counted EXCEPT !.failures = @ + a, !.loads = @ + b]
      PROVE  counted' \in Counters
  <2>1. a \in Nat /\ b \in Nat
    OBVIOUS
  <2> QED BY <1>1, <1>3, <2>1
<1> QED BY <1>1, <1>2, <1>3

LEMMA NothingCached ==
    /\ NoCopy \in CacheCopies /\ ~NoCopy.is
    /\ NoLoad \in CacheLoads /\ NoLoad.at = "none"
    /\ [NoLoad EXCEPT !.at = "asked"] \in CacheLoads /\ [NoLoad EXCEPT !.at = "asked"].at = "asked"
    /\ \A v \in Config, w \in SUBSET Whys :
          /\ Copy(v, w) \in CacheCopies /\ Copy(v, w).value = v /\ Copy(v, w).why = w
<1>1. [f \in Fields |-> 0] \in Config
  BY DEF Config
<1> QED BY <1>1 DEF NoCopy, NoLoad, CacheCopies, CacheLoads, Copy

(* A load is begun: nothing is told yet. *)
LEMMA BeginsLoad ==
    ASSUME CacheInv, NEW p \in Processes, loads' = StartsLoad(p), counted' \in Counters,
           UNCHANGED <<stored, acked, copyAt, redis, edits, lost>>
    PROVE  CacheInv'
<1>1. /\ loads' \in [Processes -> CacheLoads] /\ loads'[p].at = "asked"
      /\ \A q \in Processes \ {p} : loads'[q] = loads[q]
  BY NothingCached DEF StartsLoad, CacheInv, CacheTyped
<1>2. CopiesInv'
  BY <1>1 DEF CacheInv, CopiesInv, Current, Told, Written, Clearing
<1> QED BY <1>1, <1>2 DEF CacheInv, CacheTyped, EditsInv, LostInv, Told, Written, Clearing

LEMMA ReadsKeeps == ASSUME CacheInv, NEW p \in Processes, Reads(p) PROVE CacheInv'
<1>1. counted \in Counters
  BY DEF CacheInv, CacheTyped
<1>2. /\ loads' = StartsLoad(p) /\ counted' \in Counters
      /\ UNCHANGED <<stored, acked, copyAt, redis, edits, lost>>
  BY <1>1, CountersCount DEF Reads
<1> QED BY <1>2, BeginsLoad

LEMMA LoadReadsKeeps == ASSUME CacheInv, NEW p \in Processes, LoadReads(p) PROVE CacheInv'
<1>1. /\ loads \in [Processes -> CacheLoads] /\ stored \in Config
      /\ loads' = [loads EXCEPT ![p] = [@ EXCEPT !.at = "read", !.value = stored]]
      /\ UNCHANGED <<stored, acked, copyAt, redis, edits, lost, counted>>
  BY DEF LoadReads, CacheInv, CacheTyped
<1>2. PICK l \in CacheLoads : l.value = stored /\ loads' = [loads EXCEPT ![p] = l]
  <2>1. ASSUME NEW k \in CacheLoads
        PROVE  /\ [k EXCEPT !.at = "read", !.value = stored] \in CacheLoads
               /\ [k EXCEPT !.at = "read", !.value = stored].value = stored
    BY <1>1 DEF CacheLoads
  <2> QED BY <1>1, <2>1
<1>3. /\ loads' \in [Processes -> CacheLoads] /\ loads'[p] = l
      /\ \A q \in Processes \ {p} : loads'[q] = loads[q]
  BY <1>1, <1>2
<1>4. CopiesInv'
  BY <1>1, <1>2, <1>3 DEF CacheInv, CopiesInv, Current, Told, Written, Clearing
<1> QED BY <1>1, <1>3, <1>4 DEF CacheInv, CacheTyped, EditsInv, LostInv, Told, Written, Clearing

LEMMA LoadKeepsKeeps == ASSUME CacheInv, NEW p \in Processes, LoadKeeps(p) PROVE CacheInv'
<1>1. /\ loads \in [Processes -> CacheLoads] /\ copyAt \in [Processes -> CacheCopies]
      /\ loads[p].at = "read" /\ loads[p].value \in Config /\ loads[p].why \in SUBSET Whys
      /\ copyAt' = [copyAt EXCEPT ![p] = Copy(loads[p].value, loads[p].why)]
      /\ loads' = [loads EXCEPT ![p].at = "kept"]
      /\ UNCHANGED <<stored, acked, redis, edits, lost, counted>>
  BY DEF LoadKeeps, CacheInv, CacheTyped, CacheLoads
<1>2. ASSUME NEW k \in CacheLoads
      PROVE  /\ [k EXCEPT !.at = "kept"] \in CacheLoads
             /\ [k EXCEPT !.at = "kept"].value = k.value /\ [k EXCEPT !.at = "kept"].why = k.why
  BY DEF CacheLoads
<1>3. /\ loads' \in [Processes -> CacheLoads]
      /\ \A q \in Processes : loads'[q].value = loads[q].value /\ loads'[q].why = loads[q].why
      /\ \A q \in Processes \ {p} : loads'[q].at = loads[q].at
  BY <1>1, <1>2
<1>4. PICK c \in CacheCopies : /\ c.value = loads[p].value /\ c.why = loads[p].why
                              /\ copyAt' = [copyAt EXCEPT ![p] = c]
  <2>1. /\ Copy(loads[p].value, loads[p].why) \in CacheCopies
        /\ Copy(loads[p].value, loads[p].why).value = loads[p].value
        /\ Copy(loads[p].value, loads[p].why).why = loads[p].why
    BY <1>1, NothingCached
  <2> QED BY <1>1, <2>1
<1>5. /\ copyAt' \in [Processes -> CacheCopies] /\ copyAt'[p] = c
      /\ \A q \in Processes \ {p} : copyAt'[q] = copyAt[q]
  BY <1>1, <1>4
<1>6. Current(c) \/ Written
  BY <1>1, <1>4 DEF CacheInv, CopiesInv, Current, Told
<1>7. CopiesInv'
  BY <1>1, <1>3, <1>5, <1>6 DEF CacheInv, CopiesInv, Current, Told, Written, Clearing
<1> QED BY <1>1, <1>3, <1>5, <1>7 DEF CacheInv, CacheTyped, EditsInv, LostInv, Told, Written, Clearing

LEMMA GivenIs ==
    ASSUME NEW e \in CacheEdits, NEW v \in Config, NEW w \in SUBSET Whys
    PROVE  /\ Given(e, v, w) \in CacheEdits /\ Given(e, v, w).at = "ready"
           /\ Given(e, v, w).current = v /\ Given(e, v, w).why = e.why \cup w
BY DEF Given, CacheEdits

LEMMA LoadEndsKeeps == ASSUME CacheInv, NEW p \in Processes, LoadEnds(p) PROVE CacheInv'
<1>1. /\ loads \in [Processes -> CacheLoads] /\ redis \in CacheCopies /\ counted \in Counters
      /\ edits \subseteq CacheEdits
      /\ loads[p].at = "kept" /\ loads' = [loads EXCEPT ![p] = NoLoad]
      /\ UNCHANGED <<stored, acked, copyAt, lost>>
  BY DEF LoadEnds, CacheInv, CacheTyped
<1>2. PICK v \in Config, w \in SUBSET Whys : v = loads[p].value /\ w = loads[p].why
  BY <1>1 DEF CacheLoads
<1>3. Told(v, w) \/ Written
  BY <1>1, <1>2 DEF CacheInv, CopiesInv
<1>4. /\ redis' = Copy(v, w) \/ redis' = redis
      /\ counted' \in Counters
  BY <1>1, <1>2, CountersCount DEF LoadEnds, Failing
<1>5. /\ loads' \in [Processes -> CacheLoads] /\ loads'[p].at = "none"
      /\ \A q \in Processes \ {p} : loads'[q] = loads[q]
  BY <1>1, NothingCached
<1>6. edits' = {IF e.by = p /\ e.at = "waits" THEN Given(e, v, w) ELSE e : e \in edits}
  BY <1>2 DEF LoadEnds
<1>7. /\ edits' \subseteq CacheEdits
      /\ \A d \in edits' : d \in edits \/ \E e \in edits : e.at = "waits" /\ d = Given(e, v, w)
      /\ \A e \in edits : e.at # "waits" => e \in edits'
  BY <1>1, <1>6, GivenIs
<1>8. Written' = Written /\ Clearing' = Clearing
  BY <1>1, <1>7, GivenIs DEF Written, Clearing
<1>9. redis' \in CacheCopies /\ (Current(redis)' \/ Written \/ Clearing)
  <2>1. Copy(v, w) \in CacheCopies /\ Copy(v, w).value = v /\ Copy(v, w).why = w
    BY NothingCached
  <2> QED BY <1>1, <1>3, <1>4, <2>1 DEF Current, Told, CacheInv, CopiesInv
<1>10. CopiesInv'
  BY <1>1, <1>5, <1>8, <1>9 DEF CacheInv, CopiesInv, Current, Told
<1>11. EditsInv'
  <2> SUFFICES ASSUME NEW d \in edits', d.at \in {"asks", "waits", "ready"}
               PROVE  /\ Written \/ Clearing => d.why # {}
                      /\ d.at = "ready" => Told(d.current, d.why)
    BY <1>1, <1>8 DEF EditsInv, Told
  <2>1. CASE d \in edits
    BY <2>1 DEF CacheInv, EditsInv
  <2>2. ASSUME NEW e \in edits, e.at = "waits", d = Given(e, v, w)
        PROVE  /\ Written \/ Clearing => d.why # {}
               /\ d.at = "ready" => Told(d.current, d.why)
    <3>1. d.current = v /\ d.why = e.why \cup w
      BY <1>1, <2>2, GivenIs
    <3>2. Written \/ Clearing => e.why # {}
      BY <2>2 DEF CacheInv, EditsInv
    <3> QED BY <1>3, <3>1, <3>2 DEF Told
  <2> QED BY <1>7, <2>1, <2>2
<1> QED BY <1>1, <1>4, <1>5, <1>7, <1>9, <1>10, <1>11 DEF CacheInv, CacheTyped, LostInv

LEMMA LoadFailsKeeps == ASSUME CacheInv, NEW p \in Processes, LoadFails(p) PROVE CacheInv'
<1>1. /\ loads \in [Processes -> CacheLoads]
      /\ loads' = [loads EXCEPT ![p] = NoLoad]
      /\ edits' = {e \in edits : ~(e.by = p /\ e.at = "waits")}
      /\ UNCHANGED <<stored, acked, copyAt, redis, lost, counted>>
  BY DEF LoadFails, CacheInv, CacheTyped
<1>2. /\ loads' \in [Processes -> CacheLoads] /\ loads'[p].at = "none"
      /\ \A q \in Processes \ {p} : loads'[q] = loads[q]
  BY <1>1, NothingCached
<1>3. Written' = Written /\ Clearing' = Clearing /\ edits' \subseteq edits
  BY <1>1 DEF Written, Clearing
<1>4. CopiesInv'
  BY <1>1, <1>2, <1>3 DEF CacheInv, CopiesInv, Current, Told
<1> QED BY <1>1, <1>2, <1>3, <1>4 DEF CacheInv, CacheTyped, EditsInv, LostInv, Told

LEMMA ExpiresKeeps == CacheInv /\ Expires => CacheInv'
<1> SUFFICES ASSUME CacheInv, Expires PROVE CacheInv'
  OBVIOUS
<1>1. UNCHANGED <<stored, acked, loads, edits, lost, counted>>
  BY DEF Expires
<1>2. /\ redis' \in {redis, NoCopy} /\ copyAt' \in [Processes -> CacheCopies]
      /\ \A p \in Processes : copyAt'[p] = copyAt[p] \/ copyAt'[p] = NoCopy
  BY NothingCached DEF Expires, CacheInv, CacheTyped
<1>3. CopiesInv'
  BY <1>1, <1>2, NothingCached DEF CacheInv, CopiesInv, Current, Told, Written, Clearing
<1> QED BY <1>1, <1>2, <1>3, NothingCached
        DEF CacheInv, CacheTyped, EditsInv, LostInv, Told, Written, Clearing

(* Updates before they write. *)
LEMMA EditKeeps == ASSUME CacheInv, NEW p \in Processes, NEW f \in Fields, Edit(p, f) PROVE CacheInv'
<1>1. counted \in Counters /\ stored \in Config /\ edits \subseteq CacheEdits
  BY DEF CacheInv, CacheTyped
<1>2. PICK e : /\ e = [id |-> counted.edits + 1, by |-> p, field |-> f, at |-> "asks",
                       current |-> stored, why |-> IF Under = {} THEN {} ELSE {"overlap"}]
               /\ edits' = edits \cup {e}
  BY DEF Edit
<1>3. e \in CacheEdits /\ e.at = "asks" /\ (Written \/ Clearing => e.why # {})
  <2>1. Written \/ Clearing => Under # {}
    BY DEF Written, Clearing, Under
  <2>2. (IF Under = {} THEN {} ELSE {"overlap"}) \in SUBSET Whys
    BY DEF Whys
  <2>3. counted.edits + 1 \in Nat
    BY <1>1 DEF Counters
  <2> QED BY <1>1, <1>2, <2>1, <2>2, <2>3 DEF CacheEdits
<1>4. /\ UNCHANGED <<stored, acked, copyAt, redis, loads, lost>> /\ counted' \in Counters
  BY <1>1, CountersCount DEF Edit
<1>5. Written' = Written /\ Clearing' = Clearing
  BY <1>2, <1>3 DEF Written, Clearing
<1>6. CopiesInv' /\ EditsInv'
  BY <1>2, <1>3, <1>4, <1>5 DEF CacheInv, CopiesInv, EditsInv, Current, Told
<1> QED BY <1>1, <1>2, <1>3, <1>4, <1>6 DEF CacheInv, CacheTyped, LostInv

(* One update is replaced by what it has come to; it has not written. *)
LEMMA TurnsOn ==
    ASSUME CacheInv, NEW e \in edits, e.at \in {"asks", "waits"}, NEW d \in CacheEdits,
           d.at \in {"waits", "ready"}, Turn(e, d), e.why \subseteq d.why,
           d.at = "ready" => Told(d.current, d.why) \/ Written \/ Clearing
    PROVE  /\ edits' \subseteq CacheEdits /\ Written' = Written /\ Clearing' = Clearing
           /\ UNCHANGED stored => EditsInv'
<1>1. edits' = (edits \ {e}) \cup {d} /\ edits \subseteq CacheEdits
  BY DEF Turn, CacheInv, CacheTyped
<1>2. Written' = Written /\ Clearing' = Clearing
  BY <1>1 DEF Written, Clearing
<1>3. Written \/ Clearing => d.why # {}
  BY DEF CacheInv, EditsInv
<1>4. d.at = "ready" => Told(d.current, d.why)
  BY <1>3 DEF Told
<1> QED BY <1>1, <1>2, <1>3, <1>4 DEF CacheInv, EditsInv, Told

LEMMA EditHitsKeeps == ASSUME CacheInv, NEW e \in edits, EditHits(e) PROVE CacheInv'
<1>1. /\ e \in CacheEdits /\ e.by \in Processes /\ e.at = "asks"
      /\ copyAt \in [Processes -> CacheCopies] /\ redis \in CacheCopies
      /\ UNCHANGED <<stored, acked, copyAt, redis, loads, lost, counted>>
  BY DEF EditHits, CacheInv, CacheTyped, CacheEdits
<1>2. PICK c \in CacheCopies : /\ c.is /\ (Current(c) \/ Written \/ Clearing)
                              /\ Turn(e, Given(e, c.value, c.why))
  BY <1>1 DEF EditHits, CacheInv, CopiesInv
<1>3. c.value \in Config /\ c.why \in SUBSET Whys
  BY DEF CacheCopies
<1>4. PICK d \in CacheEdits : /\ d.at = "ready" /\ d.current = c.value /\ d.why = e.why \cup c.why
                            /\ Turn(e, d)
  BY <1>1, <1>2, <1>3, GivenIs
<1>5. Told(d.current, d.why) \/ Written \/ Clearing
  BY <1>2, <1>4 DEF Current, Told
<1>6. edits' \subseteq CacheEdits /\ Written' = Written /\ Clearing' = Clearing /\ EditsInv'
  BY <1>1, <1>4, <1>5, TurnsOn
<1> QED BY <1>1, <1>6 DEF CacheInv, CacheTyped, CopiesInv, LostInv, Current, Told

LEMMA EditMissesKeeps == ASSUME CacheInv, NEW e \in edits, EditMisses(e) PROVE CacheInv'
<1>1. /\ e \in CacheEdits /\ e.by \in Processes /\ e.at = "asks" /\ counted \in Counters
      /\ loads \in [Processes -> CacheLoads]
      /\ UNCHANGED <<stored, acked, copyAt, redis, lost>>
  BY DEF EditMisses, CacheInv, CacheTyped, CacheEdits
<1>2. PICK d \in CacheEdits : d.at = "waits" /\ d.why = e.why /\ Turn(e, d)
  <2>1. /\ [e EXCEPT !.at = "waits"] \in CacheEdits /\ [e EXCEPT !.at = "waits"].at = "waits"
        /\ [e EXCEPT !.at = "waits"].why = e.why
    BY <1>1 DEF CacheEdits
  <2> QED BY <2>1 DEF EditMisses
<1>3. edits' \subseteq CacheEdits /\ Written' = Written /\ Clearing' = Clearing /\ EditsInv'
  BY <1>1, <1>2, TurnsOn
<1>4. counted' \in Counters
  <2>1. PICK a \in {0, 1}, b \in {0, 1} :
             counted' = [counted EXCEPT !.failures = @ + a, !.loads = @ + b]
    BY DEF EditMisses
  <2> QED BY <1>1, <2>1, CountersCount
<1>5. /\ loads' \in [Processes -> CacheLoads]
      /\ \A q \in Processes : loads'[q] = loads[q] \/ loads'[q].at = "asked"
  BY <1>1, NothingCached DEF EditMisses, StartsLoad
<1>6. CopiesInv'
  BY <1>1, <1>3, <1>5 DEF CacheInv, CopiesInv, Current, Told
<1> QED BY <1>1, <1>3, <1>4, <1>5, <1>6 DEF CacheInv, CacheTyped, LostInv

(* The write: everybody else's copies and updates are overtaken, and say so. *)
LEMMA EditWritesKeeps == ASSUME CacheInv, NEW e \in edits, EditWrites(e) PROVE CacheInv'
<1>1. /\ e \in CacheEdits /\ e.at = "ready" /\ e.current \in Config /\ e.field \in Fields
      /\ e.id \in Nat /\ edits \subseteq CacheEdits /\ stored \in Config
      /\ stored' = [e.current EXCEPT ![e.field] = e.id]
      /\ acked' = [acked EXCEPT ![e.field] = e.id]
      /\ UNCHANGED <<copyAt, redis, loads, counted>>
  BY DEF EditWrites, NextConfig, CacheInv, CacheTyped, CacheEdits
<1>2. stored' \in Config
  BY <1>1 DEF Config
<1>3. ASSUME NEW d \in CacheEdits
      PROVE  /\ [d EXCEPT !.why = @ \cup {"overlap"}] \in CacheEdits
             /\ [d EXCEPT !.why = @ \cup {"overlap"}].why # {}
             /\ [d EXCEPT !.at = "written"] \in CacheEdits
             /\ [d EXCEPT !.at = "written"].at = "written"
  BY DEF CacheEdits, Whys
<1>4. edits' = {[d EXCEPT !.why = @ \cup {"overlap"}] : d \in edits \ {e}}
                  \cup {[e EXCEPT !.at = "written"]}
  BY DEF EditWrites
<1>5. /\ edits' \subseteq CacheEdits /\ Written'
      /\ \A d \in edits' : d.why # {} \/ d.at = "written"
  BY <1>1, <1>3, <1>4 DEF Written
<1>6. CopiesInv' /\ EditsInv'
  BY <1>5 DEF CopiesInv, EditsInv, Told
<1>7. Told(e.current, e.why)
  BY <1>1 DEF CacheInv, EditsInv
<1>8. /\ lost \subseteq lost'
      /\ \A l \in lost' : l \in lost \/ (l.why = e.why /\ e.current # stored)
      /\ \A g \in Fields \ {e.field} : stored[g] # e.current[g] => lost' # {}
  <2>1. lost' = lost \cup {[edit |-> stored[f], why |-> e.why] :
                              f \in {g \in Fields \ {e.field} : stored[g] # e.current[g]}}
    BY DEF EditWrites
  <2>2. ASSUME NEW l \in lost', l \notin lost PROVE l.why = e.why /\ e.current # stored
    <3>1. PICK g \in Fields : stored[g] # e.current[g] /\ l = [edit |-> stored[g], why |-> e.why]
      BY <2>1, <2>2
    <3> QED BY <3>1
  <2>3. ASSUME NEW g \in Fields \ {e.field}, stored[g] # e.current[g] PROVE lost' # {}
    <3>1. [edit |-> stored[g], why |-> e.why] \in lost'
      BY <2>1, <2>3
    <3> QED BY <3>1
  <2> QED BY <2>1, <2>2, <2>3
<1>9. \A l \in lost' : l.why # {}
  BY <1>7, <1>8 DEF Told, CacheInv, LostInv
<1>10. ASSUME lost' = {} PROVE stored' = acked'
  <2>1. stored = acked /\ \A g \in Fields \ {e.field} : stored[g] = e.current[g]
    BY <1>8, <1>10 DEF CacheInv, LostInv
  <2>2. /\ stored' \in [Fields -> Nat] /\ acked' \in [Fields -> Nat]
        /\ \A g \in Fields : stored'[g] = acked'[g]
    BY <1>1, <1>2, <2>1 DEF Config
  <2> QED BY <2>2
<1> QED BY <1>1, <1>2, <1>5, <1>6, <1>9, <1>10 DEF CacheInv, CacheTyped, LostInv

(* What has been read before a clearing is marked. *)
LEMMA MarkIs ==
    /\ \A l \in CacheLoads : /\ Raced(l) \in CacheLoads /\ Raced(l).at = l.at
                             /\ l.at \in {"read", "kept"} => Raced(l).why # {}
    /\ \A c \in CacheCopies, w \in Whys :
          /\ Also(c, w) \in CacheCopies
          /\ Also(c, w).is => Also(c, w).why # {}
<1>1. ASSUME NEW l \in CacheLoads
      PROVE  /\ [l EXCEPT !.why = @ \cup {"raced"}] \in CacheLoads
             /\ [l EXCEPT !.why = @ \cup {"raced"}].at = l.at
             /\ [l EXCEPT !.why = @ \cup {"raced"}].why # {}
  BY DEF CacheLoads, Whys
<1>2. ASSUME NEW c \in CacheCopies, NEW w \in Whys
      PROVE  [c EXCEPT !.why = @ \cup {w}] \in CacheCopies /\ [c EXCEPT !.why = @ \cup {w}].why # {}
  BY DEF CacheCopies
<1>3. ASSUME NEW c \in CacheCopies, NEW w \in Whys
      PROVE  /\ Also(c, w) \in CacheCopies
             /\ Also(c, w).is => Also(c, w).why # {}
  <2>1. CASE c.is
    BY <1>2, <2>1 DEF Also
  <2>2. CASE ~c.is
    BY <2>2 DEF Also
  <2> QED BY <2>1, <2>2
<1>4. ASSUME NEW l \in CacheLoads
      PROVE  /\ Raced(l) \in CacheLoads /\ Raced(l).at = l.at
             /\ l.at \in {"read", "kept"} => Raced(l).why # {}
  BY <1>1, <1>4 DEF Raced
<1> QED BY <1>3, <1>4

LEMMA ClearsMemoryKeeps == ASSUME CacheInv, NEW e \in edits, ClearsMemory(e) PROVE CacheInv'
<1>1. /\ e \in CacheEdits /\ e.at = "written" /\ edits \subseteq CacheEdits
      /\ copyAt \in [Processes -> CacheCopies] /\ loads \in [Processes -> CacheLoads]
      /\ copyAt' = [q \in Processes |-> IF q = e.by THEN NoCopy ELSE Also(copyAt[q], "elsewhere")]
      /\ loads' = [p \in Processes |-> Raced(loads[p])]
      /\ UNCHANGED <<stored, acked, redis, lost, counted>>
  BY DEF ClearsMemory, Forgotten, CacheInv, CacheTyped
<1>2. PICK d \in CacheEdits : d.at = "cleared" /\ edits' = (edits \ {e}) \cup {d}
  <2>1. [e EXCEPT !.at = "cleared"] \in CacheEdits /\ [e EXCEPT !.at = "cleared"].at = "cleared"
    BY <1>1 DEF CacheEdits
  <2> QED BY <2>1 DEF ClearsMemory, Turn
<1>3. "elsewhere" \in Whys
  BY DEF Whys
<1>4. /\ copyAt' \in [Processes -> CacheCopies]
      /\ \A p \in Processes : copyAt'[p].is => copyAt'[p].why # {}
  <2>1. ASSUME NEW p \in Processes
        PROVE  /\ copyAt'[p] \in CacheCopies
               /\ copyAt'[p].is => copyAt'[p].why # {}
    <3>1. CASE p = e.by
      <4>1. copyAt'[p] = NoCopy
        BY <1>1, <3>1
      <4> QED BY <4>1, NothingCached
    <3>2. CASE p # e.by
      <4>1. copyAt'[p] = Also(copyAt[p], "elsewhere") /\ copyAt[p] \in CacheCopies
        BY <1>1, <3>2
      <4> QED BY <1>3, <4>1, MarkIs
    <3> QED BY <3>1, <3>2
  <2>2. copyAt' = [q \in Processes |-> copyAt'[q]]
    BY <1>1
  <2> QED BY <2>1, <2>2
<1>5. /\ loads' \in [Processes -> CacheLoads]
      /\ \A p \in Processes : loads'[p].at \in {"read", "kept"} => loads'[p].why # {}
  BY <1>1, MarkIs
<1>6. Clearing' /\ (Written \/ Clearing)
  BY <1>1, <1>2 DEF Clearing, Written
<1>7. CopiesInv'
  BY <1>4, <1>5, <1>6 DEF CopiesInv, Current, Told
<1>8. EditsInv'
  BY <1>1, <1>2, <1>6 DEF CacheInv, EditsInv, Told
<1> QED BY <1>1, <1>2, <1>4, <1>5, <1>7, <1>8 DEF CacheInv, CacheTyped, LostInv

LEMMA ClearsRedisKeeps == ASSUME CacheInv, NEW e \in edits, ClearsRedis(e) PROVE CacheInv'
<1>1. /\ e.at = "cleared" /\ edits \subseteq CacheEdits /\ redis \in CacheCopies
      /\ loads \in [Processes -> CacheLoads] /\ counted \in Counters
      /\ loads' = [p \in Processes |-> Raced(loads[p])] /\ edits' = edits \ {e}
      /\ UNCHANGED <<stored, acked, copyAt, lost>>
  BY DEF ClearsRedis, CacheInv, CacheTyped
<1>2. "failed" \in Whys
  BY DEF Whys
<1>3. redis' \in CacheCopies /\ (redis'.is => redis'.why # {})
  <2>1. redis' = NoCopy \/ redis' = Also(redis, "failed")
    BY DEF ClearsRedis
  <2>2. CASE redis' = NoCopy
    BY <2>2, NothingCached
  <2>3. CASE redis' = Also(redis, "failed")
    BY <1>1, <1>2, <2>3, MarkIs
  <2> QED BY <2>1, <2>2, <2>3
<1>4. counted' \in Counters
  BY <1>1, CountersCount DEF ClearsRedis, Failing
<1>5. /\ loads' \in [Processes -> CacheLoads]
      /\ \A p \in Processes : /\ loads'[p].at = loads[p].at
                              /\ loads'[p].at \in {"read", "kept"} => loads'[p].why # {}
  BY <1>1, MarkIs
<1>6. Written' = Written /\ (Clearing' => Clearing)
  BY <1>1 DEF Written, Clearing
<1>7. CopiesInv'
  BY <1>1, <1>3, <1>5, <1>6 DEF CacheInv, CopiesInv, Current, Told
<1>8. EditsInv'
  BY <1>1, <1>6 DEF CacheInv, EditsInv, Told
<1> QED BY <1>1, <1>3, <1>4, <1>5, <1>7, <1>8 DEF CacheInv, CacheTyped, LostInv

(* However reads, loads, updates, clearings and failures of Redis overlap, in any number of
   processes: an old copy and a lost update have one of the named reasons
   (getOrPopulateJson, invalidateCacheKeys, updateMerchantConfig). *)
THEOREM CopiesStayExcused == CacheSpec => []CopiesAreExcused
<1>1. ASSUME CacheInv, CacheNext PROVE CacheInv'
  <2>1. ASSUME NEW p \in Processes,
               \/ Reads(p) \/ LoadReads(p) \/ LoadKeeps(p) \/ LoadEnds(p) \/ LoadFails(p)
               \/ \E f \in Fields : Edit(p, f)
        PROVE  CacheInv'
    BY <1>1, <2>1, ReadsKeeps, LoadReadsKeeps, LoadKeepsKeeps, LoadEndsKeeps, LoadFailsKeeps,
       EditKeeps
  <2>2. ASSUME NEW e \in edits,
               \/ EditHits(e) \/ EditMisses(e) \/ EditWrites(e)
               \/ ClearsMemory(e) \/ ClearsRedis(e)
        PROVE  CacheInv'
    BY <1>1, <2>2, EditHitsKeeps, EditMissesKeeps, EditWritesKeeps, ClearsMemoryKeeps,
       ClearsRedisKeeps
  <2> QED BY <1>1, <2>1, <2>2, ExpiresKeeps DEF CacheNext
<1>2. CacheInv /\ UNCHANGED cacheVars => CacheInv'
  BY DEF CacheInv, CacheTyped, CopiesInv, EditsInv, LostInv, Current, Told, Written, Clearing,
         cacheVars
<1>3. CacheInv => CopiesAreExcused
  BY DEF CacheInv, CopiesInv, LostInv, Written, Clearing, CopiesAreExcused
<1> QED BY <1>1, <1>2, <1>3, CacheStarts, PTL DEF CacheSpec

-----------------------------------------------------------------------------
(* The process. *)

Runners == {"timer", "queue", "stream"}
Letters == [job : BackgroundJobs, attempts : Nat, letter : {"due", "there", "failed", "closed"}]

LifeTyped ==
    /\ at \in Starting \cup {"up"} \cup Stopping \cup Ended
    /\ run \in [BackgroundJobs -> Runners \cup {"no"}]
    /\ queue \in [BackgroundJobs -> Nat] /\ \A j \in BackgroundJobs : queue[j] < Attempts
    /\ requests \in Nat /\ dead \subseteq Letters

(* What is under way needs its part, until the end; and the shutdown takes a part down when
   nothing needs it any more. *)
PartsInv ==
    /\ \A j \in BackgroundJobs : run[j] = "queue" => "queues" \in parts \/ at \in Ended
    /\ requests > 0 => "http" \in parts \/ at \in Ended
    /\ at \in {"close sockets", "close http", "close database"} => "queues" \notin parts
    /\ at = "close database" => "http" \notin parts
    /\ at \in Ended \cup {"boot"} => parts = {}

CutInv ==
    /\ at \notin Ended => cut = {}
    /\ at \in {"exit 0", "exit 1"} =>
          \/ \E c \in cut : c.what = "forced"
          \/ \A c \in cut : c.what \in NotWaitedFor

DeadInv ==
    /\ dead # {} => "queues" \in parts \/ at \in Stopping \cup Ended
    /\ \A d \in dead : /\ d.attempts = Attempts
                       /\ d.letter = "closed" => at \in Stopping \cup Ended

LifeInv == LifeTyped /\ PartsInv /\ CutInv /\ DeadInv

LEMMA LifeStarts == Attempts \in Nat \ {0} /\ LifeInit => LifeInv
BY DEF LifeInit, LifeInv, LifeTyped, PartsInv, CutInv, DeadInv, Starting, Stopping, Ended, Runners,
       NoPart

(* The start: nothing is under way before it. *)
LEMMA StartKeeps == LifeInv /\ (ConnectServices \/ StartJobs \/ Listen) => LifeInv'
<1> SUFFICES ASSUME LifeInv, ConnectServices \/ StartJobs \/ Listen PROVE LifeInv'
  OBVIOUS
<1>1. /\ at \in Starting /\ at' \in {"jobs", "up"} /\ UNCHANGED <<run, queue, dead, requests, cut>>
      /\ parts \subseteq parts'
  BY DEF ConnectServices, StartJobs, Listen, Starting, LifeInv, PartsInv
<1>2. at \notin Stopping \cup Ended /\ at' \notin Stopping \cup Ended
      /\ at' \in Starting \cup {"up"} /\ at' # "boot"
  BY <1>1 DEF Starting, Stopping, Ended
<1>3. LifeTyped'
  BY <1>1, <1>2 DEF LifeInv, LifeTyped
<1>4. PartsInv' /\ CutInv' /\ DeadInv'
  BY <1>1, <1>2 DEF LifeInv, PartsInv, CutInv, DeadInv, Stopping, Ended
<1> QED BY <1>3, <1>4 DEF LifeInv

(* Work that begins, goes on or ends while the process is where it is. *)
LEMMA WorkKeeps ==
    ASSUME LifeInv, UNCHANGED <<at, parts, cut>>, LifeTyped',
           \A j \in BackgroundJobs : run'[j] = "queue" => run[j] = "queue" \/ "queues" \in parts,
           requests' > 0 => requests > 0 \/ "http" \in parts,
           DeadInv'
    PROVE  LifeInv'
<1>1. CutInv'
  BY DEF LifeInv, CutInv
<1>2. PartsInv'
  BY DEF LifeInv, PartsInv
<1> QED BY <1>1, <1>2 DEF LifeInv

LEMMA RunTurns ==
    ASSUME LifeInv, NEW j \in BackgroundJobs, NEW k,
           NEW r \in Runners \cup {"no"}, r # "queue",
           run' = [run EXCEPT ![j] = "no"] \/ run' = [run EXCEPT ![j] = r]
              \/ run' = [run EXCEPT ![j] = "no", ![k] = r]
    PROVE  /\ run' \in [BackgroundJobs -> Runners \cup {"no"}]
           /\ \A i \in BackgroundJobs : run'[i] = "queue" => run[i] = "queue"
BY DEF LifeInv, LifeTyped, Runners

LEMMA FiresKeep ==
    ASSUME LifeInv, NEW j \in BackgroundJobs, TimerFires(j) \/ QueueFires(j) \/ StreamEvent,
           First \in BackgroundJobs, Attempts \in Nat \ {0}
    PROVE  LifeInv'
<1>1. /\ UNCHANGED <<at, parts, dead, requests, cut>>
      /\ queue' = queue \/ queue' = [queue EXCEPT ![j] = 0]
  BY DEF TimerFires, QueueFires, StreamEvent
<1>2. /\ run' \in [BackgroundJobs -> Runners \cup {"no"}]
      /\ \A i \in BackgroundJobs : run'[i] = "queue" => run[i] = "queue" \/ "queues" \in parts
  BY DEF TimerFires, QueueFires, StreamEvent, Begins, LifeInv, LifeTyped, Runners
<1>3. LifeTyped'
  BY <1>1, <1>2 DEF LifeInv, LifeTyped
<1>4. DeadInv'
  BY <1>1 DEF LifeInv, DeadInv
<1> QED BY <1>1, <1>2, <1>3, <1>4, WorkKeeps

LEMMA SucceedsKeeps ==
    ASSUME LifeInv, NEW j \in BackgroundJobs, RunSucceeds(j), Attempts \in Nat \ {0}
    PROVE  LifeInv'
<1>1. /\ UNCHANGED <<at, parts, dead, requests, cut>>
      /\ queue' = queue \/ queue' = [queue EXCEPT ![j] = 0]
      /\ run' = [run EXCEPT ![j] = "no"] \/ run' = [run EXCEPT ![j] = "no", ![Second] = "stream"]
  BY DEF RunSucceeds
<1>2. "stream" \in Runners
  BY DEF Runners
<1>3. /\ run' \in [BackgroundJobs -> Runners \cup {"no"}]
      /\ \A i \in BackgroundJobs : run'[i] = "queue" => run[i] = "queue"
  BY <1>1, <1>2, RunTurns
<1>4. LifeTyped'
  BY <1>1, <1>3 DEF LifeInv, LifeTyped
<1>5. DeadInv'
  BY <1>1 DEF LifeInv, DeadInv
<1> QED BY <1>1, <1>3, <1>4, <1>5, WorkKeeps

LEMMA FailsKeeps ==
    ASSUME LifeInv, NEW j \in BackgroundJobs, RunFails(j), Attempts \in Nat \ {0}
    PROVE  LifeInv'
<1>1. /\ UNCHANGED <<at, parts, requests, cut>> /\ at \notin Ended /\ queue[j] \in Nat
      /\ run' = [run EXCEPT ![j] = "no"] \/ run' = [run EXCEPT ![j] = "no", ![Second] = "stream"]
  BY DEF RunFails, Alive, LifeInv, LifeTyped
<1>2. "stream" \in Runners
  BY DEF Runners
<1>3. /\ run' \in [BackgroundJobs -> Runners \cup {"no"}]
      /\ \A i \in BackgroundJobs : run'[i] = "queue" => run[i] = "queue"
  BY <1>1, <1>2, RunTurns
<1>4. CASE UNCHANGED <<queue, dead>>
  BY <1>1, <1>3, <1>4, WorkKeeps DEF LifeInv, LifeTyped, DeadInv
<1>5. CASE run[j] = "queue" /\ LastAttempt(j)
  <2>1. /\ dead' = dead \cup {[job |-> j, attempts |-> queue[j] + 1, letter |-> "due"]}
        /\ queue' = [queue EXCEPT ![j] = 0]
    BY <1>5 DEF RunFails
  <2>2. queue[j] + 1 = Attempts
    BY <1>1, <1>5 DEF LastAttempt, LifeInv, LifeTyped
  <2>3. PICK d \in Letters : /\ d.attempts = Attempts /\ d.letter = "due"
                             /\ dead' = dead \cup {d}
    <3>1. [job |-> j, attempts |-> queue[j] + 1, letter |-> "due"] \in Letters
      BY <1>1 DEF Letters
    <3> QED BY <2>1, <2>2, <3>1
  <2>4. "queues" \in parts
    BY <1>1, <1>5 DEF LifeInv, PartsInv
  <2>5. LifeTyped'
    BY <1>1, <1>3, <2>1, <2>3 DEF LifeInv, LifeTyped
  <2>6. DeadInv'
    BY <1>1, <2>3, <2>4 DEF LifeInv, DeadInv
  <2> QED BY <1>1, <1>3, <2>5, <2>6, WorkKeeps
<1>6. CASE run[j] = "queue" /\ ~LastAttempt(j)
  <2>1. queue' = [queue EXCEPT ![j] = queue[j] + 1] /\ dead' = dead
    BY <1>6 DEF RunFails
  <2>2. queue[j] + 1 < Attempts
    BY <1>1, <1>6 DEF LastAttempt
  <2>3. LifeTyped'
    BY <1>1, <1>3, <2>1, <2>2 DEF LifeInv, LifeTyped
  <2>4. DeadInv'
    BY <1>1, <2>1 DEF LifeInv, DeadInv
  <2> QED BY <1>1, <1>3, <2>3, <2>4, WorkKeeps
<1> QED BY <1>4, <1>5, <1>6 DEF RunFails

LEMMA LetterKeeps == ASSUME LifeInv, NEW d \in dead, Letter(d) PROVE LifeInv'
<1>1. d \in Letters /\ dead \subseteq Letters /\ UNCHANGED <<at, parts, run, queue, requests, cut>>
  BY DEF Letter, LifeInv, LifeTyped
<1>2. PICK l \in {"there", "failed", "closed"} :
         /\ dead' = (dead \ {d}) \cup {[d EXCEPT !.letter = l]}
         /\ l = "closed" => "queues" \notin parts
  BY DEF Letter
<1>3. PICK n \in Letters : /\ n.attempts = d.attempts /\ n.letter = l
                          /\ dead' = (dead \ {d}) \cup {n}
  <2>1. /\ [d EXCEPT !.letter = l] \in Letters /\ [d EXCEPT !.letter = l].letter = l
        /\ [d EXCEPT !.letter = l].attempts = d.attempts
    BY <1>1 DEF Letters
  <2> QED BY <1>2, <2>1
<1>4. LifeTyped'
  BY <1>1, <1>3 DEF LifeInv, LifeTyped
<1>5. DeadInv'
  BY <1>1, <1>2, <1>3 DEF LifeInv, DeadInv
<1> QED BY <1>1, <1>4, <1>5, WorkKeeps

LEMMA RequestsKeep == LifeInv /\ (Request \/ Answer \/ SocketEvent \/ HangsUp \/ HandlerEnds) => LifeInv'
<1> SUFFICES ASSUME LifeInv, Request \/ Answer \/ SocketEvent \/ HangsUp \/ HandlerEnds PROVE LifeInv'
  OBVIOUS
<1>1. /\ UNCHANGED <<at, parts, run, queue, dead, cut>> /\ requests \in Nat
      /\ requests' \in Nat /\ (requests' > 0 => requests > 0 \/ "http" \in parts)
  <2>1. requests \in Nat
    BY DEF LifeInv, LifeTyped
  <2>2. CASE Request
    <3>1. requests' = requests + 1 /\ "http" \in parts /\ UNCHANGED <<at, parts, run, queue, dead, cut>>
      BY <2>2 DEF Request, Listens
    <3> QED BY <2>1, <3>1
  <2>3. CASE Answer \/ HangsUp
    BY <2>1, <2>3 DEF Answer, HangsUp
  <2>4. CASE SocketEvent \/ HandlerEnds
    BY <2>1, <2>4 DEF SocketEvent, HandlerEnds
  <2> QED BY <2>2, <2>3, <2>4
<1>2. LifeTyped' /\ DeadInv'
  BY <1>1 DEF LifeInv, LifeTyped, DeadInv
<1> QED BY <1>1, <1>2, WorkKeeps

(* What is cut short at the end, when nothing of a queue and no request is under way. *)
LEMMA OnlyTimersAreCut ==
    ASSUME LifeInv, cut = {}, requests = 0, \A j \in BackgroundJobs : run[j] # "queue"
    PROVE  \A c \in cut \cup Working : c.what \in NotWaitedFor
<1>1. Working \subseteq {[what |-> run[j], job |-> j] : j \in {k \in BackgroundJobs : run[k] # "no"}}
                     \cup {[what |-> "handler", job |-> "none"]}
  BY DEF Working
<1> QED BY <1>1 DEF LifeInv, LifeTyped, Runners, NotWaitedFor

LEMMA StopsKeep ==
    LifeInv /\ (Shutdown \/ StopTimers \/ StopStream \/ StopQueues \/ CloseSockets \/ CloseHttp)
        => LifeInv'
<1> SUFFICES ASSUME LifeInv, Shutdown \/ StopTimers \/ StopStream \/ StopQueues
                             \/ CloseSockets \/ CloseHttp
             PROVE  LifeInv'
  OBVIOUS
<1>1. /\ UNCHANGED <<run, queue, dead, requests, cut>> /\ at' \in Stopping /\ at \in Stopping \cup {"up"}
  BY DEF Shutdown, StopTimers, StopStream, StopQueues, CloseSockets, CloseHttp, Goes, Stopping
<1>2. at \notin Ended /\ at' \notin Ended \cup {"boot"}
  BY <1>1 DEF Stopping, Ended
<1>3. LifeTyped' /\ CutInv' /\ DeadInv'
  BY <1>1, <1>2 DEF LifeInv, LifeTyped, CutInv, DeadInv, Ended
<1>4. PartsInv'
  <2>1. \A j \in BackgroundJobs : run[j] = "queue" => "queues" \in parts'
    BY <1>2 DEF LifeInv, PartsInv, Shutdown, StopTimers, StopStream, StopQueues, QueuesQuiet,
                CloseSockets, CloseHttp, Goes
  <2>2. requests > 0 => "http" \in parts'
    <3>1. parts' = parts \/ "http" \in parts' \/ requests = 0 \/ parts \ parts' \subseteq {"timers", "stream", "queues"}
      BY DEF Shutdown, StopTimers, StopStream, StopQueues, CloseSockets, CloseHttp, Goes
    <3>2. requests > 0 => "http" \in parts
      BY <1>2 DEF LifeInv, PartsInv
    <3> QED BY <3>1, <3>2
  <2>3. /\ at' \in {"close sockets", "close http", "close database"} => "queues" \notin parts'
        /\ at' = "close database" => "http" \notin parts'
    BY DEF LifeInv, PartsInv, Shutdown, StopTimers, StopStream, StopQueues,
           CloseSockets, CloseHttp, Goes
  <2> QED BY <1>1, <1>2, <2>1, <2>2, <2>3 DEF PartsInv
<1> QED BY <1>3, <1>4 DEF LifeInv

LEMMA EndsKeep ==
    LifeInv /\ (Kill \/ CloseHttpFails \/ CloseDatabase \/ StepFails) => LifeInv'
<1> SUFFICES ASSUME LifeInv, Kill \/ CloseHttpFails \/ CloseDatabase \/ StepFails PROVE LifeInv'
  OBVIOUS
<1>1. /\ UNCHANGED <<run, queue, dead, requests>> /\ at' \in Ended /\ at \notin Ended /\ parts' = {}
  BY DEF Kill, CloseHttpFails, CloseDatabase, StepFails, Goes, Starting, Stopping, Ended, NoPart
<1>2. at' \notin {"close sockets", "close http", "close database"}
  BY <1>1 DEF Ended
<1>3. LifeTyped' /\ PartsInv' /\ DeadInv'
  BY <1>1, <1>2 DEF LifeInv, LifeTyped, PartsInv, DeadInv
<1>4. cut = {}
  BY <1>1 DEF LifeInv, CutInv
<1>5. CASE Kill
  BY <1>1, <1>3, <1>5 DEF Kill, LifeInv, CutInv
<1>6. CASE StepFails
  <2>1. [what |-> "forced", job |-> "none"] \in cut'
    BY <1>6 DEF StepFails
  <2>2. \E c \in cut' : c.what = "forced"
    BY <2>1
  <2> QED BY <1>1, <1>3, <2>2 DEF LifeInv, CutInv
<1>7. CASE CloseHttpFails \/ CloseDatabase
  <2>1. /\ at \in {"close http", "close database"} /\ cut' = cut \cup Working
        /\ "http" \notin parts
    BY <1>7 DEF CloseHttpFails, CloseDatabase, Goes, LifeInv, PartsInv
  <2>2. requests = 0 /\ \A j \in BackgroundJobs : run[j] # "queue"
    <3>1. requests \in Nat /\ ~(requests > 0)
      BY <1>1, <2>1 DEF LifeInv, LifeTyped, PartsInv
    <3>2. \A j \in BackgroundJobs : run[j] # "queue"
      BY <1>1, <2>1 DEF LifeInv, PartsInv
    <3> QED BY <3>1, <3>2
  <2>3. \A c \in cut' : c.what \in NotWaitedFor
    BY <1>4, <2>1, <2>2, OnlyTimersAreCut
  <2> QED BY <1>1, <1>3, <2>3 DEF LifeInv, CutInv
<1> QED BY <1>5, <1>6, <1>7

(* With any jobs, runs, requests, handlers and faults: an unforced shutdown cuts short only
   what it does not wait for, never a queued job nor a request whose client waits; and no job fails its last attempt without a letter that is there, due,
   or for a reason not (server.ts, createJobRunner, BullMQ's failed handler). *)
THEOREM ShutdownStaysOrderly ==
    ASSUME Attempts \in Nat \ {0}, First \in BackgroundJobs
    PROVE  LifeSpec => []ShutdownIsOrderly
<1>1. ASSUME LifeInv, LifeNext PROVE LifeInv'
  <2>1. ASSUME NEW j \in BackgroundJobs,
               TimerFires(j) \/ QueueFires(j) \/ RunSucceeds(j) \/ RunFails(j)
        PROVE  LifeInv'
    BY <1>1, <2>1, FiresKeep, SucceedsKeeps, FailsKeeps
  <2>2. ASSUME NEW d \in dead, Letter(d) PROVE LifeInv'
    BY <1>1, <2>2, LetterKeeps
  <2>3. CASE StreamEvent
    BY <1>1, <2>3, FiresKeep
  <2> QED BY <1>1, <2>1, <2>2, <2>3, StartKeeps, RequestsKeep, StopsKeep, EndsKeep DEF LifeNext
<1>2. LifeInv /\ UNCHANGED lifeVars => LifeInv'
  BY DEF LifeInv, LifeTyped, PartsInv, CutInv, DeadInv, lifeVars
<1>3. LifeInv => ShutdownIsOrderly
  BY DEF LifeInv, CutInv, DeadInv, ShutdownIsOrderly
<1> QED BY <1>1, <1>2, <1>3, LifeStarts, PTL DEF LifeSpec

-----------------------------------------------------------------------------
(* The ratings of decided matches. *)

Outcomes == {"player1_win", "player2_win", "draw", "no_contest"}
EventsOf(m) == [of : {m}, outcome : Outcomes, applied : BOOLEAN,
                before : [PairOf(m) -> Int], after : [PairOf(m) -> Int]]
RatedEvents == UNION {EventsOf(m) : m \in Matches}
RatingSteps == {"open", "rated", "kept", "half", "settles", "done"}
RatingTxs == [at : RatingSteps, version : [Players -> Nat],
              event : {<<>>} \cup RatedEvents, wrote : SUBSET (Players \cup {"event"})]

RatingTyped ==
    /\ elo \in [Players -> Int] /\ version \in [Players -> Nat]
    /\ events \in Seq(RatedEvents) /\ tx \in [Matches -> RatingTxs]
    /\ lostCalls \subseteq Matches

Rating(m) == tx[m].at \in {"rated", "kept", "half", "settles"}

(* The matches whose failed rating has been committed, and the players they touched. *)
Failed == {m \in lostCalls : tx[m].at = "done"}
Spoilt(p) == \E m \in Failed : p \in PairOf(m)

EventFits(m) ==
    LET e == tx[m].event
    IN  /\ e \in EventsOf(m)
        /\ \A p \in PairOf(m) : Floor(e.after[p]) = e.after[p]
        /\ e.applied => e.outcome # "no_contest"

(* What a transaction has written by its step; only one whose call was lost settles
   without having written both players. *)
HasWritten(m) ==
    CASE tx[m].at \in {"open", "rated", "done"} -> tx[m].wrote = {}
      [] tx[m].at = "kept" -> tx[m].wrote = {"event"} /\ tx[m].event.outcome # "no_contest"
      [] tx[m].at = "half" -> /\ tx[m].wrote = {"event", FirstPlayer[m]}
                              /\ tx[m].event.outcome # "no_contest"
      [] tx[m].at = "settles" ->
            \/ m \in lostCalls /\ tx[m].wrote \subseteq {"event", FirstPlayer[m]}
            \/ tx[m].event.outcome = "no_contest" /\ tx[m].wrote = {"event"}
            \/ /\ tx[m].event.outcome # "no_contest"
               /\ tx[m].wrote = {"event", FirstPlayer[m], SecondPlayer[m]}

TxInv == \A m \in Matches :
    /\ Rating(m) => EventFits(m)
    /\ HasWritten(m)
    /\ m \in lostCalls => tx[m].at \in {"settles", "done"}

(* Who has written a player's document keeps it as it was in his snapshot. *)
HeldInv ==
    /\ \A m \in Matches : \A p \in Players :
          /\ tx[m].version[p] <= version[p]
          /\ p \in tx[m].wrote => tx[m].version[p] = version[p]
    /\ \A m, o \in Matches : \A p \in Players :
          p \in tx[m].wrote /\ p \in tx[o].wrote => m = o

(* A snapshot that is not outdated holds the rating and, for players without a failed
   rating, the number of the pair's matches. *)
SnapshotInv == \A m \in Matches : Rating(m) =>
    /\ \A p \in PairOf(m) : tx[m].version[p] = version[p] => elo[p] = tx[m].event.before[p]
    /\ /\ tx[m].event.applied /\ tx[m].version[FirstPlayer[m]] = version[FirstPlayer[m]]
       /\ \A p \in PairOf(m) : ~Spoilt(p)
       => Cardinality(PairEvents(PairOf(m))) < HalfLimit

Earlier(p, i) == {j \in Of(p) : j < i}
LeftIn(evs, s, p) == IF s = {} THEN StartingRating ELSE evs[LastOf(s)].after[p]
LeftBy(s, p) == LeftIn(events, s, p)

ChainInv == \A p \in Players : ~Spoilt(p) =>
    /\ elo[p] = LeftBy(Of(p), p)
    /\ \A i \in Of(p) : events[i].before[p] = LeftBy(Earlier(p, i), p)

CapInv == \A m \in Matches : (\A p \in PairOf(m) : ~Spoilt(p)) =>
              Cardinality(PairEvents(PairOf(m))) <= HalfLimit

RatingInv == RatingTyped /\ TxInv /\ HeldInv /\ SnapshotInv /\ ChainInv /\ CapInv

(* Two players are named for each match, and the limits are in order, as are those of
   RATING_SYSTEM. *)
RatingLimits ==
    /\ FirstPlayer \in [Matches -> Players] /\ SecondPlayer \in [Matches -> Players]
    /\ "event" \notin Players
    /\ K \in Nat /\ StartingRating \in Int /\ MinimumRating \in Int
    /\ HalfLimit \in Nat /\ FullLimit \in Nat /\ FullLimit <= HalfLimit

LEMMA LastIs ==
    ASSUME NEW n \in Nat, NEW s \in SUBSET (1..n), s # {}
    PROVE  LastOf(s) \in s /\ \A j \in s : j <= LastOf(s)
<1> DEFINE T == {n - i : i \in s}
<1>1. T \in SUBSET Nat /\ T # {}
  <2>1. \A i \in s : n - i \in Nat
    OBVIOUS
  <2> QED BY <2>1
<1>2. PICK d \in T : \A e \in T : d <= e
  <2> HIDE DEF T
  <2> QED BY <1>1, Least
<1>3. PICK i \in s : d = n - i
  BY <1>2
<1>4. \A j \in s : j <= i
  <2> SUFFICES ASSUME NEW j \in s PROVE j <= i
    OBVIOUS
  <2>1. n - j \in T
    OBVIOUS
  <2>2. d <= n - j
    BY <1>2, <2>1
  <2> QED BY <1>3, <2>2
<1> QED BY <1>3, <1>4 DEF LastOf

LEMMA LastNew ==
    ASSUME NEW n \in Nat, NEW s \in SUBSET (1..n)
    PROVE  LastOf(s \cup {n + 1}) = n + 1
<1>1. s \cup {n + 1} \in SUBSET (1..(n + 1)) /\ s \cup {n + 1} # {} /\ n + 1 \in Nat
  OBVIOUS
<1>2. LastOf(s \cup {n + 1}) \in s \cup {n + 1} /\ \A j \in s \cup {n + 1} : j <= LastOf(s \cup {n + 1})
  BY <1>1, LastIs
<1> DEFINE L == LastOf(s \cup {n + 1})
<1>3. L \in s \cup {n + 1} /\ n + 1 <= L
  BY <1>2
<1>4. \A j \in s : j \in Int /\ ~(n + 1 <= j)
  OBVIOUS
<1>5. L = n + 1
  <2> HIDE DEF L
  <2> QED BY <1>3, <1>4
<1> QED BY <1>5

LEMMA FloorIs == ASSUME MinimumRating \in Int, NEW r \in Int
                 PROVE  Floor(r) \in Int /\ Floor(Floor(r)) = Floor(r)
BY DEF Floor

LEMMA RatingStarts == RatingLimits /\ RatingInit => RatingInv
<1> SUFFICES ASSUME RatingLimits, RatingInit PROVE RatingInv
  OBVIOUS
<1>1. Idle \in RatingTxs /\ Idle.at = "open" /\ Idle.wrote = {} /\ \A p \in Players : Idle.version[p] = 0
  BY DEF Idle, RatingTxs, RatingSteps
<1>2. RatingTyped
  BY <1>1 DEF RatingInit, RatingLimits, RatingTyped
<1>3. Failed = {} /\ events = <<>> /\ \A m \in Matches : tx[m] = Idle
  BY DEF RatingInit, Failed
<1>4. \A p : Of(p) = {}
  BY <1>3 DEF Of
<1>5. \A s : PairEvents(s) = {}
  BY <1>3 DEF PairEvents
<1>6. Cardinality({}) = 0
  BY FS_EmptySet
<1>7. TxInv /\ SnapshotInv
  BY <1>1, <1>3 DEF TxInv, SnapshotInv, Rating, HasWritten, RatingInit
<1>8. HeldInv
  BY <1>1, <1>3 DEF HeldInv, RatingInit
<1>9. ChainInv
  BY <1>4 DEF ChainInv, LeftBy, LeftIn, RatingInit
<1>10. CapInv
  BY <1>5, <1>6 DEF CapInv, RatingLimits
<1> QED BY <1>2, <1>7, <1>8, <1>9, <1>10 DEF RatingInv


LEMMA EventIs ==
    ASSUME NEW m \in Matches, NEW e \in EventsOf(m)
    PROVE  /\ e \in RatedEvents /\ e.of = m /\ e.outcome \in Outcomes /\ e.applied \in BOOLEAN
           /\ e.before \in [PairOf(m) -> Int] /\ e.after \in [PairOf(m) -> Int]
BY DEF EventsOf, RatedEvents

(* A transaction that goes on commits nothing. *)
LEMMA TxTyped == ASSUME RatingTyped, NEW m \in Matches
    PROVE tx[m] \in RatingTxs /\ tx[m].at \in RatingSteps
          /\ tx[m].version \in [Players -> Nat] /\ tx[m].wrote \subseteq Players \cup {"event"}
BY DEF RatingTyped, RatingTxs

LEMMA BooksStay ==
    ASSUME RatingInv, UNCHANGED <<elo, version, events>>, Failed' = Failed
    PROVE  ChainInv' /\ CapInv'
<1>1. \A p : Spoilt(p)' <=> Spoilt(p)
  BY DEF Spoilt
<1>2. \A p : Of(p)' = Of(p)
  BY DEF Of
<1>3. \A s : PairEvents(s)' = PairEvents(s)
  BY DEF PairEvents
<1>4. \A s, p : LeftBy(s, p)' = LeftBy(s, p)
  BY DEF LeftBy
<1>5. \A p, i : Earlier(p, i)' = Earlier(p, i)
  BY <1>2 DEF Earlier
<1>6. ChainInv'
  BY <1>1, <1>2, <1>4, <1>5 DEF RatingInv, ChainInv
<1>7. CapInv'
  BY <1>1, <1>3 DEF RatingInv, CapInv
<1> QED BY <1>6, <1>7

(* What one transaction does to itself before its commit. *)
LEMMA TxTurns ==
    ASSUME RatingInv, UNCHANGED <<elo, version, events>>,
           NEW m \in Matches, NEW t \in RatingTxs,
           tx' = [tx EXCEPT ![m] = t],
           \A o \in Matches \ {m} : o \in lostCalls' <=> o \in lostCalls,
           lostCalls' \subseteq Matches, t.at # "done", tx[m].at # "done",
           Rating(m)' => EventFits(m)', HasWritten(m)',
           m \in lostCalls' => t.at = "settles",
           \A p \in Players : /\ t.version[p] <= version[p]
                              /\ p \in t.wrote => t.version[p] = version[p]
                              /\ p \in t.wrote => \A o \in Matches \ {m} : p \notin tx[o].wrote,
           Rating(m)' => \/ t.version = tx[m].version /\ t.event = tx[m].event /\ Rating(m)
                         \/ /\ \A p \in PairOf(m) : elo[p] = t.event.before[p]
                            /\ t.event.applied => Cardinality(PairEvents(PairOf(m))) < HalfLimit
    PROVE  RatingInv'
<1>1. /\ tx'[m] = t /\ \A o \in Matches \ {m} : tx'[o] = tx[o]
      /\ tx' \in [Matches -> RatingTxs]
  BY DEF RatingInv, RatingTyped
<1>2. RatingTyped'
  BY <1>1 DEF RatingInv, RatingTyped
<1>3. Failed' = Failed
  BY <1>1 DEF Failed, RatingInv, RatingTyped
<1>4. ChainInv' /\ CapInv'
  BY <1>3, BooksStay
<1>5. TxInv'
  <2> SUFFICES ASSUME NEW o \in Matches
               PROVE  /\ Rating(o)' => EventFits(o)'
                      /\ HasWritten(o)'
                      /\ o \in lostCalls' => tx'[o].at \in {"settles", "done"}
    BY DEF TxInv
  <2>1. CASE o = m
    BY <1>1, <2>1
  <2>2. CASE o # m
    <3>1. tx'[o] = tx[o] /\ (o \in lostCalls' <=> o \in lostCalls)
      BY <1>1, <2>2
    <3>2. (EventFits(o)' <=> EventFits(o)) /\ (Rating(o)' <=> Rating(o))
      BY <3>1 DEF EventFits, Rating
    <3>3. HasWritten(o)' <=> HasWritten(o)
      BY <3>1 DEF HasWritten
    <3> QED BY <3>1, <3>2, <3>3 DEF RatingInv, TxInv
  <2> QED BY <2>1, <2>2
<1>6. HeldInv'
  BY <1>1 DEF RatingInv, HeldInv
<1>7. SnapshotInv'
  <2> SUFFICES ASSUME NEW o \in Matches, Rating(o)'
               PROVE  /\ \A p \in PairOf(o) : tx'[o].version[p] = version[p] => elo[p] = tx'[o].event.before[p]
                      /\ /\ tx'[o].event.applied
                         /\ tx'[o].version[FirstPlayer[o]] = version[FirstPlayer[o]]
                         /\ \A p \in PairOf(o) : ~Spoilt(p)'
                         => Cardinality(PairEvents(PairOf(o))') < HalfLimit
    BY DEF SnapshotInv
  <2>1. \A p : Spoilt(p)' <=> Spoilt(p)
    BY <1>3 DEF Spoilt
  <2>2. PairEvents(PairOf(o))' = PairEvents(PairOf(o))
    BY DEF PairEvents
  <2>3. CASE o = m
    BY <1>1, <2>1, <2>2, <2>3 DEF RatingInv, SnapshotInv
  <2>4. CASE o # m
    BY <1>1, <2>1, <2>2, <2>4 DEF RatingInv, SnapshotInv, Rating
  <2> QED BY <2>3, <2>4
<1> QED BY <1>2, <1>4, <1>5, <1>6, <1>7 DEF RatingInv

LEMMA ReadyTx ==
    ASSUME RatingLimits
    PROVE  /\ Idle \in RatingTxs /\ Idle.at = "open" /\ Idle.wrote = {}
           /\ \A p \in Players : Idle.version[p] = 0
BY DEF Idle, RatingTxs, RatingSteps

(* Back to the start, as an outdated transaction or one that is undone. *)
LEMMA IdleKeeps ==
    ASSUME RatingLimits, RatingInv, NEW m \in Matches, tx[m].at \notin {"open", "done"},
           tx' = [tx EXCEPT ![m] = Idle], lostCalls' \in {lostCalls, lostCalls \ {m}},
           tx[m].at # "settles" => m \notin lostCalls, 
           m \notin lostCalls',
           UNCHANGED <<elo, version, events>>
    PROVE  RatingInv'
<1>1. tx'[m] = Idle
  BY DEF RatingInv, RatingTyped
<1>2. ~Rating(m)' /\ HasWritten(m)'
  BY <1>1, ReadyTx DEF Rating, HasWritten
<1>3. \A p \in Players : version[p] \in Nat
  BY DEF RatingInv, RatingTyped
<1>4. lostCalls' \subseteq Matches
  BY DEF RatingInv, RatingTyped
<1>5. \A o \in Matches \ {m} : o \in lostCalls' <=> o \in lostCalls
  OBVIOUS
<1>6. \A p \in Players : /\ Idle.version[p] <= version[p]
                         /\ p \in Idle.wrote => Idle.version[p] = version[p]
                         /\ p \in Idle.wrote => \A o \in Matches \ {m} : p \notin tx[o].wrote
  BY <1>3, ReadyTx
<1> QED BY <1>2, <1>4, <1>5, <1>6, ReadyTx, TxTurns

LEMMA UndoneKeeps == ASSUME RatingLimits, RatingInv, NEW m \in Matches, Undone(m) PROVE RatingInv'
<1>1. tx[m].at # "settles" => m \notin lostCalls
  BY DEF RatingInv, TxInv, Undone
<1> QED BY <1>1, IdleKeeps DEF Undone

LEMMA DifferenceIs ==
    ASSUME RatingLimits, NEW n \in Nat, NEW outcome \in Outcomes, NEW d \in Differences(outcome, n)
    PROVE  d \in Int
<1>1. Most(n) \in Int
  BY DEF Most, Weight, RatingLimits
<1>2. Most(n) \div 2 \in Int
  BY <1>1
<1>3. CASE outcome = "player1_win"
  BY <1>1, <1>3 DEF Differences
<1>4. CASE outcome = "player2_win"
  <2>1. Differences(outcome, n) = {0 - x : x \in 0..Most(n)}
    BY <1>4 DEF Differences
  <2>2. PICK x \in 0..Most(n) : d = 0 - x
    BY <2>1
  <2> QED BY <1>1, <2>2
<1>5. CASE outcome = "draw"
  <2>1. Differences(outcome, n) = (0 - Most(n) \div 2)..(Most(n) \div 2)
    BY <1>5 DEF Differences
  <2> QED BY <1>2, <2>1
<1>6. CASE outcome = "no_contest"
  BY <1>6 DEF Differences
<1> QED BY <1>3, <1>4, <1>5, <1>6 DEF Outcomes

LEMMA PairEventsAre ==
    ASSUME RatingTyped, NEW s
    PROVE  /\ PairEvents(s) \subseteq 1..Len(events) /\ Len(events) \in Nat
           /\ IsFiniteSet(PairEvents(s)) /\ Cardinality(PairEvents(s)) \in Nat
<1>1. Len(events) \in Nat /\ DOMAIN events = 1..Len(events)
  BY DEF RatingTyped
<1>2. PairEvents(s) \subseteq 1..Len(events)
  BY <1>1 DEF PairEvents
<1>3. IsFiniteSet(1..Len(events))
  BY <1>1, FS_Interval
<1>4. IsFiniteSet(PairEvents(s))
  BY <1>2, <1>3, FS_Subset
<1> QED BY <1>1, <1>2, <1>4, FS_CardinalityType

LEMMA BeginsKeeps == ASSUME RatingLimits, RatingInv, NEW m \in Matches, BeginsRating(m) PROVE RatingInv'
<1> DEFINE n == Cardinality(PairEvents(PairOf(m)))
<1>1. PICK outcome \in Outcomes : \E d \in Differences(outcome, n) :
         \E g \in Opposites(outcome, n, d) :
         tx' = [tx EXCEPT ![m] =
            [at |-> "rated", version |-> version, wrote |-> {},
             event |-> [of |-> m, outcome |-> outcome,
                        applied |-> outcome # "no_contest" /\ Weight(n) > 0,
                        before |-> [p \in PairOf(m) |-> elo[p]],
                        after  |-> [p \in PairOf(m) |->
                                     Floor(elo[p] + IF p = FirstPlayer[m] THEN d ELSE g)]]]]
  BY DEF BeginsRating, Outcomes
<1>2. PICK d \in Differences(outcome, n) : \E g \in Opposites(outcome, n, d) :
         tx' = [tx EXCEPT ![m] =
            [at |-> "rated", version |-> version, wrote |-> {},
             event |-> [of |-> m, outcome |-> outcome,
                        applied |-> outcome # "no_contest" /\ Weight(n) > 0,
                        before |-> [p \in PairOf(m) |-> elo[p]],
                        after  |-> [p \in PairOf(m) |->
                                     Floor(elo[p] + IF p = FirstPlayer[m] THEN d ELSE g)]]]]
  BY <1>1
<1>21. PICK g \in Opposites(outcome, n, d) :
         tx' = [tx EXCEPT ![m] =
            [at |-> "rated", version |-> version, wrote |-> {},
             event |-> [of |-> m, outcome |-> outcome,
                        applied |-> outcome # "no_contest" /\ Weight(n) > 0,
                        before |-> [p \in PairOf(m) |-> elo[p]],
                        after  |-> [p \in PairOf(m) |->
                                     Floor(elo[p] + IF p = FirstPlayer[m] THEN d ELSE g)]]]]
  BY <1>2
<1> DEFINE e == [of |-> m, outcome |-> outcome,
                 applied |-> outcome # "no_contest" /\ Weight(n) > 0,
                 before |-> [p \in PairOf(m) |-> elo[p]],
                 after  |-> [p \in PairOf(m) |->
                              Floor(elo[p] + IF p = FirstPlayer[m] THEN d ELSE g)]]
           t == [at |-> "rated", version |-> version, wrote |-> {}, event |-> e]
<1>3. tx' = [tx EXCEPT ![m] = t]
  BY <1>21
<1>4. n \in Nat
  BY PairEventsAre DEF RatingInv
<1>5. d \in Int /\ g \in Int
  <2>1. d \in Int
    <3> HIDE DEF n
    <3> QED BY <1>4, DifferenceIs
  <2>2. g = 0 - d \/ g = 1 - d
    <3> HIDE DEF n
    <3> QED BY DEF Opposites
  <2> QED BY <2>1, <2>2
<1>6. PairOf(m) \subseteq Players /\ \A p \in PairOf(m) : elo[p] \in Int
  BY DEF PairOf, RatingLimits, RatingInv, RatingTyped
<1> DEFINE after == [p \in PairOf(m) |-> Floor(elo[p] + IF p = FirstPlayer[m] THEN d ELSE g)]
<1>7. after \in [PairOf(m) -> Int] /\ \A p \in PairOf(m) : Floor(after[p]) = after[p]
  <2>1. \A p \in PairOf(m) : elo[p] + (IF p = FirstPlayer[m] THEN d ELSE g) \in Int
    BY <1>5, <1>6
  <2>2. \A p \in PairOf(m) : /\ Floor(elo[p] + IF p = FirstPlayer[m] THEN d ELSE g) \in Int
                             /\ Floor(Floor(elo[p] + IF p = FirstPlayer[m] THEN d ELSE g))
                                = Floor(elo[p] + IF p = FirstPlayer[m] THEN d ELSE g)
    BY <2>1, FloorIs DEF RatingLimits
  <2> QED BY <2>2
<1>8. e.after = after /\ e.of = m /\ e.outcome = outcome /\ e.before = [p \in PairOf(m) |-> elo[p]]
      /\ e.applied \in BOOLEAN /\ (e.applied => e.outcome # "no_contest" /\ Weight(n) > 0)
  OBVIOUS
<1>9. e \in EventsOf(m)
  <2>1. [p \in PairOf(m) |-> elo[p]] \in [PairOf(m) -> Int]
    BY <1>6
  <2>2. (outcome # "no_contest" /\ Weight(n) > 0) \in BOOLEAN
    OBVIOUS
  <2> HIDE DEF n
  <2> QED BY <1>7, <2>1, <2>2 DEF EventsOf
<1>10. e.applied => n < HalfLimit
  <2>1. Weight(n) > 0 => n < HalfLimit
    <3> HIDE DEF n
    <3> QED BY <1>4 DEF Weight, RatingLimits
  <2> QED BY <1>8, <2>1
<1>11. t \in RatingTxs /\ t.at = "rated" /\ t.version = version /\ t.wrote = {} /\ t.event = e
  <2>1. e \in RatedEvents
    BY <1>9, EventIs
  <2>2. version \in [Players -> Nat]
    BY DEF RatingInv, RatingTyped
  <2> HIDE DEF e
  <2> QED BY <2>1, <2>2 DEF RatingTxs, RatingSteps
<1>12. tx[m].at = "open" /\ UNCHANGED <<elo, version, events, lostCalls>>
  BY DEF BeginsRating
<1>13. m \notin lostCalls
  BY <1>12 DEF RatingInv, TxInv
<1> HIDE DEF e, t, n, after
<1>14. tx'[m] = t
  BY <1>3 DEF RatingInv, RatingTyped
<1>15. EventFits(m)'
  BY <1>7, <1>8, <1>9, <1>11, <1>14 DEF EventFits
<1>16. HasWritten(m)'
  BY <1>11, <1>14 DEF HasWritten
<1>17. \A p \in PairOf(m) : elo[p] = t.event.before[p]
  BY <1>8, <1>11
<1>18. t.event.applied => Cardinality(PairEvents(PairOf(m))) < HalfLimit
  BY <1>10, <1>11 DEF n
<1>19. \A p \in Players : /\ t.version[p] <= version[p]
                          /\ p \in t.wrote => t.version[p] = version[p]
                          /\ p \in t.wrote => \A o \in Matches \ {m} : p \notin tx[o].wrote
  BY <1>11 DEF RatingInv, RatingTyped
<1>20. lostCalls' \subseteq Matches /\ \A o \in Matches \ {m} : o \in lostCalls' <=> o \in lostCalls
  BY <1>12 DEF RatingInv, RatingTyped
<1> QED BY <1>3, <1>11, <1>12, <1>13, <1>15, <1>16, <1>17, <1>18, <1>19, <1>20, TxTurns

LEMMA GoesIs ==
    ASSUME RatingTyped, NEW m \in Matches, NEW to \in RatingSteps,
           NEW w \in SUBSET (Players \cup {"event"}), GoesTo(m, to, w)
    PROVE  \E t \in RatingTxs : /\ tx' = [tx EXCEPT ![m] = t] /\ t.at = to /\ t.wrote = w
                                /\ t.version = tx[m].version /\ t.event = tx[m].event
<1> DEFINE t == [at |-> to, version |-> tx[m].version, event |-> tx[m].event, wrote |-> w]
<1>1. t \in RatingTxs
  BY TxTyped DEF RatingTxs
<1> QED BY <1>1 DEF GoesTo

(* The step of a transaction that goes on with what it has read. *)
LEMMA OnKeeps ==
    ASSUME RatingLimits, RatingInv, NEW m \in Matches, Rating(m),
           NEW to \in {"kept", "half", "settles"}, NEW w \in SUBSET (Players \cup {"event"}),
           GoesTo(m, to, w),
           lostCalls' \subseteq Matches,
           \A o \in Matches \ {m} : o \in lostCalls' <=> o \in lostCalls,
           m \in lostCalls' => to = "settles",
           \/ to = "settles" /\ m \in lostCalls' /\ w \subseteq {"event", FirstPlayer[m]}
           \/ to = "settles" /\ tx[m].event.outcome = "no_contest" /\ w = {"event"}
           \/ /\ tx[m].event.outcome # "no_contest"
              /\ \/ to = "kept" /\ w = {"event"}
                 \/ to = "half" /\ w = {"event", FirstPlayer[m]}
                 \/ to = "settles" /\ w = {"event", FirstPlayer[m], SecondPlayer[m]},
           \A p \in Players : p \in w => \/ p \in tx[m].wrote
                                         \/ ~Conflicts(m, p),
           UNCHANGED <<elo, version, events>>
    PROVE  RatingInv'
<1>1. PICK t \in RatingTxs : /\ tx' = [tx EXCEPT ![m] = t] /\ t.at = to /\ t.wrote = w
                             /\ t.version = tx[m].version /\ t.event = tx[m].event
  BY GoesIs DEF RatingInv, RatingSteps
<1>2. tx'[m] = t
  BY <1>1 DEF RatingInv, RatingTyped
<1>3. EventFits(m)
  BY DEF RatingInv, TxInv
<1>4. EventFits(m)'
  BY <1>1, <1>2, <1>3 DEF EventFits
<1>5. HasWritten(m)'
  BY <1>1, <1>2 DEF HasWritten
<1>6. \A p \in Players : /\ t.version[p] <= version[p]
                         /\ p \in t.wrote => t.version[p] = version[p]
                         /\ p \in t.wrote => \A o \in Matches \ {m} : p \notin tx[o].wrote
  BY <1>1 DEF RatingInv, HeldInv, Conflicts
<1>7. tx[m].at # "done" /\ t.at # "done"
  BY <1>1 DEF Rating
<1> QED BY <1>1, <1>4, <1>5, <1>6, <1>7, TxTurns

LEMMA CreatesEventKeeps == ASSUME RatingLimits, RatingInv, NEW m \in Matches, CreatesEvent(m) PROVE RatingInv'
<1> DEFINE to == IF tx[m].event.outcome = "no_contest" THEN "settles" ELSE "kept"
<1>1. GoesTo(m, to, {"event"}) /\ to \in {"kept", "settles"} /\ (to = "settles" <=> tx[m].event.outcome = "no_contest")
  BY DEF CreatesEvent
<1>2. Rating(m) /\ UNCHANGED <<elo, version, events, lostCalls>> /\ m \notin lostCalls
  BY DEF CreatesEvent, Rating, RatingInv, TxInv
<1>3. lostCalls' \subseteq Matches
  BY <1>2 DEF RatingInv, RatingTyped
<1>4. \A p \in Players : p \notin {"event"}
  BY DEF RatingLimits
<1> HIDE DEF to
<1> QED BY <1>1, <1>2, <1>3, <1>4, OnKeeps

LEMMA UpdateKeeps ==
    ASSUME RatingLimits, RatingInv, NEW m \in Matches, NEW p \in Players,
           NEW from \in {"kept", "half"}, NEW to \in {"half", "settles"}, Updates(m, p, from, to),
           tx[m].event.outcome # "no_contest",
           \/ to = "half" /\ tx[m].wrote \cup {p} = {"event", FirstPlayer[m]}
           \/ to = "settles" /\ tx[m].wrote \cup {p} = {"event", FirstPlayer[m], SecondPlayer[m]}
    PROVE  RatingInv'
<1>1. Rating(m) /\ m \notin lostCalls /\ tx[m].at \in {"kept", "half"}
      /\ UNCHANGED <<elo, version, events, lostCalls>>
  BY DEF Updates, Rating, RatingInv, TxInv
<1>2. lostCalls' \subseteq Matches
  BY <1>1 DEF RatingInv, RatingTyped
<1>3. CASE Conflicts(m, p)
  <2>1. tx' = [tx EXCEPT ![m] = Idle]
    BY <1>3 DEF Updates
  <2> QED BY <1>1, <2>1, IdleKeeps
<1>4. CASE ~Conflicts(m, p)
  <2>1. GoesTo(m, to, tx[m].wrote \cup {p})
    BY <1>4 DEF Updates
  <2>2. tx[m].wrote \cup {p} \in SUBSET (Players \cup {"event"})
    BY TxTyped DEF RatingInv
  <2>3. \A q \in Players : q \in tx[m].wrote \cup {p} => q \in tx[m].wrote \/ ~Conflicts(m, q)
    BY <1>4
  <2> QED BY <1>1, <1>2, <2>1, <2>2, <2>3, OnKeeps
<1> QED BY <1>3, <1>4

LEMMA UpdatesKeeps ==
    ASSUME RatingLimits, RatingInv, NEW m \in Matches, UpdatesFirst(m) \/ UpdatesSecond(m)
    PROVE  RatingInv'
<1>1. HasWritten(m) /\ FirstPlayer[m] \in Players /\ SecondPlayer[m] \in Players
  BY DEF RatingInv, TxInv, RatingLimits
<1>2. CASE UpdatesFirst(m)
  <2>1. tx[m].wrote = {"event"} /\ Updates(m, FirstPlayer[m], "kept", "half")
        /\ tx[m].event.outcome # "no_contest"
    BY <1>1, <1>2 DEF HasWritten, UpdatesFirst, Updates
  <2>2. tx[m].wrote \cup {FirstPlayer[m]} = {"event", FirstPlayer[m]}
    BY <2>1
  <2> QED BY <1>1, <2>1, <2>2, UpdateKeeps
<1>3. CASE UpdatesSecond(m)
  <2>1. tx[m].wrote = {"event", FirstPlayer[m]} /\ Updates(m, SecondPlayer[m], "half", "settles")
        /\ tx[m].event.outcome # "no_contest"
    BY <1>1, <1>3 DEF HasWritten, UpdatesSecond, Updates
  <2>2. tx[m].wrote \cup {SecondPlayer[m]} = {"event", FirstPlayer[m], SecondPlayer[m]}
    BY <2>1
  <2> QED BY <1>1, <2>1, <2>2, UpdateKeeps
<1> QED BY <1>2, <1>3

LEMMA LosesCallKeeps == ASSUME RatingLimits, RatingInv, NEW m \in Matches, LosesCall(m) PROVE RatingInv'
<1>1. /\ GoesTo(m, "settles", tx[m].wrote) /\ lostCalls' = lostCalls \cup {m}
      /\ tx[m].at \in {"rated", "kept", "half"} /\ UNCHANGED <<elo, version, events>>
  BY DEF LosesCall
<1>2. Rating(m) /\ HasWritten(m)
  BY <1>1 DEF Rating, RatingInv, TxInv
<1>3. tx[m].wrote \subseteq {"event", FirstPlayer[m]} /\ tx[m].wrote \in SUBSET (Players \cup {"event"})
  <2>1. tx[m].wrote \in SUBSET (Players \cup {"event"})
    BY TxTyped DEF RatingInv
  <2>2. tx[m].wrote \in {{}, {"event"}, {"event", FirstPlayer[m]}}
    BY <1>1, <1>2 DEF HasWritten
  <2> QED BY <2>1, <2>2
<1>4. lostCalls' \subseteq Matches /\ m \in lostCalls'
      /\ \A o \in Matches \ {m} : o \in lostCalls' <=> o \in lostCalls
  BY <1>1 DEF RatingInv, RatingTyped
<1> QED BY <1>1, <1>2, <1>3, <1>4, OnKeeps

LEMMA EventsGrow ==
    ASSUME RatingTyped, NEW e \in RatedEvents, events' = Append(events, e)
    PROVE  /\ Len(events) \in Nat /\ DOMAIN events = 1..Len(events)
           /\ DOMAIN events' = 1..(Len(events) + 1)
           /\ \A i \in 1..Len(events) : events'[i] = events[i]
           /\ events'[Len(events) + 1] = e
           /\ events' \in Seq(RatedEvents)
BY DEF RatingTyped

(* A commit, with the fate of its call and what it has written. *)
CommitIs(m, e, w) ==
    /\ m \in Matches /\ tx[m].at = "settles" /\ e = tx[m].event /\ w = tx[m].wrote
    /\ elo' = [p \in Players |-> IF p \in w THEN Floor(elo[p] + Change(e, p)) ELSE elo[p]]
    /\ version' = [p \in Players |-> IF p \in w THEN version[p] + 1 ELSE version[p]]
    /\ events' = IF "event" \in w THEN Append(events, e) ELSE events
    /\ tx' = [tx EXCEPT ![m] = [Idle EXCEPT !.at = "done"]]
    /\ UNCHANGED lostCalls
    /\ \/ m \in lostCalls
       \/ m \notin lostCalls /\ e.outcome = "no_contest" /\ w = {"event"}
       \/ /\ m \notin lostCalls /\ e.outcome # "no_contest"
          /\ w = {"event", FirstPlayer[m], SecondPlayer[m]}
    /\ e \in EventsOf(m) /\ w \subseteq PairOf(m) \cup {"event"}
    /\ \A p \in PairOf(m) : Floor(e.after[p]) = e.after[p]
    /\ e.applied => e.outcome # "no_contest"

LEMMA CommitsIs ==
    ASSUME RatingLimits, RatingInv, NEW m \in Matches, Commits(m)
    PROVE  CommitIs(m, tx[m].event, tx[m].wrote)
<1>1. \A p \in Players : p \in tx[m].wrote \cap Players <=> p \in tx[m].wrote
  OBVIOUS
<1>2. /\ elo' = [p \in Players |-> IF p \in tx[m].wrote THEN Floor(elo[p] + Change(tx[m].event, p)) ELSE elo[p]]
      /\ version' = [p \in Players |-> IF p \in tx[m].wrote THEN version[p] + 1 ELSE version[p]]
      /\ events' = IF "event" \in tx[m].wrote THEN Append(events, tx[m].event) ELSE events
      /\ tx' = [tx EXCEPT ![m] = [Idle EXCEPT !.at = "done"]]
      /\ UNCHANGED lostCalls /\ tx[m].at = "settles"
  BY <1>1 DEF Commits
<1>3. EventFits(m) /\ HasWritten(m)
  BY <1>2 DEF RatingInv, TxInv, Rating
<1>4. /\ \/ m \in lostCalls
         \/ m \notin lostCalls /\ tx[m].event.outcome = "no_contest" /\ tx[m].wrote = {"event"}
         \/ /\ m \notin lostCalls /\ tx[m].event.outcome # "no_contest"
            /\ tx[m].wrote = {"event", FirstPlayer[m], SecondPlayer[m]}
      /\ tx[m].wrote \subseteq PairOf(m) \cup {"event"}
  <2>1. \/ m \in lostCalls /\ tx[m].wrote \subseteq {"event", FirstPlayer[m]}
        \/ tx[m].event.outcome = "no_contest" /\ tx[m].wrote = {"event"}
        \/ /\ tx[m].event.outcome # "no_contest"
           /\ tx[m].wrote = {"event", FirstPlayer[m], SecondPlayer[m]}
    BY <1>2, <1>3 DEF HasWritten
  <2> QED BY <2>1 DEF PairOf
<1> QED BY <1>2, <1>3, <1>4 DEF CommitIs, EventFits

(* What follows for the players, the events and who is spoilt. *)
CommitFacts(m, e, w) ==
    /\ \A p \in Players : p \in w =>
          /\ version'[p] = version[p] + 1 /\ version[p] \in Nat
          /\ tx[m].version[p] = version[p] /\ elo'[p] = e.after[p]
          /\ elo[p] = e.before[p]
    /\ \A p \in Players : p \notin w => version'[p] = version[p] /\ elo'[p] = elo[p]
    /\ \A p \in Players : p \in w => p \in PairOf(m)
    /\ \A p : Spoilt(p)' <=> Spoilt(p) \/ (m \in lostCalls /\ p \in PairOf(m))
    /\ \A o \in Matches \ {m} : tx'[o] = tx[o]
    /\ tx'[m].at = "done" /\ tx'[m].wrote = {} /\ \A p \in Players : tx'[m].version[p] = 0

LEMMA CommitFactsHold ==
    ASSUME RatingLimits, RatingInv, NEW m \in Matches, NEW e, NEW w, CommitIs(m, e, w)
    PROVE  CommitFacts(m, e, w) /\ RatingTyped'
<1>1. /\ tx'[m] = [Idle EXCEPT !.at = "done"] /\ \A o \in Matches \ {m} : tx'[o] = tx[o]
  BY DEF CommitIs, RatingInv, RatingTyped
<1>2. tx'[m].at = "done" /\ tx'[m].wrote = {} /\ tx'[m] \in RatingTxs /\ \A p \in Players : tx'[m].version[p] = 0
  BY <1>1 DEF Idle, RatingTxs, RatingSteps
<1>3. elo \in [Players -> Int] /\ version \in [Players -> Nat] /\ tx \in [Matches -> RatingTxs]
      /\ events \in Seq(RatedEvents) /\ lostCalls \subseteq Matches
  BY DEF RatingInv, RatingTyped
<1>4. /\ e.before \in [PairOf(m) -> Int] /\ e.after \in [PairOf(m) -> Int] /\ e \in RatedEvents
      /\ \A p \in PairOf(m) : Floor(e.after[p]) = e.after[p]
  BY EventIs DEF CommitIs
<1>5. \A p \in Players : p # "event"
  BY DEF RatingLimits
<1>6. \A p \in Players : p \in w => p \in PairOf(m)
  BY <1>5 DEF CommitIs
<1>7. ASSUME NEW p \in Players, p \in w
      PROVE  /\ version'[p] = version[p] + 1 /\ version[p] \in Nat
             /\ tx[m].version[p] = version[p] /\ elo'[p] = e.after[p] /\ elo[p] = e.before[p]
  <2>1. version'[p] = version[p] + 1 /\ elo'[p] = Floor(elo[p] + Change(e, p))
    BY <1>7 DEF CommitIs
  <2>2. p \in PairOf(m)
    BY <1>6, <1>7
  <2>3. tx[m].version[p] = version[p]
    BY <1>7 DEF CommitIs, RatingInv, HeldInv
  <2>4. Rating(m) /\ e = tx[m].event
    BY DEF CommitIs, Rating
  <2>5. elo[p] = e.before[p]
    BY <2>2, <2>3, <2>4 DEF RatingInv, SnapshotInv
  <2>6. elo[p] + Change(e, p) = e.after[p]
    BY <1>3, <1>4, <2>2, <2>5 DEF Change
  <2> QED BY <1>3, <1>4, <2>1, <2>2, <2>3, <2>5, <2>6
<1>8. \A p \in Players : p \notin w => version'[p] = version[p] /\ elo'[p] = elo[p]
  BY DEF CommitIs
<1>9. Failed' = IF m \in lostCalls THEN Failed \cup {m} ELSE Failed
  BY <1>1, <1>2, <1>3 DEF Failed, CommitIs
<1>10. \A p : Spoilt(p)' <=> Spoilt(p) \/ (m \in lostCalls /\ p \in PairOf(m))
  BY <1>9 DEF Spoilt
<1>11. CommitFacts(m, e, w)
  BY <1>1, <1>2, <1>6, <1>7, <1>8, <1>10 DEF CommitFacts
<1>12. elo' \in [Players -> Int]
  <2>1. \A p \in Players : elo'[p] \in Int
    BY <1>3, <1>4, <1>6, <1>7, <1>8
  <2> QED BY <2>1 DEF CommitIs
<1>13. version' \in [Players -> Nat]
  <2>1. \A p \in Players : version'[p] \in Nat
    BY <1>3, <1>7, <1>8
  <2> QED BY <2>1 DEF CommitIs
<1>14. events' \in Seq(RatedEvents)
  BY <1>3, <1>4, EventsGrow DEF CommitIs, RatingInv
<1>15. tx' \in [Matches -> RatingTxs] /\ lostCalls' \subseteq Matches
  BY <1>1, <1>2, <1>3 DEF CommitIs
<1> QED BY <1>11, <1>12, <1>13, <1>14, <1>15 DEF RatingTyped

LEMMA CommitTxs ==
    ASSUME RatingLimits, RatingInv, NEW m \in Matches, NEW e, NEW w, CommitIs(m, e, w), CommitFacts(m, e, w)
    PROVE  TxInv' /\ HeldInv'
<1>1. TxInv'
  <2> SUFFICES ASSUME NEW o \in Matches
               PROVE  /\ Rating(o)' => EventFits(o)'
                      /\ HasWritten(o)'
                      /\ o \in lostCalls' => tx'[o].at \in {"settles", "done"}
    BY DEF TxInv
  <2>1. CASE o = m
    BY <2>1 DEF CommitFacts, Rating, HasWritten
  <2>2. CASE o # m
    <3>1. tx'[o] = tx[o] /\ lostCalls' = lostCalls
      BY <2>2 DEF CommitFacts, CommitIs
    <3>2. (EventFits(o)' <=> EventFits(o)) /\ (Rating(o)' <=> Rating(o))
      BY <3>1 DEF EventFits, Rating
    <3>3. HasWritten(o)' <=> HasWritten(o)
      BY <3>1 DEF HasWritten
    <3> QED BY <3>1, <3>2, <3>3 DEF RatingInv, TxInv
  <2> QED BY <2>1, <2>2
<1>2. \A p \in Players : version'[p] \in Nat /\ version[p] \in Nat /\ version[p] <= version'[p]
  BY DEF CommitFacts, RatingInv, RatingTyped
<1>3. \A o \in Matches : \A p \in Players : tx[o].version[p] \in Nat
  BY TxTyped DEF RatingInv
<1>4. HeldInv'
  <2>1. ASSUME NEW o \in Matches, NEW p \in Players
        PROVE  /\ tx'[o].version[p] <= version'[p]
               /\ p \in tx'[o].wrote => tx'[o].version[p] = version'[p]
    <3>1. CASE o = m
      BY <1>2, <3>1 DEF CommitFacts
    <3>2. CASE o # m
      <4>1. tx'[o] = tx[o] /\ tx[o].version[p] <= version[p]
            /\ (p \in tx[o].wrote => tx[o].version[p] = version[p])
        BY <3>2 DEF CommitFacts, RatingInv, HeldInv
      <4>2. p \in tx[o].wrote => p \notin w
        BY <3>2 DEF RatingInv, HeldInv, CommitIs
      <4> QED BY <1>2, <1>3, <4>1, <4>2 DEF CommitFacts
    <3> QED BY <3>1, <3>2
  <2>2. ASSUME NEW o \in Matches, NEW q \in Matches, NEW p \in Players,
               p \in tx'[o].wrote, p \in tx'[q].wrote
        PROVE  o = q
    <3>1. o # m /\ q # m
      BY <2>2 DEF CommitFacts
    <3> QED BY <2>2, <3>1 DEF CommitFacts, RatingInv, HeldInv
  <2> QED BY <2>1, <2>2 DEF HeldInv
<1> QED BY <1>1, <1>4

(* The events of a pair after a commit. *)
LEMMA PairGrows ==
    ASSUME RatingLimits, RatingInv, NEW m \in Matches, NEW e, NEW w, CommitIs(m, e, w), NEW s
    PROVE  \/ PairEvents(s)' = PairEvents(s)
           \/ /\ PairOf(m) = s /\ e.applied /\ "event" \in w
              /\ Cardinality(PairEvents(s)') = Cardinality(PairEvents(s)) + 1
<1>1. e \in RatedEvents /\ e.of = m /\ e.applied \in BOOLEAN
  BY EventIs DEF CommitIs
<1>2. CASE "event" \notin w
  BY <1>2 DEF CommitIs, PairEvents
<1>3. CASE "event" \in w
  <2> DEFINE n == Len(events)
  <2>1. /\ n \in Nat /\ DOMAIN events = 1..n /\ DOMAIN events' = 1..(n + 1)
        /\ \A i \in 1..n : events'[i] = events[i]
        /\ events'[n + 1] = e
    BY <1>1, <1>3, EventsGrow DEF CommitIs, RatingInv
  <2>2. 1..(n + 1) = (1..n) \cup {n + 1} /\ n + 1 \notin 1..n
    BY <2>1
  <2> HIDE DEF n
  <2>3. CASE PairOf(m) = s /\ e.applied
    <3>1. PairEvents(s)' = PairEvents(s) \cup {n + 1}
      BY <1>1, <2>1, <2>2, <2>3 DEF PairEvents
    <3>2. n + 1 \notin PairEvents(s)
      BY <2>1, <2>2 DEF PairEvents
    <3> QED BY <1>3, <2>3, <3>1, <3>2, PairEventsAre, FS_AddElement DEF RatingInv
  <2>4. CASE ~(PairOf(m) = s /\ e.applied)
    BY <1>1, <2>1, <2>2, <2>4 DEF PairEvents
  <2> QED BY <2>3, <2>4
<1> QED BY <1>2, <1>3

LEMMA CommitSnapshots ==
    ASSUME RatingLimits, RatingInv, NEW m \in Matches, NEW e, NEW w, CommitIs(m, e, w), CommitFacts(m, e, w)
    PROVE  SnapshotInv' /\ CapInv'
<1>1. \A p \in Players : version[p] \in Nat /\ version'[p] \in Nat
      /\ (p \in w => version'[p] = version[p] + 1) /\ (p \notin w => version'[p] = version[p] /\ elo'[p] = elo[p])
  BY DEF CommitFacts, RatingInv, RatingTyped
<1>2. \A o \in Matches : FirstPlayer[o] \in Players /\ FirstPlayer[o] \in PairOf(o) /\ PairOf(o) \subseteq Players
  BY DEF RatingLimits, PairOf
<1>3. ASSUME NEW o \in Matches, \A p \in PairOf(o) : ~Spoilt(p)', PairOf(m) = PairOf(o), e.applied
      PROVE  m \notin lostCalls /\ FirstPlayer[o] \in w /\ FirstPlayer[m] \in w
  <2>1. m \notin lostCalls
    BY <1>2, <1>3 DEF CommitFacts
  <2>2. e.outcome # "no_contest"
    BY <1>3 DEF CommitIs
  <2>3. w = {"event", FirstPlayer[m], SecondPlayer[m]}
    BY <2>1, <2>2 DEF CommitIs
  <2> QED BY <1>2, <1>3, <2>1, <2>3 DEF PairOf
<1>4. \A p : ~Spoilt(p)' => ~Spoilt(p)
  BY DEF CommitFacts
<1>5. \A o \in Matches : \A p \in Players : tx[o].version[p] \in Nat /\ tx[o].version[p] <= version[p]
  BY TxTyped DEF RatingInv, HeldInv
<1>6. SnapshotInv'
  <2> SUFFICES ASSUME NEW o \in Matches, Rating(o)'
               PROVE  /\ \A p \in PairOf(o) : tx'[o].version[p] = version'[p] => elo'[p] = tx'[o].event.before[p]
                      /\ /\ tx'[o].event.applied
                         /\ tx'[o].version[FirstPlayer[o]] = version'[FirstPlayer[o]]
                         /\ \A p \in PairOf(o) : ~Spoilt(p)'
                         => Cardinality(PairEvents(PairOf(o))') < HalfLimit
    BY DEF SnapshotInv
  <2>1. o # m
    BY DEF CommitFacts, Rating
  <2>2. tx'[o] = tx[o] /\ Rating(o)
    BY <2>1 DEF CommitFacts, Rating
  <2>3. \A p \in Players : tx[o].version[p] = version'[p] => p \notin w /\ version'[p] = version[p]
    BY <1>1, <1>5
  <2>4. \A p \in PairOf(o) : tx[o].version[p] = version'[p] => elo'[p] = tx[o].event.before[p]
    BY <1>1, <1>2, <2>2, <2>3 DEF RatingInv, SnapshotInv
  <2>5. ASSUME tx[o].event.applied, tx[o].version[FirstPlayer[o]] = version'[FirstPlayer[o]],
               \A p \in PairOf(o) : ~Spoilt(p)'
        PROVE  Cardinality(PairEvents(PairOf(o))') < HalfLimit
    <3>1. FirstPlayer[o] \notin w /\ tx[o].version[FirstPlayer[o]] = version[FirstPlayer[o]]
      BY <1>2, <2>3, <2>5
    <3>2. Cardinality(PairEvents(PairOf(o))) < HalfLimit
      BY <1>4, <2>2, <2>5, <3>1 DEF RatingInv, SnapshotInv
    <3>3. ~(PairOf(m) = PairOf(o) /\ e.applied)
      BY <1>3, <2>5, <3>1
    <3>4. PairEvents(PairOf(o))' = PairEvents(PairOf(o))
      BY <3>3, PairGrows
    <3> QED BY <3>2, <3>4
  <2> QED BY <2>2, <2>4, <2>5
<1>7. CapInv'
  <2> SUFFICES ASSUME NEW o \in Matches, \A p \in PairOf(o) : ~Spoilt(p)'
               PROVE  Cardinality(PairEvents(PairOf(o))') <= HalfLimit
    BY DEF CapInv
  <2>1. Cardinality(PairEvents(PairOf(o))) <= HalfLimit
    BY <1>4 DEF RatingInv, CapInv
  <2>2. CASE PairOf(m) = PairOf(o) /\ e.applied
    <3>1. FirstPlayer[m] \in w /\ Rating(m) /\ e = tx[m].event
      BY <1>3, <2>2 DEF CommitIs, Rating
    <3>2. tx[m].version[FirstPlayer[m]] = version[FirstPlayer[m]]
      BY <1>2, <3>1 DEF CommitFacts
    <3>3. Cardinality(PairEvents(PairOf(m))) < HalfLimit
      BY <1>4, <2>2, <3>1, <3>2 DEF RatingInv, SnapshotInv
    <3>4. Cardinality(PairEvents(PairOf(o))) \in Nat
      BY PairEventsAre, FS_CardinalityType DEF RatingInv
    <3>5. \/ PairEvents(PairOf(o))' = PairEvents(PairOf(o))
          \/ Cardinality(PairEvents(PairOf(o))') = Cardinality(PairEvents(PairOf(o))) + 1
      BY PairGrows
    <3> QED BY <2>1, <2>2, <3>3, <3>4, <3>5 DEF RatingLimits
  <2>3. CASE ~(PairOf(m) = PairOf(o) /\ e.applied)
    <3>1. PairEvents(PairOf(o))' = PairEvents(PairOf(o))
      BY <2>3, PairGrows
    <3> QED BY <2>1, <3>1
  <2> QED BY <2>2, <2>3
<1> QED BY <1>6, <1>7

(* A player's events after a commit. *)
LEMMA OfGrows ==
    ASSUME RatingLimits, RatingInv, NEW m \in Matches, NEW e, NEW w, CommitIs(m, e, w), NEW p
    PROVE  \/ Of(p)' = Of(p) /\ ~(p \in PairOf(m) /\ e.outcome # "no_contest" /\ "event" \in w)
           \/ /\ p \in PairOf(m) /\ e.outcome # "no_contest" /\ "event" \in w
              /\ Of(p)' = Of(p) \cup {Len(events) + 1}
<1>1. e \in RatedEvents /\ e.of = m
  BY EventIs DEF CommitIs
<1>2. CASE "event" \notin w
  BY <1>2 DEF CommitIs, Of
<1>3. CASE "event" \in w
  <2> DEFINE n == Len(events)
  <2>1. /\ n \in Nat /\ DOMAIN events = 1..n /\ DOMAIN events' = 1..(n + 1)
        /\ \A i \in 1..n : events'[i] = events[i]
        /\ events'[n + 1] = e
    BY <1>1, <1>3, EventsGrow DEF CommitIs, RatingInv
  <2>2. 1..(n + 1) = (1..n) \cup {n + 1} /\ n + 1 \notin 1..n
    BY <2>1
  <2>3. CASE p \in PairOf(m) /\ e.outcome # "no_contest"
    <3> HIDE DEF n
    <3>1. Of(p)' = Of(p) \cup {n + 1}
      BY <1>1, <2>1, <2>2, <2>3 DEF Of
    <3> QED BY <1>3, <2>3, <3>1 DEF n
  <2>4. CASE ~(p \in PairOf(m) /\ e.outcome # "no_contest")
    <3> HIDE DEF n
    <3> QED BY <1>1, <2>1, <2>2, <2>4 DEF Of
  <2> QED BY <2>3, <2>4
<1> QED BY <1>2, <1>3

(* What earlier events left stays what it was. *)
LEMMA LeftStays ==
    ASSUME RatingLimits, RatingInv, NEW m \in Matches, NEW e, NEW w, CommitIs(m, e, w),
           NEW p, NEW s \in SUBSET (1..Len(events))
    PROVE  LeftIn(events', s, p) = LeftIn(events, s, p)
<1>1. e \in RatedEvents
  BY EventIs DEF CommitIs
<1>2. Len(events) \in Nat /\ \A i \in 1..Len(events) : events'[i] = events[i]
  BY <1>1, EventsGrow DEF CommitIs, RatingInv, RatingTyped
<1>3. CASE s = {}
  BY <1>3 DEF LeftIn
<1>4. CASE s # {}
  <2>1. LastOf(s) \in 1..Len(events)
    BY <1>2, <1>4, LastIs
  <2> QED BY <1>2, <1>4, <2>1 DEF LeftIn
<1> QED BY <1>3, <1>4

LEMMA CommitChain ==
    ASSUME RatingLimits, RatingInv, NEW m \in Matches, NEW e, NEW w, CommitIs(m, e, w), CommitFacts(m, e, w)
    PROVE  ChainInv'
<1> SUFFICES ASSUME NEW p \in Players, ~Spoilt(p)'
             PROVE  /\ elo'[p] = LeftIn(events', Of(p)', p)
                    /\ \A i \in Of(p)' : events'[i].before[p] = LeftIn(events', Earlier(p, i)', p)
  BY DEF ChainInv, LeftBy
<1>1. e \in RatedEvents
  BY EventIs DEF CommitIs
<1>0. Len(events) \in Nat
  BY <1>1, EventsGrow DEF CommitIs, RatingInv, RatingTyped
<1> PICK n \in Nat : n = Len(events)
  BY <1>0
<1>2. n \in Nat /\ DOMAIN events = 1..n /\ \A i \in 1..n : events'[i] = events[i]
  BY <1>1, EventsGrow DEF CommitIs, RatingInv, RatingTyped
<1>3. "event" \in w => events'[n + 1] = e
  BY <1>1, EventsGrow DEF CommitIs, RatingInv
<1>4. Of(p) \in SUBSET (1..n)
  BY <1>2 DEF Of
<1>5. \A i : Earlier(p, i) \in SUBSET (1..n)
  BY <1>4 DEF Earlier
<1>6. elo[p] = LeftIn(events, Of(p), p) /\ \A i \in Of(p) : events[i].before[p] = LeftIn(events, Earlier(p, i), p)
  BY DEF RatingInv, ChainInv, CommitFacts, LeftBy
<1>7. \A s \in SUBSET (1..n) : LeftIn(events', s, p) = LeftIn(events, s, p)
  BY LeftStays
<1>8. CASE Of(p)' = Of(p) /\ ~(p \in PairOf(m) /\ e.outcome # "no_contest" /\ "event" \in w)
  <2>1. p \notin w
    <3>1. SUFFICES ASSUME p \in w PROVE FALSE
      OBVIOUS
    <3>2. p \in PairOf(m)
      BY <3>1 DEF CommitFacts
    <3>3. m \notin lostCalls
      BY <3>2 DEF CommitFacts
    <3>4. p # "event"
      BY DEF RatingLimits
    <3> QED BY <1>8, <3>1, <3>2, <3>3, <3>4 DEF CommitIs
  <2>2. elo'[p] = elo[p]
    BY <2>1 DEF CommitFacts
  <2>3. \A i : Earlier(p, i)' = Earlier(p, i)
    BY <1>8 DEF Earlier
  <2>4. LeftIn(events', Of(p)', p) = LeftIn(events, Of(p), p)
    BY <1>4, <1>7, <1>8
  <2>5. \A i : LeftIn(events', Earlier(p, i)', p) = LeftIn(events, Earlier(p, i), p)
    BY <1>5, <1>7, <2>3
  <2> QED BY <1>2, <1>4, <1>6, <1>8, <2>2, <2>4, <2>5
<1>9. CASE p \in PairOf(m) /\ e.outcome # "no_contest" /\ "event" \in w /\ Of(p)' = Of(p) \cup {n + 1}
  <2>1. p \in w
    <3>1. m \notin lostCalls
      BY <1>9 DEF CommitFacts
    <3> QED BY <1>9, <3>1 DEF CommitIs, PairOf
  <2>2. elo'[p] = e.after[p] /\ elo[p] = e.before[p]
    BY <2>1 DEF CommitFacts
  <2>3. LastOf(Of(p)') = n + 1
    BY <1>2, <1>4, <1>9, LastNew
  <2>4. LeftIn(events', Of(p)', p) = e.after[p]
    <3>1. Of(p)' # {}
      BY <1>9
    <3> QED BY <1>3, <1>9, <2>3, <3>1 DEF LeftIn
  <2>5. \A i \in Of(p) : Earlier(p, i)' = Earlier(p, i)
    <3>1. \A i \in 1..n : ~(n + 1 < i)
      BY <1>2
    <3> QED BY <1>4, <1>9, <3>1 DEF Earlier
  <2>6. Earlier(p, n + 1)' = Of(p)
    <3>1. \A j \in 1..n : j < n + 1
      BY <1>2
    <3>2. ~(n + 1 < n + 1)
      BY <1>2
    <3> QED BY <1>4, <1>9, <3>1, <3>2 DEF Earlier
  <2>7. \A i \in Of(p) : events'[i].before[p] = LeftIn(events', Earlier(p, i)', p)
    BY <1>2, <1>4, <1>5, <1>6, <1>7, <2>5
  <2>8. events'[n + 1].before[p] = LeftIn(events', Earlier(p, n + 1)', p)
    BY <1>3, <1>4, <1>6, <1>7, <1>9, <2>2, <2>6
  <2> QED BY <1>9, <2>2, <2>4, <2>7, <2>8
<1> QED BY <1>8, <1>9, OfGrows

LEMMA CommitsKeeps == ASSUME RatingLimits, RatingInv, NEW m \in Matches, Commits(m) PROVE RatingInv'
<1>1. CommitIs(m, tx[m].event, tx[m].wrote)
  BY CommitsIs
<1>2. CommitFacts(m, tx[m].event, tx[m].wrote) /\ RatingTyped'
  BY <1>1, CommitFactsHold
<1>3. TxInv' /\ HeldInv'
  BY <1>1, <1>2, CommitTxs
<1>4. SnapshotInv' /\ CapInv'
  BY <1>1, <1>2, CommitSnapshots
<1>5. ChainInv'
  BY <1>1, <1>2, CommitChain
<1> QED BY <1>2, <1>3, <1>4, <1>5 DEF RatingInv

LEMMA RatingRests == ASSUME RatingInv, UNCHANGED ratingVars PROVE RatingInv'
<1>1. /\ elo' = elo /\ version' = version /\ events' = events /\ tx' = tx /\ lostCalls' = lostCalls
  BY DEF ratingVars
<1>2. Failed' = Failed /\ RatingTyped'
  BY <1>1 DEF Failed, RatingInv, RatingTyped
<1>3. ChainInv' /\ CapInv'
  BY <1>1, <1>2, BooksStay
<1>4. TxInv'
  BY <1>1 DEF RatingInv, TxInv, Rating, EventFits, HasWritten
<1>5. HeldInv'
  BY <1>1 DEF RatingInv, HeldInv
<1>6. SnapshotInv'
  <2>1. \A s : PairEvents(s)' = PairEvents(s)
    BY <1>1 DEF PairEvents
  <2>2. \A p : Spoilt(p)' <=> Spoilt(p)
    BY <1>2 DEF Spoilt
  <2> QED BY <1>1, <2>1, <2>2 DEF RatingInv, SnapshotInv, Rating
<1> QED BY <1>2, <1>3, <1>4, <1>5, <1>6 DEF RatingInv

LEMMA RatingGoesOn == RatingLimits /\ RatingInv /\ [RatingNext]_ratingVars => RatingInv'
<1> SUFFICES ASSUME RatingLimits, RatingInv, [RatingNext]_ratingVars PROVE RatingInv'
  OBVIOUS
<1>1. CASE RatingNext
  <2>1. PICK m \in Matches : \/ BeginsRating(m) \/ CreatesEvent(m) \/ UpdatesFirst(m)
                             \/ UpdatesSecond(m) \/ LosesCall(m) \/ Undone(m) \/ Commits(m)
    BY <1>1 DEF RatingNext
  <2>2. CASE BeginsRating(m)
    BY <2>2, BeginsKeeps
  <2>3. CASE CreatesEvent(m)
    BY <2>3, CreatesEventKeeps
  <2>4. CASE UpdatesFirst(m) \/ UpdatesSecond(m)
    BY <2>4, UpdatesKeeps
  <2>5. CASE LosesCall(m)
    BY <2>5, LosesCallKeeps
  <2>6. CASE Undone(m)
    BY <2>6, UndoneKeeps
  <2>7. CASE Commits(m)
    BY <2>7, CommitsKeeps
  <2> QED BY <2>1, <2>2, <2>3, <2>4, <2>5, <2>6, <2>7
<1>2. CASE UNCHANGED ratingVars
  BY <1>2, RatingRests
<1> QED BY <1>1, <1>2

LEMMA RatingsAreRight == RatingInv => RatingsFollowEvents
<1> SUFFICES ASSUME RatingInv PROVE RatingsFollowEvents
  OBVIOUS
<1>1. \A p : Sound(p) => ~Spoilt(p)
  BY DEF Sound, Spoilt, Failed
<1>2. ASSUME NEW p \in Players, Sound(p)
      PROVE  LET mine == Of(p)
             IN /\ elo[p] = IF mine = {} THEN StartingRating ELSE events[LastOf(mine)].after[p]
                /\ \A i \in mine :
                      LET earlier == {j \in mine : j < i}
                      IN events[i].before[p] = IF earlier = {} THEN StartingRating
                                               ELSE events[LastOf(earlier)].after[p]
  BY <1>1, <1>2 DEF RatingInv, ChainInv, LeftBy, LeftIn, Earlier
<1>3. \A m \in Matches : (\A p \in PairOf(m) : Sound(p)) => Cardinality(PairEvents(PairOf(m))) <= HalfLimit
  BY <1>1 DEF RatingInv, CapInv
<1> QED BY <1>2, <1>3 DEF RatingsFollowEvents

(* rating.service.ts, user.service.ts: whatever the matches, their outcomes and the
   conflicts of their transactions, a player's events follow on each other and on the
   rating, and a pair is rated no more often than its limit allows. *)
THEOREM RatingsStayTrue == ASSUME RatingLimits PROVE RatingSpec => []RatingsFollowEvents
<1>1. RatingInit => RatingInv
  BY RatingStarts
<1>2. RatingInv /\ [RatingNext]_ratingVars => RatingInv'
  BY RatingGoesOn
<1>3. RatingInv => RatingsFollowEvents
  BY RatingsAreRight
<1> QED BY <1>1, <1>2, <1>3, PTL DEF RatingSpec

-----------------------------------------------------------------------------
(* The deposit panel. *)

Panels == [step : {"amount", "review", "details", "pending", "confirmed"},
           memo : 0..MaxMemos, loading : BOOLEAN, sending : BOOLEAN]
Asks    == [id : Nat, memo : 0..MaxMemos]
Wallets == [memo : Memos, at : {"prepare", "ask", "sent", "failed"}]
PollSteps == {"asked", "unseen", "confirmed", "expired", "pending"}
Polls   == [memo : Memos, at : PollSteps, live : BOOLEAN]

FlowTyped ==
    /\ made \in 0..MaxMemos
    /\ paid \subseteq Memos /\ paidLate \subseteq Memos /\ twice \subseteq Memos
    /\ credited \subseteq Memos /\ lapsed \subseteq Memos /\ said \subseteq Memos
    /\ panel \in Panels /\ asks \subseteq Asks /\ wallets \subseteq Wallets /\ polls \subseteq Polls
    /\ creditedMemo \in 0..MaxMemos /\ refreshes \in [Memos -> Nat]
    /\ IsFiniteSet(asks) /\ made + Cardinality({a \in asks : a.memo = NoMemo}) <= MaxMemos

ShapeInv == /\ panel.step \in {"amount", "review"} => panel.memo = NoMemo
            /\ panel.step \in {"details", "confirmed"} => panel.memo # NoMemo

(* A poll that counts asks for the memo the panel waits for. *)
PollOK(p) == /\ p.live = TRUE => panel.step = "pending" /\ panel.memo = p.memo
             /\ p.at = "confirmed" => p.memo \in credited
             /\ p.at = "expired" => p.memo \in lapsed
PollsInv == \A p \in polls : PollOK(p)

(* Nothing has happened yet to a memo that is still to come, or on its way. *)
Unused(m) == /\ m \notin paid \cup paidLate \cup said
             /\ panel.memo # m /\ refreshes[m] = 0
             /\ \A w \in wallets : w.memo # m
NewInv == /\ \A m \in Memos : m > made => Unused(m)
          /\ \A a \in asks : a.memo # NoMemo => a.memo <= made /\ Unused(a.memo)
          /\ \A a, b \in asks : a.memo # NoMemo /\ a.memo = b.memo => a = b

RefreshInv ==
    /\ panel.step = "confirmed" => panel.memo \in credited /\ refreshes[panel.memo] = 1
    /\ creditedMemo # NoMemo => refreshes[creditedMemo] = 1
    /\ \A m \in Memos : /\ refreshes[m] \in {0, 1}
                        /\ refreshes[m] = 1 => m = creditedMemo \/ panel.memo # m

SaidInv ==
    /\ panel.step = "pending" /\ panel.memo # NoMemo =>
          panel.memo \in said \/ Lost(panel.memo, "mistaken")
    /\ \A m \in said : \/ panel.memo = m /\ panel.step \in {"pending", "confirmed"}
                       \/ \E why \in {"turned", "expired"} : Lost(m, why)
    /\ \A m \in Memos : Lost(m, "expired") => m \in lapsed

(* A memo no excuse is needed for, has one payment, and the panel waits for its report
   before it lets the user ask for another. *)
Clear(m) == ~\E why \in {"turned", "unheard", "mistaken"} : Lost(m, why)
PayInv ==
    /\ \A w \in wallets :
          /\ panel.memo = w.memo \/ \E why \in {"turned", "expired"} : Lost(w.memo, why)
          /\ Clear(w.memo) =>
                /\ panel.memo = w.memo /\ panel.step = "details" /\ panel.sending = TRUE
                /\ \A v \in wallets : v.memo = w.memo => v = w
                /\ w.at # "sent" => w.memo \notin paid \cup paidLate
    /\ panel.step = "details" /\ panel.sending = FALSE /\ Clear(panel.memo) =>
          panel.memo \notin paid \cup paidLate
    /\ \A m \in twice : ~Clear(m)

FlowInv == FlowTyped /\ ShapeInv /\ PollsInv /\ NewInv /\ RefreshInv /\ SaidInv /\ PayInv

FlowLimits == MaxMemos \in Nat

LEMMA FlowStarts == FlowLimits /\ FlowInit => FlowInv
<1> SUFFICES ASSUME FlowLimits, FlowInit PROVE FlowInv
  OBVIOUS
<1>1. panel \in Panels /\ panel.step = "amount" /\ panel.memo = 0 /\ panel.sending = FALSE
  BY DEF FlowInit, FreshPanel, Panels, NoMemo, FlowLimits
<1>2. {a \in asks : a.memo = NoMemo} = {} /\ Cardinality({}) = 0 /\ IsFiniteSet({})
  BY FS_EmptySet DEF FlowInit
<1>3. FlowTyped
  BY <1>1, <1>2 DEF FlowInit, FlowTyped, FlowLimits, NoMemo, Memos
<1>4. ShapeInv /\ PollsInv /\ SaidInv /\ PayInv
  BY <1>1 DEF FlowInit, ShapeInv, PollsInv, SaidInv, PayInv, NoMemo, Lost
<1>5. NewInv
  BY <1>1 DEF FlowInit, NewInv, Unused, Memos, FlowLimits
<1>6. RefreshInv
  BY <1>1 DEF FlowInit, RefreshInv, NoMemo
<1> QED BY <1>3, <1>4, <1>5, <1>6 DEF FlowInv

(* What the polls are when the panel becomes another. *)
LEMMA BecomesKeeps ==
    ASSUME FlowLimits, FlowInv, NEW t \in Panels, Becomes(t), UNCHANGED <<credited, lapsed>>
    PROVE  panel' = t /\ polls' \subseteq Polls /\ PollsInv'
<1>1. panel' = t /\ panel \in Panels /\ polls \subseteq Polls
  BY DEF Becomes, FlowInv, FlowTyped
<1>2. \A p \in polls : PollOK(p)
  BY DEF FlowInv, PollsInv
<1>3. CASE Following(t) = Following(panel)
  <2>1. polls' = polls
    BY <1>3 DEF Becomes
  <2>2. ASSUME NEW p \in polls PROVE PollOK(p)'
    <3>1. PollOK(p) /\ p.memo \in Memos
      BY <1>1, <1>2 DEF Polls
    <3>2. p.live = TRUE => t.step = "pending" /\ t.memo = p.memo
      <4> SUFFICES ASSUME p.live = TRUE PROVE t.step = "pending" /\ t.memo = p.memo
        OBVIOUS
      <4>1. panel.step = "pending" /\ panel.memo = p.memo
        BY <3>1 DEF PollOK
      <4>2. p.memo # NoMemo
        BY <3>1 DEF Memos, NoMemo, FlowLimits
      <4> QED BY <1>3, <4>1, <4>2 DEF Following
    <3> QED BY <1>1, <3>1, <3>2 DEF PollOK
  <2> QED BY <1>1, <2>1, <2>2 DEF PollsInv
<1>4. CASE Following(t) # Following(panel)
  <2>1. polls' = Aborted(polls) \cup (IF Following(t) = NoMemo THEN {} ELSE {Poll(Following(t))})
    BY <1>4 DEF Becomes
  <2>2. ASSUME NEW q \in Aborted(polls) PROVE q \in Polls /\ PollOK(q)'
    <3>1. PICK p \in polls : q = [p EXCEPT !.live = FALSE]
      BY <2>2 DEF Aborted
    <3>2. q \in Polls /\ q.live = FALSE /\ q.memo = p.memo /\ q.at = p.at
      BY <1>1, <3>1 DEF Polls
    <3> QED BY <1>2, <3>2 DEF PollOK
  <2>3. ASSUME Following(t) # NoMemo
        PROVE  Poll(Following(t)) \in Polls /\ PollOK(Poll(Following(t)))'
    <3>1. t.step = "pending" /\ t.memo = Following(t) /\ t.memo \in Memos
      BY <2>3 DEF Following, Panels, Memos, NoMemo, FlowLimits
    <3> QED BY <1>1, <3>1 DEF Poll, Polls, PollSteps, PollOK
  <2> QED BY <1>1, <2>1, <2>2, <2>3 DEF PollsInv
<1> QED BY <1>3, <1>4

LEMMA FlowIs ==
    ASSUME FlowLimits, FlowInv
    PROVE  /\ panel \in Panels /\ panel.memo \in 0..MaxMemos /\ panel.sending \in BOOLEAN
           /\ panel.loading \in BOOLEAN
           /\ panel.step \in {"amount", "review", "details", "pending", "confirmed"}
           /\ made \in Nat /\ MaxMemos \in Nat /\ NoMemo = 0 /\ Memos = 1..MaxMemos
BY DEF FlowInv, FlowTyped, Panels, FlowLimits, NoMemo, Memos

(* A panel that stays with its memo, or with none. *)
LEMMA SameMemoKeeps ==
    ASSUME FlowLimits, FlowInv, NEW t \in Panels, Becomes(t), t.memo = panel.memo,
           t.step \in {"amount", "review"} => t.memo = NoMemo,
           t.step \in {"details", "confirmed"} => t.memo # NoMemo,
           t.step = "confirmed" => panel.step = "confirmed",
           UNCHANGED <<Books, Balances>>,
           wallets' = wallets, said' = said, excused' = excused
    PROVE  /\ panel' = t /\ polls' \subseteq Polls /\ ShapeInv' /\ PollsInv' /\ RefreshInv'
           /\ \A m : Unused(m)' <=> Unused(m)
           /\ made' = made
<1>1. panel' = t /\ polls' \subseteq Polls /\ PollsInv'
  BY BecomesKeeps DEF Books
<1>2. ShapeInv'
  BY <1>1 DEF ShapeInv
<1>3. RefreshInv'
  BY <1>1 DEF RefreshInv, FlowInv, Books, Balances
<1>4. \A m : Unused(m)' <=> Unused(m)
  BY <1>1 DEF Unused, Books, Balances
<1> QED BY <1>1, <1>2, <1>3, <1>4 DEF Books

LEMMA ReviewKeeps == ASSUME FlowLimits, FlowInv, Review PROVE FlowInv'
<1> PICK t : t = [panel EXCEPT !.step = "review", !.memo = NoMemo, !.loading = FALSE]
  OBVIOUS
<1>1. /\ panel.memo = NoMemo /\ t \in Panels /\ t.memo = panel.memo
      /\ t.step = "review" /\ t.sending = panel.sending
  BY FlowIs DEF Review, FlowInv, ShapeInv, Panels
<1>2. /\ Becomes(t) /\ UNCHANGED <<Books, Balances>> /\ asks' = asks /\ wallets' = wallets
      /\ said' = said /\ excused' = excused
  BY DEF Review, Trail
<1>3. /\ panel' = t /\ polls' \subseteq Polls /\ ShapeInv' /\ PollsInv' /\ RefreshInv'
      /\ (\A m : Unused(m)' <=> Unused(m)) /\ made' = made
  BY <1>1, <1>2, SameMemoKeeps
<1>4. FlowTyped'
  BY <1>1, <1>2, <1>3 DEF FlowInv, FlowTyped, Books, Balances
<1>5. NewInv'
  BY <1>2, <1>3 DEF FlowInv, NewInv
<1>6. SaidInv'
  BY <1>1, <1>2, <1>3, FlowIs DEF FlowInv, SaidInv, Lost, Books, Review, FlowTyped
<1>7. PayInv'
  BY <1>1, <1>2, <1>3, FlowIs DEF FlowInv, PayInv, Clear, Lost, Books, Review, FlowTyped
<1> QED BY <1>3, <1>4, <1>5, <1>6, <1>7 DEF FlowInv

LEMMA GenerateKeeps == ASSUME FlowLimits, FlowInv, Generate PROVE FlowInv'
<1> PICK t : t = [panel EXCEPT !.loading = TRUE]
  OBVIOUS
<1>1. /\ t \in Panels /\ t.memo = panel.memo /\ panel.step = "review"
      /\ t.step = "review" /\ t.sending = panel.sending /\ panel.memo = NoMemo
  BY FlowIs DEF Generate, FlowInv, ShapeInv, Panels
<1>2. /\ Becomes(t) /\ UNCHANGED <<Books, Balances>> /\ wallets' = wallets
      /\ said' = said /\ excused' = excused /\ made + Cardinality(asks) < MaxMemos
  BY DEF Generate, Trail
<1>3. /\ panel' = t /\ polls' \subseteq Polls /\ ShapeInv' /\ PollsInv' /\ RefreshInv'
      /\ (\A m : Unused(m)' <=> Unused(m)) /\ made' = made
  BY <1>1, <1>2, SameMemoKeeps
<1>4. PICK a : a.memo = NoMemo /\ a \in Asks /\ asks' = asks \cup {a}
  <2>1. PICK i \in 1..MaxMemos : asks' = asks \cup {[id |-> i, memo |-> NoMemo]}
    BY DEF Generate
  <2> PICK a : a = [id |-> i, memo |-> NoMemo]
    OBVIOUS
  <2>2. a.memo = NoMemo /\ a \in Asks
    BY FlowIs DEF Asks
  <2> QED BY <2>1, <2>2
<1>5. IsFiniteSet(asks') /\ made' + Cardinality({b \in asks' : b.memo = NoMemo}) <= MaxMemos
  <2>1. IsFiniteSet(asks) /\ Cardinality(asks) \in Nat
    BY FS_CardinalityType DEF FlowInv, FlowTyped
  <2>2. IsFiniteSet(asks') /\ Cardinality(asks') \in Nat /\ Cardinality(asks') <= Cardinality(asks) + 1
    BY <1>4, <2>1, FS_AddElement
  <2> DEFINE open == {b \in asks' : b.memo = NoMemo}
  <2>3. open \subseteq asks'
    OBVIOUS
  <2>4. Cardinality(open) \in Nat /\ Cardinality(open) <= Cardinality(asks')
    BY <2>2, <2>3, FS_Subset, FS_CardinalityType
  <2> HIDE DEF open
  <2>5. made + Cardinality(open) <= MaxMemos
    BY <1>2, <2>1, <2>2, <2>4, FlowIs
  <2> QED BY <1>3, <2>2, <2>5 DEF open
<1>6. FlowTyped'
  BY <1>1, <1>2, <1>3, <1>4, <1>5 DEF FlowInv, FlowTyped, Books, Balances
<1>7. NewInv'
  BY <1>3, <1>4 DEF FlowInv, NewInv
<1>8. SaidInv'
  BY <1>1, <1>2, <1>3, FlowIs DEF FlowInv, SaidInv, Lost, Books, FlowTyped
<1>9. PayInv'
  BY <1>1, <1>2, <1>3, FlowIs DEF FlowInv, PayInv, Clear, Lost, Books, FlowTyped
<1> QED BY <1>3, <1>6, <1>7, <1>8, <1>9 DEF FlowInv

LEMMA PayInWalletKeeps == ASSUME FlowLimits, FlowInv, PayInWallet PROVE FlowInv'
<1> PICK t : t = [panel EXCEPT !.sending = TRUE]
  OBVIOUS
<1> PICK w : w = [memo |-> panel.memo, at |-> "prepare"]
  OBVIOUS
<1>1. /\ t \in Panels /\ t.memo = panel.memo /\ panel.step = "details" /\ t.step = "details"
      /\ t.sending = TRUE /\ panel.sending = FALSE /\ panel.memo # NoMemo
  BY FlowIs DEF PayInWallet, FlowInv, ShapeInv, Panels
<1>2. /\ Becomes(t) /\ UNCHANGED <<Books, Balances>> /\ wallets' = wallets \cup {w}
      /\ said' = said /\ excused' = excused /\ asks' = asks
  BY DEF PayInWallet, Trail
<1>3. w \in Wallets /\ w.memo = panel.memo /\ w.memo \in Memos /\ w.at = "prepare"
  BY <1>1, FlowIs DEF Wallets
<1>4. panel' = t /\ polls' \subseteq Polls /\ PollsInv'
  BY <1>1, <1>2, BecomesKeeps DEF Books
<1>5. FlowTyped'
  BY <1>1, <1>2, <1>3, <1>4 DEF FlowInv, FlowTyped, Books, Balances
<1>6. ShapeInv' /\ RefreshInv'
  BY <1>1, <1>2, <1>4 DEF FlowInv, ShapeInv, RefreshInv, Books, Balances
<1>7. \A m : Unused(m) => Unused(m)'
  BY <1>1, <1>2, <1>3, <1>4 DEF Unused, Books, Balances
<1>8. NewInv'
  BY <1>2, <1>7 DEF FlowInv, NewInv, Books
<1>9. SaidInv'
  BY <1>1, <1>2, <1>4 DEF FlowInv, SaidInv, Lost, Books
<1>10. PayInv'
  <2>1. \A m : Clear(m)' <=> Clear(m)
    BY <1>2 DEF Clear, Lost
  <2>2. Clear(panel.memo) => panel.memo \notin paid \cup paidLate
    BY <1>1 DEF FlowInv, PayInv
  <2>3. \A v \in wallets : ~Clear(v.memo)
    BY <1>1 DEF FlowInv, PayInv
  <2> QED BY <1>1, <1>2, <1>3, <1>4, <2>1, <2>2, <2>3 DEF FlowInv, PayInv, Books, Lost
<1> QED BY <1>4, <1>5, <1>6, <1>8, <1>9, <1>10 DEF FlowInv

LEMMA SayItIsSentKeeps == ASSUME FlowLimits, FlowInv, SayItIsSent PROVE FlowInv'
<1> PICK t : t = [panel EXCEPT !.step = "pending"]
  OBVIOUS
<1>1. /\ t \in Panels /\ t.memo = panel.memo /\ panel.step = "details" /\ t.step = "pending"
      /\ t.sending = FALSE /\ panel.sending = FALSE /\ panel.memo # NoMemo /\ panel.memo \in Memos
  BY FlowIs DEF SayItIsSent, FlowInv, ShapeInv, Panels
<1>2. /\ Becomes(t) /\ UNCHANGED <<Books, Balances>> /\ wallets' = wallets
      /\ said' = said \cup {panel.memo} /\ excused' = excused /\ asks' = asks
  BY DEF SayItIsSent
<1>3. panel' = t /\ polls' \subseteq Polls /\ PollsInv'
  BY <1>1, <1>2, BecomesKeeps DEF Books
<1>4. FlowTyped'
  BY <1>1, <1>2, <1>3 DEF FlowInv, FlowTyped, Books, Balances
<1>5. ShapeInv' /\ RefreshInv'
  BY <1>1, <1>2, <1>3 DEF FlowInv, ShapeInv, RefreshInv, Books, Balances
<1>6. \A m : Unused(m) => Unused(m)'
  BY <1>1, <1>2, <1>3 DEF Unused, Books, Balances
<1>7. NewInv'
  BY <1>2, <1>6 DEF FlowInv, NewInv, Books
<1>8. SaidInv'
  BY <1>1, <1>2, <1>3 DEF FlowInv, SaidInv, Lost, Books
<1>9. PayInv'
  <2>1. \A m : Clear(m)' <=> Clear(m)
    BY <1>2 DEF Clear, Lost
  <2>2. \A v \in wallets : ~Clear(v.memo)
    BY <1>1 DEF FlowInv, PayInv
  <2> QED BY <1>1, <1>2, <1>3, <2>1, <2>2 DEF FlowInv, PayInv, Books, Lost
<1> QED BY <1>3, <1>4, <1>5, <1>7, <1>8, <1>9 DEF FlowInv

(* Fewer requests under way leave room for their memos. *)
LEMMA FewerAsks ==
    ASSUME FlowLimits, FlowInv, NEW s \in SUBSET asks
    PROVE  IsFiniteSet(s) /\ made + Cardinality({b \in s : b.memo = NoMemo}) <= MaxMemos
<1> DEFINE open == {b \in asks : b.memo = NoMemo}
           less == {b \in s : b.memo = NoMemo}
<1>1. IsFiniteSet(asks) /\ made + Cardinality(open) <= MaxMemos
  BY DEF FlowInv, FlowTyped
<1>2. open \subseteq asks /\ less \subseteq open
  OBVIOUS
<1> HIDE DEF open, less
<1>3. IsFiniteSet(s) /\ IsFiniteSet(open)
  BY <1>1, <1>2, FS_Subset
<1>4. IsFiniteSet(less) /\ Cardinality(less) <= Cardinality(open)
  BY <1>2, <1>3, FS_Subset
<1>5. Cardinality(open) \in Nat /\ Cardinality(less) \in Nat
  BY <1>3, <1>4, FS_CardinalityType
<1>6. made + Cardinality(less) <= MaxMemos
  BY <1>1, <1>4, <1>5, FlowIs
<1> QED BY <1>3, <1>6 DEF less

LEMMA DetailsFailedKeeps ==
    ASSUME FlowLimits, FlowInv, NEW a \in asks, DetailsFailed(a)
    PROVE  FlowInv'
<1> PICK t : t = [panel EXCEPT !.loading = FALSE]
  OBVIOUS
<1>1. t \in Panels /\ t.memo = panel.memo /\ t.step = panel.step /\ t.sending = panel.sending
  BY FlowIs DEF Panels
<1>2. /\ Becomes(t) /\ UNCHANGED <<Books, Balances>> /\ wallets' = wallets
      /\ said' = said /\ excused' = excused /\ asks' = asks \ {a}
  BY DEF DetailsFailed, Trail
<1>3. /\ panel' = t /\ polls' \subseteq Polls /\ ShapeInv' /\ PollsInv' /\ RefreshInv'
      /\ (\A m : Unused(m)' <=> Unused(m)) /\ made' = made
  BY <1>1, <1>2, SameMemoKeeps DEF FlowInv, ShapeInv
<1>4. IsFiniteSet(asks') /\ made' + Cardinality({b \in asks' : b.memo = NoMemo}) <= MaxMemos
  BY <1>2, <1>3, FewerAsks
<1>5. FlowTyped'
  BY <1>1, <1>2, <1>3, <1>4 DEF FlowInv, FlowTyped, Books, Balances
<1>6. NewInv'
  BY <1>2, <1>3 DEF FlowInv, NewInv
<1>7. SaidInv'
  BY <1>1, <1>2, <1>3 DEF FlowInv, SaidInv, Lost, Books
<1>8. PayInv'
  <2>1. \A m : Clear(m)' <=> Clear(m)
    BY <1>2 DEF Clear, Lost
  <2> QED BY <1>1, <1>2, <1>3, <2>1 DEF FlowInv, PayInv, Lost, Books
<1> QED BY <1>3, <1>5, <1>6, <1>7, <1>8 DEF FlowInv

LEMMA GeneratesKeeps ==
    ASSUME FlowLimits, FlowInv, NEW a \in asks, Generates(a)
    PROVE  FlowInv'
<1> PICK b : b = [a EXCEPT !.memo = made + 1]
  OBVIOUS
<1> PICK k \in Nat : k = made
  BY FlowIs
<1>1. /\ a.memo = NoMemo /\ made' = k + 1 /\ asks' = (asks \ {a}) \cup {b}
      /\ UNCHANGED <<paid, paidLate, twice, credited, lapsed, panel, wallets, polls, creditedMemo,
                     refreshes, said, excused>>
  BY DEF Generates, Trail, Balances
<1> DEFINE open == {c \in asks : c.memo = NoMemo}
           left == {c \in asks' : c.memo = NoMemo}
<1>2. IsFiniteSet(open) /\ a \in open /\ Cardinality(open) \in Nat /\ k + Cardinality(open) <= MaxMemos
  BY <1>1, FS_Subset, FS_CardinalityType DEF FlowInv, FlowTyped
<1>3. Cardinality(open \ {a}) = Cardinality(open) - 1 /\ IsFiniteSet(open \ {a})
  <2> HIDE DEF open
  <2> QED BY <1>2, FS_RemoveElement
<1>4. Cardinality(open \ {a}) \in Nat
  BY <1>3, FS_CardinalityType
<1>5. k + 1 <= MaxMemos /\ k + 1 \in Memos /\ k + 1 # NoMemo /\ k + 1 \in 0..MaxMemos
  <2> HIDE DEF open
  <2> QED BY <1>2, <1>3, <1>4, FlowIs
<1>6. b \in Asks /\ b.memo = k + 1
  BY <1>5 DEF FlowInv, FlowTyped, Asks
<1>7. left = open \ {a}
  BY <1>1, <1>5, <1>6
<1>8. IsFiniteSet(asks') /\ (k + 1) + Cardinality(left) <= MaxMemos
  <2>1. IsFiniteSet(asks \ {a})
    BY FS_Subset DEF FlowInv, FlowTyped
  <2>2. IsFiniteSet(asks')
    BY <1>1, <2>1, FS_AddElement
  <2> HIDE DEF open, left
  <2>3. (k + 1) + Cardinality(left) <= MaxMemos
    BY <1>2, <1>3, <1>4, <1>7, FlowIs
  <2> QED BY <2>2, <2>3
<1>9. FlowTyped'
  BY <1>1, <1>5, <1>6, <1>8 DEF FlowInv, FlowTyped
<1>10. \A m : Unused(m)' <=> Unused(m)
  BY <1>1 DEF Unused
<1>11. NewInv'
  <2>1. Unused(k + 1)
    BY <1>5 DEF FlowInv, NewInv
  <2>2. \A c \in asks : c.memo # NoMemo => c.memo <= k /\ c.memo # k + 1 /\ c.memo <= k + 1
    BY FlowIs DEF FlowInv, NewInv, FlowTyped, Asks
  <2>3. \A m \in Memos : m > k + 1 => Unused(m)
    BY FlowIs DEF FlowInv, NewInv
  <2>4. \A c \in asks' : c.memo # NoMemo => c.memo <= k + 1 /\ Unused(c.memo)
    <3>1. \A c \in asks : c.memo # NoMemo => c.memo <= k + 1 /\ Unused(c.memo)
      BY <2>2 DEF FlowInv, NewInv
    <3>2. b.memo <= k + 1 /\ Unused(b.memo)
      BY <1>6, <2>1
    <3> QED BY <1>1, <3>1, <3>2
  <2>5. \A c, d \in asks' : c.memo # NoMemo /\ c.memo = d.memo => c = d
    BY <1>1, <1>6, <2>2 DEF FlowInv, NewInv
  <2> QED BY <1>1, <1>10, <2>3, <2>4, <2>5 DEF NewInv
<1>12. ShapeInv' /\ PollsInv' /\ RefreshInv'
  BY <1>1 DEF FlowInv, ShapeInv, PollsInv, PollOK, RefreshInv
<1>13. SaidInv' /\ PayInv'
  BY <1>1 DEF FlowInv, SaidInv, PayInv, Clear, Lost
<1> QED BY <1>9, <1>11, <1>12, <1>13 DEF FlowInv

LEMMA ForgetsIs ==
    ASSUME NEW why
    PROVE  /\ excused \subseteq Forgets(why)
           /\ panel.memo # NoMemo => <<panel.memo, why>> \in Forgets(why)
           /\ \A m, y : <<m, y>> \in Forgets(why) => <<m, y>> \in excused \/ (m = panel.memo /\ y = why)
BY DEF Forgets

(* What a panel gives up by turning to no memo, or to another. *)
LEMMA ForgetsKeeps ==
    ASSUME FlowLimits, FlowInv, NEW t \in Panels, panel' = t, NEW why \in {"turned", "expired"},
           t.memo # panel.memo \/ panel.memo = NoMemo,
           why = "expired" => panel.memo \in lapsed /\ panel.step = "pending",
           excused' = Forgets(why), UNCHANGED <<Books, wallets, said>>,
           t.step \in {"amount", "details"},
           t.step = "details" => t.memo \notin paid \cup paidLate
    PROVE  SaidInv' /\ PayInv'
<1> PICK old : old = panel.memo
  OBVIOUS
<1>1. /\ \A m, y : Lost(m, y) => Lost(m, y)'
      /\ old # NoMemo => Lost(old, why)'
      /\ \A m, y : Lost(m, y)' => Lost(m, y) \/ (m = old /\ y = why)
  BY ForgetsIs DEF Lost
<1>2. \A m : Clear(m)' => Clear(m)
  BY <1>1 DEF Clear
<1>3. said \subseteq Memos /\ NoMemo \notin Memos /\ wallets \subseteq Wallets
  BY FlowIs DEF FlowInv, FlowTyped
<1>4. SaidInv'
  <2>1. ASSUME NEW m \in said PROVE \E y \in {"turned", "expired"} : Lost(m, y)'
    BY <1>1, <1>3 DEF FlowInv, SaidInv
  <2>2. ASSUME NEW m \in Memos, Lost(m, "expired")' PROVE m \in lapsed
    BY <1>1, <2>2 DEF FlowInv, SaidInv
  <2> QED BY <2>1, <2>2 DEF SaidInv, Books
<1>5. PayInv'
  <2>1. ASSUME NEW w \in wallets PROVE \E y \in {"turned", "expired"} : Lost(w.memo, y)'
    <3>1. w.memo # NoMemo
      BY <1>3 DEF Wallets
    <3> QED BY <1>1, <3>1 DEF FlowInv, PayInv
  <2>2. ASSUME NEW w \in wallets, Clear(w.memo)' PROVE FALSE
    <3>1. Clear(w.memo) /\ w.memo # NoMemo
      BY <1>2, <1>3, <2>2 DEF Wallets
    <3>2. old = w.memo /\ panel.step = "details"
      BY <3>1 DEF FlowInv, PayInv
    <3>3. Lost(w.memo, "turned")'
      BY <1>1, <3>1, <3>2
    <3> QED BY <2>2, <3>3 DEF Clear
  <2>3. \A m \in twice : ~Clear(m)'
    BY <1>2 DEF FlowInv, PayInv
  <2> QED BY <2>1, <2>2, <2>3 DEF PayInv, Books
<1> QED BY <1>4, <1>5

LEMMA FreshPanelIs ==
    ASSUME FlowLimits
    PROVE  FreshPanel \in Panels /\ FreshPanel.step = "amount" /\ FreshPanel.memo = NoMemo
           /\ FreshPanel.sending = FALSE
BY DEF FreshPanel, Panels, NoMemo, FlowLimits

(* The panel begins anew. *)
LEMMA AnewKeeps ==
    ASSUME FlowLimits, FlowInv, Becomes(FreshPanel), NEW why \in {"turned", "expired"},
           why = "expired" => panel.memo \in lapsed /\ panel.step = "pending",
           excused' = Forgets(why), UNCHANGED <<Books, asks, wallets, Balances, said>>
    PROVE  FlowInv'
<1> PICK t : t = FreshPanel
  OBVIOUS
<1>1. t \in Panels /\ t.step = "amount" /\ t.memo = NoMemo /\ t.sending = FALSE
  BY FreshPanelIs
<1>2. panel' = t /\ polls' \subseteq Polls /\ PollsInv'
  BY <1>1, BecomesKeeps DEF Books
<1>3. SaidInv' /\ PayInv'
  BY <1>1, <1>2, ForgetsKeeps
<1>4. FlowTyped'
  BY <1>1, <1>2 DEF FlowInv, FlowTyped, Books, Balances
<1>5. ShapeInv' /\ RefreshInv'
  BY <1>1, <1>2, FlowIs DEF FlowInv, ShapeInv, RefreshInv, Books, Balances
<1>6. ASSUME NEW m, m # NoMemo, Unused(m) PROVE Unused(m)'
  BY <1>1, <1>2, <1>6 DEF Unused, Books, Balances
<1>7. NewInv'
  BY <1>6, FlowIs DEF FlowInv, NewInv, Books
<1> QED BY <1>2, <1>3, <1>4, <1>5, <1>7 DEF FlowInv

LEMMA ChangeAmountKeeps == ASSUME FlowLimits, FlowInv, ChangeAmount PROVE FlowInv'
BY AnewKeeps DEF ChangeAmount

LEMMA PollExpiresKeeps ==
    ASSUME FlowLimits, FlowInv, NEW p \in polls, PollExpires(p)
    PROVE  FlowInv'
<1>1. p.live = TRUE /\ p.at = "expired" /\ PollOK(p)
  BY DEF PollExpires, Heeds, FlowInv, FlowTyped, PollsInv, Polls
<1>2. panel.memo \in lapsed /\ panel.step = "pending"
  BY <1>1 DEF PollOK
<1> QED BY <1>2, AnewKeeps DEF PollExpires

LEMMA DetailsReadyKeeps ==
    ASSUME FlowLimits, FlowInv, NEW a \in asks, DetailsReady(a)
    PROVE  FlowInv'
<1> PICK t : t = [panel EXCEPT !.step = "details", !.memo = a.memo, !.loading = FALSE]
  OBVIOUS
<1>1. a.memo # NoMemo /\ a \in Asks /\ a.memo \in 0..MaxMemos /\ a.memo <= made /\ Unused(a.memo)
  BY DEF DetailsReady, FlowInv, FlowTyped, NewInv, Asks
<1>2. t \in Panels /\ t.step = "details" /\ t.memo = a.memo
  BY <1>1, FlowIs DEF Panels
<1>3. /\ Becomes(t) /\ asks' = asks \ {a} /\ excused' = Forgets("turned")
      /\ UNCHANGED <<Books, wallets, Balances, said>>
  BY DEF DetailsReady
<1>4. panel' = t /\ polls' \subseteq Polls /\ PollsInv'
  BY <1>2, <1>3, BecomesKeeps DEF Books
<1>5. SaidInv' /\ PayInv'
  <2>1. t.memo # panel.memo /\ t.memo \notin paid \cup paidLate
    BY <1>1, <1>2 DEF Unused
  <2> QED BY <1>2, <1>3, <1>4, <2>1, ForgetsKeeps
<1>6. IsFiniteSet(asks') /\ made + Cardinality({b \in asks' : b.memo = NoMemo}) <= MaxMemos
  BY <1>3, FewerAsks
<1>7. FlowTyped'
  BY <1>2, <1>3, <1>4, <1>6 DEF FlowInv, FlowTyped, Books, Balances
<1>8. ShapeInv' /\ RefreshInv'
  BY <1>1, <1>2, <1>3, <1>4, FlowIs DEF FlowInv, ShapeInv, RefreshInv, Books, Balances, Unused
<1>9. ASSUME NEW m, m # a.memo, Unused(m) PROVE Unused(m)'
  BY <1>2, <1>3, <1>4, <1>9 DEF Unused, Books, Balances
<1>10. NewInv'
  <2>1. \A m \in Memos : m > made => Unused(m) /\ m # a.memo
    BY <1>1, FlowIs DEF FlowInv, NewInv
  <2>2. \A c \in asks \ {a} : c.memo # NoMemo => c.memo <= made /\ Unused(c.memo) /\ c.memo # a.memo
    BY <1>1 DEF FlowInv, NewInv
  <2> QED BY <1>3, <1>9, <2>1, <2>2 DEF FlowInv, NewInv, Books
<1> QED BY <1>4, <1>5, <1>7, <1>8, <1>10 DEF FlowInv

(* A payment the wallet has not sent goes on. *)
LEMMA WalletStaysKeeps ==
    ASSUME FlowLimits, FlowInv, NEW w \in wallets, NEW to \in {"ask", "failed"},
           w.at \in {"prepare", "ask"}, WalletMoves(w, to),
           UNCHANGED <<Books, panel, asks, polls, Trail>>
    PROVE  FlowInv'
<1> PICK n : n = [w EXCEPT !.at = to]
  OBVIOUS
<1>1. /\ wallets' = (wallets \ {w}) \cup {n} /\ n \in Wallets /\ n.memo = w.memo /\ n.at = to
  BY DEF WalletMoves, FlowInv, FlowTyped, Wallets
<1>2. /\ UNCHANGED <<made, paid, paidLate, twice, credited, lapsed, panel, asks, polls, creditedMemo,
                     refreshes, said, excused>>
  BY DEF Books, Trail, Balances
<1>3. FlowTyped'
  BY <1>1, <1>2 DEF FlowInv, FlowTyped
<1>4. ShapeInv' /\ PollsInv' /\ RefreshInv' /\ SaidInv'
  BY <1>2 DEF FlowInv, ShapeInv, PollsInv, PollOK, RefreshInv, SaidInv, Lost
<1>5. \A m : Unused(m) => Unused(m)'
  BY <1>1, <1>2 DEF Unused
<1>6. NewInv'
  BY <1>2, <1>5 DEF FlowInv, NewInv
<1>7. PayInv'
  <2>1. \A m : Clear(m)' <=> Clear(m)
    BY <1>2 DEF Clear, Lost
  <2>2. ASSUME NEW v \in wallets', Clear(v.memo)'
        PROVE  /\ panel'.memo = v.memo /\ panel'.step = "details" /\ panel'.sending = TRUE
               /\ \A x \in wallets' : x.memo = v.memo => x = v
               /\ v.at # "sent" => v.memo \notin paid' \cup paidLate'
    <3>1. PICK o \in wallets : o.memo = v.memo /\ (v = o \/ (v = n /\ o = w))
      BY <1>1
    <3>2. Clear(o.memo)
      BY <2>1, <2>2, <3>1
    <3>3. /\ panel.memo = o.memo /\ panel.step = "details" /\ panel.sending = TRUE
          /\ \A x \in wallets : x.memo = o.memo => x = o
          /\ o.at # "sent" => o.memo \notin paid \cup paidLate
      BY <3>2 DEF FlowInv, PayInv
    <3> QED BY <1>1, <1>2, <3>1, <3>3
  <2>3. ASSUME NEW v \in wallets'
        PROVE  panel'.memo = v.memo \/ \E y \in {"turned", "expired"} : Lost(v.memo, y)'
    <3>1. PICK x \in wallets : x.memo = v.memo
      BY <1>1
    <3>2. panel.memo = x.memo \/ \E y \in {"turned", "expired"} : Lost(x.memo, y)
      BY DEF FlowInv, PayInv
    <3> QED BY <1>2, <3>1, <3>2 DEF Lost
  <2> QED BY <1>2, <2>1, <2>2, <2>3 DEF FlowInv, PayInv
<1> QED BY <1>3, <1>4, <1>6, <1>7 DEF FlowInv

LEMMA WalletTurnsKeeps ==
    ASSUME FlowLimits, FlowInv, NEW w \in wallets, Prepares(w) \/ WalletDeclines(w)
    PROVE  FlowInv'
<1>1. PICK to \in {"ask", "failed"} : WalletMoves(w, to)
  BY DEF Prepares, WalletDeclines
<1>2. w.at \in {"prepare", "ask"} /\ UNCHANGED <<Books, panel, asks, polls, Trail>>
  BY DEF Prepares, WalletDeclines
<1> QED BY <1>1, <1>2, WalletStaysKeeps

LEMMA WalletPaysKeeps ==
    ASSUME FlowLimits, FlowInv, NEW w \in wallets, WalletPays(w)
    PROVE  FlowInv'
<1>1. PICK to \in {"sent", "failed"} :
         /\ WalletMoves(w, to)
         /\ excused' = IF to = "failed" THEN excused \cup {<<w.memo, "unheard">>} ELSE excused
  BY DEF WalletPays
<1> PICK n : n = [w EXCEPT !.at = to]
  OBVIOUS
<1>2. wallets' = (wallets \ {w}) \cup {n} /\ n \in Wallets /\ n.memo = w.memo /\ n.at = to
      /\ w.memo \in Memos /\ wallets \subseteq Wallets
  BY <1>1 DEF WalletMoves, FlowInv, FlowTyped, Wallets
<1>3. /\ UNCHANGED <<made, credited, lapsed, panel, asks, polls, creditedMemo, refreshes, said>>
      /\ w.at = "ask"
  BY DEF WalletPays, Pays, Balances
<1>4. /\ twice' = IF w.memo \in paid \cup paidLate THEN twice \cup {w.memo} ELSE twice
      /\ paid' \cup paidLate' = paid \cup paidLate \cup {w.memo}
      /\ paid' \subseteq paid \cup {w.memo} /\ paidLate' \subseteq paidLate \cup {w.memo}
  BY DEF WalletPays, Pays
<1>5. FlowTyped'
  BY <1>2, <1>3, <1>4 DEF FlowInv, FlowTyped
<1>6. /\ \A m, y : Lost(m, y) => Lost(m, y)'
      /\ \A m, y : Lost(m, y)' => Lost(m, y) \/ y = "unheard"
      /\ \A m : m # w.memo => (Clear(m)' <=> Clear(m))
      /\ Clear(w.memo) /\ w.at # "sent" => w.memo \notin paid \cup paidLate
  BY <1>1 DEF Lost, Clear, FlowInv, PayInv
<1>7. ShapeInv' /\ PollsInv' /\ RefreshInv' /\ SaidInv'
  <2>1. ShapeInv' /\ PollsInv' /\ RefreshInv'
    BY <1>3 DEF FlowInv, ShapeInv, PollsInv, PollOK, RefreshInv
  <2>2. SaidInv'
    BY <1>3, <1>6 DEF FlowInv, SaidInv
  <2> QED BY <2>1, <2>2
<1>8. \A m : Unused(m) => Unused(m)'
  BY <1>2, <1>3, <1>4 DEF Unused
<1>9. NewInv'
  BY <1>3, <1>8 DEF FlowInv, NewInv
<1>10. PayInv'
  <2> PICK m0 : m0 = w.memo
    OBVIOUS
  <2>1. Clear(m0)' => Clear(m0) /\ to = "sent"
    BY <1>1 DEF Clear, Lost
  <2>2. ASSUME NEW v \in wallets', Clear(v.memo)'
        PROVE  /\ panel'.memo = v.memo /\ panel'.step = "details" /\ panel'.sending = TRUE
               /\ \A x \in wallets' : x.memo = v.memo => x = v
               /\ v.at # "sent" => v.memo \notin paid' \cup paidLate'
    <3>1. CASE v.memo = m0
      <4>1. Clear(w.memo) /\ to = "sent"
        BY <2>1, <2>2, <3>1
      <4>2. /\ panel.memo = w.memo /\ panel.step = "details" /\ panel.sending = TRUE
            /\ \A x \in wallets : x.memo = w.memo => x = w
        BY <4>1 DEF FlowInv, PayInv
      <4> QED BY <1>2, <1>3, <3>1, <4>1, <4>2
    <3>2. CASE v.memo # m0
      <4>1. v \in wallets /\ Clear(v.memo)
        BY <1>2, <1>6, <2>2, <3>2
      <4>2. /\ panel.memo = v.memo /\ panel.step = "details" /\ panel.sending = TRUE
            /\ \A x \in wallets : x.memo = v.memo => x = v
            /\ v.at # "sent" => v.memo \notin paid \cup paidLate
        BY <4>1 DEF FlowInv, PayInv
      <4> QED BY <1>2, <1>3, <1>4, <3>2, <4>2
    <3> QED BY <3>1, <3>2
  <2>3. ASSUME NEW v \in wallets'
        PROVE  panel'.memo = v.memo \/ \E y \in {"turned", "expired"} : Lost(v.memo, y)'
    <3>1. PICK x \in wallets : x.memo = v.memo
      BY <1>2
    <3>2. panel.memo = x.memo \/ \E y \in {"turned", "expired"} : Lost(x.memo, y)
      BY DEF FlowInv, PayInv
    <3> QED BY <1>3, <1>6, <3>1, <3>2
  <2>4. ASSUME panel'.step = "details", panel'.sending = FALSE, Clear(panel.memo)'
        PROVE  panel'.memo \notin paid' \cup paidLate'
    <3> PICK mine : mine = panel.memo
      OBVIOUS
    <3>1. Clear(mine)'
      BY <1>3, <2>4 DEF Clear, Lost
    <3>2. CASE mine = m0
      <4>1. Clear(w.memo)
        BY <2>1, <3>1, <3>2
      <4>2. panel.sending = TRUE
        BY <4>1 DEF FlowInv, PayInv
      <4> QED BY <1>3, <2>4, <4>2
    <3>3. CASE mine # m0
      <4>1. Clear(panel.memo)
        BY <1>6, <3>1, <3>3
      <4>2. panel.memo \notin paid \cup paidLate
        BY <1>3, <2>4, <4>1 DEF FlowInv, PayInv
      <4> QED BY <1>3, <1>4, <3>3, <4>2
    <3> QED BY <3>2, <3>3
  <2>5. ASSUME NEW m \in twice' PROVE ~Clear(m)'
    <3>1. CASE m \in twice
      <4>1. ~Clear(m)
        BY <3>1 DEF FlowInv, PayInv
      <4> QED BY <1>6, <4>1 DEF Clear
    <3>2. CASE m \notin twice
      <4>1. m = m0 /\ w.memo \in paid \cup paidLate
        BY <1>4, <2>5, <3>2
      <4>2. ~Clear(w.memo)
        BY <1>3, <1>6, <4>1
      <4> QED BY <2>1, <4>1, <4>2
    <3> QED BY <3>1, <3>2
  <2> QED BY <1>3, <2>2, <2>3, <2>4, <2>5 DEF PayInv
<1> QED BY <1>5, <1>7, <1>9, <1>10 DEF FlowInv

LEMMA PaysByHandKeeps == ASSUME FlowLimits, FlowInv, PaysByHand PROVE FlowInv'
<1> PICK m0 : m0 = panel.memo
  OBVIOUS
<1>1. /\ m0 \in Memos /\ m0 \notin paid \cup paidLate /\ panel.step = "details"
  BY FlowIs DEF PaysByHand, FlowInv, ShapeInv
<1>2. /\ UNCHANGED <<made, credited, lapsed, panel, asks, wallets, polls, creditedMemo, refreshes, said, twice>>
      /\ excused' = excused \cup {<<m0, "unheard">>}
  BY <1>1 DEF PaysByHand, Pays, Balances
<1>3. /\ paid' \cup paidLate' = paid \cup paidLate \cup {m0}
      /\ paid' \subseteq paid \cup {m0} /\ paidLate' \subseteq paidLate \cup {m0}
  BY DEF PaysByHand, Pays
<1>4. FlowTyped'
  BY <1>1, <1>2, <1>3 DEF FlowInv, FlowTyped
<1>5. /\ \A m, y : Lost(m, y) => Lost(m, y)'
      /\ \A m, y : Lost(m, y)' => Lost(m, y) \/ y = "unheard"
      /\ ~Clear(m0)' /\ \A m : Clear(m)' => Clear(m) /\ m # m0
  BY <1>2 DEF Lost, Clear
<1>6. ShapeInv' /\ PollsInv' /\ RefreshInv'
  BY <1>2 DEF FlowInv, ShapeInv, PollsInv, PollOK, RefreshInv
<1>7. SaidInv'
  BY <1>2, <1>5 DEF FlowInv, SaidInv
<1>8. \A m : Unused(m) => Unused(m)'
  BY <1>2, <1>3 DEF Unused
<1>9. NewInv'
  BY <1>2, <1>8 DEF FlowInv, NewInv
<1>10. PayInv'
  <2>1. Clear(panel.memo)' => FALSE
    BY <1>2, <1>5 DEF Clear, Lost
  <2> QED BY <1>2, <1>3, <1>5, <2>1 DEF FlowInv, PayInv
<1> QED BY <1>4, <1>6, <1>7, <1>9, <1>10 DEF FlowInv

(* The wallet reports: whatever memo the panel shows takes it for its own. *)
LEMMA ReportKeeps ==
    ASSUME FlowLimits, FlowInv, NEW w \in wallets, NEW t \in Panels, Becomes(t),
           t.memo = panel.memo, t.sending = FALSE, wallets' = wallets \ {w},
           \/ t.step = "pending" /\ said' = said \cup {w.memo}
           \/ t.step = panel.step /\ said' = said /\ w.at = "failed",
           excused' = Mistakes(w), UNCHANGED <<Books, asks, Balances>>
    PROVE  FlowInv'
<1> PICK mine : mine = panel.memo
  OBVIOUS
<1>1. panel' = t /\ polls' \subseteq Polls /\ PollsInv'
  BY BecomesKeeps DEF Books
<1>2. /\ UNCHANGED <<made, paid, paidLate, twice, credited, lapsed, asks, creditedMemo, refreshes>>
      /\ w.memo \in Memos /\ wallets \subseteq Wallets /\ NoMemo \notin Memos /\ said \subseteq Memos
  BY FlowIs DEF Books, Balances, FlowInv, FlowTyped, Wallets
<1>3. FlowTyped'
  BY <1>1, <1>2 DEF FlowInv, FlowTyped
<1>4. ShapeInv' /\ RefreshInv'
  BY <1>1, <1>2 DEF FlowInv, ShapeInv, RefreshInv
<1>5. /\ \A m, y : Lost(m, y) => Lost(m, y)'
      /\ \A m, y : Lost(m, y)' => Lost(m, y) \/ (y = "mistaken")
      /\ mine # w.memo /\ mine # NoMemo => Lost(mine, "mistaken")'
  BY DEF Mistakes, Lost
<1>6. \A m : Clear(m)' => Clear(m)
  BY <1>5 DEF Clear
<1>7. ASSUME NEW m, m # NoMemo, m # w.memo, Unused(m) PROVE Unused(m)'
  BY <1>1, <1>2, <1>7 DEF Unused
<1>8. NewInv'
  <2>1. \A m : Unused(m) => m # w.memo
    BY DEF Unused
  <2> QED BY <1>2, <1>7, <2>1 DEF FlowInv, NewInv
<1>9. panel.memo = w.memo \/ \E y \in {"turned", "expired"} : Lost(w.memo, y)
  BY DEF FlowInv, PayInv
<1>10. SaidInv'
  <2>1. \A m \in Memos : Lost(m, "expired")' => m \in lapsed'
    BY <1>2, <1>5 DEF FlowInv, SaidInv
  <2>2. CASE t.step = "pending" /\ said' = said \cup {w.memo}
    <3>1. t.memo # NoMemo => t.memo \in said' \/ Lost(mine, "mistaken")'
      BY <1>5, <2>2
    <3>2. \A m \in said' : t.memo = m \/ \E y \in {"turned", "expired"} : Lost(m, y)'
      BY <1>5, <1>9, <2>2 DEF FlowInv, SaidInv
    <3> QED BY <1>1, <2>1, <2>2, <3>1, <3>2 DEF SaidInv, Lost
  <2>3. CASE t.step = panel.step /\ said' = said
    <3>1. t.step = "pending" /\ t.memo # NoMemo => t.memo \in said \/ Lost(mine, "mistaken")'
      BY <1>5, <2>3 DEF FlowInv, SaidInv
    <3>2. \A m \in said : \/ t.memo = m /\ t.step \in {"pending", "confirmed"}
                          \/ \E y \in {"turned", "expired"} : Lost(m, y)'
      BY <1>5, <2>3 DEF FlowInv, SaidInv
    <3> QED BY <1>1, <2>1, <2>3, <3>1, <3>2 DEF SaidInv, Lost
  <2> QED BY <2>2, <2>3
<1>11. PayInv'
  <2>1. ASSUME NEW v \in wallets \ {w}, Clear(v.memo)' PROVE FALSE
    <3>1. Clear(v.memo) /\ v.memo # NoMemo
      BY <1>2, <1>6, <2>1 DEF Wallets
    <3>2. mine = v.memo /\ \A x \in wallets : x.memo = v.memo => x = v
      BY <3>1 DEF FlowInv, PayInv
    <3>3. Lost(mine, "mistaken")'
      BY <1>5, <3>1, <3>2
    <3> QED BY <2>1, <3>2, <3>3 DEF Clear
  <2>2. ASSUME NEW v \in wallets \ {w}
        PROVE  t.memo = v.memo \/ \E y \in {"turned", "expired"} : Lost(v.memo, y)'
    BY <1>5 DEF FlowInv, PayInv
  <2>3. ASSUME t.step = "details", Clear(mine)' PROVE mine \notin paid \cup paidLate
    <3>1. panel.step = "details" /\ w.at = "failed" /\ mine # NoMemo
      BY <2>3 DEF FlowInv, ShapeInv
    <3>2. mine = w.memo
      BY <1>5, <2>3, <3>1 DEF Clear
    <3> QED BY <1>6, <2>3, <3>1, <3>2 DEF FlowInv, PayInv
  <2>4. \A m \in twice : ~Clear(m)'
    BY <1>6 DEF FlowInv, PayInv
  <2>5. Clear(panel.memo)' <=> Clear(mine)'
    BY <1>1 DEF Clear, Lost
  <2> QED BY <1>1, <1>2, <2>1, <2>2, <2>3, <2>4, <2>5 DEF PayInv
<1> QED BY <1>1, <1>3, <1>4, <1>8, <1>10, <1>11 DEF FlowInv

LEMMA ReportsKeep ==
    ASSUME FlowLimits, FlowInv, NEW w \in wallets, TransactionSent(w) \/ TransactionFailed(w)
    PROVE  FlowInv'
<1>1. CASE TransactionSent(w)
  <2> PICK t : t = [panel EXCEPT !.step = "pending", !.sending = FALSE]
    OBVIOUS
  <2>1. t \in Panels /\ t.memo = panel.memo /\ t.sending = FALSE /\ t.step = "pending"
    BY FlowIs DEF Panels
  <2> QED BY <1>1, <2>1, ReportKeeps DEF TransactionSent
<1>2. CASE TransactionFailed(w)
  <2> PICK t : t = [panel EXCEPT !.sending = FALSE]
    OBVIOUS
  <2>1. t \in Panels /\ t.memo = panel.memo /\ t.sending = FALSE /\ t.step = panel.step
    BY FlowIs DEF Panels
  <2> QED BY <1>2, <2>1, ReportKeeps DEF TransactionFailed
<1> QED BY <1>1, <1>2

LEMMA TimeKeeps ==
    ASSUME FlowLimits, FlowInv, NEW m \in Memos, Lapses(m) \/ Credits(m)
    PROVE  FlowInv'
<1>1. /\ UNCHANGED <<made, paid, paidLate, twice, panel, asks, wallets, polls, creditedMemo, refreshes,
                     said, excused>>
      /\ credited \subseteq credited' /\ lapsed \subseteq lapsed'
      /\ credited' \subseteq credited \cup {m} /\ lapsed' \subseteq lapsed \cup {m}
  BY DEF Lapses, Credits, Trail, Balances
<1>2. FlowTyped'
  BY <1>1 DEF FlowInv, FlowTyped
<1>3. ShapeInv' /\ PollsInv' /\ RefreshInv'
  BY <1>1 DEF FlowInv, ShapeInv, PollsInv, PollOK, RefreshInv
<1>4. SaidInv' /\ PayInv'
  BY <1>1 DEF FlowInv, SaidInv, PayInv, Clear, Lost
<1>5. NewInv'
  BY <1>1 DEF FlowInv, NewInv, Unused
<1> QED BY <1>2, <1>3, <1>4, <1>5 DEF FlowInv

LEMMA PollingKeeps ==
    ASSUME FlowLimits, FlowInv, polls' \subseteq Polls, \A q \in polls' : PollOK(q),
           UNCHANGED <<Books, panel, asks, wallets, Trail>>
    PROVE  FlowInv'
<1>1. UNCHANGED <<made, paid, paidLate, twice, credited, lapsed, panel, asks, wallets, creditedMemo,
                  refreshes, said, excused>>
  BY DEF Books, Trail, Balances
<1>2. FlowTyped'
  BY <1>1 DEF FlowInv, FlowTyped
<1>3. ShapeInv' /\ PollsInv' /\ RefreshInv'
  BY <1>1 DEF FlowInv, ShapeInv, PollsInv, PollOK, RefreshInv
<1>4. SaidInv' /\ PayInv'
  BY <1>1 DEF FlowInv, SaidInv, PayInv, Clear, Lost
<1>5. NewInv'
  BY <1>1 DEF FlowInv, NewInv, Unused
<1> QED BY <1>2, <1>3, <1>4, <1>5 DEF FlowInv

LEMMA PollsAgainKeeps == ASSUME FlowLimits, FlowInv, PollsAgain PROVE FlowInv'
<1> PICK q : q = Poll(panel.memo)
  OBVIOUS
<1>1. panel.step = "pending" /\ panel.memo \in Memos /\ polls' = polls \cup {q}
      /\ UNCHANGED <<Books, panel, asks, wallets, Trail>>
  BY FlowIs DEF PollsAgain, Following
<1>2. q \in Polls /\ PollOK(q)
  BY <1>1 DEF Poll, Polls, PollSteps, PollOK
<1> QED BY <1>1, <1>2, PollingKeeps DEF FlowInv, FlowTyped, PollsInv

LEMMA PollTurnsKeeps ==
    ASSUME FlowLimits, FlowInv, NEW p \in polls,
           LooksForDeposit(p) \/ ReadsMemo(p) \/ Fruitless(p)
    PROVE  FlowInv'
<1>1. p \in Polls /\ polls \subseteq Polls /\ PollOK(p) /\ \A q \in polls : PollOK(q)
  BY DEF FlowInv, FlowTyped, PollsInv
<1>2. CASE Fruitless(p)
  BY <1>1, <1>2, PollingKeeps DEF Fruitless
<1>3. CASE LooksForDeposit(p) \/ ReadsMemo(p)
  <2>1. PICK to \in PollSteps : /\ PollTurns(p, to)
                                /\ to = "confirmed" => p.memo \in credited
                                /\ to = "expired" => p.memo \in lapsed
    BY <1>3 DEF LooksForDeposit, ReadsMemo, PollSteps
  <2> PICK q : q = [p EXCEPT !.at = to]
    OBVIOUS
  <2>2. q \in Polls /\ PollOK(q) /\ polls' = (polls \ {p}) \cup {q}
    BY <1>1, <2>1 DEF Polls, PollOK, PollTurns
  <2>3. UNCHANGED <<Books, panel, asks, wallets, Trail>>
    BY <1>3 DEF LooksForDeposit, ReadsMemo
  <2> QED BY <1>1, <2>2, <2>3, PollingKeeps
<1> QED BY <1>2, <1>3

LEMMA ConfirmsKeeps ==
    ASSUME FlowLimits, FlowInv, NEW p \in polls, Confirms(p)
    PROVE  FlowInv'
<1> PICK t : t = [panel EXCEPT !.step = "confirmed"]
  OBVIOUS
<1>1. p \in Polls /\ p.live = TRUE /\ p.at = "confirmed" /\ PollOK(p) /\ p.memo \in Memos
  BY DEF Confirms, Heeds, FlowInv, FlowTyped, PollsInv, Polls
<1>2. /\ panel.step = "pending" /\ panel.memo = p.memo /\ p.memo \in credited /\ p.memo # NoMemo
  BY <1>1, FlowIs DEF PollOK
<1>3. t \in Panels /\ t.step = "confirmed" /\ t.memo = panel.memo /\ t.sending = panel.sending
  BY FlowIs DEF Panels
<1>4. /\ Becomes(t) /\ creditedMemo' = p.memo
      /\ refreshes' = IF creditedMemo = p.memo THEN refreshes
                      ELSE [refreshes EXCEPT ![p.memo] = refreshes[p.memo] + 1]
      /\ UNCHANGED <<Books, asks, wallets, said, excused>>
  BY DEF Confirms
<1>5. panel' = t /\ polls' \subseteq Polls /\ PollsInv'
  BY <1>3, <1>4, BecomesKeeps DEF Books
<1>6. UNCHANGED <<made, paid, paidLate, twice, credited, lapsed, asks, wallets, said, excused>>
  BY <1>4 DEF Books
<1>7. refreshes \in [Memos -> Nat] /\ creditedMemo \in 0..MaxMemos
  BY DEF FlowInv, FlowTyped
<1>8. /\ refreshes' \in [Memos -> Nat] /\ refreshes'[p.memo] = 1
      /\ \A m \in Memos : m # p.memo => refreshes'[m] = refreshes[m]
  <2>1. CASE creditedMemo = p.memo
    BY <1>2, <1>4, <1>7, <2>1 DEF FlowInv, RefreshInv
  <2>2. CASE creditedMemo # p.memo
    <3>1. refreshes[p.memo] = 0
      BY <1>1, <1>2, <2>2 DEF FlowInv, RefreshInv
    <3> QED BY <1>1, <1>4, <1>7, <2>2, <3>1
  <2> QED BY <2>1, <2>2
<1>9. FlowTyped'
  BY <1>1, <1>3, <1>4, <1>5, <1>6, <1>8, FlowIs DEF FlowInv, FlowTyped
<1>10. ShapeInv'
  BY <1>2, <1>3, <1>5 DEF ShapeInv
<1>11. RefreshInv'
  BY <1>1, <1>2, <1>3, <1>4, <1>5, <1>6, <1>8 DEF FlowInv, RefreshInv
<1>12. SaidInv'
  BY <1>2, <1>3, <1>5, <1>6 DEF FlowInv, SaidInv, Lost
<1>13. PayInv'
  <2>1. \A m : Clear(m)' <=> Clear(m)
    BY <1>6 DEF Clear, Lost
  <2>2. \A v \in wallets : ~Clear(v.memo)
    BY <1>2 DEF FlowInv, PayInv
  <2> QED BY <1>2, <1>3, <1>5, <1>6, <2>1, <2>2 DEF FlowInv, PayInv, Lost
<1>14. \A m \in Memos : Unused(m) => Unused(m)'
  BY <1>2, <1>3, <1>5, <1>6, <1>8 DEF Unused
<1>15. NewInv'
  <2>1. \A a \in asks : a.memo # NoMemo => a.memo \in Memos
    BY FlowIs DEF FlowInv, FlowTyped, Asks
  <2> QED BY <1>6, <1>14, <2>1 DEF FlowInv, NewInv
<1> QED BY <1>5, <1>9, <1>10, <1>11, <1>12, <1>13, <1>15 DEF FlowInv

LEMMA FlowRests == ASSUME FlowInv, UNCHANGED flowVars PROVE FlowInv'
BY DEF flowVars, FlowInv, FlowTyped, ShapeInv, PollsInv, PollOK, NewInv, Unused, RefreshInv, SaidInv,
       PayInv, Clear, Lost

LEMMA FlowGoesOn == FlowLimits /\ FlowInv /\ [FlowNext]_flowVars => FlowInv'
<1> SUFFICES ASSUME FlowLimits, FlowInv, [FlowNext]_flowVars PROVE FlowInv'
  OBVIOUS
<1>1. CASE Review \/ ChangeAmount \/ Generate \/ PayInWallet \/ SayItIsSent \/ PaysByHand \/ PollsAgain
  BY <1>1, ReviewKeeps, ChangeAmountKeeps, GenerateKeeps, PayInWalletKeeps, SayItIsSentKeeps,
     PaysByHandKeeps, PollsAgainKeeps
<1>2. CASE \E a \in asks : Generates(a) \/ DetailsReady(a) \/ DetailsFailed(a)
  BY <1>2, GeneratesKeeps, DetailsReadyKeeps, DetailsFailedKeeps
<1>3. CASE \E w \in wallets : \/ Prepares(w) \/ WalletPays(w) \/ WalletDeclines(w)
                              \/ TransactionSent(w) \/ TransactionFailed(w)
  BY <1>3, WalletTurnsKeeps, WalletPaysKeeps, ReportsKeep
<1>4. CASE \E m \in Memos : Lapses(m) \/ Credits(m)
  BY <1>4, TimeKeeps
<1>5. CASE \E p \in polls : \/ LooksForDeposit(p) \/ ReadsMemo(p) \/ Confirms(p) \/ PollExpires(p)
                            \/ Fruitless(p)
  BY <1>5, PollTurnsKeeps, ConfirmsKeeps, PollExpiresKeeps
<1>6. CASE UNCHANGED flowVars
  BY <1>6, FlowRests
<1> QED BY <1>1, <1>2, <1>3, <1>4, <1>5, <1>6 DEF FlowNext

(* DepositPanel.tsx, depositFlowReducer.ts: however many memos are asked for and paid, and
   in whatever order answers and reports come, what the panel says of a payment is true and
   a payment it loses sight of has one of the reasons. *)
THEOREM PaymentStaysFollowed == ASSUME FlowLimits PROVE FlowSpec => []PaymentIsFollowed
<1>1. FlowInit => FlowInv
  BY FlowStarts
<1>2. FlowInv /\ [FlowNext]_flowVars => FlowInv'
  BY FlowGoesOn
<1>3. FlowInv => PaymentIsFollowed
  BY DEF FlowInv, SaidInv, RefreshInv, PayInv, Clear, PaymentIsFollowed, Following
<1> QED BY <1>1, <1>2, <1>3, PTL DEF FlowSpec
=============================================================================
