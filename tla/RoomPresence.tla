---------------------------- MODULE RoomPresence ----------------------------
(***************************************************************************)
(* Which socket a room shows for each player.  Joins and moves take the    *)
(* room's queue or lock, read the room, go to the database, and store the  *)
(* room again with the sockets they know of; a socket that disconnects is  *)
(* taken out under the lock when rooms are in Redis, and at once, beside   *)
(* whoever is in the queue, when they are in memory.  The board and the    *)
(* loss of locks are in GameRoom; here a room is its status and sockets.   *)
(***************************************************************************)
EXTENDS Naturals, FiniteSets

CONSTANTS
    Creator, Guest,   \* the players of the room's match
    Sockets, UserOf,  \* sockets, and whose they are
    MaxJoins,         \* joins asked for
    MaxMoves,         \* moves asked for
    MaxLosses         \* rooms that expire, and sockets whose process dies

VARIABLES
    mode,      \* "redis" or "memory"
    match,     \* status of the match
    room,      \* the stored room
    members,   \* room:<id>:members
    bindings,  \* sockets with a room-socket:<id>
    socket,    \* each socket: "open", "closed" (being handled), "gone"
    calls,     \* handlers: joins, moves and leaves
    seat,      \* the socket that joined last for each player, while the room lasts
    late,      \* sockets that went while a handler that knew of them was under way
    tally

presenceVars == <<mode, match, room, members, bindings, socket, calls, seat, late, tally>>

Pair == {Creator, Guest}
None == "none"
NoSockets == [u \in Pair |-> None]
NotStored == [is |-> FALSE, status |-> "none", sock |-> NoSockets]
Playing(status) == IF status = "waiting" THEN {Creator} ELSE Pair

PresenceInit ==
    /\ mode \in {"redis", "memory"}
    /\ match = "waiting" /\ room = NotStored
    /\ members = {} /\ bindings = {}
    /\ socket = [s \in Sockets |-> "open"]
    /\ calls = {} /\ seat = NoSockets /\ late = {}
    /\ tally = [joins |-> 0, moves |-> 0, losses |-> 0]

Counts(what, max) == tally[what] < max /\ tally' = [tally EXCEPT ![what] = @ + 1]

(* Others start and end the match without the room's lock.                 *)
MatchGoes ==
    /\ \E to \in {"active", "completed"} :
          <<match, to>> \in {<<"waiting", "active">>, <<"waiting", "completed">>,
                             <<"active", "completed">>} /\ match' = to
    /\ UNCHANGED <<mode, room, members, bindings, socket, calls, seat, late, tally>>

(***************************************************************************)
(* Handlers.                                                               *)
(***************************************************************************)
Handler(kind, s) == [kind |-> kind, by |-> s, at |-> "waits", copy |-> NotStored, db |-> "none"]
Turns(c, new) == calls' = (calls \ {c}) \cup {new}
Done(c) == calls' = calls \ {c}
Inside(c) == c.at \notin {"asks", "waits"}

Ask(kind, s) ==
    /\ socket[s] = "open"
    /\ \A c \in calls : ~(c.kind = kind /\ c.by = s)
    /\ calls' = calls \cup {Handler(kind, s)}
    /\ IF kind = "join" THEN Counts("joins", MaxJoins) ELSE Counts("moves", MaxMoves)
    /\ UNCHANGED <<mode, match, room, members, bindings, socket, seat, late>>

(* The queue or lock lets one in at a time, who reads the match first.  A  *)
(* leave is decided in one go.                                             *)
Enter(c) ==
    /\ c.at = "waits" /\ c.kind # "leave" /\ ~\E d \in calls : Inside(d)
    /\ Turns(c, [c EXCEPT !.at = "in", !.db = match])
    /\ UNCHANGED <<mode, match, room, members, bindings, socket, seat, late, tally>>

(* createRoomStateFromMatch, and with it the sockets the copy knew of.     *)
Fresh(status) == [is |-> TRUE, status |-> status, sock |-> NoSockets]
Carried(status, r) ==
    [Fresh(status) EXCEPT !.sock =
        [u \in Pair |-> IF u \in Playing(status) THEN r.sock[u] ELSE None]]

(* set(): the sockets of members are kept, and the others' fall back to    *)
(* what they were.                                                         *)
Or(a, b) == IF a = None THEN b ELSE a
Stored(r) ==
    IF mode = "memory" THEN r
    ELSE [r EXCEPT !.sock = [u \in Pair |-> Or(IF u \in members THEN @[u] ELSE None, @[u])]]

SeatsOf(r) == [u \in Pair |-> IF r.sock[u] = None THEN None ELSE seat[u]]
Stores(r) == room' = Stored(r)

(* The room as it is, or a new one, or one that follows its match.         *)
Begin(c) ==
    /\ c.at = "in"
    /\ IF ~room.is \/ c.db = "completed"
       THEN /\ Stores(Fresh(c.db)) /\ seat' = NoSockets
            /\ IF c.kind = "move" /\ c.db = "completed" THEN Done(c)
               ELSE Turns(c, [c EXCEPT !.at = "has", !.copy = Fresh(c.db)])
       ELSE /\ Turns(c, [c EXCEPT !.at = IF room.status # c.db THEN "drift" ELSE "has",
                                  !.copy = room])
            /\ UNCHANGED <<room, seat>>
    /\ UNCHANGED <<mode, match, members, bindings, socket, late, tally>>

(* The users are read before the room is stored.                           *)
Drift(c) ==
    /\ c.at = "drift"
    /\ Stores(Carried(c.db, c.copy))
    /\ seat' = SeatsOf(Carried(c.db, c.copy))
    /\ Turns(c, [c EXCEPT !.at = "has", !.copy = Carried(c.db, c.copy)])
    /\ UNCHANGED <<mode, match, members, bindings, socket, late, tally>>

Seated(c) == [c.copy EXCEPT !.sock[UserOf[c.by]] = c.by]
Join(c) ==
    /\ c.kind = "join" /\ c.at = "has"
    /\ IF UserOf[c.by] \in Playing(c.copy.status)
       THEN /\ Stores(Seated(c))
            /\ seat' = [seat EXCEPT ![UserOf[c.by]] = c.by]
            /\ IF mode = "redis" THEN Turns(c, [c EXCEPT !.at = "stored"]) ELSE Done(c)
       ELSE Done(c) /\ UNCHANGED <<room, seat>>
    /\ UNCHANGED <<mode, match, members, bindings, socket, late, tally>>

Bind(c) ==
    /\ c.kind = "join" /\ c.at = "stored"
    /\ members' = members \cup {UserOf[c.by]}
    /\ bindings' = bindings \cup {c.by}
    /\ Done(c)
    /\ UNCHANGED <<mode, match, room, socket, seat, late, tally>>

(* A move that is not allowed stores nothing; one that is, stores the copy *)
(* it took before it wrote the match, one that met a settled match or      *)
(* decided it, the settled match with the copy's sockets.                  *)
Move(c) ==
    /\ c.kind = "move" /\ c.at = "has"
    /\ \/ Done(c) /\ UNCHANGED <<match, room, seat>>
       \/ /\ c.copy.status = "active"
          /\ IF match = "active"
             THEN \/ Stores(c.copy) /\ UNCHANGED match
                  \/ Stores([c.copy EXCEPT !.status = "completed"]) /\ match' = "completed"
             ELSE Stores(Carried(match, c.copy)) /\ UNCHANGED match
          /\ seat' = SeatsOf(c.copy) /\ Done(c)
    /\ UNCHANGED <<mode, members, bindings, socket, late, tally>>

(***************************************************************************)
(* A socket disconnects.                                                   *)
(***************************************************************************)
DetachedUser(r, s) ==
    [r EXCEPT !.sock = [u \in Pair |-> IF u = UserOf[s] THEN None ELSE @[u]]]
Detached(r, s) ==
    [r EXCEPT !.sock = [u \in Pair |-> IF @[u] = s THEN None ELSE @[u]]]

Knows(c, s) == (c.kind = "join" /\ c.by = s) \/ \E u \in Pair : c.copy.sock[u] = s
Late(s) == late' = IF \E c \in calls : Knows(c, s) THEN late \cup {s} ELSE late

(* In memory a join that has its room stores it before anything else runs. *)
Disconnect(s) ==
    /\ socket[s] = "open"
    /\ mode = "memory" => ~\E c \in calls : c.kind = "join" /\ c.at = "has"
    /\ IF mode = "memory"
       THEN /\ room' = (IF room.is THEN Detached(room, s) ELSE room)
            /\ socket' = [socket EXCEPT ![s] = "gone"]
            /\ Late(s) /\ UNCHANGED calls
       ELSE /\ calls' = calls \cup {[Handler("leave", s) EXCEPT !.at = "asks"]}
            /\ socket' = [socket EXCEPT ![s] = "closed"]
            /\ UNCHANGED <<room, late>>
    /\ UNCHANGED <<mode, match, members, bindings, seat, tally>>

(* The binding is read before the lock is asked for.                       *)
LeaveAsks(c) ==
    /\ c.kind = "leave" /\ c.at = "asks"
    /\ IF c.by \in bindings
       THEN Turns(c, [c EXCEPT !.at = "waits"]) /\ UNCHANGED <<socket, late>>
       ELSE /\ Done(c) /\ Late(c.by)
            /\ socket' = [socket EXCEPT ![c.by] = "gone"]
    /\ UNCHANGED <<mode, match, room, members, bindings, seat, tally>>

Leave(c) ==
    /\ c.kind = "leave" /\ c.at = "waits" /\ ~\E d \in calls : Inside(d)
    /\ Done(c) /\ Late(c.by)
    /\ socket' = [socket EXCEPT ![c.by] = "gone"]
    /\ bindings' = bindings \ {c.by}
    /\ room' = (IF room.is THEN Stored(Detached(room, c.by)) ELSE room)
    /\ members' = IF room.is /\ room.sock[UserOf[c.by]] = c.by
                  THEN members \ {UserOf[c.by]} ELSE members
    /\ UNCHANGED <<mode, match, seat, tally>>

(***************************************************************************)
(* Rooms and sockets that go by themselves.                                *)
(***************************************************************************)
(* The cleanup of rooms in memory that show nobody.                        *)
Clean ==
    /\ mode = "memory" /\ room.is /\ room.sock = NoSockets
    /\ ~\E c \in calls : Inside(c)
    /\ Counts("losses", MaxLosses)
    /\ room' = NotStored /\ seat' = NoSockets
    /\ UNCHANGED <<mode, match, members, bindings, socket, calls, late>>

Expire ==
    /\ mode = "redis" /\ room.is /\ ~\E c \in calls : Inside(c)
    /\ Counts("losses", MaxLosses)
    /\ room' = NotStored /\ members' = {} /\ seat' = NoSockets
    /\ UNCHANGED <<mode, match, bindings, socket, calls, late>>

(* The process of a socket dies: nobody takes it out of the room.          *)
Die(s) ==
    /\ mode = "redis" /\ socket[s] \in {"open", "closed"}
    /\ Counts("losses", MaxLosses)
    /\ socket' = [socket EXCEPT ![s] = "gone"]
    /\ calls' = {c \in calls : c.by # s}
    /\ late' = late \cup {s}
    /\ UNCHANGED <<mode, match, room, members, bindings, seat>>

PresenceNext ==
    \/ MatchGoes \/ Clean \/ Expire
    \/ \E s \in Sockets : Ask("join", s) \/ Ask("move", s) \/ Disconnect(s) \/ Die(s)
    \/ \E c \in calls : Enter(c) \/ Begin(c) \/ Drift(c) \/ Join(c) \/ Bind(c) \/ Move(c)
                        \/ LeaveAsks(c) \/ Leave(c)

PresenceSpec == PresenceInit /\ [][PresenceNext]_presenceVars

(***************************************************************************)
(* The room shows a player's own socket, and one that is gone only if it   *)
(* went while its join or a handler with an older copy was under way or    *)
(* with its process (a room in memory that shows such a socket is never    *)
(* cleaned up).  The socket that joined last stays shown while it is open: *)
(* an older tab that closes does not take it out.                          *)
(***************************************************************************)
PresenceIsTrue ==
    \A u \in Pair :
        /\ room.is /\ room.sock[u] # None =>
              /\ UserOf[room.sock[u]] = u
              /\ socket[room.sock[u]] = "gone" => room.sock[u] \in late
        /\ room.is /\ seat[u] # None =>
              (socket[seat[u]] = "open" => room.sock[u] = seat[u])
=============================================================================
