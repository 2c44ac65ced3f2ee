------------------------------ MODULE GameRoom ------------------------------
(***************************************************************************)
(* Rooms in which the moves of a match are made.  A room is a cached copy  *)
(* of the match document, in Redis or in the memory of the one process;    *)
(* socket handlers read the document, bring the room up to date, make the  *)
(* move in it, write the history back to the document and store the room   *)
(* again, all under the lock of the room.  Requests and the expiry job     *)
(* change the document without that lock (MatchSettlement).                *)
(*                                                                         *)
(* A task is one handler; its steps end where the code awaits MongoDB or   *)
(* Redis.  Sockets, names and ratings in a room are left out.  Definitions *)
(* no action uses are faulty variants for mutation runs.                   *)
(***************************************************************************)
EXTENDS MatchSettlement, ConnectFour

CONSTANTS
    Tasks,         \* handlers that may run at the same time
    Procs, Host,   \* server processes with Redis, and the one of each handler
    Settings,      \* the settings to look at: see setting
    NoTask, NoRoom

ASSUME RoomAssumption ==
    /\ Moves = [by : Users, col : 0 .. Cols - 1, row : 0 .. Rows - 1]
    /\ MaxMoves = Rows * Cols
    /\ Host \in [Tasks -> Procs]
    /\ Settings \subseteq [registry : {"redis", "memory"}, expiry : BOOLEAN,
                           fails : BOOLEAN, lapses : Nat, crashes : Nat]
    /\ NoTask \notin Tasks

VARIABLES
    setting,   \* never changes: where rooms are, whether matches expire and the
               \* calls of handlers fail, and the bounds on lapses and crashes
    room,      \* the room of each match, or NoRoom
    lock,      \* the task that holds the lock of each room, or NoTask
    task,      \* the step each handler is at and what it has read
    lapses,    \* locks or queues a living handler has lost
    crashes,
    shown      \* history: the moves last reported to the players of a match

roomVars == <<setting, room, lock, task, lapses, crashes, shown>>
vars == <<settlementVars, roomVars>>

(* "redis" (FEATURE_REDIS_SOCKET_ADAPTER), or the memory of the only process. *)
registry == setting.registry

(* createRoomStateFromMatch: what a room holds of a match document. *)
RoomOf(m) ==
    [status  |-> mstatus[m],
     players |-> IF player2[m] = NoUser THEN <<player1[m]>> ELSE <<player1[m], player2[m]>>,
     turn    |-> IF mstatus[m] = "active" THEN OnTurn(m, moves[m]) ELSE NoUser,
     moves   |-> moves[m],
     winner  |-> winner[m]]

IdleTask == [pc |-> "idle", kind |-> "join", m |-> 0, user |-> NoUser, col |-> 0,
             doc |-> NoRoom, room |-> NoRoom, reply |-> FALSE]

GameInit ==
    /\ SettlementInit
    /\ setting \in Settings
    /\ room = [m \in Matches |-> NoRoom]
    /\ lock = [m \in Matches |-> NoTask]
    /\ task = [t \in Tasks |-> IdleTask]
    /\ lapses = 0
    /\ crashes = 0
    /\ shown = [m \in Matches |-> <<>>]

-----------------------------------------------------------------------------
(* The lock of a room. *)

(* runExclusive: the handler begins when it gets the lock; one that does   *)
(* not get it in time has no effect.                                       *)
Begin(t, kind, m, u, col) ==
    /\ task[t].pc = "idle"
    /\ mstatus[m] # "none"
    /\ lock[m] = NoTask
    /\ lock' = [lock EXCEPT ![m] = t]
    /\ task' = [task EXCEPT ![t] = [IdleTask EXCEPT
                  !.pc = "read", !.kind = kind, !.m = m, !.user = u, !.col = col]]
    /\ UNCHANGED <<setting, settlementVars, room, lapses, crashes, shown>>

(* Only the holder's own value is deleted. *)
Freed(t, m) == IF lock[m] = t THEN NoTask ELSE lock[m]

(* The handler returns. *)
Release(t) ==
    LET m == task[t].m IN
    /\ task[t].pc = "release"
    /\ lock' = [lock EXCEPT ![m] = Freed(t, m)]
    /\ task' = [task EXCEPT ![t] = IdleTask]
    /\ UNCHANGED <<setting, settlementVars, room, lapses, crashes, shown>>

Working(t, m) == task[t].pc # "idle" /\ task[t].m = m

(* Faulty variant: the timer that renews the lock is missing. *)
NotRenewedEver(t, m) == TRUE

(* The timer that renews the lock ends with its process. *)
NotRenewed(t, m) == ~Working(t, m)

LockExpires(m) ==
    /\ registry = "redis"
    /\ lock[m] # NoTask
    /\ NotRenewed(lock[m], m)
    /\ lock' = [lock EXCEPT ![m] = NoTask]
    /\ UNCHANGED <<setting, settlementVars, room, task, lapses, crashes, shown>>

(* The renewals fail (which is only logged) and the handler goes on.       *)
LockLapses(m) ==
    /\ registry = "redis"
    /\ lapses < setting.lapses
    /\ lock[m] # NoTask
    /\ Working(lock[m], m)
    /\ lapses' = lapses + 1
    /\ lock' = [lock EXCEPT ![m] = NoTask]
    /\ UNCHANGED <<setting, settlementVars, room, task, crashes, shown>>

-----------------------------------------------------------------------------
(* joinRoom and makeMove. *)

(* The next step of t needs only r and whether r is going to be reported. *)
Goto(t, pc, r, reply) ==
    task' = [task EXCEPT ![t] = [IdleTask EXCEPT
                !.pc = pc, !.m = task[t].m, !.room = r, !.reply = reply]]

(* getMatchByRoomId.  A stranger may not join; a move in a completed match *)
(* only refreshes the room.                                                *)
ReadMatch(t) ==
    LET m == task[t].m
        doc == RoomOf(m) IN
    /\ task[t].pc = "read"
    /\ CASE task[t].kind = "join" /\ task[t].user \notin Seats(m) ->
              Goto(t, "release", NoRoom, FALSE)
         [] task[t].kind = "move" /\ doc.status = "completed" ->
              Goto(t, "store", doc, FALSE)
         [] OTHER ->
              task' = [task EXCEPT ![t].pc = "fetch", ![t].doc = doc]
    /\ UNCHANGED <<setting, settlementVars, room, lock, lapses, crashes, shown>>

(* Faulty variant: the number of moves is not compared. *)
DriftOfStatus(doc, r) ==
    doc.status # r.status \/ Len(doc.players) # Len(r.players)

(* The room has fallen behind the document it was made from. *)
Drift(doc, r) ==
    \/ doc.status # r.status
    \/ Len(doc.moves) # Len(r.moves)
    \/ Len(doc.players) # Len(r.players)
    \/ \E i \in DOMAIN doc.players : \A k \in DOMAIN r.players : r.players[k] # doc.players[i]

(* Faulty variant: a player may move twice in a row. *)
MayMoveAnytime(r, u) ==
    /\ \E i \in DOMAIN r.players : r.players[i] = u
    /\ r.status = "active"

(* The player is in the room and it is the player's turn. *)
MayMove(r, u) ==
    /\ \E i \in DOMAIN r.players : r.players[i] = u
    /\ r.status = "active"
    /\ r.turn = u

(* Whom a move ends the match for, if it does. *)
EndedBy(line, h, u) ==
    IF line # <<>> THEN u ELSE IF Len(h) = Rows * Cols THEN Draw ELSE NoUser

(* The disc falls in the room r: the move is null, ends the match, or is   *)
(* to be persisted.                                                        *)
Decide(t, r) ==
    LET u == task[t].user
        board == BoardOf(r.moves, r.players[1], r.players[2])
        row == LandingRow(board, task[t].col)
        symbol == IF r.players[1] = u THEN "R" ELSE "B"
        next == [board EXCEPT ![<<row, task[t].col>>] = symbol]
        h == Append(r.moves, [by |-> u, col |-> task[t].col, row |-> row])
        other == IF r.players[1] = u THEN r.players[2] ELSE r.players[1]
        ended == EndedBy(CheckWin(next, row, task[t].col, symbol), h, u)
    IN  IF ~MayMove(r, u) \/ row = -1
        THEN Goto(t, "release", NoRoom, FALSE)
        ELSE IF ended = NoUser
        THEN Goto(t, "persist", [r EXCEPT !.moves = h, !.turn = other], FALSE)
        ELSE Goto(t, "complete", [r EXCEPT !.moves = h, !.winner = ended], FALSE)

(* roomRegistry.get, compared with the document read before. *)
FetchRoom(t) ==
    LET m == task[t].m
        stale == room[m] = NoRoom \/ Drift(task[t].doc, room[m])
                   \/ (task[t].kind = "join" /\ task[t].doc.status = "completed")
    IN
    /\ task[t].pc = "fetch"
    /\ CASE stale -> task' = [task EXCEPT ![t].pc = "refresh"]
         [] ~stale /\ task[t].kind = "join" -> Goto(t, "store", room[m], TRUE)
         [] ~stale /\ task[t].kind = "move" -> Decide(t, room[m])
    /\ UNCHANGED <<setting, settlementVars, room, lock, lapses, crashes, shown>>

(* The room is made anew from the document. *)
RefreshRoom(t) ==
    LET doc == task[t].doc IN
    /\ task[t].pc = "refresh"
    /\ room' = [room EXCEPT ![task[t].m] = doc]
    /\ IF task[t].kind = "join" THEN Goto(t, "store", doc, TRUE) ELSE Decide(t, doc)
    /\ UNCHANGED <<setting, settlementVars, lock, lapses, crashes, shown>>

Outcome(t, m) == RoomOf(m)'

(* The match may have been settled since it was read: the room takes the   *)
(* result the transaction returns.                                         *)
EndByMove(t) ==
    /\ task[t].pc = "complete"
    /\ \E m \in Matches :
         /\ task[t].m = m
         /\ CompleteMatch(m, task[t].room.winner, task[t].room.moves)
         /\ Goto(t, "store", Outcome(t, m), TRUE)
    /\ UNCHANGED <<setting, room, lock, lapses, crashes, shown>>

PersistMove(t) ==
    LET m == task[t].m IN
    /\ task[t].pc = "persist"
    /\ \/ /\ PersistMoveHistory(m, task[t].room.moves)
          /\ Goto(t, "store", task[t].room, TRUE)
       \/ /\ mstatus[m] # "active"
          /\ Goto(t, "latest", NoRoom, FALSE)
          /\ UNCHANGED settlementVars
    /\ UNCHANGED <<setting, room, lock, lapses, crashes, shown>>

(* The history was not accepted; the result is reported instead. *)
ReadLatest(t) ==
    LET latest == RoomOf(task[t].m) IN
    /\ task[t].pc = "latest"
    /\ Goto(t, "store", latest, latest.status = "completed")
    /\ UNCHANGED <<setting, settlementVars, room, lock, lapses, crashes, shown>>

(* The room is stored; a reply is what the players get to see. *)
StoreRoom(t) ==
    LET m == task[t].m IN
    /\ task[t].pc = "store"
    /\ room' = [room EXCEPT ![m] = task[t].room]
    /\ shown' = IF task[t].reply THEN [shown EXCEPT ![m] = task[t].room.moves] ELSE shown
    /\ Goto(t, "release", NoRoom, FALSE)
    /\ UNCHANGED <<setting, settlementVars, lock, lapses, crashes>>

(* A call to MongoDB or Redis throws; the lock is released all the same. *)
TaskFails(t) ==
    /\ setting.fails
    /\ task[t].pc \notin {"idle", "release"}
    /\ Goto(t, "release", NoRoom, FALSE)
    /\ UNCHANGED <<setting, settlementVars, room, lock, lapses, crashes, shown>>

-----------------------------------------------------------------------------
(* The time to live of an unused room runs out. *)
RoomExpires(m) ==
    /\ room[m] # NoRoom
    /\ registry = "redis" \/ lock[m] = NoTask
    /\ room' = [room EXCEPT ![m] = NoRoom]
    /\ UNCHANGED <<setting, settlementVars, lock, task, lapses, crashes, shown>>

(* In memory the queue of the room goes with it, although a handler in it  *)
(* may be under way: the next one does not wait for that handler.          *)
QueueIsDropped(m) ==
    /\ registry = "memory"
    /\ lapses < setting.lapses
    /\ room[m] # NoRoom
    /\ lock[m] # NoTask
    /\ lapses' = lapses + 1
    /\ room' = [room EXCEPT ![m] = NoRoom]
    /\ lock' = [lock EXCEPT ![m] = NoTask]
    /\ UNCHANGED <<setting, settlementVars, task, crashes, shown>>

Dies(p, t) == Host[t] = p \/ registry = "memory"

(* A process dies with its handlers.  Locks and rooms in Redis outlive it. *)
Crash(p) ==
    /\ crashes < setting.crashes
    /\ crashes' = crashes + 1
    /\ task' = [t \in Tasks |-> IF Dies(p, t) THEN IdleTask ELSE task[t]]
    /\ IF registry = "redis"
       THEN UNCHANGED <<room, lock>>
       ELSE /\ room' = [m \in Matches |-> NoRoom]
            /\ lock' = [m \in Matches |-> NoTask]
    /\ UNCHANGED <<setting, settlementVars, lapses, shown>>

TaskSteps == \E t \in Tasks :
    \/ \E m \in Matches, u \in Users :
         \/ Begin(t, "join", m, u, 0)
         \/ \E col \in 0 .. Cols - 1 : Begin(t, "move", m, u, col)
    \/ ReadMatch(t)
    \/ FetchRoom(t)
    \/ RefreshRoom(t)
    \/ EndByMove(t)
    \/ PersistMove(t)
    \/ ReadLatest(t)
    \/ StoreRoom(t)
    \/ TaskFails(t)
    \/ Release(t)

GameNext ==
    \/ TaskSteps
    \/ \E m \in Matches :
         LockExpires(m) \/ LockLapses(m) \/ RoomExpires(m) \/ QueueIsDropped(m)
    \/ \E p \in Procs : Crash(p)
    \/ (Requests \/ (setting.expiry /\ Expiry)) /\ UNCHANGED roomVars

GameSpec == GameInit /\ [][GameNext]_vars

-----------------------------------------------------------------------------
(* Properties. *)

RoomStates ==
    [status : {"waiting", "active", "completed"}, players : Seq(Users),
     turn : Users \cup {NoUser}, moves : Seq(Moves), winner : Users \cup {NoUser, Draw}]

(* Types: above all a room always has the players of some match. *)
GameTypeOK ==
    /\ SettlementTypeOK
    /\ setting \in Settings
    /\ room \in [Matches -> RoomStates \cup {NoRoom}]
    /\ lock \in [Matches -> Tasks \cup {NoTask}]
    /\ \A t \in Tasks :
         /\ task[t].pc \in {"idle", "read", "fetch", "refresh", "complete",
                           "persist", "latest", "store", "release"}
         /\ task[t].pc # "idle" => task[t].m \in Matches
         /\ task[t].pc \in {"read", "fetch", "refresh"} => task[t].user \in Users
         /\ {task[t].doc, task[t].room} \subseteq RoomStates \cup {NoRoom}
    /\ lapses \in 0 .. setting.lapses
    /\ crashes \in 0 .. setting.crashes
    /\ shown \in [Matches -> Seq(Moves)]

(* A move that was reported to the players stays in the match, whatever    *)
(* crashes, failed writes, stale rooms, resignations and expiries follow.  *)
(* This needs the room's lock: two handlers of one player could otherwise  *)
(* write over each other.                                                  *)
ShownIsKept == \A m \in Matches : IsPrefix(shown[m], moves[m])

(* A room may be behind its match (a handler died before it stored the     *)
(* room) but is never ahead of it, and a completed one is up to date.      *)
RoomIsNotAhead == \A m \in Matches : room[m] # NoRoom =>
    /\ IsPrefix(room[m].moves, moves[m])
    /\ room[m].status = "completed" => room[m] = RoomOf(m)

(* While no handler has lost its lock: what the players have seen, what is *)
(* cached and what is stored do not disagree.                              *)
LockedRoomsAgree == GameTypeOK /\ (lapses = 0 => ShownIsKept /\ RoomIsNotAhead)

(* Moves are only ever added to a match while no handler loses its lock.   *)
HistoryOnlyGrows ==
    [][lapses' = 0 => \A m \in Matches : IsPrefix(moves[m], moves'[m])]_vars

(* The line the i-th move of the match completes, if any. *)
LineAt(m, i) ==
    LET h == moves[m] IN
    CheckWin(BoardOf(SubSeq(h, 1, i), player1[m], player2[m]), h[i].row, h[i].col,
             IF h[i].by = player1[m] THEN "R" ELSE "B")

(* The history of a match is a game: the players take turns, discs fall on *)
(* each other and nothing follows a completed line.  Holds even when the   *)
(* lock lapses, because a handler writes the whole history it decided on.  *)
HistoryIsAGame == \A m \in Matches : \A i \in DOMAIN moves[m] :
    /\ moves[m][i].by = IF i % 2 = 1 THEN player1[m] ELSE player2[m]
    /\ moves[m][i].row = LandingRow(BoardOf(SubSeq(moves[m], 1, i - 1), player1[m], player2[m]),
                                    moves[m][i].col)
    /\ LineAt(m, i) # <<>> => i = Len(moves[m]) /\ reason[m] = "winner"

(* The result paid out is the one on the board: a winner by play made the  *)
(* line that ends the history, and a draw is a full board without a line.  *)
ResultIsOnTheBoard == \A m \in Matches :
    LET last == Len(moves[m]) IN
    /\ reason[m] = "winner" =>
         /\ last > 0
         /\ moves[m][last].by = winner[m]
         /\ LineAt(m, last) # <<>>
    /\ reason[m] = "draw" => last = Rows * Cols /\ LineAt(m, last) = <<>>

(* Whoever made the last move is never the one who loses by inactivity,    *)
(* even if that move came after the job had listed the match.              *)
LastMoverIsNotLate == \A m \in Matches :
    reason[m] = "active_expired" /\ moves[m] # <<>> => moves[m][Len(moves[m])].by = winner[m]

(* What is stored is a game and what is paid is its result, even when two  *)
(* handlers have been in one room at a time, or a move and the job that    *)
(* ends matches nobody plays.                                              *)
GameIsSound == HistoryIsAGame /\ ResultIsOnTheBoard /\ LastMoverIsNotLate /\ MatchBooksOK
=============================================================================
