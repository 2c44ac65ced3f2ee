-------------------------- MODULE ServerLifecycle --------------------------
(***************************************************************************)
(* One process of the server from its start to its exit: the background    *)
(* jobs, run by timers or by queues and by the stream of TON events, the   *)
(* requests it answers, and a shutdown that takes its parts down in order  *)
(* while they work.                                                        *)
(***************************************************************************)
EXTENDS Naturals, FiniteSets

CONSTANTS
    BackgroundJobs, First, Second,   \* First and Second are those of a stream's event
    Attempts,      \* attempts of a queued job
    LifeRuns,      \* runs of jobs
    MaxRequests,   \* requests, and other handlers, under way
    LifeFaults     \* runs, letters and steps that fail

VARIABLES
    runner,    \* "timers" or "queues"
    at,        \* how far the process is
    parts,     \* what is set, open or connected
    run,       \* each job: who runs it, "no" if nobody
    queue,     \* each job's queue: the attempts made of the job in it
    dead,      \* jobs that used up their attempts, and what became of the letter
    requests,  \* HTTP requests under way whose client waits
    loose,     \* handlers nobody waits for: a socket's, or of a request given up
    cut,       \* what of all this was under way when the process ended
    counts

lifeVars == <<runner, at, parts, run, queue, dead, requests, loose, cut, counts>>

(* The steps of the start, and those of the shutdown.                      *)
Starting == {"boot", "jobs"}
Stopping == {"stop timers", "stop stream", "stop queues", "close sockets", "close http",
             "close database"}
Ended    == {"exit 0", "exit 1", "killed"}

NoPart == {}
LifeInit ==
    /\ runner \in {"timers", "queues"}
    /\ at = "boot" /\ parts = NoPart
    /\ run = [j \in BackgroundJobs |-> "no"]
    /\ queue = [j \in BackgroundJobs |-> 0]
    /\ dead = {} /\ requests = 0 /\ loose = 0 /\ cut = {}
    /\ counts = [runs |-> 0, faults |-> 0]

Faulty == counts.faults < LifeFaults /\ counts' = [counts EXCEPT !.faults = @ + 1]

(***************************************************************************)
(* The start: the database, the jobs, and last the port.  Nothing listens  *)
(* to a signal before that.                                                *)
(***************************************************************************)
ConnectServices ==
    /\ at = "boot" /\ at' = "jobs"
    /\ parts' = {"database"}
    /\ UNCHANGED <<runner, run, queue, dead, requests, loose, cut, counts>>

StartJobs ==
    /\ at = "jobs" /\ "jobs" \notin parts
    /\ parts' = parts \cup {"jobs", runner, "stream"}
    /\ UNCHANGED <<runner, at, run, queue, dead, requests, loose, cut, counts>>

Listen ==
    /\ at = "jobs" /\ "jobs" \in parts /\ at' = "up"
    /\ parts' = parts \cup {"http"}
    /\ UNCHANGED <<runner, run, queue, dead, requests, loose, cut, counts>>

(***************************************************************************)
(* Runs of jobs.                                                           *)
(***************************************************************************)
Alive == at \notin Ended
Begins(j, by) ==
    /\ counts.runs < LifeRuns
    /\ counts' = [counts EXCEPT !.runs = @ + 1]
    /\ run' = [run EXCEPT ![j] = by]

TimerFires(j) ==
    /\ Alive /\ "timers" \in parts /\ run[j] = "no"
    /\ Begins(j, "timer")
    /\ UNCHANGED <<runner, at, parts, queue, dead, requests, loose, cut>>

(* A run that overlaps is skipped, and the queue takes it for done.        *)
QueueFires(j) ==
    /\ Alive /\ "queues" \in parts /\ at # "stop queues"
    /\ \/ run[j] = "no" /\ Begins(j, "queue") /\ UNCHANGED queue
       \/ /\ run[j] = "stream" /\ queue[j] > 0
          /\ queue' = [queue EXCEPT ![j] = 0]
          /\ UNCHANGED <<run, counts>>
    /\ UNCHANGED <<runner, at, parts, dead, requests, loose, cut>>

(* A first job that is under way is skipped, and the second follows.       *)
StreamEvent ==
    /\ Alive /\ "stream" \in parts
    /\ \/ run[First] = "no" /\ Begins(First, "stream")
       \/ run[First] # "no" /\ run[Second] = "no" /\ Begins(Second, "stream")
    /\ UNCHANGED <<runner, at, parts, queue, dead, requests, loose, cut>>

(* The second job of an event follows the first, whatever has been stopped *)
(* in between; it is skipped if it is under way.                           *)
Follows(j) == j = First /\ run[j] = "stream" /\ run[Second] = "no"

RunSucceeds(j) ==
    /\ Alive /\ run[j] # "no"
    /\ run' = IF Follows(j) THEN [run EXCEPT ![j] = "no", ![Second] = "stream"]
              ELSE [run EXCEPT ![j] = "no"]
    /\ queue' = IF run[j] = "queue" THEN [queue EXCEPT ![j] = 0] ELSE queue
    /\ UNCHANGED <<runner, at, parts, dead, requests, loose, cut, counts>>

(* The last attempt's failure is put among the dead letters by a call      *)
(* nobody waits for, and the queue starts over with the next job.          *)
LastAttempt(j) == queue[j] + 1 >= Attempts

RunFails(j) ==
    /\ Alive /\ run[j] # "no" /\ Faulty
    /\ run' = IF Follows(j) /\ runner = "timers"
              THEN [run EXCEPT ![j] = "no", ![Second] = "stream"]
              ELSE [run EXCEPT ![j] = "no"]
    /\ IF run[j] # "queue" THEN UNCHANGED <<queue, dead>>
       ELSE IF LastAttempt(j)
            THEN /\ dead' = dead \cup {[job |-> j, attempts |-> queue[j] + 1, letter |-> "due"]}
                 /\ queue' = [queue EXCEPT ![j] = 0]
            ELSE queue' = [queue EXCEPT ![j] = @ + 1] /\ UNCHANGED dead
    /\ UNCHANGED <<runner, at, parts, requests, loose, cut>>

(* The letter's queue is closed with the others; open, it may still refuse *)
(* the letter, whose id has a colon.                                       *)
Letter(d) ==
    /\ Alive /\ d.letter = "due"
    /\ \E l \in IF "queues" \in parts THEN {"there", "failed"} ELSE {"closed"} :
          dead' = (dead \ {d}) \cup {[d EXCEPT !.letter = l]}
    /\ UNCHANGED <<runner, at, parts, run, queue, requests, loose, cut, counts>>

Listens == "http" \in parts /\ at # "close http"

Request ==
    /\ Listens /\ requests < MaxRequests
    /\ requests' = requests + 1
    /\ UNCHANGED <<runner, at, parts, run, queue, dead, loose, cut, counts>>

Answer ==
    /\ Alive /\ requests > 0
    /\ requests' = requests - 1
    /\ UNCHANGED <<runner, at, parts, run, queue, dead, loose, cut, counts>>

(* What runs on with no connection that waits for it: the handlers of      *)
(* join-room, make-move and of a disconnection, and that of a request      *)
(* whose client hung up.                                                   *)
SocketEvent ==
    /\ Listens /\ loose < MaxRequests
    /\ loose' = loose + 1
    /\ UNCHANGED <<runner, at, parts, run, queue, dead, requests, cut, counts>>

HangsUp ==
    /\ Alive /\ requests > 0 /\ loose < MaxRequests
    /\ requests' = requests - 1 /\ loose' = loose + 1
    /\ UNCHANGED <<runner, at, parts, run, queue, dead, cut, counts>>

HandlerEnds ==
    /\ Alive /\ loose > 0
    /\ loose' = loose - 1
    /\ UNCHANGED <<runner, at, parts, run, queue, dead, requests, cut, counts>>

(***************************************************************************)
(* The shutdown, on the first signal or unhandled rejection.               *)
(***************************************************************************)
Working == {[what |-> run[j], job |-> j] : j \in {k \in BackgroundJobs : run[k] # "no"}} \cup
           (IF requests > 0 THEN {[what |-> "request", job |-> "none"]} ELSE {}) \cup
           (IF loose > 0 THEN {[what |-> "handler", job |-> "none"]} ELSE {})

Shutdown ==
    /\ at = "up" /\ at' = "stop timers"
    /\ UNCHANGED <<runner, parts, run, queue, dead, requests, loose, cut, counts>>

Kill ==
    /\ at \in Starting /\ at' = "killed"
    /\ cut' = cut \cup Working /\ parts' = NoPart
    /\ UNCHANGED <<runner, run, queue, dead, requests, loose, counts>>

Goes(from, to, gone) ==
    /\ at = from /\ at' = to /\ parts' = parts \ gone
    /\ UNCHANGED <<runner, run, queue, dead, requests, loose, counts>>

StopTimers == Goes("stop timers", "stop stream", {"timers"}) /\ UNCHANGED cut
StopStream == Goes("stop stream", "stop queues", {"stream"}) /\ UNCHANGED cut

(* A worker that is closed takes no other job and is waited for.           *)
QueuesQuietAnyway == TRUE
QueuesQuiet == \A j \in BackgroundJobs : run[j] # "queue"
StopQueues ==
    /\ QueuesQuiet
    /\ Goes("stop queues", "close sockets", {"queues"}) /\ UNCHANGED cut

(* socket.io closes the HTTP server it is attached to, and calls back when *)
(* the last connection is gone; if so, the server's own close fails.  The  *)
(* handlers of its sockets' events are not waited for.                     *)
CloseSockets ==
    /\ \/ requests = 0 /\ Goes("close sockets", "close http", {"http"})
       \/ Goes("close sockets", "close http", {})
    /\ UNCHANGED cut

CloseHttp ==
    /\ "http" \in parts /\ requests = 0
    /\ Goes("close http", "close database", {"http"}) /\ UNCHANGED cut

CloseHttpFails ==
    /\ "http" \notin parts
    /\ Goes("close http", "exit 1", parts)
    /\ cut' = cut \cup Working

CloseDatabase ==
    /\ Goes("close database", "exit 0", parts)
    /\ cut' = cut \cup Working

(* A step that fails, or ten seconds that have passed.                     *)
StepFails ==
    /\ at \in Stopping /\ Faulty
    /\ at' = "exit 1" /\ parts' = NoPart
    /\ cut' = cut \cup Working \cup {[what |-> "forced", job |-> "none"]}
    /\ UNCHANGED <<runner, run, queue, dead, requests, loose>>

LifeNext ==
    \/ ConnectServices \/ StartJobs \/ Listen \/ StreamEvent \/ Request \/ Answer
    \/ SocketEvent \/ HangsUp \/ HandlerEnds
    \/ \E j \in BackgroundJobs : TimerFires(j) \/ QueueFires(j) \/ RunSucceeds(j) \/ RunFails(j)
    \/ \E d \in dead : Letter(d)
    \/ Shutdown \/ Kill \/ StopTimers \/ StopStream \/ StopQueues
    \/ CloseSockets \/ CloseHttp \/ CloseHttpFails \/ CloseDatabase \/ StepFails

LifeSpec == LifeInit /\ [][LifeNext]_lifeVars

(***************************************************************************)
(* A shutdown (runtime.ts) that is neither forced nor came before the      *)
(* server listened cuts no request short whose client still waits, and no  *)
(* queued job.  What it may cut short is what close() and stop() do not    *)
(* wait for: the runs of timers and of the stream, the handlers of         *)
(* sockets' events, and those of requests given up.  A job that failed all *)
(* its attempts has a dead letter, unless adding it failed or the shutdown *)
(* came in between.                                                        *)
(***************************************************************************)
NotWaitedFor == {"timer", "stream", "handler"}

ShutdownIsOrderly ==
    /\ at \in {"exit 0", "exit 1"} =>
          \/ \E c \in cut : c.what = "forced"
          \/ \A c \in cut : c.what \in NotWaitedFor
    /\ \A d \in dead :
          /\ d.attempts = Attempts
          /\ d.letter = "closed" => at \in Stopping \cup Ended
=============================================================================
