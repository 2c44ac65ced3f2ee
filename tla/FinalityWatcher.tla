-------------------------- MODULE FinalityWatcher --------------------------
(***************************************************************************)
(* The stream of TON events and what it sets off.  A transfer is announced *)
(* when it is pending and when it is final; a final one sets off a run of  *)
(* the deposit poller and then of the withdrawal confirmation, a pending   *)
(* one a timer that does the same should the final event not come.  The    *)
(* two jobs skip a run that overlaps another.  One process of the server.  *)
(***************************************************************************)
EXTENDS Naturals, Sequences, FiniteSets

CONSTANTS
    Incoming, Outgoing,  \* transfers: deposits, and withdrawals
    Bare,       \* those whose events name only the account, no trace
    Fallback,   \* TON_API_V3_FALLBACK_ENABLED: timer and interval runs
    Queues,     \* jobs rethrow their failures (BullMQ) instead of noting them
    MaxBreaks,  \* times the stream's connection breaks
    MaxRuns,    \* runs by the interval
    MaxFaults,  \* runs that fail
    MaxTasks    \* handlers under way

Transfers == Incoming \cup Outgoing
Jobs      == {"deposits", "withdrawals"}
Due(k)    == IF k = "deposits" THEN Incoming ELSE Outgoing

VARIABLES
    seen,      \* how far each transfer is on the chain
    stream,    \* the connection, and the events on it
    handled,   \* handledFinalized: the keys of events acted upon
    timer,     \* fallbackTimer is set
    tasks,     \* handlers, timers and intervals about to run a job
    job,       \* for each job: running, and the transfers its run has found
    caught,    \* transfers a run of their job has taken in
    missed,    \* transfers something kept from the runs so far
    alive,     \* the process runs
    spent      \* breaks, interval runs and faults so far

watchVars == <<seen, stream, handled, timer, tasks, job, caught, missed, alive, spent>>

NoRun == [busy |-> FALSE, read |-> FALSE, sees |-> {}]
NoStream  == [up |-> FALSE, events |-> <<>>]

WatchInit ==
    /\ seen = [t \in Transfers |-> "none"]
    /\ stream = NoStream /\ handled = {} /\ timer = FALSE
    /\ tasks = {} /\ job = [k \in Jobs |-> NoRun]
    /\ caught = {} /\ missed = {} /\ alive = TRUE
    /\ spent = [breaks |-> 0, runs |-> 0, faults |-> 0]

Uncaught(k) == {t \in Due(k) : seen[t] = "final"} \ caught
AllUncaught == UNION {Uncaught(k) : k \in Jobs}

(***************************************************************************)
(* The chain, announced on the stream as far as there is one.              *)
(***************************************************************************)
Event(t, f) == [of |-> t, finality |-> f]
Announced   == {stream.events[i].of : i \in DOMAIN stream.events}

Advances(t) ==
    /\ \E f \in {"pending", "final", "gone"} :
          /\ <<seen[t], f>> \in {<<"none", "pending">>, <<"none", "final">>,
                                 <<"pending", "final">>, <<"pending", "gone">>}
          /\ seen' = [seen EXCEPT ![t] = f]
          /\ IF stream.up
             THEN stream' = [stream EXCEPT !.events = Append(@, Event(t, f))]
                  /\ UNCHANGED missed
             ELSE missed' = (IF f = "final" THEN missed \cup {t} ELSE missed)
                  /\ UNCHANGED stream
    /\ UNCHANGED <<handled, timer, tasks, job, caught, alive, spent>>

(* The subscription is sent anew on every connection; nothing asks for     *)
(* what was announced in between.                                          *)
Opens ==
    /\ alive /\ ~stream.up
    /\ stream' = [NoStream EXCEPT !.up = TRUE]
    /\ UNCHANGED <<seen, handled, timer, tasks, job, caught, missed, alive, spent>>

Breaks ==
    /\ stream.up /\ spent.breaks < MaxBreaks
    /\ spent' = [spent EXCEPT !.breaks = @ + 1]
    /\ stream' = NoStream
    /\ missed' = missed \cup Announced
    /\ UNCHANGED <<seen, handled, timer, tasks, job, caught, alive>>

(***************************************************************************)
(* The handler of an event.  It runs beside others still under way.        *)
(***************************************************************************)
Task(by, k, then) == [by |-> by, job |-> k, then |-> then, waits |-> FALSE]
Both(by) == Task(by, "deposits", TRUE)
Starts(x) == Cardinality(tasks) < MaxTasks /\ x \notin tasks /\ tasks' = tasks \cup {x}

KeyOf(t) == IF t \in Bare THEN "account" ELSE t

Hears ==
    /\ alive /\ stream.events # <<>>
    /\ stream' = [stream EXCEPT !.events = Tail(@)]
    /\ LET e == Head(stream.events)
       IN \/ /\ e.finality = "final" /\ KeyOf(e.of) \notin handled
             /\ handled' = handled \cup {KeyOf(e.of)}
             /\ Starts(Both("event")) /\ UNCHANGED <<timer, missed>>
          \/ /\ e.finality = "final" /\ KeyOf(e.of) \in handled
             /\ missed' = missed \cup {e.of}
             /\ UNCHANGED <<handled, timer, tasks>>
          \/ /\ e.finality = "pending"
             /\ timer' = (timer \/ Fallback)
             /\ UNCHANGED <<handled, tasks, missed>>
          \/ /\ e.finality = "gone"
             /\ IF Fallback THEN Starts(Both("event")) ELSE UNCHANGED tasks
             /\ UNCHANGED <<handled, timer, missed>>
    /\ UNCHANGED <<seen, job, caught, alive, spent>>

Fires ==
    /\ alive /\ timer
    /\ timer' = FALSE
    /\ Starts(Both("timer"))
    /\ UNCHANGED <<seen, stream, handled, job, caught, missed, alive, spent>>

Interval(k) ==
    /\ alive /\ Fallback /\ spent.runs < MaxRuns
    /\ spent' = [spent EXCEPT !.runs = @ + 1]
    /\ Starts(Task("interval", k, FALSE))
    /\ UNCHANGED <<seen, stream, handled, timer, job, caught, missed, alive>>

(***************************************************************************)
(* createJobRunner: a run while another is under way is skipped.           *)
(***************************************************************************)
DepositsOnly(x) == {}
Onwards(x) == IF x.then THEN {Task(x.by, "withdrawals", FALSE)} ELSE {}

Skips(x) ==
    /\ ~x.waits /\ job[x.job].busy
    /\ missed' = missed \cup Uncaught(x.job)
    /\ tasks' = (tasks \ {x}) \cup Onwards(x)
    /\ UNCHANGED <<seen, stream, handled, timer, job, caught, alive, spent>>

Runs(x) ==
    /\ ~x.waits /\ ~job[x.job].busy
    /\ job' = [job EXCEPT ![x.job] = [NoRun EXCEPT !.busy = TRUE]]
    /\ tasks' = (tasks \ {x}) \cup {[x EXCEPT !.waits = TRUE]}
    /\ UNCHANGED <<seen, stream, handled, timer, caught, missed, alive, spent>>

(* A run asks an index of the chain that may be behind the stream, and for *)
(* some of it: the transfers after the poller's cursor, those of 25        *)
(* withdrawals already written as sent.  What it does not find there is    *)
(* left to a later run, if there is one.                                   *)
JobReads(k) ==
    /\ job[k].busy /\ ~job[k].read
    /\ \E found \in SUBSET Uncaught(k) :
          /\ job' = [job EXCEPT ![k] = [busy |-> TRUE, read |-> TRUE, sees |-> found]]
          /\ missed' = missed \cup (Uncaught(k) \ found)
    /\ UNCHANGED <<seen, stream, handled, timer, tasks, caught, alive, spent>>

JobDone(x) ==
    /\ x.waits /\ job[x.job].read
    /\ caught' = caught \cup job[x.job].sees
    /\ job' = [job EXCEPT ![x.job] = NoRun]
    /\ tasks' = (tasks \ {x}) \cup Onwards(x)
    /\ UNCHANGED <<seen, stream, handled, timer, missed, alive, spent>>

(* A failure that is rethrown ends the handler before its second job; that *)
(* of a timer reaches nobody, and an unhandled rejection ends the process, *)
(* by way of a shutdown (ServerLifecycle) that here takes no step.         *)
JobFails(x) ==
    /\ x.waits /\ spent.faults < MaxFaults
    /\ spent' = [spent EXCEPT !.faults = @ + 1]
    /\ IF Queues /\ x.by = "timer"
       THEN /\ stream' = NoStream /\ handled' = {} /\ timer' = FALSE /\ tasks' = {}
            /\ job' = [k \in Jobs |-> NoRun]
            /\ alive' = FALSE
            /\ missed' = missed \cup AllUncaught \cup Announced
       ELSE /\ job' = [job EXCEPT ![x.job] = NoRun]
            /\ tasks' = (tasks \ {x}) \cup (IF Queues THEN {} ELSE Onwards(x))
            /\ missed' = missed \cup Uncaught(x.job) \cup
                            (IF Queues /\ x.then THEN Uncaught("withdrawals") ELSE {})
            /\ UNCHANGED <<stream, handled, timer, alive>>
    /\ UNCHANGED <<seen, caught>>

Restarts ==
    /\ ~alive /\ alive' = TRUE
    /\ UNCHANGED <<seen, stream, handled, timer, tasks, job, caught, missed, spent>>

WatchNext ==
    \/ \E t \in Transfers : Advances(t)
    \/ Opens \/ Breaks \/ Hears \/ Fires \/ Restarts
    \/ \E k \in Jobs : Interval(k) \/ JobReads(k)
    \/ \E x \in tasks : Skips(x) \/ Runs(x) \/ JobDone(x) \/ JobFails(x)

WatchSpec == WatchInit /\ [][WatchNext]_watchVars

-----------------------------------------------------------------------------
AtRest == alive /\ stream.events = <<>> /\ tasks = {} /\ ~timer

(* ton-streaming.service.ts, background-jobs.service.ts: once every event, *)
(* timer and run is through, a final transfer has been taken in by its     *)
(* job, unless its event fell into a break of the stream, passed for one   *)
(* handled already, or met a run that was under way, that failed or that   *)
(* did not find it yet.                                                    *)
FinalIsCaught == AtRest => AllUncaught \subseteq missed
=============================================================================
