--------------------------- MODULE CircuitBreaker ---------------------------
(***************************************************************************)
(* Calls of one outside service share a count of failures and the time     *)
(* until which nobody calls it.  Calls overlap: each looks at the circuit  *)
(* when it begins, retries on its own, and counts when it ends, perhaps    *)
(* long after others have opened or closed the circuit.                    *)
(***************************************************************************)
EXTENDS Naturals, Sequences

CONSTANTS
    Calls,        \* calls that may run side by side
    Threshold,    \* DEPENDENCY_FAILURE_THRESHOLD
    ResetAfter,   \* DEPENDENCY_CIRCUIT_RESET_MS, in ticks
    Retries,      \* retries each call allows itself
    BaseDelay, MaxDelay,
    MaxClock,     \* ticks of the clock
    MaxEnded      \* calls that end

VARIABLES
    clock,
    circuit,   \* the DependencyState
    call,      \* each call: where it is, the attempt, and when it tries again
    ended      \* how and when the calls that reached the service ended, in order

breakerVars == <<clock, circuit, call, ended>>

Closed == [failures |-> 0, until |-> 0]
Resting == [at |-> "no", attempt |-> 0, wake |-> 0]

BreakerInit ==
    /\ clock = 1
    /\ circuit = Closed
    /\ call = [c \in Calls |-> Resting]
    /\ ended = <<>>

Open == circuit.until > clock

(* What went wrong, and whether another attempt may help.                  *)
Errors == {"reset", "status429", "status500", "status400", "other"}
Retryable(e) == e \in {"reset", "status429", "status500"}
Delay(attempt) == IF BaseDelay * 2 ^ attempt > MaxDelay THEN MaxDelay
                  ELSE BaseDelay * 2 ^ attempt

AfterSuccessKeeps(s) == [s EXCEPT !.failures = 0]
AfterSuccess(s) == Closed
AfterFailure(s) ==
    [failures |-> s.failures + 1,
     until |-> IF s.failures + 1 >= Threshold THEN clock + ResetAfter ELSE s.until]

CallTurns(c, new) == call' = [call EXCEPT ![c] = new]

(* An open circuit refuses at once: the caller's error, no one's failure.  *)
BeginCall(c) ==
    /\ call[c].at = "no" /\ Len(ended) < MaxEnded
    /\ ~Open
    /\ CallTurns(c, [Resting EXCEPT !.at = "tries"])
    /\ UNCHANGED <<clock, circuit, ended>>

Ends(c, ok) ==
    /\ CallTurns(c, Resting)
    /\ ended' = Append(ended, [ok |-> ok, when |-> clock])
    /\ Len(ended) < MaxEnded

Succeed(c) ==
    /\ call[c].at = "tries"
    /\ circuit' = AfterSuccess(circuit)
    /\ Ends(c, TRUE)
    /\ UNCHANGED clock

Retry(c) ==
    /\ call[c].at = "tries"
    /\ \E e \in Errors : Retryable(e) /\ call[c].attempt < Retries
    /\ CallTurns(c, [at |-> "sleeps", attempt |-> call[c].attempt + 1,
                 wake |-> clock + Delay(call[c].attempt)])
    /\ UNCHANGED <<clock, circuit, ended>>

Wake(c) ==
    /\ call[c].at = "sleeps" /\ call[c].wake <= clock
    /\ CallTurns(c, [call[c] EXCEPT !.at = "tries"])
    /\ UNCHANGED <<clock, circuit, ended>>

Fail(c) ==
    /\ call[c].at = "tries"
    /\ \E e \in Errors : ~(Retryable(e) /\ call[c].attempt < Retries)
    /\ circuit' = AfterFailure(circuit)
    /\ Ends(c, FALSE)
    /\ UNCHANGED clock

Tick ==
    /\ clock < MaxClock
    /\ clock' = clock + 1
    /\ UNCHANGED <<circuit, call, ended>>

BreakerNext ==
    \/ \E c \in Calls : BeginCall(c) \/ Succeed(c) \/ Retry(c) \/ Wake(c) \/ Fail(c)
    \/ Tick

BreakerSpec == BreakerInit /\ [][BreakerNext]_breakerVars

(***************************************************************************)
(* The circuit is open exactly while the calls that ended last, Threshold  *)
(* of them or more, all failed and the last of them did so less than       *)
(* ResetAfter ago, in whatever order overlapping calls began: one success  *)
(* closes it, be it of a call begun before the failures, and after the     *)
(* rest a single failure opens it again.                                   *)
(***************************************************************************)
LastFailed == /\ Len(ended) >= Threshold
              /\ \A i \in (Len(ended) - Threshold + 1)..Len(ended) : ~ended[i].ok

CircuitIsHonest ==
    Open <=> LastFailed /\ clock < ended[Len(ended)].when + ResetAfter
=============================================================================
