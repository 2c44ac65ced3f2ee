-------------------------- MODULE DepositIngestion --------------------------
(***************************************************************************)
(* How a transfer to the hot wallet becomes a deposit.  Every process runs *)
(* a job that polls the chain's index from a cursor, ingests what it finds *)
(* and then replays the ingestions that failed; a merchant may replay any  *)
(* window of time, and decides on the transfers that match no memo.        *)
(*                                                                         *)
(* An ingestion decides on what it read at its lookup and then runs one    *)
(* Mongo transaction.  The unique hash of processed_txs makes a second     *)
(* one fail, which the code swallows.  A call that throws may have         *)
(* committed: a late acknowledgement, or the audit, cache and e-mail calls *)
(* that follow the commit.  Faults, the death of a process included, are   *)
(* bounded by MaxFaults.                                                   *)
(*                                                                         *)
(* The seen hashes, the failures and the lookup context of a poll are      *)
(* three reads in a row, here one step: what the later ones find decides.  *)
(* Definitions no action uses are faulty variants for mutation runs.       *)
(***************************************************************************)
EXTENDS Integers, FiniteSets

CONSTANTS
    Transfers, Users, Memos,
    TimeOf,      \* transaction_now of each transfer, from 1
    MemoOf,      \* its comment: one of Memos, or NoMemo
    MayAbort,    \* transfers that may be aborted on the chain, or go elsewhere
    MayAge,      \* transfers that may be a day old before the first cursor
    AmountOf,
    OwnerOf,     \* the user a memo is made out to
    ExpiresAt,   \* the time from which a memo buys nothing
    Pollers,     \* processes, each with one job runner
    Windows,     \* replays of a window that merchants may have under way
    Operators,   \* merchants that decide on unmatched deposits
    Crews,       \* which of them all may take part together
    MaxRetries,  \* DEPOSIT_INGESTION_MAX_RETRIES
    MaxFaults,   \* for each crew
    NoUser, NoMemo

ASSUME DepositAssumption ==
    /\ TimeOf \in [Transfers -> Nat \ {0}]
    /\ MemoOf \in [Transfers -> Memos \cup {NoMemo}]
    /\ MayAbort \subseteq Transfers
    /\ AmountOf \in [Transfers -> Nat]
    /\ OwnerOf \in [Memos -> Users]
    /\ ExpiresAt \in [Memos -> Nat]
    /\ Crews \subseteq SUBSET (Pollers \cup Windows \cup Operators)
    /\ MaxRetries \in Nat \ {0}
    /\ MaxFaults \in [Crews -> Nat]
    /\ NoUser \notin Users
    /\ NoMemo \notin Memos

Runs == Pollers \cup Windows

VARIABLES
    indexed,   \* the transfers the chain's index shows
    late,      \* those that appeared after a younger one, or were a day old
               \* before there was a cursor
    aborted,   \* those that were
    memo,      \* deposit_memos: "none", "issued", "used", "purged"
    processed, \* processed_txs: the type of each hash, or "no"
    owner,     \* deposits: the user each transfer is credited to
    review,    \* unmatched_deposits: "none", "open", "credited", "dismissed"
    candidate, \* its candidateUserId
    balance,
    failure,   \* failed_deposit_ingestions
    cursor,    \* poller_state, 0 before the first poll
    task,      \* what each run is doing
    desk,      \* the request each operator has under way
    faults,    \* faults so far
    crew       \* who takes part: never changes

books  == <<memo, processed, owner, review, candidate, balance>>
chain  == <<indexed, late, aborted>>
vars   == <<chain, books, failure, cursor, task, desk, faults, crew>>

Idle     == [pc |-> "idle"]
NoRow    == [status |-> "none", retries |-> 0,
             stamped |-> FALSE, due |-> FALSE]
NoDesk   == [pc |-> "idle"]

Init == /\ indexed = {} /\ late = {} /\ aborted = {}
        /\ memo = [m \in Memos |-> "none"]
        /\ processed = [t \in Transfers |-> "no"]
        /\ owner = [t \in Transfers |-> NoUser]
        /\ review = [t \in Transfers |-> "none"]
        /\ candidate = [t \in Transfers |-> NoUser]
        /\ balance = [u \in Users |-> 0]
        /\ failure = [t \in Transfers |-> NoRow]
        /\ cursor = 0
        /\ task = [r \in Runs |-> Idle]
        /\ desk = [o \in Operators |-> NoDesk]
        /\ faults = 0
        /\ crew \in Crews

(***************************************************************************)
(* Memos and the chain.                                                    *)
(***************************************************************************)
IssueMemo(m) ==
    /\ memo[m] = "none"
    /\ memo' = [memo EXCEPT ![m] = "issued"]
    /\ UNCHANGED <<chain, processed, owner, review, candidate, balance,
                   failure, cursor, task, desk, faults>>

(* A week after its expiry Mongo removes the document; no run or request lasts
   so long. *)
PurgeMemo(m) ==
    /\ memo[m] \in {"issued", "used"}
    /\ \A r \in Runs : task[r].pc = "idle"
    /\ \A o \in Operators : desk[o].pc # "resolve"
    /\ memo' = [memo EXCEPT ![m] = "purged"]
    /\ UNCHANGED <<chain, processed, owner, review, candidate, balance,
                   failure, cursor, task, desk, faults>>

(* Nobody guesses a memo: who sends one has been given it. *)
Appear(t) ==
    /\ t \notin indexed
    /\ MemoOf[t] \in Memos => memo[MemoOf[t]] # "none"
    /\ indexed' = indexed \cup {t}
    /\ late' = IF \E s \in indexed : TimeOf[s] > TimeOf[t]
               THEN late \cup {t} ELSE late
    /\ aborted' \in {aborted, aborted \cup ({t} \cap MayAbort)}
    /\ UNCHANGED <<books, failure, cursor, task, desk, faults>>

(* As long as no cursor is stored, polls look back for a day. *)
Outdates(t) ==
    /\ cursor = 0
    /\ t \in (indexed \ late) \cap MayAge
    /\ \A s \in indexed \ late : TimeOf[s] >= TimeOf[t]
    /\ late' = late \cup {t}
    /\ UNCHANGED <<indexed, aborted, books, failure, cursor, task, desk, faults>>

(***************************************************************************)
(* One ingestion: the decision made at the lookup and the transaction that *)
(* carries it out.                                                         *)
(***************************************************************************)
Known(t)  == MemoOf[t] \in Memos /\ memo[MemoOf[t]] \in {"issued", "used"}
UsableTwice(t) == /\ MemoOf[t] \in Memos
                  /\ memo[MemoOf[t]] \in {"issued", "used"}
                  /\ TimeOf[t] < ExpiresAt[MemoOf[t]]

Usable(t) == /\ MemoOf[t] \in Memos
             /\ memo[MemoOf[t]] = "issued"
             /\ TimeOf[t] < ExpiresAt[MemoOf[t]]

Seen(t) == processed[t] # "no"

Preview(t) == CASE t \in aborted        -> "rejected"
                [] t \notin aborted /\ Seen(t) -> "already"
                [] t \notin aborted /\ ~Seen(t) ->
                     IF Usable(t) THEN "credit"
                     ELSE IF Known(t) THEN "inactive" ELSE "missing"

(* Of a transfer of another jetton nothing is written: it is not modelled. *)
Reject(t) ==
    /\ processed' = [processed EXCEPT ![t] = "deposit_rejected"]
    /\ UNCHANGED <<memo, owner, review, candidate, balance>>

CreateUnmatched(t, user) ==
    /\ processed' = [processed EXCEPT ![t] = "deposit_unmatched"]
    /\ review' = [review EXCEPT ![t] = "open"]
    /\ candidate' = [candidate EXCEPT ![t] = user]
    /\ UNCHANGED <<memo, owner, balance>>

CreditDeposit(t) ==
    LET u == OwnerOf[MemoOf[t]] IN
    /\ memo' = [memo EXCEPT ![MemoOf[t]] = "used"]
    /\ processed' = [processed EXCEPT ![t] = "deposit"]
    /\ owner' = [owner EXCEPT ![t] = u]
    /\ balance' = [balance EXCEPT ![u] = @ + AmountOf[t]]
    /\ UNCHANGED <<review, candidate>>

(* The hash is taken: the transaction aborts on a duplicate key. *)
Taken(t) == processed[t] # "no"

Ingest(t, decision) ==
    \/ (decision = "already" \/ Taken(t)) /\ UNCHANGED books
    \/ ~Taken(t) /\ decision = "rejected" /\ Reject(t)
    \/ ~Taken(t) /\ decision = "missing"  /\ CreateUnmatched(t, NoUser)
    \/ ~Taken(t) /\ decision = "inactive" /\ CreateUnmatched(t, OwnerOf[MemoOf[t]])
    \/ ~Taken(t) /\ decision = "credit" /\ Usable(t)  /\ CreditDeposit(t)
    \/ ~Taken(t) /\ decision = "credit" /\ ~Usable(t)
                 /\ CreateUnmatched(t, OwnerOf[MemoOf[t]])

(***************************************************************************)
(* A run: a batch of transfers to look up and to ingest one by one.  A job *)
(* polls and then replays; a window is a merchant's request.               *)
(***************************************************************************)
Set(r, k)    == task' = [task EXCEPT ![r] = k]
Batch(job, pc, todo) ==
    [pc |-> pc, job |-> job, todo |-> todo, current |-> {}, newest |-> 0,
     plan   |-> [t \in Transfers |-> "none"],
     counts |-> [t \in Transfers |-> IF t \in todo THEN failure[t].retries ELSE 0]]

(* What the index returns from a time on; a failing later page leaves a
   shorter list, which is still in the order of time. *)
Since(time)   == {t \in indexed : TimeOf[t] >= time}
FetchedNewestFirst(S, F) == /\ F \subseteq S
                            /\ \A t \in F, s \in S \ F : TimeOf[t] >= TimeOf[s]
Fetched(S, F) == /\ F \subseteq S
                 /\ \A t \in F, s \in S \ F : TimeOf[t] <= TimeOf[s]

(* What a poll asks for, and what of it is not a day old. *)
Asked(old) == IF cursor = 0 THEN Since(0) \ old ELSE Since(cursor)

Find == Batch("replay", "find", {})

PollDeposits(r) ==
    /\ task[r].pc = "idle"
    /\ \E old \in SUBSET (late \cap MayAge) :
          IF Asked(old) = {}
          THEN /\ Set(r, Find)
               /\ UNCHANGED faults
          ELSE \E F \in SUBSET Asked(old), last \in Asked(old) :
                  /\ Fetched(Asked(old), F)
                  /\ last \in F /\ \A t \in F : TimeOf[t] <= TimeOf[last]
                  /\ F # Asked(old) => faults < MaxFaults[crew]
                  /\ faults' = IF F = Asked(old) THEN faults ELSE faults + 1
                  /\ Set(r, [Batch("poll", "lookup", F) EXCEPT !.newest = TimeOf[last]])
    /\ UNCHANGED <<chain, books, failure, cursor, desk>>

RetryableButOnce(t) == /\ failure[t].status = "pending"
                       /\ ~failure[t].stamped
                       /\ failure[t].retries + 1 < MaxRetries

Retryable(t) == /\ failure[t].status = "pending"
                /\ ~failure[t].stamped
                /\ failure[t].retries < MaxRetries

(* nextRetryAt has come. *)
BackoffEnds(t) ==
    /\ failure[t].status = "pending" /\ ~failure[t].due
    /\ failure' = [failure EXCEPT ![t].due = TRUE]
    /\ UNCHANGED <<chain, books, cursor, task, desk, faults>>

FindRetryable(r) ==
    LET S == {t \in Transfers : Retryable(t) /\ failure[t].due} IN
    /\ task[r].pc = "find"
    /\ Set(r, IF S = {} THEN Idle ELSE Batch("replay", "lookup", S))
    /\ UNCHANGED <<chain, books, failure, cursor, desk, faults>>

ReplayDepositWindow(r, first, last) ==
    LET S == {t \in indexed : TimeOf[t] \in first .. last} IN
    /\ task[r].pc = "idle"
    /\ S # {}
    /\ Set(r, Batch("window", "lookup", S))
    /\ UNCHANGED <<chain, books, failure, cursor, desk, faults>>

(* The poll leaves out what it has seen and what the replay looks after. *)
PendingTransfers(S) ==
    {t \in S : processed[t] = "no" /\ failure[t].status \in {"none", "resolved"}}

Rest(k, todo) ==
    IF todo # {}            THEN [k EXCEPT !.pc = "ingest", !.todo = todo]
    ELSE IF k.job = "poll"  THEN [k EXCEPT !.pc = "earliest", !.todo = {}]
                            ELSE Idle

LookUp(r) ==
    LET k == task[r]
        S == IF k.job = "poll" THEN PendingTransfers(k.todo) ELSE k.todo
    IN
    /\ k.pc = "lookup"
    /\ Set(r, Rest([k EXCEPT !.plan =
                       [t \in Transfers |-> IF t \in S THEN Preview(t) ELSE "none"]], S))
    /\ UNCHANGED <<chain, books, failure, cursor, desk, faults>>

(* The poll and a window go by time, a replay by when each first failed. *)
Due(k, t) == /\ t \in k.todo
             /\ k.job # "replay" => \A s \in k.todo : TimeOf[t] <= TimeOf[s]

IngestTransfer(r, t) ==
    LET k == task[r] IN
    /\ k.pc = "ingest"
    /\ Due(k, t)
    /\ Ingest(t, k.plan[t])
    /\ Set(r, IF k.job = "replay" THEN [k EXCEPT !.pc = "resolve", !.current = {t}]
              ELSE Rest(k, k.todo \ {t}))
    /\ UNCHANGED <<chain, failure, cursor, desk, faults>>

IngestThrows(r, t) ==
    LET k == task[r] IN
    /\ k.pc = "ingest"
    /\ Due(k, t)
    /\ faults < MaxFaults[crew]
    /\ faults' = faults + 1
    /\ \/ Ingest(t, k.plan[t])
       \/ UNCHANGED books
    /\ Set(r, CASE k.job = "poll"   -> [k EXCEPT !.pc = "record", !.current = {t}]
                [] k.job = "replay" -> [k EXCEPT !.pc = "retry", !.current = {t}]
                [] k.job = "window" -> Idle)
    /\ UNCHANGED <<chain, failure, cursor, desk>>

Upserted(row) ==
    [status |-> "pending", retries |-> row.retries, stamped |-> FALSE, due |-> TRUE]

RecordFailure(r, t) ==
    LET k == task[r] IN
    /\ k.pc = "record"
    /\ t \in k.current
    /\ failure' = [failure EXCEPT ![t] = Upserted(@)]
    /\ Set(r, Rest([k EXCEPT !.current = {}], k.todo \ {t}))
    /\ UNCHANGED <<chain, books, cursor, desk, faults>>

Unsettled == {t \in Transfers : failure[t].status = "pending" /\ ~failure[t].stamped}

(* The cursor goes no further than the oldest pending failure, which is read
   before it is stored. *)
ReadEarliest(r) ==
    LET k == task[r] IN
    /\ k.pc = "earliest"
    /\ \E n \in {k.newest} \cup {TimeOf[t] : t \in Unsettled} :
          /\ n <= k.newest
          /\ \A t \in Unsettled : n <= TimeOf[t]
          /\ Set(r, [k EXCEPT !.pc = "store", !.newest = n])
    /\ UNCHANGED <<chain, books, failure, cursor, desk, faults>>

StoreCursor(r) ==
    /\ task[r].pc = "store"
    /\ cursor' = task[r].newest
    /\ Set(r, Find)
    /\ UNCHANGED <<chain, books, failure, desk, faults>>

Resolved(row) ==
    [status |-> "resolved", retries |-> row.retries, stamped |-> TRUE, due |-> row.due]

(* A replay updates the row without looking at it again, with the count of
   retries it read at the start. *)
Rescheduled(row, n) ==
    [status |-> IF n >= MaxRetries THEN "terminal" ELSE "pending",
     retries |-> n, stamped |-> row.stamped, due |-> FALSE]

MarkResolved(r, t) ==
    LET k == task[r] IN
    /\ k.pc = "resolve"
    /\ t \in k.current
    /\ failure' = [failure EXCEPT ![t] = Resolved(@)]
    /\ Set(r, Rest([k EXCEPT !.current = {}], k.todo \ {t}))
    /\ UNCHANGED <<chain, books, cursor, desk, faults>>

(* It throws, and may have been carried out. *)
MarkResolvedThrows(r, t) ==
    LET k == task[r] IN
    /\ k.pc = "resolve"
    /\ t \in k.current
    /\ faults < MaxFaults[crew]
    /\ faults' = faults + 1
    /\ failure' \in {failure, [failure EXCEPT ![t] = Resolved(@)]}
    /\ Set(r, [k EXCEPT !.pc = "retry"])
    /\ UNCHANGED <<chain, books, cursor, desk>>

Reschedule(r, t) ==
    LET k == task[r] IN
    /\ k.pc = "retry"
    /\ t \in k.current
    /\ failure' = [failure EXCEPT ![t] = Rescheduled(@, k.counts[t] + 1)]
    /\ Set(r, Rest([k EXCEPT !.current = {}], k.todo \ {t}))
    /\ UNCHANGED <<chain, books, cursor, desk, faults>>

(* A read or write outside the ingestion fails, or the process dies. *)
RunAborts(r) ==
    /\ task[r].pc # "idle"
    /\ faults < MaxFaults[crew]
    /\ faults' = faults + 1
    /\ Set(r, Idle)
    /\ UNCHANGED <<chain, books, failure, cursor, desk>>

(***************************************************************************)
(* The merchants' decisions on unmatched deposits.                         *)
(***************************************************************************)
AnswerByAction(d, t) ==
    [d EXCEPT !.pc = IF review[t] = d.action THEN "done" ELSE "conflict"]
Answer(d, t) ==
    LET same == /\ review[t] = d.action
                /\ d.action = "credited" /\ d.user # NoUser => owner[t] = d.user
    IN [d EXCEPT !.pc = IF same THEN "done" ELSE "conflict"]

(* The merchant may name the user to credit, or leave it to the memo's. *)
OpenReview(o, t, action, user) ==
    LET d == [pc |-> "resolve", t |-> t, action |-> action, user |-> user] IN
    /\ desk[o].pc = "idle"
    /\ review[t] # "none"
    /\ action = "credited" => user # NoUser \/ candidate[t] # NoUser
    /\ action = "dismissed" => user = NoUser
    /\ desk' = [desk EXCEPT ![o] = IF review[t] = "open" THEN d ELSE Answer(d, t)]
    /\ UNCHANGED <<chain, books, failure, cursor, task, faults>>

CreditReview(t, u) ==
    /\ review' = [review EXCEPT ![t] = "credited"]
    /\ IF owner[t] = NoUser
       THEN /\ owner' = [owner EXCEPT ![t] = u]
            /\ balance' = [balance EXCEPT ![u] = @ + AmountOf[t]]
       ELSE UNCHANGED <<owner, balance>>
    /\ memo' = IF candidate[t] = u /\ memo[MemoOf[t]] = "issued"
               THEN [memo EXCEPT ![MemoOf[t]] = "used"] ELSE memo
    /\ processed' = [processed EXCEPT ![t] = "deposit_reconciled_credit"]
    /\ UNCHANGED candidate

DismissReview(t) ==
    /\ review' = [review EXCEPT ![t] = "dismissed"]
    /\ processed' = [processed EXCEPT ![t] = "deposit_reconciled_dismiss"]
    /\ UNCHANGED <<memo, owner, candidate, balance>>

(* markResolved finds the review open or the transaction is given up. *)
UnresolvedOrDismissed(t) == review[t] \in {"open", "dismissed"}
Unresolved(t) == review[t] = "open"

Reconcile(o) ==
    LET d == desk[o]
        u == IF d.user # NoUser THEN d.user ELSE candidate[d.t]
    IN
    /\ d.pc = "resolve"
    /\ \/ /\ Unresolved(d.t)
          /\ d.action = "credited"
          /\ CreditReview(d.t, u)
          /\ desk' = [desk EXCEPT ![o].pc = "done"]
       \/ /\ Unresolved(d.t)
          /\ d.action = "dismissed"
          /\ DismissReview(d.t)
          /\ desk' = [desk EXCEPT ![o].pc = "done"]
       \/ /\ ~Unresolved(d.t)
          /\ desk' = [desk EXCEPT ![o] = Answer(d, d.t)]
          /\ UNCHANGED books
    /\ UNCHANGED <<chain, failure, cursor, task, faults>>

(* The transaction fails, or its answer is lost: the merchant asks again. *)
ReconcileFails(o) ==
    /\ desk[o].pc \in {"resolve", "done", "conflict"}
    /\ faults < MaxFaults[crew]
    /\ faults' = faults + 1
    /\ desk' = [desk EXCEPT ![o] = NoDesk]
    /\ UNCHANGED <<chain, books, failure, cursor, task>>

JobStep(r) ==
    \/ PollDeposits(r) \/ LookUp(r) \/ FindRetryable(r)
    \/ ReadEarliest(r) \/ StoreCursor(r)
    \/ \E t \in Transfers : \/ IngestTransfer(r, t) \/ RecordFailure(r, t)
                            \/ MarkResolved(r, t) \/ Reschedule(r, t)

Times == {TimeOf[t] : t \in Transfers}

WindowStep(r) ==
    \/ \E first, last \in Times : ReplayDepositWindow(r, first, last)
    \/ LookUp(r)
    \/ \E t \in Transfers : IngestTransfer(r, t)

MerchantStep(o) ==
    \/ \E t \in Transfers, action \in {"credited", "dismissed"},
          user \in Users \cup {NoUser} : OpenReview(o, t, action, user)
    \/ Reconcile(o) \/ ReconcileFails(o)

Next ==
    /\ \/ \E m \in Memos : IssueMemo(m) \/ PurgeMemo(m)
       \/ \E t \in Transfers : Appear(t) \/ Outdates(t) \/ BackoffEnds(t)
       \/ \E r \in Pollers \cap crew : JobStep(r)
       \/ \E r \in Windows \cap crew : WindowStep(r)
       \/ \E r \in Runs, t \in Transfers :
             RunAborts(r) \/ IngestThrows(r, t) \/ MarkResolvedThrows(r, t)
       \/ \E o \in Operators \cap crew : MerchantStep(o)
    /\ UNCHANGED crew

Spec == Init /\ [][Next]_vars

(* Some process is up, restarted if it dies, and its job's timer goes on firing;
   the delay before a retry, five minutes at most, passes. *)
DepositFairness ==
    /\ WF_vars(\E r \in Pollers \cap crew : JobStep(r) /\ UNCHANGED crew)
    /\ \A t \in Transfers : WF_vars(BackoffEnds(t) /\ UNCHANGED crew)

(***************************************************************************)
(* Properties.                                                             *)
(***************************************************************************)

(* Every variable keeps to its values; no failed ingestion is counted beyond
   MaxRetries. *)
Rows == [status  : {"none", "pending", "resolved", "terminal"},
         retries : 0 .. MaxRetries,
         stamped : BOOLEAN,
         due     : BOOLEAN]

Tasks == {Idle} \cup
    [pc      : {"find", "lookup", "ingest", "record", "resolve", "retry", "earliest", "store"},
     job     : {"poll", "replay", "window"},
     todo    : SUBSET Transfers,
     current : SUBSET Transfers,
     newest  : Nat,
     plan    : [Transfers -> {"none", "rejected", "already", "credit", "inactive", "missing"}],
     counts  : [Transfers -> 0 .. MaxRetries]]

Desks == {NoDesk} \cup
    [pc     : {"resolve", "done", "conflict"},
     t      : Transfers,
     action : {"credited", "dismissed"},
     user   : Users \cup {NoUser}]

DepositTypeOK ==
    /\ indexed \subseteq Transfers
    /\ late \subseteq indexed /\ aborted \subseteq indexed
    /\ memo \in [Memos -> {"none", "issued", "used", "purged"}]
    /\ processed \in [Transfers -> {"no", "deposit", "deposit_unmatched",
            "deposit_rejected", "deposit_reconciled_credit", "deposit_reconciled_dismiss"}]
    /\ owner \in [Transfers -> Users \cup {NoUser}]
    /\ candidate \in [Transfers -> Users \cup {NoUser}]
    /\ review \in [Transfers -> {"none", "open", "credited", "dismissed"}]
    /\ balance \in [Users -> Nat]
    /\ failure \in [Transfers -> Rows]
    /\ cursor \in Nat
    /\ task \in [Runs -> Tasks]
    /\ desk \in [Operators -> Desks]

(* The five collections a deposit is written to agree about it: processed_txs,
   deposits, unmatched_deposits and the memo tell one story. *)
BooksAgree == \A t \in Transfers :
    /\ owner[t] # NoUser <=> processed[t] \in {"deposit", "deposit_reconciled_credit"}
    /\ review[t] = "open" <=> processed[t] = "deposit_unmatched"
    /\ review[t] = "credited" <=> processed[t] = "deposit_reconciled_credit"
    /\ review[t] = "dismissed" <=> processed[t] = "deposit_reconciled_dismiss"
    /\ processed[t] = "deposit" => /\ MemoOf[t] \in Memos
                                  /\ memo[MemoOf[t]] \in {"used", "purged"}

(* A transfer is credited once and to one user, by the job, a replay or a
   merchant, and what was dismissed or rejected never is. *)
FateOf(type) ==
    CASE type = "no" -> "new"
      [] type \in {"deposit", "deposit_reconciled_credit"} -> "credited"
      [] type = "deposit_unmatched" -> "review"
      [] type = "deposit_rejected" -> "rejected"
      [] type = "deposit_reconciled_dismiss" -> "dismissed"

Fate == [t \in Transfers |-> FateOf(processed[t])]

Ledger == INSTANCE DepositLedger WITH fate <- Fate

CreditedOnce == Ledger!Spec

(* A memo buys one automatic credit, whoever sends what with it how often. *)
MemoCreditsOnce == \A s, t \in Transfers :
    /\ processed[s] = "deposit"
    /\ processed[t] = "deposit"
    /\ MemoOf[s] = MemoOf[t]
    => s = t

(* The books of the deposits are well formed, tell one story, and honour no memo
   twice. *)
DepositBooksOK == DepositTypeOK /\ BooksAgree /\ MemoCreditsOnce

(* A transfer the cursor has passed is in the books or among the failures, if
   the index did not show it after a younger one and no day went by without a
   cursor. *)
NoneSkipped == \A t \in indexed \ late :
    TimeOf[t] < cursor => processed[t] # "no" \/ failure[t].status # "none"

(* The count of a failure reaches the limit together with the alert; a poll that
   overlapped may later write the row as pending again, with the count it has. *)
Alerted(t) == failure[t].retries = MaxRetries

(* A failure that no replay will take again, and that no alert named, is of a
   transfer that is in the books: the row may be wrong, the money is not. *)
StrandedIsProcessed == \A t \in Transfers :
    /\ failure[t].status \in {"pending", "resolved"}
    /\ ~Retryable(t)
    => processed[t] # "no" \/ Alerted(t)

(* Whatever was seen is in the books, among the failures, or named by an alert. *)
NothingIsLost == NoneSkipped /\ StrandedIsProcessed

(* A merchant who is told that a deposit is credited, or dismissed, as asked
   finds it so, and credited to the user named. *)
AnswerIsTrue == \A o \in Operators :
    desk[o].pc = "done" =>
        /\ review[desk[o].t] = desk[o].action
        /\ desk[o].action = "credited" /\ desk[o].user # NoUser =>
              owner[desk[o].t] = desk[o].user

(* A transfer that the index shows in time gets into the books by itself, or
   its failures are given up with an alert, whatever fails in between, unless
   it gets a day old before the first poll has stored a cursor (pollDeposits). *)
Ingested == \A t \in Transfers :
    t \in indexed \ late ~> \/ processed[t] # "no" \/ failure[t].status = "terminal"
                           \/ t \in late

LiveSpec == Spec /\ DepositFairness
=============================================================================
