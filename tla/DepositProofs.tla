--------------------------- MODULE DepositProofs ---------------------------
(***************************************************************************)
(* That DepositIngestion keeps its books together, implements              *)
(* DepositLedger, loses no transfer and tells merchants the truth, for any *)
(* number of transfers, users, memos, runs and faults.                     *)
(*                                                                         *)
(* BookChange names what a step may do to the books.  Every step is one of *)
(* these (StepIsBookChange), each of them keeps BooksInv (BooksKept), and  *)
(* each is a step of the ledger or none (LedgerStep).  AnswersInv says     *)
(* what a merchant's request may still be told, LossInv how far the cursor *)
(* and the runs that move it have come.                                    *)
(***************************************************************************)
EXTENDS DepositIngestion, TLAPS

(* A memo belongs to whoever may be credited by it. *)
BooksTypeOK ==
    /\ memo \in [Memos -> {"none", "issued", "used", "purged"}]
    /\ processed \in [Transfers -> {"no", "deposit", "deposit_unmatched",
            "deposit_rejected", "deposit_reconciled_credit", "deposit_reconciled_dismiss"}]
    /\ owner \in [Transfers -> Users \cup {NoUser}]
    /\ candidate \in [Transfers -> Users \cup {NoUser}]
    /\ review \in [Transfers -> {"none", "open", "credited", "dismissed"}]
    /\ balance \in [Users -> Nat]

CandidateHasMemo == \A t \in Transfers : candidate[t] # NoUser => MemoOf[t] \in Memos

BooksInv == BooksTypeOK /\ BooksAgree /\ CandidateHasMemo /\ MemoCreditsOnce

(* What a run has planned, and what a merchant has asked, can be carried out. *)
PlanOf(k) ==
    k.pc # "idle" =>
        /\ \A t \in Transfers : k.plan[t] \in {"credit", "inactive"} => MemoOf[t] \in Memos
        /\ k.job = "replay" => \A t \in Transfers : k.counts[t] < MaxRetries
        /\ k.pc = "retry" => k.job = "replay"
        /\ k.pc = "resolve" => k.job = "replay"

PlansOK == \A r \in Runs : PlanOf(task[r])

DesksOK == \A o \in Operators :
    desk[o].pc = "resolve" /\ desk[o].action = "credited" => desk[o].user # NoUser \/ candidate[desk[o].t] # NoUser

Reviewed == \A o \in Operators :
    desk[o].pc = "resolve" => review[desk[o].t] # "none"

DepositInv == DepositTypeOK /\ BooksInv /\ PlansOK /\ DesksOK /\ Reviewed

(***************************************************************************)
(* What a step may do to the books.                                        *)
(***************************************************************************)
MemoChange == \E m \in Memos :
    /\ \/ memo[m] = "none" /\ memo' = [memo EXCEPT ![m] = "issued"]
       \/ memo[m] \in {"issued", "used"} /\ memo' = [memo EXCEPT ![m] = "purged"]
    /\ UNCHANGED <<processed, owner, review, candidate, balance>>

Recorded(t) ==
    /\ ~Taken(t)
    /\ \/ Reject(t)
       \/ CreateUnmatched(t, NoUser)
       \/ MemoOf[t] \in Memos /\ CreateUnmatched(t, OwnerOf[MemoOf[t]])
       \/ Usable(t) /\ CreditDeposit(t)

Decided(t) ==
    /\ Unresolved(t)
    /\ \/ DismissReview(t)
       \/ \E u \in Users : CreditReview(t, u)

BookChange ==
    \/ UNCHANGED books
    \/ MemoChange
    \/ \E t \in Transfers : Recorded(t) \/ Decided(t)

(* An ingestion whose plan can be carried out changes the books in one of the
   listed ways, or not at all. *)
LEMMA IngestIsBookChange ==
    ASSUME NEW t \in Transfers, NEW d,
           d \in {"credit", "inactive"} => MemoOf[t] \in Memos,
           Ingest(t, d)
    PROVE  BookChange
  BY DEF Ingest, BookChange, Recorded

(* Every step is one of the changes the books know. *)
LEMMA StepIsBookChange ==
    ASSUME DepositAssumption, DepositInv, [Next]_vars
    PROVE  BookChange
  <1>1. CASE UNCHANGED vars
    BY <1>1 DEF vars, books, BookChange
  <1>2. ASSUME NEW m \in Memos, IssueMemo(m) \/ PurgeMemo(m)
        PROVE  BookChange
    BY <1>2 DEF IssueMemo, PurgeMemo, BookChange, MemoChange
  <1>3. ASSUME NEW r \in Runs, NEW t \in Transfers, IngestTransfer(r, t) \/ IngestThrows(r, t)
        PROVE  BookChange
    <2>1. task[r].plan[t] \in {"credit", "inactive"} => MemoOf[t] \in Memos
      BY <1>3 DEF IngestTransfer, IngestThrows, DepositInv, PlansOK, PlanOf
    <2>2. Ingest(t, task[r].plan[t]) \/ UNCHANGED books
      BY <1>3 DEF IngestTransfer, IngestThrows
    <2> QED BY <2>1, <2>2, IngestIsBookChange DEF BookChange
  <1>4. ASSUME NEW o \in Operators, Reconcile(o)
        PROVE  BookChange
    <2> DEFINE d == desk[o]
               u == IF d.user # NoUser THEN d.user ELSE candidate[d.t]
    <2>1. CASE ~Unresolved(d.t)
      BY <1>4, <2>1 DEF Reconcile, BookChange
    <2>2. CASE Unresolved(d.t)
      <3>1. d.pc = "resolve" /\ d \in Desks
        BY <1>4 DEF Reconcile, DepositInv, DepositTypeOK
      <3>2. d.t \in Transfers /\ d.user \in Users \cup {NoUser}
        BY <3>1 DEF Desks, NoDesk
      <3>3. CASE d.action = "credited" /\ CreditReview(d.t, u)
        <4>1. u \in Users
          BY <3>1, <3>2, <3>3, <2>2 DEF DepositInv, DesksOK, BooksInv, BooksTypeOK
        <4> QED BY <4>1, <3>2, <3>3, <2>2 DEF BookChange, Decided
      <3>4. CASE DismissReview(d.t)
        BY <3>2, <3>4, <2>2 DEF BookChange, Decided
      <3> QED BY <1>4, <2>2, <3>3, <3>4 DEF Reconcile
    <2> QED BY <2>1, <2>2
  <1>5. ASSUME NEW r \in Runs,
               \/ PollDeposits(r) \/ LookUp(r) \/ FindRetryable(r) \/ ReadEarliest(r)
               \/ StoreCursor(r) \/ RunAborts(r)
               \/ (\E first, last \in Times : ReplayDepositWindow(r, first, last))
        PROVE  UNCHANGED books
    BY <1>5 DEF PollDeposits, LookUp, FindRetryable, ReadEarliest, StoreCursor,
                RunAborts, ReplayDepositWindow
  <1>9. ASSUME NEW r \in Runs, NEW t \in Transfers,
               \/ RecordFailure(r, t) \/ MarkResolved(r, t)
               \/ Reschedule(r, t) \/ MarkResolvedThrows(r, t)
        PROVE  UNCHANGED books
    BY <1>9 DEF RecordFailure, MarkResolved, Reschedule, MarkResolvedThrows
  <1>6. ASSUME NEW t \in Transfers, Appear(t) \/ Outdates(t) \/ BackoffEnds(t)
        PROVE  UNCHANGED books
    BY <1>6 DEF Appear, Outdates, BackoffEnds
  <1>7. ASSUME NEW o \in Operators, NEW t, NEW a, NEW u, OpenReview(o, t, a, u) \/ ReconcileFails(o)
        PROVE  UNCHANGED books
    BY <1>7 DEF OpenReview, ReconcileFails
  <1>8. CASE Next
    <2>1. ASSUME NEW r \in Pollers \cap crew, JobStep(r) PROVE BookChange
      BY <2>1, <1>3, <1>5, <1>9 DEF JobStep, Runs, BookChange
    <2>2. ASSUME NEW r \in Windows \cap crew, WindowStep(r) PROVE BookChange
      BY <2>2, <1>3, <1>5 DEF WindowStep, Runs, BookChange
    <2>3. ASSUME NEW o \in Operators \cap crew, MerchantStep(o) PROVE BookChange
      BY <2>3, <1>4, <1>7 DEF MerchantStep, BookChange
    <2> QED BY <1>8, <2>1, <2>2, <2>3, <1>2, <1>3, <1>5, <1>6, <1>9 DEF Next, BookChange
  <1> QED BY <1>1, <1>8

(***************************************************************************)
(* Every change of the books keeps them together.                          *)
(***************************************************************************)
LEMMA BooksKept ==
    ASSUME DepositAssumption, BooksInv, BookChange
    PROVE  BooksInv'
  <1> USE DEF BooksInv, BooksTypeOK, BooksAgree, CandidateHasMemo, MemoCreditsOnce
  <1>1. CASE UNCHANGED books
    BY <1>1 DEF books
  <1>2. CASE MemoChange
    BY <1>2 DEF MemoChange
  <1>3. ASSUME NEW t \in Transfers, ~Taken(t), Reject(t)
        PROVE  BooksInv'
    BY <1>3 DEF Taken, Reject
  <1>4. ASSUME NEW t \in Transfers, NEW u \in Users \cup {NoUser}, ~Taken(t),
               CreateUnmatched(t, u), u # NoUser => MemoOf[t] \in Memos
        PROVE  BooksInv'
    BY <1>4 DEF Taken, CreateUnmatched
  <1>5. ASSUME NEW t \in Transfers, ~Taken(t), Usable(t), CreditDeposit(t)
        PROVE  BooksInv'
    <2>1. OwnerOf[MemoOf[t]] \in Users /\ OwnerOf[MemoOf[t]] # NoUser /\ AmountOf[t] \in Nat
      BY <1>5 DEF Usable, DepositAssumption
    <2>2. BooksTypeOK'
      BY <2>1, <1>5 DEF Usable, Taken, CreditDeposit
    <2>3. BooksAgree'
      BY <2>1, <1>5 DEF Usable, Taken, CreditDeposit
    <2>4. MemoCreditsOnce' /\ CandidateHasMemo'
      BY <1>5 DEF Usable, Taken, CreditDeposit
    <2> QED BY <2>2, <2>3, <2>4
  <1>6. ASSUME NEW t \in Transfers, Unresolved(t), DismissReview(t)
        PROVE  BooksInv'
    BY <1>6 DEF Unresolved, DismissReview
  <1>7. ASSUME NEW t \in Transfers, NEW u \in Users, Unresolved(t), CreditReview(t, u)
        PROVE  BooksInv'
    <2>1. u # NoUser /\ AmountOf[t] \in Nat /\ owner[t] = NoUser
      BY <1>7 DEF Unresolved, DepositAssumption
    <2>2. BooksTypeOK'
      BY <2>1, <1>7 DEF Unresolved, CreditReview
    <2>3. BooksAgree'
      BY <2>1, <1>7 DEF Unresolved, CreditReview
    <2>4. MemoCreditsOnce' /\ CandidateHasMemo'
      BY <1>7 DEF Unresolved, CreditReview
    <2> QED BY <2>2, <2>3, <2>4
  <1>8. \A t \in Transfers : MemoOf[t] \in Memos => OwnerOf[MemoOf[t]] \in Users
    BY DEF DepositAssumption
  <1>9. ASSUME NEW t \in Transfers, Recorded(t)
        PROVE  BooksInv'
    BY <1>3, <1>4, <1>5, <1>8, <1>9 DEF Recorded
  <1>10. ASSUME NEW t \in Transfers, Decided(t)
        PROVE  BooksInv'
    BY <1>6, <1>7, <1>10 DEF Decided
  <1> QED BY <1>1, <1>2, <1>9, <1>10 DEF BookChange

(***************************************************************************)
(* Every change of the books is a step of the ledger.                      *)
(***************************************************************************)
LEMMA Fates ==
    /\ FateOf("no") = "new"
    /\ FateOf("deposit") = "credited"
    /\ FateOf("deposit_reconciled_credit") = "credited"
    /\ FateOf("deposit_unmatched") = "review"
    /\ FateOf("deposit_rejected") = "rejected"
    /\ FateOf("deposit_reconciled_dismiss") = "dismissed"
  BY DEF FateOf

(* A change of the books is a step of the ledger, or none. *)
LEMMA LedgerStep ==
    ASSUME DepositAssumption, BooksInv, BookChange
    PROVE  Ledger!Next \/ UNCHANGED Ledger!vars
  <1>0. BooksTypeOK
    BY DEF BooksInv
  <1>1. CASE UNCHANGED books
    BY <1>1 DEF books, Ledger!vars, Fate
  <1>2. CASE MemoChange
    BY <1>2 DEF MemoChange, Ledger!vars, Fate
  <1>3. ASSUME NEW t \in Transfers, ~Taken(t), Reject(t)
        PROVE  Ledger!Change(t, "new", "rejected")
    <2>1. Fate' = [Fate EXCEPT ![t] = "rejected"] /\ Fate[t] = "new"
      BY <1>0, <1>3, Fates DEF Taken, Reject, Fate, BooksTypeOK
    <2> QED BY <1>3, <2>1 DEF Reject, Ledger!Change
  <1>4. ASSUME NEW t \in Transfers, NEW u, ~Taken(t), CreateUnmatched(t, u)
        PROVE  Ledger!Change(t, "new", "review")
    <2>1. Fate' = [Fate EXCEPT ![t] = "review"] /\ Fate[t] = "new"
      BY <1>0, <1>4, Fates DEF Taken, CreateUnmatched, Fate, BooksTypeOK
    <2> QED BY <1>4, <2>1 DEF CreateUnmatched, Ledger!Change
  <1>5. ASSUME NEW t \in Transfers, ~Taken(t), CreditDeposit(t)
        PROVE  Ledger!Credit(t, OwnerOf[MemoOf[t]])
    <2>1. Fate' = [Fate EXCEPT ![t] = "credited"] /\ Fate[t] = "new"
      BY <1>0, <1>5, Fates DEF Taken, CreditDeposit, Fate, BooksTypeOK
    <2> QED BY <1>5, <2>1 DEF CreditDeposit, Ledger!Credit
  <1>6. ASSUME NEW t \in Transfers, Unresolved(t), DismissReview(t)
        PROVE  Ledger!Change(t, "review", "dismissed")
    <2>1. processed[t] = "deposit_unmatched"
      BY <1>6 DEF Unresolved, BooksInv, BooksAgree
    <2>2. Fate' = [Fate EXCEPT ![t] = "dismissed"] /\ Fate[t] = "review"
      BY <1>0, <1>6, <2>1, Fates DEF DismissReview, Fate, BooksTypeOK
    <2> QED BY <1>6, <2>2 DEF DismissReview, Ledger!Change
  <1>7. ASSUME NEW t \in Transfers, NEW u \in Users, Unresolved(t), CreditReview(t, u)
        PROVE  Ledger!Credit(t, u)
    <2>1. processed[t] = "deposit_unmatched" /\ owner[t] = NoUser
      BY <1>7 DEF Unresolved, BooksInv, BooksAgree
    <2>2. Fate' = [Fate EXCEPT ![t] = "credited"] /\ Fate[t] = "review"
      BY <1>0, <1>7, <2>1, Fates DEF CreditReview, Fate, BooksTypeOK
    <2> QED BY <1>7, <2>1, <2>2 DEF CreditReview, Ledger!Credit
  <1>8. ASSUME NEW t \in Transfers, Usable(t)
        PROVE  OwnerOf[MemoOf[t]] \in Users
    BY <1>8 DEF Usable, DepositAssumption
  <1>9. ASSUME NEW t \in Transfers, Recorded(t)
        PROVE  Ledger!Next
    BY <1>3, <1>4, <1>5, <1>8, <1>9 DEF Recorded, Ledger!Next
  <1>10. ASSUME NEW t \in Transfers, Decided(t)
        PROVE  Ledger!Next
    BY <1>6, <1>7, <1>10 DEF Decided, Ledger!Next
  <1> QED BY <1>1, <1>2, <1>9, <1>10 DEF BookChange

(***************************************************************************)
(* The rest of the invariant.                                              *)
(***************************************************************************)
LEMMA InitOK == ASSUME DepositAssumption, Init PROVE DepositInv /\ Ledger!Init
  <1>1. DepositTypeOK
    BY DEF DepositAssumption, Init, DepositTypeOK, Rows, Tasks, Desks, NoRow
  <1>2. BooksInv
    BY DEF DepositAssumption, Init, BooksInv, BooksTypeOK, BooksAgree, CandidateHasMemo,
           MemoCreditsOnce
  <1>3. PlansOK /\ DesksOK /\ Reviewed
    BY DEF Init, PlansOK, PlanOf, DesksOK, Reviewed, Idle, NoDesk
  <1>4. Ledger!Init
    BY Fates DEF Init, Ledger!Init, Fate
  <1> QED BY <1>1, <1>2, <1>3, <1>4 DEF DepositInv

(* The task a run goes on with is a task, and its plan is still sound. *)
LEMMA BatchOK ==
    ASSUME DepositTypeOK, DepositAssumption, NEW job \in {"poll", "replay", "window"},
           NEW pc \in {"find", "lookup"}, NEW S \in SUBSET Transfers,
           job = "replay" => \A t \in S : Retryable(t)
    PROVE  Batch(job, pc, S) \in Tasks /\ PlanOf(Batch(job, pc, S))
  BY DEF DepositTypeOK, Rows, DepositAssumption, Batch, Tasks, PlanOf, Retryable

(* A run that has less left to do is still a run. *)
LEMMA RestOK ==
    ASSUME DepositAssumption, NEW k \in Tasks, k.pc # "idle", PlanOf(k),
           NEW S \in SUBSET Transfers
    PROVE  Rest(k, S) \in Tasks /\ PlanOf(Rest(k, S))
  <1>1. CASE S # {}
    <2> DEFINE k1 == [k EXCEPT !.pc = "ingest"]
               k2 == [k1 EXCEPT !.todo = S]
    <2>1. k1 \in Tasks /\ PlanOf(k1) /\ k1.pc = "ingest"
      BY DEF Tasks, PlanOf, Idle
    <2>2. Rest(k, S) = k2
      BY <1>1 DEF Rest
    <2> HIDE DEF k1
    <2>3. k2 \in Tasks /\ PlanOf(k2)
      BY <2>1 DEF Tasks, PlanOf, Idle
    <2> QED BY <2>2, <2>3
  <1>2. CASE S = {} /\ k.job = "poll"
    <2> DEFINE k1 == [k EXCEPT !.pc = "earliest"]
               k2 == [k1 EXCEPT !.todo = {}]
    <2>1. k1 \in Tasks /\ PlanOf(k1) /\ k1.pc = "earliest"
      BY DEF Tasks, PlanOf, Idle
    <2>2. Rest(k, S) = k2
      BY <1>2 DEF Rest
    <2> HIDE DEF k1
    <2>3. k2 \in Tasks /\ PlanOf(k2)
      BY <2>1 DEF Tasks, PlanOf, Idle
    <2> QED BY <2>2, <2>3
  <1>3. CASE S = {} /\ k.job # "poll"
    BY <1>3 DEF Rest, Tasks, PlanOf, Idle
  <1> QED BY <1>1, <1>2, <1>3

(* What a window replay foresees of a transfer is one of five outcomes. *)
LEMMA PreviewOK ==
    ASSUME NEW t \in Transfers
    PROVE  /\ Preview(t) \in {"rejected", "already", "credit", "inactive", "missing"}
           /\ Preview(t) \in {"credit", "inactive"} => MemoOf[t] \in Memos
  BY DEF Preview, Seen, Usable, Known

(* A task keeps its plan as it moves on. *)
LEMMA MovedOK ==
    ASSUME NEW k \in Tasks, k.pc # "idle", PlanOf(k),
           NEW p \in {"find", "lookup", "ingest", "record", "resolve", "retry",
                      "earliest", "store"},
           p \in {"resolve", "retry"} => k.job = "replay"
    PROVE  /\ [k EXCEPT !.pc = p] \in Tasks
           /\ PlanOf([k EXCEPT !.pc = p])
           /\ [k EXCEPT !.pc = p].pc # "idle"
  BY DEF Tasks, PlanOf, Idle

(* A run that takes up a transfer is still a run. *)
LEMMA CurrentOK ==
    ASSUME NEW k \in Tasks, k.pc # "idle", PlanOf(k), NEW C \in SUBSET Transfers
    PROVE  /\ [k EXCEPT !.current = C] \in Tasks
           /\ PlanOf([k EXCEPT !.current = C])
           /\ [k EXCEPT !.current = C].pc # "idle"
           /\ [k EXCEPT !.current = C].todo = k.todo
  BY DEF Tasks, PlanOf, Idle

(* A run that notes the newest transfer it saw is still a run. *)
LEMMA NewestOK ==
    ASSUME NEW k \in Tasks, k.pc # "idle", PlanOf(k), NEW n \in Nat
    PROVE  /\ [k EXCEPT !.newest = n] \in Tasks
           /\ PlanOf([k EXCEPT !.newest = n])
           /\ [k EXCEPT !.newest = n].pc # "idle"
  BY DEF Tasks, PlanOf, Idle

Plans == [Transfers -> {"none", "rejected", "already", "credit", "inactive", "missing"}]

(* A run that notes what it foresees is still a run. *)
LEMMA PlannedOK ==
    ASSUME NEW k \in Tasks, k.pc # "idle", PlanOf(k), NEW plan \in Plans,
           \A t \in Transfers : plan[t] \in {"credit", "inactive"} => MemoOf[t] \in Memos
    PROVE  /\ [k EXCEPT !.plan = plan] \in Tasks
           /\ PlanOf([k EXCEPT !.plan = plan])
           /\ [k EXCEPT !.plan = plan].pc # "idle"
  BY DEF Tasks, PlanOf, Idle, Plans

(* A run that goes on with a sound task leaves the tasks sound. *)
LEMMA SetOK ==
    ASSUME task \in [Runs -> Tasks], PlansOK, NEW r \in Runs, NEW k \in Tasks,
           PlanOf(k), Set(r, k)
    PROVE  task' \in [Runs -> Tasks] /\ PlansOK'
  <1>1. \A s \in Runs : task'[s] = task[s] \/ task'[s] = k
    BY DEF Set
  <1>2. \A s \in Runs : PlanOf(task'[s])
    BY <1>1 DEF PlansOK
  <1> QED BY <1>2 DEF Set, PlansOK

(* A run that has ended has no plan to keep. *)
LEMMA IdleOK == Idle \in Tasks /\ PlanOf(Idle)
  BY DEF Idle, Tasks, PlanOf

TasksOK == task \in [Runs -> Tasks] /\ PlansOK
RowsOK  == failure \in [Transfers -> Rows]

(* A run's step leaves every task sound, and the failures in their range. *)
LEMMA RunStepOK ==
    ASSUME DepositAssumption, DepositInv, NEW r \in Runs,
           \/ PollDeposits(r) \/ LookUp(r) \/ FindRetryable(r)
           \/ ReadEarliest(r) \/ StoreCursor(r) \/ RunAborts(r)
           \/ \E first, last \in Times : ReplayDepositWindow(r, first, last)
    PROVE  TasksOK' /\ cursor' \in Nat
  <1> DEFINE k == task[r]
  <1>0. /\ task \in [Runs -> Tasks] /\ PlansOK /\ DepositTypeOK
        /\ k \in Tasks /\ PlanOf(k) /\ cursor \in Nat
    BY DEF DepositInv, DepositTypeOK, PlansOK
  <1>1. ASSUME NEW n \in Tasks, PlanOf(n), Set(r, n)
        PROVE  TasksOK'
    BY <1>0, <1>1, SetOK DEF TasksOK
  <1>2. Find \in Tasks /\ PlanOf(Find)
    BY <1>0, BatchOK DEF Find
  <1>3. CASE PollDeposits(r)
    <2>1. ASSUME NEW old \in SUBSET (late \cap MayAge),
                 NEW F \in SUBSET Asked(old), NEW last \in Asked(old)
          PROVE  /\ [Batch("poll", "lookup", F) EXCEPT !.newest = TimeOf[last]] \in Tasks
                 /\ PlanOf([Batch("poll", "lookup", F) EXCEPT !.newest = TimeOf[last]])
      <3>1. F \subseteq Transfers
        BY <1>0 DEF Asked, Since, DepositTypeOK
      <3>2. Batch("poll", "lookup", F) \in Tasks /\ PlanOf(Batch("poll", "lookup", F))
        BY <1>0, <3>1, BatchOK
      <3>3. Batch("poll", "lookup", F).pc # "idle"
        BY DEF Batch
      <3>4. TimeOf[last] \in Nat
        BY <1>0 DEF Asked, Since, DepositTypeOK, DepositAssumption
      <3> QED BY <3>2, <3>3, <3>4, NewestOK
    <2> QED BY <1>0, <1>1, <1>2, <1>3, <2>1 DEF PollDeposits, Fetched
  <1>4. CASE LookUp(r)
    <2> DEFINE S == IF k.job = "poll" THEN PendingTransfers(k.todo) ELSE k.todo
               plan == [t \in Transfers |-> IF t \in S THEN Preview(t) ELSE "none"]
               k1 == [k EXCEPT !.plan = plan]
    <2>1. k.pc # "idle" /\ S \subseteq Transfers
      BY <1>0, <1>4 DEF LookUp, PendingTransfers, Tasks, Idle
    <2>2. /\ plan \in Plans
          /\ \A t \in Transfers : plan[t] \in {"credit", "inactive"} => MemoOf[t] \in Memos
      BY PreviewOK DEF Plans
    <2>3. k1 \in Tasks /\ PlanOf(k1) /\ k1.pc # "idle"
      <3> HIDE DEF plan
      <3> QED BY <1>0, <2>1, <2>2, PlannedOK
    <2>4. Set(r, Rest(k1, S)) /\ UNCHANGED cursor
      BY <1>4 DEF LookUp
    <2>5. Rest(k1, S) \in Tasks /\ PlanOf(Rest(k1, S))
      <3> HIDE DEF k1, S
      <3> QED BY <2>1, <2>3, RestOK
    <2> QED
      <3> HIDE DEF k1, S
      <3> QED BY <1>0, <1>1, <2>4, <2>5
  <1>5. CASE FindRetryable(r)
    <2> DEFINE S == {t \in Transfers : Retryable(t) /\ failure[t].due}
    <2>1. Batch("replay", "lookup", S) \in Tasks /\ PlanOf(Batch("replay", "lookup", S))
      BY <1>0, BatchOK
    <2> QED BY <1>0, <1>1, <1>5, <2>1, IdleOK DEF FindRetryable
  <1>6. CASE ReadEarliest(r)
    <2>1. k.pc # "idle" /\ k.newest \in Nat
      <3>1. k.pc = "earliest"
        BY <1>6 DEF ReadEarliest
      <3> QED BY <1>0, <3>1 DEF Tasks, Idle
    <2>2. \A t \in Unsettled : TimeOf[t] \in Nat
      BY DEF Unsettled, DepositAssumption
    <2>3. PICK n \in Nat : Set(r, [k EXCEPT !.pc = "store", !.newest = n]) /\ UNCHANGED cursor
      BY <1>6, <2>1, <2>2 DEF ReadEarliest
    <2> DEFINE k1 == [k EXCEPT !.pc = "store"]
               k2 == [k1 EXCEPT !.newest = n]
    <2>4. k1 \in Tasks /\ PlanOf(k1) /\ k1.pc # "idle"
      BY <1>0, <2>1, MovedOK
    <2>5. k2 \in Tasks /\ PlanOf(k2)
      <3> HIDE DEF k1
      <3> QED BY <2>4, NewestOK
    <2>6. Set(r, k2)
      BY <2>3
    <2> HIDE DEF k2
    <2> QED BY <1>0, <1>1, <2>3, <2>5, <2>6
  <1>7. CASE StoreCursor(r)
    <2>1. k.newest \in Nat
      BY <1>0, <1>7 DEF StoreCursor, Tasks, Idle
    <2> QED BY <1>1, <1>2, <1>7, <2>1 DEF StoreCursor
  <1>8. CASE RunAborts(r)
    BY <1>0, <1>1, <1>8, IdleOK DEF RunAborts
  <1>9. ASSUME NEW first \in Times, NEW last \in Times, ReplayDepositWindow(r, first, last)
        PROVE  TasksOK' /\ cursor' \in Nat
    <2> DEFINE S == {t \in indexed : TimeOf[t] \in first .. last}
    <2>1. S \subseteq Transfers
      BY <1>0 DEF DepositTypeOK
    <2>2. Batch("window", "lookup", S) \in Tasks /\ PlanOf(Batch("window", "lookup", S))
      BY <1>0, <2>1, BatchOK
    <2> QED BY <1>0, <1>1, <1>9, <2>2 DEF ReplayDepositWindow
  <1> QED BY <1>3, <1>4, <1>5, <1>6, <1>7, <1>8, <1>9

(* The same of the steps that are about one transfer. *)
LEMMA TransferStepOK ==
    ASSUME DepositAssumption, DepositInv, NEW r \in Runs, NEW t \in Transfers,
           \/ IngestTransfer(r, t) \/ IngestThrows(r, t) \/ RecordFailure(r, t)
           \/ MarkResolved(r, t) \/ MarkResolvedThrows(r, t) \/ Reschedule(r, t)
    PROVE  TasksOK' /\ RowsOK'
  <1> DEFINE k == task[r]
  <1>0. /\ task \in [Runs -> Tasks] /\ PlansOK
        /\ k \in Tasks /\ PlanOf(k)
        /\ failure \in [Transfers -> Rows]
    BY DEF DepositInv, DepositTypeOK, PlansOK
  <1>1. ASSUME NEW n \in Tasks, PlanOf(n), Set(r, n)
        PROVE  TasksOK'
    BY <1>0, <1>1, SetOK DEF TasksOK
  <1>2. k.pc # "idle"
    BY DEF IngestTransfer, IngestThrows, RecordFailure, MarkResolved, MarkResolvedThrows, Reschedule
  <1>3. k.todo \in SUBSET Transfers /\ k.job \in {"poll", "replay", "window"}
    BY <1>0, <1>2 DEF Tasks, Idle
  <1>4. Rest(k, k.todo \ {t}) \in Tasks /\ PlanOf(Rest(k, k.todo \ {t}))
    BY <1>0, <1>2, <1>3, RestOK
  <1>5. LET n == Rest([k EXCEPT !.current = {}], k.todo \ {t}) IN n \in Tasks /\ PlanOf(n)
    <2> DEFINE k1 == [k EXCEPT !.current = {}]
    <2>1. k1 \in Tasks /\ PlanOf(k1) /\ k1.pc # "idle"
      BY <1>0, <1>2, CurrentOK
    <2>2. k.todo \ {t} \in SUBSET Transfers
      BY <1>3
    <2> HIDE DEF k1
    <2>3. Rest(k1, k.todo \ {t}) \in Tasks /\ PlanOf(Rest(k1, k.todo \ {t}))
      BY <2>1, <2>2, RestOK
    <2> QED BY <2>3 DEF k1
  <1>6. ASSUME NEW p \in {"record", "resolve", "retry"},
               p \in {"resolve", "retry"} => k.job = "replay"
        PROVE  /\ [k EXCEPT !.pc = p, !.current = {t}] \in Tasks
               /\ PlanOf([k EXCEPT !.pc = p, !.current = {t}])
    <2> DEFINE k1 == [k EXCEPT !.pc = p]
               k2 == [k1 EXCEPT !.current = {t}]
    <2>1. k1 \in Tasks /\ PlanOf(k1) /\ k1.pc # "idle"
      BY <1>0, <1>2, <1>6, MovedOK
    <2>2. k2 \in Tasks /\ PlanOf(k2)
      <3> HIDE DEF k1
      <3> QED BY <2>1, CurrentOK
    <2>3. k2 = [k EXCEPT !.pc = p, !.current = {t}]
      OBVIOUS
    <2> HIDE DEF k2
    <2> QED BY <2>2, <2>3
  <1>7. CASE IngestTransfer(r, t)
    <2>1. CASE k.job = "replay"
      <3>1. Set(r, [k EXCEPT !.pc = "resolve", !.current = {t}])
        BY <1>7, <2>1 DEF IngestTransfer
      <3>2. UNCHANGED failure
        BY <1>7 DEF IngestTransfer
      <3>3. /\ [k EXCEPT !.pc = "resolve", !.current = {t}] \in Tasks
            /\ PlanOf([k EXCEPT !.pc = "resolve", !.current = {t}])
        BY <1>6, <2>1
      <3> QED BY <1>0, <1>1, <3>1, <3>2, <3>3 DEF RowsOK
    <2>2. CASE k.job # "replay"
      <3>1. Set(r, Rest(k, k.todo \ {t})) /\ UNCHANGED failure
        BY <1>7, <2>2 DEF IngestTransfer
      <3> QED BY <1>0, <1>1, <1>4, <3>1 DEF RowsOK
    <2> QED BY <2>1, <2>2
  <1>8. CASE IngestThrows(r, t)
    <2>0. UNCHANGED failure
      BY <1>8 DEF IngestThrows
    <2>1. CASE k.job = "poll"
      <3>1. Set(r, [k EXCEPT !.pc = "record", !.current = {t}])
        BY <1>8, <2>1 DEF IngestThrows
      <3>2. /\ [k EXCEPT !.pc = "record", !.current = {t}] \in Tasks
            /\ PlanOf([k EXCEPT !.pc = "record", !.current = {t}])
        BY <1>6
      <3> QED BY <1>0, <1>1, <2>0, <3>1, <3>2 DEF RowsOK
    <2>2. CASE k.job = "replay"
      <3>1. Set(r, [k EXCEPT !.pc = "retry", !.current = {t}])
        BY <1>8, <2>2 DEF IngestThrows
      <3>2. /\ [k EXCEPT !.pc = "retry", !.current = {t}] \in Tasks
            /\ PlanOf([k EXCEPT !.pc = "retry", !.current = {t}])
        BY <1>6, <2>2
      <3> QED BY <1>0, <1>1, <2>0, <3>1, <3>2 DEF RowsOK
    <2>3. CASE k.job = "window"
      <3>1. Set(r, Idle)
        BY <1>8, <2>3 DEF IngestThrows
      <3> QED BY <1>0, <1>1, <2>0, <3>1, IdleOK DEF RowsOK
    <2> QED BY <1>3, <2>1, <2>2, <2>3
  <1>9. ASSUME \/ RecordFailure(r, t) \/ MarkResolved(r, t) \/ Reschedule(r, t)
        PROVE  TasksOK'
    <2>1. Set(r, Rest([k EXCEPT !.current = {}], k.todo \ {t}))
      BY <1>9 DEF RecordFailure, MarkResolved, Reschedule
    <2> QED BY <1>1, <1>5, <2>1
  <1>10. ASSUME NEW row \in Rows
         PROVE  Upserted(row) \in Rows /\ Resolved(row) \in Rows
    BY DEF Rows, Upserted, Resolved
  <1>11. CASE RecordFailure(r, t)
    BY <1>0, <1>9, <1>10, <1>11 DEF RecordFailure, RowsOK
  <1>12. CASE MarkResolved(r, t)
    BY <1>0, <1>9, <1>10, <1>12 DEF MarkResolved, RowsOK
  <1>13. CASE MarkResolvedThrows(r, t)
    <2>1. k.pc = "resolve" /\ Set(r, [k EXCEPT !.pc = "retry"])
      BY <1>13 DEF MarkResolvedThrows
    <2>2. [k EXCEPT !.pc = "retry"] \in Tasks /\ PlanOf([k EXCEPT !.pc = "retry"])
      BY <1>0, <1>2, <2>1, MovedOK DEF PlanOf
    <2>3. RowsOK'
      BY <1>0, <1>10, <1>13 DEF MarkResolvedThrows, RowsOK
    <2> QED BY <1>1, <2>1, <2>2, <2>3
  <1>14. CASE Reschedule(r, t)
    <2>1. k.pc = "retry"
      BY <1>14 DEF Reschedule
    <2>2. k.counts[t] \in Nat /\ k.counts[t] < MaxRetries /\ MaxRetries \in Nat
      BY <1>0, <1>2, <2>1 DEF Tasks, Idle, PlanOf, DepositAssumption
    <2>3. Rescheduled(failure[t], k.counts[t] + 1) \in Rows
      BY <1>0, <2>2 DEF Rows, Rescheduled
    <2> QED BY <1>0, <1>9, <1>14, <2>3 DEF Reschedule, RowsOK
  <1> QED BY <1>7, <1>8, <1>11, <1>12, <1>13, <1>14

(* A merchant's request stays one that can be carried out: the candidate of a
   transfer under review is not replaced. *)
LEMMA CandidateKept ==
    ASSUME BooksInv, BookChange, NEW t \in Transfers, review[t] # "none"
    PROVE  review'[t] # "none" /\ candidate'[t] = candidate[t]
  <1>1. ASSUME NEW s \in Transfers, Recorded(s)
        PROVE  s # t
    BY <1>1 DEF Recorded, Taken, BooksInv, BooksAgree, BooksTypeOK
  <1>2. ASSUME NEW s \in Transfers, Recorded(s)
        PROVE  review'[t] = review[t] /\ candidate'[t] = candidate[t]
    <2>1. s # t
      BY <1>1, <1>2
    <2> QED BY <2>1, <1>2 DEF Recorded, Reject, CreateUnmatched, CreditDeposit,
                              BooksInv, BooksTypeOK
  <1>3. ASSUME NEW s \in Transfers, Decided(s)
        PROVE  review'[t] # "none" /\ candidate'[t] = candidate[t]
    BY <1>3 DEF Decided, DismissReview, CreditReview, BooksInv, BooksTypeOK
  <1> QED BY <1>2, <1>3 DEF BookChange, MemoChange, books

DesksGood == desk \in [Operators -> Desks] /\ DesksOK /\ Reviewed

(* A request that answers holds no claim. *)
LEMMA AnswerOK ==
    ASSUME NEW d \in Desks, d.pc # "idle", NEW t
    PROVE  Answer(d, t) \in Desks /\ Answer(d, t).pc # "resolve"
  BY DEF Answer, Desks, NoDesk

(* A step of a merchant leaves every request and claim in order. *)
LEMMA DeskStepOK ==
    ASSUME DepositTypeOK, DesksGood, NEW o \in Operators,
           \/ Reconcile(o) \/ ReconcileFails(o)
           \/ \E t \in Transfers, a \in {"credited", "dismissed"}, u \in Users \cup {NoUser} :
                 OpenReview(o, t, a, u)
    PROVE  /\ desk' \in [Operators -> Desks]
           /\ \A p \in Operators :
                desk'[p].pc = "resolve" =>
                    /\ review[desk'[p].t] # "none"
                    /\ desk'[p].action = "credited" =>
                          desk'[p].user # NoUser \/ candidate[desk'[p].t] # NoUser
  <1>1. ASSUME NEW d \in Desks, desk' = [desk EXCEPT ![o] = d],
               d.pc = "resolve" =>
                   /\ review[d.t] # "none"
                   /\ d.action = "credited" => d.user # NoUser \/ candidate[d.t] # NoUser
        PROVE  /\ desk' \in [Operators -> Desks]
               /\ \A p \in Operators :
                    desk'[p].pc = "resolve" =>
                        /\ review[desk'[p].t] # "none"
                        /\ desk'[p].action = "credited" =>
                              desk'[p].user # NoUser \/ candidate[desk'[p].t] # NoUser
    BY <1>1 DEF DesksGood, DesksOK, Reviewed
  <1>2. CASE ReconcileFails(o)
    <2>1. NoDesk \in Desks /\ NoDesk.pc # "resolve"
      BY DEF Desks, NoDesk
    <2> QED BY <1>1, <1>2, <2>1 DEF ReconcileFails
  <1>3. CASE Reconcile(o)
    <2>1. desk[o] \in Desks /\ desk[o].pc = "resolve"
      BY <1>3 DEF Reconcile, DesksGood
    <2>2. [desk[o] EXCEPT !.pc = "done"] \in Desks
      BY <2>1 DEF Desks, NoDesk
    <2>3. CASE desk' = [desk EXCEPT ![o] = [desk[o] EXCEPT !.pc = "done"]]
      <3>1. [desk[o] EXCEPT !.pc = "done"].pc # "resolve"
        BY <2>1 DEF Desks, NoDesk
      <3> QED BY <1>1, <2>2, <2>3, <3>1
    <2>4. CASE desk' = [desk EXCEPT ![o] = Answer(desk[o], desk[o].t)]
      BY <1>1, <2>1, <2>4, AnswerOK
    <2>5. \/ desk' = [desk EXCEPT ![o].pc = "done"]
          \/ desk' = [desk EXCEPT ![o] = Answer(desk[o], desk[o].t)]
      BY <1>3 DEF Reconcile
    <2> QED BY <2>3, <2>4, <2>5 DEF DesksGood
  <1>4. ASSUME NEW t \in Transfers, NEW a \in {"credited", "dismissed"},
               NEW u \in Users \cup {NoUser}, OpenReview(o, t, a, u)
        PROVE  /\ desk' \in [Operators -> Desks]
               /\ \A p \in Operators :
                    desk'[p].pc = "resolve" =>
                        /\ review[desk'[p].t] # "none"
                        /\ desk'[p].action = "credited" =>
                              desk'[p].user # NoUser \/ candidate[desk'[p].t] # NoUser
    <2> DEFINE d == [pc |-> "resolve", t |-> t, action |-> a, user |-> u]
    <2>1. d \in Desks /\ d.pc = "resolve"
      BY DEF Desks
    <2>2. CASE review[t] = "open"
      <3>1. desk' = [desk EXCEPT ![o] = d]
        BY <1>4, <2>2 DEF OpenReview
      <3>2. a = "credited" => u # NoUser \/ candidate[t] # NoUser
        BY <1>4 DEF OpenReview
      <3> QED BY <1>1, <2>1, <2>2, <3>1, <3>2
    <2>3. CASE review[t] # "open"
      <3>1. desk' = [desk EXCEPT ![o] = Answer(d, t)]
        BY <1>4, <2>3 DEF OpenReview
      <3> HIDE DEF d
      <3> QED BY <1>1, <2>1, <3>1, AnswerOK
    <2> QED BY <2>2, <2>3
  <1> QED BY <1>2, <1>3, <1>4

(* Only a merchant's step touches the desks. *)
LEMMA OthersLeaveDesks ==
    ASSUME [Next]_vars
    PROVE  UNCHANGED desk \/ \E o \in Operators : MerchantStep(o)
  <1>1. ASSUME NEW r \in Runs, JobStep(r) \/ WindowStep(r) \/ RunAborts(r)
        PROVE  UNCHANGED desk
    BY <1>1 DEF JobStep, WindowStep, RunAborts, PollDeposits, LookUp, FindRetryable,
                ReadEarliest, StoreCursor, IngestTransfer, RecordFailure, MarkResolved,
                Reschedule, ReplayDepositWindow
  <1>2. ASSUME NEW r \in Runs, NEW t \in Transfers,
               IngestThrows(r, t) \/ MarkResolvedThrows(r, t)
        PROVE  UNCHANGED desk
    BY <1>2 DEF IngestThrows, MarkResolvedThrows
  <1>3. ASSUME NEW t \in Transfers, Appear(t) \/ Outdates(t) \/ BackoffEnds(t)
        PROVE  UNCHANGED desk
    BY <1>3 DEF Appear, Outdates, BackoffEnds
  <1>4. ASSUME NEW m \in Memos, IssueMemo(m) \/ PurgeMemo(m)
        PROVE  UNCHANGED desk
    BY <1>4 DEF IssueMemo, PurgeMemo
  <1>5. CASE UNCHANGED vars
    BY <1>5 DEF vars
  <1> QED BY <1>1, <1>2, <1>3, <1>4, <1>5 DEF Next, Runs

(* Every step does. *)
LEMMA DesksKept ==
    ASSUME DepositAssumption, DepositInv, [Next]_vars
    PROVE  desk' \in [Operators -> Desks] /\ DesksOK' /\ Reviewed'
  <1>0. DepositTypeOK /\ DesksGood /\ BooksInv /\ BookChange
    BY StepIsBookChange DEF DepositInv, DepositTypeOK, DesksGood
  <1>1. ASSUME NEW p \in Operators, desk'[p].pc = "resolve",
               review[desk'[p].t] # "none", desk' \in [Operators -> Desks]
        PROVE  review'[desk'[p].t] # "none" /\ candidate'[desk'[p].t] = candidate[desk'[p].t]
    <2>1. desk'[p].t \in Transfers
      BY <1>1 DEF Desks, NoDesk
    <2> QED BY <2>1, <1>0, <1>1, CandidateKept
  <1>2. ASSUME /\ desk' \in [Operators -> Desks]
               /\ \A p \in Operators :
                    desk'[p].pc = "resolve" =>
                        /\ review[desk'[p].t] # "none"
                        /\ desk'[p].action = "credited" =>
                              desk'[p].user # NoUser \/ candidate[desk'[p].t] # NoUser
        PROVE  desk' \in [Operators -> Desks] /\ DesksOK' /\ Reviewed'
    BY <1>1, <1>2 DEF DesksOK, Reviewed
  <1>3. CASE UNCHANGED desk
    BY <1>0, <1>2, <1>3 DEF DesksGood, DesksOK, Reviewed
  <1>4. ASSUME NEW o \in Operators, MerchantStep(o)
        PROVE  desk' \in [Operators -> Desks] /\ DesksOK' /\ Reviewed'
    BY <1>0, <1>2, <1>4, DeskStepOK DEF MerchantStep
  <1> QED BY <1>3, <1>4, OthersLeaveDesks

(* Every step leaves every run, failure and the cursor in their range. *)
LEMMA TasksKept ==
    ASSUME DepositAssumption, DepositInv, [Next]_vars
    PROVE  TasksOK' /\ RowsOK' /\ cursor' \in Nat
  <1>0. TasksOK /\ RowsOK /\ cursor \in Nat
    BY DEF DepositInv, DepositTypeOK, TasksOK, RowsOK
  <1>1. CASE UNCHANGED <<task, failure, cursor>>
    BY <1>0, <1>1 DEF TasksOK, RowsOK, PlansOK
  <1>2. ASSUME NEW r \in Runs,
               \/ PollDeposits(r) \/ LookUp(r) \/ FindRetryable(r)
               \/ ReadEarliest(r) \/ StoreCursor(r) \/ RunAborts(r)
               \/ \E first, last \in Times : ReplayDepositWindow(r, first, last)
        PROVE  TasksOK' /\ RowsOK' /\ cursor' \in Nat
    <2>1. UNCHANGED failure
      BY <1>2 DEF PollDeposits, LookUp, FindRetryable, ReadEarliest, StoreCursor,
                  RunAborts, ReplayDepositWindow
    <2> QED BY <1>0, <1>2, <2>1, RunStepOK DEF RowsOK
  <1>3. ASSUME NEW r \in Runs, NEW t \in Transfers,
               \/ IngestTransfer(r, t) \/ IngestThrows(r, t) \/ RecordFailure(r, t)
               \/ MarkResolved(r, t) \/ MarkResolvedThrows(r, t) \/ Reschedule(r, t)
        PROVE  TasksOK' /\ RowsOK' /\ cursor' \in Nat
    <2>1. UNCHANGED cursor
      BY <1>3 DEF IngestTransfer, IngestThrows, RecordFailure, MarkResolved,
                  MarkResolvedThrows, Reschedule
    <2> QED BY <1>0, <1>3, <2>1, TransferStepOK
  <1>4. ASSUME NEW t \in Transfers, BackoffEnds(t)
        PROVE  TasksOK' /\ RowsOK' /\ cursor' \in Nat
    <2>1. UNCHANGED <<task, cursor>>
      BY <1>4 DEF BackoffEnds
    <2>2. [failure[t] EXCEPT !.due = TRUE] \in Rows
      <3>1. failure[t] \in Rows
        BY <1>0 DEF RowsOK
      <3>2. \A row \in Rows : [row EXCEPT !.due = TRUE] \in Rows
        BY DEF Rows
      <3> QED BY <3>1, <3>2
    <2>3. RowsOK'
      BY <1>0, <1>4, <2>2 DEF BackoffEnds, RowsOK
    <2> QED BY <1>0, <2>1, <2>3 DEF TasksOK, PlansOK
  <1>5. ASSUME NEW t \in Transfers, Appear(t) \/ Outdates(t)
        PROVE  UNCHANGED <<task, failure, cursor>>
    BY <1>5 DEF Appear, Outdates
  <1>6. ASSUME NEW m \in Memos, IssueMemo(m) \/ PurgeMemo(m)
        PROVE  UNCHANGED <<task, failure, cursor>>
    BY <1>6 DEF IssueMemo, PurgeMemo
  <1>7. ASSUME NEW o \in Operators, MerchantStep(o)
        PROVE  UNCHANGED <<task, failure, cursor>>
    BY <1>7 DEF MerchantStep, OpenReview, Reconcile, ReconcileFails
  <1>8. CASE UNCHANGED vars
    BY <1>1, <1>8 DEF vars
  <1>9. CASE Next
    <2>1. ASSUME NEW r \in Pollers \cap crew, JobStep(r)
          PROVE  TasksOK' /\ RowsOK' /\ cursor' \in Nat
      BY <2>1, <1>2, <1>3 DEF JobStep, Runs
    <2>2. ASSUME NEW r \in Windows \cap crew, WindowStep(r)
          PROVE  TasksOK' /\ RowsOK' /\ cursor' \in Nat
      BY <2>2, <1>2, <1>3 DEF WindowStep, Runs
    <2> QED BY <1>1, <1>2, <1>3, <1>4, <1>5, <1>6, <1>7, <1>9, <2>1, <2>2 DEF Next
  <1> QED BY <1>8, <1>9

(* The index shows one more transfer at a time, or one gets too old for the
   first poll; nothing else moves it. *)
LEMMA OthersLeaveChain ==
    ASSUME [Next]_vars
    PROVE  UNCHANGED chain \/ \E t \in Transfers : Appear(t) \/ Outdates(t)
  <1>1. ASSUME NEW r, JobStep(r) \/ WindowStep(r) \/ RunAborts(r)
        PROVE  UNCHANGED chain
    BY <1>1 DEF JobStep, WindowStep, RunAborts, PollDeposits, LookUp, FindRetryable,
                ReadEarliest, StoreCursor, IngestTransfer, RecordFailure, MarkResolved,
                Reschedule, ReplayDepositWindow
  <1>2. ASSUME NEW r, NEW t, IngestThrows(r, t) \/ MarkResolvedThrows(r, t)
        PROVE  UNCHANGED chain
    BY <1>2 DEF IngestThrows, MarkResolvedThrows
  <1>3. ASSUME NEW o, MerchantStep(o)
        PROVE  UNCHANGED chain
    BY <1>3 DEF MerchantStep, OpenReview, Reconcile, ReconcileFails
  <1>4. ASSUME NEW m, IssueMemo(m) \/ PurgeMemo(m)
        PROVE  UNCHANGED chain
    BY <1>4 DEF IssueMemo, PurgeMemo
  <1>5. ASSUME NEW t, BackoffEnds(t)
        PROVE  UNCHANGED chain
    BY <1>5 DEF BackoffEnds
  <1>6. CASE UNCHANGED vars
    BY <1>6 DEF vars, chain
  <1> QED BY <1>1, <1>2, <1>3, <1>4, <1>5, <1>6 DEF Next

(* What the index shows stays a set of transfers. *)
LEMMA ChainKept ==
    ASSUME DepositTypeOK, [Next]_vars
    PROVE  (indexed \subseteq Transfers /\ late \subseteq indexed /\ aborted \subseteq indexed)'
  <1>0. indexed \subseteq Transfers /\ late \subseteq indexed /\ aborted \subseteq indexed
    BY DEF DepositTypeOK
  <1>1. CASE UNCHANGED chain
    BY <1>0, <1>1 DEF chain
  <1>2. ASSUME NEW t \in Transfers, Appear(t)
        PROVE  (indexed \subseteq Transfers /\ late \subseteq indexed
                  /\ aborted \subseteq indexed)'
    BY <1>0, <1>2 DEF Appear
  <1>3. ASSUME NEW t \in Transfers, Outdates(t)
        PROVE  (indexed \subseteq Transfers /\ late \subseteq indexed
                  /\ aborted \subseteq indexed)'
    BY <1>0, <1>3 DEF Outdates
  <1> QED BY <1>1, <1>2, <1>3, OthersLeaveChain

(* DepositInv is inductive. *)
LEMMA InvKept ==
    ASSUME DepositAssumption, DepositInv, [Next]_vars
    PROVE  DepositInv'
  <1>1. BooksInv'
    BY StepIsBookChange, BooksKept DEF DepositInv
  <1>2. TasksOK' /\ RowsOK' /\ cursor' \in Nat
    BY TasksKept
  <1>3. desk' \in [Operators -> Desks] /\ DesksOK' /\ Reviewed'
    BY DesksKept
  <1>4. (indexed \subseteq Transfers /\ late \subseteq indexed /\ aborted \subseteq indexed)'
    BY ChainKept DEF DepositInv
  <1> QED BY <1>1, <1>2, <1>3, <1>4
          DEF DepositInv, DepositTypeOK, TasksOK, RowsOK, BooksInv, BooksTypeOK

(* The invariant of every reachable state. *)
THEOREM DepositInvariant == Spec => []DepositInv
  <1>1. Init => DepositInv
    BY InitOK, DepositAssumption
  <1>2. DepositInv /\ [Next]_vars => DepositInv'
    BY InvKept, DepositAssumption
  <1> QED BY <1>1, <1>2, PTL DEF Spec

(* The books of every deposit agree: processed_txs, deposits, unmatched_deposits
   and deposit_memos tell one story after every step of every job, window and
   merchant, whatever fails in between, and no memo is honoured twice. *)
THEOREM DepositBooksCorrect == Spec => []DepositBooksOK
  <1>1. DepositInv => DepositBooksOK
    BY DEF DepositInv, DepositBooksOK, BooksInv
  <1> QED BY <1>1, DepositInvariant, PTL

(* The ingestion, the replays and the merchants' desk together implement the
   ledger: one credit at most for a transfer, to one user, and no way back. *)
THEOREM IngestionImplementsLedger == Spec => CreditedOnce
  <1>1. Init => Ledger!Init
    BY InitOK, DepositAssumption
  <1>2. DepositInv /\ [Next]_vars => [Ledger!Next]_(Ledger!vars)
    BY StepIsBookChange, LedgerStep, DepositAssumption DEF DepositInv
  <1> QED BY <1>1, <1>2, DepositInvariant, PTL DEF Spec, Ledger!Spec, CreditedOnce

(***************************************************************************)
(* Answers.  What a review was decided to be stays as it is, so what a     *)
(* merchant was told stays true.                                           *)
(***************************************************************************)

(* A decision on a transfer is never changed, nor whom it was credited to. *)
LEMMA DecisionKept ==
    ASSUME BooksInv, BookChange, NEW t \in Transfers, review[t] \in {"credited", "dismissed"}
    PROVE  review'[t] = review[t] /\ owner'[t] = owner[t]
  <1>0. BooksTypeOK /\ Taken(t) /\ ~Unresolved(t)
    BY DEF BooksInv, BooksAgree, BooksTypeOK, Taken, Unresolved
  <1>1. ASSUME NEW s \in Transfers, Recorded(s)
        PROVE  review'[t] = review[t] /\ owner'[t] = owner[t]
    <2>1. s # t
      BY <1>0, <1>1 DEF Recorded
    <2> QED BY <1>0, <1>1, <2>1
            DEF Recorded, Reject, CreateUnmatched, CreditDeposit, BooksTypeOK
  <1>2. ASSUME NEW s \in Transfers, Decided(s)
        PROVE  review'[t] = review[t] /\ owner'[t] = owner[t]
    <2>1. s # t
      BY <1>0, <1>2 DEF Decided
    <2> QED BY <1>0, <1>2, <2>1 DEF Decided, DismissReview, CreditReview, BooksTypeOK
  <1> QED BY <1>1, <1>2 DEF BookChange, MemoChange, books

(* What a desk tells is so. *)
TellsTrue(d) ==
    d.pc = "done" =>
        /\ review[d.t] = d.action
        /\ d.action = "credited" /\ d.user # NoUser => owner[d.t] = d.user

Told(o) == TellsTrue(desk[o])

(* An answer that was true stays true: the books only grow. *)
LEMMA ToldKept ==
    ASSUME BooksInv, BookChange, NEW d \in Desks, TellsTrue(d)
    PROVE  TellsTrue(d)'
  <1>1. CASE d.pc = "done"
    <2>1. d.t \in Transfers /\ d.action \in {"credited", "dismissed"}
      BY <1>1 DEF Desks, NoDesk
    <2>2. review'[d.t] = review[d.t] /\ owner'[d.t] = owner[d.t]
      BY <1>1, <2>1, DecisionKept DEF TellsTrue
    <2> QED BY <2>2 DEF TellsTrue
  <1>2. CASE d.pc # "done"
    BY <1>2 DEF TellsTrue
  <1> QED BY <1>1, <1>2

(* The answer is made from the review as it is. *)
LEMMA AnswerTellsTrue ==
    ASSUME NEW d \in Desks, d.pc # "idle", NEW t, t = d.t
    PROVE  TellsTrue(Answer(d, t))
  BY DEF Answer, TellsTrue, Desks, NoDesk

(* The answer to a merchant is true when it is given (reconcileUnmatchedDeposit). *)
LEMMA ReconcileTellsTrue ==
    ASSUME DepositAssumption, DepositInv, NEW o \in Operators, Reconcile(o)
    PROVE  Told(o)'
  <1> DEFINE d == desk[o]
             u == IF d.user # NoUser THEN d.user ELSE candidate[d.t]
  <1>0. /\ d.pc = "resolve" /\ d \in Desks /\ desk \in [Operators -> Desks]
        /\ BooksTypeOK /\ BooksAgree
    BY DEF Reconcile, DepositInv, DepositTypeOK, BooksInv
  <1>1. d.t \in Transfers /\ d.user \in Users \cup {NoUser}
    BY <1>0 DEF Desks, NoDesk
  <1> DEFINE n == [d EXCEPT !.pc = "done"]
  <1>2. n.t = d.t /\ n.action = d.action /\ n.user = d.user
    BY <1>0 DEF Desks, NoDesk
  <1>3. CASE /\ Unresolved(d.t) /\ d.action = "credited" /\ CreditReview(d.t, u)
             /\ desk' = [desk EXCEPT ![o] = n]
    <2>1. owner[d.t] = NoUser
      BY <1>0, <1>1, <1>3 DEF Unresolved, BooksAgree
    <2>2. review'[d.t] = "credited" /\ owner'[d.t] = u
      BY <1>0, <1>1, <1>3, <2>1 DEF CreditReview, BooksTypeOK
    <2>3. desk'[o] = n
      BY <1>0, <1>3
    <2> HIDE DEF n
    <2> QED BY <1>2, <1>3, <2>2, <2>3 DEF Told, TellsTrue
  <1>4. CASE /\ Unresolved(d.t) /\ d.action = "dismissed" /\ DismissReview(d.t)
             /\ desk' = [desk EXCEPT ![o] = n]
    <2>1. review'[d.t] = "dismissed"
      BY <1>0, <1>1, <1>4 DEF DismissReview, BooksTypeOK
    <2>2. desk'[o] = n
      BY <1>0, <1>4
    <2> HIDE DEF n
    <2> QED BY <1>2, <1>4, <2>1, <2>2 DEF Told, TellsTrue
  <1>5. CASE desk' = [desk EXCEPT ![o] = Answer(d, d.t)] /\ UNCHANGED books
    <2>1. TellsTrue(Answer(d, d.t))
      BY <1>0, AnswerTellsTrue
    <2>2. desk'[o] = Answer(d, d.t) /\ review' = review /\ owner' = owner
      BY <1>0, <1>5 DEF books
    <2> QED BY <2>1, <2>2 DEF Told, TellsTrue
  <1> QED BY <1>3, <1>4, <1>5 DEF Reconcile

AnswersInv == DepositInv /\ \A o \in Operators : Told(o)

(* So all answers are true after every step. *)
LEMMA AnswersKept ==
    ASSUME DepositAssumption, AnswersInv, [Next]_vars
    PROVE  \A o \in Operators : Told(o)'
  <1>0. /\ DepositInv /\ BooksInv /\ BookChange /\ desk \in [Operators -> Desks]
        /\ \A o \in Operators : Told(o)
    BY StepIsBookChange DEF AnswersInv, DepositInv, DepositTypeOK
  <1>1. ASSUME NEW o \in Operators, desk'[o] = desk[o]
        PROVE  Told(o)'
    <2>1. PICK d \in Desks : d = desk[o]
      BY <1>0
    <2>2. TellsTrue(d)'
      BY <1>0, <2>1, ToldKept DEF Told
    <2> QED BY <1>1, <2>1, <2>2 DEF Told, TellsTrue
  <1>2. ASSUME NEW o \in Operators, NEW p \in Operators, MerchantStep(p)
        PROVE  Told(o)'
    <2>1. CASE o # p
      BY <1>0, <1>1, <1>2, <2>1 DEF MerchantStep, OpenReview, Reconcile, ReconcileFails
    <2>2. CASE o = p /\ Reconcile(p)
      BY <1>0, <2>2, ReconcileTellsTrue
    <2>3. CASE o = p /\ ReconcileFails(p)
      BY <1>0, <2>3 DEF ReconcileFails, NoDesk, Told, TellsTrue
    <2>4. ASSUME o = p, NEW t \in Transfers, NEW a \in {"credited", "dismissed"},
                 NEW u \in Users \cup {NoUser}, OpenReview(p, t, a, u)
          PROVE  Told(o)'
      <3> DEFINE d == [pc |-> "resolve", t |-> t, action |-> a, user |-> u]
      <3>1. d \in Desks /\ d.pc = "resolve" /\ d.t = t
        BY DEF Desks
      <3>2. UNCHANGED books /\ desk'[o] = IF review[t] = "open" THEN d ELSE Answer(d, t)
        BY <1>0, <2>4 DEF OpenReview
      <3> HIDE DEF d
      <3>3. TellsTrue(d) /\ TellsTrue(Answer(d, t))
        BY <3>1, AnswerTellsTrue DEF TellsTrue
      <3> QED BY <3>2, <3>3 DEF Told, TellsTrue, books
    <2> QED BY <1>2, <2>1, <2>2, <2>3, <2>4 DEF MerchantStep
  <1>3. CASE UNCHANGED desk
    BY <1>0, <1>1, <1>3
  <1> QED BY <1>2, <1>3, OthersLeaveDesks

(* A merchant who is told that a deposit is credited, or dismissed, as asked
   finds it so ever after, and credited to the user named, whoever else decides
   at the same time and whichever answer was lost on the way. *)
THEOREM AnswersAreTrue == Spec => []AnswerIsTrue
  <1>1. Init => AnswersInv
    BY InitOK, DepositAssumption DEF AnswersInv, Init, Told, TellsTrue, NoDesk
  <1>2. AnswersInv /\ [Next]_vars => AnswersInv'
    BY InvKept, AnswersKept, DepositAssumption DEF AnswersInv
  <1>3. AnswersInv => AnswerIsTrue
    BY DEF AnswersInv, Told, TellsTrue, AnswerIsTrue
  <1> QED BY <1>1, <1>2, <1>3, PTL DEF Spec

(***************************************************************************)
(* Nothing is lost.  A transfer that is in the books or among the failures *)
(* stays handled, and a run of the poll answers for every transfer that is *)
(* older than the time it is about to store.                               *)
(***************************************************************************)
Handled(t) == Seen(t) \/ failure[t].status # "none"

SeenSet    == {t \in Transfers : Seen(t)}
HandledSet == {t \in Transfers : Handled(t)}
InTime     == indexed \ late

ReachedIn(n, all) == n = 0 \/ \E s \in all : n <= TimeOf[s]

(* What a run with the task k may rely on, if seen are the transfers in the
   books, handled those settled or failed, and all those indexed, of which
   inTime did not come late. *)
AnswersWith(k, seen, handled, inTime, all) ==
    k.pc # "idle" =>
        /\ \A t \in Transfers : k.plan[t] = "already" => t \in seen
        /\ k.pc = "resolve" => k.current \subseteq seen
        /\ k.pc \in {"earliest", "store"} => k.job = "poll" /\ k.todo = {}
        /\ k.job = "poll" =>
              /\ ReachedIn(k.newest, all)
              /\ \A t \in inTime : TimeOf[t] < k.newest => t \in k.todo \cup handled

AnswersFor(k) == AnswersWith(k, SeenSet, HandledSet, InTime, indexed)

RunsAnswer == \A r \in Runs : AnswersFor(task[r])

ResolvedIsSeen == \A t \in Transfers :
    failure[t].status = "resolved" \/ failure[t].stamped => Seen(t)

LossInv == RunsAnswer /\ ResolvedIsSeen /\ ReachedIn(cursor, indexed) /\ NoneSkipped

(* What a step does to the rest may only settle more: nothing seen is unseen,
   no failure is forgotten, and what appears is late or no older. *)
Grows ==
    /\ \A t \in Transfers : (Seen(t) => Seen(t)') /\ (Handled(t) => Handled(t)')
    /\ indexed \subseteq indexed'
    /\ \A t \in InTime' : t \in InTime \/ \A s \in indexed : TimeOf[s] <= TimeOf[t]

(* What is in the books stays there. *)
LEMMA SeenKept ==
    ASSUME BooksInv, BookChange, NEW t \in Transfers, Seen(t)
    PROVE  Seen(t)'
  <1>0. BooksTypeOK
    BY DEF BooksInv
  <1>1. ASSUME NEW s \in Transfers, Recorded(s)
        PROVE  Seen(t)'
    BY <1>0, <1>1 DEF Recorded, Reject, CreateUnmatched, CreditDeposit, BooksTypeOK, Seen
  <1>2. ASSUME NEW s \in Transfers, Decided(s)
        PROVE  Seen(t)'
    BY <1>0, <1>2 DEF Decided, DismissReview, CreditReview, BooksTypeOK, Seen
  <1> QED BY <1>1, <1>2 DEF BookChange, MemoChange, books, Seen

(* A transfer that was ingested is in the books, if what was taken for seen is. *)
LEMMA IngestedIsSeen ==
    ASSUME BooksInv, NEW t \in Transfers, NEW d, Ingest(t, d), d = "already" => Seen(t)
    PROVE  Seen(t)'
  BY DEF Ingest, Taken, Seen, books, Reject, CreateUnmatched, CreditDeposit,
         BooksInv, BooksTypeOK

(* A failure keeps a status once it has one, and one that is resolved, or bears
   the stamp of it, is of a transfer in the books. *)
LEMMA FailuresKept ==
    ASSUME DepositAssumption, DepositInv, LossInv, [Next]_vars
    PROVE  /\ \A t \in Transfers : failure[t].status # "none" => failure'[t].status # "none"
           /\ ResolvedIsSeen'
  <1>0. /\ failure \in [Transfers -> Rows] /\ ResolvedIsSeen
        /\ \A t \in Transfers : Seen(t) => Seen(t)'
    BY StepIsBookChange, SeenKept DEF DepositInv, DepositTypeOK, LossInv
  <1> DEFINE Goal == /\ \A t \in Transfers :
                            failure[t].status # "none" => failure'[t].status # "none"
                     /\ ResolvedIsSeen'
  <1>1. CASE UNCHANGED failure
    BY <1>0, <1>1 DEF ResolvedIsSeen
  <1>2. ASSUME NEW t \in Transfers, NEW row,
               failure' = [failure EXCEPT ![t] = row], row.status # "none",
               row.status = "resolved" \/ row.stamped => Seen(t)
        PROVE  Goal
    BY <1>0, <1>2 DEF ResolvedIsSeen
  <1>3. ASSUME NEW r \in Runs, NEW t \in Transfers, RecordFailure(r, t)
        PROVE  Goal
    <2>1. Upserted(failure[t]).status = "pending" /\ Upserted(failure[t]).stamped = FALSE
      BY DEF Upserted
    <2>2. failure' = [failure EXCEPT ![t] = Upserted(failure[t])]
      BY <1>3 DEF RecordFailure
    <2> QED BY <1>2, <2>1, <2>2
  <1>4. ASSUME NEW r \in Runs, NEW t \in Transfers, MarkResolved(r, t) \/ MarkResolvedThrows(r, t)
        PROVE  Goal
    <2>1. task[r].pc = "resolve" /\ t \in task[r].current
      BY <1>4 DEF MarkResolved, MarkResolvedThrows
    <2>2. Seen(t)
      BY <2>1 DEF LossInv, RunsAnswer, AnswersFor, AnswersWith, SeenSet
    <2>3. Resolved(failure[t]).status = "resolved"
      BY DEF Resolved
    <2>4. failure' = failure \/ failure' = [failure EXCEPT ![t] = Resolved(failure[t])]
      BY <1>4 DEF MarkResolved, MarkResolvedThrows
    <2> QED BY <1>1, <1>2, <2>2, <2>3, <2>4
  <1>5. ASSUME NEW r \in Runs, NEW t \in Transfers, Reschedule(r, t)
        PROVE  Goal
    <2> DEFINE row == Rescheduled(failure[t], task[r].counts[t] + 1)
    <2>1. row.status \in {"terminal", "pending"} /\ row.stamped = failure[t].stamped
      BY DEF Rescheduled
    <2>2. failure' = [failure EXCEPT ![t] = row]
      BY <1>5 DEF Reschedule
    <2>3. row.stamped => Seen(t)
      BY <1>0, <2>1 DEF ResolvedIsSeen
    <2> HIDE DEF row
    <2> QED BY <1>2, <2>1, <2>2, <2>3
  <1>6. ASSUME NEW t \in Transfers, BackoffEnds(t)
        PROVE  Goal
    <2> DEFINE row == [failure[t] EXCEPT !.due = TRUE]
    <2>1. row.status = failure[t].status /\ row.stamped = failure[t].stamped
          /\ failure[t].status = "pending"
      BY <1>0, <1>6 DEF Rows, BackoffEnds
    <2>2. failure' = [failure EXCEPT ![t] = row]
      BY <1>6 DEF BackoffEnds
    <2>3. row.stamped => Seen(t)
      BY <1>0, <2>1 DEF ResolvedIsSeen
    <2> HIDE DEF row
    <2> QED BY <1>2, <2>1, <2>2, <2>3
  <1>7. ASSUME NEW r \in Runs,
               \/ PollDeposits(r) \/ LookUp(r) \/ FindRetryable(r) \/ ReadEarliest(r)
               \/ StoreCursor(r) \/ RunAborts(r)
               \/ (\E first, last \in Times : ReplayDepositWindow(r, first, last))
               \/ \E t \in Transfers : IngestTransfer(r, t) \/ IngestThrows(r, t)
        PROVE  UNCHANGED failure
    BY <1>7 DEF PollDeposits, LookUp, FindRetryable, ReadEarliest, StoreCursor,
                RunAborts, ReplayDepositWindow, IngestTransfer, IngestThrows
  <1>8. ASSUME NEW o \in Operators, MerchantStep(o)
        PROVE  UNCHANGED failure
    BY <1>8 DEF MerchantStep, OpenReview, Reconcile, ReconcileFails
  <1>10. ASSUME NEW m \in Memos, IssueMemo(m) \/ PurgeMemo(m)
         PROVE  UNCHANGED failure
    BY <1>10 DEF IssueMemo, PurgeMemo
  <1>11. ASSUME NEW t \in Transfers, Appear(t) \/ Outdates(t)
         PROVE  UNCHANGED failure
    BY <1>11 DEF Appear, Outdates
  <1>12. CASE UNCHANGED vars
    BY <1>1, <1>12 DEF vars
  <1>13. CASE Next
    <2> HIDE DEF Goal
    <2>0. UNCHANGED failure => Goal
      BY <1>1 DEF Goal
    <2>1. ASSUME NEW r \in Pollers \cap crew, JobStep(r) PROVE Goal
      BY <2>0, <2>1, <1>3, <1>4, <1>5, <1>7 DEF JobStep, Runs
    <2>2. ASSUME NEW r \in Windows \cap crew, WindowStep(r) PROVE Goal
      BY <2>0, <2>2, <1>7 DEF WindowStep, Runs
    <2>3. ASSUME NEW r \in Runs, NEW t \in Transfers,
                 RunAborts(r) \/ IngestThrows(r, t) \/ MarkResolvedThrows(r, t)
          PROVE  Goal
      BY <2>0, <2>3, <1>4, <1>7
    <2>4. Goal
      BY <1>13, <2>0, <2>1, <2>2, <2>3, <1>6, <1>8, <1>10, <1>11 DEF Next
    <2> QED BY <2>4 DEF Goal
  <1> QED BY <1>12, <1>13
(* No step takes back what is recorded, shown or named by an alert. *)
LEMMA StepGrows ==
    ASSUME DepositAssumption, DepositInv, LossInv, [Next]_vars
    PROVE  Grows
  <1>1. \A t \in Transfers : (Seen(t) => Seen(t)') /\ (Handled(t) => Handled(t)')
    BY StepIsBookChange, SeenKept, FailuresKept DEF DepositInv, Handled
  <1>2. CASE UNCHANGED chain
    BY <1>1, <1>2 DEF chain, Grows, InTime
  <1>3. ASSUME NEW t \in Transfers, Appear(t)
        PROVE  Grows
    <2>1. indexed \subseteq Transfers /\ TimeOf \in [Transfers -> Nat]
      BY DEF DepositInv, DepositTypeOK, DepositAssumption
    <2>2. indexed' = indexed \cup {t} /\ late \subseteq late'
          /\ (t \notin late' => \A s \in indexed : ~(TimeOf[s] > TimeOf[t]))
      BY <1>3 DEF Appear
    <2>3. t \in InTime' => \A s \in indexed : TimeOf[s] <= TimeOf[t]
      BY <2>1, <2>2 DEF InTime
    <2>4. \A s \in InTime' : s \in InTime \/ s = t
      BY <2>2 DEF InTime
    <2> QED BY <1>1, <2>2, <2>3, <2>4 DEF Grows
  <1>4. ASSUME NEW t \in Transfers, Outdates(t)
        PROVE  Grows
    <2>1. indexed' = indexed /\ late \subseteq late'
      BY <1>4 DEF Outdates
    <2>2. \A s \in InTime' : s \in InTime
      BY <2>1 DEF InTime
    <2> QED BY <1>1, <2>1, <2>2 DEF Grows
  <1> QED BY <1>2, <1>3, <1>4, OthersLeaveChain

(* A run that does nothing goes on answering for what it did. *)
LEMMA AnswersGrow ==
    ASSUME DepositAssumption, NEW k \in Tasks,
           NEW S1, NEW H1, NEW T1, NEW A1 \in SUBSET Transfers,
           NEW S2, NEW H2, NEW T2 \in SUBSET Transfers, NEW A2,
           AnswersWith(k, S1, H1, T1, A1), S1 \subseteq S2, H1 \subseteq H2, A1 \subseteq A2,
           \A t \in T2 : t \in T1 \/ \A s \in A1 : TimeOf[s] <= TimeOf[t]
    PROVE  AnswersWith(k, S2, H2, T2, A2)
  <1>1. CASE k.pc = "idle"
    BY <1>1 DEF AnswersWith
  <1>2. CASE k.pc # "idle"
    <2>1. k.newest \in Nat /\ TimeOf \in [Transfers -> Nat]
      BY <1>2 DEF Tasks, Idle, DepositAssumption
    <2>2. ASSUME k.job = "poll", NEW t \in T2, TimeOf[t] < k.newest
          PROVE  t \in T1
      <3>1. PICK s \in A1 : k.newest <= TimeOf[s]
        BY <1>2, <2>1, <2>2 DEF AnswersWith, ReachedIn
      <3>2. ~(TimeOf[s] <= TimeOf[t])
        BY <2>1, <2>2, <3>1
      <3> QED BY <2>2, <3>2
    <2>3. k.job = "poll" => ReachedIn(k.newest, A2)
      BY <1>2 DEF AnswersWith, ReachedIn
    <2> QED BY <1>2, <2>2, <2>3 DEF AnswersWith
  <1> QED BY <1>1, <1>2

(* A run may leave aside what is handled. *)
LEMMA RestAnswers ==
    ASSUME NEW k \in Tasks, k.pc # "idle", NEW S, NEW H, NEW T, NEW A,
           AnswersWith(k, S, H, T, A), NEW todo \in SUBSET Transfers,
           k.job = "poll" => k.todo \ todo \subseteq H
    PROVE  AnswersWith(Rest(k, todo), S, H, T, A)
  <1>1. CASE todo # {}
    <2> DEFINE n == [k EXCEPT !.pc = "ingest", !.todo = todo]
    <2>1. /\ n.pc = "ingest" /\ n.todo = todo /\ n.plan = k.plan /\ n.job = k.job
          /\ n.newest = k.newest
      BY DEF Tasks, Idle
    <2>2. Rest(k, todo) = n
      BY <1>1 DEF Rest
    <2> HIDE DEF n
    <2> QED BY <2>1, <2>2 DEF AnswersWith
  <1>2. CASE todo = {} /\ k.job = "poll"
    <2> DEFINE n == [k EXCEPT !.pc = "earliest", !.todo = {}]
    <2>1. /\ n.pc = "earliest" /\ n.todo = {} /\ n.plan = k.plan /\ n.job = k.job
          /\ n.newest = k.newest
      BY DEF Tasks, Idle
    <2>2. Rest(k, todo) = n
      BY <1>2 DEF Rest
    <2> HIDE DEF n
    <2> QED BY <1>2, <2>1, <2>2 DEF AnswersWith
  <1>3. CASE todo = {} /\ k.job # "poll"
    BY <1>3 DEF Rest, Idle, AnswersWith
  <1> QED BY <1>1, <1>2, <1>3

(* A run may turn to the outcome of the transfer it has in hand. *)
LEMMA TurnAnswers ==
    ASSUME NEW k \in Tasks, k.pc # "idle", NEW S, NEW H, NEW T, NEW A,
           AnswersWith(k, S, H, T, A), NEW C,
           NEW p \in {"record", "retry", "resolve"}, p = "resolve" => C \subseteq S
    PROVE  AnswersWith([k EXCEPT !.pc = p, !.current = C], S, H, T, A)
  <1> DEFINE n == [k EXCEPT !.pc = p, !.current = C]
  <1>1. /\ n.pc = p /\ n.todo = k.todo /\ n.plan = k.plan /\ n.job = k.job
        /\ n.newest = k.newest /\ n.current = C
    BY DEF Tasks, Idle
  <1> HIDE DEF n
  <1> QED
    <2>1. AnswersWith(n, S, H, T, A)
      BY <1>1 DEF AnswersWith
    <2> QED BY <2>1 DEF n

(* A run may put a transfer aside. *)
LEMMA AsideAnswers ==
    ASSUME NEW k \in Tasks, k.pc # "idle", NEW S, NEW H, NEW T, NEW A,
           AnswersWith(k, S, H, T, A)
    PROVE  AnswersWith([k EXCEPT !.current = {}], S, H, T, A)
  <1> DEFINE n == [k EXCEPT !.current = {}]
  <1>1. /\ n.pc = k.pc /\ n.todo = k.todo /\ n.plan = k.plan /\ n.job = k.job
        /\ n.newest = k.newest /\ n.current = {}
    BY DEF Tasks, Idle
  <1> HIDE DEF n
  <1> QED
    <2>1. AnswersWith(n, S, H, T, A)
      BY <1>1 DEF AnswersWith
    <2> QED BY <2>1 DEF n

(* What a run takes up, it answers for.                                      *)
LEMMA TakesUp ==
    ASSUME DepositAssumption, DepositInv, LossInv, NEW r \in Runs,
           \/ PollDeposits(r) \/ LookUp(r) \/ FindRetryable(r)
           \/ ReadEarliest(r) \/ StoreCursor(r) \/ RunAborts(r)
           \/ \E first, last \in Times : ReplayDepositWindow(r, first, last)
    PROVE  \E n : Set(r, n) /\ AnswersFor(n)
  <1> DEFINE k == task[r]
  <1>0. /\ k \in Tasks /\ AnswersFor(k) /\ cursor \in Nat /\ indexed \subseteq Transfers
        /\ TimeOf \in [Transfers -> Nat]
    BY DEF DepositInv, DepositTypeOK, LossInv, RunsAnswer, DepositAssumption
  <1>1. AnswersFor(Idle)
    BY DEF AnswersFor, AnswersWith, Idle
  <1>2. ASSUME NEW job \in {"replay", "window"}, NEW pc \in {"find", "lookup"}, NEW S
        PROVE  AnswersFor(Batch(job, pc, S))
    BY <1>2 DEF AnswersFor, AnswersWith, Batch
  <1>3. CASE PollDeposits(r)
    <2>1. ASSUME NEW old \in SUBSET (late \cap MayAge), NEW F,
                 NEW last \in Asked(old), Fetched(Asked(old), F), last \in F
          PROVE  AnswersFor([Batch("poll", "lookup", F) EXCEPT !.newest = TimeOf[last]])
      <3> DEFINE n == [Batch("poll", "lookup", F) EXCEPT !.newest = TimeOf[last]]
      <3>1. /\ n.pc = "lookup" /\ n.todo = F /\ n.job = "poll" /\ n.newest = TimeOf[last]
            /\ n.plan = [t \in Transfers |-> "none"]
        BY DEF Batch
      <3>2. last \in indexed
        BY DEF Asked, Since
      <3>3. ReachedIn(TimeOf[last], indexed)
        BY <1>0, <3>2 DEF ReachedIn
      <3>4. ASSUME NEW t \in InTime, TimeOf[t] < TimeOf[last]
            PROVE  t \in F \cup HandledSet
        <4>1. t \in Transfers /\ t \in indexed /\ t \notin late
          BY <1>0 DEF InTime
        <4>2. CASE TimeOf[t] < cursor
          BY <4>1, <4>2 DEF LossInv, NoneSkipped, Handled, HandledSet, Seen
        <4>3. CASE ~(TimeOf[t] < cursor)
          <5>1. t \in Asked(old)
            BY <1>0, <4>1, <4>3 DEF Asked, Since
          <5>2. t \notin F => TimeOf[last] <= TimeOf[t]
            BY <2>1, <5>1 DEF Fetched
          <5> QED BY <1>0, <3>2, <3>4, <4>1, <5>2
        <4> QED BY <4>2, <4>3
      <3> HIDE DEF n
      <3>5. AnswersFor(n)
        BY <3>1, <3>3, <3>4 DEF AnswersFor, AnswersWith
      <3> QED BY <3>5 DEF n
    <2> QED BY <1>2, <1>3, <2>1 DEF PollDeposits, Find
  <1>4. CASE LookUp(r)
    <2> DEFINE S == IF k.job = "poll" THEN PendingTransfers(k.todo) ELSE k.todo
               plan == [t \in Transfers |-> IF t \in S THEN Preview(t) ELSE "none"]
               n == [k EXCEPT !.plan = plan]
    <2>1. k.pc = "lookup" /\ Set(r, Rest(n, S))
      BY <1>4 DEF LookUp
    <2>2. k.todo \in SUBSET Transfers /\ S \in SUBSET Transfers
      BY <1>0, <2>1 DEF PendingTransfers, Tasks, Idle
    <2>3. \A t \in Transfers : plan[t] = "already" => t \in SeenSet
      BY DEF Preview, SeenSet
    <2>4. k.job = "poll" => k.todo \ S \subseteq HandledSet
      BY <2>2 DEF PendingTransfers, HandledSet, Handled, Seen
    <2>5. plan \in Plans
      BY PreviewOK DEF Plans
    <2> HIDE DEF S, plan
    <2>6. /\ n \in Tasks /\ n.pc = "lookup" /\ n.todo = k.todo /\ n.job = k.job
          /\ n.newest = k.newest /\ n.plan = plan
      BY <1>0, <2>1, <2>5 DEF Tasks, Idle, Plans
    <2> HIDE DEF n
    <2>7. AnswersFor(n)
      BY <1>0, <2>1, <2>3, <2>6 DEF AnswersFor, AnswersWith
    <2>8. AnswersFor(Rest(n, S))
      BY <2>2, <2>4, <2>6, <2>7, RestAnswers DEF AnswersFor
    <2> QED BY <2>1, <2>8
  <1>5. CASE FindRetryable(r)
    BY <1>1, <1>2, <1>5 DEF FindRetryable
  <1>6. CASE ReadEarliest(r)
    <2>1. k.pc = "earliest"
      BY <1>6 DEF ReadEarliest
    <2>2. k.newest \in Nat /\ \A t \in Unsettled : TimeOf[t] \in Nat
      BY <1>0, <2>1 DEF Tasks, Idle, Unsettled
    <2>3. PICK m \in Nat : m <= k.newest /\ Set(r, [k EXCEPT !.pc = "store", !.newest = m])
      BY <1>6, <2>2 DEF ReadEarliest
    <2> DEFINE n == [k EXCEPT !.pc = "store", !.newest = m]
    <2>4. /\ n.pc = "store" /\ n.todo = k.todo /\ n.job = k.job
          /\ n.newest = m /\ n.plan = k.plan
      BY <1>0, <2>1 DEF Tasks, Idle
    <2> HIDE DEF n
    <2>5. k.job = "poll" /\ k.todo = {} /\ ReachedIn(k.newest, indexed)
          /\ \A t \in InTime : TimeOf[t] < k.newest => t \in HandledSet
      BY <1>0, <2>1 DEF AnswersFor, AnswersWith
    <2>6. ReachedIn(m, indexed)
      <3>1. CASE k.newest = 0
        BY <2>2, <2>3, <3>1 DEF ReachedIn
      <3>2. CASE k.newest # 0
        <4>1. PICK s \in indexed : k.newest <= TimeOf[s]
          BY <2>5, <3>2 DEF ReachedIn
        <4>2. m <= TimeOf[s]
          BY <1>0, <2>2, <2>3, <4>1
        <4> QED BY <4>2 DEF ReachedIn
      <3> QED BY <3>1, <3>2
    <2>7. \A t \in InTime : TimeOf[t] < m => t \in HandledSet
      <3>1. \A t \in InTime : TimeOf[t] \in Nat
        BY <1>0 DEF InTime
      <3> QED BY <2>2, <2>3, <2>5, <3>1
    <2>8. \A t \in Transfers : k.plan[t] = "already" => t \in SeenSet
      BY <1>0, <2>1 DEF AnswersFor, AnswersWith
    <2>9. AnswersFor(n)
      BY <2>4, <2>5, <2>6, <2>7, <2>8 DEF AnswersFor, AnswersWith
    <2>10. Set(r, n)
      BY <2>3 DEF n
    <2> QED BY <2>9, <2>10
  <1>7. CASE StoreCursor(r)
    BY <1>2, <1>7 DEF StoreCursor, Find
  <1>8. CASE RunAborts(r)
    BY <1>1, <1>8 DEF RunAborts
  <1>9. ASSUME NEW first \in Times, NEW last \in Times, ReplayDepositWindow(r, first, last)
        PROVE  \E n : Set(r, n) /\ AnswersFor(n)
    BY <1>2, <1>9 DEF ReplayDepositWindow
  <1> QED BY <1>3, <1>4, <1>5, <1>6, <1>7, <1>8, <1>9

(* What a run has done to a transfer, it answers for.                        *)
LEMMA CarriesOn ==
    ASSUME DepositAssumption, DepositInv, LossInv, NEW r \in Runs, NEW t \in Transfers,
           \A k \in Tasks : AnswersFor(k) => AnswersFor(k)',
           \/ IngestTransfer(r, t) \/ IngestThrows(r, t) \/ RecordFailure(r, t)
           \/ MarkResolved(r, t) \/ MarkResolvedThrows(r, t) \/ Reschedule(r, t)
    PROVE  \E n : Set(r, n) /\ AnswersFor(n)'
  <1> DEFINE k == task[r]
  <1>0. /\ k \in Tasks /\ AnswersFor(k) /\ k.pc # "idle"
        /\ failure \in [Transfers -> Rows] /\ BooksInv
    BY DEF DepositInv, DepositTypeOK, LossInv, RunsAnswer, IngestTransfer, IngestThrows,
           RecordFailure, MarkResolved, MarkResolvedThrows, Reschedule
  <1>1. PICK j \in Tasks : j = k /\ j.pc # "idle" /\ AnswersFor(j)'
    BY <1>0
  <1>2. j.todo \ {t} \in SUBSET Transfers /\ j.job \in {"poll", "replay", "window"}
    BY <1>1 DEF Tasks, Idle
  <1>3. ASSUME Handled(t)' \/ j.job # "poll"
        PROVE  /\ AnswersFor(Rest(j, j.todo \ {t}))'
               /\ AnswersFor(Rest([j EXCEPT !.current = {}], j.todo \ {t}))'
    <2>1. j.job = "poll" => j.todo \ (j.todo \ {t}) \subseteq HandledSet'
      BY <1>3 DEF HandledSet
    <2>2. AnswersWith(j, SeenSet', HandledSet', InTime', indexed')
      BY <1>1 DEF AnswersFor
    <2>3. AnswersWith(Rest(j, j.todo \ {t}), SeenSet', HandledSet', InTime', indexed')
      BY <1>1, <1>2, <2>1, <2>2, RestAnswers
    <2> DEFINE n == [j EXCEPT !.current = {}]
    <2>4. AnswersWith(n, SeenSet', HandledSet', InTime', indexed')
      BY <1>1, <2>2, AsideAnswers
    <2>5. n \in Tasks /\ n.pc # "idle" /\ n.job = j.job /\ n.todo = j.todo
      BY <1>1 DEF Tasks, Idle
    <2> HIDE DEF n
    <2>6. AnswersWith(Rest(n, j.todo \ {t}), SeenSet', HandledSet', InTime', indexed')
      BY <1>2, <2>1, <2>4, <2>5, RestAnswers
    <2> QED BY <2>3, <2>6 DEF AnswersFor, n
  <1>4. ASSUME NEW p \in {"record", "retry", "resolve"}, p = "resolve" => Seen(t)'
        PROVE  AnswersFor([j EXCEPT !.pc = p, !.current = {t}])'
    <2>1. p = "resolve" => {t} \subseteq SeenSet'
      BY <1>4 DEF SeenSet
    <2>2. AnswersWith(j, SeenSet', HandledSet', InTime', indexed')
      BY <1>1 DEF AnswersFor
    <2>3. AnswersWith([j EXCEPT !.pc = p, !.current = {t}], SeenSet', HandledSet', InTime', indexed')
      BY <1>1, <2>1, <2>2, TurnAnswers
    <2> QED BY <2>3 DEF AnswersFor
  <1>5. CASE IngestTransfer(r, t)
    <2>1. k.plan[t] = "already" => Seen(t)
      BY <1>0 DEF AnswersFor, AnswersWith, SeenSet
    <2>2. Seen(t)'
      BY <1>0, <1>5, <2>1, IngestedIsSeen DEF IngestTransfer
    <2>3. Handled(t)'
      BY <2>2 DEF Handled
    <2>4. Set(r, IF j.job = "replay" THEN [j EXCEPT !.pc = "resolve", !.current = {t}]
                 ELSE Rest(j, j.todo \ {t}))
      BY <1>1, <1>5 DEF IngestTransfer
    <2> QED BY <1>3, <1>4, <2>2, <2>3, <2>4
  <1>6. CASE IngestThrows(r, t)
    <2>1. Set(r, CASE j.job = "poll"   -> [j EXCEPT !.pc = "record", !.current = {t}]
                   [] j.job = "replay" -> [j EXCEPT !.pc = "retry", !.current = {t}]
                   [] j.job = "window" -> Idle)
      BY <1>1, <1>6 DEF IngestThrows
    <2>2. AnswersFor(Idle)'
      BY DEF AnswersFor, AnswersWith, Idle
    <2> QED BY <1>2, <1>4, <2>1, <2>2
  <1>7. CASE RecordFailure(r, t)
    <2>1. Set(r, Rest([j EXCEPT !.current = {}], j.todo \ {t}))
      BY <1>1, <1>7 DEF RecordFailure
    <2>2. failure'[t].status = "pending"
      BY <1>0, <1>7 DEF RecordFailure, Upserted
    <2>3. Handled(t)'
      BY <2>2 DEF Handled
    <2> QED BY <1>3, <2>1, <2>3
  <1>8. CASE MarkResolved(r, t)
    <2>1. Set(r, Rest([j EXCEPT !.current = {}], j.todo \ {t}))
      BY <1>1, <1>8 DEF MarkResolved
    <2>2. failure'[t].status = "resolved"
      BY <1>0, <1>8 DEF MarkResolved, Resolved
    <2>3. Handled(t)'
      BY <2>2 DEF Handled
    <2> QED BY <1>3, <2>1, <2>3
  <1>9. CASE Reschedule(r, t)
    <2>1. Set(r, Rest([j EXCEPT !.current = {}], j.todo \ {t}))
      BY <1>1, <1>9 DEF Reschedule
    <2>2. failure'[t].status \in {"terminal", "pending"}
      BY <1>0, <1>9 DEF Reschedule, Rescheduled
    <2>3. Handled(t)'
      BY <2>2 DEF Handled
    <2> QED BY <1>3, <2>1, <2>3
  <1>10. CASE MarkResolvedThrows(r, t)
    <2> DEFINE n == [j EXCEPT !.pc = "retry"]
    <2>1. Set(r, n)
      BY <1>1, <1>10 DEF MarkResolvedThrows
    <2>2. /\ n.pc = "retry" /\ n.todo = j.todo /\ n.plan = j.plan /\ n.job = j.job
          /\ n.newest = j.newest
      BY <1>1 DEF Tasks, Idle
    <2> HIDE DEF n
    <2>3. AnswersFor(n)'
      BY <1>1, <2>2 DEF AnswersFor, AnswersWith
    <2> QED BY <2>1, <2>3
  <1> QED BY <1>5, <1>6, <1>7, <1>8, <1>9, <1>10

(* Runs answer for what they have not passed, after every step. *)
LEMMA RunsKeepAnswering ==
    ASSUME DepositAssumption, DepositInv, LossInv, Grows, [Next]_vars
    PROVE  RunsAnswer'
  <1>0. /\ task \in [Runs -> Tasks] /\ task' \in [Runs -> Tasks]
        /\ \A r \in Runs : AnswersFor(task[r])
    BY TasksKept DEF DepositInv, DepositTypeOK, LossInv, RunsAnswer, TasksOK
  <1>1. ASSUME NEW k \in Tasks, AnswersFor(k)
        PROVE  AnswersFor(k)'
    <2>1. /\ SeenSet \subseteq SeenSet' /\ HandledSet \subseteq HandledSet'
          /\ indexed \subseteq indexed' /\ indexed \in SUBSET Transfers
          /\ \A t \in InTime' : t \in InTime \/ \A s \in indexed : TimeOf[s] <= TimeOf[t]
      BY DEF Grows, SeenSet, HandledSet, DepositInv, DepositTypeOK
    <2>2. InTime' \in SUBSET Transfers
      BY ChainKept DEF InTime, DepositInv
    <2>3. AnswersWith(k, SeenSet, HandledSet, InTime, indexed)
      BY <1>1 DEF AnswersFor
    <2>4. AnswersWith(k, SeenSet', HandledSet', InTime', indexed')
      BY <2>1, <2>2, <2>3, AnswersGrow
    <2> QED BY <2>4 DEF AnswersFor
  <1>2. CASE UNCHANGED task
    <2>1. ASSUME NEW r \in Runs
          PROVE  AnswersFor(task[r])'
      <3>1. PICK k \in Tasks : k = task[r] /\ AnswersFor(k)'
        BY <1>0, <1>1
      <3> QED BY <1>2, <3>1 DEF AnswersFor
    <2> QED BY <2>1 DEF RunsAnswer
  <1>3. ASSUME NEW r \in Runs, NEW n, Set(r, n), AnswersFor(n)'
        PROVE  RunsAnswer'
    <2>1. ASSUME NEW q \in Runs, q # r
          PROVE  AnswersFor(task[q])'
      <3>1. PICK k \in Tasks : k = task[q] /\ AnswersFor(k)'
        BY <1>0, <1>1
      <3>2. task'[q] = k
        BY <1>0, <1>3, <2>1, <3>1 DEF Set
      <3> QED BY <3>1, <3>2 DEF AnswersFor
    <2>2. AnswersFor(task[r])'
      <3>1. task'[r] = n
        BY <1>0, <1>3 DEF Set
      <3> QED BY <1>3, <3>1 DEF AnswersFor
    <2> QED BY <2>1, <2>2 DEF RunsAnswer
  <1>4. ASSUME NEW r \in Runs,
               \/ PollDeposits(r) \/ LookUp(r) \/ FindRetryable(r)
               \/ ReadEarliest(r) \/ StoreCursor(r) \/ RunAborts(r)
               \/ \E first, last \in Times : ReplayDepositWindow(r, first, last)
        PROVE  RunsAnswer'
    <2>1. PICK n : Set(r, n) /\ AnswersFor(n)
      BY <1>4, TakesUp
    <2>2. n \in Tasks
      BY <1>0, <2>1 DEF Set
    <2> QED BY <1>1, <1>3, <2>1, <2>2
  <1>5. ASSUME NEW r \in Runs, NEW t \in Transfers,
               \/ IngestTransfer(r, t) \/ IngestThrows(r, t) \/ RecordFailure(r, t)
               \/ MarkResolved(r, t) \/ MarkResolvedThrows(r, t) \/ Reschedule(r, t)
        PROVE  RunsAnswer'
    <2>1. \E n : Set(r, n) /\ AnswersFor(n)'
      BY <1>1, <1>5, CarriesOn
    <2> QED BY <1>3, <2>1
  <1>6. ASSUME NEW t \in Transfers, Appear(t) \/ Outdates(t) \/ BackoffEnds(t)
        PROVE  UNCHANGED task
    BY <1>6 DEF Appear, Outdates, BackoffEnds
  <1>7. ASSUME NEW m \in Memos, IssueMemo(m) \/ PurgeMemo(m)
        PROVE  UNCHANGED task
    BY <1>7 DEF IssueMemo, PurgeMemo
  <1>8. ASSUME NEW o \in Operators, MerchantStep(o)
        PROVE  UNCHANGED task
    BY <1>8 DEF MerchantStep, OpenReview, Reconcile, ReconcileFails
  <1>9. CASE UNCHANGED vars
    BY <1>2, <1>9 DEF vars
  <1>10. CASE Next
    <2>1. ASSUME NEW r \in Pollers \cap crew, JobStep(r) PROVE RunsAnswer'
      BY <2>1, <1>4, <1>5 DEF JobStep, Runs
    <2>2. ASSUME NEW r \in Windows \cap crew, WindowStep(r) PROVE RunsAnswer'
      BY <2>2, <1>4, <1>5 DEF WindowStep, Runs
    <2> QED BY <1>2, <1>4, <1>5, <1>6, <1>7, <1>8, <1>10, <2>1, <2>2 DEF Next
  <1> QED BY <1>9, <1>10

(* The cursor passes nothing that nobody answers for (runDepositPoller). *)
LEMMA CursorKept ==
    ASSUME DepositAssumption, DepositInv, LossInv, Grows, [Next]_vars
    PROVE  ReachedIn(cursor', indexed') /\ NoneSkipped'
  <1>0. /\ TimeOf \in [Transfers -> Nat] /\ indexed \subseteq Transfers
        /\ InTime' \subseteq Transfers /\ cursor \in Nat
    BY ChainKept DEF DepositInv, DepositTypeOK, DepositAssumption, InTime
  <1>1. ASSUME ReachedIn(cursor', indexed), cursor' \in Nat,
               \A t \in InTime : TimeOf[t] < cursor' => Handled(t)
        PROVE  ReachedIn(cursor', indexed') /\ NoneSkipped'
    <2>1. ReachedIn(cursor', indexed')
      BY <1>1 DEF ReachedIn, Grows
    <2>2. ASSUME NEW t \in InTime', TimeOf[t] < cursor'
          PROVE  Handled(t)'
      <3>1. t \in InTime
        <4>1. CASE \A s \in indexed : TimeOf[s] <= TimeOf[t]
          <5>1. PICK s \in indexed : cursor' <= TimeOf[s]
            BY <1>0, <1>1, <2>2 DEF ReachedIn
          <5> QED BY <1>0, <1>1, <2>2, <4>1, <5>1
        <4> QED BY <2>2, <4>1 DEF Grows
      <3> QED BY <1>0, <1>1, <2>2, <3>1 DEF Grows
    <2> QED BY <2>1, <2>2 DEF NoneSkipped, InTime, Handled, Seen
  <1>2. CASE UNCHANGED cursor
    <2>1. \A t \in InTime : TimeOf[t] < cursor => Handled(t)
      BY DEF LossInv, NoneSkipped, InTime, Handled, Seen
    <2> QED BY <1>0, <1>1, <1>2, <2>1 DEF LossInv
  <1>3. ASSUME NEW r \in Runs, StoreCursor(r)
        PROVE  ReachedIn(cursor', indexed') /\ NoneSkipped'
    <2> DEFINE k == task[r]
    <2>1. k.pc = "store" /\ cursor' = k.newest /\ AnswersFor(k) /\ k \in Tasks
      BY <1>3 DEF StoreCursor, LossInv, RunsAnswer, DepositInv, DepositTypeOK
    <2>2. k.newest \in Nat
      BY <2>1 DEF Tasks, Idle
    <2>3. ReachedIn(k.newest, indexed) /\ \A t \in InTime : TimeOf[t] < k.newest => Handled(t)
      BY <2>1 DEF AnswersFor, AnswersWith, HandledSet
    <2> QED BY <1>1, <2>1, <2>2, <2>3
  <1>4. ASSUME NEW r \in Runs,
               \/ PollDeposits(r) \/ LookUp(r) \/ FindRetryable(r) \/ ReadEarliest(r)
               \/ RunAborts(r)
               \/ (\E first, last \in Times : ReplayDepositWindow(r, first, last))
               \/ \E t \in Transfers :
                    \/ IngestTransfer(r, t) \/ IngestThrows(r, t) \/ RecordFailure(r, t)
                    \/ MarkResolved(r, t) \/ MarkResolvedThrows(r, t) \/ Reschedule(r, t)
        PROVE  UNCHANGED cursor
    BY <1>4 DEF PollDeposits, LookUp, FindRetryable, ReadEarliest, RunAborts,
                ReplayDepositWindow, IngestTransfer, IngestThrows, RecordFailure,
                MarkResolved, MarkResolvedThrows, Reschedule
  <1>5. ASSUME NEW t \in Transfers, Appear(t) \/ Outdates(t) \/ BackoffEnds(t)
        PROVE  UNCHANGED cursor
    BY <1>5 DEF Appear, Outdates, BackoffEnds
  <1>6. ASSUME NEW m \in Memos, IssueMemo(m) \/ PurgeMemo(m)
        PROVE  UNCHANGED cursor
    BY <1>6 DEF IssueMemo, PurgeMemo
  <1>7. ASSUME NEW o \in Operators, MerchantStep(o)
        PROVE  UNCHANGED cursor
    BY <1>7 DEF MerchantStep, OpenReview, Reconcile, ReconcileFails
  <1>8. CASE UNCHANGED vars
    BY <1>2, <1>8 DEF vars
  <1>9. CASE Next
    <2> DEFINE Goal == ReachedIn(cursor', indexed') /\ NoneSkipped'
    <2>0. UNCHANGED cursor => Goal
      BY <1>2
    <2>1. \A r \in Runs : StoreCursor(r) => Goal
      BY <1>3
    <2> HIDE DEF Goal
    <2>2. ASSUME NEW r \in Pollers \cap crew, JobStep(r) PROVE Goal
      BY <2>0, <2>1, <2>2, <1>4 DEF JobStep, Runs
    <2>3. ASSUME NEW r \in Windows \cap crew, WindowStep(r) PROVE Goal
      BY <2>0, <2>3, <1>4 DEF WindowStep, Runs
    <2>4. Goal
      BY <2>0, <2>2, <2>3, <1>4, <1>5, <1>6, <1>7, <1>9 DEF Next
    <2> QED BY <2>4 DEF Goal
  <1> QED BY <1>8, <1>9

(* Whatever the index shows in time is in the books, or among the failures that
   are taken up again, or an alert has named it: for any number of processes
   that poll, of windows that merchants replay and of failures at any step. *)
THEOREM NoTransferIsLost == Spec => []NothingIsLost
  <1>1. Init => DepositInv /\ LossInv
    BY InitOK, DepositAssumption
       DEF Init, LossInv, RunsAnswer, AnswersFor, AnswersWith, Idle, ResolvedIsSeen, NoRow,
           ReachedIn, NoneSkipped
  <1>2. DepositInv /\ LossInv /\ [Next]_vars => DepositInv' /\ LossInv'
    <2>1. ASSUME DepositInv, LossInv, [Next]_vars
          PROVE  DepositInv' /\ LossInv'
      <3>1. DepositInv' /\ Grows /\ ResolvedIsSeen'
        BY <2>1, InvKept, StepGrows, FailuresKept, DepositAssumption
      <3>2. RunsAnswer' /\ ReachedIn(cursor', indexed') /\ NoneSkipped'
        BY <2>1, <3>1, RunsKeepAnswering, CursorKept, DepositAssumption
      <3> QED BY <3>1, <3>2 DEF LossInv, ReachedIn
    <2> QED BY <2>1
  <1>3. DepositInv /\ LossInv => NothingIsLost
    <2>1. ASSUME DepositInv, LossInv, NEW t \in Transfers,
                 failure[t].status \in {"pending", "resolved"}, ~Retryable(t)
          PROVE  processed[t] # "no" \/ Alerted(t)
      <3>1. /\ failure[t] \in Rows /\ MaxRetries \in Nat
            /\ failure[t].status = "resolved" \/ failure[t].stamped => Seen(t)
        BY <2>1, DepositAssumption DEF DepositInv, DepositTypeOK, LossInv, ResolvedIsSeen
      <3>2. failure[t].retries \in 0 .. MaxRetries /\ failure[t].stamped \in BOOLEAN
        BY <3>1 DEF Rows
      <3> QED BY <2>1, <3>1, <3>2 DEF Retryable, Alerted, Seen
    <2> QED BY <2>1 DEF NothingIsLost, LossInv, StrandedIsProcessed
  <1> QED BY <1>1, <1>2, <1>3, PTL DEF Spec

=============================================================================
