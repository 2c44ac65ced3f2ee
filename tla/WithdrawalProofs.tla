-------------------------- MODULE WithdrawalProofs --------------------------
(***************************************************************************)
(* That TypeOK holds in every behaviour of WithdrawalPipeline, that a      *)
(* withdrawal is signed once, has one worker and is not refunded           *)
(* automatically beside a message, that the pipeline implements HeldFunds, *)
(* and that its ledgers agree with its documents: for every value of the   *)
(* constants.                                                              *)
(*                                                                         *)
(* TypeOK alone is not inductive: a step that writes the document in hand  *)
(* of a worker, a sweep, a recovery or an operator stays within the types  *)
(* only if there is one, which Jobs says. Nor is any of the other          *)
(* properties. A worker that has not sent must be known to hold a document *)
(* in processing that nothing was sent for (UnsentClaims), whatever the    *)
(* sweep, the recovery and the operators do meanwhile: so what they have   *)
(* in hand must be known to be past that point (SweepPast, DeskPast) or    *)
(* without a worker (BootPast).                                            *)
(*                                                                         *)
(* Sums are over the documents that exist, of which there are finitely     *)
(* many at any time (FinitelyMany), however many there may come to be.     *)
(***************************************************************************)
EXTENDS WithdrawalPipeline, SumTheorems

(* What the process records point to: a worker, a sweep, a recovery and an *)
(* operator's request that are past their first step have a withdrawal in  *)
(* hand, and a transfer they found is an indexed one of that withdrawal.   *)
WorkerJob == \A p \in Procs : Sending(p) => wjob[p] \in Withdrawals

FoundFor(task) == task.found \in indexed /\ task.found.w = task.job

LookupOK(task) ==
    /\ task.pc \in {"found", "missing"} => task.job \in Withdrawals
    /\ task.pc = "found" => FoundFor(task)

RequestOK(task) ==
    /\ task.pc # "idle" => task.job \in Withdrawals
    /\ task.pc = "commit" /\ task.action = "confirm" => FoundFor(task)

SweepJob == \A p \in Procs : LookupOK(sweep[p])
BootJob  == \A p \in Procs : LookupOK(boot[p])
DeskJob  == \A a \in Admins : RequestOK(desk[a])

Jobs == WorkerJob /\ SweepJob /\ BootJob /\ DeskJob

(* A ledger stays natural under a credit, and under a debit it covers (the *)
(* guard of deductBalanceRawIfSufficient).                                 *)
LEMMA CreditType ==
    ASSUME NEW w \in Withdrawals, NEW ledger \in [Users -> Nat]
    PROVE  /\ Credit(ledger, w, 1) \in [Users -> Nat]
           /\ ledger[UserOf[w]] >= Amount[w] => Credit(ledger, w, -1) \in [Users -> Nat]
BY ConstantsAssumption DEF Credit

(* Reserving or releasing keeps every day's reservation natural: the       *)
(* release is floored at zero.                                             *)
LEMMA BookType ==
    ASSUME NEW w \in Withdrawals, NEW d \in Days, NEW sign \in {-1, 1},
           reserved \in [Users -> [Days -> Nat]]
    PROVE  Book(w, d, sign) \in [Users -> [Days -> Nat]]
<1> DEFINE n == reserved[UserOf[w]][d] + sign * Amount[w]
<1>1. UserOf[w] \in Users /\ Amount[w] \in Nat
  BY ConstantsAssumption
<1>2. n \in Int
  BY <1>1
<1>3. (IF n >= 0 THEN n ELSE 0) \in Nat
  BY <1>2
<1>4. QED
  BY <1>1, <1>3 DEF Book

(* A transfer the chain lookup returns is an indexed one of that           *)
(* withdrawal.                                                             *)
LEMMA TransferType ==
    ASSUME NEW w \in Withdrawals
    PROVE  Transfer(w) # NoMsg => Transfer(w) \in indexed /\ Transfer(w).w = w
BY DEF Transfer

(* markStuck keeps the documents well formed.                              *)
LEMMA MarkStuckType ==
    ASSUME DocsOK, NEW w \in Withdrawals, MarkStuck(w)
    PROVE  DocsOK'
BY DEF DocsOK, MarkStuck, Statuses

(* The confirming transaction keeps documents and ledgers well formed.     *)
LEMMA ConfirmType ==
    ASSUME DocsOK, LedgerOK, NEW w \in Withdrawals, NEW m \in Msg, ConfirmTransaction(w, m)
    PROVE  DocsOK' /\ LedgerOK'
<1>1. DocsOK'
  BY DEF DocsOK, ConfirmTransaction, Statuses, Message
<1>2. LedgerOK'
  BY CreditType DEF LedgerOK, ConfirmTransaction
<1>3. QED
  BY <1>1, <1>2

(* A refund keeps the ledgers well formed, releasing from the day of the   *)
(* document.                                                               *)
LEMMA RefundLedgerType ==
    ASSUME DocsOK, LedgerOK, NEW w \in Withdrawals, RefundLedger(w)
    PROVE  LedgerOK'
<1>1. balance' \in [Users -> Nat]
  BY CreditType DEF LedgerOK, RefundLedger
<1>2. reserved' \in [Users -> [Days -> Nat]]
  <2>1. createdDay[w] \in Days
    BY DEF DocsOK
  <2>2. reserved \in [Users -> [Days -> Nat]] /\ -1 \in {-1, 1}
    BY DEF LedgerOK
  <2>3. QED
    BY <2>1, <2>2, BookType DEF RefundLedger
<1>3. refunds' \in [Withdrawals -> Nat]
  BY DEF LedgerOK, RefundLedger
<1>4. withdrawn' = withdrawn /\ processed' = processed
  BY DEF RefundLedger
<1>5. QED
  BY <1>1, <1>2, <1>3, <1>4 DEF LedgerOK

(* The empty collections and the idle processes are well formed.           *)
LEMMA InitType == Init => TypeOK /\ Jobs
<1> SUFFICES ASSUME Init PROVE TypeOK /\ Jobs
  OBVIOUS
<1> USE ConstantsAssumption DEF Init
<1>1. DocsOK
  BY DEF DocsOK, Statuses, Message, Days
<1>2. LedgerOK
  BY DEF LedgerOK
<1>3. ChainOK
  BY DEF ChainOK
<1>4. WorkerOK
  BY DEF WorkerOK, Job
<1>5. ProcOK
  BY DEF ProcOK, SweepTask, BootTask, DeskTask, IdleSweep, IdleDesk, FreshBoot, Booted, Job, Message
<1>6. PastOK
  BY DEF PastOK, Days
<1>7. Jobs
  BY DEF Jobs, WorkerJob, SweepJob, BootJob, DeskJob, LookupOK, RequestOK, Sending, IdleSweep, IdleDesk, FreshBoot, Booted
<1>8. QED
  BY <1>1, <1>2, <1>3, <1>4, <1>5, <1>6, <1>7 DEF TypeOK

-----------------------------------------------------------------------------
Typed == TypeOK /\ Jobs

taskVars == <<lock, sweep, boot, desk, crashes>>

(* What an action does not write stays well typed.                         *)
LEMMA Unwritten ==
    /\ DocsOK /\ UNCHANGED docVars => DocsOK'
    /\ LedgerOK /\ UNCHANGED ledgerVars => LedgerOK'
    /\ ChainOK /\ UNCHANGED chainVars => ChainOK'
    /\ WorkerOK /\ UNCHANGED workerVars => WorkerOK'
    /\ ProcOK /\ UNCHANGED taskVars => ProcOK'
    /\ PastOK /\ UNCHANGED pastVars => PastOK'
    /\ WorkerJob /\ UNCHANGED workerVars => WorkerJob'
    /\ SweepJob /\ UNCHANGED <<sweep, indexed>> => SweepJob'
    /\ BootJob /\ UNCHANGED <<boot, indexed>> => BootJob'
    /\ DeskJob /\ UNCHANGED <<desk, indexed>> => DeskJob'
<1>1. /\ DocsOK /\ UNCHANGED docVars => DocsOK'
      /\ LedgerOK /\ UNCHANGED ledgerVars => LedgerOK'
      /\ ChainOK /\ UNCHANGED chainVars => ChainOK'
  BY DEF DocsOK, docVars, LedgerOK, ledgerVars, ChainOK, chainVars
<1>2. /\ WorkerOK /\ UNCHANGED workerVars => WorkerOK'
      /\ ProcOK /\ UNCHANGED taskVars => ProcOK'
      /\ PastOK /\ UNCHANGED pastVars => PastOK'
  BY DEF WorkerOK, workerVars, ProcOK, taskVars, PastOK, pastVars
<1>3. /\ WorkerJob /\ UNCHANGED workerVars => WorkerJob'
      /\ SweepJob /\ UNCHANGED <<sweep, indexed>> => SweepJob'
      /\ BootJob /\ UNCHANGED <<boot, indexed>> => BootJob'
      /\ DeskJob /\ UNCHANGED <<desk, indexed>> => DeskJob'
  BY DEF WorkerJob, Sending, workerVars, SweepJob, BootJob, DeskJob, LookupOK, RequestOK, FoundFor
<1>4. QED
  BY <1>1, <1>2, <1>3

(* A request: only the documents, the ledger and the calendar move.        *)
LEMMA RequestTyped ==
    ASSUME Typed, NEW w \in Withdrawals,
           RequestWithdrawal(w) \/ RequestAcrossMidnight(w)
    PROVE  Typed'
<1>1. PICK d \in Days : CreateWithdrawal(w, d) /\ today' \in Days
  BY ConstantsAssumption
     DEF Typed, TypeOK, PastOK, Days, RequestWithdrawal, RequestAcrossMidnight
<1>2. DocsOK'
  BY <1>1 DEF Typed, TypeOK, DocsOK, CreateWithdrawal, Statuses
<1>3. LedgerOK'
  <2>1. balance' \in [Users -> Nat]
    BY <1>1, CreditType DEF Typed, TypeOK, LedgerOK, CreateWithdrawal, Covers
  <2>2. today \in Days /\ 1 \in {-1, 1} /\ reserved \in [Users -> [Days -> Nat]]
    BY DEF Typed, TypeOK, PastOK, LedgerOK
  <2>3. reserved' \in [Users -> [Days -> Nat]]
    BY <1>1, <2>2, BookType DEF CreateWithdrawal
  <2>4. QED
    BY <1>1, <2>1, <2>3 DEF Typed, TypeOK, LedgerOK, CreateWithdrawal
<1>4. PastOK'
  BY <1>1 DEF Typed, TypeOK, PastOK, CreateWithdrawal
<1>5. UNCHANGED chainVars /\ UNCHANGED workerVars /\ UNCHANGED taskVars
  BY <1>1 DEF CreateWithdrawal, procVars, workerVars, taskVars, chainVars
<1>6. QED
  BY <1>2, <1>3, <1>4, <1>5, Unwritten DEF Typed, TypeOK, Jobs, chainVars, taskVars

(* What the worker's actions have in common: they leave the tasks other    *)
(* than the lock, the calendar and the index of the chain alone.           *)
LEMMA WorkerFrame ==
    ASSUME Typed, NEW p \in Procs, WorkerNext(p)
    PROVE  /\ UNCHANGED <<sweep, boot, desk, crashes, pastVars, indexed>>
           /\ SweepJob' /\ BootJob' /\ DeskJob' /\ PastOK' /\ ProcOK'
<1> USE DEF WorkerOnly, chainVars
<1>1. UNCHANGED <<sweep, boot, desk, crashes, pastVars, indexed>>
  <2>1. CASE StartSend(p) BY <2>1 DEF StartSend
  <2>2. CASE ClaimNextQueued(p) BY <2>2 DEF ClaimNextQueued
  <2>3. CASE ClaimNothing(p) BY <2>3 DEF ClaimNothing
  <2>4. CASE ReadSeqno(p) BY <2>4 DEF ReadSeqno
  <2>5. CASE PreSendFails(p) BY <2>5 DEF PreSendFails
  <2>6. CASE SendTransfer(p) BY <2>6 DEF SendTransfer
  <2>7. CASE SeqnoAdvanced(p) BY <2>7 DEF SeqnoAdvanced
  <2>8. CASE SeqnoTimeout(p) BY <2>8 DEF SeqnoTimeout
  <2>9. CASE MarkSent(p) BY <2>9 DEF MarkSent
  <2>10. CASE PostSendFails(p) BY <2>10 DEF PostSendFails
  <2>11. CASE PostSendDone(p) BY <2>11 DEF PostSendDone
  <2>12. CASE MarkStuckUnknown(p) BY <2>12 DEF MarkStuckUnknown
  <2>13. CASE RetryOrRefund(p) BY <2>13 DEF RetryOrRefund, MarkRetryState
  <2>14. CASE OutcomeNotWritten(p) BY <2>14 DEF OutcomeNotWritten
  <2>15. CASE FinishSend(p) BY <2>15 DEF FinishSend
  <2>16. QED
    BY <2>1, <2>2, <2>3, <2>4, <2>5, <2>6, <2>7, <2>8, <2>9, <2>10, <2>11, <2>12,
       <2>13, <2>14, <2>15 DEF WorkerNext
<1>2. lock' \in Procs \cup {NoProc}
  BY DEF Typed, TypeOK, ProcOK, WorkerNext, StartSend, ClaimNextQueued, ClaimNothing,
         ReadSeqno, PreSendFails, SendTransfer, SeqnoAdvanced, SeqnoTimeout, MarkSent,
         PostSendFails, PostSendDone, MarkStuckUnknown, RetryOrRefund, OutcomeNotWritten,
         FinishSend
<1>3. QED
  BY <1>1, <1>2, Unwritten DEF Typed, TypeOK, Jobs, ProcOK

(* The worker's documents, its place in the job and the withdrawal it has  *)
(* in hand.                                                                *)
LEMMA WorkerTyped ==
    ASSUME Typed, NEW p \in Procs, WorkerNext(p)
    PROVE  Typed'
<1> USE DEF Typed, TypeOK
<1>1. CASE ClaimNextQueued(p)
  <2>1. PICK w \in Claimable : /\ status' = [status EXCEPT ![w] = "processing"]
                               /\ wjob' = [wjob EXCEPT ![p] = w]
                               /\ wtry' = [wtry EXCEPT ![p] = retries[w]]
    BY <1>1 DEF ClaimNextQueued
  <2>2. w \in Withdrawals
    BY DEF Claimable
  <2>3. DocsOK'
    BY <1>1, <2>1, <2>2 DEF ClaimNextQueued, DocsOK, Statuses
  <2>4. WorkerOK' /\ WorkerJob'
    BY <1>1, <2>1, <2>2 DEF ClaimNextQueued, WorkerStep, DocsOK, WorkerOK, Job, Jobs,
                            WorkerJob, Sending
  <2>5. QED
    BY <1>1, <2>3, <2>4, WorkerFrame, Unwritten DEF ClaimNextQueued, Jobs
<1>2. CASE SendTransfer(p)
  <2>1. wjob[p] \in Withdrawals /\ wseq[p] \in Nat /\ wtry[p] \in Nat
    BY <1>2 DEF SendTransfer, Jobs, WorkerJob, Sending, WorkerOK
  <2>2. ChainOK'
    BY <1>2, <2>1 DEF SendTransfer, ChainOK, Msg
  <2>3. WorkerOK' /\ WorkerJob'
    BY <1>2, <2>1 DEF SendTransfer, AfterSend, WorkerOK, Jobs, WorkerJob, Sending
  <2>4. QED
    BY <1>2, <2>2, <2>3, WorkerFrame, Unwritten DEF SendTransfer, Jobs
<1>3. CASE MarkSent(p)
  <2>1. wjob[p] \in Withdrawals
    BY <1>3 DEF MarkSent, WorkerStep, Jobs, WorkerJob, Sending
  <2>2. DocsOK'
    BY <1>3, <2>1 DEF MarkSent, DocsOK, Statuses
  <2>3. WorkerOK' /\ WorkerJob'
    BY <1>3 DEF MarkSent, WorkerStep, WorkerOK, Jobs, WorkerJob, Sending
  <2>4. QED
    BY <1>3, <2>2, <2>3, WorkerFrame, Unwritten DEF MarkSent, Jobs
<1>4. CASE MarkStuckUnknown(p)
  <2>1. wjob[p] \in Withdrawals
    BY <1>4 DEF MarkStuckUnknown, WorkerStep, Jobs, WorkerJob, Sending
  <2>2. DocsOK'
    BY <1>4, <2>1, MarkStuckType DEF MarkStuckUnknown
  <2>3. WorkerOK' /\ WorkerJob'
    BY <1>4 DEF MarkStuckUnknown, WorkerStep, WorkerOK, Jobs, WorkerJob, Sending
  <2>4. QED
    BY <1>4, <2>2, <2>3, WorkerFrame, Unwritten DEF MarkStuckUnknown, Jobs
<1>5. CASE RetryOrRefund(p)
  <2>1. wjob[p] \in Withdrawals
    BY <1>5 DEF RetryOrRefund, MarkRetryState, WorkerStep, Jobs, WorkerJob, Sending
  <2>2. DocsOK'
    <3>1. PICK next \in {"failed", "queued"} :
            \/ /\ status' = [status EXCEPT ![wjob[p]] = next]
               /\ retries' = [retries EXCEPT ![wjob[p]] = @ + 1]
               /\ sentAt' = [sentAt EXCEPT ![wjob[p]] = FALSE]
            \/ UNCHANGED <<status, retries, sentAt>>
      BY <1>5 DEF RetryOrRefund, MarkRetryState
    <3>2. UNCHANGED <<createdDay, txHash>>
      BY <1>5 DEF RetryOrRefund, MarkRetryState
    <3>3. status' \in [Withdrawals -> Statuses]
      BY <2>1, <3>1 DEF DocsOK, Statuses
    <3>4. retries' \in [Withdrawals -> Nat]
      BY <2>1, <3>1 DEF DocsOK
    <3>5. sentAt' \in [Withdrawals -> BOOLEAN]
      BY <2>1, <3>1 DEF DocsOK
    <3>6. QED
      BY <3>2, <3>3, <3>4, <3>5 DEF DocsOK
  <2>3. LedgerOK'
    <3>1. RefundLedger(wjob[p]) \/ UNCHANGED ledgerVars
      BY <1>5 DEF RetryOrRefund, MarkRetryState
    <3>2. QED
      BY <2>1, <3>1, RefundLedgerType, Unwritten
  <2>4. WorkerOK' /\ WorkerJob'
    BY <1>5 DEF RetryOrRefund, MarkRetryState, WorkerStep, WorkerOK, Jobs, WorkerJob, Sending
  <2>5. QED
    BY <1>5, <2>2, <2>3, <2>4, WorkerFrame, Unwritten DEF RetryOrRefund, MarkRetryState, Jobs
<1>6. CASE \/ StartSend(p) \/ ClaimNothing(p) \/ ReadSeqno(p) \/ PreSendFails(p)
           \/ SeqnoAdvanced(p) \/ SeqnoTimeout(p) \/ PostSendFails(p)
           \/ PostSendDone(p) \/ OutcomeNotWritten(p) \/ FinishSend(p)
  <2>1. UNCHANGED docVars /\ UNCHANGED ledgerVars /\ UNCHANGED chainVars
    BY <1>6 DEF StartSend, ClaimNothing, ReadSeqno, PreSendFails, SeqnoAdvanced,
                SeqnoTimeout, PostSendFails, PostSendDone, OutcomeNotWritten, FinishSend
  <2>2. WorkerOK'
    BY <1>6 DEF WorkerOK, ChainOK, Job, WorkerStep, StartSend, ClaimNothing, ReadSeqno,
                PreSendFails, SeqnoAdvanced, SeqnoTimeout, PostSendFails, PostSendDone,
                OutcomeNotWritten, FinishSend
  <2>3. WorkerJob'
    BY <1>6 DEF WorkerOK, Jobs, WorkerJob, Sending, WorkerStep, StartSend, ClaimNothing,
                ReadSeqno, PreSendFails, SeqnoAdvanced, SeqnoTimeout, PostSendFails,
                PostSendDone, OutcomeNotWritten, FinishSend
  <2>4. QED
    BY <2>1, <2>2, <2>3, WorkerFrame, Unwritten DEF Jobs
<1>7. QED
  BY <1>1, <1>2, <1>3, <1>4, <1>5, <1>6 DEF WorkerNext

(* The chain: a transfer that was found stays found.                       *)
LEMMA ChainTyped ==
    ASSUME Typed, ChainNext
    PROVE  Typed'
<1> USE DEF Typed, TypeOK, ChainOnly, ChainOK
<1>1. /\ ChainOK' /\ indexed \subseteq indexed'
      /\ UNCHANGED <<docVars, ledgerVars, procVars, pastVars>>
  <2>1. CASE \E m \in inflight : AcceptMessage(m)
    BY <2>1 DEF AcceptMessage
  <2>2. CASE \E m \in inflight : DropMessage(m)
    BY <2>2 DEF DropMessage
  <2>3. CASE \E m \in executed : IndexTransfer(m)
    BY <2>3 DEF IndexTransfer
  <2>4. QED
    BY <2>1, <2>2, <2>3 DEF ChainNext
<1>2. UNCHANGED workerVars /\ UNCHANGED taskVars
  BY <1>1 DEF procVars, workerVars, taskVars
<1>3. SweepJob' /\ BootJob' /\ DeskJob'
  BY <1>1, <1>2 DEF Jobs, SweepJob, BootJob, DeskJob, LookupOK, RequestOK, FoundFor, taskVars
<1>4. QED
  BY <1>1, <1>2, <1>3, Unwritten DEF Jobs

(* The sweep: a document it confirms or gives up is one it looked up.      *)
LEMMA SweepTyped ==
    ASSUME Typed, NEW p \in Procs, SweepActions(p)
    PROVE  Typed'
<1> USE DEF Typed, TypeOK
<1>1. UNCHANGED <<chainVars, workerVars, lock, boot, desk, crashes, pastVars, indexed>>
  BY DEF SweepActions, SweepStart, SweepAborts, SweepLookup, SweepConfirm, SweepExpire,
         SweepSkip, SweepOnly, chainVars
<1>2. ProcOK' /\ SweepJob'
  <2> DEFINE task == sweep[p]
             next == sweep'[p]
  <2>1. task \in SweepTask /\ sweep \in [Procs -> SweepTask]
    BY DEF ProcOK
  <2>2. IdleSweep \in SweepTask /\ LookupOK(IdleSweep)
    BY DEF IdleSweep, SweepTask, LookupOK, Job, Message
  <2>3. sweep' = [sweep EXCEPT ![p] = next] /\ next \in SweepTask /\ LookupOK(next)
    <3>1. CASE SweepStart(p)
      <4>1. next = [IdleSweep EXCEPT !.pc = "scan", !.todo = Pending,
                                     !.wasSent = {w \in Pending : status[w] = "sent"}]
        BY <2>1, <3>1 DEF SweepStart
      <4>2. next \in SweepTask /\ LookupOK(next)
        BY <4>1 DEF IdleSweep, SweepTask, LookupOK, Pending, Job, Message
      <4>3. QED
        BY <3>1, <4>1, <4>2 DEF SweepStart
    <3>2. CASE SweepAborts(p)
      BY <2>1, <2>2, <3>2 DEF SweepAborts
    <3>3. ASSUME NEW w \in Withdrawals, SweepLookup(p, w)
          PROVE  sweep' = [sweep EXCEPT ![p] = next] /\ next \in SweepTask /\ LookupOK(next)
      <4>1. Transfer(w) # NoMsg => Transfer(w) \in indexed /\ Transfer(w).w = w
        BY TransferType
      <4>2. Transfer(w) \in Message
        BY <4>1 DEF ChainOK, Message
      <4> DEFINE pc == IF Transfer(w) = NoMsg THEN "missing" ELSE "found"
                 new == [task EXCEPT !.pc = pc, !.todo = task.todo \ {w}, !.job = w,
                                     !.found = Transfer(w)]
      <4>3. sweep' = [sweep EXCEPT ![p] = new]
        BY <3>3 DEF SweepLookup
      <4>4. pc \in {"found", "missing"} /\ (pc = "found" => Transfer(w) # NoMsg)
        OBVIOUS
      <4> HIDE DEF pc
      <4>5. new \in SweepTask /\ LookupOK(new)
        BY <2>1, <4>1, <4>2, <4>4 DEF SweepTask, LookupOK, FoundFor, Job
      <4> HIDE DEF new
      <4>6. QED
        BY <2>1, <4>3, <4>5
    <3>4. CASE SweepConfirm(p) \/ SweepExpire(p) \/ SweepSkip(p)
      <4>1. SweepNext(p)
        BY <3>4 DEF SweepConfirm, SweepExpire, SweepSkip
      <4>2. next = IF task.todo = {} THEN IdleSweep
                   ELSE [task EXCEPT !.pc = "scan", !.job = NoJob, !.found = NoMsg]
        BY <2>1, <4>1 DEF SweepNext
      <4>3. next \in SweepTask /\ LookupOK(next)
        BY <2>1, <2>2, <4>2 DEF SweepTask, LookupOK, Job, Message
      <4>4. QED
        BY <4>1, <4>2, <4>3 DEF SweepNext
    <3>5. QED
      BY <3>1, <3>2, <3>3, <3>4 DEF SweepActions
  <2>4. QED
    BY <1>1, <2>1, <2>3 DEF ProcOK, Jobs, SweepJob, LookupOK, FoundFor
<1>3. DocsOK' /\ LedgerOK'
  <2>1. CASE SweepConfirm(p)
    <3>1. sweep[p].job \in Withdrawals /\ sweep[p].found \in Msg
      BY <2>1 DEF SweepConfirm, Jobs, SweepJob, LookupOK, FoundFor, ChainOK
    <3>2. QED
      BY <2>1, <3>1, ConfirmType DEF SweepConfirm
  <2>2. CASE SweepExpire(p)
    <3>1. sweep[p].job \in Withdrawals
      BY <2>2 DEF SweepExpire, Jobs, SweepJob, LookupOK
    <3>2. QED
      BY <2>2, <3>1, MarkStuckType, Unwritten DEF SweepExpire
  <2>3. CASE UNCHANGED docVars /\ UNCHANGED ledgerVars
    BY <2>3, Unwritten
  <2>4. QED
    BY <2>1, <2>2, <2>3 DEF SweepActions, SweepStart, SweepAborts, SweepLookup, SweepSkip
<1>4. QED
  BY <1>1, <1>2, <1>3, Unwritten DEF Jobs

(* The recovery at startup, likewise.                                      *)
LEMMA BootTyped ==
    ASSUME Typed, NEW p \in Procs, BootActions(p)
    PROVE  Typed'
<1> USE DEF Typed, TypeOK
<1>1. UNCHANGED <<chainVars, workerVars, lock, sweep, desk, crashes, pastVars, indexed>>
  BY DEF BootActions, RecoverStart, RecoverLookup, RecoverConfirm, RecoverConfirmFails,
         RecoverMarkStuck, RecoverAborts, BootOnly, chainVars
<1>2. ProcOK' /\ BootJob'
  <2> DEFINE task == boot[p]
             next == boot'[p]
  <2>1. task \in BootTask /\ boot \in [Procs -> BootTask]
    BY DEF ProcOK
  <2>2. Booted \in BootTask /\ LookupOK(Booted)
    BY DEF Booted, FreshBoot, BootTask, LookupOK, Job, Message
  <2>3. boot' = [boot EXCEPT ![p] = next] /\ next \in BootTask /\ LookupOK(next)
    <3>1. CASE RecoverStart(p)
      <4>1. PICK old \in SUBSET Stale :
              boot' = [boot EXCEPT ![p] = IF old = {} THEN Booted
                                          ELSE [FreshBoot EXCEPT !.pc = "scan", !.todo = old]]
        BY <3>1 DEF RecoverStart
      <4>2. next = IF old = {} THEN Booted
                   ELSE [FreshBoot EXCEPT !.pc = "scan", !.todo = old]
        BY <2>1, <4>1
      <4>3. old \subseteq Withdrawals
        BY DEF Stale
      <4>4. next \in BootTask /\ LookupOK(next)
        BY <2>2, <4>2, <4>3 DEF FreshBoot, BootTask, LookupOK, Job, Message
      <4>5. QED
        BY <4>1, <4>2, <4>4
    <3>2. CASE RecoverLookup(p)
      <4>1. PICK w \in boot[p].todo : \E f \in {Transfer(w), NoMsg} :
              boot' = [boot EXCEPT ![p] =
                         [@ EXCEPT !.pc = IF f = NoMsg THEN "missing" ELSE "found",
                                   !.todo = boot[p].todo \ {w}, !.job = w, !.found = f]]
        BY <3>2 DEF RecoverLookup
      <4>2. PICK f \in {Transfer(w), NoMsg} :
              boot' = [boot EXCEPT ![p] =
                         [@ EXCEPT !.pc = IF f = NoMsg THEN "missing" ELSE "found",
                                   !.todo = boot[p].todo \ {w}, !.job = w, !.found = f]]
        BY <4>1
      <4> DEFINE pc == IF f = NoMsg THEN "missing" ELSE "found"
                 new == [task EXCEPT !.pc = pc, !.todo = boot[p].todo \ {w}, !.job = w,
                                     !.found = f]
      <4>3. boot' = [boot EXCEPT ![p] = new]
        BY <4>2
      <4>4. w \in Withdrawals
        BY <2>1 DEF BootTask
      <4>5. f # NoMsg => f \in indexed /\ f.w = w
        BY <4>4, TransferType
      <4>6. f \in Message
        BY <4>5 DEF ChainOK, Message
      <4>7. pc \in {"found", "missing"} /\ (pc = "found" => f # NoMsg)
        OBVIOUS
      <4> HIDE DEF pc
      <4>8. new \in BootTask /\ LookupOK(new)
        BY <2>1, <4>4, <4>5, <4>6, <4>7 DEF BootTask, LookupOK, FoundFor, Job
      <4> HIDE DEF new
      <4>9. QED
        BY <2>1, <4>3, <4>8
    <3>3. CASE RecoverConfirm(p) \/ RecoverConfirmFails(p) \/ RecoverMarkStuck(p)
      <4>1. RecoverNext(p)
        BY <3>3 DEF RecoverConfirm, RecoverConfirmFails, RecoverMarkStuck
      <4>2. next = IF task.todo = {} THEN Booted
                   ELSE [task EXCEPT !.pc = "scan", !.job = NoJob, !.found = NoMsg]
        BY <2>1, <4>1 DEF RecoverNext
      <4>3. next \in BootTask /\ LookupOK(next)
        BY <2>1, <2>2, <4>2 DEF BootTask, LookupOK, Job, Message
      <4>4. QED
        BY <4>1, <4>2, <4>3 DEF RecoverNext
    <3>4. CASE RecoverAborts(p)
      BY <2>1, <2>2, <3>4 DEF RecoverAborts
    <3>5. QED
      BY <3>1, <3>2, <3>3, <3>4 DEF BootActions
  <2>4. QED
    BY <1>1, <2>1, <2>3 DEF ProcOK, Jobs, BootJob, LookupOK, FoundFor
<1>3. DocsOK' /\ LedgerOK'
  <2>1. CASE RecoverConfirm(p)
    <3>1. boot[p].job \in Withdrawals /\ boot[p].found \in Msg
      BY <2>1 DEF RecoverConfirm, Jobs, BootJob, LookupOK, FoundFor, ChainOK
    <3>2. QED
      BY <2>1, <3>1, ConfirmType DEF RecoverConfirm
  <2>2. CASE RecoverMarkStuck(p)
    <3>1. boot[p].job \in Withdrawals
      BY <2>2 DEF RecoverMarkStuck, Jobs, BootJob, LookupOK
    <3>2. QED
      BY <2>2, <3>1, MarkStuckType, Unwritten DEF RecoverMarkStuck
  <2>3. CASE UNCHANGED docVars /\ UNCHANGED ledgerVars
    BY <2>3, Unwritten
  <2>4. QED
    BY <2>1, <2>2, <2>3 DEF BootActions, RecoverStart, RecoverLookup,
                            RecoverConfirmFails, RecoverAborts
<1>4. QED
  BY <1>1, <1>2, <1>3, Unwritten DEF Jobs

(* The operators' requests, likewise.                                      *)
LEMMA DeskTyped ==
    ASSUME Typed, NEW a \in Admins, DeskActions(a)
    PROVE  Typed'
<1> USE DEF Typed, TypeOK
<1>1. UNCHANGED <<chainVars, workerVars, lock, sweep, boot, crashes, today, reservedDay,
                  indexed>>
  BY DEF DeskActions, DeskOpen, DeskLookup, DeskGivesUp, DeskRefund, DeskConfirm, DeskOnly,
         chainVars
<1>2. ProcOK' /\ DeskJob'
  <2> DEFINE task == desk[a]
             next == desk'[a]
  <2>1. task \in DeskTask /\ desk \in [Admins -> DeskTask]
    BY DEF ProcOK
  <2>2. IdleDesk \in DeskTask /\ RequestOK(IdleDesk)
    BY DEF IdleDesk, DeskTask, RequestOK, Job, Message
  <2>3. desk' = [desk EXCEPT ![a] = next] /\ next \in DeskTask /\ RequestOK(next)
    <3>1. ASSUME NEW w \in Withdrawals, NEW action \in {"refund", "confirm"},
                 DeskOpen(a, w, action)
          PROVE  desk' = [desk EXCEPT ![a] = next] /\ next \in DeskTask /\ RequestOK(next)
      <4>1. next = [IdleDesk EXCEPT !.pc = "check", !.action = action, !.job = w]
        BY <2>1, <3>1 DEF DeskOpen
      <4>2. next \in DeskTask /\ RequestOK(next)
        BY <4>1 DEF IdleDesk, DeskTask, RequestOK, Job, Message
      <4>3. QED
        BY <3>1, <4>1, <4>2 DEF DeskOpen
    <3>2. CASE DeskLookup(a)
      <4> DEFINE f == Transfer(task.job)
      <4>1. task.job \in Withdrawals
        BY <3>2 DEF DeskLookup, Jobs, DeskJob, RequestOK
      <4>2. f # NoMsg => f \in indexed /\ f.w = task.job
        BY <4>1, TransferType
      <4>3. f \in Message
        BY <4>2 DEF ChainOK, Message
      <4>4. /\ next = IF Allowed(task.action, f)
                      THEN [task EXCEPT !.pc = "commit", !.found = f] ELSE IdleDesk
            /\ desk' = [desk EXCEPT ![a] = next]
        BY <2>1, <3>2 DEF DeskLookup
      <4>5. next \in DeskTask /\ RequestOK(next)
        BY <2>1, <2>2, <4>1, <4>2, <4>3, <4>4 DEF Allowed, DeskTask, RequestOK, FoundFor
      <4>6. QED
        BY <4>4, <4>5
    <3>3. CASE DeskGivesUp(a) \/ DeskRefund(a) \/ DeskConfirm(a)
      BY <2>1, <2>2, <3>3 DEF DeskGivesUp, DeskRefund, DeskConfirm
    <3>4. QED
      BY <3>1, <3>2, <3>3 DEF DeskActions
  <2>4. QED
    BY <1>1, <2>1, <2>3 DEF ProcOK, Jobs, DeskJob, RequestOK, FoundFor
<1>3. DocsOK' /\ LedgerOK'
  <2>1. CASE DeskRefund(a)
    <3>1. desk[a].job \in Withdrawals
      BY <2>1 DEF DeskRefund, Jobs, DeskJob, RequestOK
    <3>2. DocsOK'
      BY <2>1, <3>1 DEF DeskRefund, DocsOK, Statuses
    <3>3. RefundLedger(desk[a].job) \/ UNCHANGED ledgerVars
      BY <2>1 DEF DeskRefund
    <3>4. QED
      BY <3>1, <3>2, <3>3, RefundLedgerType, Unwritten
  <2>2. CASE DeskConfirm(a)
    <3>1. desk[a].job \in Withdrawals /\ desk[a].found \in Msg
      BY <2>2 DEF DeskConfirm, Jobs, DeskJob, RequestOK, FoundFor, ChainOK
    <3>2. QED
      BY <2>2, <3>1, ConfirmType DEF DeskConfirm
  <2>3. CASE UNCHANGED docVars /\ UNCHANGED ledgerVars
    BY <2>3, Unwritten
  <2>4. QED
    BY <2>1, <2>2, <2>3 DEF DeskActions, DeskOpen, DeskLookup, DeskGivesUp
<1>4. early' \subseteq Withdrawals
  BY DEF PastOK, Jobs, DeskJob, RequestOK, DeskActions, DeskOpen, DeskLookup, DeskGivesUp, DeskRefund,
         DeskConfirm
<1>5. PastOK'
  BY <1>1, <1>4 DEF PastOK
<1>6. QED
  BY <1>1, <1>2, <1>3, <1>5, Unwritten DEF Jobs

(* What every step preserves.                                              *)
LEMMA StepTyped == Typed /\ [Next]_vars => Typed'
<1> SUFFICES ASSUME Typed, [Next]_vars PROVE Typed'
  OBVIOUS
<1>1. CASE UNCHANGED vars
  BY <1>1, Unwritten DEF vars, procVars, workerVars, taskVars, chainVars, Typed, TypeOK, Jobs
<1>2. CASE NextDay
  <2>1. PastOK'
    BY <1>2, ConstantsAssumption DEF NextDay, Typed, TypeOK, PastOK, Days
  <2>2. QED
    BY <1>2, <2>1, Unwritten
       DEF NextDay, procVars, workerVars, taskVars, chainVars, Typed, TypeOK, Jobs
<1>3. ASSUME NEW p \in Procs, Crash(p)
      PROVE  Typed'
  <2>1. WorkerOK' /\ ProcOK'
    BY <1>3 DEF Crash, Typed, TypeOK, WorkerOK, ProcOK, SweepTask, BootTask, Job, Message,
                IdleSweep, FreshBoot
  <2>2. WorkerJob' /\ SweepJob' /\ BootJob' /\ DeskJob'
    BY <1>3 DEF Crash, Typed, TypeOK, WorkerOK, ProcOK, Jobs, WorkerJob, SweepJob, BootJob,
                DeskJob, LookupOK, RequestOK, Sending, FoundFor, IdleSweep, FreshBoot, chainVars
  <2>3. QED
    BY <1>3, <2>1, <2>2, Unwritten DEF Crash, Typed, TypeOK, Jobs
<1>4. CASE LockExpires
  <2>1. ProcOK'
    BY <1>4 DEF LockExpires, Typed, TypeOK, ProcOK
  <2>2. QED
    BY <1>4, <2>1, Unwritten DEF LockExpires, chainVars, Typed, TypeOK, Jobs
<1>5. QED
  BY <1>1, <1>2, <1>3, <1>4, RequestTyped, WorkerTyped, SweepTyped, BootTyped, DeskTyped,
     ChainTyped DEF Next

(* In every behaviour of the pipeline, for any number of withdrawals,      *)
(* users, processes and operators, with or without the lock and with calls *)
(* that fail, the documents, ledgers and process records are well formed   *)
(* and no balance is negative.                                             *)
THEOREM TypeCorrect == Spec => []TypeOK
<1>1. Init => Typed
  BY InitType DEF Typed
<1>2. Typed => TypeOK
  BY DEF Typed
<1>3. QED
  BY <1>1, <1>2, StepTyped, PTL DEF Spec

-----------------------------------------------------------------------------
(***************************************************************************)
(* One message, one worker, one outcome.                                   *)
(***************************************************************************)

Past == {"sent", "stuck", "confirmed", "failed"}

Unclaimed == {"none", "queued"}

(* Process p has claimed a withdrawal and not yet signed a message.        *)
Claimed(p) == wpc[p] \in {"claimed", "signing", "unsent"}

UnsentClaims ==
    \A p \in Procs : Claimed(p) => status[wjob[p]] = "processing" /\ ~HasMessage(wjob[p])

SendingLeft == \A p \in Procs : Sending(p) => status[wjob[p]] \notin Unclaimed

QueuedIsUnsent == \A w \in Withdrawals : status[w] \in Unclaimed => ~HasMessage(w)

StuckWasSent == \A w \in Withdrawals : status[w] = "stuck" => sentAt[w]

WorkerSafe ==
    /\ ClaimIsExclusive /\ UnsentClaims /\ SendingLeft
    /\ QueuedIsUnsent /\ StuckWasSent /\ AutomaticRefundIsSafe /\ AtMostOneTransfer

InHand(task) == {w \in Withdrawals : w \in task.todo \/ w = task.job}

SweepPast == \A p \in Procs : \A w \in InHand(sweep[p]) : status[w] \in Past

BootPast ==
    \A p \in Procs : \A w \in InHand(boot[p]) :
       status[w] \notin Unclaimed /\ \A q \in Procs : wjob[q] # w

DeskPast == \A a \in Admins : desk[a].job \in Withdrawals => status[desk[a].job] \in Past

Safe == WorkerSafe /\ SweepPast /\ BootPast /\ DeskPast

(* At the start nothing is claimed, sent or in hand.                       *)
LEMMA InitSafe == Init => Safe
<1> SUFFICES ASSUME Init PROVE Safe
  OBVIOUS
<1>1. WorkerSafe
  BY DEF Init, WorkerSafe, ClaimIsExclusive, UnsentClaims, SendingLeft, QueuedIsUnsent,
         StuckWasSent, AutomaticRefundIsSafe, AtMostOneTransfer, HasMessage, Sending, Claimed
<1>2. SweepPast /\ BootPast /\ DeskPast
  BY ConstantsAssumption
     DEF Init, SweepPast, BootPast, DeskPast, InHand, IdleSweep, IdleDesk, Booted, FreshBoot
<1>3. QED
  BY <1>1, <1>2 DEF Safe

-----------------------------------------------------------------------------
(* What the sweep, the recovery and the operators do to a document: leave  *)
(* it, or move one that no worker is still to send.                        *)
Untouched(w) == status'[w] = status[w] /\ sentAt'[w] = sentAt[w]

Judged(w) ==
    /\ Open(w)
    /\ \A q \in Procs : Claimed(q) => wjob[q] # w
    /\ status'[w] \in Past
    /\ sentAt[w] => sentAt'[w]
    /\ status'[w] \in {"stuck", "failed"} => sentAt'[w]

Judging == \A w \in Withdrawals : Untouched(w) \/ Judged(w)

(* Such a step takes no document back out of the hands of the others.      *)
LEMMA JudgingKeeps ==
    ASSUME Judging, NEW w \in Withdrawals
    PROVE  /\ status[w] \in Past => status'[w] \in Past
           /\ status[w] \notin Unclaimed => status'[w] \notin Unclaimed
           /\ status'[w] \in Unclaimed => status[w] \in Unclaimed
BY DEF Judging, Untouched, Judged, Past, Unclaimed, Open

(* What workers do between a claim and its outcome, sending aside: keep    *)
(* the withdrawal they have or drop it.                                    *)
Advancing ==
    \A q \in Procs :
       /\ Sending(q)' => Sending(q) /\ wjob'[q] = wjob[q]
       /\ Claimed(q)' => Claimed(q)
       /\ wjob'[q] \in {wjob[q], NoJob}

(* A step of no worker is one of them.                                     *)
LEMMA RestingAdvances == UNCHANGED workerVars => Advancing
BY DEF workerVars, Advancing, Sending, Claimed

(* Steps of both kinds keep what is known of workers and their messages.   *)
LEMMA JudgingSafe ==
    ASSUME Typed, WorkerSafe, Judging, Advancing, UNCHANGED broadcast
    PROVE  WorkerSafe'
<1> USE DEF WorkerSafe
<1>1. ClaimIsExclusive' /\ AtMostOneTransfer'
  <2>1. ASSUME NEW p \in Procs, NEW q \in Procs, Sending(p)', Sending(q)',
               wjob'[p] = wjob'[q]
        PROVE  p = q
    BY <2>1 DEF ClaimIsExclusive, Advancing
  <2>2. QED
    BY <2>1 DEF ClaimIsExclusive, AtMostOneTransfer
<1>2. \A w : HasMessage(w)' <=> HasMessage(w)
  BY DEF HasMessage
<1>3. UnsentClaims'
  <2> SUFFICES ASSUME NEW p \in Procs, Claimed(p)'
               PROVE  status'[wjob'[p]] = "processing" /\ ~HasMessage(wjob'[p])
    BY <1>2 DEF UnsentClaims
  <2>1. Claimed(p) /\ wjob'[p] = wjob[p] /\ wjob[p] \in Withdrawals
    BY DEF Advancing, Claimed, Sending, Typed, Jobs, WorkerJob
  <2>2. Untouched(wjob[p])
    BY <2>1 DEF Judging, Judged
  <2>3. QED
    BY <2>1, <2>2 DEF Untouched, UnsentClaims
<1>4. SendingLeft'
  <2> SUFFICES ASSUME NEW p \in Procs, Sending(p)'
               PROVE  status'[wjob'[p]] \notin Unclaimed
    BY DEF SendingLeft
  <2>1. Sending(p) /\ wjob'[p] = wjob[p] /\ wjob[p] \in Withdrawals
    BY DEF Advancing, Typed, Jobs, WorkerJob
  <2>2. QED
    BY <2>1, JudgingKeeps DEF SendingLeft
<1>5. QueuedIsUnsent'
  BY <1>2, JudgingKeeps DEF QueuedIsUnsent
<1>6. StuckWasSent'
  BY DEF StuckWasSent, Judging, Untouched, Judged
<1>7. AutomaticRefundIsSafe'
  BY <1>2 DEF AutomaticRefundIsSafe, Judging, Untouched, Judged
<1>8. QED
  BY <1>1, <1>3, <1>4, <1>5, <1>6, <1>7

(* And so do they with what the others have in hand.                       *)
LEMMA JudgingTasks ==
    ASSUME Judging, Advancing
    PROVE  /\ SweepPast /\ UNCHANGED sweep => SweepPast'
           /\ BootPast /\ UNCHANGED boot => BootPast'
           /\ DeskPast /\ UNCHANGED desk => DeskPast'
<1>1. SweepPast /\ UNCHANGED sweep => SweepPast'
  BY JudgingKeeps DEF SweepPast, InHand
<1>2. BootPast /\ UNCHANGED boot => BootPast'
  BY JudgingKeeps, ConstantsAssumption DEF BootPast, InHand, Advancing
<1>3. DeskPast /\ UNCHANGED desk => DeskPast'
  BY JudgingKeeps DEF DeskPast
<1>4. QED
  BY <1>1, <1>2, <1>3

(* markStuck judges a document no worker is still to send.                 *)
LEMMA MarkStuckJudges ==
    ASSUME Typed, NEW w \in Withdrawals, MarkStuck(w),
           \A q \in Procs : Claimed(q) => wjob[q] # w
    PROVE  Judging
BY DEF Typed, TypeOK, DocsOK, MarkStuck, Judging, Untouched, Judged, Past

(* So does the confirming transaction.                                     *)
LEMMA ConfirmJudges ==
    ASSUME Typed, NEW w \in Withdrawals, NEW m, ConfirmTransaction(w, m),
           \A q \in Procs : Claimed(q) => wjob[q] # w
    PROVE  Judging
BY DEF Typed, TypeOK, DocsOK, ConfirmTransaction, Judging, Untouched, Judged, Past

(* A withdrawal past processing is not one a worker is still to send.      *)
LEMMA PastIsNotClaimed ==
    ASSUME WorkerSafe, NEW w \in Withdrawals, status[w] \in Past
    PROVE  \A q \in Procs : Claimed(q) => wjob[q] # w
BY DEF WorkerSafe, UnsentClaims, Past

-----------------------------------------------------------------------------
(* One step of each group.  A sweep has in hand what it had, or documents  *)
(* found sent or stuck.                                                    *)
LEMMA SweepSafe ==
    ASSUME Typed, Safe, NEW p \in Procs, SweepActions(p)
    PROVE  Safe'
<1> USE DEF Safe
<1>1. /\ UNCHANGED <<workerVars, broadcast, boot, desk>>
      /\ sweep \in [Procs -> SweepTask]
  BY DEF SweepActions, SweepStart, SweepAborts, SweepLookup, SweepConfirm, SweepExpire,
         SweepSkip, SweepOnly, chainVars, Typed, TypeOK, ProcOK
<1>2. Judging
  <2>1. CASE SweepConfirm(p) \/ SweepExpire(p)
    <3> DEFINE w == sweep[p].job
    <3>1. w \in Withdrawals
      BY <2>1 DEF SweepConfirm, SweepExpire, Typed, Jobs, SweepJob, LookupOK
    <3>2. status[w] \in Past
      BY <3>1 DEF SweepPast, InHand
    <3>3. \A q \in Procs : Claimed(q) => wjob[q] # w
      BY <3>1, <3>2, PastIsNotClaimed
    <3>4. ConfirmTransaction(w, sweep[p].found) \/ MarkStuck(w)
      BY <2>1 DEF SweepConfirm, SweepExpire
    <3>5. QED
      BY <3>1, <3>3, <3>4, MarkStuckJudges, ConfirmJudges
  <2>2. CASE UNCHANGED docVars
    BY <2>2 DEF docVars, Judging, Untouched
  <2>3. QED
    BY <2>1, <2>2 DEF SweepActions, SweepStart, SweepAborts, SweepLookup, SweepSkip
<1>3. WorkerSafe'
  BY <1>1, <1>2, JudgingSafe, RestingAdvances
<1>4. SweepPast'
  <2>1. \A q \in Procs : q # p => sweep'[q] = sweep[q]
    BY <1>1 DEF SweepActions, SweepStart, SweepAborts, SweepLookup, SweepConfirm, SweepExpire,
                SweepSkip, SweepNext
  <2>2. InHand(sweep'[p]) \subseteq InHand(sweep[p]) \cup {w \in Withdrawals : status[w] \in Past}
    <3> USE ConstantsAssumption DEF InHand
    <3>1. CASE SweepStart(p)
      <4>1. sweep'[p].todo = Pending /\ sweep'[p].job = NoJob
        BY <1>1, <3>1 DEF SweepStart, IdleSweep
      <4>2. QED
        BY <4>1 DEF Pending, Past
    <3>2. CASE SweepAborts(p)
      BY <1>1, <3>2 DEF SweepAborts, IdleSweep
    <3>3. ASSUME NEW w \in Withdrawals, SweepLookup(p, w)
          PROVE  InHand(sweep'[p]) \subseteq InHand(sweep[p])
      <4>1. /\ sweep'[p].todo = sweep[p].todo \ {w}
            /\ sweep'[p].job = w
            /\ w \in sweep[p].todo
        BY <1>1, <3>3 DEF SweepLookup, SweepTask
      <4>2. QED
        BY <4>1
    <3>4. CASE SweepConfirm(p) \/ SweepExpire(p) \/ SweepSkip(p)
      <4>1. SweepNext(p)
        BY <3>4 DEF SweepConfirm, SweepExpire, SweepSkip
      <4>2. /\ sweep'[p].todo \subseteq sweep[p].todo
            /\ sweep'[p].job = NoJob
        BY <1>1, <4>1 DEF SweepNext, SweepTask, IdleSweep
      <4>3. QED
        BY <4>2
    <3>5. QED
      BY <3>1, <3>2, <3>3, <3>4 DEF SweepActions
  <2>3. \A q \in Procs : \A w \in InHand(sweep'[q]) : w \in Withdrawals /\ status[w] \in Past
    BY <2>1, <2>2 DEF SweepPast, InHand
  <2>4. QED
    BY <1>2, <2>3, JudgingKeeps DEF SweepPast, InHand
<1>5. BootPast'
  BY <1>1, <1>2, JudgingTasks, RestingAdvances
<1>6. DeskPast'
  BY <1>1, <1>2, JudgingTasks, RestingAdvances
<1>7. QED
  BY <1>3, <1>4, <1>5, <1>6

(* The recovery has in hand what it had, or claims no worker works on.     *)
LEMMA BootSafe ==
    ASSUME Typed, Safe, NEW p \in Procs, BootActions(p)
    PROVE  Safe'
<1> USE DEF Safe
<1>1. /\ UNCHANGED <<workerVars, broadcast, sweep, desk>>
      /\ boot \in [Procs -> BootTask]
  BY DEF BootActions, RecoverStart, RecoverLookup, RecoverConfirm, RecoverConfirmFails,
         RecoverMarkStuck, RecoverAborts, BootOnly, chainVars, Typed, TypeOK, ProcOK
<1>2. Judging
  <2>1. CASE RecoverConfirm(p) \/ RecoverMarkStuck(p)
    <3> DEFINE w == boot[p].job
    <3>1. w \in Withdrawals
      BY <2>1 DEF RecoverConfirm, RecoverMarkStuck, Typed, Jobs, BootJob, LookupOK
    <3>2. \A q \in Procs : Claimed(q) => wjob[q] # w
      BY <3>1 DEF BootPast, InHand
    <3>3. ConfirmTransaction(w, boot[p].found) \/ MarkStuck(w)
      BY <2>1 DEF RecoverConfirm, RecoverMarkStuck
    <3>4. QED
      BY <3>1, <3>2, <3>3, MarkStuckJudges, ConfirmJudges
  <2>2. CASE UNCHANGED docVars
    BY <2>2 DEF docVars, Judging, Untouched
  <2>3. QED
    BY <2>1, <2>2 DEF BootActions, RecoverStart, RecoverLookup, RecoverConfirmFails,
                      RecoverAborts
<1>3. WorkerSafe'
  BY <1>1, <1>2, JudgingSafe, RestingAdvances
<1>4. BootPast'
  <2>1. \A q \in Procs : q # p => boot'[q] = boot[q]
    BY <1>1 DEF BootActions, RecoverStart, RecoverLookup, RecoverConfirm, RecoverConfirmFails,
                RecoverMarkStuck, RecoverAborts, RecoverNext
  <2>2. InHand(boot'[p]) \subseteq InHand(boot[p]) \cup Stale
    <3> USE ConstantsAssumption DEF InHand, Booted, FreshBoot
    <3>1. CASE RecoverStart(p)
      <4>1. boot'[p].todo \subseteq Stale /\ boot'[p].job = NoJob
        BY <1>1, <3>1 DEF RecoverStart
      <4>2. QED
        BY <4>1
    <3>2. CASE RecoverLookup(p)
      <4>1. \E w \in boot[p].todo : /\ boot'[p].todo = boot[p].todo \ {w}
                                    /\ boot'[p].job = w
        BY <1>1, <3>2 DEF RecoverLookup, BootTask
      <4>2. QED
        BY <4>1
    <3>3. CASE RecoverConfirm(p) \/ RecoverConfirmFails(p) \/ RecoverMarkStuck(p)
      <4>1. RecoverNext(p)
        BY <3>3 DEF RecoverConfirm, RecoverConfirmFails, RecoverMarkStuck
      <4>2. /\ boot'[p].todo \subseteq boot[p].todo
            /\ boot'[p].job = NoJob
        BY <1>1, <4>1 DEF RecoverNext, BootTask
      <4>3. QED
        BY <4>2
    <3>4. CASE RecoverAborts(p)
      BY <1>1, <3>4 DEF RecoverAborts
    <3>5. QED
      BY <3>1, <3>2, <3>3, <3>4 DEF BootActions
  <2>3. \A q \in Procs : \A w \in InHand(boot'[q]) :
           w \in Withdrawals /\ status[w] \notin Unclaimed /\ \A r \in Procs : wjob[r] # w
    BY <2>1, <2>2 DEF BootPast, InHand, Stale, Unclaimed
  <2>4. QED
    BY <1>1, <1>2, <2>3, JudgingKeeps DEF BootPast, workerVars
<1>5. SweepPast'
  BY <1>1, <1>2, JudgingTasks, RestingAdvances
<1>6. DeskPast'
  BY <1>1, <1>2, JudgingTasks, RestingAdvances
<1>7. QED
  BY <1>3, <1>4, <1>5, <1>6

(* An operator's request is about a document found stuck.                  *)
LEMMA DeskSafe ==
    ASSUME Typed, Safe, NEW a \in Admins, DeskActions(a)
    PROVE  Safe'
<1> USE DEF Safe
<1>1. /\ UNCHANGED <<workerVars, broadcast, sweep, boot>>
      /\ desk \in [Admins -> DeskTask]
  BY DEF DeskActions, DeskOpen, DeskLookup, DeskGivesUp, DeskRefund, DeskConfirm, DeskOnly,
         chainVars, Typed, TypeOK, ProcOK
<1>2. Judging
  <2>1. CASE DeskConfirm(a)
    <3> DEFINE w == desk[a].job
    <3>1. w \in Withdrawals
      BY <2>1 DEF DeskConfirm, Typed, Jobs, DeskJob, RequestOK
    <3>2. \A q \in Procs : Claimed(q) => wjob[q] # w
      BY <3>1, PastIsNotClaimed DEF DeskPast
    <3>3. QED
      BY <2>1, <3>1, <3>2, ConfirmJudges DEF DeskConfirm
  <2>2. CASE DeskRefund(a)
    <3> DEFINE w == desk[a].job
    <3>1. w \in Withdrawals
      BY <2>2 DEF DeskRefund, Typed, Jobs, DeskJob, RequestOK
    <3>2. \A q \in Procs : Claimed(q) => wjob[q] # w
      BY <3>1, PastIsNotClaimed DEF DeskPast
    <3>3. Refundable(w) => sentAt[w]
      BY <3>1 DEF WorkerSafe, StuckWasSent, Refundable
    <3>4. QED
      BY <2>2, <3>1, <3>2, <3>3
         DEF DeskRefund, Refundable, Judging, Untouched, Judged, Open, Past, Typed, TypeOK,
             DocsOK
  <2>3. CASE UNCHANGED docVars
    BY <2>3 DEF docVars, Judging, Untouched
  <2>4. QED
    BY <2>1, <2>2, <2>3 DEF DeskActions, DeskOpen, DeskLookup, DeskGivesUp
<1>3. WorkerSafe'
  BY <1>1, <1>2, JudgingSafe, RestingAdvances
<1>4. DeskPast'
  <2>1. \A b \in Admins : b # a => desk'[b] = desk[b]
    BY <1>1 DEF DeskActions, DeskOpen, DeskLookup, DeskGivesUp, DeskRefund, DeskConfirm
  <2>2. desk'[a].job = desk[a].job \/ desk'[a].job = NoJob
           \/ (desk'[a].job \in Withdrawals /\ status[desk'[a].job] = "stuck")
    <3>1. ASSUME NEW w \in Withdrawals, NEW action \in {"refund", "confirm"},
                 DeskOpen(a, w, action)
          PROVE  desk'[a].job \in Withdrawals /\ status[desk'[a].job] = "stuck"
      BY <1>1, <3>1 DEF DeskOpen, IdleDesk
    <3>2. CASE DeskLookup(a)
      BY <1>1, <3>2 DEF DeskLookup, IdleDesk, DeskTask
    <3>3. CASE DeskGivesUp(a) \/ DeskRefund(a) \/ DeskConfirm(a)
      BY <1>1, <3>3 DEF DeskGivesUp, DeskRefund, DeskConfirm, IdleDesk
    <3>4. QED
      BY <3>1, <3>2, <3>3 DEF DeskActions
  <2>3. \A b \in Admins : desk'[b].job \in Withdrawals => status[desk'[b].job] \in Past
    BY <2>1, <2>2, ConstantsAssumption DEF DeskPast, Past
  <2>4. QED
    BY <1>2, <2>3, JudgingKeeps DEF DeskPast
<1>5. SweepPast'
  BY <1>1, <1>2, JudgingTasks, RestingAdvances
<1>6. BootPast'
  BY <1>1, <1>2, JudgingTasks, RestingAdvances
<1>7. QED
  BY <1>3, <1>4, <1>5, <1>6

(* A request adds a document nothing is known of.                          *)
LEMMA RequestSafe ==
    ASSUME Typed, Safe, NEW w \in Withdrawals,
           RequestWithdrawal(w) \/ RequestAcrossMidnight(w)
    PROVE  Safe'
<1>1. PICK d : CreateWithdrawal(w, d)
  BY DEF RequestWithdrawal, RequestAcrossMidnight
<1>2. /\ status[w] = "none" /\ status' = [status EXCEPT ![w] = "queued"]
      /\ UNCHANGED <<sentAt, broadcast, wpc, wjob, sweep, boot, desk>>
      /\ status \in [Withdrawals -> Statuses]
  BY <1>1 DEF CreateWithdrawal, chainVars, procVars, Typed, TypeOK, DocsOK
<1>3. \A v \in Withdrawals :
         /\ status[v] \notin Unclaimed => status'[v] = status[v]
         /\ status'[v] \in Unclaimed => status[v] \in Unclaimed
         /\ status'[v] \notin Unclaimed => status'[v] = status[v]
  BY <1>2 DEF Unclaimed
<1>4. \A v : HasMessage(v)' <=> HasMessage(v)
  BY <1>2 DEF HasMessage
<1>5. \A p \in Procs : /\ Sending(p)' <=> Sending(p)
                       /\ Claimed(p)' <=> Claimed(p)
                       /\ Sending(p) => wjob[p] \in Withdrawals
                       /\ Claimed(p) => Sending(p)
  BY <1>2 DEF Sending, Claimed, Typed, Jobs, WorkerJob
<1>6. WorkerSafe'
  <2> USE <1>2, <1>3, <1>4, <1>5 DEF Safe, WorkerSafe
  <2>1. ClaimIsExclusive' /\ AtMostOneTransfer'
    BY DEF ClaimIsExclusive, AtMostOneTransfer
  <2>2. UnsentClaims' /\ SendingLeft'
    BY DEF UnsentClaims, SendingLeft, Unclaimed
  <2>3. QueuedIsUnsent' /\ StuckWasSent' /\ AutomaticRefundIsSafe'
    BY DEF QueuedIsUnsent, StuckWasSent, AutomaticRefundIsSafe, Unclaimed
  <2>4. QED
    BY <2>1, <2>2, <2>3
<1>7. SweepPast' /\ BootPast' /\ DeskPast'
  BY <1>2, <1>3 DEF Safe, SweepPast, BootPast, DeskPast, InHand, Past, Unclaimed
<1>8. QED
  BY <1>6, <1>7 DEF Safe

(* The claim: the document was queued, so no other worker and nobody else  *)
(* has it, and nothing was sent for it.                                    *)
LEMMA ClaimSafe ==
    ASSUME Typed, Safe, NEW p \in Procs, ClaimNextQueued(p)
    PROVE  Safe'
<1>1. PICK w \in Claimable : /\ status' = [status EXCEPT ![w] = "processing"]
                             /\ wjob' = [wjob EXCEPT ![p] = w]
  BY DEF ClaimNextQueued
<1>2. /\ w \in Withdrawals /\ status[w] = "queued"
      /\ wpc[p] = "started" /\ wpc' = [wpc EXCEPT ![p] = "claimed"]
      /\ UNCHANGED <<sentAt, broadcast, sweep, boot, desk>>
      /\ status \in [Withdrawals -> Statuses]
      /\ wpc \in [Procs -> {"idle", "started", "claimed", "signing", "unsent", "polling",
                            "landed", "marked", "unknown", "release"}]
      /\ wjob \in [Procs -> Job]
  BY DEF Claimable, ClaimNextQueued, WorkerStep, WorkerOnly, chainVars, Typed, TypeOK, DocsOK,
         WorkerOK
<1>3. \A v : HasMessage(v)' <=> HasMessage(v)
  BY <1>2 DEF HasMessage
<1>4. /\ wjob'[p] = w /\ status'[w] = "processing"
      /\ \A q \in Procs : q # p => /\ wjob'[q] = wjob[q]
                                   /\ Sending(q)' <=> Sending(q)
                                   /\ Claimed(q)' <=> Claimed(q)
      /\ \A v \in Withdrawals : v # w => status'[v] = status[v]
  BY <1>1, <1>2 DEF Sending, Claimed
<1>5. /\ \A q \in Procs : Sending(q) => wjob[q] \in Withdrawals /\ wjob[q] # w
      /\ \A q \in Procs : Claimed(q) => Sending(q)
      /\ ~HasMessage(w)
  BY <1>2 DEF Safe, WorkerSafe, SendingLeft, QueuedIsUnsent, Unclaimed, Sending, Claimed,
              Typed, Jobs, WorkerJob
<1>6. WorkerSafe'
  <2> USE <1>2, <1>3, <1>4, <1>5 DEF Safe, WorkerSafe
  <2>1. ClaimIsExclusive' /\ AtMostOneTransfer'
    BY DEF ClaimIsExclusive, AtMostOneTransfer
  <2>2. UnsentClaims'
    BY DEF UnsentClaims
  <2>3. SendingLeft'
    BY DEF SendingLeft, Unclaimed
  <2>4. QueuedIsUnsent' /\ StuckWasSent' /\ AutomaticRefundIsSafe'
    BY DEF QueuedIsUnsent, StuckWasSent, AutomaticRefundIsSafe, Unclaimed
  <2>5. QED
    BY <2>1, <2>2, <2>3, <2>4
<1>7. SweepPast' /\ DeskPast'
  BY <1>2, <1>4 DEF Safe, SweepPast, DeskPast, InHand, Past
<1>8. BootPast'
  BY <1>2, <1>4 DEF Safe, BootPast, InHand, Unclaimed
<1>9. QED
  BY <1>6, <1>7, <1>8 DEF Safe

(* The send: it is the first for its withdrawal, by UnsentClaims.          *)
LEMMA SendSafe ==
    ASSUME Typed, Safe, NEW p \in Procs, SendTransfer(p)
    PROVE  Safe'
<1> DEFINE m == [w |-> wjob[p], seqno |-> wseq[p], try |-> wtry[p]]
<1>1. /\ broadcast' = broadcast \cup {m} /\ m.w = wjob[p]
      /\ wpc[p] = "signing" /\ wpc'[p] \in {"polling", "unknown"}
      /\ \A q \in Procs : q # p => wpc'[q] = wpc[q]
      /\ UNCHANGED <<status, sentAt, wjob, sweep, boot, desk>>
  BY DEF SendTransfer, AfterSend, WorkerOnly, docVars, Typed, TypeOK, WorkerOK
<1>2. /\ wjob[p] \in Withdrawals /\ status[wjob[p]] = "processing" /\ ~HasMessage(wjob[p])
      /\ \A q \in Procs : Sending(q) /\ q # p => wjob[q] # wjob[p]
  BY <1>1 DEF Safe, WorkerSafe, UnsentClaims, ClaimIsExclusive, Claimed, Sending, Typed, Jobs,
              WorkerJob
<1>3. \A w : HasMessage(w)' <=> (HasMessage(w) \/ w = wjob[p])
  BY <1>1 DEF HasMessage
<1>4. \A q \in Procs : /\ Sending(q)' <=> Sending(q)
                       /\ Claimed(q)' <=> (Claimed(q) /\ q # p)
                       /\ Claimed(q) => Sending(q)
  BY <1>1 DEF Sending, Claimed
<1>5. AtMostOneTransfer'
  BY <1>1, <1>2 DEF Safe, WorkerSafe, AtMostOneTransfer, HasMessage
<1>6. WorkerSafe'
  <2> USE <1>1, <1>2, <1>3, <1>4 DEF Safe, WorkerSafe
  <2>1. ClaimIsExclusive' /\ UnsentClaims' /\ SendingLeft'
    BY DEF ClaimIsExclusive, UnsentClaims, SendingLeft
  <2>2. QueuedIsUnsent' /\ StuckWasSent' /\ AutomaticRefundIsSafe'
    BY DEF QueuedIsUnsent, StuckWasSent, AutomaticRefundIsSafe, Unclaimed
  <2>3. QED
    BY <1>5, <2>1, <2>2
<1>7. SweepPast' /\ BootPast' /\ DeskPast'
  BY <1>1 DEF Safe, SweepPast, BootPast, DeskPast, InHand
<1>8. QED
  BY <1>6, <1>7 DEF Safe

(* A retry or an automatic refund: nothing was sent, again by UnsentClaims *)
(* and nobody else has the document.                                       *)
LEMMA RetrySafe ==
    ASSUME Typed, Safe, NEW p \in Procs, RetryOrRefund(p)
    PROVE  Safe'
<1> DEFINE w == wjob[p]
<1>1. /\ wpc[p] = "unsent" /\ wpc'[p] = "release"
      /\ \A q \in Procs : q # p => wpc'[q] = wpc[q]
      /\ UNCHANGED <<broadcast, wjob, sweep, boot, desk>>
  BY DEF RetryOrRefund, MarkRetryState, WorkerStep, WorkerOnly, chainVars, Typed, TypeOK, WorkerOK
<1>2. /\ w \in Withdrawals /\ status[w] = "processing" /\ ~HasMessage(w)
      /\ \A q \in Procs : Sending(q) /\ q # p => wjob[q] # w
  BY <1>1 DEF Safe, WorkerSafe, UnsentClaims, ClaimIsExclusive, Claimed, Sending, Typed, Jobs,
              WorkerJob
<1>3. /\ status'[w] \in {"failed", "queued"} \/ status'[w] = status[w]
      /\ status'[w] = "failed" => ~sentAt'[w]
      /\ \A v \in Withdrawals : v # w => status'[v] = status[v] /\ sentAt'[v] = sentAt[v]
  BY <1>2 DEF RetryOrRefund, MarkRetryState, Typed, TypeOK, DocsOK
<1>4. \A v : HasMessage(v)' <=> HasMessage(v)
  BY <1>1 DEF HasMessage
<1>5. \A q \in Procs : /\ Sending(q)' <=> (Sending(q) /\ q # p)
                       /\ Claimed(q)' <=> (Claimed(q) /\ q # p)
                       /\ Claimed(q) => Sending(q)
                       /\ Sending(q) => wjob[q] \in Withdrawals
  BY <1>1 DEF Sending, Claimed, Typed, Jobs, WorkerJob
<1>6. WorkerSafe'
  <2> USE <1>1, <1>2, <1>3, <1>4, <1>5 DEF Safe, WorkerSafe
  <2>1. ClaimIsExclusive' /\ AtMostOneTransfer'
    BY DEF ClaimIsExclusive, AtMostOneTransfer
  <2>2. UnsentClaims' /\ SendingLeft'
    BY DEF UnsentClaims, SendingLeft
  <2>3. QueuedIsUnsent' /\ StuckWasSent' /\ AutomaticRefundIsSafe'
    BY DEF QueuedIsUnsent, StuckWasSent, AutomaticRefundIsSafe, Unclaimed
  <2>4. QED
    BY <2>1, <2>2, <2>3
<1>7. SweepPast' /\ DeskPast'
  BY <1>1, <1>2, <1>3 DEF Safe, SweepPast, DeskPast, InHand, Past
<1>8. BootPast'
  BY <1>1, <1>2, <1>3 DEF Safe, BootPast, InHand
<1>9. QED
  BY <1>6, <1>7, <1>8 DEF Safe

(* Every other step of a worker: it writes the outcome of its own          *)
(* withdrawal, which it has sent, or only moves on.                        *)
LEMMA WorkerSafeStep ==
    ASSUME Typed, Safe, NEW p \in Procs, WorkerNext(p)
    PROVE  Safe'
<1>1. CASE ClaimNextQueued(p)
  BY <1>1, ClaimSafe
<1>2. CASE SendTransfer(p)
  BY <1>2, SendSafe
<1>3. CASE RetryOrRefund(p)
  BY <1>3, RetrySafe
<1>4. CASE MarkSent(p) \/ MarkStuckUnknown(p)
  <2> DEFINE w == wjob[p]
  <2>1. /\ wpc[p] \in {"landed", "unknown"} /\ wpc'[p] \in {"marked", "release"}
        /\ \A q \in Procs : q # p => wpc'[q] = wpc[q]
        /\ UNCHANGED <<wjob, broadcast, sweep, boot, desk>>
    BY <1>4 DEF MarkSent, MarkStuckUnknown, WorkerStep, WorkerOnly, chainVars, Typed, TypeOK,
                WorkerOK
  <2>2. w \in Withdrawals /\ \A q \in Procs : Claimed(q) => wjob[q] # w
    BY <2>1 DEF Safe, WorkerSafe, ClaimIsExclusive, Sending, Claimed, Typed, Jobs, WorkerJob
  <2>3. Judging
    <3>1. CASE MarkSent(p)
      BY <2>2, <3>1 DEF MarkSent, Judging, Untouched, Judged, Open, Past, Typed, TypeOK,
                        DocsOK
    <3>2. CASE MarkStuckUnknown(p)
      BY <2>2, <3>2, MarkStuckJudges DEF MarkStuckUnknown
    <3>3. QED
      BY <1>4, <3>1, <3>2
  <2>4. Advancing
    BY <2>1 DEF Advancing, Sending, Claimed
  <2>5. QED
    BY <2>1, <2>3, <2>4, JudgingSafe, JudgingTasks DEF Safe
<1>5. CASE \/ StartSend(p) \/ ClaimNothing(p) \/ ReadSeqno(p) \/ PreSendFails(p)
           \/ SeqnoAdvanced(p) \/ SeqnoTimeout(p) \/ PostSendFails(p)
           \/ PostSendDone(p) \/ OutcomeNotWritten(p) \/ FinishSend(p)
  <2>1. /\ UNCHANGED <<docVars, broadcast, sweep, boot, desk>>
        /\ UNCHANGED wjob \/ (wjob' = [wjob EXCEPT ![p] = NoJob] /\ wpc'[p] = "idle")
        /\ \A q \in Procs : q # p => wpc'[q] = wpc[q]
        /\ wjob \in [Procs -> Job]
    BY <1>5 DEF StartSend, ClaimNothing, ReadSeqno, PreSendFails, SeqnoAdvanced, SeqnoTimeout,
                PostSendFails, PostSendDone, OutcomeNotWritten, FinishSend, WorkerStep,
                WorkerOnly, chainVars, Typed, TypeOK, WorkerOK
  <2>2. /\ Sending(p)' => Sending(p)
        /\ Claimed(p)' => Claimed(p)
    BY <1>5 DEF StartSend, ClaimNothing, ReadSeqno, PreSendFails, SeqnoAdvanced, SeqnoTimeout,
                PostSendFails, PostSendDone, OutcomeNotWritten, FinishSend, WorkerStep,
                Sending, Claimed, Typed, TypeOK, WorkerOK
  <2>3. Judging
    BY <2>1 DEF Judging, Untouched, docVars
  <2>4. Advancing
    BY <2>1, <2>2 DEF Advancing, Sending, Claimed
  <2>5. QED
    BY <2>1, <2>3, <2>4, JudgingSafe, JudgingTasks DEF Safe
<1>6. QED
  BY <1>1, <1>2, <1>3, <1>4, <1>5 DEF WorkerNext

(* A crash: the process forgets what it had in hand.                       *)
LEMMA CrashSafe ==
    ASSUME Typed, Safe, NEW p \in Procs, Crash(p)
    PROVE  Safe'
<1>1. /\ UNCHANGED <<docVars, broadcast, desk>>
      /\ wpc' = [wpc EXCEPT ![p] = "idle"] /\ wjob' = [wjob EXCEPT ![p] = NoJob]
      /\ sweep' = [sweep EXCEPT ![p] = IdleSweep] /\ boot' = [boot EXCEPT ![p] = FreshBoot]
      /\ wpc \in [Procs -> {"idle", "started", "claimed", "signing", "unsent", "polling",
                            "landed", "marked", "unknown", "release"}]
      /\ wjob \in [Procs -> Job]
      /\ sweep \in [Procs -> SweepTask] /\ boot \in [Procs -> BootTask]
  BY DEF Crash, chainVars, Typed, TypeOK, WorkerOK, ProcOK
<1>2. Judging
  BY <1>1 DEF Judging, Untouched, docVars
<1>3. Advancing
  BY <1>1 DEF Advancing, Sending, Claimed
<1>4. WorkerSafe' /\ DeskPast'
  BY <1>1, <1>2, <1>3, JudgingSafe, JudgingTasks DEF Safe
<1>5. /\ InHand(IdleSweep) = {} /\ InHand(FreshBoot) = {}
      /\ \A q \in Procs : sweep'[q] \in {sweep[q], IdleSweep} /\ boot'[q] \in {boot[q], FreshBoot}
  BY <1>1, ConstantsAssumption DEF InHand, IdleSweep, FreshBoot
<1>6. SweepPast' /\ BootPast'
  <2>1. \A q \in Procs : /\ \A w \in InHand(sweep'[q]) : w \in InHand(sweep[q])
                         /\ \A w \in InHand(boot'[q]) : w \in InHand(boot[q])
    BY <1>5
  <2>2. \A q \in Procs, w \in Withdrawals : wjob[q] # w => wjob'[q] # w
    BY <1>1, ConstantsAssumption
  <2>3. UNCHANGED status
    BY <1>1 DEF docVars
  <2>4. SweepPast'
    BY <2>1, <2>3 DEF Safe, SweepPast
  <2>5. \A w : InHand(boot[w]) \subseteq Withdrawals
    BY DEF InHand
  <2>6. BootPast'
    BY <2>1, <2>2, <2>3, <2>5 DEF Safe, BootPast
  <2>7. QED
    BY <2>4, <2>6
<1>7. QED
  BY <1>4, <1>6 DEF Safe

(* What every step preserves.                                              *)
LEMMA StepSafe == Typed /\ Safe /\ [Next]_vars => Safe'
<1> SUFFICES ASSUME Typed, Safe, [Next]_vars PROVE Safe'
  OBVIOUS
<1>1. CASE UNCHANGED vars \/ NextDay \/ LockExpires \/ ChainNext
  <2>1. UNCHANGED docVars /\ UNCHANGED workerVars /\ UNCHANGED <<broadcast, sweep, boot, desk>>
    BY <1>1 DEF vars, NextDay, LockExpires, ChainNext, AcceptMessage, DropMessage,
                IndexTransfer, ChainOnly, procVars, chainVars, workerVars
  <2>2. Judging
    BY <2>1 DEF Judging, Untouched, docVars
  <2>3. QED
    BY <2>1, <2>2, RestingAdvances, JudgingSafe, JudgingTasks DEF Safe
<1>2. QED
  BY <1>1, RequestSafe, WorkerSafeStep, SweepSafe, BootSafe, CrashSafe, DeskSafe DEF Next

(* Nothing below depends on how the invariant was found: it holds in every *)
(* reachable state.                                                        *)
THEOREM PipelineInvariant == Spec => [](Typed /\ Safe)
<1>1. Init => Typed /\ Safe
  BY InitType, InitSafe DEF Typed
<1>2. Typed /\ Safe /\ [Next]_vars => (Typed /\ Safe)'
  BY StepTyped, StepSafe
<1>3. QED
  BY <1>1, <1>2, PTL DEF Spec

(* Whatever claims, crashes, retries, lapsed locks and restarts there are, *)
(* the hot wallet signs one message for a withdrawal at most.              *)
THEOREM OneTransfer == Spec => []AtMostOneTransfer
<1>1. Typed /\ Safe => AtMostOneTransfer
  BY DEF Safe, WorkerSafe
<1>2. QED
  BY <1>1, PipelineInvariant, PTL

(* Two workers never work on one withdrawal, even without the lock.        *)
THEOREM ExclusiveClaim == Spec => []ClaimIsExclusive
<1>1. Typed /\ Safe => ClaimIsExclusive
  BY DEF Safe, WorkerSafe
<1>2. QED
  BY <1>1, PipelineInvariant, PTL

(* A withdrawal the worker refunds by itself has no message in the         *)
(* network: the automatic refund and the payment exclude each other.       *)
THEOREM SafeAutomaticRefund == Spec => []AutomaticRefundIsSafe
<1>1. Typed /\ Safe => AutomaticRefundIsSafe
  BY DEF Safe, WorkerSafe
<1>2. QED
  BY <1>1, PipelineInvariant, PTL

-----------------------------------------------------------------------------
(* What a step can do to the books: nothing but move held withdrawals on,  *)
(* or hold, settle or return one.                                          *)
Held == {"queued", "processing", "sent", "stuck"}

Shuffles ==
    /\ UNCHANGED <<balance, withdrawn, reserved, refunds, processed, txHash>>
    /\ \A w \in Withdrawals : \/ status'[w] = status[w]
                              \/ status[w] \in Held /\ status'[w] \in Held

Holds(w) == \E d : CreateWithdrawal(w, d) /\ (d = today \/ MidnightRace)

Settles(w) ==
    /\ Open(w)
    /\ status' = [status EXCEPT ![w] = "confirmed"]
    /\ \E m \in indexed :
         /\ m.w = w /\ m \notin processed
         /\ txHash' = [txHash EXCEPT ![w] = m]
         /\ processed' = processed \cup {m}
    /\ withdrawn' = Credit(withdrawn, w, 1)
    /\ UNCHANGED <<balance, reserved, refunds>>

Returns(w) ==
    /\ Open(w)
    /\ status' = [status EXCEPT ![w] = "failed"]
    /\ RefundLedger(w)
    /\ UNCHANGED txHash

Booking == Shuffles \/ \E w \in Withdrawals : Holds(w) \/ Settles(w) \/ Returns(w)

(* Writes of documents that no other table shares.                         *)
LEMMA MarkStuckShuffles ==
    ASSUME Typed, NEW w \in Withdrawals, MarkStuck(w), UNCHANGED ledgerVars
    PROVE  Shuffles
BY DEF MarkStuck, Open, Shuffles, Held, ledgerVars, Typed, TypeOK, DocsOK

(* The confirming transaction settles, or finds that it is too late.       *)
LEMMA ConfirmBooks ==
    ASSUME NEW w \in Withdrawals, NEW m \in indexed, m.w = w, ConfirmTransaction(w, m)
    PROVE  Shuffles \/ Settles(w)
<1>1. CASE Open(w) /\ m \notin processed
  BY <1>1 DEF ConfirmTransaction, Settles
<1>2. CASE ~(Open(w) /\ m \notin processed)
  BY <1>2 DEF ConfirmTransaction, Shuffles
<1>3. QED
  BY <1>1, <1>2

(* A step that writes neither documents nor ledgers.                       *)
LEMMA StillBooks == UNCHANGED docVars /\ UNCHANGED ledgerVars => Shuffles
BY DEF docVars, ledgerVars, Shuffles

(* Every step of the pipeline is one of those.                             *)
LEMMA StepBooks == Typed /\ [Next]_vars => Booking
<1> SUFFICES ASSUME Typed, [Next]_vars PROVE Booking
  OBVIOUS
<1> USE DEF Booking
<1>1. CASE UNCHANGED vars \/ NextDay \/ LockExpires \/ ChainNext
           \/ \E p \in Procs : Crash(p)
  BY <1>1, StillBooks
     DEF vars, NextDay, LockExpires, ChainNext, AcceptMessage, DropMessage, IndexTransfer,
         ChainOnly, Crash
<1>2. ASSUME NEW w \in Withdrawals, RequestWithdrawal(w) \/ RequestAcrossMidnight(w)
      PROVE  Booking
  BY <1>2 DEF RequestWithdrawal, RequestAcrossMidnight, Holds
<1>3. ASSUME NEW p \in Procs, WorkerNext(p)
      PROVE  Booking
  <2>1. CASE ClaimNextQueued(p)
    BY <2>1 DEF ClaimNextQueued, Claimable, Shuffles, Held, ledgerVars, Typed, TypeOK, DocsOK
  <2>2. CASE MarkSent(p)
    BY <2>2 DEF MarkSent, Shuffles, Held, ledgerVars, Typed, TypeOK, DocsOK
  <2>3. CASE MarkStuckUnknown(p)
    <3>1. wjob[p] \in Withdrawals
      BY <2>3 DEF MarkStuckUnknown, WorkerStep, Typed, Jobs, WorkerJob, Sending
    <3>2. QED
      BY <2>3, <3>1, MarkStuckShuffles DEF MarkStuckUnknown
  <2>4. CASE RetryOrRefund(p)
    <3> DEFINE w == wjob[p]
    <3>1. w \in Withdrawals
      BY <2>4 DEF RetryOrRefund, MarkRetryState, WorkerStep, Typed, Jobs, WorkerJob, Sending
    <3>2. \/ Returns(w)
          \/ /\ status[w] = "processing"
             /\ status' = [status EXCEPT ![w] = "queued"]
             /\ UNCHANGED ledgerVars /\ UNCHANGED txHash
          \/ UNCHANGED <<status, txHash>> /\ UNCHANGED ledgerVars
      BY <2>4 DEF RetryOrRefund, MarkRetryState, Returns, Open
    <3>3. QED
      BY <3>1, <3>2 DEF Shuffles, Held, ledgerVars, Typed, TypeOK, DocsOK
  <2>5. QED
    BY <1>3, <2>1, <2>2, <2>3, <2>4, StillBooks
       DEF WorkerNext, StartSend, ClaimNothing, ReadSeqno, PreSendFails, SendTransfer,
           SeqnoAdvanced, SeqnoTimeout, PostSendFails, PostSendDone, OutcomeNotWritten,
           FinishSend
<1>4. ASSUME NEW p \in Procs, SweepActions(p)
      PROVE  Booking
  <2>1. CASE SweepConfirm(p) \/ SweepExpire(p)
    <3>1. /\ sweep[p].job \in Withdrawals
          /\ SweepConfirm(p) => sweep[p].found \in indexed /\ sweep[p].found.w = sweep[p].job
      BY <2>1 DEF SweepConfirm, SweepExpire, Typed, Jobs, SweepJob, LookupOK, FoundFor
    <3>2. QED
      BY <2>1, <3>1, ConfirmBooks, MarkStuckShuffles DEF SweepConfirm, SweepExpire
  <2>2. QED
    BY <1>4, <2>1, StillBooks DEF SweepActions, SweepStart, SweepAborts, SweepLookup, SweepSkip
<1>5. ASSUME NEW p \in Procs, BootActions(p)
      PROVE  Booking
  <2>1. CASE RecoverConfirm(p) \/ RecoverMarkStuck(p)
    <3>1. /\ boot[p].job \in Withdrawals
          /\ RecoverConfirm(p) => boot[p].found \in indexed /\ boot[p].found.w = boot[p].job
      BY <2>1 DEF RecoverConfirm, RecoverMarkStuck, Typed, Jobs, BootJob, LookupOK, FoundFor
    <3>2. QED
      BY <2>1, <3>1, ConfirmBooks, MarkStuckShuffles DEF RecoverConfirm, RecoverMarkStuck
  <2>2. QED
    BY <1>5, <2>1, StillBooks DEF BootActions, RecoverStart, RecoverLookup,
                                  RecoverConfirmFails, RecoverAborts
<1>6. ASSUME NEW a \in Admins, DeskActions(a)
      PROVE  Booking
  <2>1. CASE DeskConfirm(a) \/ DeskRefund(a)
    <3>1. /\ desk[a].job \in Withdrawals
          /\ DeskConfirm(a) => desk[a].found \in indexed /\ desk[a].found.w = desk[a].job
      BY <2>1 DEF DeskConfirm, DeskRefund, Typed, Jobs, DeskJob, RequestOK, FoundFor
    <3>2. DeskRefund(a) => Returns(desk[a].job) \/ Shuffles
      BY DEF DeskRefund, Refundable, Returns, Open, Shuffles, ledgerVars
    <3>3. QED
      BY <2>1, <3>1, <3>2, ConfirmBooks DEF DeskConfirm
  <2>2. QED
    BY <1>6, <2>1, StillBooks DEF DeskActions, DeskOpen, DeskLookup, DeskGivesUp
<1>7. QED
  BY <1>1, <1>2, <1>3, <1>4, <1>5, <1>6 DEF Next

(* Once confirmed or failed, a withdrawal keeps its status, its transfer   *)
(* and its refund, whichever late step of whichever process comes.         *)
THEOREM FinalOutcomes == Spec => OutcomesAreFinal
<1> DEFINE Final == \A w \in Withdrawals :
                      status[w] \in {"confirmed", "failed"} =>
                         /\ status'[w] = status[w]
                         /\ txHash'[w] = txHash[w]
                         /\ refunds'[w] = refunds[w]
<1>1. ASSUME Typed, Booking PROVE Final
  <2>1. CASE Shuffles
    BY <2>1 DEF Shuffles, Held
  <2>2. ASSUME NEW v \in Withdrawals, Holds(v) PROVE Final
    BY <1>1, <2>2 DEF Holds, CreateWithdrawal, Typed, TypeOK, DocsOK
  <2>3. ASSUME NEW v \in Withdrawals, Settles(v) PROVE Final
    BY <1>1, <2>3 DEF Settles, Open, Typed, TypeOK, DocsOK
  <2>4. ASSUME NEW v \in Withdrawals, Returns(v) PROVE Final
    BY <1>1, <2>4 DEF Returns, RefundLedger, Open, Typed, TypeOK, DocsOK, LedgerOK
  <2>5. QED
    BY <1>1, <2>1, <2>2, <2>3, <2>4 DEF Booking
<1>2. Typed /\ Safe /\ [Next]_vars => [Final]_vars
  BY <1>1, StepBooks
<1>3. QED
  BY <1>2, PipelineInvariant, PTL DEF Spec, OutcomesAreFinal

-----------------------------------------------------------------------------
(* The refinement: what becomes of an amount, from the status.             *)
LEMMA FundOf ==
    ASSUME NEW w \in Withdrawals, status[w] \in Statuses
    PROVE  /\ status[w] = "none" => fund[w] = "none"
           /\ status[w] \in Held => fund[w] = "held"
           /\ status[w] = "confirmed" => fund[w] = "settled"
           /\ status[w] = "failed" => fund[w] = "returned"
BY DEF fund, Held, Statuses

(* The fund of one withdrawal changes with its status, the others stay.    *)
LEMMA FundChange ==
    ASSUME Typed, NEW w \in Withdrawals, NEW s \in Statuses,
           status' = [status EXCEPT ![w] = s], NEW f,
           \/ s \in Held /\ f = "held"
           \/ s = "confirmed" /\ f = "settled"
           \/ s = "failed" /\ f = "returned"
    PROVE  fund' = [fund EXCEPT ![w] = f]
<1>1. status \in [Withdrawals -> Statuses] /\ status' \in [Withdrawals -> Statuses]
  BY DEF Typed, TypeOK, DocsOK
<1>2. /\ fund = [v \in Withdrawals |-> fund[v]]
      /\ fund' = [v \in Withdrawals |-> fund'[v]]
  BY DEF fund
<1>3. \A v \in Withdrawals : v # w => fund'[v] = fund[v]
  BY <1>1 DEF fund
<1>4. fund'[w] = f
  BY <1>1 DEF fund, Held
<1>5. QED
  BY <1>2, <1>3, <1>4

(* Each kind of step is one of HeldFunds, or changes nothing there.        *)
LEMMA StepHolds == Typed /\ Booking => Funds!Next \/ UNCHANGED Funds!vars
<1> SUFFICES ASSUME Typed, Booking PROVE Funds!Next \/ UNCHANGED Funds!vars
  OBVIOUS
<1> USE DEF Funds!Next, Funds!vars
<1>1. CASE Shuffles
  <2>1. status \in [Withdrawals -> Statuses]
    BY DEF Typed, TypeOK, DocsOK
  <2>2. \A w \in Withdrawals : fund'[w] = fund[w]
    BY <1>1, <2>1 DEF Shuffles, Held, fund
  <2>3. fund' = fund
    BY <2>2 DEF fund
  <2>4. QED
    BY <1>1, <2>3 DEF Shuffles
<1>2. ASSUME NEW w \in Withdrawals, Holds(w) PROVE Funds!Hold(w)
  <2>1. PICK d : CreateWithdrawal(w, d)
    BY <1>2 DEF Holds
  <2>2. fund[w] = "none"
    BY <2>1 DEF CreateWithdrawal, fund
  <2>3. fund' = [fund EXCEPT ![w] = "held"]
    BY <2>1, FundChange DEF CreateWithdrawal, Statuses, Held
  <2>4. QED
    BY <2>1, <2>2, <2>3 DEF CreateWithdrawal, Covers, Credit, Funds!Hold, Funds!Credit
<1>3. ASSUME NEW w \in Withdrawals, Settles(w) PROVE Funds!Settle(w)
  <2>1. fund[w] = "held"
    BY <1>3 DEF Settles, Open, fund
  <2>2. fund' = [fund EXCEPT ![w] = "settled"]
    BY <1>3, FundChange DEF Settles, Statuses
  <2>3. QED
    BY <1>3, <2>1, <2>2 DEF Settles, Credit, Funds!Settle, Funds!Credit
<1>4. ASSUME NEW w \in Withdrawals, Returns(w) PROVE Funds!Return(w)
  <2>1. fund[w] = "held"
    BY <1>4 DEF Returns, Open, fund
  <2>2. fund' = [fund EXCEPT ![w] = "returned"]
    BY <1>4, FundChange DEF Returns, Statuses
  <2>3. QED
    BY <1>4, <2>1, <2>2 DEF Returns, RefundLedger, Credit, Funds!Return, Funds!Credit
<1>5. QED
  BY <1>1, <1>2, <1>3, <1>4 DEF Booking

(* The pipeline implements the account of held funds: every behaviour of   *)
(* it, seen through fund, balance and withdrawn, is one of HeldFunds.      *)
THEOREM PipelineHoldsFunds == Spec => HoldsFunds
<1>1. Init => Funds!Init
  BY DEF Init, Funds!Init, fund
<1>2. Typed /\ Safe /\ [Next]_vars => [Funds!Next]_(Funds!vars)
  BY StepBooks, StepHolds
<1>3. QED
  BY <1>1, <1>2, PipelineInvariant, PTL DEF Spec, HoldsFunds, Funds!Spec

(* However claims, crashes, lapsed locks and retries interleave, a          *)
(* withdrawal has one worker, one message at most, and none behind a refund *)
(* of the worker's (claimNextQueued, sendUsdtWithdrawal, the error paths).  *)
THEOREM OneMessageForEach == Spec => []OneMessage
  BY OneTransfer, ExclusiveClaim, SafeAutomaticRefund, PTL DEF OneMessage

-----------------------------------------------------------------------------
(* The ledgers: balances and totals agree with what is held and paid,      *)
(* refund rows with failed documents, and, when no request straddles       *)
(* midnight, a day's reservation with what was accepted on it.             *)

(* A step, with what it does to the days of the documents: only a request  *)
(* dates one.                                                              *)
dayVars == <<createdDay, reservedDay>>

DatedBooking ==
    \/ \E w \in Withdrawals : Holds(w)
    \/ /\ UNCHANGED dayVars
       /\ Shuffles \/ \E w \in Withdrawals : Settles(w) \/ Returns(w)

(* No step but a request writes createdAt or the day it is counted on.     *)
LEMMA StepDates ==
    ASSUME Typed, [Next]_vars
    PROVE  UNCHANGED dayVars \/ \E w \in Withdrawals : Holds(w)
<1> USE DEF dayVars
<1>1. CASE UNCHANGED vars \/ NextDay \/ LockExpires \/ ChainNext \/ \E p \in Procs : Crash(p)
  BY <1>1 DEF vars, NextDay, LockExpires, ChainNext, AcceptMessage, DropMessage,
              IndexTransfer, ChainOnly, Crash, docVars, pastVars
<1>2. ASSUME NEW w \in Withdrawals, RequestWithdrawal(w) \/ RequestAcrossMidnight(w)
      PROVE  Holds(w)
  BY <1>2 DEF RequestWithdrawal, RequestAcrossMidnight, Holds
<1>3. ASSUME NEW p \in Procs, WorkerNext(p)
      PROVE  UNCHANGED dayVars
  <2>1. UNCHANGED reservedDay
    BY <1>3, WorkerFrame DEF pastVars
  <2>2. UNCHANGED createdDay
    BY <1>3 DEF WorkerNext, StartSend, ClaimNextQueued, ClaimNothing, ReadSeqno, PreSendFails,
                SendTransfer, SeqnoAdvanced, SeqnoTimeout, MarkSent, PostSendFails,
                PostSendDone, MarkStuckUnknown, MarkStuck, RetryOrRefund, OutcomeNotWritten,
                FinishSend, docVars
  <2>3. QED
    BY <2>1, <2>2
<1>4. ASSUME NEW p \in Procs, SweepActions(p)
      PROVE  UNCHANGED dayVars
  BY <1>4 DEF SweepActions, SweepStart, SweepAborts, SweepLookup, SweepConfirm, SweepExpire,
              SweepSkip, ConfirmTransaction, MarkStuck, SweepOnly, docVars, pastVars
<1>5. ASSUME NEW p \in Procs, BootActions(p)
      PROVE  UNCHANGED dayVars
  BY <1>5 DEF BootActions, RecoverStart, RecoverLookup, RecoverConfirm, RecoverConfirmFails,
              RecoverMarkStuck, RecoverAborts, ConfirmTransaction, MarkStuck, BootOnly,
              docVars, pastVars
<1>6. ASSUME NEW a \in Admins, DeskActions(a)
      PROVE  UNCHANGED dayVars
  BY <1>6 DEF DeskActions, DeskOpen, DeskLookup, DeskGivesUp, DeskRefund, DeskConfirm,
              ConfirmTransaction, DeskOnly, docVars
<1>7. QED
  BY <1>1, <1>2, <1>3, <1>4, <1>5, <1>6 DEF Next

(* Every step is a booking, and says of which day. *)
LEMMA StepDatedBooks == Typed /\ [Next]_vars => DatedBooking
BY StepBooks, StepDates DEF Booking, DatedBooking

-----------------------------------------------------------------------------
(* A refund row for each failed withdrawal and no other, whatever refunds  *)
(* the worker and the operators try (refundWithdrawal, under the guards of *)
(* the retry state and of markStuckRefunded).                              *)
THEOREM OneRefundForEach == Spec => []RefundedIffFailed
<1>1. Init => RefundedIffFailed
  BY DEF Init, RefundedIffFailed
<1>2. ASSUME Typed, RefundedIffFailed, Booking
      PROVE  RefundedIffFailed'
  <2> USE DEF RefundedIffFailed
  <2>1. CASE Shuffles
    BY <1>2, <2>1 DEF Shuffles, Held
  <2>2. ASSUME NEW v \in Withdrawals, Holds(v) PROVE RefundedIffFailed'
    BY <1>2, <2>2 DEF Holds, CreateWithdrawal, Typed, TypeOK, DocsOK
  <2>3. ASSUME NEW v \in Withdrawals, Settles(v) PROVE RefundedIffFailed'
    BY <1>2, <2>3 DEF Settles, Open, Typed, TypeOK, DocsOK
  <2>4. ASSUME NEW v \in Withdrawals, Returns(v) PROVE RefundedIffFailed'
    BY <1>2, <2>4 DEF Returns, RefundLedger, Open, Typed, TypeOK, DocsOK, LedgerOK
  <2>5. QED
    BY <1>2, <2>1, <2>2, <2>3, <2>4 DEF Booking
<1>3. RefundedIffFailed /\ UNCHANGED vars => RefundedIffFailed'
  BY DEF RefundedIffFailed, vars, docVars, ledgerVars
<1>4. Typed /\ Safe /\ RefundedIffFailed /\ [Next]_vars => RefundedIffFailed'
  BY <1>2, <1>3, StepBooks
<1>5. QED
  BY <1>1, <1>4, PipelineInvariant, PTL DEF Spec

-----------------------------------------------------------------------------
(* What AmountOf adds up to, when a withdrawal joins or leaves a set.      *)
LEMMA AmountOfSum == \A S : AmountOf(S) = SumOf(Amount, S)
BY Zenon DEF AmountOf, MapThenSumSet, MapThenFoldSet, SumOf, IsSum, Pick

(* The amounts of withdrawals add up to a natural number, *)
LEMMA AmountOfNat ==
    ASSUME NEW S \in SUBSET Withdrawals, IsFiniteSet(S)
    PROVE  AmountOf(S) \in Nat
<1>1. \A x \in S : Amount[x] \in Nat
  BY ConstantsAssumption
<1>2. QED
  BY <1>1, SumNat, AmountOfSum

(* to nothing if there are none, *)
LEMMA AmountOfNone == AmountOf({}) = 0
BY SumEmpty, AmountOfSum

(* to more by the amount of one more, *)
LEMMA AmountOfMore ==
    ASSUME NEW S \in SUBSET Withdrawals, IsFiniteSet(S), NEW w \in Withdrawals, w \notin S
    PROVE  AmountOf(S \cup {w}) = AmountOf(S) + Amount[w]
<1>1. \A x \in S \cup {w} : Amount[x] \in Int
  BY ConstantsAssumption
<1>2. SumOf(Amount, S \cup {w}) = SumOf(Amount, S) + Amount[w]
  BY <1>1, SumAdd
<1>3. QED
  BY <1>2, AmountOfSum

(* and to less by the amount of one fewer. *)
LEMMA AmountOfFewer ==
    ASSUME NEW S \in SUBSET Withdrawals, IsFiniteSet(S), NEW w \in S
    PROVE  /\ AmountOf(S) = Amount[w] + AmountOf(S \ {w})
           /\ AmountOf(S \ {w}) \in Nat
<1>1. \A x \in S : Amount[x] \in Int
  BY ConstantsAssumption
<1>2. SumOf(Amount, S) = Amount[w] + SumOf(Amount, S \ {w})
  BY <1>1, SumRemove
<1>3. IsFiniteSet(S \ {w}) /\ S \ {w} \in SUBSET Withdrawals
  BY FS_RemoveElement
<1>4. AmountOf(S \ {w}) \in Nat
  BY <1>3, AmountOfNat
<1>5. QED
  BY <1>2, <1>4, AmountOfSum

-----------------------------------------------------------------------------
(* The sums the books are about.                                           *)
Existing == {w \in Withdrawals : status[w] # "none"}

FinitelyMany == IsFiniteSet(Existing)

Taken(u) == {w \in Of(u) : status[w] \in Accounted}
Paid(u)  == {w \in Of(u) : status[w] = "confirmed"}

(* The sums the books speak of are over finite sets. *)
LEMMA SumsAreFinite ==
    ASSUME FinitelyMany
    PROVE  /\ \A u : /\ IsFiniteSet(Taken(u)) /\ Taken(u) \in SUBSET Withdrawals
                     /\ IsFiniteSet(Paid(u)) /\ Paid(u) \in SUBSET Withdrawals
           /\ \A u, d : IsFiniteSet(Live(u, d)) /\ Live(u, d) \in SUBSET Withdrawals
<1>1. \A u : Taken(u) \subseteq Existing /\ Paid(u) \subseteq Existing
  BY DEF Taken, Paid, Of, Existing, Accounted
<1>2. \A u, d : Live(u, d) \subseteq Existing
  BY DEF Live, Of, Existing, Accounted
<1>3. \A S : S \subseteq Existing => IsFiniteSet(S) /\ S \in SUBSET Withdrawals
  BY FS_Subset DEF FinitelyMany, Existing
<1>4. QED
  BY <1>1, <1>2, <1>3

(* A request brings one document more, the other steps none.               *)
LEMMA StepFinite ==
    ASSUME Typed, FinitelyMany, Booking
    PROVE  FinitelyMany'
<1>1. \E S : IsFiniteSet(S) /\ Existing' \subseteq S
  <2>1. CASE Shuffles
    <3>1. Existing' \subseteq Existing
      BY <2>1 DEF Shuffles, Held, Existing
    <3>2. QED
      BY <3>1 DEF FinitelyMany
  <2>2. ASSUME NEW w \in Withdrawals, Holds(w) \/ Settles(w) \/ Returns(w)
        PROVE  \E S : IsFiniteSet(S) /\ Existing' \subseteq S
    <3>1. \E s : status' = [status EXCEPT ![w] = s]
      BY <2>2 DEF Holds, CreateWithdrawal, Settles, Returns
    <3>2. Existing' \subseteq Existing \cup {w}
      BY <3>1 DEF Existing, Typed, TypeOK, DocsOK
    <3>3. IsFiniteSet(Existing \cup {w})
      BY FS_AddElement DEF FinitelyMany
    <3>4. QED
      BY <3>2, <3>3
  <2>3. QED
    BY <2>1, <2>2 DEF Booking
<1>2. QED
  BY <1>1, FS_Subset DEF FinitelyMany

-----------------------------------------------------------------------------
(* What each kind of step does to those sets.                              *)
LEMMA ShufflesSets ==
    ASSUME Typed, Shuffles
    PROVE  \A u : Taken(u)' = Taken(u) /\ Paid(u)' = Paid(u)
BY DEF Shuffles, Held, Taken, Paid, Of, Accounted

(* A request adds its withdrawal to what was taken from the balance; *)
LEMMA HoldsSets ==
    ASSUME Typed, NEW w \in Withdrawals, Holds(w), NEW u
    PROVE  /\ w \notin Taken(u)
           /\ Taken(u)' = IF u = UserOf[w] THEN Taken(u) \cup {w} ELSE Taken(u)
           /\ Paid(u)' = Paid(u)
BY DEF Holds, CreateWithdrawal, Typed, TypeOK, DocsOK, Taken, Paid, Of, Accounted

(* a confirmation adds it to what was paid; *)
LEMMA SettlesSets ==
    ASSUME Typed, NEW w \in Withdrawals, Settles(w), NEW u
    PROVE  /\ w \notin Paid(u)
           /\ Paid(u)' = IF u = UserOf[w] THEN Paid(u) \cup {w} ELSE Paid(u)
           /\ Taken(u)' = Taken(u)
BY DEF Settles, Open, Typed, TypeOK, DocsOK, Taken, Paid, Of, Accounted

(* a refund takes it out of what was taken. *)
LEMMA ReturnsSets ==
    ASSUME Typed, NEW w \in Withdrawals, Returns(w), NEW u
    PROVE  /\ u = UserOf[w] => w \in Taken(u)
           /\ Taken(u)' = IF u = UserOf[w] THEN Taken(u) \ {w} ELSE Taken(u)
           /\ Paid(u)' = Paid(u)
BY DEF Returns, Open, Typed, TypeOK, DocsOK, Taken, Paid, Of, Accounted

(* FundsConserved in terms of them.                                        *)
LEMMA ConservedSets ==
    FundsConserved <=> \A u \in Users : /\ balance[u] + AmountOf(Taken(u)) = InitialBalance[u]
                                        /\ withdrawn[u] = AmountOf(Paid(u))
BY DEF FundsConserved, Taken, Paid

(* What a credit or a debit of a withdrawal does to each user's entry.     *)
LEMMA CreditAt ==
    ASSUME NEW ledger \in [Users -> Nat], NEW w \in Withdrawals, NEW u \in Users
    PROVE  /\ u # UserOf[w] => /\ Credit(ledger, w, 1)[u] = ledger[u]
                               /\ Credit(ledger, w, -1)[u] = ledger[u]
           /\ u = UserOf[w] => /\ Credit(ledger, w, 1)[u] = ledger[u] + Amount[w]
                               /\ Credit(ledger, w, -1)[u] = ledger[u] - Amount[w]
<1>1. UserOf[w] \in Users /\ Amount[w] \in Nat /\ ledger[u] \in Nat
  BY ConstantsAssumption
<1>2. u # UserOf[w] => /\ Credit(ledger, w, 1)[u] = ledger[u]
                       /\ Credit(ledger, w, -1)[u] = ledger[u]
  BY <1>1 DEF Credit
<1>3. u = UserOf[w] => /\ Credit(ledger, w, 1)[u] = ledger[u] + 1 * Amount[w]
                       /\ Credit(ledger, w, -1)[u] = ledger[u] + (-1) * Amount[w]
  BY <1>1 DEF Credit
<1>4. 1 * Amount[w] = Amount[w] /\ ledger[u] + (-1) * Amount[w] = ledger[u] - Amount[w]
  BY <1>1
<1>5. QED
  BY <1>2, <1>3, <1>4

(* One user's balance and total, in a step of each kind.                   *)
LEMMA StepConserves ==
    ASSUME Typed, FinitelyMany, FundsConserved, Booking
    PROVE  FundsConserved'
<1> SUFFICES ASSUME NEW u \in Users
             PROVE  /\ balance'[u] + AmountOf(Taken(u)') = InitialBalance[u]
                    /\ withdrawn'[u] = AmountOf(Paid(u)')
  BY DEF FundsConserved, Taken, Paid
<1>1. /\ balance[u] + AmountOf(Taken(u)) = InitialBalance[u]
      /\ withdrawn[u] = AmountOf(Paid(u))
  BY ConservedSets
<1>2. /\ balance[u] \in Nat /\ withdrawn[u] \in Nat
      /\ balance \in [Users -> Nat] /\ withdrawn \in [Users -> Nat]
  BY DEF Typed, TypeOK, LedgerOK
<1>3. /\ IsFiniteSet(Taken(u)) /\ Taken(u) \in SUBSET Withdrawals
      /\ IsFiniteSet(Paid(u)) /\ Paid(u) \in SUBSET Withdrawals
      /\ AmountOf(Taken(u)) \in Nat /\ AmountOf(Paid(u)) \in Nat
  BY SumsAreFinite, AmountOfNat
<1>4. CASE Shuffles
  BY <1>1, <1>4, ShufflesSets DEF Shuffles
<1>5. ASSUME NEW w \in Withdrawals, Holds(w)
      PROVE  /\ balance'[u] + AmountOf(Taken(u)') = InitialBalance[u]
             /\ withdrawn'[u] = AmountOf(Paid(u)')
  <2>1. /\ Amount[w] \in Nat
        /\ balance'[u] = IF u = UserOf[w] THEN balance[u] - Amount[w] ELSE balance[u]
        /\ withdrawn' = withdrawn
    BY <1>2, <1>5, ConstantsAssumption, CreditAt DEF Holds, CreateWithdrawal
  <2>2. CASE u = UserOf[w]
    <3>1. AmountOf(Taken(u)') = AmountOf(Taken(u)) + Amount[w]
      BY <1>3, <1>5, <2>2, HoldsSets, AmountOfMore
    <3>2. balance'[u] = balance[u] - Amount[w]
      BY <1>2, <2>1, <2>2
    <3>3. balance'[u] + AmountOf(Taken(u)') = InitialBalance[u]
      BY <1>1, <1>2, <1>3, <2>1, <3>1, <3>2
    <3>4. QED
      BY <1>1, <1>5, <2>1, <3>3, HoldsSets
  <2>3. CASE u # UserOf[w]
    BY <1>1, <1>2, <1>5, <2>1, <2>3, HoldsSets
  <2>4. QED
    BY <2>2, <2>3
<1>6. ASSUME NEW w \in Withdrawals, Settles(w)
      PROVE  /\ balance'[u] + AmountOf(Taken(u)') = InitialBalance[u]
             /\ withdrawn'[u] = AmountOf(Paid(u)')
  <2>1. /\ Amount[w] \in Nat
        /\ withdrawn'[u] = IF u = UserOf[w] THEN withdrawn[u] + Amount[w] ELSE withdrawn[u]
        /\ balance' = balance
    BY <1>2, <1>6, ConstantsAssumption, CreditAt DEF Settles
  <2>2. CASE u = UserOf[w]
    <3>1. AmountOf(Paid(u)') = AmountOf(Paid(u)) + Amount[w]
      BY <1>3, <1>6, <2>2, SettlesSets, AmountOfMore
    <3>2. withdrawn'[u] = withdrawn[u] + Amount[w]
      BY <1>2, <2>1, <2>2
    <3>3. QED
      BY <1>1, <1>6, <2>1, <3>1, <3>2, SettlesSets
  <2>3. CASE u # UserOf[w]
    BY <1>1, <1>2, <1>6, <2>1, <2>3, SettlesSets
  <2>4. QED
    BY <2>2, <2>3
<1>7. ASSUME NEW w \in Withdrawals, Returns(w)
      PROVE  /\ balance'[u] + AmountOf(Taken(u)') = InitialBalance[u]
             /\ withdrawn'[u] = AmountOf(Paid(u)')
  <2>1. /\ Amount[w] \in Nat
        /\ balance'[u] = IF u = UserOf[w] THEN balance[u] + Amount[w] ELSE balance[u]
        /\ withdrawn' = withdrawn
    BY <1>2, <1>7, ConstantsAssumption, CreditAt DEF Returns, RefundLedger
  <2>2. CASE u = UserOf[w]
    <3>1. /\ AmountOf(Taken(u)) = Amount[w] + AmountOf(Taken(u)')
          /\ AmountOf(Taken(u)') \in Nat
      BY <1>3, <1>7, <2>2, ReturnsSets, AmountOfFewer
    <3>2. balance'[u] = balance[u] + Amount[w]
      BY <1>2, <2>1, <2>2
    <3>3. balance'[u] + AmountOf(Taken(u)') = InitialBalance[u]
      BY <1>1, <1>2, <2>1, <3>1, <3>2
    <3>4. QED
      BY <1>1, <1>7, <2>1, <3>3, ReturnsSets
  <2>3. CASE u # UserOf[w]
    BY <1>1, <1>2, <1>7, <2>1, <2>3, ReturnsSets
  <2>4. QED
    BY <2>2, <2>3
<1>8. QED
  BY <1>4, <1>5, <1>6, <1>7 DEF Booking

(* Whatever fails, lapses, crashes or is tried again, each user's balance  *)
(* and total account for every withdrawal (the transactions of request,    *)
(* confirmation and refund).                                               *)
THEOREM FundsAreConserved == Spec => []FundsConserved
<1>1. Init => FinitelyMany /\ FundsConserved
  <2> SUFFICES ASSUME Init PROVE FinitelyMany /\ FundsConserved
    OBVIOUS
  <2>1. Existing = {} /\ \A u : Taken(u) = {} /\ Paid(u) = {}
    BY DEF Init, Existing, Taken, Paid, Of, Accounted
  <2>2. \A u \in Users : /\ balance[u] = InitialBalance[u] /\ InitialBalance[u] \in Nat
                          /\ withdrawn[u] = 0
    BY ConstantsAssumption DEF Init
  <2>3. \A u : AmountOf(Taken(u)) = 0 /\ AmountOf(Paid(u)) = 0
    BY <2>1, AmountOfNone
  <2>4. FundsConserved
    BY <2>2, <2>3, ConservedSets
  <2>5. QED
    BY <2>1, <2>4, FS_EmptySet DEF FinitelyMany
<1>2. Typed /\ Safe /\ FinitelyMany /\ FundsConserved /\ [Next]_vars
        => FinitelyMany' /\ FundsConserved'
  BY StepBooks, StepFinite, StepConserves
<1>3. QED
  BY <1>1, <1>2, PipelineInvariant, PTL DEF Spec

-----------------------------------------------------------------------------
(* The day's reservation.  A request that stays on one day is counted on   *)
(* the day its document bears, from which a refund will release it.        *)
OneDay == \A w \in Withdrawals : createdDay[w] = reservedDay[w]

Reservations == OneDay /\ ReservationsAgree /\ DailyLimitRespected

(* Without a request that straddles midnight, a reservation is of the day of its document. *)
LEMMA StepOneDay ==
    ASSUME ~MidnightRace, Typed, OneDay, DatedBooking
    PROVE  OneDay'
<1>1. CASE UNCHANGED dayVars
  BY <1>1 DEF OneDay, dayVars
<1>2. ASSUME NEW w \in Withdrawals, Holds(w) PROVE OneDay'
  BY <1>2 DEF Holds, CreateWithdrawal, OneDay, Typed, TypeOK, DocsOK, PastOK
<1>3. QED
  BY <1>1, <1>2 DEF DatedBooking

(* Which withdrawals count on a day, after a step of each kind.            *)
LEMMA MovesLive ==
    ASSUME Typed, UNCHANGED dayVars, Shuffles \/ \E w \in Withdrawals : Settles(w),
           NEW u, NEW d
    PROVE  Live(u, d)' = Live(u, d)
<1>1. CASE Shuffles
  BY <1>1 DEF Shuffles, Held, Live, Of, Accounted, dayVars
<1>2. ASSUME NEW w \in Withdrawals, Settles(w) PROVE Live(u, d)' = Live(u, d)
  BY <1>2 DEF Settles, Open, Typed, TypeOK, DocsOK, Live, Of, Accounted, dayVars
<1>3. QED
  BY <1>1, <1>2

(* A request adds its withdrawal to the live ones of the day; *)
LEMMA HoldsLive ==
    ASSUME Typed, NEW w \in Withdrawals, Holds(w), NEW u, NEW d
    PROVE  /\ w \notin Live(u, d)
           /\ Live(u, d)' = IF u = UserOf[w] /\ d = today THEN Live(u, d) \cup {w} ELSE Live(u, d)
BY DEF Holds, CreateWithdrawal, Typed, TypeOK, DocsOK, PastOK, Live, Of, Accounted

(* a refund takes it out of those of the day it was reserved on. *)
LEMMA ReturnsLive ==
    ASSUME Typed, UNCHANGED dayVars, NEW w \in Withdrawals, Returns(w), NEW u, NEW d
    PROVE  /\ u = UserOf[w] /\ d = reservedDay[w] => w \in Live(u, d)
           /\ Live(u, d)' = IF u = UserOf[w] /\ d = reservedDay[w] THEN Live(u, d) \ {w}
                            ELSE Live(u, d)
BY DEF Returns, Open, Typed, TypeOK, DocsOK, PastOK, Live, Of, Accounted, dayVars

(* What reserving and releasing does to one day of one user.               *)
LEMMA BookAt ==
    ASSUME reserved \in [Users -> [Days -> Nat]], NEW w \in Withdrawals, NEW day \in Days,
           NEW u \in Users, NEW d \in Days
    PROVE  /\ ~(u = UserOf[w] /\ d = day) => /\ Book(w, day, 1)[u][d] = reserved[u][d]
                                             /\ Book(w, day, -1)[u][d] = reserved[u][d]
           /\ u = UserOf[w] /\ d = day =>
                /\ Book(w, day, 1)[u][d] = reserved[u][d] + Amount[w]
                /\ reserved[u][d] >= Amount[w]
                     => Book(w, day, -1)[u][d] = reserved[u][d] - Amount[w]
<1>1. UserOf[w] \in Users /\ Amount[w] \in Nat /\ reserved[u][d] \in Nat
  BY ConstantsAssumption
<1>2. ~(u = UserOf[w] /\ d = day) => /\ Book(w, day, 1)[u][d] = reserved[u][d]
                                     /\ Book(w, day, -1)[u][d] = reserved[u][d]
  BY <1>1 DEF Book
<1>3. ASSUME u = UserOf[w] /\ d = day
      PROVE  /\ Book(w, day, 1)[u][d] = IF reserved[u][d] + 1 * Amount[w] >= 0
                                         THEN reserved[u][d] + 1 * Amount[w] ELSE 0
             /\ Book(w, day, -1)[u][d] = IF reserved[u][d] + (-1) * Amount[w] >= 0
                                          THEN reserved[u][d] + (-1) * Amount[w] ELSE 0
  BY <1>1, <1>3 DEF Book
<1>4. 1 * Amount[w] = Amount[w] /\ reserved[u][d] + (-1) * Amount[w] = reserved[u][d] - Amount[w]
  BY <1>1
<1>5. QED
  BY <1>1, <1>2, <1>3, <1>4

(* Reservations agree with the live withdrawals after every step. *)
LEMMA StepReserves ==
    ASSUME ~MidnightRace, Typed, FinitelyMany, Reservations, DatedBooking
    PROVE  Reservations'
<1> USE DEF Reservations
<1>1. OneDay'
  BY StepOneDay
<1> SUFFICES ASSUME NEW u \in Users, NEW d \in Days
             PROVE  reserved'[u][d] = AmountOf(Live(u, d)') /\ AmountOf(Live(u, d)') <= DailyLimit
  BY <1>1 DEF ReservationsAgree, DailyLimitRespected
<1>2. /\ reserved[u][d] = AmountOf(Live(u, d))
      /\ AmountOf(Live(u, d)) <= DailyLimit
      /\ DailyLimit \in Nat
  BY ConstantsAssumption DEF ReservationsAgree, DailyLimitRespected
<1>3. /\ IsFiniteSet(Live(u, d)) /\ Live(u, d) \in SUBSET Withdrawals
      /\ AmountOf(Live(u, d)) \in Nat
  BY SumsAreFinite, AmountOfNat
<1>4. reserved \in [Users -> [Days -> Nat]] /\ today \in Days
  BY DEF Typed, TypeOK, LedgerOK, PastOK
<1>5. CASE UNCHANGED dayVars /\ (Shuffles \/ \E w \in Withdrawals : Settles(w))
  BY <1>2, <1>5, MovesLive DEF Shuffles, Settles
<1>6. ASSUME NEW w \in Withdrawals, Holds(w)
      PROVE  reserved'[u][d] = AmountOf(Live(u, d)') /\ AmountOf(Live(u, d)') <= DailyLimit
  <2>1. reserved' = Book(w, today, 1) /\ reserved[UserOf[w]][today] + Amount[w] <= DailyLimit
    BY <1>6 DEF Holds, CreateWithdrawal, Fits
  <2>2. CASE u = UserOf[w] /\ d = today
    <3>1. AmountOf(Live(u, d)') = AmountOf(Live(u, d)) + Amount[w]
      BY <1>3, <1>6, <2>2, HoldsLive, AmountOfMore
    <3>2. reserved'[u][d] = reserved[u][d] + Amount[w]
      BY <1>4, <2>1, <2>2, BookAt
    <3>3. QED
      BY <1>2, <2>1, <2>2, <3>1, <3>2
  <2>3. CASE ~(u = UserOf[w] /\ d = today)
    <3>1. reserved'[u][d] = reserved[u][d]
      BY <1>4, <2>1, <2>3, BookAt
    <3>2. QED
      BY <1>2, <1>6, <2>3, <3>1, HoldsLive
  <2>4. QED
    BY <2>2, <2>3
<1>7. ASSUME UNCHANGED dayVars, NEW w \in Withdrawals, Returns(w)
      PROVE  reserved'[u][d] = AmountOf(Live(u, d)') /\ AmountOf(Live(u, d)') <= DailyLimit
  <2>1. /\ reserved' = Book(w, createdDay[w], -1)
        /\ createdDay[w] = reservedDay[w]
        /\ createdDay[w] \in Days /\ Amount[w] \in Nat
    BY <1>7, ConstantsAssumption
       DEF Returns, RefundLedger, OneDay, Typed, TypeOK, DocsOK
  <2>2. CASE u = UserOf[w] /\ d = reservedDay[w]
    <3>1. /\ AmountOf(Live(u, d)) = Amount[w] + AmountOf(Live(u, d)')
          /\ AmountOf(Live(u, d)') \in Nat
      BY <1>3, <1>7, <2>2, ReturnsLive, AmountOfFewer
    <3>2. reserved[u][d] >= Amount[w]
      BY <1>2, <2>1, <3>1
    <3>3. reserved'[u][d] = reserved[u][d] - Amount[w]
      BY <1>4, <2>1, <2>2, <3>2, BookAt
    <3>4. QED
      BY <1>2, <2>1, <3>1, <3>3
  <2>3. CASE ~(u = UserOf[w] /\ d = reservedDay[w])
    <3>1. reserved'[u][d] = reserved[u][d]
      BY <1>4, <2>1, <2>3, BookAt
    <3>2. QED
      BY <1>2, <1>7, <2>3, <3>1, ReturnsLive
  <2>4. QED
    BY <2>2, <2>3
<1>8. QED
  BY <1>5, <1>6, <1>7 DEF DatedBooking

(* When no request straddles midnight between the bucket it books and the  *)
(* createdAt it gets (withdrawal-service.ts), the documents, the balances, *)
(* the totals and the reservations agree and the limit of a day holds.  A  *)
(* request that does straddle it breaks the reservations, not the funds:   *)
(* FundsAreConserved has no such condition.                                *)
THEOREM WithdrawalBooksAgree ==
    ASSUME MidnightRace = FALSE
    PROVE  Spec => []BooksAgree
<1>1. Init => FinitelyMany /\ Reservations
  <2> SUFFICES ASSUME Init PROVE FinitelyMany /\ Reservations
    OBVIOUS
  <2>1. Existing = {} /\ \A u, d : Live(u, d) = {}
    BY DEF Init, Existing, Live, Of, Accounted
  <2>2. OneDay
    BY DEF Init, OneDay
  <2>3. \A u \in Users, d \in Days : reserved[u][d] = 0
    BY DEF Init
  <2>4. ReservationsAgree /\ DailyLimitRespected
    <3>1. \A u, d : AmountOf(Live(u, d)) = 0
      BY <2>1, AmountOfNone
    <3>2. DailyLimit >= 0
      BY ConstantsAssumption
    <3>3. QED
      BY <2>3, <3>1, <3>2 DEF ReservationsAgree, DailyLimitRespected
  <2>5. QED
    BY <2>1, <2>2, <2>4, FS_EmptySet DEF FinitelyMany, Reservations
<1>2. Typed /\ Safe /\ FinitelyMany /\ Reservations /\ [Next]_vars
        => FinitelyMany' /\ Reservations'
  BY StepBooks, StepDatedBooks, StepFinite, StepReserves
<1>3. Typed /\ Reservations /\ FundsConserved => BooksAgree
  BY DEF Typed, Reservations, BooksAgree
<1>4. QED
  BY <1>1, <1>2, <1>3, PipelineInvariant, FundsAreConserved, PTL DEF Spec

-----------------------------------------------------------------------------
(* What a confirmed document says: it names its own transfer, processed    *)
(* once (markConfirmed and the processed row, in one transaction).         *)
LEMMA StepPaid ==
    ASSUME Typed, ConfirmedIsPaid, Booking, indexed \subseteq indexed'
    PROVE  ConfirmedIsPaid'
<1>1. \A w \in Withdrawals :
         IF status[w] = "confirmed"
         THEN /\ txHash[w] \in indexed /\ txHash[w].w = w
              /\ {m \in processed : m.w = w} = {txHash[w]}
         ELSE txHash[w] = NoMsg /\ \A m \in processed : m.w # w
  BY DEF ConfirmedIsPaid
<1>2. /\ status \in [Withdrawals -> Statuses]
      /\ txHash \in [Withdrawals -> Message]
  BY DEF Typed, TypeOK, DocsOK
<1>3. ASSUME UNCHANGED <<txHash, processed>>,
             \A w \in Withdrawals : status'[w] = "confirmed" <=> status[w] = "confirmed"
      PROVE  ConfirmedIsPaid'
  BY <1>1, <1>3 DEF ConfirmedIsPaid
<1>4. CASE Shuffles
  BY <1>3, <1>4 DEF Shuffles, Held
<1>5. ASSUME NEW w \in Withdrawals, Holds(w) PROVE ConfirmedIsPaid'
  BY <1>2, <1>3, <1>5 DEF Holds, CreateWithdrawal
<1>6. ASSUME NEW w \in Withdrawals, Returns(w) PROVE ConfirmedIsPaid'
  BY <1>2, <1>3, <1>6 DEF Returns, RefundLedger, Open
<1>7. ASSUME NEW w \in Withdrawals, Settles(w) PROVE ConfirmedIsPaid'
  <2>1. PICK m \in indexed : /\ m.w = w /\ m \notin processed
                             /\ txHash' = [txHash EXCEPT ![w] = m]
                             /\ processed' = processed \cup {m}
    BY <1>7 DEF Settles
  <2>2. /\ status' = [status EXCEPT ![w] = "confirmed"]
        /\ status[w] # "confirmed"
    BY <1>7 DEF Settles, Open
  <2>3. status'[w] = "confirmed" /\ txHash'[w] = m /\ {n \in processed' : n.w = w} = {m}
    BY <1>1, <1>2, <2>1, <2>2
  <2>4. ASSUME NEW v \in Withdrawals, v # w
        PROVE  IF status'[v] = "confirmed"
               THEN /\ txHash'[v] \in indexed' /\ txHash'[v].w = v
                    /\ {n \in processed' : n.w = v} = {txHash'[v]}
               ELSE txHash'[v] = NoMsg /\ \A n \in processed' : n.w # v
    <3>1. status'[v] = status[v] /\ txHash'[v] = txHash[v]
      BY <1>2, <2>1, <2>2, <2>4
    <3>2. {n \in processed' : n.w = v} = {n \in processed : n.w = v}
      BY <2>1, <2>4
    <3>3. QED
      BY <1>1, <2>1, <2>4, <3>1, <3>2
  <2>5. QED
    BY <2>1, <2>3, <2>4 DEF ConfirmedIsPaid
<1>8. QED
  BY <1>4, <1>5, <1>6, <1>7 DEF Booking

-----------------------------------------------------------------------------
(* What the network has is what was handed to it, and what the indexer     *)
(* has is what took place.                                                 *)
Chained == indexed \subseteq executed /\ executed \cup inflight \subseteq broadcast

(* Nothing of w's can take place any more, or has.                         *)
Inert(w) == \A m \in inflight \cup executed : m.w # w

(* Only a send, the network and the index touch the chain. *)
LEMMA ChainFrame ==
    ASSUME Typed, [Next]_vars
    PROVE  (\E p \in Procs : SendTransfer(p)) \/ ChainNext \/ UNCHANGED chainVars
BY DEF Next, vars, RequestWithdrawal, RequestAcrossMidnight, CreateWithdrawal, NextDay,
       WorkerNext, StartSend, ClaimNextQueued, ClaimNothing, ReadSeqno, PreSendFails,
       SeqnoAdvanced, SeqnoTimeout, MarkSent, PostSendFails, PostSendDone, MarkStuckUnknown,
       RetryOrRefund, OutcomeNotWritten, FinishSend, SweepActions, SweepStart, SweepAborts,
       SweepLookup, SweepConfirm, SweepExpire, SweepSkip, SweepOnly, BootActions,
       RecoverStart, RecoverLookup, RecoverConfirm, RecoverConfirmFails, RecoverMarkStuck,
       RecoverAborts, BootOnly, Crash, LockExpires, DeskActions, DeskOpen, DeskLookup,
       DeskGivesUp, DeskRefund, DeskConfirm, DeskOnly

(* The chain only moves on.                                                *)
LEMMA ChainGrows ==
    ASSUME Typed, Chained, [Next]_vars
    PROVE  /\ broadcast \subseteq broadcast' /\ indexed \subseteq indexed'
           /\ walletSeqno' \in Nat /\ walletSeqno' >= walletSeqno
           /\ Chained'
<1>1. walletSeqno \in Nat
  BY DEF Typed, TypeOK, ChainOK
<1>2. CASE UNCHANGED chainVars
  BY <1>1, <1>2 DEF chainVars, Chained
<1>3. CASE ChainNext
  BY <1>1, <1>3 DEF ChainNext, AcceptMessage, DropMessage, IndexTransfer, ChainOnly, Chained
<1>4. CASE \E p \in Procs : SendTransfer(p)
  BY <1>1, <1>4 DEF SendTransfer, Chained
<1>5. QED
  BY <1>2, <1>3, <1>4, ChainFrame

(* What is inert stays so while no worker is about to sign for it.         *)
LEMMA InertStays ==
    ASSUME Typed, [Next]_vars, NEW w, Inert(w),
           \A p \in Procs : wpc[p] = "signing" => wjob[p] # w
    PROVE  Inert(w)'
<1>1. CASE UNCHANGED chainVars
  BY <1>1 DEF chainVars, Inert
<1>2. CASE ChainNext
  BY <1>2 DEF ChainNext, AcceptMessage, DropMessage, IndexTransfer, ChainOnly, Inert
<1>3. CASE \E p \in Procs : SendTransfer(p)
  BY <1>3 DEF SendTransfer, Inert
<1>4. QED
  BY <1>1, <1>2, <1>3, ChainFrame

-----------------------------------------------------------------------------
(* A worker waiting for its seqno has a message with it; one that saw it   *)
(* used up is ahead of it.                                                 *)
Signed(p) == \E m \in broadcast : m.w = wjob[p] /\ m.seqno = wseq[p]

WorkersSigned ==
    \A p \in Procs : /\ wpc[p] \in {"polling", "landed"} => Signed(p)
                     /\ wpc[p] = "landed" => wseq[p] < walletSeqno

(* A worker past its send has signed with the number it read. *)
LEMMA StepSigned ==
    ASSUME Typed, Chained, WorkersSigned, [Next]_vars
    PROVE  WorkersSigned'
<1>1. /\ broadcast \subseteq broadcast' /\ walletSeqno' >= walletSeqno
      /\ walletSeqno \in Nat /\ walletSeqno' \in Nat
      /\ wpc \in [Procs -> {"idle", "started", "claimed", "signing", "unsent", "polling",
                            "landed", "marked", "unknown", "release"}]
      /\ wjob \in [Procs -> Job] /\ wseq \in [Procs -> Nat]
  BY ChainGrows DEF Typed, TypeOK, ChainOK, WorkerOK
<1>2. ASSUME NEW q \in Procs, wpc'[q] = wpc[q], wjob'[q] = wjob[q], wseq'[q] = wseq[q]
      PROVE  /\ wpc'[q] \in {"polling", "landed"} => Signed(q)'
             /\ wpc'[q] = "landed" => wseq'[q] < walletSeqno'
  BY <1>1, <1>2 DEF WorkersSigned, Signed
<1>3. CASE UNCHANGED workerVars
  BY <1>2, <1>3 DEF workerVars, WorkersSigned
<1>4. ASSUME NEW p \in Procs, WorkerNext(p)
      PROVE  WorkersSigned'
  <2>1. \A q \in Procs : q # p => /\ wpc'[q] = wpc[q] /\ wjob'[q] = wjob[q]
                                  /\ wseq'[q] = wseq[q]
    BY <1>1, <1>4 DEF WorkerNext, StartSend, ClaimNextQueued, ClaimNothing, ReadSeqno,
                PreSendFails, SendTransfer, SeqnoAdvanced, SeqnoTimeout, MarkSent,
                PostSendFails, PostSendDone, MarkStuckUnknown, RetryOrRefund,
                OutcomeNotWritten, FinishSend, WorkerStep
  <2>2. CASE SendTransfer(p)
    <3>1. /\ wpc'[p] # "landed" /\ UNCHANGED <<wjob, wseq>>
          /\ [w |-> wjob[p], seqno |-> wseq[p], try |-> wtry[p]] \in broadcast'
      BY <1>1, <2>2 DEF SendTransfer, AfterSend
    <3>2. Signed(p)'
      BY <3>1 DEF Signed
    <3>3. QED
      BY <1>2, <2>1, <3>1, <3>2 DEF WorkersSigned
  <2>3. CASE SeqnoAdvanced(p)
    <3>1. /\ wpc[p] = "polling" /\ walletSeqno > wseq[p]
          /\ UNCHANGED <<wjob, wseq, walletSeqno, broadcast>>
      BY <2>3 DEF SeqnoAdvanced, WorkerStep, Advanced, chainVars
    <3>2. Signed(p)' /\ wseq'[p] < walletSeqno'
      BY <1>1, <3>1 DEF Signed, WorkersSigned
    <3>3. QED
      BY <1>2, <2>1, <3>2 DEF WorkersSigned
  <2>4. CASE ~SendTransfer(p) /\ ~SeqnoAdvanced(p)
    <3>1. wpc'[p] \notin {"polling", "landed"}
      BY <1>1, <1>4, <2>4
         DEF WorkerNext, StartSend, ClaimNextQueued, ClaimNothing, ReadSeqno, PreSendFails,
             SeqnoTimeout, MarkSent, PostSendFails, PostSendDone, MarkStuckUnknown,
             RetryOrRefund, OutcomeNotWritten, FinishSend, WorkerStep
    <3>2. QED
      BY <1>2, <2>1, <3>1 DEF WorkersSigned
  <2>5. QED
    BY <2>2, <2>3, <2>4
<1>5. ASSUME NEW p \in Procs, Crash(p)
      PROVE  WorkersSigned'
  <2>1. /\ wpc'[p] = "idle"
        /\ \A q \in Procs : q # p => /\ wpc'[q] = wpc[q] /\ wjob'[q] = wjob[q]
                                     /\ wseq'[q] = wseq[q]
    BY <1>1, <1>5 DEF Crash
  <2>2. QED
    BY <1>2, <2>1 DEF WorkersSigned
<1>6. (\E p \in Procs : WorkerNext(p) \/ Crash(p)) \/ UNCHANGED workerVars
  BY DEF Next, vars, procVars, workerVars, RequestWithdrawal, RequestAcrossMidnight,
         CreateWithdrawal, NextDay, SweepActions, SweepStart, SweepAborts, SweepLookup,
         SweepConfirm, SweepExpire, SweepSkip, SweepOnly, BootActions, RecoverStart,
         RecoverLookup, RecoverConfirm, RecoverConfirmFails, RecoverMarkStuck, RecoverAborts,
         BootOnly, LockExpires, ChainNext, AcceptMessage, DropMessage, IndexTransfer,
         ChainOnly, DeskActions, DeskOpen, DeskLookup, DeskGivesUp, DeskRefund, DeskConfirm,
         DeskOnly
<1>7. QED
  BY <1>3, <1>4, <1>5, <1>6

-----------------------------------------------------------------------------
(* Who makes a document sent, and who makes it failed.                     *)
StaysSent(w) == status[w] = "sent" /\ sentAt'[w] = sentAt[w]

IsSentBy(p, w) == wpc[p] = "landed" /\ wjob[p] = w /\ sentAt'[w]

Unsending(p, w) == wpc[p] = "unsent" /\ wjob[p] = w

Refunding(a, w) == desk[a].pc = "commit" /\ desk[a].action = "refund" /\ desk[a].job = w

(* A document moves to sent in markSent, to failed in the worker's refund  *)
(* or in the operator's.                                                   *)
WhoMoves ==
    \A w \in Withdrawals :
       /\ status'[w] = "sent" => StaysSent(w) \/ \E p \in Procs : IsSentBy(p, w)
       /\ status'[w] = "failed" => \/ status[w] = "failed"
                                   \/ \E p \in Procs : Unsending(p, w)
                                   \/ \E a \in Admins : Refunding(a, w)

(* Marking a withdrawal stuck makes it neither sent nor failed; *)
LEMMA MarkStuckMoves ==
    ASSUME Typed, NEW w \in Withdrawals, MarkStuck(w)
    PROVE  WhoMoves
BY DEF MarkStuck, WhoMoves, StaysSent, Typed, TypeOK, DocsOK

(* nor does confirming it. *)
LEMMA ConfirmMoves ==
    ASSUME Typed, NEW w \in Withdrawals, NEW m, ConfirmTransaction(w, m)
    PROVE  WhoMoves
BY DEF ConfirmTransaction, WhoMoves, StaysSent, Typed, TypeOK, DocsOK

(* Only its worker makes a withdrawal sent, and only a worker that gives up or a refund of an
   operator makes it failed. *)
LEMMA StepMoves ==
    ASSUME Typed, [Next]_vars
    PROVE  WhoMoves
<1>1. CASE UNCHANGED docVars
  BY <1>1 DEF docVars, WhoMoves, StaysSent
<1>2. CASE UNCHANGED vars \/ NextDay \/ LockExpires \/ ChainNext \/ \E p \in Procs : Crash(p)
  BY <1>1, <1>2 DEF vars, NextDay, LockExpires, ChainNext, AcceptMessage, DropMessage,
                    IndexTransfer, ChainOnly, Crash
<1>3. ASSUME NEW w \in Withdrawals, RequestWithdrawal(w) \/ RequestAcrossMidnight(w)
      PROVE  WhoMoves
  BY <1>3 DEF RequestWithdrawal, RequestAcrossMidnight, CreateWithdrawal, WhoMoves, StaysSent,
              Typed, TypeOK, DocsOK
<1>4. ASSUME NEW p \in Procs, WorkerNext(p)
      PROVE  WhoMoves
  <2>1. CASE ClaimNextQueued(p)
    BY <2>1 DEF ClaimNextQueued, Claimable, WhoMoves, StaysSent, Typed, TypeOK, DocsOK
  <2>2. CASE MarkSent(p)
    BY <2>2 DEF MarkSent, WorkerStep, WhoMoves, StaysSent, IsSentBy, Typed, TypeOK, DocsOK
  <2>3. CASE MarkStuckUnknown(p)
    <3>1. wjob[p] \in Withdrawals
      BY <2>3 DEF MarkStuckUnknown, WorkerStep, Typed, Jobs, WorkerJob, Sending
    <3>2. QED
      BY <2>3, <3>1, MarkStuckMoves DEF MarkStuckUnknown
  <2>4. CASE RetryOrRefund(p)
    <3>1. wpc[p] = "unsent" /\ wjob[p] \in Withdrawals
      BY <2>4 DEF RetryOrRefund, WorkerStep, Typed, Jobs, WorkerJob, Sending
    <3>2. Unsending(p, wjob[p])
      BY <3>1 DEF Unsending
    <3>3. \/ \E next \in {"failed", "queued"} : MarkRetryState(wjob[p], next)
          \/ UNCHANGED <<status, sentAt>>
      BY <2>4 DEF RetryOrRefund
    <3>4. QED
      BY <3>1, <3>2, <3>3 DEF MarkRetryState, WhoMoves, StaysSent, Typed, TypeOK, DocsOK
  <2>5. QED
    BY <1>1, <1>4, <2>1, <2>2, <2>3, <2>4
       DEF WorkerNext, StartSend, ClaimNothing, ReadSeqno, PreSendFails, SendTransfer,
           SeqnoAdvanced, SeqnoTimeout, PostSendFails, PostSendDone, OutcomeNotWritten,
           FinishSend
<1>5. ASSUME NEW p \in Procs, SweepActions(p)
      PROVE  WhoMoves
  <2>1. CASE SweepConfirm(p) \/ SweepExpire(p)
    <3>1. sweep[p].job \in Withdrawals
      BY <2>1 DEF SweepConfirm, SweepExpire, Typed, Jobs, SweepJob, LookupOK
    <3>2. QED
      BY <2>1, <3>1, ConfirmMoves, MarkStuckMoves DEF SweepConfirm, SweepExpire
  <2>2. QED
    BY <1>1, <1>5, <2>1 DEF SweepActions, SweepStart, SweepAborts, SweepLookup, SweepSkip
<1>6. ASSUME NEW p \in Procs, BootActions(p)
      PROVE  WhoMoves
  <2>1. CASE RecoverConfirm(p) \/ RecoverMarkStuck(p)
    <3>1. boot[p].job \in Withdrawals
      BY <2>1 DEF RecoverConfirm, RecoverMarkStuck, Typed, Jobs, BootJob, LookupOK
    <3>2. QED
      BY <2>1, <3>1, ConfirmMoves, MarkStuckMoves DEF RecoverConfirm, RecoverMarkStuck
  <2>2. QED
    BY <1>1, <1>6, <2>1 DEF BootActions, RecoverStart, RecoverLookup, RecoverConfirmFails,
                            RecoverAborts
<1>7. ASSUME NEW a \in Admins, DeskActions(a)
      PROVE  WhoMoves
  <2>1. CASE DeskConfirm(a)
    <3>1. desk[a].job \in Withdrawals
      BY <2>1 DEF DeskConfirm, Typed, Jobs, DeskJob, RequestOK
    <3>2. QED
      BY <2>1, <3>1, ConfirmMoves DEF DeskConfirm
  <2>2. CASE DeskRefund(a)
    <3>1. Refunding(a, desk[a].job) /\ UNCHANGED sentAt
      BY <2>2 DEF DeskRefund, Refunding
    <3>2. UNCHANGED status \/ status' = [status EXCEPT ![desk[a].job] = "failed"]
      BY <2>2 DEF DeskRefund
    <3>3. QED
      BY <3>1, <3>2 DEF WhoMoves, StaysSent, Typed, TypeOK, DocsOK
  <2>3. QED
    BY <1>1, <1>7, <2>1, <2>2 DEF DeskActions, DeskOpen, DeskLookup, DeskGivesUp
<1>8. QED
  BY <1>2, <1>3, <1>4, <1>5, <1>6, <1>7 DEF Next

-----------------------------------------------------------------------------
(* A sent document had its message's seqno used up.                        *)
SentWasDated == \A w \in Withdrawals : status[w] = "sent" => sentAt[w]

(* A withdrawal that was sent has its sequence number used. *)
LEMMA StepSent ==
    ASSUME Typed, Chained, WorkersSigned, SentIsAccepted, SentWasDated, [Next]_vars
    PROVE  SentIsAccepted' /\ SentWasDated'
<1>1. SentWasDated'
  BY StepMoves DEF WhoMoves, StaysSent, IsSentBy, SentWasDated
<1>2. /\ broadcast \subseteq broadcast' /\ walletSeqno' >= walletSeqno
      /\ walletSeqno \in Nat /\ walletSeqno' \in Nat /\ broadcast \subseteq Msg
  BY ChainGrows DEF Typed, TypeOK, ChainOK
<1>3. ASSUME NEW w \in Withdrawals, status'[w] = "sent"
      PROVE  \E m \in broadcast : m.w = w /\ m.seqno < walletSeqno
  <2>1. CASE status[w] = "sent"
    BY <2>1 DEF SentIsAccepted
  <2>2. ASSUME NEW p \in Procs, IsSentBy(p, w)
        PROVE  \E m \in broadcast : m.w = w /\ m.seqno < walletSeqno
    BY <2>2 DEF IsSentBy, WorkersSigned, Signed
  <2>3. QED
    BY <1>3, <2>1, <2>2, StepMoves DEF WhoMoves, StaysSent
<1>4. \A m \in broadcast : m.seqno \in Nat
  BY <1>2 DEF Msg
<1>5. SentIsAccepted'
  BY <1>2, <1>3, <1>4 DEF SentIsAccepted
<1>6. QED
  BY <1>1, <1>5

-----------------------------------------------------------------------------
(* A refund, and an operator's intent to make one, is early or of a        *)
(* withdrawal that nothing can pay any more.                               *)
Judicious(w) == w \in early \/ Inert(w)

RefundsAreJudicious ==
    /\ \A w \in Withdrawals : status[w] = "failed" => Judicious(w)
    /\ \A a \in Admins : desk[a].pc = "commit" /\ desk[a].action = "refund"
                           => Judicious(desk[a].job)

(* Marks of early refunds stay; an operator is at the commit of a refund   *)
(* after the check, which found nothing.                                   *)
LEMMA DeskChecks ==
    ASSUME Typed, [Next]_vars
    PROVE  /\ early \subseteq early'
           /\ \A a \in Admins : desk'[a].pc = "commit" /\ desk'[a].action = "refund" =>
                \/ desk'[a] = desk[a]
                \/ /\ desk[a].pc = "check" /\ desk'[a].job = desk[a].job
                   /\ Transfer(desk[a].job) = NoMsg
                   /\ desk[a].job \in early' \/ Dead(desk[a].job)
<1> DEFINE Goal == /\ early \subseteq early'
                   /\ \A a \in Admins : desk'[a].pc = "commit" /\ desk'[a].action = "refund" =>
                        \/ desk'[a] = desk[a]
                        \/ /\ desk[a].pc = "check" /\ desk'[a].job = desk[a].job
                           /\ Transfer(desk[a].job) = NoMsg
                           /\ desk[a].job \in early' \/ Dead(desk[a].job)
<1>1. desk \in [Admins -> DeskTask]
  BY DEF Typed, TypeOK, ProcOK
<1>2. CASE UNCHANGED <<desk, early>>
  BY <1>2
<1>3. ASSUME NEW a \in Admins, DeskActions(a)
      PROVE  Goal
  <2>1. CASE DeskLookup(a)
    <3> DEFINE f == Transfer(desk[a].job)
    <3>1. /\ desk[a].pc = "check"
          /\ desk' = [desk EXCEPT ![a] =
                        IF Allowed(desk[a].action, f)
                        THEN [@ EXCEPT !.pc = "commit", !.found = f] ELSE IdleDesk]
          /\ early' = IF desk[a].action = "refund" /\ f = NoMsg /\ ~Dead(desk[a].job)
                      THEN early \cup {desk[a].job} ELSE early
      BY <2>1 DEF DeskLookup
    <3>2. \A b \in Admins : b # a => desk'[b] = desk[b]
      BY <1>1, <3>1
    <3>3. ASSUME desk'[a].pc = "commit", desk'[a].action = "refund"
          PROVE  desk'[a].job = desk[a].job /\ desk[a].action = "refund" /\ f = NoMsg
      BY <1>1, <3>1, <3>3 DEF IdleDesk, DeskTask, Allowed
    <3>4. early \subseteq early'
      BY <3>1
    <3> HIDE DEF f
    <3>5. QED
      BY <3>1, <3>2, <3>3, <3>4 DEF f
  <2>2. CASE ~DeskLookup(a)
    <3>1. early' = early /\ \A b \in Admins : b # a => desk'[b] = desk[b]
      BY <1>1, <1>3, <2>2 DEF DeskActions, DeskOpen, DeskGivesUp, DeskRefund, DeskConfirm
    <3>2. desk'[a].pc # "commit"
      <4>1. ASSUME NEW w \in Withdrawals, NEW action \in {"refund", "confirm"},
                   DeskOpen(a, w, action)
            PROVE  desk'[a].pc = "check"
        BY <1>1, <4>1 DEF DeskOpen, IdleDesk
      <4>2. CASE DeskGivesUp(a) \/ DeskRefund(a) \/ DeskConfirm(a)
        BY <1>1, <4>2 DEF DeskGivesUp, DeskRefund, DeskConfirm, IdleDesk
      <4>3. QED
        BY <1>3, <2>2, <4>1, <4>2 DEF DeskActions
    <3>3. QED
      BY <3>1, <3>2
  <2>3. QED
    BY <2>1, <2>2
<1>4. (\E a \in Admins : DeskActions(a)) \/ UNCHANGED <<desk, early>>
  <2>1. ASSUME NEW p \in Procs, WorkerNext(p) \/ SweepActions(p) \/ BootActions(p) \/ Crash(p)
        PROVE  UNCHANGED <<desk, early>>
    <3>1. CASE WorkerNext(p)
      BY <3>1, WorkerFrame DEF pastVars
    <3>2. CASE SweepActions(p) \/ BootActions(p) \/ Crash(p)
      BY <3>2 DEF SweepActions, SweepStart, SweepAborts, SweepLookup, SweepConfirm,
         SweepExpire, SweepSkip, SweepOnly, BootActions, RecoverStart, RecoverLookup,
         RecoverConfirm, RecoverConfirmFails, RecoverMarkStuck, RecoverAborts, BootOnly,
         Crash, pastVars
    <3>3. QED
      BY <2>1, <3>1, <3>2
  <2>2. QED
    BY <2>1 DEF Next, vars, procVars, pastVars, RequestWithdrawal, RequestAcrossMidnight,
         CreateWithdrawal, NextDay, LockExpires, ChainNext, AcceptMessage, DropMessage,
         IndexTransfer, ChainOnly
<1>5. QED
  BY <1>2, <1>3, <1>4

(* A check that finds nothing leaves nothing, or marks the refund early.   *)
LEMMA NothingFound ==
    ASSUME Typed, NEW w, Transfer(w) = NoMsg, Dead(w)
    PROVE  Inert(w)
<1>1. \A m \in indexed : m.w # w
  <2> SUFFICES ASSUME NEW m \in indexed, m.w = w PROVE FALSE
    OBVIOUS
  <2>1. Transfer(w) \in indexed
    BY DEF Transfer
  <2>2. QED
    BY <2>1, NoMsgAssumption DEF Typed, TypeOK, ChainOK
<1>2. QED
  BY <1>1 DEF Dead, Inert

(* A refund that is not early follows a check that could not miss a payment. *)
LEMMA StepJudicious ==
    ASSUME Typed, Safe, Chained, RefundsAreJudicious, [Next]_vars
    PROVE  RefundsAreJudicious'
<1>1. ASSUME NEW w \in Withdrawals, Judicious(w),
             status[w] # "processing" \/ \E p \in Procs : Unsending(p, w)
      PROVE  Judicious(w)'
  <2>1. \A q \in Procs : wpc[q] = "signing" => wjob[q] # w
    BY <1>1 DEF Safe, WorkerSafe, UnsentClaims, ClaimIsExclusive, Claimed, Sending, Unsending
  <2>2. QED
    BY <1>1, <2>1, InertStays, DeskChecks DEF Judicious
<1>2. ASSUME NEW w \in Withdrawals, status'[w] = "failed"
      PROVE  Judicious(w)'
  <2>1. CASE status[w] = "failed"
    BY <1>1, <2>1 DEF RefundsAreJudicious
  <2>2. ASSUME NEW p \in Procs, Unsending(p, w)
        PROVE  Judicious(w)'
    <3>1. Inert(w)
      BY <2>2 DEF Unsending, Safe, WorkerSafe, UnsentClaims, Claimed, HasMessage, Chained, Inert
    <3>2. QED
      BY <1>1, <2>2, <3>1 DEF Judicious
  <2>3. ASSUME NEW a \in Admins, Refunding(a, w)
        PROVE  Judicious(w)'
    BY <1>1, <2>3 DEF Refunding, RefundsAreJudicious, Safe, DeskPast, Past
  <2>4. QED
    BY <1>2, <2>1, <2>2, <2>3, StepMoves DEF WhoMoves
<1>3. ASSUME NEW a \in Admins, desk'[a].pc = "commit", desk'[a].action = "refund"
      PROVE  Judicious(desk[a].job)'
  <2>1. desk[a].job \in Withdrawals /\ desk'[a].job = desk[a].job /\ desk[a].pc # "idle"
    <3>1. desk'[a].job = desk[a].job /\ desk[a].pc # "idle"
      BY <1>3, DeskChecks
    <3>2. QED
      BY <3>1 DEF Typed, Jobs, DeskJob, RequestOK
  <2>2. PICK w \in Withdrawals : w = desk[a].job /\ w = desk'[a].job
    BY <2>1
  <2>3. Judicious(w) \/ w \in early'
    <3>1. CASE desk'[a] = desk[a]
      BY <1>3, <2>2, <3>1 DEF RefundsAreJudicious
    <3>2. CASE desk'[a] # desk[a]
      BY <1>3, <2>2, <3>2, DeskChecks, NothingFound DEF Judicious
    <3>3. QED
      BY <3>1, <3>2
  <2>4. status[w] # "processing"
    BY <2>2 DEF Safe, DeskPast, Past
  <2>5. Judicious(w)'
    BY <1>1, <2>3, <2>4 DEF Judicious
  <2>6. QED
    BY <2>2, <2>5
<1>4. QED
  BY <1>2, <1>3 DEF RefundsAreJudicious

-----------------------------------------------------------------------------
(* All of what the documents say of the chain.                             *)
ChainBooks ==
    /\ Chained /\ WorkersSigned /\ ConfirmedIsPaid
    /\ SentIsAccepted /\ SentWasDated /\ RefundsAreJudicious

(* However workers, sweeps, recoveries and operators interleave with the   *)
(* network and the indexer: a confirmed document names its own transfer,   *)
(* processed once, a sent one had its message accepted, every document     *)
(* that waits for the chain is one the sweep finds, and a withdrawal is    *)
(* both refunded and paid only after an operator's refund that came before *)
(* the transfer could be seen.                                             *)
THEOREM DocumentsAgreeWithChain == Spec => []ChainAgrees
<1>1. Init => ChainBooks
  <2> SUFFICES ASSUME Init PROVE ChainBooks
    OBVIOUS
  <2>1. Chained /\ WorkersSigned /\ ConfirmedIsPaid /\ SentIsAccepted /\ SentWasDated
    BY DEF Init, Chained, WorkersSigned, ConfirmedIsPaid, SentIsAccepted, SentWasDated
  <2>2. RefundsAreJudicious
    BY DEF Init, RefundsAreJudicious, IdleDesk
  <2>3. QED
    BY <2>1, <2>2 DEF ChainBooks
<1>2. Typed /\ Safe /\ ChainBooks /\ [Next]_vars => ChainBooks'
  BY StepBooks, ChainGrows, StepSigned, StepPaid, StepSent, StepJudicious DEF ChainBooks
<1>3. Typed /\ Safe /\ ChainBooks => ChainAgrees
  <2> SUFFICES ASSUME Typed, Safe, ChainBooks PROVE ChainAgrees
    OBVIOUS
  <2>1. AwaitingIsSwept
    BY DEF AwaitingIsSwept, Pending, ChainBooks, SentWasDated, ConfirmedIsPaid, Safe,
           WorkerSafe, StuckWasSent
  <2>2. PaidTwiceOnlyIfEarly
    <3> SUFFICES ASSUME NEW m \in executed, status[m.w] = "failed" PROVE m.w \in early
      BY DEF PaidTwiceOnlyIfEarly
    <3>1. m.w \in Withdrawals
      BY DEF Typed, TypeOK, ChainOK, Msg
    <3>2. QED
      BY <3>1 DEF ChainBooks, RefundsAreJudicious, Judicious, Inert
  <2>3. QED
    BY <2>1, <2>2 DEF ChainAgrees, ChainBooks
<1>4. QED
  BY <1>1, <1>2, <1>3, PipelineInvariant, PTL DEF Spec
=============================================================================
