------------------------- MODULE WithdrawalPipeline -------------------------
(***************************************************************************)
(* The life of a withdrawal of 4REAL: the request that holds the user's    *)
(* balance, the worker that claims the document and broadcasts a TON       *)
(* message, the sweep that confirms transfers found on chain, the recovery *)
(* of stale claims when a process starts, and the operator's recovery of   *)
(* a stuck withdrawal.                                                     *)
(*                                                                         *)
(* The definitions no action uses (OpenAfterRefund, ClaimableOnceLess,     *)
(* ...) are faulty variants of the one they stand before: mutation runs    *)
(* put them in its place to see that a property notices.                   *)
(*                                                                         *)
(* One action is one database operation, one Mongo transaction or one call *)
(* to the chain: these are the points at which the asynchronous code gives *)
(* way to the other handlers, to other processes and to crashes.           *)
(***************************************************************************)
EXTENDS Integers, FiniteSets, FiniteSetsExt

CONSTANTS
    Withdrawals,      \* withdrawal documents, numbered in order of createdAt
    Users,
    UserOf,           \* the owner of each withdrawal
    Amount,           \* its amount, in raw units
    InitialBalance,   \* each user's balance before any withdrawal
    DailyLimit,       \* DAILY_WITHDRAWAL_LIMIT_USDT, in raw units
    LastDay,          \* bound: days are 0 .. LastDay
    MaxRetries,       \* pre-send failures before a refund (3 in the code)
    Procs,            \* server processes that run the background jobs
    Admins,           \* operators' requests that may run at the same time
    MaxCrashes,       \* bound on crashes and restarts
    UseLock,          \* FEATURE_DISTRIBUTED_LOCK
    LockMayLapse,     \* a holder may fail to renew its lock before the TTL
    DbMayFail,        \* a database operation may fail
    MidnightRace,     \* a request may straddle midnight UTC
    NoProc, NoJob, NoMsg

ASSUME ConstantsAssumption ==
    /\ Withdrawals \subseteq Nat
    /\ UserOf \in [Withdrawals -> Users]
    /\ Amount \in [Withdrawals -> Nat \ {0}]
    /\ InitialBalance \in [Users -> Nat]
    /\ DailyLimit \in Nat
    /\ LastDay \in Nat
    /\ MaxRetries \in Nat \ {0}
    /\ MaxCrashes \in Nat
    /\ {UseLock, LockMayLapse, DbMayFail, MidnightRace} \subseteq BOOLEAN
    /\ NoProc \notin Procs
    /\ NoJob \notin Withdrawals

Days == 0 .. LastDay

(* An external message: the transfer for w, signed for one wallet seqno by *)
(* one attempt.  Its jetton comment is wd-<w>.                             *)
Msg == [w : Withdrawals, seqno : Nat, try : Nat]

ASSUME NoMsgAssumption == NoMsg \notin Msg

VARIABLES
    (* the withdrawals collection *)
    status,       \* "none" before the document exists
    retries,
    createdDay,   \* UTC day of createdAt
    sentAt,       \* whether the field exists
    txHash,       \* the transfer it was confirmed by, or NoMsg
    (* the other collections a withdrawal touches *)
    balance, withdrawn,
    reserved,     \* withdrawal_daily_limits.reservedRaw, by user and day
    refunds,      \* number of WITHDRAW_REFUND rows of each withdrawal
    processed,    \* processed_transactions of type withdrawal_confirm
    today,
    (* the hot wallet, the network and the indexer *)
    walletSeqno,
    inflight,     \* messages the network may still include in a block
    executed,     \* messages whose jetton transfer took place
    indexed,      \* executed transfers Toncenter reports
    (* each process *)
    lock,         \* holder of wallet-send:<hot wallet>, or NoProc
    wpc, wjob, wtry, wseq,   \* runWithdrawalWorker: step, document, attempt, seqno
    sweep,        \* confirmSentWithdrawals
    boot,         \* recoverStuckWithdrawals, run once when a process starts
    desk,         \* the operators' recovery requests
    crashes,
    (* history, read by properties only *)
    broadcast,    \* every message ever handed to the network
    reservedDay,  \* the day whose limit a withdrawal was counted against
    early         \* cleared for a refund while the transfer could still appear

docVars    == <<status, retries, createdDay, sentAt, txHash>>
ledgerVars == <<balance, withdrawn, reserved, refunds, processed>>
chainVars  == <<walletSeqno, inflight, executed, indexed, broadcast>>
workerVars == <<wpc, wjob, wtry, wseq>>
procVars   == <<lock, wpc, wjob, wtry, wseq, sweep, boot, desk, crashes>>
pastVars   == <<today, reservedDay, early>>
vars == <<docVars, ledgerVars, chainVars, procVars, pastVars>>

Statuses == {"none", "queued", "processing", "sent", "confirmed", "stuck", "failed"}

(* Statuses under which the amount is held and counts against the limit    *)
(* (ACCOUNTED_WITHDRAWAL_STATUSES).                                        *)
Accounted == {"queued", "processing", "sent", "stuck", "confirmed"}

IdleSweep == [pc |-> "idle", todo |-> {}, wasSent |-> {}, job |-> NoJob, found |-> NoMsg]
IdleDesk  == [pc |-> "idle", action |-> "refund", job |-> NoJob, found |-> NoMsg]
FreshBoot == [pc |-> "boot", todo |-> {}, job |-> NoJob, found |-> NoMsg]
Booted    == [FreshBoot EXCEPT !.pc = "up"]

Init ==
    /\ status = [w \in Withdrawals |-> "none"]
    /\ retries = [w \in Withdrawals |-> 0]
    /\ createdDay = [w \in Withdrawals |-> 0]
    /\ sentAt = [w \in Withdrawals |-> FALSE]
    /\ txHash = [w \in Withdrawals |-> NoMsg]
    /\ balance = InitialBalance
    /\ withdrawn = [u \in Users |-> 0]
    /\ reserved = [u \in Users |-> [d \in Days |-> 0]]
    /\ refunds = [w \in Withdrawals |-> 0]
    /\ processed = {}
    /\ today = 0
    /\ walletSeqno = 0
    /\ inflight = {} /\ executed = {} /\ indexed = {} /\ broadcast = {}
    /\ lock = NoProc
    /\ wpc = [p \in Procs |-> "idle"]
    /\ wjob = [p \in Procs |-> NoJob]
    /\ wtry = [p \in Procs |-> 0]
    /\ wseq = [p \in Procs |-> 0]
    /\ sweep = [p \in Procs |-> IdleSweep]
    /\ boot = [p \in Procs |-> Booted]
    /\ desk = [a \in Admins |-> IdleDesk]
    /\ crashes = 0
    /\ reservedDay = [w \in Withdrawals |-> 0]
    /\ early = {}

-----------------------------------------------------------------------------
(* Repository operations, as the effects they have on the documents.       *)

Credit(ledger, w, sign) ==
    [ledger EXCEPT ![UserOf[w]] = @ + sign * Amount[w]]

Book(w, d, sign) ==
    [reserved EXCEPT ![UserOf[w]][d] =
        IF @ + sign * Amount[w] >= 0 THEN @ + sign * Amount[w] ELSE 0]

OpenAfterRefund(w) == status[w] \in {"processing", "sent", "stuck", "failed"}

(* The documents an on-chain verdict may still change.                     *)
Open(w) == status[w] \in {"processing", "sent", "stuck"}

MarkStuckProcessing(w) ==
    /\ IF status[w] = "processing"
       THEN /\ status' = [status EXCEPT ![w] = "stuck"]
            /\ sentAt' = [sentAt EXCEPT ![w] = TRUE]
       ELSE UNCHANGED <<status, sentAt>>
    /\ UNCHANGED <<retries, createdDay, txHash>>

(* WithdrawalRepository.markStuck, with a send timestamp as every caller   *)
(* passes one; a document that no longer matches is left alone.            *)
MarkStuck(w) ==
    /\ IF Open(w) /\ txHash[w] = NoMsg
       THEN /\ status' = [status EXCEPT ![w] = "stuck"]
            /\ sentAt' = [sentAt EXCEPT ![w] = TRUE]
       ELSE UNCHANGED <<status, sentAt>>
    /\ UNCHANGED <<retries, createdDay, txHash>>

(* The transaction both sweeps and the operator confirm with: markConfirmed *)
(* and the processed-transaction row and the user's total, or nothing when  *)
(* the document has moved on or the transfer is already processed.          *)
ConfirmTransaction(w, m) ==
    /\ IF Open(w) /\ m \notin processed
       THEN /\ status' = [status EXCEPT ![w] = "confirmed"]
            /\ txHash' = [txHash EXCEPT ![w] = m]
            /\ processed' = processed \cup {m}
            /\ withdrawn' = Credit(withdrawn, w, 1)
       ELSE UNCHANGED <<status, txHash, processed, withdrawn>>
    /\ UNCHANGED <<retries, createdDay, sentAt, balance, reserved, refunds>>

(* A release from the day of the refund instead of the day of the request. *)
RefundLedgerToday(w) ==
    /\ balance' = Credit(balance, w, 1)
    /\ reserved' = Book(w, today, -1)
    /\ refunds' = [refunds EXCEPT ![w] = @ + 1]
    /\ UNCHANGED <<withdrawn, processed>>

(* What a refund does to the ledger: the balance, the reservation of the   *)
(* day the document was created on, and a WITHDRAW_REFUND row.             *)
RefundLedger(w) ==
    /\ balance' = Credit(balance, w, 1)
    /\ reserved' = Book(w, createdDay[w], -1)
    /\ refunds' = [refunds EXCEPT ![w] = @ + 1]
    /\ UNCHANGED <<withdrawn, processed>>

AnyTransfer(w) == IF indexed = {} THEN NoMsg ELSE CHOOSE m \in indexed : TRUE

(* findWithdrawalTransferOnChain: the first indexed transfer whose comment *)
(* is wd-<w>, or NoMsg.  There is never a second one (AtMostOneTransfer),  *)
(* so which is first does not matter.                                      *)
Transfer(w) ==
    LET hits == {m \in indexed : m.w = w}
    IN  IF hits = {} THEN NoMsg ELSE CHOOSE m \in hits : TRUE

(* Nothing that was broadcast for w can still execute, or execute unseen.  *)
Dead(w) == \A m \in inflight \cup (executed \ indexed) : m.w # w

-----------------------------------------------------------------------------
(* POST /transactions/withdraw, inside its idempotent transaction.         *)

Covers(w) == balance[UserOf[w]] >= Amount[w]

Fits(w) == reserved[UserOf[w]][today] + Amount[w] <= DailyLimit

(* requestWithdrawal: the balance covers the amount, the day's limit does, *)
(* and the document is created queued on day d.                            *)
CreateWithdrawal(w, d) ==
    /\ status[w] = "none"
    /\ \A v \in Withdrawals : v > w => status[v] = "none"
    /\ Covers(w)
    /\ Fits(w)
    /\ balance' = Credit(balance, w, -1)
    /\ reserved' = Book(w, today, 1)
    /\ status' = [status EXCEPT ![w] = "queued"]
    /\ createdDay' = [createdDay EXCEPT ![w] = d]
    /\ reservedDay' = [reservedDay EXCEPT ![w] = today]
    /\ UNCHANGED <<retries, sentAt, txHash, withdrawn, refunds, processed,
                   chainVars, procVars, early>>

RequestWithdrawal(w) == CreateWithdrawal(w, today) /\ UNCHANGED today

(* The day bucket is computed before createQueued stamps createdAt, so a   *)
(* request that straddles midnight books one day and bears the next.       *)
RequestAcrossMidnight(w) ==
    /\ MidnightRace
    /\ today < LastDay
    /\ CreateWithdrawal(w, today + 1)
    /\ today' = today + 1

NextDay == /\ today < LastDay
           /\ today' = today + 1
           /\ UNCHANGED <<docVars, ledgerVars, chainVars, procVars, reservedDay, early>>

-----------------------------------------------------------------------------
(* runWithdrawalWorker in process p.                                       *)

WorkerStep(p, from, to) ==
    /\ wpc[p] = from
    /\ wpc' = [wpc EXCEPT ![p] = to]

(* The steps of a worker that only move it on. *)
WorkerOnly == UNCHANGED <<lock, sweep, boot, desk, crashes, pastVars>>

(* The job starts, under the lock when the deployment uses it.             *)
StartSend(p) ==
    /\ boot[p].pc = "up"
    /\ WorkerStep(p, "idle", "started")
    /\ IF UseLock THEN lock = NoProc /\ lock' = p ELSE UNCHANGED lock
    /\ UNCHANGED <<docVars, ledgerVars, chainVars, wjob, wtry, wseq,
                   sweep, boot, desk, crashes, pastVars>>

(* A claim that also takes abandoned claims, and one that gives up early.  *)
ClaimableAgain ==
    {w \in Withdrawals : status[w] \in {"queued", "processing"} /\ retries[w] < MaxRetries}
ClaimableOnceLess ==
    {w \in Withdrawals : status[w] = "queued" /\ retries[w] < MaxRetries - 1}

(* Queued documents the worker may claim: it takes the oldest of them.     *)
Claimable == {w \in Withdrawals : status[w] = "queued" /\ retries[w] < MaxRetries}

ClaimNextQueued(p) ==
    /\ WorkerStep(p, "started", "claimed")
    /\ \E w \in Claimable :
         /\ \A v \in Claimable : w <= v
         /\ status' = [status EXCEPT ![w] = "processing"]
         /\ wjob' = [wjob EXCEPT ![p] = w]
         /\ wtry' = [wtry EXCEPT ![p] = retries[w]]
    /\ UNCHANGED <<retries, createdDay, sentAt, txHash, ledgerVars, chainVars, wseq>>
    /\ WorkerOnly

(* Nothing to claim, or the claim itself fails.                            *)
ClaimNothing(p) ==
    /\ Claimable = {} \/ DbMayFail
    /\ WorkerStep(p, "started", "release")
    /\ UNCHANGED <<docVars, ledgerVars, chainVars, wjob, wtry, wseq>>
    /\ WorkerOnly

(* sendUsdtWithdrawal reads the wallet's seqno ...                         *)
ReadSeqno(p) ==
    /\ WorkerStep(p, "claimed", "signing")
    /\ wseq' = [wseq EXCEPT ![p] = walletSeqno]
    /\ UNCHANGED <<docVars, ledgerVars, chainVars, wjob, wtry>>
    /\ WorkerOnly

(* ... or fails before anything is signed: wallet, RPC or open circuit.    *)
PreSendFails(p) ==
    /\ WorkerStep(p, "claimed", "unsent")
    /\ UNCHANGED <<docVars, ledgerVars, chainVars, wjob, wtry, wseq>>
    /\ WorkerOnly

(* sendTransfer returns, or throws without saying whether the network has  *)
(* the message: WithdrawalBroadcastUnknownError, not a failure to send.    *)
AfterSend == {"polling", "unknown"}

(* The message is handed to the network.                                   *)
SendTransfer(p) ==
    LET m == [w |-> wjob[p], seqno |-> wseq[p], try |-> wtry[p]]
    IN  /\ wpc[p] = "signing"
        /\ \E to \in AfterSend : wpc' = [wpc EXCEPT ![p] = to]
        /\ inflight' = inflight \cup {m}
        /\ broadcast' = broadcast \cup {m}
        /\ UNCHANGED <<docVars, ledgerVars, walletSeqno, executed, indexed,
                       wjob, wtry, wseq>>
        /\ WorkerOnly

(* pollUntilSeqnoChanges: any message with that seqno satisfies it.        *)
Advanced(p) == walletSeqno > wseq[p]

SeqnoAdvanced(p) ==
    /\ Advanced(p)
    /\ WorkerStep(p, "polling", "landed")
    /\ UNCHANGED <<docVars, ledgerVars, chainVars, wjob, wtry, wseq>>
    /\ WorkerOnly

(* 90 seconds without a change: SeqnoTimeoutError.                         *)
SeqnoTimeout(p) ==
    /\ WorkerStep(p, "polling", "unknown")
    /\ UNCHANGED <<docVars, ledgerVars, chainVars, wjob, wtry, wseq>>
    /\ WorkerOnly

MarkSent(p) ==
    /\ WorkerStep(p, "landed", "marked")
    /\ IF status[wjob[p]] = "processing"
       THEN /\ status' = [status EXCEPT ![wjob[p]] = "sent"]
            /\ sentAt' = [sentAt EXCEPT ![wjob[p]] = TRUE]
       ELSE UNCHANGED <<status, sentAt>>
    /\ UNCHANGED <<retries, createdDay, txHash, ledgerVars, chainVars, wjob, wtry, wseq>>
    /\ WorkerOnly

(* markSent, the audit row or the notification throws.                     *)
PostSendFails(p) ==
    /\ DbMayFail
    /\ wpc[p] \in {"landed", "marked"}
    /\ wpc' = [wpc EXCEPT ![p] = "unknown"]
    /\ UNCHANGED <<docVars, ledgerVars, chainVars, wjob, wtry, wseq>>
    /\ WorkerOnly

PostSendDone(p) ==
    /\ WorkerStep(p, "marked", "release")
    /\ UNCHANGED <<docVars, ledgerVars, chainVars, wjob, wtry, wseq>>
    /\ WorkerOnly

(* The catch blocks of a broadcast whose outcome was not recorded.         *)
MarkStuckUnknown(p) ==
    /\ WorkerStep(p, "unknown", "release")
    /\ MarkStuck(wjob[p])
    /\ UNCHANGED <<ledgerVars, chainVars, wjob, wtry, wseq>>
    /\ WorkerOnly

(* A failed attempt counts, and the document forgets what it was sent as. *)
MarkRetryState(w, next) ==
    /\ status' = [status EXCEPT ![w] = next]
    /\ retries' = [retries EXCEPT ![w] = @ + 1]
    /\ sentAt' = [sentAt EXCEPT ![w] = FALSE]

(* A pre-send failure: back to the queue, or a refund when the attempts    *)
(* are used up.  A document that is no longer processing is not requeued,  *)
(* and makes the refund throw.                                             *)
RetryOrRefund(p) ==
    LET w == wjob[p]
        final == wtry[p] + 1 >= MaxRetries
    IN  /\ WorkerStep(p, "unsent", "release")
        /\ IF status[w] = "processing" /\ txHash[w] = NoMsg
           THEN /\ MarkRetryState(w, IF final THEN "failed" ELSE "queued")
                /\ IF final THEN RefundLedger(w) ELSE UNCHANGED ledgerVars
           ELSE UNCHANGED <<status, retries, sentAt, ledgerVars>>
        /\ UNCHANGED <<createdDay, txHash, chainVars, wjob, wtry, wseq>>
        /\ WorkerOnly

(* The write of an outcome fails: the document stays as it was.            *)
OutcomeNotWritten(p) ==
    /\ DbMayFail
    /\ wpc[p] \in {"unknown", "unsent"}
    /\ wpc' = [wpc EXCEPT ![p] = "release"]
    /\ UNCHANGED <<docVars, ledgerVars, chainVars, wjob, wtry, wseq>>
    /\ WorkerOnly

(* The job ends; a lock that is no longer ours, or whose release fails, is *)
(* left to its TTL.                                                        *)
FinishSend(p) ==
    /\ WorkerStep(p, "release", "idle")
    /\ \/ lock' = IF lock = p THEN NoProc ELSE lock
       \/ DbMayFail /\ UNCHANGED lock
    /\ wjob' = [wjob EXCEPT ![p] = NoJob]
    /\ wtry' = [wtry EXCEPT ![p] = 0]
    /\ wseq' = [wseq EXCEPT ![p] = 0]
    /\ UNCHANGED <<docVars, ledgerVars, chainVars, sweep, boot, desk, crashes, pastVars>>

(* The TTL runs out on a holder that crashed or did not release, or on a   *)
(* live one whose renewals failed, which goes on regardless.               *)
NotRenewed == lock # NoProc /\ (wpc[lock] = "idle" \/ LockMayLapse)

LockExpires ==
    /\ NotRenewed
    /\ lock' = NoProc
    /\ UNCHANGED <<docVars, ledgerVars, chainVars, workerVars, sweep, boot, desk,
                   crashes, pastVars>>

-----------------------------------------------------------------------------
(* The TON wallet contract, the network and Toncenter's index.             *)

ChainOnly == UNCHANGED <<docVars, ledgerVars, procVars, pastVars, broadcast>>

(* A message with the current seqno is accepted and uses it up.  Its       *)
(* jetton transfer executes, or is skipped: messages are sent with         *)
(* IGNORE_ERRORS.                                                          *)
AcceptMessage(m) ==
    /\ m \in inflight
    /\ m.seqno = walletSeqno
    /\ walletSeqno' = walletSeqno + 1
    /\ inflight' = inflight \ {m}
    /\ executed' \in {executed, executed \cup {m}}
    /\ UNCHANGED indexed
    /\ ChainOnly

(* A message is lost or outlives its five minutes of validity.             *)
DropMessage(m) ==
    /\ m \in inflight
    /\ inflight' = inflight \ {m}
    /\ UNCHANGED <<walletSeqno, executed, indexed>>
    /\ ChainOnly

IndexTransfer(m) ==
    /\ m \in executed \ indexed
    /\ indexed' = indexed \cup {m}
    /\ UNCHANGED <<walletSeqno, inflight, executed>>
    /\ ChainOnly

-----------------------------------------------------------------------------
(* confirmSentWithdrawals in process p.                                    *)

(* findPendingConfirmation; instances stay below its limit of 25.          *)
Pending == {w \in Withdrawals :
              status[w] \in {"sent", "stuck"} /\ sentAt[w] /\ txHash[w] = NoMsg}

SweepOnly == UNCHANGED <<chainVars, workerVars, lock, boot, desk, crashes, pastVars>>

SweepStart(p) ==
    /\ boot[p].pc = "up"
    /\ sweep[p].pc = "idle"
    /\ Pending # {}
    /\ sweep' = [sweep EXCEPT ![p] =
                   [IdleSweep EXCEPT !.pc = "scan", !.todo = Pending,
                                     !.wasSent = {w \in Pending : status[w] = "sent"}]]
    /\ UNCHANGED <<docVars, ledgerVars>>
    /\ SweepOnly

SweepLookup(p, w) ==
    /\ sweep[p].pc = "scan"
    /\ w \in sweep[p].todo
    /\ sweep' = [sweep EXCEPT ![p] =
                    [@ EXCEPT !.pc = IF Transfer(w) = NoMsg THEN "missing" ELSE "found",
                              !.todo = sweep[p].todo \ {w}, !.job = w, !.found = Transfer(w)]]
    /\ UNCHANGED <<docVars, ledgerVars>>
    /\ SweepOnly

(* A lookup, the confirming transaction or its audit row throws: the rest  *)
(* of the sweep is abandoned.                                              *)
SweepAborts(p) ==
    /\ sweep[p].pc = "scan" \/ (sweep[p].pc = "found" /\ DbMayFail)
    /\ sweep' = [sweep EXCEPT ![p] = IdleSweep]
    /\ UNCHANGED <<docVars, ledgerVars>>
    /\ SweepOnly

SweepNext(p) ==
    sweep' = [sweep EXCEPT ![p] =
                IF @.todo = {} THEN IdleSweep
                ELSE [@ EXCEPT !.pc = "scan", !.job = NoJob, !.found = NoMsg]]

SweepConfirm(p) ==
    /\ sweep[p].pc = "found"
    /\ ConfirmTransaction(sweep[p].job, sweep[p].found)
    /\ SweepNext(p)
    /\ SweepOnly

(* Not on chain 30 minutes after it was sent: by then its message, valid   *)
(* for five minutes, has been accepted or has expired.                     *)
SweepExpire(p) ==
    /\ sweep[p].pc = "missing"
    /\ sweep[p].job \in sweep[p].wasSent
    /\ \A m \in inflight : m.w # sweep[p].job
    /\ MarkStuck(sweep[p].job)
    /\ SweepNext(p)
    /\ UNCHANGED ledgerVars
    /\ SweepOnly

(* Not on chain yet, or already stuck, or marking it failed.               *)
SweepSkip(p) ==
    /\ sweep[p].pc = "missing"
    /\ SweepNext(p)
    /\ UNCHANGED <<docVars, ledgerVars>>
    /\ SweepOnly

-----------------------------------------------------------------------------
(* recoverStuckWithdrawals, awaited by startBackgroundJobs before the      *)
(* timers of process p are set.                                            *)

BootOnly == UNCHANGED <<chainVars, workerVars, lock, sweep, desk, crashes, pastVars>>

(* Claims that may be ten minutes old: no worker step takes that long, and *)
(* the message, if there was one, has been accepted or has expired.        *)
Stale == {w \in Withdrawals :
            /\ status[w] = "processing"
            /\ \A p \in Procs : wjob[p] # w
            /\ \A m \in inflight : m.w # w}

(* Some of them are old enough: none, after a quick restart or when the    *)
(* query fails.                                                            *)
RecoverStart(p) ==
    /\ boot[p].pc = "boot"
    /\ \E old \in SUBSET Stale :
         boot' = [boot EXCEPT ![p] =
                    IF old = {} THEN Booted ELSE [FreshBoot EXCEPT !.pc = "scan", !.todo = old]]
    /\ UNCHANGED <<docVars, ledgerVars>>
    /\ BootOnly

(* The transfer is found, or it is not, or the lookup throws: the last two *)
(* are handled alike.                                                      *)
RecoverLookup(p) ==
    /\ boot[p].pc = "scan"
    /\ \E w \in boot[p].todo : \E f \in {Transfer(w), NoMsg} :
         boot' = [boot EXCEPT ![p] =
                    [@ EXCEPT !.pc = IF f = NoMsg THEN "missing" ELSE "found",
                              !.todo = boot[p].todo \ {w}, !.job = w, !.found = f]]
    /\ UNCHANGED <<docVars, ledgerVars>>
    /\ BootOnly

RecoverNext(p) ==
    boot' = [boot EXCEPT ![p] =
               IF @.todo = {} THEN Booted
               ELSE [@ EXCEPT !.pc = "scan", !.job = NoJob, !.found = NoMsg]]

RecoverConfirm(p) ==
    /\ boot[p].pc = "found"
    /\ ConfirmTransaction(boot[p].job, boot[p].found)
    /\ RecoverNext(p)
    /\ BootOnly

(* A failed confirmation is logged and the next claim taken.               *)
RecoverConfirmFails(p) ==
    /\ DbMayFail
    /\ boot[p].pc = "found"
    /\ RecoverNext(p)
    /\ UNCHANGED <<docVars, ledgerVars>>
    /\ BootOnly

RecoverMarkStuck(p) ==
    /\ boot[p].pc = "missing"
    /\ MarkStuck(boot[p].job)
    /\ RecoverNext(p)
    /\ UNCHANGED ledgerVars
    /\ BootOnly

(* Marking fails in the catch block: the recovery is over, the timers are  *)
(* set all the same.                                                       *)
RecoverAborts(p) ==
    /\ DbMayFail
    /\ boot[p].pc = "missing"
    /\ boot' = [boot EXCEPT ![p] = Booted]
    /\ UNCHANGED <<docVars, ledgerVars>>
    /\ BootOnly

(* Process p dies and is started again: what it was doing is forgotten,    *)
(* its lock record is not.                                                 *)
Crash(p) ==
    /\ crashes < MaxCrashes
    /\ crashes' = crashes + 1
    /\ wpc' = [wpc EXCEPT ![p] = "idle"]
    /\ wjob' = [wjob EXCEPT ![p] = NoJob]
    /\ wtry' = [wtry EXCEPT ![p] = 0]
    /\ wseq' = [wseq EXCEPT ![p] = 0]
    /\ sweep' = [sweep EXCEPT ![p] = IdleSweep]
    /\ boot' = [boot EXCEPT ![p] = FreshBoot]
    /\ UNCHANGED <<docVars, ledgerVars, chainVars, lock, desk, pastVars>>

-----------------------------------------------------------------------------
(* POST /admin/withdrawals/:id/recover: recoverStuckWithdrawal.            *)

DeskOnly == UNCHANGED <<chainVars, workerVars, lock, sweep, boot, crashes, today, reservedDay>>

(* Only a stuck document is taken further; other statuses are answered     *)
(* without a change.                                                       *)
DeskOpen(a, w, action) ==
    /\ desk[a].pc = "idle"
    /\ status[w] = "stuck"
    /\ desk' = [desk EXCEPT ![a] = [IdleDesk EXCEPT !.pc = "check", !.action = action,
                                                    !.job = w]]
    /\ UNCHANGED <<docVars, ledgerVars, early>>
    /\ DeskOnly

(* The chain check: a refund needs the transfer missing, a confirmation    *)
(* needs it found.                                                         *)
AllowedAlways(action, f) == action = "refund" \/ f # NoMsg
Allowed(action, f) == (action = "refund") = (f = NoMsg)

DeskLookup(a) ==
    LET f == Transfer(desk[a].job)
    IN  /\ desk[a].pc = "check"
        /\ desk' = [desk EXCEPT ![a] =
                      IF Allowed(desk[a].action, f)
                      THEN [@ EXCEPT !.pc = "commit", !.found = f]
                      ELSE IdleDesk]
        /\ early' = IF desk[a].action = "refund" /\ f = NoMsg /\ ~Dead(desk[a].job)
                    THEN early \cup {desk[a].job} ELSE early
        /\ UNCHANGED <<docVars, ledgerVars>>
        /\ DeskOnly

(* The provider or the database fails, or the process dies.                *)
DeskGivesUp(a) ==
    /\ desk[a].pc # "idle"
    /\ desk' = [desk EXCEPT ![a] = IdleDesk]
    /\ UNCHANGED <<docVars, ledgerVars, early>>
    /\ DeskOnly

(* markStuckRefunded's filter, and two that would let more through.        *)
RefundableUnlessRefunded(w) == status[w] # "failed"
RefundableTwice(w) == status[w] \in {"stuck", "failed"} /\ txHash[w] = NoMsg
Refundable(w) == status[w] = "stuck" /\ txHash[w] = NoMsg

DeskRefund(a) ==
    LET w == desk[a].job
    IN  /\ desk[a].pc = "commit"
        /\ desk[a].action = "refund"
        /\ IF Refundable(w)
           THEN /\ status' = [status EXCEPT ![w] = "failed"]
                /\ RefundLedger(w)
           ELSE UNCHANGED <<status, ledgerVars>>
        /\ desk' = [desk EXCEPT ![a] = IdleDesk]
        /\ UNCHANGED <<retries, createdDay, sentAt, txHash, early>>
        /\ DeskOnly

DeskConfirm(a) ==
    /\ desk[a].pc = "commit"
    /\ desk[a].action = "confirm"
    /\ ConfirmTransaction(desk[a].job, desk[a].found)
    /\ desk' = [desk EXCEPT ![a] = IdleDesk]
    /\ UNCHANGED early
    /\ DeskOnly

-----------------------------------------------------------------------------
WorkerNext(p) ==
    \/ StartSend(p) \/ ClaimNextQueued(p) \/ ClaimNothing(p)
    \/ ReadSeqno(p) \/ PreSendFails(p) \/ SendTransfer(p)
    \/ SeqnoAdvanced(p) \/ SeqnoTimeout(p)
    \/ MarkSent(p) \/ PostSendFails(p) \/ PostSendDone(p) \/ MarkStuckUnknown(p)
    \/ RetryOrRefund(p) \/ OutcomeNotWritten(p) \/ FinishSend(p)

SweepActions(p) ==
    \/ SweepStart(p) \/ SweepAborts(p)
    \/ \E w \in Withdrawals : SweepLookup(p, w)
    \/ SweepConfirm(p) \/ SweepExpire(p) \/ SweepSkip(p)

BootActions(p) ==
    \/ RecoverStart(p) \/ RecoverLookup(p) \/ RecoverConfirm(p)
    \/ RecoverConfirmFails(p) \/ RecoverMarkStuck(p) \/ RecoverAborts(p)

DeskActions(a) ==
    \/ \E w \in Withdrawals, action \in {"refund", "confirm"} : DeskOpen(a, w, action)
    \/ DeskLookup(a) \/ DeskGivesUp(a) \/ DeskRefund(a) \/ DeskConfirm(a)

ChainNext ==
    \/ \E m \in inflight : AcceptMessage(m) \/ DropMessage(m)
    \/ \E m \in executed : IndexTransfer(m)

Next ==
    \/ \E w \in Withdrawals : RequestWithdrawal(w) \/ RequestAcrossMidnight(w)
    \/ NextDay
    \/ \E p \in Procs : WorkerNext(p) \/ SweepActions(p) \/ BootActions(p) \/ Crash(p)
    \/ LockExpires
    \/ ChainNext
    \/ \E a \in Admins : DeskActions(a)

Spec == Init /\ [][Next]_vars

(* Scheduling.  The worker's and the sweep's timers, the restart of a      *)
(* process and the TTL of the lock do not stop (weak fairness).  The       *)
(* chain decides on every message within its validity and Toncenter        *)
(* indexes every transfer.  A claim, a lookup or a write that is tried     *)
(* again and again does not fail every time (strong fairness).             *)
Fairness ==
    /\ WF_vars(LockExpires)
    /\ WF_vars(\E m \in inflight : AcceptMessage(m) \/ DropMessage(m))
    /\ WF_vars(\E m \in executed : IndexTransfer(m))
    /\ \A p \in Procs :
         /\ WF_vars(WorkerNext(p)) /\ WF_vars(SweepActions(p)) /\ WF_vars(BootActions(p))
         /\ SF_vars(ClaimNextQueued(p))
         /\ \A w \in Withdrawals :
              /\ SF_vars(SweepLookup(p, w))
              /\ SF_vars(sweep[p].job = w /\ SweepConfirm(p))
              /\ SF_vars(sweep[p].job = w /\ SweepExpire(p))

FairSpec == Spec /\ Fairness

-----------------------------------------------------------------------------
Message == Msg \cup {NoMsg}
Job     == Withdrawals \cup {NoJob}

DocsOK ==
    /\ status \in [Withdrawals -> Statuses]
    /\ retries \in [Withdrawals -> Nat]
    /\ createdDay \in [Withdrawals -> Days]
    /\ sentAt \in [Withdrawals -> BOOLEAN]
    /\ txHash \in [Withdrawals -> Message]

LedgerOK ==
    /\ balance \in [Users -> Nat]
    /\ withdrawn \in [Users -> Nat]
    /\ reserved \in [Users -> [Days -> Nat]]
    /\ refunds \in [Withdrawals -> Nat]
    /\ processed \subseteq Msg

ChainOK ==
    /\ walletSeqno \in Nat
    /\ inflight \subseteq Msg /\ executed \subseteq Msg
    /\ indexed \subseteq Msg /\ broadcast \subseteq Msg

WorkerOK ==
    /\ wpc \in [Procs -> {"idle", "started", "claimed", "signing", "unsent", "polling",
                          "landed", "marked", "unknown", "release"}]
    /\ wjob \in [Procs -> Job]
    /\ wtry \in [Procs -> Nat]
    /\ wseq \in [Procs -> Nat]

SweepTask == [pc : {"idle", "scan", "found", "missing"}, todo : SUBSET Withdrawals,
              wasSent : SUBSET Withdrawals, job : Job, found : Message]
BootTask  == [pc : {"boot", "scan", "found", "missing", "up"}, todo : SUBSET Withdrawals,
              job : Job, found : Message]
DeskTask  == [pc : {"idle", "check", "commit"}, action : {"refund", "confirm"},
              job : Job, found : Message]

ProcOK ==
    /\ lock \in Procs \cup {NoProc}
    /\ sweep \in [Procs -> SweepTask]
    /\ boot \in [Procs -> BootTask]
    /\ desk \in [Admins -> DeskTask]
    /\ crashes \in Nat

PastOK == today \in Days /\ reservedDay \in [Withdrawals -> Days] /\ early \subseteq Withdrawals

(* Types of the documents, the ledgers, the chain and every process: above *)
(* all, no interleaving of holds and refunds takes a balance below zero    *)
(* (deductBalanceRawIfSufficient, refundWithdrawal).                       *)
TypeOK == DocsOK /\ LedgerOK /\ ChainOK /\ WorkerOK /\ ProcOK /\ PastOK

HasMessage(w) == \E m \in broadcast : m.w = w

(* However claims, crashes, retries and restarts interleave, the hot       *)
(* wallet signs at most one message for a withdrawal: a document returns   *)
(* to the queue only when nothing was broadcast for it.                    *)
AtMostOneTransfer == \A m, n \in broadcast : m.w = n.w => m = n

(* A withdrawal the worker refunds by itself (failed without a sentAt)     *)
(* has nothing in the network that could still pay it.                     *)
AutomaticRefundIsSafe ==
    \A w \in Withdrawals : status[w] = "failed" /\ ~sentAt[w] => ~HasMessage(w)

(* A withdrawal that is both refunded and paid passed an operator's check  *)
(* while its message could still execute or its transfer was not indexed.  *)
PaidTwiceOnlyIfEarly ==
    \A m \in executed : status[m.w] = "failed" => m.w \in early

(* No withdrawal is both refunded to the balance and paid on chain.        *)
NeverRefundedAndPaid == \A m \in executed : status[m.w] # "failed"

(* A confirmed withdrawal names an indexed transfer of its own, processed  *)
(* once; any other names none and has none processed.                      *)
ConfirmedIsPaid ==
    \A w \in Withdrawals :
       IF status[w] = "confirmed"
       THEN /\ txHash[w] \in indexed /\ txHash[w].w = w
            /\ {m \in processed : m.w = w} = {txHash[w]}
       ELSE txHash[w] = NoMsg /\ \A m \in processed : m.w # w

(* The WITHDRAW_REFUND rows agree with the documents: one for each failed  *)
(* withdrawal, none for the others.                                        *)
RefundedIffFailed ==
    \A w \in Withdrawals : refunds[w] = IF status[w] = "failed" THEN 1 ELSE 0

(* Every sent or stuck withdrawal is one the confirmation sweep will find. *)
AwaitingIsSwept ==
    \A w \in Withdrawals : status[w] \in {"sent", "stuck"} => w \in Pending

(* A withdrawal the worker calls sent had its message's seqno used up.     *)
SentIsAccepted ==
    \A w \in Withdrawals :
       status[w] = "sent" => \E m \in broadcast : m.w = w /\ m.seqno < walletSeqno

Sending(p) == wpc[p] \notin {"idle", "started", "release"}

(* Two workers never work on the same withdrawal, lock or no lock.         *)
ClaimIsExclusive ==
    \A p, q \in Procs : Sending(p) /\ Sending(q) /\ wjob[p] = wjob[q] => p = q

AmountOf(S) == MapThenSumSet(LAMBDA w : Amount[w], S)
Of(u)       == {w \in Withdrawals : UserOf[w] = u}

(* Each user's balance is short of the initial one by exactly what is held *)
(* or paid out, and totalWithdrawnRaw is what was confirmed.               *)
FundsConserved ==
    \A u \in Users :
       /\ balance[u] + AmountOf({w \in Of(u) : status[w] \in Accounted}) = InitialBalance[u]
       /\ withdrawn[u] = AmountOf({w \in Of(u) : status[w] = "confirmed"})

Live(u, d) == {w \in Of(u) : status[w] \in Accounted /\ reservedDay[w] = d}

(* The withdrawals accepted on one day and not refunded stay within the    *)
(* daily limit.                                                            *)
DailyLimitRespected ==
    \A u \in Users, d \in Days : AmountOf(Live(u, d)) <= DailyLimit

(* The day's reservation counts exactly those withdrawals, whatever        *)
(* midnight falls between a request and its refund.                        *)
ReservationsAgree ==
    \A u \in Users, d \in Days : reserved[u][d] = AmountOf(Live(u, d))

(* A confirmed or failed withdrawal stays as it is: no late worker, sweep, *)
(* recovery or operator moves its document again.                          *)
OutcomesAreFinal ==
    [][\A w \in Withdrawals :
         status[w] \in {"confirmed", "failed"} =>
            /\ status'[w] = status[w]
            /\ txHash'[w] = txHash[w]
            /\ refunds'[w] = refunds[w]]_vars

(* The pipeline implements the abstract account of held funds.             *)
fund == [w \in Withdrawals |->
           CASE status[w] = "none"      -> "none"
             [] status[w] = "confirmed" -> "settled"
             [] status[w] = "failed"    -> "returned"
             [] OTHER                   -> "held"]

Funds == INSTANCE HeldFunds
HoldsFunds == Funds!Spec

(* Every queued withdrawal is eventually claimed.                          *)
QueueDrains ==
    \A w \in Withdrawals : status[w] = "queued" ~> status[w] # "queued"

(* A sent or stuck withdrawal whose transfer took place is eventually      *)
(* confirmed, unless an operator refunded it first.                        *)
PaidIsConfirmed ==
    \A w \in Withdrawals :
       (status[w] \in {"sent", "stuck"} /\ \E m \in executed : m.w = w)
          ~> status[w] \in {"confirmed", "failed"}

(* A withdrawal does not stay sent: it is confirmed, or marked stuck.      *)
SentIsDecided ==
    \A w \in Withdrawals : status[w] = "sent" ~> status[w] # "sent"

(* No claimed withdrawal stays in processing for ever.                     *)
ClaimsAreResolved ==
    \A w \in Withdrawals : status[w] = "processing" ~> status[w] # "processing"

(***************************************************************************)
(* The properties the runs check, where several of the above belong        *)
(* together.                                                               *)
(***************************************************************************)

(* The documents, the balances, the totals and the chain's records are     *)
(* well formed and agree about the money, whatever is interrupted; the     *)
(* limit of a day holds, and what is reserved of it is what the day's      *)
(* withdrawals have taken.                                                 *)
BooksAgree == TypeOK /\ FundsConserved /\ DailyLimitRespected /\ ReservationsAgree

(* What a document says of the chain is so, the sweep finds every document *)
(* that waits for the chain, and only an operator who refunds early can    *)
(* have a withdrawal both refunded and paid.                               *)
ChainAgrees ==
    ConfirmedIsPaid /\ SentIsAccepted /\ AwaitingIsSwept /\ PaidTwiceOnlyIfEarly

(* One worker at a time, one message at most, and none behind a refund     *)
(* that the worker makes by itself.                                        *)
OneMessage == ClaimIsExclusive /\ AtMostOneTransfer /\ AutomaticRefundIsSafe

(* What is queued is claimed, what is paid is confirmed, and what is sent  *)
(* does not stay sent.                                                     *)
AllIsSettled == QueueDrains /\ PaidIsConfirmed /\ SentIsDecided
============================================================================
