# A verification of 4REAL

4REAL is a wagering platform for four-in-a-row matches whose money is USDT
on the TON chain: users deposit jettons, stake them on matches, trade them with
merchants and withdraw them. This directory holds TLA+ models of its server and
of the flows of its browser client, the TLC configurations that check them on
small instances, and TLAPS proofs of what holds on every instance. Paths below
are relative to the repository (`server/...`; the client is its own `src/...`),
which is checked out in `src/`.

## 1. Inventory

The server is one Node process, or several that share MongoDB and Redis.
Node runs one callback at a time; every `await` of a database, Redis or chain
call is a point at which other requests, timers and processes run. Multi-document
writes use Mongo transactions (`session.withTransaction`), which run again
from the top when they conflict.

| component | state it keeps | operations | talks to |
|---|---|---|---|
| Withdrawal pipeline (`workers/withdrawal-worker.ts`, `services/withdrawal-*.ts`, `repositories/withdrawal.repository.ts`) | `withdrawals` documents: status, retries, createdAt, sentAt, txHash | request, claim, send, mark sent / stuck / failed, confirm, startup recovery, operator recovery | balances, daily limit, processed transactions, hot wallet, Toncenter, lock |
| Balances (`repositories/user-balance.repository.ts`) | balanceRaw, totalDepositedRaw, totalWithdrawnRaw, each as a string and a number | credit, conditional debit, refund, totals; a script that fills numbers in | everything that moves money |
| Daily withdrawal limit (`repositories/withdrawal-daily-limit.repository.ts`) | reservedRaw by user and UTC day | reserve within limit, release | pipeline |
| Idempotency and intents (`services/idempotency.service.ts`, `withdrawal-intent.service.ts`) | keys with request hash, status and stored answer; intents in Redis | claim, execute, replay; authorize, consume, restore | every mutating route |
| Distributed lock (`services/distributed-lock.service.ts`) | lock documents with owner and expiry | acquire, renew, release | jobs, game rooms |
| Background jobs (`services/background-jobs.service.ts`, `bullmq-jobs.service.ts`) | one running flag per job, or queues | startup recovery, then timers or queues; stop | pipeline, deposits, matches, orders |
| Matches (`services/match.service.ts`) | match documents, the wagers in escrow | create, join, cancel, resign, expire, complete, settle | balances, ratings, rooms |
| Game rooms (`services/realtime-match.service.ts`, `game-room-registry.service.ts`, `sockets/game.socket.ts`) | room in Redis or memory, room lock, sockets | join, move, disconnect, clean up | matches, sockets |
| Deposit ingestion (`services/deposit-ingestion.service.ts`, `workers/deposit-poller.ts`, `workers/failed-deposit-replay-worker.ts`) | poller cursor, memos, processed and unmatched transfers, failed ingestions | poll, credit, retry, replay a window, reconcile by hand | Toncenter, balances |
| P2P orders and proof relay (`services/order.service.ts`, `order-proof-relay.service.ts`) | orders, M-Pesa attempts, relays with attempts | create, complete, reject; claim, post, persist | balances, Telegram |
| Auth sessions (`services/auth-session.service.ts`) | sessions with token hashes, reuse markers | create, validate, rotate, revoke | Redis |
| MFA, one-time tokens, Google sign-in (`services/auth-mfa.service.ts`, `one-time-token.service.ts`, `google-oauth.service.ts`) | pending set-ups, challenges, recovery codes, links | set up, verify, consume, link | Redis, users |
| Ratings (`services/rating.service.ts`) | rating events, user ratings | apply once a match | matches |
| Cache, TON streaming, circuit breaker (`services/cache.service.ts`, `ton-streaming.service.ts`, `dependency-resilience.service.ts`) | in memory or Redis | load / invalidate; watch / fall back; trip / rest | all |
| Process (`server/runtime.ts`) | services, jobs, port, connections | start, serve, shut down | all |
| Browser client (`src/pages`, `src/features`) | view state, flow reducers | load, act, page on; withdraw, deposit, trade, play | HTTP API, sockets |

What is hard in it, and what makes each component correct:

- **Withdrawals.** A broadcast cannot be undone, its outcome may be unknown
  (`sendTransfer` throws after the network has the message, the sequence number
  does not move for 90 seconds), the process may die anywhere, two processes may
  run the worker, the lock between them may lapse, and a sweep, a recovery and
  operators write the same documents. Correct: one message per withdrawal at
  most; never refunded and paid; outcomes final; the balance, the total, the
  day's reservation and the documents agree; every request is decided.
- **Requests.** A request delivered twice, late, or again after its answer was
  lost has one effect and one answer; one approval withdraws once.
- **Matches.** Join, resignation, expiry and the winning move race to one
  settlement. Correct: a stake is taken once per player and paid out once;
  payouts plus commission plus dust equal the stakes; a move is never lost.
- **Deposits.** Transfers may be seen again, late or out of order. Correct:
  credited once at most, to the memo's user; a failed one stays reachable or is
  named by an alert; the cursor passes nothing it has not dealt with.
- **Orders.** A SELL is debited once and either completed or refunded; a code
  buys once; who is told of an order is told the truth; a proof that waits is
  posted.
- **Sessions and factors.** A refresh token is used once; a reused one ends the
  session and an honest retry does not; a reset ends what it is to end; a link
  works once; recovery codes are spent once.
- **Copies.** A cache, a rating, a room and a page in a browser show something
  read earlier. Correct: what they show, once all is at rest, is true, but for
  reasons that can be named.

`PROJECT.json` lists every component with its status, and 40 hazards, each at
its line with the properties that watch it.

## 2. Modules

An action is one database operation, one Mongo transaction, one Redis call or one
call to the chain: where the code awaits, and so gives way to other handlers,
processes and crashes. A Mongo transaction is one step where the documents it
reads are among those it writes, because then it runs again from the top if
another overlaps; where the code decides on something read outside it, the read
is a step of its own.

Definitions that no action uses (`ClaimableAgain`, `AfterAcceptedStays`, ...)
stand before the one they are a plausible bug of. A mutation run puts each in
place of its original and expects the named property to fail, which shows that
the property tells the two apart.

| module | what it is | checked by run |
|---|---|---|
| `WithdrawalPipeline` | withdrawal documents, the ledgers, the wallet and the chain's index; workers, sweeps, recoveries, operators | `Withdrawal...` |
| `HeldFunds` | the abstract account the pipeline implements | `WithdrawalPair` |
| `WithdrawalRequest` | panel, intent, second factor, idempotency record, up to the queued document | `WithdrawalPair` |
| `MatchPayout`, `MatchSettlement` | what a match pays; match documents, stakes, requests, expiry | `Matches` |
| `WagerEscrow` | the abstract escrow a match implements | `Matches` |
| `ConnectFour`, `ConnectFourPlay` | the board as operators; every game on it | `Parts` |
| `GameRoom` | `MatchSettlement` and `ConnectFour` with rooms, their locks and the handlers of moves | `Rooms` |
| `RoomPresence` | the sockets a room shows | `Parts` |
| `DepositIngestion` | index, cursor, memos, runs of poller and replay, merchants | `Deposits` |
| `DepositLedger` | the abstract ledger of transfers it implements | `Deposits` |
| `OrderDesk` | the trading panel, idempotency, codes, orders, merchants, relay | `Orders` |
| `AuthSessions` | sessions, tokens, reuse markers, tabs and devices, resets | `Identity`, `SessionsKept` |
| `SignInFactors` | links, accounts, Google sign-in, second factor | `Identity` |
| `Ratings`, `SharedCache`, `FinalityWatcher`, `CircuitBreaker`, `BalanceFields`, `ServerLifecycle` | parts of the server that share no state with another module | `Parts` |
| `DepositFlow`, `TransactionFeed` | the deposit panel, the history of transactions | `Parts` |
| `GameView`, `Screens` | the match page, the lists | `Rooms` |
| `MC...` | values of the constants, symmetry, and the composition of parts into one run | |
| `...Proofs`, `SumTheorems` | theorems, section 5 | |

### 2.1 Withdrawals

*State of the pipeline.* `status`, `retries`, `createdDay`, `sentAt`, `txHash` are
the fields of a withdrawal document; `balance`, `withdrawn`, `reserved`, `refunds`,
`processed` the other collections a withdrawal writes. `walletSeqno`,
`inflight`, `executed`, `indexed` are the hot wallet contract, the network and
Toncenter's index. Each process has a worker (`wpc`, `wjob`, `wtry`, `wseq`: the
step, the document in hand, the `retries` it was claimed with, the sequence
number it read), a confirmation sweep, and a startup recovery; `desk` holds the
operators' requests. `broadcast`, `reservedDay` and `early` are history that
only properties read.

| code | actions |
|---|---|
| `requestWithdrawalHandler`, `requestWithdrawal` | `RequestWithdrawal`, `RequestAcrossMidnight` |
| `withLock`, heartbeat | `StartSend`, `FinishSend`, `NotRenewed`, `LockExpires` |
| `runWithdrawalWorker`: claim | `ClaimNextQueued`, `ClaimNothing` |
| `sendUsdtWithdrawal` | `ReadSeqno`, `PreSendFails`, `SendTransfer`, `SeqnoAdvanced`, `SeqnoTimeout` |
| `runWithdrawalWorker`: outcome | `MarkSent`, `PostSendFails`, `PostSendDone`, `MarkStuckUnknown`, `RetryOrRefund`, `OutcomeNotWritten` |
| `confirmSentWithdrawals` | `SweepStart`, `SweepLookup`, `SweepConfirm`, `SweepExpire`, `SweepSkip`, `SweepAborts` |
| `recoverStuckWithdrawals` | `RecoverStart`, `RecoverLookup`, `RecoverConfirm`, `RecoverConfirmFails`, `RecoverMarkStuck`, `RecoverAborts` |
| `recoverStuckWithdrawal` | `DeskOpen`, `DeskLookup`, `DeskRefund`, `DeskConfirm`, `DeskGivesUp` |
| external | `AcceptMessage`, `DropMessage`, `IndexTransfer`, `Crash`, `NextDay` |

*Abstractions.* Time is a day counter and the guards that hours would give: a
message is valid for five minutes (`withdrawal-engine.ts:108`), so `SweepExpire`
(30 minutes after `sentAt`) and `Stale` (10 minutes after the claim) require that
nothing of the withdrawal is in flight. What the index has not caught up with may
still appear after either. An unclaimed step of a worker never lasts ten minutes.
An executed message either moves the jettons or, because messages are sent
with `IGNORE_ERRORS`, only uses up the sequence number. Toncenter's answers are
sound but late: it reports a subset of what executed, and a lookup may fail. A
transfer is recognised by its comment `wd-<id>`. A failed database write is
possible wherever `DbMayFail`, and leaves the transaction undone. Amounts are
small natural numbers. The sweep reads all pending documents; the code's limit of
25 is not modelled.

*Abstract account.* In `HeldFunds` an amount is `none`, `held`, then `settled` or
`returned`; holding debits the balance, returning credits it, settling adds to the
total. The refinement mapping is `fund`: `queued`, `processing`, `sent` and `stuck`
are all `held`.

*Requests.* `WithdrawalRequest` has the panel (`tab`), the draft in session storage
(`kept`), the deliveries of `POST /transactions/withdraw` (`call`), the idempotency
records (`keyDoc`), the intents in Redis and the queue. The order of the code
matters: the key is claimed in the Mongo transaction, the intent is taken out of
Redis before the transaction ends and put back when it fails; the panel that comes
back from the page of the second factor remembers the draft and not the key.

### 2.2 Matches and rooms

*Matches.* The fields of a match document, `balance` and `house` (the commission
account), and for each process that runs the expiry job the matches its cutoff
found idle (`idle`) and those it has not come to (`todo`). Actions: `CreateMatch`,
`JoinMatch`, `CancelMatch` and `ResignMatch` (the two cases of `resignMatch`),
`PersistMoveHistory`, `CompleteMatch`, `ExpiryScan`, `ExpireWaiting`,
`ExpireActive`, `ExpiryAborts`. The scan lists rooms and its transactions come
later, with whatever happened in between. Time is the set of matches that were
last active before a cutoff. `handleWagerSettlement` has a case for a draw with
a `timeoutPlayerId`; an expiry always names a winner, so no call reaches it.

*Escrow.* `seated` is the set of the two player fields, `settled` is `completed`.
`WagerEscrow` lets a settlement divide the stakes in any way that loses at most one
raw unit: which division, `MatchPayout` and `MatchBooksOK` say.

*Rooms.* `room` is the cached copy of a match, `lock` the holder of its lock, `task`
what each handler has read and the step it is at; `shown` is history: the moves last
reported to the players. `runExclusive` is `Begin`, `Release`, `LockExpires`,
`LockLapses`, `QueueIsDropped`; `joinRoom` and `makeMove` share `ReadMatch`,
`FetchRoom`, `RefreshRoom`, then `EndByMove`, or `PersistMove` and `ReadLatest`, and
`StoreRoom`. `Decide` is the synchronous part of `makeMove`. `TaskFails`,
`RoomExpires` and `Crash` may come anywhere. `registry` is where rooms and locks
are: in Redis, where they outlive a process, or in the memory of the only one,
where the lock is the promise queue of the room. Which sockets a room shows is
`RoomPresence`, where a room is its status and sockets.

*Page.* `GameView` is the page of a match and its socket: what the server tells a
room's members, in the order it leaves the lock, and what arrives. The state of a
match is the number of changes it has seen. Telling may fail: `Loses` is an emission
that is swallowed, a room that cannot be stored after the match was, a process that dies
between the two, and a replayed answer, which tells nothing. A connection comes back as
a new one, or as itself with its room and what it missed (`connectionStateRecovery`).

*Lists.* `Screens` has eight pages that load a list, act on it and load it again. The
lobby's list may be an older one (`LobbyFromCache`): the server keeps it for seconds,
announces a change before it drops its copy, and the browser keeps its own. A
failure while the page of deposits is hidden leaves it loading (`HiddenFailure`).

*Board.* `CheckWin` follows the code's directions and arms; `ConnectFourPlay`
plays every game and compares it with the set of all lines.

### 2.3 Deposits

`indexed` is what the chain's index shows, `cursor` the poller's, `processed`,
`review`, `memo`, `failure` the four collections, `task` the runs (what a run
fetched, its plan, the counts it read, the step it is at) and `desk` the
merchants' requests. A run of the job is `PollDeposits`, `Ingest` for one transfer
after another, `RecordFailure`, `ReadEarliest`, `StoreCursor`, and then
`FindRetryable`, with `MarkResolved` or `Reschedule` for each; a merchant's
`ReplayDepositWindow` shares the ingestion. Until a cursor is stored polls look back for
a day: `Outdates` makes a transfer too old for them, and `Asked` is what a poll still
sees. A transfer of another jetton, of which nothing is written, is left out. An ingestion plans on what its lookup
read; its transaction then either commits, fails, or commits and throws
(`IngestThrows`: a late acknowledgement, the audit, cache and e-mail calls after
the commit). `DepositLedger` is what remains for the user: credited once, to one
owner, or dismissed, and never undone.

### 2.4 Orders

The panel (`Submit`, `Deliver`, `GiveUp`) keeps one key for a form until it hears
for good; `Arrive`, `CountRead` and `CountWrite` are the M-Pesa check, which counts in
Redis with a read and a write; `ClaimTaken`, `ClaimFresh`, `Conflicts`, `Retry` and
`Commit` the transaction with its key; `Settle`, `Finish` and `MailFinal` what
follows it. The relay is `ClaimRelay`, `PostProof`, `PersistProof`, `RelayFails`,
`RelayFallsDue`, claimed by the request itself or by the job. A failure is written once,
`AfterFailure`; a write that fails is swallowed and leaves the relay as it is (`Unmarked`),
which takes one of the run's crashes. There is one customer, and
every order is for one unit.

### 2.5 Sessions and factors

*Sessions.* An access and a refresh token are drawn together, a pair; `docs` are the
session documents, `pairs` where each pair came from, and a tab's call goes through
the steps of the handler it stands for. Begin, ask, be refused, refresh and ask again
is `apiClient.ts`; `Check`, `ReadMarker`, `FindByRefresh`, `Mark`, `Rotate`, `Record`,
`Issued` are `refreshSession` and its callers; `Create`, `Snap`, `Strike`, `Save` the
sign-in that prunes devices, and the revocations; `SetPassword` ends in the
revocation of all sessions. A browser keeps one jar of cookies for all its tabs; an
answer may be lost or late.

*Factors.* The document of one account, links in mails, set-ups, recovery codes and
Google's user with the same address; each handler reads the document and writes it
later. Left out: the arithmetic of TOTP, the step-up keys, and what happens to an
account that no longer exists.

### 2.6 Parts

Twelve small state machines that share nothing with the rest or with each other.
`MCParts` starts each behaviour in one of ten of them and leaves the others as they
begin, so that one run covers them all at the cost of their sum; what is moving is the
`VIEW`. `MCGameRoom` has the other two, `GameView` and `Screens`, beside its rooms. The
header of each module says what is in it and what is reduced. The parts about which
something is proved keep their own variables there, so that the run checks the very
definition the theorem states.

## 3. Runs

| run | instance | shows |
|---|---|---|
| `WithdrawalPair` | two parts. A browser that asks for two withdrawals, with up to five calls, two intents, a lost answer, repeats and deaths. One process, two withdrawals of one user, two days, a limit of one a day, a crash, failing writes, one operator | what is queued was approved, once, unless an answer went unheard or a refusal was heard beside another delivery; no money is made or lost and reservations equal the day's live withdrawals; a confirmation names the document's own transfer; refunded and paid only after an operator's early check; outcomes final; `HeldFunds` implemented |
| `WithdrawalLapse` | one withdrawal, two processes, a lock that lapses under its holder, midnight within a request, a crash, failing writes, two operators | the claim alone keeps a withdrawal with one worker and one message; one refund, exactly for the failed |
| `WithdrawalProgress` | two withdrawals, a crash, failures that do not last, no operator | queued is claimed, paid is confirmed, sent is decided |
| `WithdrawalEarlyRefund` | violation | an operator's refund and the payment both happen |
| `WithdrawalInterrupted` | violation | a claim interrupted by a quick restart stays in processing |
| `Matches` | two matches, one private, three players of whom one can stake twice, histories up to 2 moves, a job that fails at times | the money adds up, `WagerEscrow` is implemented, the first result stays, fresh activity beats an expiry, waiting and abandoned matches end |
| `Rooms` | three parts. One match on a 1x3 board with lines of 2, two handlers, expiry, a crash and failing calls, or a lost lock or queue and nothing else; with Redis (two processes) and in memory. Two matches visited twice with two connections, one change untold when the next is made, any telling lost; eight pages with two facts, two requests at a time | no reported move is lost while locks hold; what is stored is a legal game, paid once, in any case; a quiet page shows the match as it is if the state told last was the newest, and the list as it is but for named ways of falling behind |
| `Deposits` | two transfers with one memo, one of which may be a day old before the first cursor, and one that may be aborted; two pollers with two faults, a poller and a window replay, or a poller and two merchants with one fault | credited once and to one user; what the index shows in time for the cursor or the first day is credited, reviewed, waiting or named by an alert, and gets there; a merchant is told the truth |
| `Orders` | three scenes: SELLs sent again while the rate changes; a proof relayed while two merchants decide and the process dies or an outcome is not written; codes that are rejected and counted | balance, rows and codes are those of the orders; a form places two orders only in the one way the code leaves; mails and proofs tell of what is; decisions stay; relays end unless a process died or an outcome was not written |
| `Identity` | two parts. Tabs of one browser with a fault; three devices under a limit of two; a device that signs the other or itself out; a reset beside sign-ins. Mails that overlap; a registration beside Google; a second factor set up, used, regenerated | a refresh token is exchanged once; sessions end for a reason; resets hold but for overlaps that are named; links, accounts and codes |
| `SessionsKept` | violation | a device that was signed out comes back and ends the session that was kept |
| `Parts` | ten parts, a few users, requests, processes or pages each | see below |

Beside the properties of `GameRoom`, `Rooms` shows `PagesAreCurrent`: once a page is
quiet, the match it shows (`GameView`) and the list it shows (`Screens`) are the
server's, or the way in which they fell behind is one the property names. A match is
excused when the state its members were told last is not its newest, because a telling
was lost or an older one came after it.

`Parts` shows, with the module it is about: `HistoriesAreShown` (`CheckWin` and the
rebuilt board agree with the game on a 3x4 board, `ConnectFourPlay`; the history of the
bank page has no gap, `TransactionFeed`),
`PaymentIsFollowed` (`DepositFlow`), `PresenceIsTrue` (three sockets of two players, two joins,
a move, a loss: a room shows a gone socket only if it went while a handler knew of it,
`RoomPresence`), `CopiesAreExcused` (`SharedCache`), `FinalIsCaught`
(`FinalityWatcher`), `RatingsFollowEvents` (`Ratings`), `CircuitIsHonest`
(`CircuitBreaker`), `AmountsAgree` (`BalanceFields`), `ShutdownIsOrderly`
(`ServerLifecycle`).

*What a property leaves out.* Some hazards go wrong in this code, and a property about
them can only say that nothing else does. `FinalIsCaught` names an event lost in a break
of the stream, one taken for handled, and a run that was skipped, failed or did not
find the transfer, as the index lags or the document was not yet sent.
`ShutdownIsOrderly` protects queued jobs and requests whose client waits; runs of timers
and of the stream, handlers of sockets and of requests whose client hung up are not
waited for. `RelaysSettle` excepts a relay whose process died or whose outcome was not
written. `NothingIsLost` and `Ingested` except transfers that the index shows too late
for the cursor or that are a day old before there is one. `SessionsAreKept` speaks of
refreshes that do not overlap, `PresenceIsTrue` allows a socket that went under a handler,
`CopiesAreExcused` a load that raced a clearing, `OrderBooksOK` a failed code that was not
counted, and `CircuitIsHonest` a late success that closes the circuit. The sweep's limit
of 25 documents has no property.

Deadlock is checked where the system never stops: in `WithdrawalLapse`,
`WithdrawalProgress`, `Matches` and `Rooms` a process can always start a job, a sweep
or a handler (the pages of `Rooms` may rest). The other runs
count calls, reviews, sends or faults, and stop when these are used up.

*Bounds.* Two withdrawals are enough for everything two documents share (the
sequence number, the balance, the sweep's list, the day's reservation). Two
processes are enough for a race on a claim, and a crash reaches every interrupted
step and, with two processes, a stale lock. `MaxRetries` is 3 in the code; with 1
the first failure is the last attempt, which is the case that refunds. That an earlier
failure goes back to the queue is in the theorems, which hold for every `MaxRetries`;
liveness with a requeue was tried apart from the runs, with one withdrawal and
`MaxRetries` = 3, because two withdrawals then exceed what a run can take.

Two matches let one balance be staked twice; a wager of 10 loses a unit to rounding
in a draw. A board of three cells and lines of two has a win before the board is
full, a win with the last disc, and a full board without a line. Two handlers are
enough for one to act on what the other has changed. The job of one process stops at
the first match whose transaction fails, which two matches show; that several jobs
run at once is in the theorems.

Two transfers with one memo let the second find the memo used, and one that
the index shows late; three runs would add no pair that is not there. Two faults for
two pollers reach the disagreement of a cursor and a failure row; one more than
`MaxRetries` is never needed, since the row counts.

Two deliveries, two forms and three keys give every order of two deliveries of one
form and of two forms. `MaxPairs` = 6 is six exchanges of refresh tokens, and
`calls` and `faults` in `SmallBudget` are what the scenarios' alarms need: two tabs,
one lost answer. Two of each process, call, tab, socket or fetch elsewhere: every
property of those parts relates at most two.

What a lost lock costs: with a lapse, two handlers of one player may write over
each other's move, and `LockedRoomsAgree` and `HistoryOnlyGrows` speak of behaviours
without one. The code logs a failed renewal and goes on, so this is the price of an
outage of Redis longer than the lock's five seconds; `GameIsSound` survives it.

*Fairness.* `WithdrawalProgress`: the timers of the worker and the sweep do not stop,
a process is restarted, the lock has a TTL, the chain accepts or expires every message
and Toncenter indexes every transfer (weak fairness). A claim, a lookup or a
confirmation that is tried for ever does not fail for ever: strong fairness, per
document for the sweep because it abandons the rest of its list at a failure.
`Matches`: the expiry job runs every 30 seconds, and time passes, so a match nobody
touches is in the list of a later scan; its transactions do not fail for ever (strong
fairness, for every match, because the job stops at the first that fails). Nothing
makes a player move. `Deposits`: the job of some process that takes part goes on and a
back-off ends (weak); faults are bounded. Merchants owe nothing. `Orders`: the job
that claims relays runs, a relay it works on is posted or fails, and its wait ends
(weak). That a failure is written is not assumed: `RelaysSettle` excepts a relay lost
that way. Customers and merchants owe nothing.

*Symmetry.* Processes, operators, reviewed details, deliveries and players are
interchangeable in `WithdrawalLapse`, `WithdrawalPair` and `Rooms`, none of which
checks liveness.

## 4. Findings and observations

Three runs expect a violation; each is traced to a line in `PROJECT.json`.

1. `WithdrawalEarlyRefund`: `recoverStuckWithdrawal` refunds as soon as one lookup
   finds no transfer. A withdrawal is stuck 90 seconds after a broadcast whose
   message is valid for 300, and the index lags: the refunded transfer may still
   take place. `ChainAgrees` shows that this is the only way to it: a check
   made when the message has expired and the index has caught up is safe.
2. `WithdrawalInterrupted`: recovery of stale claims runs once, at startup, and
   takes claims older than ten minutes; a process that is back sooner leaves its
   claim in `processing`, which neither the sweep nor the operator route accepts.
3. `SessionsKept`: tokens of devices that were signed out are marked as used without
   the time of a rotation, so a device that comes back raises the reuse alarm, and
   every session of the user ends, the one that was kept included.

The properties state what the code does achieve; where it makes an exception, the
exception is in the property. The ones a reader should know:

- *Withdrawals.* A reservation is made on the day computed before `createdAt` is
  stamped and released from the day of `createdAt` (`withdrawal-service.ts:49`): with
  `MidnightRace` TRUE the reservation part of `BooksAgree` fails, money is still
  conserved. A panel that returns from the second factor has forgotten its key: after a
  lost answer, confirming again draws a new key and, with a second approval, pays twice
  (`PaidAgainOnlyIfUnheard`). So does a refusal that reaches the panel while another
  delivery of the same approved review goes on; this came up in the proof of
  `RequestsStaySafe`, and the bounds of `WithdrawalPair` have since let the run reach it.
- *Orders.* A refusal (4xx) while an earlier delivery of the same key is under way makes
  the panel drop the key, and one form may place two SELL orders
  (`PlacedTwiceOnlyIfLate`). The hash of an order's payload includes the rate of the
  server: a retry after a change of rate is refused as a reused key. M-Pesa attempts
  are counted with a read and a write, and cleared before the order commits. A relay
  claimed by a process that dies, or whose failure cannot be written
  (`order-proof-relay.service.ts:119,131`), stays in `processing`.
- *Deposits.* A transfer that the index shows after a younger one, once the cursor has
  passed it, or that is a day old before there is a cursor (`deposit-poller.ts:18`), is
  found only by a window replay. A poll that overlaps several replays may
  write a deposit that was given up, with its alert, back to `pending` with its full
  count: no replay takes it again and the cursor does not pass it
  (`failed-deposit-ingestion.repository.ts`, `upsertFailure` and
  `findEarliestPendingTransactionTime`). This takes more failures than the run has; it
  came up in the proof of `NoTransferIsLost`.
- *Sessions.* Overlapping refreshes of two tabs, or a lost answer, raise the reuse
  alarm. A sign-in with the old password that overlaps a reset survives it, and the
  rehash it started may put the old password back. A late answer may overwrite newer
  cookies of another tab.
- *Factors.* `regenerateRecoveryCodes` writes back what it read before a code was spent;
  two mails that overlap leave two links alive; a crash between the consumption of a
  link and its effect spends it.
- *Rooms.* In memory, a socket that disconnects while its join or a handler with an
  older copy runs stays shown, and the room is never cleaned. `readSocketBindings`
  answers null where `??` falls back to the stored socket. An unhandled rejection of
  `handleDisconnect` shuts the process down. A room-sync that leaves late shows an
  older board, and a change whose telling is lost (`public-match-events.ts:49`, a room
  that cannot be stored) is shown only when something else happens.
- *Jobs.* The stop waits for no run of a timer or of the stream, nor for the handlers of
  sockets or of requests whose client hung up. `io.close` also closes
  the HTTP server, so that its own close then fails. Nothing reconciles what a break of
  the stream lost until the next poll.
- *Others.* A rating that fails is swallowed inside the transaction. A late success
  closes an open circuit. Another process keeps its copy until its TTL, and a
  configuration is written back whole, with another admin's change undone; two edits of
  one field may also be stored in another order than they were begun, and the property
  first took the earlier one for lost, which the proof of `CopiesStayExcused` showed. Lists in the
  browser show what was true at the click (deposits), the later of two answers to
  arrive (trades, devices), or the browser's cache (lobby); the history reads at most
  10,000 transactions. A deposit panel may take the late report of one payment for
  another's, and a wallet that fails after sending invites a second payment. A repeated
  pair's limit holds because both players are written: the match that comes second
  conflicts and counts again.

## 5. Proofs

The theorems hold for any sets of withdrawals, users, processes, operators, matches,
players, jobs, handlers, transfers, memos, runs, merchants, forms, reviews, deliveries, intents,
keys, browsers and tabs, any amounts, limits, days, wagers, boards, retries and budgets, with or without
lock, crashes and failures. The only assumptions are the named ones about the
constants: `ConstantsAssumption` and `NoMsgAssumption` (withdrawals),
`SettlementAssumption` (matches), `RoomAssumption` and `BoardAssumption` (rooms), `DepositAssumption`, `OrderAssumption`,
`SessionAssumption` and `FactorAssumption`; TLC evaluates them in the runs. They type the constants and say
that a null value is none of the real ones. Theorems about sums also say in their
statement that a set is finite where the code's collections are, and `RequestsStaySafe` that the
bound on keys is a natural number, `CircuitStaysHonest` that a circuit opens after one failure
or more and stays open for a time, `ShutdownStaysOrderly` that a job has at least one
attempt and the first of the jobs is one of them, `RatingsStayTrue` that each match names
two players and the limit of full weight is not above that of half weight
(`RatingLimits`, as in `rating.ts`), and `PaymentStaysFollowed` that the number of memos
is a natural number.

| module | theorem | states |
|---|---|---|
| `WithdrawalProofs` | `TypeCorrect` | `TypeOK`: above all, no balance below zero |
| | `PipelineInvariant` | the inductive invariant of the next five |
| | `OneTransfer`, `ExclusiveClaim`, `SafeAutomaticRefund`, and together `OneMessageForEach` | `OneMessage` |
| | `FinalOutcomes` | `OutcomesAreFinal` |
| | `PipelineHoldsFunds` | `HoldsFunds`, the refinement of `HeldFunds` |
| | `OneRefundForEach` | `RefundedIffFailed` |
| | `FundsAreConserved` | balances, holdings and payments add up, midnight included |
| | `WithdrawalBooksAgree` | `BooksAgree`, if no request straddles midnight |
| | `DocumentsAgreeWithChain` | `ChainAgrees` |
| `RequestProofs` | `RequestsStaySafe` | `RequestsAreSafe` |
| `GameProofs` | `SettlementTypeCorrect` | `SettlementTypeOK` |
| | `SettlementKeepsEscrow` | `StakesLeaveOnce`, the refinement of `WagerEscrow` |
| | `ResultsStay`, `FreshActivityWins` | `ResultsAreFinal`, `ActivityWins` |
| | `MatchBooksAddUp` | `MatchBooksOK` |
| | `GameInvariant`, `LocksKeepRooms` | the inductive invariants of the next four |
| | `RoomsImplementSettlement` | the rooms implement `SettlementSpec` |
| | `GamesAreSound` | `GameIsSound`, with or without locks |
| | `LockedRoomsStayTrue`, `HistoriesOnlyGrow` | `LockedRoomsAgree`, `HistoryOnlyGrows` |
| `DepositProofs` | `DepositInvariant`, `DepositBooksCorrect` | `DepositBooksOK` |
| | `IngestionImplementsLedger` | `CreditedOnce`, the refinement of `DepositLedger` |
| | `AnswersAreTrue`, `NoTransferIsLost` | `AnswerIsTrue`, `NothingIsLost` |
| `OrderProofs` | `OrderBooksAgree`, `NoticesHold`, `OrdersStayFinal`, `OneOrderPerForm` | `OrderBooksOK`, `NoticesAreTrue`, `OrdersAreFinal`, `PlacedTwiceOnlyIfLate` |
| `IdentityProofs` | `TokensStaySound`, `ResetsEndSessions`, `SessionsStayKept` | `TokensAreSound`, `ResetsHold`, `SessionsAreKept` |
| | `FactorInvariant`, `FactorsAreSound` | `FactorsHold` |
| `PartProofs` | `PresenceStaysTrue` | `PresenceIsTrue` |
| | `CircuitStaysHonest` | `CircuitIsHonest` |
| | `FinalStaysCaught` | `FinalIsCaught` |
| | `CopiesStayExcused` | `CopiesAreExcused` |
| | `ShutdownStaysOrderly` | `ShutdownIsOrderly` |
| | `RatingsStayTrue` | `RatingsFollowEvents` |
| | `PaymentStaysFollowed` | `PaymentIsFollowed` |
| `SumTheorems` | `SumChange` | what changing one term does to a sum over a finite set |

*Withdrawals: types.* `TypeOK` needs `Jobs`: a worker, a sweep, a recovery or a request
past its first step has a withdrawal in hand, and a transfer it found is an indexed
one of that withdrawal.

*Withdrawals: safety.* `AtMostOneTransfer` needs that a worker about to sign holds a
document in `processing` for which nothing was broadcast (`UnsentClaims`). To
preserve it, nobody else may move that document, so: claims are exclusive; what a
sweep or an operator has in hand is past processing (`SweepPast`, `DeskPast`); what
a recovery has in hand no worker works on (`BootPast`); a queued document has no
message (`QueuedIsUnsent`); and a stuck one has a `sentAt` (`StuckWasSent`), by
which an operator's refund is told from an automatic one. The proof sorts all
steps into `Judging` (the document of no pending claim is moved on) with
`Advancing` (workers keep or drop what they have), and the three steps that are
neither: the claim, the send, the retry.

*Withdrawals: books.* Every step is one of four kinds for the books (`Booking`): it
moves held withdrawals on, or holds, settles or returns one. Finality and the
refinement read off that case distinction, and so do the sums: each kind changes
one term of a balance's, a total's or a day's sum. The reservation part of
`BooksAgree` needs that the day reserved on is the day of the document, which
`MidnightRace` = FALSE gives; conservation does not, and is a theorem of its own.
`ChainAgrees` needs that a worker past its send has signed with the number it read, and that a refund
that is not early followed a lookup made when nothing of the withdrawal could still come.

*Requests.* `Typed` and `Refers` say what the panel, the deliveries, the keys, the
intents and the queue may hold and how they refer to each other: a delivery past the
claim holds the intent it took, an intent is for one key and its details, a key is
drawn for one form. From this follows `ApprovalsAreHonoured`. `PayInv` is about paying
once. As long as the panel can be confirmed again for a review of which it has missed no
answer, a delivery with an approval, or a withdrawal queued for it, means that the panel
waits for such a delivery (`PayingIsAwaited`, `PaidIsAwaited`), and until an answer is
missed all of a review carry one key (`OneKeyPays`). Most
steps bring no new payer (`NoNewPayer`); two need their own proof: the panel that
returns verified (`ReturnPays`) and the commit (`QueuePays`).

*Sums.* `MapThenSumSet` is a recursive function over finite sets, and the provers have
no induction. `SumTheorems` takes a smallest set for which a claim fails, by
the well-foundedness of the naturals, and drops one element of it. The same argument
(`Least`) shows in `IdentityProofs` that a sign-in that ends the oldest sessions leaves no more than the limit.

*Matches.* A settlement pays who sits in the match, so `SettlementTypeOK` needs
the seats to go with the status (`Seating`): one player while it waits, two different
ones while it is played. `ActivityWins` needs one thing more. The job reads the last
activity of an active match again before it settles, but not of a waiting one; that
this is enough is `Listing`: a listed match that still waits has not been touched,
for a match starts to wait only once, when it is created. Every step is one of
five kinds for the documents and the money (`Kinds`): somebody takes a seat, a match is
called off, a match with two players is settled, a history is persisted, or nothing
is written. Finality, the refinement and the sums read off those kinds; the
refinement and the sums also need that the payouts divide the pot but for one raw
unit (`WinDividesPot`, `DrawDividesPot`).

*Rooms.* `GInv` needs no lock: a cached room, and what a handler has read, is a copy of
its match, perhaps old (`Copy`), and what a handler is going to write is a game of the
players of the match that goes on (`Persistable`) or ends with its last move
(`Completing`). These stay true whatever others do to the match (`Kept`: seats are not
given away and a completed match does not change), so every history that is stored is a
game, and one that fits the board, for no two of its moves are on one cell
(`GameIsShort`, by the pigeonhole principle). Hence each step is one of
`MatchSettlement`, and its theorems hold for the rooms. `LockInv` is the rest: while no
lock is lost, one handler works on a match at a time, what it has read is the match as
it is, and what it writes begins with the stored history; and what was cached or
reported is a prefix of it. What happens without the lock, requests, the job, a dying
process, makes no moves.

*Deposits.* A run decides on what it read and writes later, so `BooksInv` says what the
collections agree on and `DepositInv` that plans and requests in hand can still be
carried out. `BookChange` names what a step does to the books; every step is one of
these and each is a step of the ledger. `AnswersInv` adds what a merchant whose
request found the review resolved may be told. `LossInv` is about order: a run that
stores a cursor has ingested, or recorded as failed, all it fetched below it
(`RunsAnswer`), and what is resolved was seen; what shows late or outdates only takes
transfers out of its reach (`StepGrows`). Its proof attempt found the deposit
written back to `pending` (section 4): the property excuses the alerted.

*Orders.* `BooksInv` says that balance, rows and codes are those of the orders, and what
each request has reserved before its commit. `NoticesInv` says who may still tell of
an order: the request that placed it, the merchant who decided it, and one holder of
its relay. `FormInv` says which key a form uses and which delivery the panel waits
for: while an answer is awaited that is not late, nothing else with its key is under
way, so a second key comes only out of a refusal beside an earlier delivery.

*Sessions.* `TokensInv` says at which step a call may be and what it has in hand there,
and that what a session holds was drawn for it and not exchanged. `ResetInv` follows a
reset from the new password on: those who can still create an old session overlapped
it, and those it read are the ones it ends. `KeptInv` is the invariant of undisturbed
use: without an upset (an overlap, a fault, a revocation) each token is in one pair of
hands (`Quiet`), so no marker of reuse is found by an honest refresh (`QuietInv`); the
one sign-in under way ends what its device had (`DeviceInv`) and the oldest session
beyond the limit (`CountInv`).

*Factors.* `HasInHand` says what a request that has read the account, taken a link or
forgotten a set-up still finds. A link on its way is in the hands of one request
(`MailedByOne`), and while no two mails of a kind overlapped no other link of its kind is
good (`KindInv`); a link that is alive and was mailed is good or about to be taken back
(`LatestInv`). A regeneration that was not overtaken holds the secret that counts. The
proof attempt corrected two things: a set-up was possible before there was an account to
set it up for, and `LinksAreLatest` did not say that there is one good link of a kind.

*Presence.* `RoomInv` says that a socket a room shows for a player is one that is bound to
it, or late. `CallInv` says the same of what each handler has in hand and, once it is
inside, that nobody else is (`OneInside`): the room it read is the room as stored.
`SeatInv` says that a handler past its check has a copy with its player's seat.

*Circuit.* A circuit that is not closed has seen its threshold of failures
in a row among the calls that ended last, and one that is open was opened by the last of
them: the count of failures is that of the trailing failures (`FailedLast`).

*Stream.* A final transfer that was not caught is one of those the process missed, is on its
way in the stream (`OnItsWay`), or is in the hands of a task: a run that will start
(`WillRun`) or one that goes on and has read it (`IsRunning`); what a run does not find
it misses.

*Cache.* `CopiesInv` says what excuses each copy and each load that does not hold what is
stored; `EditsInv` what an edit has in hand and which copies it will still clear; `LostInv`
which edits an earlier read took back. The proof attempt corrected the model (section 4).

*Process.* `PartsInv` says that what runs has its part: no job without the services, no
request without the listener, none of them after the stop that ends it. `CutInv` and
`DeadInv` add which runs a stop cuts and which letters a failed job leaves.

*Ratings.* A transaction that has written a player's document keeps the version it read,
and no other has written it (`HeldInv`): this is what the database's write conflicts
give. A snapshot that is not behind in a version still holds that player's rating, and,
for the first of the two players, fewer events of the pair than the limit (`SnapshotInv`),
for an event of the pair changes both. So the commit appends an event that starts where
the last one of each player ended (`ChainInv`) and the pair stays within its limit
(`CapInv`). Players of a match whose call was lost are left out from its commit on
(`Spoilt`).

*Deposit panel.* A memo that is still to be drawn or on its way to the panel is unused
(`NewInv`), so a memo never comes back; a poll that counts asks for the memo the panel
waits for (`PollOK`), so only that one is confirmed, once (`RefreshInv`). `PayInv` is about
paying once: a memo that was not turned from, nor paid unheard, nor mistaken
has one payment at most, whose report the panel awaits.

*Only model-checked.* Liveness (`AllIsSettled`, `StakesAreFreed`, `Ingested`,
`RelaysSettle`), which the provers cannot do. `HistoriesAreShown`: what `CheckWin`
finds for every board would be an induction over a game. `AmountsAgree`: its totals are
folds over a script, an induction too, and so is what `FeedIsWhole` says of a list that is
filtered. `PagesAreCurrent` has no proof: it holds in the run.

## 6. Plan

1. A proof of `PagesAreCurrent`, page by page.
2. A sweep with its batch limit and order, where old stuck documents starve new ones.

## 7. Not modelled

Money arithmetic on decimal strings, the HTTP rate limits of a library, e-mail bodies,
audit rows, logs, metrics and configuration checks: no other state depends on them.
Password hashing, token formats and the arithmetic of TOTP. The back-off of
reconnections, the heartbeat that renews a socket's binding, the waiting time of a lock.
`monitorHotWalletBalances` and the merchant dashboard's aggregations read and report.
How a queue of BullMQ stores and hands out its jobs is a library's. The aggregates and
views of the client that only draw what they are given. Each component's row in
`PROJECT.json` gives the reason.

## 8. Running

    tlc -config WithdrawalPair.cfg MCWithdrawalPair.tla
    tlc -config Matches.cfg MCMatchSettlement.tla
    tlc -config Rooms.cfg MCGameRoom.tla
    tlc -config Deposits.cfg MCDepositIngestion.tla
    tlc -config Orders.cfg MCOrderDesk.tla
    tlc -config Identity.cfg MCIdentity.tla
    tlc -config SessionsKept.cfg MCAuthSessions.tla
    tlc -config Parts.cfg MCParts.tla
    tlapm WithdrawalProofs.tla
    tlapm GameProofs.tla
    tlapm RequestProofs.tla
    tlapm IdentityProofs.tla
    tlapm PartProofs.tla
    tlapm DepositProofs.tla
    tlapm OrderProofs.tla

The other withdrawal runs use `MCWithdrawalPipeline.tla`. A run takes between a few
seconds and four minutes with two workers, a proof module up to a few minutes, `IdentityProofs` up to a quarter of an hour.
