----------------------------- MODULE OrderDesk -----------------------------
(***************************************************************************)
(* P2P orders, from the customer's form to the merchant's decision.        *)
(*                                                                         *)
(* The panel keeps one idempotency key for a form until the server answers *)
(* it for good.  The server runs each request in one Mongo transaction     *)
(* that claims the key, so what it read is checked again when it commits:  *)
(* a conflict sends it back to the claim.  Redis, where rejected M-Pesa    *)
(* codes are counted, is outside that transaction.  A BUY order carries a  *)
(* screenshot that is posted to a Telegram channel, by the request itself  *)
(* or by a background job.  Merchants complete or reject orders.           *)
(*                                                                         *)
(* There is one customer and every order is for one unit.  All requests    *)
(* run in one process, which may die.  Bounds says how often all this may *)
(* happen.  Definitions no action uses are faulty variants for mutation    *)
(* runs.                                                                   *)
(***************************************************************************)
EXTENDS Integers, Sequences, FiniteSets

CONSTANTS
    Scenes,       \* instances checked side by side
    Codes,        \* M-Pesa codes a BUY form may carry
    GoodCodes,    \* those that decode to a date within the payment window
    Keys,         \* the keys the panel may draw, 1..n
    Slots,        \* deliveries under way
    Merchants,
    StartBalance,
    MaxFailed,    \* MPESA_CODE_MAX_FAILED_ATTEMPTS
    MaxTries,     \* MAX_RELAY_ATTEMPTS
    Bounds        \* of each scene: the contents of forms, codes or "SELL",
                  \* how many forms, deliveries, rates and crashes, and who
                  \* of the merchants is there

ASSUME OrderAssumption ==
    /\ GoodCodes \subseteq Codes
    /\ "SELL" \notin Codes
    /\ Keys \subseteq Nat \ {0}
    /\ {MaxFailed, MaxTries} \subseteq Nat \ {0}
    /\ StartBalance \in Nat
    /\ Bounds \in [Scenes -> [contents : SUBSET (Codes \cup {"SELL"}),
                              forms : Nat, sends : Nat, rates : Nat,
                              crashes : Nat, staff : SUBSET Merchants]]

VARIABLES
    forms,     \* what the customer has filled in so far, in order
    panel,     \* the form open, the key held for it, the delivery awaited
    request,   \* what each delivery is doing
    docs,      \* idempotency_keys: the payload and order of each key
    orders,
    rows,      \* the ledger rows that refer to each order
    relays,    \* order_proof_relays
    balance,
    rate,
    attempts,  \* the count of rejected codes in Redis
    counter,   \* the status change each merchant has under way
    crashes,   \* deaths of the process, and outcomes of relays not written
    past,      \* history only
    scene      \* never changes

orderState == <<forms, panel, request, docs, orders, rows, relays, balance,
                rate, attempts, counter, crashes, past>>
orderVars  == <<orderState, scene>>

IsBuy(f) == f \in Codes
None     == 0
Free     == [pc |-> "free"]
NoRelay  == [status |-> "none", tries |-> 0, due |-> FALSE, at |-> "none",
             by |-> {}]
NoNotes  == [placed |-> 0, final |-> 0, posts |-> 0, unheard |-> 0]
Finals   == {"DONE", "REJECTED"}

OrderInit ==
    /\ forms = <<>>
    /\ panel = [draft |-> None, content |-> "none", key |-> None, awaits |-> {}]
    /\ request = [q \in Slots |-> Free]
    /\ docs = [k \in Keys |-> None]
    /\ orders = <<>> /\ rows = <<>> /\ relays = <<>>
    /\ balance = StartBalance
    /\ rate = 1
    /\ attempts = 0
    /\ counter = [m \in Merchants |-> Free]
    /\ crashes = 0
    /\ scene \in Scenes
    /\ past = [sends |-> 0, keys |-> 0, failures |-> 0, hasty |-> {},
               notes |-> <<>>]

(***************************************************************************)
(* The panel.                                                              *)
(***************************************************************************)
FillIn(f) ==
    /\ panel.awaits = {}
    /\ Len(forms) < Bounds[scene].forms
    /\ forms' = Append(forms, f)
    /\ panel' = [panel EXCEPT !.draft = Len(forms) + 1]
    /\ UNCHANGED <<request, docs, orders, rows, relays, balance, rate,
                   attempts, counter, crashes, past>>

(* The key held belongs to a content: another one draws another. *)
KeyFor(f) == IF panel.key # None /\ panel.content = f
             THEN panel.key ELSE past.keys + 1

Unanswered(r, k) == /\ request[r].pc \notin {"free", "answered"}
                    /\ request[r].key = k

Submit(q) ==
    /\ panel.draft # None /\ panel.awaits = {} /\ request[q] = Free
    /\ past.sends < Bounds[scene].sends
    /\ LET f == forms[panel.draft]
           k == KeyFor(f)
       IN /\ k \in Keys
          /\ request' = [request EXCEPT ![q] =
                 [pc |-> "sent", draft |-> panel.draft, key |-> k,
                  late |-> \E r \in Slots : Unanswered(r, k),
                  rate |-> None, seen |-> 0, order |-> None, fresh |-> FALSE,
                  answer |-> "none"]]
          /\ panel' = [panel EXCEPT !.content = f, !.key = k, !.awaits = {q}]
          /\ past' = [past EXCEPT !.sends = @ + 1,
                                  !.keys = IF k > @ THEN k ELSE @]
    /\ UNCHANGED <<forms, docs, orders, rows, relays, balance, rate, attempts,
                   counter, crashes>>

(* A request or its answer gets lost: the panel keeps the key.  What was sent
   may still arrive. *)
KeyWhenLostBroken == None
KeyWhenLost       == panel.key

GiveUp(q, arrives) ==
    /\ q \in panel.awaits
    /\ arrives \/ request[q].pc = "sent"
    /\ panel' = [panel EXCEPT !.awaits = {}, !.key = KeyWhenLost]
    /\ request' = IF arrives THEN request ELSE [request EXCEPT ![q] = Free]
    /\ UNCHANGED <<forms, docs, orders, rows, relays, balance, rate, attempts,
                   counter, crashes, past>>

(* A 4xx other than 409 gives the key up, a 409 keeps it. *)
Deliver(q) ==
    /\ request[q].pc = "answered"
    /\ request' = [request EXCEPT ![q] = Free]
    /\ IF q \notin panel.awaits THEN UNCHANGED <<panel, past>>
       ELSE /\ panel' = [panel EXCEPT
                   !.awaits = {},
                   !.key = IF request[q].answer = "conflict" THEN @ ELSE None,
                   !.draft = IF request[q].answer = "placed" THEN None ELSE @]
            /\ past' = [past EXCEPT !.hasty =
                   IF request[q].answer = "refused" /\ request[q].late
                   THEN @ \cup {panel.draft} ELSE @]
    /\ UNCHANGED <<forms, docs, orders, rows, relays, balance, rate, attempts,
                   counter, crashes>>

(***************************************************************************)
(* The request.                                                            *)
(***************************************************************************)
FormOf(q) == forms[request[q].draft]

Arrive(q) ==
    /\ request[q].pc = "sent"
    /\ request' = [request EXCEPT ![q] =
           IF IsBuy(FormOf(q)) /\ attempts >= MaxFailed
           THEN [@ EXCEPT !.pc = "answered", !.answer = "refused"]
           ELSE IF IsBuy(FormOf(q)) /\ FormOf(q) \notin GoodCodes
           THEN [@ EXCEPT !.pc = "counting"]
           ELSE [@ EXCEPT !.pc = "claiming", !.rate = rate]]
    /\ UNCHANGED <<forms, panel, docs, orders, rows, relays, balance, rate,
                   attempts, counter, crashes, past>>

(* recordFailedMpesaCodeAttempt is a GET and then a SET. *)
CountRead(q) ==
    /\ request[q].pc = "counting"
    /\ request' = [request EXCEPT ![q].pc = "recording", ![q].seen = attempts]
    /\ UNCHANGED <<forms, panel, docs, orders, rows, relays, balance, rate,
                   attempts, counter, crashes, past>>

CountWrite(q) ==
    /\ request[q].pc = "recording"
    /\ attempts' = request[q].seen + 1
    /\ past' = [past EXCEPT !.failures = @ + 1]
    /\ request' = [request EXCEPT ![q].pc = "answered", ![q].answer = "refused"]
    /\ UNCHANGED <<forms, panel, docs, orders, rows, relays, balance, rate,
                   counter, crashes>>

AttemptsExpire ==
    /\ attempts # 0
    /\ attempts' = 0
    /\ UNCHANGED <<forms, panel, request, docs, orders, rows, relays, balance,
                   rate, counter, crashes, past>>

(* Hash of the payload: the rate and total the server reads are part of it. *)
Hash(q)     == <<FormOf(q), request[q].rate>>
HashOf(o)   == <<forms[orders[o].draft], orders[o].rate>>

(* MPESA_CODE_DUPLICATE_POLICY is "reject". *)
CodeUsed(f) == \E o \in DOMAIN orders : forms[orders[o].draft] = f

ClaimTaken(q) ==
    /\ request[q].pc = "claiming" /\ docs[request[q].key] # None
    /\ LET o == docs[request[q].key]
       IN request' = [request EXCEPT ![q] =
             IF HashOf(o) # Hash(q)
             THEN [@ EXCEPT !.pc = "answered", !.answer = "conflict"]
             ELSE [@ EXCEPT !.pc = "settling", !.order = o]]
    /\ UNCHANGED <<forms, panel, docs, orders, rows, relays, balance, rate,
                   attempts, counter, crashes, past>>

ClaimFresh(q) ==
    /\ request[q].pc = "claiming" /\ docs[request[q].key] = None
    /\ request' = [request EXCEPT ![q] =
           IF IsBuy(FormOf(q))
           THEN [@ EXCEPT !.pc = IF CodeUsed(FormOf(q)) THEN "counting"
                                 ELSE "clearing"]
           ELSE IF balance = 0
           THEN [@ EXCEPT !.pc = "answered", !.answer = "refused"]
           ELSE [@ EXCEPT !.pc = "committing"]]
    /\ UNCHANGED <<forms, panel, docs, orders, rows, relays, balance, rate,
                   attempts, counter, crashes, past>>

(* Redis forgets the failures before the transaction that clears them is in. *)
ClearAttempts(q) ==
    /\ request[q].pc = "clearing"
    /\ attempts' = 0
    /\ request' = [request EXCEPT ![q].pc = "committing"]
    /\ UNCHANGED <<forms, panel, docs, orders, rows, relays, balance, rate,
                   counter, crashes, past>>

(* Another transaction has written what this one writes: the key's document,
   the index of codes, the customer's balance.  Most such writes conflict and
   are tried again; a duplicate key found only then ends the request, which
   leaves nothing behind and which GiveUp and Submit send again. *)
ConflictsUnseen(q) == ~IsBuy(FormOf(q)) /\ balance = 0
Conflicts(q) ==
    \/ docs[request[q].key] # None
    \/ IF IsBuy(FormOf(q)) THEN CodeUsed(FormOf(q)) ELSE balance = 0

Retry(q) ==
    /\ request[q].pc = "committing" /\ Conflicts(q)
    /\ request' = [request EXCEPT ![q].pc = "claiming"]
    /\ UNCHANGED <<forms, panel, docs, orders, rows, relays, balance, rate,
                   attempts, counter, crashes, past>>

(* enqueueOrderProofRelay, in the order's transaction. *)
Enqueued == [NoRelay EXCEPT !.status = "pending", !.due = TRUE]

Commit(q) ==
    /\ request[q].pc = "committing" /\ ~Conflicts(q)
    /\ orders' = Append(orders, [draft |-> request[q].draft,
                                 key |-> request[q].key,
                                 rate |-> request[q].rate,
                                 status |-> "PENDING", proof |-> None])
    /\ rows' = Append(rows, [trade |-> "PENDING", refund |-> FALSE])
    /\ relays' = Append(relays, IF IsBuy(FormOf(q)) THEN Enqueued ELSE NoRelay)
    /\ balance' = IF IsBuy(FormOf(q)) THEN balance ELSE balance - 1
    /\ docs' = [docs EXCEPT ![request[q].key] = Len(orders')]
    /\ request' = [request EXCEPT ![q].pc = "settling",
                                  ![q].order = Len(orders'), ![q].fresh = TRUE]
    /\ past' = [past EXCEPT !.notes = Append(@, NoNotes)]
    /\ UNCHANGED <<forms, panel, rate, attempts, counter, crashes>>

(***************************************************************************)
(* The relay of the screenshot, by a request or by the job.                *)
(***************************************************************************)
ClaimableAgain(o) == relays[o].status \in {"pending", "processing"}
Claimable(o)      == relays[o].status = "pending" /\ relays[o].due

ClaimRelay(o, who) == relays' = [relays EXCEPT ![o].status = "processing",
                                               ![o].tries = @ + 1,
                                               ![o].at = "claimed",
                                               ![o].by = {who}]

Settle(q) ==
    /\ request[q].pc = "settling"
    /\ request' = [request EXCEPT ![q].pc = "finishing"]
    /\ IF Claimable(request[q].order) THEN ClaimRelay(request[q].order, q)
       ELSE UNCHANGED relays
    /\ UNCHANGED <<forms, panel, docs, orders, rows, balance, rate, attempts,
                   counter, crashes, past>>

(* Only a request that was no replay sends the merchant a mail. *)
MailsPlacedAlways(q) == TRUE
MailsPlaced(q)       == request[q].fresh

Finish(q) ==
    /\ request[q].pc = "finishing" /\ q \notin relays[request[q].order].by
    /\ request' = [request EXCEPT ![q].pc = "answered", ![q].answer = "placed"]
    /\ past' = IF MailsPlaced(q)
               THEN [past EXCEPT !.notes[request[q].order].placed = @ + 1]
               ELSE past
    /\ UNCHANGED <<forms, panel, docs, orders, rows, relays, balance, rate,
                   attempts, counter, crashes>>

JobClaims(o) ==
    /\ Claimable(o)
    /\ \A p \in DOMAIN relays : "job" \notin relays[p].by
    /\ ClaimRelay(o, "job")
    /\ UNCHANGED <<forms, panel, request, docs, orders, rows, balance, rate,
                   attempts, counter, crashes, past>>

PostProof(o) ==
    /\ relays[o].at = "claimed"
    /\ relays' = [relays EXCEPT ![o].at = "posted"]
    /\ past' = [past EXCEPT !.notes[o].posts = @ + 1]
    /\ UNCHANGED <<forms, panel, request, docs, orders, rows, balance, rate,
                   attempts, counter, crashes>>

(* The proof an order already has is kept. *)
ProofToKeep(o, new) == IF orders[o].proof # None THEN orders[o].proof ELSE new

PersistProof(o) ==
    /\ relays[o].at = "posted"
    /\ orders' = [orders EXCEPT ![o].proof = ProofToKeep(o, past.notes[o].posts)]
    /\ relays' = [relays EXCEPT ![o].status = "completed", ![o].at = "none",
                                ![o].by = {}]
    /\ UNCHANGED <<forms, panel, request, docs, rows, balance, rate, attempts,
                   counter, crashes, past>>

(* The post fails, for good or not, or is made without its answer being heard
   or recorded. *)
AfterFailureHeld(o, forGood) ==
    [relays[o] EXCEPT !.at = "none", !.by = {}, !.due = FALSE,
       !.status = IF forGood THEN "terminal_failure" ELSE "processing"]
AfterFailure(o, forGood) ==
    [relays[o] EXCEPT !.at = "none", !.by = {}, !.due = FALSE,
       !.status = IF forGood \/ relays[o].tries >= MaxTries
                  THEN "terminal_failure" ELSE "pending"]

(* The outcome is written once: a write that fails leaves the relay in
   processing, though the process goes on. *)
Unmarked(o) == [relays[o] EXCEPT !.at = "lost", !.by = {}]

RelayFails(o, forGood, posted) ==
    /\ \/ relays[o].at = "claimed"
       \/ relays[o].at = "posted" /\ ~forGood /\ ~posted
    /\ forGood => ~posted
    /\ \/ /\ relays' = [relays EXCEPT ![o] = AfterFailure(o, forGood)]
          /\ UNCHANGED crashes
       \/ /\ crashes < Bounds[scene].crashes
          /\ crashes' = crashes + 1
          /\ relays' = [relays EXCEPT ![o] = Unmarked(o)]
    /\ past' = [past EXCEPT
           !.notes[o].posts = IF posted THEN @ + 1 ELSE @,
           !.notes[o].unheard =
               IF posted \/ relays[o].at = "posted" THEN @ + 1 ELSE @]
    /\ UNCHANGED <<forms, panel, request, docs, orders, rows, balance, rate,
                   attempts, counter>>

RelayFallsDue(o) ==
    /\ relays[o].status = "pending" /\ ~relays[o].due
    /\ relays' = [relays EXCEPT ![o].due = TRUE]
    /\ UNCHANGED <<forms, panel, request, docs, orders, rows, balance, rate,
                   attempts, counter, crashes, past>>

(***************************************************************************)
(* The merchants.                                                          *)
(***************************************************************************)
MayRedecide(o) == TRUE
MayDecide(o)   == orders[o].status = "PENDING"

Decide(m, o, status) ==
    /\ counter[m] = Free
    /\ orders[o].status # status /\ MayDecide(o)
    /\ LET buy == IsBuy(forms[orders[o].draft])
       IN /\ balance' = IF buy = (status = "DONE") THEN balance + 1 ELSE balance
          /\ rows' = [rows EXCEPT
                 ![o] = [trade |-> IF status = "DONE" THEN "COMPLETED"
                                   ELSE "REJECTED",
                         refund |-> ~buy /\ status = "REJECTED"]]
    /\ orders' = [orders EXCEPT ![o].status = status]
    /\ counter' = [counter EXCEPT ![m] = [pc |-> "mailing", order |-> o]]
    /\ UNCHANGED <<forms, panel, request, docs, relays, rate, attempts, crashes,
                   past>>

MailFinal(m) ==
    /\ counter[m].pc = "mailing"
    /\ past' = [past EXCEPT !.notes[counter[m].order].final = @ + 1]
    /\ counter' = [counter EXCEPT ![m] = Free]
    /\ UNCHANGED <<forms, panel, request, docs, orders, rows, relays, balance,
                   rate, attempts, crashes>>

ChangeRate ==
    /\ rate < Bounds[scene].rates
    /\ rate' = rate + 1
    /\ UNCHANGED <<forms, panel, request, docs, orders, rows, relays, balance,
                   attempts, counter, crashes, past>>

(* The process dies with what it was doing.  A relay it had claimed stays in
   processing. *)
Running(q) == request[q].pc \notin {"free", "sent", "answered"}

Crash ==
    /\ crashes < Bounds[scene].crashes
    /\ crashes' = crashes + 1
    /\ request' = [q \in Slots |-> IF Running(q) THEN Free ELSE request[q]]
    /\ panel' = [panel EXCEPT !.awaits = {q \in @ : ~Running(q)}]
    /\ relays' = [o \in DOMAIN relays |->
           IF relays[o].status = "processing"
           THEN [relays[o] EXCEPT !.at = "lost", !.by = {}] ELSE relays[o]]
    /\ counter' = [m \in Merchants |-> Free]
    /\ UNCHANGED <<forms, docs, orders, rows, balance, rate, attempts, past>>

RelayStep(o) ==
    \/ PostProof(o)
    \/ PersistProof(o)
    \/ \E forGood, posted \in BOOLEAN : RelayFails(o, forGood, posted)

OrderStep ==
    \/ \E f \in Bounds[scene].contents : FillIn(f)
    \/ \E q \in Slots :
          \/ Submit(q) \/ Deliver(q) \/ \E arrives \in BOOLEAN : GiveUp(q, arrives)
          \/ Arrive(q) \/ CountRead(q) \/ CountWrite(q)
          \/ ClaimTaken(q) \/ ClaimFresh(q) \/ ClearAttempts(q)
          \/ Retry(q) \/ Commit(q) \/ Settle(q) \/ Finish(q)
    \/ \E o \in DOMAIN orders :
          \/ JobClaims(o) \/ RelayStep(o) \/ RelayFallsDue(o)
          \/ \E m \in Bounds[scene].staff, status \in Finals : Decide(m, o, status)
    \/ \E m \in Merchants : MailFinal(m)
    \/ AttemptsExpire \/ ChangeRate \/ Crash

OrderNext == OrderStep /\ UNCHANGED scene

OrderSpec == OrderInit /\ [][OrderNext]_orderVars

(***************************************************************************)
(* The job runs on a timer and its calls end, by their timeouts if need    *)
(* be.                                                                     *)
(***************************************************************************)
OrderFairness ==
    \A o \in 1..Cardinality(Keys) :
        /\ WF_orderVars(o \in DOMAIN orders /\ JobClaims(o) /\ UNCHANGED scene)
        /\ WF_orderVars(o \in DOMAIN orders /\ RelayStep(o) /\ UNCHANGED scene)
        /\ WF_orderVars(o \in DOMAIN orders /\ RelayFallsDue(o) /\ UNCHANGED scene)

OrderLiveSpec == OrderSpec /\ OrderFairness

(***************************************************************************)
(* Properties.                                                             *)
(***************************************************************************)
Requests ==
    {Free} \cup
    [pc : {"sent", "counting", "recording", "claiming", "clearing", "committing",
           "settling", "finishing", "answered"},
     draft : Nat, key : Keys, late : BOOLEAN, rate : Nat, seen : Nat,
     order : Nat, fresh : BOOLEAN,
     answer : {"none", "refused", "conflict", "placed"}]

(* Every variable has its type. *)
OrderTypeOK ==
    /\ forms \in Seq(Codes \cup {"SELL"})
    /\ request \in [Slots -> Requests]
    /\ docs \in [Keys -> Nat]
    /\ balance \in Int
    /\ attempts \in Nat
    /\ Len(rows) = Len(orders) /\ Len(relays) = Len(orders)
    /\ \A o \in DOMAIN orders : orders[o].status \in {"PENDING"} \cup Finals

(* The customer's balance is what it was, with every BUY order completed and
   without every SELL order not rejected. *)
Bought == {o \in DOMAIN orders : /\ IsBuy(forms[orders[o].draft])
                                  /\ orders[o].status = "DONE"}
Sold   == {o \in DOMAIN orders : /\ ~IsBuy(forms[orders[o].draft])
                                  /\ orders[o].status # "REJECTED"}
BalanceAddsUp ==
    balance = StartBalance + Cardinality(Bought) - Cardinality(Sold) /\ balance >= 0

(* The ledger says of each order what the order says of itself. *)
RowsAgree ==
    \A o \in DOMAIN orders :
        /\ rows[o].trade = CASE orders[o].status = "DONE" -> "COMPLETED"
                             [] OTHER -> orders[o].status
        /\ rows[o].refund <=> /\ ~IsBuy(forms[orders[o].draft])
                             /\ orders[o].status = "REJECTED"

(* A key places one order and an M-Pesa code pays for one, whatever is
   delivered twice or at once. *)
PlacedOnce ==
    \A o, p \in DOMAIN orders : o # p =>
        /\ orders[o].key # orders[p].key
        /\ LET f == forms[orders[o].draft]
           IN IsBuy(f) => f # forms[orders[p].draft]

(* Nobody is locked out who was not rejected that often. *)
LocksAreEarned == attempts <= past.failures

(* The books of the order desk agree, and keys, codes and locks are spent once
   (createOrder, updateOrderStatus, executeIdempotentMutationV2). *)
OrderBooksOK == OrderTypeOK /\ BalanceAddsUp /\ RowsAgree /\ PlacedOnce
                /\ LocksAreEarned

(* Whatever gets lost and is sent again (handleOrder), a form places two orders
   only if a 4xx made the panel drop the key though an earlier delivery of it
   was still under way when the refused one was sent. *)
PlacedTwiceOnlyIfLate ==
    \A o, p \in DOMAIN orders :
        o # p /\ orders[o].draft = orders[p].draft => orders[o].draft \in past.hasty

(* A mail goes out once for a placed and once for a final order, replays and
   second decisions included; an order shows a proof that was posted, and it was
   posted again only if an earlier post was not recorded. *)
NoticesAreTrue ==
    \A o \in DOMAIN orders :
        LET n == past.notes[o]
        IN /\ n.placed <= 1 /\ n.final <= 1
           /\ n.final = 1 => orders[o].status \in Finals
           /\ n.posts <= n.unheard + 1
           /\ relays[o].status = "completed" <=> orders[o].proof # None
           /\ orders[o].proof <= n.posts

(* A decision on an order, its code and its proof are never taken back. *)
OrdersAreFinal ==
    [][\A o \in DOMAIN orders :
          /\ o \in DOMAIN orders' /\ orders'[o].draft = orders[o].draft
          /\ orders[o].status \in Finals => orders'[o].status = orders[o].status
          /\ orders[o].proof # None => orders'[o].proof = orders[o].proof
          /\ Len(forms') >= Len(forms)]_orderVars

(* Every relay ends, completed or given up (processClaimedOrderProofRelay and
   the job), unless the process that had claimed it died or the one write of its
   outcome failed: nothing takes up what is left in processing. *)
RelaysSettle ==
    \A o \in 1..Cardinality(Keys) :
        (o \in DOMAIN relays /\ relays[o].status \in {"pending", "processing"})
        ~> (o \in DOMAIN relays
            /\ (\/ relays[o].status \in {"completed", "terminal_failure"}
                \/ relays[o].at = "lost" /\ crashes > 0))
=============================================================================
