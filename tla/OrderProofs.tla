---------------------------- MODULE OrderProofs ----------------------------
(***************************************************************************)
(* That the books of OrderDesk agree, that a form places one order, and    *)
(* that its notices are true, for any number of forms, deliveries, keys,   *)
(* codes, merchants, rates and crashes.                                    *)
(*                                                                         *)
(* Typed and Refers say what the documents and the requests under way are  *)
(* and that they refer to what exists.  Kept says what a step may do to a  *)
(* delivery that it does not send.  BooksInv adds that the balance, the    *)
(* rows and the codes are those of the orders; NoticesInv, who may still   *)
(* tell of an order and how far its relay is; FormInv, which key a form    *)
(* uses and which delivery the panel waits for.                            *)
(***************************************************************************)
EXTENDS OrderDesk, FiniteSetTheorems, SequenceTheorems, TLAPS

Contents == Codes \cup {"SELL"}

Live ==
    [pc : {"sent", "counting", "recording", "claiming", "clearing", "committing",
           "settling", "finishing", "answered"},
     draft : Nat, key : Keys, late : BOOLEAN, rate : Nat, seen : Nat,
     order : Nat, fresh : BOOLEAN,
     answer : {"none", "refused", "conflict", "placed"}]

Panels    == [draft : Nat, content : Contents \cup {"none"}, key : Keys \cup {None},
              awaits : SUBSET Slots]
OrderDocs == [draft : Nat, key : Keys, rate : Nat, status : {"PENDING"} \cup Finals,
              proof : Nat]
RowDocs   == [trade : {"PENDING", "COMPLETED", "REJECTED"}, refund : BOOLEAN]
RelayDocs == [status : {"none", "pending", "processing", "completed", "terminal_failure"},
              tries : Nat, due : BOOLEAN, at : {"none", "claimed", "posted", "lost"},
              by : SUBSET (Slots \cup {"job"})]
NoteDocs  == [placed : Nat, final : Nat, posts : Nat, unheard : Nat]
Counters  == {Free} \cup [pc : {"mailing"}, order : Nat]
Pasts     == [sends : Nat, keys : Nat, failures : Nat, hasty : SUBSET Nat,
              notes : Seq(NoteDocs)]

Typed ==
    /\ forms \in Seq(Contents) /\ panel \in Panels
    /\ request \in [Slots -> {Free} \cup Live]
    /\ docs \in [Keys -> Nat]
    /\ orders \in Seq(OrderDocs) /\ rows \in Seq(RowDocs) /\ relays \in Seq(RelayDocs)
    /\ balance \in Nat /\ rate \in Nat /\ attempts \in Nat
    /\ counter \in [Merchants -> Counters]
    /\ past \in Pasts
    /\ scene \in Scenes
    /\ Len(rows) = Len(orders) /\ Len(relays) = Len(orders) /\ Len(past.notes) = Len(orders)

Refers ==
    /\ \A o \in DOMAIN orders : orders[o].draft \in DOMAIN forms
    /\ \A q \in Slots : request[q].pc # "free" => request[q].draft \in DOMAIN forms
    /\ panel.draft # None => panel.draft = Len(forms)
    /\ \A q \in Slots : request[q].pc \in {"settling", "finishing"} =>
          request[q].order \in DOMAIN orders
    /\ \A m \in Merchants : counter[m].pc = "mailing" => counter[m].order \in DOMAIN orders
    /\ \A k \in Keys : docs[k] # None => docs[k] \in DOMAIN orders

(***************************************************************************)
(* Sequences.                                                              *)
(***************************************************************************)

(* A document is appended as the last one, and the others stay.             *)
LEMMA Appended ==
    ASSUME NEW S, NEW s \in Seq(S), NEW e \in S
    PROVE  /\ Append(s, e) \in Seq(S) /\ Len(Append(s, e)) = Len(s) + 1 /\ Len(s) \in Nat
           /\ DOMAIN s = 1 .. Len(s) /\ DOMAIN Append(s, e) = 1 .. Len(s) + 1
           /\ Append(s, e)[Len(s) + 1] = e
           /\ \A i \in 1 .. Len(s) : Append(s, e)[i] = s[i] /\ s[i] \in S
  BY AppendProperties, LenProperties, ElementOfSeq

(* One document is changed, and the others stay.                            *)
LEMMA Replaced ==
    ASSUME NEW S, NEW s \in Seq(S), NEW i \in DOMAIN s, NEW e \in S
    PROVE  /\ [s EXCEPT ![i] = e] \in Seq(S) /\ Len([s EXCEPT ![i] = e]) = Len(s)
           /\ DOMAIN [s EXCEPT ![i] = e] = DOMAIN s /\ DOMAIN s = 1 .. Len(s)
           /\ [s EXCEPT ![i] = e][i] = e
           /\ \A j \in DOMAIN s : (j # i => [s EXCEPT ![i] = e][j] = s[j]) /\ s[j] \in S
  BY ExceptSeq, LenProperties, ElementOfSeq

(* Two sequences with the same places are equally long.                     *)
LEMMA SameLength ==
    ASSUME NEW S, NEW T, NEW s \in Seq(S), NEW t \in Seq(T), DOMAIN s = DOMAIN t
    PROVE  Len(s) = Len(t)
  <1>1. /\ DOMAIN s = 1 .. Len(s) /\ Len(s) \in Nat
        /\ DOMAIN t = 1 .. Len(t) /\ Len(t) \in Nat
    BY LenProperties
  <1>2. \A m, n \in Nat : 1 .. m = 1 .. n => m = n
    <2>1. ASSUME NEW m \in Nat, NEW n \in Nat, 1 .. m = 1 .. n
          PROVE  m = n
      <3>1. m > 0 => m \in 1 .. n
        BY <2>1
      <3>2. n > 0 => n \in 1 .. m
        BY <2>1
      <3> QED BY <3>1, <3>2
    <2> QED BY <2>1
  <1> QED BY <1>1, <1>2

(***************************************************************************)
(* What a step may do to the requests.                                     *)
(***************************************************************************)
Same(r, s) == /\ s \in Live /\ s.draft = r.draft /\ s.key = r.key /\ s.late = r.late

(* A delivery ends, or goes on for the same form under the same key. *)
Kept(q) ==
    \/ request'[q] = request[q]
    \/ request'[q] = Free
    \/ request[q] \in Live /\ request[q].pc # "answered" /\ Same(request[q], request'[q])

SlotStep(q) ==
    \/ Arrive(q) \/ CountRead(q) \/ CountWrite(q)
    \/ ClaimTaken(q) \/ ClaimFresh(q) \/ ClearAttempts(q)
    \/ Retry(q) \/ Commit(q) \/ Settle(q) \/ Finish(q)

(* A step of a request moves no other, and keeps what the request asks for. *)
LEMMA SlotStepKeeps ==
    ASSUME OrderAssumption, Typed, NEW q \in Slots, SlotStep(q)
    PROVE  /\ DOMAIN request' = Slots /\ \A p \in Slots : p # q => request'[p] = request[p]
           /\ request[q] \in Live /\ request[q].pc \notin {"free", "answered"}
           /\ Same(request[q], request'[q])
  <1>0. /\ request \in [Slots -> {Free} \cup Live] /\ docs \in [Keys -> Nat]
        /\ orders \in Seq(OrderDocs) /\ rate \in Nat /\ attempts \in Nat /\ Len(orders) \in Nat
    BY LenProperties DEF Typed
  <1>1. request[q].pc \notin {"free", "answered"} /\ request[q] \in Live
    BY <1>0 DEF SlotStep, Arrive, CountRead, CountWrite, ClaimTaken, ClaimFresh,
                ClearAttempts, Retry, Commit, Settle, Finish, Free
  <1> DEFINE r == request[q]
  <1>2. DOMAIN request' = Slots /\ \A p \in Slots : p # q => request'[p] = request[p]
    BY <1>0 DEF SlotStep, Arrive, CountRead, CountWrite, ClaimTaken, ClaimFresh,
                ClearAttempts, Retry, Commit, Settle, Finish
  <1>3. ASSUME NEW p \in {"counting", "recording", "claiming", "clearing", "committing",
                          "settling", "finishing", "answered"}
        PROVE  /\ Same(r, [r EXCEPT !.pc = p])
               /\ \A a \in {"refused", "conflict", "placed"} :
                     Same(r, [r EXCEPT !.pc = p, !.answer = a])
    BY <1>1 DEF Live, Same
  <1>5. ASSUME NEW n \in Nat
        PROVE  /\ Same(r, [r EXCEPT !.pc = "claiming", !.rate = n])
               /\ Same(r, [r EXCEPT !.pc = "recording", !.seen = n])
               /\ Same(r, [r EXCEPT !.pc = "settling", !.order = n])
               /\ Same(r, [r EXCEPT !.pc = "settling", !.order = n, !.fresh = TRUE])
    BY <1>1 DEF Live, Same
  <1>4. r.key \in Keys
    BY <1>1 DEF Live
  <1> QED
    <2>1. CASE Arrive(q)
      <3>1. \/ request'[q] = [r EXCEPT !.pc = "answered", !.answer = "refused"]
            \/ request'[q] = [r EXCEPT !.pc = "counting"]
            \/ request'[q] = [r EXCEPT !.pc = "claiming", !.rate = rate]
        BY <1>0, <2>1 DEF Arrive
      <3>2. Same(r, [r EXCEPT !.pc = "claiming", !.rate = rate])
        BY <1>0, <1>5
      <3> QED BY <1>1, <1>2, <1>3, <3>1, <3>2
    <2>2. CASE CountRead(q)
      <3>1. request'[q] = [r EXCEPT !.pc = "recording", !.seen = attempts]
        BY <1>0, <2>2 DEF CountRead
      <3>2. Same(r, [r EXCEPT !.pc = "recording", !.seen = attempts])
        BY <1>0, <1>5
      <3> QED BY <1>1, <1>2, <3>1, <3>2
    <2>3. CASE CountWrite(q)
      <3>1. request'[q] = [r EXCEPT !.pc = "answered", !.answer = "refused"]
        BY <1>0, <2>3 DEF CountWrite
      <3> QED BY <1>0, <1>1, <1>2, <1>3, <3>1
    <2>4. CASE ClaimTaken(q)
      <3>1. \/ request'[q] = [r EXCEPT !.pc = "answered", !.answer = "conflict"]
            \/ request'[q] = [r EXCEPT !.pc = "settling", !.order = docs[r.key]]
        BY <1>0, <2>4 DEF ClaimTaken
      <3>2. Same(r, [r EXCEPT !.pc = "settling", !.order = docs[r.key]])
        BY <1>0, <1>4, <1>5
      <3> QED BY <1>1, <1>2, <1>3, <3>1, <3>2
    <2>5. CASE ClaimFresh(q)
      <3>1. \/ \E p \in {"counting", "clearing", "committing"} : request'[q] = [r EXCEPT !.pc = p]
            \/ request'[q] = [r EXCEPT !.pc = "answered", !.answer = "refused"]
        BY <1>0, <2>5 DEF ClaimFresh
      <3> QED BY <1>0, <1>1, <1>2, <1>3, <3>1
    <2>6. CASE ClearAttempts(q) \/ Retry(q) \/ Settle(q)
      <3>1. \E p \in {"committing", "claiming", "finishing"} : request'[q] = [r EXCEPT !.pc = p]
        BY <1>0, <2>6 DEF ClearAttempts, Retry, Settle
      <3> QED BY <1>0, <1>1, <1>2, <1>3, <3>1
    <2>7. CASE Finish(q)
      <3>1. request'[q] = [r EXCEPT !.pc = "answered", !.answer = "placed"]
        BY <1>0, <2>7 DEF Finish
      <3> QED BY <1>0, <1>1, <1>2, <1>3, <3>1
    <2>8. CASE Commit(q)
      <3>1. request'[q] = [r EXCEPT !.pc = "settling", !.order = Len(orders'), !.fresh = TRUE]
        BY <1>0, <2>8 DEF Commit
      <3>2. Len(orders') \in Nat
        <4> DEFINE e == [draft |-> r.draft, key |-> r.key, rate |-> r.rate,
                         status |-> "PENDING", proof |-> None]
        <4>1. e \in OrderDocs /\ orders' = Append(orders, e)
          BY <1>1, <2>8 DEF Commit, OrderDocs, Live, None, Finals
        <4> HIDE DEF e
        <4> QED BY <1>0, <4>1, Appended
      <3>3. Same(r, [r EXCEPT !.pc = "settling", !.order = Len(orders'), !.fresh = TRUE])
        BY <1>5, <3>2
      <3> QED BY <1>1, <1>2, <3>1, <3>3
    <2> QED BY <2>1, <2>2, <2>3, <2>4, <2>5, <2>6, <2>7, <2>8 DEF SlotStep
(***************************************************************************)
(* The kinds of steps.                                                     *)
(***************************************************************************)
SomeFill    == \E f \in Contents : FillIn(f)
SomeSubmit  == \E q \in Slots : Submit(q)
SomeDeliver == \E q \in Slots : Deliver(q)
SomeGiveUp  == \E q \in Slots, arrives \in BOOLEAN : GiveUp(q, arrives)
SomeSlot    == \E q \in Slots : SlotStep(q)
SomeRelay   == \E o \in DOMAIN orders :
    \/ JobClaims(o) \/ PostProof(o) \/ RelayFallsDue(o)
    \/ \E forGood, posted \in BOOLEAN : RelayFails(o, forGood, posted)
SomePersist == \E o \in DOMAIN orders : PersistProof(o)
SomeDecide  == \E o \in DOMAIN orders, m \in Merchants, status \in Finals : Decide(m, o, status)
SomeMail    == \E m \in Merchants : MailFinal(m)
Others      == AttemptsExpire \/ ChangeRate

(* Every step is of one of these kinds. *)
LEMMA Kinds ==
    ASSUME OrderAssumption, Typed, [OrderNext]_orderVars
    PROVE  \/ UNCHANGED orderState
           \/ SomeFill \/ SomeSubmit \/ SomeDeliver \/ SomeGiveUp \/ SomeSlot
           \/ SomeRelay \/ SomePersist \/ SomeDecide \/ SomeMail \/ Others \/ Crash
  <1>1. /\ Bounds[scene].contents \subseteq Contents
        /\ Bounds[scene].staff \subseteq Merchants
    BY DEF OrderAssumption, Typed, Contents
  <1>2. CASE OrderStep
    <2>1. ASSUME NEW o \in DOMAIN orders, RelayStep(o)
          PROVE  SomeRelay \/ SomePersist
      BY <2>1 DEF RelayStep, SomeRelay, SomePersist
    <2>2. ASSUME NEW o \in DOMAIN orders, NEW m \in Bounds[scene].staff, NEW status \in Finals,
                 Decide(m, o, status)
          PROVE  SomeDecide
      BY <1>1, <2>2 DEF SomeDecide
    <2>3. ASSUME NEW o \in DOMAIN orders, JobClaims(o) \/ RelayFallsDue(o)
          PROVE  SomeRelay
      BY <2>3 DEF SomeRelay
    <2>4. ASSUME NEW f \in Bounds[scene].contents, FillIn(f)
          PROVE  SomeFill
      BY <1>1, <2>4 DEF SomeFill
    <2>5. ASSUME NEW q \in Slots,
                 \/ Submit(q) \/ Deliver(q) \/ \E arrives \in BOOLEAN : GiveUp(q, arrives)
                 \/ Arrive(q) \/ CountRead(q) \/ CountWrite(q)
                 \/ ClaimTaken(q) \/ ClaimFresh(q) \/ ClearAttempts(q)
                 \/ Retry(q) \/ Commit(q) \/ Settle(q) \/ Finish(q)
          PROVE  SomeSubmit \/ SomeDeliver \/ SomeGiveUp \/ SomeSlot
      BY <2>5 DEF SomeSubmit, SomeDeliver, SomeGiveUp, SomeSlot, SlotStep
    <2> QED BY <1>2, <2>1, <2>2, <2>3, <2>4, <2>5 DEF OrderStep, SomeMail, Others
  <1> QED BY <1>2 DEF OrderNext, orderVars

(* Every delivery ends or goes on, but for the one that is sent. *)
LEMMA RequestsKept ==
    ASSUME OrderAssumption, Typed, [OrderNext]_orderVars
    PROVE  /\ request' \in [Slots -> {Free} \cup Live]
           /\ SomeSubmit \/ \A q \in Slots : Kept(q)
  <1>0. request \in [Slots -> {Free} \cup Live]
    BY DEF Typed
  <1>1. CASE UNCHANGED request
    BY <1>0, <1>1 DEF Kept
  <1>2. ASSUME NEW q \in Slots, Submit(q)
        PROVE  request' \in [Slots -> {Free} \cup Live] /\ SomeSubmit
    <2> DEFINE k == KeyFor(forms[panel.draft])
               l == \E r \in Slots : Unanswered(r, k)
               n == [pc |-> "sent", draft |-> panel.draft, key |-> k, late |-> l,
                     rate |-> None, seen |-> 0, order |-> None, fresh |-> FALSE,
                     answer |-> "none"]
    <2>1. request' = [request EXCEPT ![q] = n] /\ k \in Keys
      BY <1>2 DEF Submit
    <2>2. l \in BOOLEAN /\ panel.draft \in Nat /\ None \in Nat
      BY DEF Typed, Panels, None
    <2>3. n \in Live
      <3> HIDE DEF k, l
      <3> QED BY <2>1, <2>2 DEF Live
    <2> HIDE DEF n
    <2> QED BY <1>0, <1>2, <2>1, <2>3 DEF SomeSubmit
  <1>3. ASSUME NEW q \in Slots, Deliver(q) \/ \E arrives \in BOOLEAN : GiveUp(q, arrives)
        PROVE  request' = request \/ request' = [request EXCEPT ![q] = Free]
    BY <1>3 DEF Deliver, GiveUp
  <1>4. ASSUME NEW q \in Slots, request' = [request EXCEPT ![q] = Free]
        PROVE  request' \in [Slots -> {Free} \cup Live] /\ \A p \in Slots : Kept(p)
    BY <1>0, <1>4 DEF Kept
  <1>5. ASSUME NEW q \in Slots, SlotStep(q)
        PROVE  request' \in [Slots -> {Free} \cup Live] /\ \A p \in Slots : Kept(p)
    <2>1. /\ DOMAIN request' = Slots /\ \A p \in Slots : p # q => request'[p] = request[p]
          /\ request[q] \in Live /\ request[q].pc \notin {"free", "answered"}
          /\ Same(request[q], request'[q])
      BY <1>5, SlotStepKeeps
    <2>2. request' = [p \in Slots |-> request'[p]]
      <3>1. \E s : request' = [request EXCEPT ![q] = s]
        BY <1>5, <1>0 DEF SlotStep, Arrive, CountRead, CountWrite, ClaimTaken, ClaimFresh,
                ClearAttempts, Retry, Commit, Settle, Finish
      <3> QED BY <1>0, <3>1
    <2>3. \A p \in Slots : request'[p] \in {Free} \cup Live
      BY <1>0, <2>1 DEF Same
    <2> QED BY <2>1, <2>2, <2>3 DEF Kept
  <1>6. CASE Crash
    BY <1>0, <1>6 DEF Crash, Kept
  <1>7. ASSUME SomeFill \/ SomeRelay \/ SomePersist \/ SomeDecide \/ SomeMail \/ Others
        PROVE  UNCHANGED request
    BY <1>7 DEF SomeFill, FillIn, SomeRelay, JobClaims, PostProof, RelayFallsDue, RelayFails,
                SomePersist, PersistProof, SomeDecide, Decide, SomeMail, MailFinal,
                Others, AttemptsExpire, ChangeRate
  <1>8. ASSUME UNCHANGED orderState
        PROVE  UNCHANGED request
    BY <1>8 DEF orderState
  <1> QED BY <1>1, <1>2, <1>3, <1>4, <1>5, <1>6, <1>7, <1>8, Kinds
             DEF SomeSubmit, SomeDeliver, SomeGiveUp, SomeSlot
(* What a request that was paid for, or reserved, is written down as. *)
NewOrder(q) == [draft |-> request[q].draft, key |-> request[q].key,
                rate |-> request[q].rate, status |-> "PENDING", proof |-> None]
NewRelay(q) == IF IsBuy(FormOf(q)) THEN Enqueued ELSE NoRelay

(* A committed request has written one order, its row, its relay and its notes. *)
LEMMA Commits ==
    ASSUME Typed, NEW q \in Slots, Commit(q)
    PROVE  /\ NewOrder(q) \in OrderDocs /\ NewRelay(q) \in RelayDocs
           /\ [trade |-> "PENDING", refund |-> FALSE] \in RowDocs /\ NoNotes \in NoteDocs
           /\ orders' = Append(orders, NewOrder(q))
           /\ rows' = Append(rows, [trade |-> "PENDING", refund |-> FALSE])
           /\ relays' = Append(relays, NewRelay(q))
           /\ past' = [past EXCEPT !.notes = Append(past.notes, NoNotes)]
           /\ request[q] \in Live /\ request[q].pc = "committing"
           /\ Len(orders') = Len(orders) + 1 /\ Len(orders) \in Nat
           /\ docs' = [docs EXCEPT ![request[q].key] = Len(orders) + 1]
  <1>1. request[q] \in Live /\ request[q].pc = "committing"
    BY DEF Commit, Typed, Free
  <1>2. NewOrder(q) \in OrderDocs
    BY <1>1 DEF NewOrder, OrderDocs, Live, None, Finals
  <1>3. NewRelay(q) \in RelayDocs
    BY DEF NewRelay, RelayDocs, Enqueued, NoRelay
  <1>4. orders' = Append(orders, NewOrder(q)) /\ relays' = Append(relays, NewRelay(q))
    BY DEF Commit, NewOrder, NewRelay
  <1>5. Len(orders') = Len(orders) + 1 /\ Len(orders) \in Nat
    BY <1>2, <1>4, Appended DEF Typed
  <1> QED BY <1>1, <1>2, <1>3, <1>4, <1>5 DEF Commit, RowDocs, NoteDocs, NoNotes

(* The forms are only added to. *)
LEMMA FormsKept ==
    ASSUME OrderAssumption, Typed, [OrderNext]_orderVars
    PROVE  /\ forms' \in Seq(Contents) /\ DOMAIN forms \subseteq DOMAIN forms'
           /\ \A i \in DOMAIN forms : forms'[i] = forms[i]
           /\ UNCHANGED forms \/ SomeFill
  <1>0. forms \in Seq(Contents)
    BY DEF Typed
  <1>1. ASSUME NEW f \in Contents, FillIn(f)
        PROVE  /\ forms' \in Seq(Contents) /\ DOMAIN forms \subseteq DOMAIN forms'
               /\ \A i \in DOMAIN forms : forms'[i] = forms[i]
    <2>1. forms' = Append(forms, f)
      BY <1>1 DEF FillIn
    <2> QED BY <1>0, <2>1, Appended
  <1>2. ASSUME SomeSubmit \/ SomeDeliver \/ SomeGiveUp \/ SomeRelay \/ SomePersist
               \/ SomeDecide \/ SomeMail \/ Others \/ Crash
        PROVE  UNCHANGED forms
    BY <1>2 DEF SomeSubmit, Submit, SomeDeliver, Deliver, SomeGiveUp, GiveUp,
                SomeRelay, JobClaims, PostProof, RelayFallsDue, RelayFails,
                SomePersist, PersistProof, SomeDecide, Decide, SomeMail, MailFinal,
                Others, AttemptsExpire, ChangeRate, Crash
  <1>3. ASSUME SomeSlot
        PROVE  UNCHANGED forms
    BY <1>3 DEF SomeSlot, SlotStep, Arrive, CountRead, CountWrite, ClaimTaken, ClaimFresh,
                ClearAttempts, Retry, Commit, Settle, Finish
  <1>4. ASSUME UNCHANGED orderState
        PROVE  UNCHANGED forms
    BY <1>4 DEF orderState
  <1> QED BY <1>0, <1>1, <1>2, <1>3, <1>4, Kinds DEF SomeFill

(* An order stays the one it is, whatever becomes of it. *)
LEMMA OrdersKept ==
    ASSUME OrderAssumption, Typed, [OrderNext]_orderVars
    PROVE  /\ orders' \in Seq(OrderDocs) /\ DOMAIN orders \subseteq DOMAIN orders'
           /\ \A o \in DOMAIN orders : /\ orders'[o].draft = orders[o].draft
                                       /\ orders'[o].key = orders[o].key
           /\ \/ UNCHANGED orders
              \/ SomePersist \/ SomeDecide
              \/ \E q \in Slots : Commit(q)
  <1>0. orders \in Seq(OrderDocs)
    BY DEF Typed
  <1> DEFINE Goal == /\ orders' \in Seq(OrderDocs) /\ DOMAIN orders \subseteq DOMAIN orders'
                     /\ \A o \in DOMAIN orders : /\ orders'[o].draft = orders[o].draft
                                                 /\ orders'[o].key = orders[o].key
  <1>1. ASSUME NEW q \in Slots, Commit(q)
        PROVE  Goal
    <2>1. NewOrder(q) \in OrderDocs /\ orders' = Append(orders, NewOrder(q))
      BY <1>1, Commits
    <2> QED BY <1>0, <2>1, Appended
  <1>2. ASSUME NEW o \in DOMAIN orders, NEW e \in OrderDocs, orders' = [orders EXCEPT ![o] = e],
               e.draft = orders[o].draft, e.key = orders[o].key
        PROVE  Goal
    BY <1>0, <1>2, Replaced
  <1>3. ASSUME NEW o \in DOMAIN orders, PersistProof(o)
        PROVE  Goal
    <2> DEFINE n == ProofToKeep(o, past.notes[o].posts)
               e == [orders[o] EXCEPT !.proof = n]
    <2>1. orders[o] \in OrderDocs
      BY <1>0, Replaced
    <2>2. past.notes \in Seq(NoteDocs) /\ o \in DOMAIN past.notes
      BY LenProperties DEF Typed, Pasts
    <2>3. past.notes[o] \in NoteDocs
      BY <2>2, ElementOfSeq, LenProperties
    <2>4. n \in Nat
      BY <2>1, <2>3 DEF ProofToKeep, OrderDocs, NoteDocs
    <2>5. orders' = [orders EXCEPT ![o] = e]
      BY <1>3 DEF PersistProof
    <2> HIDE DEF n
    <2>6. e \in OrderDocs /\ e.draft = orders[o].draft /\ e.key = orders[o].key
      BY <2>1, <2>4 DEF OrderDocs
    <2> HIDE DEF e
    <2> QED BY <1>2, <2>5, <2>6
  <1>4. ASSUME NEW o \in DOMAIN orders, NEW m \in Merchants, NEW status \in Finals,
               Decide(m, o, status)
        PROVE  Goal
    <2> DEFINE e == [orders[o] EXCEPT !.status = status]
    <2>1. orders[o] \in OrderDocs
      BY <1>0, Replaced
    <2>2. orders' = [orders EXCEPT ![o] = e]
      BY <1>4 DEF Decide
    <2>3. e \in OrderDocs /\ e.draft = orders[o].draft /\ e.key = orders[o].key
      BY <2>1 DEF OrderDocs
    <2> HIDE DEF e
    <2> QED BY <1>2, <2>2, <2>3
  <1>5. ASSUME SomeFill \/ SomeSubmit \/ SomeDeliver \/ SomeGiveUp \/ SomeRelay
               \/ SomeMail \/ Others \/ Crash
        PROVE  UNCHANGED orders
    BY <1>5 DEF SomeFill, FillIn, SomeSubmit, Submit, SomeDeliver, Deliver, SomeGiveUp, GiveUp,
                SomeRelay, JobClaims, PostProof, RelayFallsDue, RelayFails, SomeMail, MailFinal,
                Others, AttemptsExpire, ChangeRate, Crash
  <1>6. ASSUME NEW q \in Slots, SlotStep(q), ~Commit(q)
        PROVE  UNCHANGED orders
    BY <1>6 DEF SlotStep, Arrive, CountRead, CountWrite, ClaimTaken, ClaimFresh,
                ClearAttempts, Retry, Settle, Finish
  <1>7. ASSUME UNCHANGED orderState
        PROVE  UNCHANGED orders
    BY <1>7 DEF orderState
  <1> QED BY <1>0, <1>1, <1>3, <1>4, <1>5, <1>6, <1>7, Kinds
             DEF SomePersist, SomeDecide, SomeSlot
(* One change of a relay: claimed, posted, recorded, failed, left behind by a
   failure nobody wrote down, or fallen due. *)
RelayChange(o) ==
    \/ \E who \in Slots \cup {"job"} : Claimable(o) /\ ClaimRelay(o, who)
    \/ relays[o].at = "claimed" /\ relays' = [relays EXCEPT ![o].at = "posted"]
    \/ /\ relays[o].at = "posted"
       /\ relays' = [relays EXCEPT ![o].status = "completed", ![o].at = "none", ![o].by = {}]
    \/ /\ relays[o].at \in {"claimed", "posted"}
       /\ \/ relays' = [relays EXCEPT ![o] = Unmarked(o)]
          \/ \E forGood \in BOOLEAN : relays' = [relays EXCEPT ![o] = AfterFailure(o, forGood)]
    \/ relays[o].status = "pending" /\ relays' = [relays EXCEPT ![o].due = TRUE]

(* A relay changes alone. *)
LEMMA RelayChangeTyped ==
    ASSUME Typed, NEW o \in DOMAIN orders, RelayChange(o)
    PROVE  /\ relays' \in Seq(RelayDocs) /\ Len(relays') = Len(relays)
           /\ \A p \in DOMAIN orders : p # o => relays'[p] = relays[p]
           /\ relays' = [relays EXCEPT ![o] = relays'[o]]
           /\ DOMAIN relays = DOMAIN orders /\ relays[o] \in RelayDocs
  <1>0. relays \in Seq(RelayDocs) /\ DOMAIN relays = DOMAIN orders /\ o \in DOMAIN relays
    BY LenProperties DEF Typed
  <1>1. relays[o] \in RelayDocs
    BY <1>0, Replaced
  <1> DEFINE r == relays[o]
  <1>2. ASSUME NEW who \in Slots \cup {"job"}
        PROVE  [r EXCEPT !.status = "processing", !.tries = @ + 1, !.at = "claimed", !.by = {who}]
                 \in RelayDocs
    <2> DEFINE b == {who}
               n == r.tries + 1
    <2>1. b \in SUBSET (Slots \cup {"job"}) /\ n \in Nat
      BY <1>1 DEF RelayDocs
    <2> HIDE DEF b, n
    <2>2. [r EXCEPT !.status = "processing", !.tries = n, !.at = "claimed", !.by = b] \in RelayDocs
      BY <1>1, <2>1 DEF RelayDocs
    <2> QED BY <2>2 DEF b, n
  <1>3. /\ [r EXCEPT !.at = "posted"] \in RelayDocs
        /\ [r EXCEPT !.status = "completed", !.at = "none", !.by = {}] \in RelayDocs
        /\ [r EXCEPT !.due = TRUE] \in RelayDocs
    <2>1. [r EXCEPT !.at = "posted"] \in RelayDocs
      BY <1>1 DEF RelayDocs
    <2>2. [r EXCEPT !.status = "completed", !.at = "none", !.by = {}] \in RelayDocs
      BY <1>1 DEF RelayDocs
    <2>3. [r EXCEPT !.due = TRUE] \in RelayDocs
      BY <1>1 DEF RelayDocs
    <2> QED BY <2>1, <2>2, <2>3
  <1>5. ASSUME NEW forGood \in BOOLEAN
        PROVE  AfterFailure(o, forGood) \in RelayDocs
    <2>1. \A s \in {"terminal_failure", "pending"} :
             [r EXCEPT !.at = "none", !.by = {}, !.due = FALSE, !.status = s] \in RelayDocs
      BY <1>1 DEF RelayDocs
    <2> QED BY <2>1 DEF AfterFailure
  <1>6. Unmarked(o) \in RelayDocs
    BY <1>1 DEF Unmarked, RelayDocs
  <1>4. \E e \in RelayDocs : relays' = [relays EXCEPT ![o] = e]
    <2>1. ASSUME NEW who \in Slots \cup {"job"}, ClaimRelay(o, who)
          PROVE  \E e \in RelayDocs : relays' = [relays EXCEPT ![o] = e]
      BY <1>2, <2>1 DEF ClaimRelay
    <2>2. ASSUME relays' = [relays EXCEPT ![o].at = "posted"]
          PROVE  \E e \in RelayDocs : relays' = [relays EXCEPT ![o] = e]
      BY <1>3, <2>2
    <2>3. ASSUME relays' = [relays EXCEPT ![o].status = "completed", ![o].at = "none", ![o].by = {}]
          PROVE  \E e \in RelayDocs : relays' = [relays EXCEPT ![o] = e]
      BY <1>3, <2>3
    <2>4. ASSUME NEW forGood \in BOOLEAN, relays' = [relays EXCEPT ![o] = AfterFailure(o, forGood)]
          PROVE  \E e \in RelayDocs : relays' = [relays EXCEPT ![o] = e]
      BY <1>5, <2>4
    <2>5. ASSUME relays' = [relays EXCEPT ![o].due = TRUE]
          PROVE  \E e \in RelayDocs : relays' = [relays EXCEPT ![o] = e]
      BY <1>3, <2>5
    <2> QED BY <1>6, <2>1, <2>2, <2>3, <2>4, <2>5 DEF RelayChange
  <1> QED BY <1>0, <1>1, <1>4, Replaced

(* Who changes the relays, and how. *)
LEMMA RelaysKept ==
    ASSUME OrderAssumption, Typed, Refers, [OrderNext]_orderVars
    PROVE  /\ relays' \in Seq(RelayDocs) /\ Len(relays') = Len(orders')
           /\ \/ UNCHANGED relays
              \/ \E o \in DOMAIN orders : RelayChange(o)
              \/ Crash
              \/ \E q \in Slots : Commit(q)
  <1>0. /\ relays \in Seq(RelayDocs) /\ Len(relays) = Len(orders) /\ DOMAIN relays = DOMAIN orders
        /\ orders \in Seq(OrderDocs)
    BY LenProperties DEF Typed
  <1>1. ASSUME NEW o \in DOMAIN orders, RelayChange(o), UNCHANGED orders \/ SomePersist
        PROVE  relays' \in Seq(RelayDocs) /\ Len(relays') = Len(orders')
    <2>1. relays' \in Seq(RelayDocs) /\ Len(relays') = Len(relays)
      BY <1>1, RelayChangeTyped
    <2>2. Len(orders') = Len(orders)
      <3>1. ASSUME NEW p \in DOMAIN orders, PersistProof(p)
            PROVE  Len(orders') = Len(orders)
        <4>1. DOMAIN orders' = DOMAIN orders
          BY <3>1 DEF PersistProof
        <4> QED BY <1>0, <4>1, OrdersKept, SameLength
      <3> QED BY <1>1, <3>1 DEF SomePersist
    <2> QED BY <1>0, <2>1, <2>2
  <1>2. ASSUME NEW q \in Slots, Commit(q)
        PROVE  relays' \in Seq(RelayDocs) /\ Len(relays') = Len(orders')
    <2>1. /\ NewRelay(q) \in RelayDocs /\ relays' = Append(relays, NewRelay(q))
          /\ Len(orders') = Len(orders) + 1
      BY <1>2, Commits
    <2> QED BY <1>0, <2>1, Appended
  <1>3. ASSUME Crash
        PROVE  relays' \in Seq(RelayDocs) /\ Len(relays') = Len(orders')
    <2> DEFINE e(o) == IF relays[o].status = "processing"
                       THEN [relays[o] EXCEPT !.at = "lost", !.by = {}] ELSE relays[o]
    <2>1. relays' = [o \in DOMAIN relays |-> e(o)] /\ UNCHANGED orders
      BY <1>3 DEF Crash
    <2>2. \A o \in DOMAIN relays : e(o) \in RelayDocs
      <3>1. ASSUME NEW o \in DOMAIN relays
            PROVE  e(o) \in RelayDocs
        <4>1. relays[o] \in RelayDocs
          BY <1>0, ElementOfSeq, LenProperties
        <4>2. [relays[o] EXCEPT !.at = "lost", !.by = {}] \in RelayDocs
          BY <4>1 DEF RelayDocs
        <4> QED BY <4>1, <4>2
      <3> QED BY <3>1
    <2> HIDE DEF e
    <2>3. /\ DOMAIN relays = 1 .. Len(relays) /\ Len(relays) \in Nat
          /\ DOMAIN relays' = DOMAIN relays
      BY <1>0, <2>1, LenProperties
    <2>5. relays' \in [1 .. Len(relays) -> RelayDocs]
      BY <2>1, <2>2, <2>3
    <2>6. relays' \in Seq(RelayDocs)
      BY <2>3, <2>5, SeqDef
    <2> QED BY <1>0, <2>1, <2>3, <2>6, SameLength
  <1>4. ASSUME SomeRelay
        PROVE  (\E o \in DOMAIN orders : RelayChange(o)) /\ UNCHANGED orders
    BY <1>4 DEF SomeRelay, RelayChange, JobClaims, PostProof, RelayFallsDue, RelayFails
  <1>5. ASSUME SomePersist
        PROVE  \E o \in DOMAIN orders : RelayChange(o)
    BY <1>5 DEF SomePersist, PersistProof, RelayChange
  <1>6. ASSUME NEW q \in Slots, Settle(q)
        PROVE  /\ UNCHANGED orders
               /\ UNCHANGED relays \/ \E o \in DOMAIN orders : RelayChange(o)
    <2>1. request[q].order \in DOMAIN orders
      BY <1>6 DEF Settle, Refers
    <2> QED BY <1>6, <2>1 DEF Settle, RelayChange
  <1>7. ASSUME SomeFill \/ SomeSubmit \/ SomeDeliver \/ SomeGiveUp \/ SomeMail \/ Others
        PROVE  UNCHANGED <<relays, orders>>
    BY <1>7 DEF SomeFill, FillIn, SomeSubmit, Submit, SomeDeliver, Deliver, SomeGiveUp, GiveUp,
                SomeMail, MailFinal, Others, AttemptsExpire, ChangeRate
  <1>8. ASSUME NEW q \in Slots, SlotStep(q), ~Commit(q), ~Settle(q)
        PROVE  UNCHANGED <<relays, orders>>
    BY <1>8 DEF SlotStep, Arrive, CountRead, CountWrite, ClaimTaken, ClaimFresh,
                ClearAttempts, Retry, Finish
  <1>9. ASSUME UNCHANGED orderState
        PROVE  UNCHANGED <<relays, orders>>
    BY <1>9 DEF orderState
  <1>10. ASSUME SomeDecide
         PROVE  UNCHANGED relays /\ Len(orders') = Len(orders)
    <2>1. UNCHANGED relays /\ DOMAIN orders' = DOMAIN orders
      BY <1>10 DEF SomeDecide, Decide
    <2> QED BY <1>0, <2>1, OrdersKept, SameLength
  <1>11. ASSUME NEW q \in Slots, SlotStep(q)
         PROVE  /\ relays' \in Seq(RelayDocs) /\ Len(relays') = Len(orders')
                /\ \/ UNCHANGED relays
                   \/ \E o \in DOMAIN orders : RelayChange(o)
                   \/ \E r \in Slots : Commit(r)
    <2>1. CASE Commit(q)
      BY <1>2, <2>1
    <2>2. CASE Settle(q)
      BY <1>0, <1>1, <1>6, <2>2
    <2>3. CASE ~Commit(q) /\ ~Settle(q)
      BY <1>0, <1>8, <1>11, <2>3
    <2> QED BY <2>1, <2>2, <2>3
  <1> QED BY <1>0, <1>1, <1>3, <1>4, <1>5, <1>7, <1>9, <1>10, <1>11, Kinds DEF SomeSlot
(* The form, the key and the delivery of the panel.                         *)
LEMMA PanelKept ==
    ASSUME OrderAssumption, Typed, Refers, [OrderNext]_orderVars
    PROVE  /\ panel' \in Panels
           /\ UNCHANGED panel \/ SomeFill \/ SomeSubmit \/ SomeDeliver \/ SomeGiveUp \/ Crash
  <1>0. panel \in Panels /\ forms \in Seq(Contents) /\ Len(forms) \in Nat
        /\ DOMAIN forms = 1 .. Len(forms)
    BY LenProperties DEF Typed
  <1>1. ASSUME NEW f \in Contents, FillIn(f)
        PROVE  panel' \in Panels
    <2>1. Len(forms) + 1 \in Nat
      BY <1>0
    <2> QED BY <1>0, <1>1, <2>1 DEF FillIn, Panels
  <1>2. ASSUME NEW q \in Slots, Submit(q)
        PROVE  panel' \in Panels
    <2> DEFINE f == forms[panel.draft]
               k == KeyFor(f)
               a == {q}
    <2>1. panel' = [panel EXCEPT !.content = f, !.key = k, !.awaits = a] /\ k \in Keys
      BY <1>2 DEF Submit
    <2>2. panel.draft \in DOMAIN forms
      BY <1>0, <1>2 DEF Submit, Refers, Panels, None
    <2>3. f \in Contents
      BY <1>0, <2>2, ElementOfSeq
    <2>4. a \in SUBSET Slots
      OBVIOUS
    <2> HIDE DEF f, k, a
    <2> QED BY <1>0, <2>1, <2>3, <2>4 DEF Panels
  <1>3. ASSUME NEW q \in Slots, Deliver(q)
        PROVE  panel' \in Panels
    <2> DEFINE k == IF request[q].answer = "conflict" THEN panel.key ELSE None
               d == IF request[q].answer = "placed" THEN None ELSE panel.draft
               a == {}
    <2>1. UNCHANGED panel \/ panel' = [panel EXCEPT !.awaits = a, !.key = k, !.draft = d]
      BY <1>3 DEF Deliver
    <2>2. k \in Keys \cup {None} /\ d \in Nat /\ a \in SUBSET Slots
      BY <1>0 DEF Panels, None
    <2> HIDE DEF k, d, a
    <2> QED BY <1>0, <2>1, <2>2 DEF Panels
  <1>4. ASSUME NEW q \in Slots, NEW arrives \in BOOLEAN, GiveUp(q, arrives)
        PROVE  panel' \in Panels
    BY <1>0, <1>4 DEF GiveUp, KeyWhenLost, Panels
  <1>5. CASE Crash
    <2> DEFINE a == {q \in panel.awaits : ~Running(q)}
    <2>1. panel' = [panel EXCEPT !.awaits = a]
      BY <1>5 DEF Crash
    <2>2. a \in SUBSET Slots
      BY <1>0 DEF Panels
    <2> HIDE DEF a
    <2> QED BY <1>0, <1>5, <2>1, <2>2 DEF Panels
  <1>6. ASSUME SomeSlot \/ SomeRelay \/ SomePersist \/ SomeDecide \/ SomeMail \/ Others
        PROVE  UNCHANGED panel
    BY <1>6 DEF SomeSlot, SlotStep, Arrive, CountRead, CountWrite, ClaimTaken, ClaimFresh,
                ClearAttempts, Retry, Commit, Settle, Finish, SomeRelay, JobClaims, PostProof,
                RelayFallsDue, RelayFails, SomePersist, PersistProof, SomeDecide, Decide,
                SomeMail, MailFinal, Others, AttemptsExpire, ChangeRate
  <1>7. ASSUME UNCHANGED orderState
        PROVE  UNCHANGED panel
    BY <1>7 DEF orderState
  <1> QED BY <1>0, <1>1, <1>2, <1>3, <1>4, <1>5, <1>6, <1>7, Kinds
             DEF SomeFill, SomeSubmit, SomeDeliver, SomeGiveUp

(* The documents of the keys and the ledger rows. *)
LEMMA BooksKept ==
    ASSUME OrderAssumption, Typed, Refers, [OrderNext]_orderVars
    PROVE  /\ docs' \in [Keys -> Nat] /\ rows' \in Seq(RowDocs) /\ Len(rows') = Len(orders')
           /\ balance' \in Nat
           /\ \/ UNCHANGED <<docs, rows, balance>>
              \/ SomeDecide
              \/ \E q \in Slots : Commit(q)
  <1>0. /\ docs \in [Keys -> Nat] /\ rows \in Seq(RowDocs) /\ Len(rows) = Len(orders)
        /\ orders \in Seq(OrderDocs) /\ balance \in Nat /\ DOMAIN rows = DOMAIN orders
    BY LenProperties DEF Typed
  <1> DEFINE Goal == docs' \in [Keys -> Nat] /\ rows' \in Seq(RowDocs)
                     /\ Len(rows') = Len(orders') /\ balance' \in Nat
  <1>1. ASSUME NEW q \in Slots, Commit(q)
        PROVE  Goal
    <2>1. /\ rows' = Append(rows, [trade |-> "PENDING", refund |-> FALSE])
          /\ [trade |-> "PENDING", refund |-> FALSE] \in RowDocs
          /\ Len(orders') = Len(orders) + 1 /\ Len(orders) \in Nat
          /\ docs' = [docs EXCEPT ![request[q].key] = Len(orders) + 1]
      BY <1>1, Commits
    <2>2. rows' \in Seq(RowDocs) /\ Len(rows') = Len(orders')
      BY <1>0, <2>1, Appended
    <2>3. docs' \in [Keys -> Nat]
      <3> DEFINE n == Len(orders) + 1
      <3>1. n \in Nat /\ docs' = [docs EXCEPT ![request[q].key] = n]
        BY <2>1
      <3> HIDE DEF n
      <3> QED BY <1>0, <3>1
    <2>4. balance' \in Nat
      BY <1>0, <1>1 DEF Commit, Conflicts
    <2> QED BY <2>2, <2>3, <2>4
  <1>2. ASSUME NEW o \in DOMAIN orders, NEW m \in Merchants, NEW status \in Finals,
               Decide(m, o, status)
        PROVE  Goal
    <2> DEFINE buy == IsBuy(forms[orders[o].draft])
               e == [trade |-> IF status = "DONE" THEN "COMPLETED" ELSE "REJECTED",
                     refund |-> ~buy /\ status = "REJECTED"]
    <2>1. rows' = [rows EXCEPT ![o] = e] /\ DOMAIN orders' = DOMAIN orders /\ UNCHANGED docs
      BY <1>2 DEF Decide
    <2>2. e \in RowDocs
      BY DEF RowDocs
    <2>3. balance' \in Nat
      BY <1>0, <1>2 DEF Decide
    <2> HIDE DEF e
    <2>4. rows' \in Seq(RowDocs) /\ Len(rows') = Len(rows)
      BY <1>0, <2>1, <2>2, Replaced
    <2> QED BY <1>0, <2>1, <2>3, <2>4, OrdersKept, SameLength
  <1>3. ASSUME SomeFill \/ SomeSubmit \/ SomeDeliver \/ SomeGiveUp \/ SomeRelay
               \/ SomePersist \/ SomeMail \/ Others \/ Crash
        PROVE  UNCHANGED <<docs, rows, balance>> /\ DOMAIN orders' = DOMAIN orders
    BY <1>3 DEF SomeFill, FillIn, SomeSubmit, Submit, SomeDeliver, Deliver, SomeGiveUp, GiveUp,
                SomeRelay, JobClaims, PostProof, RelayFallsDue, RelayFails, SomePersist,
                PersistProof, SomeMail, MailFinal, Others, AttemptsExpire, ChangeRate, Crash
  <1>4. ASSUME NEW q \in Slots, SlotStep(q), ~Commit(q)
        PROVE  UNCHANGED <<docs, rows, balance>> /\ DOMAIN orders' = DOMAIN orders
    BY <1>4 DEF SlotStep, Arrive, CountRead, CountWrite, ClaimTaken, ClaimFresh,
                ClearAttempts, Retry, Settle, Finish
  <1>5. ASSUME UNCHANGED orderState
        PROVE  UNCHANGED <<docs, rows, balance>> /\ DOMAIN orders' = DOMAIN orders
    BY <1>5 DEF orderState
  <1>6. ASSUME UNCHANGED <<docs, rows, balance>>, DOMAIN orders' = DOMAIN orders
        PROVE  Goal
    BY <1>0, <1>6, OrdersKept, SameLength
  <1> QED BY <1>1, <1>2, <1>3, <1>4, <1>5, <1>6, Kinds DEF SomeDecide, SomeSlot
(* The notes of one order change, and nothing else of the past.             *)
NotesChange(o) == \E e \in NoteDocs : past' = [past EXCEPT !.notes = [past.notes EXCEPT ![o] = e]]

(* Notes of one order are changed alone, *)
LEMMA NotesChanged ==
    ASSUME Typed, NEW o \in DOMAIN orders, NEW e \in NoteDocs,
           past' = [past EXCEPT !.notes = [past.notes EXCEPT ![o] = e]]
    PROVE  /\ past' \in Pasts /\ Len(past'.notes) = Len(orders)
           /\ past'.notes[o] = e
           /\ \A p \in DOMAIN orders : p # o => past'.notes[p] = past.notes[p]
           /\ past'.failures = past.failures /\ past'.hasty = past.hasty
           /\ past'.keys = past.keys
  <1>0. past \in Pasts /\ past.notes \in Seq(NoteDocs) /\ Len(past.notes) = Len(orders)
        /\ DOMAIN past.notes = DOMAIN orders
    BY LenProperties DEF Typed, Pasts
  <1> DEFINE n == [past.notes EXCEPT ![o] = e]
  <1>1. /\ n \in Seq(NoteDocs) /\ Len(n) = Len(orders) /\ n[o] = e
        /\ \A p \in DOMAIN orders : p # o => n[p] = past.notes[p]
    BY <1>0, Replaced
  <1> HIDE DEF n
  <1>2. past' = [past EXCEPT !.notes = n]
    BY DEF n
  <1>3. past' \in Pasts /\ past'.notes = n
    BY <1>0, <1>1, <1>2 DEF Pasts
  <1>4. /\ past'.failures = past.failures /\ past'.hasty = past.hasty
        /\ past'.keys = past.keys
    BY <1>0, <1>2 DEF Pasts
  <1> QED BY <1>1, <1>3, <1>4

(* What the notes of an order become with a mail, with a post that is made and
   with one that fails. *)
NotesPlaced(o) == [past.notes[o] EXCEPT !.placed = @ + 1]
NotesFinal(o)  == [past.notes[o] EXCEPT !.final = @ + 1]
NotesPost(o)   == [past.notes[o] EXCEPT !.posts = @ + 1]
NotesFail(o, posted) ==
    [past.notes[o] EXCEPT !.posts = IF posted THEN @ + 1 ELSE @,
                          !.unheard = IF posted \/ relays[o].at = "posted" THEN @ + 1 ELSE @]

(* and are of the right type, *)
LEMMA NotesTyped ==
    ASSUME Typed, NEW o \in DOMAIN orders, NEW posted \in BOOLEAN
    PROVE  /\ past.notes[o] \in NoteDocs
           /\ NotesPlaced(o) \in NoteDocs /\ NotesFinal(o) \in NoteDocs
           /\ NotesPost(o) \in NoteDocs /\ NotesFail(o, posted) \in NoteDocs
  <1>0. past.notes[o] \in NoteDocs
    <2>1. past.notes \in Seq(NoteDocs) /\ o \in DOMAIN past.notes
      BY LenProperties DEF Typed, Pasts
    <2> QED BY <2>1, ElementOfSeq, LenProperties
  <1>1. NotesPlaced(o) \in NoteDocs /\ NotesFinal(o) \in NoteDocs /\ NotesPost(o) \in NoteDocs
    BY <1>0 DEF NotesPlaced, NotesFinal, NotesPost, NoteDocs
  <1>2. NotesFail(o, posted) \in NoteDocs
    <2> DEFINE n == past.notes[o]
               p == IF posted THEN n.posts + 1 ELSE n.posts
               u == IF posted \/ relays[o].at = "posted" THEN n.unheard + 1 ELSE n.unheard
    <2>1. p \in Nat /\ u \in Nat
      BY <1>0 DEF NoteDocs
    <2>2. NotesFail(o, posted) = [n EXCEPT !.posts = p, !.unheard = u]
      BY <1>0 DEF NotesFail, NoteDocs
    <2> HIDE DEF p, u
    <2> QED BY <1>0, <2>1, <2>2 DEF NoteDocs
  <1> QED BY <1>0, <1>1, <1>2

(* whichever step writes them. *)
LEMMA NoteSteps ==
    ASSUME Typed, Refers, NEW o \in DOMAIN orders
    PROVE  /\ PostProof(o) =>
                 past' = [past EXCEPT !.notes = [past.notes EXCEPT ![o] = NotesPost(o)]]
           /\ \A forGood, posted \in BOOLEAN : RelayFails(o, forGood, posted) =>
                 past' = [past EXCEPT !.notes = [past.notes EXCEPT ![o] = NotesFail(o, posted)]]
           /\ \A q \in Slots : Finish(q) /\ request[q].order = o =>
                 \/ UNCHANGED past /\ ~request[q].fresh
                 \/ /\ past' = [past EXCEPT !.notes = [past.notes EXCEPT ![o] = NotesPlaced(o)]]
                    /\ request[q].fresh
           /\ \A m \in Merchants : MailFinal(m) /\ counter[m].order = o =>
                 past' = [past EXCEPT !.notes = [past.notes EXCEPT ![o] = NotesFinal(o)]]
  <1>0. /\ past \in Pasts /\ past.notes \in Seq(NoteDocs) /\ o \in DOMAIN past.notes
        /\ past.notes[o] \in NoteDocs
    BY LenProperties, NotesTyped DEF Typed, Pasts
  <1>1. ASSUME PostProof(o)
        PROVE  past' = [past EXCEPT !.notes = [past.notes EXCEPT ![o] = NotesPost(o)]]
    BY <1>0, <1>1 DEF PostProof, NotesPost
  <1>2. ASSUME NEW forGood \in BOOLEAN, NEW posted \in BOOLEAN, RelayFails(o, forGood, posted)
        PROVE  past' = [past EXCEPT !.notes = [past.notes EXCEPT ![o] = NotesFail(o, posted)]]
    BY <1>0, <1>2 DEF RelayFails, NotesFail, Pasts, NoteDocs
  <1>3. ASSUME NEW q \in Slots, Finish(q), request[q].order = o
        PROVE  \/ UNCHANGED past /\ ~request[q].fresh
               \/ /\ past' = [past EXCEPT !.notes = [past.notes EXCEPT ![o] = NotesPlaced(o)]]
                  /\ request[q].fresh
    BY <1>0, <1>3 DEF Finish, MailsPlaced, NotesPlaced
  <1>4. ASSUME NEW m \in Merchants, MailFinal(m), counter[m].order = o
        PROVE  past' = [past EXCEPT !.notes = [past.notes EXCEPT ![o] = NotesFinal(o)]]
    BY <1>0, <1>4 DEF MailFinal, NotesFinal
  <1> QED BY <1>1, <1>2, <1>3, <1>4
(* Whose notes change: those of an order that is told of or posted. *)
LEMMA PastKept ==
    ASSUME OrderAssumption, Typed, Refers, [OrderNext]_orderVars
    PROVE  /\ past' \in Pasts /\ Len(past'.notes) = Len(orders')
           /\ \A o \in DOMAIN orders :
                 \/ past'.notes[o] = past.notes[o]
                 \/ PostProof(o)
                 \/ \E forGood, posted \in BOOLEAN : RelayFails(o, forGood, posted)
                 \/ \E q \in Slots : Finish(q) /\ request[q].order = o
                 \/ \E m \in Merchants : MailFinal(m) /\ counter[m].order = o
           /\ past'.failures >= past.failures
           /\ past.hasty \subseteq past'.hasty
  <1>0. /\ past \in Pasts /\ past.notes \in Seq(NoteDocs) /\ Len(past.notes) = Len(orders)
        /\ DOMAIN past.notes = DOMAIN orders /\ orders \in Seq(OrderDocs)
    BY LenProperties DEF Typed, Pasts
  <1> DEFINE Told(o) == \/ PostProof(o)
                        \/ \E forGood, posted \in BOOLEAN : RelayFails(o, forGood, posted)
                        \/ \E q \in Slots : Finish(q) /\ request[q].order = o
                        \/ \E m \in Merchants : MailFinal(m) /\ counter[m].order = o
             OthersGrow == /\ past'.failures >= past.failures /\ past.hasty \subseteq past'.hasty
             Goal == /\ past' \in Pasts /\ Len(past'.notes) = Len(orders')
                     /\ \A o \in DOMAIN orders : past'.notes[o] = past.notes[o] \/ Told(o)
                     /\ OthersGrow
  <1>1. ASSUME NEW o \in DOMAIN orders, Told(o)
        PROVE  Goal
    <2>1. \/ UNCHANGED past
          \/ \E e \in NoteDocs : past' = [past EXCEPT !.notes = [past.notes EXCEPT ![o] = e]]
      <3>1. CASE PostProof(o)
        BY <3>1, NoteSteps, NotesTyped
      <3>2. ASSUME NEW forGood \in BOOLEAN, NEW posted \in BOOLEAN, RelayFails(o, forGood, posted)
            PROVE  \E e \in NoteDocs : past' = [past EXCEPT !.notes = [past.notes EXCEPT ![o] = e]]
        BY <3>2, NoteSteps, NotesTyped
      <3>3. ASSUME NEW q \in Slots, Finish(q), request[q].order = o
            PROVE  \/ UNCHANGED past
                   \/ \E e \in NoteDocs : past' = [past EXCEPT !.notes = [past.notes EXCEPT ![o] = e]]
        BY <3>3, NoteSteps, NotesTyped
      <3>4. ASSUME NEW m \in Merchants, MailFinal(m), counter[m].order = o
            PROVE  \E e \in NoteDocs : past' = [past EXCEPT !.notes = [past.notes EXCEPT ![o] = e]]
        BY <3>4, NoteSteps, NotesTyped
      <3> QED BY <1>1, <3>1, <3>2, <3>3, <3>4
    <2>2. DOMAIN orders' = DOMAIN orders
      BY <1>1 DEF PostProof, RelayFails, Finish, MailFinal
    <2>3. Len(orders') = Len(orders)
      BY <1>0, <2>2, OrdersKept, SameLength
    <2>4. CASE UNCHANGED past
      <3>1. past'.failures >= past.failures
        BY <1>0, <2>4 DEF Pasts
      <3> HIDE DEF Told
      <3> QED BY <1>0, <2>3, <2>4, <3>1
    <2>5. ASSUME NEW e \in NoteDocs, past' = [past EXCEPT !.notes = [past.notes EXCEPT ![o] = e]]
          PROVE  Goal
      <3>1. /\ past' \in Pasts /\ Len(past'.notes) = Len(orders)
            /\ \A p \in DOMAIN orders : p # o => past'.notes[p] = past.notes[p]
            /\ past'.failures = past.failures /\ past'.hasty = past.hasty
        BY <2>5, NotesChanged
      <3>2. past.failures \in Nat
        BY <1>0 DEF Pasts
      <3> HIDE DEF Told
      <3> QED BY <1>1, <2>3, <3>1, <3>2
    <2> HIDE DEF Goal
    <2> QED BY <2>1, <2>4, <2>5
  <1>2. ASSUME UNCHANGED orders, past' \in Pasts, past'.notes = past.notes, OthersGrow
        PROVE  Goal
    BY <1>0, <1>2
  <1>3. ASSUME UNCHANGED <<orders, past>>
        PROVE  Goal
    <2>1. past.failures \in Nat
      BY <1>0 DEF Pasts
    <2> QED BY <1>0, <1>3, <2>1
  <1>4. ASSUME NEW q \in Slots, Submit(q)
        PROVE  Goal
    <2> DEFINE k == KeyFor(forms[panel.draft])
               n == past.sends + 1
               h == IF k > past.keys THEN k ELSE past.keys
    <2>1. past' = [past EXCEPT !.sends = n, !.keys = h] /\ k \in Keys /\ UNCHANGED orders
      BY <1>4, <1>0 DEF Submit, Pasts
    <2>2. n \in Nat /\ h \in Nat
      BY <1>0, <2>1 DEF Pasts, OrderAssumption
    <2> HIDE DEF n, h, k
    <2>3. /\ past' \in Pasts /\ past'.notes = past.notes
          /\ past'.failures = past.failures /\ past'.hasty = past.hasty
      BY <1>0, <2>1, <2>2 DEF Pasts
    <2>4. past.failures \in Nat
      BY <1>0 DEF Pasts
    <2> QED BY <1>2, <2>1, <2>3, <2>4
  <1>5. ASSUME NEW q \in Slots, Deliver(q)
        PROVE  Goal
    <2> DEFINE h == past.hasty \cup {panel.draft}
    <2>1. UNCHANGED orders /\ (UNCHANGED past \/ past' = [past EXCEPT !.hasty = h])
      BY <1>5, <1>0 DEF Deliver, Pasts
    <2>2. h \in SUBSET Nat /\ past.hasty \subseteq h
      BY <1>0 DEF Pasts, Typed, Panels
    <2> HIDE DEF h
    <2>3. past' \in Pasts /\ past'.notes = past.notes /\ OthersGrow
      BY <1>0, <2>1, <2>2 DEF Pasts
    <2> QED BY <1>2, <2>1, <2>3
  <1>6. ASSUME NEW q \in Slots, CountWrite(q)
        PROVE  Goal
    <2> DEFINE n == past.failures + 1
    <2>1. past' = [past EXCEPT !.failures = n] /\ UNCHANGED orders
      BY <1>6 DEF CountWrite
    <2>2. n \in Nat /\ n >= past.failures
      BY <1>0 DEF Pasts
    <2> HIDE DEF n
    <2>3. past' \in Pasts /\ past'.notes = past.notes /\ OthersGrow
      BY <1>0, <2>1, <2>2 DEF Pasts
    <2> QED BY <1>2, <2>1, <2>3
  <1>7. ASSUME NEW q \in Slots, Commit(q)
        PROVE  Goal
    <2> DEFINE n == Append(past.notes, NoNotes)
    <2>1. past' = [past EXCEPT !.notes = n] /\ NoNotes \in NoteDocs /\ Len(orders') = Len(orders) + 1
      BY <1>7, Commits
    <2>2. n \in Seq(NoteDocs) /\ Len(n) = Len(orders') /\ \A o \in DOMAIN orders : n[o] = past.notes[o]
      BY <1>0, <2>1, Appended
    <2> HIDE DEF n
    <2>3. /\ past' \in Pasts /\ past'.notes = n
          /\ past'.failures = past.failures /\ past'.hasty = past.hasty
      BY <1>0, <2>1, <2>2 DEF Pasts
    <2>4. past.failures \in Nat
      BY <1>0 DEF Pasts
    <2> HIDE DEF Told
    <2> QED BY <2>2, <2>3, <2>4
  <1>8. ASSUME NEW q \in Slots, Finish(q)
        PROVE  Goal
    <2>1. request[q].order \in DOMAIN orders
      BY <1>8 DEF Finish, Refers
    <2> HIDE DEF Goal
    <2> QED BY <1>1, <1>8, <2>1
  <1>9. ASSUME NEW m \in Merchants, MailFinal(m)
        PROVE  Goal
    <2>1. counter[m].order \in DOMAIN orders
      BY <1>9 DEF MailFinal, Refers
    <2> HIDE DEF Goal
    <2> QED BY <1>1, <1>9, <2>1
  <1>10. ASSUME SomeRelay
         PROVE  Goal
    <2>1. CASE \E o \in DOMAIN orders : Told(o)
      <3> HIDE DEF Goal, Told
      <3> QED BY <1>1, <2>1
    <2>2. CASE \A o \in DOMAIN orders : ~Told(o)
      <3>1. UNCHANGED <<orders, past>>
        BY <1>10, <2>2 DEF SomeRelay, JobClaims, RelayFallsDue
      <3> HIDE DEF Goal
      <3> QED BY <1>3, <3>1
    <2> QED BY <2>1, <2>2
  <1>11. ASSUME SomePersist \/ SomeDecide
         PROVE  Goal
    <2>1. UNCHANGED past /\ DOMAIN orders' = DOMAIN orders
      BY <1>11 DEF SomePersist, PersistProof, SomeDecide, Decide
    <2>2. Len(orders') = Len(orders)
      BY <1>0, <2>1, OrdersKept, SameLength
    <2>3. past.failures \in Nat
      BY <1>0 DEF Pasts
    <2> QED BY <1>0, <2>1, <2>2, <2>3
  <1>12. ASSUME SomeFill \/ SomeGiveUp \/ Others \/ Crash
         PROVE  UNCHANGED <<orders, past>>
    BY <1>12 DEF SomeFill, FillIn, SomeGiveUp, GiveUp, Others, AttemptsExpire, ChangeRate, Crash
  <1>13. ASSUME NEW q \in Slots, SlotStep(q), ~Commit(q), ~Finish(q), ~CountWrite(q)
         PROVE  UNCHANGED <<orders, past>>
    BY <1>13 DEF SlotStep, Arrive, CountRead, ClaimTaken, ClaimFresh, ClearAttempts, Retry, Settle
  <1>14. ASSUME UNCHANGED orderState
         PROVE  UNCHANGED <<orders, past>>
    BY <1>14 DEF orderState
  <1>15. Goal
    <2> HIDE DEF Goal
    <2> QED BY <1>3, <1>4, <1>5, <1>6, <1>7, <1>8, <1>9, <1>10, <1>11, <1>12, <1>13, <1>14, Kinds
               DEF SomeSubmit, SomeDeliver, SomeSlot, SomeMail
  <1> QED BY <1>15 DEF Goal
(* A delivery that comes to wait for an answer is one the server works on. *)
LEMMA SendsAndEnds ==
    ASSUME OrderAssumption, Typed, [OrderNext]_orderVars, NEW q \in Slots,
           request'[q] # request[q]
    PROVE  \/ request'[q] = Free
           \/ Submit(q) /\ request'[q].pc = "sent"
           \/ \E r \in Slots : SlotStep(r)
  <1>0. request \in [Slots -> {Free} \cup Live]
    BY DEF Typed
  <1>1. ASSUME NEW r \in Slots, Submit(r)
        PROVE  Submit(q) /\ request'[q].pc = "sent"
    <2>1. q = r
      BY <1>0, <1>1 DEF Submit
    <2> QED BY <1>0, <1>1, <2>1 DEF Submit
  <1>2. ASSUME NEW r \in Slots, Deliver(r) \/ \E arrives \in BOOLEAN : GiveUp(r, arrives)
        PROVE  request'[q] = Free
    BY <1>0, <1>2 DEF Deliver, GiveUp
  <1>3. CASE Crash
    BY <1>0, <1>3 DEF Crash
  <1>4. ASSUME SomeFill \/ SomeRelay \/ SomePersist \/ SomeDecide \/ SomeMail \/ Others
        PROVE  FALSE
    BY <1>4 DEF SomeFill, FillIn, SomeRelay, JobClaims, PostProof, RelayFallsDue, RelayFails,
                SomePersist, PersistProof, SomeDecide, Decide, SomeMail, MailFinal,
                Others, AttemptsExpire, ChangeRate
  <1>5. ~UNCHANGED orderState
    BY DEF orderState
  <1> QED BY <1>1, <1>2, <1>3, <1>4, <1>5, Kinds
             DEF SomeSubmit, SomeDeliver, SomeGiveUp, SomeSlot
(* The merchants at their counters. *)
LEMMA CountersKept ==
    ASSUME OrderAssumption, Typed, [OrderNext]_orderVars
    PROVE  /\ counter' \in [Merchants -> Counters]
           /\ \A m \in Merchants :
                 \/ counter'[m] = counter[m] \/ counter'[m] = Free
                 \/ \E o \in DOMAIN orders, status \in Finals :
                       Decide(m, o, status) /\ counter'[m] = [pc |-> "mailing", order |-> o]
  <1>0. counter \in [Merchants -> Counters] /\ DOMAIN orders \subseteq Nat
    BY LenProperties DEF Typed
  <1>1. ASSUME NEW o \in DOMAIN orders, NEW m \in Merchants, NEW status \in Finals,
               Decide(m, o, status)
        PROVE  /\ counter' \in [Merchants -> Counters]
               /\ counter'[m] = [pc |-> "mailing", order |-> o]
               /\ \A n \in Merchants : n # m => counter'[n] = counter[n]
    <2> DEFINE c == [pc |-> "mailing", order |-> o]
    <2>1. c \in Counters /\ counter' = [counter EXCEPT ![m] = c]
      BY <1>0, <1>1 DEF Decide, Counters
    <2> HIDE DEF c
    <2>2. /\ counter' \in [Merchants -> Counters] /\ counter'[m] = c
          /\ \A n \in Merchants : n # m => counter'[n] = counter[n]
      BY <1>0, <2>1
    <2> QED BY <2>2 DEF c
  <1>2. ASSUME NEW m \in Merchants, MailFinal(m)
        PROVE  /\ counter' \in [Merchants -> Counters]
               /\ \A n \in Merchants : counter'[n] = counter[n] \/ counter'[n] = Free
    BY <1>0, <1>2 DEF MailFinal, Counters
  <1>3. ASSUME Crash
        PROVE  /\ counter' \in [Merchants -> Counters]
               /\ \A n \in Merchants : counter'[n] = counter[n] \/ counter'[n] = Free
    BY <1>0, <1>3 DEF Crash, Counters
  <1>4. ASSUME SomeFill \/ SomeSubmit \/ SomeDeliver \/ SomeGiveUp \/ SomeSlot \/ SomeRelay
               \/ SomePersist \/ Others
        PROVE  UNCHANGED counter
    BY <1>4 DEF SomeFill, FillIn, SomeSubmit, Submit, SomeDeliver, Deliver, SomeGiveUp, GiveUp,
                SomeSlot, SlotStep, Arrive, CountRead, CountWrite, ClaimTaken, ClaimFresh,
                ClearAttempts, Retry, Commit, Settle, Finish, SomeRelay, JobClaims, PostProof,
                RelayFallsDue, RelayFails, SomePersist, PersistProof, Others, AttemptsExpire,
                ChangeRate
  <1>5. ASSUME UNCHANGED orderState
        PROVE  UNCHANGED counter
    BY <1>5 DEF orderState
  <1>6. ASSUME SomeDecide
        PROVE  /\ counter' \in [Merchants -> Counters]
               /\ \A m \in Merchants :
                     \/ counter'[m] = counter[m]
                     \/ \E o \in DOMAIN orders, status \in Finals :
                          Decide(m, o, status) /\ counter'[m] = [pc |-> "mailing", order |-> o]
    <2>1. PICK o \in DOMAIN orders, m \in Merchants, status \in Finals : Decide(m, o, status)
      BY <1>6 DEF SomeDecide
    <2>2. /\ counter' \in [Merchants -> Counters]
          /\ counter'[m] = [pc |-> "mailing", order |-> o]
          /\ \A n \in Merchants : n # m => counter'[n] = counter[n]
      BY <1>1, <2>1
    <2> QED BY <2>1, <2>2
  <1> QED BY <1>0, <1>2, <1>3, <1>4, <1>5, <1>6, Kinds DEF SomeMail

(* Rates and counts are natural numbers, and no count is higher than there were
   failures. *)
LEMMA CountsKept ==
    ASSUME OrderAssumption, Typed, Refers, [OrderNext]_orderVars
    PROVE  /\ rate' \in Nat /\ attempts' \in Nat /\ scene' \in Scenes
           /\ \/ attempts' = attempts \/ attempts' = 0
              \/ \E q \in Slots : CountWrite(q) /\ attempts' = request[q].seen + 1
  <1>0. rate \in Nat /\ attempts \in Nat /\ scene \in Scenes
        /\ request \in [Slots -> {Free} \cup Live]
    BY DEF Typed
  <1>1. scene' = scene
    BY DEF OrderNext, orderVars
  <1>2. ASSUME NEW q \in Slots, CountWrite(q)
        PROVE  rate' \in Nat /\ attempts' \in Nat /\ attempts' = request[q].seen + 1
    BY <1>0, <1>2 DEF CountWrite, Live, Free
  <1>3. ASSUME NEW q \in Slots, SlotStep(q), ~CountWrite(q)
        PROVE  UNCHANGED rate /\ (UNCHANGED attempts \/ attempts' = 0)
    BY <1>3 DEF SlotStep, Arrive, CountRead, ClaimTaken, ClaimFresh, ClearAttempts, Retry,
                Commit, Settle, Finish
  <1>4. ASSUME Others
        PROVE  rate' \in Nat /\ (UNCHANGED attempts \/ attempts' = 0)
    BY <1>0, <1>4 DEF Others, AttemptsExpire, ChangeRate
  <1>5. ASSUME SomeFill \/ SomeSubmit \/ SomeDeliver \/ SomeGiveUp \/ SomeRelay
               \/ SomePersist \/ SomeDecide \/ SomeMail \/ Crash
        PROVE  UNCHANGED <<rate, attempts>>
    BY <1>5 DEF SomeFill, FillIn, SomeSubmit, Submit, SomeDeliver, Deliver, SomeGiveUp, GiveUp,
                SomeRelay, JobClaims, PostProof, RelayFallsDue, RelayFails, SomePersist,
                PersistProof, SomeDecide, Decide, SomeMail, MailFinal, Crash
  <1>6. ASSUME UNCHANGED orderState
        PROVE  UNCHANGED <<rate, attempts>>
    BY <1>6 DEF orderState
  <1> QED BY <1>0, <1>1, <1>2, <1>3, <1>4, <1>5, <1>6, Kinds DEF SomeSlot

(* Types are kept. *)
LEMMA TypedKept ==
    ASSUME OrderAssumption, Typed, Refers, [OrderNext]_orderVars
    PROVE  Typed'
  <1>1. forms' \in Seq(Contents) /\ panel' \in Panels /\ request' \in [Slots -> {Free} \cup Live]
    BY FormsKept, PanelKept, RequestsKept
  <1>2. orders' \in Seq(OrderDocs) /\ relays' \in Seq(RelayDocs) /\ Len(relays') = Len(orders')
    BY OrdersKept, RelaysKept
  <1>3. /\ docs' \in [Keys -> Nat] /\ rows' \in Seq(RowDocs) /\ Len(rows') = Len(orders')
        /\ balance' \in Nat
    BY BooksKept
  <1>4. past' \in Pasts /\ Len(past'.notes) = Len(orders')
    BY PastKept
  <1>5. counter' \in [Merchants -> Counters]
    BY CountersKept
  <1>6. rate' \in Nat /\ attempts' \in Nat /\ scene' \in Scenes
    BY CountsKept
  <1> QED BY <1>1, <1>2, <1>3, <1>4, <1>5, <1>6 DEF Typed

(* What refers to orders and forms refers to some that exist. *)
LEMMA RefersKept ==
    ASSUME OrderAssumption, Typed, Refers, [OrderNext]_orderVars
    PROVE  Refers'
  <1>0. /\ request \in [Slots -> {Free} \cup Live] /\ docs \in [Keys -> Nat]
        /\ orders \in Seq(OrderDocs) /\ panel \in Panels /\ forms \in Seq(Contents)
    BY DEF Typed
  <1>f. DOMAIN forms \subseteq DOMAIN forms'
    BY FormsKept
  <1>o. DOMAIN orders \subseteq DOMAIN orders'
        /\ \A o \in DOMAIN orders : orders'[o].draft = orders[o].draft
    BY OrdersKept
  <1>1. \A o \in DOMAIN orders' : orders'[o].draft \in DOMAIN forms'
    <2>1. ASSUME NEW q \in Slots, Commit(q), NEW o \in DOMAIN orders', o \notin DOMAIN orders
          PROVE  orders'[o].draft \in DOMAIN forms'
      <3>1. orders' = Append(orders, NewOrder(q)) /\ NewOrder(q) \in OrderDocs
        BY <2>1, Commits
      <3>2. o = Len(orders) + 1 /\ orders'[o] = NewOrder(q)
        BY <1>0, <2>1, <3>1, Appended
      <3>3. request[q].draft \in DOMAIN forms
        BY <2>1 DEF Commit, Refers
      <3> QED BY <1>f, <3>2, <3>3 DEF NewOrder
    <2>2. ASSUME UNCHANGED orders \/ SomePersist \/ SomeDecide
          PROVE  DOMAIN orders' = DOMAIN orders
      BY <2>2 DEF SomePersist, PersistProof, SomeDecide, Decide
    <2> QED BY <1>f, <1>o, <2>1, <2>2, OrdersKept DEF Refers
  <1>2. \A q \in Slots : request'[q].pc # "free" => request'[q].draft \in DOMAIN forms'
    <2>1. ASSUME NEW q \in Slots, Kept(q)
          PROVE  request'[q].pc # "free" => request'[q].draft \in DOMAIN forms'
      <3>1. request'[q] = Free => request'[q].pc = "free"
        BY DEF Free
      <3>2. request[q] \in Live => request[q].pc # "free"
        BY DEF Live
      <3> QED BY <1>f, <2>1, <3>1, <3>2 DEF Kept, Same, Refers
    <2>2. ASSUME NEW r \in Slots, Submit(r), NEW q \in Slots
          PROVE  request'[q].pc # "free" => request'[q].draft \in DOMAIN forms'
      <3>1. panel.draft \in DOMAIN forms
        <4>1. panel.draft = Len(forms) /\ panel.draft # None /\ panel.draft \in Nat
          BY <1>0, <2>2 DEF Submit, Refers, Panels
        <4> QED BY <1>0, <4>1, LenProperties DEF None
      <3>2. q # r => request'[q] = request[q]
        BY <1>0, <2>2 DEF Submit
      <3>3. request'[r].draft = panel.draft
        BY <1>0, <2>2 DEF Submit
      <3> QED BY <1>f, <3>1, <3>2, <3>3 DEF Refers
    <2> QED BY <2>1, <2>2, RequestsKept DEF SomeSubmit
  <1>3. panel'.draft # None => panel'.draft = Len(forms')
    <2>1. ASSUME NEW f \in Contents, FillIn(f)
          PROVE  panel'.draft = Len(forms')
      <3>1. Len(forms') = Len(forms) + 1
        BY <1>0, <2>1, Appended DEF FillIn
      <3> QED BY <1>0, <2>1, <3>1 DEF FillIn, Panels
    <2>2. ASSUME SomeSubmit \/ SomeDeliver \/ SomeGiveUp \/ Crash
          PROVE  panel'.draft \in {panel.draft, None} /\ UNCHANGED forms
      BY <1>0, <2>2 DEF SomeSubmit, Submit, SomeDeliver, Deliver, SomeGiveUp, GiveUp, Crash, Panels
    <2>3. UNCHANGED forms \/ SomeFill
      BY FormsKept
    <2> QED BY <2>1, <2>2, <2>3, PanelKept DEF SomeFill, Refers
  <1>4. \A q \in Slots : request'[q].pc \in {"settling", "finishing"} =>
           request'[q].order \in DOMAIN orders'
    <2> SUFFICES ASSUME NEW q \in Slots, request'[q].pc \in {"settling", "finishing"}
                 PROVE  request'[q].order \in DOMAIN orders'
      OBVIOUS
    <2>1. CASE request'[q] = request[q]
      BY <1>o, <2>1 DEF Refers
    <2>2. CASE request'[q] # request[q]
      <3>1. PICK r \in Slots : SlotStep(r)
        BY <2>2, SendsAndEnds DEF Free
      <3>2. q = r
        BY <2>2, <3>1, SlotStepKeeps
      <3>3. CASE ClaimTaken(q)
        <4>1. request'[q].order = docs[request[q].key]
          BY <1>0, <3>3 DEF ClaimTaken, Live, Free
        <4>2. docs[request[q].key] # None /\ request[q].key \in Keys
          BY <1>0, <3>3 DEF ClaimTaken, Live, Free
        <4> QED BY <1>o, <4>1, <4>2 DEF Refers
      <3>4. CASE Commit(q)
        <4>1. request'[q].order = Len(orders')
          BY <1>0, <3>4 DEF Commit, Live, Free
        <4>2. orders' = Append(orders, NewOrder(q)) /\ NewOrder(q) \in OrderDocs
          BY <3>4, Commits
        <4> QED BY <1>0, <4>1, <4>2, Appended
      <3>5. CASE Settle(q)
        BY <1>0, <1>o, <3>5 DEF Settle, Refers, Live, Free
      <3>6. CASE \/ Arrive(q) \/ CountRead(q) \/ CountWrite(q) \/ ClaimFresh(q)
                 \/ ClearAttempts(q) \/ Retry(q) \/ Finish(q)
        <4>1. request[q] \in Live
          BY <3>1, <3>2, SlotStepKeeps
        <4>2. Arrive(q) => request'[q].pc \notin {"settling", "finishing"}
          BY <1>0, <4>1 DEF Arrive, Live
        <4>3. ClaimFresh(q) => request'[q].pc \notin {"settling", "finishing"}
          BY <1>0, <4>1 DEF ClaimFresh, Live
        <4>4. CountRead(q) \/ CountWrite(q) => request'[q].pc \notin {"settling", "finishing"}
          BY <1>0, <4>1 DEF CountRead, CountWrite, Live
        <4>5. ClearAttempts(q) \/ Retry(q) \/ Finish(q) =>
                 request'[q].pc \notin {"settling", "finishing"}
          BY <1>0, <4>1 DEF ClearAttempts, Retry, Finish, Live
        <4> QED BY <3>6, <4>2, <4>3, <4>4, <4>5
      <3> QED BY <3>1, <3>2, <3>3, <3>4, <3>5, <3>6 DEF SlotStep
    <2> QED BY <2>1, <2>2
  <1>5. \A m \in Merchants : counter'[m].pc = "mailing" => counter'[m].order \in DOMAIN orders'
    <2>1. Free.pc # "mailing"
      BY DEF Free
    <2>2. ASSUME NEW m \in Merchants, NEW o \in DOMAIN orders,
                 counter'[m] = [pc |-> "mailing", order |-> o]
          PROVE  counter'[m].order \in DOMAIN orders'
      BY <1>o, <2>2
    <2> QED BY <1>o, <2>1, <2>2, CountersKept DEF Refers
  <1>6. \A k \in Keys : docs'[k] # None => docs'[k] \in DOMAIN orders'
    <2>1. ASSUME NEW q \in Slots, Commit(q), NEW k \in Keys
          PROVE  docs'[k] = docs[k] \/ docs'[k] \in DOMAIN orders'
      <3>1. /\ orders' = Append(orders, NewOrder(q)) /\ NewOrder(q) \in OrderDocs
            /\ docs' = [docs EXCEPT ![request[q].key] = Len(orders) + 1]
        BY <2>1, Commits
      <3>2. Len(orders) + 1 \in DOMAIN orders'
        BY <1>0, <3>1, Appended
      <3> QED BY <1>0, <3>1, <3>2
    <2>2. SomeDecide => UNCHANGED docs
      BY DEF SomeDecide, Decide
    <2> QED BY <1>o, <2>1, <2>2, BooksKept DEF Refers
  <1> QED BY <1>1, <1>2, <1>3, <1>4, <1>5, <1>6 DEF Refers
(***************************************************************************)
(* The books.                                                              *)
(***************************************************************************)
KeyDocs == \A o \in DOMAIN orders : docs[orders[o].key] = o
Earned  == \A q \in Slots : request[q].pc = "recording" => request[q].seen <= past.failures

BooksInv == /\ Typed /\ Refers
            /\ BalanceAddsUp /\ RowsAgree /\ PlacedOnce /\ LocksAreEarned
            /\ KeyDocs /\ Earned

(* Whether an order buys or sells is settled with it. *)
LEMMA FormStays ==
    ASSUME OrderAssumption, Typed, Refers, [OrderNext]_orderVars, NEW o \in DOMAIN orders
    PROVE  /\ forms'[orders'[o].draft] = forms[orders[o].draft]
           /\ o \in DOMAIN orders' /\ o \in Nat /\ o # None
  <1>1. orders \in Seq(OrderDocs)
    BY DEF Typed
  <1> QED BY <1>1, FormsKept, OrdersKept, LenProperties DEF Refers, None

(* A step that places and decides nothing leaves the status of every order.  *)
LEMMA StatusStays ==
    ASSUME Typed, UNCHANGED orders \/ SomePersist
    PROVE  /\ DOMAIN orders' = DOMAIN orders
           /\ \A o \in DOMAIN orders : orders'[o].status = orders[o].status
  <1>1. ASSUME NEW p \in DOMAIN orders, PersistProof(p)
        PROVE  /\ DOMAIN orders' = DOMAIN orders
               /\ \A o \in DOMAIN orders : orders'[o].status = orders[o].status
    <2>1. orders[p] \in OrderDocs
      BY ElementOfSeq, LenProperties DEF Typed
    <2> QED BY <1>1, <2>1 DEF PersistProof, OrderDocs
  <1> QED BY <1>1 DEF SomePersist

(* The new order, and the ones that were there. *)
LEMMA CommitAdds ==
    ASSUME Typed, NEW q \in Slots, Commit(q)
    PROVE  /\ DOMAIN orders = 1 .. Len(orders) /\ DOMAIN orders' = 1 .. Len(orders) + 1
           /\ orders'[Len(orders) + 1] = NewOrder(q) /\ Len(orders) \in Nat
           /\ \A o \in DOMAIN orders : orders'[o] = orders[o]
           /\ UNCHANGED forms
           /\ request[q].key \in Keys
           /\ docs[request[q].key] = None
           /\ IF IsBuy(FormOf(q)) THEN ~CodeUsed(FormOf(q)) /\ balance' = balance
              ELSE balance # 0 /\ balance' = balance - 1
  <1>1. NewOrder(q) \in OrderDocs /\ orders' = Append(orders, NewOrder(q))
        /\ request[q] \in Live
    BY Commits
  <1>2. orders \in Seq(OrderDocs)
    BY DEF Typed
  <1> QED BY <1>1, <1>2, Appended DEF Commit, Conflicts, Live

(* A decision writes one order that was undecided. *)
LEMMA Decided ==
    ASSUME Typed, NEW o \in DOMAIN orders, NEW m \in Merchants, NEW status \in Finals,
           Decide(m, o, status)
    PROVE  /\ orders[o].status = "PENDING" /\ orders'[o].status = status
           /\ DOMAIN orders' = DOMAIN orders
           /\ \A p \in DOMAIN orders : p # o => orders'[p] = orders[p]
           /\ orders'[o].proof = orders[o].proof
           /\ UNCHANGED <<forms, relays, past, docs>>
  <1>1. orders[o] \in OrderDocs
    BY ElementOfSeq, LenProperties DEF Typed
  <1> QED BY <1>1 DEF Decide, MayDecide, OrderDocs

(* What a merchant decides is added to the balance or left out of it. *)
LEMMA BalanceKept ==
    ASSUME OrderAssumption, Typed, Refers, BalanceAddsUp, [OrderNext]_orderVars
    PROVE  BalanceAddsUp'
  <1>0. /\ orders \in Seq(OrderDocs) /\ balance \in Nat /\ balance' \in Nat
        /\ StartBalance \in Nat
    BY TypedKept DEF Typed, OrderAssumption
  <1>1. /\ IsFiniteSet(Bought) /\ IsFiniteSet(Sold)
        /\ Cardinality(Bought) \in Nat /\ Cardinality(Sold) \in Nat
    <2>1. IsFiniteSet(DOMAIN orders)
      BY <1>0, LenProperties, FS_Interval
    <2>2. Bought \subseteq DOMAIN orders /\ Sold \subseteq DOMAIN orders
      BY DEF Bought, Sold
    <2> QED BY <2>1, <2>2, FS_Subset, FS_CardinalityType
  <1>2. ASSUME UNCHANGED balance, DOMAIN orders' = DOMAIN orders,
               \A o \in DOMAIN orders : orders'[o].status = orders[o].status
        PROVE  BalanceAddsUp'
    <2>1. Bought' = Bought /\ Sold' = Sold
      BY <1>2, FormStays DEF Bought, Sold
    <2> QED BY <1>2, <2>1 DEF BalanceAddsUp
  <1>3. ASSUME NEW q \in Slots, Commit(q)
        PROVE  BalanceAddsUp'
    <2> DEFINE n == Len(orders) + 1
    <2>1. /\ DOMAIN orders' = DOMAIN orders \cup {n} /\ n \notin DOMAIN orders
          /\ orders'[n] = NewOrder(q)
          /\ \A o \in DOMAIN orders : orders'[o] = orders[o]
      <3>1. /\ DOMAIN orders = 1 .. Len(orders) /\ DOMAIN orders' = 1 .. Len(orders) + 1
            /\ Len(orders) \in Nat
        BY <1>3, CommitAdds
      <3>2. \A l \in Nat : 1 .. l + 1 = (1 .. l) \cup {l + 1} /\ l + 1 \notin 1 .. l
        OBVIOUS
      <3> QED BY <1>3, <3>1, <3>2, CommitAdds
    <2>2. UNCHANGED forms /\ NewOrder(q).status = "PENDING"
          /\ NewOrder(q).draft = request[q].draft
      BY <1>3, CommitAdds DEF NewOrder
    <2> HIDE DEF n
    <2>3. CASE IsBuy(FormOf(q))
      <3>1. Bought' = Bought /\ Sold' = Sold
        BY <2>1, <2>2, <2>3 DEF Bought, Sold, FormOf
      <3>2. UNCHANGED balance
        BY <1>3, <2>3, CommitAdds
      <3> QED BY <3>1, <3>2 DEF BalanceAddsUp
    <2>4. CASE ~IsBuy(FormOf(q))
      <3>1. Bought' = Bought /\ Sold' = Sold \cup {n} /\ n \notin Sold
        BY <2>1, <2>2, <2>4 DEF Bought, Sold, FormOf
      <3>2. Cardinality(Sold') = Cardinality(Sold) + 1
        BY <1>1, <3>1, FS_AddElement
      <3>3. balance' = balance - 1 /\ balance' >= 0
        BY <1>0, <1>3, <2>4, CommitAdds
      <3> QED BY <1>0, <1>1, <3>1, <3>2, <3>3 DEF BalanceAddsUp
    <2> QED BY <2>3, <2>4
  <1>4. ASSUME NEW o \in DOMAIN orders, NEW m \in Merchants, NEW status \in Finals,
               Decide(m, o, status)
        PROVE  BalanceAddsUp'
    <2> DEFINE buy == IsBuy(forms[orders[o].draft])
    <2>1. /\ orders[o].status = "PENDING" /\ orders'[o].status = status
          /\ DOMAIN orders' = DOMAIN orders
          /\ \A p \in DOMAIN orders : p # o => orders'[p] = orders[p]
          /\ status \in {"DONE", "REJECTED"}
      BY <1>4, Decided DEF Finals
    <2>2. \A p \in DOMAIN orders :
             forms'[orders'[p].draft] = forms[orders[p].draft]
      BY FormStays
    <2>3. balance' = IF buy = (status = "DONE") THEN balance + 1 ELSE balance
      BY <1>4 DEF Decide
    <2>4. CASE buy /\ status = "DONE"
      <3>1. Bought' = Bought \cup {o} /\ o \notin Bought /\ Sold' = Sold
        BY <2>1, <2>2, <2>4 DEF Bought, Sold
      <3>2. Cardinality(Bought') = Cardinality(Bought) + 1
        BY <1>1, <3>1, FS_AddElement
      <3>3. balance' = balance + 1
        BY <2>3, <2>4 DEF IsBuy
      <3> QED BY <1>0, <1>1, <3>1, <3>2, <3>3 DEF BalanceAddsUp
    <2>5. CASE (buy /\ status = "REJECTED") \/ (~buy /\ status = "DONE")
      <3>1. Bought' = Bought /\ Sold' = Sold
        BY <2>1, <2>2, <2>5 DEF Bought, Sold
      <3>2. balance' = balance
        BY <2>3, <2>5 DEF IsBuy
      <3> QED BY <3>1, <3>2 DEF BalanceAddsUp
    <2>6. CASE ~buy /\ status = "REJECTED"
      <3>1. Bought' = Bought /\ Sold' = Sold \ {o} /\ o \in Sold
        BY <2>1, <2>2, <2>6 DEF Bought, Sold
      <3>2. Cardinality(Sold') = Cardinality(Sold) - 1
        BY <1>1, <3>1, FS_RemoveElement
      <3>3. balance' = balance + 1
        BY <2>3, <2>6 DEF IsBuy
      <3> QED BY <1>0, <1>1, <3>1, <3>2, <3>3 DEF BalanceAddsUp
    <2> QED BY <2>1, <2>4, <2>5, <2>6
  <1>5. CASE UNCHANGED orders \/ SomePersist
    <2>1. UNCHANGED balance \/ SomeDecide \/ \E q \in Slots : Commit(q)
      BY BooksKept
    <2>2. UNCHANGED orders \/ SomePersist =>
             DOMAIN orders' = DOMAIN orders
             /\ \A o \in DOMAIN orders : orders'[o].status = orders[o].status
      BY StatusStays
    <2> QED BY <1>2, <1>3, <1>4, <1>5, <2>1, <2>2 DEF SomeDecide
  <1> QED BY <1>3, <1>4, <1>5, OrdersKept DEF SomeDecide
(* The row of an order, and whether it agrees. *)
RowAgrees(o) ==
    /\ rows[o].trade = CASE orders[o].status = "DONE" -> "COMPLETED"
                         [] OTHER -> orders[o].status
    /\ rows[o].refund <=> /\ ~IsBuy(forms[orders[o].draft])
                         /\ orders[o].status = "REJECTED"

(* The ledger rows are written with the order and with the decision on it. *)
LEMMA RowsKept ==
    ASSUME OrderAssumption, Typed, Refers, RowsAgree, [OrderNext]_orderVars
    PROVE  RowsAgree'
  <1>0. /\ rows \in Seq(RowDocs) /\ DOMAIN rows = DOMAIN orders /\ Len(rows) = Len(orders)
    BY LenProperties DEF Typed
  <1>i. \A o \in DOMAIN orders : RowAgrees(o)
    BY DEF RowsAgree, RowAgrees
  <1>1. ASSUME NEW o \in DOMAIN orders, UNCHANGED rows, orders'[o].status = orders[o].status
        PROVE  RowAgrees(o)'
    <2>1. forms'[orders'[o].draft] = forms[orders[o].draft]
      BY FormStays
    <2> QED BY <1>i, <1>1, <2>1 DEF RowAgrees
  <1>2. ASSUME NEW q \in Slots, Commit(q)
        PROVE  RowsAgree'
    <2>0. PICK n : n = Len(orders) + 1
      OBVIOUS
    <2> DEFINE e == [trade |-> "PENDING", refund |-> FALSE]
    <2>1. /\ \A o \in DOMAIN orders' : o \in DOMAIN orders \/ o = n
          /\ orders'[n] = NewOrder(q)
          /\ \A o \in DOMAIN orders : orders'[o] = orders[o]
      <3>1. /\ DOMAIN orders = 1 .. Len(orders) /\ DOMAIN orders' = 1 .. Len(orders) + 1
            /\ Len(orders) \in Nat
        BY <1>2, CommitAdds
      <3> QED BY <1>2, <2>0, <3>1, CommitAdds
    <2>2. rows'[n] = e /\ \A o \in DOMAIN orders : rows'[o] = rows[o]
      <3>1. rows' = Append(rows, e) /\ e \in RowDocs
        BY <1>2, Commits
      <3> HIDE DEF e
      <3> QED BY <1>0, <2>0, <3>1, Appended
    <2>3. RowAgrees(n)'
      BY <2>1, <2>2 DEF RowAgrees, NewOrder
    <2>4. \A o \in DOMAIN orders : RowAgrees(o)'
      <3> SUFFICES ASSUME NEW o \in DOMAIN orders PROVE RowAgrees(o)'
        OBVIOUS
      <3>1. forms'[orders'[o].draft] = forms[orders[o].draft]
        BY FormStays
      <3> QED BY <1>i, <2>1, <2>2, <3>1 DEF RowAgrees
    <2>5. \A o \in DOMAIN orders' : RowAgrees(o)'
      BY <2>1, <2>3, <2>4
    <2> QED BY <2>5 DEF RowsAgree, RowAgrees
  <1>3. ASSUME NEW o \in DOMAIN orders, NEW m \in Merchants, NEW status \in Finals,
               Decide(m, o, status)
        PROVE  RowsAgree'
    <2>1. /\ orders'[o].status = status /\ DOMAIN orders' = DOMAIN orders
          /\ \A p \in DOMAIN orders : p # o => orders'[p] = orders[p]
          /\ status \in {"DONE", "REJECTED"}
      BY <1>3, Decided DEF Finals
    <2> DEFINE buy == IsBuy(forms[orders[o].draft])
    <2> DEFINE r == ~buy /\ status = "REJECTED"
    <2>2. /\ rows'[o] = [trade |-> IF status = "DONE" THEN "COMPLETED" ELSE "REJECTED",
                         refund |-> r]
          /\ \A p \in DOMAIN orders : p # o => rows'[p] = rows[p]
      BY <1>0, <1>3 DEF Decide
    <2>3. RowAgrees(o)'
      <3>1. forms'[orders'[o].draft] = forms[orders[o].draft]
        BY FormStays
      <3>2. rows'[o].trade = IF status = "DONE" THEN "COMPLETED" ELSE "REJECTED"
        BY <2>2
      <3>3. rows'[o].refund = r
        <4> HIDE DEF r
        <4> QED BY <2>2
      <3>4. orders'[o].status = status /\ IsBuy(forms'[orders'[o].draft]) = buy
        BY <2>1, <3>1 DEF IsBuy
      <3>5. rows'[o].trade = CASE orders'[o].status = "DONE" -> "COMPLETED"
                               [] OTHER -> orders'[o].status
        BY <2>1, <3>2, <3>4
      <3>6. rows'[o].refund <=> ~IsBuy(forms'[orders'[o].draft]) /\ orders'[o].status = "REJECTED"
        BY <3>3, <3>4, Zenon
      <3> QED BY <3>5, <3>6 DEF RowAgrees, IsBuy
    <2>4. \A p \in DOMAIN orders : p # o => RowAgrees(p)'
      <3> SUFFICES ASSUME NEW p \in DOMAIN orders, p # o PROVE RowAgrees(p)'
        OBVIOUS
      <3>1. forms'[orders'[p].draft] = forms[orders[p].draft]
        BY FormStays
      <3> QED BY <1>i, <2>1, <2>2, <3>1 DEF RowAgrees
    <2>5. \A p \in DOMAIN orders' : RowAgrees(p)'
      BY <2>1, <2>3, <2>4
    <2> QED BY <2>5 DEF RowsAgree, RowAgrees
  <1>4. CASE UNCHANGED orders \/ SomePersist
    <2>1. UNCHANGED rows \/ SomeDecide \/ \E q \in Slots : Commit(q)
      BY BooksKept
    <2>2. ASSUME UNCHANGED rows
          PROVE  RowsAgree'
      <3>1. \A o \in DOMAIN orders' : RowAgrees(o)'
        BY <1>1, <1>4, <2>2, StatusStays
      <3> QED BY <3>1 DEF RowsAgree, RowAgrees
    <2> QED BY <1>2, <1>3, <2>1, <2>2 DEF SomeDecide
  <1> QED BY <1>2, <1>3, <1>4, OrdersKept DEF SomeDecide

(* A key that is taken stays with its order, and a code that is used is not
   used again. *)
LEMMA PlacedOnceKept ==
    ASSUME OrderAssumption, Typed, Refers, PlacedOnce, KeyDocs, [OrderNext]_orderVars
    PROVE  PlacedOnce' /\ KeyDocs'
  <1>0. docs \in [Keys -> Nat] /\ orders \in Seq(OrderDocs)
    BY DEF Typed
  <1>1. ASSUME NEW q \in Slots, Commit(q)
        PROVE  PlacedOnce' /\ KeyDocs'
    <2> DEFINE n == Len(orders) + 1
    <2>1. /\ DOMAIN orders' = DOMAIN orders \cup {n} /\ n \notin DOMAIN orders
          /\ orders'[n] = NewOrder(q)
          /\ \A o \in DOMAIN orders : orders'[o] = orders[o]
      <3>1. /\ DOMAIN orders = 1 .. Len(orders) /\ DOMAIN orders' = 1 .. Len(orders) + 1
            /\ Len(orders) \in Nat
        BY <1>1, CommitAdds
      <3>2. \A l \in Nat : 1 .. l + 1 = (1 .. l) \cup {l + 1} /\ l + 1 \notin 1 .. l
        OBVIOUS
      <3> QED BY <1>1, <3>1, <3>2, CommitAdds
    <2>2. /\ docs' = [docs EXCEPT ![request[q].key] = n] /\ request[q].key \in Keys
          /\ docs[request[q].key] = None
          /\ UNCHANGED forms
          /\ IsBuy(FormOf(q)) => ~CodeUsed(FormOf(q))
      BY <1>1, Commits, CommitAdds
    <2>3. NewOrder(q).key = request[q].key /\ NewOrder(q).draft = request[q].draft
      BY DEF NewOrder
    <2> HIDE DEF n
    <2>4. \A o \in DOMAIN orders : orders[o].key # request[q].key
      BY <2>2, FormStays DEF KeyDocs
    <2>5. KeyDocs'
      BY <1>0, <2>1, <2>2, <2>3, <2>4 DEF KeyDocs
    <2>6. ASSUME NEW o \in DOMAIN orders
          PROVE  LET f == forms[orders[o].draft] IN IsBuy(f) => f # FormOf(q)
      BY <2>2, <2>6 DEF CodeUsed
    <2>7. PlacedOnce'
      <3> SUFFICES ASSUME NEW o \in DOMAIN orders', NEW p \in DOMAIN orders', o # p
                   PROVE  /\ orders'[o].key # orders'[p].key
                          /\ IsBuy(forms'[orders'[o].draft]) =>
                                forms'[orders'[o].draft] # forms'[orders'[p].draft]
        BY DEF PlacedOnce, IsBuy
      <3>1. CASE o \in DOMAIN orders /\ p \in DOMAIN orders
        BY <2>1, <2>2, <3>1 DEF PlacedOnce
      <3>2. CASE o = n /\ p \in DOMAIN orders
        BY <2>1, <2>2, <2>3, <2>4, <2>6, <3>2 DEF FormOf, IsBuy
      <3>3. CASE p = n /\ o \in DOMAIN orders
        BY <2>1, <2>2, <2>3, <2>4, <2>6, <3>3 DEF FormOf
      <3> QED BY <2>1, <3>1, <3>2, <3>3
    <2> QED BY <2>5, <2>7
  <1>2. ASSUME UNCHANGED docs, DOMAIN orders' = DOMAIN orders
        PROVE  PlacedOnce' /\ KeyDocs'
    <2>1. \A o \in DOMAIN orders : /\ orders'[o].key = orders[o].key
                                   /\ forms'[orders'[o].draft] = forms[orders[o].draft]
      BY OrdersKept, FormStays
    <2> QED BY <1>2, <2>1 DEF PlacedOnce, KeyDocs
  <1>3. SomeDecide \/ SomePersist \/ UNCHANGED orders => DOMAIN orders' = DOMAIN orders
    BY DEF SomeDecide, Decide, SomePersist, PersistProof
  <1>4. SomeDecide => UNCHANGED docs
    BY DEF SomeDecide, Decide
  <1> QED BY <1>1, <1>2, <1>3, <1>4, OrdersKept, BooksKept

(* What is written to the counter was read when it was no higher. *)
LEMMA EarnedKept ==
    ASSUME OrderAssumption, Typed, Refers, LocksAreEarned, Earned, [OrderNext]_orderVars
    PROVE  LocksAreEarned' /\ Earned'
  <1>0. /\ request \in [Slots -> {Free} \cup Live] /\ attempts \in Nat /\ past \in Pasts
        /\ past.failures \in Nat /\ past'.failures \in Nat
        /\ past'.failures >= past.failures
    BY TypedKept, PastKept DEF Typed, Pasts
  <1>1. LocksAreEarned'
    <2>1. ASSUME NEW q \in Slots, CountWrite(q)
          PROVE  /\ request[q].seen \in Nat /\ request[q].seen <= past.failures
                 /\ past'.failures = past.failures + 1
      BY <1>0, <2>1 DEF CountWrite, Earned, Live, Free, Pasts
    <2> QED BY <1>0, <2>1, CountsKept DEF LocksAreEarned
  <1>2. ASSUME NEW q \in Slots, request'[q].pc = "recording"
        PROVE  request'[q].seen <= past'.failures
    <2>1. CASE request'[q] = request[q]
      <3>1. request[q].seen \in Nat /\ request[q].seen <= past.failures
        BY <1>0, <1>2, <2>1 DEF Earned, Live, Free
      <3> QED BY <1>0, <2>1, <3>1
    <2>2. CASE request'[q] # request[q]
      <3>1. PICK r \in Slots : SlotStep(r)
        BY <1>2, <2>2, SendsAndEnds DEF Free
      <3>2. q = r /\ request[q] \in Live
        BY <2>2, <3>1, SlotStepKeeps
      <3>3. CASE CountRead(q)
        <4>1. request'[q].seen = attempts
          BY <1>0, <3>2, <3>3 DEF CountRead, Live
        <4> QED BY <1>0, <4>1 DEF LocksAreEarned
      <3>4. Arrive(q) => request'[q].pc # "recording"
        BY <1>0, <3>2 DEF Arrive, Live
      <3>5. ClaimFresh(q) => request'[q].pc # "recording"
        BY <1>0, <3>2 DEF ClaimFresh, Live
      <3>8. ClaimTaken(q) => request'[q].pc # "recording"
        BY <1>0, <3>2 DEF ClaimTaken, Live
      <3>6. CountWrite(q) \/ Commit(q) => request'[q].pc # "recording"
        BY <1>0, <3>2 DEF CountWrite, Commit, Live
      <3>7. ClearAttempts(q) \/ Retry(q) \/ Settle(q) \/ Finish(q) => request'[q].pc # "recording"
        BY <1>0, <3>2 DEF ClearAttempts, Retry, Settle, Finish, Live
      <3> QED BY <1>2, <3>1, <3>2, <3>3, <3>4, <3>5, <3>6, <3>7, <3>8 DEF SlotStep
    <2> QED BY <2>1, <2>2
  <1> QED BY <1>1, <1>2 DEF Earned

(* The books agree when nothing was ordered, *)
LEMMA BooksInit ==
    ASSUME OrderAssumption, OrderInit
    PROVE  BooksInv
  <1>1. orders = <<>> /\ rows = <<>> /\ relays = <<>> /\ forms = <<>> /\ past.notes = <<>>
    BY DEF OrderInit
  <1>2. /\ \A S : <<>> \in Seq(S)
        /\ Len(<<>>) = 0 /\ DOMAIN <<>> = {}
    BY EmptySeq, LenProperties
  <1>3. Typed
    <2>1. panel \in Panels
      BY DEF OrderInit, Panels, None
    <2>2. request \in [Slots -> {Free} \cup Live] /\ docs \in [Keys -> Nat]
      BY DEF OrderInit, None
    <2>3. past \in Pasts
      BY <1>2 DEF OrderInit, Pasts
    <2>4. counter \in [Merchants -> Counters]
      BY DEF OrderInit, Counters
    <2> QED BY <1>1, <1>2, <2>1, <2>2, <2>3, <2>4 DEF OrderInit, OrderAssumption, Typed
  <1>4. Refers
    <2>1. panel.draft = None /\ \A k \in Keys : docs[k] = None
      BY DEF OrderInit
    <2>2. \A q \in Slots : request[q].pc = "free"
      BY DEF OrderInit, Free
    <2>3. \A m \in Merchants : counter[m].pc = "free"
      BY DEF OrderInit, Free
    <2> QED BY <1>1, <1>2, <2>1, <2>2, <2>3 DEF Refers
  <1>5. BalanceAddsUp
    <2>1. Bought = {} /\ Sold = {}
      BY <1>1, <1>2 DEF Bought, Sold
    <2>2. Cardinality({}) = 0
      BY FS_EmptySet
    <2> QED BY <2>1, <2>2 DEF OrderInit, BalanceAddsUp, OrderAssumption
  <1>6. RowsAgree /\ PlacedOnce /\ KeyDocs
    BY <1>1, <1>2 DEF RowsAgree, PlacedOnce, KeyDocs
  <1>7. LocksAreEarned /\ Earned
    BY DEF OrderInit, LocksAreEarned, Earned, Free
  <1> QED BY <1>3, <1>4, <1>5, <1>6, <1>7 DEF BooksInv

(* and after every step. *)
LEMMA BooksStep ==
    ASSUME OrderAssumption, BooksInv, [OrderNext]_orderVars
    PROVE  BooksInv'
  BY TypedKept, RefersKept, BalanceKept, RowsKept, PlacedOnceKept, EarnedKept DEF BooksInv

(* The books of the order desk agree in every state: the balance is what the
   orders say, each ledger row says what its order says, no key and no code
   places two orders and nobody is locked out without the failures
   (createOrder, updateOrderStatus, executeIdempotentMutationV2). *)
THEOREM OrderBooksAgree == OrderSpec => []OrderBooksOK
  <1>1. OrderInit => BooksInv
    BY OrderAssumption, BooksInit
  <1>2. BooksInv /\ [OrderNext]_orderVars => BooksInv'
    BY OrderAssumption, BooksStep
  <1>3. BooksInv => OrderBooksOK
    <2> SUFFICES ASSUME BooksInv PROVE OrderBooksOK
      OBVIOUS
    <2>1. OrderTypeOK
      <3>1. \A o \in DOMAIN orders : orders[o].status \in {"PENDING"} \cup Finals
        <4>1. orders \in Seq(OrderDocs)
          BY DEF BooksInv, Typed
        <4>2. \A o \in DOMAIN orders : orders[o] \in OrderDocs
          BY <4>1, ElementOfSeq, LenProperties
        <4> QED BY <4>2 DEF OrderDocs
      <3> QED BY <3>1 DEF BooksInv, Typed, OrderTypeOK, Requests, Live, Contents
    <2> QED BY <2>1 DEF BooksInv, OrderBooksOK
  <1> QED BY <1>1, <1>2, <1>3, PTL DEF OrderSpec
(***************************************************************************)
(* Notices.                                                                *)
(***************************************************************************)
Fresh(q)   == request[q].pc \in {"settling", "finishing"} /\ request[q].fresh
Mailing(m) == counter[m].pc = "mailing"

(* Only the request that placed an order will send its mail. *)
FreshOK ==
    /\ \A q \in Slots : request[q].pc \in {"sent", "counting", "recording", "claiming",
                                           "clearing", "committing"} => ~request[q].fresh
    /\ \A q \in Slots : Fresh(q) => past.notes[request[q].order].placed = 0
    /\ \A q, r \in Slots : q # r /\ Fresh(q) /\ Fresh(r) => request[q].order # request[r].order
    /\ \A o \in DOMAIN orders : past.notes[o].placed <= 1

(* Only the merchant who decided on an order will send its mail. *)
FinalOK ==
    /\ \A m \in Merchants : Mailing(m) => /\ past.notes[counter[m].order].final = 0
                                          /\ orders[counter[m].order].status \in Finals
    /\ \A m, n \in Merchants : m # n /\ Mailing(m) /\ Mailing(n) =>
          counter[m].order # counter[n].order
    /\ \A o \in DOMAIN orders : /\ past.notes[o].final <= 1
                                /\ past.notes[o].final = 1 => orders[o].status \in Finals

(* How far the relay of an order is, and what of it is known. *)
RelayOK(o) ==
    LET n == past.notes[o]
        r == relays[o]
    IN /\ r.at \in {"claimed", "posted"} => r.status = "processing"
       /\ r.status = "pending" \/ r.at = "claimed" => n.posts <= n.unheard
       /\ r.at = "posted" => n.posts >= 1
       /\ n.posts <= n.unheard + 1
       /\ r.status = "completed" <=> orders[o].proof # None
       /\ orders[o].proof <= n.posts

NoticesInv == /\ Typed /\ Refers
              /\ FreshOK /\ FinalOK
              /\ \A o \in DOMAIN orders : RelayOK(o)

(* The types of what belongs to one order. *)
LEMMA TypesOf ==
    ASSUME Typed, NEW o \in DOMAIN orders
    PROVE  orders[o] \in OrderDocs /\ relays[o] \in RelayDocs /\ past.notes[o] \in NoteDocs
  <1>1. /\ orders \in Seq(OrderDocs) /\ relays \in Seq(RelayDocs) /\ past.notes \in Seq(NoteDocs)
        /\ o \in DOMAIN relays /\ o \in DOMAIN past.notes
    BY LenProperties DEF Typed, Pasts
  <1> QED BY <1>1, ElementOfSeq, LenProperties

(* What is appended with a new order. *)
LEMMA CommitNotes ==
    ASSUME Typed, NEW q \in Slots, Commit(q), NEW n, n = Len(orders) + 1
    PROVE  /\ DOMAIN orders' = DOMAIN orders \cup {n} /\ n \notin DOMAIN orders
           /\ orders'[n] = NewOrder(q) /\ relays'[n] = NewRelay(q) /\ past'.notes[n] = NoNotes
           /\ \A o \in DOMAIN orders : /\ orders'[o] = orders[o] /\ relays'[o] = relays[o]
                                       /\ past'.notes[o] = past.notes[o]
           /\ request[q] \in Live
           /\ request' = [request EXCEPT ![q] =
                 [request[q] EXCEPT !.pc = "settling", !.order = n, !.fresh = TRUE]]
           /\ UNCHANGED counter
  <1>1. /\ DOMAIN orders' = DOMAIN orders \cup {n} /\ n \notin DOMAIN orders
        /\ orders'[n] = NewOrder(q)
        /\ \A o \in DOMAIN orders : orders'[o] = orders[o]
    <2>1. /\ DOMAIN orders = 1 .. Len(orders) /\ DOMAIN orders' = 1 .. Len(orders) + 1
          /\ Len(orders) \in Nat
      BY CommitAdds
    <2>2. \A l \in Nat : 1 .. l + 1 = (1 .. l) \cup {l + 1} /\ l + 1 \notin 1 .. l
      OBVIOUS
    <2> QED BY <2>1, <2>2, CommitAdds
  <1>2. /\ relays \in Seq(RelayDocs) /\ Len(relays) = Len(orders)
        /\ past \in Pasts /\ past.notes \in Seq(NoteDocs) /\ Len(past.notes) = Len(orders)
        /\ DOMAIN orders = 1 .. Len(orders)
    BY LenProperties DEF Typed, Pasts
  <1>3. relays'[n] = NewRelay(q) /\ \A o \in DOMAIN orders : relays'[o] = relays[o]
    <2>1. relays' = Append(relays, NewRelay(q)) /\ NewRelay(q) \in RelayDocs
      BY Commits
    <2> QED BY <1>2, <2>1, Appended
  <1>4. past'.notes[n] = NoNotes /\ \A o \in DOMAIN orders : past'.notes[o] = past.notes[o]
    <2> DEFINE s == Append(past.notes, NoNotes)
    <2>1. past' = [past EXCEPT !.notes = s] /\ NoNotes \in NoteDocs
      BY Commits
    <2>2. s[n] = NoNotes /\ \A o \in DOMAIN orders : s[o] = past.notes[o]
      BY <1>2, <2>1, Appended
    <2>3. past'.notes = s
      <3> HIDE DEF s
      <3> QED BY <1>2, <2>1 DEF Pasts
    <2> QED BY <2>2, <2>3
  <1>5. /\ request[q] \in Live /\ UNCHANGED counter
        /\ request' = [request EXCEPT ![q] =
              [request[q] EXCEPT !.pc = "settling", !.order = n, !.fresh = TRUE]]
    <2>1. Len(orders') = n
      BY Commits
    <2> QED BY <2>1, Commits DEF Commit
  <1> QED BY <1>1, <1>3, <1>4, <1>5

(* The relay of an order, with what is known of it, step by step. *)
LEMMA RelayOKKept ==
    ASSUME OrderAssumption, NoticesInv, [OrderNext]_orderVars, NEW o \in DOMAIN orders
    PROVE  RelayOK(o)'
  <1>0. /\ orders[o] \in OrderDocs /\ relays[o] \in RelayDocs /\ past.notes[o] \in NoteDocs
        /\ Typed /\ Refers /\ RelayOK(o)
        /\ DOMAIN relays = DOMAIN orders
    BY TypesOf, LenProperties DEF NoticesInv, Typed
  <1> DEFINE n == past.notes[o]
             r == relays[o]
  <1>1. /\ r.at \in {"claimed", "posted"} => r.status = "processing"
        /\ r.status = "pending" \/ r.at = "claimed" => n.posts <= n.unheard
        /\ r.at = "posted" => n.posts >= 1
        /\ n.posts <= n.unheard + 1
        /\ r.status = "completed" <=> orders[o].proof # None
        /\ orders[o].proof <= n.posts
        /\ n.posts \in Nat /\ n.unheard \in Nat /\ orders[o].proof \in Nat
    BY <1>0 DEF RelayOK, NoteDocs, OrderDocs
  <1>2. ASSUME relays'[o] = relays[o], orders'[o].proof = orders[o].proof,
               past'.notes[o].posts = past.notes[o].posts,
               past'.notes[o].unheard = past.notes[o].unheard
        PROVE  RelayOK(o)'
    BY <1>1, <1>2 DEF RelayOK
  <1>3. ASSUME UNCHANGED <<orders, past>>,
               \/ relays'[o] = relays[o]
               \/ /\ relays[o].status = "pending" \/ relays[o].at = "claimed"
                  /\ relays'[o].status = "processing" /\ relays'[o].at = "claimed"
               \/ relays'[o] = [relays[o] EXCEPT !.due = TRUE]
               \/ /\ relays[o].status = "processing"
                  /\ relays'[o] = [relays[o] EXCEPT !.at = "lost", !.by = {}]
        PROVE  RelayOK(o)'
    <2>1. CASE relays'[o] = relays[o]
      BY <1>2, <1>3, <2>1
    <2>2. CASE /\ relays[o].status = "pending" \/ relays[o].at = "claimed"
               /\ relays'[o].status = "processing" /\ relays'[o].at = "claimed"
      BY <1>1, <1>3, <2>2 DEF RelayOK
    <2>3. CASE relays'[o] = [relays[o] EXCEPT !.due = TRUE]
      <3>1. relays'[o].status = relays[o].status /\ relays'[o].at = relays[o].at
        BY <1>0, <2>3 DEF RelayDocs
      <3> QED BY <1>1, <1>3, <3>1 DEF RelayOK
    <2>4. CASE /\ relays[o].status = "processing"
               /\ relays'[o] = [relays[o] EXCEPT !.at = "lost", !.by = {}]
      <3>1. relays'[o].status = "processing" /\ relays'[o].at = "lost"
        BY <1>0, <2>4 DEF RelayDocs
      <3> QED BY <1>1, <1>3, <2>4, <3>1 DEF RelayOK
    <2> QED BY <1>3, <2>1, <2>2, <2>3, <2>4
  <1>4. ASSUME NEW p \in DOMAIN orders, NEW who, Claimable(p), ClaimRelay(p, who)
        PROVE  \/ relays'[o] = relays[o]
               \/ /\ relays[o].status = "pending"
                  /\ relays'[o].status = "processing" /\ relays'[o].at = "claimed"
    BY <1>0, <1>4 DEF Claimable, ClaimRelay, RelayDocs
  <1>5. ASSUME NEW p \in DOMAIN orders, PostProof(p)
        PROVE  RelayOK(o)'
    <2>1. past' = [past EXCEPT !.notes = [past.notes EXCEPT ![p] = NotesPost(p)]]
          /\ NotesPost(p) \in NoteDocs
      BY <1>0, <1>5, NoteSteps, NotesTyped
    <2>2. past'.notes[p] = NotesPost(p)
          /\ \A i \in DOMAIN orders : i # p => past'.notes[i] = past.notes[i]
      BY <1>0, <2>1, NotesChanged
    <2>3. CASE o # p
      BY <1>0, <1>2, <1>5, <2>2, <2>3 DEF PostProof
    <2>4. CASE o = p
      <3>1. r.at = "claimed" /\ relays'[o] = [r EXCEPT !.at = "posted"] /\ UNCHANGED orders
        BY <1>0, <1>5, <2>4 DEF PostProof
      <3>2. relays'[o].at = "posted" /\ relays'[o].status = r.status
        BY <1>0, <3>1 DEF RelayDocs
      <3>3. past'.notes[o].posts = n.posts + 1 /\ past'.notes[o].unheard = n.unheard
        BY <1>0, <2>2, <2>4 DEF NotesPost, NoteDocs
      <3> QED BY <1>1, <3>1, <3>2, <3>3 DEF RelayOK
    <2> QED BY <2>3, <2>4
  <1>6. ASSUME NEW p \in DOMAIN orders, NEW forGood \in BOOLEAN, NEW posted \in BOOLEAN,
               RelayFails(p, forGood, posted)
        PROVE  RelayOK(o)'
    <2>1. past' = [past EXCEPT !.notes = [past.notes EXCEPT ![p] = NotesFail(p, posted)]]
          /\ NotesFail(p, posted) \in NoteDocs
      BY <1>0, <1>6, NoteSteps, NotesTyped
    <2>2. past'.notes[p] = NotesFail(p, posted)
          /\ \A i \in DOMAIN orders : i # p => past'.notes[i] = past.notes[i]
      BY <1>0, <2>1, NotesChanged
    <2>3. CASE o # p
      BY <1>0, <1>2, <1>6, <2>2, <2>3 DEF RelayFails
    <2>4. CASE o = p
      <3>1. /\ \/ r.at = "claimed"
               \/ r.at = "posted" /\ ~posted
            /\ relays'[o] = AfterFailure(o, forGood) \/ relays'[o] = Unmarked(o)
            /\ UNCHANGED orders
        BY <1>0, <1>6, <2>4 DEF RelayFails
      <3>2. /\ relays'[o].at \in {"none", "lost"}
            /\ relays'[o].status \in {"pending", "terminal_failure", "processing"}
        <4>1. CASE relays'[o] = AfterFailure(o, forGood)
          BY <1>0, <4>1 DEF AfterFailure, RelayDocs
        <4>2. CASE relays'[o] = Unmarked(o)
          <5>1. r.status = "processing"
            BY <1>1, <3>1 DEF RelayOK
          <5> QED BY <1>0, <4>2, <5>1 DEF Unmarked, RelayDocs
        <4> QED BY <3>1, <4>1, <4>2
      <3>3. past'.notes[o].posts = IF posted THEN n.posts + 1 ELSE n.posts
        BY <1>0, <2>2, <2>4 DEF NotesFail, NoteDocs
      <3>4. past'.notes[o].unheard = IF posted \/ r.at = "posted" THEN n.unheard + 1
                                     ELSE n.unheard
        BY <1>0, <2>2, <2>4 DEF NotesFail, NoteDocs
      <3>5. past'.notes[o].posts <= past'.notes[o].unheard
            /\ past'.notes[o].posts >= n.posts /\ past'.notes[o].posts \in Nat
            /\ past'.notes[o].unheard \in Nat
        BY <1>1, <3>1, <3>3, <3>4
      <3>6. r.status = "processing"
        BY <1>1, <3>1
      <3> QED BY <1>1, <3>1, <3>2, <3>5, <3>6 DEF RelayOK
    <2> QED BY <2>3, <2>4
  <1>7. ASSUME NEW p \in DOMAIN orders, PersistProof(p)
        PROVE  RelayOK(o)'
    <2>1. UNCHANGED past
      BY <1>7 DEF PersistProof
    <2>2. CASE o # p
      BY <1>0, <1>2, <1>7, <2>1, <2>2 DEF PersistProof
    <2>3. CASE o = p
      <3>1. r.at = "posted" /\ r.status = "processing"
        BY <1>1, <1>7, <2>3 DEF PersistProof
      <3>2. relays'[o].status = "completed" /\ relays'[o].at = "none"
        BY <1>0, <1>7, <2>3 DEF PersistProof, RelayDocs
      <3>3. orders'[o].proof = n.posts
        BY <1>0, <1>1, <1>7, <2>3, <3>1 DEF PersistProof, ProofToKeep, OrderDocs
      <3> QED BY <1>1, <2>1, <3>1, <3>2, <3>3 DEF RelayOK, None
    <2> QED BY <2>2, <2>3
  <1>8. ASSUME NEW q \in Slots, Finish(q)
        PROVE  RelayOK(o)'
    <2>1. request[q].order \in DOMAIN orders
      BY <1>0, <1>8 DEF Finish, Refers
    <2> DEFINE p == request[q].order
    <2>2. UNCHANGED <<orders, relays>>
      BY <1>8 DEF Finish
    <2>3. CASE UNCHANGED past
      BY <1>2, <2>2, <2>3
    <2>4. CASE past' = [past EXCEPT !.notes = [past.notes EXCEPT ![p] = NotesPlaced(p)]]
      <3>1. past'.notes[p] = NotesPlaced(p)
            /\ \A i \in DOMAIN orders : i # p => past'.notes[i] = past.notes[i]
        BY <1>0, <2>1, <2>4, NotesTyped, NotesChanged
      <3>2. NotesPlaced(o).posts = n.posts /\ NotesPlaced(o).unheard = n.unheard
        BY <1>0 DEF NotesPlaced, NoteDocs
      <3> QED BY <1>2, <2>2, <3>1, <3>2
    <2> QED BY <1>0, <1>8, <2>1, <2>3, <2>4, NoteSteps
  <1>9. ASSUME NEW m \in Merchants, MailFinal(m)
        PROVE  RelayOK(o)'
    <2> DEFINE p == counter[m].order
    <2>1. p \in DOMAIN orders
      BY <1>0, <1>9 DEF MailFinal, Refers
    <2>2. UNCHANGED <<orders, relays>>
      BY <1>9 DEF MailFinal
    <2>3. past' = [past EXCEPT !.notes = [past.notes EXCEPT ![p] = NotesFinal(p)]]
      BY <1>0, <1>9, <2>1, NoteSteps
    <2>4. past'.notes[p] = NotesFinal(p)
          /\ \A i \in DOMAIN orders : i # p => past'.notes[i] = past.notes[i]
      BY <1>0, <2>1, <2>3, NotesTyped, NotesChanged
    <2>5. NotesFinal(o).posts = n.posts /\ NotesFinal(o).unheard = n.unheard
      BY <1>0 DEF NotesFinal, NoteDocs
    <2> QED BY <1>2, <2>2, <2>4, <2>5
  <1>10. ASSUME NEW q \in Slots, Commit(q)
         PROVE  RelayOK(o)'
    BY <1>0, <1>2, <1>10, CommitNotes
  <1>11. ASSUME NEW p \in DOMAIN orders, NEW m \in Merchants, NEW status \in Finals,
                Decide(m, p, status)
         PROVE  RelayOK(o)'
    <2>1. orders'[o].proof = orders[o].proof /\ UNCHANGED <<relays, past>>
      BY <1>0, <1>11, Decided
    <2> QED BY <1>2, <2>1
  <1>12. ASSUME NEW q \in Slots, Settle(q)
         PROVE  RelayOK(o)'
    <2>1. request[q].order \in DOMAIN orders
      BY <1>0, <1>12 DEF Settle, Refers
    <2> QED BY <1>3, <1>4, <1>12, <2>1 DEF Settle
  <1>13. ASSUME NEW q \in Slots, SlotStep(q)
         PROVE  RelayOK(o)'
    <2>1. CASE Settle(q) \/ Commit(q) \/ Finish(q)
      BY <1>8, <1>10, <1>12, <2>1
    <2>2. CASE Arrive(q) \/ CountRead(q) \/ ClaimTaken(q) \/ ClaimFresh(q) \/ ClearAttempts(q)
               \/ Retry(q)
      BY <1>3, <2>2 DEF Arrive, CountRead, ClaimTaken, ClaimFresh, ClearAttempts, Retry
    <2>3. CASE CountWrite(q)
      <3>1. UNCHANGED <<orders, relays>> /\ past'.notes = past.notes
        BY <1>0, <2>3 DEF CountWrite, Typed, Pasts
      <3> QED BY <1>2, <3>1
    <2> QED BY <1>13, <2>1, <2>2, <2>3 DEF SlotStep
  <1>14. ASSUME SomeRelay
         PROVE  RelayOK(o)'
    <2>1. PICK p \in DOMAIN orders :
             \/ JobClaims(p) \/ PostProof(p) \/ RelayFallsDue(p)
             \/ \E forGood, posted \in BOOLEAN : RelayFails(p, forGood, posted)
      BY <1>14 DEF SomeRelay
    <2>2. CASE JobClaims(p)
      BY <1>3, <1>4, <2>2 DEF JobClaims
    <2>3. CASE RelayFallsDue(p)
      <3>1. relays'[o] = relays[o] \/ relays'[o] = [relays[o] EXCEPT !.due = TRUE]
        BY <1>0, <2>3 DEF RelayFallsDue
      <3> QED BY <1>3, <2>3, <3>1 DEF RelayFallsDue
    <2> QED BY <1>5, <1>6, <2>1, <2>2, <2>3
  <1>15. ASSUME Crash
         PROVE  RelayOK(o)'
    <2>1. /\ UNCHANGED <<orders, past>>
          /\ relays'[o] = IF relays[o].status = "processing"
                          THEN [relays[o] EXCEPT !.at = "lost", !.by = {}] ELSE relays[o]
      BY <1>0, <1>15 DEF Crash
    <2> QED BY <1>3, <2>1
  <1>16. ASSUME SomeSubmit \/ SomeDeliver
         PROVE  RelayOK(o)'
    <2>1. UNCHANGED <<orders, relays>> /\ past'.notes = past.notes
      BY <1>0, <1>16 DEF SomeSubmit, Submit, SomeDeliver, Deliver, Typed, Pasts
    <2> QED BY <1>2, <2>1
  <1>17. ASSUME SomeFill \/ SomeGiveUp \/ Others
         PROVE  RelayOK(o)'
    BY <1>3, <1>17 DEF SomeFill, FillIn, SomeGiveUp, GiveUp, Others, AttemptsExpire, ChangeRate
  <1>18. ASSUME UNCHANGED orderState
         PROVE  RelayOK(o)'
    BY <1>3, <1>18 DEF orderState
  <1> QED BY <1>0, <1>7, <1>9, <1>11, <1>13, <1>14, <1>15, <1>16, <1>17, <1>18, Kinds
             DEF SomeSlot, SomePersist, SomeDecide, SomeMail
(* Which step counts a mail for an order. *)
LEMMA MailsCounted ==
    ASSUME OrderAssumption, Typed, Refers, [OrderNext]_orderVars, NEW o \in DOMAIN orders
    PROVE  /\ \/ past'.notes[o].placed = past.notes[o].placed
              \/ \E q \in Slots : /\ Finish(q) /\ request[q].order = o /\ request[q].fresh
                                  /\ past'.notes[o].placed = past.notes[o].placed + 1
           /\ \/ past'.notes[o].final = past.notes[o].final
              \/ \E m \in Merchants : /\ MailFinal(m) /\ counter[m].order = o
                                      /\ past'.notes[o].final = past.notes[o].final + 1
  <1>0. past.notes[o] \in NoteDocs
    BY TypesOf
  <1>1. ASSUME NEW e \in NoteDocs, past' = [past EXCEPT !.notes = [past.notes EXCEPT ![o] = e]]
        PROVE  past'.notes[o] = e
    BY <1>1, NotesChanged
  <1>2. ASSUME PostProof(o)
        PROVE  /\ past'.notes[o].placed = past.notes[o].placed
               /\ past'.notes[o].final = past.notes[o].final
    <2>1. past'.notes[o] = NotesPost(o)
      BY <1>1, <1>2, NoteSteps, NotesTyped
    <2> QED BY <1>0, <2>1 DEF NotesPost, NoteDocs
  <1>3. ASSUME NEW forGood \in BOOLEAN, NEW posted \in BOOLEAN, RelayFails(o, forGood, posted)
        PROVE  /\ past'.notes[o].placed = past.notes[o].placed
               /\ past'.notes[o].final = past.notes[o].final
    <2>1. past'.notes[o] = NotesFail(o, posted)
      BY <1>1, <1>3, NoteSteps, NotesTyped
    <2> QED BY <1>0, <2>1 DEF NotesFail, NoteDocs
  <1>4. ASSUME NEW q \in Slots, Finish(q), request[q].order = o
        PROVE  /\ \/ past'.notes[o].placed = past.notes[o].placed
                  \/ request[q].fresh /\ past'.notes[o].placed = past.notes[o].placed + 1
               /\ past'.notes[o].final = past.notes[o].final
    <2>1. \/ UNCHANGED past
          \/ request[q].fresh /\ past'.notes[o] = NotesPlaced(o)
      BY <1>1, <1>4, NoteSteps, NotesTyped
    <2> QED BY <1>0, <2>1 DEF NotesPlaced, NoteDocs
  <1>5. ASSUME NEW m \in Merchants, MailFinal(m), counter[m].order = o
        PROVE  /\ past'.notes[o].placed = past.notes[o].placed
               /\ past'.notes[o].final = past.notes[o].final + 1
    <2>1. past'.notes[o] = NotesFinal(o)
      BY <1>1, <1>5, NoteSteps, NotesTyped
    <2> QED BY <1>0, <2>1 DEF NotesFinal, NoteDocs
  <1> QED BY <1>2, <1>3, <1>4, <1>5, PastKept

(* A request is to send a mail because it placed the order, or was before. *)
LEMMA FreshFrom ==
    ASSUME OrderAssumption, Typed, FreshOK, [OrderNext]_orderVars, NEW q \in Slots
    PROVE  /\ Fresh(q)' => \/ Fresh(q) /\ request'[q].order = request[q].order
                           \/ Commit(q)
           /\ request'[q].pc \in {"sent", "counting", "recording", "claiming",
                                  "clearing", "committing"} => ~request'[q].fresh
  <1>0. request \in [Slots -> {Free} \cup Live]
    BY DEF Typed
  <1>1. CASE request'[q] = request[q]
    BY <1>1 DEF Fresh, FreshOK
  <1>2. CASE request'[q] = Free
    BY <1>2 DEF Fresh, Free
  <1>3. CASE Submit(q) /\ request'[q].pc = "sent"
    <2>1. request'[q].fresh = FALSE
      BY <1>0, <1>3 DEF Submit
    <2> QED BY <1>3, <2>1 DEF Fresh
  <1>4. ASSUME NEW r \in Slots, SlotStep(r), request'[q] # request[q]
        PROVE  /\ Fresh(q)' => \/ Fresh(q) /\ request'[q].order = request[q].order
                               \/ Commit(q)
               /\ request'[q].pc \in {"sent", "counting", "recording", "claiming",
                                      "clearing", "committing"} => ~request'[q].fresh
    <2>1. q = r /\ request[q] \in Live
      BY <1>4, SlotStepKeeps
    <2>2. CASE Commit(q)
      <3>1. request'[q].pc = "settling"
        BY <1>0, <2>1, <2>2 DEF Commit, Live
      <3> QED BY <2>2, <3>1
    <2>3. CASE Settle(q)
      <3>1. /\ request'[q].pc = "finishing" /\ request[q].pc = "settling"
            /\ request'[q].order = request[q].order /\ request'[q].fresh = request[q].fresh
        BY <1>0, <2>1, <2>3 DEF Settle, Live
      <3> QED BY <3>1 DEF Fresh
    <2>4. CASE Finish(q)
      <3>1. request'[q].pc = "answered"
        BY <1>0, <2>1, <2>4 DEF Finish, Live
      <3> QED BY <3>1 DEF Fresh
    <2>5. CASE CountWrite(q)
      <3>1. request'[q].pc = "answered"
        BY <1>0, <2>1, <2>5 DEF CountWrite, Live
      <3> QED BY <3>1 DEF Fresh
    <2>6. CASE Arrive(q) \/ CountRead(q) \/ ClaimTaken(q) \/ ClaimFresh(q) \/ ClearAttempts(q)
               \/ Retry(q)
      <3>1. ~request[q].fresh
        BY <2>6 DEF FreshOK, Arrive, CountRead, ClaimTaken, ClaimFresh, ClearAttempts, Retry
      <3>2. Arrive(q) => request'[q].fresh = request[q].fresh
        BY <1>0, <2>1 DEF Arrive, Live
      <3>3. ClaimTaken(q) => request'[q].fresh = request[q].fresh
        BY <1>0, <2>1 DEF ClaimTaken, Live
      <3>4. ClaimFresh(q) => request'[q].fresh = request[q].fresh
        BY <1>0, <2>1 DEF ClaimFresh, Live
      <3>5. CountRead(q) \/ ClearAttempts(q) \/ Retry(q) => request'[q].fresh = request[q].fresh
        BY <1>0, <2>1 DEF CountRead, ClearAttempts, Retry, Live
      <3>6. request'[q].fresh = request[q].fresh
        BY <2>6, <3>2, <3>3, <3>4, <3>5
      <3> QED BY <3>1, <3>6 DEF Fresh
    <2> QED BY <1>4, <2>1, <2>2, <2>3, <2>4, <2>5, <2>6 DEF SlotStep
  <1> QED BY <1>1, <1>2, <1>3, <1>4, SendsAndEnds

(* Only the request that placed an order will tell the group of it. *)
LEMMA FreshKept ==
    ASSUME OrderAssumption, NoticesInv, [OrderNext]_orderVars
    PROVE  FreshOK'
  <1>0. Typed /\ Refers /\ FreshOK
    BY DEF NoticesInv
  <1>1. ASSUME NEW q \in Slots, Fresh(q)
        PROVE  /\ request[q].order \in DOMAIN orders
               /\ past.notes[request[q].order].placed = 0
    BY <1>0, <1>1 DEF Fresh, Refers, FreshOK
  <1>2. ASSUME NEW q \in Slots, Fresh(q)'
        PROVE  past'.notes[request'[q].order].placed = 0
    <2>1. CASE Commit(q)
      <3>1. PICK n : n = Len(orders) + 1
        OBVIOUS
      <3>2. past'.notes[n] = NoNotes /\ request'[q].order = n
        <4>1. /\ past'.notes[n] = NoNotes /\ request[q] \in Live
              /\ request' = [request EXCEPT ![q] =
                    [request[q] EXCEPT !.pc = "settling", !.order = n, !.fresh = TRUE]]
          BY <1>0, <2>1, <3>1, CommitNotes
        <4>2. DOMAIN request = Slots
          BY <1>0 DEF Typed
        <4> QED BY <4>1, <4>2 DEF Live
      <3> QED BY <3>2 DEF NoNotes
    <2>2. CASE Fresh(q) /\ request'[q].order = request[q].order
      <3> DEFINE o == request[q].order
      <3>1. o \in DOMAIN orders /\ past.notes[o].placed = 0
        BY <1>1, <2>2
      <3>2. ASSUME NEW r \in Slots, Finish(r), request[r].order = o, request[r].fresh
            PROVE  FALSE
        <4>1. Fresh(r)
          BY <3>2 DEF Fresh, Finish
        <4>2. r = q
          BY <1>0, <2>2, <3>2, <4>1 DEF FreshOK
        <4>3. request'[q].pc = "answered"
          BY <1>0, <3>2, <4>2 DEF Finish, Typed, Live, Free
        <4> QED BY <1>2, <4>3 DEF Fresh
      <3>3. past'.notes[o].placed = past.notes[o].placed
        BY <1>0, <3>1, <3>2, MailsCounted
      <3> QED BY <2>2, <3>1, <3>3
    <2> QED BY <1>0, <1>2, <2>1, <2>2, FreshFrom
  <1>3. ASSUME NEW q \in Slots, NEW r \in Slots, q # r, Fresh(q)', Fresh(r)'
        PROVE  request'[q].order # request'[r].order
    <2>1. ASSUME NEW s \in Slots, NEW t \in Slots, s # t, Commit(s), Fresh(t)'
          PROVE  request'[s].order # request'[t].order
      <3>1. PICK n : n = Len(orders) + 1
        OBVIOUS
      <3>2. n \notin DOMAIN orders /\ request'[s].order = n /\ request'[t] = request[t]
        <4>1. /\ n \notin DOMAIN orders /\ request[s] \in Live
              /\ request' = [request EXCEPT ![s] =
                    [request[s] EXCEPT !.pc = "settling", !.order = n, !.fresh = TRUE]]
          BY <1>0, <2>1, <3>1, CommitNotes
        <4>2. DOMAIN request = Slots
          BY <1>0 DEF Typed
        <4> QED BY <2>1, <4>1, <4>2 DEF Live
      <3>3. Fresh(t)
        BY <2>1, <3>2 DEF Fresh
      <3> QED BY <1>1, <3>2, <3>3
    <2> QED BY <1>0, <1>3, <2>1, FreshFrom DEF FreshOK
  <1>4. ASSUME NEW o \in DOMAIN orders'
        PROVE  past'.notes[o].placed <= 1
    <2>1. CASE o \in DOMAIN orders
      <3>1. past.notes[o].placed \in Nat /\ past.notes[o].placed <= 1
        BY <1>0, <2>1, TypesOf DEF NoteDocs, FreshOK
      <3>2. ASSUME NEW q \in Slots, Finish(q), request[q].order = o, request[q].fresh
            PROVE  past.notes[o].placed = 0
        BY <1>1, <3>2 DEF Fresh, Finish
      <3> QED BY <1>0, <2>1, <3>1, <3>2, MailsCounted
    <2>2. CASE o \notin DOMAIN orders
      <3>1. PICK q \in Slots : Commit(q)
        BY <1>0, <2>2, OrdersKept DEF SomePersist, PersistProof, SomeDecide, Decide
      <3>2. PICK n : n = Len(orders) + 1
        OBVIOUS
      <3>3. past'.notes[o] = NoNotes
        BY <1>0, <2>2, <3>1, <3>2, CommitNotes
      <3> QED BY <3>3 DEF NoNotes
    <2> QED BY <2>1, <2>2
  <1>5. \A q \in Slots : request'[q].pc \in {"sent", "counting", "recording", "claiming",
                                             "clearing", "committing"} => ~request'[q].fresh
    BY <1>0, FreshFrom
  <1> QED BY <1>2, <1>3, <1>4, <1>5 DEF FreshOK, Fresh

(* Only the merchant who decided on an order will send its mail. *)
LEMMA FinalKept ==
    ASSUME OrderAssumption, NoticesInv, [OrderNext]_orderVars
    PROVE  FinalOK'
  <1>0. Typed /\ Refers /\ FinalOK
    BY DEF NoticesInv
  <1>1. ASSUME NEW m \in Merchants, Mailing(m)
        PROVE  /\ counter[m].order \in DOMAIN orders
               /\ past.notes[counter[m].order].final = 0
               /\ orders[counter[m].order].status \in Finals
    BY <1>0, <1>1 DEF Mailing, Refers, FinalOK
  <1>2. ASSUME NEW o \in DOMAIN orders, orders[o].status \in Finals
        PROVE  orders'[o].status \in Finals
    <2>1. ASSUME NEW p \in DOMAIN orders, NEW m \in Merchants, NEW status \in Finals,
                 Decide(m, p, status)
          PROVE  orders'[o] = orders[o]
      <3>1. orders[p].status = "PENDING"
            /\ \A i \in DOMAIN orders : i # p => orders'[i] = orders[i]
        BY <1>0, <2>1, Decided
      <3> QED BY <1>2, <3>1 DEF Finals
    <2>2. ASSUME NEW q \in Slots, Commit(q)
          PROVE  orders'[o] = orders[o]
      BY <1>0, <2>2, CommitAdds
    <2>3. CASE UNCHANGED orders \/ SomePersist
      BY <1>0, <1>2, <2>3, StatusStays
    <2> QED BY <1>0, <1>2, <2>1, <2>2, <2>3, OrdersKept DEF SomeDecide
  <1>3. ASSUME NEW m \in Merchants, Mailing(m)'
        PROVE  \/ Mailing(m) /\ counter'[m] = counter[m]
               \/ \E o \in DOMAIN orders, status \in Finals :
                     Decide(m, o, status) /\ counter'[m] = [pc |-> "mailing", order |-> o]
    <2>1. Free.pc # "mailing"
      BY DEF Free
    <2> QED BY <1>0, <1>3, <2>1, CountersKept DEF Mailing
  <1>4. ASSUME NEW o \in DOMAIN orders, NEW m \in Merchants, NEW status \in Finals,
               Decide(m, o, status)
        PROVE  /\ orders'[o].status \in Finals /\ past'.notes[o].final = 0
               /\ \A n \in Merchants : Mailing(n) => counter[n].order # o
               /\ UNCHANGED past
    <2>1. orders[o].status = "PENDING" /\ orders'[o].status = status /\ UNCHANGED past
      BY <1>0, <1>4, Decided
    <2>2. orders[o].status \notin Finals
      BY <2>1 DEF Finals
    <2>3. past.notes[o].final \in Nat /\ past.notes[o].final <= 1 /\ past.notes[o].final # 1
      BY <1>0, <2>2, TypesOf DEF NoteDocs, FinalOK
    <2> QED BY <1>1, <2>1, <2>2, <2>3
  <1>5. ASSUME NEW m \in Merchants, Mailing(m)'
        PROVE  /\ past'.notes[counter'[m].order].final = 0
               /\ orders'[counter'[m].order].status \in Finals
    <2>1. CASE Mailing(m) /\ counter'[m] = counter[m]
      <3> DEFINE o == counter[m].order
      <3>1. o \in DOMAIN orders /\ past.notes[o].final = 0 /\ orders[o].status \in Finals
        BY <1>1, <2>1
      <3>2. ASSUME NEW n \in Merchants, MailFinal(n), counter[n].order = o
            PROVE  FALSE
        <4>1. n = m
          BY <1>0, <2>1, <3>2 DEF FinalOK, MailFinal, Mailing
        <4>2. counter'[m] = Free
          BY <1>0, <3>2, <4>1 DEF MailFinal, Typed
        <4> QED BY <1>5, <4>2 DEF Mailing, Free
      <3>3. past'.notes[o].final = past.notes[o].final
        BY <1>0, <3>1, <3>2, MailsCounted
      <3> QED BY <1>2, <2>1, <3>1, <3>3
    <2>2. ASSUME NEW o \in DOMAIN orders, NEW status \in Finals, Decide(m, o, status),
                 counter'[m] = [pc |-> "mailing", order |-> o]
          PROVE  /\ past'.notes[counter'[m].order].final = 0
                 /\ orders'[counter'[m].order].status \in Finals
      <3>1. counter'[m].order = o
        BY <2>2
      <3> QED BY <1>4, <2>2, <3>1
    <2> QED BY <1>3, <1>5, <2>1, <2>2
  <1>6. ASSUME NEW m \in Merchants, NEW n \in Merchants, m # n, Mailing(m)', Mailing(n)'
        PROVE  counter'[m].order # counter'[n].order
    <2>1. ASSUME NEW s \in Merchants, NEW t \in Merchants, s # t, Mailing(t)',
                 NEW o \in DOMAIN orders, NEW status \in Finals, Decide(s, o, status),
                 counter'[s] = [pc |-> "mailing", order |-> o]
          PROVE  counter'[s].order # counter'[t].order
      <3>1. counter'[t] = counter[t] /\ counter'[s].order = o
        BY <1>0, <2>1 DEF Decide, Typed
      <3>2. Mailing(t)
        BY <2>1, <3>1 DEF Mailing
      <3> QED BY <1>4, <2>1, <3>1, <3>2
    <2> QED BY <1>0, <1>3, <1>6, <2>1 DEF FinalOK
  <1>7. ASSUME NEW o \in DOMAIN orders'
        PROVE  /\ past'.notes[o].final <= 1
               /\ past'.notes[o].final = 1 => orders'[o].status \in Finals
    <2>1. CASE o \in DOMAIN orders
      <3>1. /\ past.notes[o].final \in Nat /\ past.notes[o].final <= 1
            /\ past.notes[o].final = 1 => orders[o].status \in Finals
        BY <1>0, <2>1, TypesOf DEF NoteDocs, FinalOK
      <3>2. ASSUME NEW m \in Merchants, MailFinal(m), counter[m].order = o
            PROVE  past.notes[o].final = 0 /\ orders[o].status \in Finals
        BY <1>1, <3>2 DEF Mailing, MailFinal
      <3> QED BY <1>0, <1>2, <2>1, <3>1, <3>2, MailsCounted
    <2>2. CASE o \notin DOMAIN orders
      <3>1. PICK q \in Slots : Commit(q)
        BY <1>0, <2>2, OrdersKept DEF SomePersist, PersistProof, SomeDecide, Decide
      <3>2. PICK n : n = Len(orders) + 1
        OBVIOUS
      <3>3. past'.notes[o] = NoNotes
        BY <1>0, <2>2, <3>1, <3>2, CommitNotes
      <3> QED BY <3>3 DEF NoNotes
    <2> QED BY <2>1, <2>2
  <1> QED BY <1>5, <1>6, <1>7 DEF FinalOK, Mailing

(* The notices are right when there are none, *)
LEMMA NoticesInit ==
    ASSUME OrderAssumption, OrderInit
    PROVE  NoticesInv
  <1>1. Typed /\ Refers
    BY BooksInit DEF BooksInv
  <1>2. DOMAIN orders = {}
    BY EmptySeq, LenProperties DEF OrderInit
  <1>3. FreshOK
    BY <1>2 DEF OrderInit, FreshOK, Fresh, Free
  <1>4. FinalOK
    BY <1>2 DEF OrderInit, FinalOK, Mailing, Free
  <1> QED BY <1>1, <1>2, <1>3, <1>4 DEF NoticesInv

(* and after every step. *)
LEMMA NoticesStep ==
    ASSUME OrderAssumption, NoticesInv, [OrderNext]_orderVars
    PROVE  NoticesInv'
  <1>0. Typed /\ Refers
    BY DEF NoticesInv
  <1>1. \A o \in DOMAIN orders' : RelayOK(o)'
    <2>1. ASSUME NEW o \in DOMAIN orders', o \notin DOMAIN orders
          PROVE  RelayOK(o)'
      <3>1. PICK q \in Slots : Commit(q)
        BY <1>0, <2>1, OrdersKept DEF SomePersist, PersistProof, SomeDecide, Decide
      <3>2. PICK n : n = Len(orders) + 1
        OBVIOUS
      <3>3. past'.notes[o] = NoNotes /\ orders'[o] = NewOrder(q) /\ relays'[o] = NewRelay(q)
        BY <1>0, <2>1, <3>1, <3>2, CommitNotes
      <3>4. relays'[o].at = "none" /\ relays'[o].status \in {"none", "pending"}
        BY <3>3 DEF NewRelay, Enqueued, NoRelay
      <3>5. /\ past'.notes[o].posts = 0 /\ past'.notes[o].unheard = 0
            /\ orders'[o].proof = 0
        BY <3>3 DEF NoNotes, NewOrder, None
      <3> QED BY <3>4, <3>5 DEF RelayOK, None
    <2> QED BY <2>1, RelayOKKept
  <1> QED BY <1>0, <1>1, TypedKept, RefersKept, FreshKept, FinalKept DEF NoticesInv

(* No replay and no second decision sends a mail twice, an order shows a proof
   that was posted, and a proof is posted again only when an earlier post was
   not heard of (createOrder, updateOrderStatus, processOrderProofRelay). *)
THEOREM NoticesHold == OrderSpec => []NoticesAreTrue
  <1>1. OrderInit => NoticesInv
    BY OrderAssumption, NoticesInit
  <1>2. NoticesInv /\ [OrderNext]_orderVars => NoticesInv'
    BY OrderAssumption, NoticesStep
  <1>3. NoticesInv => NoticesAreTrue
    BY DEF NoticesInv, NoticesAreTrue, FreshOK, FinalOK, RelayOK
  <1> QED BY <1>1, <1>2, <1>3, PTL DEF OrderSpec
(***************************************************************************)
(* What is never taken back.                                               *)
(***************************************************************************)
TakesNothingBack ==
    \A o \in DOMAIN orders :
        /\ o \in DOMAIN orders' /\ orders'[o].draft = orders[o].draft
        /\ orders[o].status \in Finals => orders'[o].status = orders[o].status
        /\ orders[o].proof # None => orders'[o].proof = orders[o].proof
        /\ Len(forms') >= Len(forms)

(* No step takes a form, an order or an answer back. *)
LEMMA NothingTakenBack ==
    ASSUME OrderAssumption, Typed, Refers, [OrderNext]_orderVars
    PROVE  TakesNothingBack
  <1> SUFFICES ASSUME NEW o \in DOMAIN orders
               PROVE  /\ orders[o].status \in Finals => orders'[o].status = orders[o].status
                      /\ orders[o].proof # None => orders'[o].proof = orders[o].proof
                      /\ Len(forms') >= Len(forms)
    BY OrdersKept DEF TakesNothingBack
  <1>1. Len(forms') >= Len(forms)
    <2>1. ASSUME NEW f \in Contents, FillIn(f)
          PROVE  Len(forms') = Len(forms) + 1
      BY <2>1, Appended DEF FillIn, Typed
    <2>2. Len(forms) \in Nat
      BY LenProperties DEF Typed
    <2> QED BY <2>1, <2>2, FormsKept DEF SomeFill
  <1>2. ASSUME NEW q \in Slots, Commit(q)
        PROVE  orders'[o] = orders[o]
    BY <1>2, CommitAdds
  <1>3. ASSUME NEW p \in DOMAIN orders, PersistProof(p)
        PROVE  /\ orders'[o].status = orders[o].status
               /\ orders[o].proof # None => orders'[o].proof = orders[o].proof
    <2>1. orders'[o] = orders[o] \/ (o = p /\ orders'[o] =
              [orders[o] EXCEPT !.proof = ProofToKeep(o, past.notes[o].posts)])
      BY <1>3 DEF PersistProof
    <2>2. orders[o] \in OrderDocs
      BY TypesOf
    <2> QED BY <2>1, <2>2 DEF ProofToKeep, OrderDocs
  <1>4. ASSUME NEW p \in DOMAIN orders, NEW m \in Merchants, NEW status \in Finals,
               Decide(m, p, status)
        PROVE  /\ orders[o].status \in Finals => orders'[o].status = orders[o].status
               /\ orders'[o].proof = orders[o].proof
    <2>1. /\ orders[p].status = "PENDING" /\ orders'[p].proof = orders[p].proof
          /\ \A i \in DOMAIN orders : i # p => orders'[i] = orders[i]
      BY <1>4, Decided
    <2> QED BY <2>1 DEF Finals
  <1> QED BY <1>1, <1>2, <1>3, <1>4, OrdersKept DEF SomePersist, SomeDecide

(* No order, decision or proof is taken back or written over, whatever is
   decided twice and posted again (updateOrderStatus, persistProofOnOrder). *)
THEOREM OrdersStayFinal == OrderSpec => OrdersAreFinal
  <1>1. OrderInit => Typed /\ Refers
    BY OrderAssumption, BooksInit DEF BooksInv
  <1>2. Typed /\ Refers /\ [OrderNext]_orderVars => (Typed /\ Refers)'
    BY OrderAssumption, TypedKept, RefersKept
  <1>3. Typed /\ Refers /\ [OrderNext]_orderVars => [TakesNothingBack]_orderVars
    BY OrderAssumption, NothingTakenBack
  <1>4. OrdersAreFinal <=> [][TakesNothingBack]_orderVars
    BY DEF OrdersAreFinal, TakesNothingBack
  <1> QED BY <1>1, <1>2, <1>3, <1>4, PTL DEF OrderSpec
(***************************************************************************)
(* One form, one order.                                                    *)
(***************************************************************************)

(* What the panel awaits is the delivery of the form it shows. *)
PanelOK ==
    /\ \A q \in panel.awaits :
          /\ request[q].pc # "free"
          /\ request[q].key = panel.key /\ request[q].draft = panel.draft
          /\ panel.draft # None /\ panel.content = forms[panel.draft]
    /\ \A q, r \in panel.awaits : q = r

(* Only a BUY form meets the counter, and every answer is an answer. *)
AnswersOK ==
    \A q \in Slots :
        /\ request[q].pc \in {"counting", "recording", "clearing"} => IsBuy(FormOf(q))
        /\ request[q].pc = "answered" => request[q].answer \in {"refused", "conflict", "placed"}

(* A delivery sent while no other of its key was under way is alone, and when
   it is refused nothing was placed under its key. *)
AloneOK ==
    \A q \in panel.awaits : ~request[q].late =>
        /\ \A r \in Slots : r # q => ~Unanswered(r, request[q].key)
        /\ /\ request[q].pc = "answered" /\ request[q].answer = "refused"
           /\ ~IsBuy(FormOf(q))
           => docs[request[q].key] = None

(* A key under which a form was placed or may still be. *)
Uses(d, k) ==
    \/ \E o \in DOMAIN orders : orders[o].draft = d /\ orders[o].key = k
    \/ \E q \in Slots : Unanswered(q, k) /\ request[q].draft = d

OneKey ==
    \A d \in DOMAIN forms : ~IsBuy(forms[d]) /\ d \notin past.hasty =>
        /\ \A k, l \in Keys : Uses(d, k) /\ Uses(d, l) => k = l
        /\ d = panel.draft =>
              \A k \in Keys : Uses(d, k) => panel.key = k /\ panel.content = forms[d]

FormInv == BooksInv /\ PanelOK /\ AnswersOK /\ AloneOK /\ OneKey

(* What is sent is the form shown, under the key held for it or a new one. *)
LEMMA Sent ==
    ASSUME OrderAssumption, Typed, Refers, NEW q \in Slots, Submit(q),
           NEW k, k = KeyFor(forms[panel.draft])
    PROVE  /\ request'[q].pc = "sent" /\ request'[q].draft = panel.draft
           /\ request'[q].key = k /\ request'[q].late = (\E r \in Slots : Unanswered(r, k))
           /\ request[q].pc = "free" /\ \A r \in Slots : r # q => request'[r] = request[r]
           /\ panel'.draft = panel.draft /\ panel'.content = forms[panel.draft]
           /\ panel'.key = k /\ panel'.awaits = {q}
           /\ k \in Keys /\ panel.draft # None /\ panel.draft \in DOMAIN forms
           /\ UNCHANGED <<forms, docs, orders>> /\ past'.hasty = past.hasty
  <1>0. request \in [Slots -> {Free} \cup Live] /\ panel \in Panels /\ past \in Pasts
    BY DEF Typed
  <1> DEFINE l == \E r \in Slots : Unanswered(r, k)
             f == forms[panel.draft]
  <1>1. request' = [request EXCEPT ![q] =
                 [pc |-> "sent", draft |-> panel.draft, key |-> k, late |-> l,
                  rate |-> None, seen |-> 0, order |-> None, fresh |-> FALSE,
                  answer |-> "none"]]
        /\ panel' = [panel EXCEPT !.content = f, !.key = k, !.awaits = {q}]
        /\ k \in Keys
    BY DEF Submit
  <1>2. /\ request'[q].pc = "sent" /\ request'[q].draft = panel.draft
        /\ request'[q].key = k /\ request'[q].late = l
        /\ \A r \in Slots : r # q => request'[r] = request[r]
    <2> HIDE DEF l
    <2> QED BY <1>0, <1>1
  <1>3. /\ panel'.draft = panel.draft /\ panel'.content = f
        /\ panel'.key = k /\ panel'.awaits = {q}
    <2> HIDE DEF f
    <2> QED BY <1>0, <1>1 DEF Panels
  <1>4. panel.draft # None /\ panel.draft \in DOMAIN forms
    <2>1. panel.draft = Len(forms) /\ panel.draft # None /\ forms \in Seq(Contents)
      BY DEF Submit, Refers, Typed
    <2> QED BY <2>1, LenProperties DEF None
  <1>5. UNCHANGED <<forms, docs, orders>> /\ past'.hasty = past.hasty /\ request[q].pc = "free"
    BY <1>0 DEF Submit, Pasts, Free
  <1> QED BY <1>1, <1>2, <1>3, <1>4, <1>5

(* What is under way was under way, unless it has just been sent.           *)
LEMMA UnansweredKept ==
    ASSUME OrderAssumption, Typed, [OrderNext]_orderVars, ~SomeSubmit, NEW r \in Slots,
           request'[r].pc # "free"
    PROVE  /\ request[r].pc # "free" /\ request'[r].draft = request[r].draft
           /\ request'[r].key = request[r].key /\ request'[r].late = request[r].late
           /\ request'[r].pc # "answered" => request[r].pc # "answered"
  <1>1. Kept(r)
    BY RequestsKept
  <1>2. Free.pc = "free" /\ (request[r] \in Live => request[r].pc # "free")
    BY DEF Free, Live
  <1> QED BY <1>1, <1>2 DEF Kept, Same

(* No step but a click gives a form a key. *)
LEMMA UsesKept ==
    ASSUME OrderAssumption, Typed, Refers, [OrderNext]_orderVars, ~SomeSubmit,
           NEW d, NEW k, Uses(d, k)'
    PROVE  Uses(d, k)
  <1>1. ASSUME NEW q \in Slots, Unanswered(q, k)', request'[q].draft = d
        PROVE  Uses(d, k)
    <2>1. request'[q].pc # "free"
      BY <1>1 DEF Unanswered
    <2>2. Unanswered(q, k) /\ request[q].draft = d
      BY <1>1, <2>1, UnansweredKept DEF Unanswered
    <2> QED BY <2>2 DEF Uses
  <1>2. ASSUME NEW o \in DOMAIN orders', orders'[o].draft = d, orders'[o].key = k
        PROVE  Uses(d, k)
    <2>1. CASE o \in DOMAIN orders
      BY <1>2, <2>1, OrdersKept DEF Uses
    <2>2. CASE o \notin DOMAIN orders
      <3>1. PICK q \in Slots : Commit(q)
        BY <2>2, OrdersKept DEF SomePersist, PersistProof, SomeDecide, Decide
      <3>2. PICK n : n = Len(orders) + 1
        OBVIOUS
      <3>3. orders'[o] = NewOrder(q)
        BY <2>2, <3>1, <3>2, CommitNotes
      <3>4. Unanswered(q, k) /\ request[q].draft = d
        BY <1>2, <3>1, <3>3 DEF NewOrder, Unanswered, Commit
      <3> QED BY <3>4 DEF Uses
    <2> QED BY <2>1, <2>2
  <1> QED BY <1>1, <1>2 DEF Uses

(* What the panel awaits goes on, and the form and key it awaits it for stay. *)
LEMMA AwaitedKept ==
    ASSUME OrderAssumption, Typed, Refers, PanelOK, [OrderNext]_orderVars, ~SomeSubmit,
           NEW q \in panel'.awaits
    PROVE  /\ q \in panel.awaits /\ q \in Slots /\ request'[q].pc # "free"
           /\ panel'.key = panel.key /\ panel'.draft = panel.draft
           /\ panel'.content = panel.content
           /\ ~SomeFill
  <1>0. /\ panel \in Panels /\ panel' \in Panels /\ request \in [Slots -> {Free} \cup Live]
        /\ q \in Slots
    BY PanelKept DEF Typed, Panels
  <1>1. ASSUME NEW f \in Contents, FillIn(f)
        PROVE  FALSE
    BY <1>0, <1>1 DEF FillIn, Panels
  <1>2. ASSUME NEW r \in Slots, Deliver(r)
        PROVE  /\ UNCHANGED panel /\ request'[q] = request[q]
    BY <1>0, <1>2 DEF Deliver, Panels
  <1>3. ASSUME NEW r \in Slots, NEW arrives \in BOOLEAN, GiveUp(r, arrives)
        PROVE  FALSE
    BY <1>0, <1>3 DEF GiveUp, Panels
  <1>4. CASE Crash
    <2>1. /\ q \in panel.awaits /\ ~Running(q) /\ panel'.key = panel.key
          /\ panel'.draft = panel.draft /\ panel'.content = panel.content
      BY <1>0, <1>4 DEF Crash, Panels
    <2>2. request'[q] = request[q]
      BY <1>0, <1>4, <2>1 DEF Crash
    <2> QED BY <1>0, <1>1, <2>1, <2>2 DEF PanelOK, SomeFill
  <1>5. CASE UNCHANGED panel /\ request'[q] # Free
    <2>1. request'[q] \in {Free} \cup Live
      BY <1>0, RequestsKept
    <2>2. request'[q].pc # "free"
      BY <1>5, <2>1 DEF Live
    <2> QED BY <1>0, <1>1, <1>5, <2>2 DEF SomeFill
  <1>6. CASE UNCHANGED panel /\ request'[q] = Free
    <2>1. request[q].pc # "free"
      BY <1>6 DEF PanelOK
    <2>2. request'[q] # request[q]
      BY <1>6, <2>1 DEF Free
    <2>3. SomeDeliver \/ SomeGiveUp \/ Crash \/ SomeSlot
      <3>1. ASSUME SomeFill \/ SomeRelay \/ SomePersist \/ SomeDecide \/ SomeMail \/ Others
            PROVE  UNCHANGED request
        BY <3>1 DEF SomeFill, FillIn, SomeRelay, JobClaims, PostProof, RelayFallsDue, RelayFails,
                    SomePersist, PersistProof, SomeDecide, Decide, SomeMail, MailFinal,
                    Others, AttemptsExpire, ChangeRate
      <3>2. ~UNCHANGED orderState
        BY <2>2 DEF orderState
      <3> QED BY <2>2, <3>1, <3>2, Kinds
    <2>4. ASSUME NEW r \in Slots, SlotStep(r)
          PROVE  FALSE
      <3>1. q = r /\ Same(request[r], request'[r])
        BY <1>0, <2>2, <2>4, SlotStepKeeps
      <3> QED BY <1>6, <3>1 DEF Same, Free, Live
    <2>5. ~SomeDeliver /\ ~SomeGiveUp
      BY <1>2, <1>3, <2>2 DEF SomeDeliver, SomeGiveUp
    <2> QED BY <1>4, <2>3, <2>4, <2>5 DEF SomeSlot
  <1> QED BY <1>0, <1>1, <1>2, <1>3, <1>4, <1>5, <1>6, PanelKept
             DEF SomeFill, SomeDeliver, SomeGiveUp, PanelOK
(* The panel keeps track of its form. *)
LEMMA PanelOKKept ==
    ASSUME OrderAssumption, Typed, Refers, PanelOK, [OrderNext]_orderVars
    PROVE  PanelOK'
  <1>1. ASSUME NEW r \in Slots, Submit(r)
        PROVE  PanelOK'
    <2>1. PICK k : k = KeyFor(forms[panel.draft])
      OBVIOUS
    <2>2. /\ request'[r].pc = "sent" /\ request'[r].draft = panel.draft
          /\ request'[r].key = k
          /\ panel'.draft = panel.draft /\ panel'.content = forms[panel.draft]
          /\ panel'.key = k /\ panel'.awaits = {r} /\ panel.draft # None
          /\ UNCHANGED forms
      BY <1>1, <2>1, Sent
    <2> QED BY <2>2 DEF PanelOK
  <1>2. ASSUME ~SomeSubmit
        PROVE  PanelOK'
    <2>1. ASSUME NEW q \in panel'.awaits
          PROVE  /\ q \in panel.awaits /\ request'[q].pc # "free"
                 /\ request'[q].key = panel'.key /\ request'[q].draft = panel'.draft
                 /\ panel'.draft # None /\ panel'.content = forms'[panel'.draft]
      <3>1. /\ q \in panel.awaits /\ q \in Slots /\ request'[q].pc # "free"
            /\ panel'.key = panel.key /\ panel'.draft = panel.draft
            /\ panel'.content = panel.content
            /\ ~SomeFill
        BY <1>2, AwaitedKept
      <3>2. /\ request'[q].draft = request[q].draft /\ request'[q].key = request[q].key
        BY <1>2, <3>1, UnansweredKept
      <3>3. UNCHANGED forms
        BY <3>1, FormsKept
      <3> QED BY <3>1, <3>2, <3>3 DEF PanelOK
    <2> QED BY <2>1 DEF PanelOK
  <1> QED BY <1>1, <1>2 DEF SomeSubmit

(* The form of a delivery stays the form it is. *)
LEMMA FormOfKept ==
    ASSUME OrderAssumption, Typed, Refers, [OrderNext]_orderVars, ~SomeSubmit, NEW q \in Slots,
           request'[q].pc # "free"
    PROVE  FormOf(q)' = FormOf(q)
  <1>1. request[q].pc # "free" /\ request'[q].draft = request[q].draft
    BY UnansweredKept
  <1>2. request[q].draft \in DOMAIN forms
    BY <1>1 DEF Refers
  <1> QED BY <1>1, <1>2, FormsKept DEF FormOf

(* What a delivery is answered, and what it goes on with. *)
LEMMA Answered ==
    ASSUME OrderAssumption, Typed, AnswersOK, NEW q \in Slots, SlotStep(q)
    PROVE  /\ request'[q].pc \in {"counting", "recording", "clearing"} => IsBuy(FormOf(q))
           /\ request'[q].pc = "answered" =>
                 /\ request'[q].answer \in {"refused", "conflict", "placed"}
                 /\ request'[q].answer = "refused" =>
                       IsBuy(FormOf(q)) \/ (docs[request[q].key] = None /\ UNCHANGED docs)
  <1>0. request[q] \in Live /\ DOMAIN request = Slots
    BY SlotStepKeeps DEF Typed
  <1>1. CASE Arrive(q)
    <2>1. \/ /\ request'[q] = [request[q] EXCEPT !.pc = "answered", !.answer = "refused"]
             /\ IsBuy(FormOf(q))
          \/ request'[q] = [request[q] EXCEPT !.pc = "counting"] /\ IsBuy(FormOf(q))
          \/ request'[q] = [request[q] EXCEPT !.pc = "claiming", !.rate = rate]
      BY <1>0, <1>1 DEF Arrive
    <2> QED BY <1>0, <2>1 DEF Live
  <1>2. CASE CountRead(q) \/ CountWrite(q)
    <2>1. IsBuy(FormOf(q))
      BY <1>2 DEF AnswersOK, CountRead, CountWrite
    <2>2. CountWrite(q) => request'[q].answer = "refused"
      BY <1>0 DEF CountWrite, Live
    <2>3. CountRead(q) => request'[q].pc = "recording"
      BY <1>0 DEF CountRead, Live
    <2> QED BY <1>2, <2>1, <2>2, <2>3
  <1>3. CASE ClaimTaken(q)
    <2>1. \/ request'[q] = [request[q] EXCEPT !.pc = "answered", !.answer = "conflict"]
          \/ request'[q] = [request[q] EXCEPT !.pc = "settling", !.order = docs[request[q].key]]
      BY <1>0, <1>3 DEF ClaimTaken
    <2> QED BY <1>0, <2>1 DEF Live
  <1>4. CASE ClaimFresh(q)
    <2>1. \/ /\ request'[q] = [request[q] EXCEPT !.pc = "answered", !.answer = "refused"]
             /\ docs[request[q].key] = None /\ UNCHANGED docs
          \/ request'[q] = [request[q] EXCEPT !.pc = "counting"] /\ IsBuy(FormOf(q))
          \/ request'[q] = [request[q] EXCEPT !.pc = "clearing"] /\ IsBuy(FormOf(q))
          \/ request'[q] = [request[q] EXCEPT !.pc = "committing"]
      BY <1>0, <1>4 DEF ClaimFresh
    <2> QED BY <1>0, <2>1 DEF Live
  <1>5. CASE ClearAttempts(q) \/ Retry(q) \/ Settle(q)
    <2>1. request'[q].pc \in {"committing", "claiming", "finishing"}
      BY <1>0, <1>5 DEF ClearAttempts, Retry, Settle, Live
    <2> QED BY <2>1
  <1>6. CASE Commit(q)
    <2>1. request'[q].pc = "settling"
      BY <1>0, <1>6 DEF Commit, Live
    <2> QED BY <2>1
  <1>7. CASE Finish(q)
    <2>1. request'[q].pc = "answered" /\ request'[q].answer = "placed"
      BY <1>0, <1>7 DEF Finish, Live
    <2> QED BY <2>1
  <1> QED BY <1>1, <1>2, <1>3, <1>4, <1>5, <1>6, <1>7 DEF SlotStep

(* Answers are about the orders of their keys. *)
LEMMA AnswersOKKept ==
    ASSUME OrderAssumption, Typed, Refers, AnswersOK, [OrderNext]_orderVars
    PROVE  AnswersOK'
  <1> SUFFICES ASSUME NEW q \in Slots
               PROVE  /\ request'[q].pc \in {"counting", "recording", "clearing"} =>
                            IsBuy(FormOf(q)')
                      /\ request'[q].pc = "answered" =>
                            request'[q].answer \in {"refused", "conflict", "placed"}
    BY DEF AnswersOK, IsBuy
  <1>1. ASSUME NEW r \in Slots, Submit(r), q = r
        PROVE  request'[q].pc = "sent"
    <2>1. PICK k : k = KeyFor(forms[panel.draft])
      OBVIOUS
    <2> QED BY <1>1, <2>1, Sent
  <1>2. ASSUME NEW r \in Slots, Submit(r), q # r
        PROVE  request'[q] = request[q] /\ (request[q].pc # "free" => FormOf(q)' = FormOf(q))
    <2>1. PICK k : k = KeyFor(forms[panel.draft])
      OBVIOUS
    <2>2. /\ UNCHANGED forms
          /\ \A s \in Slots : s # r => request'[s] = request[s]
      BY <1>2, <2>1, Sent
    <2> QED BY <1>2, <2>2 DEF FormOf
  <1>3. CASE request'[q] = Free
    BY <1>3 DEF Free
  <1>4. CASE request'[q] = request[q] /\ ~SomeSubmit
    <2>1. request[q].pc # "free" => FormOf(q)' = FormOf(q)
      BY <1>4, FormOfKept
    <2> QED BY <1>4, <2>1 DEF AnswersOK
  <1>5. ASSUME NEW r \in Slots, SlotStep(r), request'[q] # request[q], ~SomeSubmit
        PROVE  /\ request'[q].pc \in {"counting", "recording", "clearing"} =>
                     IsBuy(FormOf(q)')
               /\ request'[q].pc = "answered" =>
                     request'[q].answer \in {"refused", "conflict", "placed"}
    <2>1. q = r
      BY <1>5, SlotStepKeeps
    <2>2. request'[q].pc # "free" => FormOf(q)' = FormOf(q)
      BY <1>5, FormOfKept
    <2> QED BY <1>5, <2>1, <2>2, Answered
  <1> QED BY <1>1, <1>2, <1>3, <1>4, <1>5, SendsAndEnds DEF AnswersOK, SomeSubmit

(* After the step r works on nothing under the key of q. *)
Idle(r, q) == request'[r].pc \in {"free", "answered"} \/ request'[r].key # request'[q].key

(* While the panel waits for an answer that is not late, no other request with its key is
   under way. *)
LEMMA AloneOKKept ==
    ASSUME OrderAssumption, Typed, Refers, PanelOK, AnswersOK, AloneOK, [OrderNext]_orderVars
    PROVE  AloneOK'
  <1>1. ASSUME NEW r \in Slots, Submit(r)
        PROVE  AloneOK'
    <2>1. PICK k : k = KeyFor(forms[panel.draft])
      OBVIOUS
    <2>2. /\ request'[r].pc = "sent" /\ request'[r].key = k
          /\ request'[r].late = (\E s \in Slots : Unanswered(s, k))
          /\ \A s \in Slots : s # r => request'[s] = request[s]
          /\ panel'.awaits = {r}
      BY <1>1, <2>1, Sent
    <2>3. ~request'[r].late => \A s \in Slots : s # r => ~Unanswered(s, k)'
      BY <2>2 DEF Unanswered
    <2> QED BY <2>2, <2>3 DEF AloneOK, Unanswered
  <1>2. ASSUME ~SomeSubmit, NEW q \in panel'.awaits, ~request'[q].late
        PROVE  /\ q \in Slots
               /\ \A r \in Slots : r # q => ~Unanswered(r, request[q].key)
               /\ request'[q].key = request[q].key
               /\ \A r \in Slots : r # q => Idle(r, q)
               /\ request'[q].pc = "answered" /\ request'[q].answer = "refused"
                  /\ ~IsBuy(FormOf(q)')
                  => docs'[request'[q].key] = None
    <2>1. q \in panel.awaits /\ q \in Slots /\ request'[q].pc # "free" /\ ~SomeFill
      BY <1>2, AwaitedKept
    <2>2. request'[q].key = request[q].key /\ request'[q].late = request[q].late
      BY <1>2, <2>1, UnansweredKept
    <2>3. \A r \in Slots : r # q => ~Unanswered(r, request[q].key)
      BY <1>2, <2>1, <2>2 DEF AloneOK
    <2>4. ASSUME NEW r \in Slots, r # q
          PROVE  Idle(r, q)
      <3>1. ~Idle(r, q) => Unanswered(r, request[q].key)
        BY <1>2, <2>2, UnansweredKept DEF Idle, Unanswered
      <3> QED BY <2>3, <2>4, <3>1
    <2>5. ASSUME request'[q].pc = "answered", request'[q].answer = "refused",
                 ~IsBuy(FormOf(q)')
          PROVE  docs'[request'[q].key] = None
      <3>1. FormOf(q)' = FormOf(q)
        BY <1>2, <2>1, FormOfKept
      <3>2. CASE request'[q] = request[q]
        <4>1. docs[request[q].key] = None
          BY <1>2, <2>1, <2>5, <3>1, <3>2 DEF AloneOK
        <4>2. ASSUME NEW r \in Slots, Commit(r)
              PROVE  docs'[request[q].key] = None
          <5>1. /\ docs' = [docs EXCEPT ![request[r].key] = Len(orders) + 1]
                /\ request[r].pc = "committing"
            BY <4>2, Commits
          <5>2. r # q
            BY <2>5, <3>2, <5>1
          <5>3. request[r].key # request[q].key
            BY <2>3, <5>1, <5>2 DEF Unanswered
          <5> QED BY <4>1, <5>1, <5>3 DEF Typed
        <4>3. SomeDecide => UNCHANGED docs
          BY DEF SomeDecide, Decide
        <4> QED BY <3>2, <4>1, <4>2, <4>3, BooksKept
      <3>3. CASE request'[q] # request[q]
        <4>1. PICK r \in Slots : SlotStep(r)
          BY <1>2, <2>1, <3>3, SendsAndEnds DEF SomeSubmit, Free
        <4>2. q = r
          BY <2>1, <3>3, <4>1, SlotStepKeeps
        <4>3. docs[request[q].key] = None /\ UNCHANGED docs
          BY <2>5, <3>1, <4>1, <4>2, Answered
        <4> QED BY <2>2, <4>3
      <3> QED BY <3>2, <3>3
    <2> QED BY <2>1, <2>2, <2>3, <2>4, <2>5
  <1>3. ASSUME ~SomeSubmit
        PROVE  AloneOK'
    <2>1. \A q \in panel'.awaits : ~request'[q].late =>
             /\ \A r \in Slots : r # q => Idle(r, q)
             /\ request'[q].pc = "answered" /\ request'[q].answer = "refused"
                /\ ~IsBuy(FormOf(q)')
                => docs'[request'[q].key] = None
      BY <1>2, <1>3
    <2> QED BY <2>1 DEF AloneOK, Unanswered, IsBuy, Idle
  <1> QED BY <1>1, <1>3 DEF SomeSubmit
(* A refusal of a SELL form that was sent alone leaves no key in use.       *)
LEMMA RefusalFrees ==
    ASSUME OrderAssumption, Typed, Refers, KeyDocs, PanelOK, AloneOK,
           NEW q \in Slots, q \in panel.awaits, ~request[q].late,
           request[q].pc = "answered", request[q].answer = "refused",
           ~IsBuy(forms[panel.draft])
    PROVE  ~Uses(panel.draft, panel.key)
  <1>1. /\ request[q].key = panel.key /\ request[q].draft = panel.draft
    BY DEF PanelOK
  <1>2. docs[panel.key] = None /\ \A r \in Slots : r # q => ~Unanswered(r, panel.key)
    BY <1>1 DEF AloneOK, FormOf
  <1>3. ~Unanswered(q, panel.key)
    BY DEF Unanswered
  <1>4. \A o \in DOMAIN orders : orders[o].key # panel.key
    BY <1>2, LenProperties DEF KeyDocs, Typed, None
  <1> QED BY <1>2, <1>3, <1>4 DEF Uses

(* A selling form uses one key, unless a refusal beside an earlier delivery made its panel
   draw another. *)
LEMMA OneKeyKept ==
    ASSUME OrderAssumption, FormInv, [OrderNext]_orderVars
    PROVE  OneKey'
  <1>0. /\ Typed /\ Refers /\ KeyDocs /\ PanelOK /\ AnswersOK /\ AloneOK /\ OneKey
        /\ panel \in Panels /\ past \in Pasts /\ orders \in Seq(OrderDocs)
        /\ 0 \notin Keys
    BY DEF FormInv, BooksInv, Typed, OrderAssumption
  <1> SUFFICES ASSUME NEW d \in DOMAIN forms', ~IsBuy(forms'[d]), d \notin past'.hasty
               PROVE  /\ \A k, l \in Keys : Uses(d, k)' /\ Uses(d, l)' => k = l
                      /\ d = panel'.draft =>
                            \A k \in Keys : Uses(d, k)' =>
                                panel'.key = k /\ panel'.content = forms'[d]
    BY DEF OneKey, IsBuy
  <1>1. ASSUME NEW k, Uses(d, k)
        PROVE  d \in DOMAIN forms
    BY <1>0, <1>1 DEF Uses, Refers, Unanswered
  <1>2. CASE d \notin DOMAIN forms
    <2>1. ~SomeSubmit
      BY <1>2 DEF SomeSubmit, Submit
    <2> QED BY <1>0, <1>1, <1>2, <2>1, UsesKept
  <1>3. ASSUME d \in DOMAIN forms
        PROVE  /\ forms'[d] = forms[d]
               /\ \A k, l \in Keys : Uses(d, k) /\ Uses(d, l) => k = l
               /\ d = panel.draft =>
                     \A k \in Keys : Uses(d, k) => panel.key = k /\ panel.content = forms[d]
    <2>1. forms'[d] = forms[d]
      BY <1>0, <1>3, FormsKept
    <2>2. d \notin past.hasty
      BY <1>0, PastKept
    <2> QED BY <1>0, <1>3, <2>1, <2>2 DEF OneKey
  <1>4. ASSUME d \in DOMAIN forms, NEW q \in Slots, Submit(q)
        PROVE  /\ \A k, l \in Keys : Uses(d, k)' /\ Uses(d, l)' => k = l
               /\ d = panel'.draft =>
                     \A k \in Keys : Uses(d, k)' =>
                         panel'.key = k /\ panel'.content = forms'[d]
    <2>1. PICK s : s = KeyFor(forms[panel.draft])
      OBVIOUS
    <2>2. /\ request'[q].draft = panel.draft /\ request'[q].key = s
          /\ \A r \in Slots : r # q => request'[r] = request[r]
          /\ panel'.draft = panel.draft /\ panel'.content = forms[panel.draft]
          /\ panel'.key = s /\ UNCHANGED <<forms, orders>>
      BY <1>0, <1>4, <2>1, Sent
    <2>3. ASSUME NEW k, Uses(d, k)'
          PROVE  Uses(d, k) \/ (d = panel.draft /\ k = s)
      BY <2>2, <2>3 DEF Uses, Unanswered
    <2>4. ASSUME NEW k \in Keys, Uses(d, k), d = panel.draft
          PROVE  k = s
      BY <1>0, <1>3, <1>4, <2>1, <2>4 DEF KeyFor, None
    <2> QED BY <1>3, <1>4, <2>2, <2>3, <2>4
  <1>5. ASSUME d \in DOMAIN forms, ~SomeSubmit, NEW k \in Keys, Uses(d, k)', d = panel'.draft
        PROVE  panel'.key = k /\ panel'.content = forms'[d]
    <2>1. Uses(d, k)
      BY <1>0, <1>5, UsesKept
    <2>2. ASSUME panel'.draft = panel.draft, panel'.key = panel.key,
                 panel'.content = panel.content
          PROVE  panel'.key = k /\ panel'.content = forms'[d]
      BY <1>3, <1>5, <2>1, <2>2
    <2>3. ASSUME NEW f \in Contents, FillIn(f)
          PROVE  FALSE
      <3>1. panel'.draft = Len(forms) + 1
        BY <1>0, <2>3 DEF FillIn, Panels
      <3> QED BY <1>0, <1>5, <3>1, LenProperties DEF Typed
    <2>4. ASSUME NEW q \in Slots, NEW arrives \in BOOLEAN, GiveUp(q, arrives)
          PROVE  panel'.key = k /\ panel'.content = forms'[d]
      <3>1. panel' = [panel EXCEPT !.awaits = {}, !.key = panel.key]
        BY <2>4 DEF GiveUp, KeyWhenLost
      <3> QED BY <1>0, <2>2, <3>1 DEF Panels
    <2>5. ASSUME Crash
          PROVE  panel'.key = k /\ panel'.content = forms'[d]
      BY <1>0, <2>2, <2>5 DEF Crash, Panels
    <2>6. ASSUME NEW q \in Slots, Deliver(q)
          PROVE  panel'.key = k /\ panel'.content = forms'[d]
      <3>1. CASE q \notin panel.awaits
        BY <2>2, <2>6, <3>1 DEF Deliver
      <3>2. CASE q \in panel.awaits
        <4> DEFINE a == request[q].answer
        <4>1. /\ request[q].pc = "answered"
              /\ panel'.key = (IF a = "conflict" THEN panel.key ELSE None)
              /\ panel'.draft = (IF a = "placed" THEN None ELSE panel.draft)
              /\ panel'.content = panel.content
              /\ past'.hasty = (IF a = "refused" /\ request[q].late
                                THEN past.hasty \cup {panel.draft} ELSE past.hasty)
          <5> DEFINE x == IF a = "conflict" THEN panel.key ELSE None
                     y == IF a = "placed" THEN None ELSE panel.draft
                     z == IF a = "refused" /\ request[q].late
                          THEN past.hasty \cup {panel.draft} ELSE past.hasty
          <5>1. /\ request[q].pc = "answered"
                /\ panel' = [panel EXCEPT !.awaits = {}, !.key = x, !.draft = y]
                /\ past' = [past EXCEPT !.hasty = z]
            BY <1>0, <2>6, <3>2 DEF Deliver, Pasts
          <5>2. panel'.key = x /\ panel'.draft = y /\ panel'.content = panel.content
            <6> HIDE DEF x, y
            <6> QED BY <1>0, <5>1 DEF Panels
          <5>3. past'.hasty = z
            <6> HIDE DEF z
            <6> QED BY <1>0, <5>1 DEF Pasts
          <5> QED BY <5>1, <5>2, <5>3
        <4>2. d # None
          BY <1>0, <1>5, LenProperties DEF Typed, None
        <4>3. a # "placed" /\ d = panel.draft
          BY <1>5, <4>1, <4>2
        <4>4. a \in {"refused", "conflict"}
          BY <1>0, <4>1, <4>3 DEF AnswersOK
        <4>5. CASE a = "conflict"
          BY <2>2, <4>1, <4>5
        <4>6. CASE a = "refused"
          <5>1. ~request[q].late
            BY <4>1, <4>3, <4>6
          <5>2. ~IsBuy(forms[panel.draft])
            BY <1>3, <1>5, <4>3
          <5>3. panel.key = k
            BY <1>3, <1>5, <2>1, <4>3
          <5> QED BY <1>0, <2>1, <3>2, <4>1, <4>3, <4>6, <5>1, <5>2, <5>3, RefusalFrees
        <4> QED BY <4>4, <4>5, <4>6
      <3> QED BY <3>1, <3>2
    <2>7. CASE UNCHANGED panel
      BY <2>2, <2>7
    <2> QED BY <1>0, <1>5, <2>3, <2>4, <2>5, <2>6, <2>7, PanelKept
               DEF SomeFill, SomeGiveUp, SomeDeliver
  <1>6. CASE d \in DOMAIN forms /\ ~SomeSubmit
    BY <1>0, <1>3, <1>5, <1>6, UsesKept
  <1> QED BY <1>2, <1>4, <1>6 DEF SomeSubmit

(* All this holds before the first form. *)
LEMMA FormInit ==
    ASSUME OrderAssumption, OrderInit
    PROVE  FormInv
  <1>1. DOMAIN orders = {} /\ DOMAIN forms = {}
    BY EmptySeq, LenProperties DEF OrderInit
  <1>2. PanelOK /\ AnswersOK /\ AloneOK
    BY DEF OrderInit, PanelOK, AnswersOK, AloneOK, Free
  <1>3. OneKey
    BY <1>1 DEF OneKey
  <1> QED BY <1>2, <1>3, BooksInit DEF FormInv

(* A lost answer, a replay or a conflict never makes two orders of one form:
   that takes a refusal that came while an earlier delivery of the form was
   still under way (handleOrder, executeIdempotentMutationV2). *)
THEOREM OneOrderPerForm == OrderSpec => []PlacedTwiceOnlyIfLate
  <1>1. OrderInit => FormInv
    BY OrderAssumption, FormInit
  <1>2. FormInv /\ [OrderNext]_orderVars => FormInv'
    <2> SUFFICES ASSUME FormInv, [OrderNext]_orderVars PROVE FormInv'
      OBVIOUS
    <2>1. BooksInv' /\ Typed /\ Refers
      BY OrderAssumption, BooksStep DEF FormInv, BooksInv
    <2>2. PanelOK' /\ AnswersOK' /\ AloneOK'
      BY OrderAssumption, <2>1, PanelOKKept, AnswersOKKept, AloneOKKept DEF FormInv
    <2>3. OneKey'
      BY OrderAssumption, OneKeyKept
    <2> QED BY <2>1, <2>2, <2>3 DEF FormInv
  <1>3. FormInv => PlacedTwiceOnlyIfLate
    <2> SUFFICES ASSUME FormInv, NEW o \in DOMAIN orders, NEW p \in DOMAIN orders, o # p,
                        orders[o].draft = orders[p].draft, orders[o].draft \notin past.hasty
                 PROVE  FALSE
      BY DEF PlacedTwiceOnlyIfLate
    <2>1. /\ orders[o].draft \in DOMAIN forms
          /\ orders[o].key \in Keys /\ orders[p].key \in Keys
      BY TypesOf DEF FormInv, BooksInv, Refers, OrderDocs
    <2>2. orders[o].key # orders[p].key /\ ~IsBuy(forms[orders[o].draft])
      BY DEF FormInv, BooksInv, PlacedOnce
    <2>3. Uses(orders[o].draft, orders[o].key) /\ Uses(orders[o].draft, orders[p].key)
      BY DEF Uses
    <2> QED BY <2>1, <2>2, <2>3 DEF FormInv, OneKey
  <1> QED BY <1>1, <1>2, <1>3, PTL DEF OrderSpec
=============================================================================
