--------------------------- MODULE RequestProofs ---------------------------
(***************************************************************************)
(* That what is queued was approved, once, and is not paid again unheard,  *)
(* for any number of reviews, deliveries, keys, intents and losses.        *)
(*                                                                         *)
(* Typed and Refers say what there is and that it refers to what exists:   *)
(* a delivery that holds an intent holds one of its own key and details    *)
(* (CallRefers).  PayInv says who may still pay for a review that the      *)
(* panel has missed nothing of: one key, and nobody while the user may     *)
(* confirm or send it again.                                               *)
(***************************************************************************)
EXTENDS WithdrawalRequest, SequenceTheorems, TLAPS

Places  == {"sent", "claiming", "committing", "restoring", "answered"}
Answers == {"none", "verify", "accepted", "refused", "conflict", "error"}
KeySet  == 1..MaxKeys

Deliveries == [pc : Places, details : Details, key : KeySet, intent : Nat, review : Nat,
               held : BOOLEAN, answer : Answers]
Tabs       == [at : {"panel", "mfa"}, step : {"form", "review", "status"}, review : Nat,
               content : Details \cup {None}, key : KeySet \cup {None},
               awaits : SUBSET Calls, loading : BOOLEAN, intent : Nat]
Drafts     == [key : KeySet, review : Nat]
IntentDocs == [details : Details, key : KeySet, live : BOOLEAN, authorized : BOOLEAN,
               old : BOOLEAN, challenge : BOOLEAN]
PaidDocs   == [details : Details, key : KeySet, intent : Nat, review : Nat]
Stories    == [reviews : Seq(Details), keys : Nat, calls : Nat, losses : Nat,
               shown : SUBSET Nat, approved : SUBSET Nat, unheard : SUBSET Nat]

Typed ==
    /\ tab \in Tabs
    /\ kept \in {NoDraft} \cup Drafts
    /\ call \in [Calls -> {Unused} \cup Deliveries]
    /\ keyDoc \in [KeySet -> Nat]
    /\ intents \in Seq(IntentDocs)
    /\ queued \in Seq(PaidDocs)
    /\ story \in Stories

Reviews == 1..Len(story.reviews)
Intents == 1..Len(intents)
Paid    == 1..Len(queued)

-----------------------------------------------------------------------------
(* What a delivery refers to, and what it has in hand at each step. *)
CallRefers(c) ==
    /\ call[c].review \in Reviews /\ call[c].details = Reviewed(call[c].review)
    /\ call[c].intent \in {None} \cup Intents

CallStands(c) ==
    /\ call[c].pc = "sent" => call[c].answer = "none" /\ ~call[c].held
    /\ call[c].pc \in {"claiming", "committing"} =>
          call[c].answer = "none" /\ call[c].intent # None
    /\ call[c].pc = "committing" => call[c].held
    /\ call[c].pc = "restoring" =>
          call[c].intent # None /\ call[c].answer \in {"refused", "conflict", "error"}
    /\ call[c].pc = "answered" => call[c].intent # None /\ call[c].answer # "none"

CallHolds(c) ==
    call[c].held => /\ call[c].intent \in Intents \cap story.approved
                    /\ intents[call[c].intent].details = call[c].details
                    /\ intents[call[c].intent].key = call[c].key

Fits(c) == CallRefers(c) /\ CallStands(c) /\ CallHolds(c)

CallsRefer == \A c \in Calls : call[c] # Unused => Fits(c)

TabRefers ==
    /\ tab.at = "panel" /\ tab.step = "review" => tab.review \in Reviews
    /\ tab.at = "mfa" => tab.intent \in Intents /\ tab.awaits = {}

KeptRefers == kept # NoDraft => kept.review \in Reviews

(* The tab waits for one delivery at a time, and cannot confirm what it waits for. *)
TabWaits ==
    \A c \in tab.awaits :
        /\ call[c] # Unused /\ tab.awaits = {c}
        /\ tab.step = "review" /\ tab.review = call[c].review => tab.loading

StoryRefers == /\ story.shown \subseteq Intents /\ story.approved \subseteq Intents
               /\ \A i \in Intents : intents[i].authorized => i \in story.approved

PaidRefers(w) ==
    /\ queued[w].review \in Reviews
    /\ queued[w].details = Reviewed(queued[w].review)
    /\ queued[w].intent \in Intents \cap story.approved
    /\ intents[queued[w].intent].details = queued[w].details
    /\ intents[queued[w].intent].key = queued[w].key
    /\ keyDoc[queued[w].key] = w

KeysRefer == /\ \A w \in Paid : PaidRefers(w)
             /\ \A k \in KeySet : keyDoc[k] \in {None} \cup Paid

Refers == CallsRefer /\ TabRefers /\ KeptRefers /\ TabWaits /\ StoryRefers /\ KeysRefer

-----------------------------------------------------------------------------
(* Of review r, the panel has missed no answer. *)
Heard(r) == r \notin story.unheard

Pays(c, r) == Paying(c) /\ call[c].review = r

(* The panel shows r for confirmation, or a panel that mounts will. *)
Asked(r) == \/ tab.at = "panel" /\ tab.step = "review" /\ tab.review = r
            \/ kept # NoDraft /\ kept.review = r

Awaited(r) == \E c \in tab.awaits : Pays(c, r)

PayingIsAwaited == \A c \in Calls : Paying(c) =>
    LET r == call[c].review IN Heard(r) /\ Asked(r) => Awaited(r)

(* It ended, for all the server knows, in a withdrawal. *)
Told(c) == call[c].answer \in {"accepted", "error"}

(* The panel has not yet been told of a withdrawal that it may ask for again. *)
PaidIsAwaited == \A w \in Paid :
    LET r == queued[w].review
    IN Heard(r) /\ Asked(r) =>
          /\ Awaited(r)
          /\ \E q \in Calls : Pays(q, r) /\ Told(q)

OneKeyPays == \A c \in Calls : Paying(c) /\ Heard(call[c].review) =>
    /\ \A d \in Calls : Pays(d, call[c].review) => call[d].key = call[c].key
    /\ \A w \in Paid : queued[w].review = call[c].review
                       => queued[w].key = call[c].key

PayInv == PayingIsAwaited /\ PaidIsAwaited /\ OneKeyPays

IInv == Typed /\ Refers /\ PayInv /\ PaidAgainOnlyIfUnheard

-----------------------------------------------------------------------------
(* What a step may be, one action after another. *)
LEMMA Actions ==
    ASSUME RequestNext
    PROVE  \/ \E d \in Details : Review(d)
           \/ \E c \in Calls : Confirm(c) \/ Deliver(c) \/ Lose(c)
           \/ \E c \in Calls, r \in Calls : Resend(c, r)
           \/ \E c \in Calls, right \in BOOLEAN, heard \in BOOLEAN : Verify(c, right, heard)
           \/ \E c \in Calls : CreateIntent(c) \/ Begin(c) \/ ClaimUsed(c) \/ ClaimNew(c)
                               \/ RetryCall(c) \/ Restore(c) \/ Die(c)
           \/ \E c \in Calls, heard \in BOOLEAN : Queue(c, heard)
           \/ \E c \in Calls, says \in {"refused", "error"} : AbortCall(c, says)
           \/ \E i \in DOMAIN intents : Revisit(i) \/ AgeIntent(i)
           \/ Leave \/ KeptExpires \/ Cancel
  BY Zenon DEF RequestNext

(* A delivery that is at some step is a delivery. *)
LEMMA Delivering ==
    ASSUME Typed, NEW c \in Calls
    PROVE  /\ call[c] # Unused => call[c] \in Deliveries
           /\ call[c].pc \in Places => call[c] # Unused
           /\ call[c].pc # "free" => call[c] # Unused
           /\ call[c] \in Deliveries => call[c] # Unused /\ call[c].pc \in Places
  BY DEF Typed, Unused, Deliveries, Places

LEMMA Sent ==
    ASSUME NEW d \in Details, NEW k \in KeySet, NEW i \in Nat, NEW r \in Nat
    PROVE  NewCall(d, k, i, r) \in Deliveries
  BY DEF NewCall, Deliveries, Places, Answers

(* What was reviewed, and a draft. *)
LEMMA Reviewing ==
    ASSUME Typed
    PROVE  /\ \A r \in Reviews : r \in Nat /\ Reviewed(r) \in Details
           /\ kept # NoDraft => kept \in Drafts
           /\ Len(story.reviews) \in Nat /\ Len(intents) \in Nat /\ Len(queued) \in Nat
           /\ DOMAIN intents = Intents /\ DOMAIN queued = Paid
           /\ \A i \in Intents : i \in Nat /\ intents[i] \in IntentDocs
           /\ \A w \in Paid : w \in Nat /\ queued[w] \in PaidDocs
<1>1. story.reviews \in Seq(Details) /\ intents \in Seq(IntentDocs) /\ queued \in Seq(PaidDocs)
  BY DEF Typed, Stories
<1> QED BY <1>1, LenProperties, ElementOfSeq DEF Typed, Reviews, Reviewed, Intents, Paid

LEMMA TabTyped ==
    ASSUME Typed
    PROVE  Mounted \in Tabs /\ \A i \in Nat : OnMfaPage(i) \in Tabs
  BY DEF Mounted, OnMfaPage, Tabs, None

(* The tab that a page of the second factor leads back to. *)
LEMMA Returning ==
    ASSUME Typed, Refers, NEW c \in Calls, NEW verified \in BOOLEAN, Return(c, verified),
           tab.at = "mfa"
    PROVE  /\ tab' \in Tabs /\ call' \in [Calls -> {Unused} \cup Deliveries]
           /\ \/ call' = call /\ tab'.awaits = {}
              \/ /\ kept # NoDraft /\ call[c] = Unused
                 /\ call' = [call EXCEPT ![c] = NewCall(Reviewed(kept.review), kept.key,
                                                       tab.intent, kept.review)]
                 /\ tab'.awaits = {c} /\ tab'.loading
           /\ tab'.at = "panel" /\ tab'.key = None
           /\ tab'.step = "review" => kept # NoDraft /\ tab'.review = kept.review
<1>1. CASE kept = NoDraft
  <2>1. tab' = Mounted /\ call' = call
    BY <1>1 DEF Return
  <2>2. Mounted.awaits = {} /\ Mounted.at = "panel" /\ Mounted.step = "form"
        /\ Mounted.key = None
    BY DEF Mounted
  <2>3. tab' \in Tabs /\ tab'.step # "review"
    BY <2>1, <2>2, TabTyped
  <2> QED BY <2>1, <2>2, <2>3 DEF Typed
<1>2. CASE kept # NoDraft
  <2>1. kept \in Drafts /\ kept.review \in Reviews /\ kept.review \in Nat
        /\ Reviewed(kept.review) \in Details
    BY <1>2, Reviewing DEF Refers, KeptRefers
  <2> DEFINE back == [Mounted EXCEPT !.step = "review", !.review = kept.review]
  <2>2. back \in Tabs /\ back.awaits = {} /\ back.at = "panel" /\ back.step = "review"
        /\ back.review = kept.review /\ back.key = None
    BY <2>1 DEF Mounted, Tabs, None
  <2>3. [back EXCEPT !.awaits = {c}, !.loading = TRUE] \in Tabs
    BY <2>1 DEF Mounted, Tabs, None
  <2>4. CASE ~verified
    BY <1>2, <2>2, <2>4 DEF Return, Typed
  <2>5. CASE verified
    <3>1. call[c] = Unused /\ tab' = [back EXCEPT !.awaits = {c}, !.loading = TRUE]
          /\ call' = [call EXCEPT ![c] = NewCall(Reviewed(kept.review), kept.key,
                                                 tab.intent, kept.review)]
      BY <1>2, <2>5 DEF Return
    <3>2. tab.intent \in Nat
      BY DEF Typed, Tabs
    <3>3. call' \in [Calls -> {Unused} \cup Deliveries]
      BY <2>1, <3>1, <3>2, Sent DEF Typed, Drafts
    <3>4. tab'.awaits = {c} /\ tab'.loading /\ tab'.at = "panel" /\ tab'.key = None
          /\ tab'.review = kept.review
      BY <2>2, <3>1 DEF Mounted
    <3> QED BY <1>2, <2>3, <3>1, <3>3, <3>4
  <2> QED BY <2>4, <2>5
<1> QED BY <1>1, <1>2

-----------------------------------------------------------------------------
(* The history with another entry. *)
LEMMA StoryMade ==
    ASSUME NEW s \in Stories
    PROVE  /\ \A vs \in Seq(Details) : [s EXCEPT !.reviews = vs] \in Stories
           /\ \A m, n \in Nat : /\ [s EXCEPT !.losses = n] \in Stories
                               /\ [s EXCEPT !.keys = m, !.calls = n] \in Stories
                               /\ [s EXCEPT !.losses = m, !.calls = n] \in Stories
           /\ \A S \in SUBSET Nat, n \in Nat :
                 /\ [s EXCEPT !.unheard = S] \in Stories
                 /\ [s EXCEPT !.approved = S, !.calls = n] \in Stories
  BY DEF Stories

(* Every step keeps the types. *)
LEMMA TypedKept ==
    ASSUME MaxKeys \in Nat, Typed, Refers, RequestNext
    PROVE  Typed'
<1> USE DEF None
<1>0. /\ tab \in Tabs /\ kept \in {NoDraft} \cup Drafts
      /\ call \in [Calls -> {Unused} \cup Deliveries] /\ keyDoc \in [KeySet -> Nat]
      /\ intents \in Seq(IntentDocs) /\ queued \in Seq(PaidDocs) /\ story \in Stories
  BY DEF Typed
<1>a. /\ story.reviews \in Seq(Details) /\ story.keys \in Nat /\ story.calls \in Nat
      /\ story.losses \in Nat /\ story.shown \in SUBSET Nat
      /\ story.approved \in SUBSET Nat /\ story.unheard \in SUBSET Nat
  BY <1>0 DEF Stories
<1>b. \A S \in SUBSET Calls : Unheard(S) \in Stories
  <2>1. \A c \in Calls : Paying(c) => call[c].review \in Nat
    BY <1>0, Delivering DEF Paying, Deliveries
  <2> QED
    <3> SUFFICES ASSUME NEW S \in SUBSET Calls PROVE Unheard(S) \in Stories
      OBVIOUS
    <3> DEFINE U == story.unheard \cup {call[c].review : c \in {e \in S : Paying(e)}}
    <3>1. U \in SUBSET Nat
      BY <1>a, <2>1
    <3>2. Unheard(S) = [story EXCEPT !.unheard = U]
      BY DEF Unheard
    <3> HIDE DEF U
    <3> QED BY <1>0, <3>1, <3>2, StoryMade
<1>1. ASSUME NEW d \in Details, Review(d) PROVE Typed'
  <2>1. story' \in Stories
    <3>1. Append(story.reviews, d) \in Seq(Details)
      BY <1>a, AppendProperties
    <3> QED BY <1>0, <1>1, <3>1, StoryMade DEF Review
  <2>2. Len(story'.reviews) \in Nat
    BY <2>1, LenProperties DEF Stories
  <2>3. tab' \in Tabs
    BY <1>0, <1>1, <2>2 DEF Review, Tabs
  <2> QED BY <1>0, <1>1, <2>1, <2>3 DEF Review, Typed
<1>2. ASSUME NEW c \in Calls, Confirm(c) PROVE Typed'
  <2> DEFINE d == Reviewed(tab.review)
             k == IF tab.key # None /\ tab.content = d THEN tab.key ELSE story.keys + 1
             sends == tab.awaits = {}
  <2>1. tab.review \in Reviews /\ tab.review \in Nat /\ d \in Details
    BY <1>2, Reviewing DEF Confirm, Refers, TabRefers
  <2>2. k \in KeySet
    BY <1>0, <1>a, <1>2 DEF Confirm, Tabs, KeySet
  <2>3. kept' \in Drafts
    BY <1>2, <2>1, <2>2 DEF Confirm, Drafts
  <2>4. tab' = [tab EXCEPT !.key = k, !.content = d, !.loading = sends,
                           !.awaits = IF sends THEN {c} ELSE @]
    BY <1>2 DEF Confirm
  <2>5. tab' \in Tabs
    BY <1>0, <2>1, <2>2, <2>4 DEF Tabs
  <2>6. call' \in [Calls -> {Unused} \cup Deliveries]
    <3>1. NewCall(d, k, None, tab.review) \in Deliveries
      BY <2>1, <2>2, Sent
    <3> QED BY <1>0, <1>2, <3>1 DEF Confirm
  <2>7. story' \in Stories
    <3> DEFINE m == IF k > story.keys THEN k ELSE story.keys
               n == IF sends THEN story.calls + 1 ELSE story.calls
    <3>1. m \in Nat /\ n \in Nat
      BY <1>a, <2>2 DEF KeySet
    <3>2. story' = [story EXCEPT !.keys = m, !.calls = n]
      BY <1>2 DEF Confirm
    <3> HIDE DEF m, n
    <3> QED BY <1>0, <3>1, <3>2, StoryMade
  <2> QED BY <1>0, <1>2, <2>3, <2>5, <2>6, <2>7 DEF Confirm, Typed
<1>3. ASSUME NEW c \in Calls, Deliver(c) PROVE Typed'
  <2>1. call[c] \in Deliveries
    BY <1>0, <1>3, Delivering DEF Deliver, Places
  <2>2. call' \in [Calls -> {Unused} \cup Deliveries]
    BY <1>0, <1>3 DEF Deliver
  <2>3. kept' \in {NoDraft} \cup Drafts
    BY <1>0, <1>3 DEF Deliver
  <2>4. AfterAccepted(tab) \in Tabs /\ OnMfaPage(call[c].intent) \in Tabs
        /\ [tab EXCEPT !.awaits = {}, !.loading = FALSE, !.key = None] \in Tabs
        /\ [tab EXCEPT !.awaits = {}, !.loading = FALSE, !.key = tab.key] \in Tabs
    BY <1>0, <2>1, TabTyped DEF AfterAccepted, Tabs, Deliveries
  <2>5. tab' \in Tabs
    BY <1>0, <1>3, <2>4 DEF Deliver
  <2>6. \A S \in SUBSET Calls : [Unheard(S) EXCEPT !.shown = @ \cup {call[c].intent}] \in Stories
    BY <1>b, <2>1 DEF Stories, Deliveries
  <2>7. tab.awaits \in SUBSET Calls
    BY <1>0 DEF Tabs
  <2>8. story' \in Stories
    BY <1>3, <1>b, <2>6, <2>7 DEF Deliver
  <2> QED BY <1>0, <1>3, <2>2, <2>3, <2>5, <2>8 DEF Deliver, Typed
<1>4. ASSUME NEW c \in Calls, Lose(c) PROVE Typed'
  <2>1. Unheard({c}) \in Stories
    BY <1>b
  <2>2. story' \in Stories
    <3>1. story.losses + 1 \in Nat /\ Unheard({c}).losses = story.losses
      BY <1>a DEF Unheard
    <3>2. story' = [Unheard({c}) EXCEPT !.losses = story.losses + 1]
      BY <1>4, <3>1 DEF Lose
    <3> QED BY <2>1, <3>1, <3>2, StoryMade
  <2>3. tab' \in Tabs
    BY <1>0, <1>4 DEF Lose, Tabs
  <2>4. call' \in [Calls -> {Unused} \cup Deliveries]
    BY <1>0, <1>4 DEF Lose
  <2> QED BY <1>0, <1>4, <2>2, <2>3, <2>4 DEF Lose, Typed
<1>5. ASSUME NEW c \in Calls, NEW r \in Calls, Resend(c, r) PROVE Typed'
  <2>1. call[c] \in Deliveries
    BY <1>0, <1>5, Delivering DEF Resend
  <2> DEFINE i == IF call[c].answer = "verify" THEN None ELSE call[c].intent
  <2>2. i \in Nat /\ call[c].details \in Details /\ call[c].key \in KeySet
        /\ call[c].review \in Nat
    BY <2>1 DEF Deliveries
  <2>3. NewCall(call[c].details, call[c].key, i, call[c].review) \in Deliveries
    BY <2>2, Sent
  <2>4. call' \in [Calls -> {Unused} \cup Deliveries]
    BY <1>0, <1>5, <2>3 DEF Resend
  <2>5. story' \in Stories
    <3>1. story.losses + 1 \in Nat /\ story.calls + 1 \in Nat
      BY <1>a
    <3> QED BY <1>0, <1>5, <3>1, StoryMade DEF Resend
  <2> QED BY <1>0, <1>5, <2>4, <2>5 DEF Resend, Typed
<1>6. ASSUME NEW c \in Calls, NEW right \in BOOLEAN, NEW heard \in BOOLEAN,
             Verify(c, right, heard)
      PROVE Typed'
  <2> DEFINE i == tab.intent
             ok == right /\ intents[i].live
  <2>1. tab' \in Tabs /\ call' \in [Calls -> {Unused} \cup Deliveries]
    BY <1>6, Returning DEF Verify
  <2>2. i \in Intents /\ i \in Nat /\ intents[i] \in IntentDocs
    BY <1>6, Reviewing DEF Verify, Refers, TabRefers
  <2>3. intents' = [intents EXCEPT ![i] = [intents[i] EXCEPT
                      !.challenge = FALSE, !.authorized = @ \/ ok]]
    BY <1>6 DEF Verify
  <2>4. [intents[i] EXCEPT !.challenge = FALSE, !.authorized = @ \/ ok] \in IntentDocs
    <3>1. ok \in BOOLEAN /\ (intents[i].authorized \/ ok) \in BOOLEAN
      BY <2>2 DEF IntentDocs
    <3> QED BY <2>2, <3>1 DEF IntentDocs
  <2>5. intents' \in Seq(IntentDocs)
    BY <1>0, <2>2, <2>3, <2>4, ExceptSeq DEF Intents
  <2>6. story' \in Stories
    <3> DEFINE n == IF call' # call THEN story.calls + 1 ELSE story.calls
               A == IF ok THEN story.approved \cup {i} ELSE story.approved
    <3>1. n \in Nat /\ A \in SUBSET Nat
      BY <1>a, <2>2
    <3>2. story' = [story EXCEPT !.approved = A, !.calls = n]
      BY <1>6 DEF Verify
    <3> HIDE DEF n, A
    <3> QED BY <1>0, <3>1, <3>2, StoryMade
  <2> QED BY <1>0, <1>6, <2>1, <2>5, <2>6 DEF Verify, Typed
<1>7. ASSUME NEW c \in Calls,
             CreateIntent(c) \/ Begin(c) \/ ClaimUsed(c) \/ ClaimNew(c) \/ RetryCall(c)
             \/ Restore(c) \/ Die(c) \/ (\E heard \in BOOLEAN : Queue(c, heard))
             \/ \E says \in {"refused", "error"} : AbortCall(c, says)
      PROVE Typed'
  <2>1. call[c] \in Deliveries
    BY <1>0, <1>7, Delivering
       DEF CreateIntent, Begin, ClaimUsed, ClaimNew, RetryCall, Restore, Die, Queue,
           AbortCall, Places
  <2>2. /\ call[c].details \in Details /\ call[c].key \in KeySet
        /\ call[c].intent \in Nat /\ call[c].review \in Nat /\ call[c].held \in BOOLEAN
    BY <2>1 DEF Deliveries
  <2>3. CASE CreateIntent(c)
    <3> DEFINE doc == [details |-> call[c].details, key |-> call[c].key, live |-> TRUE,
                       authorized |-> FALSE, old |-> FALSE, challenge |-> TRUE]
    <3>1. doc \in IntentDocs
      BY <2>2 DEF IntentDocs
    <3>2. intents' \in Seq(IntentDocs) /\ Len(intents') \in Nat
      BY <1>0, <2>3, <3>1, AppendProperties, LenProperties DEF CreateIntent
    <3>3. call' \in [Calls -> {Unused} \cup Deliveries]
      BY <1>0, <2>1, <2>3, <3>2 DEF CreateIntent, Deliveries, Places, Answers
    <3> QED BY <1>0, <2>3, <3>2, <3>3 DEF CreateIntent, Typed
  <2>4. ASSUME NEW says \in Answers, Ends(c, says)
        PROVE  call' \in [Calls -> {Unused} \cup Deliveries]
    BY <1>0, <2>1, <2>4 DEF Ends, Deliveries, Places
  <2>5. CASE Begin(c)
    <3>1. call' \in [Calls -> {Unused} \cup Deliveries]
      BY <1>0, <2>1, <2>5 DEF Begin, Deliveries, Places
    <3> QED BY <1>0, <2>5, <3>1 DEF Begin, Typed
  <2>6. CASE ClaimUsed(c)
    <3>1. call' \in [Calls -> {Unused} \cup Deliveries]
      BY <2>4, <2>6 DEF ClaimUsed, Answers
    <3> QED BY <1>0, <2>6, <3>1 DEF ClaimUsed, Typed
  <2>7. CASE ClaimNew(c)
    <3>1. CASE call[c].held \/ Consumable(c)
      <4>1. call' \in [Calls -> {Unused} \cup Deliveries]
        BY <1>0, <2>1, <2>7, <3>1 DEF ClaimNew, Deliveries, Places
      <4>2. \A i \in DOMAIN intents : [intents[i] EXCEPT !.live = FALSE] \in IntentDocs
        BY Reviewing DEF IntentDocs
      <4>3. intents' \in Seq(IntentDocs)
        <5>1. CASE call[c].held
          BY <1>0, <2>7, <5>1 DEF ClaimNew
        <5>2. CASE ~call[c].held
          <6>1. call[c].intent \in 1..Len(intents)
            BY <2>1, <2>2, <2>7 DEF ClaimNew, Refers, CallsRefer, Fits, CallRefers, CallStands,
               Deliveries, Unused, Intents
          <6> DEFINE j == call[c].intent
          <6>2. intents' = [intents EXCEPT ![j] = [intents[j] EXCEPT !.live = FALSE]]
            BY <2>7, <3>1, <5>2 DEF ClaimNew
          <6>3. [intents[j] EXCEPT !.live = FALSE] \in IntentDocs /\ j \in 1..Len(intents)
            BY <4>2, <6>1, Reviewing DEF Intents
          <6>4. PICK doc \in IntentDocs : intents' = [intents EXCEPT ![j] = doc]
            BY <6>2, <6>3
          <6> HIDE DEF j
          <6> QED BY <1>0, <6>3, <6>4, ExceptSeq
        <5> QED BY <5>1, <5>2
      <4> QED BY <1>0, <2>7, <4>1, <4>3 DEF ClaimNew, Typed
    <3>2. CASE ~(call[c].held \/ Consumable(c))
      <4>1. call' \in [Calls -> {Unused} \cup Deliveries]
        BY <2>4, <2>7, <3>2 DEF ClaimNew, Answers
      <4> QED BY <1>0, <2>7, <3>2, <4>1 DEF ClaimNew, Typed
    <3> QED BY <3>1, <3>2
  <2>8. CASE RetryCall(c)
    <3>1. call' \in [Calls -> {Unused} \cup Deliveries]
      BY <1>0, <2>1, <2>8 DEF RetryCall, Deliveries, Places
    <3> QED BY <1>0, <2>8, <3>1 DEF RetryCall, Typed
  <2>9. ASSUME NEW heard \in BOOLEAN, Queue(c, heard) PROVE Typed'
    <3>1. call' \in [Calls -> {Unused} \cup Deliveries]
      BY <2>4, <2>9 DEF Queue, Answers
    <3> DEFINE doc == [details |-> call[c].details, key |-> call[c].key,
                       intent |-> call[c].intent, review |-> call[c].review]
    <3>2. doc \in PaidDocs
      BY <2>2 DEF PaidDocs
    <3>3. queued' \in Seq(PaidDocs) /\ Len(queued') \in Nat
      BY <1>0, <2>9, <3>2, AppendProperties, LenProperties DEF Queue
    <3>4. keyDoc' \in [KeySet -> Nat]
      BY <1>0, <2>9, <3>3 DEF Queue
    <3> QED BY <1>0, <2>9, <3>1, <3>3, <3>4 DEF Queue, Typed
  <2>10. ASSUME NEW says \in {"refused", "error"}, AbortCall(c, says) PROVE Typed'
    <3>1. call' \in [Calls -> {Unused} \cup Deliveries]
      BY <2>4, <2>10 DEF AbortCall, Answers
    <3> QED BY <1>0, <2>10, <3>1 DEF AbortCall, Typed
  <2>11. CASE Restore(c)
    <3>1. call' \in [Calls -> {Unused} \cup Deliveries]
      BY <1>0, <2>1, <2>11 DEF Restore, Deliveries, Places
    <3>2. call[c].intent \in Intents
      BY <2>1, <2>2, <2>11 DEF Restore, Refers, CallsRefer, Fits, CallRefers, CallStands,
               Deliveries, Unused
    <3> DEFINE i == call[c].intent
    <3>3. intents[i] \in IntentDocs
      BY <3>2, Reviewing
    <3>4. (intents[i].live \/ ~intents[i].old) \in BOOLEAN
      OBVIOUS
    <3>5. [intents[i] EXCEPT !.live = @ \/ ~intents[i].old] \in IntentDocs
      BY <3>3, <3>4 DEF IntentDocs
    <3>6. intents' \in Seq(IntentDocs)
      BY <1>0, <2>11, <3>2, <3>5, ExceptSeq DEF Restore, Intents
    <3> QED BY <1>0, <2>11, <3>1, <3>6 DEF Restore, Typed
  <2>12. CASE Die(c)
    <3>1. call' \in [Calls -> {Unused} \cup Deliveries]
      BY <1>0, <2>1, <2>12 DEF Die, Deliveries, Places, Answers
    <3>2. story' \in Stories
      <4>1. story.losses + 1 \in Nat
        BY <1>a
      <4> QED BY <1>0, <2>12, <4>1, StoryMade DEF Die
    <3> QED BY <1>0, <2>12, <3>1, <3>2 DEF Die, Typed
  <2> QED BY <1>7, <2>3, <2>5, <2>6, <2>7, <2>8, <2>9, <2>10, <2>11, <2>12
<1>8. ASSUME NEW i \in DOMAIN intents, Revisit(i) PROVE Typed'
  <2>1. i \in Nat /\ tab.awaits \in SUBSET Calls
    BY <1>0, Reviewing DEF Tabs
  <2> QED BY <1>0, <1>8, <1>b, <2>1, TabTyped DEF Revisit, Typed
<1>9. ASSUME NEW i \in DOMAIN intents, AgeIntent(i) PROVE Typed'
  <2>1. intents[i] \in IntentDocs /\ i \in 1..Len(intents)
    BY Reviewing DEF Intents
  <2>2. [intents[i] EXCEPT !.old = TRUE] \in IntentDocs
        /\ [intents[i] EXCEPT !.live = FALSE] \in IntentDocs
    BY <2>1 DEF IntentDocs
  <2>3. intents' \in Seq(IntentDocs)
    <3>1. \/ intents' = [intents EXCEPT ![i] = [intents[i] EXCEPT !.old = TRUE]]
          \/ intents' = [intents EXCEPT ![i] = [intents[i] EXCEPT !.live = FALSE]]
      BY <1>9 DEF AgeIntent
    <3>2. PICK doc \in IntentDocs : intents' = [intents EXCEPT ![i] = doc]
      BY <2>2, <3>1
    <3> QED BY <1>0, <2>1, <3>2, ExceptSeq
  <2> QED BY <1>0, <1>9, <2>3 DEF AgeIntent, Typed
<1>10. CASE Leave
  <2>1. tab.awaits \in SUBSET Calls
    BY <1>0 DEF Tabs
  <2> QED BY <1>0, <1>10, <1>b, <2>1, TabTyped DEF Leave, Typed
<1>11. CASE KeptExpires
  BY <1>0, <1>11 DEF KeptExpires, Typed
<1>12. CASE Cancel
  <2>1. tab' \in Tabs /\ call' \in [Calls -> {Unused} \cup Deliveries]
    BY <1>12, Returning DEF Cancel
  <2> QED BY <1>0, <1>12, <2>1 DEF Cancel, Typed
<1> QED BY <1>1, <1>2, <1>3, <1>4, <1>5, <1>6, <1>7, <1>8, <1>9, <1>10, <1>11, <1>12, Actions

-----------------------------------------------------------------------------
(* Nothing that was reviewed, intended, approved, claimed or paid is changed or
   forgotten. *)
Grown ==
    /\ Reviews \subseteq Reviews' /\ \A r \in Reviews : Reviewed(r)' = Reviewed(r)
    /\ Intents \subseteq Intents'
    /\ \A i \in Intents : /\ intents'[i].details = intents[i].details
                         /\ intents'[i].key = intents[i].key
    /\ Paid \subseteq Paid' /\ \A w \in Paid : queued'[w] = queued[w]
    /\ \A k \in KeySet : keyDoc[k] # None => keyDoc'[k] = keyDoc[k]
    /\ story.approved \subseteq story'.approved /\ story.shown \subseteq story'.shown
    /\ story.unheard \subseteq story'.unheard

(* A step of the handler. *)
Handling(c) ==
    \/ CreateIntent(c) \/ Begin(c) \/ ClaimUsed(c) \/ ClaimNew(c) \/ RetryCall(c)
    \/ Restore(c) \/ Die(c) \/ \E says \in {"refused", "error"} : AbortCall(c, says)
    \/ \E heard \in BOOLEAN : Queue(c, heard)

(* What the handler leaves alone. *)
LEMMA Handled ==
    ASSUME Typed, Refers, NEW c \in Calls, Handling(c)
    PROVE  /\ tab' = tab /\ kept' = kept
           /\ story'.reviews = story.reviews /\ story'.approved = story.approved
           /\ story'.shown = story.shown /\ story'.unheard = story.unheard
           /\ call[c] # Unused /\ call'[c] # Unused
           /\ \A d \in Calls \ {c} : call'[d] = call[d]
           /\ call'[c].key = call[c].key /\ call'[c].details = call[c].details
           /\ call'[c].review = call[c].review
           /\ Paying(c)' = Paying(c)
           /\ Told(c) => Told(c)'
<1>1. call[c] \in Deliveries /\ call[c] # Unused
  <2>1. call[c].pc \in Places
    BY DEF Handling, CreateIntent, Begin, ClaimUsed, ClaimNew, RetryCall, Restore, Die,
           Queue, AbortCall, Places
  <2> QED BY <2>1, Delivering
<1>2. CallStands(c) /\ call \in [Calls -> {Unused} \cup Deliveries]
  BY <1>1 DEF Refers, CallsRefer, Fits, Typed
<1>3. tab' = tab /\ kept' = kept
  BY DEF Handling, CreateIntent, Begin, ClaimUsed, ClaimNew, RetryCall, Restore, Die,
         Queue, AbortCall
<1>4. /\ story'.reviews = story.reviews /\ story'.approved = story.approved
      /\ story'.shown = story.shown /\ story'.unheard = story.unheard
  <2>1. story' = story \/ story' = [story EXCEPT !.losses = @ + 1]
    BY DEF Handling, CreateIntent, Begin, ClaimUsed, ClaimNew, RetryCall, Restore, Die,
           Queue, AbortCall
  <2> QED BY <2>1 DEF Typed, Stories
<1>a. /\ DOMAIN call = Calls /\ call[c].pc # "free"
      /\ DOMAIN call[c] = {"pc", "details", "key", "intent", "review", "held", "answer"}
      /\ call[c].intent \in Nat
  BY <1>1, <1>2 DEF Deliveries, Unused, Places
<1> DEFINE Same == /\ call'[c].pc # "free"
                   /\ call'[c].key = call[c].key /\ call'[c].details = call[c].details
                   /\ call'[c].review = call[c].review
           Others == \A d \in Calls \ {c} : call'[d] = call[d]
           Pay == /\ (call'[c].intent # None /\ call'[c].answer # "verify")
                       <=> (call[c].intent # None /\ call[c].answer # "verify")
                  /\ Told(c) => call'[c].answer \in {"accepted", "error"}
<1>5. ASSUME CreateIntent(c) PROVE Same /\ Others /\ Pay
  <2>1. call'[c].answer = "verify" /\ call[c].intent = None /\ call[c].answer = "none"
    BY <1>2, <1>a, <1>5 DEF CreateIntent, CallStands
  <2> QED BY <1>a, <1>5, <2>1 DEF CreateIntent, Told
<1>6. ASSUME Begin(c) PROVE Same /\ Others /\ Pay
  BY <1>2, <1>a, <1>6 DEF Begin, CallStands, Told, None
<1>7. ASSUME ClaimUsed(c) PROVE Same /\ Others /\ Pay
  BY <1>2, <1>a, <1>7 DEF ClaimUsed, Ends, CallStands, Told, None
<1>8. ASSUME ClaimNew(c) PROVE Same /\ Others /\ Pay
  <2>1. CASE call[c].held \/ Consumable(c)
    BY <1>2, <1>a, <1>8, <2>1 DEF ClaimNew, CallStands, Told, None
  <2>2. CASE ~(call[c].held \/ Consumable(c))
    BY <1>2, <1>a, <1>8, <2>2 DEF ClaimNew, Ends, CallStands, Told, None
  <2> QED BY <2>1, <2>2
<1>9. ASSUME RetryCall(c) PROVE Same /\ Others /\ Pay
  BY <1>2, <1>a, <1>9 DEF RetryCall, CallStands, Told, None
<1>10. ASSUME Restore(c) PROVE Same /\ Others /\ Pay
  BY <1>2, <1>a, <1>10 DEF Restore, CallStands, Told, None
<1>11. ASSUME Die(c) PROVE Same /\ Others /\ Pay
  BY <1>2, <1>a, <1>11 DEF Die, CallStands, Told, None
<1>12. ASSUME NEW heard \in BOOLEAN, Queue(c, heard) PROVE Same /\ Others /\ Pay
  BY <1>2, <1>a, <1>12 DEF Queue, Ends, CallStands, Told, None
<1>13. ASSUME NEW says \in {"refused", "error"}, AbortCall(c, says)
       PROVE Same /\ Others /\ Pay
  BY <1>2, <1>a, <1>13 DEF AbortCall, Ends, CallStands, Told, None
<1>14. Same /\ Others /\ Pay
  <2> HIDE DEF Same, Others, Pay
  <2> QED BY <1>5, <1>6, <1>7, <1>8, <1>9, <1>10, <1>11, <1>12, <1>13 DEF Handling
<1>15. call'[c] # Unused
  BY <1>14 DEF Unused
<1>16. Paying(c)' = Paying(c) /\ (Told(c) => Told(c)')
  BY <1>1, <1>14, <1>15 DEF Paying, Told
<1> QED BY <1>1, <1>3, <1>4, <1>14, <1>15, <1>16

(* Every step is a step of the handler or one of these. *)
LEMMA Kinds ==
    ASSUME RequestNext
    PROVE  \/ \E d \in Details : Review(d)
           \/ \E c \in Calls : Confirm(c) \/ Deliver(c) \/ Lose(c) \/ Handling(c)
           \/ \E c \in Calls, r \in Calls : Resend(c, r)
           \/ \E c \in Calls, right \in BOOLEAN, heard \in BOOLEAN : Verify(c, right, heard)
           \/ \E i \in DOMAIN intents : Revisit(i) \/ AgeIntent(i)
           \/ Leave \/ KeptExpires \/ Cancel
  BY Actions, Zenon DEF Handling

(* An unheard answer is added to the history, and nothing else. *)
LEMMA Unhearing ==
    ASSUME Typed, NEW S \in SUBSET Calls
    PROVE  /\ Unheard(S) = [story EXCEPT !.unheard = Unheard(S).unheard]
           /\ Unheard(S).reviews = story.reviews /\ Unheard(S).shown = story.shown
           /\ Unheard(S).approved = story.approved
           /\ Unheard(S).unheard = story.unheard
                  \cup {call[c].review : c \in {e \in S : Paying(e)}}
  BY DEF Typed, Stories, Unheard

(* No step forgets anything. *)
LEMMA Grows ==
    ASSUME MaxKeys \in Nat, Typed, Refers, RequestNext
    PROVE  Grown
<1> DEFINE Past == /\ story.approved \subseteq story'.approved
                   /\ story.shown \subseteq story'.shown
                   /\ story.unheard \subseteq story'.unheard
           Docs == \/ intents' = intents
                   \/ \E doc \in IntentDocs : intents' = Append(intents, doc)
                   \/ \E i \in Intents, doc \in IntentDocs :
                         /\ intents' = [intents EXCEPT ![i] = doc]
                         /\ doc.details = intents[i].details /\ doc.key = intents[i].key
           Queues == \/ queued' = queued /\ keyDoc' = keyDoc
                     \/ \E doc \in PaidDocs, k \in KeySet :
                           /\ queued' = Append(queued, doc)
                           /\ keyDoc[k] = None
                           /\ keyDoc' = [keyDoc EXCEPT ![k] = Len(queued')]
           Goes == \/ story'.reviews = story.reviews
                   \/ \E d \in Details : story'.reviews = Append(story.reviews, d)
           All == Past /\ Docs /\ Queues /\ Goes
<1>0. /\ story \in Stories /\ story.reviews \in Seq(Details)
      /\ intents \in Seq(IntentDocs) /\ queued \in Seq(PaidDocs)
      /\ keyDoc \in [KeySet -> Nat] /\ tab.awaits \in SUBSET Calls
      /\ call \in [Calls -> {Unused} \cup Deliveries]
  BY DEF Typed, Stories, Tabs
<1>1. ASSUME NEW d \in Details, Review(d) PROVE All
  BY <1>0, <1>1 DEF Review, Stories
<1>2. ASSUME NEW c \in Calls, Confirm(c) PROVE All
  BY <1>0, <1>2 DEF Confirm, Stories
<1>3. ASSUME NEW c \in Calls, Deliver(c) PROVE All
  <2>1. \A S \in SUBSET Calls :
           LET u == Unheard(S)
           IN /\ u.reviews = story.reviews /\ u.shown = story.shown
              /\ u.approved = story.approved /\ story.unheard \subseteq u.unheard
              /\ DOMAIN u = DOMAIN story
    BY <1>0 DEF Unheard, Stories
  <2>2. CASE call[c].answer = "verify"
    BY <1>0, <1>3, <2>1, <2>2 DEF Deliver, Stories
  <2>3. CASE call[c].answer # "verify"
    <3>1. (IF Misses(c) THEN {c} ELSE {}) \in SUBSET Calls
      OBVIOUS
    <3>2. \E S \in SUBSET Calls : story' = Unheard(S)
      BY <1>3, <2>3, <3>1 DEF Deliver
    <3> QED BY <1>3, <2>1, <3>2 DEF Deliver
  <2> QED BY <2>2, <2>3
<1>4. ASSUME NEW c \in Calls, Lose(c) PROVE All
  BY <1>0, <1>4, Unhearing DEF Lose, Stories, Unheard
<1>5. ASSUME NEW c \in Calls, NEW r \in Calls, Resend(c, r) PROVE All
  BY <1>0, <1>5 DEF Resend, Stories
<1>6. ASSUME NEW c \in Calls, NEW right \in BOOLEAN, NEW heard \in BOOLEAN,
             Verify(c, right, heard)
      PROVE All
  <2>1. Past /\ Goes /\ Queues
    BY <1>0, <1>6 DEF Verify, Stories
  <2> DEFINE i == tab.intent
             ok == right /\ intents[i].live
             doc == [intents[i] EXCEPT !.challenge = FALSE, !.authorized = @ \/ ok]
  <2>2. i \in Intents /\ intents[i] \in IntentDocs
    BY <1>6, Reviewing DEF Verify, Refers, TabRefers
  <2>3. intents' = [intents EXCEPT ![i] = doc]
    BY <1>6 DEF Verify
  <2>4. (intents[i].authorized \/ ok) \in BOOLEAN
    OBVIOUS
  <2>5. doc \in IntentDocs /\ doc.details = intents[i].details /\ doc.key = intents[i].key
    BY <2>2, <2>4 DEF IntentDocs
  <2> HIDE DEF doc
  <2>6. Docs
    BY <2>2, <2>3, <2>5
  <2> QED BY <2>1, <2>6
<1>7. ASSUME NEW c \in Calls, Handling(c) PROVE All
  <2>1. Past /\ Goes
    BY <1>7, Handled
  <2>2. call[c] \in Deliveries
    BY <1>0, <1>7, Handled
  <2>3. call[c].intent \in Intents \/ call[c].intent = None
    BY <2>2, <1>7, Handled DEF Refers, CallsRefer, Fits, CallRefers
  <2>4. Queues
    <3>1. ASSUME NEW heard \in BOOLEAN, Queue(c, heard) PROVE Queues
      <4>1. call[c].key \in KeySet /\ call[c].details \in Details /\ call[c].intent \in Nat
            /\ call[c].review \in Nat
        BY <2>2 DEF Deliveries
      <4>2. keyDoc[call[c].key] = None
        BY <3>1 DEF Queue, KeyTaken
      <4> DEFINE doc == [details |-> call[c].details, key |-> call[c].key,
                         intent |-> call[c].intent, review |-> call[c].review]
      <4>3. doc \in PaidDocs /\ queued' = Append(queued, doc)
            /\ keyDoc' = [keyDoc EXCEPT ![call[c].key] = Len(queued')]
        BY <3>1, <4>1 DEF Queue, PaidDocs
      <4> HIDE DEF doc
      <4> QED BY <4>1, <4>2, <4>3
    <3> QED BY <1>7, <3>1 DEF Handling, CreateIntent, Begin, ClaimUsed, ClaimNew, RetryCall,
               Restore, Die, AbortCall
  <2>5. Docs
    <3>1. CASE CreateIntent(c)
      <4> DEFINE doc == [details |-> call[c].details, key |-> call[c].key, live |-> TRUE,
                         authorized |-> FALSE, old |-> FALSE, challenge |-> TRUE]
      <4>1. doc \in IntentDocs /\ intents' = Append(intents, doc)
        BY <2>2, <3>1 DEF CreateIntent, IntentDocs, Deliveries
      <4> HIDE DEF doc
      <4> QED BY <4>1
    <3>2. ASSUME NEW i \in Intents, NEW b \in BOOLEAN,
                 intents' = [intents EXCEPT ![i] = [intents[i] EXCEPT !.live = b]]
          PROVE Docs
      <4>1. intents[i] \in IntentDocs
        BY Reviewing
      <4> DEFINE doc == [intents[i] EXCEPT !.live = b]
      <4>2. doc \in IntentDocs /\ doc.details = intents[i].details /\ doc.key = intents[i].key
        BY <4>1 DEF IntentDocs
      <4>3. intents' = [intents EXCEPT ![i] = doc]
        BY <3>2
      <4> HIDE DEF doc
      <4> QED BY <4>2, <4>3
    <3>3. CASE ClaimNew(c)
      <4>0. CallStands(c)
        BY <1>7, Handled DEF Refers, CallsRefer, Fits
      <4>1. call[c].intent \in Intents
        BY <3>3, <2>3, <4>0 DEF ClaimNew, CallStands
      <4>2. \/ intents' = intents
            \/ intents' = [intents EXCEPT ![call[c].intent] =
                              [intents[call[c].intent] EXCEPT !.live = FALSE]]
        BY <3>3 DEF ClaimNew
      <4> HIDE DEF Docs
      <4> QED BY <3>2, <4>1, <4>2 DEF Docs
    <3>4. CASE Restore(c)
      <4>0. CallStands(c)
        BY <1>7, Handled DEF Refers, CallsRefer, Fits
      <4>1. call[c].intent \in Intents
        BY <3>4, <2>3, <4>0 DEF Restore, CallStands
      <4> DEFINE i == call[c].intent
                 b == intents[i].live \/ ~intents[i].old
      <4>2. b \in BOOLEAN
        OBVIOUS
      <4>3. intents' = [intents EXCEPT ![i] = [intents[i] EXCEPT !.live = b]]
        BY <3>4 DEF Restore
      <4> HIDE DEF Docs, b, i
      <4>4. i \in Intents
        BY <4>1 DEF i
      <4> QED BY <3>2, <4>2, <4>3, <4>4
    <3> QED BY <1>7, <3>1, <3>3, <3>4 DEF Handling, Begin, ClaimUsed, RetryCall, Die, AbortCall,
               Queue
  <2> QED BY <2>1, <2>4, <2>5
<1>8. ASSUME NEW i \in DOMAIN intents, Revisit(i) PROVE All
  BY <1>0, <1>8, Unhearing DEF Revisit
<1>9. ASSUME NEW i \in DOMAIN intents, AgeIntent(i) PROVE All
  <2>1. i \in Intents /\ intents[i] \in IntentDocs
    BY Reviewing
  <2>2. \E doc \in IntentDocs : /\ intents' = [intents EXCEPT ![i] = doc]
                               /\ doc.details = intents[i].details /\ doc.key = intents[i].key
    <3> DEFINE older == [intents[i] EXCEPT !.old = TRUE]
               dead  == [intents[i] EXCEPT !.live = FALSE]
    <3>1. intents' = [intents EXCEPT ![i] = older] \/ intents' = [intents EXCEPT ![i] = dead]
      BY <1>9 DEF AgeIntent
    <3>2. /\ older \in IntentDocs /\ older.details = intents[i].details /\ older.key = intents[i].key
          /\ dead \in IntentDocs /\ dead.details = intents[i].details /\ dead.key = intents[i].key
      BY <2>1 DEF IntentDocs
    <3> HIDE DEF older, dead
    <3> QED BY <3>1, <3>2
  <2> QED BY <1>9, <2>1, <2>2 DEF AgeIntent
<1>10. ASSUME Leave \/ KeptExpires \/ Cancel PROVE All
  <2>1. story' = story \/ story' = Unheard(tab.awaits)
    BY <1>10 DEF Leave, KeptExpires, Cancel
  <2>2. Past /\ Goes
    BY <1>0, <2>1, Unhearing
  <2>3. UNCHANGED <<intents, queued, keyDoc>>
    BY <1>10 DEF Leave, KeptExpires, Cancel
  <2>4. Docs /\ Queues
    BY <2>3
  <2> HIDE DEF Past, Goes, Docs, Queues
  <2> QED BY <2>2, <2>4
<1>11. All
  <2> HIDE DEF All
  <2> QED BY Kinds, <1>1, <1>2, <1>3, <1>4, <1>5, <1>6, <1>7, <1>8, <1>9, <1>10
<1>12. Intents \subseteq Intents' /\ \A i \in Intents :
          intents'[i].details = intents[i].details /\ intents'[i].key = intents[i].key
  <2>1. ASSUME NEW doc \in IntentDocs, intents' = Append(intents, doc)
        PROVE  Len(intents') = Len(intents) + 1 /\ \A i \in Intents : intents'[i] = intents[i]
    BY <1>0, <2>1, AppendProperties DEF Intents
  <2>2. ASSUME NEW j \in Intents, NEW doc \in IntentDocs, intents' = [intents EXCEPT ![j] = doc],
               doc.details = intents[j].details, doc.key = intents[j].key
        PROVE  /\ Len(intents') = Len(intents)
               /\ \A i \in Intents : /\ intents'[i].details = intents[i].details
                                    /\ intents'[i].key = intents[i].key
    BY <1>0, <2>2, ExceptSeq DEF Intents
  <2>3. /\ Len(intents') \in {Len(intents), Len(intents) + 1}
        /\ \A i \in Intents : /\ intents'[i].details = intents[i].details
                             /\ intents'[i].key = intents[i].key
    <3>1. Docs
      BY <1>11
    <3>2. CASE intents' = intents
      BY <3>2
    <3>3. CASE \E doc \in IntentDocs : intents' = Append(intents, doc)
      BY <2>1, <3>3
    <3>4. CASE \E j \in Intents, doc \in IntentDocs :
                  /\ intents' = [intents EXCEPT ![j] = doc]
                  /\ doc.details = intents[j].details /\ doc.key = intents[j].key
      BY <2>2, <3>4
    <3> QED BY <3>1, <3>2, <3>3, <3>4
  <2>4. Len(intents) \in Nat
    BY Reviewing
  <2> QED BY <2>3, <2>4 DEF Intents
<1>13. Paid \subseteq Paid' /\ \A w \in Paid : queued'[w] = queued[w]
  <2>1. queued' = queued \/ \E doc \in PaidDocs : queued' = Append(queued, doc)
    BY <1>11
  <2>2. ASSUME NEW doc \in PaidDocs, queued' = Append(queued, doc)
        PROVE  /\ Len(queued') = Len(queued) + 1
               /\ \A w \in 1..Len(queued) : queued'[w] = queued[w]
    BY <1>0, <2>2, AppendProperties
  <2>3. Len(queued) \in Nat
    BY Reviewing
  <2> QED BY <2>1, <2>2, <2>3 DEF Paid
<1>14. Reviews \subseteq Reviews' /\ \A r \in Reviews : Reviewed(r)' = Reviewed(r)
  <2>1. Goes
    BY <1>11
  <2>2. ASSUME NEW d \in Details, story'.reviews = Append(story.reviews, d)
        PROVE  /\ Len(story'.reviews) = Len(story.reviews) + 1
               /\ \A r \in 1..Len(story.reviews) : story'.reviews[r] = story.reviews[r]
    BY <1>0, <2>2, AppendProperties
  <2>3. Len(story.reviews) \in Nat
    BY Reviewing
  <2> QED BY <2>1, <2>2, <2>3 DEF Reviews, Reviewed
<1>15. \A k \in KeySet : keyDoc[k] # None => keyDoc'[k] = keyDoc[k]
  <2>1. Queues
    BY <1>11
  <2> QED BY <1>0, <2>1
<1>16. Past
  BY <1>11
<1> HIDE DEF All
<1> QED BY <1>12, <1>13, <1>14, <1>15, <1>16 DEF Grown

-----------------------------------------------------------------------------
(* A delivery that keeps what it holds still fits. *)
LEMMA StillFits ==
    ASSUME Typed, Refers, Grown, NEW c \in Calls, call[c] # Unused,
           call'[c].review = call[c].review, call'[c].details = call[c].details,
           call'[c].key = call[c].key,
           call'[c].intent \in {call[c].intent, None} \cup Intents',
           call'[c].held => call[c].held /\ call'[c].intent = call[c].intent
    PROVE  CallRefers(c)' /\ CallHolds(c)'
<1>1. Fits(c)
  BY DEF Refers, CallsRefer
<1>2. CallRefers(c)'
  BY <1>1 DEF Fits, CallRefers, Grown
<1>3. CallHolds(c)'
  BY <1>1 DEF Fits, CallHolds, Grown
<1> QED BY <1>2, <1>3

(* A delivery that nothing happened to still fits. *)
LEMMA SameFits ==
    ASSUME Typed, Refers, Grown, NEW c \in Calls, call[c] # Unused, call'[c] = call[c]
    PROVE  Fits(c)'
<1>1. Fits(c)
  BY DEF Refers, CallsRefer
<1>2. CallRefers(c)' /\ CallHolds(c)'
  BY StillFits
<1> QED BY <1>1, <1>2 DEF Fits, CallStands

(* A new delivery of a review fits. *)
LEMMA NewFits ==
    ASSUME Typed, Grown, NEW c \in Calls, NEW r \in Reviews, NEW k,
           NEW i \in {None} \cup Intents, call'[c] = NewCall(Reviewed(r), k, i, r)
    PROVE  Fits(c)'
<1>1. /\ call'[c].review = r /\ call'[c].details = Reviewed(r) /\ call'[c].intent = i
      /\ call'[c].pc = "sent" /\ call'[c].answer = "none" /\ call'[c].held = FALSE
  BY DEF NewCall
<1>2. r \in Reviews' /\ Reviewed(r)' = Reviewed(r) /\ i \in {None} \cup Intents'
  BY DEF Grown
<1>3. CallRefers(c)'
  BY <1>1, <1>2 DEF CallRefers
<1>4. CallStands(c)' /\ CallHolds(c)'
  BY <1>1 DEF CallStands, CallHolds
<1> QED BY <1>3, <1>4 DEF Fits

(* The handler keeps its deliveries fitting. *)
LEMMA HandledFits ==
    ASSUME Typed, Refers, Typed', Grown, NEW c \in Calls, Handling(c)
    PROVE  Fits(c)'
<1>1. call[c] \in Deliveries /\ call'[c] \in Deliveries /\ Fits(c)
      /\ call' \in [Calls -> {Unused} \cup Deliveries]
  BY Handled DEF Typed, Refers, CallsRefer
<1>2. /\ DOMAIN call = Calls /\ call[c].intent \in Nat
      /\ DOMAIN call[c] = {"pc", "details", "key", "intent", "review", "held", "answer"}
      /\ call[c].intent # None => call[c].intent \in Intents
  BY <1>1 DEF Typed, Deliveries, Fits, CallRefers
<1> DEFINE Moved == /\ CallStands(c)'
                    /\ call'[c].intent \in {call[c].intent, None} \cup Intents'
           Kept  == call'[c].held => call[c].held /\ call'[c].intent = call[c].intent
<1>3. CASE CreateIntent(c)
  <2>1. Len(intents') \in Intents' /\ Len(intents') # None
    <3>1. Len(intents') = Len(intents) + 1 /\ Len(intents) \in Nat
      BY <1>3, Reviewing, AppendProperties DEF CreateIntent, Typed
    <3> QED BY <3>1 DEF Intents, None
  <2>2. ~call[c].held
    BY <1>1, <1>3 DEF Fits, CallStands, CreateIntent
  <2>3. /\ call'[c].pc = "answered" /\ call'[c].answer = "verify"
        /\ call'[c].intent = Len(intents') /\ call'[c].held = call[c].held
    BY <1>2, <1>3 DEF CreateIntent
  <2>4. Moved /\ Kept
    BY <2>1, <2>2, <2>3 DEF CallStands
  <2> QED BY <2>4, StillFits, Handled DEF Fits
<1>4. CASE Begin(c)
  <2>1. Moved /\ Kept
    BY <1>1, <1>2, <1>4 DEF Begin, Fits, CallStands
  <2> QED BY <2>1, StillFits, Handled DEF Fits
<1>5. CASE ClaimUsed(c)
  <2>1. Moved /\ Kept
    BY <1>1, <1>2, <1>5 DEF ClaimUsed, Ends, Fits, CallStands
  <2> QED BY <2>1, StillFits, Handled DEF Fits
<1>6. CASE ClaimNew(c)
  <2> DEFINE i == call[c].intent
  <2>1. call[c].pc = "claiming" /\ i # None /\ call[c].answer = "none" /\ i \in Intents
    BY <1>1, <1>2, <1>6 DEF ClaimNew, Fits, CallStands
  <2>2. CASE call[c].held
    <3>1. Moved /\ Kept
      BY <1>1, <1>2, <1>6, <2>1, <2>2 DEF ClaimNew, CallStands
    <3> QED BY <3>1, StillFits, Handled DEF Fits
  <2>3. CASE ~call[c].held /\ Consumable(c)
    <3>1. /\ call'[c].pc = "committing" /\ call'[c].held /\ call'[c].intent = i
          /\ call'[c].answer = "none"
      BY <1>1, <1>2, <1>6, <2>1, <2>3 DEF ClaimNew
    <3>2. /\ i \in Intents \cap story.approved
          /\ intents[i].details = call[c].details /\ intents[i].key = call[c].key
      BY <2>1, <2>3 DEF Consumable, Refers, StoryRefers
    <3>3. CallRefers(c)'
      BY <1>1, <2>1, <3>1, Handled DEF Fits, CallRefers, Grown
    <3>4. CallHolds(c)'
      BY <3>1, <3>2, Handled DEF CallHolds, Grown
    <3>5. CallStands(c)'
      BY <2>1, <3>1 DEF CallStands
    <3> QED BY <3>3, <3>4, <3>5 DEF Fits
  <2>4. CASE ~call[c].held /\ ~Consumable(c)
    <3>1. Moved /\ Kept
      BY <1>1, <1>2, <1>6, <2>1, <2>4 DEF ClaimNew, Ends, CallStands
    <3> QED BY <3>1, StillFits, Handled DEF Fits
  <2> QED BY <2>2, <2>3, <2>4
<1>7. CASE RetryCall(c)
  <2>1. Moved /\ Kept
    BY <1>1, <1>2, <1>7 DEF RetryCall, Fits, CallStands
  <2> QED BY <2>1, StillFits, Handled DEF Fits
<1>8. CASE Restore(c)
  <2>1. Moved /\ Kept
    BY <1>1, <1>2, <1>8 DEF Restore, Fits, CallStands
  <2> QED BY <2>1, StillFits, Handled DEF Fits
<1>9. CASE Die(c)
  <2>1. Moved /\ Kept
    BY <1>1, <1>2, <1>9 DEF Die, Fits, CallStands
  <2> QED BY <2>1, StillFits, Handled DEF Fits
<1>10. ASSUME NEW says \in {"refused", "error"}, AbortCall(c, says) PROVE Fits(c)'
  <2>1. Moved /\ Kept
    BY <1>1, <1>2, <1>10 DEF AbortCall, Ends, Fits, CallStands
  <2> QED BY <2>1, StillFits, Handled DEF Fits
<1>11. ASSUME NEW heard \in BOOLEAN, Queue(c, heard) PROVE Fits(c)'
  <2>1. Moved /\ Kept
    BY <1>1, <1>2, <1>11 DEF Queue, Ends, Fits, CallStands
  <2> QED BY <2>1, StillFits, Handled DEF Fits
<1> QED BY <1>3, <1>4, <1>5, <1>6, <1>7, <1>8, <1>9, <1>10, <1>11 DEF Handling

(* Every delivery goes on fitting. *)
LEMMA CallsKept ==
    ASSUME MaxKeys \in Nat, Typed, Refers, RequestNext, Typed', Grown
    PROVE  CallsRefer'
<1> DEFINE Stays(d) == call'[d] \in {call[d], Unused}
<1>0. DOMAIN call = Calls /\ call \in [Calls -> {Unused} \cup Deliveries]
  BY DEF Typed
<1>1. ASSUME NEW d \in Calls, Stays(d) \/ Fits(d)' PROVE call'[d] # Unused => Fits(d)'
  BY <1>1, SameFits
<1>2. ASSUME NEW d \in Details, Review(d) PROVE \A e \in Calls : Stays(e)
  BY <1>2 DEF Review
<1>3. ASSUME NEW c \in Calls, Confirm(c) PROVE \A e \in Calls : Stays(e) \/ Fits(e)'
  <2>1. tab.review \in Reviews
    BY <1>3 DEF Confirm, Refers, TabRefers
  <2>2. \/ call' = call
        \/ \E k : call' = [call EXCEPT ![c] = NewCall(Reviewed(tab.review), k, None, tab.review)]
    BY <1>3 DEF Confirm
  <2>3. CASE call' # call
    <3>1. PICK k : call' = [call EXCEPT ![c] = NewCall(Reviewed(tab.review), k, None, tab.review)]
      BY <2>2, <2>3
    <3>2. Fits(c)'
      BY <1>0, <2>1, <3>1, NewFits
    <3> QED BY <1>0, <3>1, <3>2
  <2> QED BY <2>3
<1>4. ASSUME NEW c \in Calls, Deliver(c) \/ Lose(c) PROVE \A e \in Calls : Stays(e)
  BY <1>0, <1>4 DEF Deliver, Lose
<1>5. ASSUME NEW c \in Calls, Handling(c) PROVE \A e \in Calls : Stays(e) \/ Fits(e)'
  BY <1>5, Handled, HandledFits
<1>6. ASSUME NEW c \in Calls, NEW r \in Calls, Resend(c, r)
      PROVE \A e \in Calls : Stays(e) \/ Fits(e)'
  <2> DEFINE i == IF call[c].answer = "verify" THEN None ELSE call[c].intent
  <2>1. Fits(c)
    BY <1>6, Delivering DEF Resend, Refers, CallsRefer
  <2>2. /\ call[c].review \in Reviews /\ call[c].details = Reviewed(call[c].review)
        /\ i \in {None} \cup Intents
    BY <2>1 DEF Fits, CallRefers
  <2>3. call' = [call EXCEPT ![r] = NewCall(Reviewed(call[c].review), call[c].key, i, call[c].review)]
    BY <1>6, <2>2 DEF Resend
  <2>4. Fits(r)'
    <3> HIDE DEF i
    <3> QED BY <1>0, <2>2, <2>3, NewFits
  <2> QED BY <1>0, <2>3, <2>4
<1>7. ASSUME NEW c \in Calls, NEW verified \in BOOLEAN, Return(c, verified), tab.at = "mfa"
      PROVE \A e \in Calls : Stays(e) \/ Fits(e)'
  <2>1. CASE call' = call
    BY <2>1
  <2>2. CASE call' # call
    <3>1. kept.review \in Reviews /\ tab.intent \in {None} \cup Intents
          /\ call' = [call EXCEPT ![c] = NewCall(Reviewed(kept.review), kept.key, tab.intent,
                                                 kept.review)]
      BY <1>7, <2>2, Returning DEF Refers, KeptRefers, TabRefers
    <3>2. Fits(c)'
      BY <1>0, <3>1, NewFits
    <3> QED BY <1>0, <3>1, <3>2
  <2> QED BY <2>1, <2>2
<1>8. ASSUME NEW c \in Calls, NEW right \in BOOLEAN, NEW heard \in BOOLEAN,
             Verify(c, right, heard)
      PROVE \A e \in Calls : Stays(e) \/ Fits(e)'
  <2>1. tab.at = "mfa" /\ \E verified \in BOOLEAN : Return(c, verified)
    BY <1>8 DEF Verify
  <2> QED BY <2>1, <1>7
<1>9. ASSUME NEW i \in DOMAIN intents, Revisit(i) \/ AgeIntent(i)
      PROVE \A e \in Calls : Stays(e) \/ Fits(e)'
  BY <1>9 DEF Revisit, AgeIntent
<1>10. ASSUME Leave \/ KeptExpires \/ Cancel PROVE \A e \in Calls : Stays(e) \/ Fits(e)'
  BY <1>10, <1>7 DEF Leave, KeptExpires, Cancel
<1>11. \A e \in Calls : Stays(e) \/ Fits(e)'
  BY Kinds, <1>2, <1>3, <1>4, <1>5, <1>6, <1>8, <1>9, <1>10
<1> QED BY <1>1, <1>11 DEF CallsRefer

-----------------------------------------------------------------------------
(* What the tab and the draft show exists. *)
LEMMA TabKept ==
    ASSUME MaxKeys \in Nat, Typed, Refers, RequestNext, Typed', Grown
    PROVE  TabRefers' /\ KeptRefers'
<1> DEFINE Good == TabRefers' /\ KeptRefers'
<1>0. /\ Reviews \subseteq Reviews' /\ Intents \subseteq Intents'
      /\ kept # NoDraft => kept.review \in Reviews
      /\ tab.at = "panel" /\ tab.step = "review" => tab.review \in Reviews
      /\ tab.at = "mfa" => tab.intent \in Intents /\ tab.awaits = {}
      /\ DOMAIN tab = {"at", "step", "review", "content", "key", "awaits", "loading", "intent"}
  BY DEF Grown, Refers, KeptRefers, TabRefers, Typed, Tabs
<1>a. ASSUME tab'.at = "panel", tab'.step # "review" PROVE TabRefers'
  BY <1>a DEF TabRefers
<1>b. ASSUME NEW i \in Intents, tab' = OnMfaPage(i) PROVE TabRefers'
  BY <1>0, <1>b DEF TabRefers, OnMfaPage, Mounted
<1>c. ASSUME kept' \in {kept, NoDraft} PROVE KeptRefers'
  BY <1>0, <1>c DEF KeptRefers
<1>d. ASSUME tab' = tab PROVE TabRefers'
  BY <1>0, <1>d DEF TabRefers
<1>1. ASSUME NEW d \in Details, Review(d) PROVE Good
  <2>1. Len(story'.reviews) \in Reviews'
    BY <1>1, AppendProperties DEF Review, Reviews, Typed, Stories
  <2>2. tab'.at = "panel" /\ tab'.review = Len(story'.reviews)
    BY <1>0, <1>1 DEF Review
  <2> QED BY <2>1, <2>2, <1>1, <1>c DEF Review, TabRefers
<1>2. ASSUME NEW c \in Calls, Confirm(c) PROVE Good
  <2>1. tab.review \in Reviews'
    BY <1>0, <1>2 DEF Confirm
  <2>2. tab'.at = "panel" /\ tab'.review = tab.review /\ kept'.review = tab.review
    BY <1>0, <1>2 DEF Confirm
  <2> QED BY <2>1, <2>2 DEF TabRefers, KeptRefers
<1>3. ASSUME NEW c \in Calls, Deliver(c) PROVE Good
  <2>1. KeptRefers'
    BY <1>3, <1>c DEF Deliver
  <2>2. CASE call[c].answer = "verify"
    <3>1. call[c] # Unused
      BY <1>3, Delivering DEF Deliver, Places
    <3>2. call[c].intent \in Intents
      BY <1>3, <3>1 DEF Deliver, Refers, CallsRefer, Fits, CallRefers, CallStands
    <3>3. tab' = OnMfaPage(call[c].intent)
      BY <1>3, <2>2 DEF Deliver
    <3> QED BY <1>b, <2>1, <3>2, <3>3
  <2>3. CASE call[c].answer # "verify"
    <3>1. \/ tab' = tab
          \/ tab'.at = tab.at /\ tab'.step = "status" /\ tab'.awaits = {} /\ tab'.intent = tab.intent
          \/ tab'.at = tab.at /\ tab'.step = tab.step /\ tab'.awaits = {} /\ tab'.intent = tab.intent
             /\ tab'.review = tab.review
      BY <1>0, <1>3, <2>3 DEF Deliver, AfterAccepted
    <3> QED BY <1>0, <2>1, <3>1 DEF TabRefers
  <2> QED BY <2>2, <2>3
<1>4. ASSUME NEW c \in Calls, Lose(c) PROVE Good
  <2>1. tab' = tab \/ tab' = [tab EXCEPT !.awaits = {}, !.loading = FALSE]
    BY <1>4 DEF Lose
  <2>2. KeptRefers'
    BY <1>4, <1>c DEF Lose
  <2> QED BY <1>0, <2>1, <2>2 DEF TabRefers
<1>5. ASSUME NEW c \in Calls, Handling(c) PROVE Good
  BY <1>5, <1>c, <1>d, Handled
<1>6. ASSUME NEW c \in Calls, NEW r \in Calls, Resend(c, r) PROVE Good
  BY <1>6, <1>c, <1>d DEF Resend
<1>7. ASSUME NEW c \in Calls, NEW verified \in BOOLEAN, Return(c, verified), tab.at = "mfa"
      PROVE TabRefers'
  BY <1>0, <1>7, Returning DEF TabRefers
<1>8. ASSUME NEW c \in Calls, NEW right \in BOOLEAN, NEW heard \in BOOLEAN,
             Verify(c, right, heard)
      PROVE Good
  <2>1. tab.at = "mfa" /\ \E verified \in BOOLEAN : Return(c, verified)
    BY <1>8 DEF Verify
  <2>2. KeptRefers'
    BY <1>8, <1>c DEF Verify
  <2> QED BY <1>7, <2>1, <2>2
<1>9. ASSUME NEW i \in DOMAIN intents, Revisit(i) \/ AgeIntent(i) PROVE Good
  BY <1>9, <1>b, <1>c, <1>d, Reviewing DEF Revisit, AgeIntent
<1>10. ASSUME Leave PROVE Good
  <2>1. Mounted.at = "panel" /\ Mounted.step = "form"
    BY DEF Mounted
  <2> QED BY <1>10, <1>a, <1>c, <2>1 DEF Leave
<1>11. ASSUME KeptExpires PROVE Good
  BY <1>11, <1>c, <1>d DEF KeptExpires
<1>12. ASSUME Cancel PROVE Good
  BY <1>12, <1>7, <1>c DEF Cancel
<1> HIDE DEF Good
<1>13. Good
  BY Kinds, <1>1, <1>2, <1>3, <1>4, <1>5, <1>6, <1>8, <1>9, <1>10, <1>11, <1>12
<1> QED BY <1>13 DEF Good

(* A delivery keeps its review as long as it is one. *)
LEMMA ReviewsStay ==
    ASSUME MaxKeys \in Nat, Typed, Refers, RequestNext, NEW c \in Calls, call[c] # Unused
    PROVE  call'[c] = Unused \/ call'[c].review = call[c].review
<1>0. call \in [Calls -> {Unused} \cup Deliveries]
  BY DEF Typed
<1>1. ASSUME NEW d \in Calls, NEW v \in BOOLEAN, Return(d, v), tab.at = "mfa"
      PROVE call'[c] = call[c]
  BY <1>0, <1>1, Returning
<1>2. ASSUME NEW d \in Calls, Handling(d) PROVE call'[c].review = call[c].review
  BY <1>2, Handled
<1>3. ASSUME NEW d \in Calls, Confirm(d) PROVE call'[c] = call[c]
  BY <1>0, <1>3 DEF Confirm
<1>4. ASSUME NEW d \in Calls, Deliver(d) \/ Lose(d) PROVE call'[c] \in {call[c], Unused}
  BY <1>0, <1>4 DEF Deliver, Lose
<1>5. ASSUME NEW d \in Calls, NEW r \in Calls, Resend(d, r) PROVE call'[c] = call[c]
  BY <1>0, <1>5 DEF Resend
<1>6. ASSUME NEW d \in Calls, NEW right \in BOOLEAN, NEW heard \in BOOLEAN, Verify(d, right, heard)
      PROVE call'[c] = call[c]
  BY <1>1, <1>6 DEF Verify
<1>7. ASSUME Cancel PROVE call'[c] = call[c]
  BY <1>1, <1>7 DEF Cancel
<1>8. ASSUME NEW d \in Details, Review(d) PROVE call'[c] = call[c]
  BY <1>8 DEF Review
<1>9. ASSUME NEW i \in DOMAIN intents, Revisit(i) \/ AgeIntent(i) PROVE call'[c] = call[c]
  BY <1>9 DEF Revisit, AgeIntent
<1>10. ASSUME Leave \/ KeptExpires PROVE call'[c] = call[c]
  BY <1>10 DEF Leave, KeptExpires
<1> QED BY Kinds, <1>2, <1>3, <1>4, <1>5, <1>6, <1>7, <1>8, <1>9, <1>10

(* The tab waits for one delivery at most, and cannot confirm what it waits for. *)
LEMMA WaitsKept ==
    ASSUME MaxKeys \in Nat, Typed, Refers, RequestNext, Typed', Grown
    PROVE  TabWaits'
<1>0. /\ DOMAIN call = Calls /\ call \in [Calls -> {Unused} \cup Deliveries]
      /\ DOMAIN tab = {"at", "step", "review", "content", "key", "awaits", "loading", "intent"}
      /\ tab.awaits \in SUBSET Calls /\ TabWaits
      /\ tab.at = "mfa" => tab.awaits = {}
  BY DEF Refers, TabRefers, Typed, Tabs
<1>a. ASSUME tab'.awaits = {} PROVE TabWaits'
  BY <1>a DEF TabWaits
(* The same wait, of a tab that shows what it showed or shows nothing that is awaited. *)
<1>b. ASSUME tab'.awaits = tab.awaits, \A c \in tab.awaits : call'[c] # Unused,
             tab'.step = "review" => \/ \A c \in tab.awaits : tab'.review # call[c].review
                                     \/ tab'.step = tab.step /\ tab'.review = tab.review
                                        /\ tab'.loading = tab.loading
      PROVE TabWaits'
  <2> SUFFICES ASSUME NEW c \in tab.awaits
               PROVE  /\ call'[c] # Unused /\ tab'.awaits = {c}
                      /\ tab'.step = "review" /\ tab'.review = call'[c].review => tab'.loading
    BY <1>b DEF TabWaits
  <2>1. call[c] # Unused /\ tab.awaits = {c} /\ c \in Calls
        /\ (tab.step = "review" /\ tab.review = call[c].review => tab.loading)
    BY <1>0 DEF TabWaits
  <2>2. call'[c].review = call[c].review
    BY <1>b, <2>1, ReviewsStay
  <2> QED BY <1>b, <2>1, <2>2
<1>c. ASSUME tab' = tab, \A c \in tab.awaits : call'[c] # Unused PROVE TabWaits'
  BY <1>b, <1>c
<1>1. ASSUME NEW d \in Details, Review(d) PROVE TabWaits'
  <2>1. tab'.awaits = tab.awaits /\ tab'.review = Len(story.reviews) + 1 /\ call' = call
    BY <1>0, <1>1, AppendProperties DEF Review, Typed, Stories
  <2>2. \A c \in tab.awaits : call[c] # Unused /\ call[c].review \in 1..Len(story.reviews)
    BY <1>0 DEF TabWaits, Refers, CallsRefer, Fits, CallRefers, Reviews
  <2>3. \A c \in tab.awaits : call[c].review # tab'.review
    BY <2>1, <2>2, Reviewing
  <2> QED BY <1>b, <2>1, <2>2, <2>3
<1>2. ASSUME NEW c \in Calls, Confirm(c) PROVE TabWaits'
  <2>1. /\ tab.step = "review" /\ ~tab.loading
        /\ tab'.step = tab.step /\ tab'.review = tab.review
    BY <1>0, <1>2 DEF Confirm
  <2>2. CASE tab.awaits # {}
    <3>1. call' = call /\ tab'.awaits = tab.awaits
      BY <1>0, <1>2, <2>2 DEF Confirm
    <3>2. \A e \in tab.awaits : call[e] # Unused /\ tab.review # call[e].review
      BY <1>0, <2>1 DEF TabWaits
    <3> QED BY <1>b, <2>1, <3>1, <3>2
  <2>3. CASE tab.awaits = {}
    <3>1. tab'.awaits = {c} /\ tab'.loading
      BY <1>0, <1>2, <2>3 DEF Confirm
    <3>2. call'[c].pc = "sent"
      BY <1>0, <1>2, <2>3 DEF Confirm, NewCall
    <3>3. call'[c] # Unused
      BY <3>2 DEF Unused
    <3> QED BY <3>1, <3>3 DEF TabWaits
  <2> QED BY <2>2, <2>3
<1>3. ASSUME NEW c \in Calls, Deliver(c) PROVE TabWaits'
  <2>1. tab'.awaits = {} \/ (tab' = tab /\ c \notin tab.awaits)
    <3>1. CASE call[c].answer = "verify"
      <4>1. tab' = OnMfaPage(call[c].intent)
        BY <1>3, <3>1 DEF Deliver
      <4> QED BY <4>1 DEF OnMfaPage, Mounted
    <3>2. CASE call[c].answer # "verify"
      BY <1>0, <1>3, <3>2 DEF Deliver, AfterAccepted
    <3> QED BY <3>1, <3>2
  <2>2. \A e \in Calls \ {c} : call'[e] = call[e]
    BY <1>0, <1>3 DEF Deliver
  <2>3. \A e \in tab.awaits : call[e] # Unused
    BY <1>0 DEF TabWaits
  <2> QED BY <1>0, <1>a, <1>c, <2>1, <2>2, <2>3
<1>4. ASSUME NEW c \in Calls, Lose(c) PROVE TabWaits'
  <2>1. tab'.awaits = {} \/ (tab' = tab /\ c \notin tab.awaits)
    BY <1>0, <1>4 DEF Lose
  <2>2. \A e \in Calls \ {c} : call'[e] = call[e]
    BY <1>0, <1>4 DEF Lose
  <2>3. \A e \in tab.awaits : call[e] # Unused
    BY <1>0 DEF TabWaits
  <2> QED BY <1>0, <1>a, <1>c, <2>1, <2>2, <2>3
<1>5. ASSUME NEW c \in Calls, Handling(c) PROVE TabWaits'
  <2>1. \A e \in tab.awaits : call[e] # Unused
    BY <1>0 DEF TabWaits
  <2>2. \A e \in tab.awaits : call'[e] # Unused
    BY <1>0, <1>5, <2>1, Handled
  <2>3. tab' = tab
    BY <1>5, Handled
  <2> QED BY <1>c, <2>2, <2>3
<1>6. ASSUME NEW c \in Calls, NEW r \in Calls, Resend(c, r) PROVE TabWaits'
  <2>1. r \notin tab.awaits /\ \A e \in tab.awaits : call[e] # Unused
    BY <1>0, <1>6 DEF Resend, TabWaits
  <2> QED BY <1>0, <1>6, <1>c, <2>1 DEF Resend
<1>7. ASSUME NEW c \in Calls, NEW verified \in BOOLEAN, Return(c, verified), tab.at = "mfa"
      PROVE TabWaits'
  <2>1. CASE tab'.awaits = {}
    BY <1>a, <2>1
  <2>2. CASE tab'.awaits # {}
    <3>1. tab'.awaits = {c} /\ tab'.loading
          /\ call' = [call EXCEPT ![c] = NewCall(Reviewed(kept.review), kept.key, tab.intent,
                                                 kept.review)]
      BY <1>7, <2>2, Returning
    <3>2. call'[c].pc = "sent"
      BY <1>0, <3>1 DEF NewCall
    <3>3. call'[c] # Unused
      BY <3>2 DEF Unused
    <3> QED BY <3>1, <3>3 DEF TabWaits
  <2> QED BY <2>1, <2>2
<1>8. ASSUME NEW c \in Calls, NEW right \in BOOLEAN, NEW heard \in BOOLEAN,
             Verify(c, right, heard)
      PROVE TabWaits'
  BY <1>7, <1>8 DEF Verify
<1>9. ASSUME NEW i \in DOMAIN intents, Revisit(i) PROVE TabWaits'
  BY <1>9, <1>a DEF Revisit, OnMfaPage, Mounted
<1>10. ASSUME NEW i \in DOMAIN intents, AgeIntent(i) PROVE TabWaits'
  BY <1>0, <1>10, <1>c DEF AgeIntent, TabWaits
<1>11. ASSUME Leave PROVE TabWaits'
  BY <1>11, <1>a DEF Leave, Mounted
<1>12. ASSUME KeptExpires PROVE TabWaits'
  BY <1>0, <1>12, <1>c DEF KeptExpires, TabWaits
<1>13. ASSUME Cancel PROVE TabWaits'
  BY <1>7, <1>13 DEF Cancel
<1> QED BY Kinds, <1>1, <1>2, <1>3, <1>4, <1>5, <1>6, <1>8, <1>9, <1>10, <1>11, <1>12, <1>13

(* What was shown or approved exists, and what is authorized was approved. *)
LEMMA StoryKept ==
    ASSUME MaxKeys \in Nat, Typed, Refers, RequestNext, Typed', Grown
    PROVE  StoryRefers'
<1> DEFINE Known == /\ story'.shown \subseteq Intents' /\ story'.approved \subseteq Intents'
           Open == \A i \in Intents' : intents'[i].authorized =>
                     \/ i \in Intents /\ intents[i].authorized
                     \/ i \in story'.approved
<1>0. /\ StoryRefers /\ Intents \subseteq Intents' /\ story.approved \subseteq story'.approved
      /\ intents \in Seq(IntentDocs) /\ story \in Stories
  BY DEF Refers, Grown, Typed
<1>a. ASSUME Known, Open PROVE StoryRefers'
  BY <1>0, <1>a DEF StoryRefers
<1>b. ASSUME story'.shown = story.shown, story'.approved = story.approved PROVE Known
  BY <1>0, <1>b DEF StoryRefers
<1>c. ASSUME intents' = intents PROVE Open
  BY <1>c DEF Intents
<1>d. ASSUME NEW i \in Intents, NEW b \in BOOLEAN,
             \/ intents' = [intents EXCEPT ![i] = [intents[i] EXCEPT !.live = b]]
             \/ intents' = [intents EXCEPT ![i] = [intents[i] EXCEPT !.old = b]]
      PROVE Open
  <2>1. intents[i] \in IntentDocs
    BY Reviewing
  <2>2. PICK doc \in IntentDocs : intents' = [intents EXCEPT ![i] = doc]
                                /\ doc.authorized = intents[i].authorized
    <3> DEFINE lived == [intents[i] EXCEPT !.live = b]
               aged  == [intents[i] EXCEPT !.old = b]
    <3>1. /\ lived \in IntentDocs /\ lived.authorized = intents[i].authorized
          /\ aged \in IntentDocs /\ aged.authorized = intents[i].authorized
      BY <2>1 DEF IntentDocs
    <3>2. intents' = [intents EXCEPT ![i] = lived] \/ intents' = [intents EXCEPT ![i] = aged]
      BY <1>d
    <3> HIDE DEF lived, aged
    <3> QED BY <3>1, <3>2
  <2>3. \A j \in Intents : intents'[j].authorized = intents[j].authorized
    BY <1>0, <2>2, ExceptSeq DEF Intents
  <2>4. Len(intents') = Len(intents)
    BY <1>0, <2>2, ExceptSeq DEF Intents
  <2> QED BY <2>3, <2>4 DEF Intents
<1>1. ASSUME NEW d \in Details, Review(d) PROVE StoryRefers'
  <2>1. Known
    BY <1>0, <1>1, <1>b DEF Review, Stories
  <2>2. Open
    BY <1>1, <1>c DEF Review
  <2> QED BY <1>a, <2>1, <2>2
<1>2. ASSUME NEW c \in Calls, Confirm(c) PROVE StoryRefers'
  <2>1. Known
    BY <1>0, <1>2, <1>b DEF Confirm, Stories
  <2>2. Open
    BY <1>2, <1>c DEF Confirm
  <2> QED BY <1>a, <2>1, <2>2
<1>3. ASSUME NEW c \in Calls, Deliver(c) PROVE StoryRefers'
  <2>1. Open
    BY <1>3, <1>c DEF Deliver
  <2>2. tab.awaits \in SUBSET Calls /\ (IF Misses(c) THEN {c} ELSE {}) \in SUBSET Calls
    BY DEF Typed, Tabs
  <2>3. CASE call[c].answer = "verify"
    <3>1. call[c] # Unused
      BY <1>3, Delivering DEF Deliver, Places
    <3>2. call[c].intent \in Intents
      BY <1>3, <3>1 DEF Deliver, Refers, CallsRefer, Fits, CallRefers, CallStands
    <3>3. story' = [Unheard(tab.awaits) EXCEPT !.shown = @ \cup {call[c].intent}]
      BY <1>3, <2>3 DEF Deliver
    <3>4. story'.shown = story.shown \cup {call[c].intent} /\ story'.approved = story.approved
      BY <1>0, <3>3 DEF Unheard, Stories
    <3>5. Known
      BY <1>0, <3>2, <3>4 DEF StoryRefers
    <3> QED BY <1>a, <2>1, <3>5
  <2>4. CASE call[c].answer # "verify"
    <3>1. \E S \in SUBSET Calls : story' = Unheard(S)
      BY <1>3, <2>2, <2>4 DEF Deliver
    <3>2. Known
      BY <1>b, <3>1, Unhearing
    <3> QED BY <1>a, <2>1, <3>2
  <2> QED BY <2>3, <2>4
<1>4. ASSUME NEW c \in Calls, Lose(c) PROVE StoryRefers'
  <2>1. story'.shown = story.shown /\ story'.approved = story.approved
    BY <1>0, <1>4 DEF Lose, Unheard, Stories
  <2> QED BY <1>4, <1>a, <1>b, <1>c, <2>1 DEF Lose
<1>5. ASSUME NEW c \in Calls, Handling(c) PROVE StoryRefers'
  <2>1. Known
    BY <1>5, <1>b, Handled
  <2>2. Fits(c) /\ call[c] \in Deliveries
    BY <1>5, Handled DEF Refers, CallsRefer, Typed
  <2>3. Open
    <3>1. CASE CreateIntent(c)
      <4> DEFINE doc == [details |-> call[c].details, key |-> call[c].key, live |-> TRUE,
                         authorized |-> FALSE, old |-> FALSE, challenge |-> TRUE]
      <4>1. intents' = Append(intents, doc) /\ ~doc.authorized /\ doc \in IntentDocs
        BY <2>2, <3>1 DEF CreateIntent, IntentDocs, Deliveries
      <4> HIDE DEF doc
      <4>2. /\ \A i \in Intents : intents'[i] = intents[i]
            /\ Len(intents') = Len(intents) + 1 /\ intents'[Len(intents) + 1] = doc
        BY <1>0, <4>1, AppendProperties DEF Intents
      <4> QED BY <4>1, <4>2, Reviewing DEF Intents
    <3>2. CASE ClaimNew(c)
      <4>1. call[c].intent \in Intents
        BY <2>2, <3>2 DEF ClaimNew, Fits, CallRefers, CallStands
      <4>2. \/ intents' = intents
            \/ intents' = [intents EXCEPT ![call[c].intent] =
                              [intents[call[c].intent] EXCEPT !.live = FALSE]]
        BY <3>2 DEF ClaimNew
      <4> HIDE DEF Open
      <4> QED BY <1>c, <1>d, <4>1, <4>2
    <3>3. CASE Restore(c)
      <4>1. call[c].intent \in Intents
        BY <2>2, <3>3 DEF Restore, Fits, CallRefers, CallStands
      <4> DEFINE i == call[c].intent
                 b == intents[i].live \/ ~intents[i].old
      <4>2. b \in BOOLEAN
        OBVIOUS
      <4>3. intents' = [intents EXCEPT ![i] = [intents[i] EXCEPT !.live = b]]
        BY <3>3 DEF Restore
      <4> HIDE DEF Open, b, i
      <4>4. i \in Intents
        BY <4>1 DEF i
      <4> QED BY <1>d, <4>2, <4>3, <4>4
    <3>4. CASE intents' = intents
      BY <1>c, <3>4
    <3> QED BY <1>5, <3>1, <3>2, <3>3, <3>4
            DEF Handling, Begin, ClaimUsed, RetryCall, Die, AbortCall, Queue
  <2> QED BY <1>a, <2>1, <2>3
<1>6. ASSUME NEW c \in Calls, NEW r \in Calls, Resend(c, r) PROVE StoryRefers'
  <2>1. story'.shown = story.shown /\ story'.approved = story.approved
    BY <1>0, <1>6 DEF Resend, Stories
  <2> QED BY <1>6, <1>a, <1>b, <1>c, <2>1 DEF Resend
<1>7. ASSUME NEW c \in Calls, NEW right \in BOOLEAN, NEW heard \in BOOLEAN,
             Verify(c, right, heard)
      PROVE StoryRefers'
  <2> DEFINE i == tab.intent
             ok == right /\ intents[i].live
             doc == [intents[i] EXCEPT !.challenge = FALSE, !.authorized = @ \/ ok]
  <2>1. i \in Intents /\ intents[i] \in IntentDocs
    BY <1>7, Reviewing DEF Verify, Refers, TabRefers
  <2>2. (intents[i].authorized \/ ok) \in BOOLEAN
    OBVIOUS
  <2>3. doc \in IntentDocs /\ doc.authorized = (intents[i].authorized \/ ok)
    BY <2>1, <2>2 DEF IntentDocs
  <2>4. intents' = [intents EXCEPT ![i] = doc]
    BY <1>7 DEF Verify
  <2>5. /\ story'.approved = IF ok THEN story.approved \cup {i} ELSE story.approved
        /\ story'.shown = story.shown
    BY <1>0, <1>7 DEF Verify, Stories
  <2> HIDE DEF doc
  <2>6. Len(intents') = Len(intents)
        /\ \A j \in Intents : intents'[j] = IF j = i THEN doc ELSE intents[j]
    BY <1>0, <2>1, <2>3, <2>4, ExceptSeq DEF Intents
  <2>7. Open
    BY <2>1, <2>3, <2>5, <2>6 DEF Intents
  <2>8. Known
    BY <1>0, <2>1, <2>5 DEF StoryRefers
  <2> QED BY <1>a, <2>7, <2>8
<1>8. ASSUME NEW i \in DOMAIN intents, Revisit(i) PROVE StoryRefers'
  <2>1. tab.awaits \in SUBSET Calls
    BY DEF Typed, Tabs
  <2>2. Known
    BY <1>8, <1>b, <2>1, Unhearing DEF Revisit
  <2> QED BY <1>8, <1>a, <1>c, <2>2 DEF Revisit
<1>9. ASSUME NEW i \in DOMAIN intents, AgeIntent(i) PROVE StoryRefers'
  <2>1. i \in Intents
    BY Reviewing
  <2>2. Open
    <3> HIDE DEF Open
    <3> QED BY <1>9, <1>d, <2>1 DEF AgeIntent
  <2>3. Known
    BY <1>9, <1>b DEF AgeIntent
  <2> QED BY <1>a, <2>2, <2>3
<1>10. ASSUME Leave \/ KeptExpires \/ Cancel PROVE StoryRefers'
  <2>1. tab.awaits \in SUBSET Calls
    BY DEF Typed, Tabs
  <2>2. story' = story \/ story' = Unheard(tab.awaits)
    BY <1>10 DEF Leave, KeptExpires, Cancel
  <2>3. Known
    BY <1>b, <2>1, <2>2, Unhearing
  <2>4. Open
    BY <1>10, <1>c DEF Leave, KeptExpires, Cancel
  <2> QED BY <1>a, <2>3, <2>4
<1> QED BY Kinds, <1>1, <1>2, <1>3, <1>4, <1>5, <1>6, <1>7, <1>8, <1>9, <1>10

(* What is paid refers to an approval, and claims its key. *)
LEMMA KeysKept ==
    ASSUME MaxKeys \in Nat, Typed, Refers, RequestNext, Typed', Grown
    PROVE  KeysRefer'
<1>0. /\ KeysRefer /\ keyDoc \in [KeySet -> Nat] /\ queued \in Seq(PaidDocs)
      /\ \A w \in Paid : queued[w] \in PaidDocs /\ w \in Nat /\ w # None
  BY Reviewing DEF Refers, Typed, Paid, None
(* What was paid refers to what it referred to. *)
<1>1. ASSUME NEW w \in Paid PROVE PaidRefers(w)'
  <2>1. PaidRefers(w) /\ queued'[w] = queued[w] /\ queued[w].key \in KeySet
    BY <1>0 DEF KeysRefer, Grown, PaidDocs
  <2>2. keyDoc'[queued[w].key] = w
    BY <1>0, <2>1 DEF PaidRefers, Grown
  <2> QED BY <2>1, <2>2 DEF PaidRefers, Grown
<1>2. CASE queued' = queued /\ keyDoc' = keyDoc
  <2>1. \A k \in KeySet : keyDoc'[k] \in {None} \cup Paid'
    BY <1>0, <1>2 DEF KeysRefer, Paid
  <2>2. \A w \in Paid' : w \in Paid
    BY <1>2 DEF Paid
  <2> QED BY <1>1, <2>1, <2>2 DEF KeysRefer
<1>3. ASSUME NEW c \in Calls, NEW heard \in BOOLEAN, Queue(c, heard) PROVE KeysRefer'
  <2>1. Handling(c)
    BY <1>3 DEF Handling
  <2>2. Fits(c) /\ call[c] \in Deliveries /\ call[c].pc = "committing"
    BY <1>3, <2>1, Handled DEF Refers, CallsRefer, Typed, Queue
  <2>3. /\ call[c].review \in Reviews /\ call[c].details = Reviewed(call[c].review)
        /\ call[c].intent \in Intents \cap story.approved
        /\ intents[call[c].intent].details = call[c].details
        /\ intents[call[c].intent].key = call[c].key
        /\ call[c].key \in KeySet
    BY <2>2 DEF Fits, CallRefers, CallStands, CallHolds, Deliveries
  <2>4. PICK doc \in PaidDocs : /\ queued' = Append(queued, doc)
                              /\ doc.details = call[c].details /\ doc.key = call[c].key
                              /\ doc.intent = call[c].intent /\ doc.review = call[c].review
    <3> DEFINE d == [details |-> call[c].details, key |-> call[c].key,
                     intent |-> call[c].intent, review |-> call[c].review]
    <3>1. d \in PaidDocs
      BY <2>2 DEF PaidDocs, Deliveries
    <3>2. queued' = Append(queued, d)
      BY <1>3 DEF Queue
    <3>3. /\ d.details = call[c].details /\ d.key = call[c].key
          /\ d.intent = call[c].intent /\ d.review = call[c].review
      OBVIOUS
    <3> HIDE DEF d
    <3> QED BY <3>1, <3>2, <3>3
  <2>5. PICK new \in Nat : new = Len(queued) + 1
    BY Reviewing
  <2>6. Len(queued') = new /\ queued'[new] = doc /\ new \in Nat /\ new # None
    BY <1>0, <2>4, <2>5, AppendProperties, Reviewing DEF None
  <2>7. keyDoc' = [keyDoc EXCEPT ![call[c].key] = new]
    BY <1>3, <2>6 DEF Queue
  <2>8. Paid' = Paid \cup {new}
    BY <2>5, <2>6, Reviewing DEF Paid
  <2>9. PaidRefers(new)'
    <3>1. keyDoc'[doc.key] = new
      BY <1>0, <2>3, <2>4, <2>7
    <3>2. /\ doc.review \in Reviews' /\ doc.details = Reviewed(doc.review)'
          /\ doc.intent \in Intents' \cap story'.approved
          /\ intents'[doc.intent].details = doc.details
          /\ intents'[doc.intent].key = doc.key
      BY <2>3, <2>4 DEF Grown
    <3> QED BY <2>6, <3>1, <3>2 DEF PaidRefers
  <2>10. \A k \in KeySet : keyDoc'[k] \in {None} \cup Paid'
    BY <1>0, <2>3, <2>7, <2>8 DEF KeysRefer
  <2> QED BY <1>1, <2>8, <2>9, <2>10 DEF KeysRefer
<1>4. \/ queued' = queued /\ keyDoc' = keyDoc
      \/ \E c \in Calls, heard \in BOOLEAN : Queue(c, heard)
  <2>1. ASSUME NEW c \in Calls, Handling(c)
        PROVE  \/ queued' = queued /\ keyDoc' = keyDoc
               \/ \E heard \in BOOLEAN : Queue(c, heard)
    BY <2>1 DEF Handling, CreateIntent, Begin, ClaimUsed, ClaimNew, RetryCall, Restore, Die,
                AbortCall
  <2>2. ASSUME NEW c \in Calls, \/ Confirm(c) \/ Deliver(c) \/ Lose(c)
                                \/ \E r \in Calls : Resend(c, r)
                                \/ \E right \in BOOLEAN, heard \in BOOLEAN : Verify(c, right, heard)
        PROVE  queued' = queued /\ keyDoc' = keyDoc
    BY <2>2 DEF Confirm, Deliver, Lose, Resend, Verify
  <2>3. ASSUME \/ \E d \in Details : Review(d)
               \/ \E i \in DOMAIN intents : Revisit(i) \/ AgeIntent(i)
               \/ Leave \/ KeptExpires \/ Cancel
        PROVE  queued' = queued /\ keyDoc' = keyDoc
    BY <2>3 DEF Review, Revisit, AgeIntent, Leave, KeptExpires, Cancel
  <2> QED BY Kinds, <2>1, <2>2, <2>3
<1> QED BY <1>2, <1>3, <1>4

(* Every step keeps the references. *)
LEMMA RefersKept ==
    ASSUME MaxKeys \in Nat, Typed, Refers, RequestNext
    PROVE  Typed' /\ Grown /\ Refers'
<1>1. Typed' /\ Grown
  BY TypedKept, Grows
<1> QED BY <1>1, CallsKept, TabKept, WaitsKept, StoryKept, KeysKept DEF Refers

-----------------------------------------------------------------------------
(* Nobody pays for review r. *)
Idle(r) == /\ \A c \in Calls : ~Pays(c, r)
           /\ \A w \in Paid : queued[w].review # r

(* Who pays after the step paid before it. *)
NoNewPayer == \A c \in Calls : Paying(c)' =>
    \E d \in Calls : /\ Paying(d) /\ call[d].review = call'[c].review
                     /\ call[d].key = call'[c].key

(* What may be asked for after the step was asked for before it, and the panel
   goes on waiting for who pays for it. *)
Follows(r) ==
    /\ Asked(r) /\ (Awaited(r) => Awaited(r)')
    /\ \A q \in Calls : Pays(q, r) /\ Told(q) => Pays(q, r)' /\ Told(q)'

(* What the panel may ask for while it waits for nobody, nobody pays for. *)
LEMMA IdleUnlessAwaited ==
    ASSUME PayInv, NEW r, Heard(r), Asked(r), ~Awaited(r)
    PROVE  Idle(r)
  BY DEF PayInv, PayingIsAwaited, PaidIsAwaited, Idle, Pays, Heard

(* A step that queues nothing, adds no payer, and after which whatever may be asked
   for is idle or still awaited. *)
LEMMA PayKept ==
    ASSUME IInv, Grown, queued' = queued, NoNewPayer,
           \A r : Heard(r) /\ Heard(r)' /\ Asked(r)' => Idle(r) \/ Idle(r)' \/ Follows(r)
    PROVE  PayInv' /\ PaidAgainOnlyIfUnheard'
<1>0. /\ Paid' = Paid /\ PayInv /\ PaidAgainOnlyIfUnheard
      /\ \A r : Heard(r)' => Heard(r)
  BY DEF Paid, IInv, Heard, Grown
<1>1. PayingIsAwaited'
  <2> SUFFICES ASSUME NEW c \in Calls, Paying(c)', NEW r, r = call'[c].review,
                      Heard(r)', Asked(r)'
               PROVE  Awaited(r)'
    BY DEF PayingIsAwaited
  <2>1. PICK d \in Calls : Pays(d, r)
    BY DEF NoNewPayer, Pays
  <2>2. Follows(r)
    BY <1>0, <2>1 DEF Idle, Pays
  <2>3. Awaited(r)
    BY <1>0, <2>1, <2>2 DEF Follows, PayInv, PayingIsAwaited, Pays
  <2> QED BY <2>2, <2>3 DEF Follows
<1>2. PaidIsAwaited'
  <2> SUFFICES ASSUME NEW w \in Paid, NEW r, r = queued[w].review, Heard(r)', Asked(r)'
               PROVE  Awaited(r)' /\ \E q \in Calls : Pays(q, r)' /\ Told(q)'
    BY <1>0 DEF PaidIsAwaited
  <2>1. Follows(r)
    BY <1>0 DEF Idle
  <2>2. Awaited(r) /\ \E q \in Calls : Pays(q, r) /\ Told(q)
    BY <1>0, <2>1 DEF Follows, PayInv, PaidIsAwaited
  <2> QED BY <2>1, <2>2 DEF Follows
<1>3. OneKeyPays'
  <2> SUFFICES ASSUME NEW c \in Calls, Paying(c)', Heard(call[c].review)'
               PROVE  /\ \A d \in Calls : Pays(d, call[c].review)' => call'[d].key = call'[c].key
                      /\ \A w \in Paid : queued[w].review = call'[c].review
                                          => queued[w].key = call'[c].key
    BY <1>0 DEF OneKeyPays
  <2>1. PICK e \in Calls : /\ Paying(e) /\ call[e].review = call'[c].review
                           /\ call[e].key = call'[c].key
    BY DEF NoNewPayer
  <2>2. Heard(call[e].review)
    BY <1>0, <2>1 DEF Heard, Grown
  <2>3. \A w \in Paid : queued[w].review = call'[c].review => queued[w].key = call'[c].key
    BY <1>0, <2>1, <2>2 DEF PayInv, OneKeyPays
  <2>4. ASSUME NEW d \in Calls, Pays(d, call[c].review)' PROVE call'[d].key = call'[c].key
    <3>1. PICK f \in Calls : /\ Paying(f) /\ call[f].review = call'[d].review
                             /\ call[f].key = call'[d].key
      BY <2>4 DEF NoNewPayer, Pays
    <3>2. call'[d].review = call'[c].review
      BY <2>4 DEF Pays
    <3> QED BY <1>0, <2>1, <2>2, <3>1, <3>2 DEF PayInv, OneKeyPays, Pays
  <2> QED BY <2>3, <2>4
<1>4. PaidAgainOnlyIfUnheard'
  <2>1. DOMAIN queued' = DOMAIN queued /\ story.unheard \subseteq story'.unheard
    BY DEF Grown
  <2> QED BY <1>0, <2>1 DEF PaidAgainOnlyIfUnheard
<1> QED BY <1>1, <1>2, <1>3, <1>4 DEF PayInv

(* Turning away from what is awaited leaves it unheard. *)
LEMMA TurningAway ==
    ASSUME Typed, NEW r, Awaited(r)
    PROVE  r \in Unheard(tab.awaits).unheard
<1>1. tab.awaits \in SUBSET Calls
  BY DEF Typed, Tabs
<1> QED BY <1>1, Unhearing DEF Awaited, Pays

(* Queueing: of a review that was heard of, it is the first. *)
LEMMA QueuePays ==
    ASSUME IInv, Typed', Grown, NEW c \in Calls, NEW heard \in BOOLEAN, Queue(c, heard)
    PROVE  PayInv' /\ PaidAgainOnlyIfUnheard'
<1>1. /\ Typed /\ Refers /\ PayInv /\ PaidAgainOnlyIfUnheard /\ Handling(c)
      /\ \A w \in Paid : PaidRefers(w)
  BY DEF IInv, Handling, Refers, KeysRefer
<1>2. /\ call[c] \in Deliveries /\ Fits(c) /\ call[c].pc = "committing"
      /\ call[c].intent # None /\ call[c].answer = "none"
  BY <1>1, Handled DEF Refers, CallsRefer, Fits, CallStands, Typed, Queue
<1>3. Paying(c) /\ keyDoc[call[c].key] = None
  BY <1>1, <1>2, Handled DEF Paying, Queue, KeyTaken
<1>4. Told(c)'
  BY <1>1, <1>2 DEF Queue, Ends, Told, Typed
<1>5. /\ \A d \in Calls : /\ Paying(d)' = Paying(d) /\ call'[d].review = call[d].review
                           /\ call'[d].key = call[d].key /\ (Told(d) => Told(d)')
      /\ tab' = tab /\ kept' = kept /\ story'.unheard = story.unheard
  <2>1. \A d \in Calls \ {c} : call'[d] = call[d]
    BY <1>1, Handled
  <2>2. \A d \in Calls \ {c} : Paying(d)' = Paying(d) /\ (Told(d) => Told(d)')
    BY <2>1 DEF Paying, Told
  <2> QED BY <1>1, <2>1, <2>2, Handled
<1>6. PICK new \in Nat, key \in KeySet, review \in Nat :
         /\ new = Len(queued) + 1 /\ Paid' = Paid \cup {new} /\ new \notin Paid
         /\ key = call[c].key /\ review = call[c].review
         /\ queued'[new].key = key /\ queued'[new].review = review
         /\ \A w \in Paid : queued'[w] = queued[w]
  <2> DEFINE doc == [details |-> call[c].details, key |-> call[c].key,
                     intent |-> call[c].intent, review |-> call[c].review]
  <2>1. doc \in PaidDocs
    BY <1>2 DEF PaidDocs, Deliveries
  <2>2. queued' = Append(queued, doc)
    BY DEF Queue
  <2>3. doc.key = call[c].key /\ doc.review = call[c].review
    OBVIOUS
  <2> HIDE DEF doc
  <2>4. Len(queued') = Len(queued) + 1 /\ queued'[Len(queued) + 1] = doc
    BY <1>1, <2>1, <2>2, AppendProperties DEF Typed
  <2>5. Paid' = Paid \cup {Len(queued) + 1} /\ Len(queued) + 1 \notin Paid
        /\ Len(queued) + 1 \in Nat
    BY <1>1, <2>4, Reviewing DEF Paid
  <2>6. \A w \in Paid : queued'[w] = queued[w]
    BY DEF Grown
  <2>7. call[c].key \in KeySet /\ call[c].review \in Nat
    BY <1>2 DEF Deliveries
  <2> QED BY <2>3, <2>4, <2>5, <2>6, <2>7
<1>7. \A w \in Paid : queued[w].review = review => ~Heard(review)
  <2> SUFFICES ASSUME NEW w \in Paid, queued[w].review = review, Heard(review) PROVE FALSE
    OBVIOUS
  <2>1. queued[w].key = call[c].key
    BY <1>1, <1>3, <1>6 DEF PayInv, OneKeyPays
  <2>2. keyDoc[call[c].key] = w
    BY <1>1, <2>1 DEF PaidRefers
  <2> QED BY <1>1, <1>3, <2>2, Reviewing DEF Paid, None
<1>8. PaidAgainOnlyIfUnheard'
  <2>1. DOMAIN queued = Paid /\ DOMAIN queued' = Paid'
    BY Reviewing, <1>1 DEF Typed, Paid
  <2> QED BY <1>1, <1>5, <1>6, <1>7, <2>1 DEF PaidAgainOnlyIfUnheard, Heard
<1>a. /\ \A r : Heard(r)' = Heard(r) /\ Asked(r)' = Asked(r)
      /\ \A r : \A d \in Calls : Pays(d, r)' = Pays(d, r)
  BY <1>5 DEF Heard, Asked, Pays
<1>b. \A r : Awaited(r)' = Awaited(r)
  <2>1. tab.awaits \in SUBSET Calls
    BY <1>1 DEF Typed, Tabs
  <2> QED BY <1>5, <1>a, <2>1 DEF Awaited
<1>9. PayingIsAwaited'
  BY <1>1, <1>5, <1>a, <1>b DEF PayInv, PayingIsAwaited
<1>10. PaidIsAwaited'
  <2> SUFFICES ASSUME NEW w \in Paid', NEW r, r = queued'[w].review, Heard(r), Asked(r)
               PROVE  Awaited(r) /\ \E q \in Calls : Pays(q, r) /\ Told(q)'
    BY <1>a, <1>b DEF PaidIsAwaited
  <2>1. CASE w = new
    BY <1>1, <1>3, <1>4, <1>6, <2>1 DEF PayInv, PayingIsAwaited, Pays
  <2>2. CASE w \in Paid
    BY <1>1, <1>5, <1>6, <2>2 DEF PayInv, PaidIsAwaited
  <2> QED BY <1>6, <2>1, <2>2
<1>11. OneKeyPays'
  <2> SUFFICES ASSUME NEW d \in Calls, Paying(d), Heard(call[d].review)
               PROVE  /\ \A e \in Calls : Pays(e, call[d].review) => call[e].key = call[d].key
                      /\ \A w \in Paid' : queued'[w].review = call[d].review
                                           => queued'[w].key = call[d].key
    BY <1>5 DEF OneKeyPays, Heard, Pays
  <2>1. \A e \in Calls : Pays(e, call[d].review) => call[e].key = call[d].key
    BY <1>1 DEF PayInv, OneKeyPays
  <2>2. review = call[d].review => key = call[d].key
    BY <1>3, <1>6, <2>1 DEF Pays
  <2>3. \A w \in Paid : queued[w].review = call[d].review => queued[w].key = call[d].key
    BY <1>1 DEF PayInv, OneKeyPays
  <2> QED BY <1>6, <2>1, <2>2, <2>3
<1> QED BY <1>8, <1>9, <1>10, <1>11 DEF PayInv

-----------------------------------------------------------------------------
(* A delivery that nothing happened to pays for what it paid for, and an unused one
   or a new one without an intent for nothing. *)
LEMMA SamePayer ==
    ASSUME NEW c \in Calls, call'[c] = call[c], NEW r
    PROVE  Paying(c)' = Paying(c) /\ Pays(c, r)' = Pays(c, r) /\ Told(c)' = Told(c)
  BY DEF Paying, Pays, Told

(* A step in which every delivery stays or is gone. *)
LEMMA NoneJoins ==
    ASSUME \A c \in Calls : call'[c] = call[c] \/ ~Paying(c)'
    PROVE  NoNewPayer
  BY SamePayer DEF NoNewPayer

(* A tab that waits on and shows nothing new: who paid is still awaited. *)
LEMMA WaitsOn ==
    ASSUME Typed, NEW r, Asked(r), tab'.awaits = tab.awaits,
           \A c \in Calls : Pays(c, r) => call'[c] = call[c]
    PROVE  Follows(r)
<1>1. \A c \in Calls : Pays(c, r) => Pays(c, r)' /\ (Told(c) => Told(c)')
  BY SamePayer
<1>2. tab.awaits \in SUBSET Calls
  BY DEF Typed, Tabs
<1> QED BY <1>1, <1>2 DEF Follows, Awaited

(* A tab that turns away from what it awaits: whatever it asks for later is idle. *)
LEMMA TurnsAway ==
    ASSUME IInv, NEW r, Heard(r), Heard(r)', Asked(r),
           Unheard(tab.awaits).unheard \subseteq story'.unheard
    PROVE  Idle(r)
<1>1. ~Awaited(r)
  BY TurningAway DEF IInv, Heard
<1> QED BY <1>1, IdleUnlessAwaited DEF IInv

(* A review: nobody pays for it yet. *)
LEMMA ReviewPays ==
    ASSUME IInv, Grown, NEW d \in Details, Review(d)
    PROVE  PayInv' /\ PaidAgainOnlyIfUnheard'
<1>1. /\ Typed /\ Refers /\ call' = call /\ queued' = queued /\ kept' = kept
      /\ tab'.awaits = tab.awaits /\ tab'.review = Len(story.reviews) + 1
      /\ story'.unheard = story.unheard
  BY AppendProperties DEF IInv, Review, Typed, Tabs, Stories
<1>2. Idle(Len(story.reviews) + 1)
  <2>1. ASSUME NEW c \in Calls, Paying(c) PROVE call[c].review # Len(story.reviews) + 1
    BY <1>1, <2>1, Reviewing DEF Paying, Refers, CallsRefer, Fits, CallRefers, Reviews
  <2>2. ASSUME NEW w \in Paid PROVE queued[w].review # Len(story.reviews) + 1
    BY <1>1, Reviewing DEF Refers, KeysRefer, PaidRefers, Reviews
  <2> QED BY <2>1, <2>2 DEF Idle, Pays
<1>3. \A r : Asked(r)' => Asked(r) \/ r = Len(story.reviews) + 1
  BY <1>1 DEF Asked
<1>4. \A r : Asked(r)' => Idle(r) \/ Follows(r)
  BY <1>1, <1>2, <1>3, WaitsOn
<1> QED BY <1>1, <1>4, NoneJoins, PayKept

(* A confirmation: of what was heard of, nobody pays for what the panel confirms. *)
LEMMA ConfirmPays ==
    ASSUME IInv, Grown, NEW c \in Calls, Confirm(c)
    PROVE  PayInv' /\ PaidAgainOnlyIfUnheard'
<1>1. /\ Typed /\ Refers /\ PayInv /\ queued' = queued /\ DOMAIN call = Calls
      /\ tab.at = "panel" /\ tab.step = "review" /\ ~tab.loading
      /\ tab'.review = tab.review /\ kept'.review = tab.review
  BY DEF IInv, Confirm, Typed, Tabs
<1>2. \A r : Asked(r)' => r = tab.review
  BY <1>1 DEF Asked
<1>3. ~Awaited(tab.review)
  BY <1>1 DEF Awaited, Pays, Refers, TabWaits
<1>4. \A r : Heard(r) /\ Asked(r)' => Idle(r)
  BY <1>1, <1>2, <1>3, IdleUnlessAwaited DEF Asked
<1>5. \A e \in Calls : call'[e] = call[e] \/ ~Paying(e)'
  <2>1. \/ call' = call
        \/ \E k : call' = [call EXCEPT ![c] = NewCall(Reviewed(tab.review), k, None, tab.review)]
    BY DEF Confirm
  <2> QED BY <1>1, <2>1 DEF NewCall, Paying
<1> QED BY <1>1, <1>4, <1>5, NoneJoins, PayKept

(* An answer: whoever it was for was told, or it is unheard. *)
LEMMA DeliverPays ==
    ASSUME IInv, Grown, NEW c \in Calls, Deliver(c)
    PROVE  PayInv' /\ PaidAgainOnlyIfUnheard'
<1> DEFINE review == call[c].review
           says == call[c].answer
<1>1. /\ Typed /\ Refers /\ PayInv /\ queued' = queued /\ DOMAIN call = Calls
      /\ call'[c] = Unused /\ \A d \in Calls \ {c} : call'[d] = call[d]
      /\ kept' \in {kept, NoDraft} /\ (says = "accepted" => kept' = NoDraft)
      /\ DOMAIN tab = {"at", "step", "review", "content", "key", "awaits", "loading", "intent"}
      /\ tab.awaits \in SUBSET Calls
  BY DEF IInv, Deliver, Typed, Tabs
<1>2. /\ call[c] # Unused /\ call[c].intent # None
      /\ says \in {"verify", "accepted", "refused", "conflict", "error"}
  <2>1. call[c] # Unused /\ call[c] \in Deliveries
    BY <1>1, Delivering DEF Deliver, Places
  <2> QED BY <1>1, <2>1 DEF Deliver, Refers, CallsRefer, Fits, CallStands, Deliveries, Answers
<1>3. NoNewPayer
  BY <1>1, NoneJoins DEF Paying
<1>5. CASE says = "verify"
  <2>1. tab' = OnMfaPage(call[c].intent) /\ story'.unheard = Unheard(tab.awaits).unheard
    BY <1>1, <1>5 DEF Deliver, Unheard, Typed, Stories
  <2>2. \A r : Asked(r)' => Asked(r)
    BY <1>1, <2>1 DEF Asked, OnMfaPage, Mounted
  <2> QED BY <1>1, <1>3, <2>1, <2>2, TurnsAway, PayKept
<1>6. CASE says # "verify"
  <2>1. Paying(c) /\ Pays(c, review)
    BY <1>2, <1>6 DEF Paying, Pays
  <2>2. Misses(c) => review \in story'.unheard
    <3>1. story' = Unheard(IF Misses(c) THEN {c} ELSE {})
      BY <1>6 DEF Deliver
    <3> QED BY <1>1, <2>1, <3>1, Unhearing
  <2>3. c \in tab.awaits => tab.awaits = {c}
    BY <1>1 DEF Refers, TabWaits
  <2>4. CASE says = "accepted" /\ c \in tab.awaits
    <3>1. tab'.step = "status" /\ kept' = NoDraft
      BY <1>1, <2>4 DEF Deliver, AfterAccepted
    <3>2. \A r : ~Asked(r)'
      BY <3>1 DEF Asked
    <3> QED BY <1>1, <1>3, <3>2, PayKept
  <2>5. CASE ~(says = "accepted" /\ c \in tab.awaits)
    <3>1. \/ tab' = tab /\ c \notin tab.awaits
          \/ /\ c \in tab.awaits /\ tab'.awaits = {}
             /\ tab'.at = tab.at /\ tab'.step = tab.step /\ tab'.review = tab.review
      BY <1>1, <1>6, <2>5 DEF Deliver
    <3>2. \A r : Asked(r)' => Asked(r)
      BY <1>1, <3>1 DEF Asked
    <3> SUFFICES ASSUME NEW r, Heard(r), Heard(r)', Asked(r)
                 PROVE  Idle(r) \/ Idle(r)' \/ Follows(r)
      BY <1>1, <1>3, <3>2, PayKept
    <3>3. CASE c \notin tab.awaits
      <4>1. r # review \/ ~Told(c)
        BY <2>2, <3>3 DEF Misses, Told, Heard
      <4>2. \A d \in Calls : Pays(d, r) /\ Told(d) => Pays(d, r)' /\ Told(d)'
        <5> SUFFICES ASSUME NEW d \in Calls, Pays(d, r), Told(d) PROVE d # c
          BY <1>1, SamePayer
        <5> QED BY <4>1 DEF Pays
      <4>3. Awaited(r) => Awaited(r)'
        BY <1>1, <3>1, <3>3, SamePayer DEF Awaited
      <4> QED BY <4>2, <4>3 DEF Follows
    <3>4. CASE c \in tab.awaits /\ r # review
      <4>1. ~Awaited(r)
        BY <2>3, <3>4 DEF Awaited, Pays
      <4> QED BY <1>1, <4>1, IdleUnlessAwaited
    <3>5. CASE c \in tab.awaits /\ r = review
      <4>1. \A o \in Calls \ {c} : ~Pays(o, review)
        BY <1>2, <1>6, <2>2, <2>5, <3>5 DEF Misses, Heard, Pays
      <4>2. ~Told(c)
        BY <1>2, <2>2, <2>5, <3>5 DEF Misses, Heard, Told
      <4>3. \A w \in Paid : queued[w].review # review
        BY <1>1, <3>5, <4>1, <4>2 DEF PayInv, PaidIsAwaited
      <4>4. \A d \in Calls : ~Pays(d, r)'
        BY <1>1, <3>5, <4>1, SamePayer DEF Pays, Paying
      <4> QED BY <1>1, <3>5, <4>3, <4>4 DEF Idle, Paid
    <3> QED BY <3>3, <3>4, <3>5
  <2> QED BY <2>4, <2>5
<1> QED BY <1>5, <1>6

(* A loss: what paid is unheard. *)
LEMMA LosePays ==
    ASSUME IInv, Grown, NEW c \in Calls, Lose(c)
    PROVE  PayInv' /\ PaidAgainOnlyIfUnheard'
<1>1. /\ Typed /\ Refers /\ PayInv /\ queued' = queued /\ kept' = kept
      /\ call'[c] = Unused /\ \A d \in Calls \ {c} : call'[d] = call[d]
      /\ tab.awaits \in SUBSET Calls
      /\ tab'.at = tab.at /\ tab'.step = tab.step /\ tab'.review = tab.review
      /\ \/ tab'.awaits = tab.awaits /\ c \notin tab.awaits
         \/ c \in tab.awaits /\ tab.awaits = {c} /\ tab'.awaits = {}
  BY DEF IInv, Lose, Typed, Tabs, Refers, TabWaits
<1>2. NoNewPayer
  BY <1>1, NoneJoins DEF Paying
<1>3. Paying(c) => call[c].review \in story'.unheard
  <2>1. story'.unheard = Unheard({c}).unheard
    BY <1>1 DEF Lose, Unheard, Typed, Stories
  <2> QED BY <1>1, <2>1, Unhearing
<1>4. \A r : Asked(r)' => Asked(r)
  BY <1>1 DEF Asked
<1>5. ASSUME NEW r, Heard(r), Heard(r)', Asked(r) PROVE Idle(r) \/ Follows(r)
  <2>1. ~Pays(c, r)
    BY <1>3, <1>5 DEF Pays, Heard
  <2>2. CASE tab'.awaits = tab.awaits
    BY <1>1, <1>5, <2>1, <2>2, WaitsOn
  <2>3. CASE tab.awaits = {c}
    <3>1. ~Awaited(r)
      BY <2>1, <2>3 DEF Awaited
    <3> QED BY <1>1, <1>5, <3>1, IdleUnlessAwaited
  <2> QED BY <1>1, <2>2, <2>3
<1> QED BY <1>1, <1>2, <1>4, <1>5, PayKept

(* A copy pays with the key of its original. *)
LEMMA ResendPays ==
    ASSUME IInv, Grown, NEW c \in Calls, NEW d \in Calls, Resend(c, d)
    PROVE  PayInv' /\ PaidAgainOnlyIfUnheard'
<1>1. /\ Typed /\ Refers /\ PayInv /\ queued' = queued /\ kept' = kept /\ tab' = tab
      /\ call[d] = Unused /\ \A e \in Calls \ {d} : call'[e] = call[e]
      /\ call'[d].review = call[c].review /\ call'[d].key = call[c].key
      /\ call'[d].answer = "none"
      /\ call'[d].intent = IF call[c].answer = "verify" THEN None ELSE call[c].intent
  BY DEF IInv, Resend, Typed, NewCall
<1>2. call[c] # Unused
  BY <1>1, Delivering DEF Resend
<1>3. Paying(d)' => Paying(c)
  BY <1>1, <1>2 DEF Paying
<1>4. NoNewPayer
  BY <1>1, <1>3, SamePayer DEF NoNewPayer
<1>5. \A r : Asked(r)' => Asked(r)
  BY <1>1 DEF Asked
<1>6. ~Paying(d)
  BY <1>1 DEF Paying
<1>7. ASSUME NEW r, Asked(r) PROVE Follows(r)
  BY <1>1, <1>6, <1>7, WaitsOn DEF Pays
<1> QED BY <1>1, <1>4, <1>5, <1>7, PayKept

(* What the panel sends when it comes back is the first that pays for its review, of
   all that was heard of. *)
LEMMA ReturnPays ==
    ASSUME IInv, Grown, NEW c \in Calls, NEW verified \in BOOLEAN, Return(c, verified),
           tab.at = "mfa", kept' = kept, queued' = queued
    PROVE  PayInv' /\ PaidAgainOnlyIfUnheard'
<1>1. /\ Typed /\ Refers /\ PayInv /\ PaidAgainOnlyIfUnheard /\ DOMAIN call = Calls
      /\ tab.awaits = {}
  BY DEF IInv, Typed, Refers, TabRefers
<1>2. \A r : Asked(r)' => Asked(r) /\ kept # NoDraft /\ kept.review = r
  BY <1>1, Returning DEF Asked
<1>3. \A r : Heard(r) /\ Asked(r) => Idle(r)
  BY <1>1, IdleUnlessAwaited DEF Awaited
<1>4. CASE call' = call
  <2>1. \A r : Heard(r) /\ Asked(r)' => Idle(r)
    BY <1>2, <1>3
  <2> QED BY <1>4, <2>1, NoneJoins, PayKept
<1>5. CASE call' # call
  <2>1. /\ kept # NoDraft /\ call[c] = Unused /\ tab'.awaits = {c}
        /\ call' = [call EXCEPT ![c] = NewCall(Reviewed(kept.review), kept.key, tab.intent,
                                               kept.review)]
    BY <1>1, <1>5, Returning
  <2>2. tab.intent # None
    BY <1>1, Reviewing DEF Refers, TabRefers, Intents, None
  <2>3. PICK review : review = kept.review
    OBVIOUS
  <2>4. /\ \A d \in Calls \ {c} : call'[d] = call[d]
        /\ call'[c].review = review /\ call'[c].pc = "sent" /\ call'[c].intent = tab.intent
        /\ call'[c].answer = "none"
    BY <1>1, <2>1, <2>3 DEF NewCall
  <2>5. Pays(c, review)'
    BY <2>2, <2>4 DEF Pays, Paying, Unused
  <2>6. Asked(review)
    BY <2>1, <2>3 DEF Asked
  <2>7. \A r : Heard(r)' => Heard(r)
    BY DEF Heard, Grown
  <2>8. Heard(review)' => Idle(review)
    BY <1>3, <2>6, <2>7
  <2>9. \A d \in Calls \ {c} : Paying(d)' = Paying(d)
    BY <2>4, SamePayer
  <2>10. Paid' = Paid /\ ~Paying(c)
    BY <2>1 DEF Paid, Paying
  <2>11. PayingIsAwaited'
    <3> SUFFICES ASSUME NEW d \in Calls, Paying(d)', NEW r, r = call'[d].review,
                        Heard(r)', Asked(r)'
                 PROVE  Awaited(r)'
      BY DEF PayingIsAwaited
    <3>1. r = review
      BY <1>2, <2>3
    <3> QED BY <2>1, <2>5, <3>1 DEF Awaited
  <2>12. PaidIsAwaited'
    <3> SUFFICES ASSUME NEW w \in Paid, NEW r, r = queued[w].review, Heard(r)', Asked(r)'
                 PROVE  FALSE
      BY <2>10 DEF PaidIsAwaited
    <3> QED BY <1>2, <1>3, <2>7 DEF Idle
  <2>13. OneKeyPays'
    <3> SUFFICES ASSUME NEW d \in Calls, Paying(d)', NEW r, r = call'[d].review, Heard(r)'
                 PROVE  /\ \A e \in Calls : Pays(e, r)' => call'[e].key = call'[d].key
                        /\ \A w \in Paid : queued[w].review = r
                                            => queued[w].key = call'[d].key
      BY <2>10 DEF OneKeyPays
    <3>1. CASE r = review
      <4>1. \A e \in Calls : Pays(e, r)' => e = c
        BY <2>4, <2>8, <3>1, SamePayer DEF Idle
      <4>2. d = c
        BY <4>1 DEF Pays
      <4> QED BY <2>8, <3>1, <4>1, <4>2 DEF Idle
    <3>2. CASE r # review
      <4>1. d # c /\ Paying(d) /\ call[d].review = r /\ call'[d].key = call[d].key
        BY <2>4, <2>9, <3>2
      <4>2. \A e \in Calls : Pays(e, r)' => e # c /\ Pays(e, r) /\ call'[e].key = call[e].key
        BY <2>4, <3>2, SamePayer DEF Pays
      <4>3. Heard(r)
        BY <2>7
      <4> QED BY <1>1, <4>1, <4>2, <4>3 DEF PayInv, OneKeyPays
    <3> QED BY <3>1, <3>2
  <2>14. PaidAgainOnlyIfUnheard'
    BY <1>1 DEF PaidAgainOnlyIfUnheard, Grown
  <2> QED BY <2>11, <2>12, <2>13, <2>14 DEF PayInv
<1> QED BY <1>4, <1>5

(* A step of the handler changes neither the payers nor who awaits them. *)
LEMMA HandlingPays ==
    ASSUME IInv, Typed', Grown, NEW c \in Calls, Handling(c)
    PROVE  PayInv' /\ PaidAgainOnlyIfUnheard'
<1>1. CASE \E heard \in BOOLEAN : Queue(c, heard)
  BY <1>1, QueuePays
<1>2. CASE queued' = queued
  <2>1. /\ Typed /\ Refers /\ tab' = tab /\ kept' = kept
        /\ \A d \in Calls \ {c} : call'[d] = call[d]
        /\ call'[c].key = call[c].key /\ call'[c].review = call[c].review
        /\ Paying(c)' = Paying(c) /\ (Told(c) => Told(c)')
        /\ tab.awaits \in SUBSET Calls
    BY Handled DEF IInv, Typed, Tabs
  <2>2. NoNewPayer
    BY <2>1, SamePayer DEF NoNewPayer
  <2>3. \A r : \A d \in Calls : Pays(d, r) => Pays(d, r)' /\ (Told(d) => Told(d)')
    BY <2>1, SamePayer DEF Pays
  <2>4. \A r : Asked(r)' => Asked(r)
    BY <2>1 DEF Asked
  <2>5. \A r : Asked(r) => Follows(r)
    BY <2>1, <2>3 DEF Follows, Awaited
  <2> QED BY <1>2, <2>2, <2>4, <2>5, PayKept
<1> QED BY <1>1, <1>2 DEF Handling, CreateIntent, Begin, ClaimUsed, ClaimNew, RetryCall,
           Restore, Die, AbortCall

(* Turning to another page, and what passes by itself. *)
LEMMA RestPays ==
    ASSUME IInv, Grown,
           \/ Leave \/ KeptExpires
           \/ \E i \in DOMAIN intents : Revisit(i) \/ AgeIntent(i)
    PROVE  PayInv' /\ PaidAgainOnlyIfUnheard'
<1>1. Typed /\ queued' = queued /\ call' = call
  BY DEF IInv, Leave, KeptExpires, Revisit, AgeIntent
<1>2. NoNewPayer
  BY <1>1, NoneJoins
<1>3. CASE Leave \/ \E i \in DOMAIN intents : Revisit(i)
  <2>1. /\ kept' = kept /\ story' = Unheard(tab.awaits)
        /\ tab' = Mounted \/ \E i \in DOMAIN intents : tab' = OnMfaPage(i)
    BY <1>3 DEF Leave, Revisit
  <2>2. \A r : Asked(r)' => Asked(r)
    <3>1. tab'.at = "mfa" \/ tab'.step = "form"
      <4>1. Mounted.step = "form" /\ \A i : OnMfaPage(i).at = "mfa"
        BY DEF OnMfaPage, Mounted
      <4> QED BY <2>1, <4>1
    <3> QED BY <2>1, <3>1 DEF Asked
  <2> QED BY <1>1, <1>2, <2>1, <2>2, TurnsAway, PayKept
<1>4. CASE KeptExpires \/ \E i \in DOMAIN intents : AgeIntent(i)
  <2>1. tab' = tab /\ kept' \in {kept, NoDraft}
    BY <1>4 DEF KeptExpires, AgeIntent
  <2>2. \A r : Asked(r)' => Asked(r)
    BY <2>1 DEF Asked
  <2> QED BY <1>1, <1>2, <2>1, <2>2, WaitsOn, PayKept
<1> QED BY <1>3, <1>4

-----------------------------------------------------------------------------
(* The invariant holds at the start. *)
LEMMA Starts ==
    ASSUME MaxKeys \in Nat, RequestInit
    PROVE  IInv
<1> USE DEF None
<1>1. Len(intents) = 0 /\ Len(queued) = 0 /\ Len(story.reviews) = 0
  BY DEF RequestInit
<1>2. \A c \in Calls : call[c] = Unused
  BY DEF RequestInit
<1>3. Typed
  <2>1. tab \in Tabs
    BY DEF RequestInit, Mounted, Tabs
  <2>2. story \in Stories
    <3>1. <<>> \in Seq(Details)
      BY EmptySeq
    <3> QED BY <3>1 DEF RequestInit, Stories
  <2>3. intents \in Seq(IntentDocs) /\ queued \in Seq(PaidDocs)
    BY EmptySeq DEF RequestInit
  <2>4. /\ kept \in {NoDraft} \cup Drafts
        /\ call \in [Calls -> {Unused} \cup Deliveries] /\ keyDoc \in [KeySet -> Nat]
    BY DEF RequestInit, KeySet
  <2> QED BY <2>1, <2>2, <2>3, <2>4 DEF Typed
<1>4. Refers
  <2>1. CallsRefer
    BY <1>2 DEF CallsRefer
  <2>2. TabRefers /\ KeptRefers /\ TabWaits
    BY DEF RequestInit, Mounted, TabRefers, KeptRefers, TabWaits
  <2>3. Intents = {} /\ Paid = {}
    BY <1>1 DEF Intents, Paid
  <2>4. StoryRefers /\ KeysRefer
    BY <2>3 DEF RequestInit, StoryRefers, KeysRefer, KeySet
  <2> QED BY <2>1, <2>2, <2>4 DEF Refers
<1>5. PayInv
  <2>1. \A c \in Calls : ~Paying(c)
    BY <1>2 DEF Paying
  <2>2. Paid = {}
    BY <1>1 DEF Paid
  <2> QED BY <2>1, <2>2 DEF PayInv, PayingIsAwaited, PaidIsAwaited, OneKeyPays
<1>6. PaidAgainOnlyIfUnheard
  BY DEF RequestInit, PaidAgainOnlyIfUnheard
<1> QED BY <1>3, <1>4, <1>5, <1>6 DEF IInv

(* Every step keeps it. *)
LEMMA Keeps ==
    ASSUME MaxKeys \in Nat, IInv, [RequestNext]_requestVars
    PROVE  IInv'
<1>1. CASE RequestNext
  <2>1. Typed' /\ Grown /\ Refers'
    BY <1>1, RefersKept DEF IInv
  <2>2. PayInv' /\ PaidAgainOnlyIfUnheard'
    <3>1. ASSUME NEW c \in Calls, NEW right \in BOOLEAN, NEW heard \in BOOLEAN,
                 Verify(c, right, heard)
          PROVE  PayInv' /\ PaidAgainOnlyIfUnheard'
      <4>1. /\ tab.at = "mfa" /\ kept' = kept /\ queued' = queued
            /\ \E verified \in BOOLEAN : Return(c, verified)
        BY <3>1 DEF Verify
      <4> QED BY <2>1, <4>1, ReturnPays
    <3>2. ASSUME Cancel PROVE PayInv' /\ PaidAgainOnlyIfUnheard'
      <4>1. /\ tab.at = "mfa" /\ kept' = kept /\ queued' = queued
            /\ \E c \in Calls : Return(c, FALSE)
        BY <3>2 DEF Cancel
      <4> QED BY <2>1, <4>1, ReturnPays
    <3> QED BY <1>1, <2>1, <3>1, <3>2, Kinds, ReviewPays, ConfirmPays, DeliverPays, LosePays,
               ResendPays, HandlingPays, RestPays
  <2> QED BY <2>1, <2>2 DEF IInv
<1>2. CASE UNCHANGED requestVars
  <2>1. UNCHANGED <<tab, kept, call, keyDoc, intents, queued, story>>
    BY <1>2 DEF requestVars
  <2>2. Typed' /\ PaidAgainOnlyIfUnheard'
    BY <2>1 DEF IInv, Typed, PaidAgainOnlyIfUnheard
  <2>3. Refers'
    BY <2>1 DEF IInv, Refers, CallsRefer, Fits, CallRefers, CallStands, CallHolds, TabRefers,
                KeptRefers, TabWaits, StoryRefers, KeysRefer, PaidRefers, Reviews, Intents, Paid,
                Reviewed
  <2>4. PayInv'
    BY <2>1 DEF IInv, PayInv, PayingIsAwaited, PaidIsAwaited, OneKeyPays, Paying, Pays, Heard,
                Asked, Awaited, Told, Paid
  <2> QED BY <2>2, <2>3, <2>4 DEF IInv
<1> QED BY <1>1, <1>2

(* It is what was to be shown. *)
LEMMA Safe ==
    ASSUME MaxKeys \in Nat, IInv
    PROVE  RequestsAreSafe
<1>1. /\ Typed /\ Refers /\ PaidAgainOnlyIfUnheard
      /\ DOMAIN queued = Paid /\ DOMAIN intents = Intents
      /\ \A w \in Paid : PaidRefers(w)
      /\ call \in [Calls -> {Unused} \cup Deliveries]
  BY Reviewing DEF IInv, Typed, Paid, Intents, Refers, KeysRefer
<1>2. RequestTypeOK
  <2>1. tab.at \in {"panel", "mfa"} /\ tab.step \in {"form", "review", "status"}
        /\ tab.awaits \subseteq Calls
    BY <1>1 DEF Typed, Tabs
  <2>2. kept.key \in 0..MaxKeys
    BY <1>1 DEF Typed, NoDraft, Drafts, KeySet, None
  <2>3. \A c \in Calls : call[c].pc \in {"free", "sent", "claiming", "committing",
                                         "restoring", "answered"}
    BY <1>1 DEF Unused, Deliveries, Places
  <2>4. \A k \in DOMAIN keyDoc : keyDoc[k] \in 0..Len(queued)
    BY <1>1, Reviewing DEF Typed, Refers, KeysRefer, Paid, None
  <2>5. \A i \in DOMAIN intents : intents[i].details \in Details
    BY <1>1, Reviewing DEF IntentDocs
  <2> QED BY <2>1, <2>2, <2>3, <2>4, <2>5 DEF RequestTypeOK
<1>3. \A w \in Paid : /\ queued[w].intent \in story.approved
                      /\ queued[w].details = intents[queued[w].intent].details
                      /\ queued[w].details = Reviewed(queued[w].review)
  BY <1>1 DEF PaidRefers
<1>4. \A v, w \in Paid : v # w => /\ queued[v].intent # queued[w].intent
                                 /\ queued[v].key # queued[w].key
  BY <1>1 DEF PaidRefers
<1> QED BY <1>1, <1>2, <1>3, <1>4 DEF RequestsAreSafe, ApprovalsAreHonoured

(* What is queued was approved for its own amount and destination, an approval or a key
   queues one withdrawal, and a review is paid again only if the panel missed an answer,
   whatever is repeated, lost, restored or revisited, for any number of deliveries,
   reviews, keys, intents and losses (requestWithdrawalHandler, WithdrawalIntentService,
   WithdrawPanel). *)
THEOREM RequestsStaySafe ==
    ASSUME MaxKeys \in Nat
    PROVE  RequestSpec => []RequestsAreSafe
<1>1. RequestInit => IInv
  BY Starts
<1>2. IInv /\ [RequestNext]_requestVars => IInv'
  BY Keeps
<1>3. IInv => RequestsAreSafe
  BY Safe
<1> QED BY <1>1, <1>2, <1>3, PTL DEF RequestSpec
=============================================================================
