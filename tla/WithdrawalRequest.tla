------------------------- MODULE WithdrawalRequest -------------------------
(***************************************************************************)
(* How a withdrawal is asked for, up to the queued document that the       *)
(* withdrawal pipeline works on.  The panel sends what the user reviewed;  *)
(* the server answers with an intent and a challenge; the page of the      *)
(* second factor gets the intent authorized and returns to a panel that    *)
(* has forgotten all but the draft in session storage, which sends the     *)
(* review again with the intent.  One Mongo transaction claims the         *)
(* idempotency key and queues the withdrawal; the intent lives in Redis    *)
(* and is taken out before the transaction ends and put back if it fails.  *)
(*                                                                         *)
(* The balance, the limit and the account's second factor may refuse a     *)
(* call: AbortCall.  Definitions no action uses are faulty variants for    *)
(* mutation runs.                                                          *)
(***************************************************************************)
EXTENDS Integers, Sequences

CONSTANTS
    Details,     \* amounts and destinations a user may review
    MaxReviews, MaxKeys, MaxIntents,
    Calls,       \* deliveries of POST /transactions/withdraw under way
    MaxCalls,
    MaxLosses,   \* deaths, repeated deliveries, answers lost
    MaxEvents    \* calls and losses, and three for each review

VARIABLES
    tab,       \* the browser tab: which page it shows, and the panel's state
    kept,      \* the draft in session storage
    call,      \* what each delivery is doing
    keyDoc,    \* idempotency_keys: the withdrawal and payload of each key
    intents,   \* auth:withdrawal:intent:*, in the order they were created
    queued,    \* the withdrawals queued
    story      \* history and counters only

requestVars == <<tab, kept, call, keyDoc, intents, queued, story>>

None    == 0
NoDraft == [key |-> None]
Unused  == [pc |-> "free"]
Mounted == [at |-> "panel", step |-> "form", review |-> None, content |-> None,
            key |-> None, awaits |-> {}, loading |-> FALSE, intent |-> None]
OnMfaPage(i) == [Mounted EXCEPT !.at = "mfa", !.intent = i]

RequestInit ==
    /\ tab = Mounted
    /\ kept = NoDraft
    /\ call = [c \in Calls |-> Unused]
    /\ keyDoc = [k \in 1..MaxKeys |-> None]
    /\ intents = <<>>
    /\ queued = <<>>
    /\ story = [reviews |-> <<>>, keys |-> 0, calls |-> 0, losses |-> 0,
                shown |-> {}, approved |-> {}, unheard |-> {}]

Reviewed(v) == story.reviews[v]

(* A delivery that carries an approval. *)
Paying(c) == /\ call[c] # Unused /\ call[c].intent # None
             /\ call[c].answer # "verify"

MoreMayHappen == 3 * Len(story.reviews) + story.calls + story.losses < MaxEvents

(***************************************************************************)
(* The panel.                                                              *)
(***************************************************************************)
(* Editing leads back to the form, which is no longer loading. *)
Review(d) ==
    /\ tab.at = "panel" /\ tab.step \in {"form", "review"}
    /\ Len(story.reviews) < MaxReviews /\ MoreMayHappen
    /\ story' = [story EXCEPT !.reviews = Append(@, d)]
    /\ tab' = [tab EXCEPT !.step = "review", !.review = Len(story'.reviews),
                          !.loading = FALSE]
    /\ UNCHANGED <<kept, call, keyDoc, intents, queued>>

NewCall(details, key, intent, review) ==
    [pc |-> "sent", details |-> details, key |-> key, intent |-> intent,
     review |-> review, held |-> FALSE, answer |-> "none"]

(* A call in flight swallows a second confirmation, which has saved its draft. *)
Confirm(c) ==
    /\ tab.at = "panel" /\ tab.step = "review" /\ ~tab.loading
    /\ LET d == Reviewed(tab.review)
           k == IF tab.key # None /\ tab.content = d THEN tab.key
                ELSE story.keys + 1
           sends == tab.awaits = {}
       IN /\ k <= MaxKeys
          /\ kept' = [key |-> k, review |-> tab.review]
          /\ tab' = [tab EXCEPT !.key = k, !.content = d, !.loading = sends,
                                !.awaits = IF sends THEN {c} ELSE @]
          /\ IF sends
             THEN /\ call[c] = Unused /\ story.calls < MaxCalls /\ MoreMayHappen
                  /\ call' = [call EXCEPT ![c] = NewCall(d, k, None, tab.review)]
             ELSE UNCHANGED call
          /\ story' = [story EXCEPT !.keys = IF k > @ THEN k ELSE @,
                                    !.calls = IF sends THEN @ + 1 ELSE @]
    /\ UNCHANGED <<keyDoc, intents, queued>>

(* The history of a tab that shows something else before the answers of some
   deliveries have come, or instead of them. *)
Unheard(S) == [story EXCEPT !.unheard = @ \cup {call[c].review : c \in {e \in S : Paying(e)}}]

Leave ==
    /\ tab # Mounted /\ tab.at = "panel"
    /\ tab' = Mounted
    /\ story' = Unheard(tab.awaits)
    /\ UNCHANGED <<kept, call, keyDoc, intents, queued>>

AfterAcceptedStays(t) == [t EXCEPT !.key = None, !.loading = FALSE,
                                   !.awaits = {}]
AfterAccepted(t)      == [t EXCEPT !.step = "status", !.key = None,
                                   !.loading = FALSE, !.awaits = {}]

(* Nobody heard that the withdrawal was accepted, or the panel was refused while
   another delivery of the same review goes on. *)
Misses(c) ==
    \/ call[c].answer = "error"
    \/ call[c].answer = "accepted" /\ c \notin tab.awaits
    \/ /\ call[c].answer \in {"refused", "conflict"} /\ c \in tab.awaits
       /\ \E o \in Calls \ {c} : Paying(o) /\ call[o].review = call[c].review

(* What the browser does with an answer.  A panel that was left still clears the
   draft, and the redirect to the second factor works anywhere. *)
Deliver(c) ==
    /\ call[c].pc = "answered"
    /\ call' = [call EXCEPT ![c] = Unused]
    /\ LET mine == c \in tab.awaits
           says == call[c].answer
       IN /\ kept' = IF says = "accepted" THEN NoDraft ELSE kept
          /\ tab' = CASE says = "verify" -> OnMfaPage(call[c].intent)
                      [] says # "verify" /\ ~mine -> tab
                      [] mine /\ says = "accepted" -> AfterAccepted(tab)
                      [] OTHER -> [tab EXCEPT !.awaits = {}, !.loading = FALSE,
                                    !.key = IF says = "refused" THEN None ELSE @]
          /\ story' = IF says = "verify"
                      THEN [Unheard(tab.awaits) EXCEPT !.shown = @ \cup {call[c].intent}]
                      ELSE Unheard(IF Misses(c) THEN {c} ELSE {})
    /\ UNCHANGED <<keyDoc, intents, queued>>

(* The call or its answer gets lost, or nobody is left to hear it. *)
Lose(c) ==
    /\ call[c].pc \in {"sent", "answered"}
    /\ story.losses < MaxLosses /\ MoreMayHappen
    /\ call' = [call EXCEPT ![c] = Unused]
    /\ tab' = IF c \in tab.awaits
              THEN [tab EXCEPT !.awaits = {}, !.loading = FALSE] ELSE tab
    /\ story' = [Unheard({c}) EXCEPT !.losses = @ + 1]
    /\ UNCHANGED <<kept, keyDoc, intents, queued>>

(* A client repeats what it has sent. *)
Resend(c, r) ==
    /\ call[c].pc # "free" /\ call[r] = Unused
    /\ story.losses < MaxLosses /\ story.calls < MaxCalls /\ MoreMayHappen
    /\ call' = [call EXCEPT ![r] = NewCall(call[c].details, call[c].key,
                    IF call[c].answer = "verify" THEN None ELSE call[c].intent,
                    call[c].review)]
    /\ story' = [story EXCEPT !.losses = @ + 1, !.calls = @ + 1]
    /\ UNCHANGED <<tab, kept, keyDoc, intents, queued>>

KeptExpires ==
    /\ kept # NoDraft
    /\ kept' = NoDraft
    /\ UNCHANGED <<tab, call, keyDoc, intents, queued, story>>

(***************************************************************************)
(* The page of the second factor, which the history of the tab may show    *)
(* again for an older intent.                                              *)
(***************************************************************************)
Revisit(i) ==
    /\ i \in story.shown
    /\ tab # OnMfaPage(i) /\ intents[i].challenge
    /\ tab' = OnMfaPage(i)
    /\ story' = Unheard(tab.awaits)
    /\ UNCHANGED <<kept, call, keyDoc, intents, queued>>

(* The panel that mounts again offers the draft; a verified one is sent. *)
Return(c, verified) ==
    IF kept = NoDraft THEN tab' = Mounted /\ UNCHANGED call
    ELSE LET back == [Mounted EXCEPT !.step = "review", !.review = kept.review]
         IN IF ~verified THEN tab' = back /\ UNCHANGED call
            ELSE /\ call[c] = Unused /\ story.calls < MaxCalls /\ MoreMayHappen
                 /\ tab' = [back EXCEPT !.awaits = {c}, !.loading = TRUE]
                 /\ call' = [call EXCEPT ![c] = NewCall(Reviewed(kept.review),
                                 kept.key, tab.intent, kept.review)]

(* The challenge is used up before the code is looked at. *)
Verify(c, right, heard) ==
    /\ tab.at = "mfa" /\ intents[tab.intent].challenge
    /\ LET i  == tab.intent
           ok == right /\ intents[i].live
       IN /\ intents' = [intents EXCEPT ![i].challenge = FALSE,
                                        ![i].authorized = @ \/ ok]
          /\ Return(c, ok /\ heard)
          /\ story' = [story EXCEPT
                !.approved = IF ok THEN @ \cup {i} ELSE @,
                !.calls = IF call' # call THEN @ + 1 ELSE @]
    /\ UNCHANGED <<kept, keyDoc, queued>>

Cancel ==
    /\ tab.at = "mfa"
    /\ \E c \in Calls : Return(c, FALSE)
    /\ UNCHANGED <<kept, keyDoc, intents, queued, story>>

(***************************************************************************)
(* The handler.                                                            *)
(***************************************************************************)
CreateIntent(c) ==
    /\ call[c].pc = "sent" /\ call[c].intent = None
    /\ Len(intents) < MaxIntents
    /\ intents' = Append(intents,
           [details |-> call[c].details, key |-> call[c].key, live |-> TRUE,
            authorized |-> FALSE, old |-> FALSE, challenge |-> TRUE])
    /\ call' = [call EXCEPT ![c].pc = "answered", ![c].answer = "verify",
                            ![c].intent = Len(intents')]
    /\ UNCHANGED <<tab, kept, keyDoc, queued, story>>

Begin(c) ==
    /\ call[c].pc = "sent" /\ call[c].intent # None
    /\ call' = [call EXCEPT ![c].pc = "claiming"]
    /\ UNCHANGED <<tab, kept, keyDoc, intents, queued, story>>

SamePayload(c, w) == /\ queued[w].details = call[c].details
                     /\ queued[w].intent = call[c].intent

(* An error ends in the restoring of the intent the call has taken. *)
Ends(c, says) ==
    call' = [call EXCEPT ![c].answer = says,
                ![c].pc = IF call[c].held /\ says # "accepted" THEN "restoring"
                          ELSE "answered"]

ClaimUsed(c) ==
    /\ call[c].pc = "claiming" /\ keyDoc[call[c].key] # None
    /\ Ends(c, IF SamePayload(c, keyDoc[call[c].key]) THEN "accepted"
               ELSE "conflict")
    /\ UNCHANGED <<tab, kept, keyDoc, intents, queued, story>>

(* The script compares and deletes in one step. *)
ConsumableByAnyone(c) ==
    LET i == intents[call[c].intent] IN i.live /\ i.authorized
Consumable(c) ==
    LET i == intents[call[c].intent]
    IN i.live /\ i.authorized /\ i.details = call[c].details /\ i.key = call[c].key

ClaimNew(c) ==
    /\ call[c].pc = "claiming" /\ keyDoc[call[c].key] = None
    /\ IF call[c].held \/ Consumable(c)
       THEN /\ call' = [call EXCEPT ![c].pc = "committing", ![c].held = TRUE]
            /\ intents' = IF call[c].held THEN intents
                          ELSE [intents EXCEPT ![call[c].intent].live = FALSE]
       ELSE Ends(c, "refused") /\ UNCHANGED intents
    /\ UNCHANGED <<tab, kept, keyDoc, queued, story>>

(* Another transaction has claimed the key: the callback runs again and keeps
   the intent it holds. *)
KeyTakenUnseen(c) == FALSE
KeyTaken(c)       == keyDoc[call[c].key] # None

RetryCall(c) ==
    /\ call[c].pc = "committing" /\ KeyTaken(c)
    /\ call' = [call EXCEPT ![c].pc = "claiming"]
    /\ UNCHANGED <<tab, kept, keyDoc, intents, queued, story>>

(* The transaction commits, and the driver may not hear that it has. *)
Queue(c, heard) ==
    /\ call[c].pc = "committing" /\ ~KeyTaken(c)
    /\ queued' = Append(queued, [details |-> call[c].details,
                                       key |-> call[c].key,
                                       intent |-> call[c].intent,
                                       review |-> call[c].review])
    /\ keyDoc' = [keyDoc EXCEPT ![call[c].key] = Len(queued')]
    /\ Ends(c, IF heard THEN "accepted" ELSE "error")
    /\ UNCHANGED <<tab, kept, intents, story>>

AbortCall(c, says) ==
    /\ call[c].pc = "committing" /\ ~KeyTaken(c)
    /\ Ends(c, says)
    /\ UNCHANGED <<tab, kept, keyDoc, intents, queued, story>>

(* Not past the time the intent was created with. *)
Restore(c) ==
    /\ call[c].pc = "restoring"
    /\ intents' = [intents EXCEPT ![call[c].intent].live = @ \/ ~intents[call[c].intent].old]
    /\ call' = [call EXCEPT ![c].pc = "answered"]
    /\ UNCHANGED <<tab, kept, keyDoc, queued, story>>

Die(c) ==
    /\ call[c].pc \in {"claiming", "committing", "restoring"}
    /\ story.losses < MaxLosses /\ MoreMayHappen
    /\ call' = [call EXCEPT ![c].pc = "answered", ![c].answer = "error"]
    /\ story' = [story EXCEPT !.losses = @ + 1]
    /\ UNCHANGED <<tab, kept, keyDoc, intents, queued>>

(* Five minutes: an intent authorized late outlives them. *)
AgeIntent(i) ==
    /\ \/ ~intents[i].old /\ intents' = [intents EXCEPT ![i].old = TRUE]
       \/ /\ intents[i].old /\ intents[i].live
          /\ intents' = [intents EXCEPT ![i].live = FALSE]
    /\ UNCHANGED <<tab, kept, call, keyDoc, queued, story>>

RequestNext ==
    \/ \E d \in Details : Review(d)
    \/ \E c \in Calls :
          \/ Confirm(c) \/ Deliver(c) \/ Lose(c)
          \/ \E r \in Calls : Resend(c, r)
          \/ \E right, heard \in BOOLEAN : Verify(c, right, heard)
          \/ CreateIntent(c) \/ Begin(c) \/ ClaimUsed(c) \/ ClaimNew(c)
          \/ RetryCall(c)
          \/ \E heard \in BOOLEAN : Queue(c, heard)
          \/ \E says \in {"refused", "error"} : AbortCall(c, says)
          \/ Restore(c) \/ Die(c)
    \/ \E i \in DOMAIN intents : Revisit(i) \/ AgeIntent(i)
    \/ Leave \/ KeptExpires \/ Cancel

RequestSpec == RequestInit /\ [][RequestNext]_requestVars

(***************************************************************************)
(* Properties.                                                             *)
(***************************************************************************)
(* Every variable has its type. *)
RequestTypeOK ==
    /\ tab.at \in {"panel", "mfa"} /\ tab.step \in {"form", "review", "status"}
    /\ tab.awaits \subseteq Calls
    /\ kept.key \in 0..MaxKeys
    /\ \A c \in Calls : call[c].pc \in {"free", "sent", "claiming", "committing",
                                        "restoring", "answered"}
    /\ \A k \in DOMAIN keyDoc : keyDoc[k] \in 0..Len(queued)
    /\ \A i \in DOMAIN intents : intents[i].details \in Details

(* Each withdrawal was approved with the second factor, for its own amount and
   destination, and an approval or a key queues one at most, whatever is repeated,
   lost or restored (requestWithdrawalHandler, WithdrawalIntentService). *)
ApprovalsAreHonoured ==
    /\ RequestTypeOK
    /\ \A w \in DOMAIN queued :
          /\ queued[w].intent \in story.approved
          /\ queued[w].details = intents[queued[w].intent].details
          /\ queued[w].details = Reviewed(queued[w].review)
    /\ \A v, w \in DOMAIN queued :
          v # w => /\ queued[v].intent # queued[w].intent
                   /\ queued[v].key # queued[w].key

(* What the user reviewed once is paid twice only if the panel did not hear that it
   was accepted, or was refused beside another delivery that went on: the panel
   that returns from the second factor holds no key, so confirming again draws
   another. *)
PaidAgainOnlyIfUnheard ==
    \A v, w \in DOMAIN queued :
        v # w /\ queued[v].review = queued[w].review
        => queued[v].review \in story.unheard

(* Both: what is paid was asked for, and nothing more of it. *)
RequestsAreSafe == ApprovalsAreHonoured /\ PaidAgainOnlyIfUnheard
=============================================================================
