---------------------------- MODULE SignInFactors ----------------------------
(***************************************************************************)
(* How an account comes into being and what proves that somebody may use   *)
(* it: the account of one e-mail address, links sent to that address, the  *)
(* Google account with the same address, and the second factor with its    *)
(* recovery codes.  Each request reads the user's document before it       *)
(* writes, and nothing holds the document in between.                      *)
(*                                                                         *)
(* Passwords and sessions are in AuthSessions.  Allowed says what the      *)
(* users of each situation do.  Definitions no action uses are faulty      *)
(* variants for mutation runs.                                             *)
(***************************************************************************)
EXTENDS Integers, Sequences

CONSTANTS
    Situations,
    Allowed,     \* of each situation, the requests made in it
    Handlers,    \* requests under way
    MaxLinks, MaxSetups, MaxBatches, MaxRequests

ASSUME FactorAssumption == {MaxLinks, MaxSetups, MaxBatches, MaxRequests} \subseteq Nat

VARIABLES
    account,     \* the document of the user, or NoAccount
    links,       \* one_time_tokens, in the order they were created
    setups,      \* auth:mfa:setup:*, each with a secret of its own: is it there?
    handler,     \* what each request is doing
    facts,       \* history and counters only
    situation    \* never changes

factorState == <<account, links, setups, handler, facts>>
factorVars  == <<factorState, situation>>

NoAccount  == [exists |-> FALSE]
NoFactor   == [on |-> FALSE, secret |-> 0, codes |-> {}]
AtRest     == [pc |-> "rest"]
NewAccount(verified, google) ==
    [exists |-> TRUE, verified |-> verified, google |-> google, mfa |-> NoFactor]

FactorInit ==
    /\ situation \in Situations
    /\ account \in (IF "register" \in Allowed[situation] THEN {NoAccount}
                    ELSE {NewAccount(TRUE, FALSE)})
    /\ links = <<>> /\ setups = <<>>
    /\ handler = [h \in Handlers |-> AtRest]
    /\ facts = [requests |-> 0, batches |-> 0, created |-> 0, proved |-> account.exists,
                spent |-> <<>>, wanted |-> NoFactor.secret, mixed |-> FALSE,
                good |-> {}, crossed |-> FALSE]

Now(h, state) == handler' = [handler EXCEPT ![h] = state]
Step(h, pc)   == handler' = [handler EXCEPT ![h].pc = pc]
Done(h)       == Now(h, AtRest)

Receive(h, kind, state) ==
    /\ kind \in Allowed[situation]
    /\ handler[h] = AtRest
    /\ facts.requests < MaxRequests
    /\ Now(h, state)
    /\ facts' = [facts EXCEPT !.requests = @ + 1]
    /\ UNCHANGED <<account, links, setups>>

(***************************************************************************)
(* Links in mails.                                                         *)
(***************************************************************************)
Mailing(kind) == [pc |-> "supersede", kind |-> kind, link |-> 0]

(* Verification goes to unverified accounts, everything else to verified ones: a
   magic link stands for the approval of a sign-in too. *)
AskForLink(h, kind) ==
    /\ account.exists /\ account.verified = (kind # "verify")
    /\ Receive(h, kind, Mailing(kind))

InTransit(h) == handler[h].pc \in {"issue", "deliver", "rollback"}

(* revokeActiveTokensForUser *)
SupersedesNothing(kind, l) == FALSE
Supersedes(kind, l)        == l.kind = kind

Supersede(h) ==
    /\ handler[h].pc = "supersede"
    /\ links' = [i \in DOMAIN links |->
           IF Supersedes(handler[h].kind, links[i])
           THEN [links[i] EXCEPT !.live = FALSE] ELSE links[i]]
    /\ Step(h, "issue")
    /\ facts' = [facts EXCEPT
           !.good = {l \in @ : links[l].kind # handler[h].kind},
           !.crossed = @ \/ \E g \in Handlers :
               g # h /\ InTransit(g) /\ handler[g].kind = handler[h].kind]
    /\ UNCHANGED <<account, setups>>

Issue(h) ==
    /\ handler[h].pc = "issue" /\ Len(links) < MaxLinks
    /\ links' = Append(links, [kind |-> handler[h].kind, live |-> TRUE,
                               mailed |-> FALSE, works |-> 0])
    /\ Now(h, [handler[h] EXCEPT !.pc = "deliver", !.link = Len(links')])
    /\ UNCHANGED <<account, setups, facts>>

(* A mail that was not accepted may have gone out all the same. *)
DeliverMail(h, out, accepted) ==
    /\ handler[h].pc = "deliver"
    /\ accepted => out
    /\ links' = IF out THEN [links EXCEPT ![handler[h].link].mailed = TRUE] ELSE links
    /\ IF accepted THEN Done(h) ELSE Step(h, "rollback")
    /\ facts' = [facts EXCEPT !.good = IF accepted /\ links[handler[h].link].live
                                       THEN @ \cup {handler[h].link} ELSE @]
    /\ UNCHANGED <<account, setups>>

(* rollbackIssuedToken swallows its own failure. *)
Rollback(h, works) ==
    /\ handler[h].pc = "rollback"
    /\ links' = IF works THEN [links EXCEPT ![handler[h].link].live = FALSE] ELSE links
    /\ facts' = [facts EXCEPT !.crossed = @ \/ ~works]
    /\ Done(h)
    /\ UNCHANGED <<account, setups>>

LinkExpires(l) ==
    /\ links[l].live
    /\ links' = [links EXCEPT ![l].live = FALSE]
    /\ facts' = [facts EXCEPT !.good = @ \ {l}]
    /\ UNCHANGED <<account, setups, handler>>

(* OneTimeTokenService.consume, one conditional update. *)
Follow(h, l) ==
    /\ links[l].mailed /\ handler[h] = AtRest
    /\ IF links[l].live THEN Now(h, [pc |-> "effect", link |-> l])
       ELSE UNCHANGED handler
    /\ links' = [links EXCEPT ![l].live = FALSE,
                              ![l].works = IF links[l].live THEN @ + 1 ELSE @]
    /\ facts' = [facts EXCEPT !.proved = TRUE, !.good = @ \ {l}]
    /\ UNCHANGED <<account, setups>>

Effect(h) ==
    /\ handler[h].pc = "effect"
    /\ account' = IF links[handler[h].link].kind \in {"verify", "reset"}
                  THEN [account EXCEPT !.verified = TRUE] ELSE account
    /\ Done(h)
    /\ UNCHANGED <<links, setups, facts>>

(***************************************************************************)
(* Registration and Google.                                                *)
(***************************************************************************)
Register(h) == Receive(h, "register", [pc |-> "lookUp"])

(* The name may be another's. *)
RegisterLooksUp(h) ==
    /\ handler[h].pc = "lookUp"
    /\ CASE ~account.exists -> Step(h, "create") \/ Done(h)
         [] account.exists /\ ~account.verified -> Now(h, Mailing("verify"))
         [] OTHER -> Done(h)
    /\ UNCHANGED <<account, links, setups, facts>>

(* createUser: the address is unique in the collection. *)
RegisterCreates(h) ==
    /\ handler[h].pc = "create"
    /\ IF account.exists THEN Done(h) /\ UNCHANGED <<account, facts>>
       ELSE /\ account' = NewAccount(FALSE, FALSE)
            /\ facts' = [facts EXCEPT !.created = @ + 1]
            /\ Now(h, Mailing("verify"))
    /\ UNCHANGED <<links, setups>>

(* Google says whose the address is. *)
ReturnFromGoogle(h) == Receive(h, "google", [pc |-> "bySubject"])

FindBySubject(h) ==
    /\ handler[h].pc = "bySubject"
    /\ IF account.exists /\ account.google THEN Done(h) ELSE Step(h, "byEmail")
    /\ UNCHANGED <<account, links, setups, facts>>

FindByEmail(h) ==
    /\ handler[h].pc = "byEmail"
    /\ CASE ~account.exists -> Step(h, "createGoogle")
         [] account.exists /\ account.verified -> Step(h, "link")
         [] OTHER -> Done(h)
    /\ UNCHANGED <<account, links, setups, facts>>

CreateFromGoogle(h) ==
    /\ handler[h].pc = "createGoogle"
    /\ IF account.exists THEN UNCHANGED <<account, facts>>
       ELSE /\ account' = NewAccount(TRUE, TRUE)
            /\ facts' = [facts EXCEPT !.created = @ + 1, !.proved = TRUE]
    /\ Done(h)
    /\ UNCHANGED <<links, setups>>

LinkGoogle(h) ==
    /\ handler[h].pc = "link"
    /\ account' = IF account.verified THEN [account EXCEPT !.google = TRUE] ELSE account
    /\ Done(h)
    /\ UNCHANGED <<links, setups, facts>>

(***************************************************************************)
(* The second factor.                                                      *)
(***************************************************************************)
(* updateMfaState replaces all of it; what another request had read is stale. *)
Overtake(h) == [g \in Handlers |-> IF handler[g].pc = "regenerate"
                                  THEN [handler[g] EXCEPT !.overtaken = TRUE]
                                  ELSE handler[g]]
Replace(h, factor) ==
    /\ account' = [account EXCEPT !.mfa = factor]
    /\ handler' = [Overtake(h) EXCEPT ![h] = AtRest]

NewBatch == facts.batches + 1

CreateSetup(h) ==
    /\ "setup" \in Allowed[situation] /\ account.exists
    /\ Len(setups) < MaxSetups
    /\ setups' = Append(setups, TRUE)
    /\ UNCHANGED <<account, links, handler, facts>>

(* verifySetup reads, deletes and then writes. *)
VerifySetup(h, s) == setups[s] /\ Receive(h, "setup", [pc |-> "forget", setup |-> s])

ForgetSetup(h) ==
    /\ handler[h].pc = "forget"
    /\ setups' = [setups EXCEPT ![handler[h].setup] = FALSE]
    /\ Step(h, "enable")
    /\ UNCHANGED <<account, links, facts>>

Enable(h) ==
    /\ handler[h].pc = "enable" /\ NewBatch <= MaxBatches
    /\ Replace(h, [on |-> TRUE, secret |-> handler[h].setup, codes |-> {NewBatch}])
    /\ facts' = [facts EXCEPT !.batches = @ + 1, !.wanted = handler[h].setup,
                              !.mixed = FALSE, !.spent = Append(@, 0)]
    /\ UNCHANGED <<links, setups>>

Regenerate(h) ==
    /\ account.exists /\ account.mfa.on
    /\ Receive(h, "regenerate", [pc |-> "regenerate", secret |-> account.mfa.secret,
                                 overtaken |-> FALSE])

WriteNewCodes(h) ==
    /\ handler[h].pc = "regenerate" /\ NewBatch <= MaxBatches
    /\ Replace(h, [on |-> TRUE, secret |-> handler[h].secret, codes |-> {NewBatch}])
    /\ facts' = [facts EXCEPT !.batches = @ + 1, !.spent = Append(@, 0),
                              !.mixed = @ \/ handler[h].overtaken]
    /\ UNCHANGED <<links, setups>>

(* A challenge of a sign-in or a withdrawal, or the request to disable it all: the
   document is read, and then the factor is checked. *)
Challenge(h, disable) ==
    /\ account.exists /\ account.mfa.on
    /\ Receive(h, "challenge", [pc |-> "factor", seen |-> account.mfa,
                                disable |-> disable])

Passes(h) == IF handler[h].disable THEN Step(h, "disable") ELSE Done(h)

EnterTotp(h) ==
    /\ handler[h].pc = "factor"
    /\ Passes(h)
    /\ UNCHANGED <<account, links, setups, facts>>

(* consumeMfaRecoveryCode pulls the code if it is still there. *)
HeldWhenRead(h, code) == code \in handler[h].seen.codes
IsHeld(h, code)       == code \in account.mfa.codes

EnterRecoveryCode(h, code) ==
    /\ handler[h].pc = "factor"
    /\ IF IsHeld(h, code)
       THEN /\ account' = [account EXCEPT !.mfa.codes = @ \ {code}]
            /\ facts' = [facts EXCEPT !.spent[code] = @ + 1]
            /\ Passes(h)
       ELSE Done(h) /\ UNCHANGED <<account, facts>>
    /\ UNCHANGED <<links, setups>>

Disable(h) ==
    /\ handler[h].pc = "disable"
    /\ Replace(h, NoFactor)
    /\ facts' = [facts EXCEPT !.wanted = NoFactor.secret, !.mixed = FALSE]
    /\ UNCHANGED <<links, setups>>

SetupExpires(s) ==
    /\ setups[s]
    /\ setups' = [setups EXCEPT ![s] = FALSE]
    /\ UNCHANGED <<account, links, handler, facts>>

(* A store does not answer or the process dies. *)
Breaks(h) ==
    /\ handler[h] # AtRest
    /\ facts.requests < MaxRequests
    /\ facts' = [facts EXCEPT !.requests = @ + 1,
                              !.crossed = @ \/ handler[h].pc \in {"deliver", "rollback"}]
    /\ Done(h)
    /\ UNCHANGED <<account, links, setups>>

FactorStep ==
    \/ \E h \in Handlers :
          \/ \E kind \in {"verify", "reset", "magic"} : AskForLink(h, kind)
          \/ Supersede(h) \/ Issue(h)
          \/ \E out, accepted \in BOOLEAN : DeliverMail(h, out, accepted)
          \/ \E works \in BOOLEAN : Rollback(h, works)
          \/ \E l \in DOMAIN links : Follow(h, l)
          \/ Effect(h)
          \/ Register(h) \/ RegisterLooksUp(h) \/ RegisterCreates(h)
          \/ ReturnFromGoogle(h) \/ FindBySubject(h) \/ FindByEmail(h)
          \/ CreateFromGoogle(h) \/ LinkGoogle(h)
          \/ CreateSetup(h) \/ ForgetSetup(h) \/ Enable(h)
          \/ \E s \in DOMAIN setups : VerifySetup(h, s)
          \/ Regenerate(h) \/ WriteNewCodes(h)
          \/ \E disable \in BOOLEAN : Challenge(h, disable)
          \/ EnterTotp(h)
          \/ \E code \in 1..MaxBatches : EnterRecoveryCode(h, code)
          \/ Disable(h) \/ Breaks(h)
    \/ \E l \in DOMAIN links : LinkExpires(l)
    \/ \E s \in DOMAIN setups : SetupExpires(s)

FactorNext == FactorStep /\ UNCHANGED situation

FactorSpec == FactorInit /\ [][FactorNext]_factorVars

(***************************************************************************)
(* Properties.                                                             *)
(***************************************************************************)
(* Every variable has its type. *)
FactorTypeOK ==
    /\ Len(links) <= MaxLinks /\ Len(setups) <= MaxSetups
    /\ \A l \in DOMAIN links : links[l].kind \in {"verify", "reset", "magic"}
    /\ account.exists => /\ account.mfa.secret \in 0..Len(setups)
                         /\ account.mfa.codes \subseteq 1..MaxBatches
    /\ facts.good \subseteq DOMAIN links

(* Of each kind the link in the last mail works, the ones before it do not, and
   each works once: unless two mails of a kind overlapped, or one whose delivery
   failed could not be taken back (issueTokenAndDeliver, consume). *)
LinksAreLatest ==
    /\ \A l \in DOMAIN links : links[l].works <= 1
    /\ ~facts.crossed =>
          /\ \A l \in facts.good : links[l].live
          /\ \A l, m \in facts.good : links[l].kind = links[m].kind => l = m
          /\ \A l \in DOMAIN links :
                links[l].mailed /\ links[l].live /\ l \notin facts.good =>
                   \E h \in Handlers : handler[h].pc = "rollback" /\ handler[h].link = l

(* However registrations and sign-ins with Google race, an address has one account,
   it counts as verified only after its owner showed up, and only then has it a
   Google account (createUser, linkGoogleAccount). *)
AccountsAreOwned ==
    /\ facts.created <= 1
    /\ account.exists => /\ account.google => account.verified
                         /\ account.verified => facts.proved

(* A recovery code is accepted once.  What was last set up or turned off is what
   counts, unless codes were being regenerated meanwhile: that puts back what it
   had read (verifyUserFactor, updateMfaState). *)
CodesAreSpent ==
    /\ \A code \in DOMAIN facts.spent :
          /\ facts.spent[code] <= 1
          /\ facts.spent[code] = 1 => code \notin account.mfa.codes
    /\ account.exists /\ ~facts.mixed =>
          /\ account.mfa.secret = facts.wanted
          /\ account.mfa.on <=> facts.wanted # NoFactor.secret

(* Links, accounts and factors, as the three above state it of what a mail, a
   registration, a sign-in with Google and the set-up of a factor race for. *)
FactorsHold == FactorTypeOK /\ LinksAreLatest /\ AccountsAreOwned /\ CodesAreSpent
=============================================================================
