---------------------------- MODULE AuthSessions ----------------------------
(***************************************************************************)
(* Sessions of one user on several browsers.                               *)
(*                                                                         *)
(* A session holds the hashes of one access and one refresh token, drawn   *)
(* together: a pair.  Access tokens are looked up in Redis and checked     *)
(* against the session in Mongo; a refresh token is exchanged for the next *)
(* pair by a conditional update, and Redis keeps a marker of tokens that   *)
(* were exchanged or revoked.  None of this is in a transaction: each read *)
(* and each write of Mongo is a step, and so is what Redis is told between *)
(* two of them; any step may fail.  A browser keeps one jar of cookies for *)
(* all its tabs; a tab that is refused refreshes and tries once more.      *)
(*                                                                         *)
(* Budget says how often all this may happen.  Definitions no action uses  *)
(* are faulty variants for mutation runs.                                  *)
(***************************************************************************)
EXTENDS Integers, Sequences, FiniteSets

CONSTANTS
    Scenarios,
    Browsers,     \* each is a device
    Tabs,         \* what goes on at once, in whatever browser
    MaxDevices,   \* MAX_TRACKED_DEVICES_PER_USER
    MaxPairs,
    Budget        \* of each scenario: the browsers, what users do, how many
                  \* calls, and how many faults and expiries, and the tabs

ASSUME SessionAssumption ==
    /\ MaxDevices \in Nat \ {0} /\ MaxPairs \in Nat
    /\ \A x \in Scenarios : /\ Budget[x].browsers \subseteq Browsers
                            /\ Budget[x].tabs \subseteq Tabs
                            /\ {Budget[x].calls, Budget[x].faults} \subseteq Nat

VARIABLES
    jar,       \* the pair in the cookies of each browser
    call,      \* what each tab is waiting for
    docs,      \* auth_sessions, in the order they were created
    pairs,     \* of each pair: its session, and the pair it was exchanged for
    access,    \* auth:access:*
    used,      \* auth:refresh:used:*
    password,  \* which one is stored, whether its hash is of an old kind,
               \* and whether a new hash of the first one is being made
    log,       \* history and counters only
    scenario   \* never changes

sessionState == <<jar, call, docs, pairs, access, used, password, log>>
sessionVars  == <<sessionState, scenario>>

NoPair == 0
Idle   == [pc |-> "idle"]

SessionInit ==
    /\ jar = [b \in Browsers |-> NoPair]
    /\ call = [t \in Tabs |-> Idle]
    /\ docs = <<>> /\ pairs = <<>> /\ used = <<>>
    /\ access = {}
    /\ scenario \in Scenarios
    /\ password = [version |-> 1, legacy |-> "login" \in Budget[scenario].kinds,
                   pending |-> FALSE]
    /\ log = [calls |-> 0, faults |-> 0, upset |-> FALSE, blind |-> FALSE,
              exchanged |-> {}, keepers |-> {}, overlaps |-> FALSE,
              reset |-> FALSE, rehashed |-> FALSE]

(* buildActiveSessionQuery *)
Active(s)      == docs[s].revoked = "no" /\ ~docs[s].expired
ActiveSessions == {s \in DOMAIN docs : Active(s)}

(***************************************************************************)
(* What users do.                                                          *)
(***************************************************************************)
Call(kind, b, pc, then, pair) ==
    [kind |-> kind, browser |-> b, pc |-> pc, then |-> then, pair |-> pair,
     session |-> 0, held |-> <<>>, version |-> 0, again |-> FALSE, next |-> NoPair,
     overlap |-> FALSE, target |-> 0]

Begin(t, new) ==
    /\ call[t] = Idle
    /\ log.calls < Budget[scenario].calls
    /\ call' = [call EXCEPT ![t] = new]
    /\ UNCHANGED <<jar, docs, pairs, access, used, password>>

Counted == log' = [log EXCEPT !.calls = @ + 1]

(* An endpoint behind authenticateToken. *)
Ask(t, b, kind) ==
    /\ kind \in Budget[scenario].kinds
    /\ jar[b] # NoPair
    /\ Begin(t, Call(kind, b, "lookup", "none", jar[b]))
    /\ Counted

LogIn(t, b) ==
    /\ "login" \in Budget[scenario].kinds
    /\ Begin(t, Call("login", b, "verify", "replaced", NoPair))
    /\ log' = [log EXCEPT !.calls = @ + 1,
          !.overlaps = @ \/ \E u \in Tabs : call[u] # Idle /\ call[u].kind = "login"]

LogOut(t, b) ==
    /\ "logout" \in Budget[scenario].kinds
    /\ jar[b] # NoPair
    /\ Begin(t, Call("logout", b, "find", "logout", jar[b]))
    /\ Counted

ResetPassword(t, b) ==
    /\ "reset" \in Budget[scenario].kinds
    /\ ~log.reset
    /\ \A u \in Tabs : call[u] # Idle => call[u].kind # "reset"
    /\ Begin(t, Call("reset", b, "snap", "reset", NoPair))
    /\ Counted

(***************************************************************************)
(* validateAccessToken, and what the tab does when it is refused.          *)
(***************************************************************************)
Set(t, c)    == call' = [call EXCEPT ![t] = c]
Go(t, pc)    == call' = [call EXCEPT ![t].pc = pc]
Over(t)      == Set(t, Idle)
Refused(t)   == IF call[t].again THEN Over(t) ELSE Go(t, "refused")

Lookup(t) ==
    /\ call[t].pc = "lookup"
    /\ IF call[t].pair \in access THEN Go(t, "check") ELSE Refused(t)
    /\ UNCHANGED <<jar, docs, pairs, access, used, password, log>>

WhatFollows == [plain |-> "none", me |-> "limit", others |-> "others",
                one |-> "one"]

(* A session to sign out is one of those the user was shown. *)
Check(t) ==
    /\ call[t].pc = "check"
    /\ LET s == pairs[call[t].pair].session
           then == WhatFollows[call[t].kind]
       IN IF ~(Active(s) /\ docs[s].pair = call[t].pair) THEN Refused(t)
          ELSE IF then = "none" THEN Over(t)
          ELSE \E v \in IF then = "one" THEN DOMAIN docs ELSE {s} :
                  Set(t, [call[t] EXCEPT !.pc = "snap", !.then = then,
                                         !.session = s, !.target = v])
    /\ UNCHANGED <<jar, docs, pairs, access, used, password, log>>

Refreshes(u, p) == /\ call[u] # Idle /\ call[u].then = "refresh"
                   /\ call[u].pair = p

(* refreshAuthSession sends the cookie the browser has by then. *)
SendRefresh(t) ==
    /\ call[t].pc = "refused"
    /\ LET p == jar[call[t].browser]
       IN /\ IF p = NoPair THEN Over(t)
             ELSE Set(t, [call[t] EXCEPT !.pc = "marker", !.then = "refresh",
                                         !.pair = p])
          /\ log' = [log EXCEPT !.upset = @ \/ \E u \in Tabs : Refreshes(u, p)]
    /\ UNCHANGED <<jar, docs, pairs, access, used, password>>

(***************************************************************************)
(* refreshSession.                                                         *)
(***************************************************************************)
Alarm(t) ==
    /\ Set(t, [call[t] EXCEPT !.pc = "snap", !.then = "reuse"])
    /\ log' = [log EXCEPT !.blind = @ \/ ~log.upset]

(* Within 30 seconds of an exchange the token is refused and nothing else. *)
ReadMarker(t) ==
    /\ call[t].pc = "marker"
    /\ CASE used[call[t].pair] = "no" -> Go(t, "find") /\ UNCHANGED log
         [] used[call[t].pair] = "recent" -> Over(t) /\ UNCHANGED log
         [] OTHER -> Alarm(t)
    /\ UNCHANGED <<jar, docs, pairs, access, used, password>>

FindByRefresh(t) ==
    /\ call[t].pc = "find" /\ call[t].then = "refresh"
    /\ LET s == pairs[call[t].pair].session
       IN IF Active(s) /\ docs[s].pair = call[t].pair
          THEN Set(t, [call[t] EXCEPT !.pc = "mark", !.session = s])
          ELSE Over(t)
    /\ UNCHANGED <<jar, docs, pairs, access, used, password, log>>

Mark(t) ==
    /\ call[t].pc = "mark"
    /\ used' = [used EXCEPT ![call[t].pair] = "recent"]
    /\ access' = access \ {call[t].pair}
    /\ Go(t, "rotate")
    /\ UNCHANGED <<jar, docs, pairs, password, log>>

(* The conditional update of the session. *)
MayRotateAny(t) == TRUE
MayRotate(t) ==
    Active(call[t].session) /\ docs[call[t].session].pair = call[t].pair

NewPair == Len(pairs) + 1

Rotate(t) ==
    /\ call[t].pc = "rotate" /\ MayRotate(t)
    /\ NewPair \in 1..MaxPairs
    /\ docs' = [docs EXCEPT ![call[t].session].pair = NewPair]
    /\ pairs' = Append(pairs, [session |-> call[t].session, from |-> call[t].pair])
    /\ used' = Append(used, "no")
    /\ Set(t, [call[t] EXCEPT !.pc = "record", !.next = NewPair])
    /\ log' = [log EXCEPT !.exchanged = @ \cup {call[t].pair}]
    /\ UNCHANGED <<jar, access, password>>

LosesRotation(t) ==
    /\ call[t].pc = "rotate" /\ ~MayRotate(t)
    /\ Alarm(t)
    /\ UNCHANGED <<jar, docs, pairs, access, used, password>>

Record(t) ==
    /\ call[t].pc = "record"
    /\ access' = access \cup {call[t].next}
    /\ IF call[t].kind = "login"
       THEN Set(t, [call[t] EXCEPT !.pc = "snap", !.then = "limit"])
       ELSE Go(t, "issued")
    /\ UNCHANGED <<jar, docs, pairs, used, password, log>>

(* The answer sets the cookies, and a tab that was refused asks again. *)
ForgetsCookies(t) == IF call[t].kind = "login" THEN call[t].next
                     ELSE jar[call[t].browser]
KeepsCookies(t)   == call[t].next

Issued(t) ==
    /\ call[t].pc = "issued"
    /\ jar' = [jar EXCEPT ![call[t].browser] = KeepsCookies(t)]
    /\ IF call[t].kind = "login" THEN Over(t)
       ELSE Set(t, [call[t] EXCEPT !.pc = "lookup", !.then = "none", !.again = TRUE,
                                   !.pair = jar'[call[t].browser]])
    /\ UNCHANGED <<docs, pairs, access, used, password, log>>

(***************************************************************************)
(* createSession.                                                          *)
(***************************************************************************)
(* loginPassword checks the password, and has a hash of an old kind replaced in
   the background; isSuspiciousLogin sends a device it does not know away when
   another is signed in. *)
Verify(t) ==
    /\ call[t].pc = "verify"
    /\ password' = [password EXCEPT !.pending = @ \/ password.legacy]
    /\ LET known == \E s \in ActiveSessions : docs[s].device = call[t].browser
       IN \/ /\ known \/ ActiveSessions = {}
             /\ Set(t, [call[t] EXCEPT !.pc = "snap", !.version = password.version,
                   !.overlap = \E u \in Tabs : call[u] # Idle /\ call[u].kind = "reset"])
          \/ ~known /\ ActiveSessions # {} /\ Over(t)
    /\ UNCHANGED <<jar, docs, pairs, access, used, log>>

StoreNewHash ==
    /\ password.pending
    /\ password' = [version |-> 1, legacy |-> FALSE, pending |-> FALSE]
    /\ UNCHANGED <<jar, call, docs, pairs, access, used, log>>

(* A link from a mail, Google, or the second factor: no password is asked. *)
LogInOtherwise(t, b) ==
    /\ "link" \in Budget[scenario].kinds
    /\ Begin(t, [Call("login", b, "snap", "replaced", NoPair) EXCEPT !.version = 2])
    /\ log' = [log EXCEPT !.calls = @ + 1,
          !.overlaps = @ \/ \E u \in Tabs : call[u] # Idle /\ call[u].kind = "login"]

Create(t) ==
    /\ call[t].pc = "create"
    /\ NewPair \in 1..MaxPairs
    /\ docs' = Append(docs, [device |-> call[t].browser, pair |-> NewPair,
                             revoked |-> "no", expired |-> FALSE,
                             version |-> call[t].version,
                             overlap |-> call[t].overlap])
    /\ pairs' = Append(pairs, [session |-> Len(docs'), from |-> NoPair])
    /\ used' = Append(used, "no")
    /\ Set(t, [call[t] EXCEPT !.pc = "record", !.next = NewPair,
                              !.session = Len(docs')])
    /\ UNCHANGED <<jar, access, password, log>>

(***************************************************************************)
(* Revocation: which sessions are read, Redis is told, Mongo is told.      *)
(***************************************************************************)
(* selectExcessTrackedDeviceSessions *)
OffByOne == MaxDevices + 1
Limit    == MaxDevices

(* A session's pair and its lastSeenAt are written together, so the one seen later
   has the later pair. *)
Excess(keep) ==
    LET others == ActiveSessions \ {keep}
        slots  == IF keep \in ActiveSessions THEN Limit - 1 ELSE Limit
    IN {s \in others :
           Cardinality({r \in others : docs[r].pair > docs[s].pair}) >= slots}

Victims(t) ==
    CASE call[t].then \in {"reuse", "reset"} -> ActiveSessions
      [] call[t].then = "one"      -> ActiveSessions \cap {call[t].target}
      [] call[t].then = "others"   -> ActiveSessions \ {call[t].session}
      [] call[t].then = "replaced" -> {s \in ActiveSessions :
                                          docs[s].device = call[t].browser}
      [] call[t].then = "limit"    -> Excess(call[t].session)

(* Where a call goes on that has revoked what it had to. *)
Onward(t, c) ==
    CASE c.then = "reuse"            -> Idle
      [] c.then = "reset"            -> [c EXCEPT !.pc = "set"]
      [] c.then = "replaced"         -> [c EXCEPT !.pc = "create"]
      [] c.then = "logout"           -> [c EXCEPT !.pc = "clear"]
      [] c.then \in {"others", "one"} -> [c EXCEPT !.pc = "snap", !.then = "limit"]
      [] c.then = "limit"            ->
            CASE c.kind = "login" -> [c EXCEPT !.pc = "issued"]
              [] c.kind = "one" /\ c.target = c.session -> [c EXCEPT !.pc = "clear"]
              [] OTHER -> Idle

StartRevoking(t, victims) ==
    Set(t, IF victims = {} THEN Onward(t, call[t])
           ELSE [call[t] EXCEPT !.pc = "strike",
                                !.held = [v \in victims |-> docs[v].pair]])

Snap(t) ==
    /\ call[t].pc = "snap"
    /\ LET c == IF call[t].then = "reset"
                THEN [u \in Tabs |-> IF call[u] # Idle /\ call[u].kind = "login"
                                     THEN [call[u] EXCEPT !.overlap = TRUE]
                                     ELSE call[u]]
                ELSE call
           victims == Victims(t)
       IN call' = [c EXCEPT ![t] =
              IF victims = {} THEN Onward(t, c[t])
              ELSE [c[t] EXCEPT !.pc = "strike",
                                !.held = [v \in victims |-> docs[v].pair]]]
    /\ UNCHANGED <<jar, docs, pairs, access, used, password, log>>

(* logoutFromTokens asks for no active session. *)
FindForLogout(t) ==
    /\ call[t].pc = "find" /\ call[t].then = "logout"
    /\ LET s == pairs[call[t].pair].session
       IN StartRevoking(t, IF docs[s].pair = call[t].pair THEN {s} ELSE {})
    /\ UNCHANGED <<jar, docs, pairs, access, used, password, log>>

(* revokeSessionDocuments notes no time of rotation, revokeSessionDocument does. *)
Strike(t) ==
    /\ call[t].pc = "strike"
    /\ LET held == {call[t].held[v] : v \in DOMAIN call[t].held} \ {NoPair}
       IN /\ access' = access \ held
          /\ used' = [p \in DOMAIN used |->
                 IF p \notin held THEN used[p]
                 ELSE IF call[t].then \in {"logout", "one"} THEN "recent" ELSE "old"]
    /\ Go(t, "save")
    /\ log' = [log EXCEPT !.upset = TRUE]
    /\ UNCHANGED <<jar, docs, pairs, password>>

SavesUnchanged(t, v) == docs[v].pair = call[t].held[v]
Saves(t, v)          == TRUE

Reason(t) == IF call[t].then = "reuse" /\ call[t].pair \notin log.exchanged
             THEN "unfounded" ELSE call[t].then

Save(t) ==
    /\ call[t].pc = "save"
    /\ docs' = [s \in DOMAIN docs |->
           IF s \in DOMAIN call[t].held /\ Saves(t, s)
           THEN [docs[s] EXCEPT !.pair = NoPair, !.revoked = Reason(t)]
           ELSE docs[s]]
    /\ Set(t, Onward(t, call[t]))
    /\ log' = [log EXCEPT
           !.keepers = IF call[t].then = "others" THEN @ \cup {call[t].session}
                       ELSE @]
    /\ UNCHANGED <<jar, pairs, access, used, password>>

SetPassword(t) ==
    /\ call[t].pc = "set"
    /\ password' = [password EXCEPT !.version = 2, !.legacy = FALSE]
    /\ Over(t)
    /\ log' = [log EXCEPT !.reset = TRUE, !.rehashed = password.pending]
    /\ UNCHANGED <<jar, docs, pairs, access, used>>

ClearCookies(t) ==
    /\ call[t].pc = "clear"
    /\ jar' = [jar EXCEPT ![call[t].browser] = NoPair]
    /\ Over(t)
    /\ UNCHANGED <<docs, pairs, access, used, password, log>>

(***************************************************************************)
(* Faults and time.                                                        *)
(***************************************************************************)
(* A call to a store fails, the process dies, or the answer gets lost. *)
Fail(t) ==
    /\ call[t] # Idle
    /\ log.faults < Budget[scenario].faults
    /\ Over(t)
    /\ log' = [log EXCEPT !.faults = @ + 1, !.upset = TRUE]
    /\ UNCHANGED <<jar, docs, pairs, access, used, password>>

AccessExpires(p) ==
    /\ p \in access
    /\ access' = access \ {p}
    /\ UNCHANGED <<jar, call, docs, pairs, used, password, log>>

GraceEnds(p) ==
    /\ used[p] = "recent"
    /\ used' = [used EXCEPT ![p] = "old"]
    /\ UNCHANGED <<jar, call, docs, pairs, access, password, log>>

SessionExpires(s) ==
    /\ Active(s)
    /\ log.faults < Budget[scenario].faults
    /\ docs' = [docs EXCEPT ![s].expired = TRUE]
    /\ log' = [log EXCEPT !.faults = @ + 1, !.upset = TRUE]
    /\ UNCHANGED <<jar, call, pairs, access, used, password>>

SessionStep ==
    \/ \E t \in Budget[scenario].tabs :
          \/ \E b \in Budget[scenario].browsers :
                \/ \E kind \in {"plain", "me", "one", "others"} : Ask(t, b, kind)
                \/ LogIn(t, b) \/ LogInOtherwise(t, b) \/ LogOut(t, b)
                \/ ResetPassword(t, b)
          \/ Lookup(t) \/ Check(t) \/ SendRefresh(t)
          \/ ReadMarker(t) \/ FindByRefresh(t) \/ Mark(t) \/ Rotate(t)
          \/ LosesRotation(t) \/ Record(t) \/ Issued(t)
          \/ Verify(t) \/ Create(t)
          \/ Snap(t) \/ FindForLogout(t) \/ Strike(t) \/ Save(t)
          \/ SetPassword(t) \/ ClearCookies(t) \/ Fail(t)
    \/ \E p \in DOMAIN pairs : AccessExpires(p) \/ GraceEnds(p)
    \/ \E s \in DOMAIN docs : SessionExpires(s)
    \/ StoreNewHash

SessionNext == SessionStep /\ UNCHANGED scenario

SessionSpec == SessionInit /\ [][SessionNext]_sessionVars

(***************************************************************************)
(* Properties.                                                             *)
(***************************************************************************)
(* Every variable has its type. *)
SessionTypeOK ==
    /\ jar \in [Browsers -> 0..MaxPairs]
    /\ Len(used) = Len(pairs) /\ Len(pairs) <= MaxPairs
    /\ \A p \in DOMAIN pairs : /\ pairs[p].session \in DOMAIN docs
                              /\ pairs[p].from \in 0..(p - 1)
                              /\ used[p] \in {"no", "recent", "old"}
    /\ access \subseteq DOMAIN pairs
    /\ password \in [version : 1..2, legacy : BOOLEAN, pending : BOOLEAN]

(* A refresh token is exchanged once, for a pair of its own session; what a
   session holds was not exchanged yet, and one that was revoked holds nothing,
   however refreshes and revocations overlap or fail (refreshSession,
   revokeSessionDocuments). *)
TokensAreSound ==
    /\ SessionTypeOK
    /\ \A p, q \in DOMAIN pairs :
          pairs[p].from # NoPair =>
             /\ pairs[pairs[p].from].session = pairs[p].session
             /\ p # q => pairs[q].from # pairs[p].from
    /\ \A s \in DOMAIN docs :
          /\ docs[s].revoked # "no" => docs[s].pair = NoPair
          /\ docs[s].pair # NoPair =>
                \A p \in DOMAIN pairs : pairs[p].from # docs[s].pair

(* Once a password reset is through, a session from before is over, also one that
   was being refreshed; a login with the old password lives on only if it
   overlapped the reset, and the old password is back only if a hash of it was
   being renewed (resetPassword, loginPassword). *)
ResetsHold ==
    log.reset =>
        /\ password.version = 1 => log.rehashed
        /\ \A s \in ActiveSessions :
              docs[s].version = 1 /\ ~log.rehashed => docs[s].overlap

(* When nothing is under way, a device has one session and a user no more than
   MaxDevices, unless logins overlapped or one was cut short. *)
DevicesAreBounded ==
    (\A t \in Tabs : call[t] = Idle) /\ ~log.overlaps /\ log.faults = 0 =>
        /\ Cardinality(ActiveSessions) <= MaxDevices
        /\ \A r, s \in ActiveSessions : r # s => docs[r].device # docs[s].device

(* Refreshes that do not overlap, whose answers arrive and whose sessions nobody
   ended never look like a reuse, whatever tabs ask meanwhile. *)
AlarmsHaveACause == ~log.blind

(* A user is signed out of no device without a cause, and holds no session too many. *)
SessionsAreKept == AlarmsHaveACause /\ DevicesAreBounded

(* "This will remove access from all devices except this one"
   (security-page-content.ts): the session that signed the others out is not
   signed out because one of them comes back with what it had. *)
KeptSessionsStay ==
    \A s \in log.keepers : docs[s].revoked # "unfounded"
=============================================================================
