--------------------------- MODULE IdentityProofs ---------------------------
(***************************************************************************)
(* Sessions: that a refresh token is exchanged once, that a password reset *)
(* ends what it is to end, and that nobody is signed out without a cause,  *)
(* for any number of browsers, tabs, devices and tokens, in every          *)
(* behaviour of AuthSessions.                                              *)
(*                                                                         *)
(* None of these is inductive.  TokensInv says which step a call may be at *)
(* and what it has in hand there (Ready), and that what a session holds is *)
(* its own (Current).  ResetInv follows the calls that overlap a reset.    *)
(* QuietInv says, of tabs that nobody disturbed, that each token is in one *)
(* pair of hands; DeviceInv and CountInv follow the one sign-in that is    *)
(* under way.                                                              *)
(*                                                                         *)
(* Factors: that links, accounts and second factors are what SignInFactors *)
(* says of them, however requests overlap and break off, for any number of *)
(* requests, links, set-ups and batches of recovery codes.                 *)
(*                                                                         *)
(* None of it is inductive: it needs what each request has in hand         *)
(* (HasInHand), that a link is mailed by one request (MailedByOne) and     *)
(* that none of its kind is good until then (KindInv), and that what a     *)
(* regeneration has read is current unless it was overtaken.               *)
(***************************************************************************)
EXTENDS AuthSessions, SignInFactors, SequenceTheorems, SumTheorems, TLAPS

-----------------------------------------------------------------------------
(* Sessions. *)
Asks    == {"plain", "me", "others", "one"}
Kinds   == Asks \cup {"login", "logout", "reset"}
Roads   == {"none", "refresh", "reuse", "reset", "logout", "replaced", "limit", "others", "one"}
Places  == {"lookup", "check", "refused", "marker", "find", "mark", "rotate", "record",
            "issued", "verify", "create", "snap", "strike", "save", "set", "clear"}
Held    == (UNION {[S -> Nat] : S \in SUBSET Nat}) \cup {<<>>}
Calls   == [kind : Kinds, browser : Browsers, pc : Places, then : Roads, pair : Nat,
            session : Nat, held : Held, version : 0..2, again : BOOLEAN, next : Nat,
            overlap : BOOLEAN, target : Nat]
Docs    == [device : Browsers, pair : Nat, revoked : {"no", "unfounded"} \cup Roads,
            expired : BOOLEAN, version : 0..2, overlap : BOOLEAN]
Pairs   == [session : Nat, from : Nat]
Logs    == [calls : Nat, faults : Nat, upset : BOOLEAN, blind : BOOLEAN,
            exchanged : SUBSET Nat, keepers : SUBSET Nat, overlaps : BOOLEAN,
            reset : BOOLEAN, rehashed : BOOLEAN]

Typed ==
    /\ jar \in [Browsers -> Nat] /\ call \in [Tabs -> Calls \cup {Idle}]
    /\ docs \in Seq(Docs) /\ pairs \in Seq(Pairs)
    /\ used \in Seq({"no", "recent", "old"})
    /\ password \in [version : 1..2, legacy : BOOLEAN, pending : BOOLEAN]
    /\ log \in Logs /\ scenario \in Scenarios

(* The roads of the code, and the steps on each. *)
OnRoad(c) ==
    \/ c.then = "none"     /\ c.kind \in Asks /\ c.pc \in {"lookup", "check", "refused"}
    \/ /\ c.then = "refresh" /\ c.kind \in Asks
       /\ c.pc \in {"marker", "find", "mark", "rotate", "record", "issued"}
    \/ c.then = "reuse"    /\ c.kind \in Asks /\ c.pc \in {"snap", "strike", "save"}
    \/ c.then = "reset"    /\ c.kind = "reset" /\ c.pc \in {"snap", "strike", "save", "set"}
    \/ c.then = "logout"   /\ c.kind = "logout" /\ c.pc \in {"find", "strike", "save", "clear"}
    \/ /\ c.then = "replaced" /\ c.kind = "login"
       /\ c.pc \in {"verify", "snap", "strike", "save", "create", "record"}
    \/ c.then \in {"others", "one"} /\ c.kind = c.then /\ c.pc \in {"snap", "strike", "save"}
    \/ /\ c.then = "limit"
       /\ \/ c.kind \in {"login", "me", "others", "one"} /\ c.pc \in {"snap", "strike", "save"}
          \/ c.kind = "login" /\ c.pc = "issued"
          \/ c.kind = "one" /\ c.pc = "clear"

(* A call has what its step needs, of m pairs and n sessions. *)
Ready(c, m, n) ==
    /\ OnRoad(c)
    /\ c.pair \in 0..m /\ c.next \in 0..m
    /\ c.pc \in {"lookup", "check", "marker", "find", "mark", "rotate"} => c.pair # NoPair
    /\ c.pc \in {"mark", "rotate"} => c.session \in 1..n
    /\ c.pc \in {"record", "issued"} => c.next # NoPair
    /\ c.kind = "login" => (c.next = NoPair <=> c.then = "replaced" /\ c.pc # "record")

Refers ==
    /\ \A t \in Tabs : call[t] # Idle => Ready(call[t], Len(pairs), Len(docs))
    /\ \A b \in Browsers : jar[b] <= Len(pairs)
    /\ Len(used) = Len(pairs) /\ Len(pairs) <= MaxPairs
    /\ \A p \in DOMAIN pairs : pairs[p].session \in DOMAIN docs /\ pairs[p].from < p
    /\ access \subseteq DOMAIN pairs

(* What a session holds is its own, and is not exchanged. *)
Current ==
    /\ \A s \in DOMAIN docs : docs[s].pair # NoPair =>
          /\ docs[s].pair \in DOMAIN pairs /\ pairs[docs[s].pair].session = s
          /\ \A p \in DOMAIN pairs : pairs[p].from # docs[s].pair
    /\ \A s \in DOMAIN docs : docs[s].revoked # "no" => docs[s].pair = NoPair
    /\ \A p \in DOMAIN pairs : pairs[p].from # NoPair =>
          pairs[pairs[p].from].session = pairs[p].session
    /\ \A p, q \in DOMAIN pairs :
          pairs[p].from # NoPair /\ p # q => pairs[q].from # pairs[p].from

(***************************************************************************)
(* Records and sequences.                                                  *)
(***************************************************************************)
(* A document is appended as the last one, and the others stay. *)
LEMMA Appended ==
    ASSUME NEW S, NEW s \in Seq(S), NEW e \in S
    PROVE  /\ Append(s, e) \in Seq(S) /\ Len(Append(s, e)) = Len(s) + 1 /\ Len(s) \in Nat
           /\ DOMAIN s = 1..Len(s) /\ DOMAIN Append(s, e) = 1..Len(s) + 1
           /\ Append(s, e)[Len(s) + 1] = e
           /\ \A i \in 1..Len(s) : Append(s, e)[i] = s[i] /\ s[i] \in S
  BY AppendProperties, LenProperties, ElementOfSeq

(* One document is changed, and the others stay. *)
LEMMA Replaced ==
    ASSUME NEW S, NEW s \in Seq(S), NEW i \in DOMAIN s, NEW e \in S
    PROVE  /\ [s EXCEPT ![i] = e] \in Seq(S) /\ Len([s EXCEPT ![i] = e]) = Len(s)
           /\ DOMAIN [s EXCEPT ![i] = e] = DOMAIN s /\ DOMAIN s = 1..Len(s)
           /\ [s EXCEPT ![i] = e][i] = e
           /\ \A j \in DOMAIN s : (j # i => [s EXCEPT ![i] = e][j] = s[j]) /\ s[j] \in S
  BY ExceptSeq, LenProperties, ElementOfSeq

(* Every document is looked at, and perhaps changed. *)
LEMMA Rewritten ==
    ASSUME NEW S, NEW T, NEW s \in Seq(S), NEW f \in [DOMAIN s -> T]
    PROVE  f \in Seq(T) /\ Len(f) = Len(s) /\ DOMAIN f = DOMAIN s
  <1>1. DOMAIN s = 1..Len(s) /\ Len(s) \in Nat
    BY LenProperties
  <1>2. f \in [1..Len(s) -> T]
    BY <1>1
  <1> QED BY <1>1, <1>2

(* The tokens taken for a revocation. *)
LEMMA Taken ==
    ASSUME NEW S \in SUBSET Nat, NEW f \in [S -> Nat]
    PROVE  f \in Held
  BY DEF Held

(* An idle tab is at no step. *)
LEMMA IdleIsNoCall ==
    ASSUME NEW c \in Calls
    PROVE  c # Idle /\ c.pc # "idle"
  BY DEF Calls, Idle, Places

(* A call that holds nothing yet. *)
LEMMA HeldNothing == <<>> \in Held
  BY DEF Held

(***************************************************************************)
(* How a call goes on.                                                     *)
(***************************************************************************)
(* A tab that is idle, or whose call has what its step needs. *)
Fine(c, m, n) == c = Idle \/ (c \in Calls /\ Ready(c, m, n))

(* What a call needs stays there. *)
LEMMA ReadyStays ==
    ASSUME NEW m \in Nat, NEW n \in Nat, NEW k \in Nat, NEW l \in Nat, m <= k, n <= l,
           NEW c \in Calls, Ready(c, m, n)
    PROVE  Ready(c, k, l)
  BY DEF Ready, Calls

(* A note that a reset overlaps changes nothing else. *)
LEMMA NotedIsReady ==
    ASSUME NEW m \in Nat, NEW n \in Nat, NEW c \in Calls, Ready(c, m, n)
    PROVE  LET d == [c EXCEPT !.overlap = TRUE]
           IN  /\ d \in Calls /\ Ready(d, m, n)
               /\ \A f \in DOMAIN c : f # "overlap" => d[f] = c[f]
               /\ DOMAIN d = DOMAIN c
  BY DEF Ready, Calls, OnRoad

(* A call that has revoked what it had to goes on or is over. *)
LEMMA GoesOnward ==
    ASSUME NEW m \in Nat, NEW n \in Nat, NEW c \in Calls, Ready(c, m, n), NEW t,
           c.pc \in {"snap", "strike", "save"} \/ c.then = "logout"
    PROVE  /\ Fine(Onward(t, c), m, n)
           /\ \/ Onward(t, c) = Idle
              \/ Onward(t, c) = [c EXCEPT !.pc = "set"] /\ c.then = "reset"
              \/ Onward(t, c) = [c EXCEPT !.pc = "create"] /\ c.then = "replaced"
              \/ Onward(t, c) = [c EXCEPT !.pc = "clear"] /\ c.kind # "login"
              \/ /\ Onward(t, c) = [c EXCEPT !.pc = "issued"]
                 /\ c.then = "limit" /\ c.kind = "login"
              \/ Onward(t, c) = [c EXCEPT !.pc = "snap", !.then = "limit"] /\ c.kind # "login"
  <1>1. CASE c.then = "reuse"
    <2>1. Onward(t, c) = Idle
      BY <1>1 DEF Onward
    <2> QED BY <2>1 DEF Fine
  <1>2. CASE c.then = "reset"
    <2>1. Onward(t, c) = [c EXCEPT !.pc = "set"]
      BY <1>2 DEF Onward
    <2>2. [c EXCEPT !.pc = "set"] \in Calls /\ Ready([c EXCEPT !.pc = "set"], m, n)
      BY <1>2 DEF Calls, Places, Ready, OnRoad, Asks
    <2> QED BY <1>2, <2>1, <2>2 DEF Fine
  <1>3. CASE c.then = "replaced"
    <2>1. Onward(t, c) = [c EXCEPT !.pc = "create"]
      BY <1>3 DEF Onward
    <2>2. [c EXCEPT !.pc = "create"] \in Calls /\ Ready([c EXCEPT !.pc = "create"], m, n)
      BY <1>3 DEF Calls, Places, Ready, OnRoad, Asks
    <2> QED BY <1>3, <2>1, <2>2 DEF Fine
  <1>4. CASE c.then = "logout"
    <2>1. Onward(t, c) = [c EXCEPT !.pc = "clear"]
      BY <1>4 DEF Onward
    <2>2. [c EXCEPT !.pc = "clear"] \in Calls /\ Ready([c EXCEPT !.pc = "clear"], m, n)
      BY <1>4 DEF Calls, Places, Ready, OnRoad, Asks
    <2>3. c.kind # "login"
      BY <1>4 DEF Ready, OnRoad
    <2> QED BY <1>4, <2>1, <2>2, <2>3 DEF Fine
  <1>5. CASE c.then \in {"others", "one"}
    <2>1. Onward(t, c) = [c EXCEPT !.pc = "snap", !.then = "limit"]
      BY <1>5 DEF Onward
    <2>2. /\ [c EXCEPT !.pc = "snap", !.then = "limit"] \in Calls
          /\ Ready([c EXCEPT !.pc = "snap", !.then = "limit"], m, n)
      BY <1>5 DEF Calls, Places, Ready, OnRoad, Asks, Roads
    <2>3. c.kind # "login"
      BY <1>5 DEF Ready, OnRoad
    <2> QED BY <2>1, <2>2, <2>3 DEF Fine
  <1>6. CASE c.then = "limit"
    <2>1. CASE c.kind = "login"
      <3>1. Onward(t, c) = [c EXCEPT !.pc = "issued"]
        BY <1>6, <2>1 DEF Onward
      <3>2. [c EXCEPT !.pc = "issued"] \in Calls /\ Ready([c EXCEPT !.pc = "issued"], m, n)
        BY <1>6, <2>1 DEF Calls, Places, Ready, OnRoad, Asks
      <3> QED BY <1>6, <2>1, <3>1, <3>2 DEF Fine
    <2>2. CASE c.kind = "one" /\ c.target = c.session
      <3>1. Onward(t, c) = [c EXCEPT !.pc = "clear"]
        BY <1>6, <2>2 DEF Onward
      <3>2. [c EXCEPT !.pc = "clear"] \in Calls /\ Ready([c EXCEPT !.pc = "clear"], m, n)
        BY <1>6, <2>2 DEF Calls, Places, Ready, OnRoad, Asks
      <3> QED BY <2>2, <3>1, <3>2 DEF Fine
    <2>3. CASE c.kind # "login" /\ ~(c.kind = "one" /\ c.target = c.session)
      <3>1. Onward(t, c) = Idle
        BY <1>6, <2>3 DEF Onward
      <3> QED BY <3>1 DEF Fine
    <2> QED BY <2>1, <2>2, <2>3
  <1>7. c.then \in {"reuse", "reset", "replaced", "logout", "others", "one", "limit"}
    BY DEF Ready, OnRoad
  <1> QED BY <1>1, <1>2, <1>3, <1>4, <1>5, <1>6, <1>7

(***************************************************************************)
(* The kinds of steps.                                                     *)
(***************************************************************************)
Begins(t) == \E b \in Browsers :
    \/ \E kind \in Asks : Ask(t, b, kind)
    \/ LogIn(t, b) \/ LogInOtherwise(t, b) \/ LogOut(t, b) \/ ResetPassword(t, b)

TabStep(t) ==
    \/ Begins(t)
    \/ Lookup(t) \/ Check(t) \/ SendRefresh(t)
    \/ ReadMarker(t) \/ FindByRefresh(t) \/ Mark(t) \/ Rotate(t)
    \/ LosesRotation(t) \/ Record(t) \/ Issued(t)
    \/ Verify(t) \/ Create(t)
    \/ Snap(t) \/ FindForLogout(t) \/ Strike(t) \/ Save(t)
    \/ SetPassword(t) \/ ClearCookies(t) \/ Fail(t)

TimeStep ==
    \/ \E p \in DOMAIN pairs : AccessExpires(p) \/ GraceEnds(p)
    \/ \E s \in DOMAIN docs : SessionExpires(s)
    \/ StoreNewHash

(* Every step is one of a tab, or of nobody. *)
LEMMA Steps ==
    ASSUME SessionAssumption, Typed, [SessionNext]_sessionVars
    PROVE  \/ UNCHANGED <<jar, call, docs, pairs, access, used, password, log, scenario>>
           \/ UNCHANGED scenario /\ \E t \in Tabs : TabStep(t)
           \/ UNCHANGED scenario /\ TimeStep
  <1>1. CASE UNCHANGED sessionVars
    BY <1>1 DEF sessionVars, sessionState
  <1>2. CASE SessionNext
    <2>1. UNCHANGED scenario /\ SessionStep
      BY <1>2 DEF SessionNext
    <2>2. Budget[scenario].browsers \subseteq Browsers /\ Budget[scenario].tabs \subseteq Tabs
      BY DEF SessionAssumption, Typed
    <2>3. ASSUME NEW t \in Budget[scenario].tabs, NEW b \in Budget[scenario].browsers,
                 \/ \E kind \in {"plain", "me", "one", "others"} : Ask(t, b, kind)
                 \/ LogIn(t, b) \/ LogInOtherwise(t, b) \/ LogOut(t, b) \/ ResetPassword(t, b)
          PROVE  t \in Tabs /\ TabStep(t)
      BY <2>2, <2>3 DEF TabStep, Begins, Asks
    <2>4. ASSUME NEW t \in Budget[scenario].tabs,
                 \/ Lookup(t) \/ Check(t) \/ SendRefresh(t)
                 \/ ReadMarker(t) \/ FindByRefresh(t) \/ Mark(t) \/ Rotate(t)
                 \/ LosesRotation(t) \/ Record(t) \/ Issued(t)
                 \/ Verify(t) \/ Create(t)
                 \/ Snap(t) \/ FindForLogout(t) \/ Strike(t) \/ Save(t)
                 \/ SetPassword(t) \/ ClearCookies(t) \/ Fail(t)
          PROVE  t \in Tabs /\ TabStep(t)
      BY <2>2, <2>4 DEF TabStep
    <2> QED BY <2>1, <2>3, <2>4 DEF SessionStep, TimeStep
  <1> QED BY <1>1, <1>2

(* A call that is told that a reset overlaps it. *)
Noted(c, d) == c \in Calls /\ d = [c EXCEPT !.overlap = TRUE]

(* A tab's step leaves the tab idle or with what its next step needs, and others'
   calls as they were. *)
LEMMA CallsStep ==
    ASSUME SessionAssumption, Typed, Refers, NEW t \in Tabs, TabStep(t)
    PROVE  /\ call' \in [Tabs -> Calls \cup {Idle}]
           /\ Fine(call'[t], Len(pairs'), Len(docs'))
           /\ \A u \in Tabs \ {t} : call'[u] = call[u] \/ Noted(call[u], call'[u])
  <1> DEFINE m == Len(pairs)
             n == Len(docs)
             c == call[t]
             To(d) == call' = [call EXCEPT ![t] = d] /\ Fine(d, Len(pairs'), Len(docs'))
             Goal == /\ call' \in [Tabs -> Calls \cup {Idle}]
                     /\ Fine(call'[t], Len(pairs'), Len(docs'))
                     /\ \A u \in Tabs \ {t} : call'[u] = call[u] \/ Noted(call[u], call'[u])
  <1>0. /\ call \in [Tabs -> Calls \cup {Idle}] /\ m \in Nat /\ n \in Nat
        /\ DOMAIN pairs = 1..m /\ DOMAIN docs = 1..n
        /\ jar \in [Browsers -> Nat] /\ \A b \in Browsers : jar[b] <= m
        /\ \A p \in 1..m : pairs[p].session \in 1..n
    BY LenProperties DEF Typed, Refers
  <1>a. \A s \in 1..n : docs[s] \in Docs
    BY <1>0, ElementOfSeq DEF Typed
  <1>b. \A s \in 1..n : docs[s].pair \in Nat
    BY <1>a DEF Docs
  <1>1. ASSUME NEW d, To(d)
        PROVE  Goal
    BY <1>0, <1>1 DEF Fine
  <1>2. c # Idle => c \in Calls /\ Ready(c, m, n)
    BY <1>0 DEF Refers
  <1>3. Fine(Idle, Len(pairs'), Len(docs'))
    BY DEF Fine
  <1>4. ASSUME c.pc # "idle"
        PROVE  c \in Calls /\ Ready(c, m, n)
    BY <1>2, <1>4 DEF Idle
  <1> HIDE DEF m, n
  <1>5. CASE Begins(t)
    <2>1. ASSUME NEW b \in Browsers, NEW kind \in Asks, Ask(t, b, kind)
          PROVE  To(Call(kind, b, "lookup", "none", jar[b]))
      <3>1. jar[b] \in 1..m
        BY <1>0, <2>1 DEF Ask, NoPair
      <3>2. Call(kind, b, "lookup", "none", jar[b]) \in Calls
        BY <1>0, <3>1, HeldNothing DEF Call, Calls, Kinds, Roads, Places, NoPair
      <3>3. Ready(Call(kind, b, "lookup", "none", jar[b]), m, n)
        BY <1>0, <3>1 DEF Call, Ready, OnRoad, NoPair, Asks
      <3> QED BY <2>1, <3>2, <3>3 DEF Ask, Begin, Fine, m, n
    <2>2. ASSUME NEW b \in Browsers, LogIn(t, b)
          PROVE  To(Call("login", b, "verify", "replaced", NoPair))
      <3>1. Call("login", b, "verify", "replaced", NoPair) \in Calls
        BY HeldNothing DEF Call, Calls, Kinds, Roads, Places, NoPair
      <3>2. Ready(Call("login", b, "verify", "replaced", NoPair), m, n)
        BY <1>0 DEF Call, Ready, OnRoad, NoPair, Asks
      <3> QED BY <2>2, <3>1, <3>2 DEF LogIn, Begin, Fine, m, n
    <2>3. ASSUME NEW b \in Browsers, LogInOtherwise(t, b)
          PROVE  To([Call("login", b, "snap", "replaced", NoPair) EXCEPT !.version = 2])
      <3>0. Call("login", b, "snap", "replaced", NoPair) \in Calls
        BY HeldNothing DEF Call, Calls, Kinds, Roads, Places, NoPair
      <3>1. [Call("login", b, "snap", "replaced", NoPair) EXCEPT !.version = 2] \in Calls
        BY <3>0 DEF Calls
      <3>2. Ready([Call("login", b, "snap", "replaced", NoPair) EXCEPT !.version = 2], m, n)
        BY <1>0 DEF Call, Ready, OnRoad, NoPair, Asks
      <3> QED BY <2>3, <3>1, <3>2 DEF LogInOtherwise, Begin, Fine, m, n
    <2>4. ASSUME NEW b \in Browsers, LogOut(t, b)
          PROVE  To(Call("logout", b, "find", "logout", jar[b]))
      <3>1. jar[b] \in 1..m
        BY <1>0, <2>4 DEF LogOut, NoPair
      <3>2. Call("logout", b, "find", "logout", jar[b]) \in Calls
        BY <1>0, <3>1, HeldNothing DEF Call, Calls, Kinds, Roads, Places, NoPair
      <3>3. Ready(Call("logout", b, "find", "logout", jar[b]), m, n)
        BY <1>0, <3>1 DEF Call, Ready, OnRoad, NoPair, Asks
      <3> QED BY <2>4, <3>2, <3>3 DEF LogOut, Begin, Fine, m, n
    <2>5. ASSUME NEW b \in Browsers, ResetPassword(t, b)
          PROVE  To(Call("reset", b, "snap", "reset", NoPair))
      <3>1. Call("reset", b, "snap", "reset", NoPair) \in Calls
        BY HeldNothing DEF Call, Calls, Kinds, Roads, Places, NoPair
      <3>2. Ready(Call("reset", b, "snap", "reset", NoPair), m, n)
        BY <1>0 DEF Call, Ready, OnRoad, NoPair, Asks
      <3> QED BY <2>5, <3>1, <3>2 DEF ResetPassword, Begin, Fine, m, n
    <2> HIDE DEF To
    <2> QED BY <1>1, <1>5, <2>1, <2>2, <2>3, <2>4, <2>5 DEF Begins
  <1>6. CASE Lookup(t)
    <2>1. c.pc = "lookup" /\ c \in Calls /\ Ready(c, m, n)
      BY <1>4, <1>6 DEF Lookup
    <2>2. UNCHANGED <<pairs, docs>> /\ (\/ call' = [call EXCEPT ![t] = [c EXCEPT !.pc = "check"]]
                                       \/ call' = [call EXCEPT ![t] = [c EXCEPT !.pc = "refused"]]
                                       \/ call' = [call EXCEPT ![t] = Idle])
      BY <1>0, <1>6 DEF Lookup, Go, Refused, Over, Set
    <2>3. /\ Fine([c EXCEPT !.pc = "check"], m, n) /\ Fine([c EXCEPT !.pc = "refused"], m, n)
      BY <2>1 DEF Fine, Calls, Places, Ready, OnRoad, Asks
    <2> QED BY <1>1, <1>3, <2>2, <2>3 DEF m, n
  <1>7. CASE Check(t)
    <2>1. c.pc = "check" /\ c \in Calls /\ Ready(c, m, n)
      BY <1>4, <1>7 DEF Check
    <2> DEFINE o == pairs[c.pair].session
               Snaps(k, v) == [c EXCEPT !.pc = "snap", !.then = k, !.session = o, !.target = v]
    <2>2. o \in 1..n
      BY <1>0, <2>1 DEF Ready, NoPair
    <2>3. c.kind \in Asks /\ c.then = "none"
      BY <2>1 DEF Ready, OnRoad
    <2>4. UNCHANGED <<pairs, docs>>
      BY <1>7 DEF Check
    <2>5. \/ call' = [call EXCEPT ![t] = [c EXCEPT !.pc = "refused"]]
          \/ call' = [call EXCEPT ![t] = Idle]
          \/ \E v \in 1..n :
                \/ c.kind = "me" /\ call' = [call EXCEPT ![t] = Snaps("limit", v)]
                \/ c.kind = "others" /\ call' = [call EXCEPT ![t] = Snaps("others", v)]
                \/ c.kind = "one" /\ call' = [call EXCEPT ![t] = Snaps("one", v)]
      <3> DEFINE k == WhatFollows[c.kind]
      <3>1. \/ call' = [call EXCEPT ![t] = [c EXCEPT !.pc = "refused"]]
            \/ call' = [call EXCEPT ![t] = Idle]
            \/ /\ k # "none"
               /\ \E v \in IF k = "one" THEN DOMAIN docs ELSE {o} :
                     call' = [call EXCEPT ![t] = Snaps(k, v)]
        BY <1>7 DEF Check, Refused, Over, Set, Go
      <3>2. \/ c.kind = "plain" /\ k = "none"
            \/ c.kind = "me" /\ k = "limit"
            \/ c.kind = "others" /\ k = "others"
            \/ c.kind = "one" /\ k = "one"
        BY <2>3 DEF Asks, WhatFollows
      <3> HIDE DEF k, o
      <3> QED BY <1>0, <2>2, <3>1, <3>2
    <2>6. ASSUME NEW v \in 1..n
          PROVE  /\ c.kind = "me" => Fine(Snaps("limit", v), m, n)
                 /\ c.kind = "others" => Fine(Snaps("others", v), m, n)
                 /\ c.kind = "one" => Fine(Snaps("one", v), m, n)
      <3>1. o \in Nat /\ v \in Nat
        BY <1>0, <2>2
      <3> HIDE DEF o
      <3>2. /\ Snaps("limit", v) \in Calls /\ Snaps("others", v) \in Calls
            /\ Snaps("one", v) \in Calls
        BY <2>1, <3>1 DEF Calls, Places, Roads
      <3>3. /\ c.kind = "me" => Ready(Snaps("limit", v), m, n)
            /\ c.kind = "others" => Ready(Snaps("others", v), m, n)
            /\ c.kind = "one" => Ready(Snaps("one", v), m, n)
        BY <2>1 DEF Calls, Ready, OnRoad, Asks
      <3> QED BY <3>2, <3>3 DEF Fine
    <2>7. Fine([c EXCEPT !.pc = "refused"], m, n)
      BY <2>1 DEF Fine, Calls, Places, Ready, OnRoad, Asks
    <2> HIDE DEF Snaps
    <2> QED BY <1>1, <1>3, <2>4, <2>5, <2>6, <2>7 DEF m, n
  <1>8. CASE SendRefresh(t)
    <2>1. c.pc = "refused" /\ c \in Calls /\ Ready(c, m, n)
      BY <1>4, <1>8 DEF SendRefresh
    <2> DEFINE p == jar[c.browser]
               d == [c EXCEPT !.pc = "marker", !.then = "refresh", !.pair = p]
    <2>2. p \in 0..m
      BY <1>0, <2>1 DEF Calls
    <2>3. UNCHANGED <<pairs, docs>> /\ \/ call' = [call EXCEPT ![t] = Idle]
                                       \/ p # NoPair /\ call' = [call EXCEPT ![t] = d]
      BY <1>8 DEF SendRefresh, Over, Set
    <2>4. p # NoPair => Fine(d, m, n)
      <3> HIDE DEF p
      <3>0. p \in Nat
        BY <1>0, <2>2
      <3>1. d \in Calls
        BY <2>1, <3>0 DEF Calls, Places, Roads
      <3>2. p # NoPair => Ready(d, m, n)
        BY <2>1, <2>2 DEF Calls, Ready, OnRoad
      <3> QED BY <3>1, <3>2 DEF Fine
    <2> HIDE DEF d
    <2> QED BY <1>1, <1>3, <2>3, <2>4 DEF m, n
  <1>b1. ASSUME c.pc \in {"marker", "rotate"}
         PROVE  Fine([c EXCEPT !.pc = "snap", !.then = "reuse"], m, n)
    BY <1>4, <1>b1 DEF Fine, Calls, Places, Roads, Ready, OnRoad, Asks, NoPair
  <1>9. CASE ReadMarker(t)
    <2>1. c.pc = "marker" /\ c \in Calls /\ Ready(c, m, n)
      BY <1>4, <1>9 DEF ReadMarker
    <2>2. UNCHANGED <<pairs, docs>>
          /\ \/ call' = [call EXCEPT ![t] = Idle]
             \/ call' = [call EXCEPT ![t] = [c EXCEPT !.pc = "find"]]
             \/ call' = [call EXCEPT ![t] = [c EXCEPT !.pc = "snap", !.then = "reuse"]]
      BY <1>9 DEF ReadMarker, Go, Over, Alarm, Set
    <2>3. Fine([c EXCEPT !.pc = "find"], m, n)
      BY <2>1 DEF Fine, Calls, Places, Ready, OnRoad, Asks
    <2> QED BY <1>1, <1>3, <1>b1, <2>1, <2>2, <2>3 DEF m, n
  <1>10. CASE FindByRefresh(t)
    <2>1. c.pc = "find" /\ c \in Calls /\ Ready(c, m, n)
      BY <1>4, <1>10 DEF FindByRefresh
    <2> DEFINE o == pairs[c.pair].session
               d == [c EXCEPT !.pc = "mark", !.session = o]
    <2>2. o \in 1..n
      BY <1>0, <2>1 DEF Ready, NoPair
    <2>3. UNCHANGED <<pairs, docs>> /\ \/ call' = [call EXCEPT ![t] = Idle]
                                       \/ call' = [call EXCEPT ![t] = d]
      BY <1>10 DEF FindByRefresh, Over, Set
    <2>4. Fine(d, m, n)
      <3>1. c.then = "refresh"
        BY <1>10 DEF FindByRefresh
      <3> HIDE DEF o
      <3>0. o \in Nat
        BY <1>0, <2>2
      <3>2. d \in Calls
        BY <2>1, <3>0 DEF Calls, Places
      <3>3. Ready(d, m, n)
        BY <2>1, <2>2, <3>1 DEF Calls, Ready, OnRoad
      <3> QED BY <3>2, <3>3 DEF Fine
    <2> HIDE DEF d
    <2> QED BY <1>1, <1>3, <2>3, <2>4 DEF m, n
  <1>11. CASE Mark(t)
    <2>1. c.pc = "mark" /\ c \in Calls /\ Ready(c, m, n)
      BY <1>4, <1>11 DEF Mark
    <2>2. UNCHANGED <<pairs, docs>> /\ call' = [call EXCEPT ![t] = [c EXCEPT !.pc = "rotate"]]
      BY <1>11 DEF Mark, Go
    <2>3. Fine([c EXCEPT !.pc = "rotate"], m, n)
      BY <2>1 DEF Fine, Calls, Places, Ready, OnRoad, Asks
    <2> QED BY <1>1, <2>2, <2>3 DEF m, n
  <1>12. CASE Rotate(t)
    <2>1. c.pc = "rotate" /\ c \in Calls /\ Ready(c, m, n)
      BY <1>4, <1>12 DEF Rotate
    <2> DEFINE e == [session |-> c.session, from |-> c.pair]
               d == [c EXCEPT !.pc = "record", !.next = m + 1]
    <2>2. call' = [call EXCEPT ![t] = d] /\ pairs' = Append(pairs, e)
      BY <1>12 DEF Rotate, Set, NewPair, m
    <2>3. e \in Pairs
      BY <2>1 DEF Calls, Pairs
    <2>4. Len(pairs') = m + 1
      <3> HIDE DEF e
      <3> QED BY <2>2, <2>3, Appended DEF Typed, m
    <2>5. Len(docs') = n
      <3>1. docs' = [docs EXCEPT ![c.session].pair = NewPair]
        BY <1>12 DEF Rotate
      <3>2. c.session \in DOMAIN docs
        BY <1>0, <2>1 DEF Ready
      <3> DEFINE f == [docs[c.session] EXCEPT !.pair = NewPair]
      <3>3. f \in Docs /\ docs' = [docs EXCEPT ![c.session] = f]
        <4>1. NewPair \in Nat
          BY <1>0 DEF NewPair, m
        <4> QED BY <1>0, <1>a, <3>1, <3>2, <4>1 DEF Docs
      <3> HIDE DEF f
      <3> QED BY <3>2, <3>3, Replaced DEF Typed, n
    <2>6. Fine(d, m + 1, n)
      <3>0. m + 1 \in Nat
        BY <1>0
      <3>1. d \in Calls
        BY <2>1, <3>0 DEF Calls, Places
      <3>2. Ready(d, m + 1, n)
        BY <1>0, <2>1 DEF Calls, Ready, OnRoad, NoPair
      <3> QED BY <3>1, <3>2 DEF Fine
    <2> HIDE DEF d
    <2> QED BY <1>1, <2>2, <2>4, <2>5, <2>6
  <1>13. CASE LosesRotation(t)
    <2>1. c.pc = "rotate" /\ c \in Calls /\ Ready(c, m, n)
      BY <1>4, <1>13 DEF LosesRotation
    <2>2. UNCHANGED <<pairs, docs>>
          /\ call' = [call EXCEPT ![t] = [c EXCEPT !.pc = "snap", !.then = "reuse"]]
      BY <1>13 DEF LosesRotation, Alarm, Set
    <2> QED BY <1>1, <1>b1, <2>1, <2>2 DEF m, n
  <1>14. CASE Record(t)
    <2>1. c.pc = "record" /\ c \in Calls /\ Ready(c, m, n)
      BY <1>4, <1>14 DEF Record
    <2>2. UNCHANGED <<pairs, docs>>
          /\ \/ /\ c.kind = "login"
                /\ call' = [call EXCEPT ![t] = [c EXCEPT !.pc = "snap", !.then = "limit"]]
             \/ /\ c.kind # "login"
                /\ call' = [call EXCEPT ![t] = [c EXCEPT !.pc = "issued"]]
      BY <1>14 DEF Record, Set, Go
    <2>3. /\ c.kind = "login" => Fine([c EXCEPT !.pc = "snap", !.then = "limit"], m, n)
          /\ c.kind # "login" => Fine([c EXCEPT !.pc = "issued"], m, n)
      BY <2>1 DEF Fine, Calls, Places, Roads, Ready, OnRoad, Asks
    <2> QED BY <1>1, <2>2, <2>3 DEF m, n
  <1>15. CASE Issued(t)
    <2>1. c.pc = "issued" /\ c \in Calls /\ Ready(c, m, n)
      BY <1>4, <1>15 DEF Issued
    <2> DEFINE d == [c EXCEPT !.pc = "lookup", !.then = "none", !.again = TRUE, !.pair = c.next]
    <2>2. UNCHANGED <<pairs, docs>>
          /\ \/ call' = [call EXCEPT ![t] = Idle]
             \/ c.kind # "login" /\ call' = [call EXCEPT ![t] = d]
      <3>1. jar'[c.browser] = c.next
        BY <1>0, <1>15, <2>1 DEF Issued, KeepsCookies, Calls
      <3> QED BY <1>15, <3>1 DEF Issued, Over, Set
    <2>3. c.kind # "login" => Fine(d, m, n)
      BY <2>1 DEF Fine, Calls, Places, Roads, Ready, OnRoad, Asks
    <2> HIDE DEF d
    <2> QED BY <1>1, <1>3, <2>2, <2>3 DEF m, n
  <1>16. CASE Verify(t)
    <2>1. c.pc = "verify" /\ c \in Calls /\ Ready(c, m, n)
      BY <1>4, <1>16 DEF Verify
    <2> DEFINE x == \E u \in Tabs : call[u] # Idle /\ call[u].kind = "reset"
               d == [c EXCEPT !.pc = "snap", !.version = password.version, !.overlap = x]
    <2>2. UNCHANGED <<pairs, docs>>
          /\ (call' = [call EXCEPT ![t] = Idle] \/ call' = [call EXCEPT ![t] = d])
      BY <1>16 DEF Verify, Over, Set
    <2>3. Fine(d, m, n)
      <3>1. x \in BOOLEAN /\ password.version \in 0..2
        BY DEF Typed
      <3> HIDE DEF x
      <3> QED BY <2>1, <3>1 DEF Fine, Calls, Places, Ready, OnRoad, Asks
    <2> HIDE DEF d
    <2> QED BY <1>1, <1>3, <2>2, <2>3 DEF m, n
  <1>17. CASE Create(t)
    <2>1. c.pc = "create" /\ c \in Calls /\ Ready(c, m, n)
      BY <1>4, <1>17 DEF Create
    <2> DEFINE e == [device |-> c.browser, pair |-> m + 1, revoked |-> "no", expired |-> FALSE,
                     version |-> c.version, overlap |-> c.overlap]
               f == [session |-> n + 1, from |-> NoPair]
               d == [c EXCEPT !.pc = "record", !.next = m + 1, !.session = n + 1]
    <2>2. e \in Docs /\ f \in Pairs
      BY <1>0, <2>1 DEF Calls, Docs, Pairs, NoPair
    <2>3. docs' = Append(docs, e)
      BY <1>17 DEF Create, NewPair, m
    <2>4. Len(docs') = n + 1
      <3> HIDE DEF e
      <3> QED BY <2>2, <2>3, Appended DEF Typed, n
    <2>5. call' = [call EXCEPT ![t] = d] /\ pairs' = Append(pairs, f)
      BY <1>17, <2>4 DEF Create, NewPair, m, Set
    <2>6. Len(pairs') = m + 1
      <3> HIDE DEF f
      <3> QED BY <2>2, <2>5, Appended DEF Typed, m
    <2>7. Fine(d, m + 1, n + 1)
      <3>0. m + 1 \in Nat /\ n + 1 \in Nat
        BY <1>0
      <3>1. d \in Calls
        BY <2>1, <3>0 DEF Calls, Places
      <3>2. Ready(d, m + 1, n + 1)
        BY <1>0, <2>1 DEF Calls, Ready, OnRoad, NoPair
      <3> QED BY <3>1, <3>2 DEF Fine
    <2> HIDE DEF d
    <2> QED BY <1>1, <2>4, <2>5, <2>6, <2>7
  <1>c. ASSUME NEW V \in SUBSET (1..n), c.pc \in {"snap", "find"},
               c.then \in {"reuse", "reset", "replaced", "limit", "others", "one", "logout"}
        PROVE  Fine([c EXCEPT !.pc = "strike", !.held = [v \in V |-> docs[v].pair]], m, n)
    <2>1. c \in Calls /\ Ready(c, m, n)
      BY <1>4, <1>c
    <2> DEFINE h == [v \in V |-> docs[v].pair]
    <2>2. h \in Held
      <3>1. h \in [V -> Nat] /\ V \in SUBSET Nat
        BY <1>0, <1>b
      <3> QED BY <3>1, Taken
    <2> HIDE DEF h
    <2>3. [c EXCEPT !.pc = "strike", !.held = h] \in Calls
      BY <2>1, <2>2 DEF Calls, Places
    <2>4. Ready([c EXCEPT !.pc = "strike", !.held = h], m, n)
      BY <1>c, <2>1 DEF Calls, Ready, OnRoad
    <2> QED BY <2>3, <2>4 DEF Fine, h
  <1>18. CASE Snap(t)
    <2>1. c.pc = "snap" /\ c \in Calls /\ Ready(c, m, n)
      BY <1>4, <1>18 DEF Snap
    <2> DEFINE V == Victims(t)
               told == [u \in Tabs |-> IF call[u] # Idle /\ call[u].kind = "login"
                                      THEN [call[u] EXCEPT !.overlap = TRUE]
                                      ELSE call[u]]
               d == IF V = {} THEN Onward(t, c)
                    ELSE [c EXCEPT !.pc = "strike", !.held = [v \in V |-> docs[v].pair]]
    <2>2. c.then \in {"reuse", "reset", "replaced", "limit", "others", "one"}
      BY <2>1 DEF Ready, OnRoad
    <2>3. V \in SUBSET (1..n)
      BY <1>0, <2>2 DEF Victims, ActiveSessions, Excess
    <2>4. Fine(d, m, n)
      <3>1. Fine(Onward(t, c), m, n)
        BY <1>0, <2>1, GoesOnward
      <3> HIDE DEF V
      <3>2. Fine([c EXCEPT !.pc = "strike", !.held = [v \in V |-> docs[v].pair]], m, n)
        BY <1>c, <2>1, <2>2, <2>3
      <3> QED BY <3>1, <3>2
    <2>5. UNCHANGED <<pairs, docs>>
      BY <1>18 DEF Snap
    <2>6. CASE c.then # "reset"
      <3>1. call' = [call EXCEPT ![t] = d]
        BY <1>18, <2>6 DEF Snap
      <3> HIDE DEF d
      <3> QED BY <1>1, <2>4, <2>5, <3>1 DEF m, n
    <2>7. CASE c.then = "reset"
      <3>1. told[t] = c
        BY <2>1, <2>7 DEF Ready, OnRoad
      <3>2. call' = [told EXCEPT ![t] = d]
        BY <1>18, <2>7, <3>1 DEF Snap
      <3>3. ASSUME NEW u \in Tabs \ {t}
            PROVE  /\ told[u] \in Calls \cup {Idle}
                   /\ told[u] = call[u] \/ Noted(call[u], told[u])
        <4>1. CASE call[u] \in Calls
          BY <4>1 DEF Noted, Calls
        <4>2. CASE call[u] = Idle
          BY <4>2
        <4> QED BY <1>0, <4>1, <4>2
      <3>4. d \in Calls \cup {Idle}
        BY <2>4 DEF Fine
      <3>5. told = [u \in Tabs |-> told[u]]
        OBVIOUS
      <3> HIDE DEF d, told
      <3>6. call'[t] = d /\ \A u \in Tabs \ {t} : call'[u] = told[u]
        BY <3>2, <3>5
      <3>7. call' \in [Tabs -> Calls \cup {Idle}]
        BY <3>2, <3>3, <3>4, <3>5
      <3> QED BY <2>4, <2>5, <3>3, <3>6, <3>7 DEF m, n
    <2> QED BY <2>6, <2>7
  <1>19. CASE FindForLogout(t)
    <2>1. c.pc = "find" /\ c \in Calls /\ Ready(c, m, n)
      BY <1>4, <1>19 DEF FindForLogout
    <2> DEFINE o == pairs[c.pair].session
    <2>2. o \in 1..n /\ c.then = "logout"
      BY <1>0, <1>19, <2>1 DEF FindForLogout, Ready, NoPair
    <2>3. /\ UNCHANGED <<pairs, docs>>
          /\ \/ call' = [call EXCEPT ![t] = Onward(t, c)]
             \/ call' = [call EXCEPT ![t] =
                    [c EXCEPT !.pc = "strike", !.held = [v \in {o} |-> docs[v].pair]]]
      <3> HIDE DEF o
      <3>1. \E V \in {{}, {o}} : call' = [call EXCEPT ![t] = IF V = {} THEN Onward(t, c)
                 ELSE [c EXCEPT !.pc = "strike", !.held = [v \in V |-> docs[v].pair]]]
        BY <1>19 DEF FindForLogout, StartRevoking, Set, o
      <3> QED BY <1>19, <3>1 DEF FindForLogout
    <2>4. Fine(Onward(t, c), m, n)
      BY <1>0, <2>1, <2>2, GoesOnward
    <2>5. Fine([c EXCEPT !.pc = "strike", !.held = [v \in {o} |-> docs[v].pair]], m, n)
      <3>1. {o} \in SUBSET (1..n)
        BY <2>2
      <3> QED BY <1>c, <2>1, <2>2, <3>1
    <2> QED BY <1>1, <2>3, <2>4, <2>5 DEF m, n
  <1>20. CASE Strike(t)
    <2>1. c.pc = "strike" /\ c \in Calls /\ Ready(c, m, n)
      BY <1>4, <1>20 DEF Strike
    <2>2. UNCHANGED <<pairs, docs>> /\ call' = [call EXCEPT ![t] = [c EXCEPT !.pc = "save"]]
      BY <1>20 DEF Strike, Go
    <2>3. Fine([c EXCEPT !.pc = "save"], m, n)
      BY <2>1 DEF Fine, Calls, Places, Ready, OnRoad, Asks
    <2> QED BY <1>1, <2>2, <2>3 DEF m, n
  <1>21. CASE Save(t)
    <2>1. c.pc = "save" /\ c \in Calls /\ Ready(c, m, n)
      BY <1>4, <1>21 DEF Save
    <2>2. UNCHANGED pairs /\ call' = [call EXCEPT ![t] = Onward(t, c)]
      BY <1>21 DEF Save, Set
    <2>3. Len(docs') = n
      <3> DEFINE f == [s \in DOMAIN docs |->
                          IF s \in DOMAIN c.held /\ Saves(t, s)
                          THEN [docs[s] EXCEPT !.pair = NoPair, !.revoked = Reason(t)]
                          ELSE docs[s]]
                 R == {f[s] : s \in DOMAIN docs}
      <3>1. docs' = f /\ f \in [DOMAIN docs -> R]
        BY <1>21 DEF Save
      <3> HIDE DEF f, R
      <3> QED BY <3>1, Rewritten DEF Typed, n
    <2>4. Fine(Onward(t, c), m, n)
      BY <1>0, <2>1, GoesOnward
    <2> QED BY <1>1, <2>2, <2>3, <2>4 DEF m
  <1>22. CASE SetPassword(t) \/ ClearCookies(t) \/ Fail(t)
    BY <1>1, <1>3, <1>22 DEF SetPassword, ClearCookies, Fail, Over, Set
  <1> QED BY <1>5, <1>6, <1>7, <1>8, <1>9, <1>10, <1>11, <1>12, <1>13, <1>14, <1>15, <1>16,
             <1>17, <1>18, <1>19, <1>20, <1>21, <1>22 DEF TabStep

(***************************************************************************)
(* What a step writes.                                                     *)
(***************************************************************************)
(* The collections as they are. *)
LEMMA Stored ==
    ASSUME Typed, Refers
    PROVE  /\ Len(pairs) \in Nat /\ Len(docs) \in Nat /\ Len(used) = Len(pairs)
           /\ DOMAIN pairs = 1..Len(pairs) /\ DOMAIN used = 1..Len(pairs)
           /\ DOMAIN docs = 1..Len(docs)
           /\ \A s \in DOMAIN docs : docs[s] \in Docs
           /\ \A p \in DOMAIN pairs : /\ pairs[p] \in Pairs
                                     /\ used[p] \in {"no", "recent", "old"}
  BY LenProperties, ElementOfSeq DEF Typed, Refers

(* A tab that is at a step has a call with what the step needs. *)
LEMMA AtStep ==
    ASSUME Typed, Refers, NEW t \in Tabs, call[t].pc # "idle" \/ call[t] # Idle
    PROVE  /\ call[t] \in Calls /\ Ready(call[t], Len(pairs), Len(docs))
           /\ call[t] # Idle /\ call[t].pc # "idle"
  BY IdleIsNoCall DEF Typed, Refers, Idle

(* An exchange writes the session, the pair and the marker of the new pair. *)
LEMMA Rotates ==
    ASSUME SessionAssumption, Typed, Refers, NEW t \in Tabs, Rotate(t)
    PROVE  /\ call[t].session \in DOMAIN docs /\ Active(call[t].session)
           /\ call[t].pair \in DOMAIN pairs /\ docs[call[t].session].pair = call[t].pair
           /\ call[t].pair # NoPair /\ NewPair = Len(pairs) + 1 /\ NewPair <= MaxPairs
           /\ docs' \in Seq(Docs) /\ DOMAIN docs' = DOMAIN docs /\ Len(docs') = Len(docs)
           /\ docs'[call[t].session] = [docs[call[t].session] EXCEPT !.pair = NewPair]
           /\ \A s \in DOMAIN docs : s # call[t].session => docs'[s] = docs[s]
           /\ pairs' \in Seq(Pairs) /\ DOMAIN pairs' = 1..NewPair /\ Len(pairs') = NewPair
           /\ pairs'[NewPair] = [session |-> call[t].session, from |-> call[t].pair]
           /\ \A p \in DOMAIN pairs : pairs'[p] = pairs[p]
           /\ used' \in Seq({"no", "recent", "old"}) /\ Len(used') = NewPair
           /\ used'[NewPair] = "no" /\ \A p \in DOMAIN used : used'[p] = used[p]
           /\ call'[t] = [call[t] EXCEPT !.pc = "record", !.next = NewPair]
  <1> DEFINE c == call[t]
             f == [docs[c.session] EXCEPT !.pair = NewPair]
             e == [session |-> c.session, from |-> c.pair]
             no == "no"
  <1>1. /\ c.pc = "rotate" /\ c \in Calls /\ Ready(c, Len(pairs), Len(docs))
        /\ call \in [Tabs -> Calls \cup {Idle}]
    BY AtStep DEF Rotate, Typed
  <1>2. /\ c.session \in DOMAIN docs /\ c.pair \in DOMAIN pairs /\ c.pair # NoPair
        /\ Active(c.session) /\ docs[c.session].pair = c.pair
    BY <1>1, Stored DEF Ready, Rotate, MayRotate, NoPair
  <1>3. NewPair = Len(pairs) + 1 /\ NewPair <= MaxPairs /\ NewPair \in Nat
    BY Stored DEF NewPair, Rotate, SessionAssumption
  <1>4. f \in Docs /\ docs' = [docs EXCEPT ![c.session] = f]
    BY <1>2, <1>3, Stored DEF Rotate, Docs
  <1>5. e \in Pairs /\ pairs' = Append(pairs, e)
    BY <1>1, <1>2, Stored DEF Rotate, Pairs, Calls
  <1>6. no \in {"no", "recent", "old"} /\ used' = Append(used, no)
    BY DEF Rotate
  <1>7. call' = [call EXCEPT ![t] = [c EXCEPT !.pc = "record", !.next = NewPair]]
    BY DEF Rotate, Set
  <1>8. call'[t] = [c EXCEPT !.pc = "record", !.next = NewPair]
    BY <1>1, <1>7
  <1> HIDE DEF f, e, no
  <1>9. /\ docs' \in Seq(Docs) /\ DOMAIN docs' = DOMAIN docs /\ Len(docs') = Len(docs)
        /\ docs'[c.session] = f /\ \A s \in DOMAIN docs : s # c.session => docs'[s] = docs[s]
    BY <1>2, <1>4, Replaced DEF Typed
  <1>10. /\ pairs' \in Seq(Pairs) /\ DOMAIN pairs' = 1..NewPair /\ Len(pairs') = NewPair
         /\ pairs'[NewPair] = e /\ \A p \in DOMAIN pairs : pairs'[p] = pairs[p]
    BY <1>3, <1>5, Appended DEF Typed
  <1>11. /\ used' \in Seq({"no", "recent", "old"}) /\ Len(used') = NewPair
         /\ used'[NewPair] = no /\ \A p \in DOMAIN used : used'[p] = used[p]
    BY <1>3, <1>6, Appended, Stored DEF Typed
  <1> QED BY <1>2, <1>3, <1>8, <1>9, <1>10, <1>11 DEF f, e, no

(* A sign-in writes a session, its pair and the pair's marker. *)
NewDoc(t) == [device |-> call[t].browser, pair |-> NewPair, revoked |-> "no",
              expired |-> FALSE, version |-> call[t].version, overlap |-> call[t].overlap]

(* A sign-in writes the session, its first pair and the marker of that pair. *)
LEMMA Creates ==
    ASSUME SessionAssumption, Typed, Refers, NEW t \in Tabs, Create(t)
    PROVE  /\ call[t] \in Calls /\ call[t].kind = "login" /\ call[t].then = "replaced"
           /\ NewPair = Len(pairs) + 1 /\ NewPair <= MaxPairs
           /\ docs' \in Seq(Docs) /\ DOMAIN docs' = 1..Len(docs) + 1
           /\ Len(docs') = Len(docs) + 1
           /\ docs'[Len(docs) + 1] = NewDoc(t)
           /\ \A s \in DOMAIN docs : docs'[s] = docs[s]
           /\ pairs' \in Seq(Pairs) /\ DOMAIN pairs' = 1..NewPair /\ Len(pairs') = NewPair
           /\ pairs'[NewPair] = [session |-> Len(docs) + 1, from |-> NoPair]
           /\ \A p \in DOMAIN pairs : pairs'[p] = pairs[p]
           /\ used' \in Seq({"no", "recent", "old"}) /\ Len(used') = NewPair
           /\ used'[NewPair] = "no" /\ \A p \in DOMAIN used : used'[p] = used[p]
           /\ call'[t] = [call[t] EXCEPT !.pc = "record", !.next = NewPair,
                                         !.session = Len(docs) + 1]
  <1> DEFINE c == call[t]
             f == NewDoc(t)
             e == [session |-> Len(docs) + 1, from |-> NoPair]
             no == "no"
  <1>1. /\ c.pc = "create" /\ c \in Calls /\ Ready(c, Len(pairs), Len(docs))
        /\ call \in [Tabs -> Calls \cup {Idle}]
    BY AtStep DEF Create, Typed
  <1>2. c.kind = "login" /\ c.then = "replaced"
    BY <1>1 DEF Ready, OnRoad
  <1>3. NewPair = Len(pairs) + 1 /\ NewPair <= MaxPairs /\ NewPair \in Nat
    BY Stored DEF NewPair, Create, SessionAssumption
  <1>4. f \in Docs /\ docs' = Append(docs, f)
    <2>1. docs' = Append(docs, f)
      BY DEF Create, NewDoc
    <2>2. f \in Docs
      BY <1>1, <1>3 DEF NewDoc, Docs, Calls
    <2> QED BY <2>1, <2>2
  <1>6. no \in {"no", "recent", "old"} /\ used' = Append(used, no)
    BY DEF Create
  <1> HIDE DEF f, no
  <1>9. /\ docs' \in Seq(Docs) /\ DOMAIN docs' = 1..Len(docs) + 1 /\ Len(docs') = Len(docs) + 1
        /\ docs'[Len(docs) + 1] = f /\ \A s \in DOMAIN docs : docs'[s] = docs[s]
    BY <1>4, Appended DEF Typed
  <1>5. e \in Pairs /\ pairs' = Append(pairs, e)
    BY <1>9, Stored DEF Create, Pairs, NoPair
  <1>7. call' = [call EXCEPT ![t] = [c EXCEPT !.pc = "record", !.next = NewPair,
                                               !.session = Len(docs')]]
    BY DEF Create, Set
  <1>8. call'[t] = [c EXCEPT !.pc = "record", !.next = NewPair, !.session = Len(docs) + 1]
    BY <1>1, <1>7, <1>9
  <1> HIDE DEF e
  <1>10. /\ pairs' \in Seq(Pairs) /\ DOMAIN pairs' = 1..NewPair /\ Len(pairs') = NewPair
         /\ pairs'[NewPair] = e /\ \A p \in DOMAIN pairs : pairs'[p] = pairs[p]
    BY <1>3, <1>5, Appended DEF Typed
  <1>11. /\ used' \in Seq({"no", "recent", "old"}) /\ Len(used') = NewPair
         /\ used'[NewPair] = no /\ \A p \in DOMAIN used : used'[p] = used[p]
    BY <1>3, <1>6, Appended, Stored DEF Typed
  <1> QED BY <1>1, <1>2, <1>3, <1>8, <1>9, <1>10, <1>11 DEF f, e, no

(* A revocation takes the pair from the sessions it holds, and says why. *)
LEMMA SavesHeld ==
    ASSUME SessionAssumption, Typed, Refers, NEW t \in Tabs, Save(t)
    PROVE  /\ call[t] \in Calls /\ Ready(call[t], Len(pairs), Len(docs))
           /\ call[t].pc = "save"
           /\ docs' \in Seq(Docs) /\ DOMAIN docs' = DOMAIN docs /\ Len(docs') = Len(docs)
           /\ \A s \in DOMAIN docs :
                 /\ s \notin DOMAIN call[t].held => docs'[s] = docs[s]
                 /\ s \in DOMAIN call[t].held =>
                       /\ docs'[s] = [docs[s] EXCEPT !.pair = NoPair, !.revoked = Reason(t)]
                       /\ docs'[s].pair = NoPair /\ docs'[s].revoked # "no"
                       /\ docs'[s].device = docs[s].device /\ docs'[s].expired = docs[s].expired
  <1> DEFINE c == call[t]
             f == [s \in DOMAIN docs |-> IF s \in DOMAIN c.held
                      THEN [docs[s] EXCEPT !.pair = NoPair, !.revoked = Reason(t)]
                      ELSE docs[s]]
  <1>1. c.pc = "save" /\ c \in Calls /\ Ready(c, Len(pairs), Len(docs))
    BY AtStep DEF Save
  <1>2. docs' = f
    BY DEF Save, Saves
  <1>3. Reason(t) \in {"no", "unfounded"} \cup Roads /\ Reason(t) # "no"
    BY <1>1 DEF Reason, Calls, Roads
  <1>4. \A s \in DOMAIN docs : docs[s] \in Docs
    BY Stored
  <1>5. ASSUME NEW s \in DOMAIN docs
        PROVE  LET d == [docs[s] EXCEPT !.pair = NoPair, !.revoked = Reason(t)]
               IN  /\ d \in Docs /\ d.pair = NoPair /\ d.revoked # "no"
                   /\ d.device = docs[s].device /\ d.expired = docs[s].expired
    BY <1>3, <1>4 DEF Docs, NoPair
  <1>6. f \in [DOMAIN docs -> Docs]
    BY <1>4, <1>5
  <1>7. \A s \in DOMAIN docs :
           /\ s \notin DOMAIN c.held => f[s] = docs[s]
           /\ s \in DOMAIN c.held =>
                 f[s] = [docs[s] EXCEPT !.pair = NoPair, !.revoked = Reason(t)]
    OBVIOUS
  <1> HIDE DEF f
  <1>8. f \in Seq(Docs) /\ Len(f) = Len(docs) /\ DOMAIN f = DOMAIN docs
    BY <1>6, Rewritten DEF Typed
  <1> QED BY <1>1, <1>2, <1>5, <1>7, <1>8

(* A session that expires stays what it was otherwise. *)
LEMMA Expires ==
    ASSUME Typed, NEW s \in DOMAIN docs, SessionExpires(s)
    PROVE  /\ docs' \in Seq(Docs) /\ DOMAIN docs' = DOMAIN docs /\ Len(docs') = Len(docs)
           /\ docs'[s] = [docs[s] EXCEPT !.expired = TRUE] /\ docs[s] \in Docs
           /\ \A r \in DOMAIN docs : r # s => docs'[r] = docs[r]
  <1> DEFINE f == [docs[s] EXCEPT !.expired = TRUE]
  <1>1. docs[s] \in Docs
    BY ElementOfSeq, LenProperties DEF Typed
  <1>2. f \in Docs /\ docs' = [docs EXCEPT ![s] = f]
    BY <1>1 DEF SessionExpires, Docs
  <1> HIDE DEF f
  <1>3. /\ docs' \in Seq(Docs) /\ DOMAIN docs' = DOMAIN docs /\ Len(docs') = Len(docs)
        /\ docs'[s] = f /\ \A r \in DOMAIN docs : r # s => docs'[r] = docs[r]
    BY <1>2, Replaced DEF Typed
  <1> QED BY <1>1, <1>3 DEF f

(* Which steps of a tab write which collection. *)
LEMMA TabWrites ==
    ASSUME NEW t, TabStep(t)
    PROVE  /\ UNCHANGED docs \/ Rotate(t) \/ Create(t) \/ Save(t)
           /\ UNCHANGED pairs \/ Rotate(t) \/ Create(t)
           /\ UNCHANGED used \/ Mark(t) \/ Rotate(t) \/ Create(t) \/ Strike(t)
           /\ UNCHANGED jar \/ Issued(t) \/ ClearCookies(t)
           /\ UNCHANGED access \/ Mark(t) \/ Record(t) \/ Strike(t)
           /\ UNCHANGED password \/ Verify(t) \/ SetPassword(t)
  <1>1. CASE Begins(t)
    BY <1>1 DEF Begins, Ask, LogIn, LogInOtherwise, LogOut, ResetPassword, Begin
  <1>2. CASE Lookup(t)
    BY <1>2 DEF Lookup
  <1>3. CASE Check(t)
    BY <1>3 DEF Check
  <1>4. CASE SendRefresh(t)
    BY <1>4 DEF SendRefresh
  <1>5. CASE ReadMarker(t)
    BY <1>5 DEF ReadMarker
  <1>6. CASE FindByRefresh(t)
    BY <1>6 DEF FindByRefresh
  <1>7. CASE Mark(t)
    BY <1>7 DEF Mark
  <1>8. CASE Rotate(t)
    BY <1>8 DEF Rotate
  <1>9. CASE LosesRotation(t)
    BY <1>9 DEF LosesRotation
  <1>10. CASE Record(t)
    BY <1>10 DEF Record
  <1>11. CASE Issued(t)
    BY <1>11 DEF Issued
  <1>12. CASE Verify(t)
    BY <1>12 DEF Verify
  <1>13. CASE Create(t)
    BY <1>13 DEF Create
  <1>14. CASE Snap(t)
    BY <1>14 DEF Snap
  <1>15. CASE FindForLogout(t)
    BY <1>15 DEF FindForLogout
  <1>16. CASE Strike(t)
    BY <1>16 DEF Strike
  <1>17. CASE Save(t)
    BY <1>17 DEF Save
  <1>18. CASE SetPassword(t)
    BY <1>18 DEF SetPassword
  <1>19. CASE ClearCookies(t)
    BY <1>19 DEF ClearCookies
  <1>20. CASE Fail(t)
    BY <1>20 DEF Fail
  <1> QED BY <1>1, <1>2, <1>3, <1>4, <1>5, <1>6, <1>7, <1>8, <1>9, <1>10, <1>11, <1>12, <1>13,
             <1>14, <1>15, <1>16, <1>17, <1>18, <1>19, <1>20 DEF TabStep

(* What time and the background write. *)
LEMMA TimeWrites ==
    ASSUME TimeStep
    PROVE  /\ UNCHANGED <<jar, call, pairs>>
           /\ \/ UNCHANGED <<docs, used, password, log>>
                 /\ \E p \in DOMAIN pairs : access' = access \ {p}
              \/ UNCHANGED <<docs, access, password, log>>
                 /\ \E p \in DOMAIN pairs : used[p] = "recent" /\ used' = [used EXCEPT ![p] = "old"]
              \/ UNCHANGED <<used, access, password>> /\ \E s \in DOMAIN docs : SessionExpires(s)
              \/ UNCHANGED <<docs, used, access, log>> /\ StoreNewHash
  BY DEF TimeStep, AccessExpires, GraceEnds, SessionExpires, StoreNewHash

(* The history keeps its type. *)
LEMMA LogKept ==
    ASSUME Typed, Refers, NEW t \in Tabs, TabStep(t)
    PROVE  log' \in Logs
  <1>0. log \in Logs /\ log.calls + 1 \in Nat /\ log.faults + 1 \in Nat
    BY DEF Typed, Logs
  <1>a. \A x \in BOOLEAN : /\ [log EXCEPT !.upset = x] \in Logs /\ [log EXCEPT !.blind = x] \in Logs
                           /\ [log EXCEPT !.calls = log.calls + 1, !.overlaps = x] \in Logs
    BY <1>0 DEF Logs
  <1>b. [log EXCEPT !.calls = log.calls + 1] \in Logs
    BY <1>0 DEF Logs
  <1>1. CASE Begins(t)
    <2> DEFINE x == log.overlaps \/ \E u \in Tabs : call[u] # Idle /\ call[u].kind = "login"
    <2>1. \/ log' = [log EXCEPT !.calls = log.calls + 1]
          \/ log' = [log EXCEPT !.calls = log.calls + 1, !.overlaps = x]
      BY <1>1 DEF Begins, Ask, LogIn, LogInOtherwise, LogOut, ResetPassword, Counted
    <2>2. x \in BOOLEAN
      BY <1>0 DEF Logs
    <2> HIDE DEF x
    <2> QED BY <1>a, <1>b, <2>1, <2>2
  <1>2. CASE Lookup(t) \/ Check(t) \/ FindByRefresh(t) \/ Mark(t) \/ Record(t)
             \/ Issued(t) \/ Verify(t) \/ Create(t) \/ ClearCookies(t)
    <2>1. UNCHANGED log
      BY <1>2 DEF Lookup, Check, FindByRefresh, Mark, Record, Issued, Verify, Create, ClearCookies
    <2> QED BY <1>0, <2>1
  <1>3. CASE Snap(t) \/ FindForLogout(t)
    <2>1. UNCHANGED log
      BY <1>3 DEF Snap, FindForLogout
    <2> QED BY <1>0, <2>1
  <1>4. CASE SendRefresh(t)
    <2> DEFINE x == log.upset \/ \E u \in Tabs : Refreshes(u, jar[call[t].browser])
    <2>1. log' = [log EXCEPT !.upset = x]
      BY <1>4 DEF SendRefresh
    <2>2. x \in BOOLEAN
      BY <1>0 DEF Logs
    <2> HIDE DEF x
    <2> QED BY <1>a, <2>1, <2>2
  <1>5. CASE ReadMarker(t) \/ LosesRotation(t)
    <2> DEFINE x == log.blind \/ ~log.upset
    <2>1. UNCHANGED log \/ log' = [log EXCEPT !.blind = x]
      BY <1>5 DEF ReadMarker, LosesRotation, Alarm
    <2>2. x \in BOOLEAN
      BY <1>0 DEF Logs
    <2> HIDE DEF x
    <2> QED BY <1>0, <1>a, <2>1, <2>2
  <1>6. CASE Rotate(t)
    <2>1. call[t].pair \in Nat
      BY <1>6, AtStep DEF Rotate, Calls
    <2>2. log' = [log EXCEPT !.exchanged = log.exchanged \cup {call[t].pair}]
      BY <1>6 DEF Rotate
    <2>3. log.exchanged \cup {call[t].pair} \in SUBSET Nat
      BY <1>0, <2>1 DEF Logs
    <2> QED BY <1>0, <2>2, <2>3 DEF Logs
  <1>7. CASE Strike(t)
    BY <1>a, <1>7 DEF Strike
  <1>8. CASE Save(t)
    <2> DEFINE k == IF call[t].then = "others" THEN log.keepers \cup {call[t].session}
                    ELSE log.keepers
    <2>1. call[t].session \in Nat
      BY <1>8, AtStep DEF Save, Calls
    <2>2. log' = [log EXCEPT !.keepers = k]
      BY <1>8 DEF Save
    <2>3. k \in SUBSET Nat
      BY <1>0, <2>1 DEF Logs
    <2> HIDE DEF k
    <2> QED BY <1>0, <2>2, <2>3 DEF Logs
  <1>9. CASE SetPassword(t)
    <2>1. log' = [log EXCEPT !.reset = TRUE, !.rehashed = password.pending]
      BY <1>9 DEF SetPassword
    <2>2. password.pending \in BOOLEAN
      BY DEF Typed
    <2> QED BY <1>0, <2>1, <2>2 DEF Logs
  <1>10. CASE Fail(t)
    BY <1>0, <1>10 DEF Fail, Logs
  <1> QED BY <1>1, <1>2, <1>3, <1>4, <1>5, <1>6, <1>7, <1>8, <1>9, <1>10 DEF TabStep

(* The password and the cookies keep their types. *)
LEMMA JarKept ==
    ASSUME Typed, Refers, NEW t \in Tabs, TabStep(t)
    PROVE  /\ jar' \in [Browsers -> Nat] /\ \A b \in Browsers : jar'[b] <= Len(pairs)
           /\ password' \in [version : 1..2, legacy : BOOLEAN, pending : BOOLEAN]
  <1>0. /\ jar \in [Browsers -> Nat] /\ \A b \in Browsers : jar[b] <= Len(pairs)
        /\ Len(pairs) \in Nat
    BY Stored DEF Typed, Refers
  <1>1. CASE Issued(t)
    <2>1. /\ call[t].browser \in Browsers /\ call[t].next \in 0..Len(pairs)
          /\ jar' = [jar EXCEPT ![call[t].browser] = call[t].next]
      BY <1>1, AtStep DEF Issued, KeepsCookies, Calls, Ready
    <2>2. /\ jar' \in [Browsers -> Nat] /\ \A b \in Browsers : jar'[b] <= Len(pairs)
      BY <1>0, <2>1
    <2> QED BY <1>1, <2>2 DEF Issued, Typed
  <1>2. CASE ClearCookies(t)
    <2>1. call[t].browser \in Browsers /\ jar' = [jar EXCEPT ![call[t].browser] = NoPair]
      BY <1>2, AtStep DEF ClearCookies, Calls
    <2>2. /\ jar' \in [Browsers -> Nat] /\ \A b \in Browsers : jar'[b] <= Len(pairs)
      BY <1>0, <2>1 DEF NoPair
    <2> QED BY <1>2, <2>2 DEF ClearCookies, Typed
  <1>3. CASE Verify(t)
    <2> DEFINE x == password.pending \/ password.legacy
    <2>1. password' = [password EXCEPT !.pending = x] /\ UNCHANGED jar
      BY <1>3 DEF Verify
    <2>2. x \in BOOLEAN
      BY DEF Typed
    <2> HIDE DEF x
    <2> QED BY <1>0, <2>1, <2>2 DEF Typed
  <1>4. CASE SetPassword(t)
    <2> DEFINE no == FALSE
               new == 2
    <2>1. password' = [password EXCEPT !.version = new, !.legacy = no] /\ UNCHANGED jar
      BY <1>4 DEF SetPassword
    <2>4. no \in BOOLEAN /\ new \in 1..2
      OBVIOUS
    <2> HIDE DEF no, new
    <2>2. password \in [version : 1..2, legacy : BOOLEAN, pending : BOOLEAN]
      BY DEF Typed
    <2>3. password' \in [version : 1..2, legacy : BOOLEAN, pending : BOOLEAN]
      BY <2>1, <2>2, <2>4
    <2> QED BY <1>0, <2>1, <2>3
  <1>5. CASE UNCHANGED <<jar, password>>
    BY <1>0, <1>5 DEF Typed
  <1>6. UNCHANGED <<jar, password>> \/ Issued(t) \/ ClearCookies(t) \/ Verify(t) \/ SetPassword(t)
    BY TabWrites
  <1> QED BY <1>1, <1>2, <1>3, <1>4, <1>5, <1>6

(* The markers keep their type, and there is one for each pair. *)
LEMMA UsedKept ==
    ASSUME SessionAssumption, Typed, Refers, NEW t \in Tabs, TabStep(t)
    PROVE  /\ used' \in Seq({"no", "recent", "old"}) /\ Len(used') = Len(pairs')
           /\ \A p \in DOMAIN used : used'[p] = used[p] \/ Mark(t) \/ Strike(t)
           /\ \A p \in DOMAIN used : Mark(t) => p = call[t].pair \/ used'[p] = used[p]
  <1>0. used \in Seq({"no", "recent", "old"}) /\ Len(used) = Len(pairs)
    BY DEF Typed, Refers
  <1>1. CASE Mark(t)
    <2> DEFINE r == "recent"
               p == call[t].pair
    <2>1. p \in DOMAIN used /\ used' = [used EXCEPT ![p] = r] /\ UNCHANGED pairs
      BY <1>1, AtStep, Stored DEF Mark, Ready, NoPair
    <2>2. r \in {"no", "recent", "old"}
      OBVIOUS
    <2> HIDE DEF r, p
    <2>3. /\ used' \in Seq({"no", "recent", "old"}) /\ Len(used') = Len(used)
          /\ \A q \in DOMAIN used : q = p \/ used'[q] = used[q]
      BY <1>0, <2>1, <2>2, Replaced
    <2> QED BY <1>0, <1>1, <2>1, <2>3 DEF p
  <1>2. CASE Strike(t)
    <2> DEFINE held == {call[t].held[v] : v \in DOMAIN call[t].held} \ {NoPair}
               f == [p \in DOMAIN used |->
                       IF p \notin held THEN used[p]
                       ELSE IF call[t].then \in {"logout", "one"} THEN "recent" ELSE "old"]
    <2>1. used' = f /\ UNCHANGED pairs
      BY <1>2 DEF Strike
    <2>2. f \in [DOMAIN used -> {"no", "recent", "old"}]
      BY Stored
    <2>3. ~Mark(t)
      BY <1>2 DEF Strike, Mark
    <2> HIDE DEF f
    <2>4. f \in Seq({"no", "recent", "old"}) /\ Len(f) = Len(used)
      BY <1>0, <2>2, Rewritten
    <2> QED BY <1>0, <1>2, <2>1, <2>3, <2>4
  <1>3. CASE Rotate(t)
    BY <1>3, Rotates, Stored DEF Rotate, Mark
  <1>4. CASE Create(t)
    BY <1>4, Creates, Stored DEF Create, Mark
  <1>5. CASE UNCHANGED used /\ ~Rotate(t) /\ ~Create(t) /\ ~Mark(t)
    BY <1>0, <1>5, TabWrites
  <1> QED BY <1>1, <1>2, <1>3, <1>4, <1>5, TabWrites

(* Sessions and pairs are never removed, and keep their types. *)
LEMMA DocsKept ==
    ASSUME SessionAssumption, Typed, Refers, NEW t \in Tabs, TabStep(t)
    PROVE  /\ docs' \in Seq(Docs) /\ pairs' \in Seq(Pairs)
           /\ Len(docs') \in Nat /\ Len(pairs') \in Nat
           /\ Len(docs) <= Len(docs') /\ Len(pairs) <= Len(pairs') /\ Len(pairs') <= MaxPairs
           /\ DOMAIN docs' = 1..Len(docs') /\ DOMAIN pairs' = 1..Len(pairs')
           /\ \A p \in DOMAIN pairs : pairs'[p] = pairs[p]
           /\ \A p \in DOMAIN pairs' : pairs'[p].session \in DOMAIN docs' /\ pairs'[p].from < p
           /\ \A s \in DOMAIN docs : docs'[s].device = docs[s].device
  <1>0. /\ docs \in Seq(Docs) /\ pairs \in Seq(Pairs)
        /\ Len(docs) \in Nat /\ Len(pairs) \in Nat /\ Len(pairs) <= MaxPairs
        /\ DOMAIN docs = 1..Len(docs) /\ DOMAIN pairs = 1..Len(pairs)
        /\ \A p \in DOMAIN pairs : pairs[p].session \in DOMAIN docs /\ pairs[p].from < p
        /\ \A s \in DOMAIN docs : docs[s] \in Docs
    BY Stored DEF Typed, Refers
  <1> DEFINE m == Len(pairs)
             n == Len(docs)
  <1> HIDE DEF m, n
  <1>1. CASE Rotate(t)
    <2> DEFINE o == call[t].session
               q == call[t].pair
    <2>0. /\ o \in DOMAIN docs /\ q \in DOMAIN pairs /\ NewPair = m + 1 /\ NewPair <= MaxPairs
          /\ docs' \in Seq(Docs) /\ DOMAIN docs' = DOMAIN docs /\ Len(docs') = n
          /\ docs'[o] = [docs[o] EXCEPT !.pair = NewPair]
          /\ \A s \in DOMAIN docs : s # o => docs'[s] = docs[s]
          /\ pairs' \in Seq(Pairs) /\ DOMAIN pairs' = 1..NewPair /\ Len(pairs') = NewPair
          /\ pairs'[NewPair] = [session |-> o, from |-> q]
          /\ \A p \in DOMAIN pairs : pairs'[p] = pairs[p]
      BY <1>1, Rotates DEF m, n
    <2> HIDE DEF o, q
    <2>1. \A s \in DOMAIN docs : docs'[s].device = docs[s].device
      BY <1>0, <2>0 DEF Docs
    <2>2. ASSUME NEW p \in 1..m + 1
          PROVE  pairs'[p].session \in DOMAIN docs' /\ pairs'[p].from < p
      <3>1. CASE p \in DOMAIN pairs
        BY <1>0, <2>0, <3>1
      <3>2. CASE p = m + 1
        BY <1>0, <2>0, <3>2 DEF m
      <3> QED BY <1>0, <3>1, <3>2 DEF m
    <2> QED BY <1>0, <2>0, <2>1, <2>2 DEF m, n
  <1>2. CASE Create(t)
    <2>0. /\ NewPair = m + 1 /\ NewPair <= MaxPairs
          /\ docs' \in Seq(Docs) /\ DOMAIN docs' = 1..n + 1 /\ Len(docs') = n + 1
          /\ \A s \in DOMAIN docs : docs'[s] = docs[s]
          /\ pairs' \in Seq(Pairs) /\ DOMAIN pairs' = 1..NewPair /\ Len(pairs') = NewPair
          /\ pairs'[NewPair] = [session |-> n + 1, from |-> NoPair]
          /\ \A p \in DOMAIN pairs : pairs'[p] = pairs[p]
      BY <1>2, Creates DEF m, n
    <2>2. ASSUME NEW p \in 1..m + 1
          PROVE  pairs'[p].session \in DOMAIN docs' /\ pairs'[p].from < p
      <3>1. CASE p \in DOMAIN pairs
        BY <1>0, <2>0, <3>1 DEF n
      <3>2. CASE p = m + 1
        BY <1>0, <2>0, <3>2 DEF m, n, NoPair
      <3> QED BY <1>0, <3>1, <3>2 DEF m
    <2> QED BY <1>0, <2>0, <2>2 DEF m, n
  <1>3. CASE Save(t)
    <2>1. UNCHANGED pairs
      BY <1>3 DEF Save
    <2>2. /\ docs' \in Seq(Docs) /\ DOMAIN docs' = DOMAIN docs /\ Len(docs') = Len(docs)
          /\ \A s \in DOMAIN docs : docs'[s].device = docs[s].device
      BY <1>3, SavesHeld
    <2> QED BY <1>0, <2>1, <2>2
  <1>4. CASE UNCHANGED <<docs, pairs>>
    BY <1>0, <1>4
  <1> QED BY <1>1, <1>2, <1>3, <1>4, TabWrites

(***************************************************************************)
(* Tokens.                                                                 *)
(***************************************************************************)
(* A step of a tab keeps the types and what refers to what. *)
LEMMA TabKeepsTyped ==
    ASSUME SessionAssumption, Typed, Refers, NEW t \in Tabs, TabStep(t), UNCHANGED scenario
    PROVE  Typed' /\ Refers'
  <1>1. /\ call' \in [Tabs -> Calls \cup {Idle}]
        /\ Fine(call'[t], Len(pairs'), Len(docs'))
        /\ \A u \in Tabs \ {t} : call'[u] = call[u] \/ Noted(call[u], call'[u])
    BY CallsStep
  <1>2. /\ docs' \in Seq(Docs) /\ pairs' \in Seq(Pairs)
        /\ Len(docs') \in Nat /\ Len(pairs') \in Nat
        /\ Len(docs) <= Len(docs') /\ Len(pairs) <= Len(pairs') /\ Len(pairs') <= MaxPairs
        /\ DOMAIN pairs' = 1..Len(pairs')
        /\ \A p \in DOMAIN pairs' : pairs'[p].session \in DOMAIN docs' /\ pairs'[p].from < p
    BY DocsKept
  <1>3. /\ used' \in Seq({"no", "recent", "old"}) /\ Len(used') = Len(pairs')
    BY UsedKept
  <1>4. /\ jar' \in [Browsers -> Nat] /\ \A b \in Browsers : jar'[b] <= Len(pairs)
        /\ password' \in [version : 1..2, legacy : BOOLEAN, pending : BOOLEAN]
    BY JarKept
  <1>5. log' \in Logs
    BY LogKept
  <1>6. Typed'
    BY <1>1, <1>2, <1>3, <1>4, <1>5 DEF Typed
  <1>7. /\ Len(pairs) \in Nat /\ Len(docs) \in Nat /\ DOMAIN pairs = 1..Len(pairs)
        /\ access \subseteq DOMAIN pairs
    BY Stored DEF Refers
  <1>8. ASSUME NEW u \in Tabs, call'[u] # Idle
        PROVE  Ready(call'[u], Len(pairs'), Len(docs'))
    <2>1. CASE u = t
      BY <1>1, <1>8, <2>1 DEF Fine
    <2>2. ASSUME u # t, call'[u] = call[u]
          PROVE  Ready(call'[u], Len(pairs'), Len(docs'))
      <3>1. call[u] \in Calls /\ Ready(call[u], Len(pairs), Len(docs))
        BY <1>8, <2>2, AtStep
      <3> QED BY <1>2, <1>7, <2>2, <3>1, ReadyStays
    <2>3. ASSUME u # t, Noted(call[u], call'[u])
          PROVE  Ready(call'[u], Len(pairs'), Len(docs'))
      <3>1. call[u] \in Calls /\ Ready(call[u], Len(pairs), Len(docs))
        BY <2>3, AtStep, IdleIsNoCall DEF Noted
      <3>2. call'[u] \in Calls /\ Ready(call'[u], Len(pairs), Len(docs))
        BY <1>7, <2>3, <3>1, NotedIsReady DEF Noted
      <3> QED BY <1>2, <1>7, <3>2, ReadyStays
    <2> QED BY <1>1, <2>1, <2>2, <2>3
  <1>9. access' \subseteq DOMAIN pairs'
    <2>1. CASE Mark(t)
      BY <1>2, <1>7, <2>1 DEF Mark
    <2>2. CASE Strike(t)
      BY <1>2, <1>7, <2>2 DEF Strike
    <2>3. CASE Record(t)
      <3>1. call[t].next \in 1..Len(pairs)
        BY <1>7, <2>3, AtStep DEF Record, Ready, NoPair
      <3> QED BY <1>2, <1>7, <2>3, <3>1 DEF Record
    <2>4. CASE UNCHANGED access
      BY <1>2, <1>7, <2>4
    <2> QED BY <2>1, <2>2, <2>3, <2>4, TabWrites
  <1>10. \A b \in Browsers : jar'[b] <= Len(pairs')
    BY <1>2, <1>4, <1>7
  <1>11. Refers'
    BY <1>2, <1>3, <1>8, <1>9, <1>10 DEF Refers
  <1> QED BY <1>6, <1>11

(* Time keeps them too. *)
LEMMA TimeKeepsTyped ==
    ASSUME SessionAssumption, Typed, Refers, TimeStep, UNCHANGED scenario
    PROVE  Typed' /\ Refers'
  <1>0. UNCHANGED <<jar, call, pairs>>
    BY TimeWrites
  <1>1. CASE UNCHANGED <<docs, used, password, log>>
             /\ \E p \in DOMAIN pairs : access' = access \ {p}
    <2>1. Typed'
      BY <1>0, <1>1 DEF Typed
    <2> QED BY <1>0, <1>1, <2>1 DEF Refers
  <1>2. CASE UNCHANGED <<docs, access, password, log>>
             /\ \E p \in DOMAIN pairs : used[p] = "recent" /\ used' = [used EXCEPT ![p] = "old"]
    <2>1. PICK p \in DOMAIN pairs : used' = [used EXCEPT ![p] = "old"]
      BY <1>2
    <2> DEFINE o == "old"
    <2>2. o \in {"no", "recent", "old"} /\ used' = [used EXCEPT ![p] = o] /\ p \in DOMAIN used
      BY <2>1, Stored
    <2> HIDE DEF o
    <2>3. used' \in Seq({"no", "recent", "old"}) /\ Len(used') = Len(used)
      BY <2>2, Replaced DEF Typed
    <2>4. Typed'
      BY <1>0, <1>2, <2>3 DEF Typed
    <2> QED BY <1>0, <1>2, <2>3, <2>4 DEF Refers
  <1>3. CASE UNCHANGED <<used, access, password>> /\ \E s \in DOMAIN docs : SessionExpires(s)
    <2>1. PICK s \in DOMAIN docs : SessionExpires(s)
      BY <1>3
    <2>2. docs' \in Seq(Docs) /\ DOMAIN docs' = DOMAIN docs /\ Len(docs') = Len(docs)
      BY <2>1, Expires
    <2>3. log' = [log EXCEPT !.faults = log.faults + 1, !.upset = TRUE]
      BY <2>1 DEF SessionExpires
    <2>4. log \in Logs /\ log.faults + 1 \in Nat
      BY DEF Typed, Logs
    <2>5. log' \in Logs
      BY <2>3, <2>4 DEF Logs
    <2>6. Typed'
      BY <1>0, <1>3, <2>2, <2>5 DEF Typed
    <2> QED BY <1>0, <1>3, <2>2, <2>6 DEF Refers
  <1>4. CASE UNCHANGED <<docs, used, access, log>> /\ StoreNewHash
    <2>1. password' \in [version : 1..2, legacy : BOOLEAN, pending : BOOLEAN]
      BY <1>4 DEF StoreNewHash
    <2>2. Typed'
      BY <1>0, <1>4, <2>1 DEF Typed
    <2> QED BY <1>0, <1>4, <2>2 DEF Refers
  <1> QED BY <1>1, <1>2, <1>3, <1>4, TimeWrites

(* An exchange, a sign-in and a revocation keep what a session holds its own. *)
LEMMA CurrentKept ==
    ASSUME SessionAssumption, Typed, Refers, Current, NEW t \in Tabs, TabStep(t)
    PROVE  Current'
  <1> DEFINE m == Len(pairs)
             n == Len(docs)
  <1>0. /\ m \in Nat /\ n \in Nat /\ DOMAIN docs = 1..n /\ DOMAIN pairs = 1..m
        /\ \A p \in DOMAIN pairs : /\ pairs[p].session \in DOMAIN docs /\ pairs[p].from < p
                                  /\ pairs[p].from \in Nat
        /\ \A s \in DOMAIN docs : docs[s] \in Docs
    BY Stored DEF Refers, Pairs
  <1> HIDE DEF m, n
  <1>1. CASE Rotate(t)
    <2> DEFINE o == call[t].session
               q == call[t].pair
    <2>0. /\ o \in DOMAIN docs /\ q \in DOMAIN pairs /\ NewPair = m + 1 /\ q # NoPair
          /\ Active(o) /\ docs[o].pair = q
          /\ DOMAIN docs' = DOMAIN docs
          /\ \A s \in DOMAIN docs : s # o => docs'[s] = docs[s]
          /\ DOMAIN pairs' = 1..NewPair
          /\ pairs'[NewPair] = [session |-> o, from |-> q]
          /\ \A p \in DOMAIN pairs : pairs'[p] = pairs[p]
      BY <1>1, Rotates DEF m, n
    <2>9. docs'[o] = [docs[o] EXCEPT !.pair = NewPair]
      BY <1>1, Rotates
    <2> HIDE DEF o, q
    <2>1. docs'[o].pair = m + 1 /\ docs'[o].revoked = docs[o].revoked /\ docs[o].revoked = "no"
      BY <1>0, <2>0, <2>9 DEF Docs, Active
    <2>2. pairs[q].session = o /\ \A p \in DOMAIN pairs : pairs[p].from # q
      BY <2>0 DEF Current
    <2>3. \A p \in 1..m + 1 : p \in DOMAIN pairs \/ p = m + 1
      BY <1>0
    <2>4. pairs'[m + 1].session = o /\ pairs'[m + 1].from = q
      BY <2>0
    <2>5. ASSUME NEW s \in DOMAIN docs', docs'[s].pair # NoPair
          PROVE  /\ docs'[s].pair \in DOMAIN pairs' /\ pairs'[docs'[s].pair].session = s
                 /\ \A p \in DOMAIN pairs' : pairs'[p].from # docs'[s].pair
      <3>1. CASE s = o
        BY <1>0, <2>0, <2>1, <2>3, <2>4, <3>1
      <3>2. CASE s # o
        <4>1. docs[s].pair # NoPair /\ docs'[s].pair = docs[s].pair
          BY <2>0, <2>5, <3>2
        <4>2. /\ docs[s].pair \in DOMAIN pairs /\ pairs[docs[s].pair].session = s
              /\ \A p \in DOMAIN pairs : pairs[p].from # docs[s].pair
          BY <2>0, <4>1 DEF Current
        <4>3. docs[s].pair # q
          BY <2>2, <3>2, <4>2
        <4>4. docs[s].pair \in DOMAIN pairs' /\ pairs'[docs[s].pair].session = s
          BY <1>0, <2>0, <4>2
        <4>5. \A p \in DOMAIN pairs' : pairs'[p].from # docs[s].pair
          BY <2>0, <2>3, <2>4, <4>2, <4>3
        <4> QED BY <4>1, <4>4, <4>5
      <3> QED BY <3>1, <3>2
    <2>6. \A s \in DOMAIN docs' : docs'[s].revoked # "no" => docs'[s].pair = NoPair
      BY <2>0, <2>1 DEF Current
    <2>7. \A p \in DOMAIN pairs' : pairs'[p].from # NoPair =>
             pairs'[pairs'[p].from].session = pairs'[p].session
      <3> SUFFICES ASSUME NEW p \in 1..m + 1, pairs'[p].from # NoPair
                   PROVE  pairs'[pairs'[p].from].session = pairs'[p].session
        BY <2>0
      <3>1. CASE p \in DOMAIN pairs
        <4>1. pairs[p].from \in DOMAIN pairs
          BY <1>0, <2>0, <3>1 DEF NoPair
        <4> QED BY <2>0, <3>1, <4>1 DEF Current
      <3>2. CASE p = m + 1
        BY <2>0, <2>2, <2>4, <3>2
      <3> QED BY <2>3, <3>1, <3>2
    <2>8. \A p, r \in DOMAIN pairs' :
             pairs'[p].from # NoPair /\ p # r => pairs'[r].from # pairs'[p].from
      BY <2>0, <2>2, <2>3, <2>4 DEF Current
    <2> QED BY <2>5, <2>6, <2>7, <2>8 DEF Current
  <1>2. CASE Create(t)
    <2>0. /\ NewPair = m + 1 /\ DOMAIN docs' = 1..n + 1
          /\ docs'[n + 1] = NewDoc(t)
          /\ \A s \in DOMAIN docs : docs'[s] = docs[s]
          /\ DOMAIN pairs' = 1..NewPair
          /\ pairs'[NewPair] = [session |-> n + 1, from |-> NoPair]
          /\ \A p \in DOMAIN pairs : pairs'[p] = pairs[p]
      BY <1>2, Creates DEF m, n
    <2>1. docs'[n + 1].pair = m + 1 /\ docs'[n + 1].revoked = "no"
      BY <2>0 DEF NewDoc
    <2>3. /\ \A p \in 1..m + 1 : p \in DOMAIN pairs \/ p = m + 1
          /\ \A s \in 1..n + 1 : s \in DOMAIN docs \/ s = n + 1
      BY <1>0
    <2>4. pairs'[m + 1].session = n + 1 /\ pairs'[m + 1].from = NoPair
      BY <2>0
    <2>5. ASSUME NEW s \in DOMAIN docs', docs'[s].pair # NoPair
          PROVE  /\ docs'[s].pair \in DOMAIN pairs' /\ pairs'[docs'[s].pair].session = s
                 /\ \A p \in DOMAIN pairs' : pairs'[p].from # docs'[s].pair
      <3>1. CASE s = n + 1
        BY <1>0, <2>0, <2>1, <2>3, <2>4, <3>1 DEF NoPair
      <3>2. CASE s \in DOMAIN docs
        <4>2. /\ docs[s].pair \in DOMAIN pairs /\ pairs[docs[s].pair].session = s
              /\ \A p \in DOMAIN pairs : pairs[p].from # docs[s].pair
              /\ docs'[s].pair = docs[s].pair
          BY <2>0, <2>5, <3>2 DEF Current
        <4> QED BY <1>0, <2>0, <2>3, <2>4, <2>5, <4>2
      <3> QED BY <2>0, <2>3, <3>1, <3>2
    <2>6. \A s \in DOMAIN docs' : docs'[s].revoked # "no" => docs'[s].pair = NoPair
      BY <2>0, <2>1, <2>3 DEF Current
    <2>7. \A p \in DOMAIN pairs' : pairs'[p].from # NoPair =>
             pairs'[pairs'[p].from].session = pairs'[p].session
      <3> SUFFICES ASSUME NEW p \in 1..m + 1, pairs'[p].from # NoPair
                   PROVE  pairs'[pairs'[p].from].session = pairs'[p].session
        BY <2>0
      <3>1. p \in DOMAIN pairs /\ pairs'[p] = pairs[p]
        BY <2>0, <2>3, <2>4
      <3>2. pairs[p].from \in DOMAIN pairs
        BY <1>0, <3>1 DEF NoPair
      <3> QED BY <2>0, <3>1, <3>2 DEF Current
    <2>8. \A p, r \in DOMAIN pairs' :
             pairs'[p].from # NoPair /\ p # r => pairs'[r].from # pairs'[p].from
      BY <2>0, <2>3, <2>4 DEF Current
    <2> QED BY <2>5, <2>6, <2>7, <2>8 DEF Current
  <1>3. CASE Save(t)
    <2>1. UNCHANGED pairs
      BY <1>3 DEF Save
    <2>2. /\ DOMAIN docs' = DOMAIN docs
          /\ \A s \in DOMAIN docs : docs'[s] = docs[s] \/ docs'[s].pair = NoPair
      BY <1>3, SavesHeld
    <2> QED BY <2>1, <2>2 DEF Current
  <1>4. CASE UNCHANGED <<docs, pairs>>
    BY <1>4 DEF Current
  <1> QED BY <1>1, <1>2, <1>3, <1>4, TabWrites

(* So does time. *)
LEMMA TimeKeepsCurrent ==
    ASSUME SessionAssumption, Typed, Refers, Current, TimeStep
    PROVE  Current'
  <1>1. CASE UNCHANGED docs
    BY <1>1, TimeWrites DEF Current
  <1>2. ASSUME NEW s \in DOMAIN docs, SessionExpires(s)
        PROVE  Current'
    <2>1. /\ DOMAIN docs' = DOMAIN docs
          /\ \A r \in DOMAIN docs : /\ docs'[r].pair = docs[r].pair
                                    /\ docs'[r].revoked = docs[r].revoked
      BY <1>2, Expires DEF Docs
    <2> QED BY <2>1, TimeWrites DEF Current
  <1> QED BY <1>1, <1>2, TimeWrites

TokensInv == Typed /\ Refers /\ Current

(* Nobody is signed in at first. *)
LEMMA TokensInit == ASSUME SessionAssumption, SessionInit PROVE TokensInv
  <1>1. Typed
    <2>1. log \in Logs
      BY DEF SessionInit, Logs
    <2>2. password \in [version : 1..2, legacy : BOOLEAN, pending : BOOLEAN]
      BY DEF SessionInit
    <2>3. docs \in Seq(Docs) /\ pairs \in Seq(Pairs) /\ used \in Seq({"no", "recent", "old"})
      BY DEF SessionInit
    <2>4. jar \in [Browsers -> Nat] /\ call \in [Tabs -> Calls \cup {Idle}]
      BY DEF SessionInit, NoPair
    <2> QED BY <2>1, <2>2, <2>3, <2>4 DEF SessionInit, Typed
  <1>2. Refers
    BY DEF SessionInit, Refers, NoPair, SessionAssumption
  <1>3. Current
    BY DEF SessionInit, Current
  <1> QED BY <1>1, <1>2, <1>3 DEF TokensInv

(* Every step keeps them. *)
LEMMA TokensStep ==
    ASSUME SessionAssumption, TokensInv, [SessionNext]_sessionVars
    PROVE  TokensInv'
  <1>1. CASE UNCHANGED <<jar, call, docs, pairs, access, used, password, log, scenario>>
    <2>1. Typed' /\ Refers'
      BY <1>1 DEF TokensInv, Typed, Refers
    <2>2. Current'
      BY <1>1 DEF TokensInv, Current
    <2> QED BY <2>1, <2>2 DEF TokensInv
  <1>2. ASSUME NEW t \in Tabs, TabStep(t), UNCHANGED scenario
        PROVE  TokensInv'
    BY <1>2, TabKeepsTyped, CurrentKept DEF TokensInv
  <1>3. CASE TimeStep /\ UNCHANGED scenario
    BY <1>3, TimeKeepsTyped, TimeKeepsCurrent DEF TokensInv
  <1> QED BY <1>1, <1>2, <1>3, Steps DEF TokensInv

(* They are what is promised of tokens. *)
LEMMA TokensFollow == ASSUME SessionAssumption, TokensInv PROVE TokensAreSound
  <1>1. /\ Len(pairs) \in Nat /\ Len(used) = Len(pairs) /\ Len(pairs) <= MaxPairs
        /\ DOMAIN pairs = 1..Len(pairs) /\ MaxPairs \in Nat
        /\ \A p \in DOMAIN pairs : pairs[p] \in Pairs /\ used[p] \in {"no", "recent", "old"}
    BY Stored DEF TokensInv, Refers, SessionAssumption
  <1>2. jar \in [Browsers -> 0..MaxPairs]
    BY <1>1 DEF TokensInv, Typed, Refers
  <1>3. \A p \in DOMAIN pairs : /\ pairs[p].session \in DOMAIN docs
                               /\ pairs[p].from \in 0..(p - 1)
    BY <1>1 DEF TokensInv, Refers, Pairs
  <1>4. SessionTypeOK
    BY <1>1, <1>2, <1>3 DEF SessionTypeOK, TokensInv, Typed, Refers
  <1> QED BY <1>4 DEF TokensAreSound, TokensInv, Current

(* Every refresh token is exchanged at most once, for a pair of its own session;
   what a session holds is not exchanged, and a revoked one holds nothing. *)
THEOREM TokensStaySound == SessionSpec => []TokensAreSound
  <1>1. SessionInit => TokensInv
    BY SessionAssumption, TokensInit
  <1>2. TokensInv /\ [SessionNext]_sessionVars => TokensInv'
    BY SessionAssumption, TokensStep
  <1>3. TokensInv => TokensAreSound
    BY SessionAssumption, TokensFollow
  <1> QED BY <1>1, <1>2, <1>3, PTL DEF SessionSpec

(***************************************************************************)
(* How calls go on.                                                        *)
(***************************************************************************)
Resets(t)   == call[t] # Idle /\ call[t].kind = "reset"
LogsIn(t)   == call[t] # Idle /\ call[t].kind = "login"

(* What a call begins with. *)
Fresh(c) ==
    /\ c # Idle /\ c.version # 1 /\ c.next = NoPair
    /\ c.then # "refresh" /\ c.then # "limit" /\ c.pc # "save"
    /\ c.kind = "login" => c.then = "replaced" /\ c.pc \in {"verify", "snap"}
    /\ c.kind = "reset" => c.pc = "snap"

(* What a user does begins a call, and touches nothing else. *)
LEMMA Begun ==
    ASSUME Typed, NEW t \in Tabs, Begins(t)
    PROVE  /\ call[t] = Idle /\ Fresh(call'[t])
           /\ UNCHANGED <<jar, docs, pairs, access, used, password>>
           /\ \A u \in Tabs \ {t} : call'[u] = call[u]
           /\ log'.overlaps = (log.overlaps \/ (call'[t].kind = "login" /\ \E u \in Tabs : LogsIn(u)))
           /\ call'[t].kind = "reset" => ~log.reset /\ \A u \in Tabs : ~Resets(u)
           /\ log'.reset = log.reset /\ log'.rehashed = log.rehashed
           /\ log'.upset = log.upset /\ log'.blind = log.blind /\ log'.faults = log.faults
  <1>0. call \in [Tabs -> Calls \cup {Idle}] /\ log \in Logs
    BY DEF Typed
  <1> DEFINE x == \E u \in Tabs : LogsIn(u)
             y == log.overlaps \/ x
             Same == /\ log'.reset = log.reset /\ log'.rehashed = log.rehashed
                     /\ log'.upset = log.upset /\ log'.blind = log.blind
                     /\ log'.faults = log.faults
  <1>1. ASSUME NEW new, Begin(t, new)
        PROVE  /\ call[t] = Idle /\ UNCHANGED <<jar, docs, pairs, access, used, password>>
               /\ call'[t] = new /\ \A u \in Tabs \ {t} : call'[u] = call[u]
    BY <1>0, <1>1 DEF Begin
  <1>2. Counted => log'.overlaps = log.overlaps /\ Same
    BY <1>0 DEF Counted, Logs
  <1>3. log' = [log EXCEPT !.calls = log.calls + 1, !.overlaps = y] => log'.overlaps = y /\ Same
    <2> HIDE DEF y
    <2> QED BY <1>0 DEF Logs
  <1>4. ASSUME NEW b \in Browsers, NEW kind \in Asks, Ask(t, b, kind)
        PROVE  /\ Begin(t, call'[t]) /\ Fresh(call'[t]) /\ Counted
               /\ call'[t].kind # "login" /\ call'[t].kind # "reset"
    <2>1. call'[t] = Call(kind, b, "lookup", "none", jar[b])
      BY <1>1, <1>4 DEF Ask
    <2> QED BY <1>4, <2>1 DEF Ask, Fresh, Call, Asks, Idle
  <1>5. ASSUME NEW b \in Browsers, LogIn(t, b)
        PROVE  /\ Begin(t, call'[t]) /\ Fresh(call'[t]) /\ call'[t].kind = "login"
               /\ log' = [log EXCEPT !.calls = log.calls + 1, !.overlaps = y]
    <2>1. call'[t] = Call("login", b, "verify", "replaced", NoPair)
      BY <1>1, <1>5 DEF LogIn
    <2>2. log' = [log EXCEPT !.calls = log.calls + 1, !.overlaps = y]
      BY <1>5 DEF LogIn, LogsIn
    <2> HIDE DEF y
    <2> QED BY <1>5, <2>1, <2>2 DEF LogIn, Fresh, Call, Idle
  <1>6. ASSUME NEW b \in Browsers, LogInOtherwise(t, b)
        PROVE  /\ Begin(t, call'[t]) /\ Fresh(call'[t]) /\ call'[t].kind = "login"
               /\ log' = [log EXCEPT !.calls = log.calls + 1, !.overlaps = y]
    <2>1. call'[t] = [Call("login", b, "snap", "replaced", NoPair) EXCEPT !.version = 2]
      BY <1>1, <1>6 DEF LogInOtherwise
    <2>2. log' = [log EXCEPT !.calls = log.calls + 1, !.overlaps = y]
      BY <1>6 DEF LogInOtherwise, LogsIn
    <2> HIDE DEF y
    <2> QED BY <1>6, <2>1, <2>2 DEF LogInOtherwise, Fresh, Call, Idle
  <1>7. ASSUME NEW b \in Browsers, LogOut(t, b)
        PROVE  /\ Begin(t, call'[t]) /\ Fresh(call'[t]) /\ Counted
               /\ call'[t].kind # "login" /\ call'[t].kind # "reset"
    <2>1. call'[t] = Call("logout", b, "find", "logout", jar[b])
      BY <1>1, <1>7 DEF LogOut
    <2> QED BY <1>7, <2>1 DEF LogOut, Fresh, Call, Idle
  <1>8. ASSUME NEW b \in Browsers, ResetPassword(t, b)
        PROVE  /\ Begin(t, call'[t]) /\ Fresh(call'[t]) /\ Counted
               /\ call'[t].kind # "login" /\ ~log.reset /\ \A u \in Tabs : ~Resets(u)
    <2>1. call'[t] = Call("reset", b, "snap", "reset", NoPair)
      BY <1>1, <1>8 DEF ResetPassword
    <2> QED BY <1>8, <2>1 DEF ResetPassword, Fresh, Call, Idle, Resets
  <1> HIDE DEF Same, y
  <1>9. \/ /\ Begin(t, call'[t]) /\ Fresh(call'[t]) /\ Counted /\ call'[t].kind # "login"
           /\ call'[t].kind = "reset" => ~log.reset /\ \A u \in Tabs : ~Resets(u)
        \/ /\ Begin(t, call'[t]) /\ Fresh(call'[t]) /\ call'[t].kind = "login"
           /\ log' = [log EXCEPT !.calls = log.calls + 1, !.overlaps = y]
    BY <1>4, <1>5, <1>6, <1>7, <1>8 DEF Begins
  <1>10. CASE /\ Begin(t, call'[t]) /\ Fresh(call'[t]) /\ Counted /\ call'[t].kind # "login"
              /\ call'[t].kind = "reset" => ~log.reset /\ \A u \in Tabs : ~Resets(u)
    <2>1. log.overlaps \in BOOLEAN
      BY <1>0 DEF Logs
    <2> QED BY <1>1, <1>2, <1>10, <2>1 DEF Same
  <1>11. CASE /\ Begin(t, call'[t]) /\ Fresh(call'[t]) /\ call'[t].kind = "login"
              /\ log' = [log EXCEPT !.calls = log.calls + 1, !.overlaps = y]
    BY <1>1, <1>3, <1>11 DEF Same, y
  <1> QED BY <1>9, <1>10, <1>11

(* What others' calls are after a step. *)
LEMMA OthersSame ==
    ASSUME SessionAssumption, Typed, Refers, NEW t \in Tabs, TabStep(t), NEW u \in Tabs \ {t}
    PROVE  /\ call'[u] = Idle <=> call[u] = Idle
           /\ call[u] # Idle =>
                 /\ call'[u].kind = call[u].kind /\ call'[u].pc = call[u].pc
                 /\ call'[u].then = call[u].then /\ call'[u].browser = call[u].browser
                 /\ call'[u].pair = call[u].pair /\ call'[u].next = call[u].next
                 /\ call'[u].session = call[u].session /\ call'[u].held = call[u].held
                 /\ call'[u].version = call[u].version
                 /\ call[u].overlap => call'[u].overlap
  <1>1. call'[u] = call[u] \/ Noted(call[u], call'[u])
    BY CallsStep
  <1>2. ASSUME Noted(call[u], call'[u])
        PROVE  /\ call[u] # Idle /\ call'[u] # Idle
               /\ call'[u].kind = call[u].kind /\ call'[u].pc = call[u].pc
               /\ call'[u].then = call[u].then /\ call'[u].browser = call[u].browser
               /\ call'[u].pair = call[u].pair /\ call'[u].next = call[u].next
               /\ call'[u].session = call[u].session /\ call'[u].held = call[u].held
               /\ call'[u].version = call[u].version
               /\ call[u].overlap => call'[u].overlap
    <2>1. call[u] \in Calls /\ call'[u] = [call[u] EXCEPT !.overlap = TRUE]
      BY <1>2 DEF Noted
    <2>2. /\ call'[u].kind = call[u].kind /\ call'[u].pc = call[u].pc
          /\ call'[u].then = call[u].then /\ call'[u].browser = call[u].browser
          /\ call'[u].pair = call[u].pair /\ call'[u].next = call[u].next
          /\ call'[u].session = call[u].session /\ call'[u].held = call[u].held
          /\ call'[u].version = call[u].version
          /\ call[u].overlap => call'[u].overlap
      BY <2>1 DEF Calls
    <2>3. call[u] # Idle /\ call[u].pc # "idle"
      BY <2>1, IdleIsNoCall
    <2>4. call'[u] # Idle
      BY <2>2, <2>3 DEF Idle
    <2> QED BY <2>2, <2>3, <2>4
  <1> QED BY <1>1, <1>2

(* What is left of a call while it goes on. *)
Kept(c, d) == /\ d # Idle /\ d.kind = c.kind /\ d.browser = c.browser
              /\ d.version = c.version /\ d.overlap = c.overlap
To(c, d, pc, then) == Kept(c, d) /\ d.pc = pc /\ d.then = then
Bears(c, d) == d.pair = c.pair /\ d.session = c.session /\ d.next = c.next /\ d.held = c.held

(* A call that has revoked what it had to keeps what it bears. *)
LEMMA OnwardKeeps ==
    ASSUME NEW m \in Nat, NEW n \in Nat, NEW c \in Calls, Ready(c, m, n), NEW t,
           c.pc \in {"snap", "strike", "save"} \/ c.then = "logout"
    PROVE  \/ Onward(t, c) = Idle
           \/ /\ Bears(c, Onward(t, c))
              /\ \/ To(c, Onward(t, c), "set", c.then) /\ c.then = "reset"
                 \/ To(c, Onward(t, c), "create", c.then) /\ c.then = "replaced"
                 \/ To(c, Onward(t, c), "clear", c.then) /\ c.kind # "login"
                 \/ /\ To(c, Onward(t, c), "issued", c.then)
                    /\ c.then = "limit" /\ c.kind = "login"
                 \/ To(c, Onward(t, c), "snap", "limit") /\ c.kind # "login"
  <1>1. \/ Onward(t, c) = Idle
        \/ Onward(t, c) = [c EXCEPT !.pc = "set"] /\ c.then = "reset"
        \/ Onward(t, c) = [c EXCEPT !.pc = "create"] /\ c.then = "replaced"
        \/ Onward(t, c) = [c EXCEPT !.pc = "clear"] /\ c.kind # "login"
        \/ /\ Onward(t, c) = [c EXCEPT !.pc = "issued"]
           /\ c.then = "limit" /\ c.kind = "login"
        \/ Onward(t, c) = [c EXCEPT !.pc = "snap", !.then = "limit"] /\ c.kind # "login"
    BY GoesOnward, Zenon
  <1> DEFINE o == Onward(t, c)
  <1> HIDE DEF o
  <1>2. ASSUME o = [c EXCEPT !.pc = "set"] PROVE Bears(c, o) /\ To(c, o, "set", c.then)
    BY <1>2 DEF Calls, Bears, To, Kept, Idle
  <1>3. ASSUME o = [c EXCEPT !.pc = "create"] PROVE Bears(c, o) /\ To(c, o, "create", c.then)
    BY <1>3 DEF Calls, Bears, To, Kept, Idle
  <1>4. ASSUME o = [c EXCEPT !.pc = "clear"] PROVE Bears(c, o) /\ To(c, o, "clear", c.then)
    BY <1>4 DEF Calls, Bears, To, Kept, Idle
  <1>5. ASSUME o = [c EXCEPT !.pc = "issued"] PROVE Bears(c, o) /\ To(c, o, "issued", c.then)
    BY <1>5 DEF Calls, Bears, To, Kept, Idle
  <1>6. ASSUME o = [c EXCEPT !.pc = "snap", !.then = "limit"]
        PROVE  Bears(c, o) /\ To(c, o, "snap", "limit")
    BY <1>6 DEF Calls, Bears, To, Kept, Idle
  <1> QED BY <1>1, <1>2, <1>3, <1>4, <1>5, <1>6 DEF o

(* What the step of a tab makes of its call. *)
Goes(t) ==
    LET c == call[t]
        d == call'[t]
    IN  \/ Lookup(t) /\ (To(c, d, "check", c.then) \/ To(c, d, "refused", c.then)) /\ Bears(c, d)
        \/ Check(t) /\ To(c, d, "refused", c.then) /\ Bears(c, d)
        \/ /\ Check(t) /\ (\E k \in {"limit", "others", "one"} : To(c, d, "snap", k))
           /\ c.kind # "login" /\ d.pair = c.pair /\ d.next = c.next /\ d.held = c.held
        \/ /\ SendRefresh(t) /\ To(c, d, "marker", "refresh")
           /\ d.pair = jar[c.browser] /\ d.next = c.next /\ d.pair # NoPair
        \/ /\ ReadMarker(t) /\ To(c, d, "find", c.then) /\ Bears(c, d)
           /\ used[c.pair] = "no"
        \/ ReadMarker(t) /\ To(c, d, "snap", "reuse") /\ Bears(c, d) /\ used[c.pair] = "old"
        \/ /\ FindByRefresh(t) /\ To(c, d, "mark", c.then) /\ d.pair = c.pair /\ d.next = c.next
           /\ d.session = pairs[c.pair].session
           /\ Active(d.session) /\ docs[d.session].pair = d.pair
        \/ Mark(t) /\ To(c, d, "rotate", c.then) /\ Bears(c, d)
        \/ Rotate(t) /\ To(c, d, "record", c.then) /\ d.pair = c.pair /\ d.next = NewPair
        \/ LosesRotation(t) /\ To(c, d, "snap", "reuse") /\ Bears(c, d)
        \/ Record(t) /\ To(c, d, "snap", "limit") /\ Bears(c, d) /\ c.kind = "login"
        \/ Record(t) /\ To(c, d, "issued", c.then) /\ Bears(c, d) /\ c.kind # "login"
        \/ Issued(t) /\ To(c, d, "lookup", "none") /\ c.kind # "login" /\ d.pair = c.next
        \/ Verify(t) /\ d # Idle /\ d.kind = c.kind /\ d.browser = c.browser /\ d.pc = "snap"
           /\ d.then = c.then /\ d.next = c.next /\ d.version = password.version
           /\ d.overlap = (\E u \in Tabs : Resets(u))
        \/ Create(t) /\ To(c, d, "record", c.then) /\ d.next = NewPair
        \/ /\ Snap(t) \/ FindForLogout(t)
           /\ To(c, d, "strike", c.then) /\ d.next = c.next
           /\ d.pair = c.pair
           /\ Snap(t) => DOMAIN d.held = Victims(t)
        \/ Snap(t) /\ d = Onward(t, c) /\ Victims(t) = {}
        \/ FindForLogout(t) /\ d = Onward(t, c)
        \/ Strike(t) /\ To(c, d, "save", c.then) /\ Bears(c, d)
        \/ Save(t) /\ d = Onward(t, c)

(* A step that does not begin or end a call takes it along. *)
LEMMA OwnStep ==
    ASSUME SessionAssumption, Typed, Refers, NEW t \in Tabs, TabStep(t),
           ~Begins(t), call'[t] # Idle
    PROVE  call[t] \in Calls /\ Ready(call[t], Len(pairs), Len(docs)) /\ Goes(t)
  <1> DEFINE c == call[t]
             d == call'[t]
  <1>0. call \in [Tabs -> Calls \cup {Idle}] /\ jar \in [Browsers -> Nat]
    BY DEF Typed
  <1>a. ASSUME (c.pc # "idle") \/ c # Idle
        PROVE  c \in Calls /\ Ready(c, Len(pairs), Len(docs)) /\ c # Idle
    BY <1>a, AtStep
  <1>b. ASSUME NEW e, call' = [call EXCEPT ![t] = e]
        PROVE  d = e
    BY <1>0, <1>b
  <1>c. ASSUME NEW k \in Places, c \in Calls, call' = [call EXCEPT ![t] = [c EXCEPT !.pc = k]]
        PROVE  To(c, d, k, c.then) /\ Bears(c, d)
    <2>1. d = [c EXCEPT !.pc = k]
      BY <1>b, <1>c
    <2>2. k # "idle"
      BY DEF Places
    <2> QED BY <1>c, <2>1, <2>2 DEF To, Kept, Bears, Calls, Idle
  <1>d. ASSUME NEW k \in Places, NEW r \in Roads, c \in Calls,
               call' = [call EXCEPT ![t] = [c EXCEPT !.pc = k, !.then = r]]
        PROVE  To(c, d, k, r) /\ Bears(c, d)
    <2>1. d = [c EXCEPT !.pc = k, !.then = r]
      BY <1>b, <1>d
    <2> DEFINE e == [c EXCEPT !.pc = k, !.then = r]
    <2>4. DOMAIN c = DOMAIN e /\ e.pc = k /\ e.then = r
      BY <1>d DEF Calls
    <2>5. e.pair = c.pair /\ e.session = c.session /\ e.next = c.next /\ e.held = c.held
      BY <1>d DEF Calls
    <2>6. e.kind = c.kind /\ e.browser = c.browser /\ e.version = c.version
          /\ e.overlap = c.overlap
      BY <1>d DEF Calls
    <2>2. d.pc = k /\ d.then = r /\ Bears(c, d) /\ d.kind = c.kind /\ d.browser = c.browser
          /\ d.version = c.version /\ d.overlap = c.overlap
      BY <2>1, <2>4, <2>5, <2>6 DEF Bears
    <2>3. d # Idle
      BY <2>2 DEF Places, Idle
    <2> QED BY <2>2, <2>3 DEF To, Kept
  <1>1. CASE Lookup(t)
    <2>1. c \in Calls /\ Ready(c, Len(pairs), Len(docs))
      BY <1>1, <1>a DEF Lookup
    <2>2. \/ call' = [call EXCEPT ![t] = [c EXCEPT !.pc = "check"]]
          \/ call' = [call EXCEPT ![t] = [c EXCEPT !.pc = "refused"]]
      BY <1>1, <1>b DEF Lookup, Go, Refused, Over, Set
    <2>3. (To(c, d, "check", c.then) \/ To(c, d, "refused", c.then)) /\ Bears(c, d)
      BY <1>c, <2>1, <2>2 DEF Places
    <2> QED BY <1>1, <2>1, <2>3 DEF Goes
  <1>2. CASE Check(t)
    <2>1. c \in Calls /\ Ready(c, Len(pairs), Len(docs)) /\ c.pc = "check"
      BY <1>2, <1>a DEF Check
    <2> DEFINE o == pairs[c.pair].session
               k == WhatFollows[c.kind]
    <2>2. \/ call' = [call EXCEPT ![t] = [c EXCEPT !.pc = "refused"]]
          \/ k # "none" /\ \E v \in IF k = "one" THEN DOMAIN docs ELSE {o} :
                call' = [call EXCEPT ![t] = [c EXCEPT !.pc = "snap", !.then = k,
                                                      !.session = o, !.target = v]]
      BY <1>2, <1>b DEF Check, Refused, Over, Set, Go
    <2>3. CASE call' = [call EXCEPT ![t] = [c EXCEPT !.pc = "refused"]]
      <3>1. To(c, d, "refused", c.then) /\ Bears(c, d)
        BY <1>c, <2>1, <2>3 DEF Places
      <3> QED BY <1>2, <2>1, <3>1 DEF Goes
    <2>4. ASSUME k # "none", NEW v,
                 call' = [call EXCEPT ![t] = [c EXCEPT !.pc = "snap", !.then = k,
                                                       !.session = o, !.target = v]]
          PROVE  Goes(t)
      <3>1. c.kind \in Asks
        BY <2>1 DEF Ready, OnRoad
      <3>2. k \in {"limit", "others", "one"} /\ c.kind # "login"
        BY <2>4, <3>1 DEF WhatFollows, Asks
      <3>3. d = [c EXCEPT !.pc = "snap", !.then = k, !.session = o, !.target = v]
        BY <1>b, <2>4
      <3> HIDE DEF k, o
      <3>4. To(c, d, "snap", k) /\ d.pair = c.pair /\ d.next = c.next /\ d.held = c.held
        BY <2>1, <3>3 DEF To, Kept, Calls, Idle
      <3>5. \E r \in {"limit", "others", "one"} : To(c, d, "snap", r)
        BY <3>2, <3>4
      <3> QED BY <1>2, <2>1, <3>2, <3>4, <3>5 DEF Goes
    <2> QED BY <2>1, <2>2, <2>3, <2>4
  <1>3. CASE SendRefresh(t)
    <2>1. c \in Calls /\ Ready(c, Len(pairs), Len(docs))
      BY <1>3, <1>a DEF SendRefresh
    <2> DEFINE p == jar[c.browser]
    <2>2. p # NoPair /\ d = [c EXCEPT !.pc = "marker", !.then = "refresh", !.pair = p]
      BY <1>3, <1>b DEF SendRefresh, Over, Set
    <2> HIDE DEF p
    <2>3. To(c, d, "marker", "refresh") /\ d.pair = p /\ d.next = c.next
      BY <2>1, <2>2 DEF To, Kept, Calls, Idle
    <2> QED BY <1>3, <2>1, <2>2, <2>3 DEF Goes, p
  <1>4. CASE ReadMarker(t)
    <2>1. c \in Calls /\ Ready(c, Len(pairs), Len(docs)) /\ c.pc = "marker"
      BY <1>4, <1>a DEF ReadMarker
    <2>2. used[c.pair] \in {"no", "recent", "old"}
      BY <2>1, Stored DEF Ready, NoPair
    <2>3. \/ /\ call' = [call EXCEPT ![t] = [c EXCEPT !.pc = "find"]]
             /\ used[c.pair] = "no"
          \/ /\ call' = [call EXCEPT ![t] = [c EXCEPT !.pc = "snap", !.then = "reuse"]]
             /\ used[c.pair] = "old"
      BY <1>4, <1>b, <2>2 DEF ReadMarker, Go, Over, Alarm, Set
    <2>4. \/ To(c, d, "find", c.then) /\ Bears(c, d) /\ used[c.pair] = "no"
          \/ To(c, d, "snap", "reuse") /\ Bears(c, d) /\ used[c.pair] = "old"
      BY <1>c, <1>d, <2>1, <2>3 DEF Places, Roads
    <2> QED BY <1>4, <2>1, <2>4 DEF Goes
  <1>5. CASE FindByRefresh(t)
    <2>1. c \in Calls /\ Ready(c, Len(pairs), Len(docs))
      BY <1>5, <1>a DEF FindByRefresh
    <2> DEFINE o == pairs[c.pair].session
    <2>2. d = [c EXCEPT !.pc = "mark", !.session = o] /\ Active(o) /\ docs[o].pair = c.pair
      BY <1>5, <1>b DEF FindByRefresh, Over, Set
    <2> HIDE DEF o
    <2>3. To(c, d, "mark", c.then) /\ d.pair = c.pair /\ d.session = o /\ d.next = c.next
      BY <2>1, <2>2 DEF To, Kept, Calls, Idle
    <2>4. To(c, d, "mark", c.then) /\ d.pair = c.pair /\ d.session = o /\ d.next = c.next
          /\ Active(d.session) /\ docs[d.session].pair = d.pair
      BY <2>2, <2>3
    <2> QED BY <1>5, <2>1, <2>4 DEF Goes, o
  <1>6. CASE Mark(t)
    <2>1. c \in Calls /\ Ready(c, Len(pairs), Len(docs))
      BY <1>6, <1>a DEF Mark
    <2>2. call' = [call EXCEPT ![t] = [c EXCEPT !.pc = "rotate"]]
      BY <1>6 DEF Mark, Go
    <2>3. To(c, d, "rotate", c.then) /\ Bears(c, d)
      BY <1>c, <2>1, <2>2 DEF Places
    <2> QED BY <1>6, <2>1, <2>3 DEF Goes
  <1>7. CASE Rotate(t)
    <2>1. c \in Calls /\ Ready(c, Len(pairs), Len(docs))
      BY <1>7, <1>a DEF Rotate
    <2>2. d = [c EXCEPT !.pc = "record", !.next = NewPair]
      BY <1>7, Rotates
    <2>3. To(c, d, "record", c.then) /\ d.pair = c.pair /\ d.next = NewPair
      BY <2>1, <2>2 DEF To, Kept, Calls, Idle
    <2> QED BY <1>7, <2>1, <2>3 DEF Goes
  <1>8. CASE LosesRotation(t)
    <2>1. c \in Calls /\ Ready(c, Len(pairs), Len(docs))
      BY <1>8, <1>a DEF LosesRotation
    <2>2. call' = [call EXCEPT ![t] = [c EXCEPT !.pc = "snap", !.then = "reuse"]]
      BY <1>8 DEF LosesRotation, Alarm, Set
    <2>3. To(c, d, "snap", "reuse") /\ Bears(c, d)
      BY <1>d, <2>1, <2>2 DEF Places, Roads
    <2> QED BY <1>8, <2>1, <2>3 DEF Goes
  <1>9. CASE Record(t)
    <2>1. c \in Calls /\ Ready(c, Len(pairs), Len(docs))
      BY <1>9, <1>a DEF Record
    <2>2. \/ /\ c.kind = "login"
             /\ call' = [call EXCEPT ![t] = [c EXCEPT !.pc = "snap", !.then = "limit"]]
          \/ /\ c.kind # "login"
             /\ call' = [call EXCEPT ![t] = [c EXCEPT !.pc = "issued"]]
      BY <1>9 DEF Record, Set, Go
    <2>3. \/ To(c, d, "snap", "limit") /\ Bears(c, d) /\ c.kind = "login"
          \/ To(c, d, "issued", c.then) /\ Bears(c, d) /\ c.kind # "login"
      BY <1>c, <1>d, <2>1, <2>2 DEF Places, Roads
    <2> QED BY <1>9, <2>1, <2>3 DEF Goes
  <1>10. CASE Issued(t)
    <2>1. c \in Calls /\ Ready(c, Len(pairs), Len(docs))
      BY <1>10, <1>a DEF Issued
    <2>2. jar'[c.browser] = c.next
      BY <1>0, <1>10, <2>1 DEF Issued, KeepsCookies, Calls
    <2>3. /\ c.kind # "login"
          /\ d = [c EXCEPT !.pc = "lookup", !.then = "none", !.again = TRUE, !.pair = c.next]
      BY <1>10, <1>b, <2>2 DEF Issued, Over, Set
    <2>4. To(c, d, "lookup", "none") /\ d.pair = c.next
      BY <2>1, <2>3 DEF To, Kept, Calls, Idle
    <2> QED BY <1>10, <2>1, <2>3, <2>4 DEF Goes
  <1>11. CASE Verify(t)
    <2>1. c \in Calls /\ Ready(c, Len(pairs), Len(docs))
      BY <1>11, <1>a DEF Verify
    <2> DEFINE x == \E u \in Tabs : Resets(u)
    <2>2. d = [c EXCEPT !.pc = "snap", !.version = password.version, !.overlap = x]
      BY <1>11, <1>b DEF Verify, Over, Set, Resets
    <2> HIDE DEF x
    <2>3. d.kind = c.kind /\ d.browser = c.browser /\ d.pc = "snap"
          /\ d.then = c.then /\ d.next = c.next /\ d.version = password.version /\ d.overlap = x
      BY <2>1, <2>2 DEF Calls
    <2> QED BY <1>11, <2>1, <2>3 DEF Goes, x
  <1>12. CASE Create(t)
    <2>1. c \in Calls /\ Ready(c, Len(pairs), Len(docs))
      BY <1>12, <1>a DEF Create
    <2>2. d = [c EXCEPT !.pc = "record", !.next = NewPair, !.session = Len(docs) + 1]
      BY <1>12, Creates
    <2>3. To(c, d, "record", c.then) /\ d.next = NewPair
      BY <2>1, <2>2 DEF To, Kept, Calls, Idle
    <2> QED BY <1>12, <2>1, <2>3 DEF Goes
  <1>e. ASSUME NEW f, c \in Calls, d = [c EXCEPT !.pc = "strike", !.held = f]
        PROVE  To(c, d, "strike", c.then) /\ d.next = c.next /\ d.pair = c.pair /\ d.held = f
    BY <1>e DEF To, Kept, Calls, Idle
  <1>13. CASE Snap(t)
    <2>1. c \in Calls /\ Ready(c, Len(pairs), Len(docs)) /\ c.pc = "snap"
      BY <1>13, <1>a DEF Snap
    <2> DEFINE w == Victims(t)
               f == [v \in w |-> docs[v].pair]
               mine == IF c.then = "reset" /\ c # Idle /\ c.kind = "login"
                       THEN [c EXCEPT !.overlap = TRUE] ELSE c
    <2>2. d = IF w = {} THEN Onward(t, mine) ELSE [mine EXCEPT !.pc = "strike", !.held = f]
      BY <1>0, <1>13 DEF Snap
    <2>3. mine = c
      BY <2>1 DEF Ready, OnRoad
    <2>4. DOMAIN f = w
      OBVIOUS
    <2> HIDE DEF f, w, mine
    <2>5. \/ d = Onward(t, c) /\ w = {}
          \/ /\ To(c, d, "strike", c.then) /\ d.next = c.next /\ d.pair = c.pair
             /\ DOMAIN d.held = w
      BY <1>e, <2>1, <2>2, <2>3, <2>4
    <2> QED BY <1>13, <2>1, <2>5 DEF Goes, w
  <1>14. CASE FindForLogout(t)
    <2>1. c \in Calls /\ Ready(c, Len(pairs), Len(docs)) /\ c.pc = "find"
      BY <1>14, <1>a DEF FindForLogout
    <2>2. ~Snap(t)
      BY <2>1 DEF Snap
    <2>3. d = Onward(t, c) \/ \E f : d = [c EXCEPT !.pc = "strike", !.held = f]
      BY <1>b, <1>14 DEF FindForLogout, StartRevoking, Set
    <2>4. \/ d = Onward(t, c)
          \/ To(c, d, "strike", c.then) /\ d.next = c.next /\ d.pair = c.pair
      BY <1>e, <2>1, <2>3
    <2> QED BY <1>14, <2>1, <2>2, <2>4 DEF Goes
  <1>15. CASE Strike(t)
    <2>1. c \in Calls /\ Ready(c, Len(pairs), Len(docs))
      BY <1>15, <1>a DEF Strike
    <2>2. call' = [call EXCEPT ![t] = [c EXCEPT !.pc = "save"]]
      BY <1>15 DEF Strike, Go
    <2>3. To(c, d, "save", c.then) /\ Bears(c, d)
      BY <1>c, <2>1, <2>2 DEF Places
    <2> QED BY <1>15, <2>1, <2>3 DEF Goes
  <1>16. CASE Save(t)
    <2>1. c \in Calls /\ Ready(c, Len(pairs), Len(docs))
      BY <1>16, <1>a DEF Save
    <2>2. d = Onward(t, c)
      BY <1>16, <1>b DEF Save, Set
    <2> QED BY <1>16, <2>1, <2>2 DEF Goes
  <1>17. CASE SetPassword(t) \/ ClearCookies(t) \/ Fail(t)
    BY <1>17, <1>b DEF SetPassword, ClearCookies, Fail, Over, Set
  <1> QED BY <1>1, <1>2, <1>3, <1>4, <1>5, <1>6, <1>7, <1>8, <1>9, <1>10, <1>11, <1>12, <1>13,
             <1>14, <1>15, <1>16, <1>17 DEF TabStep

(* What a step notes in the history. *)
LEMMA Noting ==
    ASSUME Typed, Refers, NEW t \in Tabs, TabStep(t)
    PROVE  /\ log.upset => log'.upset
           /\ ~log'.upset => /\ ~Strike(t) /\ ~Fail(t)
                             /\ SendRefresh(t) => \A u \in Tabs : ~Refreshes(u, jar[call[t].browser])
           /\ log'.blind => \/ log.blind
                            \/ ~log.upset /\ (LosesRotation(t) \/
                                   (ReadMarker(t) /\ used[call[t].pair] = "old"))
           /\ ~Begins(t) => log'.overlaps = log.overlaps
           /\ \/ Fail(t) /\ log'.faults = log.faults + 1 /\ log.faults \in Nat
              \/ log'.faults = log.faults
           /\ \/ SetPassword(t) /\ log'.reset /\ log'.rehashed = password.pending
              \/ ~SetPassword(t) /\ log'.reset = log.reset /\ log'.rehashed = log.rehashed
  <1>0. log \in Logs
    BY DEF Typed
  <1>f. log'.faults = log.faults => ~Fail(t)
    <2>1. log.faults \in Nat /\ log.faults + 1 # log.faults
      BY <1>0 DEF Logs
    <2>2. Fail(t) => log'.faults = log.faults + 1
      BY <1>0 DEF Fail, Logs
    <2> QED BY <2>1, <2>2
  <1>1. CASE Begins(t)
    <2>1. call[t] = Idle
      BY <1>1, Begun
    <2>2. ~Strike(t) /\ ~Fail(t) /\ ~SendRefresh(t) /\ ~SetPassword(t)
      BY <2>1 DEF Strike, Fail, SendRefresh, SetPassword, Idle
    <2> QED BY <1>1, <2>2, Begun
  <1>2. CASE Lookup(t) \/ Check(t) \/ FindByRefresh(t) \/ Mark(t) \/ Record(t)
             \/ Issued(t) \/ Verify(t) \/ Create(t) \/ ClearCookies(t)
    <2>1. UNCHANGED log
      BY <1>2 DEF Lookup, Check, FindByRefresh, Mark, Record, Issued, Verify, Create, ClearCookies
    <2>2. /\ call[t].pc \in {"lookup", "check", "find", "mark", "record", "issued", "verify",
                             "create", "clear"}
      BY <1>2 DEF Lookup, Check, FindByRefresh, Mark, Record, Issued, Verify, Create, ClearCookies
    <2>3. ~Strike(t) /\ ~SendRefresh(t) /\ ~SetPassword(t)
      BY <2>2 DEF Strike, SendRefresh, SetPassword
    <2>4. ~Fail(t)
      BY <1>f, <2>1
    <2> QED BY <2>1, <2>3, <2>4
  <1>3. CASE Snap(t) \/ FindForLogout(t)
    <2>1. UNCHANGED log /\ call[t].pc \in {"snap", "find"}
      BY <1>3 DEF Snap, FindForLogout
    <2>3. ~Strike(t) /\ ~SendRefresh(t) /\ ~SetPassword(t)
      BY <2>1 DEF Strike, SendRefresh, SetPassword
    <2>4. ~Fail(t)
      BY <1>f, <2>1
    <2> QED BY <2>1, <2>3, <2>4
  <1>4. CASE SendRefresh(t)
    <2> DEFINE y == \E u \in Tabs : Refreshes(u, jar[call[t].browser])
               x == log.upset \/ y
    <2>1. log' = [log EXCEPT !.upset = x] /\ call[t].pc = "refused"
      BY <1>4 DEF SendRefresh
    <2>2. ~Strike(t) /\ ~SetPassword(t)
      BY <2>1 DEF Strike, SetPassword
    <2>3. x \in BOOLEAN
      BY <1>0 DEF Logs
    <2>4. log.upset => x
      OBVIOUS
    <2> HIDE DEF x
    <2>5. /\ log'.upset = x /\ log'.blind = log.blind /\ log'.overlaps = log.overlaps
          /\ log'.faults = log.faults /\ log'.reset = log.reset /\ log'.rehashed = log.rehashed
      BY <1>0, <2>1 DEF Logs
    <2>6. ~Fail(t)
      BY <1>f, <2>5
    <2> QED BY <2>2, <2>4, <2>5, <2>6 DEF x
  <1>5. CASE ReadMarker(t) \/ LosesRotation(t)
    <2> DEFINE x == log.blind \/ ~log.upset
    <2>1. /\ call[t].pc \in {"marker", "rotate"}
          /\ \/ UNCHANGED log
             \/ /\ log' = [log EXCEPT !.blind = x]
                /\ LosesRotation(t) \/ (ReadMarker(t) /\ used[call[t].pair] = "old")
      <3>1. CASE LosesRotation(t)
        BY <3>1 DEF LosesRotation, Alarm
      <3>2. CASE ReadMarker(t)
        <4>1. call[t].pc = "marker"
          BY <3>2 DEF ReadMarker
        <4>2. call[t].pair \in DOMAIN used
          BY <4>1, AtStep, Stored DEF Ready, NoPair
        <4>3. used[call[t].pair] \in {"no", "recent", "old"}
          BY <4>2, Stored
        <4> QED BY <3>2, <4>1, <4>3 DEF ReadMarker, Alarm
      <3> QED BY <1>5, <3>1, <3>2
    <2>2. ~Strike(t) /\ ~SetPassword(t) /\ ~SendRefresh(t)
      BY <2>1 DEF Strike, SetPassword, SendRefresh
    <2>3. x \in BOOLEAN /\ (x => log.blind \/ ~log.upset)
      BY <1>0 DEF Logs
    <2> HIDE DEF x
    <2>5. /\ log'.upset = log.upset /\ (log'.blind = log.blind \/
                (log'.blind = x /\ (LosesRotation(t) \/ (ReadMarker(t) /\ used[call[t].pair] = "old"))))
          /\ log'.overlaps = log.overlaps
          /\ log'.faults = log.faults /\ log'.reset = log.reset /\ log'.rehashed = log.rehashed
      BY <1>0, <2>1 DEF Logs
    <2>6. ~Fail(t)
      BY <1>f, <2>5
    <2> QED BY <2>2, <2>3, <2>5, <2>6
  <1>6. CASE Rotate(t)
    <2> DEFINE x == log.exchanged \cup {call[t].pair}
    <2>1. log' = [log EXCEPT !.exchanged = x] /\ call[t].pc = "rotate"
      BY <1>6 DEF Rotate
    <2> HIDE DEF x
    <2>2. ~Strike(t) /\ ~SetPassword(t) /\ ~SendRefresh(t)
      BY <2>1 DEF Strike, SetPassword, SendRefresh
    <2>5. /\ log'.upset = log.upset /\ log'.blind = log.blind /\ log'.overlaps = log.overlaps
          /\ log'.faults = log.faults /\ log'.reset = log.reset /\ log'.rehashed = log.rehashed
      BY <1>0, <2>1 DEF Logs
    <2>6. ~Fail(t)
      BY <1>f, <2>5
    <2> QED BY <2>2, <2>5, <2>6
  <1>7. CASE Strike(t)
    <2>1. log' = [log EXCEPT !.upset = TRUE] /\ call[t].pc = "strike"
      BY <1>7 DEF Strike
    <2>2. ~SetPassword(t)
      BY <2>1 DEF SetPassword
    <2>5. /\ log'.upset /\ log'.blind = log.blind /\ log'.overlaps = log.overlaps
          /\ log'.faults = log.faults /\ log'.reset = log.reset /\ log'.rehashed = log.rehashed
      BY <1>0, <2>1 DEF Logs
    <2> QED BY <2>2, <2>5
  <1>8. CASE Save(t)
    <2> DEFINE k == IF call[t].then = "others" THEN log.keepers \cup {call[t].session}
                    ELSE log.keepers
    <2>1. log' = [log EXCEPT !.keepers = k] /\ call[t].pc = "save"
      BY <1>8 DEF Save
    <2> HIDE DEF k
    <2>2. ~Strike(t) /\ ~SetPassword(t) /\ ~SendRefresh(t)
      BY <2>1 DEF Strike, SetPassword, SendRefresh
    <2>5. /\ log'.upset = log.upset /\ log'.blind = log.blind /\ log'.overlaps = log.overlaps
          /\ log'.faults = log.faults /\ log'.reset = log.reset /\ log'.rehashed = log.rehashed
      BY <1>0, <2>1 DEF Logs
    <2>6. ~Fail(t)
      BY <1>f, <2>5
    <2> QED BY <2>2, <2>5, <2>6
  <1>9. CASE SetPassword(t)
    <2> DEFINE x == password.pending
    <2>1. log' = [log EXCEPT !.reset = TRUE, !.rehashed = x] /\ call[t].pc = "set"
      BY <1>9 DEF SetPassword
    <2>2. ~Strike(t) /\ ~SendRefresh(t)
      BY <2>1 DEF Strike, SendRefresh
    <2>3. x \in BOOLEAN
      BY DEF Typed
    <2> HIDE DEF x
    <2>5. /\ log'.upset = log.upset /\ log'.blind = log.blind /\ log'.overlaps = log.overlaps
          /\ log'.faults = log.faults /\ log'.reset /\ log'.rehashed = x
      BY <1>0, <2>1 DEF Logs
    <2>6. ~Fail(t)
      BY <1>f, <2>5
    <2> QED BY <1>9, <2>2, <2>5, <2>6 DEF x
  <1>10. CASE Fail(t)
    <2>1. log' = [log EXCEPT !.faults = log.faults + 1, !.upset = TRUE]
      BY <1>10 DEF Fail
    <2>2. UNCHANGED password
      BY <1>10 DEF Fail
    <2>5. /\ log'.upset /\ log'.blind = log.blind /\ log'.overlaps = log.overlaps
          /\ log'.faults = log.faults + 1 /\ log.faults \in Nat
          /\ log'.reset = log.reset /\ log'.rehashed = log.rehashed
      BY <1>0, <2>1 DEF Logs
    <2>6. ~SetPassword(t)
      <3>1. SetPassword(t) => log'.faults = log.faults
        BY <1>0 DEF SetPassword, Logs
      <3> QED BY <2>5, <3>1
    <2> QED BY <1>10, <2>5, <2>6
  <1> QED BY <1>1, <1>2, <1>3, <1>4, <1>5, <1>6, <1>7, <1>8, <1>9, <1>10 DEF TabStep

(***************************************************************************)
(* Password resets.                                                        *)
(***************************************************************************)
(* A session of the old password that no reset was told of. *)
Outdated(s) == Active(s) /\ docs[s].version = 1 /\ ~docs[s].overlap

(* A reset that has read which sessions there are holds those it has to end. *)
ResetInv ==
    /\ \A t, u \in Tabs : Resets(t) /\ Resets(u) => t = u
    /\ log.reset => \A t \in Tabs : ~Resets(t)
    /\ \A t \in Tabs : Resets(t) /\ call[t].pc # "snap" =>
          /\ \A u \in Tabs : LogsIn(u) /\ call[u].version = 1 => call[u].overlap
          /\ \A s \in DOMAIN docs : Outdated(s) =>
                call[t].pc \in {"strike", "save"} /\ s \in DOMAIN call[t].held
    /\ log.reset /\ ~log.rehashed =>
          /\ password.version = 2 /\ ~password.legacy /\ ~password.pending
          /\ \A u \in Tabs : LogsIn(u) /\ call[u].version = 1 => call[u].overlap
          /\ \A s \in DOMAIN docs : ~Outdated(s)

(* Only a sign-in makes a session outdated, and a revocation ends those it holds. *)
LEMMA Outdates ==
    ASSUME SessionAssumption, Typed, Refers, NEW t \in Tabs, TabStep(t),
           NEW s \in DOMAIN docs', Outdated(s)'
    PROVE  \/ s \in DOMAIN docs /\ Outdated(s) /\ ~(Save(t) /\ s \in DOMAIN call[t].held)
           \/ Create(t) /\ call[t].version = 1 /\ ~call[t].overlap
  <1>0. /\ DOMAIN docs = 1..Len(docs) /\ Len(docs) \in Nat
        /\ \A r \in DOMAIN docs : docs[r] \in Docs
    BY Stored
  <1>1. CASE Rotate(t)
    <2> DEFINE o == call[t].session
    <2>1. /\ o \in DOMAIN docs /\ DOMAIN docs' = DOMAIN docs
          /\ docs'[o] = [docs[o] EXCEPT !.pair = NewPair]
          /\ \A r \in DOMAIN docs : r # o => docs'[r] = docs[r]
      BY <1>1, Rotates
    <2> HIDE DEF o
    <2>2. /\ docs'[o].revoked = docs[o].revoked /\ docs'[o].expired = docs[o].expired
          /\ docs'[o].version = docs[o].version /\ docs'[o].overlap = docs[o].overlap
      BY <1>0, <2>1 DEF Docs
    <2>3. ~Save(t)
      BY <1>1 DEF Rotate, Save
    <2>4. s \in DOMAIN docs /\ Outdated(s)
      BY <2>1, <2>2 DEF Outdated, Active
    <2> QED BY <2>3, <2>4
  <1>2. CASE Create(t)
    <2>1. /\ DOMAIN docs' = 1..Len(docs) + 1
          /\ docs'[Len(docs) + 1] = NewDoc(t)
          /\ \A r \in DOMAIN docs : docs'[r] = docs[r]
      BY <1>2, Creates
    <2>2. ~Save(t)
      BY <1>2 DEF Create, Save
    <2>3. CASE s = Len(docs) + 1
      <3>1. docs'[s].version = call[t].version /\ docs'[s].overlap = call[t].overlap
        BY <2>1, <2>3 DEF NewDoc
      <3> QED BY <1>2, <3>1 DEF Outdated
    <2>4. CASE s \in DOMAIN docs
      <3>1. Outdated(s)
        BY <2>1, <2>4 DEF Outdated, Active
      <3> QED BY <2>2, <2>4, <3>1
    <2> QED BY <1>0, <2>1, <2>3, <2>4
  <1>3. CASE Save(t)
    <2>1. /\ DOMAIN docs' = DOMAIN docs
          /\ s \notin DOMAIN call[t].held => docs'[s] = docs[s]
          /\ s \in DOMAIN call[t].held => docs'[s].revoked # "no"
      BY <1>3, SavesHeld
    <2>2. s \notin DOMAIN call[t].held
      BY <2>1 DEF Outdated, Active
    <2>3. s \in DOMAIN docs /\ Outdated(s)
      BY <2>1, <2>2 DEF Outdated, Active
    <2> QED BY <2>2, <2>3
  <1>4. CASE UNCHANGED docs /\ ~Save(t)
    BY <1>4 DEF Outdated, Active
  <1> QED BY <1>1, <1>2, <1>3, <1>4, TabWrites

(* A tab's step keeps what is known of resets. *)
LEMMA ResetKept ==
    ASSUME SessionAssumption, TokensInv, ResetInv, NEW t \in Tabs, TabStep(t)
    PROVE  ResetInv'
  <1>0. Typed /\ Refers /\ call \in [Tabs -> Calls \cup {Idle}]
    BY DEF TokensInv, Typed
  <1>1. \A u \in Tabs \ {t} :
           /\ Resets(u)' <=> Resets(u)
           /\ LogsIn(u)' <=> LogsIn(u)
           /\ Resets(u) => call'[u].pc = call[u].pc /\ call'[u].held = call[u].held
           /\ LogsIn(u) => /\ call'[u].version = call[u].version
                           /\ call[u].overlap => call'[u].overlap
    BY <1>0, OthersSame DEF Resets, LogsIn
  <1>2. ASSUME call'[t] # Idle, ~Begins(t)
        PROVE  /\ call[t] # Idle /\ call'[t].kind = call[t].kind /\ call[t] \in Calls
               /\ Ready(call[t], Len(pairs), Len(docs)) /\ Goes(t)
               /\ \/ call'[t].version = call[t].version /\ call'[t].overlap = call[t].overlap
                  \/ Verify(t) /\ call'[t].version = password.version
                     /\ call'[t].overlap = (\E u \in Tabs : Resets(u))
    <2>1. call[t] \in Calls /\ Ready(call[t], Len(pairs), Len(docs)) /\ Goes(t)
      BY <1>0, <1>2, OwnStep
    <2>2. call[t] # Idle
      BY <2>1, IdleIsNoCall
    <2>3. Onward(t, call[t]) # Idle /\ (Snap(t) \/ FindForLogout(t) \/ Save(t)) =>
             Kept(call[t], Onward(t, call[t]))
      <3>1. Snap(t) \/ FindForLogout(t) \/ Save(t) =>
               call[t].pc \in {"snap", "save"} \/ call[t].then = "logout"
        BY DEF Snap, FindForLogout, Save
      <3>2. Len(pairs) \in Nat /\ Len(docs) \in Nat
        BY <1>0, Stored
      <3> QED BY <2>1, <3>1, <3>2, OnwardKeeps DEF To
    <2>4. \/ Kept(call[t], call'[t])
          \/ Verify(t) /\ call'[t].kind = call[t].kind /\ call'[t].version = password.version
             /\ call'[t].overlap = (\E u \in Tabs : Resets(u))
      BY <1>2, <2>1, <2>3 DEF Goes, To
    <2> QED BY <2>1, <2>2, <2>4 DEF Kept
  <1>3. \A u \in Tabs : Resets(u)' => Resets(u) \/ (u = t /\ Begins(t))
    BY <1>1, <1>2 DEF Resets
  <1>4. Begins(t) /\ Resets(t)' => /\ ~log.reset /\ \A u \in Tabs : ~Resets(u)
                                   /\ call'[t].pc = "snap"
    BY <1>0, Begun DEF Resets, Fresh
  <1>5. SetPassword(t) => Resets(t) /\ call[t].pc = "set" /\ call'[t] = Idle
    <2>1. ASSUME SetPassword(t) PROVE Resets(t) /\ call[t].pc = "set"
      <3>1. call[t].pc = "set"
        BY <2>1 DEF SetPassword
      <3> QED BY <1>0, <3>1, AtStep DEF Ready, OnRoad, Resets
    <2> QED BY <1>0, <2>1 DEF SetPassword, Over, Set
  <1>6. /\ \/ SetPassword(t) /\ log'.reset /\ log'.rehashed = password.pending
           \/ ~SetPassword(t) /\ log'.reset = log.reset /\ log'.rehashed = log.rehashed
    BY <1>0, Noting
  <1>7. \A u, v \in Tabs : Resets(u)' /\ Resets(v)' => u = v
    BY <1>3, <1>4 DEF ResetInv
  <1>8. log'.reset => \A u \in Tabs : ~Resets(u)'
    <2>1. CASE SetPassword(t)
      <3>1. ~Resets(t)' /\ ~Begins(t)
        BY <1>0, <1>5, <2>1, Begun DEF Resets
      <3> QED BY <1>3, <1>5, <2>1, <3>1 DEF ResetInv
    <2>2. CASE ~SetPassword(t)
      BY <1>3, <1>4, <1>6, <2>2 DEF ResetInv
    <2> QED BY <2>1, <2>2
  (* A sign-in with the old password that goes on was told, when all were. *)
  <1>9. ASSUME NEW u \in Tabs, LogsIn(u)', call'[u].version = 1,
               \A v \in Tabs : LogsIn(v) /\ call[v].version = 1 => call[v].overlap,
               password.version = 2 \/ \E v \in Tabs : Resets(v)
        PROVE  call'[u].overlap
    <2>1. CASE u # t
      BY <1>1, <1>9, <2>1
    <2>2. CASE u = t
      <3>1. ~Begins(t)
        BY <1>0, <1>9, <2>2, Begun DEF Fresh
      <3>2. LogsIn(t)
        BY <1>2, <1>9, <2>2, <3>1 DEF LogsIn
      <3>3. CASE call'[t].version = call[t].version /\ call'[t].overlap = call[t].overlap
        <4>1. call[t].overlap
          BY <1>9, <2>2, <3>2, <3>3
        <4> QED BY <2>2, <3>3, <4>1
      <3>4. CASE /\ Verify(t) /\ call'[t].version = password.version
                 /\ call'[t].overlap = (\E v \in Tabs : Resets(v))
        <4>1. \E v \in Tabs : Resets(v)
          BY <1>9, <2>2, <3>4
        <4> QED BY <2>2, <3>4, <4>1, Zenon
      <3> QED BY <1>2, <1>9, <2>2, <3>1, <3>3, <3>4 DEF LogsIn
    <2> QED BY <2>1, <2>2
  <1>10. Create(t) => LogsIn(t)
    BY <1>0, Creates, IdleIsNoCall DEF LogsIn
  <1>11. ASSUME NEW r \in Tabs, Resets(r)', call'[r].pc # "snap"
         PROVE  /\ \A u \in Tabs : LogsIn(u)' /\ call'[u].version = 1 => call'[u].overlap
                /\ \A s \in DOMAIN docs' : Outdated(s)' =>
                      call'[r].pc \in {"strike", "save"} /\ s \in DOMAIN call'[r].held
    <2>1. Resets(r)
      BY <1>3, <1>4, <1>11
    <2>2. CASE r # t
      <3>1. call[r].pc # "snap"
        BY <1>1, <1>11, <2>1, <2>2
      <3>2. \A u \in Tabs : LogsIn(u)' /\ call'[u].version = 1 => call'[u].overlap
        BY <1>9, <2>1, <3>1 DEF ResetInv
      <3>3. ASSUME NEW s \in DOMAIN docs', Outdated(s)'
            PROVE  call'[r].pc \in {"strike", "save"} /\ s \in DOMAIN call'[r].held
        <4>1. ~(Create(t) /\ call[t].version = 1 /\ ~call[t].overlap)
          BY <1>10, <2>1, <3>1 DEF ResetInv
        <4>2. s \in DOMAIN docs /\ Outdated(s)
          BY <1>0, <3>3, <4>1, Outdates
        <4> QED BY <1>1, <2>1, <2>2, <3>1, <4>2 DEF ResetInv
      <3> QED BY <3>2, <3>3
    <2>3. CASE r = t
      <3>0. /\ ~Begins(t) /\ call'[t] # Idle /\ call[t].kind = "reset"
        BY <1>4, <1>11, <2>1, <2>3 DEF Resets
      <3>1. /\ call[t] \in Calls /\ Ready(call[t], Len(pairs), Len(docs)) /\ Goes(t)
        BY <1>2, <3>0
      <3>2. call[t].then = "reset" /\ call[t].pc \in {"snap", "strike", "save", "set"}
        BY <3>0, <3>1 DEF Ready, OnRoad, Asks
      <3>3. \/ Snap(t) /\ To(call[t], call'[t], "strike", call[t].then)
               /\ DOMAIN call'[t].held = Victims(t)
            \/ Snap(t) /\ Victims(t) = {}
            \/ Strike(t) /\ To(call[t], call'[t], "save", call[t].then)
               /\ Bears(call[t], call'[t])
            \/ Save(t)
        <4>1. /\ ~Lookup(t) /\ ~Check(t) /\ ~SendRefresh(t) /\ ~ReadMarker(t)
              /\ ~FindByRefresh(t) /\ ~Mark(t) /\ ~Rotate(t) /\ ~LosesRotation(t)
          BY <3>2 DEF Lookup, Check, SendRefresh, ReadMarker, FindByRefresh, Mark, Rotate,
             LosesRotation
        <4>2. /\ ~Record(t) /\ ~Issued(t) /\ ~Verify(t) /\ ~Create(t) /\ ~FindForLogout(t)
          BY <3>2 DEF Record, Issued, Verify, Create, FindForLogout
        <4> QED BY <3>1, <4>1, <4>2 DEF Goes
      <3>4. CASE Snap(t)
        <4>1. Victims(t) = ActiveSessions /\ UNCHANGED docs
          BY <3>2, <3>4 DEF Victims, Snap
        <4>2. \A u \in Tabs \ {t} : LogsIn(u) => call'[u].overlap
          <5>1. ASSUME NEW u \in Tabs \ {t}, LogsIn(u)
                PROVE  call'[u] = [call[u] EXCEPT !.overlap = TRUE] /\ call[u] \in Calls
            BY <1>0, <3>2, <3>4, <5>1 DEF Snap, LogsIn
          <5> QED BY <5>1 DEF Calls
        <4>3. ~LogsIn(t)'
          BY <1>2, <3>0 DEF LogsIn
        <4>4. \A s \in DOMAIN docs' : Outdated(s)' => s \in ActiveSessions
          BY <4>1 DEF Outdated, Active, ActiveSessions
        <4>5. ASSUME NEW s \in DOMAIN docs', Outdated(s)'
              PROVE  call'[t].pc \in {"strike", "save"} /\ s \in DOMAIN call'[t].held
          <5>1. ~Strike(t) /\ ~Save(t)
            BY <3>4 DEF Snap, Strike, Save
          <5> QED BY <3>3, <4>1, <4>4, <4>5, <5>1 DEF To
        <4> QED BY <1>1, <2>3, <4>2, <4>3, <4>5
      <3>5. ASSUME Strike(t) \/ Save(t)
            PROVE  /\ \A u \in Tabs : LogsIn(u)' /\ call'[u].version = 1 => call'[u].overlap
                   /\ call[t].pc # "snap" /\ call[t].pc # "set"
        <4>1. call[t].pc # "snap" /\ call[t].pc # "set"
          BY <3>5 DEF Strike, Save
        <4>2. \A u \in Tabs : LogsIn(u)' /\ call'[u].version = 1 => call'[u].overlap
          BY <1>9, <2>1, <2>3, <4>1 DEF ResetInv
        <4> QED BY <4>1, <4>2
      <3>6. ASSUME Strike(t) \/ Save(t), NEW s \in DOMAIN docs', Outdated(s)'
            PROVE  call'[t].pc \in {"strike", "save"} /\ s \in DOMAIN call'[t].held
        <4>1. ~Create(t)
          BY <3>6 DEF Create, Strike, Save
        <4>2. s \in DOMAIN docs /\ Outdated(s) /\ ~(Save(t) /\ s \in DOMAIN call[t].held)
          BY <1>0, <3>6, <4>1, Outdates
        <4>3. s \in DOMAIN call[t].held
          BY <2>1, <2>3, <3>5, <3>6, <4>2 DEF ResetInv
        <4>4. Strike(t) /\ ~Snap(t) /\ ~Save(t)
          BY <3>6, <4>2, <4>3 DEF Strike, Snap, Save
        <4> QED BY <3>3, <4>3, <4>4 DEF To, Bears
      <3> QED BY <2>3, <3>3, <3>4, <3>5, <3>6
    <2> QED BY <2>2, <2>3
  <1>12. ASSUME log'.reset, ~log'.rehashed
         PROVE  /\ password'.version = 2 /\ ~password'.legacy /\ ~password'.pending
                /\ \A u \in Tabs : LogsIn(u)' /\ call'[u].version = 1 => call'[u].overlap
                /\ \A s \in DOMAIN docs' : ~Outdated(s)'
    <2>0. password \in [version : 1..2, legacy : BOOLEAN, pending : BOOLEAN]
      BY <1>0 DEF Typed
    <2>1. CASE SetPassword(t)
      <3>1. ~password.pending
        BY <1>6, <1>12, <2>1
      <3>2. password' = [password EXCEPT !.version = 2, !.legacy = FALSE] /\ UNCHANGED docs
        BY <2>1 DEF SetPassword
      <3>3. password'.version = 2 /\ ~password'.legacy /\ ~password'.pending
        BY <2>0, <3>1, <3>2
      <3>4. \A u \in Tabs : LogsIn(u)' /\ call'[u].version = 1 => call'[u].overlap
        BY <1>5, <1>9, <2>1 DEF ResetInv
      <3>5. \A s \in DOMAIN docs : ~Outdated(s)
        BY <1>5, <2>1 DEF ResetInv
      <3>6. \A s \in DOMAIN docs' : ~Outdated(s)'
        BY <3>2, <3>5 DEF Outdated, Active
      <3> QED BY <3>3, <3>4, <3>6
    <2>2. CASE ~SetPassword(t)
      <3>0. log.reset /\ ~log.rehashed
        BY <1>6, <1>12, <2>2
      <3>1. password'.version = 2 /\ ~password'.legacy /\ ~password'.pending
        <4>1. CASE Verify(t)
          <5>1. password' = [password EXCEPT !.pending = password.pending \/ password.legacy]
            BY <4>1 DEF Verify
          <5> DEFINE x == password.pending \/ password.legacy
          <5>2. password' = [password EXCEPT !.pending = x] /\ ~x /\ x \in BOOLEAN
            BY <2>0, <3>0, <5>1 DEF ResetInv
          <5> HIDE DEF x
          <5> QED BY <2>0, <3>0, <5>2 DEF ResetInv
        <4>2. CASE UNCHANGED password
          BY <3>0, <4>2 DEF ResetInv
        <4> QED BY <2>2, <4>1, <4>2, TabWrites
      <3>2. \A u \in Tabs : LogsIn(u)' /\ call'[u].version = 1 => call'[u].overlap
        BY <1>9, <3>0 DEF ResetInv
      <3>3. ASSUME NEW s \in DOMAIN docs' PROVE ~Outdated(s)'
        <4>1. ~(Create(t) /\ call[t].version = 1 /\ ~call[t].overlap)
          BY <1>10, <3>0 DEF ResetInv
        <4>2. s \in DOMAIN docs => ~Outdated(s)
          BY <3>0 DEF ResetInv
        <4> QED BY <1>0, <4>1, <4>2, Outdates
      <3> QED BY <3>1, <3>2, <3>3
    <2> QED BY <2>1, <2>2
  <1> QED BY <1>7, <1>8, <1>11, <1>12 DEF ResetInv

(* So does time: a new hash is stored only while one is made. *)
LEMMA TimeKeepsReset ==
    ASSUME SessionAssumption, TokensInv, ResetInv, TimeStep
    PROVE  ResetInv'
  <1>1. UNCHANGED call
    BY TimeWrites
  <1>2. /\ log'.reset = log.reset /\ log'.rehashed = log.rehashed
    <2>1. ASSUME NEW s, SessionExpires(s)
          PROVE  log'.reset = log.reset /\ log'.rehashed = log.rehashed
      BY <2>1 DEF SessionExpires, TokensInv, Typed, Logs
    <2> QED BY <2>1, TimeWrites
  <1>3. DOMAIN docs' = DOMAIN docs /\ \A s \in DOMAIN docs : Outdated(s)' => Outdated(s)
    <2>1. ASSUME NEW s \in DOMAIN docs, SessionExpires(s)
          PROVE  /\ DOMAIN docs' = DOMAIN docs
                 /\ \A r \in DOMAIN docs : Outdated(r)' => Outdated(r)
      <3>1. /\ DOMAIN docs' = DOMAIN docs /\ docs[s] \in Docs
            /\ docs'[s] = [docs[s] EXCEPT !.expired = TRUE]
            /\ \A r \in DOMAIN docs : r # s => docs'[r] = docs[r]
        BY <2>1, Expires DEF TokensInv
      <3>2. docs'[s].expired
        BY <3>1 DEF Docs
      <3> QED BY <3>1, <3>2 DEF Outdated, Active
    <2>2. CASE UNCHANGED docs
      BY <2>2 DEF Outdated, Active
    <2> QED BY <2>1, <2>2, TimeWrites
  <1>4. log.reset /\ ~log.rehashed => UNCHANGED password
    BY TimeWrites DEF StoreNewHash, ResetInv
  <1> QED BY <1>1, <1>2, <1>3, <1>4 DEF ResetInv, Resets, LogsIn

(* Once a reset is through, the sessions from before it are over, and the old
   password is back only if a hash of it was being made. *)
THEOREM ResetsEndSessions == SessionSpec => []ResetsHold
  <1>1. SessionInit => TokensInv /\ ResetInv
    BY SessionAssumption, TokensInit DEF SessionInit, ResetInv, Resets, LogsIn, Idle
  <1>2. TokensInv /\ ResetInv /\ [SessionNext]_sessionVars => (TokensInv /\ ResetInv)'
    <2> SUFFICES ASSUME TokensInv, ResetInv, [SessionNext]_sessionVars
                 PROVE  ResetInv'
      BY SessionAssumption, TokensStep
    <2>1. CASE UNCHANGED <<jar, call, docs, pairs, access, used, password, log, scenario>>
      BY <2>1 DEF ResetInv, Resets, LogsIn, Outdated, Active
    <2> QED BY <2>1, SessionAssumption, Steps, ResetKept, TimeKeepsReset DEF TokensInv
  <1>3. TokensInv /\ ResetInv => ResetsHold
    BY DEF TokensInv, Typed, ResetInv, ResetsHold, Outdated, ActiveSessions
  <1> QED BY <1>1, <1>2, <1>3, PTL DEF SessionSpec

(***************************************************************************)
(* Devices.                                                                *)
(***************************************************************************)
OnDevice(b) == {s \in ActiveSessions : docs[s].device = b}

(* A session that was not revoked holds a pair. *)
Holding == \A s \in DOMAIN docs : docs[s].revoked = "no" => docs[s].pair # NoPair

(* The one sign-in that is under way ends what its device had. *)
DeviceInv ==
    ~log.overlaps =>
    /\ \A t, u \in Tabs : LogsIn(t) /\ LogsIn(u) => t = u
    /\ \A r, s \in ActiveSessions : r # s => docs[r].device # docs[s].device
    /\ \A t \in Tabs : LogsIn(t) /\ call[t].then = "replaced" =>
          /\ call[t].pc \in {"strike", "save"} =>
                OnDevice(call[t].browser) \subseteq DOMAIN call[t].held
          /\ call[t].pc = "create" => OnDevice(call[t].browser) = {}

(* There are too many sessions only while a sign-in that made one has not yet ended
   the oldest. *)
Few(S) == Cardinality(S) <= MaxDevices

CountInv ==
    ~log.overlaps /\ log.faults = 0 =>
    /\ (\A t \in Tabs : LogsIn(t) => call[t].next = NoPair) => Few(ActiveSessions)
    /\ \A t \in Tabs : LogsIn(t) /\ call[t].then = "limit" =>
          /\ call[t].pc \in {"strike", "save"} => Few(ActiveSessions \ DOMAIN call[t].held)
          /\ call[t].pc = "issued" => Few(ActiveSessions)

(* If each of some numbers is exceeded by fewer than k of them, they are at most k. *)
LEMMA AtMost ==
    ASSUME NEW S, IsFiniteSet(S), NEW f \in [S -> Nat],
           \A r, s \in S : r # s => f[r] # f[s], NEW k \in Nat,
           \A s \in S : Cardinality({r \in S : f[r] > f[s]}) < k
    PROVE  Cardinality(S) <= k
  <1>1. CASE S = {}
    BY <1>1, FS_EmptySet
  <1>2. CASE S # {}
    <2> DEFINE T == {f[s] : s \in S}
    <2>1. PICK n \in T : \A i \in T : n <= i
      <3>1. T \in SUBSET Nat /\ T # {}
        BY <1>2
      <3> HIDE DEF T
      <3> QED BY <3>1, Least
    <2>2. PICK s \in S : f[s] = n
      BY <2>1
    <2> DEFINE R == {r \in S : f[r] > f[s]}
    <2>3. S \ {s} \subseteq R
      <3> SUFFICES ASSUME NEW r \in S, r # s PROVE f[r] > f[s]
        OBVIOUS
      <3>1. f[r] \in Nat /\ f[s] \in Nat /\ f[r] \in T /\ f[r] # f[s]
        OBVIOUS
      <3>2. f[s] <= f[r]
        BY <2>1, <2>2, <3>1
      <3> QED BY <3>1, <3>2
    <2>4. IsFiniteSet(R) /\ Cardinality(R) < k /\ Cardinality(R) \in Nat
      <3>1. R \subseteq S
        OBVIOUS
      <3>2. Cardinality(R) < k
        OBVIOUS
      <3> HIDE DEF R
      <3> QED BY <3>1, <3>2, FS_Subset, FS_CardinalityType
    <2>5. /\ Cardinality(S \ {s}) = Cardinality(S) - 1 /\ IsFiniteSet(S \ {s})
      BY FS_RemoveElement
    <2> HIDE DEF R, T
    <2>6. Cardinality(S \ {s}) <= Cardinality(R)
      BY <2>3, <2>4, FS_Subset
    <2>7. Cardinality(S) \in Nat
      BY FS_CardinalityType
    <2> QED BY <2>4, <2>5, <2>6, <2>7
  <1> QED BY <1>1, <1>2

(* There are finitely many sessions, and fewer are no more. *)
LEMMA Fewer ==
    ASSUME Typed, NEW S \in SUBSET DOMAIN docs, NEW R \in SUBSET S
    PROVE  /\ IsFiniteSet(S) /\ IsFiniteSet(R)
           /\ Cardinality(R) \in Nat /\ Cardinality(R) <= Cardinality(S)
           /\ SessionAssumption /\ Few(S) => Few(R)
  <1>1. IsFiniteSet(DOMAIN docs)
    <2>1. DOMAIN docs = 1..Len(docs) /\ Len(docs) \in Nat
      BY LenProperties DEF Typed
    <2> QED BY <2>1, FS_Interval
  <1>2. IsFiniteSet(S) /\ IsFiniteSet(R)
    BY <1>1, FS_Subset
  <1>3. Cardinality(R) \in Nat /\ Cardinality(S) \in Nat /\ Cardinality(R) <= Cardinality(S)
    BY <1>2, FS_Subset, FS_CardinalityType
  <1> QED BY <1>2, <1>3 DEF Few, SessionAssumption

(* What the limit leaves is no more than the limit. *)
LEMMA LimitHolds ==
    ASSUME SessionAssumption, TokensInv, Holding, NEW keep
    PROVE  Few(ActiveSessions \ Excess(keep))
  <1> DEFINE A == ActiveSessions
             O == A \ {keep}
             k == IF keep \in A THEN MaxDevices - 1 ELSE MaxDevices
             K == {s \in O : Cardinality({r \in O : docs[r].pair > docs[s].pair}) < k}
             f == [s \in K |-> docs[s].pair]
  <1>0. Typed /\ Refers /\ Current
    BY DEF TokensInv
  <1>1. A \subseteq DOMAIN docs /\ \A s \in A : docs[s].pair \in Nat /\ docs[s].revoked = "no"
    BY <1>0, Stored DEF ActiveSessions, Active, Docs
  <1>2. \A r, s \in A : r # s => docs[r].pair # docs[s].pair
    BY <1>0, <1>1 DEF Current, Holding
  <1>3. k \in Nat
    BY DEF SessionAssumption
  <1>4. \A s \in O : Cardinality({r \in O : docs[r].pair > docs[s].pair}) \in Nat
    <2> SUFFICES ASSUME NEW s \in O
                 PROVE  Cardinality({r \in O : docs[r].pair > docs[s].pair}) \in Nat
      OBVIOUS
    <2> DEFINE R == {r \in O : docs[r].pair > docs[s].pair}
    <2>1. R \in SUBSET DOMAIN docs /\ R \in SUBSET R
      BY <1>1
    <2> HIDE DEF R
    <2>2. Cardinality(R) \in Nat
      BY <1>0, <2>1, Fewer
    <2> QED BY <2>2 DEF R
  <1>5. A \ Excess(keep) \subseteq K \cup {keep}
    BY <1>3, <1>4 DEF Excess, Limit
  <1>6. Cardinality(K) <= k /\ IsFiniteSet(K)
    <2>1. IsFiniteSet(K) /\ K \subseteq O
      <3>1. K \in SUBSET DOMAIN docs /\ K \in SUBSET K
        BY <1>1
      <3> HIDE DEF K
      <3> QED BY <1>0, <3>1, Fewer DEF K
    <2>2. f \in [K -> Nat] /\ \A r, s \in K : r # s => f[r] # f[s]
      BY <1>1, <1>2
    <2>3. ASSUME NEW s \in K
          PROVE  Cardinality({r \in K : f[r] > f[s]}) < k
      <3> DEFINE R == {r \in O : docs[r].pair > docs[s].pair}
                 Q == {r \in K : f[r] > f[s]}
      <3>1. Cardinality(R) < k /\ Cardinality(R) \in Nat
        BY <1>4
      <3>2. Q \in SUBSET R /\ R \in SUBSET DOMAIN docs
        BY <1>1
      <3> HIDE DEF R, Q
      <3>3. Cardinality(Q) <= Cardinality(R) /\ Cardinality(Q) \in Nat
        BY <1>0, <3>2, Fewer
      <3>4. Cardinality(Q) < k
        BY <1>3, <3>1, <3>3
      <3> QED BY <3>4 DEF Q
    <2> HIDE DEF K, f, k
    <2> QED BY <1>3, <2>1, <2>2, <2>3, AtMost
  <1>7. Cardinality(K) \in Nat
    BY <1>6, FS_CardinalityType
  <1>8. CASE keep \in A
    <2>1. IsFiniteSet(K \cup {keep}) /\ Cardinality(K \cup {keep}) <= Cardinality(K) + 1
      <3> HIDE DEF K
      <3>1. IsFiniteSet(K \cup {keep})
        BY <1>6, FS_AddElement
      <3>2. Cardinality(K \cup {keep}) = Cardinality(K)
            \/ Cardinality(K \cup {keep}) = Cardinality(K) + 1
        BY <1>6, FS_AddElement
      <3> QED BY <1>7, <3>1, <3>2
    <2>2. Few(K \cup {keep})
      <3>1. k = MaxDevices - 1
        BY <1>8
      <3> HIDE DEF K, k
      <3>2. Cardinality(K \cup {keep}) \in Nat
        BY <2>1, FS_CardinalityType
      <3> QED BY <1>6, <1>7, <2>1, <3>1, <3>2 DEF Few, SessionAssumption
    <2>3. K \cup {keep} \in SUBSET DOMAIN docs /\ A \ Excess(keep) \in SUBSET (K \cup {keep})
      BY <1>1, <1>5, <1>8
    <2> HIDE DEF K, A
    <2>4. Few(A \ Excess(keep))
      BY <1>0, <2>2, <2>3, Fewer
    <2> QED BY <2>4 DEF A
  <1>9. CASE keep \notin A
    <2>1. Few(K)
      BY <1>6, <1>9 DEF Few
    <2>2. K \in SUBSET DOMAIN docs /\ A \ Excess(keep) \in SUBSET K
      BY <1>1, <1>5, <1>9
    <2> HIDE DEF K, A
    <2>4. Few(A \ Excess(keep))
      BY <1>0, <2>1, <2>2, Fewer
    <2> QED BY <2>4 DEF A
  <1> QED BY <1>8, <1>9

(* Only a sign-in makes a session active, and a revocation ends those it holds. *)
LEMMA Activates ==
    ASSUME SessionAssumption, Typed, Refers, NEW t \in Tabs, TabStep(t),
           NEW s \in ActiveSessions'
    PROVE  \/ /\ s \in ActiveSessions /\ docs'[s].device = docs[s].device
              /\ ~(Save(t) /\ s \in DOMAIN call[t].held)
           \/ /\ Create(t) /\ s = Len(docs) + 1 /\ s \notin DOMAIN docs
              /\ docs'[s].device = call[t].browser
  <1>0. /\ DOMAIN docs = 1..Len(docs) /\ Len(docs) \in Nat
        /\ \A r \in DOMAIN docs : docs[r] \in Docs
        /\ \A r \in DOMAIN docs : docs'[r].device = docs[r].device
    BY Stored, DocsKept
  <1>1. s \in DOMAIN docs' /\ docs'[s].revoked = "no" /\ ~docs'[s].expired
    BY DEF ActiveSessions, Active
  <1>2. CASE Rotate(t)
    <2> DEFINE o == call[t].session
    <2>1. /\ o \in DOMAIN docs /\ DOMAIN docs' = DOMAIN docs
          /\ docs'[o] = [docs[o] EXCEPT !.pair = NewPair]
          /\ \A r \in DOMAIN docs : r # o => docs'[r] = docs[r]
      BY <1>2, Rotates
    <2> HIDE DEF o
    <2>2. docs'[o].revoked = docs[o].revoked /\ docs'[o].expired = docs[o].expired
      BY <1>0, <2>1 DEF Docs
    <2>3. ~Save(t)
      BY <1>2 DEF Rotate, Save
    <2>4. s \in ActiveSessions
      BY <1>1, <2>1, <2>2 DEF Active, ActiveSessions
    <2> QED BY <1>0, <1>1, <2>1, <2>3, <2>4
  <1>3. CASE Create(t)
    <2>1. /\ DOMAIN docs' = 1..Len(docs) + 1
          /\ docs'[Len(docs) + 1] = NewDoc(t)
          /\ \A r \in DOMAIN docs : docs'[r] = docs[r]
      BY <1>3, Creates
    <2>2. ~Save(t)
      BY <1>3 DEF Create, Save
    <2>3. CASE s = Len(docs) + 1
      <3>1. docs'[s].device = call[t].browser
        BY <2>1, <2>3 DEF NewDoc
      <3> QED BY <1>0, <1>3, <2>3, <3>1
    <2>4. CASE s \in DOMAIN docs
      <3>1. s \in ActiveSessions
        BY <1>1, <2>1, <2>4 DEF Active, ActiveSessions
      <3> QED BY <1>0, <2>2, <2>4, <3>1
    <2> QED BY <1>0, <1>1, <2>1, <2>3, <2>4
  <1>4. CASE Save(t)
    <2>1. /\ DOMAIN docs' = DOMAIN docs
          /\ s \notin DOMAIN call[t].held => docs'[s] = docs[s]
          /\ s \in DOMAIN call[t].held => docs'[s].revoked # "no"
      BY <1>1, <1>4, SavesHeld
    <2>2. s \notin DOMAIN call[t].held
      BY <1>1, <2>1
    <2>3. s \in ActiveSessions
      BY <1>1, <2>1, <2>2 DEF Active, ActiveSessions
    <2> QED BY <1>0, <1>1, <2>1, <2>2, <2>3
  <1>5. CASE UNCHANGED docs /\ ~Save(t)
    BY <1>1, <1>5 DEF Active, ActiveSessions
  <1> QED BY <1>2, <1>3, <1>4, <1>5, TabWrites

(* Who holds no pair was revoked. *)
LEMMA HoldingKept ==
    ASSUME SessionAssumption, Typed, Refers, Holding, NEW t \in Tabs, TabStep(t)
    PROVE  Holding'
  <1>0. /\ DOMAIN docs = 1..Len(docs) /\ Len(docs) \in Nat /\ Len(pairs) \in Nat
        /\ \A r \in DOMAIN docs : docs[r] \in Docs
    BY Stored
  <1>1. CASE Rotate(t)
    <2> DEFINE o == call[t].session
    <2>1. /\ o \in DOMAIN docs /\ DOMAIN docs' = DOMAIN docs /\ NewPair = Len(pairs) + 1
          /\ docs'[o] = [docs[o] EXCEPT !.pair = NewPair]
          /\ \A r \in DOMAIN docs : r # o => docs'[r] = docs[r]
      BY <1>1, Rotates
    <2> HIDE DEF o
    <2>2. docs'[o].pair = NewPair /\ NewPair # NoPair
      BY <1>0, <2>1 DEF Docs, NoPair
    <2> QED BY <2>1, <2>2 DEF Holding
  <1>2. CASE Create(t)
    <2>1. /\ DOMAIN docs' = 1..Len(docs) + 1 /\ NewPair = Len(pairs) + 1
          /\ docs'[Len(docs) + 1] = NewDoc(t)
          /\ \A r \in DOMAIN docs : docs'[r] = docs[r]
      BY <1>2, Creates
    <2>2. docs'[Len(docs) + 1].pair # NoPair
      BY <1>0, <2>1 DEF NewDoc, NoPair
    <2>3. \A s \in 1..Len(docs) + 1 : s \in DOMAIN docs \/ s = Len(docs) + 1
      BY <1>0
    <2> QED BY <2>1, <2>2, <2>3 DEF Holding
  <1>3. CASE Save(t)
    BY <1>3, SavesHeld DEF Holding
  <1>4. CASE UNCHANGED docs
    BY <1>4 DEF Holding
  <1> QED BY <1>1, <1>2, <1>3, <1>4, TabWrites

(* What the steps of a sign-in that is under way lead to. *)
LEMMA LoginGoes ==
    ASSUME SessionAssumption, Typed, Refers, NEW t \in Tabs, TabStep(t), ~Begins(t), LogsIn(t)'
    PROVE  /\ LogsIn(t) /\ call'[t].browser = call[t].browser
           /\ call[t].then \in {"replaced", "limit"}
           /\ call'[t].next = call[t].next \/ Create(t)
           /\ call'[t].pc \in {"strike", "save", "create", "issued"} =>
                 /\ call'[t].then = call[t].then
                 /\ \/ Snap(t) /\ call'[t].pc = "strike" /\ DOMAIN call'[t].held = Victims(t)
                    \/ Strike(t) /\ call'[t].pc = "save" /\ call'[t].held = call[t].held
                    \/ /\ Save(t) \/ (Snap(t) /\ Victims(t) = {})
                       /\ \/ call'[t].pc = "create" /\ call[t].then = "replaced"
                          \/ call'[t].pc = "issued" /\ call[t].then = "limit"
  <1> DEFINE c == call[t]
             d == call'[t]
  <1>1. c \in Calls /\ Ready(c, Len(pairs), Len(docs)) /\ Goes(t) /\ d # Idle /\ d.kind = "login"
    BY OwnStep DEF LogsIn
  <1>2. Len(pairs) \in Nat /\ Len(docs) \in Nat /\ c # Idle
    BY <1>1, Stored, IdleIsNoCall
  <1>3. ASSUME Snap(t) \/ FindForLogout(t) \/ Save(t), d = Onward(t, c)
        PROVE  /\ Bears(c, d) /\ Kept(c, d) /\ d.then = c.then
               /\ \/ d.pc = "create" /\ c.then = "replaced"
                  \/ d.pc = "issued" /\ c.then = "limit"
    <2>1. c.pc \in {"snap", "strike", "save"} \/ c.then = "logout"
      BY <1>3 DEF Snap, FindForLogout, Save
    <2>2. \/ d = Idle
          \/ /\ Bears(c, d)
             /\ \/ To(c, d, "set", c.then) /\ c.then = "reset"
                \/ To(c, d, "create", c.then) /\ c.then = "replaced"
                \/ To(c, d, "clear", c.then) /\ c.kind # "login"
                \/ To(c, d, "issued", c.then) /\ c.then = "limit" /\ c.kind = "login"
                \/ To(c, d, "snap", "limit") /\ c.kind # "login"
      BY <1>1, <1>2, <1>3, <2>1, OnwardKeeps
    <2>3. c.then = "reset" => c.kind # "login"
      BY <1>1 DEF Ready, OnRoad, Asks
    <2> QED BY <1>1, <2>2, <2>3 DEF To, Kept
  <1>4. Kept(c, d) \/ (Verify(t) /\ d.kind = c.kind /\ d.browser = c.browser)
    BY <1>1, <1>3 DEF Goes, To
  <1>5. c.kind = "login" /\ d.browser = c.browser
    BY <1>1, <1>4 DEF Kept
  <1>6. c.then \in {"replaced", "limit"}
        /\ c.pc \in {"verify", "snap", "strike", "save", "create", "record", "issued"}
    BY <1>1, <1>5 DEF Ready, OnRoad, Asks
  <1>7. /\ ~Lookup(t) /\ ~Check(t) /\ ~SendRefresh(t) /\ ~ReadMarker(t)
        /\ ~FindByRefresh(t) /\ ~Mark(t) /\ ~Rotate(t) /\ ~LosesRotation(t) /\ ~FindForLogout(t)
    BY <1>6 DEF Lookup, Check, SendRefresh, ReadMarker, FindByRefresh, Mark, Rotate,
       LosesRotation, FindForLogout
  <1>8. \/ Record(t) /\ d.pc = "snap" /\ d.next = c.next
        \/ Verify(t) /\ d.pc = "snap" /\ d.next = c.next
        \/ Create(t) /\ d.pc = "record"
        \/ /\ Snap(t) /\ d.pc = "strike" /\ d.then = c.then /\ d.next = c.next
           /\ DOMAIN d.held = Victims(t)
        \/ Snap(t) /\ d = Onward(t, c) /\ Victims(t) = {}
        \/ /\ Strike(t) /\ d.pc = "save" /\ d.then = c.then /\ d.next = c.next /\ d.held = c.held
        \/ Save(t) /\ d = Onward(t, c)
    BY <1>1, <1>5, <1>7 DEF Goes, To, Bears
  <1>9. d.next = c.next \/ Create(t)
    BY <1>3, <1>8 DEF Bears
  <1>10. ASSUME d.pc \in {"strike", "save", "create", "issued"}
         PROVE  /\ d.then = c.then
                /\ \/ Snap(t) /\ d.pc = "strike" /\ DOMAIN d.held = Victims(t)
                   \/ Strike(t) /\ d.pc = "save" /\ d.held = c.held
                   \/ /\ Save(t) \/ (Snap(t) /\ Victims(t) = {})
                      /\ \/ d.pc = "create" /\ c.then = "replaced"
                         \/ d.pc = "issued" /\ c.then = "limit"
    BY <1>3, <1>8, <1>10
  <1> QED BY <1>2, <1>5, <1>6, <1>9, <1>10 DEF LogsIn

(* Others' sign-ins are as they were. *)
LEMMA OthersLogIn ==
    ASSUME SessionAssumption, Typed, Refers, NEW t \in Tabs, TabStep(t), NEW u \in Tabs \ {t}
    PROVE  /\ LogsIn(u)' <=> LogsIn(u)
           /\ LogsIn(u) => /\ call'[u].pc = call[u].pc /\ call'[u].then = call[u].then
                           /\ call'[u].browser = call[u].browser
                           /\ call'[u].next = call[u].next /\ call'[u].held = call[u].held
  BY OthersSame DEF LogsIn

(* A tab's step keeps what is known of devices. *)
LEMMA DeviceKept ==
    ASSUME SessionAssumption, TokensInv, DeviceInv, NEW t \in Tabs, TabStep(t)
    PROVE  DeviceInv'
  <1> SUFFICES ASSUME ~log'.overlaps PROVE DeviceInv'
    BY DEF DeviceInv
  <1>0. Typed /\ Refers
    BY DEF TokensInv
  <1>1. ~log.overlaps /\ (Begins(t) /\ LogsIn(t)' => \A u \in Tabs : ~LogsIn(u))
    BY <1>0, Noting, Begun DEF LogsIn
  <1>2. /\ \A v, u \in Tabs : LogsIn(v) /\ LogsIn(u) => v = u
        /\ \A r, s \in ActiveSessions : r # s => docs[r].device # docs[s].device
        /\ \A u \in Tabs : LogsIn(u) /\ call[u].then = "replaced" =>
              /\ call[u].pc \in {"strike", "save"} =>
                    OnDevice(call[u].browser) \subseteq DOMAIN call[u].held
              /\ call[u].pc = "create" => OnDevice(call[u].browser) = {}
    BY <1>1 DEF DeviceInv
  <1>3. \A u \in Tabs : LogsIn(u)' => LogsIn(u) \/ (u = t /\ Begins(t))
    BY <1>0, OthersLogIn, LoginGoes
  <1>4. \A v, u \in Tabs : LogsIn(v)' /\ LogsIn(u)' => v = u
    BY <1>1, <1>2, <1>3
  <1>5. ASSUME Create(t)
        PROVE  LogsIn(t) /\ OnDevice(call[t].browser) = {}
    <2>1. call[t] \in Calls /\ call[t].kind = "login" /\ call[t].then = "replaced"
      BY <1>0, <1>5, Creates
    <2>2. LogsIn(t) /\ call[t].pc = "create"
      BY <1>5, <2>1, IdleIsNoCall DEF LogsIn, Create
    <2> QED BY <1>2, <2>1, <2>2
  <1>6. \A s \in ActiveSessions' :
           \/ s \in ActiveSessions /\ docs'[s].device = docs[s].device
              /\ ~(Save(t) /\ s \in DOMAIN call[t].held)
           \/ Create(t) /\ s = Len(docs) + 1 /\ docs'[s].device = call[t].browser
    BY <1>0, Activates
  <1>7. \A r, s \in ActiveSessions' : r # s => docs'[r].device # docs'[s].device
    BY <1>2, <1>5, <1>6 DEF OnDevice
  <1>8. ASSUME NEW b, ~Create(t)
        PROVE  /\ OnDevice(b)' \subseteq OnDevice(b)
               /\ \A s \in OnDevice(b)' : ~(Save(t) /\ s \in DOMAIN call[t].held)
    BY <1>6, <1>8 DEF OnDevice
  <1>9. ASSUME NEW u \in Tabs, LogsIn(u)', call'[u].then = "replaced"
        PROVE  /\ call'[u].pc \in {"strike", "save"} =>
                     OnDevice(call[u].browser)' \subseteq DOMAIN call'[u].held
               /\ call'[u].pc = "create" => OnDevice(call[u].browser)' = {}
    <2>1. CASE u # t
      <3>1. /\ LogsIn(u) /\ call'[u].pc = call[u].pc /\ call'[u].then = call[u].then
            /\ call'[u].browser = call[u].browser /\ call'[u].held = call[u].held
        BY <1>0, <1>9, <2>1, OthersLogIn
      <3>2. ~Create(t)
        BY <1>2, <1>5, <2>1, <3>1
      <3>3. PICK b : b = call[u].browser
        OBVIOUS
      <3>4. OnDevice(b)' \subseteq OnDevice(b) /\ call'[u].browser = b
        BY <1>8, <3>1, <3>2, <3>3
      <3>5. OnDevice(call[u].browser)' \subseteq OnDevice(b)
        BY <3>4 DEF OnDevice
      <3> QED BY <1>2, <1>9, <3>1, <3>3, <3>5
    <2>2. CASE u = t
      <3>1. CASE Begins(t)
        <4>1. call'[t].pc \in {"verify", "snap"}
          BY <1>0, <1>9, <2>2, <3>1, Begun DEF Fresh, LogsIn
        <4> QED BY <2>2, <4>1
      <3>2. ASSUME ~Begins(t), call'[t].pc \in {"strike", "save", "create"}
            PROVE  /\ call'[u].pc \in {"strike", "save"} =>
                         OnDevice(call[u].browser)' \subseteq DOMAIN call'[u].held
                   /\ call'[u].pc = "create" => OnDevice(call[u].browser)' = {}
        <4>1. /\ LogsIn(t) /\ call'[t].browser = call[t].browser /\ call[t].then = "replaced"
              /\ \/ Snap(t) /\ call'[t].pc = "strike" /\ DOMAIN call'[t].held = Victims(t)
                 \/ Strike(t) /\ call'[t].pc = "save" /\ call'[t].held = call[t].held
                 \/ /\ Save(t) \/ (Snap(t) /\ Victims(t) = {})
                    /\ call'[t].pc = "create"
          BY <1>0, <1>9, <2>2, <3>2, LoginGoes
        <4>2. ~Create(t)
          BY <4>1 DEF Snap, Strike, Save, Create
        <4>3. PICK b : b = call[t].browser
          OBVIOUS
        <4>4. /\ OnDevice(b)' \subseteq OnDevice(b)
              /\ \A s \in OnDevice(b)' : ~(Save(t) /\ s \in DOMAIN call[t].held)
          BY <1>8, <4>2
        <4>5. Victims(t) = OnDevice(b)
          BY <4>1, <4>3 DEF Victims, OnDevice
        <4>6. OnDevice(call[u].browser)' = OnDevice(b)'
          BY <2>2, <4>1, <4>3 DEF OnDevice
        <4>7. CASE Snap(t)
          <5>1. ~Strike(t) /\ ~Save(t)
            BY <4>7 DEF Snap, Strike, Save
          <5> QED BY <2>2, <4>1, <4>4, <4>5, <4>6, <5>1
        <4>8. CASE Strike(t)
          <5>1. ~Save(t) /\ ~Snap(t) /\ call[t].pc = "strike"
            BY <4>8 DEF Snap, Strike, Save
          <5>2. OnDevice(b) \subseteq DOMAIN call[t].held
            BY <1>2, <4>1, <4>3, <5>1
          <5> QED BY <2>2, <4>1, <4>4, <4>6, <5>1, <5>2
        <4>9. CASE Save(t)
          <5>1. ~Strike(t) /\ ~Snap(t) /\ call[t].pc = "save"
            BY <4>9 DEF Snap, Strike, Save
          <5>2. OnDevice(b) \subseteq DOMAIN call[t].held
            BY <1>2, <4>1, <4>3, <5>1
          <5> QED BY <2>2, <4>1, <4>4, <4>6, <4>9, <5>1, <5>2
        <4> QED BY <4>1, <4>7, <4>8, <4>9
      <3> QED BY <2>2, <3>1, <3>2
    <2> QED BY <2>1, <2>2
  <1> QED BY <1>4, <1>7, <1>9 DEF DeviceInv

(* A sign-in that made a session ends only with its answer, or fails. *)
LEMMA LoginEnds ==
    ASSUME SessionAssumption, Typed, Refers, NEW t \in Tabs, TabStep(t),
           LogsIn(t), call[t].next # NoPair, ~LogsIn(t)'
    PROVE  Fail(t) \/ (call[t].then = "limit" /\ call[t].pc = "issued")
  <1> DEFINE c == call[t]
             d == call'[t]
  <1>1. c \in Calls /\ Ready(c, Len(pairs), Len(docs)) /\ c # Idle /\ c.kind = "login"
    BY AtStep DEF LogsIn
  <1>2. \/ c.then = "replaced" /\ c.pc = "record"
        \/ c.then = "limit" /\ c.pc \in {"snap", "strike", "save", "issued"}
    BY <1>1 DEF Ready, OnRoad, Asks
  <1>3. ~Begins(t)
    BY <1>1, Begun
  <1>4. d # Idle => d.kind = "login"
    <2> SUFFICES ASSUME d # Idle PROVE d.kind = "login"
      OBVIOUS
    <2>1. Goes(t)
      BY <1>3, OwnStep
    <2>2. Len(pairs) \in Nat /\ Len(docs) \in Nat
      BY Stored
    <2>3. Snap(t) \/ FindForLogout(t) \/ Save(t) =>
             c.pc \in {"snap", "strike", "save"} \/ c.then = "logout"
      BY DEF Snap, FindForLogout, Save
    <2>4. Snap(t) \/ FindForLogout(t) \/ Save(t) => Onward(t, c) = Idle \/ Kept(c, Onward(t, c))
      BY <1>1, <2>2, <2>3, OnwardKeeps DEF To
    <2>5. Kept(c, d) \/ d.kind = c.kind
      BY <2>1, <2>4 DEF Goes, To
    <2> QED BY <1>1, <2>5 DEF Kept
  <1>5. d = Idle
    BY <1>4 DEF LogsIn
  <1>6. CASE c.pc = "record"
    <2>1. Record(t) \/ Fail(t)
      BY <1>3, <1>6 DEF TabStep, Lookup, Check, SendRefresh, ReadMarker, FindByRefresh, Mark,
         Rotate, LosesRotation, Issued, Verify, Create, Snap, FindForLogout, Strike, Save,
         SetPassword, ClearCookies
    <2>2. ~Record(t)
      <3>1. Record(t) => d = [c EXCEPT !.pc = "snap", !.then = "limit"]
        BY <1>1 DEF Record, Set, Typed
      <3>2. [c EXCEPT !.pc = "snap", !.then = "limit"].pc = "snap"
        BY <1>1 DEF Calls
      <3>3. Idle.pc = "idle"
        BY DEF Idle
      <3> QED BY <1>5, <3>1, <3>2, <3>3
    <2> QED BY <2>1, <2>2
  <1>7. CASE c.then = "limit" /\ c.pc \in {"snap", "strike", "save"}
    <2>1. Snap(t) \/ Strike(t) \/ Save(t) \/ Fail(t)
      BY <1>3, <1>7 DEF TabStep, Lookup, Check, SendRefresh, ReadMarker, FindByRefresh, Mark,
         Rotate, LosesRotation, Issued, Verify, Create, Record, FindForLogout,
         SetPassword, ClearCookies
    <2>2. Onward(t, c) # Idle
      <3>1. Onward(t, c) = [c EXCEPT !.pc = "issued"]
        BY <1>1, <1>7 DEF Onward
      <3>2. [c EXCEPT !.pc = "issued"].pc = "issued"
        BY <1>1 DEF Calls
      <3> QED BY <3>1, <3>2 DEF Idle
    <2>3. ASSUME NEW k \in {"strike", "save"}, NEW f
          PROVE  [c EXCEPT !.pc = k] # Idle /\ [c EXCEPT !.pc = k, !.held = f] # Idle
      <3>1. [c EXCEPT !.pc = k].pc = k /\ [c EXCEPT !.pc = k, !.held = f].pc = k
        BY <1>1 DEF Calls
      <3> QED BY <3>1 DEF Idle
    <2>4. ~Snap(t)
      <3> DEFINE f == [v \in Victims(t) |-> docs[v].pair]
      <3>1. Snap(t) => d = IF Victims(t) = {} THEN Onward(t, c)
                           ELSE [c EXCEPT !.pc = "strike", !.held = f]
        BY <1>1, <1>7 DEF Snap, Typed
      <3> HIDE DEF f
      <3> QED BY <1>5, <2>2, <2>3, <3>1
    <2>5. ~Strike(t)
      <3>1. Strike(t) => d = [c EXCEPT !.pc = "save"]
        BY DEF Strike, Go, Typed
      <3> QED BY <1>5, <2>3, <3>1
    <2>6. ~Save(t)
      <3>1. Save(t) => d = Onward(t, c)
        BY DEF Save, Set, Typed
      <3> QED BY <1>5, <2>2, <3>1
    <2> QED BY <2>1, <2>4, <2>5, <2>6
  <1> QED BY <1>2, <1>6, <1>7

(* A tab's step keeps what is known of how many there are. *)
LEMMA CountKept ==
    ASSUME SessionAssumption, TokensInv, Holding, DeviceInv, CountInv, NEW t \in Tabs, TabStep(t)
    PROVE  CountInv'
  <1> SUFFICES ASSUME ~log'.overlaps, log'.faults = 0 PROVE CountInv'
    BY DEF CountInv
  <1>0. Typed /\ Refers
    BY DEF TokensInv
  <1>1. ~log.overlaps /\ log.faults = 0 /\ ~Fail(t)
    <2>1. log'.overlaps = log.overlaps \/ Begins(t)
      BY <1>0, Noting
    <2>2. ~log.overlaps
      BY <1>0, <2>1, Begun
    <2>3. log \in Logs
      BY <1>0 DEF Typed
    <2>4. Fail(t) => log'.faults = log.faults + 1
      BY <2>3 DEF Fail, Logs
    <2>5. log.faults \in Nat
      BY <2>3 DEF Logs
    <2>6. log'.faults = log.faults \/ log'.faults = log.faults + 1
      BY <1>0, Noting
    <2> QED BY <2>2, <2>4, <2>5, <2>6
  <1>2. /\ (\A u \in Tabs : LogsIn(u) => call[u].next = NoPair) => Few(ActiveSessions)
        /\ \A u \in Tabs : LogsIn(u) /\ call[u].then = "limit" =>
              /\ call[u].pc \in {"strike", "save"} => Few(ActiveSessions \ DOMAIN call[u].held)
              /\ call[u].pc = "issued" => Few(ActiveSessions)
    BY <1>1 DEF CountInv
  <1>3. ActiveSessions \subseteq DOMAIN docs
    BY DEF ActiveSessions
  <1>4. \A s \in ActiveSessions' :
           (s \in ActiveSessions /\ ~(Save(t) /\ s \in DOMAIN call[t].held)) \/ Create(t)
    BY <1>0, Activates
  <1>5. ASSUME NEW S \in SUBSET ActiveSessions, Few(S), NEW R \in SUBSET S
        PROVE  Few(R)
    BY <1>0, <1>3, <1>5, Fewer
  <1>6. ASSUME Create(t)
        PROVE  LogsIn(t) /\ LogsIn(t)' /\ call'[t].next # NoPair /\ call'[t].pc = "record"
    <2>1. /\ call[t] \in Calls /\ call[t].kind = "login" /\ NewPair = Len(pairs) + 1
          /\ call'[t] = [call[t] EXCEPT !.pc = "record", !.next = NewPair,
                                        !.session = Len(docs) + 1]
      BY <1>0, <1>6, Creates
    <2>2. NewPair # NoPair
      BY <1>0, <2>1, Stored DEF NoPair
    <2> HIDE DEF NewPair
    <2>3. call'[t].kind = "login" /\ call'[t].next = NewPair /\ call'[t].pc = "record"
      BY <2>1 DEF Calls
    <2>4. call'[t] # Idle /\ call[t] # Idle
      <3>1. Idle.pc = "idle"
        BY DEF Idle
      <3> QED BY <2>1, <2>3, <3>1, IdleIsNoCall
    <2> QED BY <2>1, <2>2, <2>3, <2>4 DEF LogsIn
  <1>7. ASSUME \A u \in Tabs : LogsIn(u)' => call'[u].next = NoPair
        PROVE  Few(ActiveSessions')
    <2>1. ~Create(t)
      BY <1>6, <1>7
    <2>2. ActiveSessions' \subseteq ActiveSessions
      BY <1>4, <2>1
    <2>3. CASE \A u \in Tabs : LogsIn(u) => call[u].next = NoPair
      BY <1>2, <1>5, <2>2, <2>3
    <2>4. ASSUME NEW u \in Tabs, LogsIn(u), call[u].next # NoPair
          PROVE  Few(ActiveSessions')
      <3>1. u = t
        BY <1>0, <1>7, <2>4, OthersLogIn
      <3>2. ~LogsIn(t)'
        <4>1. ~Begins(t)
          BY <1>0, <2>4, <3>1, Begun DEF LogsIn
        <4>2. LogsIn(t)' => call'[t].next = call[t].next
          BY <1>0, <2>1, <4>1, LoginGoes
        <4> QED BY <1>7, <2>4, <3>1, <4>2
      <3>3. call[t].then = "limit" /\ call[t].pc = "issued"
        BY <1>0, <1>1, <2>4, <3>1, <3>2, LoginEnds
      <3>4. Few(ActiveSessions)
        BY <1>2, <2>4, <3>1, <3>3
      <3> QED BY <1>5, <2>2, <3>4
    <2> QED BY <2>3, <2>4
  <1>8. ASSUME NEW u \in Tabs, LogsIn(u)', call'[u].then = "limit"
        PROVE  /\ call'[u].pc \in {"strike", "save"} =>
                     Few(ActiveSessions' \ DOMAIN call'[u].held)
               /\ call'[u].pc = "issued" => Few(ActiveSessions')
    <2>1. CASE u # t
      <3>1. /\ LogsIn(u) /\ call'[u].pc = call[u].pc /\ call'[u].then = call[u].then
            /\ call'[u].held = call[u].held
        BY <1>0, <1>8, <2>1, OthersLogIn
      <3>2. ~Create(t)
        BY <1>1, <1>6, <2>1, <3>1 DEF DeviceInv
      <3>3. ActiveSessions' \subseteq ActiveSessions
        BY <1>4, <3>2
      <3>4. call[u].pc \in {"strike", "save"} => Few(ActiveSessions' \ DOMAIN call[u].held)
        <4> SUFFICES ASSUME call[u].pc \in {"strike", "save"}
                     PROVE  Few(ActiveSessions' \ DOMAIN call[u].held)
          OBVIOUS
        <4>1. Few(ActiveSessions \ DOMAIN call[u].held)
          BY <1>2, <1>8, <3>1
        <4> QED BY <1>5, <3>3, <4>1
      <3>5. call[u].pc = "issued" => Few(ActiveSessions')
        BY <1>2, <1>5, <1>8, <3>1, <3>3
      <3> QED BY <3>1, <3>4, <3>5
    <2>2. CASE u = t
      <3>1. CASE Begins(t)
        BY <1>0, <1>8, <2>2, <3>1, Begun DEF Fresh
      <3>2. ASSUME ~Begins(t), call'[t].pc \in {"strike", "save", "issued"}
            PROVE  /\ call'[t].pc \in {"strike", "save"} =>
                         Few(ActiveSessions' \ DOMAIN call'[t].held)
                   /\ call'[t].pc = "issued" => Few(ActiveSessions')
        <4>1. /\ LogsIn(t) /\ call[t].then = "limit"
              /\ \/ Snap(t) /\ call'[t].pc = "strike" /\ DOMAIN call'[t].held = Victims(t)
                 \/ Strike(t) /\ call'[t].pc = "save" /\ call'[t].held = call[t].held
                 \/ (Save(t) \/ (Snap(t) /\ Victims(t) = {})) /\ call'[t].pc = "issued"
          BY <1>0, <1>8, <2>2, <3>2, LoginGoes
        <4>2. ~Create(t)
          BY <4>1 DEF Snap, Strike, Save, Create
        <4>3. ActiveSessions' \subseteq ActiveSessions
          BY <1>4, <4>2
        <4>4. Victims(t) = Excess(call[t].session)
          BY <4>1 DEF Victims
        <4>5. Few(ActiveSessions \ Victims(t))
          BY <4>4, LimitHolds
        <4>6. CASE Snap(t)
          <5>1. ~Strike(t) /\ ~Save(t)
            BY <4>6 DEF Snap, Strike, Save
          <5>2. ActiveSessions' \ Victims(t) \subseteq ActiveSessions \ Victims(t)
            BY <4>3
          <5>3. Few(ActiveSessions' \ Victims(t))
            BY <1>5, <4>5, <5>2
          <5>4. CASE Victims(t) = {} /\ call'[t].pc = "issued"
            <6>1. ActiveSessions' \ Victims(t) = ActiveSessions'
              BY <5>4
            <6> QED BY <5>3, <5>4, <6>1
          <5> QED BY <4>1, <5>1, <5>3, <5>4
        <4>7. CASE Strike(t)
          <5>1. ~Snap(t) /\ ~Save(t) /\ call[t].pc = "strike"
            BY <4>7 DEF Snap, Strike, Save
          <5>2. Few(ActiveSessions \ DOMAIN call[t].held)
            BY <1>2, <4>1, <5>1
          <5>3. Few(ActiveSessions' \ DOMAIN call[t].held)
            BY <1>5, <4>3, <5>2
          <5> QED BY <4>1, <5>1, <5>3
        <4>8. CASE Save(t)
          <5>1. ~Snap(t) /\ ~Strike(t) /\ call[t].pc = "save"
            BY <4>8 DEF Snap, Strike, Save
          <5>2. Few(ActiveSessions \ DOMAIN call[t].held)
            BY <1>2, <4>1, <5>1
          <5>3. ActiveSessions' \subseteq ActiveSessions \ DOMAIN call[t].held
            BY <1>4, <4>2, <4>8
          <5>4. Few(ActiveSessions')
            BY <1>5, <5>2, <5>3
          <5> QED BY <4>1, <5>1, <5>4
        <4> QED BY <4>1, <4>6, <4>7, <4>8
      <3> QED BY <2>2, <3>1, <3>2
    <2> QED BY <2>1, <2>2
  <1>9. Few(ActiveSessions') <=> Few(ActiveSessions)'
    BY DEF Few
  <1> QED BY <1>7, <1>8, <1>9 DEF CountInv, Few

(* Time ends sessions, and starts none. *)
LEMMA TimeKeepsDevices ==
    ASSUME SessionAssumption, TokensInv, Holding, DeviceInv, CountInv, TimeStep
    PROVE  Holding' /\ DeviceInv' /\ CountInv'
  <1>1. UNCHANGED call
    BY TimeWrites
  <1>2. CASE UNCHANGED <<docs, log>>
    <2>1. Holding'
      BY <1>2 DEF Holding
    <2>2. DeviceInv'
      BY <1>1, <1>2 DEF DeviceInv, LogsIn, OnDevice, ActiveSessions, Active
    <2>3. CountInv'
      BY <1>1, <1>2 DEF CountInv, LogsIn, ActiveSessions, Active, Few
    <2> QED BY <2>1, <2>2, <2>3
  <1>3. ASSUME NEW s \in DOMAIN docs, SessionExpires(s)
        PROVE  Holding' /\ DeviceInv' /\ CountInv'
    <2>1. /\ DOMAIN docs' = DOMAIN docs /\ docs[s] \in Docs
          /\ docs'[s] = [docs[s] EXCEPT !.expired = TRUE]
          /\ \A r \in DOMAIN docs : r # s => docs'[r] = docs[r]
      BY <1>3, Expires DEF TokensInv
    <2>2. /\ docs'[s].expired /\ docs'[s].revoked = docs[s].revoked
          /\ docs'[s].pair = docs[s].pair
      BY <2>1 DEF Docs
    <2>3. /\ log' = [log EXCEPT !.faults = log.faults + 1, !.upset = TRUE] /\ log \in Logs
      BY <1>3 DEF SessionExpires, TokensInv, Typed
    <2>4. log'.overlaps = log.overlaps /\ log'.faults = log.faults + 1 /\ log.faults \in Nat
      BY <2>3 DEF Logs
    <2>5. Holding'
      <3>1. \A r \in DOMAIN docs : docs'[r].revoked = docs[r].revoked /\ docs'[r].pair = docs[r].pair
        BY <2>1, <2>2
      <3> QED BY <2>1, <3>1 DEF Holding
    <2>6. CountInv'
      BY <2>4 DEF CountInv
    <2>7. /\ \A r \in ActiveSessions' : r \in ActiveSessions /\ docs'[r] = docs[r]
      BY <2>1, <2>2 DEF ActiveSessions, Active
    <2>8. \A b : OnDevice(b)' \subseteq OnDevice(b)
      BY <2>7 DEF OnDevice
    <2>9. \A t \in Tabs : OnDevice(call[t].browser)' \subseteq OnDevice(call[t].browser)
      BY <1>1, <2>7 DEF OnDevice
    <2>10. DeviceInv'
      <3> SUFFICES ASSUME ~log.overlaps PROVE DeviceInv'
        BY <2>4 DEF DeviceInv
      <3>1. \A t : LogsIn(t)' <=> LogsIn(t)
        BY <1>1 DEF LogsIn
      <3>2. \A q, r \in ActiveSessions' : q # r => docs'[q].device # docs'[r].device
        BY <2>7 DEF DeviceInv
      <3>3. ASSUME NEW t \in Tabs, LogsIn(t), call[t].then = "replaced"
            PROVE  /\ call[t].pc \in {"strike", "save"} =>
                         OnDevice(call[t].browser)' \subseteq DOMAIN call[t].held
                   /\ call[t].pc = "create" => OnDevice(call[t].browser)' = {}
        BY <2>9, <3>3 DEF DeviceInv
      <3> QED BY <1>1, <3>1, <3>2, <3>3 DEF DeviceInv
    <2> QED BY <2>5, <2>6, <2>10
  <1> QED BY <1>2, <1>3, TimeWrites

(***************************************************************************)
(* Alarms.                                                                 *)
(***************************************************************************)
Refreshing(t) == call[t] # Idle /\ call[t].then = "refresh"
Carries(t)    == /\ call[t] # Idle
                 /\ \/ call[t].then = "refresh" /\ call[t].pc \in {"record", "issued"}
                    \/ call[t].kind = "login" /\ call[t].next # NoPair

(* The pair a tab exchanges, and the pair it brings. *)
Takes(t)  == IF Refreshing(t) THEN call[t].pair ELSE NoPair
Brings(t) == IF Carries(t) THEN call[t].next ELSE NoPair

Owner(p)   == docs[pairs[p].session]
Unspent(p) == Owner(p).pair = p /\ used[p] = "no"

(* A tab exchanges a pair of its own device, that is good until it is exchanged. *)
Near(t) ==
    /\ call[t].pair \in DOMAIN pairs
    /\ Owner(call[t].pair).device = call[t].browser
    /\ call[t].pc \in {"marker", "find", "mark"} => Unspent(call[t].pair)
    /\ call[t].pc \in {"mark", "rotate"} => call[t].session = pairs[call[t].pair].session
    /\ call[t].pc = "rotate" => Owner(call[t].pair).pair = call[t].pair

Bringing(t) == Unspent(call[t].next) /\ Owner(call[t].next).device = call[t].browser

(* A pair is in one pair of hands. *)
Apart ==
    /\ \A t, u \in Tabs : t # u /\ Takes(t) # NoPair => Takes(u) # Takes(t)
    /\ \A t, u \in Tabs : t # u /\ Brings(t) # NoPair => Brings(u) # Brings(t)
    /\ \A t, u \in Tabs : Brings(t) # NoPair => Takes(u) # Brings(t)
    /\ \A t \in Tabs, b \in Browsers : Brings(t) # NoPair => jar[b] # Brings(t)

AtHome(b) ==
    jar[b] # NoPair =>
        /\ Owner(jar[b]).device = b
        /\ Unspent(jar[b]) \/ \E t \in Tabs : Takes(t) = jar[b]

Quiet ==
    /\ \A s \in DOMAIN docs : Active(s)
    /\ \A t \in Tabs : Refreshing(t) => Near(t)
    /\ \A t \in Tabs : Carries(t) => Bringing(t)
    /\ Apart
    /\ \A b \in Browsers : AtHome(b)
    /\ \A t \in Tabs : call[t].pc # "save"

QuietInv == ~log.blind /\ (~log.upset => Quiet)

(* What does not touch the pairs but x. *)
Leaves(x) ==
    \A p \in DOMAIN pairs :
        /\ p \in DOMAIN pairs' /\ pairs'[p] = pairs[p]
        /\ docs'[pairs[p].session].device = docs[pairs[p].session].device
        /\ p # x /\ docs[pairs[p].session].pair = p =>
              /\ docs'[pairs[p].session].pair = p
              /\ used[p] = "no" => used'[p] = "no"

(* The pairs in hand are pairs. *)
LEMMA InHand ==
    ASSUME Typed, Refers, NEW t \in Tabs
    PROVE  /\ Takes(t) \in 0..Len(pairs) /\ Brings(t) \in 0..Len(pairs)
           /\ Carries(t) => /\ call[t].next \in DOMAIN pairs
                            /\ call[t].next # NoPair /\ Brings(t) = call[t].next
  <1>0. Len(pairs) \in Nat /\ DOMAIN pairs = 1..Len(pairs)
    BY Stored
  <1>1. ASSUME call[t] # Idle
        PROVE  call[t] \in Calls /\ Ready(call[t], Len(pairs), Len(docs))
    BY <1>1, AtStep
  <1>2. Takes(t) \in 0..Len(pairs) /\ Brings(t) \in 0..Len(pairs)
    BY <1>0, <1>1 DEF Takes, Brings, Refreshing, Carries, Ready, NoPair
  <1>3. Carries(t) => call[t].next \in 0..Len(pairs) /\ call[t].next # NoPair
    BY <1>1 DEF Carries, Ready
  <1> QED BY <1>0, <1>2, <1>3 DEF Brings, NoPair

(* What a pair is good for does not change unless it is touched. *)
LEMMA LeavesUnspent ==
    ASSUME NEW x, Leaves(x), NEW p \in DOMAIN pairs
    PROVE  /\ Owner(p)'.device = Owner(p).device
           /\ Unspent(p) /\ p # x => Unspent(p)'
           /\ Owner(p).pair = p /\ p # x => Owner(p)'.pair = p
           /\ pairs'[p] = pairs[p] /\ p \in DOMAIN pairs'
  BY DEF Leaves, Owner, Unspent

(* Other tabs have in hand what they had, and it is good for what it was. *)
LEMMA OthersQuiet ==
    ASSUME SessionAssumption, TokensInv, QuietInv, ~log.upset, NEW t \in Tabs, TabStep(t),
           NEW x \in {NoPair, Takes(t)}, Leaves(x), NEW u \in Tabs \ {t}
    PROVE  /\ Takes(u)' = Takes(u) /\ Brings(u)' = Brings(u)
           /\ Refreshing(u)' => Near(u)'
           /\ Carries(u)' => Bringing(u)'
           /\ call'[u].pc # "save"
  <1>0. Typed /\ Refers
    BY DEF TokensInv
  <1>1. /\ call'[u] = Idle <=> call[u] = Idle
        /\ call[u] # Idle =>
              /\ call'[u].kind = call[u].kind /\ call'[u].pc = call[u].pc
              /\ call'[u].then = call[u].then /\ call'[u].browser = call[u].browser
              /\ call'[u].pair = call[u].pair /\ call'[u].next = call[u].next
              /\ call'[u].session = call[u].session
    BY <1>0, OthersSame
  <1>2. /\ Refreshing(u)' <=> Refreshing(u)
        /\ Carries(u)' <=> Carries(u)
    BY <1>1 DEF Refreshing, Carries
  <1>3. Takes(u)' = Takes(u) /\ Brings(u)' = Brings(u)
    BY <1>1, <1>2 DEF Takes, Brings, Refreshing, Carries
  <1>4. ASSUME Refreshing(u)
        PROVE  Near(u)'
    <2>1. Near(u)
      BY <1>4 DEF QuietInv, Quiet
    <2> DEFINE q == call[u].pair
    <2>2. PICK p : p = call[u].pair
      OBVIOUS
    <2>3. p \in DOMAIN pairs /\ p # NoPair
      <3>1. DOMAIN pairs = 1..Len(pairs)
        BY <1>0, Stored
      <3> QED BY <2>1, <2>2, <3>1 DEF Near, NoPair
    <2>4. p # x
      <3>1. Takes(u) = p
        BY <1>4, <2>2 DEF Takes
      <3>2. Takes(t) # p
        BY <2>3, <3>1 DEF QuietInv, Quiet, Apart
      <3> QED BY <2>3, <3>2
    <2>5. /\ Owner(p)'.device = Owner(p).device
          /\ Unspent(p) => Unspent(p)'
          /\ Owner(p).pair = p => Owner(p)'.pair = p
          /\ pairs'[p] = pairs[p] /\ p \in DOMAIN pairs'
      BY <2>3, <2>4, LeavesUnspent
    <2>6. /\ call'[u].pair = p /\ call'[u].pc = call[u].pc /\ call'[u].browser = call[u].browser
          /\ call'[u].session = call[u].session
      BY <1>1, <1>4, <2>2 DEF Refreshing
    <2>7. /\ Owner(p).device = call[u].browser
          /\ call[u].pc \in {"marker", "find", "mark"} => Unspent(p)
          /\ call[u].pc \in {"mark", "rotate"} => call[u].session = pairs[p].session
          /\ call[u].pc = "rotate" => Owner(p).pair = p
      BY <2>1, <2>2 DEF Near
    <2> QED BY <2>5, <2>6, <2>7 DEF Near, Owner, Unspent
  <1>5. ASSUME Carries(u)
        PROVE  Bringing(u)'
    <2>1. Bringing(u)
      BY <1>5 DEF QuietInv, Quiet
    <2>2. PICK p : p = call[u].next
      OBVIOUS
    <2>3. p \in DOMAIN pairs /\ p # NoPair /\ Brings(u) = p
      BY <1>0, <1>5, <2>2, InHand
    <2>4. p # x
      <3>2. Takes(t) # p
        BY <2>3 DEF QuietInv, Quiet, Apart
      <3> QED BY <2>3, <3>2
    <2>5. /\ Owner(p)'.device = Owner(p).device
          /\ Unspent(p) => Unspent(p)'
      BY <2>3, <2>4, LeavesUnspent
    <2>6. call'[u].next = p /\ call'[u].browser = call[u].browser
      BY <1>1, <1>5, <2>2 DEF Carries
    <2>7. Unspent(p) /\ Owner(p).device = call[u].browser
      BY <2>1, <2>2 DEF Bringing
    <2> QED BY <2>5, <2>6, <2>7 DEF Bringing, Owner, Unspent
  <1>6. call'[u].pc # "save"
    <2>1. call[u].pc # "save"
      BY DEF QuietInv, Quiet
    <2> QED BY <1>1, <2>1
  <1> QED BY <1>2, <1>3, <1>4, <1>5, <1>6

(* Hands that only let go stay apart. *)
LEMMA ApartStays ==
    ASSUME Apart, NEW t \in Tabs,
           \A u \in Tabs \ {t} : Takes(u)' = Takes(u) /\ Brings(u)' = Brings(u),
           Takes(t)' \in {NoPair, Takes(t)}, Brings(t)' \in {NoPair, Brings(t)},
           \A b \in Browsers : jar'[b] \in {NoPair, jar[b]}
    PROVE  Apart'
  <1>1. \A u \in Tabs : Takes(u)' \in {NoPair, Takes(u)} /\ Brings(u)' \in {NoPair, Brings(u)}
    OBVIOUS
  <1> QED BY <1>1 DEF Apart

(* A cookie stays good, or is being exchanged. *)
LEMMA HomeStays ==
    ASSUME TokensInv, NEW b \in Browsers, AtHome(b), NEW t \in Tabs, NEW x, Leaves(x),
           \A u \in Tabs \ {t} : Takes(u)' = Takes(u),
           jar'[b] \in {NoPair, jar[b]}, x \in {NoPair, Takes(t)},
           Takes(t)' = Takes(t) \/ (x = NoPair /\ (Takes(t) = jar[b] => Unspent(jar[b])))
    PROVE  AtHome(b)'
  <1> SUFFICES ASSUME jar'[b] # NoPair
               PROVE  /\ Owner(jar[b])'.device = b
                      /\ Unspent(jar[b])' \/ \E u \in Tabs : Takes(u)' = jar'[b]
    BY DEF AtHome
  <1>1. PICK p : p = jar[b]
    OBVIOUS
  <1>2. jar'[b] = p /\ p \in DOMAIN pairs /\ p # NoPair
    <2>1. DOMAIN pairs = 1..Len(pairs) /\ jar[b] \in Nat /\ jar[b] <= Len(pairs)
             /\ Len(pairs) \in Nat
      BY Stored DEF TokensInv, Typed, Refers
    <2> QED BY <1>1, <2>1 DEF NoPair
  <1>3. Owner(p).device = b /\ (Unspent(p) \/ \E u \in Tabs : Takes(u) = p)
    BY <1>1, <1>2 DEF AtHome
  <1>4. /\ Owner(p)'.device = Owner(p).device
        /\ Unspent(p) /\ p # x => Unspent(p)'
    BY <1>2, LeavesUnspent
  <1>5. Unspent(p)' \/ \E u \in Tabs : Takes(u)' = p
    <2>1. CASE p = x
      BY <1>2, <2>1
    <2>2. CASE p # x /\ Unspent(p)
      BY <1>4, <2>2
    <2>3. ASSUME p # x, ~Unspent(p), NEW u \in Tabs, Takes(u) = p
          PROVE  Takes(u)' = p
      BY <1>1, <2>3
    <2> QED BY <1>3, <2>1, <2>2, <2>3
  <1> QED BY <1>2, <1>3, <1>4, <1>5 DEF Owner, Unspent

(* If a tab's hands are in order after its step, all are. *)
LEMMA QuietFrom ==
    ASSUME SessionAssumption, TokensInv, QuietInv, ~log.upset, ~log'.blind,
           NEW t \in Tabs, TabStep(t), NEW x \in {NoPair, Takes(t)}, Leaves(x),
           \A s \in DOMAIN docs' : Active(s)',
           Refreshing(t)' => Near(t)', Carries(t)' => Bringing(t)', call'[t].pc # "save",
           Apart', \A b \in Browsers : AtHome(b)'
    PROVE  QuietInv'
  <1>1. \A u \in Tabs \ {t} : /\ Refreshing(u)' => Near(u)'
                              /\ Carries(u)' => Bringing(u)'
                              /\ call'[u].pc # "save"
    BY OthersQuiet
  <1> QED BY <1>1 DEF QuietInv, Quiet

(* A step that touches neither sessions nor cookies. *)
LEMMA HandsKept ==
    ASSUME SessionAssumption, TokensInv, QuietInv, ~log'.upset, NEW t \in Tabs, TabStep(t),
           ~SendRefresh(t), ~Mark(t), ~Rotate(t), ~Issued(t), ~Create(t), ~ClearCookies(t)
    PROVE  /\ UNCHANGED <<jar, docs, pairs, used>> /\ ~log'.blind /\ call'[t].pc # "save"
           /\ Takes(t)' \in {NoPair, Takes(t)} /\ Brings(t)' \in {NoPair, Brings(t)}
           /\ Takes(t)' # Takes(t) => Unspent(Takes(t))
           /\ Refreshing(t)' => Near(t)'
           /\ Carries(t)' => Bringing(t)'
  <1> DEFINE c == call[t]
             d == call'[t]
  <1>0. Typed /\ Refers /\ ~log.upset /\ ~log.blind /\ ~Strike(t) /\ ~Fail(t)
    BY Noting DEF TokensInv, QuietInv, Quiet
  <1>a. Idle.pc = "idle"
    BY DEF Idle
  <1>1. ~Save(t)
    BY <1>0 DEF QuietInv, Quiet, Save
  <1>2. UNCHANGED <<jar, docs, pairs, used>>
    BY <1>0, <1>1, TabWrites
  <1>3. Refreshing(t) => Near(t) /\ c \in Calls /\ Ready(c, Len(pairs), Len(docs))
    BY <1>0, AtStep DEF QuietInv, Quiet, Refreshing
  <1>4. ASSUME c.pc # "idle"
        PROVE  c \in Calls /\ Ready(c, Len(pairs), Len(docs)) /\ c # Idle
    BY <1>0, <1>4, AtStep
  <1>5. ~LosesRotation(t)
    <2> SUFFICES ASSUME LosesRotation(t) PROVE FALSE
      OBVIOUS
    <2>1. c.pc = "rotate" /\ ~MayRotate(t)
      BY DEF LosesRotation
    <2>2. Near(t)
      BY <1>3, <1>4, <2>1 DEF Ready, OnRoad, Refreshing
    <2>3. Owner(c.pair).pair = c.pair /\ c.session = pairs[c.pair].session
          /\ c.pair \in DOMAIN pairs
      BY <2>1, <2>2 DEF Near
    <2>4. Active(c.session)
      BY <1>0, <2>3 DEF QuietInv, Quiet, Refers
    <2> QED BY <2>1, <2>3, <2>4 DEF MayRotate, Owner
  <1>6. ~(ReadMarker(t) /\ used[c.pair] = "old")
    <2> SUFFICES ASSUME ReadMarker(t) PROVE used[c.pair] # "old"
      OBVIOUS
    <2>1. c.pc = "marker"
      BY DEF ReadMarker
    <2>2. Near(t)
      BY <1>3, <1>4, <2>1 DEF Ready, OnRoad, Refreshing
    <2> QED BY <2>1, <2>2 DEF Near, Unspent
  <1>7. ~log'.blind
    BY <1>0, <1>5, <1>6, Noting
  <1>8. \A p : Unspent(p)' <=> Unspent(p)
    BY <1>2 DEF Unspent, Owner
  <1>9. CASE Begins(t)
    <2>1. c = Idle /\ Fresh(d)
      BY <1>0, <1>9, Begun
    <2>2. ~Refreshing(t)' /\ ~Carries(t)' /\ ~Refreshing(t) /\ d.pc # "save"
      BY <2>1 DEF Fresh, Refreshing, Carries
    <2> QED BY <1>2, <1>7, <2>2 DEF Takes, Brings
  <1>10. CASE d = Idle
    <2>1. ~Refreshing(t)' /\ ~Carries(t)' /\ d.pc # "save"
      BY <1>a, <1>10 DEF Refreshing, Carries
    <2>2. ASSUME Refreshing(t)
          PROVE  Unspent(c.pair)
      <3>1. c \in Calls /\ Ready(c, Len(pairs), Len(docs)) /\ Near(t) /\ c.then = "refresh"
        BY <1>3, <2>2 DEF Refreshing
      <3>2. c.pc \in {"marker", "find", "mark", "rotate", "record", "issued"}
        BY <3>1 DEF Ready, OnRoad
      <3>3. ~Begins(t)
        BY <1>0, <2>2, Begun DEF Refreshing
      <3>4. c.pc # "rotate"
        BY <1>0, <1>1, <1>5, <3>3 DEF TabStep, Lookup, Check, SendRefresh, ReadMarker,
           FindByRefresh, Mark, Record, Issued, Verify, Create, Snap, FindForLogout,
           SetPassword, ClearCookies
      <3>5. c.pc # "record"
        <4> SUFFICES ASSUME c.pc = "record" PROVE FALSE
          OBVIOUS
        <4>1. Record(t)
          BY <1>0, <1>1, <1>5, <3>3 DEF TabStep, Lookup, Check, SendRefresh, ReadMarker,
             FindByRefresh, Mark, Issued, Verify, Create, Snap, FindForLogout,
             SetPassword, ClearCookies
        <4>2. d = [c EXCEPT !.pc = "issued"] \/ d = [c EXCEPT !.pc = "snap", !.then = "limit"]
          BY <1>0, <4>1 DEF Record, Set, Go, Typed
        <4>3. d.pc = "issued" \/ d.pc = "snap"
          BY <3>1, <4>2 DEF Calls
        <4> QED BY <1>a, <1>10, <4>3
      <3>6. c.pc # "issued"
        BY <1>0, <1>1, <1>5, <3>3 DEF TabStep, Lookup, Check, SendRefresh, ReadMarker,
           FindByRefresh, Mark, Record, Issued, Verify, Create, Snap, FindForLogout,
           SetPassword, ClearCookies
      <3> QED BY <3>1, <3>2, <3>4, <3>5, <3>6 DEF Near
    <2> QED BY <1>2, <1>7, <2>1, <2>2 DEF Takes, Brings
  <1>11. CASE d # Idle /\ ~Begins(t)
    <2>0. /\ c \in Calls /\ Ready(c, Len(pairs), Len(docs)) /\ Goes(t) /\ c # Idle
          /\ Len(pairs) \in Nat /\ Len(docs) \in Nat
      BY <1>0, <1>11, OwnStep, IdleIsNoCall, Stored
    <2>1. CASE ReadMarker(t) \/ FindByRefresh(t)
      <3>1. c.then = "refresh" /\ c.kind # "login" /\ c.pc \in {"marker", "find"}
        BY <2>0, <2>1 DEF ReadMarker, FindByRefresh, Ready, OnRoad, Asks
      <3>2. Near(t)
        BY <1>3, <2>0, <3>1 DEF Refreshing
      <3>3. /\ ~Lookup(t) /\ ~Check(t) /\ ~Record(t) /\ ~Verify(t) /\ ~Snap(t)
            /\ (FindForLogout(t) => c.then = "logout")
        BY <2>1 DEF ReadMarker, FindByRefresh, Lookup, Check, Record, Verify, Snap, FindForLogout
      <3>4. /\ d.kind = c.kind /\ d.browser = c.browser /\ d.pair = c.pair /\ d.then = "refresh"
            /\ d.pc = "find" \/ (d.pc = "mark" /\ d.session = pairs[c.pair].session)
        BY <1>0, <1>1, <1>5, <1>6, <2>0, <3>1, <3>3 DEF Goes, To, Kept, Bears
      <3>5. Takes(t)' = Takes(t) /\ ~Carries(t)'
        BY <1>11, <2>0, <3>1, <3>4 DEF Takes, Refreshing, Carries
      <3>6. Near(t)'
        <4>1. /\ c.pair \in DOMAIN pairs /\ Owner(c.pair).device = c.browser /\ Unspent(c.pair)
          BY <3>1, <3>2 DEF Near
        <4> QED BY <1>2, <3>4, <4>1 DEF Near, Owner, Unspent
      <3> QED BY <1>2, <1>7, <3>4, <3>5, <3>6 DEF Brings
    <2>2. CASE Record(t) /\ c.kind # "login"
      <3>1. c.then = "refresh" /\ c.pc = "record"
        BY <2>0, <2>2 DEF Record, Ready, OnRoad
      <3>2. d = [c EXCEPT !.pc = "issued"]
        BY <1>0, <2>2 DEF Record, Go, Typed
      <3>3. /\ d.then = c.then /\ d.pc = "issued" /\ d.pair = c.pair /\ d.next = c.next
            /\ d.browser = c.browser
        BY <2>0, <3>2 DEF Calls
      <3>4. Near(t) /\ Bringing(t) /\ Refreshing(t) /\ Carries(t)
        BY <1>0, <2>0, <3>1 DEF QuietInv, Quiet, Refreshing, Carries
      <3>5. Takes(t)' = Takes(t) /\ Brings(t)' = Brings(t)
        BY <1>11, <3>1, <3>3, <3>4 DEF Takes, Brings, Refreshing, Carries
      <3>6. Near(t)' /\ Bringing(t)'
        BY <1>2, <3>1, <3>3, <3>4 DEF Near, Bringing, Owner, Unspent
      <3> QED BY <1>2, <1>7, <3>3, <3>5, <3>6
    <2>3. CASE /\ c.then # "refresh" /\ d.then # "refresh" /\ d.kind = c.kind
               /\ d.browser = c.browser /\ (c.kind = "login" => d.next = c.next)
               /\ d.pc # "save"
      <3>1. Carries(t)' <=> Carries(t)
        BY <1>11, <2>0, <2>3 DEF Carries
      <3>2. ~Refreshing(t) /\ ~Refreshing(t)' /\ (Carries(t) => c.kind = "login" /\ Bringing(t))
        BY <1>0, <2>3 DEF Refreshing, Carries, QuietInv, Quiet
      <3>3. Takes(t)' = Takes(t) /\ Brings(t)' = Brings(t)
        BY <2>3, <3>1, <3>2 DEF Takes, Brings
      <3>4. Carries(t)' => Bringing(t)'
        BY <1>2, <2>3, <3>1, <3>2 DEF Bringing, Owner, Unspent
      <3> QED BY <1>2, <1>7, <2>3, <3>2, <3>3, <3>4
    <2>4. CASE Lookup(t) \/ Check(t)
      <3>1. c.then = "none" /\ c.kind # "login"
        BY <2>0, <2>4 DEF Lookup, Check, Ready, OnRoad, Asks
      <3>2. /\ ~ReadMarker(t) /\ ~FindByRefresh(t) /\ ~Record(t) /\ ~Verify(t) /\ ~Snap(t)
            /\ ~FindForLogout(t)
        BY <2>4 DEF ReadMarker, FindByRefresh, Lookup, Check, Record, Verify, Snap, FindForLogout
      <3>3. \E k \in {"none", "limit", "others", "one"}, q \in {"check", "refused", "snap"} :
               To(c, d, q, k)
        BY <1>0, <1>1, <1>5, <2>0, <3>1, <3>2 DEF Goes
      <3> QED BY <2>3, <3>1, <3>3 DEF To, Kept
    <2>5. CASE Verify(t)
      <3>1. c.then = "replaced"
        BY <2>0, <2>5 DEF Verify, Ready, OnRoad
      <3>2. /\ ~ReadMarker(t) /\ ~FindByRefresh(t) /\ ~Record(t) /\ ~Lookup(t) /\ ~Snap(t)
            /\ ~FindForLogout(t) /\ ~Check(t)
        BY <2>5 DEF ReadMarker, FindByRefresh, Lookup, Check, Record, Verify, Snap, FindForLogout
      <3>3. d.kind = c.kind /\ d.browser = c.browser /\ d.pc = "snap" /\ d.then = c.then
            /\ d.next = c.next
        BY <1>0, <1>1, <1>5, <2>0, <3>2 DEF Goes
      <3> QED BY <2>3, <3>1, <3>3
    <2>6. CASE Record(t) /\ c.kind = "login"
      <3>1. c.then = "replaced"
        BY <2>0, <2>6 DEF Record, Ready, OnRoad, Asks
      <3>2. d = [c EXCEPT !.pc = "snap", !.then = "limit"]
        BY <1>0, <2>6 DEF Record, Set, Typed
      <3>3. d.kind = c.kind /\ d.browser = c.browser /\ d.pc = "snap" /\ d.then = "limit"
            /\ d.next = c.next
        BY <2>0, <3>2 DEF Calls
      <3> QED BY <2>3, <3>1, <3>3
    <2>7. CASE Snap(t) \/ FindForLogout(t)
      <3>1. c.then # "refresh" /\ (c.pc = "snap" \/ c.then = "logout")
        BY <2>0, <2>7 DEF Snap, FindForLogout, Ready, OnRoad, Asks
      <3>2. /\ ~ReadMarker(t) /\ ~FindByRefresh(t) /\ ~Record(t) /\ ~Lookup(t) /\ ~Verify(t)
            /\ ~Check(t)
        BY <2>7, <3>1 DEF ReadMarker, FindByRefresh, Lookup, Check, Record, Verify, Snap,
           FindForLogout
      <3>3. \/ To(c, d, "strike", c.then) /\ d.next = c.next
            \/ d = Onward(t, c)
        BY <1>0, <1>1, <1>5, <2>0, <3>2 DEF Goes
      <3>4. d = Onward(t, c) =>
               /\ d.next = c.next
               /\ \E k \in {c.then, "limit"}, q \in {"set", "create", "clear", "issued", "snap"} :
                     To(c, d, q, k)
        BY <1>11, <2>0, <3>1, OnwardKeeps DEF Bears
      <3> QED BY <2>3, <3>1, <3>3, <3>4 DEF To, Kept
    <2>8. CASE SetPassword(t)
      <3>1. d = Idle
        BY <1>0, <2>8 DEF SetPassword, Over, Set, Typed
      <3> QED BY <1>11, <3>1
    <2> QED BY <1>0, <1>1, <1>5, <1>11, <2>1, <2>2, <2>4, <2>5, <2>6, <2>7, <2>8 DEF TabStep
  <1> QED BY <1>9, <1>10, <1>11


(* A cookie refers to a pair or to none, and so does what a tab has in hand. *)
LEMMA JarRefers ==
    ASSUME Typed, Refers, NEW b \in Browsers
    PROVE  jar[b] \in 0..Len(pairs) /\ (jar[b] # NoPair => jar[b] \in DOMAIN pairs)
  <1>1. Len(pairs) \in Nat /\ DOMAIN pairs = 1..Len(pairs)
    BY Stored
  <1>2. jar[b] \in Nat /\ jar[b] <= Len(pairs)
    BY DEF Typed, Refers
  <1> QED BY <1>1, <1>2 DEF NoPair

(* A step that touches no session, no pair and no marker leaves them all. *)
LEMMA AllLeft ==
    ASSUME UNCHANGED <<docs, pairs, used>>
    PROVE  /\ \A x : Leaves(x)
           /\ \A p : (Unspent(p)' <=> Unspent(p)) /\ Owner(p)'.device = Owner(p).device
           /\ Quiet => \A s \in DOMAIN docs' : Active(s)'
  BY DEF Leaves, Unspent, Owner, Quiet, Active

(* A step that touches neither sessions nor cookies keeps the quiet. *)
LEMMA QuietHands ==
    ASSUME SessionAssumption, TokensInv, QuietInv, ~log'.upset, NEW t \in Tabs, TabStep(t),
           ~SendRefresh(t), ~Mark(t), ~Rotate(t), ~Issued(t), ~Create(t), ~ClearCookies(t)
    PROVE  QuietInv'
  <1>0. Typed /\ Refers /\ ~log.upset /\ Quiet
    BY Noting DEF TokensInv, QuietInv
  <1>1. /\ UNCHANGED <<jar, docs, pairs, used>> /\ ~log'.blind /\ call'[t].pc # "save"
        /\ Takes(t)' \in {NoPair, Takes(t)} /\ Brings(t)' \in {NoPair, Brings(t)}
        /\ Takes(t)' # Takes(t) => Unspent(Takes(t))
        /\ Refreshing(t)' => Near(t)'
        /\ Carries(t)' => Bringing(t)'
    BY HandsKept
  <1>2. Leaves(NoPair) /\ \A s \in DOMAIN docs' : Active(s)'
    BY <1>0, <1>1, AllLeft
  <1>3. \A u \in Tabs \ {t} : Takes(u)' = Takes(u) /\ Brings(u)' = Brings(u)
    BY <1>0, <1>2, OthersQuiet
  <1>4. \A b \in Browsers : jar'[b] \in {NoPair, jar[b]}
    BY <1>1
  <1>5. Apart'
    BY <1>0, <1>1, <1>3, <1>4, ApartStays DEF Quiet
  <1>6. ASSUME NEW b \in Browsers
        PROVE  AtHome(b)'
    <2>1. AtHome(b)
      BY <1>0 DEF Quiet
    <2>2. Takes(t)' = Takes(t) \/ (NoPair = NoPair /\ (Takes(t) = jar[b] => Unspent(jar[b])))
      BY <1>1
    <2>3. \A u \in Tabs \ {t} : Takes(u)' = Takes(u)
      BY <1>3
    <2> QED BY <1>2, <1>4, <2>1, <2>2, <2>3, HomeStays
  <1> QED BY <1>0, <1>1, <1>2, <1>5, <1>6, QuietFrom

(* A refresh is sent with a cookie that no other tab is exchanging. *)
LEMMA QuietSends ==
    ASSUME SessionAssumption, TokensInv, QuietInv, ~log'.upset, NEW t \in Tabs, TabStep(t),
           SendRefresh(t)
    PROVE  QuietInv'
  <1> DEFINE c == call[t]
             d == call'[t]
  <1>0. Typed /\ Refers /\ ~log.upset /\ ~log.blind /\ Quiet
    BY Noting DEF TokensInv, QuietInv
  <1>1. /\ UNCHANGED <<jar, docs, pairs, used>> /\ c.pc = "refused"
    BY DEF SendRefresh
  <1>2. c \in Calls /\ c # Idle /\ c.then = "none" /\ c.kind \in Asks /\ c.browser \in Browsers
    <2>1. c.pc # "idle"
      BY <1>1
    <2>2. c \in Calls /\ Ready(c, Len(pairs), Len(docs)) /\ c # Idle
      BY <1>0, <2>1, AtStep
    <2> QED BY <1>1, <2>2 DEF Ready, OnRoad, Calls
  <1>3. Takes(t) = NoPair /\ Brings(t) = NoPair
    BY <1>1, <1>2 DEF Takes, Brings, Refreshing, Carries, Asks
  <1>4. Leaves(NoPair) /\ \A s \in DOMAIN docs' : Active(s)'
    BY <1>0, <1>1, AllLeft
  <1>5. \A u \in Tabs \ {t} : Takes(u)' = Takes(u) /\ Brings(u)' = Brings(u)
    BY <1>0, <1>4, OthersQuiet
  <1>6. ~log'.blind
    <2>1. ~LosesRotation(t) /\ ~ReadMarker(t)
      BY <1>1 DEF LosesRotation, ReadMarker
    <2> QED BY <1>0, <2>1, Noting
  <1>7. PICK p : p = jar[c.browser]
    OBVIOUS
  <1>8. ASSUME NEW b \in Browsers
        PROVE  AtHome(b)'
    <2>1. AtHome(b)
      BY <1>0 DEF Quiet
    <2>2. \A u \in Tabs : Takes(u) # NoPair => Takes(u)' = Takes(u)
      BY <1>3, <1>5
    <2>3. jar[b] # NoPair =>
             /\ Owner(jar[b]).device = b
             /\ Unspent(jar[b]) \/ \E u \in Tabs : Takes(u) = jar[b]
      BY <2>1 DEF AtHome
    <2>4. jar[b] # NoPair => Unspent(jar[b]) \/ \E u \in Tabs : Takes(u)' = jar[b]
      BY <2>2, <2>3
    <2> QED BY <1>1, <2>3, <2>4 DEF AtHome, Owner, Unspent
  <1>9. CASE p = NoPair
    <2>1. d = Idle
      BY <1>0, <1>7, <1>9 DEF SendRefresh, Over, Set, Typed
    <2>2. ~Refreshing(t)' /\ ~Carries(t)' /\ d.pc # "save"
      BY <2>1 DEF Refreshing, Carries, Idle
    <2>3. Takes(t)' = NoPair /\ Brings(t)' = NoPair
      BY <2>2 DEF Takes, Brings
    <2>4. \A b \in Browsers : jar'[b] \in {NoPair, jar[b]}
      BY <1>1
    <2>5. Apart'
      BY <1>0, <1>5, <2>3, <2>4, ApartStays DEF Quiet
    <2> QED BY <1>0, <1>4, <1>6, <1>8, <2>2, <2>5, QuietFrom
  <1>10. CASE p # NoPair
    <2>1. d = [c EXCEPT !.pc = "marker", !.then = "refresh", !.pair = p]
      BY <1>0, <1>7, <1>10 DEF SendRefresh, Set, Typed
    <2>2. /\ d.pc = "marker" /\ d.then = "refresh" /\ d.pair = p /\ d.kind = c.kind
          /\ d.browser = c.browser
      BY <1>2, <2>1 DEF Calls
    <2>3. d # Idle
      <3>1. Idle.pc = "idle"
        BY DEF Idle
      <3> QED BY <2>2, <3>1
    <2>4. Takes(t)' = p /\ Brings(t)' = NoPair /\ ~Carries(t)'
      BY <1>2, <2>2, <2>3 DEF Takes, Brings, Refreshing, Carries, Asks
    <2>5. \A u \in Tabs : Takes(u) # p /\ Brings(u) # p
      <3>1. \A u \in Tabs : ~Refreshes(u, p)
        BY <1>0, <1>7, Noting
      <3>2. \A u \in Tabs : Takes(u) # p
        BY <1>10, <3>1 DEF Takes, Refreshing, Refreshes
      <3>3. \A u \in Tabs : Brings(u) # p
        BY <1>0, <1>2, <1>7, <1>10 DEF Quiet, Apart
      <3> QED BY <3>2, <3>3
    <2>6. Near(t)'
      <3>1. p \in DOMAIN pairs
        BY <1>0, <1>2, <1>7, <1>10, JarRefers
      <3>2. AtHome(c.browser)
        BY <1>0, <1>2 DEF Quiet
      <3>3. Owner(p).device = c.browser /\ Unspent(p)
        BY <1>7, <1>10, <2>5, <3>2 DEF AtHome
      <3> QED BY <1>1, <2>2, <3>1, <3>3 DEF Near, Owner, Unspent
    <2>7. Apart'
      <3>1. Apart
        BY <1>0 DEF Quiet
      <3>2. \A u \in Tabs : u # t => Takes(u)' = Takes(u) /\ Brings(u)' = Brings(u)
        BY <1>5
      <3> QED BY <1>1, <2>4, <2>5, <3>1, <3>2 DEF Apart
    <2> QED BY <1>0, <1>4, <1>6, <1>8, <2>2, <2>4, <2>6, <2>7, QuietFrom
  <1> QED BY <1>9, <1>10

(* The mark is put on the pair that is being exchanged. *)
LEMMA QuietMarks ==
    ASSUME SessionAssumption, TokensInv, QuietInv, ~log'.upset, NEW t \in Tabs, TabStep(t),
           Mark(t)
    PROVE  QuietInv'
  <1> DEFINE c == call[t]
             d == call'[t]
  <1>0. Typed /\ Refers /\ ~log.upset /\ ~log.blind /\ Quiet
    BY Noting DEF TokensInv, QuietInv
  <1>1. UNCHANGED <<jar, docs, pairs>> /\ c.pc = "mark"
    BY DEF Mark
  <1>2. c \in Calls /\ c # Idle /\ c.then = "refresh" /\ c.kind \in Asks
    <2>1. c.pc # "idle"
      BY <1>1
    <2>2. c \in Calls /\ Ready(c, Len(pairs), Len(docs)) /\ c # Idle
      BY <1>0, <2>1, AtStep
    <2> QED BY <1>1, <2>2 DEF Ready, OnRoad
  <1>3. PICK p : p = c.pair
    OBVIOUS
  <1>4. /\ p \in DOMAIN pairs /\ Owner(p).device = c.browser /\ Owner(p).pair = p
        /\ c.session = pairs[p].session
    <2>1. Near(t)
      BY <1>0, <1>2 DEF Quiet, Refreshing
    <2> QED BY <1>1, <1>3, <2>1 DEF Near, Unspent
  <1>5. Takes(t) = p /\ Brings(t) = NoPair
    BY <1>1, <1>2, <1>3 DEF Takes, Brings, Refreshing, Carries, Asks
  <1>6. d = [c EXCEPT !.pc = "rotate"]
    BY <1>0 DEF Mark, Go, Typed
  <1>7. /\ d.pc = "rotate" /\ d.then = "refresh" /\ d.pair = p /\ d.kind = c.kind
        /\ d.browser = c.browser /\ d.session = c.session
    BY <1>2, <1>3, <1>6 DEF Calls
  <1>8. d # Idle
    <2>1. Idle.pc = "idle"
      BY DEF Idle
    <2> QED BY <1>7, <2>1
  <1>9. Takes(t)' = p /\ Brings(t)' = NoPair /\ ~Carries(t)'
    BY <1>2, <1>7, <1>8 DEF Takes, Brings, Refreshing, Carries, Asks
  <1>10. Near(t)'
    BY <1>1, <1>4, <1>7 DEF Near, Owner
  <1>11. Leaves(p)
    <2>1. DOMAIN used = DOMAIN pairs
      BY <1>0, Stored
    <2>2. \A q \in DOMAIN used : q # p => used'[q] = used[q]
      BY <1>0, <1>3, UsedKept
    <2> QED BY <1>1, <2>1, <2>2 DEF Leaves
  <1>12. \A s \in DOMAIN docs' : Active(s)'
    BY <1>0, <1>1 DEF Quiet, Active
  <1>13. \A u \in Tabs \ {t} : Takes(u)' = Takes(u) /\ Brings(u)' = Brings(u)
    BY <1>0, <1>5, <1>11, OthersQuiet
  <1>14. \A b \in Browsers : jar'[b] \in {NoPair, jar[b]}
    BY <1>1
  <1>15. Apart'
    BY <1>0, <1>5, <1>9, <1>13, <1>14, ApartStays DEF Quiet
  <1>16. ASSUME NEW b \in Browsers
         PROVE  AtHome(b)'
    <2>1. AtHome(b)
      BY <1>0 DEF Quiet
    <2>2. \A u \in Tabs \ {t} : Takes(u)' = Takes(u)
      BY <1>13
    <2> QED BY <1>5, <1>9, <1>11, <1>14, <2>1, <2>2, HomeStays
  <1>17. ~log'.blind
    <2>1. ~LosesRotation(t) /\ ~ReadMarker(t)
      BY <1>1 DEF LosesRotation, ReadMarker
    <2> QED BY <1>0, <2>1, Noting
  <1> QED BY <1>0, <1>5, <1>7, <1>9, <1>10, <1>11, <1>12, <1>15, <1>16, <1>17, QuietFrom

(* An exchange ends the old pair and brings a new one. *)
LEMMA QuietRotates ==
    ASSUME SessionAssumption, TokensInv, QuietInv, ~log'.upset, NEW t \in Tabs, TabStep(t),
           Rotate(t)
    PROVE  QuietInv'
  <1> DEFINE c == call[t]
             d == call'[t]
  <1>0. Typed /\ Refers /\ ~log.upset /\ ~log.blind /\ Quiet
    BY Noting DEF TokensInv, QuietInv
  <1>1. c.pc = "rotate" /\ UNCHANGED jar
    BY DEF Rotate
  <1>2. c \in Calls /\ c # Idle /\ c.then = "refresh" /\ c.kind \in Asks
    <2>1. c.pc # "idle"
      BY <1>1
    <2>2. c \in Calls /\ Ready(c, Len(pairs), Len(docs)) /\ c # Idle
      BY <1>0, <2>1, AtStep
    <2> QED BY <1>1, <2>2 DEF Ready, OnRoad
  <1>3. PICK p : p = c.pair
    OBVIOUS
  <1>4. PICK n : n = NewPair
    OBVIOUS
  <1>5. PICK o : o = c.session
    OBVIOUS
  <1>a. /\ docs'[o] = [docs[o] EXCEPT !.pair = n]
        /\ d = [c EXCEPT !.pc = "record", !.next = n]
    BY <1>0, <1>4, <1>5, Rotates
  <1>6. /\ o \in DOMAIN docs /\ p \in DOMAIN pairs /\ docs[o].pair = p
        /\ n = Len(pairs) + 1 /\ DOMAIN docs' = DOMAIN docs
        /\ \A s \in DOMAIN docs : s # o => docs'[s] = docs[s]
        /\ DOMAIN pairs' = 1..n /\ pairs'[n].session = o
        /\ \A q \in DOMAIN pairs : pairs'[q] = pairs[q]
        /\ used'[n] = "no" /\ \A q \in DOMAIN used : used'[q] = used[q]
    <2>1. pairs'[n] = [session |-> o, from |-> c.pair]
      BY <1>0, <1>4, <1>5, Rotates
    <2>2. pairs'[n].session = o
      BY <2>1
    <2> QED BY <1>0, <1>3, <1>4, <1>5, <2>2, Rotates
  <1>7. /\ DOMAIN pairs = 1..Len(pairs) /\ DOMAIN used = DOMAIN pairs /\ Len(pairs) \in Nat
        /\ \A q \in DOMAIN pairs : pairs[q].session \in DOMAIN docs
        /\ docs[o] \in Docs
    BY <1>0, <1>6, Stored DEF Refers
  <1>8. Owner(p).device = c.browser /\ o = pairs[p].session
    <2>1. Near(t)
      BY <1>0, <1>2 DEF Quiet, Refreshing
    <2> QED BY <1>1, <1>3, <1>5, <2>1 DEF Near
  <1>9. /\ docs'[o].pair = n /\ docs'[o].device = docs[o].device
        /\ docs'[o].revoked = docs[o].revoked /\ docs'[o].expired = docs[o].expired
    BY <1>a, <1>7 DEF Docs
  <1>10. /\ d.pc = "record" /\ d.then = "refresh" /\ d.pair = p /\ d.kind = c.kind
         /\ d.browser = c.browser /\ d.next = n
    BY <1>2, <1>3, <1>a DEF Calls
  <1>11. d # Idle
    <2>1. Idle.pc = "idle"
      BY DEF Idle
    <2> QED BY <1>10, <2>1
  <1>12. Takes(t) = p /\ Brings(t) = NoPair
    BY <1>1, <1>2, <1>3 DEF Takes, Brings, Refreshing, Carries, Asks
  <1>13. Takes(t)' = p /\ Brings(t)' = n
    BY <1>10, <1>11 DEF Takes, Brings, Refreshing, Carries
  <1>14. Near(t)'
    <2>1. p \in DOMAIN pairs' /\ Owner(p)'.device = c.browser
      BY <1>6, <1>7, <1>8, <1>9 DEF Owner
    <2> QED BY <1>10, <2>1 DEF Near, Owner
  <1>15. Bringing(t)'
    <2>1. Unspent(n)' /\ Owner(n)'.device = c.browser
      BY <1>6, <1>8, <1>9 DEF Unspent, Owner
    <2> QED BY <1>10, <2>1 DEF Bringing, Owner, Unspent
  <1>16. Leaves(p)
    BY <1>6, <1>7, <1>9 DEF Leaves
  <1>17. \A s \in DOMAIN docs' : Active(s)'
    BY <1>0, <1>6, <1>9 DEF Quiet, Active
  <1>18. \A u \in Tabs \ {t} : Takes(u)' = Takes(u) /\ Brings(u)' = Brings(u)
    BY <1>0, <1>12, <1>16, OthersQuiet
  <1>19. Apart'
    <2>1. Apart
      BY <1>0 DEF Quiet
    <2>2. \A u \in Tabs : u # t => /\ Takes(u)' = Takes(u) /\ Brings(u)' = Brings(u)
                                   /\ Takes(u) # n /\ Brings(u) # n
      BY <1>0, <1>6, <1>7, <1>18, InHand
    <2>3. \A b \in Browsers : jar'[b] = jar[b] /\ jar[b] # n
      BY <1>0, <1>1, <1>6, <1>7, JarRefers
    <2>4. p # n
      BY <1>6, <1>7
    <2> QED BY <1>12, <1>13, <2>1, <2>2, <2>3, <2>4 DEF Apart
  <1>20. ASSUME NEW b \in Browsers
         PROVE  AtHome(b)'
    <2>1. AtHome(b)
      BY <1>0 DEF Quiet
    <2>2. \A u \in Tabs \ {t} : Takes(u)' = Takes(u)
      BY <1>18
    <2>3. jar'[b] \in {NoPair, jar[b]}
      BY <1>1
    <2> QED BY <1>12, <1>13, <1>16, <2>1, <2>2, <2>3, HomeStays
  <1>21. ~log'.blind
    <2>1. ~LosesRotation(t) /\ ~ReadMarker(t)
      BY <1>1 DEF LosesRotation, ReadMarker, Rotate
    <2> QED BY <1>0, <2>1, Noting
  <1> QED BY <1>0, <1>10, <1>12, <1>14, <1>15, <1>16, <1>17, <1>19, <1>20, <1>21, QuietFrom

(* A sign-in brings the first pair of a new session. *)
LEMMA QuietCreates ==
    ASSUME SessionAssumption, TokensInv, QuietInv, ~log'.upset, NEW t \in Tabs, TabStep(t),
           Create(t)
    PROVE  QuietInv'
  <1> DEFINE c == call[t]
             d == call'[t]
  <1>0. Typed /\ Refers /\ ~log.upset /\ ~log.blind /\ Quiet
    BY Noting DEF TokensInv, QuietInv
  <1>1. c.pc = "create" /\ UNCHANGED jar
    BY DEF Create
  <1>2. PICK n : n = NewPair
    OBVIOUS
  <1>3. PICK o : o = Len(docs) + 1
    OBVIOUS
  <1>a. /\ docs'[o] = NewDoc(t) /\ c \in Calls
        /\ d = [c EXCEPT !.pc = "record", !.next = n, !.session = o]
    BY <1>0, <1>2, <1>3, Creates
  <1>4. /\ c.kind = "login" /\ c.then = "replaced"
        /\ n = Len(pairs) + 1 /\ DOMAIN docs' = 1..o
        /\ \A s \in DOMAIN docs : docs'[s] = docs[s]
        /\ DOMAIN pairs' = 1..n /\ pairs'[n].session = o
        /\ \A q \in DOMAIN pairs : pairs'[q] = pairs[q]
        /\ used'[n] = "no" /\ \A q \in DOMAIN used : used'[q] = used[q]
    <2>1. pairs'[n] = [session |-> o, from |-> NoPair]
      BY <1>0, <1>2, <1>3, Creates
    <2>2. pairs'[n].session = o
      BY <2>1
    <2> QED BY <1>0, <1>2, <1>3, <2>2, Creates
  <1>5. /\ DOMAIN pairs = 1..Len(pairs) /\ DOMAIN used = DOMAIN pairs /\ Len(pairs) \in Nat
        /\ \A q \in DOMAIN pairs : pairs[q].session \in DOMAIN docs
        /\ DOMAIN docs = 1..Len(docs) /\ Len(docs) \in Nat
    BY <1>0, Stored DEF Refers
  <1>6. c.next = NoPair
    <2>1. c.pc # "idle"
      BY <1>1
    <2>2. Ready(c, Len(pairs), Len(docs))
      BY <1>0, <2>1, AtStep
    <2> QED BY <1>1, <1>4, <2>2 DEF Ready
  <1>7. /\ docs'[o].pair = n /\ docs'[o].device = c.browser
        /\ docs'[o].revoked = "no" /\ ~docs'[o].expired
    BY <1>2, <1>a DEF NewDoc
  <1>8. /\ d.pc = "record" /\ d.then = "replaced" /\ d.kind = "login"
        /\ d.browser = c.browser /\ d.next = n
    BY <1>4, <1>a DEF Calls
  <1>9. d # Idle /\ n # NoPair
    <2>1. Idle.pc = "idle"
      BY DEF Idle
    <2> QED BY <1>4, <1>5, <1>8, <2>1 DEF NoPair
  <1>10. Takes(t) = NoPair /\ Brings(t) = NoPair
    BY <1>4, <1>6 DEF Takes, Brings, Refreshing, Carries
  <1>11. Takes(t)' = NoPair /\ Brings(t)' = n /\ ~Refreshing(t)'
    BY <1>8, <1>9 DEF Takes, Brings, Refreshing, Carries
  <1>12. Bringing(t)'
    <2>1. Unspent(n)' /\ Owner(n)'.device = c.browser
      BY <1>4, <1>7 DEF Unspent, Owner
    <2> QED BY <1>8, <2>1 DEF Bringing, Owner, Unspent
  <1>13. Leaves(NoPair)
    BY <1>4, <1>5 DEF Leaves
  <1>14. \A s \in DOMAIN docs' : Active(s)'
    <2>1. \A s \in DOMAIN docs' : s \in DOMAIN docs \/ s = o
      BY <1>3, <1>4, <1>5
    <2> QED BY <1>0, <1>4, <1>7, <2>1 DEF Quiet, Active
  <1>15. \A u \in Tabs \ {t} : Takes(u)' = Takes(u) /\ Brings(u)' = Brings(u)
    BY <1>0, <1>13, OthersQuiet
  <1>16. Apart'
    <2>1. Apart
      BY <1>0 DEF Quiet
    <2>2. \A u \in Tabs : u # t => /\ Takes(u)' = Takes(u) /\ Brings(u)' = Brings(u)
                                   /\ Takes(u) # n /\ Brings(u) # n
      BY <1>0, <1>4, <1>5, <1>15, InHand
    <2>3. \A b \in Browsers : jar'[b] = jar[b] /\ jar[b] # n
      BY <1>0, <1>1, <1>4, <1>5, JarRefers
    <2> QED BY <1>9, <1>11, <2>1, <2>2, <2>3 DEF Apart
  <1>17. ASSUME NEW b \in Browsers
         PROVE  AtHome(b)'
    <2>1. AtHome(b)
      BY <1>0 DEF Quiet
    <2>2. \A u \in Tabs \ {t} : Takes(u)' = Takes(u)
      BY <1>15
    <2>3. jar'[b] \in {NoPair, jar[b]}
      BY <1>1
    <2>4. Takes(t)' = Takes(t)
      BY <1>10, <1>11
    <2> QED BY <1>13, <2>1, <2>2, <2>3, <2>4, HomeStays
  <1>18. ~log'.blind
    <2>1. ~LosesRotation(t) /\ ~ReadMarker(t)
      BY <1>1 DEF LosesRotation, ReadMarker
    <2> QED BY <1>0, <2>1, Noting
  <1> QED BY <1>0, <1>8, <1>11, <1>12, <1>13, <1>14, <1>16, <1>17, <1>18, QuietFrom

(* An answer puts the new pair into the cookies of its own browser. *)
LEMMA QuietIssues ==
    ASSUME SessionAssumption, TokensInv, QuietInv, ~log'.upset, NEW t \in Tabs, TabStep(t),
           Issued(t)
    PROVE  QuietInv'
  <1> DEFINE c == call[t]
             d == call'[t]
  <1>0. Typed /\ Refers /\ ~log.upset /\ ~log.blind /\ Quiet
    BY Noting DEF TokensInv, QuietInv
  <1>1. UNCHANGED <<docs, pairs, used>> /\ c.pc = "issued"
    BY DEF Issued
  <1>2. /\ c \in Calls /\ c # Idle /\ c.browser \in Browsers
        /\ (c.then = "refresh" /\ c.kind \in Asks) \/ (c.kind = "login" /\ c.then = "limit")
        /\ c.next # NoPair
    <2>1. c.pc # "idle"
      BY <1>1
    <2>2. c \in Calls /\ Ready(c, Len(pairs), Len(docs)) /\ c # Idle
      BY <1>0, <2>1, AtStep
    <2> QED BY <1>1, <2>2 DEF Ready, OnRoad, Calls
  <1>3. PICK n : n = c.next
    OBVIOUS
  <1>4. PICK a : a = c.browser
    OBVIOUS
  <1>5. jar'[a] = n /\ \A b \in Browsers : b # a => jar'[b] = jar[b]
    BY <1>0, <1>2, <1>3, <1>4 DEF Issued, KeepsCookies, Typed
  <1>6. Brings(t) = n /\ Unspent(n) /\ Owner(n).device = a
    <2>1. Carries(t)
      BY <1>1, <1>2 DEF Carries
    <2> QED BY <1>0, <1>3, <1>4, <2>1 DEF Quiet, Bringing, Brings
  <1>7. ~Refreshing(t)' /\ ~Carries(t)' /\ d.pc # "save"
    <2>1. CASE c.kind = "login"
      <3>1. d = Idle
        BY <1>0, <2>1 DEF Issued, Over, Set, Typed
      <3> QED BY <3>1 DEF Refreshing, Carries, Idle
    <2>2. CASE c.kind # "login"
      <3>1. PICK j : j = jar'[c.browser]
        OBVIOUS
      <3>2. d = [c EXCEPT !.pc = "lookup", !.then = "none", !.again = TRUE, !.pair = j]
        BY <1>0, <2>2, <3>1 DEF Issued, Set, Typed
      <3>3. d.then = "none" /\ d.kind = c.kind /\ d.pc = "lookup"
        BY <1>2, <3>2 DEF Calls
      <3> QED BY <2>2, <3>3 DEF Refreshing, Carries
    <2> QED BY <2>1, <2>2
  <1>8. Takes(t)' = NoPair /\ Brings(t)' = NoPair
    BY <1>7 DEF Takes, Brings
  <1>9. Leaves(NoPair) /\ \A s \in DOMAIN docs' : Active(s)'
    BY <1>0, <1>1, AllLeft
  <1>10. \A u \in Tabs \ {t} : Takes(u)' = Takes(u) /\ Brings(u)' = Brings(u)
    BY <1>0, <1>9, OthersQuiet
  <1>11. Apart'
    <2>1. Apart
      BY <1>0 DEF Quiet
    <2>2. \A u \in Tabs : u # t => Takes(u)' = Takes(u) /\ Brings(u)' = Brings(u)
      BY <1>10
    <2>3. \A u \in Tabs : u # t /\ Brings(u) # NoPair => Brings(u) # n
      BY <1>6, <2>1 DEF Apart
    <2> QED BY <1>5, <1>8, <2>1, <2>2, <2>3 DEF Apart
  <1>12. ASSUME NEW b \in Browsers
         PROVE  AtHome(b)'
    <2>1. CASE b = a
      BY <1>1, <1>5, <1>6, <2>1 DEF AtHome, Owner, Unspent
    <2>2. CASE b # a /\ jar[b] = NoPair
      BY <1>5, <2>2 DEF AtHome
    <2>3. CASE b # a /\ jar[b] # NoPair
      <3>1. AtHome(b)
        BY <1>0 DEF Quiet
      <3>2. Takes(t) # jar[b]
        <4> SUFFICES ASSUME Takes(t) = jar[b] PROVE FALSE
          OBVIOUS
        <4>1. Refreshing(t) /\ c.pair = jar[b]
          BY <2>3 DEF Takes
        <4>2. Owner(jar[b]).device = a
          BY <1>0, <1>4, <4>1 DEF Quiet, Near
        <4>3. Owner(jar[b]).device = b
          BY <2>3, <3>1 DEF AtHome
        <4> QED BY <2>3, <4>2, <4>3
      <3>3. \A u \in Tabs \ {t} : Takes(u)' = Takes(u)
        BY <1>10
      <3>4. jar'[b] \in {NoPair, jar[b]}
        BY <1>5, <2>3
      <3> QED BY <1>9, <3>1, <3>2, <3>3, <3>4, HomeStays
    <2> QED BY <2>1, <2>2, <2>3
  <1>13. ~log'.blind
    <2>1. ~LosesRotation(t) /\ ~ReadMarker(t)
      BY <1>1 DEF LosesRotation, ReadMarker
    <2> QED BY <1>0, <2>1, Noting
  <1> QED BY <1>0, <1>7, <1>9, <1>11, <1>12, <1>13, QuietFrom

(* A browser that was signed out forgets its cookies. *)
LEMMA QuietClears ==
    ASSUME SessionAssumption, TokensInv, QuietInv, ~log'.upset, NEW t \in Tabs, TabStep(t),
           ClearCookies(t)
    PROVE  QuietInv'
  <1> DEFINE c == call[t]
  <1>0. Typed /\ Refers /\ ~log.upset /\ ~log.blind /\ Quiet
    BY Noting DEF TokensInv, QuietInv
  <1>1. UNCHANGED <<docs, pairs, used>> /\ c.pc = "clear" /\ call'[t] = Idle
    BY <1>0 DEF ClearCookies, Over, Set, Typed
  <1>2. \A b \in Browsers : jar'[b] \in {NoPair, jar[b]}
    BY <1>0 DEF ClearCookies, Typed
  <1>3. Takes(t) = NoPair /\ Brings(t) = NoPair
    <2>1. c.pc # "idle"
      BY <1>1
    <2>2. Ready(c, Len(pairs), Len(docs))
      BY <1>0, <2>1, AtStep
    <2>3. c.then # "refresh" /\ c.kind # "login"
      BY <1>1, <2>2 DEF Ready, OnRoad
    <2> QED BY <2>3 DEF Takes, Brings, Refreshing, Carries
  <1>4. ~Refreshing(t)' /\ ~Carries(t)' /\ call'[t].pc # "save"
    BY <1>1 DEF Refreshing, Carries, Idle
  <1>5. Takes(t)' = NoPair /\ Brings(t)' = NoPair
    BY <1>4 DEF Takes, Brings
  <1>6. Leaves(NoPair) /\ \A s \in DOMAIN docs' : Active(s)'
    BY <1>0, <1>1, AllLeft
  <1>7. \A u \in Tabs \ {t} : Takes(u)' = Takes(u) /\ Brings(u)' = Brings(u)
    BY <1>0, <1>6, OthersQuiet
  <1>8. Apart'
    BY <1>0, <1>2, <1>5, <1>7, ApartStays DEF Quiet
  <1>9. ASSUME NEW b \in Browsers
        PROVE  AtHome(b)'
    <2>1. AtHome(b)
      BY <1>0 DEF Quiet
    <2>2. \A u \in Tabs \ {t} : Takes(u)' = Takes(u)
      BY <1>7
    <2>3. Takes(t)' = Takes(t)
      BY <1>3, <1>5
    <2> QED BY <1>2, <1>6, <2>1, <2>2, <2>3, HomeStays
  <1>10. ~log'.blind
    <2>1. ~LosesRotation(t) /\ ~ReadMarker(t)
      BY <1>1 DEF LosesRotation, ReadMarker
    <2> QED BY <1>0, <2>1, Noting
  <1> QED BY <1>0, <1>4, <1>6, <1>8, <1>9, <1>10, QuietFrom

(* A tab's step raises no alarm without a cause. *)
LEMMA QuietKept ==
    ASSUME SessionAssumption, TokensInv, QuietInv, NEW t \in Tabs, TabStep(t)
    PROVE  QuietInv'
  <1>0. Typed /\ Refers /\ log \in Logs
    BY DEF TokensInv, Typed
  <1>1. CASE ~log'.upset
    BY <1>1, QuietHands, QuietSends, QuietMarks, QuietRotates, QuietCreates, QuietIssues,
       QuietClears
  <1>2. CASE log'.upset
    <2>1. log.upset \/ (~LosesRotation(t) /\ ~ReadMarker(t))
      <3>1. ASSUME NEW x PROVE [log EXCEPT !.blind = x].upset = log.upset
        BY <1>0 DEF Logs
      <3>2. LosesRotation(t) \/ ReadMarker(t) => log'.upset = log.upset
        BY <3>1 DEF LosesRotation, ReadMarker, Alarm
      <3> QED BY <1>2, <3>2
    <2>2. ~log'.blind
      BY <1>0, <2>1, Noting DEF QuietInv
    <2> QED BY <1>2, <2>2 DEF QuietInv
  <1> QED BY <1>1, <1>2

(* Time raises no alarm: the grace of an exchange ends after the exchange. *)
LEMMA TimeKeepsQuiet ==
    ASSUME SessionAssumption, TokensInv, QuietInv, TimeStep
    PROVE  QuietInv'
  <1>0. Typed /\ log \in Logs
    BY DEF TokensInv, Typed
  <1>1. UNCHANGED <<jar, call, pairs>>
    BY TimeWrites
  <1>2. \A t : /\ Takes(t)' = Takes(t) /\ Brings(t)' = Brings(t)
               /\ (Refreshing(t)' <=> Refreshing(t)) /\ (Carries(t)' <=> Carries(t))
    BY <1>1 DEF Takes, Brings, Refreshing, Carries
  <1>3. CASE UNCHANGED <<docs, log>> /\ \A p : used[p] = "no" => used'[p] = "no"
    <2>1. \A p : (Unspent(p) => Unspent(p)') /\ Owner(p)' = Owner(p)
      BY <1>1, <1>3 DEF Unspent, Owner
    <2>2. /\ \A t : Near(t) => Near(t)'
          /\ \A t : Bringing(t) => Bringing(t)'
      BY <1>1, <1>3 DEF Near, Bringing, Unspent, Owner
    <2>3. \A b : AtHome(b) => AtHome(b)'
      BY <1>1, <1>2, <1>3 DEF AtHome, Unspent, Owner
    <2>4. Apart => Apart'
      BY <1>1, <1>2 DEF Apart
    <2> QED BY <1>1, <1>2, <1>3, <2>2, <2>3, <2>4 DEF QuietInv, Quiet, Active
  <1>4. ASSUME NEW s \in DOMAIN docs, SessionExpires(s)
        PROVE  QuietInv'
    <2>1. log' = [log EXCEPT !.faults = log.faults + 1, !.upset = TRUE]
      BY <1>4 DEF SessionExpires
    <2>2. log'.upset /\ log'.blind = log.blind
      BY <1>0, <2>1 DEF Logs
    <2> QED BY <2>2 DEF QuietInv
  <1>5. ASSUME NEW p \in DOMAIN pairs, used[p] = "recent", used' = [used EXCEPT ![p] = "old"]
        PROVE  \A q : used[q] = "no" => used'[q] = "no"
    <2>1. DOMAIN used = DOMAIN pairs /\ used \in Seq({"no", "recent", "old"})
      BY Stored DEF TokensInv, Typed
    <2> QED BY <1>5, <2>1
  <1> QED BY <1>3, <1>4, <1>5, TimeWrites

KeptInv == Holding /\ DeviceInv /\ CountInv /\ QuietInv

(* At the start nobody is signed in. *)
LEMMA KeptInit == ASSUME SessionAssumption, SessionInit PROVE KeptInv
  <1>1. /\ docs = <<>> /\ \A t \in Tabs : call[t] = Idle
        /\ \A b \in Browsers : jar[b] = NoPair
        /\ ~log.blind
    BY DEF SessionInit
  <1>2. DOMAIN docs = {} /\ ActiveSessions = {}
    BY <1>1 DEF ActiveSessions
  <1>3. \A t \in Tabs : /\ ~LogsIn(t) /\ ~Refreshing(t) /\ ~Carries(t) /\ call[t].pc # "save"
                        /\ Takes(t) = NoPair /\ Brings(t) = NoPair
    BY <1>1 DEF LogsIn, Refreshing, Carries, Takes, Brings, Idle
  <1>4. Few(ActiveSessions)
    BY <1>2, FS_EmptySet DEF Few, SessionAssumption
  <1>5. Holding /\ DeviceInv
    BY <1>2, <1>3 DEF Holding, DeviceInv
  <1>6. CountInv
    BY <1>3, <1>4 DEF CountInv
  <1>7. QuietInv
    BY <1>1, <1>2, <1>3 DEF QuietInv, Quiet, Apart, AtHome
  <1> QED BY <1>5, <1>6, <1>7 DEF KeptInv

(* Every step keeps it. *)
LEMMA KeptStep ==
    ASSUME SessionAssumption, TokensInv, KeptInv, [SessionNext]_sessionVars
    PROVE  KeptInv'
  <1>0. Typed /\ Refers
    BY DEF TokensInv
  <1>1. CASE UNCHANGED <<jar, call, docs, pairs, access, used, password, log, scenario>>
    <2>1. Holding' /\ DeviceInv'
      BY <1>1 DEF KeptInv, Holding, DeviceInv, LogsIn, OnDevice, ActiveSessions, Active
    <2>2. CountInv'
      BY <1>1 DEF KeptInv, CountInv, LogsIn, ActiveSessions, Active, Few
    <2>3. /\ \A t : Takes(t)' = Takes(t) /\ Brings(t)' = Brings(t)
          /\ \A t : (Refreshing(t)' <=> Refreshing(t)) /\ (Carries(t)' <=> Carries(t))
          /\ \A t : (Near(t)' <=> Near(t)) /\ (Bringing(t)' <=> Bringing(t))
      BY <1>1 DEF Takes, Brings, Refreshing, Carries, Near, Bringing, Unspent, Owner
    <2>4. \A b : AtHome(b)' <=> AtHome(b)
      BY <1>1, <2>3 DEF AtHome, Unspent, Owner
    <2>5. Apart' <=> Apart
      BY <1>1, <2>3 DEF Apart
    <2>6. QuietInv'
      BY <1>1, <2>3, <2>4, <2>5 DEF KeptInv, QuietInv, Quiet, Active
    <2> QED BY <2>1, <2>2, <2>6 DEF KeptInv
  <1>2. ASSUME NEW t \in Tabs, TabStep(t)
        PROVE  KeptInv'
    BY <1>0, <1>2, HoldingKept, DeviceKept, CountKept, QuietKept DEF KeptInv
  <1>3. CASE TimeStep
    BY <1>3, TimeKeepsDevices, TimeKeepsQuiet DEF KeptInv
  <1> QED BY <1>0, <1>1, <1>2, <1>3, Steps

(* While nobody overlaps another's refresh, loses an answer, ends a session or lets one
   expire, no alarm ends what a user holds; and once all calls are over a device has
   one session and a user no more than the limit, unless sign-ins overlapped or one
   failed (refreshSession, createSession, enforceTrackedDeviceLimit). *)
THEOREM SessionsStayKept == SessionSpec => []SessionsAreKept
  <1>1. SessionInit => TokensInv /\ KeptInv
    BY SessionAssumption, TokensInit, KeptInit
  <1>2. TokensInv /\ KeptInv /\ [SessionNext]_sessionVars => (TokensInv /\ KeptInv)'
    BY SessionAssumption, TokensStep, KeptStep
  <1>3. TokensInv /\ KeptInv => SessionsAreKept
    <2> SUFFICES ASSUME TokensInv, KeptInv PROVE SessionsAreKept
      OBVIOUS
    <2>1. AlarmsHaveACause
      BY DEF KeptInv, QuietInv, AlarmsHaveACause
    <2>2. DevicesAreBounded
      BY DEF KeptInv, DeviceInv, CountInv, DevicesAreBounded, LogsIn, Few
    <2> QED BY <2>1, <2>2 DEF SessionsAreKept
  <1> QED BY <1>1, <1>2, <1>3, PTL DEF SessionSpec

-----------------------------------------------------------------------------
(* Factors. *)

Mails == {"verify", "reset", "magic"}
Links == [kind : Mails, live : BOOLEAN, mailed : BOOLEAN, works : {0, 1}]

Factors  == [on : BOOLEAN, secret : Nat, codes : SUBSET Nat]
Accounts == {NoAccount} \cup
    [exists : {TRUE}, verified : BOOLEAN, google : BOOLEAN, mfa : Factors]

(* What a request may be at. *)
Resting   == {AtRest}
Mailers   == [pc : {"supersede", "issue", "deliver", "rollback"}, kind : Mails, link : Nat]
Followers == [pc : {"effect"}, link : Nat]
Joiners   == [pc : {"lookUp", "create", "bySubject", "byEmail", "createGoogle", "link"}]
SettersUp == [pc : {"forget", "enable"}, setup : Nat]
Renewers  == [pc : {"regenerate"}, secret : Nat, overtaken : BOOLEAN]
Provers   == [pc : {"factor", "disable"}, seen : Factors, disable : BOOLEAN]
States    == Resting \cup Mailers \cup Followers \cup Joiners \cup SettersUp \cup Renewers
               \cup Provers

Facts == [requests : Nat, batches : Nat, created : Nat, proved : BOOLEAN,
          spent : Seq({0, 1}), wanted : Nat, mixed : BOOLEAN, good : SUBSET Nat,
          crossed : BOOLEAN]

FactorsTyped == /\ account \in Accounts
         /\ links \in Seq(Links) /\ Len(links) <= MaxLinks
         /\ setups \in Seq(BOOLEAN) /\ Len(setups) <= MaxSetups
         /\ handler \in [Handlers -> States]
         /\ facts \in Facts

(* What was sent, set up or spent belongs to an account. *)
Belongs == ~account.exists =>
    /\ links = <<>> /\ setups = <<>>
    /\ facts.created = 0 /\ facts.batches = 0 /\ facts.wanted = NoFactor.secret

(* A link that was followed is dead, and a good one is in the list. *)
LinksInv == /\ facts.good \subseteq DOMAIN links
            /\ \A l \in DOMAIN links : links[l].live => links[l].works = 0

Awaits(l) == \E h \in Handlers : handler[h].pc = "rollback" /\ handler[h].link = l

(* The good ones are the live ones that were mailed, but for those about to be
   taken back. *)
LatestInv == ~facts.crossed =>
    /\ \A l \in facts.good : links[l].live
    /\ \A l \in DOMAIN links : links[l].mailed /\ links[l].live /\ l \notin facts.good =>
           Awaits(l)

(* There is one good link of a kind, and none while one is on its way. *)
KindInv == ~facts.crossed =>
    /\ \A l, m \in facts.good : links[l].kind = links[m].kind => l = m
    /\ \A h \in Handlers : InTransit(h) =>
           \A l \in facts.good : links[l].kind # handler[h].kind
    /\ \A g, h \in Handlers : InTransit(g) /\ InTransit(h) /\ handler[g].kind = handler[h].kind
           => g = h

OwnedInv == /\ facts.created <= 1
            /\ account.exists => /\ account.google => account.verified
                                 /\ account.verified => facts.proved

(* Codes that can be used were not; the secret is the one last shown. *)
CodesInv ==
    /\ Len(facts.spent) = facts.batches /\ facts.batches <= MaxBatches
    /\ account.exists =>
         /\ account.mfa.secret \in 0 .. Len(setups)
         /\ account.mfa.codes \subseteq DOMAIN facts.spent
         /\ \A code \in account.mfa.codes : facts.spent[code] = 0
         /\ ~facts.mixed => /\ account.mfa.secret = facts.wanted
                            /\ account.mfa.on <=> facts.wanted # NoFactor.secret

OnItsWay(s)  == s.pc \in {"issue", "deliver", "rollback"}
InTheMail(s) == s.pc \in {"deliver", "rollback"}

(* What a request that goes on has read, taken or written is still there. *)
HasInHand(s) ==
    /\ s.pc \notin {"rest", "lookUp", "create", "bySubject", "byEmail", "createGoogle"} =>
           account.exists
    /\ InTheMail(s) => /\ s.link \in DOMAIN links /\ s.link \notin facts.good
                       /\ links[s.link].kind = s.kind
    /\ s.pc = "effect" => facts.proved
    /\ s.pc \in {"forget", "enable"} => s.setup \in DOMAIN setups
    /\ s.pc = "regenerate" =>
         /\ s.secret \in 0 .. Len(setups)
         /\ ~s.overtaken => account.mfa.on /\ account.mfa.secret = s.secret

HandsInv == \A h \in Handlers : HasInHand(handler[h])

MailedByOne == \A g, h \in Handlers :
    InTheMail(handler[g]) /\ InTheMail(handler[h]) /\ handler[g].link = handler[h].link => g = h

FInv == /\ FactorsTyped /\ Belongs /\ LinksInv /\ LatestInv /\ KindInv /\ OwnedInv /\ CodesInv
        /\ HandsInv /\ MailedByOne

-----------------------------------------------------------------------------
(* Requests. *)

(* Where a request is says what it has in hand. *)
LEMMA WhereItIs ==
    ASSUME NEW s \in States
    PROVE  /\ s.pc = "rest" => s = AtRest
           /\ s.pc \in {"supersede", "issue", "deliver", "rollback"} => s \in Mailers
           /\ s.pc = "effect" => s \in Followers
           /\ s.pc \in {"lookUp", "create", "bySubject", "byEmail", "createGoogle", "link"} =>
                  s \in Joiners
           /\ s.pc \in {"forget", "enable"} => s \in SettersUp
           /\ s.pc = "regenerate" => s \in Renewers
           /\ s.pc \in {"factor", "disable"} => s \in Provers
BY DEF States, Resting, AtRest, Mailers, Followers, Joiners, SettersUp, Renewers, Provers

(* The invariant after a step, read request by request. *)
LEMMA HandsAfter ==
    ASSUME \A g \in Handlers : \A s : s = handler'[g] => HasInHand(s)'
    PROVE  HandsInv'
BY DEF HandsInv, HasInHand, InTheMail

(* What a step leaves to the requests that do not take it: an account and  *)
(* its factor, the links and set-ups there are, and the mails under way.   *)
LeavesInHand(h) ==
    /\ account.exists => /\ account'.exists /\ account'.mfa.on = account.mfa.on
                         /\ account'.mfa.secret = account.mfa.secret
    /\ DOMAIN links \subseteq DOMAIN links'
    /\ \A l \in DOMAIN links : links'[l].kind = links[l].kind
    /\ Len(setups) <= Len(setups')
    /\ facts.proved => facts'.proved
    /\ \A l \in facts'.good :
           l \in facts.good \/ (handler[h].pc = "deliver" /\ handler[h].link = l)

LEMMA OthersInHand ==
    ASSUME FInv, setups' \in Seq(BOOLEAN), NEW h \in Handlers, LeavesInHand(h),
           NEW g \in Handlers \ {h}, NEW s, s = handler[g]
    PROVE  HasInHand(s)'
<1>1. HasInHand(s)
  BY DEF FInv, HandsInv
<1>2. ASSUME InTheMail(s) PROVE s.link \notin facts'.good
  BY <1>1, <1>2 DEF LeavesInHand, HasInHand, InTheMail, FInv, MailedByOne
<1>3. /\ DOMAIN setups \subseteq DOMAIN setups'
      /\ 0 .. Len(setups) \subseteq 0 .. Len(setups')
  BY DEF LeavesInHand, FInv, FactorsTyped
<1> QED BY <1>1, <1>2, <1>3 DEF LeavesInHand, HasInHand

(* One request goes on. *)
LEMMA HandGoesOn ==
    ASSUME FInv, setups' \in Seq(BOOLEAN), NEW h \in Handlers, LeavesInHand(h), NEW k \in States,
           handler' = [handler EXCEPT ![h] = k], HasInHand(k)',
           InTheMail(k) => \/ InTheMail(handler[h]) /\ k.link = handler[h].link
                           \/ k.link \notin DOMAIN links
    PROVE  handler' \in [Handlers -> States] /\ HandsInv' /\ MailedByOne'
<1>1. handler \in [Handlers -> States]
  BY DEF FInv, FactorsTyped
<1>2. ASSUME NEW g \in Handlers, NEW s, s = handler'[g] PROVE HasInHand(s)'
  <2>1. CASE g = h
    <3>1. s = k
      BY <1>1, <1>2, <2>1
    <3> QED BY <3>1
  <2>2. CASE g # h
    <3>1. s = handler[g]
      BY <1>1, <1>2, <2>2
    <3> QED BY <2>2, <3>1, OthersInHand
  <2> QED BY <2>1, <2>2
<1>3. ASSUME NEW g \in Handlers \ {h}, InTheMail(handler[g]), InTheMail(k)
      PROVE  handler[g].link # k.link
  BY <1>3 DEF FInv, HandsInv, HasInHand, MailedByOne
<1>4. ASSUME NEW f \in Handlers, NEW g \in Handlers, InTheMail(handler'[f]), InTheMail(handler'[g]),
             handler'[f].link = handler'[g].link
      PROVE  f = g
  <2>1. CASE f # h /\ g # h
    BY <1>1, <1>4, <2>1 DEF FInv, MailedByOne
  <2>2. CASE f = h /\ g # h
    BY <1>1, <1>3, <1>4, <2>2
  <2>3. CASE f # h /\ g = h
    BY <1>1, <1>3, <1>4, <2>3
  <2> QED BY <2>1, <2>2, <2>3
<1>5. MailedByOne'
  BY <1>4 DEF MailedByOne, InTheMail
<1> QED BY <1>1, <1>2, <1>5, HandsAfter

(* The good links are the live ones still, if no link comes alive or out of *)
(* the mail but by the request that takes it back or makes it good.        *)
LEMMA LatestAfter ==
    ASSUME FInv, NEW h \in Handlers, NEW k, handler' = [handler EXCEPT ![h] = k],
           facts.crossed => facts'.crossed,
           ~facts'.crossed =>
             /\ \A l \in facts'.good : links'[l].live
             /\ \A l \in DOMAIN links' :
                  links'[l].mailed /\ links'[l].live /\ l \notin facts'.good =>
                     \/ /\ l \in DOMAIN links \ facts.good
                        /\ links[l].mailed /\ links[l].live
                        /\ handler[h].pc = "rollback" => handler[h].link # l
                     \/ k.pc = "rollback" /\ k.link = l
    PROVE  LatestInv'
<1>1. handler \in [Handlers -> States]
  BY DEF FInv, FactorsTyped
<1>2. ASSUME ~facts'.crossed, NEW l \in DOMAIN links',
             links'[l].mailed /\ links'[l].live /\ l \notin facts'.good
      PROVE  \E g \in Handlers : handler'[g].pc = "rollback" /\ handler'[g].link = l
  <2>1. CASE k.pc = "rollback" /\ k.link = l
    BY <1>1, <2>1
  <2>2. CASE /\ l \in DOMAIN links \ facts.good
             /\ links[l].mailed /\ links[l].live
             /\ handler[h].pc = "rollback" => handler[h].link # l
    <3>1. PICK g \in Handlers : handler[g].pc = "rollback" /\ handler[g].link = l
      BY <1>2, <2>2 DEF FInv, LatestInv, Awaits
    <3>2. g # h
      BY <2>2, <3>1
    <3> QED BY <1>1, <3>1, <3>2
  <2> QED BY <1>2, <2>1, <2>2
<1> QED BY <1>2 DEF LatestInv, Awaits

(* No link of a kind becomes good, and no mail sets out but one that was   *)
(* under way already.                                                      *)
LEMMA KindAfter ==
    ASSUME FInv, NEW h \in Handlers, LeavesInHand(h), NEW k, handler' = [handler EXCEPT ![h] = k],
           facts.crossed => facts'.crossed, facts'.good \subseteq facts.good,
           OnItsWay(k) => OnItsWay(handler[h]) /\ k.kind = handler[h].kind
    PROVE  KindInv'
<1>1. handler \in [Handlers -> States] /\ facts.good \subseteq DOMAIN links
  BY DEF FInv, FactorsTyped, LinksInv
<1>2. \A l \in facts'.good : l \in facts.good /\ links'[l].kind = links[l].kind
  BY <1>1 DEF LeavesInHand
<1>3. \A g \in Handlers : InTransit(g)' =>
        InTransit(g) /\ handler'[g].kind = handler[g].kind
  BY <1>1 DEF InTransit, OnItsWay
<1> QED BY <1>2, <1>3 DEF FInv, KindInv

(* Steps of mails leave the account and its codes as they are. *)
LEMMA AccountKept ==
    ASSUME FInv, account' = account, setups' = setups, facts' \in Facts,
           facts'.created = facts.created, facts'.batches = facts.batches,
           facts'.spent = facts.spent, facts'.wanted = facts.wanted,
           facts'.mixed = facts.mixed, facts.proved => facts'.proved
    PROVE  OwnedInv' /\ CodesInv'
BY DEF FInv, OwnedInv, CodesInv

(* A step of nothing but one request: it was received, has looked something *)
(* up, gives up or broke off.                                              *)
LEMMA OnlyGoesOn ==
    ASSUME FInv, NEW h \in Handlers, NEW k \in States, handler' = [handler EXCEPT ![h] = k],
           UNCHANGED <<account, links, setups>>, facts' \in Facts,
           facts'.created = facts.created, facts'.batches = facts.batches,
           facts'.spent = facts.spent, facts'.wanted = facts.wanted,
           facts'.mixed = facts.mixed, facts'.proved = facts.proved,
           facts'.good = facts.good, facts.crossed => facts'.crossed,
           facts'.crossed \/ handler[h].pc # "rollback",
           HasInHand(k), ~OnItsWay(k)
    PROVE  FInv'
<1>1. LeavesInHand(h) /\ setups' \in Seq(BOOLEAN)
  BY DEF LeavesInHand, FInv, FactorsTyped
<1>2. HasInHand(k)'
  BY DEF HasInHand
<1>3. handler' \in [Handlers -> States] /\ HandsInv' /\ MailedByOne'
  BY <1>1, <1>2, HandGoesOn DEF OnItsWay, InTheMail
<1>4. FactorsTyped' /\ Belongs' /\ LinksInv'
  BY <1>3 DEF FInv, FactorsTyped, Belongs, LinksInv
<1>5. LatestInv'
  <2>1. ~facts'.crossed =>
          /\ \A l \in facts'.good : links'[l].live
          /\ \A l \in DOMAIN links' :
               links'[l].mailed /\ links'[l].live /\ l \notin facts'.good =>
                  /\ l \in DOMAIN links \ facts.good
                  /\ links[l].mailed /\ links[l].live
                  /\ handler[h].pc # "rollback"
    BY DEF FInv, LatestInv
  <2> QED BY <2>1, LatestAfter
<1>6. KindInv'
  BY <1>1, KindAfter
<1>7. OwnedInv' /\ CodesInv'
  BY AccountKept
<1> QED BY <1>3, <1>4, <1>5, <1>6, <1>7 DEF FInv

-----------------------------------------------------------------------------
(* Requests that are received, look something up or end. *)
LEMMA Received ==
    ASSUME FInv, NEW h \in Handlers, NEW kind, NEW k \in States, Receive(h, kind, k),
           HasInHand(k), ~OnItsWay(k)
    PROVE  FInv'
<1>1. /\ handler' = [handler EXCEPT ![h] = k] /\ handler[h].pc = "rest"
      /\ UNCHANGED <<account, links, setups>>
      /\ facts' = [facts EXCEPT !.requests = @ + 1] /\ facts \in Facts
  BY DEF Receive, Now, AtRest, FInv, FactorsTyped
<1>2. /\ facts' \in Facts /\ facts'.created = facts.created /\ facts'.batches = facts.batches
      /\ facts'.spent = facts.spent /\ facts'.wanted = facts.wanted
      /\ facts'.mixed = facts.mixed /\ facts'.proved = facts.proved
      /\ facts'.good = facts.good /\ facts'.crossed = facts.crossed
  BY <1>1 DEF Facts
<1> QED BY <1>1, <1>2, OnlyGoesOn

(* A request that only goes on, ends or turns to a mail. *)
LEMMA Continues ==
    ASSUME FInv, NEW h \in Handlers, NEW k \in States, Now(h, k),
           UNCHANGED <<account, links, setups, facts>>,
           handler[h].pc # "rollback", HasInHand(k), ~OnItsWay(k)
    PROVE  FInv'
BY OnlyGoesOn DEF Now, FInv, FactorsTyped

LEMMA Ends ==
    ASSUME FInv, NEW h \in Handlers, Done(h), UNCHANGED <<account, links, setups, facts>>,
           handler[h].pc # "rollback"
    PROVE  FInv'
<1>1. AtRest \in States /\ HasInHand(AtRest) /\ ~OnItsWay(AtRest)
  BY DEF States, Resting, HasInHand, InTheMail, OnItsWay, AtRest
<1> QED BY <1>1, Continues DEF Done

(* A request goes to another step with the same in hand. *)
LEMMA StepsTo ==
    ASSUME FInv, NEW h \in Handlers, NEW pc, Step(h, pc)
    PROVE  Now(h, [handler[h] EXCEPT !.pc = pc])
BY DEF FInv, FactorsTyped, Step, Now

LEMMA GoesOnTo ==
    ASSUME FInv, NEW h \in Handlers, NEW pc, NEW k \in States, Step(h, pc),
           k = [handler[h] EXCEPT !.pc = pc], UNCHANGED <<account, links, setups, facts>>,
           handler[h].pc # "rollback", HasInHand(k), ~OnItsWay(k)
    PROVE  FInv'
<1>1. Now(h, k)
  BY StepsTo
<1> QED BY <1>1, Continues

(* An account that exists has all its fields. *)
LEMMA AccountIsWhole ==
    ASSUME FInv, account.exists
    PROVE  /\ account \in [exists : {TRUE}, verified : BOOLEAN, google : BOOLEAN, mfa : Factors]
           /\ account.mfa \in Factors
<1>1. account # NoAccount
  <2>1. NoAccount.exists = FALSE
    BY DEF NoAccount
  <2> QED BY <2>1, Zenon
<1>2. account \in [exists : {TRUE}, verified : BOOLEAN, google : BOOLEAN, mfa : Factors]
  BY <1>1 DEF FInv, FactorsTyped, Accounts
<1> QED BY <1>2

(* Every request is received with what it needs. *)
LEMMA RequestsReceived ==
    ASSUME FInv, NEW h \in Handlers,
           \/ \E kind \in {"verify", "reset", "magic"} : AskForLink(h, kind)
           \/ Register(h) \/ ReturnFromGoogle(h) \/ Regenerate(h)
           \/ \E s \in DOMAIN setups : VerifySetup(h, s)
           \/ \E disable \in BOOLEAN : Challenge(h, disable)
    PROVE  FInv'
<1> USE DEF States, HasInHand, InTheMail, OnItsWay
<1>1. ASSUME NEW kind \in {"verify", "reset", "magic"}, AskForLink(h, kind)
      PROVE  FInv'
  <2>1. Mailing(kind) \in Mailers /\ Mailing(kind).pc = "supersede"
    BY <1>1 DEF Mailing, Mailers, Mails
  <2> QED BY <1>1, <2>1, Received DEF AskForLink
<1>2. CASE Register(h)
  <2>1. [pc |-> "lookUp"] \in Joiners
    BY DEF Joiners
  <2> QED BY <1>2, <2>1, Received DEF Register
<1>3. CASE ReturnFromGoogle(h)
  <2>1. [pc |-> "bySubject"] \in Joiners
    BY DEF Joiners
  <2> QED BY <1>3, <2>1, Received DEF ReturnFromGoogle
<1>4. CASE Regenerate(h)
  <2> DEFINE k == [pc |-> "regenerate", secret |-> account.mfa.secret, overtaken |-> FALSE]
  <2>1. account.exists /\ account.mfa.on /\ account.mfa.secret \in 0 .. Len(setups)
    BY <1>4 DEF Regenerate, FInv, CodesInv
  <2>2. Len(setups) \in Nat
    BY DEF FInv, FactorsTyped
  <2>3. k \in Renewers
    BY <2>1, <2>2 DEF Renewers
  <2> QED BY <1>4, <2>1, <2>3, Received DEF Regenerate
<1>5. ASSUME NEW s \in DOMAIN setups, VerifySetup(h, s)
      PROVE  FInv'
  <2>1. [pc |-> "forget", setup |-> s] \in SettersUp
    BY DEF SettersUp, FInv, FactorsTyped
  <2>2. account.exists
    BY DEF FInv, Belongs
  <2> QED BY <1>5, <2>1, <2>2, Received DEF VerifySetup
<1>6. ASSUME NEW disable \in BOOLEAN, Challenge(h, disable)
      PROVE  FInv'
  <2> DEFINE k == [pc |-> "factor", seen |-> account.mfa, disable |-> disable]
  <2>1. account.exists /\ account.mfa \in Factors
    BY <1>6, AccountIsWhole DEF Challenge
  <2>2. k \in Provers
    BY <2>1 DEF Provers
  <2> QED BY <1>6, <2>1, <2>2, Received DEF Challenge
<1> QED BY <1>1, <1>2, <1>3, <1>4, <1>5, <1>6

(* What a request looks up decides how it goes on. *)
LEMMA LooksUp ==
    ASSUME FInv, NEW h \in Handlers,
           \/ RegisterLooksUp(h) \/ FindBySubject(h) \/ FindByEmail(h) \/ EnterTotp(h)
    PROVE  FInv'
<1> USE DEF States, HasInHand, InTheMail, OnItsWay
<1>0. PICK s \in States : s = handler[h] /\ HasInHand(s)
  BY DEF FInv, FactorsTyped, HandsInv
<1>1. CASE RegisterLooksUp(h)
  <2>1. s.pc = "lookUp" /\ s \in Joiners /\ UNCHANGED <<account, links, setups, facts>>
    BY <1>0, <1>1, WhereItIs DEF RegisterLooksUp
  <2>2. CASE Step(h, "create")
    <3> DEFINE k == [s EXCEPT !.pc = "create"]
    <3>1. k \in Joiners /\ k.pc = "create"
      BY <2>1 DEF Joiners
    <3>2. k = [handler[h] EXCEPT !.pc = "create"] /\ handler[h].pc # "rollback"
      BY <1>0, <2>1
    <3> HIDE DEF k
    <3>3. k \in States /\ HasInHand(k) /\ ~OnItsWay(k)
      BY <1>0, <2>1, <2>2, <3>1
    <3> HIDE DEF States, HasInHand, InTheMail, OnItsWay
    <3> QED BY <2>1, <2>2, <3>2, <3>3, GoesOnTo
  <2>3. CASE Now(h, Mailing("verify")) /\ account.exists
    <3>1. Mailing("verify") \in Mailers /\ Mailing("verify").pc = "supersede"
      BY DEF Mailing, Mailers, Mails
    <3> QED BY <1>0, <2>1, <2>3, <3>1, Continues
  <2> QED BY <1>0, <1>1, <2>1, <2>2, <2>3, Ends DEF RegisterLooksUp
<1>2. CASE FindBySubject(h)
  <2>1. s.pc = "bySubject" /\ s \in Joiners /\ UNCHANGED <<account, links, setups, facts>>
    BY <1>0, <1>2, WhereItIs DEF FindBySubject
  <2>2. CASE Step(h, "byEmail")
    <3> DEFINE k == [s EXCEPT !.pc = "byEmail"]
    <3>1. k \in Joiners /\ k.pc = "byEmail"
      BY <2>1 DEF Joiners
    <3>2. k = [handler[h] EXCEPT !.pc = "byEmail"] /\ handler[h].pc # "rollback"
      BY <1>0, <2>1
    <3> HIDE DEF k
    <3>3. k \in States /\ HasInHand(k) /\ ~OnItsWay(k)
      BY <1>0, <2>1, <2>2, <3>1
    <3> HIDE DEF States, HasInHand, InTheMail, OnItsWay
    <3> QED BY <2>1, <2>2, <3>2, <3>3, GoesOnTo
  <2> QED BY <1>0, <1>2, <2>1, <2>2, Ends DEF FindBySubject
<1>3. CASE FindByEmail(h)
  <2>1. s.pc = "byEmail" /\ s \in Joiners /\ UNCHANGED <<account, links, setups, facts>>
    BY <1>0, <1>3, WhereItIs DEF FindByEmail
  <2>2. ASSUME NEW pc \in {"createGoogle", "link"}, Step(h, pc), pc = "link" => account.exists
        PROVE  FInv'
    <3> DEFINE k == [s EXCEPT !.pc = pc]
    <3>1. k \in Joiners /\ k.pc = pc
      BY <2>1 DEF Joiners
    <3>2. k = [handler[h] EXCEPT !.pc = pc] /\ handler[h].pc # "rollback"
      BY <1>0, <2>1
    <3> HIDE DEF k
    <3>3. k \in States /\ HasInHand(k) /\ ~OnItsWay(k)
      BY <1>0, <2>1, <2>2, <3>1
    <3> HIDE DEF States, HasInHand, InTheMail, OnItsWay
    <3> QED BY <2>1, <2>2, <3>2, <3>3, GoesOnTo
  <2> QED BY <1>0, <1>3, <2>1, <2>2, Ends DEF FindByEmail
<1>4. CASE EnterTotp(h)
  <2>1. s.pc = "factor" /\ s \in Provers /\ UNCHANGED <<account, links, setups, facts>>
    BY <1>0, <1>4, WhereItIs DEF EnterTotp
  <2>2. CASE Step(h, "disable")
    <3> DEFINE k == [s EXCEPT !.pc = "disable"]
    <3>1. k \in Provers /\ k.pc = "disable"
      BY <2>1 DEF Provers
    <3>2. k = [handler[h] EXCEPT !.pc = "disable"] /\ handler[h].pc # "rollback"
      BY <1>0, <2>1
    <3> HIDE DEF k
    <3>3. k \in States /\ HasInHand(k) /\ ~OnItsWay(k)
      BY <1>0, <2>1, <2>2, <3>1
    <3> HIDE DEF States, HasInHand, InTheMail, OnItsWay
    <3> QED BY <2>1, <2>2, <3>2, <3>3, GoesOnTo
  <2> QED BY <1>0, <1>4, <2>1, <2>2, Ends DEF EnterTotp, Passes
<1> QED BY <1>1, <1>2, <1>3, <1>4

(* A request breaks off; a mail that does is not accounted for any more. *)
LEMMA BreaksOff ==
    ASSUME FInv, NEW h \in Handlers, Breaks(h)
    PROVE  FInv'
<1>1. AtRest \in States /\ HasInHand(AtRest) /\ ~OnItsWay(AtRest)
  BY DEF States, Resting, HasInHand, InTheMail, OnItsWay, AtRest
<1>2. /\ handler' = [handler EXCEPT ![h] = AtRest] /\ UNCHANGED <<account, links, setups>>
      /\ facts' = [facts EXCEPT !.requests = @ + 1,
                       !.crossed = @ \/ handler[h].pc \in {"deliver", "rollback"}]
      /\ facts \in Facts
  BY DEF Breaks, Done, Now, FInv, FactorsTyped
<1>3. /\ facts' \in Facts /\ facts'.created = facts.created /\ facts'.batches = facts.batches
      /\ facts'.spent = facts.spent /\ facts'.wanted = facts.wanted
      /\ facts'.mixed = facts.mixed /\ facts'.proved = facts.proved
      /\ facts'.good = facts.good
      /\ facts'.crossed = (facts.crossed \/ handler[h].pc \in {"deliver", "rollback"})
  <2>0. PICK n \in Nat : n = facts.requests + 1
    BY <1>2 DEF Facts
  <2>1. PICK b \in BOOLEAN : b = (facts.crossed \/ handler[h].pc \in {"deliver", "rollback"})
    BY Zenon
  <2>2. facts' = [facts EXCEPT !.requests = n, !.crossed = b]
    BY <1>2, <2>0, <2>1, Zenon
  <2>3. /\ facts' \in Facts /\ facts'.created = facts.created /\ facts'.batches = facts.batches
        /\ facts'.spent = facts.spent /\ facts'.wanted = facts.wanted
        /\ facts'.mixed = facts.mixed /\ facts'.proved = facts.proved
        /\ facts'.good = facts.good /\ facts'.crossed = b
    <3>1. facts \in Facts
      BY <1>2
    <3> QED BY <2>2, <3>1 DEF Facts
  <2> QED BY <2>1, <2>3, Zenon
<1>4. /\ facts.crossed => facts'.crossed
      /\ facts'.crossed \/ handler[h].pc # "rollback"
  BY <1>3, Zenon
<1> QED BY <1>1, <1>2, <1>3, <1>4, OnlyGoesOn

-----------------------------------------------------------------------------
(* Mails and their links. *)

(* A request with its mail: what it is doing, and that its user has an account. *)
LEMMA MailInHand ==
    ASSUME FInv, NEW h \in Handlers, handler[h].pc \in {"supersede", "issue", "deliver", "rollback"}
    PROVE  \E s \in Mailers : s = handler[h] /\ HasInHand(s) /\ s \in States /\ account.exists
<1>1. PICK s \in States : s = handler[h] /\ HasInHand(s)
  BY DEF FInv, FactorsTyped, HandsInv
<1>2. s \in Mailers
  BY <1>1, WhereItIs
<1> QED BY <1>1, <1>2 DEF HasInHand

(* A request that is done has nothing in hand. *)
LEMMA NothingInHand == AtRest \in States /\ AtRest.pc = "rest" /\ ~OnItsWay(AtRest)
    /\ ~InTheMail(AtRest) /\ HasInHand(AtRest) /\ HasInHand(AtRest)'
BY DEF States, Resting, HasInHand, InTheMail, OnItsWay, AtRest

LEMMA Superseded ==
    ASSUME FInv, NEW h \in Handlers, Supersede(h)
    PROVE  FInv'
<1>1. PICK s \in Mailers : s = handler[h] /\ HasInHand(s) /\ s \in States /\ account.exists
  BY MailInHand DEF Supersede
<1> DEFINE k == [s EXCEPT !.pc = "issue"]
<1>2. /\ s.pc = "supersede" /\ UNCHANGED <<account, setups>>
      /\ handler' = [handler EXCEPT ![h] = k] /\ k \in Mailers /\ k \in States
      /\ k.pc = "issue" /\ k.kind = s.kind /\ s.kind \in Mails
  BY <1>1, StepsTo DEF Supersede, Mailers, Now, States
<1>3. PICK b \in BOOLEAN : b = (facts.crossed \/ \E g \in Handlers :
               g # h /\ InTransit(g) /\ handler[g].kind = s.kind)
  BY Zenon
<1>4. facts' = [facts EXCEPT !.good = {l \in @ : links[l].kind # s.kind}, !.crossed = b]
  BY <1>1, <1>3, Zenon DEF Supersede
<1>5. /\ facts \in Facts /\ links \in Seq(Links) /\ setups \in Seq(BOOLEAN)
      /\ handler \in [Handlers -> States]
  BY DEF FInv, FactorsTyped
<1>6. /\ facts' \in Facts /\ facts'.created = facts.created /\ facts'.batches = facts.batches
      /\ facts'.spent = facts.spent /\ facts'.wanted = facts.wanted
      /\ facts'.mixed = facts.mixed /\ facts'.proved = facts.proved
      /\ facts'.good = {l \in facts.good : links[l].kind # s.kind} /\ facts'.crossed = b
  BY <1>4, <1>5 DEF Facts
<1>7. \A i \in DOMAIN links : /\ links[i] \in Links
                              /\ [links[i] EXCEPT !.live = FALSE] \in Links
  <2>1. \A r \in Links : [r EXCEPT !.live = FALSE] \in Links
    BY DEF Links
  <2> QED BY <1>5, <2>1
<1>8. /\ links' \in Seq(Links) /\ Len(links') = Len(links) /\ DOMAIN links' = DOMAIN links
      /\ \A i \in DOMAIN links : /\ links'[i].kind = links[i].kind
                                 /\ links'[i].mailed = links[i].mailed
                                 /\ links'[i].works = links[i].works
                                 /\ links'[i].live =
                                       IF links[i].kind = s.kind THEN FALSE ELSE links[i].live
  <2>1. links' = [i \in DOMAIN links |-> IF links[i].kind = s.kind
                     THEN [links[i] EXCEPT !.live = FALSE] ELSE links[i]]
    BY <1>1 DEF Supersede, Supersedes
  <2>2. links' \in [1 .. Len(links) -> Links] /\ Len(links) \in Nat
    BY <1>5, <1>7, <2>1
  <2> QED BY <1>5, <1>7, <2>1, <2>2 DEF Links
<1> HIDE DEF k
<1>9. LeavesInHand(h)
  <2>1. facts'.good \subseteq facts.good
    BY <1>6
  <2>2. /\ account' = account /\ setups' = setups /\ Len(setups) \in Nat
        /\ facts'.proved = facts.proved
    BY <1>2, <1>5, <1>6
  <2>3. DOMAIN links' = DOMAIN links /\ \A l \in DOMAIN links : links'[l].kind = links[l].kind
    BY <1>8
  <2> QED BY <2>1, <2>2, <2>3 DEF LeavesInHand
<1>10. handler' \in [Handlers -> States] /\ HandsInv' /\ MailedByOne'
  <2>1. HasInHand(k)' /\ ~InTheMail(k)
    BY <1>1, <1>2 DEF HasInHand, InTheMail
  <2>2. setups' \in Seq(BOOLEAN)
    BY <1>2 DEF FInv, FactorsTyped
  <2> QED BY <1>2, <1>9, <2>1, <2>2, HandGoesOn
<1>11. FactorsTyped' /\ Belongs' /\ LinksInv'
  BY <1>1, <1>2, <1>6, <1>8, <1>10 DEF FInv, FactorsTyped, Belongs, LinksInv
<1>12. facts.crossed => facts'.crossed
  BY <1>3, <1>6, Zenon
<1>13. LatestInv'
  <2>1. ASSUME ~facts'.crossed
        PROVE  /\ \A l \in facts'.good : links'[l].live
               /\ \A l \in DOMAIN links' :
                    links'[l].mailed /\ links'[l].live /\ l \notin facts'.good =>
                        /\ l \in DOMAIN links \ facts.good
                        /\ links[l].mailed /\ links[l].live
    BY <1>6, <1>8, <1>12, <2>1 DEF FInv, LatestInv, LinksInv
  <2>2. handler[h].pc # "rollback"
    BY <1>1, <1>2
  <2> QED BY <1>2, <1>12, <2>1, <2>2, LatestAfter
<1>14. KindInv'
  <2>1. ASSUME ~facts'.crossed
        PROVE  \A g \in Handlers : g # h /\ InTransit(g) => handler[g].kind # s.kind
    BY <1>3, <1>6, <2>1, Zenon
  <2>2. \A g \in Handlers \ {h} : InTransit(g)' =>
          InTransit(g) /\ handler'[g].kind = handler[g].kind
    BY <1>2, <1>5 DEF InTransit
  <2>3. handler'[h].kind = s.kind
    BY <1>2, <1>5
  <2>4. \A l \in facts'.good :
          l \in facts.good /\ links'[l].kind = links[l].kind /\ links[l].kind # s.kind
    BY <1>6, <1>8 DEF FInv, LinksInv
  <2> QED BY <1>12, <2>1, <2>2, <2>3, <2>4 DEF FInv, KindInv
<1>15. OwnedInv' /\ CodesInv'
  BY <1>2, <1>6, AccountKept
<1> QED BY <1>10, <1>11, <1>13, <1>14, <1>15 DEF FInv

LEMMA LinkIssued ==
    ASSUME FInv, NEW h \in Handlers, Issue(h)
    PROVE  FInv'
<1>1. PICK s \in Mailers : s = handler[h] /\ HasInHand(s) /\ s \in States /\ account.exists
  BY MailInHand DEF Issue
<1>0. PICK n \in Nat : n = Len(links) + 1
  BY DEF FInv, FactorsTyped
<1> DEFINE new == [kind |-> s.kind, live |-> TRUE, mailed |-> FALSE, works |-> 0]
           k   == [s EXCEPT !.pc = "deliver", !.link = n]
<1>2. links \in Seq(Links) /\ handler \in [Handlers -> States] /\ setups \in Seq(BOOLEAN)
  BY DEF FInv, FactorsTyped
<1>3. /\ s.pc = "issue" /\ UNCHANGED <<account, setups, facts>> /\ s.kind \in Mails
      /\ links' = Append(links, new) /\ Len(links') = n
      /\ handler' = [handler EXCEPT ![h] = k]
      /\ Len(links) < MaxLinks
  BY <1>0, <1>1, <1>2 DEF Issue, Mailers, Now
<1>4. new \in Links
  BY <1>3 DEF Links
<1>5. MaxLinks \in Nat
  BY FactorAssumption
<1>6. /\ links' \in Seq(Links) /\ Len(links') <= MaxLinks
      /\ DOMAIN links' = DOMAIN links \cup {n} /\ n \notin DOMAIN links
      /\ \A l \in DOMAIN links : links'[l] = links[l]
      /\ links'[n] = new
  BY <1>0, <1>2, <1>3, <1>4, <1>5
<1>7. k \in Mailers /\ k \in States /\ k.kind = s.kind /\ k.pc = "deliver" /\ k.link = n
  BY <1>0, <1>1 DEF Mailers, States
<1> HIDE DEF k
<1>8. LeavesInHand(h)
  BY <1>2, <1>3, <1>6 DEF LeavesInHand
<1>9. new.kind = s.kind /\ ~new.mailed /\ new.works = 0
  OBVIOUS
<1>10. handler' \in [Handlers -> States] /\ HandsInv' /\ MailedByOne'
  <2>1. n \notin facts.good
    BY <1>6 DEF FInv, LinksInv
  <2>2. HasInHand(k)'
    BY <1>1, <1>3, <1>6, <1>7, <1>9, <2>1 DEF HasInHand, InTheMail
  <2> QED BY <1>2, <1>3, <1>6, <1>7, <1>8, <2>2, HandGoesOn
<1>11. FactorsTyped' /\ Belongs' /\ LinksInv'
  BY <1>1, <1>3, <1>6, <1>9, <1>10 DEF FInv, FactorsTyped, Belongs, LinksInv
<1>12. LatestInv'
  <2>1. ~facts'.crossed =>
          /\ \A l \in facts'.good : links'[l].live
          /\ \A l \in DOMAIN links' :
               links'[l].mailed /\ links'[l].live /\ l \notin facts'.good =>
                  /\ l \in DOMAIN links \ facts.good
                  /\ links[l].mailed /\ links[l].live
    BY <1>3, <1>6, <1>9 DEF FInv, LatestInv, LinksInv
  <2>2. handler[h].pc # "rollback"
    BY <1>1, <1>3
  <2> QED BY <1>3, <2>1, <2>2, LatestAfter
<1>13. KindInv'
  BY <1>1, <1>3, <1>7, <1>8, KindAfter DEF OnItsWay
<1>14. OwnedInv' /\ CodesInv'
  BY <1>3, AccountKept DEF FInv, FactorsTyped
<1> QED BY <1>10, <1>11, <1>12, <1>13, <1>14 DEF FInv

(* The mail is sent: its link is now the good one of its kind, or is taken back. *)
LEMMA Delivered ==
    ASSUME FInv, NEW h \in Handlers, NEW out \in BOOLEAN, NEW accepted \in BOOLEAN,
           DeliverMail(h, out, accepted)
    PROVE  FInv'
<1>1. PICK s \in Mailers : s = handler[h] /\ HasInHand(s) /\ s \in States /\ account.exists
  BY MailInHand DEF DeliverMail
<1>2. /\ s.pc = "deliver" /\ UNCHANGED <<account, setups>> /\ s.kind \in Mails
      /\ s.link \in DOMAIN links /\ s.link \notin facts.good /\ links[s.link].kind = s.kind
  BY <1>1 DEF DeliverMail, Mailers, HasInHand, InTheMail
<1>3. /\ facts \in Facts /\ links \in Seq(Links) /\ setups \in Seq(BOOLEAN)
      /\ handler \in [Handlers -> States] /\ facts.good \subseteq DOMAIN links
  BY DEF FInv, FactorsTyped, LinksInv
<1>4. PICK k \in States :
         /\ handler' = [handler EXCEPT ![h] = k] /\ HasInHand(k) /\ ~(k.pc = "issue")
         /\ IF accepted THEN k = AtRest ELSE k.pc = "rollback" /\ k.link = s.link /\ k.kind = s.kind
  <2>1. CASE accepted
    BY <1>1, <2>1, NothingInHand DEF DeliverMail, Done, Now, AtRest
  <2>2. CASE ~accepted
    <3> DEFINE r == [s EXCEPT !.pc = "rollback"]
    <3>1. r \in Mailers /\ r \in States /\ r.pc = "rollback" /\ r.link = s.link /\ r.kind = s.kind
      BY DEF Mailers, States
    <3>2. handler' = [handler EXCEPT ![h] = r]
      BY <1>1, <2>2, StepsTo DEF DeliverMail, Now
    <3> HIDE DEF r
    <3>3. HasInHand(r)
      BY <1>1, <1>2, <3>1 DEF HasInHand, InTheMail
    <3> QED BY <2>2, <3>1, <3>2, <3>3
  <2> QED BY <2>1, <2>2
<1>5. PICK new \in SUBSET Nat : new = IF accepted /\ links[s.link].live
                                      THEN facts.good \cup {s.link} ELSE facts.good
  <2>1. facts.good \in SUBSET Nat /\ facts.good \cup {s.link} \in SUBSET Nat
    BY <1>2, <1>3 DEF Facts
  <2> QED BY <2>1
<1>6. facts' = [facts EXCEPT !.good = new]
  BY <1>1, <1>5 DEF DeliverMail
<1>7. /\ facts' \in Facts /\ facts'.created = facts.created /\ facts'.batches = facts.batches
      /\ facts'.spent = facts.spent /\ facts'.wanted = facts.wanted
      /\ facts'.mixed = facts.mixed /\ facts'.proved = facts.proved
      /\ facts'.good = new /\ facts'.crossed = facts.crossed
  BY <1>3, <1>6 DEF Facts
<1>8. /\ links' \in Seq(Links) /\ Len(links') = Len(links) /\ DOMAIN links' = DOMAIN links
      /\ \A i \in DOMAIN links :
            /\ links'[i].kind = links[i].kind /\ links'[i].live = links[i].live
            /\ links'[i].works = links[i].works
            /\ i # s.link => links'[i].mailed = links[i].mailed
  <2>1. links[s.link] \in Links
    BY <1>2, <1>3
  <2> DEFINE r == [links[s.link] EXCEPT !.mailed = TRUE]
  <2>2. links' = IF out THEN [links EXCEPT ![s.link] = r] ELSE links
    BY <1>1, <1>2, <1>3 DEF DeliverMail
  <2>3. /\ r \in Links /\ r.kind = links[s.link].kind /\ r.works = links[s.link].works
        /\ r.live = links[s.link].live
    BY <2>1 DEF Links
  <2> HIDE DEF r
  <2> QED BY <1>2, <1>3, <2>2, <2>3
<1>9. LeavesInHand(h)
  <2>1. account' = account /\ setups' = setups /\ Len(setups) \in Nat
    BY <1>2, <1>3
  <2>2. \A l \in facts'.good : l \in facts.good \/ l = s.link
    BY <1>5, <1>7
  <2> QED BY <1>1, <1>2, <1>7, <1>8, <2>1, <2>2 DEF LeavesInHand
<1>10. handler' \in [Handlers -> States] /\ HandsInv' /\ MailedByOne'
  <2>1. HasInHand(k)'
    <3>1. CASE accepted
      BY <1>4, <3>1, NothingInHand
    <3>2. CASE ~accepted
      BY <1>1, <1>2, <1>4, <1>5, <1>7, <1>8, <3>2 DEF HasInHand, InTheMail
    <3> QED BY <3>1, <3>2
  <2>2. InTheMail(k) => InTheMail(handler[h]) /\ k.link = handler[h].link
    BY <1>1, <1>2, <1>4, NothingInHand DEF InTheMail
  <2>3. setups' \in Seq(BOOLEAN)
    BY <1>2, <1>3
  <2> QED BY <1>4, <1>9, <2>1, <2>2, <2>3, HandGoesOn
<1>11. FactorsTyped' /\ Belongs' /\ LinksInv'
  BY <1>1, <1>2, <1>5, <1>7, <1>8, <1>10 DEF FInv, FactorsTyped, Belongs, LinksInv
<1>12. LatestInv'
  <2>1. ASSUME ~facts'.crossed
        PROVE  /\ \A l \in facts'.good : links'[l].live
               /\ \A l \in DOMAIN links' :
                    links'[l].mailed /\ links'[l].live /\ l \notin facts'.good =>
                       \/ /\ l \in DOMAIN links \ facts.good
                          /\ links[l].mailed /\ links[l].live
                       \/ k.pc = "rollback" /\ k.link = l
    <3>1. \A l \in facts.good : links'[l].live
      BY <1>3, <1>7, <1>8, <2>1 DEF FInv, LatestInv
    <3>2. \A l \in facts'.good : links'[l].live
      BY <1>2, <1>5, <1>7, <1>8, <3>1
    <3>3. ASSUME NEW l \in DOMAIN links', links'[l].mailed /\ links'[l].live /\ l \notin facts'.good
          PROVE  \/ /\ l \in DOMAIN links \ facts.good
                    /\ links[l].mailed /\ links[l].live
                 \/ k.pc = "rollback" /\ k.link = l
      <4>1. CASE l = s.link
        BY <1>4, <1>5, <1>7, <1>8, <3>3, <4>1
      <4>2. CASE l # s.link
        BY <1>5, <1>7, <1>8, <3>3, <4>2
      <4> QED BY <4>1, <4>2
    <3> QED BY <3>2, <3>3
  <2>2. handler[h].pc # "rollback" /\ (facts.crossed => facts'.crossed)
    BY <1>1, <1>2, <1>7
  <2> QED BY <1>4, <2>1, <2>2, LatestAfter
<1>13. KindInv'
  <2>1. CASE accepted
    <3>1. \A g \in Handlers : InTransit(g)' =>
            g # h /\ InTransit(g) /\ handler'[g].kind = handler[g].kind
      BY <1>3, <1>4, <2>1 DEF InTransit, AtRest
    <3>2. InTransit(h) /\ handler[h].kind = s.kind
      BY <1>1, <1>2 DEF InTransit
    <3>3. \A l \in facts'.good : l \in facts.good \cup {s.link} /\ links'[l].kind = links[l].kind
      BY <1>2, <1>3, <1>5, <1>7, <1>8
    <3> QED BY <1>2, <1>7, <3>1, <3>2, <3>3 DEF FInv, KindInv
  <2>2. CASE ~accepted
    <3>1. facts'.good \subseteq facts.good /\ (facts.crossed => facts'.crossed)
      BY <1>5, <1>7, <2>2
    <3>2. OnItsWay(handler[h]) /\ k.kind = handler[h].kind
      BY <1>1, <1>2, <1>4, <2>2 DEF OnItsWay
    <3> QED BY <1>4, <1>9, <3>1, <3>2, KindAfter
  <2> QED BY <2>1, <2>2
<1>14. OwnedInv' /\ CodesInv'
  BY <1>2, <1>7, AccountKept
<1> QED BY <1>10, <1>11, <1>12, <1>13, <1>14 DEF FInv

(* A request ends or turns to what its link is for; links only die or are used. *)
LEMMA LinkFades ==
    ASSUME FInv, NEW h \in Handlers, NEW k \in States, handler' = [handler EXCEPT ![h] = k],
           UNCHANGED <<account, setups>>, account.exists, ~OnItsWay(k), HasInHand(k)',
           facts' \in Facts, facts'.created = facts.created, facts'.batches = facts.batches,
           facts'.spent = facts.spent, facts'.wanted = facts.wanted,
           facts'.mixed = facts.mixed, facts.proved => facts'.proved,
           facts'.good \subseteq facts.good, facts.crossed => facts'.crossed,
           links' \in Seq(Links), Len(links') = Len(links), DOMAIN links' = DOMAIN links,
           \A i \in DOMAIN links :
              /\ links'[i].kind = links[i].kind /\ links'[i].mailed = links[i].mailed
              /\ links'[i].live => links[i].live /\ links'[i].works = links[i].works
              /\ i \in facts'.good => links'[i].live = links[i].live
              /\ i \in facts.good \ facts'.good => ~links'[i].live
              /\ handler[h].pc = "rollback" /\ handler[h].link = i =>
                    facts'.crossed \/ ~links'[i].live
    PROVE  FInv'
<1>1. handler \in [Handlers -> States] /\ setups \in Seq(BOOLEAN) /\ facts.good \subseteq DOMAIN links
      /\ Len(setups) \in Nat
  BY DEF FInv, FactorsTyped, LinksInv
<1>2. LeavesInHand(h)
  BY <1>1 DEF LeavesInHand
<1>3. handler' \in [Handlers -> States] /\ HandsInv' /\ MailedByOne'
  <2>1. ~InTheMail(k)
    BY DEF OnItsWay, InTheMail
  <2> QED BY <1>1, <1>2, <2>1, HandGoesOn
<1>4. FactorsTyped' /\ Belongs' /\ LinksInv'
  BY <1>1, <1>3 DEF FInv, FactorsTyped, Belongs, LinksInv
<1>5. LatestInv'
  <2>1. ~facts'.crossed =>
          /\ \A l \in facts'.good : links'[l].live
          /\ \A l \in DOMAIN links' :
               links'[l].mailed /\ links'[l].live /\ l \notin facts'.good =>
                  /\ l \in DOMAIN links \ facts.good
                  /\ links[l].mailed /\ links[l].live
                  /\ handler[h].pc = "rollback" => handler[h].link # l
    BY <1>1 DEF FInv, LatestInv
  <2> QED BY <2>1, LatestAfter
<1>6. KindInv'
  BY <1>2, KindAfter
<1>7. OwnedInv' /\ CodesInv'
  BY AccountKept
<1> QED BY <1>3, <1>4, <1>5, <1>6, <1>7 DEF FInv

LEMMA RolledBack ==
    ASSUME FInv, NEW h \in Handlers, NEW works \in BOOLEAN, Rollback(h, works)
    PROVE  FInv'
<1>1. PICK s \in Mailers : s = handler[h] /\ HasInHand(s) /\ s \in States /\ account.exists
  BY MailInHand DEF Rollback
<1>2. /\ s.pc = "rollback" /\ UNCHANGED <<account, setups>>
      /\ s.link \in DOMAIN links /\ s.link \notin facts.good
      /\ handler' = [handler EXCEPT ![h] = AtRest]
  BY <1>1 DEF Rollback, HasInHand, InTheMail, Done, Now
<1>3. facts \in Facts /\ links \in Seq(Links)
  BY DEF FInv, FactorsTyped
<1>4. PICK b \in BOOLEAN : b = (facts.crossed \/ ~works)
  BY Zenon
<1>5. facts' = [facts EXCEPT !.crossed = b]
  BY <1>4, Zenon DEF Rollback
<1>6. /\ facts' \in Facts /\ facts'.created = facts.created /\ facts'.batches = facts.batches
      /\ facts'.spent = facts.spent /\ facts'.wanted = facts.wanted
      /\ facts'.mixed = facts.mixed /\ facts'.proved = facts.proved
      /\ facts'.good = facts.good /\ facts'.crossed = b
  BY <1>3, <1>5 DEF Facts
<1>7. (facts.crossed => facts'.crossed) /\ (~works => facts'.crossed)
  BY <1>4, <1>6, Zenon
<1>8. /\ links' \in Seq(Links) /\ Len(links') = Len(links) /\ DOMAIN links' = DOMAIN links
      /\ \A i \in DOMAIN links :
            /\ links'[i].kind = links[i].kind /\ links'[i].mailed = links[i].mailed
            /\ links'[i].works = links[i].works
            /\ IF works /\ i = s.link THEN ~links'[i].live ELSE links'[i].live = links[i].live
  <2>1. links[s.link] \in Links
    BY <1>2, <1>3
  <2> DEFINE r == [links[s.link] EXCEPT !.live = FALSE]
  <2>2. links' = IF works THEN [links EXCEPT ![s.link] = r] ELSE links
    BY <1>1, <1>2, <1>3 DEF Rollback
  <2>3. /\ r \in Links /\ r.kind = links[s.link].kind /\ r.works = links[s.link].works
        /\ r.mailed = links[s.link].mailed /\ ~r.live
    BY <2>1 DEF Links
  <2> HIDE DEF r
  <2> QED BY <1>2, <1>3, <2>2, <2>3
<1> QED BY <1>1, <1>2, <1>6, <1>7, <1>8, NothingInHand, LinkFades

(* A link works once: the one who follows it first takes it. *)
LEMMA Followed ==
    ASSUME FInv, NEW h \in Handlers, NEW l \in DOMAIN links, Follow(h, l)
    PROVE  FInv'
<1>1. /\ facts \in Facts /\ links \in Seq(Links) /\ handler \in [Handlers -> States]
      /\ account.exists
  BY DEF FInv, FactorsTyped, Belongs
<1>2. PICK k \in States :
         /\ handler' = [handler EXCEPT ![h] = k] /\ ~OnItsWay(k)
         /\ k = AtRest \/ k.pc = "effect"
  <2>1. CASE links[l].live
    <3>1. [pc |-> "effect", link |-> l] \in States
      BY <1>1 DEF States, Followers
    <3> QED BY <2>1, <3>1 DEF Follow, Now, OnItsWay
  <2>2. CASE ~links[l].live
    BY <1>1, <2>2, NothingInHand DEF Follow
  <2> QED BY <2>1, <2>2
<1>3. facts' = [facts EXCEPT !.proved = TRUE, !.good = @ \ {l}]
  BY DEF Follow
<1>4. /\ facts' \in Facts /\ facts'.created = facts.created /\ facts'.batches = facts.batches
      /\ facts'.spent = facts.spent /\ facts'.wanted = facts.wanted
      /\ facts'.mixed = facts.mixed /\ facts'.proved
      /\ facts'.good = facts.good \ {l} /\ facts'.crossed = facts.crossed
  BY <1>1, <1>3 DEF Facts
<1>5. /\ links' \in Seq(Links) /\ Len(links') = Len(links) /\ DOMAIN links' = DOMAIN links
      /\ \A i \in DOMAIN links :
            /\ links'[i].kind = links[i].kind /\ links'[i].mailed = links[i].mailed
            /\ IF i = l THEN ~links'[i].live ELSE links'[i] = links[i]
  <2>1. links[l] \in Links /\ (links[l].live => links[l].works = 0)
    BY <1>1 DEF FInv, LinksInv
  <2>2. PICK w \in {0, 1} : w = IF links[l].live THEN links[l].works + 1 ELSE links[l].works
    BY <2>1 DEF Links
  <2> DEFINE r == [links[l] EXCEPT !.live = FALSE, !.works = w]
  <2>3. links' = [links EXCEPT ![l] = r]
    BY <1>1, <2>1, <2>2 DEF Follow, Links
  <2>4. r \in Links /\ r.kind = links[l].kind /\ r.mailed = links[l].mailed /\ ~r.live
    BY <2>1 DEF Links
  <2> HIDE DEF r
  <2> QED BY <1>1, <2>3, <2>4
<1>6. HasInHand(k)' /\ UNCHANGED <<account, setups>> /\ handler[h].pc = "rest"
  <2>1. UNCHANGED <<account, setups>> /\ handler[h].pc = "rest"
    BY NothingInHand DEF Follow
  <2>2. CASE k = AtRest
    BY <2>1, <2>2, NothingInHand
  <2>3. CASE k.pc = "effect"
    BY <1>1, <1>4, <2>1, <2>3 DEF HasInHand, InTheMail
  <2> QED BY <1>2, <2>1, <2>2, <2>3
<1> QED BY <1>1, <1>2, <1>4, <1>5, <1>6, LinkFades

(* What is forgotten, or is set up without a request, moves no request. *)
LEMMA Unmoved ==
    ASSUME FInv, UNCHANGED <<account, handler>>, setups' \in Seq(BOOLEAN),
           Len(setups) <= Len(setups'), DOMAIN links' = DOMAIN links,
           \A l \in DOMAIN links : links'[l].kind = links[l].kind,
           facts'.good \subseteq facts.good, facts'.proved = facts.proved,
           facts'.crossed = facts.crossed
    PROVE  HandsInv' /\ MailedByOne' /\ KindInv'
<1>1. /\ DOMAIN setups \subseteq DOMAIN setups'
      /\ 0 .. Len(setups) \subseteq 0 .. Len(setups')
  BY DEF FInv, FactorsTyped
<1>2. ASSUME NEW g \in Handlers, NEW s, s = handler'[g] PROVE HasInHand(s)'
  <2>1. HasInHand(s)
    BY <1>2 DEF FInv, HandsInv
  <2> QED BY <1>1, <2>1 DEF HasInHand
<1>3. HandsInv'
  BY <1>2, HandsAfter
<1>4. MailedByOne'
  BY DEF FInv, MailedByOne
<1>5. KindInv'
  BY DEF FInv, KindInv, LinksInv, InTransit
<1> QED BY <1>3, <1>4, <1>5

LEMMA LinkExpired ==
    ASSUME FInv, NEW l \in DOMAIN links, LinkExpires(l)
    PROVE  FInv'
<1>1. /\ facts \in Facts /\ links \in Seq(Links) /\ setups \in Seq(BOOLEAN)
      /\ Len(setups) \in Nat
  BY DEF FInv, FactorsTyped
<1>2. facts' = [facts EXCEPT !.good = @ \ {l}] /\ UNCHANGED <<account, setups, handler>>
  BY DEF LinkExpires
<1>3. /\ facts' \in Facts /\ facts'.created = facts.created /\ facts'.batches = facts.batches
      /\ facts'.spent = facts.spent /\ facts'.wanted = facts.wanted
      /\ facts'.mixed = facts.mixed /\ facts'.proved = facts.proved
      /\ facts'.good = facts.good \ {l} /\ facts'.crossed = facts.crossed
  BY <1>1, <1>2 DEF Facts
<1>4. /\ links' \in Seq(Links) /\ Len(links') = Len(links) /\ DOMAIN links' = DOMAIN links
      /\ \A i \in DOMAIN links :
            /\ links'[i].kind = links[i].kind /\ links'[i].mailed = links[i].mailed
            /\ links'[i].works = links[i].works
            /\ IF i = l THEN ~links'[i].live ELSE links'[i].live = links[i].live
  <2>1. links[l] \in Links
    BY <1>1
  <2> DEFINE r == [links[l] EXCEPT !.live = FALSE]
  <2>2. links' = [links EXCEPT ![l] = r]
    BY <1>1 DEF LinkExpires
  <2>3. /\ r \in Links /\ r.kind = links[l].kind /\ r.works = links[l].works
        /\ r.mailed = links[l].mailed /\ ~r.live
    BY <2>1 DEF Links
  <2> HIDE DEF r
  <2> QED BY <1>1, <2>2, <2>3
<1>5. HandsInv' /\ MailedByOne' /\ KindInv'
  <2>1. setups' = setups /\ Len(setups) <= Len(setups') /\ facts'.good \subseteq facts.good
    BY <1>1, <1>2, <1>3
  <2> QED BY <1>1, <1>2, <1>3, <1>4, <2>1, Unmoved
<1>6. FactorsTyped' /\ Belongs' /\ LinksInv'
  <2>1. account.exists
    BY DEF FInv, Belongs
  <2> QED BY <1>2, <1>3, <1>4, <2>1 DEF FInv, FactorsTyped, Belongs, LinksInv
<1>7. LatestInv'
  BY <1>2, <1>3, <1>4 DEF FInv, LatestInv, LinksInv, Awaits
<1>8. OwnedInv' /\ CodesInv'
  BY <1>2, <1>3, AccountKept
<1> QED BY <1>5, <1>6, <1>7, <1>8 DEF FInv

(* Set-ups come and go; an account exists before the first. *)
LEMMA SetupsMove ==
    ASSUME FInv, UNCHANGED <<account, links, handler, facts>>, setups' \in Seq(BOOLEAN),
           Len(setups) <= Len(setups'), Len(setups') <= MaxSetups, account.exists
    PROVE  FInv'
<1>1. HandsInv' /\ MailedByOne' /\ KindInv'
  BY Unmoved
<1>2. FactorsTyped' /\ Belongs' /\ LinksInv' /\ LatestInv' /\ OwnedInv'
  BY DEF FInv, FactorsTyped, Belongs, LinksInv, LatestInv, Awaits, OwnedInv
<1>3. CodesInv'
  <2>1. 0 .. Len(setups) \subseteq 0 .. Len(setups')
    BY DEF FInv, FactorsTyped
  <2> QED BY <2>1 DEF FInv, CodesInv
<1> QED BY <1>1, <1>2, <1>3 DEF FInv

LEMMA SetupCreated ==
    ASSUME FInv, NEW h \in Handlers, CreateSetup(h)
    PROVE  FInv'
<1>1. /\ setups \in Seq(BOOLEAN) /\ Len(setups) < MaxSetups /\ MaxSetups \in Nat
      /\ setups' = Append(setups, TRUE)
  BY FactorAssumption DEF CreateSetup, FInv, FactorsTyped
<1>2. setups' \in Seq(BOOLEAN) /\ Len(setups) <= Len(setups') /\ Len(setups') <= MaxSetups
  BY <1>1
<1> QED BY <1>2, SetupsMove DEF CreateSetup

LEMMA SetupExpired ==
    ASSUME FInv, NEW s \in DOMAIN setups, SetupExpires(s)
    PROVE  FInv'
<1>1. /\ setups \in Seq(BOOLEAN) /\ setups' = [setups EXCEPT ![s] = FALSE] /\ account.exists
      /\ Len(setups) <= MaxSetups
  BY DEF SetupExpires, FInv, FactorsTyped, Belongs
<1>2. setups' \in Seq(BOOLEAN) /\ Len(setups') = Len(setups) /\ Len(setups) \in Nat
  BY <1>1
<1> QED BY <1>1, <1>2, SetupsMove DEF SetupExpires

-----------------------------------------------------------------------------
(* Accounts. *)

(* A step of the account and of one request, with no mail under way. *)
LEMMA AccountMoves ==
    ASSUME FInv, NEW h \in Handlers, NEW k \in States, handler' = [handler EXCEPT ![h] = k],
           links' = links, setups' \in Seq(BOOLEAN), Len(setups') = Len(setups),
           account' \in Accounts, facts' \in Facts,
           account.exists => /\ account'.exists /\ account'.mfa.on = account.mfa.on
                             /\ account'.mfa.secret = account.mfa.secret,
           facts'.good = facts.good, facts'.crossed = facts.crossed,
           facts.proved => facts'.proved,
           ~OnItsWay(k), HasInHand(k)', handler[h].pc # "rollback",
           Belongs', OwnedInv', CodesInv'
    PROVE  FInv'
<1>1. LeavesInHand(h)
  BY DEF LeavesInHand, FInv, FactorsTyped
<1>2. handler' \in [Handlers -> States] /\ HandsInv' /\ MailedByOne'
  <2>1. ~InTheMail(k)
    BY DEF OnItsWay, InTheMail
  <2> QED BY <1>1, <2>1, HandGoesOn
<1>3. FactorsTyped' /\ LinksInv'
  BY <1>2 DEF FInv, FactorsTyped, LinksInv
<1>4. LatestInv'
  <2>1. ~facts'.crossed =>
          /\ \A l \in facts'.good : links'[l].live
          /\ \A l \in DOMAIN links' :
               links'[l].mailed /\ links'[l].live /\ l \notin facts'.good =>
                  /\ l \in DOMAIN links \ facts.good
                  /\ links[l].mailed /\ links[l].live
    BY DEF FInv, LatestInv
  <2> QED BY <2>1, LatestAfter
<1>5. KindInv'
  BY <1>1, KindAfter
<1> QED BY <1>2, <1>3, <1>4, <1>5 DEF FInv

(* What a link is for: the address is confirmed. *)
LEMMA TakesEffect ==
    ASSUME FInv, NEW h \in Handlers, Effect(h)
    PROVE  FInv'
<1>1. /\ account.exists /\ facts.proved /\ handler[h].pc = "effect"
      /\ handler' = [handler EXCEPT ![h] = AtRest] /\ UNCHANGED <<links, setups, facts>>
  BY DEF Effect, Done, Now, FInv, HandsInv, HasInHand
<1>2. /\ account' \in Accounts /\ account'.exists /\ account'.google = account.google
      /\ account.verified => account'.verified
  <2>1. account \in [exists : {TRUE}, verified : BOOLEAN, google : BOOLEAN, mfa : Factors]
    BY <1>1, AccountIsWhole
  <2> QED BY <2>1 DEF Effect, Accounts
<1>3. account'.mfa = account.mfa
  <2>1. account \in [exists : {TRUE}, verified : BOOLEAN, google : BOOLEAN, mfa : Factors]
    BY <1>1, AccountIsWhole
  <2> QED BY <2>1 DEF Effect
<1>4. Belongs' /\ OwnedInv' /\ CodesInv'
  BY <1>1, <1>2, <1>3 DEF FInv, Belongs, OwnedInv, CodesInv
<1> QED BY <1>1, <1>2, <1>3, <1>4, NothingInHand, AccountMoves DEF FInv, FactorsTyped

(* A new account has no factor, and nothing belongs to it yet. *)
LEMMA AccountCreated ==
    ASSUME FInv, NEW h \in Handlers, NEW verified \in BOOLEAN, NEW google \in BOOLEAN,
           NEW k \in States, handler' = [handler EXCEPT ![h] = k],
           ~account.exists, account' = NewAccount(verified, google),
           UNCHANGED <<links, setups>>, google => verified,
           facts' \in Facts, facts'.created = facts.created + 1,
           facts'.batches = facts.batches, facts'.spent = facts.spent,
           facts'.wanted = facts.wanted, facts'.mixed = facts.mixed,
           facts'.good = facts.good, facts'.crossed = facts.crossed,
           facts.proved \/ verified => facts'.proved,
           ~OnItsWay(k), HasInHand(k)', handler[h].pc # "rollback"
    PROVE  FInv'
<1>1. NoFactor \in Factors /\ NoFactor.secret = 0 /\ NoFactor.codes = {} /\ NoFactor.on = FALSE
  BY DEF NoFactor, Factors
<1>2. /\ account' \in Accounts /\ account'.exists /\ account'.verified = verified
      /\ account'.google = google /\ account'.mfa = NoFactor
  BY <1>1 DEF NewAccount, Accounts
<1>3. facts.created = 0 /\ facts.wanted = 0 /\ setups \in Seq(BOOLEAN) /\ Len(setups) \in Nat
  BY <1>1 DEF FInv, Belongs, FactorsTyped
<1>4. Belongs' /\ OwnedInv'
  BY <1>2, <1>3 DEF Belongs, OwnedInv
<1>5. CodesInv'
  BY <1>1, <1>2, <1>3 DEF FInv, CodesInv
<1> QED BY <1>2, <1>3, <1>4, <1>5, AccountMoves

(* A registration or a sign-in with Google makes the account, unless another did. *)
LEMMA RegisterMakes ==
    ASSUME FInv, NEW h \in Handlers, RegisterCreates(h)
    PROVE  FInv'
<1>1. CASE account.exists
  BY <1>1, Ends DEF RegisterCreates
<1>2. CASE ~account.exists
  <2>1. /\ account' = NewAccount(FALSE, FALSE) /\ UNCHANGED <<links, setups>>
        /\ facts' = [facts EXCEPT !.created = @ + 1] /\ facts \in Facts
        /\ handler' = [handler EXCEPT ![h] = Mailing("verify")] /\ handler[h].pc = "create"
    BY <1>2 DEF RegisterCreates, Now, FInv, FactorsTyped
  <2>2. /\ facts' \in Facts /\ facts'.created = facts.created + 1
        /\ facts'.batches = facts.batches /\ facts'.spent = facts.spent
        /\ facts'.wanted = facts.wanted /\ facts'.mixed = facts.mixed
        /\ facts'.good = facts.good /\ facts'.crossed = facts.crossed
        /\ facts'.proved = facts.proved
    BY <2>1 DEF Facts
  <2>3. Mailing("verify") \in States /\ Mailing("verify").pc = "supersede"
    BY DEF Mailing, Mailers, Mails, States
  <2>4. account'.exists
    BY <2>1 DEF NewAccount
  <2>5. HasInHand(Mailing("verify"))' /\ ~OnItsWay(Mailing("verify"))
    BY <2>3, <2>4 DEF HasInHand, OnItsWay, InTheMail
  <2> QED BY <1>2, <2>1, <2>2, <2>3, <2>5, AccountCreated
<1> QED BY <1>1, <1>2

LEMMA GoogleMakes ==
    ASSUME FInv, NEW h \in Handlers, CreateFromGoogle(h)
    PROVE  FInv'
<1>1. CASE account.exists
  BY <1>1, Ends DEF CreateFromGoogle
<1>2. CASE ~account.exists
  <2>1. /\ account' = NewAccount(TRUE, TRUE) /\ UNCHANGED <<links, setups>>
        /\ facts' = [facts EXCEPT !.created = @ + 1, !.proved = TRUE] /\ facts \in Facts
        /\ handler' = [handler EXCEPT ![h] = AtRest] /\ handler[h].pc = "createGoogle"
    BY <1>2 DEF CreateFromGoogle, Done, Now, FInv, FactorsTyped
  <2>2. PICK n \in Nat : n = facts.created + 1
    BY <2>1 DEF Facts
  <2>3. facts' = [facts EXCEPT !.created = n, !.proved = TRUE]
    BY <2>1, <2>2
  <2>4. /\ facts' \in Facts /\ facts'.created = n
        /\ facts'.batches = facts.batches /\ facts'.spent = facts.spent
        /\ facts'.wanted = facts.wanted /\ facts'.mixed = facts.mixed
        /\ facts'.good = facts.good /\ facts'.crossed = facts.crossed
        /\ facts'.proved = TRUE
    BY <2>1, <2>3 DEF Facts
  <2> QED BY <1>2, <2>1, <2>2, <2>4, NothingInHand, AccountCreated
<1> QED BY <1>1, <1>2

LEMMA GoogleLinked ==
    ASSUME FInv, NEW h \in Handlers, LinkGoogle(h)
    PROVE  FInv'
<1>1. /\ account.exists /\ handler[h].pc = "link"
      /\ handler' = [handler EXCEPT ![h] = AtRest] /\ UNCHANGED <<links, setups, facts>>
  BY DEF LinkGoogle, Done, Now, FInv, HandsInv, HasInHand
<1>2. /\ account' \in Accounts /\ account'.exists /\ account'.verified = account.verified
      /\ account'.mfa = account.mfa
      /\ account'.google => account.verified \/ account.google
  <2>1. account \in [exists : {TRUE}, verified : BOOLEAN, google : BOOLEAN, mfa : Factors]
    BY <1>1, AccountIsWhole
  <2> QED BY <2>1 DEF LinkGoogle, Accounts
<1>3. Belongs' /\ OwnedInv' /\ CodesInv'
  BY <1>1, <1>2 DEF FInv, Belongs, OwnedInv, CodesInv
<1> QED BY <1>1, <1>2, <1>3, NothingInHand, AccountMoves DEF FInv, FactorsTyped

-----------------------------------------------------------------------------
(* The second factor. *)

(* A set-up that is verified is forgotten first. *)
LEMMA SetupForgotten ==
    ASSUME FInv, NEW h \in Handlers, ForgetSetup(h)
    PROVE  FInv'
<1>1. PICK s \in SettersUp : s = handler[h] /\ s.pc = "forget" /\ HasInHand(s)
  BY WhereItIs DEF ForgetSetup, FInv, FactorsTyped, HandsInv
<1> DEFINE k == [s EXCEPT !.pc = "enable"]
<1>2. k \in States /\ k.pc = "enable" /\ k.setup = s.setup
  BY DEF SettersUp, States
<1>3. /\ handler' = [handler EXCEPT ![h] = k] /\ UNCHANGED <<account, links, facts>>
      /\ setups' = [setups EXCEPT ![s.setup] = FALSE]
  BY <1>1, StepsTo DEF ForgetSetup, Now
<1> HIDE DEF k
<1>4. setups' \in Seq(BOOLEAN) /\ Len(setups') = Len(setups) /\ account.exists
      /\ DOMAIN setups' = DOMAIN setups
  BY <1>1, <1>3 DEF FInv, FactorsTyped, HasInHand
<1>5. HasInHand(k)' /\ ~OnItsWay(k)
  BY <1>1, <1>2, <1>3, <1>4 DEF HasInHand, OnItsWay, InTheMail
<1>6. Belongs' /\ OwnedInv' /\ CodesInv'
  BY <1>3, <1>4 DEF FInv, Belongs, OwnedInv, CodesInv
<1> QED BY <1>1, <1>2, <1>3, <1>4, <1>5, <1>6, AccountMoves DEF FInv, FactorsTyped

(* The factor is replaced: what others are regenerating it from is overtaken. *)
LEMMA FactorReplaced ==
    ASSUME FInv, NEW h \in Handlers, NEW factor \in Factors, Replace(h, factor),
           account.exists, handler[h].pc \in {"enable", "regenerate", "disable"},
           UNCHANGED <<links, setups>>, facts' \in Facts,
           facts'.created = facts.created, facts'.proved = facts.proved,
           facts'.good = facts.good, facts'.crossed = facts.crossed,
           Len(facts'.spent) = facts'.batches, facts'.batches <= MaxBatches,
           factor.secret \in 0 .. Len(setups), factor.codes \subseteq DOMAIN facts'.spent,
           \A code \in factor.codes : facts'.spent[code] = 0,
           ~facts'.mixed => /\ factor.secret = facts'.wanted
                            /\ factor.on <=> facts'.wanted # NoFactor.secret
    PROVE  FInv'
<1>1. /\ handler \in [Handlers -> States] /\ setups \in Seq(BOOLEAN)
      /\ handler' = [Overtake(h) EXCEPT ![h] = AtRest]
      /\ account' = [account EXCEPT !.mfa = factor]
  BY DEF Replace, FInv, FactorsTyped
<1>2. /\ account' \in Accounts /\ account'.exists /\ account'.verified = account.verified
      /\ account'.google = account.google /\ account'.mfa = factor
  <2>1. account \in [exists : {TRUE}, verified : BOOLEAN, google : BOOLEAN, mfa : Factors]
    BY AccountIsWhole
  <2> QED BY <1>1, <2>1 DEF Accounts
<1>3. handler'[h] = AtRest /\ DOMAIN handler' = Handlers
  BY <1>1 DEF Overtake
<1>4. ASSUME NEW g \in Handlers \ {h}
      PROVE  /\ handler'[g] \in States /\ handler'[g].pc = handler[g].pc
             /\ handler[g].pc # "regenerate" => handler'[g] = handler[g]
             /\ handler[g].pc = "regenerate" =>
                   handler'[g].overtaken /\ handler'[g].secret = handler[g].secret
  <2>1. handler'[g] = IF handler[g].pc = "regenerate"
                      THEN [handler[g] EXCEPT !.overtaken = TRUE] ELSE handler[g]
    BY <1>1 DEF Overtake
  <2>2. CASE handler[g].pc = "regenerate"
    <3>1. handler[g] \in Renewers
      BY <1>1, <2>2, WhereItIs
    <3>2. [handler[g] EXCEPT !.overtaken = TRUE] \in Renewers
      BY <3>1 DEF Renewers
    <3> QED BY <2>1, <2>2, <3>1, <3>2 DEF Renewers, States
  <2> QED BY <1>1, <2>1, <2>2
<1>5. handler' \in [Handlers -> States]
  <2>1. \A g \in Handlers : handler'[g] \in States
    BY <1>3, <1>4, NothingInHand
  <2>2. handler' = [g \in Handlers |-> handler'[g]]
    BY <1>1 DEF Overtake
  <2> QED BY <2>1, <2>2
<1>6. ASSUME NEW g \in Handlers, NEW s, s = handler'[g] PROVE HasInHand(s)'
  <2>1. CASE g = h
    BY <1>3, <1>6, <2>1, NothingInHand
  <2>2. CASE g # h /\ handler[g].pc # "regenerate"
    <3>1. s = handler[g] /\ HasInHand(s) /\ s.pc # "regenerate"
      BY <1>4, <1>6, <2>2 DEF FInv, HandsInv
    <3> QED BY <1>2, <3>1 DEF HasInHand
  <2>3. CASE g # h /\ handler[g].pc = "regenerate"
    <3>1. s.pc = "regenerate" /\ s.overtaken /\ s.secret \in 0 .. Len(setups)
      BY <1>4, <1>6, <2>3 DEF FInv, HandsInv, HasInHand
    <3> QED BY <1>2, <3>1 DEF HasInHand, InTheMail
  <2> QED BY <2>1, <2>2, <2>3
<1>7. HandsInv'
  BY <1>6, HandsAfter
<1>8. \A g \in Handlers : handler'[g].pc \in {"issue", "deliver", "rollback"} =>
        g # h /\ handler'[g] = handler[g]
  BY <1>3, <1>4, NothingInHand
<1>9. MailedByOne'
  BY <1>8 DEF FInv, MailedByOne, InTheMail
<1>10. KindInv'
  BY <1>8 DEF FInv, KindInv, InTransit
<1>11. LatestInv'
  <2>1. ASSUME NEW l, Awaits(l) PROVE Awaits(l)'
    <3>1. PICK g \in Handlers : handler[g].pc = "rollback" /\ handler[g].link = l
      BY <2>1 DEF Awaits
    <3>2. g # h
      BY <3>1
    <3> QED BY <1>4, <3>1, <3>2 DEF Awaits
  <2> QED BY <2>1 DEF FInv, LatestInv
<1>12. FactorsTyped' /\ Belongs' /\ LinksInv'
  BY <1>2, <1>5 DEF FInv, FactorsTyped, Belongs, LinksInv
<1>13. OwnedInv' /\ CodesInv'
  BY <1>2 DEF FInv, OwnedInv, CodesInv
<1> QED BY <1>7, <1>9, <1>10, <1>11, <1>12, <1>13 DEF FInv

(* A new batch of codes, none of which was spent. *)
LEMMA NewCodes ==
    ASSUME FInv, NEW h \in Handlers, NEW n \in Nat, NEW secret \in 0 .. Len(setups),
           n = NewBatch, n <= MaxBatches, account.exists,
           handler[h].pc \in {"enable", "regenerate"},
           Replace(h, [on |-> TRUE, secret |-> secret, codes |-> {n}]),
           UNCHANGED <<links, setups>>, facts' \in Facts,
           facts'.created = facts.created, facts'.proved = facts.proved,
           facts'.good = facts.good, facts'.crossed = facts.crossed,
           facts'.spent = Append(facts.spent, 0), facts'.batches = n,
           ~facts'.mixed => secret = facts'.wanted /\ secret # 0
    PROVE  FInv'
<1> DEFINE factor == [on |-> TRUE, secret |-> secret, codes |-> {n}]
<1>1. /\ facts.spent \in Seq({0, 1}) /\ Len(facts.spent) = facts.batches /\ facts.batches \in Nat
      /\ Len(setups) \in Nat
  BY DEF FInv, FactorsTyped, Facts, CodesInv
<1>2. /\ Len(facts'.spent) = n /\ DOMAIN facts'.spent = 1 .. n /\ n \in 1 .. n
      /\ facts'.spent[n] = 0
  BY <1>1 DEF NewBatch
<1>3. /\ factor \in Factors /\ factor.on = TRUE /\ factor.secret = secret /\ factor.codes = {n}
      /\ NoFactor.secret = 0
  BY <1>1 DEF Factors, NoFactor
<1>4. /\ factor.codes \subseteq DOMAIN facts'.spent
      /\ \A code \in factor.codes : facts'.spent[code] = 0
      /\ ~facts'.mixed => /\ factor.secret = facts'.wanted
                          /\ factor.on <=> facts'.wanted # NoFactor.secret
  BY <1>2, <1>3
<1> HIDE DEF factor
<1>5. Replace(h, factor)
  BY DEF factor
<1> QED BY <1>2, <1>3, <1>4, <1>5, FactorReplaced

LEMMA Enabled ==
    ASSUME FInv, NEW h \in Handlers, Enable(h)
    PROVE  FInv'
<1>1. PICK s \in SettersUp : s = handler[h] /\ s.pc = "enable" /\ HasInHand(s)
  BY WhereItIs DEF Enable, FInv, FactorsTyped, HandsInv
<1>2. PICK n \in Nat : n = NewBatch
  BY DEF NewBatch, FInv, FactorsTyped, Facts
<1>3. PICK spent \in Seq({0, 1}) : spent = Append(facts.spent, 0)
  <2>1. facts.spent \in Seq({0, 1}) /\ 0 \in {0, 1}
    BY DEF FInv, FactorsTyped, Facts
  <2>2. Append(facts.spent, 0) \in Seq({0, 1})
    BY <2>1
  <2> QED BY <2>2
<1>4. PICK t \in Nat : t = s.setup /\ t \in 0 .. Len(setups) /\ t # 0 /\ account.exists
  BY <1>1 DEF HasInHand, SettersUp, FInv, FactorsTyped
<1>5. facts' = [facts EXCEPT !.batches = n, !.wanted = t, !.mixed = FALSE, !.spent = spent]
  BY <1>1, <1>2, <1>3, <1>4 DEF Enable, NewBatch
<1>6. /\ facts' \in Facts /\ facts'.batches = n /\ facts'.wanted = t
      /\ facts'.mixed = FALSE /\ facts'.spent = spent
      /\ facts'.created = facts.created /\ facts'.proved = facts.proved
      /\ facts'.good = facts.good /\ facts'.crossed = facts.crossed
  <2>1. facts \in Facts
    BY DEF FInv, FactorsTyped
  <2> QED BY <1>5, <2>1 DEF Facts
<1>7. /\ Replace(h, [on |-> TRUE, secret |-> t, codes |-> {n}]) /\ n <= MaxBatches
      /\ UNCHANGED <<links, setups>>
  BY <1>1, <1>2, <1>4 DEF Enable
<1> QED BY <1>1, <1>2, <1>3, <1>4, <1>6, <1>7, NewCodes

(* Codes are regenerated from what was read: it is current, or the factor is mixed. *)
LEMMA CodesWritten ==
    ASSUME FInv, NEW h \in Handlers, WriteNewCodes(h)
    PROVE  FInv'
<1>1. PICK s \in Renewers : s = handler[h] /\ s.pc = "regenerate" /\ HasInHand(s)
  BY WhereItIs DEF WriteNewCodes, FInv, FactorsTyped, HandsInv
<1>2. PICK n \in Nat : n = NewBatch
  BY DEF NewBatch, FInv, FactorsTyped, Facts
<1>3. PICK spent \in Seq({0, 1}) : spent = Append(facts.spent, 0)
  <2>1. facts.spent \in Seq({0, 1}) /\ 0 \in {0, 1}
    BY DEF FInv, FactorsTyped, Facts
  <2>2. Append(facts.spent, 0) \in Seq({0, 1})
    BY <2>1
  <2> QED BY <2>2
<1>4. PICK b \in BOOLEAN : b = (facts.mixed \/ s.overtaken)
  BY Zenon
<1>5. facts' = [facts EXCEPT !.batches = n, !.spent = spent, !.mixed = b]
  <2>1. facts' = [facts EXCEPT !.batches = n, !.spent = spent, !.mixed = @ \/ s.overtaken]
    BY <1>1, <1>2, <1>3 DEF WriteNewCodes, NewBatch
  <2> QED BY <1>4, <2>1, Zenon
<1>6. /\ facts' \in Facts /\ facts'.batches = n /\ facts'.wanted = facts.wanted
      /\ facts'.mixed = b /\ facts'.spent = spent
      /\ facts'.created = facts.created /\ facts'.proved = facts.proved
      /\ facts'.good = facts.good /\ facts'.crossed = facts.crossed
  <2>1. facts \in Facts
    BY DEF FInv, FactorsTyped
  <2> QED BY <1>5, <2>1 DEF Facts
<1>7. /\ Replace(h, [on |-> TRUE, secret |-> s.secret, codes |-> {n}]) /\ n <= MaxBatches
      /\ UNCHANGED <<links, setups>> /\ account.exists /\ s.secret \in 0 .. Len(setups)
  BY <1>1, <1>2 DEF WriteNewCodes, HasInHand
<1>8. ~b => ~facts.mixed /\ ~s.overtaken
  BY <1>4, Zenon
<1>9. ~facts'.mixed => s.secret = facts'.wanted /\ s.secret # 0
  BY <1>1, <1>6, <1>7, <1>8 DEF HasInHand, FInv, CodesInv, NoFactor
<1> QED BY <1>1, <1>2, <1>3, <1>6, <1>7, <1>9, NewCodes

LEMMA Disabled ==
    ASSUME FInv, NEW h \in Handlers, Disable(h)
    PROVE  FInv'
<1>1. /\ handler[h].pc = "disable" /\ account.exists /\ Replace(h, NoFactor)
      /\ UNCHANGED <<links, setups>>
  BY DEF Disable, FInv, HandsInv, HasInHand
<1>2. /\ NoFactor \in Factors /\ NoFactor.secret = 0 /\ NoFactor.codes = {}
      /\ NoFactor.on = FALSE
  BY DEF NoFactor, Factors
<1>3. facts' = [facts EXCEPT !.wanted = 0, !.mixed = FALSE]
  BY <1>2 DEF Disable
<1>4. /\ facts' \in Facts /\ facts'.batches = facts.batches /\ facts'.wanted = 0
      /\ facts'.mixed = FALSE /\ facts'.spent = facts.spent
      /\ facts'.created = facts.created /\ facts'.proved = facts.proved
      /\ facts'.good = facts.good /\ facts'.crossed = facts.crossed
  <2>1. facts \in Facts
    BY DEF FInv, FactorsTyped
  <2> QED BY <1>3, <2>1 DEF Facts
<1>5. /\ Len(facts'.spent) = facts'.batches /\ facts'.batches <= MaxBatches
      /\ NoFactor.secret \in 0 .. Len(setups)
  BY <1>2, <1>4 DEF FInv, CodesInv, FactorsTyped
<1> QED BY <1>1, <1>2, <1>4, <1>5, FactorReplaced

(* A recovery code is pulled from those that are left, by one request. *)
LEMMA CodeEntered ==
    ASSUME FInv, NEW h \in Handlers, NEW code \in 1 .. MaxBatches, EnterRecoveryCode(h, code)
    PROVE  FInv'
<1>1. PICK s \in Provers : s = handler[h] /\ s.pc = "factor" /\ HasInHand(s) /\ account.exists
  <2>1. PICK s \in States : s = handler[h] /\ HasInHand(s) /\ s.pc = "factor"
    BY DEF EnterRecoveryCode, FInv, FactorsTyped, HandsInv
  <2>2. s \in Provers
    BY <2>1, WhereItIs
  <2> QED BY <2>1, <2>2 DEF HasInHand
<1>2. CASE ~IsHeld(h, code)
  BY <1>1, <1>2, Ends DEF EnterRecoveryCode
<1>3. CASE IsHeld(h, code)
  <2>1. /\ facts \in Facts /\ facts.spent \in Seq({0, 1}) /\ code \in DOMAIN facts.spent
        /\ facts.spent[code] = 0 /\ handler \in [Handlers -> States]
        /\ code \in account.mfa.codes
    BY <1>1, <1>3 DEF IsHeld, FInv, FactorsTyped, Facts, CodesInv
  <2>2. PICK spent \in Seq({0, 1}) : spent = [facts.spent EXCEPT ![code] = @ + 1]
    <3>1. [facts.spent EXCEPT ![code] = @ + 1] = [facts.spent EXCEPT ![code] = 1]
      BY <2>1
    <3>2. [facts.spent EXCEPT ![code] = 1] \in Seq({0, 1})
      BY <2>1
    <3> QED BY <3>1, <3>2
  <2>3. facts' = [facts EXCEPT !.spent = spent]
    BY <1>3, <2>2 DEF EnterRecoveryCode
  <2>4. /\ facts' \in Facts /\ facts'.spent = spent /\ facts'.batches = facts.batches
        /\ facts'.wanted = facts.wanted /\ facts'.mixed = facts.mixed
        /\ facts'.created = facts.created /\ facts'.proved = facts.proved
        /\ facts'.good = facts.good /\ facts'.crossed = facts.crossed
    BY <2>1, <2>3 DEF Facts
  <2>5. /\ account' \in Accounts /\ account'.exists /\ account'.verified = account.verified
        /\ account'.google = account.google /\ account'.mfa.on = account.mfa.on
        /\ account'.mfa.secret = account.mfa.secret
        /\ account'.mfa.codes = account.mfa.codes \ {code}
    <3>1. /\ account \in [exists : {TRUE}, verified : BOOLEAN, google : BOOLEAN, mfa : Factors]
          /\ account.mfa \in Factors
      BY <1>1, AccountIsWhole
    <3> DEFINE rest == [account.mfa EXCEPT !.codes = @ \ {code}]
    <3>2. account' = [account EXCEPT !.mfa = rest]
      BY <1>3, <3>1 DEF EnterRecoveryCode
    <3>3. /\ rest \in Factors /\ rest.on = account.mfa.on /\ rest.secret = account.mfa.secret
          /\ rest.codes = account.mfa.codes \ {code}
      BY <3>1 DEF Factors
    <3> HIDE DEF rest
    <3> QED BY <3>1, <3>2, <3>3 DEF Accounts
  <2>6. PICK k \in States : /\ handler' = [handler EXCEPT ![h] = k]
                            /\ k.pc \in {"rest", "disable"} /\ ~OnItsWay(k)
    <3>1. CASE s.disable
      <4> DEFINE r == [s EXCEPT !.pc = "disable"]
      <4>1. r \in States /\ r.pc = "disable"
        BY DEF Provers, States
      <4>2. handler' = [handler EXCEPT ![h] = r]
        BY <1>1, <1>3, <3>1, StepsTo DEF EnterRecoveryCode, Passes, Now
      <4> HIDE DEF r
      <4> QED BY <4>1, <4>2 DEF OnItsWay
    <3>2. CASE ~s.disable
      BY <1>1, <1>3, <3>2, NothingInHand DEF EnterRecoveryCode, Passes, Done, Now
    <3> QED BY <3>1, <3>2
  <2>7. HasInHand(k)'
    BY <2>5, <2>6 DEF HasInHand, InTheMail
  <2>8. UNCHANGED <<links, setups>> /\ setups \in Seq(BOOLEAN)
    BY DEF EnterRecoveryCode, FInv, FactorsTyped
  <2>9. Belongs' /\ OwnedInv'
    BY <1>1, <2>4, <2>5, <2>8 DEF FInv, Belongs, OwnedInv
  <2>10. CodesInv'
    <3>1. Len(spent) = Len(facts.spent) /\ DOMAIN spent = DOMAIN facts.spent
      BY <2>1, <2>2
    <3>2. \A c \in DOMAIN facts.spent : c # code => spent[c] = facts.spent[c]
      BY <2>1, <2>2
    <3> QED BY <1>1, <2>4, <2>5, <2>8, <3>1, <3>2 DEF FInv, CodesInv
  <2> QED BY <1>1, <2>4, <2>5, <2>6, <2>7, <2>8, <2>9, <2>10, AccountMoves
<1> QED BY <1>2, <1>3

-----------------------------------------------------------------------------
(* The specification. *)
LEMMA FInvStarts == FactorInit => FInv
<1> SUFFICES ASSUME FactorInit PROVE FInv
  OBVIOUS
<1>1. /\ NoFactor \in Factors /\ NoFactor.secret = 0 /\ NoFactor.on = FALSE /\ NoFactor.codes = {}
      /\ NoAccount.exists = FALSE
  BY DEF NoFactor, Factors, NoAccount
<1>2. account = NoAccount \/ account = NewAccount(TRUE, FALSE)
  BY DEF FactorInit
<1>3. /\ account \in Accounts
      /\ account.exists => /\ account.verified = TRUE /\ account.google = FALSE
                           /\ account.mfa = NoFactor
  <2>1. CASE account = NoAccount
    BY <1>1, <2>1 DEF Accounts
  <2>2. CASE account = NewAccount(TRUE, FALSE)
    BY <1>1, <2>2 DEF Accounts, NewAccount
  <2> QED BY <1>2, <2>1, <2>2
<1>4. PICK b \in BOOLEAN : b = account.exists
  <2>1. account.exists \in BOOLEAN
    <3>1. CASE account = NoAccount
      BY <3>1, Zenon DEF NoAccount
    <3>2. CASE account = NewAccount(TRUE, FALSE)
      <4>1. account.exists = TRUE
        BY <3>2 DEF NewAccount
      <4> QED BY <4>1, Zenon
    <3> QED BY <1>2, <3>1, <3>2
  <2> QED BY <2>1
<1>5. facts = [requests |-> 0, batches |-> 0, created |-> 0, proved |-> b,
               spent |-> <<>>, wanted |-> 0, mixed |-> FALSE, good |-> {}, crossed |-> FALSE]
  BY <1>1, <1>4 DEF FactorInit
<1>6. /\ facts \in Facts /\ facts.batches = 0 /\ facts.created = 0 /\ facts.proved = b
      /\ facts.spent = <<>> /\ facts.wanted = 0 /\ facts.mixed = FALSE /\ facts.good = {}
  <2>1. <<>> \in Seq({0, 1}) /\ {} \in SUBSET Nat
    OBVIOUS
  <2> QED BY <1>5, <2>1 DEF Facts
<1>7. /\ links = <<>> /\ setups = <<>> /\ MaxLinks \in Nat /\ MaxSetups \in Nat
      /\ MaxBatches \in Nat /\ handler = [h \in Handlers |-> AtRest]
  BY FactorAssumption DEF FactorInit
<1>8. \A h \in Handlers : handler[h] = AtRest
  BY <1>7
<1>9. FactorsTyped
  BY <1>3, <1>6, <1>7, NothingInHand DEF FactorsTyped
<1>10. Belongs /\ LinksInv /\ LatestInv
  BY <1>1, <1>6, <1>7 DEF Belongs, LinksInv, LatestInv
<1>11. KindInv
  BY <1>6, <1>8, NothingInHand DEF KindInv, InTransit
<1>12. OwnedInv
  BY <1>3, <1>4, <1>6 DEF OwnedInv
<1>13. CodesInv
  BY <1>1, <1>3, <1>6, <1>7 DEF CodesInv
<1>14. HandsInv /\ MailedByOne
  BY <1>8, NothingInHand DEF HandsInv, MailedByOne
<1> QED BY <1>9, <1>10, <1>11, <1>12, <1>13, <1>14 DEF FInv

LEMMA FInvStays == FInv /\ FactorNext => FInv'
<1> SUFFICES ASSUME FInv, FactorStep PROVE FInv'
  BY DEF FactorNext
<1>1. ASSUME NEW h \in Handlers,
             \/ \E kind \in {"verify", "reset", "magic"} : AskForLink(h, kind)
             \/ Register(h) \/ ReturnFromGoogle(h) \/ Regenerate(h)
             \/ \E s \in DOMAIN setups : VerifySetup(h, s)
             \/ \E disable \in BOOLEAN : Challenge(h, disable)
      PROVE  FInv'
  BY <1>1, RequestsReceived
<1>2. ASSUME NEW h \in Handlers,
             RegisterLooksUp(h) \/ FindBySubject(h) \/ FindByEmail(h) \/ EnterTotp(h)
      PROVE  FInv'
  BY <1>2, LooksUp
<1>3. ASSUME NEW h \in Handlers,
             \/ Supersede(h) \/ Issue(h)
             \/ \E out, accepted \in BOOLEAN : DeliverMail(h, out, accepted)
             \/ \E works \in BOOLEAN : Rollback(h, works)
             \/ \E l \in DOMAIN links : Follow(h, l)
      PROVE  FInv'
  BY <1>3, Superseded, LinkIssued, Delivered, RolledBack, Followed
<1>4. ASSUME NEW h \in Handlers,
             \/ Effect(h) \/ RegisterCreates(h) \/ CreateFromGoogle(h) \/ LinkGoogle(h)
             \/ Breaks(h)
      PROVE  FInv'
  BY <1>4, TakesEffect, RegisterMakes, GoogleMakes, GoogleLinked, BreaksOff
<1>5. ASSUME NEW h \in Handlers,
             \/ CreateSetup(h) \/ ForgetSetup(h) \/ Enable(h) \/ WriteNewCodes(h) \/ Disable(h)
             \/ \E code \in 1 .. MaxBatches : EnterRecoveryCode(h, code)
      PROVE  FInv'
  BY <1>5, SetupCreated, SetupForgotten, Enabled, CodesWritten, Disabled, CodeEntered
<1>6. ASSUME \/ \E l \in DOMAIN links : LinkExpires(l)
             \/ \E s \in DOMAIN setups : SetupExpires(s)
      PROVE  FInv'
  BY <1>6, LinkExpired, SetupExpired
<1> QED BY <1>1, <1>2, <1>3, <1>4, <1>5, <1>6 DEF FactorStep

LEMMA LinkIsTyped ==
    ASSUME FInv
    PROVE  \A l \in DOMAIN links : /\ links[l].kind \in {"verify", "reset", "magic"}
                                  /\ links[l].works \in {0, 1}
<1>1. links \in Seq(Links)
  BY DEF FInv, FactorsTyped
<1>2. \A l \in DOMAIN links : links[l] \in Links
  BY <1>1
<1> QED BY <1>2 DEF Links, Mails

LEMMA FInvSuffices == FInv => FactorsHold
<1> SUFFICES ASSUME FInv PROVE FactorsHold
  OBVIOUS
<1>1. FactorTypeOK
  <2>1. \A l \in DOMAIN links : links[l].kind \in {"verify", "reset", "magic"}
    BY LinkIsTyped
  <2>2. DOMAIN facts.spent = 1 .. facts.batches /\ facts.batches \in Nat
        /\ facts.batches <= MaxBatches /\ MaxBatches \in Nat
    BY FactorAssumption DEF FInv, FactorsTyped, Facts, CodesInv
  <2>3. DOMAIN facts.spent \subseteq 1 .. MaxBatches
    BY <2>2
  <2> QED BY <2>1, <2>3 DEF FactorTypeOK, FInv, FactorsTyped, LinksInv, CodesInv
<1>2. LinksAreLatest
  <2>1. \A l \in DOMAIN links : links[l].works <= 1
    BY LinkIsTyped
  <2> QED BY <2>1 DEF LinksAreLatest, FInv, LatestInv, Awaits, KindInv
<1>3. AccountsAreOwned
  BY DEF AccountsAreOwned, FInv, OwnedInv
<1>4. CodesAreSpent
  <2>1. facts.spent \in Seq({0, 1})
    BY DEF FInv, FactorsTyped, Facts
  <2>2. \A code \in DOMAIN facts.spent : facts.spent[code] <= 1 /\ account.exists
    BY <2>1 DEF FInv, CodesInv, Belongs
  <2> QED BY <2>2 DEF CodesAreSpent, FInv, CodesInv
<1> QED BY <1>1, <1>2, <1>3, <1>4 DEF FactorsHold

(* What the requests have in hand belongs to the one account of the address, at every
   step of any number of them (sendMagicLink, registerUser, linkGoogleAccount, verifySetup,
   regenerateRecoveryCodes). *)
THEOREM FactorInvariant == FactorSpec => []FInv
<1>1. FInv /\ UNCHANGED factorVars => FInv'
  BY DEF FInv, FactorsTyped, Belongs, LinksInv, LatestInv, Awaits, KindInv, InTransit, OwnedInv,
         CodesInv, HandsInv, HasInHand, InTheMail, MailedByOne, factorVars, factorState
<1> QED BY <1>1, FInvStarts, FInvStays, PTL DEF FactorSpec

(* Of each kind one link works, the one in the last mail, and it works once; an address
   has one account, verified only by its owner; a recovery code is accepted once and the
   factor is the one last set up (issueTokenAndDeliver, createUser, consumeMfaRecoveryCode). *)
THEOREM FactorsAreSound == FactorSpec => []FactorsHold
BY FactorInvariant, FInvSuffices, PTL
=============================================================================
