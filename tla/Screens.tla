------------------------------ MODULE Screens ------------------------------
(***************************************************************************)
(* The pages of the browser that show something the server keeps and let   *)
(* the user act on it.  Each guards in its own way against answers that    *)
(* come late: by the number of the request, by aborting it, by the         *)
(* generation of the account, or not at all.                               *)
(*                                                                         *)
(* What the server knows is a set of facts: orders decided, deposits       *)
(* resolved, devices signed out, matches opened.  An answer carries the    *)
(* facts that were true when it was given.  A page that is left forgets    *)
(* all this, so a behaviour stays on one page.                             *)
(***************************************************************************)
EXTENDS Naturals, FiniteSets

CONSTANTS
    Pages,      \* the pages looked at
    Facts,
    Requests,   \* those a page may have under way at a time
    MaxLoads, MaxActs

VARIABLES
    page,     \* which of the pages this is
    server,   \* the facts that are true
    view,     \* what the page holds
    asked,    \* what each request is doing
    told,     \* the facts this page has been told of
    crossed   \* 0, or the number of loads sent when the page took an answer
              \* without the check that would show it to be outdated

screenVars == <<page, server, view, asked, told, crossed>>

(* The filter of a list, or whose profile the address names: "first" is the
   list of what is still open, and the user's own profile. *)
Tabs == {"first", "second"}
NoList == [tab |-> "none", knows |-> {}]
Idle == [at |-> "idle"]

ScreensInit ==
    /\ page \in Pages
    /\ server = {}
    /\ view = [tab |-> "first", list |-> NoList, loading |-> TRUE, failed |-> FALSE,
               loads |-> 0, acts |-> 0, account |-> 0, busy |-> 0,
               online |-> TRUE, notices |-> {}]
    /\ asked = [r \in Requests |-> Idle]
    /\ told = {}
    /\ crossed = 0

Waiting  == {r \in Requests : asked[r].at \in {"sent", "served", "failed"}}
Acts     == {r \in Waiting : asked[r].kind = "act"}
Loads    == Waiting \ Acts
Polls    == {r \in Loads : asked[r].kind = "poll"}

(***************************************************************************)
(* Asking.  A request remembers what its handler closes over: the page as  *)
(* it was.  It is mixed when an act overlaps with it.                      *)
(***************************************************************************)
Ask(r, kind, f, v, dropped) ==
    /\ asked[r] = Idle \/ asked[r].at \in {"served", "then"}
    /\ view' = v
    /\ asked' = [q \in Requests |->
          CASE q = r -> [at |-> "sent", kind |-> kind, fact |-> f, tab |-> v.tab,
                         number |-> v.loads, account |-> v.account, list |-> v.list,
                         knows |-> {}, mixed |-> Acts \ {r} # {}]
            [] q \in dropped \ {r} -> [at |-> "aborted"]
            [] q \in Waiting \ (dropped \cup {r}) ->
                   [asked[q] EXCEPT !.mixed = @ \/ kind = "act"]
            [] OTHER -> asked[q]]

Load(r, kind, v, dropped) ==
    /\ view.loads < MaxLoads
    /\ Ask(r, kind, 0, [v EXCEPT !.loads = @ + 1, !.loading = TRUE], dropped)

Opening == view.loads = 0
Fresh   == UNCHANGED <<page, server, told, crossed>>

(* The lists of deposits and orders load again whenever the filter changes, and
   as often as a replay window is run. *)
DepositsLoad(r) == /\ page = "deposits" /\ asked[r] = Idle
                   /\ \E t \in IF Opening THEN {"first"} ELSE Tabs :
                          Load(r, "load", [view EXCEPT !.tab = t], {})
                   /\ Fresh
OrdersLoad(r)   == /\ page = "orders" /\ asked[r] = Idle
                   /\ \E t \in IF Opening THEN {"first"} ELSE Tabs :
                          Load(r, "load", [view EXCEPT !.tab = t], {})
                   /\ Fresh
(* The trades of a player can be asked for again after a failure. *)
TradesLoad(r)   == /\ page = "trades" /\ asked[r] = Idle
                   /\ Opening \/ view.failed
                   /\ Load(r, "load", view, Loads)
                   /\ Fresh
DevicesLoad(r)  == /\ page = "devices" /\ asked[r] = Idle
                   /\ Opening
                   /\ Load(r, "load", view, {})
                   /\ Fresh
AccountLoad(r)  == /\ page = "account" /\ asked[r] = Idle
                   /\ Load(r, "load", view, {})
                   /\ Fresh
(* Another address empties the page and aborts what was asked for the last one. *)
ProfileLoad(r)  == /\ page = "profile" /\ asked[r] = Idle
                   /\ \E t \in IF Opening THEN {"first"} ELSE Tabs \ {view.tab} :
                          Load(r, "load", [view EXCEPT !.tab = t, !.list = NoList,
                                                       !.failed = FALSE], Loads)
                   /\ Fresh
LobbyLoad(r)    == /\ page = "lobby" /\ asked[r] = Idle
                   /\ Opening
                   /\ Load(r, "load", view, {})
                   /\ Fresh
(* The socket announces each public match that changes. *)
LobbyHears(r) ==
    /\ view.notices # {} /\ asked[r] = Idle
    /\ Load(r, "load", [view EXCEPT !.notices = {}], {})
    /\ told' = told \cup view.notices
    /\ UNCHANGED <<page, server, crossed>>
LobbyDrops ==
    /\ page = "lobby" /\ view.online
    /\ view' = [view EXCEPT !.online = FALSE]
    /\ UNCHANGED <<asked, page, server, told, crossed>>
(* A connection that comes back brings what was announced meanwhile or asks for
   the list. *)
LobbyRejoins(r) ==
    /\ ~view.online
    /\ \/ /\ \E missed \in SUBSET (server \ told) :
                view' = [view EXCEPT !.online = TRUE, !.notices = @ \cup missed]
          /\ UNCHANGED <<asked, told>>
       \/ /\ asked[r] = Idle
          /\ Load(r, "load", [view EXCEPT !.online = TRUE, !.notices = {}], {})
          /\ told' = server
    /\ UNCHANGED <<page, server, crossed>>

(* The overview of the merchant has one request at a time.  A poll joins any
   other; a refresh joins any but a poll, which it aborts. *)
OverviewOpens(r) ==
    /\ page = "overview" /\ Opening
    /\ Load(r, "initial", view, {})
    /\ Fresh
OverviewPolls(r) ==
    /\ page = "overview" /\ ~Opening /\ asked[r] = Idle
    /\ Loads = {}
    /\ Load(r, "poll", view, {})
    /\ Fresh
Refresh(r) ==
    IF Loads \ Polls # {}
    THEN /\ view' = [view EXCEPT !.loading = TRUE]
         /\ asked' = [asked EXCEPT ![r] = Idle]
         /\ crossed' = view.loads
    ELSE /\ Load(r, "manual", view, Polls)
         /\ UNCHANGED crossed
OverviewRefreshes(r) ==
    /\ page = "overview" /\ ~Opening /\ asked[r] = Idle
    /\ Refresh(r)
    /\ UNCHANGED <<page, server, told>>
Aborted(r) ==
    /\ asked[r].at = "aborted"
    /\ asked' = [asked EXCEPT ![r] = Idle]
    /\ view' = IF page = "overview" THEN [view EXCEPT !.loading = FALSE] ELSE view
    /\ Fresh

(***************************************************************************)
(* Acting on a row: a button is dead while it works, as far as the page    *)
(* remembers which one does.                                               *)
(***************************************************************************)
CanClick(f) ==
    CASE page \in {"deposits", "devices"} -> view.list.tab = "first" /\ view.busy # f
      [] page = "orders"  -> \A r \in Acts : asked[r].fact # f
      [] page = "profile" -> view.tab = "first" /\ view.list.tab = "first" /\ Acts = {}
      [] OTHER -> TRUE

Act(r, f) ==
    /\ page # "lobby" /\ ~Opening /\ asked[r] = Idle
    /\ view.acts < MaxActs
    /\ f \notin view.list.knows /\ CanClick(f)
    /\ Ask(r, "act", f, [view EXCEPT !.acts = @ + 1, !.busy = f], {})
    /\ Fresh

(***************************************************************************)
(* The server.                                                             *)
(***************************************************************************)
Serves(r) ==
    /\ asked[r].at = "sent"
    /\ server' = IF asked[r].kind = "act" THEN server \cup {asked[r].fact} ELSE server
    /\ asked' = [asked EXCEPT ![r].at = "served", ![r].knows = server']
    /\ UNCHANGED <<page, view, told, crossed>>

(* The list of matches may be an older one: the server's, which it keeps for
   seconds and drops only after a change was announced or while it is loaded
   anew, or the browser's own. *)
LobbyFromCache(r) ==
    /\ page = "lobby" /\ asked[r].at = "sent"
    /\ \E old \in SUBSET server \ {server} :
          asked' = [asked EXCEPT ![r].at = "served", ![r].knows = old, ![r].mixed = TRUE]
    /\ UNCHANGED <<page, server, view, told, crossed>>

Fails(r) ==
    /\ asked[r].at \in {"sent", "served"}
    /\ asked' = [asked EXCEPT ![r].at = "failed"]
    /\ UNCHANGED <<page, server, view, told, crossed>>

(* A match is announced to the sockets there are, if the process lives to. *)
Happens(f) ==
    /\ f \notin server
    /\ server' = server \cup {f}
    /\ \/ UNCHANGED view
       \/ /\ page = "lobby" /\ view.online
          /\ view' = [view EXCEPT !.notices = @ \cup {f}]
    /\ UNCHANGED <<page, asked, told, crossed>>

(***************************************************************************)
(* Taking an answer.                                                       *)
(***************************************************************************)
Latest(r)       == asked[r].number = view.loads
SameQuery(r)    == Latest(r) /\ asked[r].tab = view.tab
SameAccount(r)  == Latest(r) /\ asked[r].account = view.account

CurrentAlways(r) == TRUE
Current(r) ==
    CASE page \in {"deposits", "orders"} -> SameQuery(r)
      [] page = "lobby"   -> Latest(r)
      [] page = "account" -> SameAccount(r)
      [] OTHER -> TRUE

Taken(r) == asked' = [asked EXCEPT ![r] = Idle]

LoadAnswered(r) ==
    /\ r \in Loads /\ asked[r].at = "served"
    /\ Taken(r)
    /\ IF Current(r)
       THEN /\ view' = [view EXCEPT !.list = [tab |-> asked[r].tab, knows |-> asked[r].knows],
                                    !.loading = FALSE, !.failed = FALSE]
            /\ crossed' = IF page \in {"devices", "lobby"} /\ asked[r].mixed THEN view.loads
                            ELSE IF asked[r].number > crossed THEN 0
                            ELSE crossed
       ELSE UNCHANGED <<view, crossed>>
    /\ UNCHANGED <<page, server, told>>

(* What a page is left with when its load fails. *)
AfterFailure(v) ==
    CASE page = "trades"  -> [v EXCEPT !.list = [NoList EXCEPT !.tab = v.tab]]
      [] page = "profile" -> [v EXCEPT !.list = NoList]
      [] OTHER -> v

LoadFailed(r) ==
    /\ r \in Loads /\ asked[r].at = "failed"
    /\ Taken(r)
    /\ IF \/ page \in {"deposits", "orders", "lobby"} /\ ~Latest(r)
          \/ page = "account" /\ ~SameAccount(r)
       THEN UNCHANGED view
       ELSE view' = [AfterFailure(view) EXCEPT !.loading = FALSE, !.failed = TRUE]
    /\ Fresh

(* A failure while the page is hidden passes for its unloading, and the list
   for still being loaded. *)
HiddenFailure(r) ==
    /\ page \in {"deposits", "orders"} /\ r \in Loads /\ asked[r].at = "failed"
    /\ Taken(r)
    /\ crossed' = IF Latest(r) THEN view.loads ELSE crossed
    /\ UNCHANGED <<page, server, view, told>>

(* An account that turns out to be signed out is cleared. *)
AccountCleared(r) ==
    /\ page = "account" /\ r \in Loads /\ asked[r].at = "failed" /\ SameAccount(r)
    /\ Taken(r)
    /\ view' = [view EXCEPT !.list = NoList, !.account = @ + 1, !.loading = FALSE,
                            !.failed = TRUE]
    /\ Fresh

ActFailed(r) ==
    /\ r \in Acts /\ asked[r].at = "failed"
    /\ Taken(r)
    /\ view' = [view EXCEPT !.busy = 0]
    /\ Fresh

Hears(r)   == /\ r \in Acts /\ asked[r].at = "served"
              /\ told' = told \cup {asked[r].fact}
              /\ UNCHANGED <<page, server>>
Done       == [view EXCEPT !.busy = 0]
With(l)    == [Done EXCEPT !.list = l, !.loading = FALSE]
Crosses(c) == crossed' = IF c THEN view.loads ELSE crossed

(* The list that was there at the click, without the row; the filter that was
   there decides whether it is also loaded again, after the overview. *)
DepositResolved(r) ==
    /\ page = "deposits" /\ Hears(r)
    /\ view' = With([asked[r].list EXCEPT !.knows = @ \cup {asked[r].fact}])
    /\ asked' = [asked EXCEPT ![r] = IF asked[r].tab = "second" THEN [at |-> "then"] ELSE Idle]
    /\ Crosses(~Latest(r) \/ view.list # asked[r].list \/ Loads # {})
DepositsAgain(r) ==
    /\ asked[r].at = "then"
    /\ Load(r, "load", view, {})
    /\ Fresh
OrderDecided(r) ==
    /\ page = "orders" /\ Hears(r)
    /\ Load(r, "load", Done, {})
    /\ UNCHANGED crossed
(* The row is replaced in whatever list is there. *)
TradeDecided(r) ==
    /\ page = "trades" /\ Hears(r)
    /\ view' = [Done EXCEPT !.list.knows = @ \cup {asked[r].fact}]
    /\ Taken(r)
    /\ Crosses(Loads # {})
DeviceSignedOut(r) ==
    /\ page = "devices" /\ Hears(r)
    /\ view' = With([tab |-> "first", knows |-> asked[r].knows])
    /\ Taken(r)
    /\ crossed' = IF asked[r].mixed THEN view.loads ELSE 0
AccountChanged(r) ==
    /\ page = "account" /\ Hears(r)
    /\ view' = [With([tab |-> "first", knows |-> asked[r].knows]) EXCEPT !.account = @ + 1]
    /\ Taken(r)
    /\ crossed' = IF asked[r].mixed THEN view.loads ELSE crossed
AvatarSaved(r) ==
    /\ page = "profile" /\ Hears(r)
    /\ view' = [Done EXCEPT !.list = [tab |-> "first", knows |-> asked[r].knows]]
    /\ Taken(r)
    /\ Crosses(~Latest(r))
DeskChanged(r) ==
    /\ page = "overview" /\ Hears(r)
    /\ Refresh(r)

ScreensNext ==
    \/ \E r \in Requests :
          \/ DepositsLoad(r) \/ OrdersLoad(r) \/ TradesLoad(r) \/ DevicesLoad(r)
          \/ AccountLoad(r) \/ ProfileLoad(r)
          \/ LobbyLoad(r) \/ LobbyHears(r) \/ LobbyRejoins(r)
          \/ OverviewOpens(r) \/ OverviewPolls(r) \/ OverviewRefreshes(r) \/ Aborted(r)
          \/ \E f \in Facts : Act(r, f)
          \/ Serves(r) \/ LobbyFromCache(r) \/ Fails(r)
          \/ LoadAnswered(r) \/ LoadFailed(r) \/ HiddenFailure(r) \/ AccountCleared(r)
          \/ ActFailed(r)
          \/ DepositResolved(r) \/ DepositsAgain(r) \/ OrderDecided(r) \/ TradeDecided(r)
          \/ DeviceSignedOut(r) \/ AccountChanged(r) \/ AvatarSaved(r) \/ DeskChanged(r)
    \/ LobbyDrops
    \/ \E f \in Facts : Happens(f)

ScreensSpec == ScreensInit /\ [][ScreensNext]_screenVars

-----------------------------------------------------------------------------
(* When nothing is under way and the last load went well, a page is no      *)
(* longer loading, shows the list its filter or address names, and shows    *)
(* everything it has been told: every act that was answered, every match    *)
(* that was announced.  The exceptions are the answers a page takes without *)
(* a check while another request overlaps, an older list of matches kept by *)
(* the server or the browser, and a failure that passes for an unloading.   *)
ScreenIsCurrent ==
    Waiting = {} /\ (\A r \in Requests : asked[r] = Idle) /\ view.notices = {}
        /\ ~Opening /\ ~view.failed /\ crossed = 0
    => /\ ~view.loading
       /\ view.list.tab = view.tab
       /\ told \subseteq view.list.knows
=============================================================================
