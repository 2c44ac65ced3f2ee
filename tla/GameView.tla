------------------------------ MODULE GameView ------------------------------
(***************************************************************************)
(* The page of a match and the socket that feeds it.  The server works on  *)
(* a room under its lock and tells the room's members afterwards, if the   *)
(* handler gets that far; the page may move to another match, lose its     *)
(* connection, and hear of the end of the match from the answer to its own *)
(* resignation first.                                                      *)
(*                                                                         *)
(* The state of a match is the number of changes it has seen; Over is the  *)
(* state of one that has been decided.                                     *)
(***************************************************************************)
EXTENDS Naturals, Sequences, FiniteSets

CONSTANTS
    Rooms,      \* the matches the page may be at
    Own,        \* those the user already plays in
    Over,       \* a match is decided by its Over-th change at the latest
    MaxTelling, \* changes the members are not told of yet when another is made
    MaxVisits,  \* times the page moves to a match or misses an answer
    MaxLinks    \* connections the sockets make

VARIABLES
    table,    \* the state of each match
    players,  \* the matches the user takes part in
    telling,  \* what the server's handlers are about to tell the members
    told,     \* the state of each match that its members were told last
    url,      \* the match the page is at
    preview,  \* the match last previewed, and whether its room may be entered
    link,     \* the socket: whose room it joins, and what it carries
    snap,     \* the room last received, and for which match
    calls,    \* the page's requests under way
    strayed,  \* an answer for another match was taken for this one's
    visits, links

Server   == <<table, players, telling, told>>
Browser  == <<url, preview, link, snap, strayed>>
viewVars == <<Server, Browser, calls, visits, links>>

NoPlace     == "none"
NoLink      == [to |-> NoPlace, up |-> FALSE, asks |-> FALSE, member |-> FALSE,
                inbox |-> <<>>]
LinkTo(m)   == [NoLink EXCEPT !.to = m]
Snap(m, s)  == [of |-> m, state |-> s]
Blank       == [of |-> NoPlace, loading |-> TRUE, ready |-> FALSE]

ViewInit ==
    /\ table = [m \in Rooms |-> 0] /\ players = Own
    /\ telling = {} /\ told = [m \in Rooms |-> 0]
    /\ url = NoPlace /\ preview = Blank /\ link = NoLink /\ snap = Snap(NoPlace, 0)
    /\ calls = {} /\ strayed = FALSE /\ visits = 0 /\ links = 0

(***************************************************************************)
(* The server: moves and decisions of others, the page's calls, and what   *)
(* the handlers tell once they have left the room's lock.                  *)
(***************************************************************************)
Tell(m, s, joins) == [of |-> m, state |-> s, joins |-> joins]
Unjoined == {t \in telling : ~t.joins}    \* without a socket's own, once it is gone

Changes(m) ==
    /\ table[m] < Over /\ Cardinality(Unjoined) < MaxTelling
    /\ \E s \in {table[m] + 1, Over} :
          /\ table' = [table EXCEPT ![m] = s]
          /\ telling' = telling \cup {Tell(m, s, FALSE)}
    /\ UNCHANGED <<players, told, Browser, calls, visits, links>>

(* A preview changes nothing; joining needs an open match; resigning one   *)
(* that is decided answers how it was.                                     *)
Serves(c) ==
    /\ c.at = "sent"
    /\ LET m   == c.of
           yes == CASE c.kind = "preview" -> m \in players
                    [] c.kind = "join"    -> m \notin players /\ table[m] = 0
                    [] c.kind = "resign"  -> m \in players
           s   == IF c.kind = "join" THEN 1 ELSE Over
       IN /\ calls' = (calls \ {c}) \cup {[c EXCEPT !.at = "served", !.yes = yes,
                                                    !.open = (table[m] = 0)]}
          /\ IF yes /\ c.kind # "preview"
             THEN /\ table' = [table EXCEPT ![m] = s]
                  /\ telling' = telling \cup {Tell(m, s, FALSE)}
                  /\ players' = players \cup {m}
             ELSE UNCHANGED <<table, telling, players>>
    /\ UNCHANGED <<told, Browser, visits, links>>

(* The room a player's socket asked to join, once for each connection, read *)
(* under the lock.  The socket becomes a member only later, when the room   *)
(* is told.                                                                 *)
JoinsRoom ==
    /\ link.up /\ link.asks /\ link.to \in players
    /\ telling' = telling \cup {Tell(link.to, table[link.to], TRUE)}
    /\ link' = [link EXCEPT !.asks = FALSE]
    /\ UNCHANGED <<table, players, told, url, preview, snap, strayed, calls, visits, links>>

(* Everyone in the room is told the state read back then.                  *)
Emits(t) ==
    /\ telling' = telling \ {t}
    /\ told' = [told EXCEPT ![t.of] = t.state]
    /\ LET isIn == link.to = t.of /\ (t.joins \/ link.member)
       IN link' = IF isIn
                  THEN [link EXCEPT !.member = TRUE, !.inbox = Append(@, t.state)]
                  ELSE link
    /\ UNCHANGED <<table, players, url, preview, snap, strayed, calls, visits, links>>

(* Nobody is told: the room cannot be stored or read again after the change *)
(* is in the database, the process dies before it tells, or the request was *)
(* made again and its answer is a replay, which tells nothing.              *)
Loses(t) ==
    /\ telling' = telling \ {t}
    /\ UNCHANGED <<table, players, told, Browser, calls, visits, links>>

(***************************************************************************)
(* The page.  A socket is made for one match and closed when the page goes *)
(* to another or the match may not be entered.                             *)
(***************************************************************************)
LinkFor(ready, m) ==
    IF ~ready THEN NoLink ELSE IF link.to = m THEN link ELSE LinkTo(m)
TellingFor(l) == IF l.to = link.to THEN telling ELSE Unjoined

Request(kind, m) ==
    [kind |-> kind, of |-> m, at |-> "sent", yes |-> FALSE, open |-> FALSE,
     awaited |-> TRUE]

(* Asking for a preview leaves what the last one allowed in force.         *)
Visit(m) ==
    /\ m # url /\ visits < MaxVisits
    /\ visits' = visits + 1
    /\ url' = m
    /\ preview' = [preview EXCEPT !.loading = TRUE]
    /\ link' = LinkFor(preview.ready, m)
    /\ telling' = TellingFor(link')
    /\ calls' = {c \in calls : c.kind # "preview"} \cup {Request("preview", m)}
    /\ UNCHANGED <<table, players, told, snap, strayed, links>>

(* The page is left: what it had asked for may still be served.            *)
Leave ==
    /\ url' = NoPlace /\ preview' = Blank /\ link' = NoLink /\ snap' = Snap(NoPlace, 0)
    /\ telling' = Unjoined /\ strayed' = FALSE
    /\ calls' = {[c EXCEPT !.awaited = FALSE] :
                    c \in {d \in calls : d.kind # "preview" /\ d.at = "sent"}}
    /\ UNCHANGED <<table, players, told, visits, links>>

Enter(m, ready) ==
    /\ preview' = [of |-> m, loading |-> FALSE, ready |-> ready]
    /\ link' = LinkFor(ready, url)
    /\ telling' = TellingFor(link')
    /\ strayed' = (m # url)

Answers(c) ==
    /\ c.at = "served"
    /\ calls' = calls \ {c}
    /\ UNCHANGED <<table, players, told, url, visits, links>>

(* A match that is neither one's own nor open sends the page away.         *)
Previewed(c) ==
    /\ c.kind = "preview" /\ (c.yes \/ c.open)
    /\ Answers(c) /\ Enter(c.of, c.yes) /\ UNCHANGED snap
Dismissed(c) == c.kind = "preview" /\ c.at = "served" /\ ~c.yes /\ ~c.open /\ Leave

(* The answers to joining and resigning are taken wherever the page is.    *)
Joined(c) == c.kind = "join" /\ c.yes /\ c.awaited /\ Answers(c)
             /\ Enter(c.of, TRUE) /\ UNCHANGED snap

Settled(m)       == IF snap.of = m THEN Snap(m, Over) ELSE snap
Resigned(c) == c.kind = "resign" /\ c.yes /\ c.awaited /\ Answers(c)
               /\ Enter(c.of, TRUE) /\ snap' = Settled(c.of)

Refused(c) == /\ c.kind # "preview" /\ ~(c.yes /\ c.awaited) /\ Answers(c)
              /\ UNCHANGED <<telling, preview, link, snap, strayed>>

(* An answer that gets lost leaves the page as it is.                      *)
Unheard(c) ==
    /\ c.kind # "preview" /\ c.at = "served" /\ c.yes /\ c.awaited
    /\ visits < MaxVisits /\ visits' = visits + 1
    /\ calls' = calls \ {c}
    /\ UNCHANGED <<Server, Browser, links>>

Shown == IF preview.ready /\ snap.of = url THEN snap.state ELSE 0 - 1

Click(kind) ==
    /\ url # NoPlace /\ ~preview.loading
    /\ IF kind = "join" THEN preview.of = url /\ ~preview.ready ELSE Shown \in 0..(Over - 1)
    /\ ~\E c \in calls : c.kind = kind
    /\ calls' = calls \cup {Request(kind, url)}
    /\ UNCHANGED <<Server, Browser, visits, links>>

(***************************************************************************)
(* The socket.  A connection that comes back is given its room and what it *)
(* missed (connectionStateRecovery), or is a new one: what was under way   *)
(* to the lost one is lost with it, and so is its room.  Either asks to    *)
(* join the room.                                                          *)
(***************************************************************************)
Connects ==
    /\ link.to # NoPlace /\ ~link.up /\ links < MaxLinks
    /\ links' = links + 1
    /\ \E l \in {link, LinkTo(link.to)} : link' = [l EXCEPT !.up = TRUE, !.asks = TRUE]
    /\ UNCHANGED <<Server, url, preview, snap, strayed, calls, visits>>

Drops ==
    /\ link.up
    /\ link' = [link EXCEPT !.up = FALSE, !.asks = FALSE]
    /\ telling' = Unjoined
    /\ UNCHANGED <<table, players, told, url, preview, snap, strayed, calls, visits, links>>

Hears ==
    /\ link.up /\ link.inbox # <<>>
    /\ snap' = Snap(link.to, Head(link.inbox))
    /\ link' = [link EXCEPT !.inbox = Tail(@)]
    /\ UNCHANGED <<Server, url, preview, strayed, calls, visits, links>>

ViewNext ==
    \/ \E m \in Rooms : Changes(m) \/ Visit(m)
    \/ \E c \in calls : Serves(c) \/ Previewed(c) \/ Dismissed(c) \/ Joined(c)
                        \/ Resigned(c) \/ Refused(c) \/ Unheard(c)
    \/ \E t \in telling : Emits(t) \/ Loses(t)
    \/ \E kind \in {"join", "resign"} : Click(kind)
    \/ JoinsRoom \/ Connects \/ Drops \/ Hears
    \/ url # NoPlace /\ Leave

ViewSpec == ViewInit /\ [][ViewNext]_viewVars

-----------------------------------------------------------------------------
Quiet == /\ telling = {} /\ calls = {} /\ link.inbox = <<>>
         /\ url # NoPlace /\ ~preview.loading

(* useGameRoom.ts, GamePage.tsx, game.socket.ts: once everything asked and *)
(* told has arrived, a page in its match's room shows the match as it is,  *)
(* and previews the match it is at.  Excused are a match whose members     *)
(* were not told its newest state last, because nobody told it or because  *)
(* an older one came after it (what is read for someone who joins is sent  *)
(* to all after the lock was left); and an answer for another match that   *)
(* was taken for this one's.                                               *)
GameViewIsCurrent ==
    Quiet => /\ link.up /\ link.member /\ told[url] = table[url] => Shown = table[url]
             /\ preview.of = url \/ strayed
=============================================================================
