---------------------------- MODULE DepositFlow ----------------------------
(***************************************************************************)
(* The deposit panel: the amount, the memo to pay with, the payment in the *)
(* user's wallet, and the polling of what became of it, each with answers  *)
(* that may come after the user has gone back to change the amount.  The   *)
(* ingestion of deposits is reduced to crediting a memo paid in time.      *)
(***************************************************************************)
EXTENDS Naturals, FiniteSets

CONSTANTS MaxMemos,   \* memos generated
          MaxPolls    \* polls of the status under way

Memos == 1..MaxMemos
NoMemo == 0

VARIABLES
    made,      \* memos generated so far
    paid,      \* memos a transfer of the user carries, made in time
    paidLate,  \* memos paid only after they had expired
    twice,     \* memos two transfers carry
    credited, lapsed,
    panel,     \* depositFlowReducer: step, memo to pay, requests awaited
    asks,      \* requests for a memo under way
    wallets,   \* payments the wallet is asked for
    polls,     \* status requests under way
    creditedMemo, \* the memo last confirmed: its balance was asked for
    refreshes, \* times the balance was asked for anew, for each memo
    said,      \* memos the user said to have paid, or the wallet reported sent
    excused    \* memos whose payment the panel lost sight of, and why

flowVars == <<made, paid, paidLate, twice, credited, lapsed, panel, asks, wallets, polls,
              creditedMemo, refreshes, said, excused>>
Books    == <<made, paid, paidLate, twice, credited, lapsed>>
Balances == <<creditedMemo, refreshes>>
Trail    == <<Balances, said, excused>>

FreshPanel == [step |-> "amount", memo |-> NoMemo, loading |-> FALSE, sending |-> FALSE]

FlowInit ==
    /\ made = 0 /\ paid = {} /\ paidLate = {} /\ twice = {} /\ credited = {} /\ lapsed = {}
    /\ panel = FreshPanel /\ asks = {} /\ wallets = {} /\ polls = {}
    /\ creditedMemo = NoMemo
    /\ refreshes = [m \in Memos |-> 0] /\ said = {} /\ excused = {}

(***************************************************************************)
(* The poll's effect: a change of the step or of the memo aborts what the  *)
(* panel had asked for; a new effect asks at once.                         *)
(***************************************************************************)
Following(p) == IF p.step = "pending" THEN p.memo ELSE NoMemo
Poll(m)      == [memo |-> m, at |-> "asked", live |-> TRUE]
Aborted(ps)  == {[p EXCEPT !.live = FALSE] : p \in ps}

Becomes(p) ==
    /\ panel' = p
    /\ polls' = IF Following(p) = Following(panel) THEN polls
                ELSE Aborted(polls) \cup
                     (IF Following(p) = NoMemo THEN {} ELSE {Poll(Following(p))})

(* Why a payment is not followed: the panel turned to another memo or to   *)
(* none, the memo expired, nobody told the panel of the payment, or it     *)
(* took the report of another payment for that of its memo.                *)
Forgets(why) == IF panel.memo = NoMemo THEN excused
                ELSE excused \cup {<<panel.memo, why>>}

(***************************************************************************)
(* What the user does.                                                     *)
(***************************************************************************)
Review ==
    /\ panel.step = "amount"
    /\ Becomes([panel EXCEPT !.step = "review", !.memo = NoMemo, !.loading = FALSE])
    /\ UNCHANGED <<Books, asks, wallets, Trail>>

ChangeAmount ==
    /\ panel.step \in {"review", "details"}
    /\ Becomes(FreshPanel)
    /\ excused' = Forgets("turned")
    /\ UNCHANGED <<Books, asks, wallets, Balances, said>>

Generate ==
    /\ panel.step = "review" /\ ~panel.loading /\ made + Cardinality(asks) < MaxMemos
    /\ Becomes([panel EXCEPT !.loading = TRUE])
    /\ \E i \in 1..MaxMemos : /\ \A a \in asks : a.id # i
                              /\ asks' = asks \cup {[id |-> i, memo |-> NoMemo]}
    /\ UNCHANGED <<Books, wallets, Trail>>

(* The page's clock may have missed the expiry by up to half a minute.     *)
PayInWallet ==
    /\ panel.step = "details" /\ ~panel.sending
    /\ Becomes([panel EXCEPT !.sending = TRUE])
    /\ wallets' = wallets \cup {[memo |-> panel.memo, at |-> "prepare"]}
    /\ UNCHANGED <<Books, asks, Trail>>

SayItIsSent ==
    /\ panel.step = "details" /\ ~panel.sending /\ panel.memo \notin lapsed
    /\ Becomes([panel EXCEPT !.step = "pending"])
    /\ said' = said \cup {panel.memo}
    /\ UNCHANGED <<Books, asks, wallets, Balances, excused>>

(***************************************************************************)
(* The memo: generated on the server, its answer taken whatever the panel  *)
(* shows by then.                                                          *)
(***************************************************************************)
Generates(a) ==
    /\ a.memo = NoMemo
    /\ made' = made + 1
    /\ asks' = (asks \ {a}) \cup {[a EXCEPT !.memo = made + 1]}
    /\ UNCHANGED <<paid, paidLate, twice, credited, lapsed, panel, wallets, polls, Trail>>

DetailsReady(a) ==
    /\ a.memo # NoMemo
    /\ asks' = asks \ {a}
    /\ Becomes([panel EXCEPT !.step = "details", !.memo = a.memo, !.loading = FALSE])
    /\ excused' = Forgets("turned")
    /\ UNCHANGED <<Books, wallets, Balances, said>>

DetailsFailed(a) ==
    /\ asks' = asks \ {a}
    /\ Becomes([panel EXCEPT !.loading = FALSE])
    /\ UNCHANGED <<Books, wallets, Trail>>

(***************************************************************************)
(* The payment.  The server prepares it for a memo that is neither used    *)
(* nor expired; the wallet may send it and report a failure all the same.  *)
(***************************************************************************)
WalletMoves(w, at) == wallets' = (wallets \ {w}) \cup {[w EXCEPT !.at = at]}

Prepares(w) ==
    /\ w.at = "prepare"
    /\ WalletMoves(w, IF w.memo \in credited \cup lapsed THEN "failed" ELSE "ask")
    /\ UNCHANGED <<Books, panel, asks, polls, Trail>>

Pays(m) ==
    /\ twice' = IF m \in paid \cup paidLate THEN twice \cup {m} ELSE twice
    /\ IF m \in lapsed THEN paidLate' = paidLate \cup {m} /\ UNCHANGED paid
       ELSE paid' = paid \cup {m} /\ UNCHANGED paidLate
    /\ UNCHANGED <<made, credited, lapsed>>

WalletPays(w) ==
    /\ w.at = "ask"
    /\ \E at \in {"sent", "failed"} :
          /\ WalletMoves(w, at)
          /\ excused' = IF at = "failed" THEN excused \cup {<<w.memo, "unheard">>} ELSE excused
    /\ Pays(w.memo)
    /\ UNCHANGED <<panel, asks, polls, Balances, said>>

WalletDeclines(w) ==
    /\ w.at \in {"prepare", "ask"}
    /\ WalletMoves(w, "failed")
    /\ UNCHANGED <<Books, panel, asks, polls, Trail>>

(* The user pays by hand, with the memo on the screen.                     *)
PaysByHand ==
    /\ panel.step = "details" /\ panel.memo \notin paid \cup paidLate
    /\ Pays(panel.memo)
    /\ excused' = excused \cup {<<panel.memo, "unheard">>}
    /\ UNCHANGED <<panel, asks, wallets, polls, Balances, said>>

(* The report of one payment is taken for that of the memo on the screen.  *)
Mistakes(w) == IF panel.memo \in {w.memo, NoMemo} THEN excused
               ELSE excused \cup {<<panel.memo, "mistaken">>}

TransactionSent(w) ==
    /\ w.at = "sent"
    /\ wallets' = wallets \ {w}
    /\ Becomes([panel EXCEPT !.step = "pending", !.sending = FALSE])
    /\ said' = said \cup {w.memo}
    /\ excused' = Mistakes(w)
    /\ UNCHANGED <<Books, asks, Balances>>

TransactionFailed(w) ==
    /\ w.at = "failed"
    /\ wallets' = wallets \ {w}
    /\ Becomes([panel EXCEPT !.sending = FALSE])
    /\ excused' = Mistakes(w)
    /\ UNCHANGED <<Books, asks, Balances, said>>

(***************************************************************************)
(* Time passes for a memo; ingestion credits one paid in time.             *)
(***************************************************************************)
Lapses(m) == /\ m \in 1..made \ lapsed
             /\ lapsed' = lapsed \cup {m}
             /\ UNCHANGED <<made, paid, paidLate, twice, credited, panel, asks, wallets, polls,
                            Trail>>
Credits(m) == /\ m \in paid \ credited
              /\ credited' = credited \cup {m}
              /\ UNCHANGED <<made, paid, paidLate, twice, lapsed, panel, asks, wallets, polls,
                             Trail>>

(***************************************************************************)
(* The status: the deposit is looked for first, the memo read afterwards.  *)
(***************************************************************************)
PollsAgain ==
    /\ Following(panel) # NoMemo
    /\ Cardinality(polls) < MaxPolls
    /\ Poll(panel.memo) \notin polls
    /\ polls' = polls \cup {Poll(panel.memo)}
    /\ UNCHANGED <<Books, panel, asks, wallets, Trail>>

PollTurns(p, at) == polls' = (polls \ {p}) \cup {[p EXCEPT !.at = at]}
LooksForDeposit(p) ==
    /\ p.at = "asked"
    /\ PollTurns(p, IF p.memo \in credited THEN "confirmed" ELSE "unseen")
    /\ UNCHANGED <<Books, panel, asks, wallets, Trail>>
ReadsMemo(p) ==
    /\ p.at = "unseen"
    /\ PollTurns(p, IF p.memo \in lapsed THEN "expired" ELSE "pending")
    /\ UNCHANGED <<Books, panel, asks, wallets, Trail>>

HeedsAnyway(p) == TRUE
Heeds(p)       == p.live

(* The balance is asked for anew once for the memo last confirmed.         *)
Confirms(p) ==
    /\ p.at = "confirmed" /\ Heeds(p)
    /\ Becomes([panel EXCEPT !.step = "confirmed"])
    /\ creditedMemo' = p.memo
    /\ refreshes' = IF creditedMemo = p.memo THEN refreshes
                    ELSE [refreshes EXCEPT ![p.memo] = @ + 1]
    /\ UNCHANGED <<Books, asks, wallets, said, excused>>
PollExpires(p) ==
    /\ p.at = "expired" /\ Heeds(p)
    /\ Becomes(FreshPanel)
    /\ excused' = Forgets("expired")
    /\ UNCHANGED <<Books, asks, wallets, Balances, said>>
(* Still pending, failed or aborted: at most a word on the screen changes. *)
Fruitless(p) ==
    /\ ~Heeds(p) \/ p.at \notin {"confirmed", "expired"}
    /\ polls' = polls \ {p}
    /\ UNCHANGED <<Books, panel, asks, wallets, Trail>>

FlowNext ==
    \/ Review \/ ChangeAmount \/ Generate \/ PayInWallet \/ SayItIsSent \/ PaysByHand \/ PollsAgain
    \/ \E a \in asks : Generates(a) \/ DetailsReady(a) \/ DetailsFailed(a)
    \/ \E w \in wallets : Prepares(w) \/ WalletPays(w) \/ WalletDeclines(w)
                          \/ TransactionSent(w) \/ TransactionFailed(w)
    \/ \E m \in Memos : Lapses(m) \/ Credits(m)
    \/ \E p \in polls : LooksForDeposit(p) \/ ReadsMemo(p) \/ Confirms(p) \/ PollExpires(p)
                        \/ Fruitless(p)

FlowSpec == FlowInit /\ [][FlowNext]_flowVars

-----------------------------------------------------------------------------
Lost(m, why) == <<m, why>> \in excused

(* DepositPanel.tsx, depositFlowReducer.ts, transaction.controller.ts: the *)
(* panel says confirmed of a memo that is credited and asks for the        *)
(* balance once; one it calls pending was paid, or said to be, unless the  *)
(* report of another payment was taken for its own; and a payment reported *)
(* sent is followed to its end, unless the user went back, a memo asked    *)
(* for earlier came in later, or the memo expired; and a memo is not paid  *)
(* twice but after one of these, or a payment the panel did not hear of.   *)
PaymentIsFollowed ==
    /\ panel.step = "confirmed" =>
          panel.memo \in credited /\ refreshes[panel.memo] = 1
    /\ Following(panel) # NoMemo => panel.memo \in said \/ Lost(panel.memo, "mistaken")
    /\ \A m \in said : \/ panel.memo = m /\ panel.step \in {"pending", "confirmed"}
                       \/ \E why \in {"turned", "expired"} : Lost(m, why)
    /\ \A m \in Memos : Lost(m, "expired") => m \in lapsed
    /\ \A m \in twice : \E why \in {"turned", "unheard", "mistaken"} : Lost(m, why)
=============================================================================
