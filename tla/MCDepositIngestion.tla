------------------------ MODULE MCDepositIngestion ------------------------
(* Small values for the constants of DepositIngestion. *)
EXTENDS DepositIngestion

CONSTANTS u1, u2, m1, t1, t2, p1, p2, w1, o1, o2

(* Two transfers with one memo, which both are in time for. *)
OneAfterOther == [t \in Transfers |-> IF t = t1 THEN 1 ELSE 2]
OneMemo       == [t \in Transfers |-> m1]
OneEach       == [t \in Transfers |-> 1]
ToFirst       == [m \in {m1} |-> u1]
NeverExpires  == [m \in {m1} |-> 3]

(* Two jobs side by side, which meet a second fault before they disagree; a
   job and a window; two merchants at one desk. *)
ThreeCrews == {{p1, p2}, {p1, w1}, {p1, o1, o2}}
FewFaults  == [c \in ThreeCrews |-> IF p2 \in c THEN 2 ELSE 1]
===========================================================================
