---------------------------- MODULE BalanceFields ----------------------------
(***************************************************************************)
(* Each amount of a balance document is kept twice, as a string and as a   *)
(* number, and older documents have only the string.  Every change of a    *)
(* balance reads whichever there is and writes both; a script that fills   *)
(* the missing numbers in reads a batch, computes, and writes it later,    *)
(* while the server goes on changing balances.                             *)
(***************************************************************************)
EXTENDS Integers, Sequences, FiniteSets

LOCAL INSTANCE SequencesExt

CONSTANTS
    Users,
    Before,        \* who has an older document, in the order of _id
    Scripts,       \* runs of the script, which may overlap
    BatchSize,     \* BATCH_SIZE
    MaxChanges,    \* changes of balances
    MaxCrashes     \* runs of the script that are stopped

VARIABLES
    docs,      \* user_balances, in the order of _id
    books,     \* what each user's amounts come to by the changes made
    script,    \* each run: where it is, its last _id and its batch
    sum,       \* the ledger's total, being read
    tally

fieldsVars == <<docs, books, script, sum, tally>>

Twins == {"balance", "deposited", "withdrawn"}
Missing == -1
Amounts(b, d, w) == [balance |-> b, deposited |-> d, withdrawn |-> w]
Nothing == Amounts(0, 0, 0)
Whole(u, amounts) == [user |-> u, raw |-> amounts, atomic |-> amounts]
Old(u, lacking) == [user |-> u, raw |-> Amounts(1, 1, 0),
                    atomic |-> [f \in Twins |-> IF f \in lacking THEN Missing
                                                 ELSE Amounts(1, 1, 0)[f]]]

Held == {docs[i].user : i \in DOMAIN docs}
DocOf(u) == CHOOSE i \in DOMAIN docs : docs[i].user = u

NoRun == [at |-> "no", last |-> 0, batch |-> <<>>, moved |-> 0]
NoSum == [at |-> "no", aggregated |-> 0, legacy |-> 0, changed |-> FALSE]

(* Documents of before; of the last one some amounts have a number.        *)
FieldsInit ==
    /\ \E lacking \in (SUBSET Twins) \ {{}} :
          docs = [i \in DOMAIN Before |->
                     Old(Before[i], IF i = Len(Before) THEN lacking ELSE Twins)]
    /\ books = [u \in Users |-> IF \E i \in DOMAIN Before : Before[i] = u
                                THEN Amounts(1, 1, 0) ELSE Nothing]
    /\ script = [s \in Scripts |-> NoRun]
    /\ sum = NoSum
    /\ tally = [changes |-> 0, crashes |-> 0]

(* getAtomicFieldExpression: the number, or else what the string says.     *)
Current(doc, f) == IF doc.atomic[f] = Missing THEN doc.raw[f] ELSE doc.atomic[f]
Next3(doc, delta) == [f \in Twins |-> Current(doc, f) + delta[f]]

(* Every way a balance changes: an adjustment or a refund, a deposit, a    *)
(* confirmed withdrawal, and a deduction.                                  *)
Deltas == {Amounts(1, 0, 0), Amounts(1, 1, 0), Amounts(0, 0, 1)}
Deduction == Amounts(-1, 0, 0)

Counts ==
    /\ tally.changes < MaxChanges
    /\ tally' = [tally EXCEPT !.changes = @ + 1]
    /\ sum' = [sum EXCEPT !.changed = TRUE]

Books(u, delta) == books' = [books EXCEPT ![u] = [f \in Twins |-> @[f] + delta[f]]]

(* With upsert: a user without a document gets one.                        *)
Change(u, delta) ==
    /\ Counts
    /\ docs' = IF u \in Held
               THEN [docs EXCEPT ![DocOf(u)] = Whole(u, Next3(@, delta))]
               ELSE Append(docs, Whole(u, delta))
    /\ Books(u, delta)
    /\ UNCHANGED script

Deduct(u) ==
    /\ u \in Held /\ Current(docs[DocOf(u)], "balance") >= 1
    /\ Counts
    /\ docs' = [docs EXCEPT ![DocOf(u)] = Whole(u, Next3(@, Deduction))]
    /\ Books(u, Deduction)
    /\ UNCHANGED script

(* ensureExists leaves an older document as it is.                         *)
Ensure(u) ==
    /\ u \notin Held
    /\ docs' = Append(docs, Whole(u, Nothing))
    /\ UNCHANGED <<books, script, sum, tally>>

(***************************************************************************)
(* The script.                                                             *)
(***************************************************************************)
Min2(a, b) == IF a < b THEN a ELSE b
Lacks(doc) == {f \in Twins : doc.atomic[f] = Missing}

Start(s) ==
    /\ script[s].at = "no"
    /\ script' = [script EXCEPT ![s].at = "reads"]
    /\ UNCHANGED <<docs, books, sum, tally>>

(* One page of documents after the last _id; those that lack nothing need  *)
(* no operation.                                                           *)
ReadBatch(s) ==
    LET from == script[s].last + 1
        to   == Min2(script[s].last + BatchSize, Len(docs))
        lack == SelectSeq([i \in 1..(to - from + 1) |-> docs[from + i - 1]],
                          LAMBDA d : Lacks(d) # {})
    IN  /\ script[s].at = "reads"
        /\ script' = IF from > Len(docs)
                     THEN [script EXCEPT ![s].at = "counts"]
                     ELSE [script EXCEPT ![s].last = to, ![s].batch = lack,
                                         ![s].at = IF lack = <<>> THEN "reads" ELSE "writes"]
        /\ UNCHANGED <<docs, books, sum, tally>>

(* buildAtomicBackfillOperation: the filter asks for what was lacking to   *)
(* be lacking still.                                                       *)
FitsById(doc, seen) == doc.user = seen.user
Fits(doc, seen) == doc.user = seen.user /\ Lacks(seen) \subseteq Lacks(doc)
Filled(doc, seen) ==
    [doc EXCEPT !.atomic = [f \in Twins |-> IF f \in Lacks(seen) THEN seen.raw[f] ELSE @[f]]]

(* One operation of the bulk, alone.                                       *)
WriteOne(s) ==
    /\ script[s].at = "writes"
    /\ LET seen == Head(script[s].batch)
           rest == Tail(script[s].batch)
       IN  /\ docs' = [i \in DOMAIN docs |->
                          IF Fits(docs[i], seen) THEN Filled(docs[i], seen) ELSE docs[i]]
           /\ script' = [script EXCEPT
                 ![s].batch = rest,
                 ![s].moved = @ + Cardinality({i \in DOMAIN docs : Fits(docs[i], seen)}),
                 ![s].at = IF rest = <<>> THEN "reads" ELSE "writes"]
    /\ UNCHANGED <<books, sum, tally>>

Finish(s) ==
    /\ script[s].at = "counts"
    /\ script' = [script EXCEPT ![s].at =
          IF \E i \in DOMAIN docs : Lacks(docs[i]) # {} THEN "incomplete" ELSE "complete"]
    /\ UNCHANGED <<docs, books, sum, tally>>

Crash(s) ==
    /\ script[s].at \in {"reads", "writes", "counts"} /\ tally.crashes < MaxCrashes
    /\ script' = [script EXCEPT ![s] = NoRun]
    /\ tally' = [tally EXCEPT !.crashes = @ + 1]
    /\ UNCHANGED <<docs, books, sum>>

(***************************************************************************)
(* The ledger's total, read twice: by the numbers, then by the strings; a  *)
(* difference is reported.                                                 *)
(***************************************************************************)
Total(Read(_)) == FoldLeft(LAMBDA sofar, doc : sofar + Read(doc), 0, docs)
Number(doc) == Current(doc, "balance")
String(doc) == doc.raw["balance"]

SumAggregated ==
    /\ sum.at = "no"
    /\ sum' = [NoSum EXCEPT !.at = "half", !.aggregated = Total(Number)]
    /\ UNCHANGED <<docs, books, script, tally>>

SumLegacy ==
    /\ sum.at = "half"
    /\ sum' = [sum EXCEPT !.at = "done", !.legacy = Total(String)]
    /\ UNCHANGED <<docs, books, script, tally>>

FieldsNext ==
    \/ \E u \in Users : (\E delta \in Deltas : Change(u, delta)) \/ Deduct(u) \/ Ensure(u)
    \/ \E s \in Scripts : Start(s) \/ ReadBatch(s) \/ WriteOne(s) \/ Finish(s) \/ Crash(s)
    \/ SumAggregated \/ SumLegacy

FieldsSpec == FieldsInit /\ [][FieldsNext]_fieldsVars

(***************************************************************************)
(* Whatever the script and the server do to a document in between each     *)
(* other's steps, string and number say the same and both say what the     *)
(* changes come to; nobody has two documents or a negative balance.  A run *)
(* that says it is complete leaves nothing to fill in, a run never finds   *)
(* something left, and the ledger's two totals differ only when a balance  *)
(* changed between the two.                                                *)
(***************************************************************************)
AmountsAgree ==
    /\ \A i \in DOMAIN docs, f \in Twins :
          /\ docs[i].raw[f] = books[docs[i].user][f] /\ docs[i].raw[f] >= 0
          /\ docs[i].atomic[f] \in {Missing, docs[i].raw[f]}
    /\ Cardinality(Held) = Len(docs)
    /\ \A u \in Users \ Held : books[u] = Nothing
    /\ \A s \in Scripts :
          /\ script[s].at # "incomplete"
          /\ script[s].at = "complete" => \A i \in DOMAIN docs : Lacks(docs[i]) = {}
    /\ sum.at = "done" /\ ~sum.changed => sum.aggregated = sum.legacy
=============================================================================
