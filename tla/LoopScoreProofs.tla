---------------------------- MODULE LoopScoreProofs ----------------------------
(***************************************************************************)
(* The score of a closed iteration, for any number of dimensions and any   *)
(* agents: what a page and the heatmap count is what the engine reads.     *)
(***************************************************************************)
EXTENDS LoopPageProofs, FiniteSetTheorems, WellFoundedInduction

\* The lines and the rows of one evaluator in one iteration.
Line(js, d, n) == {j \in DOMAIN js : js[j].type = "evaluate" /\ js[j].dim = d /\ js[j].iter = n}
Verdict(js, d, n) == \E j \in Line(js, d, n) : js[j].gate = "valid"

Runs(rs, i, d, n) == rs[i].type = "evaluate" /\ rs[i].dim = d /\ rs[i].iter = n
LastRun(rs, i, d, n) ==
  i \in 1..Len(rs) /\ Runs(rs, i, d, n) /\ \A k \in 1..Len(rs) : Runs(rs, k, d, n) => k <= i

\* A dimension the engine may carry over into iteration n.
ValidBefore(js, d, n) ==
  {j \in DOMAIN js : js[j].type = "evaluate" /\ js[j].dim = d /\ js[j].iter \in 1..(n - 1)
                     /\ js[j].gate = "valid"}
PassedBefore(js, d, n) ==
  ValidBefore(js, d, n) # {} /\ js[LastOf(ValidBefore(js, d, n))].says = "pass"

\* A line is of a row of its kind; only a pass is carried over.
LinesInv ==
  \A j \in 1..Len(journal) : journal[j].type = "evaluate" =>
    /\ journal[j].row \in 1..Len(rows) /\ journal[j].dim \in Dimension
    /\ Runs(rows, journal[j].row, journal[j].dim, journal[j].iter)
    /\ journal[j].says # "none" /\ (journal[j].from # journal[j].iter => journal[j].says = "pass")

EvaluatorsInv == \A i \in 1..Len(rows) : rows[i].type = "evaluate" => rows[i].dim \in Dimension

\* A verdict ends its dimension for the iteration: neither a line nor a row follows.
VerdictsInv ==
  \A j \in 1..Len(journal) : journal[j].type = "evaluate" /\ journal[j].gate = "valid" =>
    /\ \A k \in Line(journal, journal[j].dim, journal[j].iter) : k <= j
    /\ LastRun(rows, journal[j].row, journal[j].dim, journal[j].iter)

\* A step under way is of the last row of its dimension, which has no verdict before
\* the gate is at its line.
StepFits(rs, js, n, d, st) ==
  /\ st.at \in WorkingAt => LastRun(rs, st.row, d, n)
  /\ st.at \in (WorkingAt \cup {"queued"}) \ {"gated"} => ~Verdict(js, d, n)
  /\ st.at = "gated" => (Verdict(js, d, n) <=> st.reply.gate = "valid")
  /\ st.at = "done" => Verdict(js, d, n)
  /\ st.at = "replied" => st.reply.says # "none"

EvaluatorsAt == {"evaluating", "rechecking", "finish"}

EvaluatorStepsInv ==
  /\ eng.iter \in Nat
  /\ \A d \in Dimension : /\ StepFits(rows, journal, eng.iter, d, eng.step[d])
                          /\ eng.at \notin EvaluatorsAt => eng.step[d].at = "idle"

\* The row that is about to get its carried line.
RecordInv ==
  eng.at = "record" =>
    /\ Len(rows) > 0 /\ rows[Len(rows)].type = "evaluate" /\ rows[Len(rows)].iter = eng.iter
    /\ rows[Len(rows)].dim \in Dimension /\ ~Verdict(journal, rows[Len(rows)].dim, eng.iter)

\* From the evaluators on, each dimension is judged, carried, or at work.
CoveredInv ==
  \A d \in Dimension :
    /\ eng.at = "evaluating" => \/ Verdict(journal, d, eng.iter)
                                \/ PassedBefore(journal, d, eng.iter)
                                \/ eng.step[d].at # "idle"
    /\ eng.at = "rechecking" => Verdict(journal, d, eng.iter) \/ eng.step[d].at # "idle"
    /\ eng.at \in {"settle", "carry", "record"} =>
         Verdict(journal, d, eng.iter) \/ PassedBefore(journal, d, eng.iter)
    /\ eng.at = "close" => Verdict(journal, d, eng.iter)

\* A closed iteration has a verdict of every dimension.
ClosedInv ==
  \A j \in 1..Len(journal) : journal[j].type = "commit" =>
    \A d \in Dimension : Verdict(journal, d, journal[j].iter)

FactsInv == LinesInv /\ EvaluatorsInv /\ VerdictsInv /\ ClosedInv
EvaluatingInv == EvaluatorStepsInv /\ RecordInv /\ CoveredInv
ScoreInv == FactsInv /\ EvaluatingInv

-----------------------------------------------------------------------------
(* Sets of places.                                                         *)

LEMMA LastIs ==
  ASSUME NEW S, NEW m \in S, S \subseteq Nat, \A j \in S : j <= m
  PROVE  LastOf(S) = m
<1>1. \A i \in S : (\A j \in S : j <= i) => i = m
  BY SMT
<1>2. QED BY <1>1 DEF LastOf

LEMMA LeastExists ==
  ASSUME NEW T, T \subseteq Nat, T # {}
  PROVE  \E x \in T : \A y \in T : x <= y
<1> DEFINE R == OpToRel(<, Nat)
<1>1. IsWellFoundedOn(R, Nat)
  BY NatLessThanWellFounded
<1>2. \A a, b \in Nat : a < b => <<a, b>> \in R
  BY DEF OpToRel
<1> HIDE DEF R
<1>3. PICK x \in T : \A y \in T : ~(<<y, x>> \in R)
  BY <1>1, WFMin
<1>4. ASSUME NEW y \in T PROVE x <= y
  <2>1. x \in Nat /\ y \in Nat
    OBVIOUS
  <2>2. ~(y < x)
    BY <1>2, <1>3, <2>1
  <2>3. QED BY <2>1, <2>2
<1>5. QED BY <1>4

LEMMA LastExists ==
  ASSUME NEW n \in Nat, NEW S, S \subseteq 1..n, S # {}
  PROVE  LastOf(S) \in S /\ \A j \in S : j <= LastOf(S)
<1> DEFINE T == {n - i : i \in S}
<1>1. T \subseteq Nat /\ T # {}
  <2>1. \A i \in S : n - i \in Nat
    OBVIOUS
  <2>2. PICK i \in S : TRUE
    OBVIOUS
  <2>3. n - i \in T
    OBVIOUS
  <2>4. QED BY <2>1, <2>3
<1>2. \A i \in S : n - i \in T
  OBVIOUS
<1>3. \A k \in T : \E i \in S : k = n - i
  OBVIOUS
<1> HIDE DEF T
<1>4. PICK k \in T : \A l \in T : k <= l
  BY <1>1, LeastExists
<1>5. PICK i \in S : k = n - i
  BY <1>3
<1>6. \A j \in S : j <= i
  BY <1>2, <1>4, <1>5
<1>7. S \subseteq Nat
  OBVIOUS
<1>8. LastOf(S) = i
  BY <1>6, <1>7, LastIs
<1>9. QED BY <1>6, <1>8

\* A line that is added.
LEMMA VerdictGrows ==
  ASSUME NEW js, IsSeq(js), NEW line, NEW d, NEW n
  PROVE  /\ Verdict(js, d, n) => Verdict(Append(js, line), d, n)
         /\ line.type # "evaluate" \/ line.dim # d \/ line.iter # n \/ line.gate # "valid"
              => (Verdict(Append(js, line), d, n) <=> Verdict(js, d, n))
         /\ line.type = "evaluate" /\ line.dim = d /\ line.iter = n /\ line.gate = "valid"
              => Verdict(Append(js, line), d, n)
<1> DEFINE t == Append(js, line)
<1>1. /\ Len(js) \in Nat /\ DOMAIN t = 1..(Len(js) + 1) /\ DOMAIN js = 1..Len(js)
      /\ t[Len(js) + 1] = line /\ \A k \in 1..Len(js) : t[k] = js[k]
  BY Appended DEF IsSeq
<1> HIDE DEF t
<1>2. \A k \in DOMAIN t : k = Len(js) + 1 \/ k \in DOMAIN js
  BY <1>1
<1>3. Len(js) + 1 \in DOMAIN t /\ DOMAIN js \subseteq DOMAIN t
  BY <1>1
<1>4. /\ Verdict(js, d, n) => Verdict(t, d, n)
      /\ line.type # "evaluate" \/ line.dim # d \/ line.iter # n \/ line.gate # "valid"
           => (Verdict(t, d, n) <=> Verdict(js, d, n))
      /\ line.type = "evaluate" /\ line.dim = d /\ line.iter = n /\ line.gate = "valid"
           => Verdict(t, d, n)
  BY <1>1, <1>2, <1>3 DEF Verdict, Line
<1>5. QED BY <1>4 DEF t

LEMMA PassesStay ==
  ASSUME NEW js, IsSeq(js), NEW line, NEW d, NEW n \in Int,
         line.type # "evaluate" \/ line.iter = n
  PROVE  PassedBefore(Append(js, line), d, n) <=> PassedBefore(js, d, n)
<1> DEFINE t == Append(js, line)
           S == ValidBefore(js, d, n)
<1>1. /\ Len(js) \in Nat /\ DOMAIN t = 1..(Len(js) + 1) /\ DOMAIN js = 1..Len(js)
      /\ t[Len(js) + 1] = line /\ \A k \in 1..Len(js) : t[k] = js[k]
  BY Appended DEF IsSeq
<1> HIDE DEF t
<1>2. ValidBefore(t, d, n) = S
  <2>1. \A k \in DOMAIN t : k = Len(js) + 1 \/ k \in DOMAIN js
    BY <1>1
  <2>2. Len(js) + 1 \notin ValidBefore(t, d, n)
    BY <1>1 DEF ValidBefore
  <2>3. DOMAIN js \subseteq DOMAIN t
    BY <1>1
  <2>4. \A k \in DOMAIN js : k \in ValidBefore(t, d, n) <=> k \in S
    BY <1>1, <2>3 DEF ValidBefore
  <2>5. S \subseteq DOMAIN js /\ ValidBefore(t, d, n) \subseteq DOMAIN t
    BY DEF ValidBefore
  <2>6. QED BY <2>1, <2>2, <2>4, <2>5
<1>3. S # {} => t[LastOf(S)] = js[LastOf(S)]
  <2>1. S \subseteq 1..Len(js)
    BY <1>1 DEF ValidBefore
  <2> HIDE DEF S
  <2>2. QED BY <1>1, <2>1, LastExists
<1>4. PassedBefore(t, d, n) <=> PassedBefore(js, d, n)
  BY <1>2, <1>3 DEF PassedBefore
<1>5. QED BY <1>4 DEF t

\* What the engine reads of a dimension.
LEMMA EngineReads ==
  ASSUME NEW d \in Dimension
  PROVE  /\ d \in Judged <=> Verdict(journal, d, eng.iter)
         /\ d \in Carried <=> PassedBefore(journal, d, eng.iter)
<1>1. d \in Judged <=> Verdict(journal, d, eng.iter)
  BY DEF Judged, ValidEvals, Lines, Verdict, Line
<1>2. ValidEvals(d, 1..(eng.iter - 1)) = ValidBefore(journal, d, eng.iter)
  BY DEF ValidEvals, Lines, ValidBefore
<1>3. d \in Carried <=> PassedBefore(journal, d, eng.iter)
  BY <1>2 DEF Carried, Passed, PassedBefore
<1>4. QED BY <1>1, <1>3

-----------------------------------------------------------------------------
(* The lines and the rows, whatever the engine does.                       *)

\* Only statuses change.
Kept(rs, rt) ==
  /\ Len(rt) = Len(rs)
  /\ \A i \in 1..Len(rs) : /\ rt[i].type = rs[i].type /\ rt[i].dim = rs[i].dim
                           /\ rt[i].iter = rs[i].iter

LEMMA KeptRuns ==
  ASSUME NEW rs, NEW rt, Kept(rs, rt), NEW d, NEW n
  PROVE  /\ \A i \in 1..Len(rs) : Runs(rt, i, d, n) <=> Runs(rs, i, d, n)
         /\ \A i : LastRun(rt, i, d, n) <=> LastRun(rs, i, d, n)
<1>1. \A i \in 1..Len(rs) : Runs(rt, i, d, n) <=> Runs(rs, i, d, n)
  BY DEF Kept, Runs
<1>2. QED BY <1>1 DEF Kept, LastRun

LEMMA KeptFacts ==
  ASSUME FactsInv, Kept(rows, rows'), UNCHANGED journal
  PROVE  FactsInv'
<1>1. LinesInv'
  <2>1. ASSUME NEW j \in 1..Len(journal), journal[j].type = "evaluate"
        PROVE  /\ journal[j].row \in 1..Len(rows')
               /\ Runs(rows', journal[j].row, journal[j].dim, journal[j].iter)
    <3>1. /\ journal[j].row \in 1..Len(rows)
          /\ Runs(rows, journal[j].row, journal[j].dim, journal[j].iter)
      BY <2>1 DEF FactsInv, LinesInv
    <3>2. QED BY <3>1 DEF Kept, Runs
  <2>2. QED BY <2>1 DEF FactsInv, LinesInv
<1>2. EvaluatorsInv'
  BY DEF FactsInv, EvaluatorsInv, Kept
<1>3. VerdictsInv'
  BY KeptRuns DEF FactsInv, VerdictsInv
<1>4. ClosedInv'
  BY DEF FactsInv, ClosedInv
<1>5. QED BY <1>1, <1>2, <1>3, <1>4 DEF FactsInv

LEMMA SameKept == ASSUME UNCHANGED rows PROVE Kept(rows, rows')
BY DEF Kept

LEMMA SetRowKept ==
  ASSUME Shape, NEW i \in 1..Len(rows), NEW s, SetRow(i, s)
  PROVE  Kept(rows, rows')
<1> DEFINE r == [rows[i] EXCEPT !.status = s]
<1>1. r = [iter |-> rows[i].iter, type |-> rows[i].type, dim |-> rows[i].dim, status |-> s]
  <2>1. IsRow(rows[i])
    BY DEF Shape
  <2>2. QED BY <2>1 DEF IsRow
<1>2. rows' = [rows EXCEPT ![i] = r]
  BY DEF SetRow
<1>3. r.type = rows[i].type /\ r.dim = rows[i].dim /\ r.iter = rows[i].iter
  BY <1>1
<1> HIDE DEF r
<1>4. /\ Len(rows') = Len(rows) /\ rows'[i] = r
      /\ \A j \in 1..Len(rows) : j # i => rows'[j] = rows[j]
  BY <1>2, Changed DEF Shape
<1>5. QED BY <1>3, <1>4 DEF Kept

LEMMA StopRowsKept == ASSUME Shape, StopRows PROVE Kept(rows, rows')
<1>1. DOMAIN rows = 1..Len(rows) /\ Len(rows) \in Nat
  BY DEF Shape, IsSeq
<1>2. rows' = [i \in 1..Len(rows) |-> IF rows[i].status = "running"
                                      THEN [rows[i] EXCEPT !.status = "stopped"] ELSE rows[i]]
  BY <1>1 DEF StopRows
<1>3. Len(rows') = Len(rows)
  BY <1>1, <1>2, Listed
<1>4. ASSUME NEW i \in 1..Len(rows)
      PROVE  /\ rows'[i].type = rows[i].type /\ rows'[i].dim = rows[i].dim
             /\ rows'[i].iter = rows[i].iter
  <2>1. IsRow(rows[i])
    BY DEF Shape
  <2>2. CASE rows[i].status = "running"
    <3>1. rows'[i] = [iter |-> rows[i].iter, type |-> rows[i].type, dim |-> rows[i].dim,
                      status |-> "stopped"]
      BY <1>2, <2>1, <2>2 DEF IsRow
    <3>2. QED BY <3>1
  <2>3. CASE rows[i].status # "running"
    BY <1>2, <2>3
  <2>4. QED BY <2>2, <2>3
<1>5. QED BY <1>3, <1>4 DEF Kept

\* A row that is added is the last run of its dimension, and no other's.
LEMMA NewRowRuns ==
  ASSUME Shape, NEW type, NEW d, NEW s, AddRow(type, d, s)
  PROVE  LET m == Len(rows) + 1 IN
         /\ m \in Nat /\ Len(rows') = m /\ rows'[m].type = type /\ rows'[m].dim = d
         /\ rows'[m].iter = eng.iter /\ \A i \in 1..Len(rows) : rows'[i] = rows[i]
         /\ \A e, n : ~(type = "evaluate" /\ e = d /\ n = eng.iter) =>
              \A i \in 1..Len(rows) : LastRun(rows, i, e, n) => LastRun(rows', i, e, n)
         /\ type = "evaluate" => LastRun(rows', m, d, eng.iter)
<1> DEFINE m == Len(rows) + 1
<1>1. /\ m \in Nat /\ Len(rows') = m /\ rows'[m].type = type /\ rows'[m].dim = d
      /\ rows'[m].iter = eng.iter /\ \A i \in 1..Len(rows) : rows'[i] = rows[i]
  <2>1. /\ Len(rows) \in Nat /\ Len(rows') = Len(rows) + 1
        /\ rows'[m] = [iter |-> eng.iter, type |-> type, dim |-> d, status |-> s]
        /\ \A i \in 1..Len(rows) : rows'[i] = rows[i]
    BY AddRowGrows
  <2>2. QED BY <2>1
<1>2. \A k \in 1..m : (k = m \/ k \in 1..Len(rows)) /\ k <= m
  BY <1>1
<1>3. m \in 1..m /\ 1..Len(rows) \subseteq 1..m
  BY <1>1
<1> HIDE DEF m
<1>4. ASSUME NEW e, NEW n, ~(type = "evaluate" /\ e = d /\ n = eng.iter),
             NEW i \in 1..Len(rows), LastRun(rows, i, e, n)
      PROVE  LastRun(rows', i, e, n)
  <2>1. ~Runs(rows', m, e, n)
    BY <1>1, <1>4 DEF Runs
  <2>2. \A k \in 1..Len(rows) : Runs(rows', k, e, n) <=> Runs(rows, k, e, n)
    BY <1>1 DEF Runs
  <2>3. QED BY <1>1, <1>2, <1>3, <1>4, <2>1, <2>2 DEF LastRun
<1>5. type = "evaluate" => LastRun(rows', m, d, eng.iter)
  BY <1>1, <1>2, <1>3 DEF LastRun, Runs
<1>6. QED BY <1>1, <1>4, <1>5 DEF m

LEMMA NewRowFacts ==
  ASSUME Shape, FactsInv, UNCHANGED journal, NEW type, NEW d, NEW s, AddRow(type, d, s),
         type = "evaluate" => d \in Dimension /\ ~Verdict(journal, d, eng.iter)
  PROVE  FactsInv'
<1> DEFINE m == Len(rows) + 1
<1>1. /\ m \in Nat /\ Len(rows') = m /\ rows'[m].type = type /\ rows'[m].dim = d
      /\ rows'[m].iter = eng.iter /\ \A i \in 1..Len(rows) : rows'[i] = rows[i]
      /\ \A e, n : ~(type = "evaluate" /\ e = d /\ n = eng.iter) =>
           \A i \in 1..Len(rows) : LastRun(rows, i, e, n) => LastRun(rows', i, e, n)
  BY NewRowRuns
<1>2. \A k \in 1..m : k = m \/ k \in 1..Len(rows)
  BY <1>1
<1>3. 1..Len(rows) \subseteq 1..m
  BY <1>1
<1> HIDE DEF m
<1>4. LinesInv'
  <2>1. ASSUME NEW j \in 1..Len(journal), journal[j].type = "evaluate"
        PROVE  /\ journal[j].row \in 1..Len(rows')
               /\ Runs(rows', journal[j].row, journal[j].dim, journal[j].iter)
    <3>1. /\ journal[j].row \in 1..Len(rows)
          /\ Runs(rows, journal[j].row, journal[j].dim, journal[j].iter)
      BY <2>1 DEF FactsInv, LinesInv
    <3>2. QED BY <1>1, <1>3, <3>1 DEF Runs
  <2>2. QED BY <2>1 DEF FactsInv, LinesInv
<1>5. EvaluatorsInv'
  BY <1>1, <1>2 DEF FactsInv, EvaluatorsInv
<1>6. VerdictsInv'
  <2>1. ASSUME NEW j \in 1..Len(journal), journal[j].type = "evaluate", journal[j].gate = "valid"
        PROVE  LastRun(rows', journal[j].row, journal[j].dim, journal[j].iter)
    <3>1. /\ LastRun(rows, journal[j].row, journal[j].dim, journal[j].iter)
          /\ journal[j].row \in 1..Len(rows)
      BY <2>1 DEF FactsInv, VerdictsInv, LinesInv
    <3>2. Verdict(journal, journal[j].dim, journal[j].iter)
      <4>1. j \in DOMAIN journal
        BY DEF Shape, IsSeq
      <4>2. QED BY <2>1, <4>1 DEF Verdict, Line
    <3>3. ~(type = "evaluate" /\ journal[j].dim = d /\ journal[j].iter = eng.iter)
      BY <3>2
    <3>4. QED BY <1>1, <3>1, <3>3
  <2>2. QED BY <2>1 DEF FactsInv, VerdictsInv
<1>7. ClosedInv'
  BY DEF FactsInv, ClosedInv
<1>8. QED BY <1>4, <1>5, <1>6, <1>7 DEF FactsInv

\* A line of the last run of a dimension that has no verdict, or one that is no
\* evaluator's, and closes an iteration only when every dimension has one.
LEMMA NewLineFacts ==
  ASSUME Shape, FactsInv, UNCHANGED rows, NEW line, journal' = Append(journal, line),
         line.type = "evaluate" =>
           /\ line.dim \in Dimension /\ LastRun(rows, line.row, line.dim, line.iter)
           /\ ~Verdict(journal, line.dim, line.iter)
           /\ line.says # "none" /\ (line.from # line.iter => line.says = "pass"),
         line.type = "commit" => \A d \in Dimension : Verdict(journal, d, line.iter)
  PROVE  FactsInv'
<1> DEFINE m == Len(journal) + 1
<1>1. /\ m \in Nat /\ DOMAIN journal = 1..Len(journal) /\ DOMAIN journal' = 1..m
      /\ Len(journal') = m /\ journal'[m] = line
      /\ \A k \in 1..Len(journal) : journal'[k] = journal[k]
  BY Appended DEF Shape, IsSeq
<1>2. \A k \in 1..m : (k = m \/ k \in 1..Len(journal)) /\ k <= m
  BY <1>1
<1>3. 1..Len(journal) \subseteq 1..m
  BY <1>1
<1> HIDE DEF m
<1>4. LinesInv'
  <2>1. line.type = "evaluate" => /\ line.row \in 1..Len(rows)
                                  /\ Runs(rows, line.row, line.dim, line.iter)
    BY DEF LastRun
  <2>2. QED BY <1>1, <1>2, <2>1 DEF FactsInv, LinesInv
<1>5. EvaluatorsInv'
  BY DEF FactsInv, EvaluatorsInv
<1>6. VerdictsInv'
  <2>1. ASSUME NEW j \in 1..m, journal'[j].type = "evaluate", journal'[j].gate = "valid"
        PROVE  /\ \A k \in Line(journal', journal'[j].dim, journal'[j].iter) : k <= j
               /\ LastRun(rows, journal'[j].row, journal'[j].dim, journal'[j].iter)
    <3>1. CASE j = m
      BY <1>1, <1>2, <2>1, <3>1 DEF Line
    <3>2. CASE j \in 1..Len(journal)
      <4>1. journal'[j] = journal[j] /\ j \in DOMAIN journal
        BY <1>1, <3>2
      <4>2. Verdict(journal, journal[j].dim, journal[j].iter)
        BY <2>1, <4>1 DEF Verdict, Line
      <4>3. m \notin Line(journal', journal[j].dim, journal[j].iter)
        BY <1>1, <4>2 DEF Line
      <4>4. \A k \in Line(journal', journal[j].dim, journal[j].iter) :
              k \in Line(journal, journal[j].dim, journal[j].iter)
        BY <1>1, <1>2, <4>3 DEF Line
      <4>5. QED BY <2>1, <3>2, <4>1, <4>4 DEF FactsInv, VerdictsInv
    <3>3. QED BY <1>2, <3>1, <3>2
  <2>2. QED BY <1>1, <2>1 DEF VerdictsInv
<1>7. ClosedInv'
  <2>1. ASSUME NEW j \in 1..m, journal'[j].type = "commit", NEW d \in Dimension
        PROVE  Verdict(journal', d, journal'[j].iter)
    <3>1. Verdict(journal, d, journal'[j].iter)
      BY <1>1, <1>2, <2>1 DEF FactsInv, ClosedInv
    <3>2. QED BY <3>1, VerdictGrows DEF Shape
  <2>2. QED BY <1>1, <2>1 DEF ClosedInv
<1>8. QED BY <1>4, <1>5, <1>6, <1>7 DEF FactsInv

-----------------------------------------------------------------------------
(* The evaluators' steps.                                                  *)

LEMMA NotCovered ==
  ASSUME eng'.at \notin {"evaluating", "rechecking", "settle", "carry", "record", "close"}
  PROVE  CoveredInv' /\ RecordInv'
BY DEF CoveredInv, RecordInv

\* An engine whose evaluators are idle, or queued where there is no verdict.
LEMMA Rested ==
  ASSUME eng'.iter \in Nat,
         \A d \in Dimension :
           \/ eng'.step[d].at = "idle"
           \/ /\ eng'.at \in EvaluatorsAt /\ eng'.step[d].at = "queued"
              /\ ~Verdict(journal', d, eng'.iter),
         RecordInv', CoveredInv'
  PROVE  EvaluatingInv'
BY DEF EvaluatingInv, EvaluatorStepsInv, StepFits, WorkingAt

\* An engine whose steps stay as they are.
LEMMA SameSteps ==
  ASSUME EvaluatorStepsInv, Kept(rows, rows'), UNCHANGED journal,
         eng'.iter = eng.iter, eng'.step = eng.step,
         eng'.at \in EvaluatorsAt \/ eng.at \notin EvaluatorsAt
  PROVE  EvaluatorStepsInv'
<1>1. ASSUME NEW d \in Dimension
      PROVE  StepFits(rows', journal, eng.iter, d, eng.step[d])
  <2>1. StepFits(rows, journal, eng.iter, d, eng.step[d])
    BY DEF EvaluatorStepsInv
  <2>2. \A i : LastRun(rows, i, d, eng.iter) => LastRun(rows', i, d, eng.iter)
    BY KeptRuns
  <2>3. QED BY <2>1, <2>2 DEF StepFits
<1>2. QED BY <1>1 DEF EvaluatorStepsInv

\* The step of one slot moves; the others' rows and verdicts are as they were.
LEMMA SlotMoves ==
  ASSUME EvaluatingInv, NEW s \in Slot,
         eng'.at = eng.at, eng'.iter = eng.iter, eng.at # "record",
         eng.at \in EvaluatorsAt \/ s \notin Dimension,
         \A r \in Slot : r # s => eng'.step[r] = eng.step[r],
         eng'.step[s].at # "idle",
         \A d \in Dimension :
           /\ Verdict(journal, d, eng.iter) => Verdict(journal', d, eng.iter)
           /\ PassedBefore(journal, d, eng.iter) => PassedBefore(journal', d, eng.iter)
           /\ d # s => (Verdict(journal', d, eng.iter) <=> Verdict(journal, d, eng.iter))
           /\ d # s => \A i : LastRun(rows, i, d, eng.iter) => LastRun(rows', i, d, eng.iter),
         s \in Dimension => StepFits(rows', journal', eng.iter, s, eng'.step[s])
  PROVE  EvaluatingInv'
<1>1. ASSUME NEW d \in Dimension, d # s
      PROVE  StepFits(rows', journal', eng.iter, d, eng.step[d])
  <2>1. StepFits(rows, journal, eng.iter, d, eng.step[d])
    BY DEF EvaluatingInv, EvaluatorStepsInv
  <2>2. QED BY <1>1, <2>1 DEF StepFits
<1>2. Dimension \subseteq Slot
  BY ZeroSlot
<1>3. EvaluatorStepsInv'
  <2>1. ASSUME NEW d \in Dimension
        PROVE  /\ StepFits(rows', journal', eng'.iter, d, eng'.step[d])
               /\ eng'.at \notin EvaluatorsAt => eng'.step[d].at = "idle"
    <3>1. CASE d = s
      BY <3>1
    <3>2. CASE d # s
      BY <1>1, <1>2, <3>2 DEF EvaluatingInv, EvaluatorStepsInv
    <3>3. QED BY <3>1, <3>2
  <2>2. eng'.iter \in Nat
    BY DEF EvaluatingInv, EvaluatorStepsInv
  <2>3. QED BY <2>1, <2>2 DEF EvaluatorStepsInv
<1>4. RecordInv'
  BY DEF RecordInv
<1>5. CoveredInv'
  <2>1. \A d \in Dimension : eng.step[d].at # "idle" => eng'.step[d].at # "idle"
    BY <1>2
  <2>2. QED BY <2>1 DEF EvaluatingInv, CoveredInv
<1>6. QED BY <1>3, <1>4, <1>5 DEF EvaluatingInv

\* What a move changes.
LEMMA Moves ==
  ASSUME RowsInv, NEW s \in Slot, NEW st, MoveTo(s, st)
  PROVE  /\ eng'.at = eng.at /\ eng'.iter = eng.iter /\ eng'.step[s] = st
         /\ \A r \in Slot : r # s => eng'.step[r] = eng.step[r]
<1>1. /\ eng' = [at |-> eng.at, iter |-> eng.iter, runs |-> eng.runs, res |-> eng.res,
                 step |-> [eng.step EXCEPT ![s] = st]]
      /\ eng.step = [r \in Slot |-> eng.step[r]]
  BY DEF MoveTo, RowsInv, Shape
<1>2. QED BY <1>1

LEMMA MovesAt ==
  ASSUME RowsInv, NEW s \in Slot, NEW at, MoveTo(s, [eng.step[s] EXCEPT !.at = at])
  PROVE  /\ eng'.at = eng.at /\ eng'.iter = eng.iter
         /\ eng'.step[s].at = at /\ eng'.step[s].row = eng.step[s].row
         /\ eng'.step[s].reply = eng.step[s].reply
         /\ \A r \in Slot : r # s => eng'.step[r] = eng.step[r]
<1>1. /\ eng'.at = eng.at /\ eng'.iter = eng.iter
      /\ eng'.step[s] = [eng.step[s] EXCEPT !.at = at]
      /\ \A r \in Slot : r # s => eng'.step[r] = eng.step[r]
  BY Moves
<1>2. [eng.step[s] EXCEPT !.at = at]
        = [at |-> at, row |-> eng.step[s].row, k |-> eng.step[s].k, reply |-> eng.step[s].reply]
  BY StepFields DEF RowsInv, Shape
<1>3. QED BY <1>1, <1>2

\* A step is under way where there are evaluators, and of its slot's dimension.
LEMMA StepWhere ==
  ASSUME RowsInv, EvaluatingInv, NEW s \in Slot, eng.step[s].at \notin EndedAt
  PROVE  /\ eng.at # "record" /\ (eng.at \in EvaluatorsAt \/ s \notin Dimension)
         /\ s \in Dimension => /\ StepFits(rows, journal, eng.iter, s, eng.step[s])
                               /\ StepType(s) = "evaluate"
         /\ s \notin Dimension => s = 0 /\ StepType(s) \in {"plan", "implement"}
<1>1. eng.at # "record"
  BY DEF RowsInv, EngineInv, StageAt
<1>2. s \in Dimension => eng.at \in EvaluatorsAt
  BY DEF EvaluatingInv, EvaluatorStepsInv, EndedAt
<1>3. /\ s \in Dimension => StepType(s) = "evaluate"
      /\ s \notin Dimension => s = 0 /\ StepType(s) \in {"plan", "implement"}
  BY LoopRowsAssumption DEF Slot, Dimension, StepType
<1>4. s \in Dimension => StepFits(rows, journal, eng.iter, s, eng.step[s])
  BY DEF EvaluatingInv, EvaluatorStepsInv
<1>5. QED BY <1>1, <1>2, <1>3, <1>4

\* A move that adds neither a row nor a line.
LEMMA QuietMove ==
  ASSUME RowsInv, ScoreInv, NEW s \in Slot, eng.step[s].at \notin EndedAt,
         Kept(rows, rows'), UNCHANGED journal,
         eng'.at = eng.at, eng'.iter = eng.iter,
         \A r \in Slot : r # s => eng'.step[r] = eng.step[r],
         eng'.step[s].at # "idle",
         s \in Dimension /\ StepFits(rows, journal, eng.iter, s, eng.step[s])
           => StepFits(rows, journal, eng.iter, s, eng'.step[s])
  PROVE  ScoreInv'
<1>1. FactsInv'
  BY KeptFacts DEF ScoreInv
<1>2. /\ eng.at # "record" /\ (eng.at \in EvaluatorsAt \/ s \notin Dimension)
      /\ s \in Dimension => StepFits(rows, journal, eng.iter, s, eng.step[s])
  BY StepWhere DEF ScoreInv
<1>3. \A d, i : LastRun(rows, i, d, eng.iter) => LastRun(rows', i, d, eng.iter)
  BY KeptRuns
<1>4. s \in Dimension => StepFits(rows', journal', eng.iter, s, eng'.step[s])
  BY <1>2, <1>3 DEF StepFits
<1>5. EvaluatingInv'
  BY <1>2, <1>3, <1>4, SlotMoves DEF ScoreInv
<1>6. QED BY <1>1, <1>5 DEF ScoreInv

LEMMA StartAgentRunScore ==
  ASSUME RowsInv, ScoreInv, NEW s \in Slot, StartAgentRun(s) PROVE ScoreInv'
<1>1. eng.step[s].at = "call" /\ UNCHANGED <<rows, journal>>
      /\ MoveTo(s, [eng.step[s] EXCEPT !.at = "agent"])
  BY DEF StartAgentRun
<1>2. /\ eng'.at = eng.at /\ eng'.iter = eng.iter
      /\ eng'.step[s].at = "agent" /\ eng'.step[s].row = eng.step[s].row
      /\ \A r \in Slot : r # s => eng'.step[r] = eng.step[r]
  BY <1>1, MovesAt
<1>3. StepFits(rows, journal, eng.iter, s, eng.step[s])
        => StepFits(rows, journal, eng.iter, s, eng'.step[s])
  BY <1>1, <1>2 DEF StepFits, WorkingAt
<1>4. eng.step[s].at \notin EndedAt /\ eng'.step[s].at # "idle"
  BY <1>1, <1>2 DEF EndedAt
<1>5. QED BY <1>1, <1>2, <1>3, <1>4, SameKept, QuietMove

LEMMA FinishAgentRunScore ==
  ASSUME RowsInv, ScoreInv, NEW s \in Slot, FinishAgentRun(s) PROVE ScoreInv'
<1>1. eng.step[s].at = "agent" /\ UNCHANGED <<rows, journal>>
  BY DEF FinishAgentRun
<1>2. PICK r \in Replies(StepType(s), s) :
        MoveTo(s, [eng.step[s] EXCEPT !.reply = r,
                    !.at = CASE r.gate = "limit" -> "limit" [] r.gate = "raises" -> "raised"
                             [] OTHER -> "replied"])
  BY DEF FinishAgentRun
<1> DEFINE at == CASE r.gate = "limit" -> "limit" [] r.gate = "raises" -> "raised"
                   [] OTHER -> "replied"
<1>3. at \in {"limit", "raised", "replied"}
  OBVIOUS
<1>4. r.says # "none"
  <2>1. StepType(s) \in {"plan", "implement", "evaluate"}
    BY DEF StepType
  <2>2. r \in [gate : {"valid", "rejected", "limit", "raises"},
               says : {"continue", "done", "pass", "fail", "nothing"},
               tokens : {"reported", "unknown"}]
    BY <2>1, LoopRowsAssumption
  <2>3. r.says \in {"continue", "done", "pass", "fail", "nothing"}
    BY <2>2
  <2>4. QED BY <2>3
<1> HIDE DEF at
<1>5. /\ eng'.at = eng.at /\ eng'.iter = eng.iter
      /\ eng'.step[s] = [eng.step[s] EXCEPT !.reply = r, !.at = at]
      /\ \A q \in Slot : q # s => eng'.step[q] = eng.step[q]
  BY <1>2, Moves DEF at
<1>6. eng'.step[s].at = at /\ eng'.step[s].row = eng.step[s].row /\ eng'.step[s].reply = r
  <2>0. IsStep(eng.step[s])
    BY DEF RowsInv, Shape
  <2>1. PICK a, b, c, d : eng.step[s] = [at |-> a, row |-> b, k |-> c, reply |-> d]
    BY <2>0 DEF IsStep
  <2>2. eng.step[s].row = b
    BY <2>1
  <2>3. ASSUME NEW t, t = [eng.step[s] EXCEPT !.reply = r, !.at = at]
        PROVE  t.at = at /\ t.row = eng.step[s].row /\ t.reply = r
    BY <2>1, <2>2, <2>3
  <2>4. QED BY <1>5, <2>3
<1>7. StepFits(rows, journal, eng.iter, s, eng.step[s])
        => StepFits(rows, journal, eng.iter, s, eng'.step[s])
  BY <1>1, <1>3, <1>4, <1>6 DEF StepFits, WorkingAt
<1>8. eng.step[s].at \notin EndedAt /\ eng'.step[s].at # "idle"
  BY <1>1, <1>3, <1>6 DEF EndedAt
<1>9. QED BY <1>1, <1>5, <1>7, <1>8, SameKept, QuietMove

LEMMA HitLimitScore ==
  ASSUME RowsInv, ScoreInv, NEW s \in Slot, HitLimit(s) PROVE ScoreInv'
<1>1. eng.step[s].at = "limit" /\ UNCHANGED journal /\ SetRow(eng.step[s].row, "stopped")
      /\ MoveTo(s, [eng.step[s] EXCEPT !.at = "stopped"])
  BY DEF HitLimit
<1>2. /\ eng'.at = eng.at /\ eng'.iter = eng.iter /\ eng'.step[s].at = "stopped"
      /\ \A r \in Slot : r # s => eng'.step[r] = eng.step[r]
  BY <1>1, MovesAt
<1>3. StepFits(rows, journal, eng.iter, s, eng'.step[s])
  BY <1>2 DEF StepFits, WorkingAt
<1>4. eng.step[s].at \notin EndedAt /\ eng'.step[s].at # "idle"
  BY <1>1, <1>2 DEF EndedAt
<1>5. Kept(rows, rows')
  <2>1. eng.step[s].row \in 1..Len(rows)
    BY <1>1, StepAt DEF WorkingAt
  <2>2. QED BY <1>1, <2>1, SetRowKept DEF RowsInv
<1>6. QED BY <1>1, <1>2, <1>3, <1>4, <1>5, QuietMove

LEMMA GateScore ==
  ASSUME RowsInv, ScoreInv, NEW s \in Slot, Gate(s) PROVE ScoreInv'
<1> DEFINE valid == eng.step[s].reply.gate = "valid"
<1>1. eng.step[s].at = "gated" /\ UNCHANGED journal /\ eng.step[s].at \notin EndedAt
  BY DEF Gate, EndedAt
<1>2. CASE ~valid /\ eng.step[s].k < MaxRetries
  <2>1. UNCHANGED rows /\ MoveTo(s, [eng.step[s] EXCEPT !.at = "retry", !.k = @ + 1])
    BY <1>2 DEF Gate
  <2>2. /\ eng'.at = eng.at /\ eng'.iter = eng.iter
        /\ eng'.step[s] = [eng.step[s] EXCEPT !.at = "retry", !.k = @ + 1]
        /\ \A r \in Slot : r # s => eng'.step[r] = eng.step[r]
    BY <2>1, Moves
  <2>3. eng'.step[s].at = "retry" /\ eng'.step[s].row = eng.step[s].row
    <3>0. IsStep(eng.step[s])
      BY DEF RowsInv, Shape
    <3>1. PICK a, b, c, d : eng.step[s] = [at |-> a, row |-> b, k |-> c, reply |-> d]
      BY <3>0 DEF IsStep
    <3>2. eng.step[s].row = b /\ eng.step[s].k = c
      BY <3>1
    <3>3. ASSUME NEW t, t = [eng.step[s] EXCEPT !.at = "retry", !.k = @ + 1]
          PROVE  t.at = "retry" /\ t.row = eng.step[s].row
      BY <3>1, <3>2, <3>3
    <3>4. QED BY <2>2, <3>3
  <2>4. StepFits(rows, journal, eng.iter, s, eng.step[s])
          => StepFits(rows, journal, eng.iter, s, eng'.step[s])
    BY <1>1, <1>2, <2>3 DEF StepFits, WorkingAt
  <2>5. QED BY <1>1, <2>1, <2>2, <2>3, <2>4, SameKept, QuietMove
<1>3. CASE valid \/ ~(eng.step[s].k < MaxRetries)
  <2> DEFINE end == IF valid THEN "completed" ELSE "failed"
             at == IF end = "completed" THEN "done" ELSE end
  <2>1. SetRow(eng.step[s].row, end) /\ MoveTo(s, [eng.step[s] EXCEPT !.at = at])
    BY <1>3 DEF Gate
  <2>2. at = IF valid THEN "done" ELSE "failed"
    OBVIOUS
  <2> HIDE DEF at, end, valid
  <2>3. /\ eng'.at = eng.at /\ eng'.iter = eng.iter /\ eng'.step[s].at = at
        /\ \A r \in Slot : r # s => eng'.step[r] = eng.step[r]
    BY <2>1, MovesAt
  <2>4. StepFits(rows, journal, eng.iter, s, eng.step[s])
          => StepFits(rows, journal, eng.iter, s, eng'.step[s])
    BY <1>1, <2>2, <2>3 DEF StepFits, WorkingAt, valid
  <2>5. eng'.step[s].at # "idle"
    BY <2>2, <2>3
  <2>6. Kept(rows, rows')
    <3>1. eng.step[s].row \in 1..Len(rows)
      BY <1>1, StepAt DEF WorkingAt
    <3>2. QED BY <2>1, <3>1, SetRowKept DEF RowsInv
  <2>7. QED BY <1>1, <2>3, <2>4, <2>5, <2>6, QuietMove
<1>4. QED BY <1>2, <1>3

LEMMA RetryScore ==
  ASSUME RowsInv, ScoreInv, NEW s \in Slot, Retry(s) PROVE ScoreInv'
<1> DEFINE at == IF Stopped THEN "stopped" ELSE "call"
<1>1. eng.step[s].at = "retry" /\ UNCHANGED journal /\ eng.step[s].at \notin EndedAt
      /\ MoveTo(s, [eng.step[s] EXCEPT !.at = at])
      /\ (SetRow(eng.step[s].row, "stopped") \/ UNCHANGED rows)
  BY DEF Retry, EndedAt
<1>2. at \in {"stopped", "call"}
  OBVIOUS
<1> HIDE DEF at
<1>3. /\ eng'.at = eng.at /\ eng'.iter = eng.iter
      /\ eng'.step[s].at = at /\ eng'.step[s].row = eng.step[s].row
      /\ \A r \in Slot : r # s => eng'.step[r] = eng.step[r]
  BY <1>1, MovesAt
<1>4. StepFits(rows, journal, eng.iter, s, eng.step[s])
        => StepFits(rows, journal, eng.iter, s, eng'.step[s])
  BY <1>1, <1>2, <1>3 DEF StepFits, WorkingAt
<1>5. Kept(rows, rows')
  <2>1. eng.step[s].row \in 1..Len(rows)
    BY <1>1, StepAt DEF WorkingAt
  <2>2. QED BY <1>1, <2>1, SetRowKept, SameKept DEF RowsInv
<1>6. eng'.step[s].at # "idle"
  BY <1>2, <1>3
<1>7. QED BY <1>1, <1>3, <1>4, <1>5, <1>6, QuietMove

\* A step opens where its dimension has no verdict.
LEMMA OpenStepScore ==
  ASSUME RowsInv, ScoreInv, NEW s \in Slot, OpenStep(s) PROVE ScoreInv'
<1>1. eng.step[s].at = "queued" /\ UNCHANGED journal /\ eng.step[s].at \notin EndedAt
  BY DEF OpenStep, EndedAt
<1>2. CASE Stopped
  <2>1. UNCHANGED rows /\ MoveTo(s, [eng.step[s] EXCEPT !.at = "stopped"])
    BY <1>2 DEF OpenStep
  <2>2. /\ eng'.at = eng.at /\ eng'.iter = eng.iter /\ eng'.step[s].at = "stopped"
        /\ \A r \in Slot : r # s => eng'.step[r] = eng.step[r]
    BY <2>1, MovesAt
  <2>3. StepFits(rows, journal, eng.iter, s, eng'.step[s]) /\ eng'.step[s].at # "idle"
    BY <2>2 DEF StepFits, WorkingAt
  <2>4. QED BY <1>1, <2>1, <2>2, <2>3, SameKept, QuietMove
<1>3. CASE ~Stopped
  <2> DEFINE m == Len(rows) + 1
  <2>1. /\ AddRow(StepType(s), s, "running")
        /\ MoveTo(s, [eng.step[s] EXCEPT !.at = "call", !.row = m])
    BY <1>3 DEF OpenStep
  <2> HIDE DEF m
  <2>2. /\ eng'.at = eng.at /\ eng'.iter = eng.iter
        /\ eng'.step[s] = [eng.step[s] EXCEPT !.at = "call", !.row = m]
        /\ \A r \in Slot : r # s => eng'.step[r] = eng.step[r]
    BY <2>1, Moves
  <2>3. eng'.step[s].at = "call" /\ eng'.step[s].row = m
    <3>1. IsStep(eng.step[s])
      BY DEF RowsInv, Shape
    <3>2. PICK a, b, c, d : eng.step[s] = [at |-> a, row |-> b, k |-> c, reply |-> d]
      BY <3>1 DEF IsStep
    <3>3. ASSUME NEW t, t = [eng.step[s] EXCEPT !.at = "call", !.row = m]
          PROVE  t.at = "call" /\ t.row = m
      BY <3>2, <3>3
    <3>4. QED BY <2>2, <3>3
  <2>4. /\ eng.at # "record" /\ (eng.at \in EvaluatorsAt \/ s \notin Dimension)
        /\ s \in Dimension => /\ StepFits(rows, journal, eng.iter, s, eng.step[s])
                              /\ StepType(s) = "evaluate"
        /\ s \notin Dimension => StepType(s) \in {"plan", "implement"}
    BY <1>1, StepWhere DEF ScoreInv
  <2>5. /\ m \in Nat
        /\ \A e, n : ~(StepType(s) = "evaluate" /\ e = s /\ n = eng.iter) =>
             \A i \in 1..Len(rows) : LastRun(rows, i, e, n) => LastRun(rows', i, e, n)
        /\ StepType(s) = "evaluate" => LastRun(rows', m, s, eng.iter)
    BY <2>1, NewRowRuns DEF RowsInv, m
  <2>6. s \in Dimension => ~Verdict(journal, s, eng.iter)
    BY <1>1, <2>4 DEF StepFits
  <2>7. FactsInv'
    <3>1. StepType(s) = "evaluate" => s \in Dimension /\ ~Verdict(journal, s, eng.iter)
      BY <2>4, <2>6
    <3>2. QED BY <1>1, <2>1, <3>1, NewRowFacts DEF RowsInv, ScoreInv
  <2>8. s \in Dimension => StepFits(rows', journal', eng.iter, s, eng'.step[s])
    BY <1>1, <2>3, <2>4, <2>5, <2>6 DEF StepFits, WorkingAt
  <2>9. \A d \in Dimension : d # s =>
          \A i : LastRun(rows, i, d, eng.iter) => LastRun(rows', i, d, eng.iter)
    BY <2>5 DEF LastRun
  <2>10. eng'.step[s].at # "idle"
    BY <2>3
  <2>11. EvaluatingInv'
    BY <1>1, <2>2, <2>4, <2>8, <2>9, <2>10, SlotMoves DEF ScoreInv
  <2>12. QED BY <2>7, <2>11 DEF ScoreInv
<1>4. QED BY <1>2, <1>3

\* A line that is journaled is the first of its dimension the gate may take, and of
\* the dimension's last row.
LEMMA JournalLineScore ==
  ASSUME RowsInv, ScoreInv, NEW s \in Slot, JournalLine(s) PROVE ScoreInv'
<1> DEFINE r == eng.step[s].reply
<1>1. /\ eng.step[s].at = "replied" /\ UNCHANGED rows /\ IsSeq(journal)
      /\ eng.step[s].at \notin EndedAt /\ MoveTo(s, [eng.step[s] EXCEPT !.at = "gated"])
  BY DEF JournalLine, EndedAt, RowsInv, Shape
<1>2. /\ eng'.at = eng.at /\ eng'.iter = eng.iter
      /\ eng'.step[s].at = "gated" /\ eng'.step[s].row = eng.step[s].row
      /\ eng'.step[s].reply = eng.step[s].reply
      /\ \A q \in Slot : q # s => eng'.step[q] = eng.step[q]
  BY <1>1, MovesAt
<1>3. /\ eng.at # "record" /\ (eng.at \in EvaluatorsAt \/ s \notin Dimension)
      /\ s \in Dimension => /\ StepFits(rows, journal, eng.iter, s, eng.step[s])
                            /\ StepType(s) = "evaluate"
      /\ s \notin Dimension => StepType(s) \in {"plan", "implement"}
  BY <1>1, StepWhere DEF ScoreInv
<1>4. /\ s \in Dimension => ~Verdict(journal, s, eng.iter)
      /\ s \in Dimension => LastRun(rows, eng.step[s].row, s, eng.iter) /\ r.says # "none"
  BY <1>1, <1>3 DEF StepFits, WorkingAt
<1>5. CASE r.says = "nothing"
  <2>1. UNCHANGED journal
    BY <1>5 DEF JournalLine
  <2>2. r.gate # "valid"
    BY <1>1, <1>5 DEF RowsInv, StepsInv
  <2>3. s \in Dimension => StepFits(rows, journal, eng.iter, s, eng'.step[s])
    BY <1>2, <1>4, <2>2 DEF StepFits, WorkingAt
  <2>4. eng'.step[s].at # "idle"
    BY <1>2
  <2>5. QED BY <1>1, <1>2, <2>1, <2>3, <2>4, SameKept, QuietMove
<1>6. CASE r.says # "nothing"
  <2> DEFINE line == [type |-> StepType(s), iter |-> eng.iter, dim |-> s,
                      row |-> eng.step[s].row, gate |-> r.gate, says |-> r.says,
                      from |-> eng.iter]
  <2>1. journal' = Append(journal, line)
    BY <1>6 DEF JournalLine
  <2>2. /\ line.type = StepType(s) /\ line.iter = eng.iter /\ line.dim = s
        /\ line.row = eng.step[s].row /\ line.gate = r.gate /\ line.says = r.says
        /\ line.from = eng.iter
    OBVIOUS
  <2> HIDE DEF line
  <2>3. line.type # "commit" /\ (line.type = "evaluate" => s \in Dimension)
    BY <1>3, <2>2
  <2>4. FactsInv'
    <3>1. line.type = "evaluate" =>
            /\ line.dim \in Dimension /\ LastRun(rows, line.row, line.dim, line.iter)
            /\ ~Verdict(journal, line.dim, line.iter)
            /\ line.says # "none" /\ (line.from # line.iter => line.says = "pass")
      BY <1>4, <2>2, <2>3
    <3>2. QED BY <1>1, <2>1, <2>3, <3>1, NewLineFacts DEF RowsInv, ScoreInv
  <2>5. eng.iter \in Int
    BY DEF ScoreInv, EvaluatingInv, EvaluatorStepsInv
  <2>6. \A d \in Dimension :
          /\ Verdict(journal, d, eng.iter) => Verdict(journal', d, eng.iter)
          /\ PassedBefore(journal, d, eng.iter) => PassedBefore(journal', d, eng.iter)
          /\ d # s => (Verdict(journal', d, eng.iter) <=> Verdict(journal, d, eng.iter))
    BY <1>1, <2>1, <2>2, <2>5, VerdictGrows, PassesStay
  <2>7. s \in Dimension => (Verdict(journal', s, eng.iter) <=> r.gate = "valid")
    BY <1>1, <1>3, <1>4, <2>1, <2>2, VerdictGrows
  <2>8. s \in Dimension => StepFits(rows', journal', eng.iter, s, eng'.step[s])
    BY <1>1, <1>2, <1>4, <2>7 DEF StepFits, WorkingAt
  <2>9. eng'.step[s].at # "idle"
    BY <1>2
  <2>10. EvaluatingInv'
    BY <1>1, <1>2, <1>3, <2>6, <2>8, <2>9, SlotMoves DEF ScoreInv
  <2>11. QED BY <2>4, <2>10 DEF ScoreInv
<1>7. QED BY <1>5, <1>6

-----------------------------------------------------------------------------
(* The main thread.                                                        *)

NotCovering == {"off", "top", "plan", "planning", "implement", "implementing", "evaluate", "finish"}

\* Where nothing is said of what is covered, with the evaluators idle.
LEMMA Resting ==
  ASSUME ScoreInv, Kept(rows, rows'), UNCHANGED journal, eng'.at \in NotCovering,
         eng'.iter \in Nat, \A d \in Dimension : eng'.step[d].at = "idle"
  PROVE  ScoreInv'
<1>1. FactsInv'
  BY KeptFacts DEF ScoreInv
<1>2. RecordInv' /\ CoveredInv'
  BY NotCovered DEF NotCovering
<1>3. EvaluatingInv'
  BY <1>2, Rested
<1>4. QED BY <1>1, <1>3 DEF ScoreInv

LEMMA Finishing ==
  ASSUME RowsInv, ScoreInv, UNCHANGED <<rows, journal>>, NEW res, FinishAs(res)
  PROVE  ScoreInv'
<1>1. eng'.at = "finish" /\ eng'.iter = eng.iter /\ eng'.step = eng.step
  BY DEF FinishAs, RowsInv, Shape
<1>2. Kept(rows, rows')
  BY SameKept
<1>3. FactsInv'
  BY <1>2, KeptFacts DEF ScoreInv
<1>4. EvaluatorStepsInv'
  BY <1>1, <1>2, SameSteps DEF ScoreInv, EvaluatingInv, EvaluatorsAt
<1>5. RecordInv' /\ CoveredInv'
  BY <1>1, NotCovered
<1>6. QED BY <1>3, <1>4, <1>5 DEF ScoreInv, EvaluatingInv

LEMMA GoesTo ==
  ASSUME RowsInv, ScoreInv, NEW at, Goto(at), eng.at \notin EvaluatorsAt
  PROVE  /\ eng'.at = at /\ eng'.iter = eng.iter /\ eng.iter \in Nat
         /\ \A d \in Dimension : eng'.step[d].at = "idle"
<1>1. eng'.at = at /\ eng'.iter = eng.iter /\ eng'.step = eng.step
  BY DEF Goto, RowsInv, Shape
<1>2. QED BY <1>1 DEF ScoreInv, EvaluatingInv, EvaluatorStepsInv

LEMMA Dispatches ==
  ASSUME RowsInv, ScoreInv, NEW S, NEW at, Dispatch(S, at)
  PROVE  /\ eng'.at = at /\ eng'.iter = eng.iter /\ eng.iter \in Nat
         /\ \A d \in Dimension : eng'.step[d].at = IF d \in S THEN "queued" ELSE "idle"
<1> DEFINE step == [s \in Slot |-> IF s \in S THEN [NoStep EXCEPT !.at = "queued"] ELSE NoStep]
<1>1. eng' = [at |-> at, iter |-> eng.iter, runs |-> eng.runs, res |-> eng.res, step |-> step]
  BY DEF Dispatch, RowsInv, Shape
<1>2. ASSUME NEW d \in Dimension PROVE step[d].at = IF d \in S THEN "queued" ELSE "idle"
  BY ZeroSlot DEF NoStep
<1> HIDE DEF step
<1>3. QED BY <1>1, <1>2 DEF ScoreInv, EvaluatingInv, EvaluatorStepsInv

\* To where each dimension is judged, carried or at work.
LEMMA Covering ==
  ASSUME ScoreInv, UNCHANGED <<rows, journal>>, eng'.iter = eng.iter, eng'.at # "record",
         \A d \in Dimension :
           \/ eng'.step[d].at = "idle"
           \/ /\ eng'.at \in EvaluatorsAt /\ eng'.step[d].at = "queued"
              /\ ~Verdict(journal, d, eng.iter),
         CoveredInv'
  PROVE  ScoreInv'
<1>1. FactsInv'
  BY SameKept, KeptFacts DEF ScoreInv
<1>2. RecordInv'
  BY DEF RecordInv
<1>3. EvaluatingInv'
  BY <1>2, Rested DEF ScoreInv, EvaluatingInv, EvaluatorStepsInv
<1>4. QED BY <1>1, <1>3 DEF ScoreInv

LEMMA EvaluateScore == ASSUME RowsInv, ScoreInv, Evaluate PROVE ScoreInv'
<1>1. UNCHANGED <<rows, journal>>
  BY DEF Evaluate
<1>2. CASE Stopped
  BY <1>1, <1>2, Finishing DEF Evaluate
<1>3. CASE ~Stopped
  <2> DEFINE S == Dimension \ (Judged \cup Carried)
  <2>1. \A d \in Dimension : d \in S <=> ~Verdict(journal, d, eng.iter)
                                         /\ ~PassedBefore(journal, d, eng.iter)
    BY EngineReads
  <2>2. Dispatch(S, "evaluating")
    BY <1>3 DEF Evaluate
  <2> HIDE DEF S
  <2>3. /\ eng'.at = "evaluating" /\ eng'.iter = eng.iter
        /\ \A d \in Dimension : eng'.step[d].at = IF d \in S THEN "queued" ELSE "idle"
    BY <2>2, Dispatches
  <2>4. CoveredInv'
    BY <1>1, <2>1, <2>3 DEF CoveredInv
  <2>5. QED BY <1>1, <2>1, <2>3, <2>4, Covering DEF EvaluatorsAt
<1>4. QED BY <1>2, <1>3

LEMMA StageDoneScore == ASSUME RowsInv, ScoreInv, StageDone PROVE ScoreInv'
<1>1. UNCHANGED <<rows, journal>>
  BY DEF StageDone
<1>2. \A d \in Dimension : eng.step[d].at = "idle" \/ Verdict(journal, d, eng.iter)
  BY ZeroSlot DEF StageDone, AllDone, ScoreInv, EvaluatingInv, EvaluatorStepsInv, StepFits
<1>3. ASSUME NEW at \in NotCovering, Dispatch({}, at) PROVE ScoreInv'
  <2>1. /\ eng'.at = at /\ eng'.iter = eng.iter /\ eng.iter \in Nat
        /\ \A d \in Dimension : eng'.step[d].at = "idle"
    BY <1>3, Dispatches
  <2>2. QED BY <1>1, <2>1, SameKept, Resting
<1>4. ASSUME NEW at \in {"settle", "close"}, Dispatch({}, at),
             \A d \in Dimension :
               /\ at = "settle" => Verdict(journal, d, eng.iter) \/ PassedBefore(journal, d, eng.iter)
               /\ at = "close" => Verdict(journal, d, eng.iter)
      PROVE  ScoreInv'
  <2>1. /\ eng'.at = at /\ eng'.iter = eng.iter
        /\ \A d \in Dimension : eng'.step[d].at = "idle"
    BY <1>4, Dispatches
  <2>2. CoveredInv'
    BY <1>1, <1>4, <2>1 DEF CoveredInv
  <2>3. QED BY <1>1, <2>1, <2>2, Covering
<1>5. CASE eng.at = "planning"
  <2>1. FinishAs("completed") \/ Dispatch({}, "implement")
    BY <1>5 DEF StageDone
  <2>2. QED BY <1>1, <1>3, <2>1, Finishing DEF NotCovering
<1>6. CASE eng.at = "implementing"
  <2>1. Dispatch({}, "evaluate")
    BY <1>6 DEF StageDone
  <2>2. QED BY <1>3, <2>1 DEF NotCovering
<1>7. CASE eng.at = "evaluating"
  <2>1. \A d \in Dimension : Verdict(journal, d, eng.iter) \/ PassedBefore(journal, d, eng.iter)
    BY <1>2, <1>7 DEF ScoreInv, EvaluatingInv, CoveredInv
  <2>2. CASE Carried # {}
    <3>1. Dispatch({}, "settle")
      BY <1>7, <2>2 DEF StageDone
    <3>2. QED BY <1>4, <2>1, <3>1
  <2>3. CASE Carried = {}
    <3>1. Dispatch({}, "close")
      BY <1>7, <2>3 DEF StageDone
    <3>2. \A d \in Dimension : Verdict(journal, d, eng.iter)
      BY <2>1, <2>3, EngineReads
    <3>3. QED BY <1>4, <3>1, <3>2
  <2>4. QED BY <2>2, <2>3
<1>8. CASE eng.at = "rechecking"
  <2>1. Dispatch({}, "close")
    BY <1>8 DEF StageDone
  <2>2. \A d \in Dimension : Verdict(journal, d, eng.iter)
    BY <1>2, <1>8 DEF ScoreInv, EvaluatingInv, CoveredInv
  <2>3. QED BY <1>4, <2>1, <2>2
<1>9. QED BY <1>5, <1>6, <1>7, <1>8 DEF StageDone

LEMMA SettleScore == ASSUME RowsInv, ScoreInv, Settle PROVE ScoreInv'
<1>1. UNCHANGED <<rows, journal>> /\ eng.at = "settle"
  BY DEF Settle
<1>2. \A d \in Dimension : Verdict(journal, d, eng.iter) \/ PassedBefore(journal, d, eng.iter)
  BY <1>1 DEF ScoreInv, EvaluatingInv, CoveredInv
<1>3. CASE FinishAs("stopped")
  BY <1>1, <1>3, Finishing
<1>4. CASE Dispatch(Carried \ Judged, "rechecking")
  <2> DEFINE S == Carried \ Judged
  <2>1. \A d \in Dimension : d \in S <=> ~Verdict(journal, d, eng.iter)
                                         /\ PassedBefore(journal, d, eng.iter)
    BY EngineReads
  <2> HIDE DEF S
  <2>2. /\ eng'.at = "rechecking" /\ eng'.iter = eng.iter
        /\ \A d \in Dimension : eng'.step[d].at = IF d \in S THEN "queued" ELSE "idle"
    BY <1>4, Dispatches DEF S
  <2>3. CoveredInv'
    BY <1>1, <1>2, <2>1, <2>2 DEF CoveredInv
  <2>4. QED BY <1>1, <2>1, <2>2, <2>3, Covering DEF EvaluatorsAt
<1>5. CASE Goto("carry")
  <2>1. /\ eng'.at = "carry" /\ eng'.iter = eng.iter
        /\ \A d \in Dimension : eng'.step[d].at = "idle"
    BY <1>1, <1>5, GoesTo DEF EvaluatorsAt
  <2>2. CoveredInv'
    BY <1>1, <1>2, <2>1 DEF CoveredInv
  <2>3. QED BY <1>1, <2>1, <2>2, Covering
<1>6. QED BY <1>3, <1>4, <1>5 DEF Settle

LEMMA CarryRowScore == ASSUME RowsInv, ScoreInv, CarryRow PROVE ScoreInv'
<1>1. /\ UNCHANGED journal /\ eng.at = "carry" /\ Goto("record") /\ Shape
  BY DEF CarryRow, RowsInv
<1>2. PICK d \in Carried \ Judged : AddRow("evaluate", d, "completed")
  BY DEF CarryRow
<1>3. d \in Dimension
  BY DEF Carried
<1>4. ~Verdict(journal, d, eng.iter)
  BY <1>2, <1>3, EngineReads
<1>5. FactsInv'
  BY <1>1, <1>2, <1>3, <1>4, NewRowFacts DEF ScoreInv
<1>6. /\ eng'.at = "record" /\ eng'.iter = eng.iter /\ eng.iter \in Nat
      /\ \A e \in Dimension : eng'.step[e].at = "idle"
  BY <1>1, GoesTo DEF EvaluatorsAt
<1> DEFINE m == Len(rows) + 1
<1>7. /\ m \in Nat /\ Len(rows) \in Nat /\ Len(rows') = m /\ rows'[m].type = "evaluate"
      /\ rows'[m].dim = d /\ rows'[m].iter = eng.iter
  BY <1>1, <1>2, NewRowRuns DEF Shape, IsSeq
<1>8. m > 0
  BY <1>7
<1> HIDE DEF m
<1>9. RecordInv'
  BY <1>1, <1>3, <1>4, <1>6, <1>7, <1>8 DEF RecordInv
<1>10. CoveredInv'
  BY <1>1, <1>6 DEF ScoreInv, EvaluatingInv, CoveredInv
<1>11. EvaluatingInv'
  BY <1>6, <1>9, <1>10, Rested
<1>12. QED BY <1>5, <1>11 DEF ScoreInv

LEMMA CarryRecordScore == ASSUME RowsInv, ScoreInv, CarryRecord PROVE ScoreInv'
<1> DEFINE m == Len(rows)
           d == rows[m].dim
           line == [type |-> "evaluate", iter |-> eng.iter, dim |-> d, row |-> m,
                    gate |-> "valid", says |-> "pass", from |-> CarriedFrom(d)]
<1>1. /\ UNCHANGED rows /\ eng.at = "record" /\ Goto("carry") /\ Shape
      /\ journal' = Append(journal, line)
  BY DEF CarryRecord, RowsInv
<1>2. /\ line.type = "evaluate" /\ line.iter = eng.iter /\ line.dim = d /\ line.row = m
      /\ line.gate = "valid" /\ line.says = "pass"
  OBVIOUS
<1> HIDE DEF line
<1>3. /\ m > 0 /\ m \in Nat /\ Runs(rows, m, d, eng.iter) /\ d \in Dimension
      /\ ~Verdict(journal, d, eng.iter)
  BY <1>1 DEF ScoreInv, EvaluatingInv, RecordInv, Runs, Shape, IsSeq
<1>4. LastRun(rows, m, d, eng.iter)
  <2>1. m \in 1..m /\ \A k \in 1..m : k <= m
    BY <1>3
  <2>2. QED BY <1>3, <2>1 DEF LastRun
<1> HIDE DEF d, m
<1>5. FactsInv'
  BY <1>1, <1>2, <1>3, <1>4, NewLineFacts DEF ScoreInv
<1>6. /\ eng'.at = "carry" /\ eng'.iter = eng.iter /\ eng.iter \in Nat
      /\ \A e \in Dimension : eng'.step[e].at = "idle"
  BY <1>1, GoesTo DEF EvaluatorsAt
<1>7. RecordInv'
  BY <1>6 DEF RecordInv
<1>8. CoveredInv'
  <2>1. \A e \in Dimension : Verdict(journal, e, eng.iter) \/ PassedBefore(journal, e, eng.iter)
    BY <1>1 DEF ScoreInv, EvaluatingInv, CoveredInv
  <2>2. \A e \in Dimension : Verdict(journal', e, eng.iter) \/ PassedBefore(journal', e, eng.iter)
    BY <1>1, <1>2, <1>6, <2>1, VerdictGrows, PassesStay DEF Shape
  <2>3. QED BY <1>6, <2>2 DEF CoveredInv
<1>9. EvaluatingInv'
  BY <1>6, <1>7, <1>8, Rested
<1>10. QED BY <1>5, <1>9 DEF ScoreInv

\* An iteration is closed once every dimension has its verdict.
LEMMA CloseScore == ASSUME RowsInv, ScoreInv, Close PROVE ScoreInv'
<1>1. /\ UNCHANGED rows /\ Shape /\ eng.at \in {"close", "carry"}
      /\ (eng.at = "carry" => Carried \subseteq Judged)
  BY DEF Close, RowsInv
<1>2. CASE Stopped
  BY <1>2, Finishing DEF Close
<1>3. CASE ~Stopped
  <2> DEFINE line == [type |-> "commit", iter |-> eng.iter, dim |-> 0, row |-> 0,
                      gate |-> "valid", says |-> "nothing", from |-> eng.iter]
  <2>1. journal' = Append(journal, line)
    BY <1>3 DEF Close
  <2>2. line.type = "commit" /\ line.iter = eng.iter
    OBVIOUS
  <2> HIDE DEF line
  <2>3. \A d \in Dimension : Verdict(journal, d, eng.iter)
    <3>1. \A d \in Dimension : PassedBefore(journal, d, eng.iter) /\ eng.at = "carry"
                                 => Verdict(journal, d, eng.iter)
      BY <1>1, EngineReads
    <3>2. QED BY <1>1, <3>1 DEF ScoreInv, EvaluatingInv, CoveredInv
  <2>4. FactsInv'
    BY <1>1, <2>1, <2>2, <2>3, NewLineFacts DEF ScoreInv
  <2>5. eng'.at \in {"finish", "top"} /\ eng'.iter = eng.iter /\ eng'.step = eng.step
    BY <1>3 DEF Close, FinishAs, Goto, RowsInv, Shape
  <2>6. RecordInv' /\ CoveredInv'
    BY <2>5, NotCovered
  <2>7. EvaluatingInv'
    BY <1>1, <2>5, <2>6, Rested DEF ScoreInv, EvaluatingInv, EvaluatorStepsInv, EvaluatorsAt
  <2>8. QED BY <2>4, <2>7 DEF ScoreInv
<1>4. QED BY <1>2, <1>3

LEMMA NextIterationScore == ASSUME RowsInv, ScoreInv, NextIteration PROVE ScoreInv'
<1>1. UNCHANGED <<rows, journal>> /\ eng.at = "top"
  BY DEF NextIteration
<1>2. CASE Stopped
  BY <1>1, <1>2, Finishing DEF NextIteration
<1>3. CASE ~Stopped
  <2>1. eng'.at = "plan" /\ eng'.iter = eng.iter + 1 /\ eng'.step = eng.step
    BY <1>3 DEF NextIteration, RowsInv, Shape
  <2>2. eng'.iter \in Nat /\ \A d \in Dimension : eng'.step[d].at = "idle"
    BY <1>1, <2>1 DEF ScoreInv, EvaluatingInv, EvaluatorStepsInv, EvaluatorsAt
  <2>3. QED BY <1>1, <2>1, <2>2, SameKept, Resting DEF NotCovering
<1>4. QED BY <1>2, <1>3

LEMMA PlanScore == ASSUME RowsInv, ScoreInv, Plan \/ Implement PROVE ScoreInv'
<1>1. UNCHANGED <<rows, journal>> /\ eng.at \notin EvaluatorsAt
  BY DEF Plan, Implement, EvaluatorsAt
<1>2. \/ FinishAs("stopped") \/ FinishAs("completed")
      \/ Goto("implement") \/ Goto("evaluate")
      \/ Dispatch({0}, "planning") \/ Dispatch({0}, "implementing")
  BY DEF Plan, Implement
<1>3. ASSUME NEW at \in NotCovering, Goto(at) PROVE ScoreInv'
  <2>1. /\ eng'.at = at /\ eng'.iter = eng.iter /\ eng.iter \in Nat
        /\ \A d \in Dimension : eng'.step[d].at = "idle"
    BY <1>1, <1>3, GoesTo
  <2>2. QED BY <1>1, <2>1, SameKept, Resting
<1>4. ASSUME NEW at \in NotCovering, Dispatch({0}, at) PROVE ScoreInv'
  <2>1. /\ eng'.at = at /\ eng'.iter = eng.iter /\ eng.iter \in Nat
        /\ \A d \in Dimension : eng'.step[d].at = IF d \in {0} THEN "queued" ELSE "idle"
    BY <1>4, Dispatches
  <2>2. \A d \in Dimension : d \notin {0}
    BY LoopRowsAssumption DEF Dimension
  <2>3. \A d \in Dimension : eng'.step[d].at = "idle"
    BY <2>1, <2>2
  <2>4. QED BY <1>1, <2>1, <2>3, SameKept, Resting
<1>5. {"implement", "evaluate", "planning", "implementing"} \subseteq NotCovering
  BY DEF NotCovering
<1>6. QED BY <1>1, <1>2, <1>3, <1>4, <1>5, Finishing

LEMMA EndScore == ASSUME RowsInv, ScoreInv, Finish \/ Killed PROVE ScoreInv'
<1>1. UNCHANGED <<rows, journal>> /\ eng' = [Off EXCEPT !.runs = eng.runs]
  BY DEF Finish, Killed
<1>2. eng' = [at |-> "off", iter |-> 0, runs |-> eng.runs, res |-> "failed",
              step |-> [s \in Slot |-> NoStep]]
  BY <1>1, OffShape
<1>3. /\ eng'.at \in NotCovering /\ eng'.iter \in Nat
      /\ \A d \in Dimension : eng'.step[d].at = "idle"
  BY <1>2, OffShape, ZeroSlot DEF NotCovering
<1>4. QED BY <1>1, <1>3, SameKept, Resting

LEMMA StartRunScore == ASSUME RowsInv, ScoreInv, StartRun PROVE ScoreInv'
<1>1. UNCHANGED journal /\ Kept(rows, rows')
  BY StopRowsKept DEF StartRun, RowsInv
<1>2. eng' = [at |-> "top", iter |-> Closed, runs |-> eng.runs + 1, res |-> "failed",
              step |-> [s \in Slot |-> NoStep]]
  BY OffShape DEF StartRun
<1>3. Closed \in Nat
  <2>1. Lines("commit") \subseteq 1..Len(journal) /\ Len(journal) \in Nat
    BY DEF Lines, RowsInv, Shape, IsSeq
  <2>2. IsFiniteSet(Lines("commit"))
    <3>1. IsFiniteSet(1..Len(journal))
      BY <2>1, FS_Interval
    <3>2. QED BY <2>1, <3>1, FS_Subset
  <2>3. QED BY <2>2, FS_CardinalityType DEF Closed
<1>4. /\ eng'.at \in NotCovering /\ eng'.iter \in Nat
      /\ \A d \in Dimension : eng'.step[d].at = "idle"
  BY <1>2, <1>3, OffShape, ZeroSlot DEF NotCovering
<1>5. QED BY <1>1, <1>4, Resting

\* Whoever stops the rows alone.
LEMMA StopRowsScore ==
  ASSUME RowsInv, ScoreInv, StopRows, UNCHANGED <<journal, eng>> PROVE ScoreInv'
<1>1. Kept(rows, rows') /\ Len(rows) \in Nat
  BY StopRowsKept DEF RowsInv, Shape, IsSeq
<1>2. FactsInv'
  BY <1>1, KeptFacts DEF ScoreInv
<1>3. EvaluatorStepsInv'
  BY <1>1, SameSteps DEF ScoreInv, EvaluatingInv
<1>4. RecordInv'
  <2>1. Len(rows) > 0 => Len(rows) \in 1..Len(rows)
    BY <1>1
  <2>2. QED BY <1>1, <2>1 DEF ScoreInv, EvaluatingInv, RecordInv, Kept
<1>5. CoveredInv'
  BY DEF ScoreInv, EvaluatingInv, CoveredInv
<1>6. QED BY <1>2, <1>3, <1>4, <1>5 DEF ScoreInv, EvaluatingInv

LEMMA SameScore == ASSUME ScoreInv, UNCHANGED <<rows, journal, eng>> PROVE ScoreInv'
BY DEF ScoreInv, FactsInv, LinesInv, EvaluatorsInv, VerdictsInv, ClosedInv, EvaluatingInv,
       EvaluatorStepsInv, RecordInv, CoveredInv

LEMMA WriteScore ==
  ASSUME RowsInv, ScoreInv, Engine \/ Command \/ Killed
  PROVE  ScoreInv'
<1>1. CASE \E s \in Slot : \/ OpenStep(s) \/ StartAgentRun(s) \/ FinishAgentRun(s) \/ HitLimit(s)
                           \/ JournalLine(s) \/ Gate(s) \/ Retry(s)
  BY <1>1, OpenStepScore, StartAgentRunScore, FinishAgentRunScore, HitLimitScore,
     JournalLineScore, GateScore, RetryScore
<1>2. CASE Command
  <2>1. ASSUME UNCHANGED <<rows, journal, eng>> PROVE ScoreInv'
    BY <2>1, SameScore
  <2>2. QED BY <1>2, <2>1, StopRowsScore
            DEF Command, StopMarksLoop, StopMarksRows, Reconcile, ReconcileRows
<1>3. CASE StepsFail
  BY <1>3, Finishing DEF StepsFail
<1>4. QED BY <1>1, <1>2, <1>3, NextIterationScore, PlanScore, EvaluateScore, StageDoneScore,
             SettleScore, CarryRowScore, CarryRecordScore, CloseScore, EndScore DEF Engine

-----------------------------------------------------------------------------
(* A loop as it may be found.                                              *)

LEMMA NewLoopScore == ASSUME NewLoop PROVE ScoreInv
<1>1. Len(<<>>) = 0
  OBVIOUS
<1>2. /\ rows = <<>> /\ journal = <<>>
      /\ eng = [at |-> "off", iter |-> 0, runs |-> 0, res |-> "failed",
                step |-> [s \in Slot |-> NoStep]]
  BY OffShape DEF NewLoop
<1>3. FactsInv
  BY <1>1, <1>2 DEF FactsInv, LinesInv, EvaluatorsInv, VerdictsInv, ClosedInv
<1>4. \A d \in Dimension : eng.step[d].at = "idle"
  BY <1>2, OffShape, ZeroSlot
<1>5. EvaluatingInv
  BY <1>2, <1>4 DEF EvaluatingInv, EvaluatorStepsInv, StepFits, WorkingAt, RecordInv, CoveredInv
<1>6. QED BY <1>3, <1>5 DEF ScoreInv

LEMMA LaterLoopScore == ASSUME NEW verdicts \in FirstVerdicts, LaterLoop(verdicts) PROVE ScoreInv
<1> DEFINE n == NDims + 2
<1>1. /\ eng = [at |-> "off", iter |-> 0, runs |-> 0, res |-> "failed",
                step |-> [s \in Slot |-> NoStep]]
      /\ Len(rows) = n /\ Len(journal) = n + 1 /\ DOMAIN journal = 1..(n + 1)
      /\ journal[n + 1].type = "commit" /\ journal[n + 1].iter = 1
  BY LaterRows
<1>2. ASSUME NEW i \in 1..n
      PROVE  /\ rows[i].type = journal[i].type /\ rows[i].dim = journal[i].dim /\ rows[i].iter = 1
             /\ journal[i].type # "commit" /\ journal[i].row = i /\ journal[i].gate = "valid"
             /\ journal[i].iter = 1 /\ journal[i].from = 1
             /\ journal[i].type = "evaluate" <=> i > 2
             /\ i > 2 => journal[i].dim = i - 2 /\ journal[i].says \in {"pass", "fail"}
  BY LaterRows
<1>3. 1..n \subseteq 1..(n + 1) /\ \A k \in 1..(n + 1) : k = n + 1 \/ k \in 1..n
  BY LoopRowsAssumption
<1>4. /\ \A i \in 1..n : i > 2 => i - 2 \in Dimension
      /\ \A d \in Dimension : d + 2 \in 1..n /\ d + 2 > 2 /\ (d + 2) - 2 = d
  BY LoopRowsAssumption DEF Dimension
<1>5. \A d \in Dimension : verdicts[d] \in {"pass", "fail"}
  BY LoopRowsAssumption
<1> HIDE DEF n
<1>6. \A i \in 1..n : journal[i].type = "evaluate" =>
        /\ journal[i].dim \in Dimension /\ journal[i].says \in {"pass", "fail"}
  BY <1>1, <1>2, <1>4, <1>5
<1>7. LinesInv
  BY <1>1, <1>2, <1>3, <1>6 DEF LinesInv, Runs
<1>8. EvaluatorsInv
  BY <1>1, <1>2, <1>6 DEF EvaluatorsInv
<1>9. \A i, k \in 1..n :
        journal[i].type = "evaluate" /\ journal[k].type = "evaluate"
        /\ journal[i].dim = journal[k].dim => i = k
  <2>1. SUFFICES ASSUME NEW i \in 1..n, NEW k \in 1..n, journal[i].type = "evaluate",
                        journal[k].type = "evaluate", journal[i].dim = journal[k].dim
                 PROVE  i = k
    OBVIOUS
  <2>2. journal[i].dim = i - 2 /\ journal[k].dim = k - 2
    BY <1>2, <2>1
  <2>3. i \in Int /\ k \in Int
    OBVIOUS
  <2>4. i - 2 = k - 2
    BY <2>1, <2>2
  <2>5. QED BY <2>3, <2>4
<1>10. VerdictsInv
  <2>1. ASSUME NEW j \in 1..n, journal[j].type = "evaluate",
               NEW k \in Line(journal, journal[j].dim, journal[j].iter)
        PROVE  k <= j
    <3>1. k \in 1..n
      BY <1>1, <1>2, <1>3, <2>1 DEF Line
    <3>2. k = j
      BY <1>9, <2>1, <3>1 DEF Line
    <3>3. QED BY <3>1, <3>2
  <2>2. ASSUME NEW j \in 1..n, journal[j].type = "evaluate"
        PROVE  LastRun(rows, journal[j].row, journal[j].dim, journal[j].iter)
    <3>1. ASSUME NEW k \in 1..n, Runs(rows, k, journal[j].dim, journal[j].iter) PROVE k <= j
      <4>1. k = j
        BY <1>1, <1>2, <1>9, <2>2, <3>1 DEF Runs
      <4>2. QED BY <4>1
    <3>2. Runs(rows, j, journal[j].dim, journal[j].iter)
      BY <1>1, <1>2, <2>2 DEF Runs
    <3>3. QED BY <1>1, <1>2, <3>1, <3>2 DEF LastRun
  <2>3. \A j \in 1..Len(journal) : journal[j].type = "evaluate" => j \in 1..n
    BY <1>1, <1>2, <1>3
  <2>4. QED BY <2>1, <2>2, <2>3 DEF VerdictsInv
<1>11. ClosedInv
  <2>1. ASSUME NEW d \in Dimension PROVE Verdict(journal, d, 1)
    <3>1. /\ d + 2 \in DOMAIN journal /\ journal[d + 2].type = "evaluate"
          /\ journal[d + 2].dim = d /\ journal[d + 2].iter = 1 /\ journal[d + 2].gate = "valid"
      <4>1. d + 2 \in 1..n /\ d + 2 > 2 /\ (d + 2) - 2 = d
        BY <1>4
      <4>2. QED BY <1>1, <1>2, <1>3, <4>1
    <3>2. QED BY <3>1 DEF Verdict, Line
  <2>2. \A j \in 1..Len(journal) : journal[j].iter = 1
    BY <1>1, <1>2, <1>3
  <2>3. QED BY <2>1, <2>2 DEF ClosedInv
<1>12. \A d \in Dimension : eng.step[d].at = "idle"
  BY <1>1, <1>2, OffShape, ZeroSlot
<1>13. EvaluatingInv
  BY <1>1, <1>2, <1>12 DEF EvaluatingInv, EvaluatorStepsInv, StepFits, WorkingAt, RecordInv, CoveredInv
<1>14. QED BY <1>7, <1>8, <1>10, <1>11, <1>13 DEF ScoreInv, FactsInv

-----------------------------------------------------------------------------
(* The page.                                                               *)

\* How many dimensions the page knows of.
DimsInv == page.dims \in {0, NDims}

LEMMA DimsStep == ASSUME PageInv, DimsInv, [PageNext]_pageVars PROVE DimsInv'
<1>1. page = [at |-> page.at, by |-> page.by, loop |-> page.loop, rows |-> page.rows,
              journal |-> page.journal, runs |-> page.runs, dims |-> page.dims]
  BY DEF PageInv, PageShape
<1>2. CASE page' = Blank
  <2>1. page'.dims = 0
    BY <1>2 DEF Blank
  <2>2. QED BY <2>1 DEF DimsInv
<1>3. CASE UNCHANGED page
  BY <1>3 DEF DimsInv
<1>4. CASE LoadLoop \/ MarkDead \/ MarkDeadRows
  <2>1. page'.dims = page.dims
    BY <1>1, <1>4 DEF LoadLoop, MarkDead, MarkDeadRows
  <2>2. QED BY <2>1 DEF DimsInv
<1>5. CASE ReadRows
  <2>1. page'.dims = page.dims
    BY <1>1, <1>5 DEF ReadRows
  <2>2. QED BY <2>1 DEF DimsInv
<1>6. CASE ReadJournal
  <2>1. page'.dims = page.dims
    BY <1>1, <1>6 DEF ReadJournal
  <2>2. QED BY <2>1 DEF DimsInv
<1>7. CASE ReadRuns
  <2>1. PICK dims \in {0, NDims} :
          page' = [page EXCEPT !.at = "shown", !.runs = runs, !.dims = dims]
    BY <1>7 DEF ReadRuns
  <2>2. page'.dims = dims
    BY <1>1, <2>1
  <2>3. QED BY <2>2 DEF DimsInv
<1>8. QED BY <1>2, <1>3, <1>4, <1>5, <1>6, <1>7 DEF PageNext, Poll, Restart, pageVars

LEMMA ScoreStep ==
  ASSUME RowsInv, ScoreInv, [PageNext]_pageVars PROVE ScoreInv'
<1>1. ASSUME UNCHANGED <<rows, journal, eng>> PROVE ScoreInv'
  BY <1>1, SameScore
<1>2. CASE LoadLoop \/ MarkDead \/ MarkDeadRows
  BY <1>1, <1>2, StopRowsScore DEF LoadLoop, MarkDead, MarkDeadRows, rowVars
<1>3. CASE Restart
  BY <1>3, StartRunScore DEF Restart
<1>4. CASE Engine \/ Command \/ Killed
  BY <1>4, WriteScore
<1>5. CASE ReadRows \/ ReadJournal \/ ReadRuns \/ Poll \/ UNCHANGED pageVars
  BY <1>1, <1>5 DEF ReadRows, ReadJournal, ReadRuns, Poll, rowVars, pageVars
<1>6. QED BY <1>2, <1>3, <1>4, <1>5 DEF PageNext

\* The journal an engine leaves, and the rows of its lines.
THEOREM LoopScoreInvariant == PageSpec => [](RowsInv /\ ScoreInv /\ DimsInv)
<1>1. Init => ScoreInv /\ DimsInv
  BY NewLoopScore, LaterLoopScore DEF Init, RowsInit, DimsInv, Blank
<1>2. RowsInv /\ PageInv /\ ScoreInv /\ DimsInv /\ [PageNext]_pageVars => (ScoreInv /\ DimsInv)'
  BY ScoreStep, DimsStep
<1>3. QED BY <1>1, <1>2, LoopPageInvariant, PTL DEF PageSpec

-----------------------------------------------------------------------------
(* Counting.                                                               *)

\* As many as there are, one for one.
LEMMA SameSize ==
  ASSUME NEW S, IsFiniteSet(S), NEW f, NEW T, T = {f[x] : x \in S},
         \A x, y \in S : f[x] = f[y] => x = y
  PROVE  Cardinality(T) = Cardinality(S)
<1> DEFINE g == [x \in S |-> f[x]]
<1>1. g \in [S -> T] /\ \A x \in S : g[x] = f[x]
  OBVIOUS
<1>2. \A t \in T : \E x \in S : g[x] = t
  OBVIOUS
<1> HIDE DEF g
<1>3. DOMAIN g = S
  BY <1>1
<1>4. g \in Injection(S, T)
  BY <1>1, <1>3 DEF Injection, IsInjective
<1>5. g \in Surjection(S, T)
  BY <1>1, <1>2 DEF Surjection
<1>6. ExistsBijection(S, T)
  BY <1>4, <1>5 DEF ExistsBijection, Bijection
<1>7. QED BY <1>6, FS_Bijection

LEMMA DimensionCount == IsFiniteSet(Dimension) /\ Cardinality(Dimension) = NDims
<1>1. NDims \in Nat /\ NDims > 0
  BY LoopRowsAssumption
<1>2. IsFiniteSet(1..NDims) /\ Cardinality(1..NDims) = NDims
  BY <1>1, FS_Interval
<1>3. QED BY <1>2 DEF Dimension

\* The one valid line of a dimension in an iteration: its last one, of its last run.
LEMMA VerdictLine ==
  ASSUME Shape, FactsInv, NEW d \in Dimension, NEW n, Verdict(journal, d, n)
  PROVE  LET l == LastOf(ValidEvals(d, {n})) IN
         /\ ValidEvals(d, {n}) # {} /\ l \in 1..Len(journal)
         /\ journal[l].type = "evaluate" /\ journal[l].dim = d /\ journal[l].iter = n
         /\ journal[l].gate = "valid" /\ journal[l].says # "none"
         /\ journal[l].from # n => journal[l].says = "pass"
         /\ \A k \in Line(journal, d, n) : k <= l
         /\ LastRun(rows, journal[l].row, d, n)
<1>1. DOMAIN journal = 1..Len(journal) /\ Len(journal) \in Nat
  BY DEF Shape, IsSeq
<1>2. PICK l \in Line(journal, d, n) : journal[l].gate = "valid"
  BY DEF Verdict
<1>3. /\ l \in 1..Len(journal) /\ journal[l].type = "evaluate" /\ journal[l].dim = d
      /\ journal[l].iter = n
  BY <1>1, <1>2 DEF Line
<1>4. /\ \A k \in Line(journal, d, n) : k <= l
      /\ LastRun(rows, journal[l].row, d, n)
      /\ journal[l].says # "none" /\ (journal[l].from # n => journal[l].says = "pass")
  BY <1>2, <1>3 DEF FactsInv, VerdictsInv, LinesInv
<1>5. l \in ValidEvals(d, {n}) /\ ValidEvals(d, {n}) \subseteq Line(journal, d, n)
  BY <1>1, <1>2, <1>3 DEF ValidEvals, Lines, Line
<1>6. LastOf(ValidEvals(d, {n})) = l
  <2>1. ValidEvals(d, {n}) \subseteq Nat
    <3>1. ValidEvals(d, {n}) \subseteq DOMAIN journal
      BY DEF ValidEvals, Lines
    <3>2. \A k \in 1..Len(journal) : k \in Nat
      BY <1>1
    <3>3. QED BY <1>1, <3>1, <3>2
  <2>2. \A k \in ValidEvals(d, {n}) : k <= l
    BY <1>4, <1>5
  <2>3. QED BY <1>5, <2>1, <2>2, LastIs
<1>7. QED BY <1>2, <1>3, <1>4, <1>5, <1>6

\* Of an iteration with a verdict of every dimension, L has the lines and R their rows.
Verdicts(n, L, R) ==
  \A d \in Dimension :
    /\ ValidEvals(d, {n}) # {} /\ L[d] = LastOf(ValidEvals(d, {n})) /\ L[d] \in 1..Len(journal)
    /\ journal[L[d]].type = "evaluate" /\ journal[L[d]].dim = d /\ journal[L[d]].iter = n
    /\ journal[L[d]].says # "none" /\ (journal[L[d]].from # n => journal[L[d]].says = "pass")
    /\ \A k \in Line(journal, d, n) : k <= L[d]
    /\ R[d] = journal[L[d]].row /\ LastRun(rows, R[d], d, n)

LEMMA ClosedVerdicts ==
  ASSUME Shape, FactsInv, NEW n,
         \E j \in DOMAIN journal : journal[j].type = "commit" /\ journal[j].iter = n
  PROVE  \E L, R : Verdicts(n, L, R)
<1> DEFINE L == [d \in Dimension |-> LastOf(ValidEvals(d, {n}))]
           R == [d \in Dimension |-> journal[L[d]].row]
<1>1. \A d \in Dimension : L[d] = LastOf(ValidEvals(d, {n})) /\ R[d] = journal[L[d]].row
  OBVIOUS
<1> HIDE DEF L, R
<1>2. \A d \in Dimension : Verdict(journal, d, n)
  BY DEF FactsInv, ClosedInv, Shape, IsSeq
<1>3. ASSUME NEW d \in Dimension
      PROVE  /\ ValidEvals(d, {n}) # {} /\ L[d] \in 1..Len(journal)
             /\ journal[L[d]].type = "evaluate" /\ journal[L[d]].dim = d
             /\ journal[L[d]].iter = n /\ journal[L[d]].says # "none"
             /\ journal[L[d]].from # n => journal[L[d]].says = "pass"
             /\ \A k \in Line(journal, d, n) : k <= L[d]
             /\ LastRun(rows, R[d], d, n)
  BY <1>1, <1>2, VerdictLine
<1>4. Verdicts(n, L, R)
  BY <1>1, <1>3 DEF Verdicts
<1>5. QED BY <1>4

\* A page that is the whole truth.
WholePage ==
  /\ Steps = ShownRows(loop, rows) /\ page.journal = journal
  /\ loop.status # "running" /\ page.dims \in {0, NDims}

LEMMA ShownSteps ==
  ASSUME Shape, WholePage
  PROVE  /\ DOMAIN Steps = 1..Len(rows)
         /\ \A i \in 1..Len(rows) :
              /\ Steps[i].type = rows[i].type /\ Steps[i].dim = rows[i].dim
              /\ Steps[i].iter = rows[i].iter /\ Steps[i].status # "running"
<1>1. DOMAIN rows = 1..Len(rows)
  BY DEF Shape, IsSeq
<1>2. Steps = [i \in 1..Len(rows) |-> [rows[i] EXCEPT !.status = ShownStatus(loop, rows[i])]]
  BY <1>1 DEF WholePage, ShownRows
<1> HIDE DEF Steps
<1>3. ASSUME NEW i \in 1..Len(rows)
      PROVE  /\ Steps[i].type = rows[i].type /\ Steps[i].dim = rows[i].dim
             /\ Steps[i].iter = rows[i].iter /\ Steps[i].status # "running"
  <2>1. IsRow(rows[i]) /\ Steps[i] = [rows[i] EXCEPT !.status = ShownStatus(loop, rows[i])]
    BY <1>2 DEF Shape
  <2>2. Steps[i] = [iter |-> rows[i].iter, type |-> rows[i].type, dim |-> rows[i].dim,
                    status |-> ShownStatus(loop, rows[i])]
    BY <2>1 DEF IsRow
  <2>3. ShownStatus(loop, rows[i]) # "running"
    BY DEF ShownStatus, WholePage
  <2>4. QED BY <2>2, <2>3
<1>4. DOMAIN Steps = 1..Len(rows)
  BY <1>2
<1>5. QED BY <1>3, <1>4

\* The last run of a dimension is shown with its verdict, which is the one in its cell.
LEMMA ShownVerdict ==
  ASSUME Shape, FactsInv, WholePage, NEW n, NEW L, NEW R, Verdicts(n, L, R),
         NEW d \in Dimension
  PROVE  /\ VerdictOf(R[d]) = journal[L[d]].says
         /\ CarriedOver(R[d]) <=> journal[L[d]].from # n
         /\ Cell(d, n) = L[d] /\ L[d] # 0
<1>1. /\ page.journal = journal /\ DOMAIN journal = 1..Len(journal) /\ Len(journal) \in Nat
      /\ \A k \in 1..Len(journal) : k \in Nat
  BY DEF WholePage, Shape, IsSeq
<1>2. /\ L[d] \in 1..Len(journal) /\ R[d] = journal[L[d]].row /\ journal[L[d]].iter = n
      /\ L[d] \in Line(journal, d, n) /\ \A k \in Line(journal, d, n) : k <= L[d]
      /\ R[d] \in 1..Len(rows) /\ Runs(rows, R[d], d, n)
  BY <1>1 DEF Verdicts, LastRun, Line
<1>3. L[d] # 0
  BY <1>1, <1>2
<1>4. Cell(d, n) = L[d]
  <2> DEFINE is == {j \in DOMAIN page.journal : /\ page.journal[j].type = "evaluate"
                                                /\ page.journal[j].dim = d
                                                /\ page.journal[j].iter = n}
  <2>1. is = Line(journal, d, n)
    BY <1>1 DEF Line
  <2>2. is \subseteq Nat
    BY <1>1
  <2> HIDE DEF is
  <2>3. LastOf(is) = L[d] /\ is # {}
    BY <1>2, <2>1, <2>2, LastIs
  <2>4. Cell(d, n) = LastOf(is)
    BY <2>3 DEF Cell, is
  <2>5. QED BY <2>3, <2>4
<1>5. RecordOf(R[d]) = L[d]
  <2> DEFINE is == {j \in DOMAIN page.journal : page.journal[j].type = "evaluate"
                                                  /\ page.journal[j].row = R[d]}
  <2>1. \A j \in is : j \in Line(journal, d, n)
    <3>1. ASSUME NEW j \in 1..Len(journal), journal[j].type = "evaluate", journal[j].row = R[d]
          PROVE  journal[j].dim = d /\ journal[j].iter = n
      <4>1. Runs(rows, R[d], journal[j].dim, journal[j].iter)
        BY <3>1 DEF FactsInv, LinesInv
      <4>2. QED BY <1>2, <4>1 DEF Runs
    <3>2. QED BY <1>1, <3>1 DEF Line
  <2>2. is \subseteq Nat
    BY <1>1
  <2>3. L[d] \in is
    BY <1>1, <1>2 DEF Line
  <2> HIDE DEF is
  <2>4. LastOf(is) = L[d] /\ is # {}
    BY <1>2, <2>1, <2>2, <2>3, LastIs
  <2>5. RecordOf(R[d]) = LastOf(is)
    BY <2>4 DEF RecordOf, is
  <2>6. QED BY <2>4, <2>5
<1>6. Steps[R[d]].type = "evaluate" /\ Steps[R[d]].status # "running"
  BY <1>2, ShownSteps DEF Runs
<1>7. Recorded(R[d])
  BY <1>3, <1>5, <1>6 DEF Recorded
<1>8. VerdictOf(R[d]) = journal[L[d]].says /\ (CarriedOver(R[d]) <=> journal[L[d]].from # n)
  BY <1>1, <1>2, <1>5, <1>7 DEF VerdictOf, CarriedOver
<1>9. QED BY <1>3, <1>4, <1>8

\* The rows of them are the last evaluators to begin, and the last that are judged.
LEMMA LastEvaluators ==
  ASSUME Shape, FactsInv, WholePage, NEW n, NEW L, NEW R, Verdicts(n, L, R)
  PROVE  LET latest(is) == {i \in is : \A j \in is : Steps[j].dim = Steps[i].dim => j <= i}
             judged == {i \in Evaluators(n) : VerdictOf(i) # "none"}
         IN  /\ latest(Evaluators(n)) = {R[d] : d \in Dimension}
             /\ latest(judged) = {R[d] : d \in Dimension}
<1> DEFINE E == Evaluators(n)
           judged == {i \in E : VerdictOf(i) # "none"}
           latest(is) == {i \in is : \A j \in is : Steps[j].dim = Steps[i].dim => j <= i}
<1>1. /\ DOMAIN Steps = 1..Len(rows) /\ Len(rows) \in Nat
      /\ \A i \in 1..Len(rows) : i \in Nat
      /\ \A i \in 1..Len(rows) :
           Steps[i].type = rows[i].type /\ Steps[i].dim = rows[i].dim /\ Steps[i].iter = rows[i].iter
  BY ShownSteps DEF Shape
<1>2. \A i : i \in E <=> i \in 1..Len(rows) /\ rows[i].type = "evaluate" /\ rows[i].iter = n
  BY <1>1 DEF Evaluators, Members
<1>3. \A d \in Dimension : R[d] \in E /\ Steps[R[d]].dim = d
  BY <1>1, <1>2 DEF Verdicts, LastRun, Runs
<1>4. \A i \in E : i \in Nat /\ Steps[i].dim \in Dimension
  BY <1>1, <1>2 DEF FactsInv, EvaluatorsInv
<1>5. \A i \in E : i <= R[Steps[i].dim]
  <2>1. ASSUME NEW i \in E PROVE i <= R[Steps[i].dim]
    <3>1. Runs(rows, i, Steps[i].dim, n) /\ i \in 1..Len(rows)
      BY <1>1, <1>2 DEF Runs
    <3>2. QED BY <1>4, <3>1 DEF Verdicts, LastRun
  <2>2. QED BY <2>1
<1>6. \A d \in Dimension : R[d] \in judged
  <2>1. ASSUME NEW d \in Dimension PROVE VerdictOf(R[d]) # "none"
    <3>1. VerdictOf(R[d]) = journal[L[d]].says
      BY ShownVerdict
    <3>2. QED BY <3>1 DEF Verdicts
  <2>2. QED BY <1>3, <2>1
<1>7. judged \subseteq E
  OBVIOUS
<1> HIDE DEF E, judged
<1>8. ASSUME NEW S \in SUBSET E, \A d \in Dimension : R[d] \in S
      PROVE  latest(S) = {R[d] : d \in Dimension}
  <2>1. ASSUME NEW d \in Dimension PROVE R[d] \in latest(S)
    BY <1>3, <1>4, <1>5, <1>8, <2>1
  <2>2. ASSUME NEW i \in latest(S) PROVE \E d \in Dimension : i = R[d]
    <3>1. i \in E /\ Steps[i].dim \in Dimension /\ R[Steps[i].dim] \in S
      BY <1>4, <1>8
    <3>2. Steps[R[Steps[i].dim]].dim = Steps[i].dim
      BY <1>3, <3>1
    <3>3. R[Steps[i].dim] <= i
      BY <3>1, <3>2
    <3>4. i <= R[Steps[i].dim] /\ i \in Nat /\ R[Steps[i].dim] \in Nat
      BY <1>3, <1>4, <1>5, <3>1
    <3>5. i = R[Steps[i].dim]
      BY <3>3, <3>4
    <3>6. QED BY <3>1, <3>5
  <2>3. QED BY <2>1, <2>2
<1>9. latest(E) = {R[d] : d \in Dimension} /\ latest(judged) = {R[d] : d \in Dimension}
  BY <1>3, <1>6, <1>7, <1>8
<1>10. QED BY <1>9 DEF E, judged

\* What the page and the heatmap count is what the engine reads.
LEMMA ClosedScore ==
  ASSUME Shape, FactsInv, WholePage, NEW n,
         \E j \in DOMAIN journal : journal[j].type = "commit" /\ journal[j].iter = n
  PROVE  LET passed == {d \in Dimension : Passed(d, {n})}
             carried == {d \in passed : journal[LastOf(ValidEvals(d, {n}))].from # n}
         IN  /\ IterationPassing(n) = [passed |-> Cardinality(passed), total |-> NDims,
                                        carried |-> Cardinality(carried)]
             /\ HeatmapPassing(n) = [passed |-> Cardinality(passed),
                                      carried |-> Cardinality(carried)]
<1>1. PICK L, R : Verdicts(n, L, R)
  BY ClosedVerdicts
<1> DEFINE passed == {d \in Dimension : Passed(d, {n})}
           carried == {d \in passed : journal[LastOf(ValidEvals(d, {n}))].from # n}
           judged == {i \in Evaluators(n) : VerdictOf(i) # "none"}
           latest(is) == {i \in is : \A j \in is : Steps[j].dim = Steps[i].dim => j <= i}
           cells == {Cell(d, n) : d \in Dimension} \ {0}
<1>2. /\ passed = {d \in Dimension : journal[L[d]].says = "pass"}
      /\ carried = {d \in Dimension : journal[L[d]].from # n}
      /\ \A x, y \in Dimension : L[x] = L[y] => x = y
      /\ \A x, y \in Dimension : R[x] = R[y] => x = y
  <2>1. \A d \in Dimension : /\ Passed(d, {n}) <=> journal[L[d]].says = "pass"
                             /\ L[d] = LastOf(ValidEvals(d, {n}))
                             /\ journal[L[d]].from # n => journal[L[d]].says = "pass"
    BY <1>1 DEF Verdicts, Passed
  <2>2. passed = {d \in Dimension : journal[L[d]].says = "pass"}
    BY <2>1
  <2>3. carried = {d \in Dimension : journal[L[d]].from # n}
    BY <2>1
  <2>4. \A x, y \in Dimension : L[x] = L[y] => x = y
    BY <1>1 DEF Verdicts
  <2>5. \A x, y \in Dimension : R[x] = R[y] => x = y
    BY <1>1 DEF Verdicts, LastRun, Runs
  <2>6. QED BY <2>2, <2>3, <2>4, <2>5
<1>3. \A d \in Dimension : /\ VerdictOf(R[d]) = journal[L[d]].says
                           /\ CarriedOver(R[d]) <=> journal[L[d]].from # n
                           /\ Cell(d, n) = L[d] /\ L[d] # 0
  BY <1>1, ShownVerdict
<1>4. latest(Evaluators(n)) = {R[d] : d \in Dimension} /\ latest(judged) = {R[d] : d \in Dimension}
  BY <1>1, LastEvaluators
<1>5. IsFiniteSet(Dimension) /\ Cardinality(Dimension) = NDims /\ NDims \in Nat
  BY DimensionCount, LoopRowsAssumption
<1>6. passed \in SUBSET Dimension /\ carried \in SUBSET Dimension
  OBVIOUS
<1>7. IsFiniteSet(passed) /\ IsFiniteSet(carried)
  BY <1>5, <1>6, FS_Subset
<1>8. page.journal = journal /\ page.dims \in {0, NDims}
  BY DEF WholePage
<1> DEFINE passedRows == {i \in latest(judged) : VerdictOf(i) = "pass"}
           carriedRows == {i \in latest(Evaluators(n)) : CarriedOver(i)}
           passedCells == {j \in cells : page.journal[j].says = "pass"}
           carriedCells == {j \in cells : page.journal[j].from # n}
<1>9. IterationPassing(n) =
        [passed |-> Cardinality(passedRows),
         total |-> IF page.dims > Cardinality(latest(Evaluators(n))) THEN page.dims
                   ELSE Cardinality(latest(Evaluators(n))),
         carried |-> Cardinality(carriedRows)]
  BY DEF IterationPassing
<1>10. HeatmapPassing(n) = [passed |-> Cardinality(passedCells),
                            carried |-> Cardinality(carriedCells)]
  BY DEF HeatmapPassing
<1>11. cells = {L[d] : d \in Dimension}
  BY <1>3
<1> HIDE DEF passed, carried, judged, latest, cells
<1>12. passedRows = {R[d] : d \in passed} /\ carriedRows = {R[d] : d \in carried}
  BY <1>2, <1>3, <1>4
<1>13. passedCells = {L[d] : d \in passed} /\ carriedCells = {L[d] : d \in carried}
  BY <1>2, <1>8, <1>11
<1>14. latest(Evaluators(n)) = {R[d] : d \in Dimension}
  BY <1>4
<1> HIDE DEF passedRows, carriedRows, passedCells, carriedCells
<1>15. /\ \A x, y \in passed : (L[x] = L[y] => x = y) /\ (R[x] = R[y] => x = y)
       /\ \A x, y \in carried : (L[x] = L[y] => x = y) /\ (R[x] = R[y] => x = y)
  BY <1>2, <1>6
<1>16. Cardinality(passedRows) = Cardinality(passed) /\ Cardinality(passedCells) = Cardinality(passed)
  BY <1>7, <1>12, <1>13, <1>15, SameSize
<1>17. /\ Cardinality(carriedRows) = Cardinality(carried)
       /\ Cardinality(carriedCells) = Cardinality(carried)
  BY <1>7, <1>12, <1>13, <1>15, SameSize
<1>18. Cardinality(latest(Evaluators(n))) = NDims
  BY <1>2, <1>5, <1>14, SameSize
<1>19. (IF page.dims > Cardinality(latest(Evaluators(n))) THEN page.dims
        ELSE Cardinality(latest(Evaluators(n)))) = NDims
  BY <1>5, <1>8, <1>18
<1>20. /\ IterationPassing(n) = [passed |-> Cardinality(passed), total |-> NDims,
                                  carried |-> Cardinality(carried)]
       /\ HeatmapPassing(n) = [passed |-> Cardinality(passed), carried |-> Cardinality(carried)]
  BY <1>9, <1>10, <1>16, <1>17, <1>19
<1>21. QED BY <1>20 DEF passed, carried

\* However evaluators were rejected, cut off, stopped and run again, and however the
\* passes were carried over or checked again, the page of a loop that completed or
\* failed scores each closed iteration, in its table and in its heatmap, as the
\* engine does when it decides what to carry (loop_views.py, loop_engine.py).
THEOREM ScoreStays == PageSpec => []ScoreTrue
<1>1. ASSUME RowsInv, ScoreInv, DimsInv, FinalLoopPageTrue
      PROVE  ScoreTrue
  <2>1. SUFFICES ASSUME Final, NEW n \in Iterations,
                        \E j \in DOMAIN page.journal :
                          page.journal[j].type = "commit" /\ page.journal[j].iter = n
        PROVE  LET passed == {d \in Dimension : Passed(d, {n})}
                   carried == {d \in passed : journal[LastOf(ValidEvals(d, {n}))].from # n}
               IN  /\ IterationPassing(n) = [passed |-> Cardinality(passed), total |-> NDims,
                                              carried |-> Cardinality(carried)]
                   /\ HeatmapPassing(n) = [passed |-> Cardinality(passed),
                                            carried |-> Cardinality(carried)]
    BY DEF ScoreTrue
  <2>2. WholePage
    BY <1>1, <2>1 DEF FinalLoopPageTrue, Final, WholePage, DimsInv
  <2>3. \E j \in DOMAIN journal : journal[j].type = "commit" /\ journal[j].iter = n
    BY <2>1, <2>2 DEF WholePage
  <2>4. Shape /\ FactsInv
    BY <1>1 DEF RowsInv, ScoreInv
  <2>5. QED BY <2>2, <2>3, <2>4, ClosedScore
<1>2. QED BY <1>1, LoopScoreInvariant, FinalLoopPageStays, PTL

-----------------------------------------------------------------------------
(* What the iterations add up to.                                          *)

\* A least subset among some of a finite set's.
LEMMA LeastSubset ==
  ASSUME NEW S, IsFiniteSet(S), NEW B, B \subseteq SUBSET S, B # {}
  PROVE  \E s \in B : \A x \in s : s \ {x} \notin B
<1> DEFINE T == {Cardinality(s) : s \in B}
<1>1. \A s \in B : IsFiniteSet(s) /\ Cardinality(s) \in Nat
  BY FS_Subset, FS_CardinalityType
<1>2. T \subseteq Nat /\ T # {}
  BY <1>1
<1>3. PICK m \in T : \A l \in T : m <= l
  BY <1>2, LeastExists
<1>4. PICK s \in B : m = Cardinality(s)
  OBVIOUS
<1>5. ASSUME NEW x \in s, s \ {x} \in B PROVE FALSE
  <2>1. Cardinality(s \ {x}) = Cardinality(s) - 1 /\ Cardinality(s) \in Nat
    BY <1>1, FS_RemoveElement
  <2>2. Cardinality(s) <= Cardinality(s \ {x})
    BY <1>3, <1>4, <1>5
  <2>3. QED BY <2>1, <2>2
<1>6. QED BY <1>5

\* The sum over the parts of a set of how many elements each has.
LEMMA SumOfParts ==
  ASSUME NEW C, IsFiniteSet(C), NEW part, NEW h, IsFiniteSet(DOMAIN h),
         \A n \in DOMAIN h : h[n] = Cardinality({c \in C : part[c] = n}),
         \A c \in C : part[c] \in DOMAIN h
  PROVE  SumFunction(h) = Cardinality(C)
<1> DEFINE I == DOMAIN h
           sum(g) == [s \in SUBSET I |->
                        IF s = {} THEN 0
                        ELSE LET x == CHOOSE x \in s : TRUE IN h[x] + g[s \ {x}]]
           of(s) == {c \in C : part[c] \in s}
           count == [s \in SUBSET I |-> Cardinality(of(s))]
           iter == CHOOSE g : g = sum(g)
<1>1. \A s : IsFiniteSet(of(s)) /\ Cardinality(of(s)) \in Nat
  <2>1. \A s : of(s) \in SUBSET C
    OBVIOUS
  <2> HIDE DEF of
  <2>2. QED BY <2>1, FS_Subset, FS_CardinalityType
<1>2. ASSUME NEW s \in SUBSET I, NEW x \in s
      PROVE  Cardinality(of(s)) = h[x] + Cardinality(of(s \ {x}))
  <2> DEFINE P == {c \in C : part[c] = x}
  <2>1. of(s) = P \cup of(s \ {x}) /\ P \cap of(s \ {x}) = {} /\ P = of({x})
    OBVIOUS
  <2>2. h[x] = Cardinality(P)
    OBVIOUS
  <2> HIDE DEF P, of
  <2>3. IsFiniteSet(P) /\ Cardinality(P) \in Nat
    BY <1>1, <2>1
  <2>4. Cardinality(of(s)) = Cardinality(P) + Cardinality(of(s \ {x})) - Cardinality({})
    BY <1>1, <2>1, <2>3, FS_Union
  <2>5. QED BY <1>1, <2>2, <2>3, <2>4, FS_EmptySet
<1>3. of({}) = {} /\ of(I) = C
  OBVIOUS
<1> HIDE DEF of
<1>4. count = sum(count)
  <2>1. ASSUME NEW s \in SUBSET I
        PROVE  count[s] = IF s = {} THEN 0
                          ELSE LET x == CHOOSE x \in s : TRUE IN h[x] + count[s \ {x}]
    <3>1. CASE s = {}
      BY <1>3, <3>1, FS_EmptySet
    <3>2. CASE s # {}
      <4> DEFINE x == CHOOSE x \in s : TRUE
      <4>1. x \in s
        BY <3>2
      <4> HIDE DEF x
      <4>2. count[s] = h[x] + count[s \ {x}]
        BY <1>2, <4>1
      <4>3. QED BY <3>2, <4>2 DEF x
    <3>3. QED BY <3>1, <3>2
  <2> HIDE DEF count
  <2>2. count = [s \in SUBSET I |-> count[s]]
    BY DEF count
  <2>3. QED BY <2>1, <2>2
<1>5. iter = sum(iter)
  <2> HIDE DEF sum, count
  <2>1. \E g : g = sum(g)
    BY <1>4
  <2>2. QED BY <2>1
<1> HIDE DEF iter
<1>6. \A s \in SUBSET I : iter[s] = count[s]
  <2> DEFINE B == {s \in SUBSET I : iter[s] # count[s]}
  <2>1. SUFFICES ASSUME B # {} PROVE FALSE
    OBVIOUS
  <2>2. PICK s \in B : \A x \in s : s \ {x} \notin B
    <3>1. B \subseteq SUBSET I
      OBVIOUS
    <3> HIDE DEF B
    <3>2. QED BY <2>1, <3>1, LeastSubset
  <2>3. CASE s = {}
    <3>1. iter[s] = 0
      BY <1>5, <2>3
    <3>2. count[s] = 0
      BY <1>3, <2>3, FS_EmptySet
    <3>3. QED BY <3>1, <3>2
  <2>4. CASE s # {}
    <3> DEFINE x == CHOOSE x \in s : TRUE
    <3>1. x \in s
      BY <2>4
    <3>2. iter[s] = h[x] + iter[s \ {x}]
      BY <1>5, <2>4
    <3> HIDE DEF x
    <3>3. iter[s \ {x}] = count[s \ {x}]
      BY <2>2, <3>1
    <3>4. count[s] = h[x] + count[s \ {x}]
      BY <1>2, <3>1
    <3>5. QED BY <3>2, <3>3, <3>4
  <2>5. QED BY <2>3, <2>4
<1>7. SumFunction(h) = iter[I]
  BY DEF SumFunction, SumFunctionOnSet, FoldFunctionOnSet, MapThenFoldSet, iter
<1>8. QED BY <1>3, <1>6, <1>7

\* The agent calls of a row are a sequence.
CallsInv == \A i \in 1..Len(runs) : IsSeq(runs[i])

LEMMA ReplacedSeq ==
  ASSUME CallsInv, Shape, NEW i \in 1..Len(runs), NEW t, IsSeq(t), runs' = [runs EXCEPT ![i] = t]
  PROVE  CallsInv'
<1>1. IsSeq(runs)
  BY DEF Shape
<1>2. Len(runs') = Len(runs) /\ runs'[i] = t /\ \A j \in 1..Len(runs) : j # i => runs'[j] = runs[j]
  BY <1>1, Changed
<1>3. QED BY <1>2 DEF CallsInv

LEMMA NewRowCalls ==
  ASSUME CallsInv, Shape, NEW type, NEW d, NEW s, AddRow(type, d, s) PROVE CallsInv'
<1>1. IsSeq(runs) /\ runs' = Append(runs, <<>>)
  BY DEF Shape, AddRow
<1>2. /\ Len(runs) \in Nat /\ Len(runs') = Len(runs) + 1 /\ runs'[Len(runs) + 1] = <<>>
      /\ \A i \in 1..Len(runs) : runs'[i] = runs[i]
  BY <1>1, Appended DEF IsSeq
<1>3. IsSeq(<<>>)
  BY DEF IsSeq
<1>4. ASSUME NEW i \in 1..Len(runs') PROVE IsSeq(runs'[i])
  <2>1. CASE i \in 1..Len(runs)
    BY <1>2, <2>1 DEF CallsInv
  <2>2. CASE i = Len(runs) + 1
    BY <1>2, <1>3, <2>2
  <2>3. i \in 1..Len(runs) \/ i = Len(runs) + 1
    BY <1>2
  <2>4. QED BY <2>1, <2>2, <2>3
<1>5. QED BY <1>4 DEF CallsInv

LEMMA StepCalls ==
  ASSUME RowsInv, CallsInv, NEW s \in Slot,
         OpenStep(s) \/ StartAgentRun(s) \/ FinishAgentRun(s) \/ HitLimit(s) \/ JournalLine(s)
           \/ Gate(s) \/ Retry(s)
  PROVE  CallsInv'
<1> DEFINE i == eng.step[s].row
<1>1. Shape
  BY DEF RowsInv
<1>2. CASE UNCHANGED runs
  BY <1>2 DEF CallsInv
<1>3. CASE OpenStep(s)
  BY <1>1, <1>2, <1>3, NewRowCalls DEF OpenStep
<1>4. ASSUME eng.step[s].at \in {"call", "agent"} PROVE i \in 1..Len(runs) /\ IsSeq(runs[i])
  <2>1. i \in 1..Len(rows)
    BY <1>4, StepAt DEF WorkingAt
  <2>2. QED BY <1>1, <2>1 DEF Shape, CallsInv
<1>5. CASE StartAgentRun(s)
  <2>1. /\ i \in 1..Len(runs) /\ IsSeq(runs[i])
        /\ runs' = [runs EXCEPT ![i] = Append(runs[i], "open")]
    BY <1>4, <1>5 DEF StartAgentRun
  <2>2. IsSeq(Append(runs[i], "open"))
    BY <2>1, Appended
  <2>3. QED BY <1>1, <2>1, <2>2, ReplacedSeq
<1>6. CASE FinishAgentRun(s)
  <2>1. i \in 1..Len(runs) /\ IsSeq(runs[i])
    BY <1>4, <1>6 DEF FinishAgentRun
  <2>2. PICK x, t : t = [runs[i] EXCEPT ![Len(runs[i])] = x] /\ runs' = [runs EXCEPT ![i] = t]
    BY <1>6 DEF FinishAgentRun
  <2>3. IsSeq(t)
    <3>1. runs[i] = [j \in 1..Len(runs[i]) |-> runs[i][j]] /\ Len(runs[i]) \in Nat
      BY <2>1 DEF IsSeq
    <3>2. t = [j \in 1..Len(runs[i]) |-> t[j]]
      BY <2>2, <3>1
    <3>3. QED BY <3>1, <3>2, Listed
  <2>4. QED BY <1>1, <2>1, <2>2, <2>3, ReplacedSeq
<1>7. QED BY <1>2, <1>3, <1>5, <1>6 DEF HitLimit, JournalLine, Gate, Retry

LEMMA CallsStep == ASSUME RowsInv, CallsInv, [PageNext]_pageVars PROVE CallsInv'
<1>1. Shape
  BY DEF RowsInv
<1>2. CASE UNCHANGED runs
  BY <1>2 DEF CallsInv
<1>3. CASE CarryRow
  BY <1>1, <1>3, NewRowCalls DEF CarryRow
<1>4. CASE \E s \in Slot : \/ OpenStep(s) \/ StartAgentRun(s) \/ FinishAgentRun(s) \/ HitLimit(s)
                           \/ JournalLine(s) \/ Gate(s) \/ Retry(s)
  BY <1>4, StepCalls
<1>5. CASE NextIteration \/ Plan \/ Implement \/ Evaluate \/ StageDone \/ Settle
  BY <1>2, <1>5 DEF NextIteration, Plan, Implement, Evaluate, StageDone, Settle
<1>6. CASE CarryRecord \/ Close \/ StepsFail \/ Finish
  BY <1>2, <1>6 DEF CarryRecord, Close, StepsFail, Finish
<1>7. CASE Engine
  BY <1>3, <1>4, <1>5, <1>6, <1>7 DEF Engine
<1>8. CASE Command \/ Killed \/ LoadLoop \/ MarkDead \/ MarkDeadRows \/ Restart
  BY <1>2, <1>8
  DEF Command, StopMarksLoop, StopMarksRows, Reconcile, ReconcileRows, Killed, LoadLoop,
      MarkDead, MarkDeadRows, Restart, StartRun, rowVars
<1>9. CASE ReadRows \/ ReadJournal \/ ReadRuns \/ Poll \/ UNCHANGED pageVars
  BY <1>2, <1>9 DEF ReadRows, ReadJournal, ReadRuns, Poll, rowVars, pageVars
<1>10. QED BY <1>7, <1>8, <1>9 DEF PageNext

LEMMA FirstCalls == RowsInit => CallsInv
<1>1. ASSUME NEW x, NEW n \in Nat, NEW r, r = [i \in 1..n |-> <<x>>]
      PROVE  \A i \in 1..Len(r) : IsSeq(r[i])
  <2>1. IsSeq(<<x>>)
    <3>1. Len(<<x>>) = 1 /\ <<x>> = [i \in 1..1 |-> <<x>>[i]]
      OBVIOUS
    <3>2. QED BY <3>1 DEF IsSeq
  <2>2. r = [i \in 1..n |-> r[i]]
    BY <1>1
  <2>3. Len(r) = n
    BY <2>2, Listed
  <2>4. QED BY <1>1, <2>1, <2>3
<1>2. CASE NewLoop
  BY <1>2 DEF NewLoop, CallsInv
<1>3. ASSUME NEW verdicts, LaterLoop(verdicts) PROVE CallsInv
  <2>1. runs = [i \in 1..(NDims + 2) |-> <<"reported">>]
    BY <1>3, Zenon DEF LaterLoop
  <2>2. NDims + 2 \in Nat
    BY LoopRowsAssumption
  <2>3. QED BY <1>1, <2>1, <2>2 DEF CallsInv
<1>4. QED BY <1>2, <1>3 DEF RowsInit

THEOREM LoopCallsInvariant == PageSpec => [](RowsInv /\ CallsInv)
<1>1. Init => CallsInv
  BY FirstCalls DEF Init
<1>2. RowsInv /\ CallsInv /\ [PageNext]_pageVars => CallsInv'
  BY CallsStep
<1>3. QED BY <1>1, <1>2, LoopPageInvariant, PTL DEF PageSpec

LEMMA Rollup ==
  ASSUME NEW is, IsFiniteSet(Calls(is)), NEW t, t = TokensTotal(is),
         NEW R, R = {c \in Calls(is) : /\ Counted(page.runs[c[1]][c[2]])
                                       /\ page.runs[c[1]][c[2]] = "reported"},
         NEW M, M = {c \in Calls(is) : /\ Counted(page.runs[c[1]][c[2]])
                                       /\ page.runs[c[1]][c[2]] # "reported"}
  PROVE  (IF t.total < 0 THEN 0 ELSE t.total) = Cardinality(R) /\ t.missing = Cardinality(M)
<1> DEFINE counted == {c \in Calls(is) : Counted(page.runs[c[1]][c[2]])}
           reported == {c \in counted : page.runs[c[1]][c[2]] = "reported"}
<1>1. reported = R /\ counted \ reported = M /\ R \in SUBSET Calls(is)
  OBVIOUS
<1>2. t = [total |-> IF counted # {} /\ reported = {} THEN -1 ELSE Cardinality(reported),
           missing |-> Cardinality(counted \ reported)]
  BY DEF TokensTotal
<1>3. Cardinality(R) \in Nat
  BY <1>1, FS_Subset, FS_CardinalityType
<1>4. R = {} => Cardinality(R) = 0
  BY FS_EmptySet
<1>5. PICK none \in BOOLEAN : none = (counted # {} /\ reported = {})
  OBVIOUS
<1>6. none => R = {}
  BY <1>1, <1>5
<1> HIDE DEF counted, reported
<1>7. t = [total |-> IF none THEN -1 ELSE Cardinality(R), missing |-> Cardinality(M)]
  BY <1>1, <1>2, <1>5
<1>8. t.total = (IF none THEN -1 ELSE Cardinality(R)) /\ t.missing = Cardinality(M)
  BY <1>7
<1>9. CASE none
  BY <1>4, <1>6, <1>8, <1>9
<1>10. CASE ~none
  <2>1. t.total = Cardinality(R)
    BY <1>8, <1>10
  <2>2. ~(t.total < 0)
    BY <1>3, <2>1
  <2>3. QED BY <1>8, <2>1, <2>2
<1>11. QED BY <1>9, <1>10

\* In the page of a loop that is over, each call belongs to one of the iterations.
LEMMA FinalTokens ==
  ASSUME Shape, CallsInv, Steps = ShownRows(loop, rows), page.runs = runs
  PROVE  IterationTokensAddUp
<1> DEFINE all == Calls(DOMAIN page.runs)
           I == Iterations
           run(c) == page.runs[c[1]][c[2]]
           part == [c \in all |-> Steps[c[1]].iter]
<1>1. DOMAIN runs = 1..Len(runs) /\ Len(runs) \in Nat /\ Len(runs) = Len(rows)
      /\ DOMAIN rows = 1..Len(runs)
  BY DEF Shape, IsSeq
<1>2. DOMAIN Steps = DOMAIN runs
  BY <1>1 DEF ShownRows
<1>3. IsFiniteSet(DOMAIN runs)
  BY <1>1, FS_Interval
<1>4. IsFiniteSet(I) /\ \A i \in DOMAIN runs : Steps[i].iter \in I
  <2> DEFINE f == [i \in DOMAIN runs |-> Steps[i].iter]
  <2>1. I = {Steps[i].iter : i \in DOMAIN runs}
    <3> HIDE DEF Steps
    <3>1. QED BY <1>2 DEF Iterations, ToSet
  <2>2. f \in Surjection(DOMAIN runs, I)
    <3> HIDE DEF Steps, I
    <3>1. QED BY <2>1 DEF Surjection
  <2> HIDE DEF I, Steps
  <2>3. QED BY <1>3, <2>1, <2>2, FS_Surjection
<1>5. IsFiniteSet(all)
  <2> DEFINE cell(i) == {i} \X DOMAIN runs[i]
             cells == {cell(i) : i \in DOMAIN runs}
             f == [i \in DOMAIN runs |-> cell(i)]
  <2>1. f \in Surjection(DOMAIN runs, cells)
    BY DEF Surjection
  <2>2. IsFiniteSet(cells)
    <3> HIDE DEF f, cells
    <3>1. QED BY <1>3, <2>1, FS_Surjection
  <2>3. ASSUME NEW i \in DOMAIN runs PROVE IsFiniteSet(cell(i))
    <3>1. DOMAIN runs[i] = 1..Len(runs[i]) /\ Len(runs[i]) \in Nat
      BY <1>1 DEF CallsInv, IsSeq
    <3>2. IsFiniteSet(1..Len(runs[i]))
      BY <3>1, FS_Interval
    <3>3. IsFiniteSet({i})
      BY FS_Singleton
    <3>4. QED BY <3>1, <3>2, <3>3, FS_Product
  <2>4. all = UNION cells
    BY DEF Calls
  <2>5. \A T \in cells : IsFiniteSet(T)
    BY <2>3
  <2> HIDE DEF all, cells
  <2>6. QED BY <2>2, <2>4, <2>5, FS_UNION
<1>6. ASSUME NEW c \in all PROVE c[1] \in DOMAIN runs
  BY DEF Calls
<1>7. \A c \in all : part[c] \in I
  <2> HIDE DEF all, I, Steps
  <2>1. QED BY <1>4, <1>6
<1>8. ASSUME NEW n PROVE Calls(Members(n)) = {c \in all : part[c] = n}
  <2>1. Members(n) \subseteq DOMAIN runs /\ \A i \in DOMAIN runs : i \in Members(n) <=> Steps[i].iter = n
    <3> HIDE DEF Steps
    <3>1. QED BY <1>2 DEF Members
  <2> HIDE DEF Steps
  <2>2. ASSUME NEW c PROVE c \in Calls(Members(n)) <=> c \in all /\ Steps[c[1]].iter = n
    BY <2>1 DEF Calls
  <2> HIDE DEF all
  <2>3. QED BY <2>2
<1>9. ASSUME NEW C, C \in SUBSET all
      PROVE  Cardinality(C) = SumFunction([n \in I |-> Cardinality({c \in C : part[c] = n})])
  <2> DEFINE h == [n \in I |-> Cardinality({c \in C : part[c] = n})]
  <2> HIDE DEF all, I, part
  <2>1. IsFiniteSet(C) /\ \A c \in C : part[c] \in I
    BY <1>5, <1>7, <1>9, FS_Subset
  <2>2. DOMAIN h = I /\ \A n \in I : h[n] = Cardinality({c \in C : part[c] = n})
    OBVIOUS
  <2> HIDE DEF h
  <2>3. SumFunction(h) = Cardinality(C)
    BY <1>4, <2>1, <2>2, SumOfParts
  <2>4. QED BY <2>3 DEF h
<1> DEFINE R == {c \in all : Counted(run(c)) /\ run(c) = "reported"}
           M == {c \in all : Counted(run(c)) /\ run(c) # "reported"}
           known(t) == IF t.total < 0 THEN 0 ELSE t.total
<1>10. known(TokensTotal(DOMAIN page.runs)) = Cardinality(R)
       /\ TokensTotal(DOMAIN page.runs).missing = Cardinality(M)
  BY <1>5, Rollup
<1>11. ASSUME NEW n
       PROVE  /\ known(TokensTotal(Members(n))) = Cardinality({c \in R : part[c] = n})
              /\ TokensTotal(Members(n)).missing = Cardinality({c \in M : part[c] = n})
  <2> HIDE DEF all, part
  <2>1. /\ {c \in R : part[c] = n} = {c \in Calls(Members(n)) : Counted(run(c)) /\ run(c) = "reported"}
        /\ {c \in M : part[c] = n} = {c \in Calls(Members(n)) : Counted(run(c)) /\ run(c) # "reported"}
    BY <1>8
  <2>2. IsFiniteSet(Calls(Members(n)))
    <3>1. Calls(Members(n)) \in SUBSET all
      BY <1>8
    <3>2. QED BY <1>5, <3>1, FS_Subset
  <2> HIDE DEF R, M
  <2>3. QED BY <2>1, <2>2, Rollup
<1>12. R \in SUBSET all /\ M \in SUBSET all
  OBVIOUS
<1> HIDE DEF R, M, part, all, known
<1>13. /\ [n \in I |-> known(TokensTotal(Members(n)))] = [n \in I |-> Cardinality({c \in R : part[c] = n})]
       /\ [n \in I |-> TokensTotal(Members(n)).missing] = [n \in I |-> Cardinality({c \in M : part[c] = n})]
  BY <1>11
<1>14. /\ known(TokensTotal(DOMAIN page.runs)) = SumFunction([n \in I |-> known(TokensTotal(Members(n)))])
       /\ TokensTotal(DOMAIN page.runs).missing = SumFunction([n \in I |-> TokensTotal(Members(n)).missing])
  BY <1>9, <1>10, <1>12, <1>13
<1>15. QED BY <1>14, Zenon DEF IterationTokensAddUp, known

\* Whatever was stopped, cut off or run again, and whatever an agent did not report,
\* the tokens of the iterations of a loop that completed or failed are those of the
\* loop, and so are the calls without any (loop_views.py's rollups per iteration and
\* for the loop).
THEOREM IterationTokensStay == PageSpec => []IterationTokensAddUp
<1>1. ASSUME RowsInv, CallsInv, FinalLoopPageTrue PROVE IterationTokensAddUp
  <2>1. CASE Final
    BY <1>1, <2>1, FinalTokens DEF RowsInv, FinalLoopPageTrue
  <2>2. CASE ~Final
    BY <2>2 DEF IterationTokensAddUp
  <2>3. QED BY <2>1, <2>2
<1>2. QED BY <1>1, LoopCallsInvariant, FinalLoopPageStays, PTL
=============================================================================
