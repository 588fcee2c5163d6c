--------------------------- MODULE LoopPageProofs ---------------------------
(***************************************************************************)
(* What the views of a loop may rely on, for any number of dimensions, any *)
(* agents, and any number of steps, rows and runs.                         *)
(***************************************************************************)
EXTENDS LoopPage, SequenceTheorems, TLAPS

-----------------------------------------------------------------------------
(* Sequences, whatever is in them.                                         *)

IsSeq(s) == Len(s) \in Nat /\ s = [i \in 1..Len(s) |-> s[i]]

LEMMA Listed ==
  ASSUME NEW n \in Nat, NEW s, s = [i \in 1..n |-> s[i]]
  PROVE  IsSeq(s) /\ Len(s) = n /\ DOMAIN s = 1..n
<1> DEFINE S == {s[i] : i \in 1..n}
<1>1. s \in Seq(S)
  OBVIOUS
<1>2. DOMAIN s = 1..n
  OBVIOUS
<1>3. Len(s) = n
  BY <1>1, <1>2
<1>4. QED BY <1>2, <1>3 DEF IsSeq

LEMMA Appended ==
  ASSUME NEW s, IsSeq(s), NEW x
  PROVE  LET t == Append(s, x) IN
         /\ IsSeq(t) /\ Len(t) = Len(s) + 1 /\ DOMAIN t = 1..(Len(s) + 1)
         /\ t[Len(s) + 1] = x /\ \A i \in 1..Len(s) : t[i] = s[i]
<1> DEFINE S == {s[i] : i \in 1..Len(s)} \cup {x}
           t == Append(s, x)
<1>1. s \in Seq(S) /\ x \in S
  BY DEF IsSeq
<1>2. /\ t \in Seq(S) /\ Len(t) = Len(s) + 1 /\ DOMAIN t = 1..(Len(s) + 1)
      /\ t[Len(s) + 1] = x /\ \A i \in 1..Len(s) : t[i] = s[i]
  BY <1>1
<1> HIDE DEF t
<1>3. Len(t) \in Nat /\ t = [i \in 1..Len(t) |-> t[i]]
  BY <1>2
<1>4. IsSeq(t)
  BY <1>3 DEF IsSeq
<1>5. QED BY <1>2, <1>4 DEF t

LEMMA Changed ==
  ASSUME NEW s, IsSeq(s), NEW i \in 1..Len(s), NEW x, NEW t, t = [s EXCEPT ![i] = x]
  PROVE  /\ IsSeq(t) /\ Len(t) = Len(s) /\ DOMAIN t = 1..Len(s)
         /\ t[i] = x /\ \A j \in 1..Len(s) : j # i => t[j] = s[j]
<1>1. s = [j \in 1..Len(s) |-> s[j]] /\ Len(s) \in Nat
  BY DEF IsSeq
<1>2. t = [j \in 1..Len(s) |-> t[j]] /\ t[i] = x /\ \A j \in 1..Len(s) : j # i => t[j] = s[j]
  BY <1>1
<1>3. QED BY <1>1, <1>2, Listed

-----------------------------------------------------------------------------
(* The engine and what it writes.                                          *)

WorkingAt == {"call", "agent", "limit", "replied", "gated", "retry"}
EndedAt == {"idle", "done", "failed", "stopped", "raised"}
StageAt == {"planning", "implementing", "evaluating", "rechecking"}
MainAt == {"off", "top", "plan", "implement", "evaluate", "settle", "carry", "record", "close",
           "finish"}

IsRow(r) == r = [iter |-> r.iter, type |-> r.type, dim |-> r.dim, status |-> r.status]
IsStep(st) == st = [at |-> st.at, row |-> st.row, k |-> st.k, reply |-> st.reply]

Shape ==
  /\ IsSeq(rows) /\ IsSeq(journal) /\ IsSeq(runs) /\ Len(runs) = Len(rows)
  /\ \A i \in 1..Len(rows) : IsRow(rows[i])
  /\ loop = [status |-> loop.status, limited |-> loop.limited, completed |-> loop.completed,
             past |-> loop.past]
  /\ eng = [at |-> eng.at, iter |-> eng.iter, runs |-> eng.runs, res |-> eng.res,
            step |-> eng.step]
  /\ eng.step = [s \in Slot |-> eng.step[s]]
  /\ \A s \in Slot : IsStep(eng.step[s])

\* Steps are under way in a stage alone.
EngineInv ==
  /\ eng.at \in MainAt \cup StageAt
  /\ \A s \in Slot : eng.step[s].at \in EndedAt \cup WorkingAt \cup {"queued"}
  /\ eng.at \notin StageAt => \A s \in Slot : eng.step[s].at \in EndedAt
  /\ eng.at = "off" => \A s \in Slot : eng.step[s].at = "idle"

\* A loop that is over by itself has no engine.
OverInv ==
  loop.status \in {"completed", "failed"} => eng.at = "off" /\ loop.completed = "this run"

\* The last line of an evaluator's row is one its gate took.
Accepted(js, i) ==
  \E j \in DOMAIN js :
    /\ js[j].type = "evaluate" /\ js[j].row = i /\ js[j].gate = "valid"
    /\ \A k \in DOMAIN js : js[k].type = "evaluate" /\ js[k].row = i => k <= j

\* A step that is under way has a row of its own, not yet completed, which gets the
\* line before the gate.
StepsInv ==
  /\ \A s \in Slot : eng.step[s].at \in WorkingAt =>
       /\ eng.step[s].row \in 1..Len(rows)
       /\ rows[eng.step[s].row].status \in {"running", "stopped"}
       /\ rows[eng.step[s].row].type = "evaluate" => s > 0
  /\ \A s, r \in Slot : eng.step[s].at \in WorkingAt /\ eng.step[r].at \in WorkingAt /\ s # r =>
       eng.step[s].row # eng.step[r].row
  /\ \A s \in Slot : eng.step[s].at \in {"replied", "gated"} /\ eng.step[s].reply.gate = "valid" =>
       eng.step[s].reply.says # "nothing"
  /\ \A s \in Slot : eng.step[s].at = "gated" /\ eng.step[s].reply.gate = "valid" /\ s > 0 =>
       Accepted(journal, eng.step[s].row)
  /\ eng.at = "record" => Len(rows) > 0 /\ runs[Len(rows)] = <<>>

\* An evaluator that was not carried over, and ended well.
Evaluated(i) == rows[i].type = "evaluate" /\ rows[i].status = "completed"

RecordsInv ==
  \A i \in 1..Len(rows) : Evaluated(i) /\ runs[i] # <<>> => Accepted(journal, i)

RowsInv == Shape /\ EngineInv /\ OverInv /\ StepsInv /\ RecordsInv

\* What a step leaves of the evaluators that ended well.
Grows ==
  /\ Len(rows) <= Len(rows')
  /\ \A i \in 1..Len(rows) : Evaluated(i) => Evaluated(i)' /\ runs'[i] = runs[i]

LEMMA ZeroSlot == 0 \in Slot /\ Dimension \subseteq Slot
BY LoopRowsAssumption DEF Slot, Dimension

\* The main thread moves on.
LEMMA MainMove ==
  ASSUME RowsInv, eng.at # "off", UNCHANGED <<loop, rows, journal, runs>>,
         NEW at \in (MainAt \cup StageAt) \ {"off", "record"}, NEW iter, NEW res, NEW step,
         step = [s \in Slot |-> step[s]],
         \A s \in Slot : IsStep(step[s]) /\ step[s].at \in EndedAt \cup {"queued"},
         at \notin StageAt => \A s \in Slot : step[s].at \in EndedAt,
         eng' = [at |-> at, iter |-> iter, runs |-> eng.runs, res |-> res, step |-> step]
  PROVE  RowsInv' /\ Grows
<1>1. eng'.at = at /\ eng'.iter = iter /\ eng'.runs = eng.runs /\ eng'.res = res
      /\ eng'.step = step
  OBVIOUS
<1>2. Shape'
  BY <1>1 DEF RowsInv, Shape
<1>3. EngineInv' /\ OverInv'
  BY <1>1 DEF RowsInv, EngineInv, OverInv
<1>4. \A s \in Slot : eng'.step[s].at \notin WorkingAt
  BY <1>1 DEF EndedAt, WorkingAt
<1>5. StepsInv'
  BY <1>1, <1>4 DEF StepsInv, WorkingAt
<1>6. RecordsInv' /\ Grows
  BY DEF RowsInv, Shape, IsSeq, RecordsInv, Evaluated, Grows
<1>7. QED BY <1>2, <1>3, <1>5, <1>6 DEF RowsInv

\* ... with its steps as they are, or with others that are queued.
LEMMA Dispatched ==
  ASSUME RowsInv, eng.at # "off", UNCHANGED <<loop, rows, journal, runs>>,
         NEW at \in (MainAt \cup StageAt) \ {"off", "record"}, NEW S, Dispatch(S, at),
         S = {} \/ at \in StageAt
  PROVE  RowsInv' /\ Grows
<1> DEFINE step == [s \in Slot |-> IF s \in S THEN [NoStep EXCEPT !.at = "queued"] ELSE NoStep]
<1>1. eng' = [at |-> at, iter |-> eng.iter, runs |-> eng.runs, res |-> eng.res, step |-> step]
  BY DEF Dispatch, RowsInv, Shape
<1>2. ASSUME NEW s \in Slot
      PROVE  /\ IsStep(step[s]) /\ step[s].at \in EndedAt \cup {"queued"}
             /\ S = {} => step[s].at \in EndedAt
  BY DEF NoStep, EndedAt, IsStep
<1>3. step = [s \in Slot |-> step[s]]
  OBVIOUS
<1> HIDE DEF step
<1>4. QED BY <1>1, <1>2, <1>3, MainMove

LEMMA Moved ==
  ASSUME RowsInv, eng.at # "off", UNCHANGED <<loop, rows, journal, runs>>,
         NEW at \in MainAt \ {"off", "record"}, NEW iter, NEW res,
         eng' = [at |-> at, iter |-> iter, runs |-> eng.runs, res |-> res, step |-> eng.step],
         \A s \in Slot : eng.step[s].at \in EndedAt
  PROVE  RowsInv' /\ Grows
<1>1. eng.step = [s \in Slot |-> eng.step[s]] /\ \A s \in Slot : IsStep(eng.step[s])
  BY DEF RowsInv, Shape
<1>2. QED BY <1>1, MainMove

LEMMA MainStep ==
  ASSUME RowsInv,
         NextIteration \/ Plan \/ Implement \/ Evaluate \/ StageDone \/ Settle \/ StepsFail
  PROVE  RowsInv' /\ Grows
<1>1. UNCHANGED <<loop, rows, journal, runs>>
  BY DEF NextIteration, Plan, Implement, Evaluate, StageDone, Settle, StepsFail
<1>2. eng.at # "off"
  <2>1. CASE StepsFail
    BY <2>1 DEF StepsFail, RowsInv, EngineInv
  <2>2. CASE ~StepsFail
    BY <2>2 DEF NextIteration, Plan, Implement, Evaluate, StageDone, Settle
  <2>3. QED BY <2>1, <2>2
<1>3. ASSUME NEW at \in MainAt \ {"off", "record"}, Goto(at), \A s \in Slot : eng.step[s].at \in EndedAt
      PROVE  RowsInv' /\ Grows
  <2>1. eng' = [at |-> at, iter |-> eng.iter, runs |-> eng.runs, res |-> eng.res,
                step |-> eng.step]
    BY <1>3 DEF Goto, RowsInv, Shape
  <2>2. QED BY <1>1, <1>2, <1>3, <2>1, Moved
<1>4. ASSUME NEW res, FinishAs(res), \A s \in Slot : eng.step[s].at \in EndedAt
      PROVE  RowsInv' /\ Grows
  <2>1. eng' = [at |-> "finish", iter |-> eng.iter, runs |-> eng.runs, res |-> res,
                step |-> eng.step]
    BY <1>4 DEF FinishAs, RowsInv, Shape
  <2>2. "finish" \in MainAt \ {"off", "record"}
    BY DEF MainAt
  <2>3. QED BY <1>1, <1>2, <1>4, <2>1, <2>2, Moved
<1>5. ASSUME NEW at \in (MainAt \cup StageAt) \ {"off", "record"}, NEW S, Dispatch(S, at),
             S = {} \/ at \in StageAt
      PROVE  RowsInv' /\ Grows
  BY <1>1, <1>2, <1>5, Dispatched
<1>6. \A at : at \in {"top", "plan", "implement", "evaluate", "settle", "carry", "close", "finish"}
                => at \in MainAt \ {"off", "record"}
  BY DEF MainAt
<1>7. \A at : at \in {"planning", "implementing", "evaluating", "rechecking"}
                => at \in (MainAt \cup StageAt) \ {"off", "record"} /\ at \in StageAt
  BY DEF MainAt, StageAt
<1>8. eng.at \notin StageAt => \A s \in Slot : eng.step[s].at \in EndedAt
  BY DEF RowsInv, EngineInv
<1>9. CASE NextIteration
  <2>1. \A s \in Slot : eng.step[s].at \in EndedAt
    BY <1>8, <1>9 DEF NextIteration, StageAt
  <2>2. CASE Stopped
    BY <1>4, <1>9, <2>1, <2>2 DEF NextIteration
  <2>3. CASE ~Stopped
    <3>1. eng' = [at |-> "plan", iter |-> eng.iter + 1, runs |-> eng.runs, res |-> eng.res,
                  step |-> eng.step]
      BY <1>9, <2>3 DEF NextIteration, RowsInv, Shape
    <3>2. QED BY <1>1, <1>2, <1>6, <2>1, <3>1, Moved
  <2>4. QED BY <2>2, <2>3
<1>10. CASE Plan
  <2>1. \A s \in Slot : eng.step[s].at \in EndedAt
    BY <1>8, <1>10 DEF Plan, StageAt
  <2>2. FinishAs("stopped") \/ FinishAs("completed") \/ Goto("implement") \/ Dispatch({0}, "planning")
    BY <1>10 DEF Plan
  <2>3. QED BY <1>3, <1>4, <1>5, <1>6, <1>7, <2>1, <2>2
<1>11. CASE Implement
  <2>1. \A s \in Slot : eng.step[s].at \in EndedAt
    BY <1>8, <1>11 DEF Implement, StageAt
  <2>2. FinishAs("stopped") \/ Goto("evaluate") \/ Dispatch({0}, "implementing")
    BY <1>11 DEF Implement
  <2>3. QED BY <1>3, <1>4, <1>5, <1>6, <1>7, <2>1, <2>2
<1>12. CASE Evaluate
  <2>1. \A s \in Slot : eng.step[s].at \in EndedAt
    BY <1>8, <1>12 DEF Evaluate, StageAt
  <2>2. FinishAs("stopped") \/ Dispatch(Dimension \ (Judged \cup Carried), "evaluating")
    BY <1>12 DEF Evaluate
  <2>3. QED BY <1>4, <1>5, <1>7, <2>1, <2>2
<1>13. CASE StageDone
  <2>1. \A s \in Slot : eng.step[s].at \in EndedAt
    BY <1>13 DEF StageDone, AllDone, EndedAt
  <2>2. \/ FinishAs("completed") \/ Dispatch({}, "implement") \/ Dispatch({}, "evaluate")
        \/ Dispatch({}, "settle") \/ Dispatch({}, "close")
    BY <1>13 DEF StageDone
  <2>3. QED BY <1>4, <1>5, <1>6, <2>1, <2>2
<1>14. CASE Settle
  <2>1. \A s \in Slot : eng.step[s].at \in EndedAt
    BY <1>8, <1>14 DEF Settle, StageAt
  <2>2. FinishAs("stopped") \/ Dispatch(Carried \ Judged, "rechecking") \/ Goto("carry")
    BY <1>14 DEF Settle
  <2>3. QED BY <1>3, <1>4, <1>5, <1>6, <1>7, <2>1, <2>2
<1>15. CASE StepsFail
  <2>1. ASSUME NEW s \in Slot PROVE eng.step[s].at \in EndedAt
    <3>1. eng.step[s].at \in {eng.step[r].at : r \in Slot}
      OBVIOUS
    <3>2. QED BY <1>15, <3>1 DEF StepsFail, EndedAt
  <2>2. PICK res : FinishAs(res)
    BY <1>15 DEF StepsFail
  <2>3. QED BY <1>4, <2>1, <2>2
<1>16. QED BY <1>9, <1>10, <1>11, <1>12, <1>13, <1>14, <1>15

-----------------------------------------------------------------------------
(* The writes.                                                             *)

LEMMA OtherLine ==
  ASSUME NEW js, IsSeq(js), NEW i, NEW line, Accepted(js, i),
         line.type # "evaluate" \/ line.row # i
  PROVE  Accepted(Append(js, line), i)
<1> DEFINE t == Append(js, line)
<1>1. /\ Len(js) \in Nat /\ DOMAIN t = 1..(Len(js) + 1) /\ DOMAIN js = 1..Len(js)
      /\ t[Len(js) + 1] = line /\ \A k \in 1..Len(js) : t[k] = js[k]
  BY Appended DEF IsSeq
<1> HIDE DEF t
<1>2. PICK j \in 1..Len(js) :
        /\ js[j].type = "evaluate" /\ js[j].row = i /\ js[j].gate = "valid"
        /\ \A k \in 1..Len(js) : js[k].type = "evaluate" /\ js[k].row = i => k <= j
  BY <1>1 DEF Accepted
<1>3. \A k \in DOMAIN t : t[k].type = "evaluate" /\ t[k].row = i => k <= j
  BY <1>1, <1>2
<1>4. Accepted(t, i)
  BY <1>1, <1>2, <1>3 DEF Accepted
<1>5. QED BY <1>4 DEF t

LEMMA LastLine ==
  ASSUME NEW js, IsSeq(js), NEW i, NEW line,
         line.type = "evaluate", line.row = i, line.gate = "valid"
  PROVE  Accepted(Append(js, line), i)
<1> DEFINE t == Append(js, line)
<1>1. Len(js) \in Nat /\ DOMAIN t = 1..(Len(js) + 1) /\ t[Len(js) + 1] = line
  BY Appended DEF IsSeq
<1> HIDE DEF t
<1>2. \A k \in DOMAIN t : k <= Len(js) + 1
  BY <1>1
<1>3. Len(js) + 1 \in DOMAIN t
  BY <1>1
<1>4. Accepted(t, i)
  BY <1>1, <1>2, <1>3 DEF Accepted
<1>5. QED BY <1>4 DEF t

\* The rows stay, but for statuses that are not "completed" before.
RowsStay ==
  /\ IsSeq(rows') /\ Len(rows') = Len(rows)
  /\ \A i \in 1..Len(rows) :
       /\ IsRow(rows'[i]) /\ rows'[i].type = rows[i].type
       /\ rows'[i] = rows[i] \/ rows[i].status # "completed"

LEMMA SetRowStays ==
  ASSUME Shape, NEW i \in 1..Len(rows), NEW s, SetRow(i, s), rows[i].status # "completed"
  PROVE  /\ RowsStay /\ rows'[i].status = s
         /\ \A j \in 1..Len(rows) : j # i => rows'[j] = rows[j]
<1> DEFINE r == [rows[i] EXCEPT !.status = s]
<1>1. r = [iter |-> rows[i].iter, type |-> rows[i].type, dim |-> rows[i].dim, status |-> s]
  <2>1. IsRow(rows[i])
    BY DEF Shape
  <2>2. QED BY <2>1 DEF IsRow
<1>2. rows' = [rows EXCEPT ![i] = r]
  BY DEF SetRow
<1>3. IsRow(r) /\ r.type = rows[i].type /\ r.status = s
  BY <1>1 DEF IsRow
<1> HIDE DEF r
<1>4. /\ IsSeq(rows') /\ Len(rows') = Len(rows) /\ rows'[i] = r
      /\ \A j \in 1..Len(rows) : j # i => rows'[j] = rows[j]
  <2>1. rows = [j \in 1..Len(rows) |-> rows[j]] /\ Len(rows) \in Nat
    BY DEF Shape, IsSeq
  <2>2. /\ rows' = [j \in 1..Len(rows) |-> rows'[j]] /\ rows'[i] = r
        /\ \A j \in 1..Len(rows) : j # i => rows'[j] = rows[j]
    BY <1>2, <2>1
  <2>3. QED BY <2>1, <2>2, Listed
<1>5. QED BY <1>3, <1>4 DEF RowsStay, Shape

LEMMA StopRowsStays ==
  ASSUME Shape, StopRows
  PROVE  /\ RowsStay
         /\ \A i \in 1..Len(rows) :
              \/ rows'[i] = rows[i] /\ rows[i].status # "running"
              \/ rows[i].status = "running" /\ rows'[i].status = "stopped"
<1>1. DOMAIN rows = 1..Len(rows) /\ Len(rows) \in Nat
  BY DEF Shape, IsSeq
<1>2. rows' = [i \in 1..Len(rows) |-> IF rows[i].status = "running"
                                      THEN [rows[i] EXCEPT !.status = "stopped"] ELSE rows[i]]
  BY <1>1 DEF StopRows
<1>3. IsSeq(rows') /\ Len(rows') = Len(rows)
  BY <1>1, <1>2, Listed
<1>4. ASSUME NEW i \in 1..Len(rows)
      PROVE  /\ IsRow(rows'[i]) /\ rows'[i].type = rows[i].type
             /\ rows'[i] = rows[i] \/ rows[i].status # "completed"
             /\ \/ rows'[i] = rows[i] /\ rows[i].status # "running"
                \/ rows[i].status = "running" /\ rows'[i].status = "stopped"
  <2>1. IsRow(rows[i])
    BY DEF Shape
  <2>2. CASE rows[i].status = "running"
    <3>1. rows'[i] = [iter |-> rows[i].iter, type |-> rows[i].type, dim |-> rows[i].dim,
                      status |-> "stopped"]
      BY <1>2, <2>1, <2>2 DEF IsRow
    <3>2. QED BY <2>2, <3>1 DEF IsRow
  <2>3. CASE rows[i].status # "running"
    BY <1>2, <2>1, <2>3
  <2>4. QED BY <2>2, <2>3
<1>5. QED BY <1>3, <1>4 DEF RowsStay

\* A new row is the last one.
LEMMA AddRowGrows ==
  ASSUME Shape, NEW type, NEW d, NEW s, AddRow(type, d, s)
  PROVE  /\ IsSeq(rows') /\ Len(rows') = Len(rows) + 1
         /\ IsSeq(runs') /\ Len(runs') = Len(rows) + 1 /\ runs'[Len(rows) + 1] = <<>>
         /\ rows'[Len(rows) + 1] = [iter |-> eng.iter, type |-> type, dim |-> d, status |-> s]
         /\ \A i \in 1..Len(rows) : rows'[i] = rows[i] /\ runs'[i] = runs[i]
         /\ \A i \in 1..(Len(rows) + 1) : IsRow(rows'[i])
         /\ Len(rows) \in Nat
<1> DEFINE r == [iter |-> eng.iter, type |-> type, dim |-> d, status |-> s]
<1>1. rows' = Append(rows, r) /\ runs' = Append(runs, <<>>)
  BY DEF AddRow
<1>2. IsRow(r)
  BY DEF IsRow
<1> HIDE DEF r
<1>3. /\ IsSeq(rows') /\ Len(rows') = Len(rows) + 1 /\ rows'[Len(rows) + 1] = r
      /\ \A i \in 1..Len(rows) : rows'[i] = rows[i]
  BY <1>1, Appended DEF Shape
<1>4. /\ IsSeq(runs') /\ Len(runs') = Len(rows) + 1 /\ runs'[Len(rows) + 1] = <<>>
      /\ \A i \in 1..Len(rows) : runs'[i] = runs[i]
  BY <1>1, Appended DEF Shape
<1>5. Len(rows) \in Nat
  BY DEF Shape, IsSeq
<1>6. \A i \in 1..(Len(rows) + 1) : IsRow(rows'[i])
  <2>1. \A i \in 1..(Len(rows) + 1) : i = Len(rows) + 1 \/ i \in 1..Len(rows)
    BY <1>5
  <2>2. QED BY <1>2, <1>3, <2>1 DEF Shape
<1>7. QED BY <1>3, <1>4, <1>5, <1>6 DEF r

\* Off as the engine's state.
LEMMA OffShape ==
  /\ Off = [at |-> "off", iter |-> 0, runs |-> 0, res |-> "failed",
            step |-> [s \in Slot |-> NoStep]]
  /\ IsStep(NoStep) /\ NoStep.at = "idle"
<1>1. NoStep = [at |-> "idle", row |-> 0, k |-> 0, reply |-> <<>>]
  BY DEF NoStep
<1>2. IsStep(NoStep) /\ NoStep.at = "idle"
  BY <1>1 DEF IsStep
<1>3. QED BY <1>2 DEF Off

\* Whoever stops what runs leaves the steps under way, or ends them all.
LEMMA Ends ==
  ASSUME RowsInv, Shape', EngineInv', OverInv', UNCHANGED <<journal, runs>>,
         rows' = rows \/ StopRows,
         eng' = eng \/ (eng'.at # "record" /\ \A s \in Slot : eng'.step[s].at \in EndedAt)
  PROVE  RowsInv' /\ Grows
<1>1. Len(rows) \in Nat /\ Len(rows') = Len(rows)
      /\ \A i \in 1..Len(rows) :
           /\ rows'[i].type = rows[i].type
           /\ rows'[i].status = rows[i].status
              \/ (rows[i].status = "running" /\ rows'[i].status = "stopped")
  <2>1. CASE rows' = rows
    BY <2>1 DEF RowsInv, Shape, IsSeq
  <2>2. CASE StopRows
    BY <2>2, StopRowsStays DEF RowsInv, Shape, IsSeq, RowsStay
  <2>3. QED BY <2>1, <2>2
<1>2. \A i \in 1..Len(rows) : Evaluated(i)' <=> Evaluated(i)
  BY <1>1 DEF Evaluated
<1>3. Grows
  BY <1>1, <1>2 DEF Grows
<1>4. RecordsInv'
  BY <1>1, <1>2 DEF RowsInv, RecordsInv
<1>5. StepsInv'
  <2>1. CASE eng' = eng
    BY <1>1, <2>1 DEF RowsInv, StepsInv
  <2>2. CASE eng'.at # "record" /\ \A s \in Slot : eng'.step[s].at \in EndedAt
    <3>1. \A s \in Slot : eng'.step[s].at \notin WorkingAt
      BY <2>2 DEF EndedAt, WorkingAt
    <3>2. QED BY <2>2, <3>1 DEF StepsInv, WorkingAt
  <2>3. QED BY <2>1, <2>2
<1>6. QED BY <1>3, <1>4, <1>5 DEF RowsInv

LEMMA EndLoopShape ==
  ASSUME Shape, NEW s, EndLoop(s)
  PROVE  loop' = [status |-> s, limited |-> loop.limited, completed |-> "this run",
                  past |-> loop.past]
BY DEF EndLoop, Shape

\* The writes that end a run, or begin one.
LEMMA FinishStep == ASSUME RowsInv, Finish PROVE RowsInv' /\ Grows
<1>1. loop' = [status |-> eng.res, limited |-> loop.limited, completed |-> "this run",
               past |-> loop.past]
  BY EndLoopShape DEF Finish, RowsInv
<1>2. eng' = [at |-> "off", iter |-> 0, runs |-> eng.runs, res |-> "failed",
              step |-> [s \in Slot |-> NoStep]]
  BY OffShape DEF Finish
<1>3. UNCHANGED <<rows, journal, runs>>
  BY DEF Finish
<1>4. Shape'
  BY <1>1, <1>2, <1>3, OffShape DEF RowsInv, Shape
<1>5. EngineInv' /\ OverInv'
  BY <1>1, <1>2, OffShape DEF EngineInv, OverInv, MainAt, StageAt, EndedAt
<1>6. eng'.at # "record" /\ \A s \in Slot : eng'.step[s].at \in EndedAt
  BY <1>2, OffShape DEF EndedAt
<1>7. QED BY <1>3, <1>4, <1>5, <1>6, Ends

LEMMA KilledStep == ASSUME RowsInv, Killed PROVE RowsInv' /\ Grows
<1>1. eng' = [at |-> "off", iter |-> 0, runs |-> eng.runs, res |-> "failed",
              step |-> [s \in Slot |-> NoStep]]
  BY OffShape DEF Killed
<1>2. UNCHANGED <<loop, rows, journal, runs>>
  BY DEF Killed
<1>3. Shape'
  BY <1>1, <1>2, OffShape DEF RowsInv, Shape
<1>4. EngineInv' /\ OverInv'
  BY <1>1, <1>2, OffShape DEF RowsInv, EngineInv, OverInv, MainAt, StageAt, EndedAt
<1>5. eng'.at # "record" /\ \A s \in Slot : eng'.step[s].at \in EndedAt
  BY <1>1, OffShape DEF EndedAt
<1>6. QED BY <1>2, <1>3, <1>4, <1>5, Ends

\* A stop marks the loop, whatever the engine is about,
LEMMA StopStep == ASSUME RowsInv, StopMarksLoop PROVE RowsInv' /\ Grows
<1>1. /\ loop' = [status |-> "stopped", limited |-> loop.limited, completed |-> loop.completed,
                  past |-> loop.past]
      /\ UNCHANGED <<rows, journal, runs, eng>>
  BY DEF StopMarksLoop, RowsInv, Shape
<1>2. Shape'
  BY <1>1 DEF RowsInv, Shape
<1>3. EngineInv' /\ OverInv'
  BY <1>1 DEF RowsInv, EngineInv, OverInv
<1>4. QED BY <1>1, <1>2, <1>3, Ends

\* a load that finds no engine marks it FAILED,
LEMMA DeadStep ==
  ASSUME RowsInv, eng.at = "off", EndLoop("failed"), UNCHANGED <<rows, journal, runs, eng>>
  PROVE  RowsInv' /\ Grows
<1>1. loop' = [status |-> "failed", limited |-> loop.limited, completed |-> "this run",
               past |-> loop.past]
  BY EndLoopShape DEF RowsInv
<1>2. Shape'
  BY <1>1 DEF RowsInv, Shape
<1>3. EngineInv' /\ OverInv'
  BY <1>1 DEF RowsInv, EngineInv, OverInv
<1>4. QED BY <1>2, <1>3, Ends

\* and either marks its rows later.
LEMMA StopRowsStep ==
  ASSUME RowsInv, StopRows, UNCHANGED <<loop, journal, runs, eng>>
  PROVE  RowsInv' /\ Grows
<1>1. Shape'
  BY StopRowsStays DEF RowsInv, Shape, RowsStay
<1>2. EngineInv' /\ OverInv'
  BY DEF RowsInv, EngineInv, OverInv
<1>3. QED BY <1>1, <1>2, Ends

LEMMA StartRunStep == ASSUME RowsInv, StartRun PROVE RowsInv' /\ Grows
<1>1. /\ UNCHANGED <<journal, runs>> /\ StopRows
      /\ loop' = [status |-> "running", limited |-> FALSE,
                  completed |-> IF loop.completed = "never" THEN "never" ELSE "earlier run",
                  past |-> loop.past]
  BY DEF StartRun, RowsInv, Shape
<1>2. eng' = [at |-> "top", iter |-> Closed, runs |-> eng.runs + 1, res |-> "failed",
              step |-> [s \in Slot |-> NoStep]]
  BY OffShape DEF StartRun
<1>3. Shape'
  BY <1>1, <1>2, StopRowsStays, OffShape DEF RowsInv, Shape, RowsStay
<1>4. EngineInv' /\ OverInv'
  BY <1>1, <1>2, OffShape DEF EngineInv, OverInv, MainAt, StageAt, EndedAt
<1>5. eng'.at # "record" /\ \A s \in Slot : eng'.step[s].at \in EndedAt
  BY <1>2, OffShape DEF EndedAt
<1>6. QED BY <1>1, <1>3, <1>4, <1>5, Ends

\* A line is added while no step is under way: of no row, or of one with no agent run.
LEMMA LineStep ==
  ASSUME RowsInv, UNCHANGED <<loop, rows, runs>>, NEW line, journal' = Append(journal, line),
         line.type # "evaluate" \/ (line.row \in 1..Len(rows) /\ runs[line.row] = <<>>),
         eng.at \in MainAt \ {"off"}, NEW at \in MainAt \ {"off", "record"}, NEW res,
         eng' = [at |-> at, iter |-> eng.iter, runs |-> eng.runs, res |-> res,
                 step |-> eng.step]
  PROVE  RowsInv' /\ Grows
<1>1. \A s \in Slot : eng.step[s].at \in EndedAt
  BY DEF RowsInv, EngineInv, MainAt, StageAt
<1>2. IsSeq(journal')
  BY Appended DEF RowsInv, Shape
<1>3. Shape'
  BY <1>2 DEF RowsInv, Shape
<1>4. EngineInv' /\ OverInv'
  BY <1>1 DEF RowsInv, EngineInv, OverInv, MainAt, StageAt
<1>5. StepsInv'
  BY <1>1 DEF StepsInv, EndedAt, WorkingAt
<1>6. ASSUME NEW i \in 1..Len(rows), Evaluated(i), runs[i] # <<>>
      PROVE  Accepted(journal', i)
  <2>1. Accepted(journal, i) /\ IsSeq(journal)
    BY <1>6 DEF RowsInv, RecordsInv, Shape
  <2>2. line.type # "evaluate" \/ line.row # i
    BY <1>6
  <2>3. QED BY <2>1, <2>2, OtherLine
<1>7. RecordsInv'
  BY <1>6 DEF RecordsInv, Evaluated
<1>8. Grows
  BY DEF RowsInv, Shape, IsSeq, Grows, Evaluated
<1>9. QED BY <1>3, <1>4, <1>5, <1>7, <1>8 DEF RowsInv

LEMMA CloseStep == ASSUME RowsInv, Close PROVE RowsInv' /\ Grows
<1>1. eng.at \in MainAt \ {"off"} /\ UNCHANGED <<loop, rows, runs>>
  BY DEF Close, MainAt
<1>2. \E at \in MainAt \ {"off", "record"} : \E res :
        eng' = [at |-> at, iter |-> eng.iter, runs |-> eng.runs, res |-> res, step |-> eng.step]
  <2>1. \/ \E res : FinishAs(res)
        \/ Goto("top")
    BY DEF Close
  <2>2. ASSUME NEW res, FinishAs(res)
        PROVE  eng' = [at |-> "finish", iter |-> eng.iter, runs |-> eng.runs, res |-> res,
                       step |-> eng.step]
    BY <2>2 DEF FinishAs, RowsInv, Shape
  <2>3. ASSUME Goto("top")
        PROVE  eng' = [at |-> "top", iter |-> eng.iter, runs |-> eng.runs, res |-> eng.res,
                       step |-> eng.step]
    BY <2>3 DEF Goto, RowsInv, Shape
  <2>4. "finish" \in MainAt \ {"off", "record"} /\ "top" \in MainAt \ {"off", "record"}
    BY DEF MainAt
  <2>5. QED BY <2>1, <2>2, <2>3, <2>4
<1>3. CASE journal' = journal
  <2>1. \A s \in Slot : eng.step[s].at \in EndedAt
    BY <1>1 DEF RowsInv, EngineInv, MainAt, StageAt
  <2>2. QED BY <1>1, <1>2, <1>3, <2>1, Moved
<1>4. CASE journal' # journal
  <2>1. PICK line : journal' = Append(journal, line) /\ line.type = "commit"
    BY <1>4 DEF Close
  <2>2. QED BY <1>1, <1>2, <2>1, LineStep
<1>5. QED BY <1>3, <1>4

LEMMA CarryRecordStep == ASSUME RowsInv, CarryRecord PROVE RowsInv' /\ Grows
<1>1. /\ eng.at = "record" /\ Len(rows) \in 1..Len(rows) /\ runs[Len(rows)] = <<>>
      /\ UNCHANGED <<loop, rows, runs>>
  BY DEF CarryRecord, RowsInv, StepsInv, Shape, IsSeq
<1>2. PICK line : journal' = Append(journal, line) /\ line.row = Len(rows)
  BY DEF CarryRecord
<1>3. eng' = [at |-> "carry", iter |-> eng.iter, runs |-> eng.runs, res |-> eng.res,
              step |-> eng.step]
  BY DEF CarryRecord, Goto, RowsInv, Shape
<1>4. "record" \in MainAt \ {"off"} /\ "carry" \in MainAt \ {"off", "record"}
  BY DEF MainAt
<1>5. QED BY <1>1, <1>2, <1>3, <1>4, LineStep

LEMMA CarryRowStep == ASSUME RowsInv, CarryRow PROVE RowsInv' /\ Grows
<1>1. PICK d : AddRow("evaluate", d, "completed")
  BY DEF CarryRow
<1>2. /\ UNCHANGED <<loop, journal>>
      /\ eng.at = "carry"
      /\ eng' = [at |-> "record", iter |-> eng.iter, runs |-> eng.runs, res |-> eng.res,
                 step |-> eng.step]
  BY DEF CarryRow, Goto, RowsInv, Shape
<1>3. /\ IsSeq(rows') /\ Len(rows') = Len(rows) + 1
      /\ IsSeq(runs') /\ Len(runs') = Len(rows) + 1 /\ runs'[Len(rows) + 1] = <<>>
      /\ \A i \in 1..Len(rows) : rows'[i] = rows[i] /\ runs'[i] = runs[i]
      /\ \A i \in 1..(Len(rows) + 1) : IsRow(rows'[i])
      /\ Len(rows) \in Nat
  BY <1>1, AddRowGrows DEF RowsInv
<1>4. \A s \in Slot : eng.step[s].at \in EndedAt
  BY <1>2 DEF RowsInv, EngineInv, StageAt
<1>5. Shape'
  BY <1>2, <1>3 DEF RowsInv, Shape
<1>6. EngineInv' /\ OverInv'
  BY <1>2, <1>4 DEF RowsInv, EngineInv, OverInv, MainAt, StageAt
<1>7. StepsInv'
  BY <1>2, <1>3, <1>4 DEF StepsInv, EndedAt, WorkingAt
<1>8. \A i \in 1..(Len(rows) + 1) : i = Len(rows) + 1 \/ i \in 1..Len(rows)
  BY <1>3
<1>9. RecordsInv'
  BY <1>2, <1>3, <1>8 DEF RowsInv, RecordsInv, Evaluated
<1>10. Grows
  BY <1>3 DEF Grows, Evaluated
<1>11. QED BY <1>5, <1>6, <1>7, <1>9, <1>10 DEF RowsInv

-----------------------------------------------------------------------------
(* The step of a slot.                                                     *)

\* A step moves within its stage.
LEMMA StepMoves ==
  ASSUME RowsInv, NEW s \in Slot, NEW st, MoveTo(s, st), IsStep(st),
         loop' = loop \/ loop'.status = "stopped",
         eng.step[s].at \notin EndedAt,
         st.at \in EndedAt \cup WorkingAt
  PROVE  /\ eng' = [at |-> eng.at, iter |-> eng.iter, runs |-> eng.runs, res |-> eng.res,
                    step |-> [eng.step EXCEPT ![s] = st]]
         /\ eng'.at = eng.at /\ eng'.step[s] = st /\ eng.at # "record"
         /\ \A r \in Slot : r # s => eng'.step[r] = eng.step[r]
         /\ eng'.step = [r \in Slot |-> eng'.step[r]]
         /\ \A r \in Slot : IsStep(eng'.step[r])
         /\ EngineInv' /\ OverInv'
<1>1. /\ eng' = [at |-> eng.at, iter |-> eng.iter, runs |-> eng.runs, res |-> eng.res,
                 step |-> [eng.step EXCEPT ![s] = st]]
      /\ eng.step = [r \in Slot |-> eng.step[r]]
      /\ \A r \in Slot : IsStep(eng.step[r])
  BY DEF MoveTo, RowsInv, Shape
<1>2. /\ eng'.at = eng.at /\ eng'.step[s] = st
      /\ \A r \in Slot : r # s => eng'.step[r] = eng.step[r]
      /\ eng'.step = [r \in Slot |-> eng'.step[r]]
  BY <1>1
<1>3. \A r \in Slot : IsStep(eng'.step[r])
  BY <1>1, <1>2
<1>4. eng.at \in StageAt /\ eng.at # "off" /\ eng.at # "record"
  BY DEF RowsInv, EngineInv, StageAt
<1>5. EngineInv'
  BY <1>2, <1>4 DEF RowsInv, EngineInv
<1>6. OverInv'
  BY <1>2, <1>4 DEF RowsInv, OverInv
<1>7. QED BY <1>1, <1>2, <1>3, <1>4, <1>5, <1>6

\* What a step that is under way writes is about its own row.
LEMMA SlotStep ==
  ASSUME RowsInv, NEW s \in Slot, NEW st, MoveTo(s, st), IsStep(st),
         eng.step[s].at \in WorkingAt, st.at \in EndedAt \cup WorkingAt,
         st.row = eng.step[s].row,
         loop' = loop \/ loop' = [status |-> "stopped", limited |-> loop'.limited,
                                  completed |-> loop'.completed, past |-> loop'.past],
         RowsStay, \A j \in 1..Len(rows) : j # st.row => rows'[j] = rows[j],
         IsSeq(runs'), Len(runs') = Len(runs),
         \A j \in 1..Len(rows) : j # st.row => runs'[j] = runs[j],
         IsSeq(journal'),
         \A j \in 1..Len(rows) : j # st.row /\ Accepted(journal, j) => Accepted(journal', j),
         st.at \in WorkingAt => rows'[st.row].status \in {"running", "stopped"},
         st.at \in {"replied", "gated"} /\ st.reply.gate = "valid" => st.reply.says # "nothing",
         st.at = "gated" /\ st.reply.gate = "valid" /\ s > 0 => Accepted(journal', st.row),
         rows'[st.row].status = "completed" /\ rows'[st.row].type = "evaluate"
           => Accepted(journal', st.row)
  PROVE  RowsInv' /\ Grows
<1>1. /\ eng' = [at |-> eng.at, iter |-> eng.iter, runs |-> eng.runs, res |-> eng.res,
                 step |-> [eng.step EXCEPT ![s] = st]]
      /\ eng'.at = eng.at /\ eng'.step[s] = st /\ eng.at # "record"
      /\ \A r \in Slot : r # s => eng'.step[r] = eng.step[r]
      /\ eng'.step = [r \in Slot |-> eng'.step[r]]
      /\ \A r \in Slot : IsStep(eng'.step[r])
      /\ EngineInv' /\ OverInv'
  <2>1. eng.step[s].at \notin EndedAt
    BY DEF WorkingAt, EndedAt
  <2>2. loop' = loop \/ loop'.status = "stopped"
    OBVIOUS
  <2>3. QED BY <2>1, <2>2, StepMoves
<1>2. Shape'
  BY <1>1 DEF RowsInv, Shape, RowsStay
<1>3. st.row \in 1..Len(rows) /\ rows[st.row].status \in {"running", "stopped"}
      /\ (rows[st.row].type = "evaluate" => s > 0) /\ Len(rows') = Len(rows)
  BY DEF RowsInv, StepsInv, RowsStay
<1>4. ASSUME NEW r \in Slot, r # s, eng.step[r].at \in WorkingAt
      PROVE  /\ eng.step[r].row \in 1..Len(rows) /\ eng.step[r].row # st.row
             /\ rows'[eng.step[r].row] = rows[eng.step[r].row]
             /\ rows[eng.step[r].row].status \in {"running", "stopped"}
             /\ rows[eng.step[r].row].type = "evaluate" => r > 0
             /\ Accepted(journal, eng.step[r].row) => Accepted(journal', eng.step[r].row)
  BY <1>4 DEF RowsInv, StepsInv
<1>5. StepsInv'
  <2>1. ASSUME NEW r \in Slot, eng'.step[r].at \in WorkingAt
        PROVE  /\ eng'.step[r].row \in 1..Len(rows')
               /\ rows'[eng'.step[r].row].status \in {"running", "stopped"}
               /\ rows'[eng'.step[r].row].type = "evaluate" => r > 0
    <3>1. CASE r = s
      BY <1>1, <1>3, <2>1, <3>1 DEF RowsStay
    <3>2. CASE r # s
      BY <1>1, <1>3, <1>4, <2>1, <3>2
    <3>3. QED BY <3>1, <3>2
  <2>2. ASSUME NEW r \in Slot, NEW q \in Slot, eng'.step[r].at \in WorkingAt,
               eng'.step[q].at \in WorkingAt, r # q
        PROVE  eng'.step[r].row # eng'.step[q].row
    <3>1. CASE r # s /\ q # s
      BY <1>1, <2>2, <3>1 DEF RowsInv, StepsInv
    <3>2. CASE r = s \/ q = s
      BY <1>1, <1>4, <2>2, <3>2
    <3>3. QED BY <3>1, <3>2
  <2>3. ASSUME NEW r \in Slot, eng'.step[r].at \in {"replied", "gated"},
               eng'.step[r].reply.gate = "valid"
        PROVE  eng'.step[r].reply.says # "nothing"
    BY <1>1, <2>3 DEF RowsInv, StepsInv
  <2>4. ASSUME NEW r \in Slot, eng'.step[r].at = "gated", eng'.step[r].reply.gate = "valid", r > 0
        PROVE  Accepted(journal', eng'.step[r].row)
    <3>1. CASE r = s
      BY <1>1, <2>4, <3>1
    <3>2. CASE r # s
      <4>1. eng.step[r].at \in WorkingAt /\ Accepted(journal, eng.step[r].row)
        BY <1>1, <2>4, <3>2 DEF RowsInv, StepsInv, WorkingAt
      <4>2. QED BY <1>1, <1>4, <3>2, <4>1
    <3>3. QED BY <3>1, <3>2
  <2>5. eng'.at # "record"
    BY <1>1
  <2>6. QED BY <2>1, <2>2, <2>3, <2>4, <2>5 DEF StepsInv
<1>6. \A j \in 1..Len(rows) : j # st.row => (Evaluated(j)' <=> Evaluated(j))
  BY DEF Evaluated
<1>7. RecordsInv'
  BY <1>3, <1>6 DEF RowsInv, RecordsInv, Evaluated
<1>8. Grows
  <2>1. ~Evaluated(st.row)
    BY <1>3 DEF Evaluated
  <2>2. Len(rows) \in Nat
    BY DEF RowsInv, Shape, IsSeq
  <2>3. QED BY <1>3, <1>6, <2>1, <2>2 DEF Grows
<1>9. QED BY <1>1, <1>2, <1>5, <1>7, <1>8 DEF RowsInv

LEMMA StepFields ==
  ASSUME NEW st, IsStep(st), NEW at
  PROVE  [st EXCEPT !.at = at] = [at |-> at, row |-> st.row, k |-> st.k, reply |-> st.reply]
<1>1. PICK a, b, c, d : st = [at |-> a, row |-> b, k |-> c, reply |-> d]
  BY DEF IsStep
<1>2. ASSUME NEW t, t = [st EXCEPT !.at = at]
      PROVE  t = [at |-> at, row |-> st.row, k |-> st.k, reply |-> st.reply]
  BY <1>1, <1>2
<1>3. QED BY <1>2

LEMMA StepAt ==
  ASSUME RowsInv, NEW s \in Slot, eng.step[s].at \in WorkingAt
  PROVE  /\ IsStep(eng.step[s])
         /\ eng.step[s].row \in 1..Len(rows)
         /\ rows[eng.step[s].row].status \in {"running", "stopped"}
         /\ rows[eng.step[s].row].status # "completed"
<1>1. IsStep(eng.step[s])
  BY DEF RowsInv, Shape
<1>2. eng.step[s].row \in 1..Len(rows) /\ rows[eng.step[s].row].status \in {"running", "stopped"}
  BY DEF RowsInv, StepsInv
<1>3. QED BY <1>1, <1>2

LEMMA SameRows == ASSUME Shape, UNCHANGED rows PROVE RowsStay
BY DEF Shape, RowsStay

LEMMA StartAgentRunStep ==
  ASSUME RowsInv, NEW s \in Slot, StartAgentRun(s) PROVE RowsInv' /\ Grows
<1> DEFINE i == eng.step[s].row
           st == [at |-> "agent", row |-> i, k |-> eng.step[s].k, reply |-> eng.step[s].reply]
<1>1. eng.step[s].at = "call" /\ UNCHANGED <<loop, rows, journal>>
  BY DEF StartAgentRun
<1>2. MoveTo(s, st)
  <2>1. [eng.step[s] EXCEPT !.at = "agent"] = st
    BY <1>1, StepAt, StepFields DEF WorkingAt
  <2>2. QED BY <2>1 DEF StartAgentRun
<1>3. i \in 1..Len(rows) /\ rows[i].status \in {"running", "stopped"} /\ RowsStay
  BY <1>1, StepAt, SameRows DEF WorkingAt, RowsInv
<1>4. /\ IsSeq(runs') /\ Len(runs') = Len(runs)
      /\ \A j \in 1..Len(rows) : j # i => runs'[j] = runs[j]
  <2>1. runs = [j \in 1..Len(runs) |-> runs[j]] /\ Len(runs) \in Nat /\ Len(runs) = Len(rows)
    BY DEF RowsInv, Shape, IsSeq
  <2>2. PICK x : runs' = [runs EXCEPT ![i] = x]
    BY DEF StartAgentRun
  <2>3. /\ runs' = [j \in 1..Len(runs) |-> runs'[j]]
        /\ \A j \in 1..Len(rows) : j # i => runs'[j] = runs[j]
    BY <2>1, <2>2
  <2>4. QED BY <2>1, <2>3, Listed
<1>5. IsStep(st) /\ st.at \in WorkingAt /\ st.at = "agent" /\ st.row = i
  BY DEF IsStep, WorkingAt
<1>6. eng.step[s].at \in WorkingAt /\ IsSeq(journal')
  BY <1>1 DEF WorkingAt, RowsInv, Shape
<1>7. rows'[i].status # "completed"
  BY <1>1, <1>3
<1> HIDE DEF i, st
<1>8. QED BY <1>1, <1>2, <1>3, <1>4, <1>5, <1>6, <1>7, SlotStep DEF i

\* How a call may end.
LEMMA ReplyOf ==
  ASSUME NEW s \in Slot, NEW r \in Replies(StepType(s), s)
  PROVE  r.gate = "valid" => r.says # "nothing"
<1>1. StepType(s) \in {"plan", "implement", "evaluate"}
  BY DEF StepType
<1>2. QED BY <1>1, LoopRowsAssumption

LEMMA FinishAgentRunStep ==
  ASSUME RowsInv, NEW s \in Slot, FinishAgentRun(s) PROVE RowsInv' /\ Grows
<1> DEFINE i == eng.step[s].row
<1>1. eng.step[s].at = "agent" /\ UNCHANGED <<loop, rows, journal>>
  BY DEF FinishAgentRun
<1>2. PICK r \in Replies(StepType(s), s) :
        /\ runs' = [runs EXCEPT ![i] = [runs[i] EXCEPT ![Len(runs[i])] = r.tokens]]
        /\ MoveTo(s, [eng.step[s] EXCEPT !.reply = r,
                      !.at = CASE r.gate = "limit" -> "limit" [] r.gate = "raises" -> "raised"
                               [] OTHER -> "replied"])
  BY DEF FinishAgentRun
<1> DEFINE at == CASE r.gate = "limit" -> "limit" [] r.gate = "raises" -> "raised"
                   [] OTHER -> "replied"
           st == [at |-> at, row |-> i, k |-> eng.step[s].k, reply |-> r]
<1>3. MoveTo(s, st)
  <2>1. IsStep(eng.step[s])
    BY <1>1, StepAt DEF WorkingAt
  <2> HIDE DEF at
  <2>2. ASSUME NEW t, t = [eng.step[s] EXCEPT !.reply = r, !.at = at] PROVE t = st
    <3>1. PICK a, b, c, d : eng.step[s] = [at |-> a, row |-> b, k |-> c, reply |-> d]
      BY <2>1 DEF IsStep
    <3>2. eng.step[s].row = b /\ eng.step[s].k = c
      BY <3>1
    <3>3. QED BY <2>2, <3>1, <3>2
  <2>3. QED BY <1>2, <2>2 DEF at
<1>4. i \in 1..Len(rows) /\ rows[i].status \in {"running", "stopped"} /\ RowsStay
  BY <1>1, StepAt, SameRows DEF WorkingAt, RowsInv
<1>5. /\ IsSeq(runs') /\ Len(runs') = Len(runs)
      /\ \A j \in 1..Len(rows) : j # i => runs'[j] = runs[j]
  <2>1. runs = [j \in 1..Len(runs) |-> runs[j]] /\ Len(runs) \in Nat /\ Len(runs) = Len(rows)
    BY DEF RowsInv, Shape, IsSeq
  <2>2. PICK x : runs' = [runs EXCEPT ![i] = x]
    BY <1>2
  <2>3. /\ runs' = [j \in 1..Len(runs) |-> runs'[j]]
        /\ \A j \in 1..Len(rows) : j # i => runs'[j] = runs[j]
    BY <2>1, <2>2
  <2>4. QED BY <2>1, <2>3, Listed
<1>6. at \in {"limit", "raised", "replied"}
  OBVIOUS
<1>7. st.at = at /\ st.row = i /\ st.reply = r /\ IsStep(st)
  BY DEF IsStep
<1>8. r.gate = "valid" => r.says # "nothing"
  BY ReplyOf
<1>9. eng.step[s].at \in WorkingAt /\ IsSeq(journal')
  BY <1>1 DEF WorkingAt, RowsInv, Shape
<1>10. rows'[i].status # "completed"
  BY <1>1, <1>4
<1> HIDE DEF i, st, at
<1>11. st.at \in EndedAt \cup WorkingAt /\ st.at # "gated"
  BY <1>6, <1>7 DEF EndedAt, WorkingAt
<1>12. QED BY <1>1, <1>3, <1>4, <1>5, <1>7, <1>8, <1>9, <1>10, <1>11, SlotStep DEF i

LEMMA HitLimitStep ==
  ASSUME RowsInv, NEW s \in Slot, HitLimit(s) PROVE RowsInv' /\ Grows
<1> DEFINE i == eng.step[s].row
           st == [at |-> "stopped", row |-> i, k |-> eng.step[s].k, reply |-> eng.step[s].reply]
<1>1. eng.step[s].at = "limit" /\ UNCHANGED <<runs, journal>> /\ SetRow(i, "stopped")
  BY DEF HitLimit
<1>2. MoveTo(s, st)
  <2>1. [eng.step[s] EXCEPT !.at = "stopped"] = st
    BY <1>1, StepAt, StepFields DEF WorkingAt
  <2>2. QED BY <2>1 DEF HitLimit
<1>3. i \in 1..Len(rows) /\ rows[i].status # "completed"
  BY <1>1, StepAt DEF WorkingAt
<1>4. loop' = [status |-> "stopped", limited |-> TRUE, completed |-> loop.completed,
               past |-> loop.past]
  BY DEF HitLimit, RowsInv, Shape
<1>5. /\ RowsStay /\ rows'[i].status = "stopped"
      /\ \A j \in 1..Len(rows) : j # i => rows'[j] = rows[j]
  BY <1>1, <1>3, SetRowStays DEF RowsInv
<1>6. IsStep(st) /\ st.at = "stopped" /\ st.row = i /\ st.at \in EndedAt
  BY DEF IsStep, EndedAt
<1>7. st.at \notin WorkingAt
  BY DEF WorkingAt
<1>8. eng.step[s].at \in WorkingAt /\ IsSeq(journal') /\ IsSeq(runs')
  BY <1>1 DEF WorkingAt, RowsInv, Shape
<1> HIDE DEF i, st
<1>9. loop' = [status |-> "stopped", limited |-> loop'.limited, completed |-> loop'.completed,
               past |-> loop'.past]
  BY <1>4
<1>10. st.row = eng.step[s].row /\ st.at \in EndedAt \cup WorkingAt
       /\ (\A j \in 1..Len(rows) : j # st.row => rows'[j] = rows[j])
       /\ (\A j \in 1..Len(rows) : j # st.row => runs'[j] = runs[j])
       /\ Len(runs') = Len(runs)
       /\ (\A j \in 1..Len(rows) : j # st.row /\ Accepted(journal, j) => Accepted(journal', j))
       /\ rows'[st.row].status # "completed" /\ st.at \notin {"replied", "gated"}
       /\ st.at # "gated"
  BY <1>1, <1>5, <1>6 DEF i
<1>11. QED BY <1>2, <1>5, <1>6, <1>7, <1>8, <1>9, <1>10, SlotStep

\* The line is the row's own, and the row's last until the gate has ruled.
LEMMA JournalLineStep ==
  ASSUME RowsInv, NEW s \in Slot, JournalLine(s) PROVE RowsInv' /\ Grows
<1> DEFINE i == eng.step[s].row
           st == [at |-> "gated", row |-> i, k |-> eng.step[s].k, reply |-> eng.step[s].reply]
<1>1. eng.step[s].at = "replied" /\ UNCHANGED <<loop, rows, runs>> /\ IsSeq(journal)
  BY DEF JournalLine, RowsInv, Shape
<1>2. MoveTo(s, st)
  <2>1. [eng.step[s] EXCEPT !.at = "gated"] = st
    BY <1>1, StepAt, StepFields DEF WorkingAt
  <2>2. QED BY <2>1 DEF JournalLine
<1>3. i \in 1..Len(rows) /\ rows[i].status \in {"running", "stopped"} /\ RowsStay
  BY <1>1, StepAt, SameRows DEF WorkingAt, RowsInv
<1>4. IsStep(st) /\ st.at = "gated" /\ st.row = i /\ st.reply = eng.step[s].reply
  BY DEF IsStep
<1>5. st.reply.gate = "valid" => st.reply.says # "nothing"
  BY <1>1 DEF RowsInv, StepsInv
<1>6. PICK line :
        /\ line.row = i /\ line.gate = st.reply.gate /\ line.type = StepType(s)
        /\ journal' = IF st.reply.says = "nothing" THEN journal ELSE Append(journal, line)
  BY <1>4 DEF JournalLine
<1>7. IsSeq(journal')
  BY <1>1, <1>6, Appended
<1>8. \A j \in 1..Len(rows) : j # i /\ Accepted(journal, j) => Accepted(journal', j)
  BY <1>1, <1>6, OtherLine
<1>9. st.reply.gate = "valid" /\ s > 0 => Accepted(journal', i)
  BY <1>1, <1>5, <1>6, LastLine DEF StepType
<1>10. eng.step[s].at \in WorkingAt /\ IsSeq(runs')
  BY <1>1 DEF WorkingAt, RowsInv, Shape
<1>11. rows'[i].status # "completed"
  BY <1>1, <1>3
<1> HIDE DEF i, st
<1>12. st.at \in EndedAt \cup WorkingAt
  BY <1>4 DEF EndedAt, WorkingAt
<1>13. QED BY <1>1, <1>2, <1>3, <1>4, <1>5, <1>7, <1>8, <1>9, <1>10, <1>11, <1>12, SlotStep DEF i

\* A row is completed by a gate that took its last line.
LEMMA GateStep ==
  ASSUME RowsInv, NEW s \in Slot, Gate(s) PROVE RowsInv' /\ Grows
<1> DEFINE i == eng.step[s].row
           valid == eng.step[s].reply.gate = "valid"
<1>1. eng.step[s].at = "gated" /\ UNCHANGED <<loop, journal, runs>>
  BY DEF Gate
<1>2. /\ i \in 1..Len(rows) /\ rows[i].status \in {"running", "stopped"}
      /\ rows[i].status # "completed" /\ IsStep(eng.step[s])
      /\ eng.step[s].at \in WorkingAt /\ IsSeq(journal') /\ IsSeq(runs')
  BY <1>1, StepAt DEF WorkingAt, RowsInv, Shape
<1>3. rows[i].type = "evaluate" /\ valid => Accepted(journal, i)
  BY <1>1 DEF RowsInv, StepsInv, WorkingAt
<1>4. CASE ~valid /\ eng.step[s].k < MaxRetries
  <2> DEFINE st == [at |-> "retry", row |-> i, k |-> eng.step[s].k + 1,
                    reply |-> eng.step[s].reply]
  <2>1. MoveTo(s, st)
    <3>1. ASSUME NEW t, t = [eng.step[s] EXCEPT !.at = "retry", !.k = @ + 1] PROVE t = st
      <4>1. PICK a, b, c, d : eng.step[s] = [at |-> a, row |-> b, k |-> c, reply |-> d]
        BY <1>2 DEF IsStep
      <4>2. eng.step[s].row = b /\ eng.step[s].k = c /\ eng.step[s].reply = d
        BY <4>1
      <4>3. QED BY <3>1, <4>1, <4>2
    <3>2. QED BY <1>4, <3>1 DEF Gate
  <2>2. rows' = rows /\ RowsStay
    BY <1>4, SameRows DEF Gate, RowsInv
  <2>3. IsStep(st) /\ st.at = "retry" /\ st.row = i /\ st.at \in WorkingAt
    BY DEF IsStep, WorkingAt
  <2>4. rows'[i].status # "completed" /\ rows'[i].status \in {"running", "stopped"}
    BY <1>2, <2>2
  <2> HIDE DEF i, st
  <2>5. QED BY <1>1, <1>2, <2>1, <2>2, <2>3, <2>4, SlotStep DEF i
<1>5. CASE valid \/ ~(eng.step[s].k < MaxRetries)
  <2> DEFINE end == IF valid THEN "completed" ELSE "failed"
             at == IF end = "completed" THEN "done" ELSE end
             st == [at |-> at, row |-> i, k |-> eng.step[s].k, reply |-> eng.step[s].reply]
  <2>1. SetRow(i, end)
    BY <1>5 DEF Gate
  <2>2. MoveTo(s, st)
    <3>1. [eng.step[s] EXCEPT !.at = at] = st
      BY <1>2, StepFields
    <3>2. QED BY <1>5, <3>1 DEF Gate
  <2>3. at \in EndedAt /\ at \notin {"replied", "gated"} /\ at \notin WorkingAt
    BY DEF EndedAt, WorkingAt
  <2>4. IsStep(st) /\ st.at = at /\ st.row = i
    BY DEF IsStep
  <2>5. /\ RowsStay /\ rows'[i].status = end /\ rows'[i].type = rows[i].type
        /\ \A j \in 1..Len(rows) : j # i => rows'[j] = rows[j]
    <3> HIDE DEF end, i
    <3>1. QED BY <1>2, <2>1, SetRowStays DEF RowsInv, RowsStay
  <2>6. rows'[i].status = "completed" /\ rows'[i].type = "evaluate" => Accepted(journal', i)
    BY <1>1, <1>3, <2>5
  <2> HIDE DEF i, st, end, at, valid
  <2>7. st.at \in EndedAt \cup WorkingAt /\ st.at \notin {"replied", "gated"} /\ st.at # "gated"
        /\ st.at \notin WorkingAt
    BY <2>3, <2>4
  <2>8. QED BY <1>1, <1>2, <2>2, <2>4, <2>5, <2>6, <2>7, SlotStep DEF i
<1>6. QED BY <1>4, <1>5

LEMMA RetryStep ==
  ASSUME RowsInv, NEW s \in Slot, Retry(s) PROVE RowsInv' /\ Grows
<1> DEFINE i == eng.step[s].row
           at == IF Stopped THEN "stopped" ELSE "call"
           st == [at |-> at, row |-> i, k |-> eng.step[s].k, reply |-> eng.step[s].reply]
<1>1. eng.step[s].at = "retry" /\ UNCHANGED <<loop, journal, runs>>
  BY DEF Retry
<1>2. /\ i \in 1..Len(rows) /\ rows[i].status \in {"running", "stopped"}
      /\ rows[i].status # "completed" /\ IsStep(eng.step[s])
      /\ eng.step[s].at \in WorkingAt /\ IsSeq(journal') /\ IsSeq(runs')
  BY <1>1, StepAt DEF WorkingAt, RowsInv, Shape
<1>3. MoveTo(s, st)
  <2>1. [eng.step[s] EXCEPT !.at = at] = st
    BY <1>2, StepFields
  <2>2. QED BY <2>1 DEF Retry
<1>4. /\ RowsStay /\ rows'[i].status \in {"running", "stopped"}
      /\ \A j \in 1..Len(rows) : j # i => rows'[j] = rows[j]
  <2>1. CASE Stopped
    BY <1>2, <2>1, SetRowStays DEF Retry, RowsInv
  <2>2. CASE ~Stopped
    BY <1>2, <2>2, SameRows DEF Retry, RowsInv
  <2>3. QED BY <2>1, <2>2
<1>5. at \in {"stopped", "call"}
  OBVIOUS
<1>6. IsStep(st) /\ st.at = at /\ st.row = i
  BY DEF IsStep
<1> HIDE DEF i, st, at
<1>7. st.at \in EndedAt \cup WorkingAt /\ st.at \notin {"replied", "gated"} /\ st.at # "gated"
  BY <1>5, <1>6 DEF EndedAt, WorkingAt
<1>8. rows'[i].status # "completed"
  BY <1>4
<1>9. QED BY <1>1, <1>2, <1>3, <1>4, <1>6, <1>7, <1>8, SlotStep DEF i

\* A step that begins has a new row, or none on a stopped loop.
LEMMA OpenStepStep ==
  ASSUME RowsInv, NEW s \in Slot, OpenStep(s) PROVE RowsInv' /\ Grows
<1>1. /\ eng.step[s].at = "queued" /\ UNCHANGED <<loop, journal>> /\ IsStep(eng.step[s])
      /\ eng.step[s].at \notin EndedAt
  BY DEF OpenStep, RowsInv, Shape, EndedAt
<1>2. CASE Stopped
  <2> DEFINE st == [at |-> "stopped", row |-> eng.step[s].row, k |-> eng.step[s].k,
                    reply |-> eng.step[s].reply]
  <2>1. MoveTo(s, st)
    <3>1. [eng.step[s] EXCEPT !.at = "stopped"] = st
      BY <1>1, StepFields
    <3>2. QED BY <1>2, <3>1 DEF OpenStep
  <2>2. UNCHANGED <<rows, runs>>
    BY <1>2 DEF OpenStep
  <2>3. IsStep(st) /\ st.at = "stopped" /\ st.at \in EndedAt \cup WorkingAt
    BY DEF IsStep, EndedAt
  <2> HIDE DEF st
  <2>4. /\ eng' = [at |-> eng.at, iter |-> eng.iter, runs |-> eng.runs, res |-> eng.res,
                   step |-> [eng.step EXCEPT ![s] = st]]
        /\ eng'.at = eng.at /\ eng'.step[s] = st /\ eng.at # "record"
        /\ \A r \in Slot : r # s => eng'.step[r] = eng.step[r]
        /\ eng'.step = [r \in Slot |-> eng'.step[r]]
        /\ \A r \in Slot : IsStep(eng'.step[r])
        /\ EngineInv' /\ OverInv'
    BY <1>1, <2>1, <2>3, StepMoves
  <2>5. Shape'
    BY <1>1, <2>2, <2>4 DEF RowsInv, Shape
  <2>6. \A r \in Slot : eng'.step[r].at \in WorkingAt => eng'.step[r] = eng.step[r]
    BY <2>3, <2>4 DEF WorkingAt
  <2>7. \A r \in Slot : eng'.step[r].at \in {"replied", "gated"} => eng'.step[r].at \in WorkingAt
    BY DEF WorkingAt
  <2>8. StepsInv'
    BY <1>1, <2>2, <2>4, <2>6, <2>7 DEF RowsInv, StepsInv
  <2>9. RecordsInv' /\ Grows
    BY <1>1, <2>2 DEF RowsInv, Shape, IsSeq, RecordsInv, Evaluated, Grows
  <2>10. QED BY <2>4, <2>5, <2>8, <2>9 DEF RowsInv
<1>3. CASE ~Stopped
  <2> DEFINE n == Len(rows) + 1
             st == [at |-> "call", row |-> n, k |-> eng.step[s].k, reply |-> eng.step[s].reply]
  <2>1. MoveTo(s, st)
    <3>1. ASSUME NEW t, t = [eng.step[s] EXCEPT !.at = "call", !.row = Len(rows) + 1] PROVE t = st
      <4>1. PICK a, b, c, d : eng.step[s] = [at |-> a, row |-> b, k |-> c, reply |-> d]
        BY <1>1 DEF IsStep
      <4>2. eng.step[s].k = c /\ eng.step[s].reply = d
        BY <4>1
      <4>3. QED BY <3>1, <4>1, <4>2
    <3>2. QED BY <1>3, <3>1 DEF OpenStep
  <2>2. AddRow(StepType(s), s, "running")
    BY <1>3 DEF OpenStep
  <2>3. /\ IsSeq(rows') /\ Len(rows') = Len(rows) + 1
        /\ IsSeq(runs') /\ Len(runs') = Len(rows) + 1
        /\ rows'[n] = [iter |-> eng.iter, type |-> StepType(s), dim |-> s, status |-> "running"]
        /\ \A i \in 1..Len(rows) : rows'[i] = rows[i] /\ runs'[i] = runs[i]
        /\ \A i \in 1..(Len(rows) + 1) : IsRow(rows'[i])
        /\ Len(rows) \in Nat
    BY <2>2, AddRowGrows DEF RowsInv
  <2>4. rows'[n].status = "running" /\ (rows'[n].type = "evaluate" => s > 0)
    BY <2>3 DEF StepType
  <2>5. IsStep(st) /\ st.at = "call" /\ st.row = n /\ st.at \in EndedAt \cup WorkingAt
    BY DEF IsStep, WorkingAt
  <2>6. n = Len(rows) + 1 /\ n \in 1..Len(rows') /\ n \notin 1..Len(rows)
    BY <2>3
  <2> HIDE DEF st, n
  <2>7. /\ eng' = [at |-> eng.at, iter |-> eng.iter, runs |-> eng.runs, res |-> eng.res,
                   step |-> [eng.step EXCEPT ![s] = st]]
        /\ eng'.at = eng.at /\ eng'.step[s] = st /\ eng.at # "record"
        /\ \A r \in Slot : r # s => eng'.step[r] = eng.step[r]
        /\ eng'.step = [r \in Slot |-> eng'.step[r]]
        /\ \A r \in Slot : IsStep(eng'.step[r])
        /\ EngineInv' /\ OverInv'
    BY <1>1, <2>1, <2>5, StepMoves
  <2>8. Shape'
    BY <1>1, <2>3, <2>7 DEF RowsInv, Shape
  <2>9. ASSUME NEW r \in Slot, r # s, eng.step[r].at \in WorkingAt
        PROVE  /\ eng.step[r].row \in 1..Len(rows) /\ eng.step[r].row \in 1..Len(rows')
               /\ eng.step[r].row # n /\ rows'[eng.step[r].row] = rows[eng.step[r].row]
               /\ rows[eng.step[r].row].status \in {"running", "stopped"}
               /\ rows[eng.step[r].row].type = "evaluate" => r > 0
    <3>1. /\ eng.step[r].row \in 1..Len(rows)
          /\ rows[eng.step[r].row].status \in {"running", "stopped"}
          /\ rows[eng.step[r].row].type = "evaluate" => r > 0
      BY <2>9 DEF RowsInv, StepsInv
    <3>2. QED BY <2>3, <2>6, <3>1
  <2>10. StepsInv'
    <3>1. ASSUME NEW r \in Slot, eng'.step[r].at \in WorkingAt
          PROVE  /\ eng'.step[r].row \in 1..Len(rows')
                 /\ rows'[eng'.step[r].row].status \in {"running", "stopped"}
                 /\ rows'[eng'.step[r].row].type = "evaluate" => r > 0
      <4>1. CASE r = s
        BY <2>4, <2>5, <2>6, <2>7, <4>1
      <4>2. CASE r # s
        BY <2>7, <2>9, <3>1, <4>2
      <4>3. QED BY <4>1, <4>2
    <3>2. ASSUME NEW r \in Slot, NEW q \in Slot, eng'.step[r].at \in WorkingAt,
                 eng'.step[q].at \in WorkingAt, r # q
          PROVE  eng'.step[r].row # eng'.step[q].row
      <4>1. CASE r # s /\ q # s
        BY <2>7, <3>2, <4>1 DEF RowsInv, StepsInv
      <4>2. CASE r = s \/ q = s
        BY <2>5, <2>7, <2>9, <3>2, <4>2
      <4>3. QED BY <4>1, <4>2
    <3>3. ASSUME NEW r \in Slot, eng'.step[r].at \in {"replied", "gated"} PROVE r # s
      BY <2>5, <2>7, <3>3
    <3>4. \A r \in Slot : eng'.step[r].at \in {"replied", "gated"} /\ eng'.step[r].reply.gate = "valid" =>
            eng'.step[r].reply.says # "nothing"
      BY <2>7, <3>3 DEF RowsInv, StepsInv
    <3>5. \A r \in Slot : eng'.step[r].at = "gated" /\ eng'.step[r].reply.gate = "valid" /\ r > 0 =>
            Accepted(journal', eng'.step[r].row)
      BY <1>1, <2>7, <3>3 DEF RowsInv, StepsInv
    <3>6. QED BY <2>7, <3>1, <3>2, <3>4, <3>5 DEF StepsInv
  <2>11. \A i \in 1..Len(rows') : i = n \/ i \in 1..Len(rows)
    BY <2>3, <2>6
  <2>12. rows'[n].status # "completed"
    BY <2>4
  <2>13. \A i \in 1..Len(rows) : (Evaluated(i)' <=> Evaluated(i)) /\ runs'[i] = runs[i]
    BY <2>3 DEF Evaluated
  <2>14. RecordsInv'
    <3>1. \A i \in 1..Len(rows') : Evaluated(i)' => i \in 1..Len(rows)
      BY <2>11, <2>12 DEF Evaluated
    <3>2. QED BY <1>1, <2>13, <3>1 DEF RowsInv, RecordsInv
  <2>15. Grows
    <3>1. Len(rows) <= Len(rows')
      BY <2>3
    <3>2. QED BY <2>13, <3>1 DEF Grows
  <2>16. QED BY <2>7, <2>8, <2>10, <2>14, <2>15 DEF RowsInv
<1>4. QED BY <1>2, <1>3

\* Every step of the engine, and of those who stop, kill or reconcile.
LEMMA WriteStep ==
  ASSUME RowsInv, Engine \/ Command \/ Killed
  PROVE  RowsInv' /\ Grows
<1>1. CASE \E s \in Slot : \/ OpenStep(s) \/ StartAgentRun(s) \/ FinishAgentRun(s) \/ HitLimit(s)
                           \/ JournalLine(s) \/ Gate(s) \/ Retry(s)
  BY <1>1, OpenStepStep, StartAgentRunStep, FinishAgentRunStep, HitLimitStep, JournalLineStep,
     GateStep, RetryStep
<1>2. CASE Command
  BY <1>2, StopStep, DeadStep, StopRowsStep
  DEF Command, StopMarksRows, Reconcile, ReconcileRows
<1>3. QED BY <1>1, <1>2, MainStep, CarryRowStep, CarryRecordStep, CloseStep, FinishStep,
             KilledStep DEF Engine

\* A loop as it may be found.
LEMMA NewLoopInv == ASSUME NewLoop PROVE RowsInv
<1>1. /\ IsSeq(<<>>) /\ Len(<<>>) = 0
  <2>1. <<>> = [i \in 1..0 |-> <<>>[i]]
    OBVIOUS
  <2>2. QED BY <2>1, Listed
<1>2. /\ rows = <<>> /\ journal = <<>> /\ runs = <<>>
      /\ loop = [status |-> "pending", limited |-> FALSE, completed |-> "never", past |-> 0]
      /\ eng = [at |-> "off", iter |-> 0, runs |-> 0, res |-> "failed",
                step |-> [s \in Slot |-> NoStep]]
  BY OffShape DEF NewLoop
<1>3. Shape
  BY <1>1, <1>2, OffShape DEF Shape
<1>4. EngineInv /\ OverInv
  BY <1>2, OffShape DEF EngineInv, OverInv, MainAt, StageAt, EndedAt
<1>5. StepsInv
  BY <1>2, OffShape DEF StepsInv, WorkingAt
<1>6. RecordsInv
  BY <1>1, <1>2 DEF RecordsInv
<1>7. QED BY <1>3, <1>4, <1>5, <1>6 DEF RowsInv

\* What a loop that had an iteration begins with.
LEMMA LaterRows ==
  ASSUME NEW verdicts \in FirstVerdicts, LaterLoop(verdicts)
  PROVE  LET n == NDims + 2 IN
         /\ n \in Nat
         /\ loop = [status |-> "failed", limited |-> FALSE, completed |-> "this run", past |-> n]
         /\ eng = [at |-> "off", iter |-> 0, runs |-> 0, res |-> "failed",
                   step |-> [s \in Slot |-> NoStep]]
         /\ IsSeq(rows) /\ Len(rows) = n /\ IsSeq(runs) /\ Len(runs) = n
         /\ IsSeq(journal) /\ Len(journal) = n + 1 /\ DOMAIN journal = 1..(n + 1)
         /\ \A i \in 1..n :
              /\ IsRow(rows[i]) /\ rows[i].type = journal[i].type
              /\ rows[i].dim = journal[i].dim /\ rows[i].iter = 1
              /\ journal[i].type # "commit" /\ journal[i].row = i /\ journal[i].gate = "valid"
              /\ journal[i].iter = 1 /\ journal[i].from = 1
              /\ journal[i].type = "evaluate" <=> i > 2
              /\ i > 2 => journal[i].dim = i - 2 /\ journal[i].says \in {"pass", "fail"}
         /\ journal[n + 1].type = "commit" /\ journal[n + 1].iter = 1
<1> DEFINE n == NDims + 2
           type(i) == CASE i = 1 -> "plan" [] i = 2 -> "implement" [] OTHER -> "evaluate"
           says(i) == CASE i = 1 -> "continue" [] i = 2 -> "done" [] OTHER -> verdicts[i - 2]
           dim(i) == IF i > 2 THEN i - 2 ELSE 0
           lines == [i \in 1..n |-> [type |-> type(i), iter |-> 1, dim |-> dim(i), row |-> i,
                                     gate |-> "valid", says |-> says(i), from |-> 1]]
           commit == [type |-> "commit", iter |-> 1, dim |-> 0, row |-> 0,
                      gate |-> "valid", says |-> "nothing", from |-> 1]
<1>1. /\ loop = [status |-> "failed", limited |-> FALSE, completed |-> "this run", past |-> n]
      /\ rows = [i \in 1..n |-> [iter |-> 1, type |-> type(i), dim |-> dim(i),
                                 status |-> "completed"]]
      /\ journal = lines \o <<commit>>
      /\ runs = [i \in 1..n |-> <<"reported">>]
      /\ eng = [at |-> "off", iter |-> 0, runs |-> 0, res |-> "failed",
                step |-> [s \in Slot |-> NoStep]]
  BY OffShape DEF LaterLoop
<1>2. n \in Nat
  BY LoopRowsAssumption
<1>3. \A i \in 1..n : /\ lines[i].type = type(i) /\ lines[i].dim = dim(i) /\ lines[i].says = says(i)
                      /\ lines[i].row = i /\ lines[i].gate = "valid"
                      /\ lines[i].iter = 1 /\ lines[i].from = 1
  OBVIOUS
<1>4. lines = [i \in 1..n |-> lines[i]]
  OBVIOUS
<1>5. commit.type = "commit" /\ commit.iter = 1
  OBVIOUS
<1> HIDE DEF lines, commit
<1>6. /\ IsSeq(journal) /\ Len(journal) = n + 1 /\ DOMAIN journal = 1..(n + 1)
      /\ journal[n + 1] = commit /\ \A i \in 1..n : journal[i] = lines[i]
  <2> DEFINE S == {lines[i] : i \in 1..n} \cup {commit}
  <2>1. lines \in Seq(S) /\ Len(lines) = n /\ <<commit>> \in Seq(S)
    <3>1. \A i \in 1..n : lines[i] \in S
      OBVIOUS
    <3>2. commit \in S
      OBVIOUS
    <3> HIDE DEF S
    <3>3. lines \in Seq(S)
      BY <1>2, <1>4, <3>1
    <3>4. Len(lines) = n
      BY <1>2, <1>4, Listed
    <3>5. QED BY <3>2, <3>3, <3>4
  <2> HIDE DEF S, n
  <2>2. /\ journal \in Seq(S) /\ Len(journal) = Len(lines) + Len(<<commit>>)
        /\ \A i \in 1..(Len(lines) + Len(<<commit>>)) :
             journal[i] = IF i <= Len(lines) THEN lines[i] ELSE <<commit>>[i - Len(lines)]
    BY <1>1, <2>1, ConcatProperties
  <2>3. Len(<<commit>>) = 1 /\ <<commit>>[1] = commit
    OBVIOUS
  <2>4. /\ Len(journal) = n + 1 /\ journal[n + 1] = commit
        /\ \A i \in 1..n : journal[i] = lines[i]
    BY <1>2, <2>1, <2>2, <2>3
  <2>5. journal = [i \in 1..(n + 1) |-> journal[i]]
    BY <1>2, <2>2, <2>4
  <2>6. QED BY <1>2, <2>4, <2>5, Listed
<1>7. /\ IsSeq(rows) /\ Len(rows) = n /\ IsSeq(runs) /\ Len(runs) = n
  <2>1. rows = [i \in 1..n |-> rows[i]] /\ runs = [i \in 1..n |-> runs[i]]
    BY <1>1
  <2>2. QED BY <1>2, <2>1, Listed
<1>8. \A i \in 1..n : /\ IsRow(rows[i]) /\ rows[i].type = type(i) /\ rows[i].dim = dim(i)
                      /\ rows[i].iter = 1
  BY <1>1 DEF IsRow
<1>9. \A i \in 1..n : /\ type(i) # "commit" /\ (type(i) = "evaluate" <=> i > 2)
                      /\ i > 2 => dim(i) = i - 2 /\ says(i) \in {"pass", "fail"}
  <2>1. \A d \in Dimension : verdicts[d] \in {"pass", "fail"}
    BY LoopRowsAssumption
  <2>2. \A i \in 1..n : i > 2 => i - 2 \in Dimension
    BY LoopRowsAssumption DEF Dimension
  <2>3. \A i \in 1..n : i > 2 => says(i) = verdicts[i - 2]
    BY <1>2
  <2>4. \A i \in 1..n : i > 2 => says(i) \in {"pass", "fail"}
    BY <2>1, <2>2, <2>3
  <2>5. QED BY <1>2, <2>4
<1> HIDE DEF type, says, dim
<1>10. \A i \in 1..n :
         /\ IsRow(rows[i]) /\ rows[i].type = journal[i].type
         /\ rows[i].dim = journal[i].dim /\ rows[i].iter = 1
         /\ journal[i].type # "commit" /\ journal[i].row = i /\ journal[i].gate = "valid"
         /\ journal[i].iter = 1 /\ journal[i].from = 1
         /\ journal[i].type = "evaluate" <=> i > 2
         /\ i > 2 => journal[i].dim = i - 2 /\ journal[i].says \in {"pass", "fail"}
  BY <1>3, <1>6, <1>8, <1>9
<1>11. QED BY <1>1, <1>2, <1>5, <1>6, <1>7, <1>10

LEMMA LaterLoopInv == ASSUME NEW verdicts \in FirstVerdicts, LaterLoop(verdicts) PROVE RowsInv
<1> DEFINE n == NDims + 2
<1>1. /\ n \in Nat
      /\ loop = [status |-> "failed", limited |-> FALSE, completed |-> "this run", past |-> n]
      /\ eng = [at |-> "off", iter |-> 0, runs |-> 0, res |-> "failed",
                step |-> [s \in Slot |-> NoStep]]
      /\ IsSeq(rows) /\ Len(rows) = n /\ IsSeq(runs) /\ Len(runs) = n
      /\ IsSeq(journal) /\ DOMAIN journal = 1..(n + 1)
      /\ \A i \in 1..n : /\ IsRow(rows[i]) /\ rows[i].type = journal[i].type
                         /\ journal[i].row = i /\ journal[i].gate = "valid"
      /\ journal[n + 1].type = "commit"
  BY LaterRows
<1>2. 1..n \subseteq 1..(n + 1) /\ \A k \in 1..(n + 1) : k = n + 1 \/ k \in 1..n
  BY LoopRowsAssumption
<1> HIDE DEF n
<1>3. Shape
  BY <1>1, OffShape DEF Shape
<1>4. EngineInv /\ OverInv
  BY <1>1, OffShape DEF EngineInv, OverInv, MainAt, StageAt, EndedAt
<1>5. StepsInv
  BY <1>1, OffShape DEF StepsInv, WorkingAt
<1>6. ASSUME NEW i \in 1..n, rows[i].type = "evaluate" PROVE Accepted(journal, i)
  <2>1. /\ i \in DOMAIN journal /\ journal[i].type = "evaluate" /\ journal[i].row = i
        /\ journal[i].gate = "valid"
    BY <1>1, <1>2, <1>6
  <2>2. ASSUME NEW k \in DOMAIN journal, journal[k].type = "evaluate", journal[k].row = i
        PROVE  k <= i
    <3>1. k = i
      BY <1>1, <1>2, <2>2
    <3>2. i \in Nat
      OBVIOUS
    <3>3. QED BY <3>1, <3>2
  <2>3. QED BY <2>1, <2>2 DEF Accepted
<1>7. RecordsInv
  BY <1>1, <1>6 DEF RecordsInv, Evaluated
<1>8. QED BY <1>3, <1>4, <1>5, <1>7 DEF RowsInv

LEMMA RowsInitInv == RowsInit => RowsInv
BY NewLoopInv, LaterLoopInv DEF RowsInit

-----------------------------------------------------------------------------
(* The page.                                                               *)

IsLoop(l) ==
  l = [status |-> l.status, limited |-> l.limited, completed |-> l.completed, past |-> l.past]

PageShape ==
  /\ page = [at |-> page.at, by |-> page.by, loop |-> page.loop, rows |-> page.rows,
             journal |-> page.journal, runs |-> page.runs, dims |-> page.dims]
  /\ page.at # "load" => IsLoop(page.loop)
  /\ page.at \in {"load", "pid", "dead", "rows", "journal", "runs", "shown"} /\ page.by \in {"web", "status"}

\* What has been read: the web reads the rows first, `mini loop status` the journal.
HasRows ==
  page.at \in (IF page.by = "web" THEN {"journal", "runs", "shown"} ELSE {"runs", "shown"})
HasJournal ==
  page.at \in (IF page.by = "web" THEN {"runs", "shown"} ELSE {"rows", "runs", "shown"})

\* The rows as a loop shows them that is not running.
Calm(rs) == [i \in DOMAIN rs |-> [rs[i] EXCEPT !.status =
                                     IF rs[i].status = "running" THEN "stopped" ELSE rs[i].status]]

\* What a read has of a loop that is over by itself stays true: the engine is gone, and
\* what is late marks the loop, and rows that show as STOPPED.
FinalInv ==
  page.at # "load" /\ page.loop.status \in {"completed", "failed"} =>
    /\ eng.at = "off" /\ page.loop.completed = "this run"
    /\ loop.status \in {page.loop.status, "stopped", "failed"}
    /\ HasRows => Calm(page.rows) = Calm(rows)
    /\ HasJournal => page.journal = journal
    /\ page.at = "shown" => page.runs = runs

\* The evaluators the page read as completed are so still, and the journal it read
\* after them has their lines.
WebInv ==
  page.by = "web" =>
    /\ HasRows => /\ IsSeq(page.rows) /\ Len(page.rows) <= Len(rows)
                  /\ \A i \in 1..Len(page.rows) :
                       /\ IsRow(page.rows[i])
                       /\ page.rows[i].type = "evaluate" /\ page.rows[i].status = "completed"
                            => Evaluated(i)
    /\ HasJournal => /\ IsSeq(page.journal)
                     /\ \A i \in 1..Len(page.rows) : Evaluated(i) /\ runs[i] # <<>>
                          /\ page.rows[i].type = "evaluate" /\ page.rows[i].status = "completed"
                            => Accepted(page.journal, i)
    /\ page.at = "shown" =>
         \A i \in 1..Len(page.rows) :
           page.rows[i].type = "evaluate" /\ page.rows[i].status = "completed"
             => page.runs[i] = runs[i]

PageInv == PageShape /\ FinalInv /\ WebInv

LEMMA CalmShown == ASSUME NEW l, NEW rs, l.status # "running" PROVE ShownRows(l, rs) = Calm(rs)
<1>1. \A i \in DOMAIN rs : ShownStatus(l, rs[i])
                            = IF rs[i].status = "running" THEN "stopped" ELSE rs[i].status
  BY DEF ShownStatus
<1>2. QED BY <1>1 DEF ShownRows, Calm

LEMMA CalmStays == ASSUME Shape, StopRows PROVE Calm(rows') = Calm(rows)
<1>1. /\ DOMAIN rows' = DOMAIN rows /\ DOMAIN rows = 1..Len(rows)
      /\ \A i \in DOMAIN rows : rows'[i] = IF rows[i].status = "running"
                                 THEN [rows[i] EXCEPT !.status = "stopped"] ELSE rows[i]
  BY DEF StopRows, Shape, IsSeq
<1>2. ASSUME NEW i \in DOMAIN rows
      PROVE  [rows'[i] EXCEPT !.status =
                IF rows'[i].status = "running" THEN "stopped" ELSE rows'[i].status]
             = [rows[i] EXCEPT !.status =
                  IF rows[i].status = "running" THEN "stopped" ELSE rows[i].status]
  <2>1. PICK a, b, c, d : rows[i] = [iter |-> a, type |-> b, dim |-> c, status |-> d]
    <3>1. IsRow(rows[i])
      BY <1>1 DEF Shape
    <3>2. QED BY <3>1 DEF IsRow
  <2>2. CASE d = "running"
    <3>1. rows'[i] = [iter |-> a, type |-> b, dim |-> c, status |-> "stopped"]
      BY <1>1, <2>1, <2>2
    <3>2. QED BY <2>1, <2>2, <3>1
  <2>3. CASE d # "running"
    BY <1>1, <2>1, <2>3
  <2>4. QED BY <2>2, <2>3
<1>3. QED BY <1>1, <1>2 DEF Calm

\* An engine that is gone writes nothing.
LEMMA Quiet ==
  ASSUME RowsInv, eng.at = "off"
  PROVE  ~(Engine \/ Killed)
<1>1. \A s \in Slot : eng.step[s].at = "idle"
  BY DEF RowsInv, EngineInv
<1>2. ~(NextIteration \/ Plan \/ Implement \/ Evaluate \/ StageDone \/ Settle)
  BY DEF NextIteration, Plan, Implement, Evaluate, StageDone, Settle
<1>3. ~(CarryRow \/ CarryRecord \/ Close \/ StepsFail \/ Finish)
  BY <1>1 DEF CarryRow, CarryRecord, Close, StepsFail, Finish
<1>4. ASSUME NEW s \in Slot
      PROVE  ~(\/ OpenStep(s) \/ StartAgentRun(s) \/ FinishAgentRun(s) \/ HitLimit(s)
               \/ JournalLine(s) \/ Gate(s) \/ Retry(s))
  BY <1>1 DEF OpenStep, StartAgentRun, FinishAgentRun, HitLimit, JournalLine, Gate, Retry
<1>5. QED BY <1>2, <1>3, <1>4 DEF Engine, Killed

\* A stop or a load that is late.
LEMMA LateCommand ==
  ASSUME RowsInv, Command
  PROVE  /\ UNCHANGED <<journal, runs, eng>> /\ Calm(rows') = Calm(rows)
         /\ loop' = loop \/ loop'.status \in {"stopped", "failed"}
<1>1. UNCHANGED <<journal, runs, eng>> /\ (rows' = rows \/ StopRows)
  BY DEF Command, StopMarksLoop, StopMarksRows, Reconcile, ReconcileRows
<1>2. loop' = loop \/ loop'.status \in {"stopped", "failed"}
  BY DEF Command, StopMarksLoop, StopMarksRows, Reconcile, ReconcileRows, EndLoop, RowsInv, Shape
<1>3. QED BY <1>1, <1>2, CalmStays DEF RowsInv

LEMMA BlankPage == ASSUME page = Blank PROVE PageInv
<1>1. page = [at |-> "load", by |-> "web", loop |-> <<>>, rows |-> <<>>, journal |-> <<>>,
              runs |-> <<>>, dims |-> 0]
  BY DEF Blank
<1>2. QED BY <1>1 DEF PageInv, PageShape, FinalInv, WebInv, HasRows, HasJournal

LEMMA BlankAgain == ASSUME page' = Blank PROVE PageInv'
<1>1. page' = [at |-> "load", by |-> "web", loop |-> <<>>, rows |-> <<>>, journal |-> <<>>,
               runs |-> <<>>, dims |-> 0]
  BY DEF Blank
<1>2. QED BY <1>1 DEF PageInv, PageShape, FinalInv, WebInv, HasRows, HasJournal

\* The engine goes on between the reads.
LEMMA PageUnderWrites ==
  ASSUME RowsInv, PageInv, Engine \/ Command \/ Killed, UNCHANGED page
  PROVE  PageInv'
<1>1. Grows
  BY WriteStep
<1>2. PageShape'
  BY DEF PageInv, PageShape
<1>3. FinalInv'
  <2>1. CASE page.at # "load" /\ page.loop.status \in {"completed", "failed"}
    <3>1. Command
      BY <2>1, Quiet DEF PageInv, FinalInv
    <3>2. QED BY <2>1, <3>1, LateCommand DEF PageInv, FinalInv, HasRows, HasJournal
  <2>2. CASE ~(page.at # "load" /\ page.loop.status \in {"completed", "failed"})
    BY <2>2 DEF FinalInv
  <2>3. QED BY <2>1, <2>2
<1>4. WebInv'
  <2>1. SUFFICES ASSUME page.by = "web" PROVE WebInv'
    BY DEF WebInv
  <2>2. HasRows' = HasRows /\ HasJournal' = HasJournal /\ (HasJournal => HasRows)
        /\ (page.at = "shown" => HasRows)
    BY <2>1 DEF HasRows, HasJournal
  <2>3. ASSUME HasRows
        PROVE  /\ IsSeq(page.rows) /\ Len(page.rows) <= Len(rows')
               /\ Len(page.rows) \in Nat /\ Len(rows) \in Nat /\ Len(rows') \in Nat
    <3>1. RowsInv'
      BY WriteStep
    <3>2. QED BY <1>1, <2>1, <2>3, <3>1 DEF PageInv, WebInv, Grows, RowsInv, Shape, IsSeq
  <2>4. ASSUME HasRows, NEW i \in 1..Len(page.rows), page.rows[i].type = "evaluate",
               page.rows[i].status = "completed"
        PROVE  Evaluated(i) /\ Evaluated(i)' /\ runs'[i] = runs[i]
    <3>1. i \in 1..Len(rows) /\ Evaluated(i)
      BY <2>1, <2>3, <2>4 DEF PageInv, WebInv
    <3>2. QED BY <1>1, <3>1 DEF Grows
  <2>5. QED BY <2>1, <2>2, <2>3, <2>4 DEF PageInv, WebInv
<1>5. QED BY <1>2, <1>3, <1>4 DEF PageInv

LEMMA LoadLoopStep ==
  ASSUME RowsInv, PageInv, LoadLoop PROVE PageInv'
<1>1. page.at = "load" /\ UNCHANGED <<loop, rows, journal, runs, eng>>
  BY DEF LoadLoop, rowVars
<1>2. PICK by \in {"web", "status"} : \E at \in {"pid", FirstRead(by)} :
        page' = [page EXCEPT !.by = by, !.loop = loop, !.at = at]
  BY DEF LoadLoop
<1> PICK at \in {"pid", FirstRead(by)} : page' = [page EXCEPT !.by = by, !.loop = loop, !.at = at]
  BY <1>2
<1>3. page' = [at |-> at, by |-> by, loop |-> loop,
               rows |-> page.rows, journal |-> page.journal, runs |-> page.runs,
               dims |-> page.dims]
  BY DEF PageInv, PageShape
<1>4. PageShape'
  BY <1>1, <1>3 DEF PageShape, FirstRead, RowsInv, Shape, IsLoop
<1>5. ~HasRows' /\ ~HasJournal' /\ page'.at # "shown" /\ page'.loop = loop
  BY <1>3 DEF HasRows, HasJournal, FirstRead
<1>6. FinalInv' /\ WebInv'
  BY <1>1, <1>5 DEF FinalInv, WebInv, RowsInv, OverInv
<1>7. QED BY <1>4, <1>6 DEF PageInv

LEMMA MarkedLoop ==
  ASSUME NEW l, IsLoop(l), NEW m, m = [l EXCEPT !.status = "failed", !.completed = "this run"]
  PROVE  m.completed = "this run" /\ m.status = "failed" /\ IsLoop(m)
<1>1. PICK a, b, c, d : l = [status |-> a, limited |-> b, completed |-> c, past |-> d]
  BY DEF IsLoop
<1>2. m = [status |-> "failed", limited |-> b, completed |-> "this run", past |-> d]
  BY <1>1
<1>3. QED BY <1>2 DEF IsLoop

\* A load that finds the engine of a RUNNING loop gone marks the loop and its copy;
LEMMA MarkDeadStep ==
  ASSUME RowsInv, PageInv, MarkDead PROVE RowsInv' /\ PageInv'
<1>1. page.at = "pid" /\ UNCHANGED <<rows, journal, runs, eng>>
  BY DEF MarkDead
<1>2. CASE eng.at # "off"
  <2>1. /\ loop' = loop
        /\ page' = [at |-> FirstRead(page.by), by |-> page.by, loop |-> page.loop,
                    rows |-> page.rows, journal |-> page.journal, runs |-> page.runs,
                    dims |-> page.dims]
    BY <1>2 DEF MarkDead, PageInv, PageShape
  <2>2. RowsInv'
    BY <1>1, <2>1 DEF RowsInv, Shape, EngineInv, OverInv, StepsInv, RecordsInv, Evaluated
  <2>3. PageShape' /\ ~HasRows' /\ ~HasJournal' /\ page'.at # "shown" /\ page'.loop = page.loop
    <3>1. IsLoop(page.loop) /\ page.by \in {"web", "status"}
      BY <1>1 DEF PageInv, PageShape
    <3>2. /\ page'.at = FirstRead(page.by) /\ page'.by = page.by /\ page'.loop = page.loop
          /\ page'.rows = page.rows /\ page'.journal = page.journal /\ page'.runs = page.runs
          /\ page'.dims = page.dims
      BY <2>1
    <3>3. FirstRead(page.by) = IF page.by = "web" THEN "rows" ELSE "journal"
      BY DEF FirstRead
    <3>4. PageShape'
      BY <2>1, <3>1, <3>2, <3>3 DEF PageShape
    <3>5. QED BY <3>2, <3>3, <3>4 DEF HasRows, HasJournal
  <2>4. FinalInv' /\ WebInv'
    BY <1>1, <2>1, <2>3 DEF PageInv, FinalInv, WebInv
  <2>5. QED BY <2>2, <2>3, <2>4 DEF PageInv
<1>3. CASE eng.at = "off"
  <2>1. EndLoop("failed") /\ page' = [page EXCEPT !.at = "dead", !.loop.status = "failed",
                                                 !.loop.completed = "this run"]
    BY <1>3 DEF MarkDead
  <2>2. /\ page'.at = "dead" /\ page'.by = page.by
        /\ page' = [at |-> page'.at, by |-> page'.by, loop |-> page'.loop, rows |-> page'.rows,
                    journal |-> page'.journal, runs |-> page'.runs, dims |-> page'.dims]
    BY <2>1 DEF PageInv, PageShape
  <2>3. loop'.status = "failed" /\ eng'.at = "off"
    <3>1. loop' = [status |-> "failed", limited |-> loop.limited, completed |-> "this run",
                   past |-> loop.past]
      BY <2>1, EndLoopShape DEF RowsInv
    <3>2. QED BY <1>1, <1>3, <3>1
  <2>4. page'.loop.completed = "this run" /\ page'.loop.status = "failed" /\ IsLoop(page'.loop)
    <3>1. page'.loop = [page.loop EXCEPT !.status = "failed", !.completed = "this run"]
      BY <2>1 DEF PageInv, PageShape
    <3>2. IsLoop(page.loop)
      BY <1>1 DEF PageInv, PageShape
    <3>3. QED BY <3>1, <3>2, MarkedLoop
  <2>5. PageShape' /\ ~HasRows' /\ ~HasJournal'
    BY <2>2, <2>4 DEF PageInv, PageShape, HasRows, HasJournal
  <2>6. FinalInv' /\ WebInv'
    BY <2>2, <2>3, <2>4, <2>5 DEF FinalInv, WebInv
  <2>7. QED BY <1>1, <1>3, <2>1, <2>5, <2>6, DeadStep DEF PageInv
<1>4. QED BY <1>2, <1>3

\* and then its rows.
LEMMA MarkDeadRowsStep ==
  ASSUME RowsInv, PageInv, MarkDeadRows PROVE RowsInv' /\ PageInv'
<1>1. /\ page.at = "dead" /\ UNCHANGED <<loop, journal, runs, eng>> /\ StopRows
      /\ page' = [at |-> FirstRead(page.by), by |-> page.by, loop |-> page.loop,
                  rows |-> page.rows, journal |-> page.journal, runs |-> page.runs,
                  dims |-> page.dims]
  BY DEF MarkDeadRows, PageInv, PageShape
<1>2. PageShape' /\ ~HasRows' /\ ~HasJournal' /\ page'.at # "shown" /\ page'.loop = page.loop
  BY <1>1 DEF PageInv, PageShape, HasRows, HasJournal, FirstRead
<1>3. FinalInv' /\ WebInv'
  BY <1>1, <1>2 DEF PageInv, FinalInv, WebInv
<1>4. QED BY <1>1, <1>2, <1>3, StopRowsStep DEF PageInv

LEMMA ReadRowsStep ==
  ASSUME RowsInv, PageInv, ReadRows PROVE PageInv'
<1>1. /\ page.at = "rows" /\ UNCHANGED <<loop, rows, journal, runs, eng>>
      /\ page' = [at |-> IF page.by = "web" THEN "journal" ELSE "runs", by |-> page.by,
                  loop |-> page.loop, rows |-> rows, journal |-> page.journal,
                  runs |-> page.runs, dims |-> page.dims]
  BY DEF ReadRows, PageInv, PageShape, rowVars
<1>2. /\ page'.by = page.by /\ page'.loop = page.loop /\ page'.rows = rows
      /\ page'.journal = page.journal /\ page'.at # "shown"
      /\ HasRows' /\ HasJournal' = HasJournal /\ (page.by = "web" => ~HasJournal)
  BY <1>1 DEF HasRows, HasJournal
<1>3. PageShape'
  BY <1>1 DEF PageInv, PageShape
<1>4. FinalInv'
  BY <1>1, <1>2 DEF PageInv, FinalInv
<1>5. WebInv'
  <2>1. IsSeq(rows) /\ Len(rows) <= Len(rows) /\ \A i \in 1..Len(rows) : IsRow(rows[i])
    BY DEF RowsInv, Shape, IsSeq
  <2>2. QED BY <1>1, <1>2, <2>1 DEF WebInv, Evaluated
<1>6. QED BY <1>3, <1>4, <1>5 DEF PageInv

LEMMA ReadJournalStep ==
  ASSUME RowsInv, PageInv, ReadJournal PROVE PageInv'
<1>1. /\ page.at = "journal" /\ UNCHANGED <<loop, rows, journal, runs, eng>>
      /\ page' = [at |-> IF page.by = "web" THEN "runs" ELSE "rows", by |-> page.by,
                  loop |-> page.loop, rows |-> page.rows, journal |-> journal,
                  runs |-> page.runs, dims |-> page.dims]
  BY DEF ReadJournal, PageInv, PageShape, rowVars
<1>2. /\ page'.by = page.by /\ page'.loop = page.loop /\ page'.rows = page.rows
      /\ page'.journal = journal /\ page'.at # "shown"
      /\ HasRows' = HasRows /\ HasJournal' /\ (page.by = "web" => HasRows)
  BY <1>1 DEF HasRows, HasJournal
<1>3. PageShape'
  BY <1>1 DEF PageInv, PageShape
<1>4. FinalInv'
  BY <1>1, <1>2 DEF PageInv, FinalInv
<1>5. WebInv'
  <2>1. SUFFICES ASSUME page.by = "web" PROVE WebInv'
    BY <1>2 DEF WebInv
  <2>2. /\ IsSeq(page.rows) /\ Len(page.rows) <= Len(rows)
        /\ Len(page.rows) \in Nat /\ Len(rows) \in Nat
        /\ \A i \in 1..Len(page.rows) :
             /\ IsRow(page.rows[i])
             /\ page.rows[i].type = "evaluate" /\ page.rows[i].status = "completed" => Evaluated(i)
    BY <1>2, <2>1 DEF PageInv, WebInv, RowsInv, Shape, IsSeq
  <2>3. ASSUME NEW i \in 1..Len(page.rows), Evaluated(i), runs[i] # <<>>
        PROVE  Accepted(journal, i)
    <3>1. i \in 1..Len(rows)
      BY <2>2
    <3>2. QED BY <2>3, <3>1 DEF RowsInv, RecordsInv
  <2>4. IsSeq(journal)
    BY DEF RowsInv, Shape
  <2>5. QED BY <1>1, <1>2, <2>2, <2>3, <2>4 DEF WebInv, Evaluated
<1>6. QED BY <1>3, <1>4, <1>5 DEF PageInv

LEMMA ReadRunsStep ==
  ASSUME RowsInv, PageInv, ReadRuns PROVE PageInv'
<1>1. PICK dims : /\ page.at = "runs" /\ UNCHANGED <<loop, rows, journal, runs, eng>>
                  /\ page' = [page EXCEPT !.at = "shown", !.runs = runs, !.dims = dims]
  BY DEF ReadRuns, rowVars
<1>2. page' = [at |-> "shown", by |-> page.by, loop |-> page.loop, rows |-> page.rows,
               journal |-> page.journal, runs |-> runs, dims |-> dims]
  BY <1>1 DEF PageInv, PageShape
<1>3. /\ page'.by = page.by /\ page'.loop = page.loop /\ page'.rows = page.rows
      /\ page'.journal = page.journal /\ page'.runs = runs
      /\ page'.at = "shown" /\ page.by \in {"web", "status"}
      /\ HasRows' = HasRows /\ HasJournal' = HasJournal
  BY <1>1, <1>2 DEF HasRows, HasJournal, PageInv, PageShape
<1>4. PageShape'
  <2>1. IsLoop(page.loop)
    BY <1>1 DEF PageInv, PageShape
  <2>2. QED BY <1>2, <1>3, <2>1 DEF PageShape
<1>5. FinalInv'
  BY <1>1, <1>3 DEF PageInv, FinalInv
<1>6. WebInv'
  BY <1>1, <1>3 DEF PageInv, WebInv, Evaluated
<1>7. QED BY <1>4, <1>5, <1>6 DEF PageInv

LEMMA PageStep ==
  ASSUME RowsInv, PageInv, [PageNext]_pageVars PROVE RowsInv' /\ PageInv'
<1>1. ASSUME UNCHANGED <<loop, rows, journal, runs, eng>> PROVE RowsInv'
  BY <1>1 DEF RowsInv, Shape, EngineInv, OverInv, StepsInv, RecordsInv, Evaluated
<1>2. CASE LoadLoop \/ MarkDead \/ MarkDeadRows
  BY <1>1, <1>2, LoadLoopStep, MarkDeadStep, MarkDeadRowsStep DEF LoadLoop, rowVars
<1>3. CASE ReadRows
  BY <1>1, <1>3, ReadRowsStep DEF ReadRows, rowVars
<1>4. CASE ReadJournal
  BY <1>1, <1>4, ReadJournalStep DEF ReadJournal, rowVars
<1>5. CASE ReadRuns
  BY <1>1, <1>5, ReadRunsStep DEF ReadRuns, rowVars
<1>6. CASE Poll
  BY <1>1, <1>6, BlankAgain DEF Poll, rowVars
<1>7. CASE Restart
  BY <1>7, BlankAgain, StartRunStep DEF Restart
<1>8. CASE (Engine \/ Command \/ Killed) /\ UNCHANGED page
  BY <1>8, WriteStep, PageUnderWrites
<1>9. CASE UNCHANGED pageVars
  <2>1. UNCHANGED <<loop, rows, journal, runs, eng, page>>
    BY <1>9 DEF pageVars, rowVars
  <2>2. PageInv'
    BY <2>1 DEF PageInv, PageShape, FinalInv, WebInv, HasRows, HasJournal, Evaluated
  <2>3. QED BY <1>1, <2>1, <2>2
<1>10. QED BY <1>2, <1>3, <1>4, <1>5, <1>6, <1>7, <1>8, <1>9 DEF PageNext

\* The rows and the journal on disk, and what each read has of them.
THEOREM LoopPageInvariant == PageSpec => [](RowsInv /\ PageInv)
<1>1. Init => RowsInv /\ PageInv
  BY RowsInitInv, BlankPage DEF Init
<1>2. RowsInv /\ PageInv /\ [PageNext]_pageVars => (RowsInv /\ PageInv)'
  BY PageStep
<1>3. QED BY <1>1, <1>2, PTL DEF PageSpec

\* Whatever was written between the reads, a page that shows a loop as completed or
\* failed, and so polls no more (loop.js), shows its end as this run's and the steps, the
\* journal and the agent runs as they are and will be; a stop or a load that is late
\* (cli/loop.py, storage/loop_store.py) makes the loop STOPPED or FAILED, and marks
\* rows that show as STOPPED already.
THEOREM FinalLoopPageStays == PageSpec => []FinalLoopPageTrue
<1>1. ASSUME RowsInv, PageInv PROVE FinalLoopPageTrue
  <2>1. SUFFICES ASSUME Final
                 PROVE  /\ loop.status \in {page.loop.status, "stopped", "failed"}
                        /\ page.loop.completed = "this run"
                        /\ Steps = ShownRows(loop, rows) /\ page.journal = journal
                        /\ page.runs = runs
    BY DEF FinalLoopPageTrue
  <2>2. HasRows /\ HasJournal
    BY <2>1 DEF Final, Shown, HasRows, HasJournal
  <2>3. /\ loop.status \in {page.loop.status, "stopped", "failed"}
        /\ page.loop.completed = "this run"
        /\ Calm(page.rows) = Calm(rows) /\ page.journal = journal /\ page.runs = runs
    BY <1>1, <2>1, <2>2 DEF Final, Shown, PageInv, FinalInv
  <2>4. loop.status # "running" /\ page.loop.status # "running"
    BY <2>1, <2>3 DEF Final
  <2>5. QED BY <2>3, <2>4, CalmShown DEF Steps
<1>2. QED BY <1>1, LoopPageInvariant, PTL

\* The last line of a step that has one.
LEMMA LastRecord ==
  ASSUME IsSeq(page.journal), NEW i, Accepted(page.journal, i)
  PROVE  RecordOf(i) # 0 /\ page.journal[RecordOf(i)].gate = "valid"
<1> DEFINE is == {j \in DOMAIN page.journal : page.journal[j].type = "evaluate"
                                              /\ page.journal[j].row = i}
<1>1. DOMAIN page.journal = 1..Len(page.journal) /\ Len(page.journal) \in Nat
  BY DEF IsSeq
<1>2. PICK j \in DOMAIN page.journal :
        /\ j \in is /\ page.journal[j].gate = "valid" /\ \A k \in is : k <= j
  BY DEF Accepted
<1>3. is \subseteq 1..Len(page.journal)
  BY <1>1
<1>4. RecordOf(i) = LastOf(is)
  BY <1>2 DEF RecordOf
<1> HIDE DEF is
<1>5. LastOf(is) \in is /\ \A k \in is : k <= LastOf(is)
  BY <1>2 DEF LastOf
<1>6. LastOf(is) = j
  <2>1. LastOf(is) \in Int /\ j \in Int
    BY <1>1, <1>2, <1>3, <1>5
  <2>2. LastOf(is) <= j /\ j <= LastOf(is)
    BY <1>2, <1>5
  <2>3. QED BY <2>1, <2>2
<1>7. j # 0
  BY <1>1, <1>2
<1>8. QED BY <1>2, <1>4, <1>6, <1>7

\* The web page reads the rows before the journal (loop_views.py): an evaluator it
\* shows completed is shown with the verdict its gate accepted, however many lines
\* other steps and rejected replies added between the two reads.
THEOREM FinishedVerdictsStay == PageSpec => []FinishedVerdictShown
<1>1. ASSUME RowsInv, PageInv PROVE FinishedVerdictShown
  <2>1. SUFFICES ASSUME Shown, page.by = "web", NEW i \in DOMAIN Steps,
                        Steps[i].type = "evaluate", Steps[i].status = "completed",
                        page.runs[i] # <<>>
                 PROVE  RecordOf(i) # 0 /\ page.journal[RecordOf(i)].gate = "valid"
    BY DEF FinishedVerdictShown
  <2>2. HasRows /\ HasJournal /\ page.at = "shown"
    BY <2>1 DEF Shown, HasRows, HasJournal
  <2>3. i \in DOMAIN page.rows /\ Steps[i] = [page.rows[i] EXCEPT !.status =
                                                ShownStatus(page.loop, page.rows[i])]
    BY <2>1 DEF Steps, ShownRows
  <2>4. i \in 1..Len(page.rows)
    BY <1>1, <2>1, <2>2, <2>3 DEF PageInv, WebInv, IsSeq
  <2>5. IsRow(page.rows[i])
    BY <1>1, <2>1, <2>2, <2>4 DEF PageInv, WebInv
  <2>6. Steps[i].type = page.rows[i].type
        /\ Steps[i].status = ShownStatus(page.loop, page.rows[i])
    <3>1. PICK a, b, c, d : page.rows[i] = [iter |-> a, type |-> b, dim |-> c, status |-> d]
      BY <2>5 DEF IsRow
    <3>2. QED BY <2>3, <3>1
  <2>7. page.rows[i].type = "evaluate" /\ page.rows[i].status = "completed"
    BY <2>1, <2>6 DEF ShownStatus
  <2>8. Evaluated(i) /\ page.runs[i] = runs[i]
    BY <1>1, <2>1, <2>2, <2>4, <2>7 DEF PageInv, WebInv
  <2>9. IsSeq(page.journal) /\ Accepted(page.journal, i)
    BY <1>1, <2>1, <2>2, <2>4, <2>7, <2>8 DEF PageInv, WebInv
  <2>10. QED BY <2>9, LastRecord
<1>2. QED BY <1>1, LoopPageInvariant, PTL
=============================================================================
