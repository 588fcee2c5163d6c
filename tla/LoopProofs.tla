----------------------------- MODULE LoopProofs -----------------------------
(***************************************************************************)
(* Proofs about LoopSystem, for every number of dimensions, versions,      *)
(* retries, re-plans and engines, with stops, crashes, patches and readers *)
(* in any order: the types, what a "completed" loop and a verdict mean,    *)
(* when an iteration is closed, that the journal only goes forward         *)
(* (LoopProgress), and what a stop and a usage limit leave behind.         *)
(***************************************************************************)
EXTENDS LoopSystem, WellFoundedInduction, FiniteSetTheorems, TLAPS

-----------------------------------------------------------------------------
(* Types.                                                                  *)

\* Where an engine may still append to its iteration, and how often it may.
Working == PC \ {"off", "finish", "exit"}

Bounds ==
  /\ pc \in Working => closed < MaxIteration
  /\ pc # "off" => gen > 0
  /\ \A s \in Slot : st[s] = "again" => tries[s] < MaxRetries

\* A step is under way only while the main thread waits for it.
Slots ==
  /\ st[0] # "idle" => pc \in {"planning", "implementing", "replanning"}
  /\ \A d \in Dimension : st[d] # "idle" => pc \in {"evaluating", "rechecking"}

TypeInv == TypeOK /\ Bounds /\ Slots

\* The parts of the types.
RowsOK ==
  /\ loopStatus \in Status /\ owner \in 0..MaxSpawns /\ stopReason \in {"none", "usage_limit"}
  /\ running \subseteq (1..MaxSpawns) \X Slot /\ version \in Version /\ gen \in 0..MaxSpawns
LinesOK ==
  /\ planLine \in {"none", "bad", "continue", "done"}
  /\ implLine \in {"none", "bad", "failed", "done"}
  /\ newest \in {"none", "plan", "implement"}
VerdictsOK ==
  /\ closed \in 0..MaxIteration /\ verdict \in [Dimension -> Verdict]
  /\ last \in [Dimension -> Verdict] /\ lastReal \in [Dimension -> Verdict]
MainOK ==
  /\ pc \in PC /\ ver \in Version /\ cap \in 1..MaxIteration
  /\ resume \subseteq {"plan", "implement"} /\ replans \in 0..MaxReplans /\ res \in Status
  /\ (pc \in Working => closed < MaxIteration) /\ (pc # "off" => gen > 0)
ThreadsOK ==
  /\ st \in [Slot -> StepPC] /\ tries \in [Slot -> 0..MaxRetries] /\ late \in [Slot -> Nat]
  /\ \A s \in Slot : st[s] = "again" => tries[s] < MaxRetries
SystemOK ==
  /\ stopPc \in {"idle", "mark", "steps", "kill"} /\ stopPid \in 0..MaxSpawns
  /\ seen \in [Reader -> 0..MaxSpawns] /\ stops \in 0..MaxStops /\ crashes \in 0..MaxCrashes

LEMMA TypeParts ==
  TypeInv <=> RowsOK /\ LinesOK /\ VerdictsOK /\ MainOK /\ ThreadsOK /\ Slots /\ SystemOK
  BY DEF TypeInv, TypeOK, EngineTypeOK, Bounds, RowsOK, LinesOK, VerdictsOK, MainOK,
     ThreadsOK, SystemOK

LEMMA Constants ==
  /\ 0 \in Slot /\ Dimension \subseteq Slot /\ 1 \in Version /\ 1 \in 1..MaxIteration
  /\ Version \subseteq Nat /\ MaxIteration \in Nat
  /\ MaxSpawns \in Nat /\ MaxRetries \in Nat /\ MaxReplans \in Nat
  /\ \A v \in Version : MaxIterations[v] \in 1..MaxIteration
<1>1. \A v \in Version : MaxIterations[v] \in 1..MaxIteration
  BY LoopAssumption
<1>2. 1 \in Version /\ Version \subseteq Nat
  BY LoopAssumption DEF Version
<1>3. MaxIterations[1] \in 1..MaxIteration
  BY <1>1, <1>2
<1>4. MaxIteration \in Nat /\ 1 \in 1..MaxIteration
  BY <1>3, LoopAssumption
<1>5. 0 \in Slot /\ Dimension \subseteq Slot
  BY LoopAssumption DEF Slot, Dimension
<1>6. QED
  BY <1>1, <1>2, <1>4, <1>5, LoopAssumption

LEMMA RowsTypes == ASSUME TypeInv, [Next]_vars PROVE RowsOK'
<1> USE TypeParts, Constants
<1> USE DEF RowsOK, rowVars, Status
<1>1. CASE Main
  <2>1. CASE LoadLoop \/ ClearSteps \/ TakeOver \/ FinishLoop
    BY <2>1 DEF LoadLoop, ClearSteps, TakeOver, FinishLoop, Reconcile, Reconciled, MainOK
  <2>2. CASE UNCHANGED <<rowVars, running, version, gen>>
    BY <2>2
  <2>3. QED
    BY <1>1, <2>1, <2>2
    DEF Main, MainStep, NextIteration, StartPlan, Planned, StartImplement, Implemented,
        StartEvaluate, Evaluated, Settle, CarryPass, CloseCheck, CloseIteration, StepsFail,
        ExitLoop
<1>2. ASSUME NEW s \in Slot, Thread(s)
      PROVE  RowsOK'
  <2>1. CASE LaunchAgent(s)
    <3>1. gen \in 1..MaxSpawns
      BY <2>1 DEF LaunchAgent, Slots, MainOK, Slot, Dimension
    <3>2. QED
      BY <2>1, <3>1 DEF LaunchAgent
  <2>2. CASE LimitStopsLoop(s)
    BY <2>2 DEF LimitStopsLoop
  <2>3. CASE running' \subseteq running /\ UNCHANGED <<rowVars, version, gen>>
    BY <2>3
  <2>4. QED
    BY <1>2, <2>1, <2>2, <2>3
    DEF Thread, ThreadStep, StepCheck, AgentReplies, StepPasses, AgentRejected, StepRetries,
        StepExhausts, AgentHitsLimit, AgentRaises, CloseRow, StepVars
<1>3. CASE StartCommand \/ StopCommand
  BY <1>3 DEF StartCommand, StopCommand, Reconcile, Reconciled
<1>4. CASE StopStep \/ Patch \/ Crash
  <2>1. CASE StopMarksLoop \/ StopMarksSteps
    BY <2>1 DEF StopMarksLoop, StopMarksSteps
  <2>2. CASE StopKills \/ Crash
    BY <2>2 DEF StopKills, Crash, Dies, loopVars
  <2>3. CASE Patch
    BY <2>3, LoopAssumption DEF Patch, Version
  <2>4. QED
    BY <1>4, <2>1, <2>2, <2>3 DEF StopStep
<1>5. ASSUME NEW r \in Reader, ReaderLoads(r) \/ ReaderReconciles(r)
      PROVE  RowsOK'
  BY <1>5 DEF ReaderLoads, ReaderReconciles, loopVars
<1>6. CASE UNCHANGED vars
  BY <1>6 DEF vars, loopVars
<1>7. QED
  BY <1>1, <1>2, <1>3, <1>4, <1>5, <1>6 DEF Next

\* The steps that write no line and no verdict.
LEMMA JournalSteps ==
  ASSUME [Next]_vars
  PROVE  \/ UNCHANGED journalVars
         \/ CarryPass \/ CloseIteration
         \/ \E s \in Slot : AgentReplies(s) \/ AgentRejected(s)
<1>1. CASE Main
  BY <1>1
  DEF Main, MainStep, LoadLoop, ClearSteps, TakeOver, NextIteration, StartPlan, Planned,
      StartImplement, Implemented, StartEvaluate, Evaluated, Settle, CloseCheck, StepsFail,
      FinishLoop, ExitLoop
<1>2. ASSUME NEW s \in Slot, Thread(s)
      PROVE  UNCHANGED journalVars \/ AgentReplies(s) \/ AgentRejected(s)
  BY <1>2
  DEF Thread, ThreadStep, StepCheck, LaunchAgent, StepPasses, StepRetries, StepExhausts,
      AgentHitsLimit, LimitStopsLoop, AgentRaises, StepVars
<1>3. CASE StartCommand \/ StopCommand \/ StopStep \/ Patch \/ Crash
  BY <1>3 DEF StartCommand, StopCommand, StopStep, StopMarksLoop, StopMarksSteps, StopKills,
     Patch, Crash, Dies, loopVars
<1>4. ASSUME NEW r \in Reader, ReaderLoads(r) \/ ReaderReconciles(r)
      PROVE  UNCHANGED journalVars
  BY <1>4 DEF ReaderLoads, ReaderReconciles, loopVars
<1>5. CASE UNCHANGED vars
  BY <1>5 DEF vars, loopVars
<1>6. QED
  BY <1>1, <1>2, <1>3, <1>4, <1>5 DEF Next

LEMMA JournalTypes == ASSUME TypeInv, [Next]_vars PROVE LinesOK' /\ VerdictsOK'
<1> USE TypeParts, Constants
<1> USE DEF LinesOK, VerdictsOK, lineVars
<1>1. CASE UNCHANGED journalVars
  BY <1>1 DEF journalVars
<1>2. CASE CarryPass
  <2>1. UNCHANGED <<closed, lineVars, last, lastReal>>
    BY <1>2 DEF CarryPass
  <2>2. verdict' \in [Dimension -> Verdict]
    <3> DEFINE todo == Carried(ver) \ Judged
    <3>1. CASE todo = {}
      BY <1>2, <3>1 DEF CarryPass
    <3>2. CASE todo # {}
      <4> DEFINE m == Min(todo)
      <4>1. verdict' = [verdict EXCEPT ![m] = [last[m] EXCEPT !.ver = ver]]
        BY <1>2, <3>2 DEF CarryPass
      <4>2. m \in Dimension => [last[m] EXCEPT !.ver = ver] \in Verdict
        <5> SUFFICES ASSUME m \in Dimension
                     PROVE  [last[m] EXCEPT !.ver = ver] \in Verdict
          OBVIOUS
        <5> HIDE DEF m
        <5>1. last[m] \in Verdict /\ ver \in 0..MaxVersion
          BY LoopAssumption DEF MainOK, Version
        <5>2. QED
          BY <5>1 DEF Verdict
      <4> HIDE DEF m
      <4>3. QED
        BY <4>1, <4>2
    <3>3. QED
      BY <3>1, <3>2
  <2>3. QED
    BY <2>1, <2>2
<1>3. CASE CloseIteration
  <2>1. closed' \in 0..MaxIteration
    BY <1>3 DEF CloseIteration, MainOK, PC, Working
  <2>2. NoVerdict \in Verdict
    BY Constants, LoopAssumption DEF NoVerdict, Verdict
  <2>3. QED
    BY <1>3, <2>1, <2>2 DEF CloseIteration
<1>4. ASSUME NEW s \in Slot, AgentReplies(s)
      PROVE  LinesOK' /\ VerdictsOK'
  <2>1. LinesOK' /\ closed' = closed /\ last' = last
    BY <1>4 DEF AgentReplies
  <2>2. verdict' \in [Dimension -> Verdict] /\ lastReal' \in [Dimension -> Verdict]
    <3>1. CASE UNCHANGED <<verdict, lastReal>>
      BY <3>1
    <3>2. CASE s > 0
      <4>1. PICK p \in BOOLEAN :
              LET v == [pass |-> p, ver |-> ver, from |-> closed + 1]
              IN  /\ verdict' = [verdict EXCEPT ![s] = v]
                  /\ lastReal' = [lastReal EXCEPT ![s] = v]
        BY <1>4, <3>2 DEF AgentReplies, Plans, Implements
      <4>2. st[s] # "idle" /\ s \in Dimension
        BY <1>4, <3>2 DEF AgentReplies, Slot, Dimension
      <4>3. closed + 1 \in 0..MaxIteration
        BY <4>2 DEF Slots, MainOK, Working, PC
      <4>4. [pass |-> p, ver |-> ver, from |-> closed + 1] \in Verdict
        BY <4>3 DEF Verdict, MainOK, Version
      <4>5. QED
        BY <4>1, <4>4
    <3>3. QED
      BY <1>4, <3>1, <3>2 DEF AgentReplies
  <2>3. QED
    BY <2>1, <2>2
<1>5. ASSUME NEW s \in Slot, AgentRejected(s)
      PROVE  LinesOK' /\ VerdictsOK'
  BY <1>5 DEF AgentRejected
<1>6. QED
  BY <1>1, <1>2, <1>3, <1>4, <1>5, JournalSteps

LEMMA DispatchTypes ==
  ASSUME NEW S, Dispatch(S)
  PROVE  /\ st' \in [Slot -> StepPC] /\ tries' \in [Slot -> 0..MaxRetries]
         /\ \A s \in Slot : st'[s] # "again"
         /\ \A s \in Slot : s \notin S => st'[s] = "idle"
  BY Constants DEF Dispatch, StepPC

LEMMA MoveTypes ==
  ASSUME TypeInv, NEW s \in Slot, NEW l \in StepPC, Move(s, l)
  PROVE  /\ st' \in [Slot -> StepPC] /\ st'[s] = l
         /\ \A t \in Slot \ {s} : st'[t] = st[t]
  BY TypeParts DEF Move, ThreadsOK

\* Where the main thread is, and what it read.
LEMMA MainTypes == ASSUME TypeInv, [Next]_vars PROVE MainOK'
<1> USE TypeParts, Constants
<1> USE DEF MainOK
<1>1. CASE Main
  <2>1. gen' = gen /\ gen > 0
    <3>1. gen' = gen
      BY <1>1
      DEF Main, MainStep, LoadLoop, ClearSteps, TakeOver, NextIteration, StartPlan, Planned,
          StartImplement, Implemented, StartEvaluate, Evaluated, Settle, CarryPass, CloseCheck,
          CloseIteration, StepsFail, FinishLoop, ExitLoop
    <3>2. CASE StepsFail
      <4>1. PICK s \in Slot : st[s] # "idle"
        BY <3>2 DEF StepsFail, Failing, Ended
      <4>2. pc # "off"
        BY <4>1 DEF Slots, Slot, Dimension
      <4>3. QED
        BY <3>1, <4>2
    <3>3. CASE ~StepsFail
      BY <1>1, <3>1, <3>3
      DEF Main, MainStep, LoadLoop, ClearSteps, TakeOver, NextIteration, StartPlan, Planned,
          StartImplement, Implemented, StartEvaluate, Evaluated, Settle, CarryPass, CloseCheck,
          CloseIteration, FinishLoop, ExitLoop
    <3>4. QED
      BY <3>2, <3>3
  <2>2. CASE LoadLoop \/ ClearSteps \/ TakeOver \/ FinishLoop \/ ExitLoop
    BY <2>1, <2>2 DEF LoadLoop, ClearSteps, TakeOver, FinishLoop, ExitLoop, Gone, Goto,
       journalVars, PC, Working, Status
  <2>3. CASE NextIteration \/ StartPlan \/ StartImplement \/ Implemented
    <3>1. CASE NextIteration
      <4>1. Resumable \subseteq {"plan", "implement"} /\ MaxIterations[version] \in 1..MaxIteration
        BY DEF Resumable, RowsOK
      <4>2. /\ pc' \in {"plan", "finish"} /\ cap' \in {cap, MaxIterations[version]}
            /\ resume' \in {resume, Resumable} /\ replans' \in {replans, 0}
            /\ res' \in {res, "stopped"} /\ pc = "top" /\ UNCHANGED <<closed, ver>>
        BY <3>1 DEF NextIteration, FinishAs, Goto, journalVars
      <4>3. pc' \in PC /\ res' \in Status /\ ver' \in Version
        BY <4>2 DEF PC, Status
      <4>4. cap' \in 1..MaxIteration /\ resume' \subseteq {"plan", "implement"}
        BY <4>1, <4>2
      <4>5. replans' \in 0..MaxReplans
        BY <4>2
      <4>6. closed' < MaxIteration /\ gen' > 0
        BY <2>1, <4>2 DEF PC, Working
      <4>7. QED
        BY <4>3, <4>4, <4>5, <4>6
    <3>2. CASE StartPlan
      BY <2>1, <3>2 DEF StartPlan, FinishAs, Goto, journalVars, RowsOK, PC, Working, Status
    <3>3. CASE StartImplement \/ Implemented
      BY <2>1, <3>3 DEF StartImplement, Implemented, AfterImplement, FinishAs, Goto,
         journalVars, RowsOK, PC, Working, Status
    <3>4. QED
      BY <2>3, <3>1, <3>2, <3>3
  <2>4. CASE Planned
    BY <2>1, <2>4 DEF Planned, FinishAs, Goto, journalVars, PC, Working, Status
  <2>5. CASE StartEvaluate \/ Evaluated \/ Settle \/ CarryPass \/ CloseCheck
    BY <2>1, <2>5 DEF StartEvaluate, Evaluated, Settle, CarryPass, CloseCheck, FinishAs, Goto,
       journalVars, RowsOK, PC, Working, Status
  <2>6. CASE CloseIteration
    BY <2>1, <2>6 DEF CloseIteration, FinishAs, Goto, VerdictsOK, PC, Working, Status
  <2>7. CASE StepsFail
    BY <2>1, <2>7 DEF StepsFail, FinishAs, Goto, journalVars, PC, Working, Status
  <2>8. QED
    BY <1>1, <2>2, <2>3, <2>4, <2>5, <2>6, <2>7 DEF Main, MainStep
<1>2. CASE \E s \in Slot : Thread(s)
  BY <1>2
  DEF Thread, ThreadStep, StepCheck, LaunchAgent, AgentReplies, StepPasses, AgentRejected,
      StepRetries, StepExhausts, AgentHitsLimit, LimitStopsLoop, AgentRaises, StepVars,
      mainVars, journalVars
<1>3. CASE StartCommand
  BY <1>3 DEF StartCommand, Goto, journalVars, RowsOK, PC, Working
<1>4. CASE StopCommand \/ StopMarksLoop \/ StopMarksSteps \/ Patch
  BY <1>4 DEF StopCommand, StopMarksLoop, StopMarksSteps, Patch, mainVars, journalVars
<1>5. CASE StopKills \/ Crash
  BY <1>5 DEF StopKills, Crash, Dies, Gone, loopVars, mainVars, journalVars, PC, Working, Status
<1>6. CASE \E r \in Reader : ReaderLoads(r) \/ ReaderReconciles(r)
  BY <1>6 DEF ReaderLoads, ReaderReconciles, loopVars, mainVars, journalVars
<1>7. CASE UNCHANGED vars
  BY <1>7 DEF vars, loopVars, mainVars, journalVars
<1>8. QED
  BY <1>1, <1>2, <1>3, <1>4, <1>5, <1>6, <1>7 DEF Next, StopStep

\* The steps beside the engine's: what they leave alone, and where the engine is.
LEMMA OtherSteps ==
  ASSUME [Next]_vars
  PROVE  \/ UNCHANGED <<threadVars, mainVars, journalVars>>
         \/ StartCommand /\ UNCHANGED <<threadVars, journalVars, ver, cap, resume, replans, res>>
         \/ (StopKills \/ Crash) /\ Gone /\ UNCHANGED journalVars
         \/ Main
         \/ \E s \in Slot : Thread(s)
  BY DEF Next, StopCommand, StopStep, StopMarksLoop, StopMarksSteps, StopKills, Patch, Crash,
     Dies, ReaderLoads, ReaderReconciles, StartCommand, loopVars, vars

\* A step of the main thread finds no step under way or ends them all: then each is idle
\* or waits for its turn.
LEMMA MainThreads ==
  ASSUME TypeInv, Main
  PROVE  /\ st' \in [Slot -> {"idle", "queued"}] /\ tries' \in [Slot -> 0..MaxRetries]
         /\ late' \in {late, NoneLate} /\ Slots'
<1> USE TypeParts, Constants
<1>1. ASSUME UNCHANGED threadVars,
             pc \notin {"planning", "implementing", "replanning", "evaluating", "rechecking"}
      PROVE  /\ st' \in [Slot -> {"idle", "queued"}] /\ tries' \in [Slot -> 0..MaxRetries]
             /\ late' \in {late, NoneLate} /\ Slots'
  <2>1. \A s \in Slot : st[s] = "idle"
    BY <1>1 DEF Slots, Slot, Dimension
  <2>2. QED
    BY <1>1, <2>1 DEF threadVars, ThreadsOK, Slots
<1>2. ASSUME NEW S, Dispatch(S), late' \in {late, NoneLate},
             0 \in S => pc' \in {"planning", "implementing", "replanning"},
             S \cap Dimension # {} => pc' \in {"evaluating", "rechecking"}
      PROVE  /\ st' \in [Slot -> {"idle", "queued"}] /\ tries' \in [Slot -> 0..MaxRetries]
             /\ late' \in {late, NoneLate} /\ Slots'
  BY <1>2 DEF Dispatch, Slots
<1>3. \A v \in Version : Dims[v] \subseteq Dimension
  BY LoopAssumption
<1>4. 0 \notin Dimension
  BY DEF Dimension
<1>5. CASE LoadLoop \/ ClearSteps \/ TakeOver \/ NextIteration \/ CarryPass \/ CloseCheck
             \/ CloseIteration \/ FinishLoop
  BY <1>1, <1>5 DEF LoadLoop, ClearSteps, TakeOver, NextIteration, CarryPass, CloseCheck,
     CloseIteration, FinishLoop, threadVars
<1>6. CASE StartPlan
  <2>1. \/ UNCHANGED threadVars /\ pc = "plan"
        \/ Dispatch({0}) /\ late' = late /\ pc' = "planning"
    BY <1>6 DEF StartPlan, Goto, threadVars
  <2>2. QED
    BY <1>1, <1>2, <1>4, <2>1
<1>7. CASE Planned \/ Evaluated \/ StepsFail \/ ExitLoop
  <2>1. Dispatch({})
    BY <1>7 DEF Planned, Evaluated, StepsFail, ExitLoop, Gone
  <2>2. late' = late \/ late' = NoneLate
    BY <1>7 DEF Planned, Evaluated, StepsFail, ExitLoop, Gone
  <2>3. QED
    BY <1>2, <2>1, <2>2
<1>8. CASE StartImplement \/ Implemented
  <2>1. \/ UNCHANGED threadVars /\ pc = "impl"
        \/ Dispatch({0}) /\ late' = late /\ pc' \in {"implementing", "replanning"}
        \/ Dispatch({}) /\ late' = late
    BY <1>8 DEF StartImplement, Implemented, AfterImplement, Goto, threadVars
  <2>2. QED
    BY <1>1, <1>2, <1>4, <2>1
<1>9. CASE StartEvaluate
  <2>1. CASE Stopped
    BY <1>1, <1>9, <2>1 DEF StartEvaluate, threadVars
  <2>2. CASE ~Stopped
    <3> DEFINE S == Dims[version] \ (Judged \cup Carried(version))
    <3>1. Dispatch(S) /\ late' = late /\ pc' = "evaluating"
      BY <1>9, <2>2 DEF StartEvaluate, Goto
    <3>2. 0 \notin S
      BY <1>3, <1>4 DEF RowsOK
    <3> HIDE DEF S
    <3>3. QED
      BY <1>2, <3>1, <3>2
  <2>3. QED
    BY <2>1, <2>2
<1>10. CASE Settle
  <2>1. CASE UNCHANGED <<st, tries>>
    BY <1>1, <1>10, <2>1 DEF Settle, threadVars
  <2>2. CASE ~UNCHANGED <<st, tries>>
    <3> DEFINE S == Carried(ver) \ Judged
    <3>1. Dispatch(S) /\ late' = late /\ pc' = "rechecking"
      BY <1>10, <2>2 DEF Settle, Goto
    <3>2. 0 \notin S
      BY <1>3, <1>4 DEF MainOK, Carried
    <3> HIDE DEF S
    <3>3. QED
      BY <1>2, <3>1, <3>2
  <2>3. QED
    BY <2>1, <2>2
<1>11. QED
  BY <1>5, <1>6, <1>7, <1>8, <1>9, <1>10 DEF Main, MainStep

\* A thread moves its own step, while the main thread waits.
LEMMA ThreadMoves ==
  ASSUME TypeInv, NEW s \in Slot, Thread(s)
  PROVE  /\ pc' = pc /\ st[s] # "idle" /\ st[s] \notin Ended
         /\ st' \in [Slot -> StepPC] /\ st'[s] # "idle"
         /\ \A t \in Slot \ {s} : st'[t] = st[t]
<1>1. pc' = pc /\ st[s] # "idle" /\ st[s] \notin Ended
  BY DEF Thread, ThreadStep, StepCheck, LaunchAgent, AgentReplies, StepPasses, AgentRejected,
     StepRetries, StepExhausts, AgentHitsLimit, LimitStopsLoop, AgentRaises, StepVars, mainVars,
     Ended
<1>2. \E l \in StepPC \ {"idle"} : Move(s, l)
  BY DEF Thread, ThreadStep, StepCheck, LaunchAgent, AgentReplies, StepPasses, AgentRejected,
     StepRetries, StepExhausts, AgentHitsLimit, LimitStopsLoop, AgentRaises, StepPC, Ended
<1>3. QED
  BY <1>1, <1>2, MoveTypes

LEMMA ThreadTypes == ASSUME TypeInv, [Next]_vars PROVE ThreadsOK' /\ Slots'
<1> USE TypeParts, Constants
<1>1. CASE UNCHANGED <<threadVars, mainVars, journalVars>>
  BY <1>1 DEF threadVars, mainVars, ThreadsOK, Slots
<1>2. CASE StartCommand /\ UNCHANGED <<threadVars, journalVars, ver, cap, resume, replans, res>>
  <2>1. \A s \in Slot : st[s] = "idle"
    BY <1>2 DEF StartCommand, Slots, Slot, Dimension
  <2>2. QED
    BY <1>2, <2>1 DEF threadVars, ThreadsOK, Slots
<1>3. CASE Gone
  BY <1>3, DispatchTypes DEF Gone, ThreadsOK, Slots, NoneLate
<1>4. CASE Main
  BY <1>4, MainThreads DEF ThreadsOK, StepPC, NoneLate
<1>5. ASSUME NEW s \in Slot, Thread(s)
      PROVE  ThreadsOK' /\ Slots'
  <2>1. Slots'
    BY <1>5, ThreadMoves DEF Slots, Slot, Dimension
  <2>2. late' \in [Slot -> Nat]
    BY <1>5
    DEF Thread, ThreadStep, StepCheck, LaunchAgent, AgentReplies, StepPasses, AgentRejected,
        StepRetries, StepExhausts, AgentHitsLimit, LimitStopsLoop, AgentRaises, ThreadsOK
  <2>3. st' \in [Slot -> StepPC] /\ \A t \in Slot \ {s} : st'[t] = st[t]
    BY <1>5, ThreadMoves
  <2>4. CASE StepRetries(s) /\ ~Stopped
    <3>1. tries[s] < MaxRetries /\ st'[s] = "ready"
      BY <2>4 DEF StepRetries, Move, ThreadsOK
    <3>2. tries[s] + 1 \in 0..MaxRetries
      BY <3>1 DEF ThreadsOK
    <3>3. tries' = [tries EXCEPT ![s] = tries[s] + 1]
      BY <2>4 DEF StepRetries
    <3>4. QED
      BY <2>1, <2>2, <2>3, <3>1, <3>2, <3>3 DEF ThreadsOK
  <2>5. CASE ~(StepRetries(s) /\ ~Stopped)
    <3>1. tries' = tries
      BY <1>5, <2>5
      DEF Thread, ThreadStep, StepCheck, LaunchAgent, AgentReplies, StepPasses, AgentRejected,
          StepRetries, StepExhausts, AgentHitsLimit, LimitStopsLoop, AgentRaises
    <3>2. st'[s] = "again" => tries[s] < MaxRetries
      BY <1>5, <2>5
      DEF Thread, ThreadStep, StepCheck, LaunchAgent, AgentReplies, StepPasses, AgentRejected,
          StepRetries, StepExhausts, AgentHitsLimit, LimitStopsLoop, AgentRaises, Move, ThreadsOK
    <3>3. QED
      BY <2>1, <2>2, <2>3, <3>1, <3>2 DEF ThreadsOK
  <2>6. QED
    BY <2>4, <2>5
<1>6. QED
  BY <1>1, <1>2, <1>3, <1>4, <1>5, OtherSteps

LEMMA SystemTypes == ASSUME TypeInv, [Next]_vars PROVE SystemOK'
<1> USE TypeParts, Constants
<1> USE DEF SystemOK
<1>1. CASE Main \/ \E s \in Slot : Thread(s)
  BY <1>1 DEF Main, Thread, systemVars
<1>2. CASE StartCommand \/ Patch \/ UNCHANGED vars
  BY <1>2 DEF StartCommand, Patch, vars, systemVars
<1>3. CASE StopCommand
  <2>1. stops < MaxStops /\ stops' = stops + 1 /\ stopPc' = "mark" /\ stopPid' = owner
        /\ UNCHANGED <<seen, crashes>>
    BY <1>3 DEF StopCommand
  <2>2. stops' \in 0..MaxStops
    BY <2>1, SystemAssumption
  <2>3. QED
    BY <2>1, <2>2 DEF RowsOK
<1>4. CASE StopStep
  BY <1>4 DEF StopStep, StopMarksLoop, StopMarksSteps, StopKills
<1>5. CASE Crash
  <2>1. crashes < MaxCrashes /\ crashes' = crashes + 1 /\ UNCHANGED <<stopPc, stopPid, seen, stops>>
    BY <1>5 DEF Crash
  <2>2. crashes' \in 0..MaxCrashes
    BY <2>1, SystemAssumption
  <2>3. QED
    BY <2>1, <2>2
<1>6. ASSUME NEW r \in Reader, ReaderLoads(r) \/ ReaderReconciles(r)
      PROVE  SystemOK'
  BY <1>6 DEF ReaderLoads, ReaderReconciles, RowsOK
<1>7. QED
  BY <1>1, <1>2, <1>3, <1>4, <1>5, <1>6 DEF Next

LEMMA TypeInvStep == ASSUME TypeInv, [Next]_vars PROVE TypeInv'
<1>1. RowsOK' /\ LinesOK' /\ VerdictsOK' /\ MainOK' /\ ThreadsOK' /\ Slots' /\ SystemOK'
  BY RowsTypes, JournalTypes, MainTypes, ThreadTypes, SystemTypes
<1>2. QED
  BY <1>1
  DEF TypeInv, TypeOK, EngineTypeOK, Bounds, RowsOK, LinesOK, VerdictsOK, MainOK, ThreadsOK,
      SystemOK

LEMMA InitTypes == Init => TypeInv
<1> USE Constants, LoopAssumption, SystemAssumption
<1> SUFFICES ASSUME Init PROVE TypeInv
  OBVIOUS
<1>1. RowsOK /\ LinesOK
  BY DEF Init, LoopInit, RowsOK, LinesOK, Status
<1>2. VerdictsOK
  <2>1. NoVerdict \in Verdict
    BY DEF NoVerdict, Verdict
  <2>2. QED
    BY <2>1 DEF Init, LoopInit, VerdictsOK
<1>3. MainOK
  BY DEF Init, LoopInit, MainOK, PC, Working, Status
<1>4. ThreadsOK /\ Slots
  BY DEF Init, LoopInit, ThreadsOK, Slots, StepPC, Slot, Dimension, NoneLate
<1>5. SystemOK
  BY DEF Init, SystemOK
<1>6. QED
  BY <1>1, <1>2, <1>3, <1>4, <1>5, TypeParts

LEMMA TypesHold == Spec => []TypeInv
  BY InitTypes, TypeInvStep, PTL DEF Spec

\* TypeOK holds of every run: among others no step (orchestration/loop_engine.py) is
\* tried, and no implement planned again, more often than the engine's limits say.
THEOREM TypeCorrect == Spec => []TypeOK
<1>1. TypeInv => TypeOK
  BY DEF TypeInv
<1>2. QED
  BY <1>1, TypesHold, PTL

-----------------------------------------------------------------------------
(* The lines of the open iteration.                                        *)

\* The plan and the implement line when an iteration is being judged.
LinesInv ==
  /\ planLine = "done" => newest = "plan"
  /\ implLine = "done" => planLine = "continue"
  /\ pc = "plan" => resume = Resumable
  /\ pc = "planning" => /\ implLine # "done"
                        /\ "implement" \in resume => implLine = "failed"
  /\ pc = "replanning" => implLine = "failed" /\ "implement" \notin resume
  /\ pc \in {"planning", "replanning"} =>
       IF st[0] \in {"gate", "done"} THEN planLine \in {"continue", "done"} /\ newest = "plan"
       ELSE planLine # "done"
  /\ pc = "impl" =>
       /\ planLine = "continue"
       /\ IF "implement" \in resume THEN implLine \in {"failed", "done"}
          ELSE implLine # "done" /\ ~(newest = "implement" /\ implLine = "failed")
  /\ pc = "implementing" =>
       /\ planLine = "continue" /\ "implement" \notin resume
       /\ IF st[0] \in {"gate", "done"} THEN implLine \in {"failed", "done"}
          ELSE implLine # "done" /\ ~(newest = "implement" /\ implLine = "failed")
  /\ pc \in {"eval", "evaluating", "settle", "rechecking", "carry", "close", "mark"} =>
       planLine = "continue" /\ implLine = "done"

LEMMA LinesInvStep == ASSUME TypeInv, LinesInv, [Next]_vars PROVE LinesInv'
<1> USE TypeParts
<1>1. CASE UNCHANGED <<threadVars, mainVars, journalVars>>
  BY <1>1 DEF threadVars, mainVars, journalVars, lineVars, LinesInv, Resumable
<1>2. CASE StartCommand /\ UNCHANGED <<threadVars, journalVars, ver, cap, resume, replans, res>>
  BY <1>2 DEF StartCommand, Goto, journalVars, lineVars, LinesInv
<1>3. CASE Gone /\ UNCHANGED journalVars
  BY <1>3 DEF Gone, journalVars, lineVars, LinesInv
<1>4. CASE Main
  <2>1. CASE LoadLoop \/ ClearSteps \/ TakeOver \/ FinishLoop \/ ExitLoop \/ StepsFail
    BY <2>1 DEF LoadLoop, ClearSteps, TakeOver, FinishLoop, ExitLoop, StepsFail, FinishAs, Gone,
       Goto, journalVars, lineVars, LinesInv
  <2>2. CASE NextIteration
    BY <2>2 DEF NextIteration, FinishAs, Goto, journalVars, lineVars, LinesInv, Resumable
  <2>3. CASE StartPlan
    <3>1. /\ resume = Resumable /\ UNCHANGED lineVars
          /\ "plan" \in resume <=> planLine \in {"continue", "done"}
          /\ "implement" \in resume <=> implLine \in {"failed", "done"}
      BY <2>3 DEF StartPlan, journalVars, LinesInv, LinesOK, Resumable
    <3>2. \/ pc' = "finish"
          \/ pc' = "impl" /\ planLine = "continue" /\ resume' = resume \ {"plan"}
          \/ /\ pc' = "planning" /\ "plan" \notin resume /\ resume' = resume \ {"plan"}
             /\ st'[0] = "queued"
      BY <2>3, <3>1, Constants DEF StartPlan, FinishAs, Goto, Dispatch
    <3>3. QED
      BY <3>1, <3>2 DEF LinesInv, LinesOK, lineVars
  <2>4. CASE Planned
    BY <2>4 DEF Planned, FinishAs, Goto, journalVars, lineVars, LinesInv
  <2>5. CASE StartImplement
    BY <2>5, Constants DEF StartImplement, AfterImplement, FinishAs, Goto, Dispatch, journalVars,
       lineVars, LinesInv
  <2>6. CASE Implemented
    BY <2>6, Constants DEF Implemented, AfterImplement, Goto, Dispatch, journalVars, lineVars,
       LinesInv
  <2>7. CASE StartEvaluate \/ Evaluated \/ Settle \/ CarryPass \/ CloseCheck
    BY <2>7 DEF StartEvaluate, Evaluated, Settle, CarryPass, CloseCheck, FinishAs, Goto,
       journalVars, lineVars, LinesInv
  <2>8. CASE CloseIteration
    BY <2>8 DEF CloseIteration, FinishAs, Goto, LinesInv
  <2>9. QED
    BY <1>4, <2>1, <2>2, <2>3, <2>4, <2>5, <2>6, <2>7, <2>8 DEF Main, MainStep
<1>5. ASSUME NEW s \in Slot, Thread(s)
      PROVE  LinesInv'
  <2>1. UNCHANGED <<pc, resume>>
    BY <1>5
    DEF Thread, ThreadStep, StepCheck, LaunchAgent, AgentReplies, StepPasses, AgentRejected,
        StepRetries, StepExhausts, AgentHitsLimit, LimitStopsLoop, AgentRaises, StepVars, mainVars
  <2>2. s # 0 => pc \in {"evaluating", "rechecking"}
    BY <1>5, ThreadMoves DEF Slots, Slot, Dimension
  <2>3. CASE s # 0
    <3>1. UNCHANGED lineVars
      BY <1>5, <2>2, <2>3
      DEF Thread, ThreadStep, StepCheck, LaunchAgent, AgentReplies, StepPasses, AgentRejected,
          StepRetries, StepExhausts, AgentHitsLimit, LimitStopsLoop, AgentRaises, StepVars,
          journalVars, Plans, Implements, Slot
    <3>2. QED
      BY <2>1, <2>2, <2>3, <3>1 DEF lineVars, LinesInv
  <2>4. CASE s = 0 /\ AgentReplies(s)
    <3>1. pc \in {"planning", "implementing", "replanning"} /\ st'[0] = "gate"
      BY <2>4, Constants DEF AgentReplies, Move, Slots, ThreadsOK
    <3>2. CASE pc = "implementing"
      BY <2>1, <2>4, <3>1, <3>2 DEF AgentReplies, Plans, Implements, LinesInv
    <3>3. CASE pc # "implementing"
      BY <2>1, <2>4, <3>1, <3>3 DEF AgentReplies, Plans, Implements, LinesInv
    <3>4. QED
      BY <3>2, <3>3
  <2>5. CASE s = 0 /\ AgentRejected(s)
    <3>1. /\ pc \in {"planning", "implementing", "replanning"} /\ st[0] = "agent"
          /\ st'[0] \in {"again", "exhaust"}
      BY <2>5, Constants DEF AgentRejected, Move, Slots, ThreadsOK
    <3>2. CASE pc = "implementing"
      BY <2>1, <2>5, <3>1, <3>2 DEF AgentRejected, Plans, Implements, lineVars, LinesInv
    <3>3. CASE pc # "implementing"
      BY <2>1, <2>5, <3>1, <3>3 DEF AgentRejected, Plans, Implements, lineVars, LinesInv
    <3>4. QED
      BY <3>2, <3>3
  <2>6. CASE s = 0 /\ ~AgentReplies(s) /\ ~AgentRejected(s)
    <3>1. UNCHANGED lineVars /\ (st'[0] \in {"gate", "done"} <=> st[0] \in {"gate", "done"})
      BY <1>5, <2>6, Constants
      DEF Thread, ThreadStep, StepCheck, LaunchAgent, StepPasses, StepRetries, StepExhausts,
          AgentHitsLimit, LimitStopsLoop, AgentRaises, StepVars, journalVars, Move, ThreadsOK,
          Ended
    <3>2. pc \in {"planning", "implementing", "replanning"}
      BY <1>5, <2>6, ThreadMoves DEF Slots
    <3>3. QED
      BY <2>1, <3>1, <3>2 DEF lineVars, LinesInv
  <2>7. QED
    BY <2>3, <2>4, <2>5, <2>6
<1>6. QED
  BY <1>1, <1>2, <1>3, <1>4, <1>5, OtherSteps

LEMMA InitLines == Init => LinesInv
  BY DEF Init, LoopInit, LinesInv

LEMMA LinesHold == Spec => []LinesInv
<1>1. LinesInv /\ TypeInv /\ [Next]_vars => LinesInv'
  BY LinesInvStep
<1>2. QED
  BY <1>1, InitLines, TypesHold, PTL DEF Spec

-----------------------------------------------------------------------------
(* What a completed loop means.                                            *)

\* Nothing is journaled between the planner's decision and the loop's last status.
CompletedInv ==
  /\ loopStatus = "completed" => pc \in {"off", "exit"} /\ planLine = "done"
  /\ pc = "finish" /\ res = "completed" => planLine = "done"

LEMMA CompletedInvStep ==
  ASSUME TypeInv, LinesInv, CompletedInv, [Next]_vars
  PROVE  CompletedInv'
<1> USE TypeParts DEF CompletedInv
<1>1. CASE Main
  <2>1. CASE LoadLoop \/ ClearSteps \/ TakeOver \/ FinishLoop \/ ExitLoop
    BY <2>1 DEF LoadLoop, ClearSteps, TakeOver, FinishLoop, ExitLoop, Gone, Goto, Reconcile,
       Reconciled, rowVars, journalVars, lineVars
  <2>2. CASE NextIteration \/ StartPlan \/ Planned \/ StartImplement \/ Implemented
    BY <2>2 DEF NextIteration, StartPlan, Planned, StartImplement, Implemented, AfterImplement,
       FinishAs, Goto, rowVars, journalVars, lineVars
  <2>3. CASE StartEvaluate \/ Evaluated \/ Settle \/ CarryPass \/ CloseCheck \/ CloseIteration
    BY <2>3 DEF StartEvaluate, Evaluated, Settle, CarryPass, CloseCheck, CloseIteration,
       FinishAs, Goto, rowVars, journalVars, lineVars
  <2>4. CASE StepsFail
    <3>1. pc \notin {"off", "exit"}
      BY <2>4 DEF StepsFail, Failing, Ended, Slots, Slot, Dimension
    <3>2. res' # "completed" /\ pc' = "finish" /\ loopStatus' = loopStatus
      BY <2>4 DEF StepsFail, FinishAs, Goto, rowVars
    <3>3. QED
      BY <3>1, <3>2
  <2>5. QED
    BY <1>1, <2>1, <2>2, <2>3, <2>4 DEF Main, MainStep
<1>2. ASSUME NEW s \in Slot, Thread(s)
      PROVE  CompletedInv'
  <2>1. pc' = pc /\ pc \notin {"off", "exit", "finish"}
    BY <1>2, ThreadMoves DEF Slots, Slot, Dimension
  <2>2. loopStatus' \in {loopStatus, "stopped"}
    BY <1>2
    DEF Thread, ThreadStep, StepCheck, LaunchAgent, AgentReplies, StepPasses, AgentRejected,
        StepRetries, StepExhausts, AgentHitsLimit, LimitStopsLoop, AgentRaises, StepVars, rowVars
  <2>3. QED
    BY <2>1, <2>2
<1>3. CASE StartCommand
  BY <1>3 DEF StartCommand, Reconcile, Goto
<1>4. CASE StopCommand \/ StopStep \/ Patch \/ Crash
  BY <1>4 DEF StopCommand, StopStep, StopMarksLoop, StopMarksSteps, StopKills, Patch, Crash, Dies,
     Gone, Reconcile, Reconciled, rowVars, mainVars, journalVars, lineVars, loopVars
<1>5. ASSUME NEW r \in Reader, ReaderLoads(r) \/ ReaderReconciles(r)
      PROVE  CompletedInv'
  BY <1>5 DEF ReaderLoads, ReaderReconciles, rowVars, mainVars, journalVars, lineVars, loopVars
<1>6. CASE UNCHANGED vars
  BY <1>6 DEF vars, rowVars, mainVars, journalVars, lineVars, loopVars
<1>7. QED
  BY <1>1, <1>2, <1>3, <1>4, <1>5, <1>6 DEF Next

\* CompletedByPlanner holds of every run: no stop, crash, patch, failed or exhausted step
\* ends a loop COMPLETED, only the planner's last line does (LoopEngine.run).
THEOREM CompletedMeansDone == Spec => []CompletedByPlanner
<1>1. Init => CompletedInv
  BY DEF Init, LoopInit, CompletedInv
<1>2. CompletedInv /\ LinesInv => CompletedByPlanner
  BY DEF CompletedInv, LinesInv, CompletedByPlanner
<1>3. CompletedInv /\ TypeInv /\ LinesInv /\ [Next]_vars => CompletedInv'
  BY CompletedInvStep
<1>4. QED
  BY <1>1, <1>2, <1>3, TypesHold, LinesHold, PTL DEF Spec

-----------------------------------------------------------------------------
(* The verdicts of the open iteration.                                     *)

\* A dispatched evaluator has no verdict yet, an accepted one has; and what is still
\* owed when an iteration is settled and closed.
JudgedInv ==
  /\ \A d \in Dimension :
       /\ st[d] \in {"queued", "ready", "agent", "again"} => d \notin Judged
       /\ st[d] \in {"gate", "done"} => d \in Judged
  /\ pc = "evaluating" =>
       \A d \in Dims[ver] : d \in Judged \/ d \in Carried(ver) \/ st[d] # "idle"
  /\ pc = "rechecking" => \A d \in Dims[ver] : d \in Judged \/ st[d] # "idle"
  /\ pc \in {"settle", "carry"} => Dims[ver] \ Carried(ver) \subseteq Judged
  /\ pc \in {"close", "mark"} => Dims[ver] \subseteq Judged

LEMMA Least ==
  ASSUME NEW S \in SUBSET Nat, S # {}
  PROVE  Min(S) \in S
<1> DEFINE R == OpToRel(<, Nat)
<1>1. IsWellFoundedOn(R, Nat)
  BY NatLessThanWellFounded
<1>2. \A x, y \in Nat : <<x, y>> \in R <=> x < y
  BY DEF OpToRel
<1> HIDE DEF R
<1>3. PICK x \in S : \A y \in S : ~(<<y, x>> \in R)
  BY <1>1, WFMin
<1>4. S \subseteq Nat
  OBVIOUS
<1>5. \A y \in S : ~(y < x)
  BY <1>2, <1>3, <1>4
<1>6. \A y \in S : x <= y
  BY <1>4, <1>5
<1>7. QED
  BY <1>6 DEF Min

\* A carried pass is a pass under this version, of a dimension without a verdict.
LEMMA CarryOne ==
  ASSUME TypeInv, CarryPass, Carried(ver) \ Judged # {}
  PROVE  \E m \in (Carried(ver) \ Judged) \cap Dimension :
           /\ verdict' = [verdict EXCEPT ![m] = last[m]]
           /\ last[m] \in Verdict /\ last[m] # NoVerdict /\ last[m].ver = ver
<1> DEFINE todo == Carried(ver) \ Judged
           m == Min(todo)
<1>1. todo \subseteq Dimension
  BY TypeParts, LoopAssumption DEF MainOK, Carried
<1>2. m \in todo
  <2>1. todo \in SUBSET Nat /\ todo # {}
    BY <1>1 DEF Dimension
  <2> HIDE DEF todo
  <2>2. QED
    BY <2>1, Least
<1>3. verdict' = [verdict EXCEPT ![m] = [last[m] EXCEPT !.ver = ver]]
  BY DEF CarryPass
<1>4. m \in Carried(ver) /\ m \notin Judged /\ m \in Dimension
  BY <1>1, <1>2
<1> HIDE DEF m
<1>5. last[m] \in Verdict /\ last[m].ver = ver
  BY <1>4, TypeParts DEF VerdictsOK, Carried
<1>6. [last[m] EXCEPT !.ver = ver] = last[m]
  BY <1>5 DEF Verdict
<1>7. last[m] # NoVerdict
  BY <1>5, TypeParts DEF NoVerdict, MainOK, Version
<1>8. QED
  BY <1>3, <1>4, <1>5, <1>6, <1>7

\* A step that leaves the journal alone and every evaluator idle keeps JudgedInv, as long as
\* it does not reach a place of the iteration the invariant speaks of.
LEMMA JudgedInvStep == ASSUME TypeInv, JudgedInv, [Next]_vars PROVE JudgedInv'
<1> USE TypeParts
<1> DEFINE Spoken == {"evaluating", "rechecking", "settle", "carry", "close", "mark"}
<1>1. CASE UNCHANGED <<threadVars, mainVars, journalVars>>
  BY <1>1 DEF threadVars, mainVars, journalVars, JudgedInv, Judged, Carried
<1>2. ASSUME \A d \in Dimension : st'[d] = "idle", pc' \notin Spoken
      PROVE  JudgedInv'
  BY <1>2 DEF JudgedInv
<1>3. CASE StartCommand /\ UNCHANGED <<threadVars, journalVars, ver, cap, resume, replans, res>>
  <2>1. pc = "off" /\ pc' = "load" /\ st' = st
    BY <1>3 DEF StartCommand, Goto, threadVars
  <2>2. QED
    BY <1>2, <2>1 DEF Slots
<1>4. CASE Gone
  BY <1>2, <1>4, Constants DEF Gone, Dispatch
<1>5. CASE Main
  <2>1. Slots'
    BY <1>5, MainThreads
  <2>2. CASE pc' \notin Spoken
    BY <1>2, <2>1, <2>2 DEF Slots
  <2>3. CASE StartEvaluate /\ pc' = "evaluating"
    <3> DEFINE S == Dims[version] \ (Judged \cup Carried(version))
    <3>1. ver' = version /\ UNCHANGED journalVars /\ Dispatch(S)
      BY <2>3 DEF StartEvaluate, FinishAs, Goto
    <3>2. Judged' = Judged /\ Carried(ver)' = Carried(version)
      BY <3>1 DEF Judged, Carried, journalVars
    <3>3. \A d \in Dimension : st'[d] = IF d \in S THEN "queued" ELSE "idle"
      BY <3>1, Constants DEF Dispatch
    <3>4. Dims[version] \subseteq Dimension
      BY LoopAssumption DEF RowsOK
    <3>5. QED
      BY <2>3, <3>1, <3>2, <3>3, <3>4 DEF JudgedInv
  <2>4. CASE Evaluated
    <3>1. UNCHANGED <<ver, journalVars>> /\ \A d \in Dimension : st'[d] = "idle"
      BY <2>4, Constants DEF Evaluated, Dispatch
    <3>2. Judged' = Judged /\ Carried(ver)' = Carried(ver)
      BY <3>1 DEF Judged, Carried, journalVars
    <3>3. Dims[ver] \subseteq Dimension
      BY LoopAssumption DEF MainOK
    <3>4. \A d \in Dims[ver] : st[d] # "idle" => d \in Judged
      BY <2>4, <3>3 DEF Evaluated, AllDone, JudgedInv
    <3>5. pc' = IF pc = "evaluating" /\ Carried(ver) # {} THEN "settle" ELSE "close"
      BY <2>4 DEF Evaluated, Goto
    <3>6. pc \in {"evaluating", "rechecking"}
      BY <2>4 DEF Evaluated
    <3>7. Dims[ver] \ Carried(ver) \subseteq Judged
      BY <3>4, <3>6 DEF JudgedInv
    <3>8. pc' = "close" => Dims[ver] \subseteq Judged
      BY <3>4, <3>5, <3>6 DEF JudgedInv
    <3>9. QED
      BY <3>1, <3>2, <3>5, <3>7, <3>8 DEF JudgedInv
  <2>5. CASE Settle /\ pc' = "rechecking"
    <3> DEFINE S == Carried(ver) \ Judged
    <3>1. pc = "settle" /\ UNCHANGED <<ver, journalVars>> /\ Dispatch(S)
      BY <2>5 DEF Settle, FinishAs, Goto
    <3>2. Judged' = Judged /\ Carried(ver)' = Carried(ver)
      BY <3>1 DEF Judged, Carried, journalVars
    <3>3. \A d \in Dimension : st'[d] = IF d \in S THEN "queued" ELSE "idle"
      BY <3>1, Constants DEF Dispatch
    <3>4. Dims[ver] \subseteq Dimension
      BY LoopAssumption DEF MainOK
    <3>5. QED
      BY <2>5, <3>1, <3>2, <3>3, <3>4 DEF JudgedInv
  <2>6. CASE CarryPass
    <3>1. pc = "carry" /\ UNCHANGED <<ver, last, threadVars>> /\ pc' \in {"carry", "close"}
      BY <2>6 DEF CarryPass, Goto
    <3>2. Carried(ver)' = Carried(ver)
      BY <3>1 DEF Carried
    <3>3. \A d \in Dimension : st'[d] = "idle"
      BY <3>1 DEF threadVars, Slots
    <3>4. CASE Carried(ver) \ Judged = {}
      <4>1. Judged' = Judged
        BY <2>6, <3>4 DEF CarryPass, Judged
      <4>2. Dims[ver] \subseteq Judged
        BY <3>1, <3>4 DEF JudgedInv
      <4>3. QED
        BY <3>1, <3>2, <3>3, <4>1, <4>2 DEF JudgedInv
    <3>5. CASE Carried(ver) \ Judged # {}
      <4>1. Judged \subseteq Judged'
        <5>1. PICK m \in Dimension : /\ verdict' = [verdict EXCEPT ![m] = last[m]]
                                     /\ last[m] # NoVerdict
          BY <2>6, <3>5, CarryOne
        <5>2. QED
          BY <5>1 DEF Judged, VerdictsOK
      <4>2. pc' = "carry"
        BY <2>6, <3>1, <3>5 DEF CarryPass
      <4>3. QED
        BY <3>1, <3>2, <3>3, <4>1, <4>2 DEF JudgedInv
    <3>6. QED
      BY <3>4, <3>5
  <2>7. CASE (Settle \/ CloseCheck) /\ pc' \in {"carry", "mark"}
    <3>1. /\ pc' = "carry" => pc = "settle"
          /\ pc' = "mark" => pc = "close"
          /\ UNCHANGED <<ver, journalVars>>
      BY <2>7 DEF Settle, CloseCheck, FinishAs, Goto
    <3>2. Judged' = Judged /\ Carried(ver)' = Carried(ver)
      BY <3>1 DEF Judged, Carried, journalVars
    <3>3. \A d \in Dimension : st'[d] = "idle"
      BY <2>1, <2>7 DEF Slots
    <3>4. QED
      BY <2>7, <3>1, <3>2, <3>3 DEF JudgedInv
  <2>8. \/ pc' \notin Spoken
        \/ (StartEvaluate /\ pc' = "evaluating")
        \/ Evaluated
        \/ (Settle /\ pc' = "rechecking")
        \/ CarryPass
        \/ ((Settle \/ CloseCheck) /\ pc' \in {"carry", "mark"})
    <3>1. CASE StartEvaluate \/ Evaluated \/ Settle \/ CarryPass \/ CloseCheck
      BY <3>1 DEF StartEvaluate, Settle, CloseCheck, FinishAs, Goto
    <3>2. CASE \/ LoadLoop \/ ClearSteps \/ TakeOver \/ NextIteration \/ StartPlan \/ Planned
               \/ StartImplement \/ Implemented \/ CloseIteration \/ StepsFail \/ FinishLoop
               \/ ExitLoop
      BY <3>2
      DEF LoadLoop, ClearSteps, TakeOver, NextIteration, StartPlan, Planned, StartImplement,
          Implemented, AfterImplement, CloseIteration, StepsFail, FinishLoop, ExitLoop, Gone,
          FinishAs, Goto
    <3>3. QED
      BY <1>5, <3>1, <3>2 DEF Main, MainStep
  <2>9. QED
    BY <2>2, <2>3, <2>4, <2>5, <2>6, <2>7, <2>8
<1>6. ASSUME NEW s \in Slot, Thread(s)
      PROVE  JudgedInv'
  <2>1. /\ pc' = pc /\ st[s] # "idle" /\ st'[s] # "idle"
        /\ \A t \in Slot \ {s} : st'[t] = st[t]
    BY <1>6, ThreadMoves
  <2>2. UNCHANGED <<ver, last>>
    BY <1>6
    DEF Thread, ThreadStep, StepCheck, LaunchAgent, AgentReplies, StepPasses, AgentRejected,
        StepRetries, StepExhausts, AgentHitsLimit, LimitStopsLoop, AgentRaises, StepVars,
        mainVars, journalVars
  <2>3. Carried(ver)' = Carried(ver) /\ Dims[ver] \subseteq Dimension /\ Dimension \subseteq Slot
    BY <2>2, LoopAssumption, Constants DEF Carried, MainOK
  <2>4. CASE s > 0 /\ AgentReplies(s)
    <3>1. PICK p \in BOOLEAN :
            verdict' = [verdict EXCEPT ![s] = [pass |-> p, ver |-> ver, from |-> closed + 1]]
      BY <2>4 DEF AgentReplies, Plans, Implements
    <3>2. [pass |-> p, ver |-> ver, from |-> closed + 1] # NoVerdict
      BY DEF NoVerdict, MainOK, Version
    <3>3. s \in Dimension
      BY <2>4 DEF Slot, Dimension
    <3>4. Judged' = Judged \cup {s}
      BY <3>1, <3>2, <3>3 DEF Judged, VerdictsOK
    <3>5. st'[s] = "gate"
      BY <2>4 DEF AgentReplies, Move, ThreadsOK
    <3>6. QED
      <4>1. \A d \in Dimension : d \in Judged' <=> d \in Judged \/ d = s
        BY <3>4
      <4>2. \A d \in Dimension : st'[d] # "idle" <=> st[d] # "idle"
        BY <2>1, <2>3
      <4>3. \A d \in Dimension :
              /\ st'[d] \in {"queued", "ready", "agent", "again"} => d \notin Judged'
              /\ st'[d] \in {"gate", "done"} => d \in Judged'
        BY <2>1, <2>3, <3>5, <4>1 DEF JudgedInv
      <4>4. QED
        BY <2>1, <2>2, <2>3, <3>4, <4>1, <4>2, <4>3 DEF JudgedInv
  <2>5. CASE ~(s > 0 /\ AgentReplies(s))
    <3>1. verdict' = verdict
      BY <1>6, <2>5
      DEF Thread, ThreadStep, StepCheck, LaunchAgent, AgentReplies, StepPasses, AgentRejected,
          StepRetries, StepExhausts, AgentHitsLimit, LimitStopsLoop, AgentRaises, StepVars,
          journalVars
    <3>2. Judged' = Judged
      BY <3>1 DEF Judged
    <3>3. s > 0 => /\ st'[s] \in {"queued", "ready", "agent", "again"} =>
                        st[s] \in {"queued", "ready", "agent", "again"}
                   /\ st'[s] \in {"gate", "done"} => st[s] \in {"gate", "done"}
      BY <1>6, <2>5
      DEF Thread, ThreadStep, StepCheck, LaunchAgent, StepPasses, AgentRejected,
          StepRetries, StepExhausts, AgentHitsLimit, LimitStopsLoop, AgentRaises, Move, ThreadsOK
    <3>4. \A d \in Dimension : d > 0
      BY DEF Dimension
    <3>5. QED
      <4>1. \A d \in Dimension : st'[d] # "idle" <=> st[d] # "idle"
        BY <2>1, <2>3
      <4>2. \A d \in Dimension :
              /\ st'[d] \in {"queued", "ready", "agent", "again"} => d \notin Judged'
              /\ st'[d] \in {"gate", "done"} => d \in Judged'
        BY <2>1, <2>3, <3>2, <3>3, <3>4 DEF JudgedInv
      <4>3. QED
        BY <2>1, <2>2, <2>3, <3>2, <4>1, <4>2 DEF JudgedInv
  <2>6. QED
    BY <2>4, <2>5
<1>7. QED
  BY <1>1, <1>3, <1>4, <1>5, <1>6, OtherSteps

LEMMA JudgedHold == Spec => []JudgedInv
<1>1. Init => JudgedInv
  BY Constants DEF Init, LoopInit, JudgedInv
<1>2. JudgedInv /\ TypeInv /\ [Next]_vars => JudgedInv'
  BY JudgedInvStep
<1>3. QED
  BY <1>1, <1>2, TypesHold, PTL DEF Spec

\* Only the commit marker closes an iteration.
LEMMA CloseOnly ==
  ASSUME TypeInv, [Next]_vars, closed' # closed
  PROVE  CloseIteration
  BY JournalSteps DEF journalVars, CarryPass, AgentReplies, AgentRejected

\* ClosedWhole holds of every run: the commit marker (LoopEngine.run) is written only to an
\* iteration that was planned and implemented and has a verdict of every dimension.
THEOREM IterationsClosedWhole == Spec => ClosedWhole
<1>1. TypeInv /\ LinesInv /\ JudgedInv /\ [Next]_vars =>
        [closed' # closed =>
           planLine = "continue" /\ implLine = "done" /\ Dims[ver] \subseteq Judged]_vars
  BY CloseOnly DEF CloseIteration, LinesInv, JudgedInv
<1>2. QED
  BY <1>1, TypesHold, LinesHold, JudgedHold, PTL DEF Spec, ClosedWhole

LEMMA VerdictStep == ASSUME TypeInv, VerdictReal, [Next]_vars PROVE VerdictReal'
<1> USE TypeParts
<1>1. CASE UNCHANGED journalVars
  BY <1>1 DEF journalVars, VerdictReal
<1>2. CASE CarryPass
  <2>1. UNCHANGED <<last, lastReal>>
    BY <1>2 DEF CarryPass
  <2>2. CASE Carried(ver) \ Judged = {}
    BY <1>2, <2>1, <2>2 DEF CarryPass, VerdictReal
  <2>3. CASE Carried(ver) \ Judged # {}
    <3>1. PICK m \in (Carried(ver) \ Judged) \cap Dimension :
            /\ verdict' = [verdict EXCEPT ![m] = last[m]]
            /\ last[m] # NoVerdict
      BY <1>2, <2>3, CarryOne
    <3>2. last[m] = lastReal[m]
      BY DEF Judged, VerdictReal
    <3>3. QED
      BY <2>1, <3>1, <3>2 DEF VerdictReal, VerdictsOK
  <2>4. QED
    BY <2>2, <2>3
<1>3. CASE CloseIteration
  BY <1>3 DEF CloseIteration, VerdictReal, Judged
<1>4. ASSUME NEW s \in Slot, AgentReplies(s)
      PROVE  VerdictReal'
  <2>1. CASE UNCHANGED <<verdict, lastReal>>
    BY <1>4, <2>1 DEF AgentReplies, VerdictReal
  <2>2. CASE s > 0
    <3>1. PICK p \in BOOLEAN :
            LET v == [pass |-> p, ver |-> ver, from |-> closed + 1]
            IN  /\ verdict' = [verdict EXCEPT ![s] = v]
                /\ lastReal' = [lastReal EXCEPT ![s] = v]
      BY <1>4, <2>2 DEF AgentReplies, Plans, Implements
    <3>2. last' = last /\ [pass |-> p, ver |-> ver, from |-> closed + 1] # NoVerdict
      BY <1>4 DEF AgentReplies, NoVerdict, MainOK, Version
    <3>3. QED
      BY <3>1, <3>2 DEF VerdictReal, VerdictsOK
  <2>3. QED
    BY <1>4, <2>1, <2>2 DEF AgentReplies
<1>5. ASSUME NEW s \in Slot, AgentRejected(s)
      PROVE  VerdictReal'
  BY <1>5 DEF AgentRejected, VerdictReal
<1>6. QED
  BY <1>1, <1>2, <1>3, <1>4, <1>5, JournalSteps

\* VerdictReal holds of every run: neither the carrying over of a pass (loop_engine.py), a
\* patch, a crash in the middle nor a retried evaluator changes what the journal says an
\* evaluator found.
THEOREM VerdictsAreReal == Spec => []VerdictReal
<1>1. Init => VerdictReal
  BY DEF Init, LoopInit, VerdictReal
<1>2. VerdictReal /\ TypeInv /\ [Next]_vars => VerdictReal'
  BY VerdictStep
<1>3. QED
  BY <1>1, <1>2, TypesHold, PTL DEF Spec

-----------------------------------------------------------------------------
(* Carried passes are checked again.                                       *)

\* No patch changes which dimensions the spec names.
SameDims == \A v, w \in Version : Dims[v] = Dims[w]

SomeFailed == \E f \in Dims[1] : f \in Judged /\ ~verdict[f].pass

\* A pass is carried into an iteration only beside a dimension that failed in it.
RecheckInv ==
  /\ (\E d \in Judged : verdict[d].from # closed + 1) => SomeFailed
  /\ pc = "carry" => SomeFailed

LEMMA RecheckInvStep ==
  ASSUME SameDims, TypeInv, JudgedInv, RecheckInv, [Next]_vars
  PROVE  RecheckInv'
<1> USE TypeParts
<1>1. CASE UNCHANGED journalVars
  <2>1. UNCHANGED <<verdict, closed, Judged>> /\ SomeFailed' = SomeFailed
    BY <1>1 DEF journalVars, Judged, SomeFailed
  <2>2. CASE pc' # "carry" \/ pc' = pc
    BY <2>1, <2>2 DEF RecheckInv
  <2>3. CASE pc' = "carry" /\ pc' # pc
    <3>1. Main
      BY <2>3, OtherSteps, ThreadMoves DEF mainVars, StartCommand, Goto, Gone
    <3>2. Settle
      <4>1. CASE LoadLoop \/ ClearSteps \/ TakeOver \/ NextIteration \/ StartPlan \/ Planned
                 \/ StartImplement \/ Implemented
        BY <2>3, <4>1 DEF LoadLoop, ClearSteps, TakeOver, NextIteration, StartPlan, Planned,
           StartImplement, Implemented, AfterImplement, FinishAs, Goto
      <4>2. CASE StartEvaluate \/ Evaluated \/ CarryPass \/ CloseCheck \/ CloseIteration
                 \/ StepsFail \/ FinishLoop \/ ExitLoop
        BY <2>3, <4>2 DEF StartEvaluate, Evaluated, CarryPass, CloseCheck, CloseIteration,
           StepsFail, FinishLoop, ExitLoop, Gone, FinishAs, Goto
      <4>3. QED
        BY <3>1, <4>1, <4>2 DEF Main, MainStep
    <3>3. PICK f \in Dims[ver] \ Carried(ver) : ~verdict[f].pass
      BY <2>3, <3>2 DEF Settle, FinishAs, Goto
    <3>4. f \in Judged
      BY <3>2, <3>3 DEF Settle, JudgedInv
    <3>5. Dims[ver] = Dims[1]
      BY Constants DEF MainOK, SameDims
    <3>6. SomeFailed
      BY <3>3, <3>4, <3>5 DEF SomeFailed
    <3>7. QED
      BY <2>1, <3>6 DEF RecheckInv
  <2>4. QED
    BY <2>2, <2>3
<1>2. CASE CarryPass
  <2>1. SomeFailed /\ Judged \subseteq Dimension
    BY <1>2 DEF CarryPass, RecheckInv, Judged
  <2>2. CASE Carried(ver) \ Judged = {}
    BY <1>2, <2>1, <2>2 DEF CarryPass, RecheckInv, SomeFailed, Judged
  <2>3. CASE Carried(ver) \ Judged # {}
    <3>1. PICK m \in (Carried(ver) \ Judged) \cap Dimension :
            verdict' = [verdict EXCEPT ![m] = last[m]]
      BY <1>2, <2>3, CarryOne
    <3>2. \A f \in Judged : f \in Judged' /\ verdict'[f] = verdict[f]
      BY <2>1, <3>1 DEF Judged, VerdictsOK
    <3>3. QED
      BY <2>1, <3>2 DEF SomeFailed, RecheckInv
  <2>4. QED
    BY <2>2, <2>3
<1>3. CASE CloseIteration
  BY <1>3 DEF CloseIteration, FinishAs, Goto, RecheckInv, Judged
<1>4. ASSUME NEW s \in Slot, AgentReplies(s) \/ AgentRejected(s)
      PROVE  RecheckInv'
  <2>1. UNCHANGED <<pc, closed>> /\ st[s] = "agent"
    BY <1>4 DEF AgentReplies, AgentRejected, mainVars
  <2>2. CASE UNCHANGED verdict
    BY <2>1, <2>2 DEF RecheckInv, SomeFailed, Judged
  <2>3. CASE ~UNCHANGED verdict
    <3>1. s > 0 /\ s \in Dimension
      BY <1>4, <2>3 DEF AgentReplies, AgentRejected, Slot, Dimension
    <3>2. PICK p \in BOOLEAN :
            verdict' = [verdict EXCEPT ![s] = [pass |-> p, ver |-> ver, from |-> closed + 1]]
      BY <1>4, <2>3, <3>1 DEF AgentReplies, AgentRejected, Plans, Implements
    <3>3. s \notin Judged /\ pc # "carry"
      BY <2>1, <3>1 DEF JudgedInv, Slots
    <3>4. /\ verdict'[s].from = closed + 1
          /\ \A d \in Dimension \ {s} : verdict'[d] = verdict[d]
      BY <3>1, <3>2 DEF VerdictsOK
    <3>5. \A d \in Dimension \ {s} : d \in Judged' <=> d \in Judged
      BY <3>4 DEF Judged
    <3>6. SomeFailed => SomeFailed'
      BY <3>3, <3>4, <3>5 DEF SomeFailed, Judged
    <3>7. \A d \in Judged' : d \in Dimension
      BY DEF Judged
    <3>8. QED
      BY <2>1, <3>3, <3>4, <3>5, <3>6, <3>7 DEF RecheckInv
  <2>4. QED
    BY <2>2, <2>3
<1>5. QED
  BY <1>1, <1>2, <1>3, <1>4, JournalSteps

\* PassesRechecked holds of every run in which no patch changes the dimensions: an iteration
\* that closes with passes only had every one of them evaluated in it, whatever was carried
\* over before (LoopEngine._settle_carried), also across crashes and patched limits.
THEOREM CarriedPassesAreRechecked == ASSUME SameDims PROVE Spec => PassesRechecked
<1>1. Init => RecheckInv
  BY DEF Init, LoopInit, RecheckInv, Judged
<1>2. RecheckInv /\ TypeInv /\ JudgedInv /\ [Next]_vars => RecheckInv'
  BY SameDims, RecheckInvStep
<1>3. TypeInv /\ JudgedInv /\ RecheckInv /\ [Next]_vars =>
        [closed' # closed /\ (\A d \in Dims[ver] : verdict[d].pass) =>
           \A d \in Dims[ver] : verdict[d].from = closed']_vars
  <2> SUFFICES ASSUME TypeInv, JudgedInv, RecheckInv, [Next]_vars, closed' # closed,
                      \A d \in Dims[ver] : verdict[d].pass,
                      NEW d \in Dims[ver]
               PROVE  verdict[d].from = closed'
    OBVIOUS
  <2>1. CloseIteration
    BY CloseOnly
  <2>2. closed' = closed + 1 /\ d \in Judged
    BY <2>1 DEF CloseIteration, JudgedInv
  <2>3. Dims[ver] = Dims[1]
    BY TypeParts, Constants, SameDims DEF MainOK, SameDims
  <2>4. ~SomeFailed
    BY <2>3 DEF SomeFailed
  <2>5. QED
    BY <2>2, <2>4 DEF RecheckInv
<1>4. QED
  BY <1>1, <1>2, <1>3, TypesHold, JudgedHold, PTL DEF Spec, PassesRechecked

-----------------------------------------------------------------------------
(* The journal implements LoopProgress.                                    *)

\* A reply of the planner or the implementer, and a verdict.
LEMMA ReplyProgress ==
  ASSUME TypeInv, LinesInv, JudgedInv, NEW s \in Slot, AgentReplies(s) \/ AgentRejected(s)
  PROVE  UNCHANGED <<closed, Stage, Judged>> \/ Progress!Next
<1> USE TypeParts
<1>1. closed' = closed /\ st[s] = "agent"
  BY DEF AgentReplies, AgentRejected
<1>2. CASE s = 0
  <2>1. UNCHANGED verdict /\ pc \in {"planning", "implementing", "replanning"}
    BY <1>1, <1>2 DEF AgentReplies, AgentRejected, Slots
  <2>2. Judged' = Judged
    BY <2>1 DEF Judged
  <2>3. CASE UNCHANGED lineVars
    BY <1>1, <2>2, <2>3 DEF Stage, lineVars
  <2>4. CASE pc # "implementing" /\ ~UNCHANGED lineVars
    <3>1. /\ newest' = "plan" /\ implLine' = implLine
          /\ planLine' \in {"bad", "continue", "done"}
      BY <1>2, <2>4 DEF AgentReplies, AgentRejected, Plans, Implements, lineVars
    <3>2. implLine # "done" /\ planLine # "done"
      BY <1>1, <1>2, <2>1, <2>4 DEF LinesInv
    <3>3. Stage \in {"plan", "implement"}
      BY <3>2 DEF Stage
    <3>4. Stage' \in {"plan", "implement", "over"}
      BY <3>1, <3>2 DEF Stage
    <3>5. QED
      BY <1>1, <2>2, <3>3, <3>4 DEF Progress!Next, Progress!Plan, Progress!Implement
  <2>5. CASE pc = "implementing" /\ ~UNCHANGED lineVars
    <3>1. /\ newest' = "implement" /\ planLine' = planLine
          /\ implLine' \in {"bad", "failed", "done"}
      BY <1>2, <2>5 DEF AgentReplies, AgentRejected, Plans, Implements, lineVars
    <3>2. /\ planLine = "continue" /\ implLine # "done"
          /\ ~(newest = "implement" /\ implLine = "failed")
      BY <1>1, <1>2, <2>5 DEF LinesInv
    <3>3. Stage = "implement"
      BY <3>2 DEF Stage
    <3>4. Stage' \in {"plan", "implement", "evaluate"}
      BY <3>1, <3>2 DEF Stage
    <3>5. QED
      BY <1>1, <2>2, <3>3, <3>4 DEF Progress!Next, Progress!Implement
  <2>6. QED
    BY <2>3, <2>4, <2>5
<1>3. CASE s > 0
  <2>1. UNCHANGED lineVars /\ s \in Dimension
    BY <1>3 DEF AgentReplies, AgentRejected, Plans, Implements, Slot, Dimension
  <2>2. Stage' = Stage
    BY <2>1 DEF Stage, lineVars
  <2>3. CASE AgentRejected(s)
    <3>1. Judged' = Judged
      BY <2>3 DEF AgentRejected, Judged
    <3>2. QED
      BY <1>1, <2>2, <3>1
  <2>4. CASE AgentReplies(s)
    <3>1. PICK p \in BOOLEAN :
            verdict' = [verdict EXCEPT ![s] = [pass |-> p, ver |-> ver, from |-> closed + 1]]
      BY <1>3, <2>4 DEF AgentReplies, Plans, Implements
    <3>2. [pass |-> p, ver |-> ver, from |-> closed + 1] # NoVerdict
      BY DEF NoVerdict, MainOK, Version
    <3>3. Judged' = Judged \cup {s} /\ s \notin Judged
      BY <1>1, <2>1, <3>1, <3>2 DEF Judged, VerdictsOK, JudgedInv
    <3>4. Stage = "evaluate"
      BY <1>1, <2>1 DEF Slots, LinesInv, Stage
    <3>5. QED
      BY <1>1, <2>1, <2>2, <3>3, <3>4 DEF Progress!Next, Progress!Judge
  <2>5. QED
    BY <2>3, <2>4
<1>4. QED
  BY <1>2, <1>3 DEF Slot

LEMMA ProgressStep ==
  ASSUME TypeInv, LinesInv, JudgedInv, [Next]_vars
  PROVE  UNCHANGED <<closed, Stage, Judged>> \/ Progress!Next
<1> USE TypeParts
<1>1. CASE UNCHANGED journalVars
  BY <1>1 DEF journalVars, lineVars, Stage, Judged
<1>2. CASE CarryPass
  <2>1. closed' = closed /\ Stage' = Stage
    BY <1>2 DEF CarryPass, lineVars, Stage
  <2>2. CASE Carried(ver) \ Judged = {}
    <3>1. Judged' = Judged
      BY <1>2, <2>2 DEF CarryPass, Judged
    <3>2. QED
      BY <2>1, <3>1
  <2>3. CASE Carried(ver) \ Judged # {}
    <3>1. PICK m \in (Carried(ver) \ Judged) \cap Dimension :
            /\ verdict' = [verdict EXCEPT ![m] = last[m]]
            /\ last[m] # NoVerdict
      BY <1>2, <2>3, CarryOne
    <3>2. Judged' = Judged \cup {m}
      BY <3>1 DEF Judged, VerdictsOK
    <3>3. Stage = "evaluate"
      BY <1>2 DEF CarryPass, LinesInv, Stage
    <3>4. m \in Dimension \ Judged
      OBVIOUS
    <3>5. QED
      BY <2>1, <3>2, <3>3, <3>4 DEF Progress!Next, Progress!Judge
  <2>4. QED
    BY <2>2, <2>3
<1>3. CASE CloseIteration
  <2>1. Judged # {}
    <3>1. Dims[ver] # {} /\ Dims[ver] \subseteq Judged
      BY <1>3, LoopAssumption DEF MainOK, CloseIteration, JudgedInv
    <3>2. QED
      BY <3>1
  <2>2. Stage = "evaluate" /\ Stage' = "plan" /\ closed' = closed + 1
    BY <1>3 DEF CloseIteration, LinesInv, Stage
  <2>3. Judged' = {}
    BY <1>3 DEF CloseIteration, Judged
  <2>4. QED
    BY <2>1, <2>2, <2>3 DEF Progress!Next, Progress!Close
<1>4. QED
  BY <1>1, <1>2, <1>3, ReplyProgress, JournalSteps

\* The loop implements LoopProgress: whoever stops, crashes, patches or restarts it, what is
\* implemented is judged, each dimension once, and then closed, and nothing is undone.
THEOREM LoopImplementsProgress == Spec => RefinesLoopProgress
<1>1. Init => Progress!Init
  BY DEF Init, LoopInit, Progress!Init, Stage, Judged
<1>2. TypeInv /\ LinesInv /\ JudgedInv /\ [Next]_vars =>
        [Progress!Next]_<<closed, Stage, Judged>>
  BY ProgressStep
<1>3. QED
  BY <1>1, <1>2, TypesHold, LinesHold, JudgedHold, PTL DEF Spec, RefinesLoopProgress,
     Progress!Spec


-----------------------------------------------------------------------------
(* Stops and usage limits.  Two assumptions of the run that checks the     *)
(* same properties are made here too, by name.                             *)

\* No call of an agent raises: each is answered or reported (harness.run).
NoneRaises == "raises" \notin Replies
\* No other process loads the loop between its engine's death and the next command.
NoReader == Reader = {}

\* While the main thread is not waiting, and when it goes on after waiting, every step is
\* idle or over; an exit leaves nothing to be waited for.
LEMMA MainWaits ==
  ASSUME TypeInv, Main
  PROVE  /\ \A s \in Slot : st[s] \in Ended \cup {"idle"}
         /\ \A s \in Slot : st[s] \in {"stopped", "exhausted", "raised"} => StepsFail
<1> USE TypeParts, Constants
<1>1. CASE LoadLoop \/ ClearSteps \/ TakeOver \/ NextIteration \/ StartPlan \/ StartImplement
           \/ StartEvaluate \/ Settle \/ CarryPass \/ CloseCheck \/ CloseIteration \/ FinishLoop
           \/ ExitLoop
  <2>1. pc \notin {"planning", "implementing", "replanning", "evaluating", "rechecking"}
    BY <1>1 DEF LoadLoop, ClearSteps, TakeOver, NextIteration, StartPlan, StartImplement,
       StartEvaluate, Settle, CarryPass, CloseCheck, CloseIteration, FinishLoop, ExitLoop
  <2>2. \A s \in Slot : st[s] = "idle"
    BY <2>1 DEF Slots, Slot, Dimension
  <2>3. QED
    BY <2>2
<1>2. CASE Planned \/ Implemented
  <2>1. st[0] = "done" /\ \A d \in Dimension : st[d] = "idle"
    BY <1>2 DEF Planned, Implemented, Slots
  <2>2. QED
    BY <2>1 DEF Ended, Slot, Dimension
<1>3. CASE Evaluated
  <2>1. st[0] = "idle" /\ \A d \in Dimension : st[d] \in {"idle", "done"}
    BY <1>3 DEF Evaluated, AllDone, Slots
  <2>2. QED
    BY <2>1 DEF Ended, Slot, Dimension
<1>4. CASE StepsFail
  BY <1>4 DEF StepsFail, Settled
<1>5. QED
  BY <1>1, <1>2, <1>3, <1>4 DEF Main, MainStep

-----------------------------------------------------------------------------
(* The rows of the steps.                                                  *)

\* Where a step is while its row says RUNNING.
OpenRow == {"ready", "agent", "gate", "again", "exhaust"}

\* Every RUNNING row is of a step this engine has under way.
RowsInv ==
  /\ TookOver => \A x \in running : x[1] = gen /\ st[x[2]] \in OpenRow
  /\ pc = "own" => running = {}
  /\ pc = "load" => loopStatus \notin {"running", "completed"}
  /\ \A s \in Slot : st[s] # "raised"

LEMMA RowsInvStep ==
  ASSUME NoneRaises, TypeInv, RowsInv, [Next]_vars
  PROVE  RowsInv'
<1> USE TypeParts, Constants
<1>1. CASE Main
  <2>1. st' \in [Slot -> {"idle", "queued"}]
    BY <1>1, MainThreads
  <2>2. TookOver => running = {}
    <3>1. \A x \in running : x[2] \in Slot
      BY DEF RowsOK
    <3>2. QED
      BY <1>1, <3>1, MainWaits DEF RowsInv, OpenRow, Ended
  <2>3. CASE LoadLoop
    BY <2>1, <2>3 DEF LoadLoop, Goto, Reconciled, RowsInv, TookOver
  <2>4. CASE ClearSteps
    BY <2>1, <2>4 DEF ClearSteps, Goto, RowsInv
  <2>5. CASE TakeOver
    BY <2>1, <2>5 DEF TakeOver, Goto, RowsInv
  <2>6. CASE ~(LoadLoop \/ ClearSteps \/ TakeOver)
    <3> pc' # "load"
      BY <1>1, <2>6
      DEF Main, MainStep, NextIteration, StartPlan, Planned, StartImplement, Implemented,
          AfterImplement, StartEvaluate, Evaluated, Settle, CarryPass, CloseCheck,
          CloseIteration, StepsFail, FinishLoop, ExitLoop, Gone, FinishAs, Goto
    <3>1. TookOver /\ running' = running
      <4>1. CASE ~StepsFail
        BY <1>1, <2>6, <4>1
        DEF Main, MainStep, NextIteration, StartPlan, Planned, StartImplement, Implemented,
            StartEvaluate, Evaluated, Settle, CarryPass, CloseCheck, CloseIteration, FinishLoop,
            ExitLoop, TookOver
      <4>2. CASE StepsFail
        BY <4>2 DEF StepsFail, Failing, Ended, Slots, Slot, Dimension, TookOver
      <4>3. QED
        BY <4>1, <4>2
    <3>2. QED
      BY <2>1, <2>2, <3>1 DEF RowsInv
  <2>7. QED
    BY <2>3, <2>4, <2>5, <2>6
<1>2. ASSUME NEW s \in Slot, Thread(s)
      PROVE  RowsInv'
  <2>1. /\ pc' = pc /\ st[s] # "idle" /\ \A t \in Slot \ {s} : st'[t] = st[t]
    BY <1>2, ThreadMoves
  <2>2. TookOver /\ gen > 0 /\ pc # "load"
    BY <2>1 DEF Slots, Slot, Dimension, TookOver, MainOK
  <2>3. gen' = gen
    BY <1>2
    DEF Thread, ThreadStep, StepCheck, LaunchAgent, AgentReplies, StepPasses, AgentRejected,
        StepRetries, StepExhausts, AgentHitsLimit, LimitStopsLoop, AgentRaises, StepVars
  <2>4. st'[s] # "raised"
    BY <1>2
    DEF Thread, ThreadStep, StepCheck, LaunchAgent, AgentReplies, StepPasses, AgentRejected,
        StepRetries, StepExhausts, AgentHitsLimit, LimitStopsLoop, AgentRaises, Move, ThreadsOK,
        NoneRaises
  <2>5. \/ running' \subseteq running \ {<<gen, s>>}
        \/ st[s] \in OpenRow /\ st'[s] \in OpenRow /\ running' \subseteq running \cup {<<gen, s>>}
        \/ st[s] \notin OpenRow /\ running' = running
    BY <1>2
    DEF Thread, ThreadStep, StepCheck, LaunchAgent, AgentReplies, StepPasses, AgentRejected,
        StepRetries, StepExhausts, AgentHitsLimit, LimitStopsLoop, AgentRaises, Move, ThreadsOK,
        NoneRaises, CloseRow, StepVars, OpenRow
  <2>6. ASSUME NEW x \in running'
        PROVE  x[1] = gen' /\ st'[x[2]] \in OpenRow
    <3>1. CASE x = <<gen, s>>
      <4>1. st'[s] \in OpenRow
        BY <2>2, <2>5, <2>6, <3>1 DEF RowsInv
      <4>2. QED
        BY <2>3, <3>1, <4>1
    <3>2. CASE x # <<gen, s>>
      <4>1. x \in running /\ x[1] = gen /\ st[x[2]] \in OpenRow
        BY <2>2, <2>5, <2>6, <3>2 DEF RowsInv
      <4>2. x[2] \in Slot /\ x = <<x[1], x[2]>>
        BY <4>1 DEF RowsOK
      <4>3. x[2] # s
        BY <3>2, <4>1, <4>2
      <4>4. QED
        BY <2>1, <2>3, <4>1, <4>2, <4>3
    <3>3. QED
      BY <3>1, <3>2
  <2>7. QED
    BY <2>1, <2>2, <2>4, <2>6 DEF RowsInv, TookOver
<1>3. CASE StartCommand
  BY <1>3 DEF StartCommand, Goto, Reconcile, threadVars, RowsInv, TookOver
<1>4. CASE StopCommand \/ StopMarksLoop \/ StopMarksSteps \/ Patch
  BY <1>4 DEF StopCommand, StopMarksLoop, StopMarksSteps, Patch, Reconcile, Reconciled, rowVars, mainVars,
     threadVars, RowsInv, TookOver
<1>5. CASE UNCHANGED loopVars
  BY <1>5 DEF loopVars, rowVars, mainVars, threadVars, RowsInv, TookOver
<1>6. CASE Gone
  BY <1>6 DEF Gone, Dispatch, RowsInv, TookOver
<1>7. ASSUME NEW r \in Reader, ReaderReconciles(r)
      PROVE  RowsInv'
  BY <1>7 DEF ReaderReconciles, rowVars, mainVars, threadVars, RowsInv, TookOver
<1>8. QED
  BY <1>1, <1>2, <1>3, <1>4, <1>5, <1>6, <1>7
  DEF Next, StopStep, StopKills, Crash, Dies, ReaderLoads, vars

\* RowsOwned holds of every run in which no agent call raises: an engine that took the loop
\* over (LoopEngine.run) leaves no RUNNING row of an earlier engine, and none of its own
\* steps is RUNNING after it ended, through stops, limits, patches and late reconciles.
THEOREM RowsStayOwned == ASSUME NoneRaises PROVE Spec => []RowsOwned
<1>1. Init => RowsInv
  BY DEF Init, LoopInit, RowsInv, TookOver
<1>2. RowsInv /\ TypeInv /\ [Next]_vars => RowsInv'
  BY NoneRaises, RowsInvStep
<1>3. RowsInv /\ TypeInv => RowsOwned
  <2> SUFFICES ASSUME RowsInv, TypeInv, TookOver, NEW x \in running
               PROVE  x[1] = gen /\ x[2] \in InFlight
    BY DEF RowsOwned
  <2>1. x[2] \in Slot
    BY TypeParts DEF RowsOK
  <2>2. QED
    BY <2>1 DEF RowsInv, OpenRow, InFlight
<1>4. QED
  BY <1>1, <1>2, <1>3, TypesHold, PTL DEF Spec

-----------------------------------------------------------------------------
(* A usage limit.                                                          *)

\* A loop stopped by a usage limit is STOPPED, and the engine that found the limit has a
\* stopped step to end with, or is ending with it.
LimitInv ==
  stopReason = "usage_limit" =>
    /\ loopStatus = "stopped"
    /\ TookOver => \/ pc = "exit"
                   \/ pc = "finish" /\ res = "stopped"
                   \/ \E s \in Slot : st[s] = "stopped"

LEMMA LimitInvStep ==
  ASSUME NoneRaises, NoReader, TypeInv, RowsInv, LimitInv, [Next]_vars
  PROVE  LimitInv'
<1> USE TypeParts, Constants
<1>1. CASE Main
  <2>1. CASE LoadLoop \/ ClearSteps \/ TakeOver
    BY <2>1 DEF LoadLoop, ClearSteps, TakeOver, Reconcile, Reconciled, Goto, rowVars, LimitInv,
       RowsInv, TookOver
  <2>2. CASE FinishLoop \/ ExitLoop
    BY <2>2, MainWaits, <1>1 DEF FinishLoop, ExitLoop, Gone, Goto, rowVars, LimitInv, TookOver,
       StepsFail, Failing, Settled
  <2>3. CASE StepsFail
    <3>1. pc' = "finish" /\ UNCHANGED rowVars
      BY <2>3 DEF StepsFail, FinishAs, Goto
    <3>2. Stopped => res' = "stopped"
      <4>1. Failing \in SUBSET Nat /\ Failing # {}
        BY <2>3 DEF StepsFail, Failing, Slot
      <4>2. Min(Failing) \in Failing
        BY <4>1, Least
      <4>3. st[Min(Failing)] \in {"stopped", "exhausted"}
        BY <4>2 DEF Failing, Ended, RowsInv
      <4>4. QED
        BY <2>3, <4>3 DEF StepsFail, FinishAs
    <3>3. QED
      BY <3>1, <3>2 DEF rowVars, LimitInv, Stopped
  <2>4. CASE ~(LoadLoop \/ ClearSteps \/ TakeOver \/ FinishLoop \/ ExitLoop \/ StepsFail)
    <3>1. UNCHANGED rowVars /\ TookOver /\ pc \notin {"exit", "finish"}
      BY <1>1, <2>4
      DEF Main, MainStep, NextIteration, StartPlan, Planned, StartImplement, Implemented,
          StartEvaluate, Evaluated, Settle, CarryPass, CloseCheck, CloseIteration, TookOver
    <3>2. stopReason # "usage_limit"
      BY <1>1, <2>4, <3>1, MainWaits DEF LimitInv
    <3>3. QED
      BY <3>1, <3>2 DEF rowVars, LimitInv
  <2>5. QED
    BY <2>1, <2>2, <2>3, <2>4
<1>2. ASSUME NEW s \in Slot, Thread(s)
      PROVE  LimitInv'
  <2>1. /\ pc' = pc /\ st[s] \notin Ended /\ st' \in [Slot -> StepPC]
        /\ \A t \in Slot \ {s} : st'[t] = st[t]
    BY <1>2, ThreadMoves
  <2>2. CASE LimitStopsLoop(s)
    BY <2>2, <2>1 DEF LimitStopsLoop, Move, LimitInv, ThreadsOK
  <2>3. CASE ~LimitStopsLoop(s)
    <3>1. UNCHANGED rowVars /\ res' = res
      BY <1>2, <2>3
      DEF Thread, ThreadStep, StepCheck, LaunchAgent, AgentReplies, StepPasses, AgentRejected,
          StepRetries, StepExhausts, AgentHitsLimit, AgentRaises, StepVars, mainVars
    <3>2. QED
      BY <2>1, <3>1 DEF rowVars, LimitInv, TookOver, Ended
  <2>4. QED
    BY <2>2, <2>3
<1>3. CASE StartCommand
  BY <1>3 DEF StartCommand, Goto, Reconcile, Reconciled, LimitInv, TookOver
<1>4. CASE StopCommand \/ StopMarksLoop \/ StopMarksSteps \/ Patch
  BY <1>4 DEF StopCommand, StopMarksLoop, StopMarksSteps, Patch, Reconcile, Reconciled, rowVars,
     mainVars, threadVars, LimitInv, TookOver
<1>5. CASE UNCHANGED loopVars
  BY <1>5 DEF loopVars, rowVars, mainVars, threadVars, LimitInv, TookOver
<1>6. CASE Gone /\ UNCHANGED rowVars
  BY <1>6 DEF Gone, rowVars, LimitInv, TookOver
<1>7. QED
  BY <1>1, <1>2, <1>3, <1>4, <1>5, <1>6
  DEF Next, StopStep, StopKills, Crash, Dies, vars, NoReader

\* LimitKept holds of every run in which no call raises and no reader reconciles late: a
\* loop stopped by a usage limit keeps status and reason until it is started again, also
\* when evaluators beside it exhaust their gate (LoopEngine.run, _stop_step).
THEOREM LimitStays == ASSUME NoneRaises, NoReader PROVE Spec => []LimitKept
<1>1. Init => RowsInv /\ LimitInv
  BY DEF Init, LoopInit, RowsInv, LimitInv, TookOver
<1>2. RowsInv /\ LimitInv /\ TypeInv /\ [Next]_vars => RowsInv' /\ LimitInv'
  BY NoneRaises, NoReader, RowsInvStep, LimitInvStep
<1>3. LimitInv => LimitKept
  BY DEF LimitInv, LimitKept
<1>4. QED
  BY <1>1, <1>2, <1>3, TypesHold, PTL DEF Spec

-----------------------------------------------------------------------------
(* Agents launched on a stopped loop.                                      *)

Ready == {s \in Slot : st[s] = "ready"}
Late == {s \in Slot : late[s] > 0}

\* Only a stop makes an agent late, and no later than those about to be launched then;
\* a step about to launch its agent launched none late before.
LateInv ==
  /\ Cardinality(Active) <= MaxConcurrent
  /\ Cardinality(Late \cup Ready) <= MaxConcurrent
  /\ Late # {} => Stopped \/ pc = "exit"
  /\ pc \in {"off", "load", "clear", "own"} => Late = {}
  /\ \A s \in Slot : late[s] <= 1 /\ (st[s] = "ready" => late[s] = 0)

LEMMA SlotsFinite == IsFiniteSet(Slot) /\ \A T \in SUBSET Slot : IsFiniteSet(T)
<1>1. IsFiniteSet(Slot)
  BY LoopAssumption, FS_Interval DEF Slot
<1>2. QED
  BY <1>1, FS_Subset

LEMMA Fewer ==
  ASSUME NEW S \in SUBSET Slot, NEW T \in SUBSET S, NEW n \in Nat, Cardinality(S) <= n
  PROVE  Cardinality(T) <= n
<1>1. IsFiniteSet(S)
  BY SlotsFinite
<1>2. IsFiniteSet(T) /\ Cardinality(T) <= Cardinality(S)
  BY <1>1, FS_Subset
<1>3. Cardinality(S) \in Nat /\ Cardinality(T) \in Nat
  BY <1>1, <1>2, FS_CardinalityType
<1>4. QED
  BY <1>2, <1>3

\* The steps about to launch an agent hold a thread of the pool, or are the main thread's.
LEMMA ReadyFit ==
  TypeInv /\ Cardinality(Active) <= MaxConcurrent => Cardinality(Ready) <= MaxConcurrent
<1> SUFFICES ASSUME TypeInv, Cardinality(Active) <= MaxConcurrent
             PROVE  Cardinality(Ready) <= MaxConcurrent
  OBVIOUS
<1> USE TypeParts, Constants, LoopAssumption
<1>1. CASE Ready \subseteq {0}
  <2> DEFINE S == {0}
  <2>1. Cardinality(S) = 1 /\ S \in SUBSET Slot
    <3>1. Cardinality({0}) = 1
      BY Zenon, FS_Singleton
    <3>2. QED
      BY <3>1
  <2>2. Ready \in SUBSET S /\ MaxConcurrent \in Nat
    BY <1>1
  <2> HIDE DEF S
  <2>3. Cardinality(S) <= MaxConcurrent
    BY <2>1
  <2>4. QED
    BY <2>1, <2>2, <2>3, Fewer
<1>2. CASE \E s \in Ready : s # 0
  <2>1. st[0] = "idle"
    BY <1>2 DEF Ready, Slots, Slot, Dimension
  <2>2. Ready \subseteq Active
    BY <1>2, <2>1 DEF Ready, Active, Ended, Slot, Dimension
  <2>3. Active \subseteq Slot
    BY DEF Active
  <2>4. QED
    BY <2>2, <2>3, Fewer
<1>3. QED
  BY <1>1, <1>2

LEMMA ReadyFitNext ==
  (TypeInv /\ Cardinality(Active) <= MaxConcurrent => Cardinality(Ready) <= MaxConcurrent)'
  BY ReadyFit, PTL

LEMMA LateInvStep ==
  ASSUME NoReader, TypeInv, LateInv, [Next]_vars
  PROVE  LateInv'
<1> USE TypeParts, Constants, LoopAssumption
<1>1. Late \subseteq Slot /\ Ready \subseteq Slot /\ Active \subseteq Slot /\ late \in [Slot -> Nat]
  BY DEF ThreadsOK, Ready, Active, Late
<1>2. ASSUME \A s \in Slot : st'[s] \in {"idle", "queued"}, late' \in {late, NoneLate},
             Late' # {} => Stopped' \/ pc' = "exit",
             pc' \in {"off", "load", "clear", "own"} => Late' = {}
      PROVE  LateInv'
  <2>1. Ready' = {} /\ Active' = {}
    BY <1>2 DEF Ready, Active
  <2>2. Cardinality(Active') <= MaxConcurrent
    BY <2>1, FS_EmptySet
  <2>3. Late' \cup Ready' \subseteq Late \cup Ready /\ Late \cup Ready \subseteq Slot
    BY <1>1, <1>2, <2>1 DEF Late, NoneLate
  <2>4. Cardinality(Late' \cup Ready') <= MaxConcurrent
    BY <2>3, Fewer DEF LateInv
  <2>5. \A s \in Slot : late'[s] <= 1 /\ (st'[s] = "ready" => late'[s] = 0)
    BY <1>2 DEF LateInv, NoneLate
  <2>6. QED
    BY <1>2, <2>2, <2>4, <2>5 DEF LateInv
<1>3. CASE Main
  <2>1. (\A s \in Slot : st'[s] \in {"idle", "queued"}) /\ late' \in {late, NoneLate}
    BY <1>3, MainThreads
  <2>0. Late' \subseteq Late
    BY <1>1, <2>1 DEF Late, NoneLate
  <2>2. Late' # {} => Stopped' \/ pc' = "exit"
    <3>1. CASE LoadLoop \/ ClearSteps \/ TakeOver
      <4>1. Late = {}
        BY <3>1 DEF LoadLoop, ClearSteps, TakeOver, LateInv
      <4>2. QED
        BY <2>0, <4>1
    <3>2. CASE FinishLoop \/ ExitLoop
      BY <3>2 DEF FinishLoop, ExitLoop, Gone, Goto, Late, NoneLate
    <3>3. CASE ~(LoadLoop \/ ClearSteps \/ TakeOver \/ FinishLoop \/ ExitLoop)
      <4>1. UNCHANGED rowVars /\ late' = late
        BY <1>3, <3>3
        DEF Main, MainStep, NextIteration, StartPlan, Planned, StartImplement, Implemented,
            StartEvaluate, Evaluated, Settle, CarryPass, CloseCheck, CloseIteration, StepsFail,
            threadVars
      <4>2. pc # "exit"
        <5>1. CASE StepsFail
          BY <5>1 DEF StepsFail, Failing, Ended, Slots, Slot, Dimension
        <5>2. CASE ~StepsFail
          BY <1>3, <3>3, <5>2
          DEF Main, MainStep, NextIteration, StartPlan, Planned, StartImplement, Implemented,
              StartEvaluate, Evaluated, Settle, CarryPass, CloseCheck, CloseIteration
        <5>3. QED
          BY <5>1, <5>2
      <4>3. QED
        BY <2>0, <4>1, <4>2 DEF LateInv, Stopped, rowVars
    <3>4. QED
      BY <3>1, <3>2, <3>3
  <2>3. pc' \in {"off", "load", "clear", "own"} => Late' = {}
    <3>1. CASE LoadLoop \/ ClearSteps \/ TakeOver
      BY <2>0, <3>1 DEF LoadLoop, ClearSteps, TakeOver, LateInv
    <3>2. CASE ExitLoop
      BY <3>2 DEF ExitLoop, Gone, Late, NoneLate
    <3>3. CASE ~(LoadLoop \/ ClearSteps \/ TakeOver \/ ExitLoop)
      <4>1. CASE NextIteration \/ StartPlan \/ Planned \/ StartImplement \/ Implemented
        BY <4>1 DEF NextIteration, StartPlan, Planned, StartImplement, Implemented,
           AfterImplement, FinishAs, Goto
      <4>2. CASE StartEvaluate \/ Evaluated \/ Settle \/ CarryPass \/ CloseCheck \/ StepsFail
                 \/ CloseIteration \/ FinishLoop
        BY <4>2 DEF StartEvaluate, Evaluated, Settle, CarryPass, CloseCheck, StepsFail,
           CloseIteration, FinishLoop, FinishAs, Goto
      <4>3. QED
        BY <1>3, <3>3, <4>1, <4>2 DEF Main, MainStep
    <3>4. QED
      BY <3>1, <3>2, <3>3
  <2>4. QED
    BY <1>2, <2>1, <2>2, <2>3
<1>4. ASSUME NEW s \in Slot, Thread(s)
      PROVE  LateInv'
  <2>1. /\ pc' = pc /\ st[s] # "idle" /\ st[s] \notin Ended /\ st' \in [Slot -> StepPC]
        /\ \A t \in Slot \ {s} : st'[t] = st[t]
    BY <1>4, ThreadMoves
  <2>2. pc \notin {"off", "load", "clear", "own", "exit"}
    BY <2>1 DEF Slots, Slot, Dimension
  <2>3. TypeInv'
    BY <1>4, TypeInvStep DEF Next
  <2>4. Stopped => Stopped'
    BY <1>4
    DEF Thread, ThreadStep, StepCheck, LaunchAgent, AgentReplies, StepPasses, AgentRejected,
        StepRetries, StepExhausts, AgentHitsLimit, LimitStopsLoop, AgentRaises, StepVars, rowVars,
        Stopped
  <2>5. Cardinality(Active') <= MaxConcurrent
    <3>1. CASE st[s] = "queued" /\ s > 0
      <4>1. Cardinality(Active) < MaxConcurrent
        BY <1>4, <3>1
        DEF Thread, ThreadStep, StepCheck, LaunchAgent, AgentReplies, StepPasses, AgentRejected,
            StepRetries, StepExhausts, AgentHitsLimit, LimitStopsLoop, AgentRaises
      <4>2. IsFiniteSet(Active) /\ Cardinality(Active) \in Nat
        BY <1>1, SlotsFinite, FS_CardinalityType
      <4>3. Cardinality(Active \cup {s}) <= MaxConcurrent
        <5>1. Cardinality(Active \cup {s}) \in {Cardinality(Active), Cardinality(Active) + 1}
          BY <4>2, FS_AddElement
        <5>2. QED
          BY <4>1, <4>2, <5>1
      <4>4. Active' \subseteq Active \cup {s} /\ Active \cup {s} \subseteq Slot
        BY <1>1, <2>1 DEF Active
      <4>5. QED
        BY <4>3, <4>4, Fewer
    <3>2. CASE ~(st[s] = "queued" /\ s > 0)
      <4>1. Active' \subseteq Active
        BY <2>1, <3>2 DEF Active, Ended, Dimension
      <4>2. QED
        BY <1>1, <4>1, Fewer DEF LateInv
    <3>3. QED
      BY <3>1, <3>2
  <2>6. /\ Cardinality(Late' \cup Ready') <= MaxConcurrent
        /\ Late' # {} => Stopped'
        /\ \A t \in Slot : late'[t] <= 1 /\ (st'[t] = "ready" => late'[t] = 0)
    <3>1. CASE LaunchAgent(s)
      <4>1. /\ late' = IF Stopped THEN [late EXCEPT ![s] = @ + 1] ELSE late
            /\ Ready' = Ready \ {s} /\ s \in Ready /\ st[s] = "ready" /\ st'[s] = "agent"
        BY <2>1, <3>1 DEF LaunchAgent, Move, Ready, ThreadsOK
      <4>2. /\ Late' \cup Ready' \subseteq Late \cup Ready /\ Late \cup Ready \subseteq Slot
            /\ ~Stopped => Late' = Late
        BY <1>1, <4>1 DEF Late
      <4>3. \A t \in Slot : late'[t] <= 1 /\ (st'[t] = "ready" => late'[t] = 0)
        BY <1>1, <2>1, <4>1 DEF LateInv
      <4>4. QED
        BY <2>2, <2>4, <4>2, <4>3, Fewer DEF LateInv
    <3>2. CASE ~LaunchAgent(s)
      <4>1. late' = late /\ Late' = Late
        BY <1>4, <3>2
        DEF Thread, ThreadStep, StepCheck, AgentReplies, StepPasses, AgentRejected,
            StepRetries, StepExhausts, AgentHitsLimit, LimitStopsLoop, AgentRaises, Late
      <4>2. CASE Late = {}
        <5>1. Cardinality(Ready') <= MaxConcurrent
          BY <2>3, <2>5, ReadyFitNext
        <5>2. \A t \in Slot : late[t] = 0
          BY <1>1, <4>2 DEF Late
        <5>3. QED
          BY <4>1, <4>2, <5>1, <5>2
      <4>3. CASE Late # {}
        <5>1. Stopped
          BY <2>2, <4>3 DEF LateInv
        <5>2. Ready' \subseteq Ready
          BY <1>4, <2>1, <5>1, <3>2
          DEF Thread, ThreadStep, StepCheck, AgentReplies, StepPasses, AgentRejected,
              StepRetries, StepExhausts, AgentHitsLimit, LimitStopsLoop, AgentRaises, Ready, Move,
              ThreadsOK
        <5>3. Late' \cup Ready' \subseteq Late \cup Ready /\ Late \cup Ready \subseteq Slot
          BY <1>1, <4>1, <5>2
        <5>4. \A t \in Slot : late'[t] <= 1 /\ (st'[t] = "ready" => late'[t] = 0)
          BY <4>1, <5>2 DEF LateInv, Ready
        <5>5. QED
          BY <2>4, <4>1, <5>1, <5>3, <5>4, Fewer DEF LateInv
      <4>4. QED
        BY <4>2, <4>3
    <3>3. QED
      BY <3>1, <3>2
  <2>7. QED
    BY <2>1, <2>2, <2>5, <2>6 DEF LateInv
<1>5. CASE StartCommand
  <2>1. pc = "off" /\ pc' = "load" /\ UNCHANGED threadVars
    BY <1>5 DEF StartCommand, Goto
  <2>2. QED
    BY <2>1 DEF LateInv, threadVars, Active, Ready, Late
<1>6. CASE StopCommand \/ StopMarksLoop \/ StopMarksSteps \/ Patch
  <2>1. UNCHANGED <<threadVars, pc>> /\ (Stopped => Stopped')
    BY <1>6 DEF StopCommand, StopMarksLoop, StopMarksSteps, Patch, Reconcile, Reconciled, rowVars,
       mainVars, Stopped
  <2>2. QED
    BY <2>1 DEF LateInv, threadVars, Active, Ready, Late
<1>7. CASE UNCHANGED loopVars
  BY <1>7 DEF loopVars, rowVars, mainVars, threadVars, LateInv, Active, Ready, Late, Stopped
<1>8. CASE Gone
  <2>1. pc' = "off" /\ late' = NoneLate /\ \A s \in Slot : st'[s] = "idle"
    BY <1>8 DEF Gone, Dispatch
  <2>2. Late' = {}
    BY <2>1 DEF Late, NoneLate
  <2>3. QED
    BY <1>2, <2>1, <2>2
<1>9. QED
  BY <1>3, <1>4, <1>5, <1>6, <1>7, <1>8
  DEF Next, StopStep, StopKills, Crash, Dies, vars, NoReader

\* StopHeeded holds of every run no reader reconciles late: an engine that outlives its stop
\* launches at most the agents its pool was about to launch, each once, however many it had
\* queued and however often they fail their gate (LoopEngine._run_step).
THEOREM StopsAreHeeded == ASSUME NoReader PROVE Spec => []StopHeeded
<1>1. Init => LateInv
  <2> SUFFICES ASSUME Init PROVE LateInv
    OBVIOUS
  <2>1. late = NoneLate /\ Late = {} /\ Ready = {} /\ Active = {} /\ pc = "off"
    BY Constants DEF Init, LoopInit, Ready, Active, Late, NoneLate
  <2>2. QED
    BY <2>1, FS_EmptySet, LoopAssumption DEF LateInv, NoneLate
<1>2. LateInv /\ TypeInv /\ [Next]_vars => LateInv'
  BY NoReader, LateInvStep
<1>3. LateInv /\ TypeInv => StopHeeded
  <2> SUFFICES ASSUME LateInv, TypeInv PROVE Cardinality(Late) <= MaxConcurrent
    BY DEF StopHeeded, LateInv, Late
  <2>1. Late \cup Ready \subseteq Slot
    BY DEF Late, Ready
  <2>2. QED
    BY <2>1, Fewer, LoopAssumption DEF LateInv
<1>4. QED
  BY <1>1, <1>2, <1>3, TypesHold, PTL DEF Spec
=============================================================================
