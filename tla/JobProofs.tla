------------------------------ MODULE JobProofs ------------------------------
(***************************************************************************)
(* What JobSystem guarantees for every plan and for any number of engines, *)
(* stops, crashes and readers.                                             *)
(***************************************************************************)
EXTENDS JobSystem, FiniteSetTheorems, TLAPS

\* A nonempty set of naturals has a least element, and Min is it.
LEMMA MinNat ==
  ASSUME NEW S \in SUBSET Nat, S # {}
  PROVE  Min(S) \in S /\ \A y \in S : Min(S) <= y
<1> DEFINE T == {0..x : x \in S}
<1>1. T \subseteq FiniteSubsetsOf(Nat)
  <2> SUFFICES ASSUME NEW x \in S
               PROVE  0..x \in FiniteSubsetsOf(Nat)
    OBVIOUS
  <2>1. IsFiniteSet(0..x)
    BY FS_Interval
  <2> QED  BY <2>1 DEF FiniteSubsetsOf
<1>2. \E X \in T : \A Y \in T : ~(<<Y, X>> \in StrictSubsetOrdering(Nat))
  <2>1. T # {}
    OBVIOUS
  <2>2. IsWellFoundedOn(StrictSubsetOrdering(Nat), FiniteSubsetsOf(Nat))
    BY FS_StrictSubsetOrderingWellFounded
  <2> HIDE DEF T
  <2> QED  BY <1>1, <2>1, <2>2, WFMin
<1>3. PICK x \in S : \A y \in S : ~(<<0..y, 0..x>> \in StrictSubsetOrdering(Nat))
  BY <1>2
<1>4. ASSUME NEW y \in S
      PROVE  x <= y
  <2>1. SUFFICES ASSUME y < x
                 PROVE  FALSE
    OBVIOUS
  <2>2. 0..y \subseteq 0..x /\ x \in 0..x /\ x \notin 0..y
    BY <2>1
  <2>3. 0..y \in SUBSET Nat /\ 0..x \in SUBSET Nat /\ 0..y # 0..x
    BY <2>2
  <2>4. <<0..y, 0..x>> \in StrictSubsetOrdering(Nat)
    BY <2>2, <2>3, Zenon DEF StrictSubsetOrdering
  <2> QED  BY <1>3, <2>4
<1> QED  BY <1>4 DEF Min

-----------------------------------------------------------------------------
(* Type correctness, from the bounds of the attempt numbers.               *)

\* Where an engine has picked a task.
OnTask(e) ==
  \/ pc[e] \in {"begin", "failtask"} \/ InTask(e)
  \/ pc[e] \in {"hook", "hookrun", "hookwait"} /\ phase[e] = "pre_task"

\* A task has been picked there, and its attempts stay within their budget.
Bounds(e) ==
  /\ OnTask(e) => at[e] # 0
  /\ InTask(e) => att[e] + MaxRetries <= MaxAttempt + k[e]
  /\ pc[e] = "retry" => k[e] < MaxRetries

TypeInv == TypeOK /\ \A e \in Engine : Bounds(e)

LEMMA TypeInit == Init => TypeInv
BY NTasksAssumption, MaxAttemptAssumption, MaxRetriesAssumption, SystemAssumption
DEF Init, StoreInit, EngineInit, TypeInv, TypeOK, StoreTypeOK, EngineTypeOK,
    Bounds, OnTask, InTask, Task, Attempt, Status, Phase, PC, NoHandoff

\* The sets the types are made of, so that they need not be expanded again.
LEMMA Members ==
  /\ {"pending", "running", "completed", "failed", "stopped"} = Status
  /\ {"pre_plan", "pre_task", "post_task", "post_plan"} = Phase
  /\ {"off", "load", "close", "mark", "hook", "hookrun", "hookwait", "next", "begin",
      "attempt", "agent", "limited", "retry", "commit", "persist", "record", "stash",
      "failtask", "jobdone", "jobfail", "exit"} \subseteq PC
  /\ 0 \in Attempt /\ Attempt \subseteq Nat
  /\ Task \subseteq 0..NTasks /\ \A i \in 0..NTasks : i # 0 => i \in Task
BY NTasksAssumption, MaxAttemptAssumption DEF Status, Phase, PC, Starting, Working, Attempt, Task

\* What the writes on a task's rows leave well-typed.
TaskTypes ==
  /\ taskStatus \in [Task -> Status] /\ taskRetries \in [Task -> Attempt]
  /\ row \in [Task -> [Attempt -> {"none"} \cup Status]]

LEMMA TaskWrites ==
  ASSUME TaskTypes, NEW t \in Task, NEW a \in Attempt, NEW s \in Status, NEW r \in Attempt,
         NEW w \in Status, SetTask(t, s, r), SetRow(t, a, w)
  PROVE  TaskTypes'
<1>1. taskStatus' \in [Task -> Status] /\ taskRetries' \in [Task -> Attempt]
  BY DEF TaskTypes, SetTask
<1>2. [row[t] EXCEPT ![a] = w] \in [Attempt -> {"none"} \cup Status]
  BY DEF TaskTypes
<1>3. row' = [row EXCEPT ![t] = [row[t] EXCEPT ![a] = w]]
  BY DEF SetRow
<1>4. row' \in [Task -> [Attempt -> {"none"} \cup Status]]
  BY <1>2, <1>3 DEF TaskTypes
<1> QED  BY <1>1, <1>4 DEF TaskTypes

LEMMA StoreTypeStep ==
  ASSUME TypeInv, NEW e \in Engine, EngineStep(e)
  PROVE  StoreTypeOK'
<1> USE Members DEF TypeInv, TypeOK, StoreTypeOK, EngineTypeOK, storeVars, jobVars, taskVars,
                    gitVars, Read, Reconcile, Reconciled
<1>0. /\ at[e] \in 0..NTasks /\ att[e] \in Attempt /\ OnTask(e) => at[e] \in Task
  BY DEF Bounds
<1>1. CASE LoadJob(e)
  BY <1>0, <1>1 DEF LoadJob
<1>2. CASE PlanUnreadable(e)
  BY <1>0, <1>2 DEF PlanUnreadable
<1>3. CASE CloseInterrupted(e)
  BY <1>0, <1>3 DEF CloseInterrupted, CloseInterruptedExecutions
<1>4. CASE TakeOver(e)
  BY <1>0, <1>4 DEF TakeOver, MarkJobRunning
<1>5. CASE HookCheck(e)
  BY <1>0, <1>5 DEF HookCheck, StopCheck
<1>6. CASE HookStart(e)
  <2>1. phase[e] \in Phase /\ h[e] \in Nat /\ 0 \in 0..NTasks
    BY NTasksAssumption
  <2>2. HookRow(e) \in HookKey
    BY <1>0, <2>1 DEF HookRow, HookKey
  <2> QED  BY <1>6, <2>2 DEF HookStart
<1>7. CASE HookPasses(e)
  BY <1>0, <1>7 DEF HookPasses, HookReturns
<1>8. CASE PlanHookFails(e)
  BY <1>0, <1>8 DEF PlanHookFails, HookReturns
<1>9. CASE PreTaskHookFails(e)
  BY <1>0, <1>9 DEF PreTaskHookFails, HookReturns
<1>10. CASE PostTaskHookRetries(e)
  BY <1>0, <1>10 DEF PostTaskHookRetries, HookReturns
<1>11. CASE PostTaskHookFails(e)
  BY <1>0, <1>11 DEF PostTaskHookFails, HookReturns
<1>12. CASE HooksDone(e)
  BY <1>0, <1>12 DEF HooksDone
<1>13. CASE TasksDone(e)
  BY <1>0, <1>13 DEF TasksDone
<1>14. CASE NextTask(e)
  BY <1>0, <1>14 DEF NextTask, StopCheck
<1>15. CASE BeginTask(e)
  BY <1>0, <1>15 DEF BeginTask
<1>16. CASE StartAttempt(e)
  <2>1. at[e] \in Task
    BY <1>0, <1>16 DEF StartAttempt, OnTask, InTask
  <2>2. TaskTypes'
    BY <1>0, <1>16, <2>1, TaskWrites DEF StartAttempt, MarkRunning, TaskTypes
  <2> QED  BY <1>16, <2>2 DEF StartAttempt, MarkRunning, TaskTypes
<1>17. CASE AgentSucceeds(e)
  <2>1. <<at[e], att[e]>> \in Task \X Attempt
    BY <1>0, <1>17 DEF AgentSucceeds, OnTask, InTask
  <2> QED  BY <1>17, <2>1 DEF AgentSucceeds, AgentLeaves
<1>18. CASE AgentFails(e)
  <2>1. <<at[e], att[e]>> \in Task \X Attempt
    BY <1>0, <1>18 DEF AgentFails, OnTask, InTask
  <2> QED  BY <1>18, <2>1 DEF AgentFails, AgentLeaves
<1>19. CASE AgentHitsLimit(e)
  <2>1. <<at[e], att[e]>> \in Task \X Attempt
    BY <1>0, <1>19 DEF AgentHitsLimit, OnTask, InTask
  <2> QED  BY <1>19, <2>1 DEF AgentHitsLimit, AgentLeaves
<1>20. CASE UsageLimited(e)
  <2>1. at[e] \in Task
    BY <1>0, <1>20 DEF UsageLimited, OnTask, InTask
  <2>2. TaskTypes'
    BY <1>0, <1>20, <2>1, TaskWrites DEF UsageLimited, MarkTaskUsageLimited, TaskTypes
  <2> QED  BY <1>20, <2>2 DEF UsageLimited, MarkTaskUsageLimited, TaskTypes
<1>21. CASE RetryTask(e)
  <2>1. at[e] \in Task
    BY <1>0, <1>21 DEF RetryTask, OnTask, InTask
  <2>2. TaskTypes'
    BY <1>0, <1>21, <2>1, TaskWrites DEF RetryTask, RecordAttempt, TaskTypes
  <2> QED  BY <1>21, <2>2 DEF RetryTask, RecordAttempt, TaskTypes
<1>22. CASE CommitTask(e)
  BY <1>0, <1>22 DEF CommitTask
<1>23. CASE PersistHandoff(e)
  <2>1. <<at[e], att[e]>> \in Task \X Attempt
    BY <1>0, <1>23 DEF PersistHandoff, OnTask, InTask
  <2> QED  BY <1>23, <2>1 DEF PersistHandoff
<1>24. CASE RecordTask(e)
  <2>1. at[e] \in Task
    BY <1>0, <1>24 DEF RecordTask, OnTask, InTask
  <2>2. TaskTypes'
    BY <1>0, <1>24, <2>1, TaskWrites DEF RecordTask, RecordCompleted, TaskTypes
  <2> QED  BY <1>24, <2>2 DEF RecordTask, RecordCompleted, TaskTypes
<1>25. CASE StashWork(e)
  BY <1>0, <1>25 DEF StashWork
<1>26. CASE FailTask(e)
  <2>1. at[e] \in Task
    BY <1>0, <1>26 DEF FailTask, OnTask, InTask
  <2>2. TaskTypes'
    BY <1>0, <1>26, <2>1, TaskWrites DEF FailTask, MarkTaskFailed, TaskTypes
  <2> QED  BY <1>26, <2>2 DEF FailTask, MarkTaskFailed, TaskTypes
<1>27. CASE FinishJob(e)
  BY <1>0, <1>27 DEF FinishJob, MarkJob
<1>28. CASE Exit(e)
  BY <1>0, <1>28 DEF Exit
<1> QED  BY <1>1, <1>2, <1>3, <1>4, <1>5, <1>6, <1>7, <1>8, <1>9, <1>10, <1>11, <1>12, <1>13, <1>14, <1>15, <1>16, <1>17, <1>18, <1>19, <1>20, <1>21, <1>22, <1>23, <1>24, <1>25, <1>26, <1>27, <1>28 DEF EngineStep
\* An engine's step leaves the other engines where they are.
LEMMA Frame ==
  ASSUME EngineTypeOK, NEW e \in Engine, EngineStep(e), NEW d \in Engine, d # e
  PROVE  /\ pc'[d] = pc[d] /\ at'[d] = at[d] /\ phase'[d] = phase[d] /\ h'[d] = h[d]
         /\ k'[d] = k[d] /\ att'[d] = att[d]
<1> USE DEF EngineTypeOK, Goto, localVars
<1>1. CASE LoadJob(e)
  BY <1>1 DEF LoadJob
<1>2. CASE PlanUnreadable(e)
  BY <1>2 DEF PlanUnreadable
<1>3. CASE CloseInterrupted(e)
  BY <1>3 DEF CloseInterrupted
<1>4. CASE TakeOver(e)
  BY <1>4 DEF TakeOver, RunHooks
<1>5. CASE HookCheck(e)
  BY <1>5 DEF HookCheck, StopCheck
<1>6. CASE HookStart(e)
  BY <1>6 DEF HookStart
<1>7. CASE HookPasses(e)
  BY <1>7 DEF HookPasses, HookReturns
<1>8. CASE PlanHookFails(e)
  BY <1>8 DEF PlanHookFails, HookReturns
<1>9. CASE PreTaskHookFails(e)
  BY <1>9 DEF PreTaskHookFails, HookReturns
<1>10. CASE PostTaskHookRetries(e)
  BY <1>10 DEF PostTaskHookRetries, HookReturns
<1>11. CASE PostTaskHookFails(e)
  BY <1>11 DEF PostTaskHookFails, HookReturns
<1>12. CASE HooksDone(e)
  BY <1>12 DEF HooksDone
<1>13. CASE TasksDone(e)
  BY <1>13 DEF TasksDone, RunHooks
<1>14. CASE NextTask(e)
  BY <1>14 DEF NextTask, StopCheck
<1>15. CASE BeginTask(e)
  BY <1>15 DEF BeginTask
<1>16. CASE StartAttempt(e)
  BY <1>16 DEF StartAttempt
<1>17. CASE AgentSucceeds(e)
  BY <1>17 DEF AgentSucceeds, RunHooks
<1>18. CASE AgentFails(e)
  BY <1>18 DEF AgentFails
<1>19. CASE AgentHitsLimit(e)
  BY <1>19 DEF AgentHitsLimit
<1>20. CASE UsageLimited(e)
  BY <1>20 DEF UsageLimited
<1>21. CASE RetryTask(e)
  BY <1>21 DEF RetryTask
<1>22. CASE CommitTask(e)
  BY <1>22 DEF CommitTask
<1>23. CASE PersistHandoff(e)
  BY <1>23 DEF PersistHandoff
<1>24. CASE RecordTask(e)
  BY <1>24 DEF RecordTask
<1>25. CASE StashWork(e)
  BY <1>25 DEF StashWork
<1>26. CASE FailTask(e)
  BY <1>26 DEF FailTask
<1>27. CASE FinishJob(e)
  BY <1>27 DEF FinishJob
<1>28. CASE Exit(e)
  BY <1>28 DEF Exit, Gone
<1> QED  BY <1>1, <1>2, <1>3, <1>4, <1>5, <1>6, <1>7, <1>8, <1>9, <1>10, <1>11, <1>12, <1>13, <1>14, <1>15, <1>16, <1>17, <1>18, <1>19, <1>20, <1>21, <1>22, <1>23, <1>24, <1>25, <1>26, <1>27, <1>28 DEF EngineStep\* The task NextTask takes is one of the plan that is ahead of the engine.
LEMMA AheadTask ==
  ASSUME NEW e \in Engine, Ahead(e) # {}
  PROVE  Min(Ahead(e)) \in Task /\ Min(Ahead(e)) \in Ahead(e)
<1>1. Ahead(e) \in SUBSET Nat /\ Ahead(e) \subseteq Task
  BY DEF Ahead, Task
<1> QED  BY <1>1, MinNat

LEMMA BoundsStep ==
  ASSUME TypeInv, NEW e \in Engine, EngineStep(e), NEW d \in Engine
  PROVE  Bounds(d)'
<1>0. EngineTypeOK /\ att[e] \in Nat /\ k[e] \in Nat /\ Bounds(e)
  <2>1. EngineTypeOK /\ Bounds(e)
    BY DEF TypeInv, TypeOK
  <2>2. att[e] \in Attempt /\ k[e] \in 0..MaxRetries
    BY <2>1 DEF EngineTypeOK
  <2>3. att[e] \in Nat /\ k[e] \in Nat
    BY <2>2, MaxRetriesAssumption, MaxAttemptAssumption DEF Attempt
  <2> QED  BY <2>1, <2>3
<1>a. CASE d # e
  <2>1. Bounds(d)
    BY DEF TypeInv
  <2> QED  BY <1>0, <1>a, <2>1, Frame DEF Bounds, OnTask, InTask
<1>b. CASE d = e
  <2> SUFFICES Bounds(e)'
    BY <1>b
  <2> USE MaxAttemptAssumption, MaxRetriesAssumption
      DEF EngineTypeOK, Bounds, OnTask, InTask, Goto, localVars
  <2>1. CASE LoadJob(e)
    BY <1>0, <2>1 DEF LoadJob
  <2>2. CASE PlanUnreadable(e)
    BY <1>0, <2>2 DEF PlanUnreadable
  <2>3. CASE CloseInterrupted(e)
    BY <1>0, <2>3 DEF CloseInterrupted
  <2>4. CASE TakeOver(e)
    BY <1>0, <2>4 DEF TakeOver, RunHooks
  <2>5. CASE HookCheck(e)
    BY <1>0, <2>5 DEF HookCheck, StopCheck
  <2>6. CASE HookStart(e)
    BY <1>0, <2>6 DEF HookStart
  <2>7. CASE HookPasses(e)
    BY <1>0, <2>7 DEF HookPasses, HookReturns
  <2>8. CASE PlanHookFails(e)
    BY <1>0, <2>8 DEF PlanHookFails, HookReturns
  <2>9. CASE PreTaskHookFails(e)
    BY <1>0, <2>9 DEF PreTaskHookFails, HookReturns
  <2>10. CASE PostTaskHookRetries(e)
    BY <1>0, <2>10 DEF PostTaskHookRetries, HookReturns
  <2>11. CASE PostTaskHookFails(e)
    BY <1>0, <2>11 DEF PostTaskHookFails, HookReturns
  <2>12. CASE HooksDone(e)
    BY <1>0, <2>12 DEF HooksDone, AfterHooks, Phase
  <2>13. CASE TasksDone(e)
    BY <1>0, <2>13 DEF TasksDone, RunHooks
  <2>14. CASE NextTask(e)
    <3>1. Min(Ahead(e)) # 0
      BY <2>14, AheadTask DEF NextTask, Task
    <3> QED  BY <1>0, <2>14, <3>1 DEF NextTask, StopCheck
  <2>15. CASE BeginTask(e)
    <3>1. PICK n \in Attempt : n + MaxRetries <= MaxAttempt /\ att'[e] = n
      BY <1>0, <2>15 DEF BeginTask
    <3>2. k'[e] = 0 /\ at'[e] = at[e] /\ pc'[e] = "attempt" /\ at[e] # 0 /\ n \in Nat
      BY <1>0, <2>15 DEF BeginTask, Attempt
    <3> QED  BY <3>1, <3>2
  <2>16. CASE StartAttempt(e)
    BY <1>0, <2>16 DEF StartAttempt
  <2>17. CASE AgentSucceeds(e)
    BY <1>0, <2>17 DEF AgentSucceeds, RunHooks
  <2>18. CASE AgentFails(e)
    BY <1>0, <2>18 DEF AgentFails
  <2>19. CASE AgentHitsLimit(e)
    BY <1>0, <2>19 DEF AgentHitsLimit
  <2>20. CASE UsageLimited(e)
    BY <1>0, <2>20 DEF UsageLimited
  <2>21. CASE RetryTask(e)
    BY <1>0, <2>21 DEF RetryTask
  <2>22. CASE CommitTask(e)
    BY <1>0, <2>22 DEF CommitTask
  <2>23. CASE PersistHandoff(e)
    BY <1>0, <2>23 DEF PersistHandoff
  <2>24. CASE RecordTask(e)
    BY <1>0, <2>24 DEF RecordTask
  <2>25. CASE StashWork(e)
    BY <1>0, <2>25 DEF StashWork
  <2>26. CASE FailTask(e)
    BY <1>0, <2>26 DEF FailTask
  <2>27. CASE FinishJob(e)
    BY <1>0, <2>27 DEF FinishJob
  <2>28. CASE Exit(e)
    BY <1>0, <2>28 DEF Exit, Gone
  <2> QED  BY <2>1, <2>2, <2>3, <2>4, <2>5, <2>6, <2>7, <2>8, <2>9, <2>10, <2>11, <2>12, <2>13, <2>14, <2>15, <2>16, <2>17, <2>18, <2>19, <2>20, <2>21, <2>22, <2>23, <2>24, <2>25, <2>26, <2>27, <2>28 DEF EngineStep
<1> QED  BY <1>a, <1>b
LEMMA LocalTypeStep ==
  ASSUME TypeInv, NEW e \in Engine, EngineStep(e)
  PROVE  EngineTypeOK'
<1>0. /\ EngineTypeOK /\ taskRetries \in [Task -> Attempt]
      /\ at[e] \in 0..NTasks /\ att[e] \in Attempt /\ OnTask(e) => at[e] \in Task
  BY Members DEF TypeInv, TypeOK, StoreTypeOK, EngineTypeOK, Bounds
<1> USE Members DEF EngineTypeOK, Goto, Read, localVars, lateVars, gitVars, NoHandoff
<1>1. CASE LoadJob(e)
  <2>1. CompletedOnLoad \in SUBSET Task
    BY DEF CompletedOnLoad
  <2>2. pc' \in [Engine -> PC]
    BY <1>0, <1>1 DEF LoadJob
  <2>3. snapDone' \in [Engine -> SUBSET Task] /\ snapRetries' \in [Engine -> [Task -> Attempt]]
    <3>1. \/ snapDone' = snapDone /\ snapRetries' = snapRetries
          \/ /\ snapDone' = [snapDone EXCEPT ![e] = CompletedOnLoad]
             /\ snapRetries' = [snapRetries EXCEPT ![e] = taskRetries]
      BY <1>1 DEF LoadJob
    <3>2. snapDone' \in [Engine -> SUBSET Task]
      BY <1>0, <2>1, <3>1
    <3>3. snapRetries' \in [Engine -> [Task -> Attempt]]
      BY <1>0, <3>1
    <3> QED  BY <3>2, <3>3
  <2> QED  BY <1>0, <1>1, <2>2, <2>3 DEF LoadJob
<1>2. CASE PlanUnreadable(e)
  BY <1>0, <1>2 DEF PlanUnreadable
<1>3. CASE CloseInterrupted(e)
  BY <1>0, <1>3 DEF CloseInterrupted
<1>4. CASE TakeOver(e)
  BY <1>0, <1>4 DEF TakeOver, RunHooks
<1>5. CASE HookCheck(e)
  BY <1>0, <1>5 DEF HookCheck, StopCheck
<1>6. CASE HookStart(e)
  BY <1>0, <1>6 DEF HookStart
<1>7. CASE HookPasses(e)
  BY <1>0, <1>7 DEF HookPasses, HookReturns
<1>8. CASE PlanHookFails(e)
  BY <1>0, <1>8 DEF PlanHookFails, HookReturns
<1>9. CASE PreTaskHookFails(e)
  <2>1. at[e] \in Task
    BY <1>0, <1>9 DEF PreTaskHookFails, HookReturns, OnTask, InTask
  <2>2. snapRetries[e][at[e]] \in Attempt
    BY <1>0, <2>1
  <2> QED  BY <1>0, <1>9, <2>2 DEF PreTaskHookFails, HookReturns
<1>10. CASE PostTaskHookRetries(e)
  BY <1>0, <1>10 DEF PostTaskHookRetries, HookReturns
<1>11. CASE PostTaskHookFails(e)
  BY <1>0, <1>11 DEF PostTaskHookFails, HookReturns
<1>12. CASE HooksDone(e)
  BY <1>0, <1>12 DEF HooksDone, AfterHooks, Phase
<1>13. CASE TasksDone(e)
  BY <1>0, <1>13 DEF TasksDone, RunHooks
<1>14. CASE NextTask(e)
  <2>1. Min(Ahead(e)) \in 0..NTasks
    BY <1>14, AheadTask, Members DEF NextTask
  <2>2. SeededHandoff(e, Min(Ahead(e))) \in (Task \X Attempt) \cup {NoHandoff}
    BY DEF SeededHandoff, TypeInv, TypeOK, StoreTypeOK
  <2>3. {"pre_task"} \subseteq Phase /\ {"hook", "exit"} \subseteq PC
    BY Members
  <2>4. pc' \in [Engine -> PC]
    BY <1>0, <1>14, <2>3 DEF NextTask, StopCheck
  <2>5. at' \in [Engine -> 0..NTasks]
    BY <1>0, <1>14, <2>1 DEF NextTask
  <2>6. phase' \in [Engine -> Phase] /\ h' \in [Engine -> Nat \ {0}]
    <3>1. \/ phase' = phase /\ h' = h
          \/ phase' = [phase EXCEPT ![e] = "pre_task"] /\ h' = [h EXCEPT ![e] = 1]
      BY <1>14 DEF NextTask
    <3>2. phase' \in [Engine -> Phase]
      BY <1>0, <2>3, <3>1
    <3>3. h' \in [Engine -> Nat \ {0}]
      <4>1. h \in [Engine -> Nat \ {0}] /\ 1 \in Nat \ {0}
        BY <1>0
      <4>2. [h EXCEPT ![e] = 1] \in [Engine -> Nat \ {0}]
        BY <4>1
      <4> QED  BY <3>1, <4>1, <4>2
    <3> QED  BY <3>2, <3>3
  <2>7. hand' \in [Engine -> (Task \X Attempt) \cup {NoHandoff}]
    BY <1>0, <1>14, <2>2 DEF NextTask
  <2> QED  BY <1>0, <1>14, <2>4, <2>5, <2>6, <2>7 DEF NextTask, StopCheck
<1>15. CASE BeginTask(e)
  <2>1. 0 \in 0..MaxRetries
    BY MaxRetriesAssumption
  <2> QED  BY <1>0, <1>15, <2>1 DEF BeginTask
<1>16. CASE StartAttempt(e)
  <2>1. at[e] \in Task
    BY <1>0, <1>16 DEF StartAttempt, OnTask, InTask
  <2>2. lateTasks' \in [Engine -> SUBSET Task]
    BY <1>0, <1>16, <2>1 DEF StartAttempt
  <2> QED  BY <1>0, <1>16, <2>2 DEF StartAttempt
<1>17. CASE AgentSucceeds(e)
  <2>1. at[e] \in Task
    BY <1>0, <1>17 DEF AgentSucceeds, OnTask, InTask
  <2>2. tree' \subseteq Task
    BY <1>0, <1>17, <2>1 DEF AgentSucceeds, AgentLeaves
  <2> QED  BY <1>0, <1>17, <2>2 DEF AgentSucceeds, RunHooks
<1>18. CASE AgentFails(e)
  <2>1. at[e] \in Task
    BY <1>0, <1>18 DEF AgentFails, OnTask, InTask
  <2>2. tree' \subseteq Task
    BY <1>0, <1>18, <2>1 DEF AgentFails, AgentLeaves
  <2> QED  BY <1>0, <1>18, <2>2 DEF AgentFails
<1>19. CASE AgentHitsLimit(e)
  <2>1. at[e] \in Task
    BY <1>0, <1>19 DEF AgentHitsLimit, OnTask, InTask
  <2>2. tree' \subseteq Task
    BY <1>0, <1>19, <2>1 DEF AgentHitsLimit, AgentLeaves
  <2> QED  BY <1>0, <1>19, <2>2 DEF AgentHitsLimit
<1>20. CASE UsageLimited(e)
  BY <1>0, <1>20 DEF UsageLimited
<1>21. CASE RetryTask(e)
  <2>1. at[e] \in Task
    BY <1>0, <1>21 DEF RetryTask, OnTask, InTask
  <2>2. <<at[e], att[e]>> \in Task \X Attempt
    BY <1>0, <2>1
  <2>3. k[e] \in 0..MaxRetries /\ att[e] \in Nat /\ Bounds(e)
    BY <1>0, MaxAttemptAssumption DEF TypeInv, Attempt
  <2>4. k[e] + 1 \in 0..MaxRetries /\ att[e] + 1 \in Attempt
    BY <2>3, <1>21, MaxRetriesAssumption, MaxAttemptAssumption
    DEF RetryTask, Bounds, InTask, Attempt
  <2> QED  BY <1>0, <1>21, <2>2, <2>4 DEF RetryTask
<1>22. CASE CommitTask(e)
  BY <1>0, <1>22 DEF CommitTask
<1>23. CASE PersistHandoff(e)
  BY <1>0, <1>23 DEF PersistHandoff
<1>24. CASE RecordTask(e)
  <2>1. at[e] \in Task
    BY <1>0, <1>24 DEF RecordTask, OnTask, InTask
  <2>2. <<at[e], att[e]>> \in Task \X Attempt
    BY <1>0, <2>1
  <2> QED  BY <1>0, <1>24, <2>2 DEF RecordTask
<1>25. CASE StashWork(e)
  BY <1>0, <1>25 DEF StashWork
<1>26. CASE FailTask(e)
  BY <1>0, <1>26 DEF FailTask
<1>27. CASE FinishJob(e)
  BY <1>0, <1>27 DEF FinishJob
<1>28. CASE Exit(e)
  <2>1. /\ [t \in Task |-> 0] \in [Task -> Attempt]
        /\ 0 \in 0..MaxRetries /\ 0 \in 0..NTasks /\ 0 \in 0..2 /\ 1 \in Nat \ {0}
    BY NTasksAssumption, MaxRetriesAssumption
  <2> QED  BY <1>0, <1>28, <2>1 DEF Exit, Gone
<1> QED  BY <1>1, <1>2, <1>3, <1>4, <1>5, <1>6, <1>7, <1>8, <1>9, <1>10, <1>11, <1>12, <1>13, <1>14, <1>15, <1>16, <1>17, <1>18, <1>19, <1>20, <1>21, <1>22, <1>23, <1>24, <1>25, <1>26, <1>27, <1>28 DEF EngineStep
\* A process that dies leaves a well-typed store and no engine out of bounds.
LEMMA DeathType ==
  ASSUME TypeInv, NEW e \in Engine, DiesLeaving(e)
  PROVE  StoreTypeOK' /\ EngineTypeOK' /\ \A d \in Engine : Bounds(d)'
<1>0. EngineTypeOK /\ StoreTypeOK
  BY DEF TypeInv, TypeOK
<1>1. tree' \subseteq Task /\ committed' \subseteq Task /\ handoff' \subseteq Task \X Attempt
  <2>1. CASE pc[e] = "agent"
    <3>1. <<at[e], att[e]>> \in Task \X Attempt
      BY <1>0, <2>1, Members DEF TypeInv, EngineTypeOK, Bounds, OnTask, InTask
    <3> QED  BY <1>0, <2>1, <3>1 DEF DiesLeaving, AgentLeaves, StoreTypeOK, EngineTypeOK
  <2>2. CASE pc[e] # "agent"
    BY <1>0, <2>2 DEF DiesLeaving, StoreTypeOK, EngineTypeOK
  <2> QED  BY <2>1, <2>2
<1>2. StoreTypeOK'
  BY <1>0, <1>1 DEF DiesLeaving, StoreTypeOK, jobVars, taskVars
<1>3. EngineTypeOK'
  <2>1. /\ [t \in Task |-> 0] \in [Task -> Attempt] /\ NoHandoff \in {NoHandoff}
        /\ 0 \in 0..MaxRetries /\ 0 \in 0..NTasks /\ 0 \in 0..2 /\ 1 \in Nat \ {0}
    BY Members, NTasksAssumption, MaxRetriesAssumption
  <2> QED  BY <1>0, <1>1, <2>1, Members DEF DiesLeaving, Gone, Goto, EngineTypeOK
<1>4. ASSUME NEW d \in Engine
      PROVE  Bounds(d)'
  <2>1. CASE d = e
    BY <1>0, <2>1 DEF DiesLeaving, Gone, Goto, EngineTypeOK, Bounds, OnTask, InTask
  <2>2. CASE d # e
    BY <1>0, <2>2 DEF TypeInv, DiesLeaving, Gone, Goto, EngineTypeOK, Bounds, OnTask, InTask
  <2> QED  BY <2>1, <2>2
<1> QED  BY <1>2, <1>3, <1>4

LEMMA TypeNext ==
  ASSUME TypeInv, [Next]_vars
  PROVE  TypeInv'
<1> DEFINE Commands ==
      /\ stopPc \in {"idle", "read", "mark", "list", "tasks"}
      /\ stopPid \in Engine \cup {NoPid} /\ stopTodo \subseteq Task
      /\ seen \in [Reader -> Engine \cup {NoPid, "nothing"}]
      /\ spawns \in 0..MaxSpawns /\ stops \in 0..MaxStops /\ crashes \in 0..MaxCrashes
<1>0. StoreTypeOK /\ EngineTypeOK /\ Commands /\ \A d \in Engine : Bounds(d)
  BY DEF TypeInv, TypeOK
<1> SUFFICES StoreTypeOK' /\ EngineTypeOK' /\ Commands' /\ \A d \in Engine : Bounds(d)'
  BY DEF TypeInv, TypeOK
<1> USE DEF stopVars, boundVars, storeVars, jobVars, taskVars, gitVars, engineVars,
            localVars, lateVars, Read
<1>1. ASSUME NEW e \in Engine, EngineAct(e)
      PROVE  StoreTypeOK' /\ EngineTypeOK' /\ Commands' /\ \A d \in Engine : Bounds(d)'
  <2>1. EngineStep(e) /\ Commands'
    BY <1>0, <1>1 DEF EngineAct
  <2> QED  BY <2>1, StoreTypeStep, LocalTypeStep, BoundsStep
<1>2. ASSUME NEW e \in Engine, StartCommand(e)
      PROVE  StoreTypeOK' /\ EngineTypeOK' /\ Commands' /\ \A d \in Engine : Bounds(d)'
  <2>1. StoreTypeOK'
    BY <1>0, <1>2, Members DEF StartCommand, Reconcile, Reconciled, StoreTypeOK
  <2>2. EngineTypeOK'
    BY <1>0, <1>2, Members DEF StartCommand, Goto, EngineTypeOK
  <2>3. Commands'
    BY <1>0, <1>2, SystemAssumption DEF StartCommand
  <2>4. \A d \in Engine : Bounds(d)'
    BY <1>0, <1>2 DEF StartCommand, Goto, EngineTypeOK, Bounds, OnTask, InTask
  <2> QED  BY <2>1, <2>2, <2>3, <2>4
<1>3. ASSUME NEW e \in Engine, Crash(e)
      PROVE  StoreTypeOK' /\ EngineTypeOK' /\ Commands' /\ \A d \in Engine : Bounds(d)'
  BY <1>0, <1>3, DeathType, SystemAssumption DEF Crash
<1>4. CASE StopCommand
  <2>1. StoreTypeOK'
    BY <1>0, <1>4, Members DEF StopCommand, Reconcile, Reconciled, StoreTypeOK
  <2> QED  BY <1>0, <1>4, <2>1, SystemAssumption
           DEF StopCommand, EngineTypeOK, Bounds, OnTask, InTask
<1>5. CASE StopReadsJob
  BY <1>0, <1>5 DEF StopReadsJob, StoreTypeOK, EngineTypeOK, Bounds, OnTask, InTask
<1>6. CASE StopMarksJob
  BY <1>0, <1>6, Members
  DEF StopMarksJob, MarkJob, StoreTypeOK, EngineTypeOK, Bounds, OnTask, InTask
<1>7. CASE StopListsTasks
  BY <1>0, <1>7 DEF StopListsTasks, StoreTypeOK, EngineTypeOK, Bounds, OnTask, InTask
<1>8. CASE StopMarksTask
  <2>1. StoreTypeOK'
    BY <1>0, <1>8, Members DEF StopMarksTask, MarkTaskStopped, SetTask, StoreTypeOK
  <2>2. EngineTypeOK' /\ \A d \in Engine : Bounds(d)'
    BY <1>0, <1>8 DEF StopMarksTask, EngineTypeOK, Bounds, OnTask, InTask
  <2> QED  BY <1>0, <1>8, <2>1, <2>2 DEF StopMarksTask
<1>9. CASE StopKills
  <2>1. CASE Alive(stopPid) /\ DiesLeaving(stopPid)
    BY <1>0, <1>9, <2>1, DeathType DEF StopKills, Alive
  <2>2. CASE UNCHANGED <<Read, engineVars>>
    BY <1>0, <1>9, <2>2 DEF StopKills, StoreTypeOK, EngineTypeOK, Bounds, OnTask, InTask
  <2> QED  BY <1>9, <2>1, <2>2 DEF StopKills
<1>10. ASSUME NEW r \in Reader, ReaderLoads(r)
       PROVE  StoreTypeOK' /\ EngineTypeOK' /\ Commands' /\ \A d \in Engine : Bounds(d)'
  BY <1>0, <1>10 DEF ReaderLoads, StoreTypeOK, EngineTypeOK, Bounds, OnTask, InTask
<1>11. ASSUME NEW r \in Reader, ReaderReconciles(r)
       PROVE  StoreTypeOK' /\ EngineTypeOK' /\ Commands' /\ \A d \in Engine : Bounds(d)'
  <2>1. StoreTypeOK'
    BY <1>0, <1>11, Members DEF ReaderReconciles, MarkJob, StoreTypeOK
  <2> QED  BY <1>0, <1>11, <2>1
           DEF ReaderReconciles, EngineTypeOK, Bounds, OnTask, InTask
<1>12. CASE UNCHANGED vars
  BY <1>0, <1>12 DEF vars, StoreTypeOK, EngineTypeOK, Bounds, OnTask, InTask
<1> QED
  BY <1>1, <1>2, <1>3, <1>4, <1>5, <1>6, <1>7, <1>8, <1>9, <1>10, <1>11, <1>12 DEF Next

THEOREM TypeInvariant == Spec => []TypeInv
<1> QED  BY TypeInit, TypeNext, PTL DEF Spec

\* Every variable keeps its type: no attempt number, hook index or retry leaves
\* the range the rows and files are keyed by.
THEOREM TypeCorrect == Spec => []TypeOK
<1>1. TypeInv => TypeOK
  BY DEF TypeInv
<1> QED  BY <1>1, TypeInvariant, PTL
-----------------------------------------------------------------------------
(* The completion invariant.                                               *)

\* Between the handoff's write and the task's, the handoff is already there.
HandoffInv ==
  /\ HandoffBeforeCompleted
  /\ \A e \in Engine : pc[e] = "record" => <<at[e], att[e]>> \in handoff

\* A step that completes no task, moves no completed task's retries and loses no
\* handoff.
CompletesNothing ==
  /\ handoff \subseteq handoff'
  /\ \A t \in Task : taskStatus'[t] = "completed"
        => taskStatus[t] = "completed" /\ taskRetries'[t] = taskRetries[t]

LEMMA CompletesNothingKeeps ==
  ASSUME HandoffBeforeCompleted, CompletesNothing
  PROVE  HandoffBeforeCompleted'
BY DEF HandoffBeforeCompleted, CompletesNothing, Completed

LEMMA HandoffEngineStep ==
  ASSUME TypeOK, HandoffInv, NEW e \in Engine, EngineStep(e)
  PROVE  HandoffInv'
<1>0. EngineTypeOK /\ StoreTypeOK
  BY DEF TypeOK
<1>a. SUFFICES /\ HandoffBeforeCompleted' /\ handoff \subseteq handoff'
               /\ pc'[e] = "record" => <<at'[e], att'[e]>> \in handoff'
  BY <1>0, Frame DEF HandoffInv
<1>b. SUFFICES ASSUME ~RecordTask(e)
               PROVE  CompletesNothing /\ (pc'[e] = "record" => <<at'[e], att'[e]>> \in handoff')
  <2>1. ASSUME RecordTask(e)
        PROVE  /\ HandoffBeforeCompleted' /\ handoff' = handoff /\ pc'[e] # "record"
    <3>1. handoff' = handoff /\ pc'[e] # "record" /\ <<at[e], att[e]>> \in handoff
      BY <1>0, <2>1 DEF RecordTask, Goto, HandoffInv, EngineTypeOK
    <3>2. \A t \in Task : taskStatus'[t] = "completed" =>
            \/ t = at[e] /\ taskRetries'[t] = att[e]
            \/ taskStatus[t] = "completed" /\ taskRetries'[t] = taskRetries[t]
      BY <1>0, <2>1 DEF RecordTask, RecordCompleted, SetTask, StoreTypeOK
    <3> QED  BY <3>1, <3>2 DEF HandoffInv, HandoffBeforeCompleted, Completed
  <2> QED  BY <2>1, CompletesNothingKeeps DEF HandoffInv, CompletesNothing
<1> USE DEF CompletesNothing, EngineTypeOK, StoreTypeOK, Goto, Read, storeVars, taskVars, localVars
<1>1. CASE LoadJob(e)
  BY <1>0, <1>1 DEF LoadJob
<1>2. CASE PlanUnreadable(e)
  BY <1>0, <1>2 DEF PlanUnreadable
<1>3. CASE CloseInterrupted(e)
  BY <1>0, <1>3 DEF CloseInterrupted, CloseInterruptedExecutions
<1>4. CASE TakeOver(e)
  BY <1>0, <1>4 DEF TakeOver, RunHooks
<1>5. CASE HookCheck(e)
  BY <1>0, <1>5 DEF HookCheck, StopCheck
<1>6. CASE HookStart(e)
  BY <1>0, <1>6 DEF HookStart
<1>7. CASE HookPasses(e)
  BY <1>0, <1>7 DEF HookPasses, HookReturns
<1>8. CASE PlanHookFails(e)
  BY <1>0, <1>8 DEF PlanHookFails, HookReturns
<1>9. CASE PreTaskHookFails(e)
  BY <1>0, <1>9 DEF PreTaskHookFails, HookReturns
<1>10. CASE PostTaskHookRetries(e)
  BY <1>0, <1>10 DEF PostTaskHookRetries, HookReturns
<1>11. CASE PostTaskHookFails(e)
  BY <1>0, <1>11 DEF PostTaskHookFails, HookReturns
<1>12. CASE HooksDone(e)
  BY <1>0, <1>12 DEF HooksDone, AfterHooks, Phase
<1>13. CASE TasksDone(e)
  BY <1>0, <1>13 DEF TasksDone, RunHooks
<1>14. CASE NextTask(e)
  BY <1>0, <1>14 DEF NextTask, StopCheck
<1>15. CASE BeginTask(e)
  BY <1>0, <1>15 DEF BeginTask
<1>16. CASE StartAttempt(e)
  BY <1>0, <1>16 DEF StartAttempt, MarkRunning, SetTask
<1>17. CASE AgentSucceeds(e)
  BY <1>0, <1>17 DEF AgentSucceeds, AgentLeaves, RunHooks
<1>18. CASE AgentFails(e)
  BY <1>0, <1>18 DEF AgentFails, AgentLeaves
<1>19. CASE AgentHitsLimit(e)
  BY <1>0, <1>19 DEF AgentHitsLimit, AgentLeaves
<1>20. CASE UsageLimited(e)
  BY <1>0, <1>20 DEF UsageLimited, MarkTaskUsageLimited, SetTask
<1>21. CASE RetryTask(e)
  BY <1>0, <1>21 DEF RetryTask, RecordAttempt, SetTask
<1>22. CASE CommitTask(e)
  BY <1>0, <1>22 DEF CommitTask
<1>23. CASE PersistHandoff(e)
  BY <1>0, <1>23 DEF PersistHandoff
<1>24. CASE StashWork(e)
  BY <1>0, <1>24 DEF StashWork
<1>25. CASE FailTask(e)
  BY <1>0, <1>25 DEF FailTask, MarkTaskFailed, SetTask
<1>26. CASE FinishJob(e)
  BY <1>0, <1>26 DEF FinishJob
<1>27. CASE Exit(e)
  BY <1>0, <1>27 DEF Exit, Gone
<1> QED  BY <1>b, <1>1, <1>2, <1>3, <1>4, <1>5, <1>6, <1>7, <1>8, <1>9, <1>10, <1>11, <1>12, <1>13, <1>14, <1>15, <1>16, <1>17, <1>18, <1>19, <1>20, <1>21, <1>22, <1>23, <1>24, <1>25, <1>26, <1>27 DEF EngineStep

LEMMA HandoffNext ==
  ASSUME TypeOK, HandoffInv, [Next]_vars
  PROVE  HandoffInv'
<1>0. EngineTypeOK /\ StoreTypeOK
  BY DEF TypeOK
<1>1. ASSUME NEW e \in Engine, EngineAct(e)
      PROVE  HandoffInv'
  BY <1>1, HandoffEngineStep DEF EngineAct
<1>2. SUFFICES ASSUME \A e \in Engine : ~EngineAct(e)
               PROVE  /\ CompletesNothing
                      /\ \A e \in Engine : pc'[e] = "record" => pc[e] = "record"
                           /\ at'[e] = at[e] /\ att'[e] = att[e]
  BY <1>1, CompletesNothingKeeps DEF HandoffInv, CompletesNothing
<1> USE DEF CompletesNothing, EngineTypeOK, StoreTypeOK, Goto, Read, storeVars, jobVars, taskVars,
            engineVars, localVars
<1>3. ASSUME NEW e \in Engine, StartCommand(e)
      PROVE  /\ CompletesNothing
             /\ \A d \in Engine : pc'[d] = "record" => pc[d] = "record"
                  /\ at'[d] = at[d] /\ att'[d] = att[d]
  BY <1>0, <1>3 DEF StartCommand
<1>4. ASSUME NEW e \in Engine, DiesLeaving(e)
      PROVE  /\ CompletesNothing
             /\ \A d \in Engine : pc'[d] = "record" => pc[d] = "record"
                  /\ at'[d] = at[d] /\ att'[d] = att[d]
  BY <1>0, <1>4 DEF DiesLeaving, Gone, AgentLeaves
<1>5. CASE StopCommand \/ StopReadsJob \/ StopMarksJob \/ StopListsTasks
  BY <1>5 DEF StopCommand, StopReadsJob, StopMarksJob, StopListsTasks
<1>6. CASE StopMarksTask
  BY <1>0, <1>6 DEF StopMarksTask, MarkTaskStopped, SetTask
<1>7. CASE StopKills
  BY <1>0, <1>4, <1>7 DEF StopKills, Alive, TypeOK
<1>8. CASE \E r \in Reader : ReaderLoads(r) \/ ReaderReconciles(r)
  BY <1>8 DEF ReaderLoads, ReaderReconciles
<1>9. CASE UNCHANGED vars
  BY <1>9 DEF vars
<1> QED  BY <1>2, <1>3, <1>4, <1>5, <1>6, <1>7, <1>8, <1>9 DEF Next, Crash

\* A COMPLETED task always has its winning handoff on disk, for every plan, and
\* for engines that race, crash and are stopped at any point: a resume never has
\* to start a task without the handoff of the one before it.
THEOREM HandoffOnDisk == Spec => []HandoffBeforeCompleted
<1>1. Init => HandoffInv
  BY DEF Init, StoreInit, EngineInit, HandoffInv, HandoffBeforeCompleted, Completed
<1>2. HandoffInv => HandoffBeforeCompleted
  BY DEF HandoffInv
<1> QED  BY <1>1, <1>2, TypeCorrect, HandoffNext, PTL DEF Spec
-----------------------------------------------------------------------------
(* One engine at a time.                                                   *)

\* The job's pid is the working engine's; an engine that got past the pid check
\* is the only one, and so is the one that is starting.
SoleInv ==
  /\ \A d \in Engine : pc[d] \in Working => jobPid = d
  /\ \A d, e \in Engine : pc[d] \in {"close", "mark"} => pc[e] \notin Working
  /\ \A d, e \in Engine : pc[d] \in Starting /\ pc[e] \in Starting => d = e

\* What an engine's step may do to its own place and to the job's pid.
LEMMA SoleMoves ==
  ASSUME TypeOK, NEW e \in Engine, EngineStep(e)
  PROVE  \/ TakeOver(e)
         \/ /\ jobPid' = jobPid
            /\ pc'[e] \in Working => pc[e] \in Working
            /\ pc'[e] \in Starting => pc[e] \in Starting
            /\ pc'[e] \in {"close", "mark"} =>
                 pc[e] \in {"close", "mark"} \/ (pc[e] = "load" /\ ~OtherEngine(e))
<1>0. EngineTypeOK
  BY DEF TypeOK
<1> USE DEF EngineTypeOK, Goto, Read, storeVars, jobVars, Working, Starting
<1>1. CASE LoadJob(e)
  BY <1>0, <1>1 DEF LoadJob, Reconcile
<1>2. CASE PlanUnreadable(e)
  BY <1>0, <1>2 DEF PlanUnreadable
<1>3. CASE CloseInterrupted(e)
  BY <1>0, <1>3 DEF CloseInterrupted
<1>4. CASE HookCheck(e)
  BY <1>0, <1>4 DEF HookCheck, StopCheck, Reconcile
<1>5. CASE HookStart(e)
  BY <1>0, <1>5 DEF HookStart
<1>6. CASE HookPasses(e)
  BY <1>0, <1>6 DEF HookPasses, HookReturns
<1>7. CASE PlanHookFails(e)
  BY <1>0, <1>7 DEF PlanHookFails, HookReturns
<1>8. CASE PreTaskHookFails(e)
  BY <1>0, <1>8 DEF PreTaskHookFails, HookReturns
<1>9. CASE PostTaskHookRetries(e)
  BY <1>0, <1>9 DEF PostTaskHookRetries, HookReturns
<1>10. CASE PostTaskHookFails(e)
  BY <1>0, <1>10 DEF PostTaskHookFails, HookReturns
<1>11. CASE HooksDone(e)
  BY <1>0, <1>11 DEF HooksDone, AfterHooks, Phase
<1>12. CASE TasksDone(e)
  BY <1>0, <1>12 DEF TasksDone, RunHooks
<1>13. CASE NextTask(e)
  BY <1>0, <1>13 DEF NextTask, StopCheck, Reconcile
<1>14. CASE BeginTask(e)
  BY <1>0, <1>14 DEF BeginTask, Reconcile
<1>15. CASE StartAttempt(e)
  BY <1>0, <1>15 DEF StartAttempt
<1>16. CASE AgentSucceeds(e)
  BY <1>0, <1>16 DEF AgentSucceeds, RunHooks
<1>17. CASE AgentFails(e)
  BY <1>0, <1>17 DEF AgentFails
<1>18. CASE AgentHitsLimit(e)
  BY <1>0, <1>18 DEF AgentHitsLimit
<1>19. CASE UsageLimited(e)
  BY <1>0, <1>19 DEF UsageLimited, MarkTaskUsageLimited
<1>20. CASE RetryTask(e)
  BY <1>0, <1>20 DEF RetryTask
<1>21. CASE CommitTask(e)
  BY <1>0, <1>21 DEF CommitTask
<1>22. CASE PersistHandoff(e)
  BY <1>0, <1>22 DEF PersistHandoff
<1>23. CASE RecordTask(e)
  BY <1>0, <1>23 DEF RecordTask
<1>24. CASE StashWork(e)
  BY <1>0, <1>24 DEF StashWork
<1>25. CASE FailTask(e)
  BY <1>0, <1>25 DEF FailTask
<1>26. CASE FinishJob(e)
  BY <1>0, <1>26 DEF FinishJob, MarkJob
<1>27. CASE Exit(e)
  BY <1>0, <1>27 DEF Exit, Gone
<1> QED  BY <1>1, <1>2, <1>3, <1>4, <1>5, <1>6, <1>7, <1>8, <1>9, <1>10, <1>11, <1>12, <1>13, <1>14, <1>15, <1>16, <1>17, <1>18, <1>19, <1>20, <1>21, <1>22, <1>23, <1>24, <1>25, <1>26, <1>27 DEF EngineStep

LEMMA SoleNext ==
  ASSUME SerialCommands, TypeOK, SoleInv, [Next]_vars
  PROVE  SoleInv'
<1>0. EngineTypeOK
  BY DEF TypeOK
<1>1. ASSUME NEW e \in Engine, EngineAct(e)
      PROVE  SoleInv'
  <2>1. EngineStep(e) /\ \A d \in Engine : d # e => pc'[d] = pc[d]
    BY <1>0, <1>1, Frame DEF EngineAct
  <2>2. CASE TakeOver(e)
    <3>1. pc[e] = "mark" /\ pc'[e] = "hook" /\ jobPid' = e
      BY <1>0, <2>2 DEF TakeOver, MarkJobRunning, RunHooks, Goto, EngineTypeOK
    <3> QED  BY <2>1, <3>1 DEF SoleInv, Starting, Working
  <2>3. CASE ~TakeOver(e)
    <3>1. \A d \in Engine : pc[e] = "load" /\ ~OtherEngine(e) => pc[d] \notin Working
      BY NoPidAssumption DEF SoleInv, OtherEngine, Alive, Starting, Working
    <3> QED  BY <2>1, <2>3, <3>1, SoleMoves DEF SoleInv, Starting, Working
  <2> QED  BY <2>2, <2>3
<1>2. ASSUME NEW e \in Engine, StartCommand(e)
      PROVE  SoleInv'
  <2>1. /\ pc' = [pc EXCEPT ![e] = "load"] /\ jobPid' = jobPid
        /\ \A d \in Engine : pc[d] \notin Starting
    BY <1>2 DEF StartCommand, Goto, Reconcile, Engines
  <2> QED  BY <1>0, <2>1 DEF SoleInv, EngineTypeOK, Starting, Working
<1>3. ASSUME NEW e \in Engine, DiesLeaving(e)
      PROVE  SoleInv'
  <2>1. pc' = [pc EXCEPT ![e] = "off"] /\ jobPid' = jobPid
    BY <1>3 DEF DiesLeaving, Gone, Goto, jobVars
  <2> QED  BY <1>0, <2>1 DEF SoleInv, EngineTypeOK, Starting, Working
<1>4. CASE UNCHANGED <<pc, jobPid>>
  BY <1>4 DEF SoleInv
<1>5. ASSUME NEW r \in Reader, ReaderLoads(r) \/ ReaderReconciles(r)
      PROVE  UNCHANGED <<pc, jobPid>>
  BY <1>5 DEF ReaderLoads, ReaderReconciles, MarkJob, Read, storeVars, jobVars, engineVars
<1>6. CASE StopCommand \/ StopReadsJob \/ StopMarksJob \/ StopListsTasks \/ StopMarksTask
  BY <1>4, <1>6 DEF StopCommand, StopReadsJob, StopMarksJob, StopListsTasks, StopMarksTask,
                    Reconcile, MarkJob, Read, storeVars, jobVars, engineVars
<1>7. CASE StopKills
  <2>1. CASE Alive(stopPid) /\ DiesLeaving(stopPid)
    BY <1>3, <2>1 DEF Alive, TypeOK
  <2>2. CASE UNCHANGED <<Read, engineVars>>
    BY <1>4, <2>2 DEF Read, storeVars, jobVars, engineVars
  <2> QED  BY <1>7, <2>1, <2>2 DEF StopKills
<1>8. CASE UNCHANGED vars
  BY <1>4, <1>8 DEF vars, storeVars, jobVars, engineVars
<1> QED  BY <1>1, <1>2, <1>3, <1>4, <1>5, <1>6, <1>7, <1>8 DEF Next, Crash

LEMMA SoleInit == Init => SoleInv
BY DEF Init, StoreInit, EngineInit, SoleInv, Starting, Working

\* No two engines work on the checkout at once, however many are started, killed
\* in vain or crash, as long as starts and stops are not issued concurrently.
THEOREM SoleEngine ==
  ASSUME SerialCommands
  PROVE  Spec => []OneEngine
<1>1. SoleInv => OneEngine
  BY DEF SoleInv, OneEngine
<1>2. TypeOK /\ SoleInv /\ [Next]_vars => SoleInv'
  BY SoleNext
<1> QED  BY <1>1, <1>2, SoleInit, TypeCorrect, PTL DEF Spec
-----------------------------------------------------------------------------
(* The usage limit.                                                        *)

\* While the reason stands, the job is STOPPED and no engine is at work that
\* could write over it.
LimitInv ==
  stopReason = "usage_limit" =>
    jobStatus = "stopped" /\ \A e \in Engine : pc[e] \notin Working

\* The steps that may set the reason, clear it, or write the status unasked.
LimitMoves(e) == TakeOver(e) \/ UsageLimited(e) \/ FinishJob(e)

\* Every other step of an engine leaves the reason alone, and a STOPPED status.
LEMMA LimitFrame ==
  ASSUME TypeOK, NEW e \in Engine, EngineStep(e), ~LimitMoves(e)
  PROVE  stopReason' = stopReason /\ (jobStatus = "stopped" => jobStatus' = "stopped")
<1> USE DEF Read, storeVars, jobVars
<1>1. CASE LoadJob(e)
  BY <1>1 DEF LoadJob, Reconcile, Reconciled
<1>2. CASE PlanUnreadable(e)
  BY <1>2 DEF PlanUnreadable
<1>3. CASE CloseInterrupted(e)
  BY <1>3 DEF CloseInterrupted
<1>4. CASE HookCheck(e)
  BY <1>4 DEF HookCheck, StopCheck, Reconcile, Reconciled
<1>5. CASE HookStart(e)
  BY <1>5 DEF HookStart
<1>6. CASE HookPasses(e)
  BY <1>6 DEF HookPasses, HookReturns
<1>7. CASE PlanHookFails(e)
  BY <1>7 DEF PlanHookFails, HookReturns
<1>8. CASE PreTaskHookFails(e)
  BY <1>8 DEF PreTaskHookFails, HookReturns
<1>9. CASE PostTaskHookRetries(e)
  BY <1>9 DEF PostTaskHookRetries, HookReturns
<1>10. CASE PostTaskHookFails(e)
  BY <1>10 DEF PostTaskHookFails, HookReturns
<1>11. CASE HooksDone(e)
  BY <1>11 DEF HooksDone
<1>12. CASE TasksDone(e)
  BY <1>12 DEF TasksDone
<1>13. CASE NextTask(e)
  BY <1>13 DEF NextTask, StopCheck, Reconcile, Reconciled
<1>14. CASE BeginTask(e)
  BY <1>14 DEF BeginTask, Reconcile, Reconciled
<1>15. CASE StartAttempt(e)
  BY <1>15 DEF StartAttempt
<1>16. CASE AgentSucceeds(e)
  BY <1>16 DEF AgentSucceeds
<1>17. CASE AgentFails(e)
  BY <1>17 DEF AgentFails
<1>18. CASE AgentHitsLimit(e)
  BY <1>18 DEF AgentHitsLimit
<1>19. CASE RetryTask(e)
  BY <1>19 DEF RetryTask
<1>20. CASE CommitTask(e)
  BY <1>20 DEF CommitTask
<1>21. CASE PersistHandoff(e)
  BY <1>21 DEF PersistHandoff
<1>22. CASE RecordTask(e)
  BY <1>22 DEF RecordTask
<1>23. CASE StashWork(e)
  BY <1>23 DEF StashWork
<1>24. CASE FailTask(e)
  BY <1>24 DEF FailTask
<1>25. CASE Exit(e)
  BY <1>25 DEF Exit, Gone
<1> QED  BY <1>1, <1>2, <1>3, <1>4, <1>5, <1>6, <1>7, <1>8, <1>9, <1>10, <1>11, <1>12, <1>13, <1>14, <1>15, <1>16, <1>17, <1>18, <1>19, <1>20, <1>21, <1>22, <1>23, <1>24, <1>25 DEF EngineStep, LimitMoves

LEMMA LimitNext ==
  ASSUME Reader = {}, TypeOK, SoleInv, LimitInv, [Next]_vars
  PROVE  LimitInv'
<1>0. EngineTypeOK
  BY DEF TypeOK
<1>1. ASSUME NEW e \in Engine, EngineAct(e)
      PROVE  LimitInv'
  <2>1. EngineStep(e) /\ \A d \in Engine : d # e => pc'[d] = pc[d]
    BY <1>0, <1>1, Frame DEF EngineAct
  <2>2. CASE TakeOver(e)
    BY <2>2 DEF TakeOver, MarkJobRunning, LimitInv
  <2>3. CASE UsageLimited(e)
    <3>1. jobStatus' = "stopped" /\ pc[e] = "limited" /\ pc'[e] = "exit"
      BY <1>0, <2>3 DEF UsageLimited, MarkTaskUsageLimited, Goto, EngineTypeOK
    <3>2. \A d \in Engine : d # e => pc'[d] \notin Working
      BY <2>1, <3>1 DEF SoleInv, Working
    <3> QED  BY <3>1, <3>2 DEF LimitInv, Working
  <2>4. CASE FinishJob(e)
    <3>1. pc[e] \in Working /\ stopReason' = stopReason
      BY <2>4 DEF FinishJob, MarkJob, Working
    <3> QED  BY <3>1 DEF LimitInv
  <2>5. CASE ~LimitMoves(e)
    <3>1. pc'[e] \in Working => pc[e] \in Working
      BY <2>1, <2>5, SoleMoves DEF LimitMoves
    <3> QED  BY <2>1, <2>5, <3>1, LimitFrame DEF LimitInv
  <2> QED  BY <2>2, <2>3, <2>4, <2>5 DEF LimitMoves
<1>2. ASSUME NEW e \in Engine, StartCommand(e)
      PROVE  LimitInv'
  BY <1>0, <1>2 DEF StartCommand, Reconcile, Reconciled, Goto, EngineTypeOK, LimitInv, Working
<1>3. ASSUME NEW e \in Engine, DiesLeaving(e)
      PROVE  LimitInv'
  BY <1>0, <1>3 DEF DiesLeaving, Gone, Goto, EngineTypeOK, LimitInv, Working, jobVars
<1>4. CASE StopCommand
  BY <1>4 DEF StopCommand, Reconcile, Reconciled, LimitInv, engineVars
<1>5. CASE StopReadsJob \/ StopMarksJob \/ StopListsTasks \/ StopMarksTask
  BY <1>5 DEF StopReadsJob, StopMarksJob, StopListsTasks, StopMarksTask, MarkJob, LimitInv,
              Read, storeVars, jobVars, engineVars
<1>6. CASE StopKills
  <2>1. CASE Alive(stopPid) /\ DiesLeaving(stopPid)
    BY <1>3, <2>1 DEF Alive, TypeOK
  <2>2. CASE UNCHANGED <<Read, engineVars>>
    BY <2>2 DEF LimitInv, Read, storeVars, jobVars, engineVars
  <2> QED  BY <1>6, <2>1, <2>2 DEF StopKills
<1>7. CASE UNCHANGED vars
  BY <1>7 DEF LimitInv, vars, storeVars, jobVars, engineVars
<1> QED  BY <1>1, <1>2, <1>3, <1>4, <1>5, <1>6, <1>7 DEF Next, Crash

\* A usage limit's stop and its reason survive every engine, stop and crash until
\* the job is started again, when nobody reads the job meanwhile. (With a reader
\* it does not: a reconcile that read a dead pid writes FAILED over it.)
THEOREM LimitSurvives ==
  ASSUME SerialCommands, Reader = {}
  PROVE  Spec => []LimitKept
<1>1. Init => LimitInv
  BY DEF Init, StoreInit, LimitInv
<1>2. LimitInv => LimitKept
  BY DEF LimitInv, LimitKept
<1>3. TypeOK /\ SoleInv /\ [Next]_vars => SoleInv'
  BY SoleNext
<1>4. TypeOK /\ SoleInv /\ LimitInv /\ [Next]_vars => LimitInv'
  BY LimitNext
<1> QED  BY <1>1, <1>2, <1>3, <1>4, SoleInit, TypeCorrect, PTL DEF Spec

-----------------------------------------------------------------------------
(* The rows and the stop of a job whose commands are serial.              *)

Hooking == {"hook", "hookrun", "hookwait"}

\* The constants the pcs are made of, so that they need not be expanded again.
LEMMA Places ==
  /\ Starting = {"load", "close", "mark"}
  /\ Working = Hooking \cup {"next", "begin", "attempt", "agent", "limited", "retry", "commit",
                             "persist", "record", "stash", "failtask", "jobdone", "jobfail"}
BY DEF Starting, Working, Hooking

\* While an engine works, or is about to take the job over, the others have gone
\* nowhere but to the pid check or to their end, where they write no row.
LEMMA OthersAside ==
  ASSUME SoleInv, NEW e \in Engine, EngineStep(e), NEW d \in Engine, d # e,
         pc[d] \in Working \cup {"close", "mark"}
  PROVE  LoadJob(e) \/ Exit(e)
<1>1. pc[e] \notin Working \cup {"close", "mark"}
  BY DEF SoleInv, Starting
<1>2. pc[e] \notin {"close", "mark", "hook", "hookrun", "hookwait", "next", "begin", "attempt",
                    "agent", "limited", "retry", "commit", "persist", "record", "stash",
                    "failtask", "jobdone", "jobfail"}
  BY <1>1 DEF Working
<1> QED
  BY <1>2 DEF EngineStep, PlanUnreadable, CloseInterrupted, TakeOver, HookCheck, HookStart,
      HookPasses, PlanHookFails, PreTaskHookFails, PostTaskHookRetries, PostTaskHookFails,
      HookReturns, HooksDone, TasksDone, NextTask, BeginTask, StartAttempt, AgentSucceeds,
      AgentFails, AgentHitsLimit, UsageLimited, RetryTask, CommitTask, PersistHandoff,
      RecordTask, StashWork, FailTask, FinishJob

-----------------------------------------------------------------------------
(* The rows that are RUNNING.                                              *)

\* Where the attempt row of an engine's task may be RUNNING.
HasRow(e) ==
  \/ pc[e] \in {"agent", "limited", "retry", "commit", "persist", "record", "stash", "failtask"}
  \/ pc[e] \in Hooking /\ phase[e] = "post_task"

NoneRunning == \A t \in Task, a \in Attempt : row[t][a] # "running"

\* The rows of an engine that works, and of one that is about to.
RowsOf(e) ==
  /\ pc[e] \in Working =>
       /\ \A t \in Task, a \in Attempt :
            row[t][a] = "running" => HasRow(e) /\ t = at[e] /\ a = att[e]
       /\ hookOpen \subseteq (IF pc[e] = "hookwait" THEN {HookRow(e)} ELSE {})
  /\ pc[e] = "mark" => NoneRunning /\ hookOpen = {}

RowsInv == \A e \in Engine : RowsOf(e)

\* An engine's own step.
LEMMA OwnRows ==
  ASSUME TypeInv, NEW e \in Engine, RowsOf(e), EngineStep(e)
  PROVE  RowsOf(e)'
<1>0. EngineTypeOK /\ StoreTypeOK /\ (OnTask(e) => at[e] \in Task) /\ at[e] \in 0..NTasks
  BY Members DEF TypeInv, TypeOK, EngineTypeOK, Bounds
<1> USE Places DEF Goto, EngineTypeOK, StoreTypeOK, Hooking, Read, storeVars, jobVars, taskVars, gitVars,
            localVars, lateVars
<1>1. CASE LoadJob(e) \/ PlanUnreadable(e) \/ UsageLimited(e) \/ FinishJob(e) \/ Exit(e)
  <2>1. pc'[e] \in {"off", "exit", "close"}
    BY <1>0, <1>1 DEF LoadJob, PlanUnreadable, UsageLimited, FinishJob, Exit, Gone
  <2> QED  BY <2>1 DEF RowsOf
<1>2. CASE CloseInterrupted(e)
  <2>1. pc'[e] = "mark" /\ NoneRunning' /\ hookOpen' = {}
    BY <1>0, <1>2 DEF CloseInterrupted, CloseInterruptedExecutions, NoneRunning
  <2> QED  BY <2>1 DEF RowsOf
<1>3. CASE TakeOver(e)
  <2>1. pc'[e] = "hook" /\ NoneRunning' /\ hookOpen' = {}
    BY <1>0, <1>3 DEF TakeOver, RunHooks, RowsOf, NoneRunning
  <2> QED  BY <2>1 DEF RowsOf, NoneRunning
<1>4. CASE HookCheck(e) \/ HooksDone(e) \/ AgentSucceeds(e) \/ AgentFails(e) \/ AgentHitsLimit(e)
           \/ CommitTask(e) \/ PersistHandoff(e) \/ StashWork(e)
  <2>1. /\ row' = row /\ hookOpen' = hookOpen /\ at' = at /\ att' = att
        /\ pc[e] \in Working /\ pc[e] # "hookwait" /\ pc'[e] # "hookwait" /\ pc'[e] # "mark"
    BY <1>0, <1>4 DEF HookCheck, StopCheck, HooksDone, AfterHooks, AgentSucceeds, AgentFails,
       AgentHitsLimit, RunHooks, CommitTask, PersistHandoff, StashWork, Phase
  <2>2. HasRow(e) => HasRow(e)' \/ pc'[e] = "exit"
    BY <1>0, <1>4 DEF HookCheck, StopCheck, HooksDone, AfterHooks, AgentSucceeds, AgentFails,
       AgentHitsLimit, RunHooks, CommitTask, PersistHandoff, StashWork, Phase, HasRow
  <2> QED  BY <2>1, <2>2 DEF RowsOf
<1>5. CASE TasksDone(e) \/ NextTask(e) \/ BeginTask(e)
  <2>1. NoneRunning' /\ hookOpen' = {} /\ pc'[e] # "mark"
    BY <1>0, <1>5 DEF TasksDone, RunHooks, NextTask, StopCheck, BeginTask, RowsOf, NoneRunning,
       HasRow
  <2> QED  BY <2>1 DEF RowsOf, NoneRunning
<1>6. CASE HookStart(e)
  <2>1. /\ row' = row /\ at' = at /\ att' = att /\ phase' = phase /\ h' = h
        /\ pc[e] = "hookrun" /\ pc'[e] = "hookwait" /\ hookOpen' = {HookRow(e)}
    BY <1>0, <1>6 DEF HookStart, RowsOf
  <2>2. HookRow(e)' = HookRow(e) /\ (HasRow(e) => HasRow(e)')
    BY <2>1 DEF HookRow, HasRow
  <2> QED  BY <2>1, <2>2 DEF RowsOf
<1>7. CASE HookPasses(e) \/ PlanHookFails(e) \/ PostTaskHookRetries(e) \/ PostTaskHookFails(e)
  <2>1. /\ row' = row /\ at' = at /\ att' = att /\ pc[e] = "hookwait"
        /\ pc'[e] \in {"hook", "jobfail", "retry", "stash"} /\ hookOpen' = {}
    BY <1>0, <1>7 DEF HookPasses, PlanHookFails, PostTaskHookRetries, PostTaskHookFails,
       HookReturns, RowsOf
  <2>2. HasRow(e) => HasRow(e)'
    BY <1>0, <1>7 DEF HookPasses, PlanHookFails, PostTaskHookRetries, PostTaskHookFails,
       HookReturns, HasRow
  <2> QED  BY <2>1, <2>2 DEF RowsOf
<1>8. CASE PreTaskHookFails(e)
  <2>1. NoneRunning' /\ hookOpen' = {} /\ pc'[e] = "failtask"
    BY <1>0, <1>8 DEF PreTaskHookFails, HookReturns, RowsOf, NoneRunning, HasRow
  <2> QED  BY <2>1 DEF RowsOf, NoneRunning
<1>9. CASE StartAttempt(e)
  <2>1. /\ \A t \in Task, a \in Attempt : row'[t][a] = "running" => t = at[e] /\ a = att[e]
        /\ at' = at /\ att' = att /\ hookOpen' = {} /\ pc'[e] = "agent"
    BY <1>0, <1>9 DEF StartAttempt, MarkRunning, SetRow, RowsOf, HasRow
  <2> QED  BY <2>1 DEF RowsOf, HasRow
<1>10. CASE RetryTask(e) \/ RecordTask(e) \/ FailTask(e)
  <2>1. at[e] \in Task /\ att[e] \in Attempt
    BY <1>0, <1>10 DEF RetryTask, RecordTask, FailTask, OnTask, InTask
  <2>2. /\ \A t \in Task, a \in Attempt : row[t][a] = "running" => t = at[e] /\ a = att[e]
        /\ hookOpen = {}
    BY <1>10 DEF RetryTask, RecordTask, FailTask, RowsOf
  <2>3. /\ \E s \in {"failed", "completed"} : SetRow(at[e], att[e], s)
        /\ hookOpen' = hookOpen /\ pc'[e] # "mark"
    BY <1>0, <1>10 DEF RetryTask, RecordAttempt, RecordTask, RecordCompleted, FailTask,
       MarkTaskFailed
  <2>4. NoneRunning'
    BY <1>0, <2>1, <2>2, <2>3 DEF SetRow, NoneRunning
  <2> QED  BY <2>2, <2>3, <2>4 DEF RowsOf, NoneRunning
<1> QED
  BY <1>1, <1>2, <1>3, <1>4, <1>5, <1>6, <1>7, <1>8, <1>9, <1>10 DEF EngineStep

\* An engine's place, task, attempt and hook, and the rows, as they were.
SameRows(e) ==
  /\ pc'[e] = pc[e] /\ at'[e] = at[e] /\ att'[e] = att[e] /\ phase'[e] = phase[e] /\ h'[e] = h[e]
  /\ row' = row /\ hookOpen' = hookOpen

LEMMA SameRowsKeep == ASSUME NEW e \in Engine, RowsOf(e), SameRows(e) PROVE RowsOf(e)'
BY DEF RowsOf, SameRows, HasRow, HookRow, NoneRunning

LEMMA RowsNext == ASSUME TypeInv, SoleInv, RowsInv, [Next]_vars PROVE RowsInv'
<1>0. EngineTypeOK
  BY DEF TypeInv, TypeOK
<1> SUFFICES ASSUME NEW d \in Engine
             PROVE  RowsOf(d)'
  BY DEF RowsInv
<1>a. RowsOf(d)
  BY DEF RowsInv
<1> USE Places DEF storeVars, jobVars, taskVars, gitVars, engineVars, localVars, lateVars, Read
<1>1. ASSUME NEW e \in Engine, EngineAct(e)
      PROVE  RowsOf(d)'
  <2>1. EngineStep(e)
    BY <1>1 DEF EngineAct
  <2>2. CASE d = e
    BY <1>a, <2>1, <2>2, OwnRows
  <2>3. CASE d # e
    <3>1. /\ pc'[d] = pc[d] /\ at'[d] = at[d] /\ phase'[d] = phase[d] /\ h'[d] = h[d]
          /\ att'[d] = att[d]
      BY <1>0, <2>1, <2>3, Frame
    <3>2. CASE pc[d] \in Working \cup {"close", "mark"}
      <4>1. row' = row /\ hookOpen' = hookOpen
        BY <2>1, <2>3, <3>2, OthersAside DEF LoadJob, Exit
      <4> QED  BY <1>a, <3>1, <4>1, SameRowsKeep DEF SameRows
    <3>3. CASE pc[d] \notin Working \cup {"close", "mark"}
      BY <3>1, <3>3 DEF RowsOf
    <3> QED  BY <3>2, <3>3
  <2> QED  BY <2>2, <2>3
<1>2. ASSUME NEW e \in Engine, StartCommand(e) \/ DiesLeaving(e), UNCHANGED <<row, hookOpen>>
      PROVE  RowsOf(d)'
  <2>1. CASE d = e
    <3>1. pc'[e] \in {"off", "load"}
      BY <1>0, <1>2 DEF StartCommand, DiesLeaving, Gone, Goto, EngineTypeOK
    <3> QED  BY <2>1, <3>1 DEF RowsOf, Hooking
  <2>2. CASE d # e
    <3>1. SameRows(d)
      BY <1>0, <1>2, <2>2 DEF StartCommand, DiesLeaving, Gone, Goto, EngineTypeOK, SameRows
    <3> QED  BY <1>a, <3>1, SameRowsKeep
  <2> QED  BY <2>1, <2>2
<1>3. ASSUME UNCHANGED engineVars, UNCHANGED <<row, hookOpen>>
      PROVE  RowsOf(d)'
  BY <1>a, <1>3, SameRowsKeep DEF SameRows
<1>4. CASE \E e \in Engine : StartCommand(e) \/ Crash(e)
  BY <1>2, <1>4 DEF StartCommand, Crash, DiesLeaving
<1>5. CASE StopCommand \/ StopReadsJob \/ StopMarksJob \/ StopListsTasks \/ StopMarksTask
  BY <1>3, <1>5 DEF StopCommand, StopReadsJob, StopMarksJob, StopListsTasks, StopMarksTask,
     MarkTaskStopped
<1>6. CASE StopKills
  <2>1. CASE Alive(stopPid) /\ DiesLeaving(stopPid)
    <3>1. stopPid \in Engine
      BY <2>1 DEF Alive, TypeInv, TypeOK
    <3> QED  BY <1>2, <2>1, <3>1 DEF DiesLeaving
  <2>2. CASE UNCHANGED <<Read, engineVars>>
    BY <1>3, <2>2
  <2> QED  BY <1>6, <2>1, <2>2 DEF StopKills
<1>7. CASE \E r \in Reader : ReaderLoads(r) \/ ReaderReconciles(r)
  BY <1>3, <1>7 DEF ReaderLoads, ReaderReconciles
<1>8. CASE UNCHANGED vars
  BY <1>3, <1>8 DEF vars
<1> QED  BY <1>1, <1>4, <1>5, <1>6, <1>7, <1>8 DEF Next

LEMMA SoleAlways == ASSUME SerialCommands PROVE Spec => []SoleInv
<1>1. SoleInv /\ TypeOK /\ [Next]_vars => SoleInv'
  BY SerialCommands, SoleNext
<1> QED  BY <1>1, SoleInit, TypeCorrect, PTL DEF Spec

\* With serial commands, once an engine took the job over no row of an earlier run
\* is RUNNING, hooks included: for any plan, hooks, crashes and failed kills.
THEOREM RowsStayOwned == ASSUME SerialCommands PROVE Spec => []RowsOwned
<1>1. Init => RowsInv
  BY DEF Init, StoreInit, EngineInit, RowsInv, RowsOf, Working
<1>2. RowsInv /\ TypeInv /\ SoleInv /\ [Next]_vars => RowsInv'
  BY RowsNext
<1>3. RowsInv => RowsOwned
  BY DEF RowsInv, RowsOf, RowsOwned
<1> QED  BY <1>1, <1>2, <1>3, TypeInvariant, SoleAlways, SerialCommands, PTL DEF Spec

-----------------------------------------------------------------------------
(* The stop.                                                               *)

\* A step of one engine leaves alone what the others loaded, carry and count.
LEMMA FrameRest ==
  ASSUME EngineTypeOK, NEW e \in Engine, EngineStep(e), NEW d \in Engine, d # e
  PROVE  /\ snapDone'[d] = snapDone[d] /\ snapRetries'[d] = snapRetries[d] /\ hand'[d] = hand[d]
         /\ lateTasks'[d] = lateTasks[d] /\ lateHooks'[d] = lateHooks[d]
<1> USE DEF EngineTypeOK, Read, localVars, lateVars
<1>1. CASE LoadJob(e) \/ PlanUnreadable(e) \/ CloseInterrupted(e) \/ TakeOver(e)
  BY <1>1 DEF LoadJob, PlanUnreadable, CloseInterrupted, TakeOver
<1>2. CASE HookCheck(e) \/ HookStart(e) \/ HookPasses(e) \/ PlanHookFails(e)
           \/ PreTaskHookFails(e) \/ PostTaskHookRetries(e) \/ PostTaskHookFails(e)
           \/ HooksDone(e)
  BY <1>2 DEF HookCheck, HookStart, HookPasses, PlanHookFails, PreTaskHookFails,
     PostTaskHookRetries, PostTaskHookFails, HooksDone, HookReturns
<1>3. CASE TasksDone(e) \/ NextTask(e) \/ BeginTask(e) \/ StartAttempt(e)
  BY <1>3 DEF TasksDone, NextTask, BeginTask, StartAttempt
<1>4. CASE AgentSucceeds(e) \/ AgentFails(e) \/ AgentHitsLimit(e) \/ UsageLimited(e)
           \/ RetryTask(e)
  BY <1>4 DEF AgentSucceeds, AgentFails, AgentHitsLimit, UsageLimited, RetryTask
<1>5. CASE CommitTask(e) \/ PersistHandoff(e) \/ RecordTask(e) \/ StashWork(e) \/ FailTask(e)
           \/ FinishJob(e) \/ Exit(e)
  BY <1>5 DEF CommitTask, PersistHandoff, RecordTask, StashWork, FailTask, FinishJob, Exit, Gone
<1> QED  BY <1>1, <1>2, <1>3, <1>4, <1>5 DEF EngineStep

\* Where an engine works the job stays STOPPED until that engine's last write:
\* what lets it notice the stop, however late it looks.
LEMMA StoppedStays ==
  ASSUME TypeInv, SoleInv, Reader = {}, [Next]_vars,
         NEW d \in Engine, pc[d] \in Working, jobStatus = "stopped", ~FinishJob(d)
  PROVE  jobStatus' = "stopped"
<1>0. TypeOK /\ EngineTypeOK
  BY DEF TypeInv, TypeOK
<1> USE DEF storeVars, jobVars, Read
<1>1. ASSUME NEW e \in Engine, EngineAct(e)
      PROVE  jobStatus' = "stopped"
  <2>1. EngineStep(e)
    BY <1>1 DEF EngineAct
  <2>2. CASE d = e
    <3>1. ~TakeOver(e)
      BY <2>2 DEF TakeOver, Working
    <3>2. CASE UsageLimited(e)
      BY <3>2 DEF UsageLimited, MarkTaskUsageLimited
    <3> QED  BY <1>0, <2>1, <2>2, <3>1, <3>2, LimitFrame DEF LimitMoves
  <2>3. CASE d # e
    BY <2>1, <2>3, OthersAside DEF LoadJob, Exit, Reconcile, Reconciled
  <2> QED  BY <2>2, <2>3
<1>2. CASE \E e \in Engine : StartCommand(e) \/ Crash(e)
  BY <1>2 DEF StartCommand, Crash, DiesLeaving, Reconcile, Reconciled
<1>3. CASE StopCommand \/ StopReadsJob \/ StopMarksJob \/ StopListsTasks \/ StopMarksTask
           \/ StopKills
  BY <1>3 DEF StopCommand, StopReadsJob, StopMarksJob, StopListsTasks, StopMarksTask, StopKills,
     MarkJob, DiesLeaving, Reconcile, Reconciled
<1>4. CASE UNCHANGED vars
  BY <1>4 DEF vars
<1> QED  BY <1>1, <1>2, <1>3, <1>4 DEF Next

\* What an engine began after its stop: with that it only works on to the next
\* place where it looks.
LateOf(e) ==
  /\ lateTasks[e] \subseteq {at[e]} /\ lateHooks[e] \in {0, 1}
  /\ lateTasks[e] # {} \/ lateHooks[e] # 0
       => pc[e] = "exit" \/ (pc[e] \in Working /\ jobStatus = "stopped")
  /\ lateHooks[e] # 0 => pc[e] # "hookrun"

LateInv == \A e \in Engine : LateOf(e)

\* An engine's own step, once it is known what becomes of the status.
LEMMA OwnLate ==
  ASSUME TypeInv, NEW e \in Engine, LateOf(e), EngineStep(e),
         pc[e] \in Working /\ jobStatus = "stopped" /\ ~FinishJob(e) => jobStatus' = "stopped"
  PROVE  LateOf(e)'
<1>0. EngineTypeOK
  BY DEF TypeInv, TypeOK
<1> DEFINE None == lateTasks[e] = {} /\ lateHooks[e] = 0
<1> USE Places DEF EngineTypeOK, Goto, Hooking, Read, localVars, lateVars
<1>1. CASE Exit(e)
  BY <1>0, <1>1 DEF Exit, Gone, LateOf
<1>2. CASE LoadJob(e) \/ PlanUnreadable(e) \/ CloseInterrupted(e) \/ TakeOver(e)
  <2>1. /\ None /\ lateTasks' = lateTasks /\ lateHooks' = lateHooks
    BY <1>2 DEF LoadJob, PlanUnreadable, CloseInterrupted, TakeOver, LateOf
  <2> QED  BY <2>1 DEF LateOf
<1>3. CASE HookStart(e)
  <2>1. /\ lateHooks[e] = 0 /\ lateTasks' = lateTasks /\ at' = at /\ pc[e] = "hookrun"
        /\ pc'[e] = "hookwait" /\ lateHooks'[e] = IF jobStatus = "stopped" THEN 1 ELSE 0
        /\ jobStatus' = jobStatus
    BY <1>0, <1>3 DEF HookStart, LateOf, jobVars
  <2> QED  BY <1>0, <2>1 DEF LateOf
<1>4. CASE StartAttempt(e)
  <2>1. /\ lateHooks' = lateHooks /\ at' = at /\ pc'[e] = "agent" /\ pc[e] = "attempt"
        /\ lateTasks'[e] = IF jobStatus = "stopped" THEN lateTasks[e] \cup {at[e]} ELSE lateTasks[e]
        /\ jobStatus' = jobStatus
    BY <1>0, <1>4 DEF StartAttempt, jobVars
  <2> QED  BY <1>0, <2>1 DEF LateOf
<1>5. CASE HookCheck(e) \/ NextTask(e)
  <2>1. /\ lateTasks' = lateTasks /\ lateHooks' = lateHooks /\ pc[e] \in Working
        /\ jobStatus = "stopped" => pc'[e] = "exit" /\ at'[e] = at[e]
    BY <1>0, <1>5 DEF HookCheck, NextTask, StopCheck
  <2> QED  BY <2>1 DEF LateOf
<1>6. CASE HookPasses(e) \/ PlanHookFails(e) \/ PreTaskHookFails(e) \/ PostTaskHookRetries(e)
           \/ PostTaskHookFails(e) \/ HooksDone(e)
  <2>1. /\ lateTasks' = lateTasks /\ lateHooks' = lateHooks /\ at' = at /\ ~FinishJob(e)
        /\ pc[e] \in Working /\ pc'[e] \in Working /\ pc'[e] # "hookrun"
    BY <1>0, <1>6 DEF HookPasses, PlanHookFails, PreTaskHookFails, PostTaskHookRetries,
       PostTaskHookFails, HookReturns, HooksDone, AfterHooks, Phase, FinishJob
  <2> QED  BY <2>1 DEF LateOf
<1>7. CASE TasksDone(e) \/ BeginTask(e) \/ AgentSucceeds(e) \/ AgentFails(e) \/ AgentHitsLimit(e)
           \/ RetryTask(e) \/ CommitTask(e) \/ PersistHandoff(e) \/ RecordTask(e) \/ StashWork(e)
           \/ FailTask(e)
  <2>1. /\ lateTasks' = lateTasks /\ lateHooks' = lateHooks /\ at' = at /\ ~FinishJob(e)
        /\ pc[e] \in Working /\ pc'[e] \in Working /\ pc'[e] # "hookrun"
    BY <1>0, <1>7 DEF TasksDone, RunHooks, BeginTask, AgentSucceeds, AgentFails, AgentHitsLimit,
       RetryTask, CommitTask, PersistHandoff, RecordTask, StashWork, FailTask, FinishJob
  <2> QED  BY <2>1 DEF LateOf
<1>8. CASE UsageLimited(e) \/ FinishJob(e)
  <2>1. lateTasks' = lateTasks /\ lateHooks' = lateHooks /\ at' = at /\ pc'[e] = "exit"
    BY <1>0, <1>8 DEF UsageLimited, FinishJob
  <2> QED  BY <2>1 DEF LateOf
<1> QED  BY <1>1, <1>2, <1>3, <1>4, <1>5, <1>6, <1>7, <1>8 DEF EngineStep

\* A step that leaves an engine where it is, with the job's status or after its end.
LEMMA LateKept ==
  ASSUME NEW e \in Engine, LateOf(e), pc'[e] = pc[e], at'[e] = at[e],
         lateTasks'[e] = lateTasks[e], lateHooks'[e] = lateHooks[e],
         pc[e] \in Working /\ jobStatus = "stopped" => jobStatus' = "stopped"
  PROVE  LateOf(e)'
BY DEF LateOf

LEMMA LateNext ==
  ASSUME TypeInv, SoleInv, Reader = {}, LateInv, [Next]_vars
  PROVE  LateInv'
<1>0. EngineTypeOK
  BY DEF TypeInv, TypeOK
<1> SUFFICES ASSUME NEW d \in Engine
             PROVE  LateOf(d)'
  BY DEF LateInv
<1>a. LateOf(d) /\ (pc[d] \in Working /\ jobStatus = "stopped" /\ ~FinishJob(d)
                      => jobStatus' = "stopped")
  BY StoppedStays DEF LateInv
<1> USE DEF engineVars, localVars, lateVars, Read
<1>1. ASSUME NEW e \in Engine, EngineAct(e)
      PROVE  LateOf(d)'
  <2>1. EngineStep(e)
    BY <1>1 DEF EngineAct
  <2>2. CASE d = e
    BY <1>a, <2>1, <2>2, OwnLate
  <2>3. CASE d # e
    <3>1. pc'[d] = pc[d] /\ at'[d] = at[d]
      BY <1>0, <2>1, <2>3, Frame
    <3>2. lateTasks'[d] = lateTasks[d] /\ lateHooks'[d] = lateHooks[d]
      BY <1>0, <2>1, <2>3, FrameRest
    <3>3. ~FinishJob(d)
      BY <1>0, <3>1 DEF FinishJob, Goto, EngineTypeOK
    <3> QED  BY <1>a, <3>1, <3>2, <3>3, LateKept
  <2> QED  BY <2>2, <2>3
<1>2. ASSUME UNCHANGED engineVars
      PROVE  LateOf(d)'
  <2>1. ~FinishJob(d)
    BY <1>0, <1>2 DEF FinishJob, Goto, EngineTypeOK
  <2> QED  BY <1>a, <1>2, <2>1, LateKept
<1>3. ASSUME NEW e \in Engine, DiesLeaving(e)
      PROVE  LateOf(d)'
  <2>1. CASE d = e
    BY <1>0, <1>3, <2>1 DEF DiesLeaving, Gone, EngineTypeOK, LateOf
  <2>2. CASE d # e
    <3>1. /\ pc'[d] = pc[d] /\ at'[d] = at[d]
          /\ lateTasks'[d] = lateTasks[d] /\ lateHooks'[d] = lateHooks[d]
          /\ jobStatus' = jobStatus
      BY <1>0, <1>3, <2>2 DEF DiesLeaving, Gone, Goto, EngineTypeOK, jobVars
    <3> QED  BY <1>a, <3>1, LateKept
  <2> QED  BY <2>1, <2>2
<1>4. ASSUME NEW e \in Engine, StartCommand(e)
      PROVE  LateOf(d)'
  <2>1. CASE d = e
    <3>1. /\ pc[e] = "off" /\ at' = at /\ lateTasks' = lateTasks /\ lateHooks' = lateHooks
      BY <1>4 DEF StartCommand
    <3>2. lateTasks[e] = {} /\ lateHooks[e] = 0
      BY <1>a, <2>1, <3>1 DEF LateOf, Working
    <3> QED  BY <1>a, <2>1, <3>1, <3>2 DEF LateOf
  <2>2. CASE d # e
    <3>1. /\ pc'[d] = pc[d] /\ at' = at /\ lateTasks' = lateTasks /\ lateHooks' = lateHooks
          /\ jobStatus = "stopped" => jobStatus' = "stopped"
      BY <1>0, <1>4, <2>2 DEF StartCommand, Goto, EngineTypeOK, Reconcile, Reconciled
    <3> QED  BY <1>a, <3>1, LateKept
  <2> QED  BY <2>1, <2>2
<1>5. CASE StopCommand \/ StopReadsJob \/ StopMarksJob \/ StopListsTasks \/ StopMarksTask
  BY <1>2, <1>5 DEF StopCommand, StopReadsJob, StopMarksJob, StopListsTasks, StopMarksTask
<1>6. CASE StopKills
  <2>1. CASE Alive(stopPid) /\ DiesLeaving(stopPid)
    BY <1>3, <2>1 DEF Alive, TypeInv, TypeOK
  <2>2. CASE UNCHANGED <<Read, engineVars>>
    BY <1>2, <2>2
  <2> QED  BY <1>6, <2>1, <2>2 DEF StopKills
<1>7. CASE UNCHANGED vars
  BY <1>2, <1>7 DEF vars
<1> QED  BY <1>1, <1>3, <1>4, <1>5, <1>6, <1>7 DEF Next, Crash

\* With serial commands and nobody in the middle of a load, an engine that outlives
\* its stop begins at most one more hook and works on at most one task; how often it
\* tries that task is not bounded here, since a retry does not ask for a stop.
THEOREM StopsAreHeeded ==
  ASSUME SerialCommands, Reader = {}
  PROVE  Spec => []StopHeeded
<1>1. Init => LateInv
  BY DEF Init, EngineInit, LateInv, LateOf
<1>2. LateInv /\ TypeInv /\ SoleInv /\ [Next]_vars => LateInv'
  BY LateNext
<1>3. LateInv => StopHeeded
  <2> SUFFICES ASSUME LateInv, NEW e \in Engine
               PROVE  Cardinality(lateTasks[e]) <= 1 /\ lateHooks[e] <= 1
    BY DEF StopHeeded
  <2>1. lateHooks[e] <= 1
    BY DEF LateInv, LateOf
  <2>2. lateTasks[e] = {} \/ lateTasks[e] = {at[e]}
    BY DEF LateInv, LateOf
  <2>3. Cardinality({}) = 0 /\ Cardinality({at[e]}) = 1
    BY FS_EmptySet, FS_Singleton, Zenon
  <2> QED  BY <2>1, <2>2, <2>3
<1> QED  BY <1>1, <1>2, <1>3, TypeInvariant, SoleAlways, SerialCommands, PTL DEF Spec

-----------------------------------------------------------------------------
(* The order of the tasks, the checkout and the handoffs, when commands    *)
(* are serial and nobody is in the middle of a load.                       *)

\* The COMPLETED tasks that the stop under way will not take back.
Kept == Completed \ stopTodo

\* A stop begins while nobody starts, and marks the tasks of a STOPPED job.
StopInv ==
  /\ stopPc # "idle" => \A e \in Engine : pc[e] \notin Starting
  /\ stopTodo # {} => stopPc = "tasks"
  /\ stopPc \in {"list", "tasks"} =>
       \A e \in Engine : pc[e] \in Working => jobStatus = "stopped"

\* The tasks are done in order: what an engine loaded as COMPLETED stays so, what
\* was completed since is behind it, and so is everything up to its task.
OrderOf(e) ==
  /\ pc[e] \in Working \cup {"close", "mark"} =>
       snapDone[e] \subseteq Kept /\ Completed \subseteq snapDone[e] \cup 1..at[e]
  /\ pc[e] \in {"off"} \cup Starting \/ (pc[e] \in Hooking /\ phase[e] = "pre_plan") => at[e] = 0
  /\ OnTask(e) => at[e] \notin Completed /\ 1..(at[e] - 1) \subseteq Kept
  /\ pc[e] = "next" /\ jobStatus # "stopped" => 1..at[e] \subseteq Kept

OrderInv == StopInv /\ \A e \in Engine : OrderOf(e)

-----------------------------------------------------------------------------
(* The stop.                                                               *)

LEMMA StopNext == ASSUME TypeInv, SoleInv, SerialCommands, Reader = {}, StopInv, [Next]_vars
                  PROVE  StopInv'
<1>0. TypeOK /\ EngineTypeOK
  BY DEF TypeInv, TypeOK
<1> USE Places DEF engineVars, localVars, lateVars, Read, storeVars, jobVars, stopVars
<1>1. ASSUME NEW e \in Engine, EngineAct(e)
      PROVE  StopInv'
  <2>1. EngineStep(e) /\ stopPc' = stopPc /\ stopTodo' = stopTodo
    BY <1>1 DEF EngineAct
  <2>2. \A d \in Engine : d # e => pc'[d] = pc[d]
    BY <1>0, <2>1, Frame
  <2>3. \/ TakeOver(e)
        \/ (pc'[e] \in Working => pc[e] \in Working) /\ (pc'[e] \in Starting => pc[e] \in Starting)
    BY <1>0, <2>1, SoleMoves
  <2>4. CASE TakeOver(e)
    <3>1. pc[e] \in Starting /\ pc'[e] = "hook"
      BY <1>0, <2>4 DEF TakeOver, RunHooks, Goto, EngineTypeOK
    <3>2. stopPc = "idle"
      BY <3>1 DEF StopInv
    <3> QED  BY <2>1, <3>2 DEF StopInv
  <2>5. CASE ~TakeOver(e)
    <3>1. ASSUME NEW d \in Engine, stopPc \in {"list", "tasks"}, pc'[d] \in Working
          PROVE  jobStatus' = "stopped"
      <4>1. pc[d] \in Working
        BY <2>2, <2>3, <2>5, <3>1
      <4>2. ~FinishJob(d)
        BY <1>0, <3>1 DEF FinishJob, Goto, EngineTypeOK, Hooking
      <4> QED  BY <3>1, <4>1, <4>2, StoppedStays DEF StopInv
    <3> QED  BY <2>1, <2>2, <2>3, <2>5, <3>1 DEF StopInv
  <2> QED  BY <2>4, <2>5
<1>2. ASSUME NEW e \in Engine, StartCommand(e)
      PROVE  StopInv'
  BY <1>2, SerialCommands DEF StartCommand, StopInv
<1>3. ASSUME NEW e \in Engine, DiesLeaving(e)
      PROVE  /\ jobStatus' = jobStatus /\ pc'[e] \notin Working \cup Starting
             /\ \A d \in Engine : d # e => pc'[d] = pc[d]
  BY <1>0, <1>3 DEF DiesLeaving, Gone, Goto, EngineTypeOK, Hooking
<1>4. CASE \E e \in Engine : Crash(e)
  BY <1>3, <1>4 DEF Crash, StopInv
<1>5. CASE StopCommand
  BY <1>5, SerialCommands DEF StopCommand, StopInv, Engines
<1>6. CASE StopReadsJob \/ StopMarksJob
  BY <1>6 DEF StopReadsJob, StopMarksJob, MarkJob, StopInv
<1>7. CASE StopListsTasks \/ StopMarksTask
  BY <1>7 DEF StopListsTasks, StopMarksTask, StopInv
<1>8. CASE StopKills
  BY <1>8 DEF StopKills, StopInv
<1>9. CASE UNCHANGED vars
  BY <1>9 DEF vars, StopInv
<1> QED  BY <1>1, <1>2, <1>4, <1>5, <1>6, <1>7, <1>8, <1>9 DEF Next

-----------------------------------------------------------------------------
(* The order.                                                              *)

\* An engine's step completes its task, or leaves what is COMPLETED alone.
LEMMA EngineCompletes ==
  ASSUME TypeInv, NEW e \in Engine, EngineStep(e), OnTask(e) => at[e] \notin Completed
  PROVE  IF RecordTask(e) THEN Completed' = Completed \cup {at[e]} ELSE Completed' = Completed
<1>0. EngineTypeOK /\ StoreTypeOK /\ (OnTask(e) => at[e] \in Task)
  BY Members DEF TypeInv, TypeOK, EngineTypeOK, Bounds
<1> USE DEF EngineTypeOK, StoreTypeOK, Read, storeVars, taskVars, Goto
<1>1. CASE RecordTask(e)
  <2>1. at[e] \in Task /\ taskStatus' = [taskStatus EXCEPT ![at[e]] = "completed"]
    BY <1>0, <1>1 DEF RecordTask, RecordCompleted, SetTask, OnTask, InTask
  <2> QED  BY <1>0, <1>1, <2>1 DEF Completed
<1>2. CASE StartAttempt(e) \/ UsageLimited(e) \/ RetryTask(e) \/ FailTask(e)
  <2>1. /\ OnTask(e) /\ pc[e] # "record"
        /\ \E s \in Status \ {"completed"} : taskStatus' = [taskStatus EXCEPT ![at[e]] = s]
    BY <1>0, <1>2, Members DEF StartAttempt, UsageLimited, RetryTask, FailTask, MarkRunning,
       MarkTaskUsageLimited, RecordAttempt, MarkTaskFailed, SetTask, OnTask, InTask
  <2>2. Completed' = Completed
    BY <1>0, <2>1 DEF Completed
  <2> QED  BY <2>1, <2>2 DEF RecordTask
<1>3. CASE taskStatus' = taskStatus /\ ~RecordTask(e)
  BY <1>3 DEF Completed
<1>4. \/ LoadJob(e) \/ PlanUnreadable(e) \/ CloseInterrupted(e) \/ TakeOver(e)
      \/ HookCheck(e) \/ HookStart(e) \/ HookPasses(e) \/ PlanHookFails(e)
      \/ PreTaskHookFails(e) \/ PostTaskHookRetries(e) \/ PostTaskHookFails(e)
      \/ HooksDone(e) \/ TasksDone(e) \/ NextTask(e) \/ BeginTask(e)
      \/ AgentSucceeds(e) \/ AgentFails(e) \/ AgentHitsLimit(e)
      \/ CommitTask(e) \/ PersistHandoff(e) \/ StashWork(e) \/ FinishJob(e) \/ Exit(e)
      => taskStatus' = taskStatus
  BY DEF LoadJob, PlanUnreadable, CloseInterrupted, CloseInterruptedExecutions, TakeOver,
     HookCheck, StopCheck, HookStart, HookPasses, PlanHookFails, PreTaskHookFails,
     PostTaskHookRetries, PostTaskHookFails, HookReturns, HooksDone, TasksDone, NextTask,
     BeginTask, AgentSucceeds, AgentFails, AgentHitsLimit, CommitTask, PersistHandoff,
     StashWork, FinishJob, Exit
<1> QED  BY <1>1, <1>2, <1>3, <1>4 DEF EngineStep

\* An engine's step changes the attempt of its own task only.
LEMMA EngineRetries ==
  ASSUME TypeInv, NEW e \in Engine, EngineStep(e)
  PROVE  \/ taskRetries' = taskRetries
         \/ OnTask(e) /\ \E r \in Attempt : taskRetries' = [taskRetries EXCEPT ![at[e]] = r]
<1>0. EngineTypeOK /\ att[e] \in Attempt /\ 0 \in Attempt
  BY Members DEF TypeInv, TypeOK, EngineTypeOK
<1> USE DEF Read, storeVars, taskVars
<1>1. CASE \/ StartAttempt(e) \/ UsageLimited(e) \/ RetryTask(e) \/ FailTask(e) \/ RecordTask(e)
  BY <1>0, <1>1 DEF StartAttempt, UsageLimited, RetryTask, FailTask, RecordTask, MarkRunning,
     MarkTaskUsageLimited, RecordAttempt, MarkTaskFailed, RecordCompleted, SetTask, OnTask, InTask
<1>2. CASE LoadJob(e) \/ PlanUnreadable(e) \/ CloseInterrupted(e) \/ TakeOver(e) \/ HookCheck(e)
           \/ HookStart(e) \/ HookPasses(e) \/ PlanHookFails(e) \/ PreTaskHookFails(e)
           \/ PostTaskHookRetries(e) \/ PostTaskHookFails(e) \/ HooksDone(e)
  BY <1>2 DEF LoadJob, PlanUnreadable, CloseInterrupted, CloseInterruptedExecutions, TakeOver,
     HookCheck, StopCheck, HookStart, HookPasses, PlanHookFails, PreTaskHookFails,
     PostTaskHookRetries, PostTaskHookFails, HookReturns, HooksDone
<1>3. CASE TasksDone(e) \/ NextTask(e) \/ BeginTask(e) \/ AgentSucceeds(e) \/ AgentFails(e)
           \/ AgentHitsLimit(e) \/ CommitTask(e) \/ PersistHandoff(e) \/ StashWork(e)
           \/ FinishJob(e) \/ Exit(e)
  BY <1>3 DEF TasksDone, NextTask, StopCheck, BeginTask, AgentSucceeds, AgentFails,
     AgentHitsLimit, CommitTask, PersistHandoff, StashWork, FinishJob, Exit
<1> QED  BY <1>1, <1>2, <1>3 DEF EngineStep

\* An engine that goes on with its task, or works on no task and picks none.
Onward(e) ==
  /\ at'[e] = at[e] /\ snapDone'[e] = snapDone[e]
  /\ pc'[e] \in Working \cup {"close", "mark"} => pc[e] \in Working \cup {"close", "mark"}
  /\ pc'[e] \in {"off"} \cup Starting \/ (pc'[e] \in Hooking /\ phase'[e] = "pre_plan") => at[e] = 0
  /\ OnTask(e)' => OnTask(e)
  /\ pc'[e] = "next" /\ jobStatus' # "stopped" =>
       at[e] = 0 \/ (pc[e] = "next" /\ jobStatus # "stopped")

LEMMA OnwardKeeps ==
  ASSUME NEW e \in Engine, OrderOf(e), Onward(e), at[e] \in Nat,
         Completed' \subseteq Completed, Kept \subseteq Kept'
  PROVE  OrderOf(e)'
BY DEF OrderOf, Onward

\* An engine's own step.
LEMMA OwnOrder ==
  ASSUME TypeInv, StopInv, NEW e \in Engine, OrderOf(e), EngineStep(e), stopTodo' = stopTodo
  PROVE  OrderOf(e)'
<1>0. /\ EngineTypeOK /\ StoreTypeOK /\ (OnTask(e) => at[e] \in Task)
      /\ at[e] \in Nat /\ stopTodo \subseteq Task
  BY Members, NTasksAssumption DEF TypeInv, TypeOK, EngineTypeOK, Bounds
<1>a. IF RecordTask(e) THEN Completed' = Completed \cup {at[e]} ELSE Completed' = Completed
  BY EngineCompletes DEF OrderOf
<1> USE Places DEF EngineTypeOK, Goto, Read, storeVars, localVars, lateVars, Hooking
<1>1. CASE LoadJob(e)
  <2>1. CASE pc'[e] = "exit"
    BY <2>1 DEF OrderOf, OnTask, InTask
  <2>2. CASE pc'[e] # "exit"
    <3>1. pc[e] = "load" /\ pc'[e] = "close" /\ at' = at /\ snapDone'[e] = Completed
          /\ Completed' = Completed
      BY <1>0, <1>1, <2>2, <1>a DEF LoadJob, CompletedOnLoad, Completed, RecordTask
    <3>2. stopTodo = {}
      BY <3>1 DEF StopInv
    <3>3. at[e] = 0
      BY <3>1 DEF OrderOf
    <3> QED  BY <3>1, <3>2, <3>3 DEF OrderOf, Kept, OnTask, InTask
  <2> QED  BY <2>1, <2>2
<1>2. CASE NextTask(e)
  <2>1. CASE jobStatus = "stopped"
    <3>1. pc'[e] = "exit"
      BY <1>0, <1>2, <2>1 DEF NextTask, StopCheck
    <3> QED  BY <3>1 DEF OrderOf, OnTask, InTask
  <2>2. CASE jobStatus # "stopped"
    <3> DEFINE m == Min(Ahead(e))
    <3>1. /\ pc[e] = "next" /\ pc'[e] = "hook" /\ at'[e] = m /\ phase'[e] = "pre_task"
          /\ snapDone' = snapDone /\ Completed' = Completed /\ Ahead(e) # {}
      BY <1>0, <1>2, <2>2, <1>a DEF NextTask, StopCheck, RecordTask
    <3>2. m \in Task /\ m \in Nat /\ m \in Ahead(e) /\ \A t \in Ahead(e) : m <= t
      <4>1. Ahead(e) \subseteq Nat
        BY DEF Ahead, Task
      <4>2. m \in Task /\ m \in Ahead(e)
        BY <3>1, AheadTask
      <4>3. \A t \in Ahead(e) : m <= t
        BY <3>1, <4>1, MinNat
      <4> QED  BY <4>1, <4>2, <4>3
    <3>3. stopTodo = {}
      BY <2>2, <3>1 DEF StopInv
    <3>4. m > at[e] /\ m \notin snapDone[e]
      BY <3>2 DEF Ahead
    <3> HIDE DEF m
    <3>5. m \notin Completed
      BY <1>0, <3>1, <3>2, <3>4 DEF OrderOf
    <3>6. 1..(m - 1) \subseteq Kept
      <4> SUFFICES ASSUME NEW i \in 1..(m - 1)
                   PROVE  i \in Kept
        OBVIOUS
      <4>1. i \in Task /\ i < m
        BY <3>2, NTasksAssumption DEF Task
      <4>2. CASE i <= at[e]
        <5>1. i \in 1..at[e]
          BY <1>0, <4>1, <4>2 DEF Task
        <5> QED  BY <2>2, <3>1, <5>1 DEF OrderOf
      <4>3. CASE i > at[e]
        <5>1. i \notin Ahead(e)
          BY <3>2, <4>1 DEF Task
        <5> QED  BY <3>1, <4>1, <4>3, <5>1 DEF Ahead, OrderOf
      <4> QED  BY <1>0, <4>1, <4>2, <4>3 DEF Task
    <3>7. snapDone[e] \subseteq Kept /\ Completed \subseteq snapDone[e] \cup 1..m
      <4>1. 1..at[e] \subseteq 1..m
        BY <1>0, <3>2, <3>4
      <4> QED  BY <3>1, <4>1 DEF OrderOf
    <3>8. Kept' = Kept
      BY <3>1 DEF Kept
    <3> QED  BY <3>1, <3>5, <3>6, <3>7, <3>8 DEF OrderOf
  <2> QED  BY <2>1, <2>2
<1>3. CASE RecordTask(e)
  <2>1. /\ pc[e] = "record" /\ pc'[e] = "next" /\ at' = at /\ snapDone' = snapDone
        /\ Completed' = Completed \cup {at[e]} /\ jobStatus' = jobStatus /\ at[e] \in Task
    BY <1>0, <1>3, <1>a DEF RecordTask, OnTask, InTask, jobVars
  <2>2. 1..(at[e] - 1) \subseteq Kept
    BY <2>1 DEF OrderOf, OnTask, InTask
  <2>3. jobStatus # "stopped" => stopTodo = {}
    BY <2>1 DEF StopInv
  <2>4. Kept \subseteq Kept' /\ (jobStatus # "stopped" => at[e] \in Kept')
    BY <2>1, <2>3 DEF Kept
  <2>5. at[e] \in 1..at[e] /\ 1..at[e] = 1..(at[e] - 1) \cup {at[e]}
    BY <2>1 DEF Task
  <2> QED  BY <2>1, <2>2, <2>4, <2>5 DEF OrderOf, OnTask, InTask
<1>4. CASE Exit(e)
  BY <1>0, <1>4 DEF Exit, Gone, OrderOf, OnTask, InTask
<1>5. CASE CloseInterrupted(e) \/ TakeOver(e) \/ HookCheck(e) \/ PlanUnreadable(e)
           \/ UsageLimited(e) \/ FinishJob(e)
  <2>1. Onward(e)
    BY <1>0, <1>5 DEF CloseInterrupted, TakeOver, RunHooks, HookCheck, StopCheck, PlanUnreadable,
       UsageLimited, FinishJob, OrderOf, Onward, OnTask, InTask
  <2> QED  BY <1>0, <1>a, <1>3, <2>1, OnwardKeeps DEF Kept
<1>6. CASE HookStart(e) \/ HookPasses(e) \/ PlanHookFails(e) \/ PreTaskHookFails(e)
           \/ PostTaskHookRetries(e) \/ PostTaskHookFails(e)
  <2>1. Onward(e)
    BY <1>0, <1>6 DEF HookStart, HookPasses, PlanHookFails, PreTaskHookFails,
       PostTaskHookRetries, PostTaskHookFails, HookReturns, OrderOf, Onward, OnTask, InTask
  <2> QED  BY <1>0, <1>a, <1>3, <2>1, OnwardKeeps DEF Kept
<1>7. CASE HooksDone(e)
  <2>1. Onward(e)
    BY <1>0, <1>7 DEF HooksDone, AfterHooks, Phase, OrderOf, Onward, OnTask, InTask
  <2> QED  BY <1>0, <1>a, <1>3, <2>1, OnwardKeeps DEF Kept
<1>8. CASE TasksDone(e) \/ BeginTask(e) \/ StartAttempt(e) \/ AgentSucceeds(e) \/ AgentFails(e)
           \/ AgentHitsLimit(e)
  <2>1. Onward(e)
    BY <1>0, <1>8 DEF TasksDone, BeginTask, StartAttempt, AgentSucceeds, AgentFails,
       AgentHitsLimit, RunHooks, OrderOf, Onward, OnTask, InTask
  <2> QED  BY <1>0, <1>a, <1>3, <2>1, OnwardKeeps DEF Kept
<1>9. CASE RetryTask(e) \/ CommitTask(e) \/ PersistHandoff(e) \/ StashWork(e) \/ FailTask(e)
  <2>1. Onward(e)
    BY <1>0, <1>9 DEF RetryTask, CommitTask, PersistHandoff, StashWork, FailTask, OrderOf, Onward,
       OnTask, InTask
  <2> QED  BY <1>0, <1>a, <1>3, <2>1, OnwardKeeps DEF Kept
<1> QED  BY <1>1, <1>2, <1>3, <1>4, <1>5, <1>6, <1>7, <1>8, <1>9 DEF EngineStep

\* A step that leaves an engine where it is, and takes nothing back unannounced.
LEMMA OrderKept ==
  ASSUME NEW e \in Engine, OrderOf(e), UNCHANGED <<pc[e], at[e], phase[e], snapDone[e]>>,
         Completed' \subseteq Completed, Kept \subseteq Kept',
         pc[e] = "next" /\ jobStatus = "stopped" => jobStatus' = "stopped"
  PROVE  OrderOf(e)'
BY DEF OrderOf, OnTask, InTask

\* A COMPLETED task that no stop takes back keeps its status and its attempt, and
\* only the end of a task's last attempt adds one.
LEMMA KeptGrows ==
  ASSUME TypeInv, OrderInv, [Next]_vars
  PROVE  /\ Kept \subseteq Kept' /\ \A t \in Kept : taskRetries'[t] = taskRetries[t]
         /\ (\E e \in Engine : EngineAct(e) /\ RecordTask(e)) \/ Completed' \subseteq Completed
<1>0. TypeOK /\ StoreTypeOK /\ Kept \subseteq Task
  BY DEF TypeInv, TypeOK, Kept, Completed
<1> USE DEF Read, storeVars, taskVars, stopVars
<1>1. ASSUME NEW e \in Engine, EngineAct(e)
      PROVE  /\ Kept \subseteq Kept' /\ \A t \in Kept : taskRetries'[t] = taskRetries[t]
             /\ RecordTask(e) \/ Completed' \subseteq Completed
  <2>1. EngineStep(e) /\ stopTodo' = stopTodo /\ (OnTask(e) => at[e] \notin Completed)
    BY <1>1 DEF EngineAct, OrderInv, OrderOf
  <2>2. IF RecordTask(e) THEN Completed' = Completed \cup {at[e]} ELSE Completed' = Completed
    BY <2>1, EngineCompletes
  <2>3. \A t \in Kept : taskRetries'[t] = taskRetries[t]
    BY <1>0, <2>1, EngineRetries DEF Kept, StoreTypeOK
  <2> QED  BY <2>1, <2>2, <2>3 DEF Kept
<1>2. ASSUME UNCHANGED taskVars, stopTodo' \cap Completed \subseteq stopTodo
      PROVE  Kept \subseteq Kept' /\ taskRetries' = taskRetries /\ Completed' \subseteq Completed
  BY <1>2 DEF Kept, Completed
<1>3. CASE \E e \in Engine : StartCommand(e) \/ Crash(e)
  BY <1>2, <1>3 DEF StartCommand, Crash, DiesLeaving
<1>4. CASE StopCommand \/ StopReadsJob \/ StopMarksJob \/ StopKills
  BY <1>2, <1>4 DEF StopCommand, StopReadsJob, StopMarksJob, StopKills, DiesLeaving
<1>5. CASE StopListsTasks
  BY <1>2, <1>5 DEF StopListsTasks, Completed
<1>6. CASE StopMarksTask
  <2> DEFINE m == Min(stopTodo)
  <2>1. m \in stopTodo
    BY <1>0, <1>6, MinNat DEF StopMarksTask, TypeOK, Task
  <2>2. /\ stopTodo' = stopTodo \ {m} /\ taskStatus' = [taskStatus EXCEPT ![m] = "stopped"]
        /\ taskRetries' = [taskRetries EXCEPT ![m] = 0]
    BY <1>6 DEF StopMarksTask, MarkTaskStopped, SetTask
  <2> HIDE DEF m
  <2>3. Completed' = Completed \ {m}
    BY <1>0, <2>2 DEF Completed, StoreTypeOK
  <2>4. \A t \in Kept : taskRetries'[t] = taskRetries[t]
    BY <1>0, <2>1, <2>2 DEF Kept, StoreTypeOK
  <2> QED  BY <2>1, <2>2, <2>3, <2>4 DEF Kept
<1>7. CASE \E r \in Reader : ReaderLoads(r) \/ ReaderReconciles(r)
  BY <1>2, <1>7 DEF ReaderLoads, ReaderReconciles
<1>8. CASE UNCHANGED vars
  BY <1>2, <1>8 DEF vars
<1> QED  BY <1>1, <1>3, <1>4, <1>5, <1>6, <1>7, <1>8 DEF Next

LEMMA OrderNext ==
  ASSUME TypeInv, SoleInv, SerialCommands, Reader = {}, OrderInv, [Next]_vars
  PROVE  OrderInv'
<1>0. TypeOK /\ EngineTypeOK
  BY DEF TypeInv, TypeOK
<1>a. StopInv /\ StopInv'
  BY StopNext DEF OrderInv
<1> SUFFICES ASSUME NEW d \in Engine
             PROVE  OrderOf(d)'
  BY <1>a DEF OrderInv
<1>b. OrderOf(d)
  BY DEF OrderInv
<1>c. pc[d] = "next" /\ jobStatus = "stopped" => jobStatus' = "stopped"
  BY StoppedStays DEF FinishJob, Working
<1>d. Kept \subseteq Kept' /\ ((\E e \in Engine : EngineAct(e)) \/ Completed' \subseteq Completed)
  BY KeptGrows
<1> USE DEF engineVars, localVars, lateVars, Read, storeVars, jobVars, taskVars, stopVars
<1>1. ASSUME NEW e \in Engine, EngineAct(e)
      PROVE  OrderOf(d)'
  <2>1. EngineStep(e) /\ stopTodo' = stopTodo
    BY <1>1 DEF EngineAct
  <2>2. CASE d = e
    BY <1>a, <1>b, <2>1, <2>2, OwnOrder
  <2>3. CASE d # e
    <3>1. UNCHANGED <<pc[d], at[d], phase[d], snapDone[d]>>
      BY <1>0, <2>1, <2>3, Frame, FrameRest
    <3>2. CASE pc[d] \in Working \cup {"close", "mark"}
      <4>1. Completed' = Completed
        BY <2>1, <2>3, <3>2, OthersAside DEF LoadJob, Exit, Completed
      <4> QED  BY <1>b, <1>c, <1>d, <3>1, <4>1, OrderKept
    <3>3. CASE pc[d] \notin Working \cup {"close", "mark"}
      BY <1>b, <3>1, <3>3, Places DEF OrderOf, OnTask, InTask, Hooking
    <3> QED  BY <3>2, <3>3
  <2> QED  BY <2>2, <2>3
<1>2. ASSUME NEW e \in Engine, StartCommand(e) \/ DiesLeaving(e), Completed' \subseteq Completed
      PROVE  OrderOf(d)'
  <2>1. CASE d = e
    <3>1. at'[e] = 0 /\ pc'[e] \in {"off", "load"}
      BY <1>0, <1>b, <1>2, <2>1 DEF StartCommand, DiesLeaving, Gone, Goto, EngineTypeOK, OrderOf
    <3> QED  BY <2>1, <3>1, Places DEF OrderOf, OnTask, InTask, Hooking
  <2>2. CASE d # e
    <3>1. UNCHANGED <<pc[d], at[d], phase[d], snapDone[d]>>
      BY <1>0, <1>2, <2>2 DEF StartCommand, DiesLeaving, Gone, Goto, EngineTypeOK
    <3> QED  BY <1>b, <1>c, <1>d, <1>2, <3>1, OrderKept
  <2> QED  BY <2>1, <2>2
<1>3. ASSUME UNCHANGED engineVars, Completed' \subseteq Completed
      PROVE  OrderOf(d)'
  BY <1>b, <1>c, <1>d, <1>3, OrderKept
<1>4. SUFFICES ASSUME Completed' \subseteq Completed, \A e \in Engine : ~EngineAct(e)
               PROVE  OrderOf(d)'
  BY <1>1, <1>d
<1>5. CASE \E e \in Engine : StartCommand(e) \/ Crash(e)
  BY <1>2, <1>4, <1>5 DEF Crash
<1>6. CASE StopCommand \/ StopReadsJob \/ StopMarksJob \/ StopListsTasks \/ StopMarksTask
  BY <1>3, <1>4, <1>6 DEF StopCommand, StopReadsJob, StopMarksJob, StopListsTasks, StopMarksTask
<1>7. CASE StopKills
  BY <1>0, <1>2, <1>3, <1>4, <1>7 DEF StopKills, Alive, TypeOK
<1>8. CASE UNCHANGED vars
  BY <1>3, <1>4, <1>8 DEF vars
<1> QED  BY <1>4, <1>5, <1>6, <1>7, <1>8 DEF Next

LEMMA OrderAlways == ASSUME SerialCommands, Reader = {} PROVE Spec => []OrderInv
<1>1. Init => OrderInv
  BY DEF Init, StoreInit, EngineInit, OrderInv, StopInv, OrderOf, Starting, Working, Hooking,
     OnTask, InTask
<1>2. OrderInv /\ TypeInv /\ SoleInv /\ [Next]_vars => OrderInv'
  BY SerialCommands, OrderNext
<1> QED  BY <1>1, <1>2, TypeInvariant, SoleAlways, SerialCommands, PTL DEF Spec

\* A task is attempted only when all tasks before it are COMPLETED, for plans of
\* any length, across stops with stale lists, crashes, failed kills and resumes.
THEOREM TasksStayInOrder ==
  ASSUME SerialCommands, Reader = {}
  PROVE  Spec => []TasksInOrder
<1>1. OrderInv => TasksInOrder
  BY DEF OrderInv, OrderOf, TasksInOrder, OnTask, Kept
<1> QED  BY <1>1, OrderAlways, SerialCommands, PTL

-----------------------------------------------------------------------------
(* The checkout.                                                           *)

\* Work in the checkout is of a task that is not COMPLETED, everything before it
\* is, and a commit left none.
TreeInv ==
  /\ \A t \in tree : t \notin Completed /\ 1..(t - 1) \subseteq Kept
  /\ \A e \in Engine : pc[e] \in {"persist", "record"} => tree = {}

\* What an engine's step makes of the checkout.
LEMMA EngineTree ==
  ASSUME TypeInv, "git" \notin Faults, NEW e \in Engine, EngineStep(e)
  PROVE  /\ \/ tree' = tree /\ (pc'[e] \in {"persist", "record"} => pc[e] = "persist")
            \/ pc[e] = "agent" /\ tree' \in {tree, tree \cup {at[e]}} /\ pc'[e] \notin {"persist", "record"}
            \/ tree' = {} /\ pc[e] \in Working
<1>0. EngineTypeOK
  BY DEF TypeInv, TypeOK
<1> USE Places DEF Read, gitVars, Goto, EngineTypeOK
<1>1. CASE AgentSucceeds(e) \/ AgentFails(e) \/ AgentHitsLimit(e)
  BY <1>0, <1>1 DEF AgentSucceeds, AgentFails, AgentHitsLimit, AgentLeaves, RunHooks
<1>2. CASE CommitTask(e) \/ StashWork(e)
  BY <1>2 DEF CommitTask, StashWork
<1>3. CASE LoadJob(e) \/ PlanUnreadable(e) \/ CloseInterrupted(e) \/ TakeOver(e) \/ HookCheck(e)
           \/ HookStart(e) \/ HookPasses(e) \/ PlanHookFails(e) \/ PreTaskHookFails(e)
           \/ PostTaskHookRetries(e) \/ PostTaskHookFails(e)
  BY <1>0, <1>3 DEF LoadJob, PlanUnreadable, CloseInterrupted, TakeOver, RunHooks, HookCheck,
     StopCheck, HookStart, HookPasses, PlanHookFails, PreTaskHookFails, PostTaskHookRetries,
     PostTaskHookFails, HookReturns
<1>4. CASE HooksDone(e)
  BY <1>0, <1>4 DEF HooksDone, AfterHooks, Phase
<1>5. CASE TasksDone(e) \/ NextTask(e) \/ BeginTask(e) \/ StartAttempt(e) \/ UsageLimited(e)
           \/ RetryTask(e) \/ PersistHandoff(e) \/ RecordTask(e) \/ FailTask(e) \/ FinishJob(e)
           \/ Exit(e)
  BY <1>0, <1>5 DEF TasksDone, RunHooks, NextTask, StopCheck, BeginTask, StartAttempt,
     UsageLimited, RetryTask, PersistHandoff, RecordTask, FailTask, FinishJob, Exit, Gone
<1> QED  BY <1>1, <1>2, <1>3, <1>4, <1>5 DEF EngineStep

LEMMA TreeNext ==
  ASSUME TypeInv, SoleInv, OrderInv, "git" \notin Faults, TreeInv, [Next]_vars
  PROVE  TreeInv'
<1>0. TypeOK /\ EngineTypeOK
  BY DEF TypeInv, TypeOK
<1>a. /\ Kept \subseteq Kept'
      /\ (\E e \in Engine : EngineAct(e) /\ RecordTask(e)) \/ Completed' \subseteq Completed
  BY KeptGrows
<1> USE DEF engineVars, localVars, lateVars, Read, gitVars
<1>1. ASSUME NEW e \in Engine, pc[e] = "agent", tree' \in {tree, tree \cup {at[e]}},
             Completed' \subseteq Completed, pc'[e] \notin {"persist", "record"},
             \A d \in Engine : d # e => pc'[d] = pc[d]
      PROVE  TreeInv'
  <2>1. at[e] \notin Completed /\ 1..(at[e] - 1) \subseteq Kept
    BY <1>1 DEF OrderInv, OrderOf, OnTask, InTask
  <2>2. \A d \in Engine : pc'[d] \notin {"persist", "record"}
    BY <1>1 DEF SoleInv, Working
  <2> QED  BY <1>a, <1>1, <2>1, <2>2 DEF TreeInv
<1>2. ASSUME tree' = tree, Completed' \subseteq Completed,
             \A d \in Engine : pc'[d] \in {"persist", "record"} => pc[d] \in {"persist", "record"}
      PROVE  TreeInv'
  BY <1>a, <1>2 DEF TreeInv
<1>3. ASSUME NEW e \in Engine, EngineAct(e)
      PROVE  TreeInv'
  <2>1. EngineStep(e) /\ \A d \in Engine : d # e => pc'[d] = pc[d]
    BY <1>0, <1>3, Frame DEF EngineAct
  <2>2. CASE RecordTask(e)
    <3>1. tree = {} /\ tree' = {}
      BY <2>2 DEF RecordTask, TreeInv
    <3> QED  BY <3>1 DEF TreeInv
  <2>3. CASE ~RecordTask(e)
    <3>1. Completed' \subseteq Completed
      BY <2>1, <2>3, EngineCompletes DEF OrderInv, OrderOf
    <3>2. CASE tree' = tree /\ (pc'[e] \in {"persist", "record"} => pc[e] = "persist")
      BY <1>2, <2>1, <3>1, <3>2
    <3>3. CASE pc[e] = "agent" /\ tree' \in {tree, tree \cup {at[e]}}
               /\ pc'[e] \notin {"persist", "record"}
      BY <1>1, <2>1, <3>1, <3>3
    <3>4. CASE tree' = {}
      BY <3>4 DEF TreeInv
    <3> QED  BY <2>1, <3>2, <3>3, <3>4, EngineTree
  <2> QED  BY <2>2, <2>3
<1>4. SUFFICES ASSUME \A e \in Engine : ~EngineAct(e)
               PROVE  TreeInv'
  BY <1>3
<1>5. Completed' \subseteq Completed
  BY <1>a, <1>4
<1>6. ASSUME NEW e \in Engine, DiesLeaving(e)
      PROVE  TreeInv'
  <2>1. pc'[e] = "off" /\ \A d \in Engine : d # e => pc'[d] = pc[d]
    BY <1>0, <1>6 DEF DiesLeaving, Gone, Goto, EngineTypeOK
  <2>2. CASE pc[e] = "agent"
    BY <1>1, <1>5, <1>6, <2>1, <2>2 DEF DiesLeaving, AgentLeaves
  <2>3. CASE pc[e] # "agent"
    BY <1>2, <1>5, <1>6, <2>1, <2>3 DEF DiesLeaving
  <2> QED  BY <2>2, <2>3
<1>7. ASSUME NEW e \in Engine, StartCommand(e)
      PROVE  TreeInv'
  BY <1>0, <1>2, <1>5, <1>7 DEF StartCommand, Goto, EngineTypeOK
<1>8. CASE StopCommand \/ StopReadsJob \/ StopMarksJob \/ StopListsTasks \/ StopMarksTask
  BY <1>2, <1>5, <1>8 DEF StopCommand, StopReadsJob, StopMarksJob, StopListsTasks, StopMarksTask
<1>9. CASE StopKills
  BY <1>0, <1>2, <1>5, <1>6, <1>9 DEF StopKills, Alive, TypeOK
<1>10. CASE \E r \in Reader : ReaderLoads(r) \/ ReaderReconciles(r)
  BY <1>2, <1>5, <1>10 DEF ReaderLoads, ReaderReconciles
<1>11. CASE UNCHANGED vars
  BY <1>2, <1>5, <1>11 DEF vars
<1> QED  BY <1>4, <1>6, <1>7, <1>8, <1>9, <1>10, <1>11 DEF Next, Crash

\* While git itself works, a task's commit holds the work of that task alone, and
\* no COMPLETED task has work left outside its commit: also when a crash or a stop
\* left work behind, and a later run commits with `git add -A`.
THEOREM CheckoutStaysOwned ==
  ASSUME SerialCommands, Reader = {}, "git" \notin Faults
  PROVE  Spec => []CheckoutOwned
<1>1. Init => TreeInv
  BY DEF Init, EngineInit, TreeInv
<1>2. TreeInv /\ OrderInv /\ TypeInv /\ SoleInv /\ [Next]_vars => TreeInv'
  BY TreeNext
<1>3. TypeInv /\ OrderInv /\ TreeInv => CheckoutOwned
  <2> SUFFICES ASSUME TypeInv, OrderInv, TreeInv
               PROVE  CheckoutOwned
    OBVIOUS
  <2>1. ASSUME NEW e \in Engine, pc[e] = "commit", NEW t \in tree
        PROVE  t = at[e]
    <3>1. at[e] \notin Completed /\ 1..(at[e] - 1) \subseteq Completed
      BY <2>1 DEF OrderInv, OrderOf, OnTask, InTask, Kept
    <3>2. t \notin Completed /\ 1..(t - 1) \subseteq Completed
      BY <2>1 DEF TreeInv, Kept
    <3>3. t \in Task /\ at[e] \in Task
      BY <2>1, Members DEF TypeInv, TypeOK, EngineTypeOK, Bounds, OnTask, InTask
    <3>4. ~(t < at[e]) /\ ~(at[e] < t)
      BY <3>1, <3>2, <3>3 DEF Task
    <3> QED  BY <3>3, <3>4 DEF Task
  <2> QED  BY <2>1 DEF CheckoutOwned, TreeInv
<1> QED
  BY <1>1, <1>2, <1>3, TypeInvariant, SoleAlways, OrderAlways, SerialCommands, PTL DEF Spec

-----------------------------------------------------------------------------
(* The handoffs.                                                           *)

\* The handoff a task's first attempt starts from.
Before(e) == IF at[e] = 1 THEN NoHandoff ELSE <<at[e] - 1, taskRetries[at[e] - 1]>>

\* What an engine loaded is still so, up to its last task without a gap; and the
\* handoff in its hand is of the attempt before the one it is about to make.
ChainOf(e) ==
  /\ pc[e] \in Working \cup {"close", "mark"} =>
       \A t \in snapDone[e] : snapRetries[e][t] = taskRetries[t] /\ 1..(t - 1) \subseteq snapDone[e]
  /\ pc[e] = "begin" \/ (pc[e] \in Hooking /\ phase[e] = "pre_task") => hand[e] = Before(e)
  /\ InTask(e) => hand[e] = IF k[e] > 0 THEN <<at[e], att[e] - 1>> ELSE Before(e)
  /\ pc[e] = "next" /\ at[e] # 0 =>
       at[e] \notin snapDone[e] /\ (jobStatus # "stopped" => hand[e] = <<at[e], taskRetries[at[e]]>>)

\* No COMPLETED task, now or after the stop under way, stands behind another.
Gapless == \A t \in Completed : 1..(t - 1) \subseteq Kept

ChainInv == Gapless /\ \A e \in Engine : ChainOf(e)

LEMMA GaplessNext ==
  ASSUME TypeInv, OrderInv, Gapless, [Next]_vars
  PROVE  Gapless'
<1>1. Kept \subseteq Kept'
  BY KeptGrows
<1>2. CASE Completed' \subseteq Completed
  BY <1>1, <1>2 DEF Gapless
<1>3. ASSUME NEW e \in Engine, EngineAct(e), RecordTask(e)
      PROVE  Gapless'
  <2>1. Completed' = Completed \cup {at[e]}
    BY <1>3, EngineCompletes DEF EngineAct, OrderInv, OrderOf
  <2>2. 1..(at[e] - 1) \subseteq Kept
    BY <1>3 DEF RecordTask, OrderInv, OrderOf, OnTask, InTask
  <2> QED  BY <1>1, <2>1, <2>2 DEF Gapless
<1> QED  BY <1>2, <1>3, KeptGrows

\* What the chain needs of the tasks: nothing an engine relies on changes.
Relied(e) ==
  /\ pc[e] \in Working \cup {"close", "mark"} => \A t \in snapDone[e] : taskRetries'[t] = taskRetries[t]
  /\ OnTask(e) => Before(e)' = Before(e) \/ at'[e] # at[e]
  /\ pc[e] = "next" /\ at[e] # 0 /\ jobStatus # "stopped" => taskRetries'[at[e]] = taskRetries[at[e]]

LEMMA ReliedHolds ==
  ASSUME TypeInv, OrderInv, [Next]_vars, NEW e \in Engine
  PROVE  Relied(e)
<1>1. \A t \in Kept : taskRetries'[t] = taskRetries[t]
  BY KeptGrows
<1>2. at[e] \in Nat /\ (OnTask(e) => at[e] # 0)
  BY NTasksAssumption DEF TypeInv, TypeOK, EngineTypeOK, Bounds
<1>3. OnTask(e) /\ at'[e] = at[e] => Before(e)' = Before(e)
  <2> SUFFICES ASSUME OnTask(e), at'[e] = at[e], at[e] # 1
               PROVE  taskRetries'[at[e] - 1] = taskRetries[at[e] - 1]
    BY DEF Before, NoHandoff
  <2>1. at[e] - 1 \in 1..(at[e] - 1)
    BY <1>2
  <2> QED  BY <1>1, <2>1 DEF OrderInv, OrderOf
<1>4. pc[e] = "next" /\ at[e] # 0 /\ jobStatus # "stopped" => at[e] \in Kept
  <2>1. at[e] # 0 => at[e] \in 1..at[e]
    BY <1>2
  <2> QED  BY <2>1 DEF OrderInv, OrderOf
<1> QED  BY <1>1, <1>3, <1>4 DEF Relied, OrderInv, OrderOf

\* An engine that stays where it is, or goes on with the same handoff in hand.
LEMMA ChainKept ==
  ASSUME NEW e \in Engine, ChainOf(e), Relied(e),
         UNCHANGED <<at[e], k[e], att[e], hand[e], snapDone[e], snapRetries[e]>>,
         pc'[e] \in Working \cup {"close", "mark"} => pc[e] \in Working \cup {"close", "mark"},
         pc'[e] = "begin" \/ (pc'[e] \in Hooking /\ phase'[e] = "pre_task")
           => pc[e] = "begin" \/ (pc[e] \in Hooking /\ phase[e] = "pre_task"),
         InTask(e)' => InTask(e),
         pc'[e] = "next" => at[e] = 0 \/ (pc[e] = "next" /\ (jobStatus = "stopped" => jobStatus' = "stopped"))
  PROVE  ChainOf(e)'
<1>1. InTask(e)' => Before(e)' = Before(e)
  BY DEF Relied, OnTask
<1>2. pc'[e] = "begin" \/ (pc'[e] \in Hooking /\ phase'[e] = "pre_task") => Before(e)' = Before(e)
  BY DEF Relied, OnTask, Hooking
<1> QED  BY <1>1, <1>2 DEF ChainOf, Relied

\* The first attempt of the next task starts from the handoff of the one before it.
LEMMA NextSeeded ==
  ASSUME TypeInv, OrderInv, HandoffInv, NEW e \in Engine, ChainOf(e),
         pc[e] = "next", jobStatus # "stopped", Ahead(e) # {}
  PROVE  (IF at[e] = 0 THEN SeededHandoff(e, Min(Ahead(e))) ELSE hand[e])
           = IF Min(Ahead(e)) = 1 THEN NoHandoff
             ELSE <<Min(Ahead(e)) - 1, taskRetries[Min(Ahead(e)) - 1]>>
<1> DEFINE m == Min(Ahead(e))
<1>0. at[e] \in Nat
  BY NTasksAssumption DEF TypeInv, TypeOK, EngineTypeOK
<1>1. m \in Task /\ m > at[e] /\ m \notin snapDone[e] /\ \A t \in Ahead(e) : m <= t
  <2>1. Ahead(e) \subseteq Nat
    BY DEF Ahead, Task
  <2>2. m \in Ahead(e) /\ \A t \in Ahead(e) : m <= t
    BY <2>1, MinNat
  <2> QED  BY <2>2 DEF Ahead
<1> HIDE DEF m
<1>2. m \in Nat /\ m # 0 /\ (m # 1 => m - 1 \in Task)
  BY <1>1, NTasksAssumption DEF Task
<1>3. m - 1 > at[e] => m - 1 \in snapDone[e]
  <2> SUFFICES ASSUME m - 1 > at[e]
               PROVE  m - 1 \in snapDone[e]
    OBVIOUS
  <2>1. m # 1
    BY <1>0
  <2>2. m - 1 \in Task /\ ~(m <= m - 1)
    BY <1>2, <2>1
  <2> QED  BY <1>1, <2>2 DEF Ahead
<1>4. \A t \in snapDone[e] : /\ snapRetries[e][t] = taskRetries[t] /\ 1..(t - 1) \subseteq snapDone[e]
                             /\ t \in Completed
  BY DEF ChainOf, Working, OrderInv, OrderOf, Kept
<1>5. CASE at[e] = 0
  <2>1. CASE m = 1
    BY <1>5, <2>1 DEF SeededHandoff, m
  <2>2. CASE m # 1
    <3>1. m > 1 /\ m - 1 \in snapDone[e]
      BY <1>2, <1>3, <1>5, <2>2
    <3>2. snapRetries[e][m - 1] = taskRetries[m - 1] /\ <<m - 1, taskRetries[m - 1]>> \in handoff
      BY <1>4, <3>1 DEF HandoffInv, HandoffBeforeCompleted
    <3>3. SeededHandoff(e, m) = <<m - 1, taskRetries[m - 1]>>
      BY <3>1, <3>2 DEF SeededHandoff
    <3> QED  BY <1>5, <2>2, <3>3 DEF m
  <2> QED  BY <2>1, <2>2
<1>6. CASE at[e] # 0
  <2>1. at[e] \notin snapDone[e] /\ hand[e] = <<at[e], taskRetries[at[e]]>>
    BY <1>6 DEF ChainOf
  <2>2. ~(m - 1 > at[e])
    <3> SUFFICES ASSUME m - 1 > at[e]
                 PROVE  FALSE
      OBVIOUS
    <3>1. at[e] \in 1..(m - 1 - 1)
      BY <1>0, <1>2, <1>6
    <3> QED  BY <1>3, <1>4, <2>1, <3>1
  <2>3. m - 1 = at[e] /\ m # 1
    BY <1>0, <1>1, <1>2, <1>6, <2>2
  <2> QED  BY <1>6, <2>1, <2>3 DEF m
<1> QED  BY <1>5, <1>6

\* An engine's own step.
LEMMA OwnChain ==
  ASSUME TypeInv, OrderInv, HandoffInv, ChainInv, [Next]_vars, NEW e \in Engine, EngineAct(e)
  PROVE  ChainOf(e)'
<1>0. /\ EngineTypeOK /\ at[e] \in Nat /\ att[e] \in Nat /\ k[e] \in Nat
      /\ (OnTask(e) => at[e] \in Task) /\ Relied(e) /\ ChainOf(e) /\ OrderOf(e) /\ EngineStep(e)
  <2>1. EngineTypeOK /\ Bounds(e) /\ MaxRetries \in Nat
    BY MaxRetriesAssumption DEF TypeInv, TypeOK
  <2>2. at[e] \in 0..NTasks /\ att[e] \in Attempt /\ k[e] \in 0..MaxRetries
    BY <2>1 DEF EngineTypeOK
  <2>3. at[e] \in Nat /\ k[e] \in Nat /\ att[e] \in Nat
    BY <2>1, <2>2, NTasksAssumption, MaxAttemptAssumption DEF Attempt
  <2>4. OnTask(e) => at[e] \in Task
    BY <2>1, <2>2, Members DEF Bounds
  <2>5. Relied(e)
    BY ReliedHolds
  <2>6. ChainOf(e) /\ OrderOf(e) /\ EngineStep(e)
    BY DEF ChainInv, OrderInv, EngineAct
  <2> QED  BY <2>1, <2>3, <2>4, <2>5, <2>6
<1> USE Places DEF EngineTypeOK, Goto, Read, storeVars, taskVars, localVars, lateVars, Hooking
<1>1. CASE LoadJob(e)
  <2>1. \/ pc'[e] = "exit"
        \/ /\ pc'[e] = "close" /\ snapDone'[e] = Completed /\ snapRetries'[e] = taskRetries
           /\ taskRetries' = taskRetries
    BY <1>0, <1>1 DEF LoadJob, CompletedOnLoad, Completed
  <2> QED  BY <2>1 DEF ChainOf, InTask, ChainInv, Gapless, Kept
<1>2. CASE NextTask(e)
  <2>1. CASE jobStatus = "stopped"
    <3>1. pc'[e] = "exit"
      BY <1>0, <1>2, <2>1 DEF NextTask, StopCheck
    <3> QED  BY <3>1 DEF ChainOf, InTask
  <2>2. CASE jobStatus # "stopped"
    <3> DEFINE m == Min(Ahead(e))
    <3>1. /\ pc[e] = "next" /\ pc'[e] = "hook" /\ phase'[e] = "pre_task" /\ at'[e] = m
          /\ hand'[e] = (IF at[e] = 0 THEN SeededHandoff(e, m) ELSE hand[e])
          /\ taskRetries' = taskRetries /\ snapDone' = snapDone /\ snapRetries' = snapRetries
          /\ Ahead(e) # {}
      BY <1>0, <1>2, <2>2 DEF NextTask, StopCheck
    <3>2. hand'[e] = Before(e)'
      BY <1>0, <2>2, <3>1, NextSeeded DEF Before, NoHandoff
    <3> HIDE DEF m
    <3> QED  BY <1>0, <3>1, <3>2 DEF ChainOf, InTask
  <2> QED  BY <2>1, <2>2
<1>3. CASE BeginTask(e)
  <2>1. /\ pc[e] = "begin" /\ pc'[e] = "attempt" /\ at' = at /\ k'[e] = 0 /\ hand' = hand
        /\ taskRetries' = taskRetries /\ snapDone' = snapDone /\ snapRetries' = snapRetries
    BY <1>0, <1>3 DEF BeginTask
  <2>2. Before(e)' = Before(e)
    BY <2>1 DEF Before, NoHandoff
  <2> QED  BY <1>0, <2>1, <2>2 DEF ChainOf, InTask
<1>4. CASE RetryTask(e)
  <2>1. /\ pc[e] = "retry" /\ pc'[e] = "attempt" /\ at' = at /\ k'[e] = k[e] + 1
        /\ att'[e] = att[e] + 1 /\ hand'[e] = <<at[e], att[e]>>
        /\ snapDone' = snapDone /\ snapRetries' = snapRetries
    BY <1>0, <1>4 DEF RetryTask
  <2>2. k'[e] > 0 /\ att'[e] - 1 = att[e]
    <3>1. k[e] \in Nat /\ att[e] \in Nat
      BY <1>0
    <3> QED  BY <2>1, <3>1
  <2>3. hand'[e] = <<at'[e], att'[e] - 1>>
    BY <2>1, <2>2
  <2>4. pc[e] \in Working
    BY <2>1
  <2>5. \A t \in snapDone[e] : snapRetries[e][t] = taskRetries'[t] /\ 1..(t - 1) \subseteq snapDone[e]
    BY <1>0, <2>4 DEF ChainOf, Relied
  <2> QED  BY <2>1, <2>2, <2>3, <2>5 DEF ChainOf, InTask
<1>5. CASE RecordTask(e)
  <2>1. /\ pc[e] = "record" /\ pc'[e] = "next" /\ at' = at /\ hand'[e] = <<at[e], att[e]>>
        /\ taskRetries' = [taskRetries EXCEPT ![at[e]] = att[e]]
        /\ snapDone' = snapDone /\ snapRetries' = snapRetries
    BY <1>0, <1>5 DEF RecordTask, RecordCompleted, SetTask
  <2>2. taskRetries'[at[e]] = att[e]
    BY <1>0, <2>1, Members DEF TypeInv, TypeOK, StoreTypeOK, OnTask, InTask
  <2>3. at[e] \notin snapDone[e]
    BY <1>0, <2>1 DEF OrderOf, OnTask, InTask, Kept
  <2> QED  BY <1>0, <2>1, <2>2, <2>3 DEF ChainOf, InTask, Relied
<1>6. CASE PreTaskHookFails(e)
  <2>1. /\ pc[e] = "hookwait" /\ pc'[e] = "failtask" /\ taskRetries' = taskRetries
        /\ snapDone' = snapDone /\ snapRetries' = snapRetries
    BY <1>0, <1>6 DEF PreTaskHookFails, HookReturns
  <2> QED  BY <1>0, <2>1 DEF ChainOf, InTask
<1>7. CASE Exit(e)
  BY <1>0, <1>7 DEF Exit, Gone, ChainOf, InTask
<1>8. CASE HooksDone(e)
  <2>1. pc[e] = "hook" /\ (phase[e] = "pre_plan" => at[e] = 0)
    BY <1>0, <1>8 DEF HooksDone, OrderOf
  <2> QED  BY <1>0, <1>8, <2>1, ChainKept DEF HooksDone, AfterHooks, Phase, InTask
<1>9. CASE CloseInterrupted(e) \/ PlanUnreadable(e) \/ TakeOver(e) \/ HookCheck(e) \/ HookStart(e)
           \/ UsageLimited(e) \/ FinishJob(e)
  BY <1>0, <1>9, ChainKept DEF CloseInterrupted, PlanUnreadable, TakeOver, RunHooks, HookCheck,
     StopCheck, HookStart, UsageLimited, FinishJob, InTask
<1>10. CASE HookPasses(e) \/ PlanHookFails(e) \/ PostTaskHookRetries(e) \/ PostTaskHookFails(e)
            \/ TasksDone(e)
  BY <1>0, <1>10, ChainKept DEF HookPasses, PlanHookFails, PostTaskHookRetries,
     PostTaskHookFails, HookReturns, TasksDone, RunHooks, InTask
<1>11. CASE StartAttempt(e) \/ AgentSucceeds(e) \/ AgentFails(e) \/ AgentHitsLimit(e)
            \/ CommitTask(e) \/ PersistHandoff(e) \/ StashWork(e) \/ FailTask(e)
  BY <1>0, <1>11, ChainKept DEF StartAttempt, AgentSucceeds, AgentFails, AgentHitsLimit, RunHooks,
     CommitTask, PersistHandoff, StashWork, FailTask, InTask
<1> QED
  BY <1>0, <1>1, <1>2, <1>3, <1>4, <1>5, <1>6, <1>7, <1>8, <1>9, <1>10, <1>11 DEF EngineStep

LEMMA ChainNext ==
  ASSUME TypeInv, SoleInv, OrderInv, HandoffInv, Reader = {}, ChainInv, [Next]_vars
  PROVE  ChainInv'
<1>0. TypeOK /\ EngineTypeOK
  BY DEF TypeInv, TypeOK
<1>a. Gapless'
  BY GaplessNext DEF ChainInv
<1> SUFFICES ASSUME NEW d \in Engine
             PROVE  ChainOf(d)'
  BY <1>a DEF ChainInv
<1>b. ChainOf(d) /\ Relied(d)
  BY ReliedHolds DEF ChainInv
<1>c. pc[d] = "next" /\ jobStatus = "stopped" => jobStatus' = "stopped"
  BY StoppedStays DEF FinishJob, Working
<1> DEFINE Same == UNCHANGED <<pc[d], at[d], phase[d], k[d], att[d], hand[d], snapDone[d], snapRetries[d]>>
<1>1. ASSUME Same
      PROVE  ChainOf(d)'
  BY <1>b, <1>c, <1>1, ChainKept DEF InTask
<1> USE DEF engineVars, localVars, lateVars, Read
<1>2. ASSUME NEW e \in Engine, EngineAct(e)
      PROVE  ChainOf(d)'
  <2>1. CASE d = e
    BY <1>2, <2>1, OwnChain
  <2>2. CASE d # e
    <3>1. Same
      BY <1>0, <1>2, <2>2, Frame, FrameRest DEF EngineAct
    <3> QED  BY <1>1, <3>1
  <2> QED  BY <2>1, <2>2
<1>3. ASSUME NEW e \in Engine, StartCommand(e) \/ DiesLeaving(e)
      PROVE  ChainOf(d)'
  <2>1. CASE d = e
    <3>1. pc'[e] \in {"off", "load"}
      BY <1>0, <1>3 DEF StartCommand, DiesLeaving, Gone, Goto, EngineTypeOK
    <3> QED  BY <2>1, <3>1, Places DEF ChainOf, InTask, Hooking
  <2>2. CASE d # e
    <3>1. Same
      BY <1>0, <1>3, <2>2 DEF StartCommand, DiesLeaving, Gone, Goto, EngineTypeOK
    <3> QED  BY <1>1, <3>1
  <2> QED  BY <2>1, <2>2
<1>4. ASSUME UNCHANGED engineVars
      PROVE  ChainOf(d)'
  <2>1. Same
    BY <1>4
  <2> QED  BY <1>1, <2>1
<1>5. CASE StopCommand \/ StopReadsJob \/ StopMarksJob \/ StopListsTasks \/ StopMarksTask
  BY <1>4, <1>5 DEF StopCommand, StopReadsJob, StopMarksJob, StopListsTasks, StopMarksTask
<1>6. CASE StopKills
  BY <1>0, <1>3, <1>4, <1>6 DEF StopKills, Alive, TypeOK
<1>7. CASE UNCHANGED vars
  BY <1>4, <1>7 DEF vars
<1> QED  BY <1>2, <1>3, <1>5, <1>6, <1>7 DEF Next, Crash

LEMMA ChainAlways == ASSUME SerialCommands, Reader = {} PROVE Spec => []ChainInv
<1>1. Init => ChainInv /\ HandoffInv
  BY DEF Init, StoreInit, EngineInit, ChainInv, Gapless, ChainOf, Working, Hooking, InTask,
     Completed, HandoffInv, HandoffBeforeCompleted
<1>2. HandoffInv /\ TypeInv /\ [Next]_vars => HandoffInv'
  BY HandoffNext DEF TypeInv
<1>3. ChainInv /\ HandoffInv /\ OrderInv /\ TypeInv /\ SoleInv /\ [Next]_vars => ChainInv'
  BY ChainNext
<1> QED
  BY <1>1, <1>2, <1>3, TypeInvariant, SoleAlways, OrderAlways, SerialCommands, PTL DEF Spec

\* Every attempt is prompted with the handoff of the attempt before it: the last
\* one of this run, else the one that completed the previous task, also when that
\* was in an earlier run.
THEOREM HandoversAreChained ==
  ASSUME SerialCommands, Reader = {}
  PROVE  Spec => []HandoverChain
<1>1. ChainInv => HandoverChain
  BY DEF ChainInv, ChainOf, HandoverChain, InTask, Before
<1> QED  BY <1>1, ChainAlways, SerialCommands, PTL

-----------------------------------------------------------------------------
(* A job implements PlanProgress, when its commands are serial and nobody *)
(* is in the middle of a load.                                            *)

\* What the mapping makes of a job: the task worked on is the one after those done.
Mapped ==
  /\ \A e \in Engine : OnTask(e) => at[e] \in Task /\ Cardinality(Completed) = at[e] - 1
  /\ \A e \in Engine : InTask(e) => Busy = at[e]
  /\ (\A e \in Engine : ~InTask(e)) => Busy = 0

LEMMA InTaskWorks == ASSUME NEW e \in Engine, OnTask(e) PROVE pc[e] \in Working
BY Places DEF OnTask, InTask, Hooking

LEMMA MappedHolds ==
  ASSUME TypeInv, SoleInv, OrderInv, ChainInv
  PROVE  Mapped
<1>1. ASSUME NEW e \in Engine, OnTask(e)
      PROVE  at[e] \in Task /\ Cardinality(Completed) = at[e] - 1
  <2>1. at[e] \in Task
    BY <1>1, Members DEF TypeInv, TypeOK, EngineTypeOK, Bounds
  <2>2. at[e] \in Nat \ {0}
    BY <2>1, NTasksAssumption DEF Task
  <2>3. at[e] \notin Completed /\ 1..(at[e] - 1) \subseteq Completed
    BY <1>1 DEF OrderInv, OrderOf, Kept
  <2>4. ASSUME NEW t \in Completed
        PROVE  t \in 1..(at[e] - 1)
    <3>1. t \in Nat \ {0} /\ t # at[e]
      BY <2>3, NTasksAssumption DEF Completed, Task
    <3>2. t > at[e] => at[e] \in 1..(t - 1)
      BY <2>2, <3>1
    <3>3. 1..(t - 1) \subseteq Completed
      BY DEF ChainInv, Gapless, Kept
    <3> QED  BY <2>2, <2>3, <3>1, <3>2, <3>3
  <2>5. Completed = 1..(at[e] - 1)
    BY <2>3, <2>4
  <2>6. Cardinality(1..(at[e] - 1)) = at[e] - 1
    <3>1. at[e] - 1 \in Nat
      BY <2>2
    <3>2. \A n \in Nat : Cardinality(1..n) = n
      BY FS_Interval
    <3> QED  BY <3>1, <3>2
  <2> QED  BY <2>1, <2>5, <2>6
<1>2. ASSUME NEW e \in Engine, InTask(e)
      PROVE  Busy = at[e]
  <2>1. \A d \in Engine : InTask(d) => d = e
    BY <1>2, InTaskWorks DEF SoleInv, OnTask
  <2> DEFINE B == {d \in Engine : InTask(d)}
  <2>2. B = {e}
    BY <1>2, <2>1
  <2>3. Busy = IF B = {} THEN 0 ELSE at[CHOOSE d \in B : TRUE]
    BY DEF Busy
  <2> HIDE DEF B
  <2>4. (CHOOSE d \in B : TRUE) = e
    BY <2>2
  <2> QED  BY <2>2, <2>3, <2>4
<1>3. (\A e \in Engine : ~InTask(e)) => Busy = 0
  BY DEF Busy
<1> QED  BY <1>1, <1>2, <1>3 DEF Mapped

\* An engine that is in its task after a step was, or begins it.
LEMMA TaskMoves ==
  ASSUME TypeInv, NEW e \in Engine, EngineStep(e), InTask(e)'
  PROVE  (InTask(e) \/ BeginTask(e)) /\ at'[e] = at[e] /\ ~RecordTask(e)
<1>0. EngineTypeOK
  BY DEF TypeInv, TypeOK
<1> USE Places DEF EngineTypeOK, Goto, Read, localVars, lateVars, Hooking
<1>1. CASE LoadJob(e) \/ PlanUnreadable(e) \/ CloseInterrupted(e) \/ TakeOver(e) \/ HookCheck(e)
           \/ HookStart(e) \/ HookPasses(e) \/ PlanHookFails(e) \/ PreTaskHookFails(e)
  BY <1>0, <1>1 DEF LoadJob, PlanUnreadable, CloseInterrupted, TakeOver, RunHooks, HookCheck,
     StopCheck, HookStart, HookPasses, PlanHookFails, PreTaskHookFails, HookReturns, InTask,
     RecordTask
<1>2. CASE PostTaskHookRetries(e) \/ PostTaskHookFails(e) \/ HooksDone(e) \/ TasksDone(e)
           \/ NextTask(e) \/ BeginTask(e)
  BY <1>0, <1>2 DEF PostTaskHookRetries, PostTaskHookFails, HookReturns, HooksDone, AfterHooks,
     Phase, TasksDone, NextTask, StopCheck, RunHooks, BeginTask, InTask, RecordTask
<1>3. CASE StartAttempt(e) \/ AgentSucceeds(e) \/ AgentFails(e) \/ AgentHitsLimit(e)
           \/ UsageLimited(e) \/ RetryTask(e)
  BY <1>0, <1>3 DEF StartAttempt, AgentSucceeds, AgentFails, AgentHitsLimit, RunHooks,
     UsageLimited, RetryTask, InTask, RecordTask
<1>4. CASE CommitTask(e) \/ PersistHandoff(e) \/ RecordTask(e) \/ StashWork(e) \/ FailTask(e)
           \/ FinishJob(e) \/ Exit(e)
  BY <1>0, <1>4 DEF CommitTask, PersistHandoff, RecordTask, StashWork, FailTask, FinishJob, Exit,
     Gone, InTask
<1> QED  BY <1>1, <1>2, <1>3, <1>4 DEF EngineStep

\* A step after which the engine that makes it is in no task, and which completes
\* none, ends the work on its task or changes no progress.
LEMMA WorkEnds ==
  ASSUME TypeInv, SoleInv, Mapped, Mapped', NEW e \in Engine, ~InTask(e)', Completed' = Completed,
         \A d \in Engine : d # e => UNCHANGED <<pc[d], at[d], phase[d]>>
  PROVE  [Progress!Next]_<<Cardinality(Completed), Busy>>
<1>1. \A d \in Engine : d # e => (InTask(d)' <=> InTask(d)) /\ at'[d] = at[d]
  BY DEF InTask
<1>2. CASE InTask(e)
  <2>1. \A d \in Engine : InTask(d) => d = e
    BY <1>2, InTaskWorks DEF SoleInv, OnTask
  <2>2. Busy' = 0
    BY <1>1, <2>1 DEF Mapped
  <2>3. Busy # 0
    BY <1>2, NTasksAssumption DEF Mapped, OnTask, Task
  <2> QED  BY <2>2, <2>3 DEF Progress!Next, Progress!CutShort
<1>3. CASE ~InTask(e)
  <2>1. Busy' = Busy
    BY <1>1, <1>3 DEF Mapped
  <2> QED  BY <2>1
<1> QED  BY <1>2, <1>3

\* An engine's step.
LEMMA EngineProgress ==
  ASSUME TypeInv, SoleInv, OrderInv, Mapped, Mapped', NEW e \in Engine, EngineAct(e)
  PROVE  [Progress!Next]_<<Cardinality(Completed), Busy>>
<1>0. EngineTypeOK /\ EngineStep(e) /\ Completed \subseteq Task
  BY DEF EngineAct, TypeInv, TypeOK, Completed
<1>1. \A d \in Engine : d # e => UNCHANGED <<pc[d], at[d], phase[d]>>
  BY <1>0, Frame
<1>2. OnTask(e) => at[e] \notin Completed
  BY DEF OrderInv, OrderOf
<1>3. IF RecordTask(e) THEN Completed' = Completed \cup {at[e]} ELSE Completed' = Completed
  BY <1>0, <1>2, EngineCompletes
<1>4. ASSUME OnTask(e)
      PROVE  \A d \in Engine : d # e => ~InTask(d) /\ ~InTask(d)'
  <2>1. \A d \in Engine : d # e => ~InTask(d)
    BY <1>4, InTaskWorks DEF SoleInv, OnTask
  <2> QED  BY <1>1, <2>1 DEF InTask
<1>5. CASE RecordTask(e)
  <2>1. InTask(e) /\ ~InTask(e)'
    BY <1>0, <1>5, TaskMoves DEF RecordTask, InTask
  <2>2. Busy = at[e] /\ Busy' = 0 /\ at[e] \in Task /\ Cardinality(Completed) = at[e] - 1
    BY <1>4, <2>1 DEF Mapped, OnTask
  <2>3. Cardinality(Completed \cup {at[e]}) = Cardinality(Completed) + 1
    <3>1. IsFiniteSet(Task)
      BY NTasksAssumption, FS_Interval DEF Task
    <3>2. IsFiniteSet(Completed)
      BY <1>0, <3>1, FS_Subset
    <3> QED  BY <1>2, <2>1, <3>2, FS_AddElement DEF OnTask
  <2>4. at[e] \in Nat
    BY <2>2, NTasksAssumption DEF Task
  <2>5. Cardinality(Completed') = at[e] /\ at[e] = Cardinality(Completed) + 1
    <3>1. Cardinality(Completed') = Cardinality(Completed) + 1
      BY <1>3, <1>5, <2>3
    <3>2. at[e] - 1 + 1 = at[e]
      BY <2>4
    <3> QED  BY <2>2, <3>1, <3>2
  <2> QED  BY <2>2, <2>5 DEF Progress!Next, Progress!Complete
<1>6. CASE ~RecordTask(e) /\ ~InTask(e)'
  BY <1>1, <1>3, <1>6, WorkEnds
<1>7. CASE InTask(e)'
  <2>1. (InTask(e) \/ BeginTask(e)) /\ at'[e] = at[e] /\ ~RecordTask(e)
    BY <1>0, <1>7, TaskMoves
  <2>2. Busy' = at[e] /\ Completed' = Completed
    BY <1>3, <1>7, <2>1 DEF Mapped
  <2>3. CASE InTask(e)
    BY <2>2, <2>3 DEF Mapped
  <2>4. CASE BeginTask(e) /\ ~InTask(e)
    <3>1. OnTask(e)
      BY <2>4 DEF BeginTask, OnTask
    <3>2. Busy = 0 /\ at[e] \in Task /\ Cardinality(Completed) = at[e] - 1
      BY <1>4, <2>4, <3>1 DEF Mapped
    <3>3. Cardinality(Completed) < NTasks /\ at[e] = Cardinality(Completed) + 1
      BY <3>2, NTasksAssumption DEF Task
    <3> QED  BY <2>2, <3>2, <3>3 DEF Progress!Next, Progress!Begin
  <2> QED  BY <2>1, <2>3, <2>4
<1> QED  BY <1>5, <1>6, <1>7

LEMMA ProgressNext ==
  ASSUME TypeInv, SoleInv, OrderInv, Mapped, Mapped', [Next]_vars
  PROVE  [Progress!Next]_<<Cardinality(Completed), Busy>>
<1>0. TypeOK /\ EngineTypeOK
  BY DEF TypeInv, TypeOK
<1> USE DEF engineVars, localVars, Read, storeVars, taskVars
<1>1. ASSUME NEW e \in Engine, StartCommand(e) \/ DiesLeaving(e)
      PROVE  [Progress!Next]_<<Cardinality(Completed), Busy>>
  <2>1. Completed' = Completed /\ pc'[e] \in {"off", "load"}
    BY <1>0, <1>1 DEF StartCommand, DiesLeaving, Gone, Goto, EngineTypeOK, Completed
  <2>2. \A d \in Engine : d # e => UNCHANGED <<pc[d], at[d], phase[d]>>
    BY <1>0, <1>1 DEF StartCommand, DiesLeaving, Gone, Goto, EngineTypeOK
  <2>3. ~InTask(e)'
    BY <2>1 DEF InTask
  <2> QED  BY <2>1, <2>2, <2>3, WorkEnds
<1>2. ASSUME UNCHANGED engineVars
      PROVE  Busy' = Busy
  <2>1. \A e \in Engine : (InTask(e)' <=> InTask(e)) /\ at'[e] = at[e]
    BY <1>2 DEF InTask
  <2> QED  BY <2>1 DEF Mapped
<1>3. CASE \E e \in Engine : EngineAct(e)
  BY <1>3, EngineProgress
<1>4. CASE \E e \in Engine : StartCommand(e) \/ Crash(e)
  BY <1>1, <1>4 DEF Crash
<1>5. CASE StopMarksTask
  <2> DEFINE m == Min(stopTodo)
  <2>1. m \in stopTodo
    BY <1>0, <1>5, MinNat DEF StopMarksTask, TypeOK, Task
  <2>2. UNCHANGED engineVars /\ taskStatus' = [taskStatus EXCEPT ![m] = "stopped"]
    BY <1>5 DEF StopMarksTask, MarkTaskStopped, SetTask
  <2> HIDE DEF m
  <2>3. Completed' = Completed \ {m}
    BY <1>0, <2>2 DEF Completed, TypeOK, StoreTypeOK
  <2>4. CASE m \notin Completed
    BY <1>2, <2>2, <2>3, <2>4
  <2>5. CASE m \in Completed
    <3>1. ASSUME NEW e \in Engine
          PROVE  ~InTask(e)
      <4> SUFFICES ASSUME InTask(e)
                   PROVE  FALSE
        OBVIOUS
      <4>1. OnTask(e) /\ pc[e] \in Working
        BY InTaskWorks DEF OnTask
      <4>2. at[e] \notin Completed /\ Completed \subseteq Kept \cup 1..at[e]
            /\ 1..(at[e] - 1) \subseteq Kept /\ at[e] \in Nat
        BY <4>1, NTasksAssumption DEF OrderInv, OrderOf, Mapped, Task
      <4>3. m \in 1..at[e] /\ m # at[e]
        BY <2>1, <2>5, <4>2 DEF Kept
      <4>4. m \in 1..(at[e] - 1)
        BY <4>2, <4>3
      <4> QED  BY <2>1, <4>2, <4>4 DEF Kept
    <3>2. Busy = 0 /\ Busy' = 0
      BY <1>2, <2>2, <3>1 DEF Mapped
    <3>3. IsFiniteSet(Completed)
      <4>1. IsFiniteSet(Task)
        BY NTasksAssumption, FS_Interval DEF Task
      <4> QED  BY <4>1, FS_Subset DEF Completed
    <3>4. Cardinality(Completed \ {m}) = Cardinality(Completed) - 1 /\ Cardinality(Completed) \in Nat
      BY <2>5, <3>3, FS_RemoveElement, FS_CardinalityType
    <3>5. Cardinality(Completed) # 0
      BY <2>5, <3>3, FS_EmptySet
    <3> QED  BY <2>3, <3>2, <3>4, <3>5 DEF Progress!Next, Progress!TakeBack
  <2> QED  BY <2>4, <2>5
<1>6. CASE StopCommand \/ StopReadsJob \/ StopMarksJob \/ StopListsTasks
           \/ \E r \in Reader : ReaderLoads(r) \/ ReaderReconciles(r)
  <2>1. UNCHANGED engineVars /\ Completed' = Completed
    BY <1>6 DEF StopCommand, StopReadsJob, StopMarksJob, StopListsTasks, ReaderLoads,
       ReaderReconciles, Completed
  <2> QED  BY <1>2, <2>1
<1>7. CASE StopKills
  <2>1. CASE UNCHANGED <<Read, engineVars>>
    BY <1>2, <2>1 DEF Completed
  <2> QED  BY <1>0, <1>1, <1>7, <2>1 DEF StopKills, Alive, TypeOK
<1>8. CASE UNCHANGED vars
  BY <1>2, <1>8 DEF vars, Completed
<1> QED  BY <1>3, <1>4, <1>5, <1>6, <1>7, <1>8 DEF Next

\* A job does its tasks one at a time and in the order written, and none twice,
\* but the one that a stop racing with its end takes back: every step of the
\* engines, the stop and the crashes maps to a step of PlanProgress or to none.
THEOREM JobImplementsPlan ==
  ASSUME SerialCommands, Reader = {}
  PROVE  Spec => RefinesPlanProgress
<1>1. Init => Progress!Init
  <2> SUFFICES ASSUME Init
               PROVE  Progress!Init
    OBVIOUS
  <2>1. Completed = {} /\ \A e \in Engine : ~InTask(e)
    BY DEF Init, StoreInit, EngineInit, Completed, InTask
  <2>2. Busy = 0
    BY <2>1 DEF Busy
  <2> QED  BY <2>1, <2>2, FS_EmptySet DEF Progress!Init
<1>2. Spec => []ChainInv
  BY ChainAlways, SerialCommands
<1>3. TypeInv /\ SoleInv /\ OrderInv /\ ChainInv => Mapped
  BY MappedHolds
<1>4. TypeInv /\ SoleInv /\ OrderInv /\ Mapped /\ Mapped' /\ [Next]_vars =>
        [Progress!Next]_<<Cardinality(Completed), Busy>>
  BY ProgressNext
<1> QED
  BY <1>1, <1>2, <1>3, <1>4, TypeInvariant, SoleAlways, OrderAlways, SerialCommands, PTL
  DEF Spec, RefinesPlanProgress, Progress!Spec
=============================================================================
