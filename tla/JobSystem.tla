------------------------------ MODULE JobSystem ------------------------------
(***************************************************************************)
(* A job and everything that touches it: the engines `mini job start`      *)
(* spawns, the `mini job stop` command, the readers (`mini job list`, the  *)
(* dashboard) whose every load reconciles, and crashes.                    *)
(***************************************************************************)
EXTENDS JobEngine

CONSTANTS
  Reader,         \* processes that only read jobs
  SerialCommands, \* no start or stop is issued before the last one took effect
  KillMayFail,    \* an engine may outlive the signals of a stop
  MaxSpawns,      \* bound: engines started
  MaxStops,       \* bound: stop commands
  MaxCrashes      \* bound: engines that die on their own

ASSUME SystemAssumption ==
  /\ SerialCommands \in BOOLEAN /\ KillMayFail \in BOOLEAN
  /\ MaxSpawns \in Nat /\ MaxStops \in Nat /\ MaxCrashes \in Nat

VARIABLES
  stopPc,   \* where the stop command is
  stopPid,  \* the engine it read and will kill
  stopTodo, \* the tasks it read and still has to mark
  seen,     \* per reader: the pid of the RUNNING job it loaded, or "nothing"
  spawns, stops, crashes  \* what the bounds count

stopVars == <<stopPc, stopPid, stopTodo>>
boundVars == <<spawns, stops, crashes>>
vars == <<storeVars, gitVars, engineVars, stopVars, seen, boundVars>>

Init ==
  /\ StoreInit /\ EngineInit
  /\ stopPc = "idle" /\ stopPid = NoPid /\ stopTodo = {}
  /\ seen = [r \in Reader |-> "nothing"]
  /\ spawns = 0 /\ stops = 0 /\ crashes = 0

Engines(S) == {e \in Engine : pc[e] \in S}

-----------------------------------------------------------------------------
(* The commands.                                                           *)

\* `mini job start`: spawn an engine unless the job is live or complete.
StartCommand(e) ==
  /\ spawns < MaxSpawns /\ pc[e] = "off"
  /\ SerialCommands => stopPc = "idle" /\ Engines(Starting) = {}
  /\ Reconciled \notin {"running", "completed"} /\ ~Alive(jobPid)
  /\ Reconcile /\ Goto(e, "load") /\ spawns' = spawns + 1
  /\ UNCHANGED <<taskVars, hookOpen, handoff, gitVars,
                 localVars, lateVars, stopVars, seen, stops, crashes>>

\* `mini job stop` is accepted: the job is RUNNING, or its old engine is alive.
StopCommand ==
  /\ stops < MaxStops /\ stopPc = "idle"
  /\ SerialCommands => Engines(Starting) = {}
  /\ Reconciled = "running" \/ Alive(jobPid)
  /\ Reconcile /\ stopPc' = "read" /\ stops' = stops + 1
  /\ UNCHANGED <<taskVars, hookOpen, handoff, gitVars, engineVars, stopPid,
                 stopTodo, seen, spawns, crashes>>

\* stop_job reads the job again: this is the engine it will kill.
StopReadsJob ==
  /\ stopPc = "read" /\ stopPc' = "mark" /\ stopPid' = jobPid
  /\ UNCHANGED <<Read, engineVars, stopTodo, seen, boundVars>>

\* The job is marked STOPPED before anything is killed.
StopMarksJob ==
  /\ stopPc = "mark" /\ stopPc' = "list"
  /\ MarkJob("stopped")
  /\ UNCHANGED <<taskVars, hookOpen, handoff, gitVars, engineVars, stopPid,
                 stopTodo, seen, boundVars>>

\* The tasks are read once; each is marked later from what was read here.
StopListsTasks ==
  /\ stopPc = "list" /\ stopPc' = "tasks"
  /\ stopTodo' = {t \in Task : taskStatus[t] \in {"running", "pending"}}
  /\ UNCHANGED <<storeVars, gitVars, engineVars, stopPid, seen, boundVars>>

StopMarksTask ==
  /\ stopPc = "tasks" /\ stopTodo # {}
  /\ MarkTaskStopped(Min(stopTodo))
  /\ stopTodo' = stopTodo \ {Min(stopTodo)}
  /\ UNCHANGED <<jobVars, hookOpen, handoff, gitVars, engineVars, stopPc,
                 stopPid, seen, boundVars>>

\* What a process that dies leaves of the agent it was waiting for.
DiesLeaving(e) ==
  /\ Gone(e)
  /\ IF pc[e] = "agent" THEN AgentLeaves(e) ELSE UNCHANGED <<tree, handoff>>
  /\ UNCHANGED <<jobVars, taskVars, hookOpen, committed>>

\* stop_engine: the verified engine and its process group are killed.
StopKills ==
  /\ stopPc = "tasks" /\ stopTodo = {}
  /\ stopPc' = "idle" /\ stopPid' = NoPid
  /\ \/ Alive(stopPid) /\ DiesLeaving(stopPid)
     \/ (Alive(stopPid) => KillMayFail) /\ UNCHANGED <<Read, engineVars>>
  /\ UNCHANGED <<stopTodo, seen, boundVars>>

-----------------------------------------------------------------------------
(* Readers and crashes.                                                    *)

\* A load reads the job row first and checks the pid afterwards.
ReaderLoads(r) ==
  /\ seen[r] = "nothing" /\ jobStatus = "running"
  /\ seen' = [seen EXCEPT ![r] = jobPid]
  /\ UNCHANGED <<Read, engineVars, stopVars, boundVars>>

\* MUTANT: a load does not write what it found.
ReaderOnlyLooks(r) ==
  /\ seen[r] # "nothing"
  /\ seen' = [seen EXCEPT ![r] = "nothing"]
  /\ UNCHANGED <<Read, engineVars, stopVars, boundVars>>

\* _reconcile: a dead pid makes the job FAILED, whatever its row says by now.
ReaderReconciles(r) ==
  /\ seen[r] # "nothing"
  /\ seen' = [seen EXCEPT ![r] = "nothing"]
  /\ IF Alive(seen[r]) THEN UNCHANGED jobVars ELSE MarkJob("failed")
  /\ UNCHANGED <<taskVars, hookOpen, handoff, gitVars, engineVars, stopVars,
                 boundVars>>

\* The engine's process dies, or an exception nothing catches ends it.
Crash(e) ==
  /\ crashes < MaxCrashes /\ pc[e] # "off"
  /\ DiesLeaving(e) /\ crashes' = crashes + 1
  /\ UNCHANGED <<stopVars, seen, spawns, stops>>

-----------------------------------------------------------------------------
EngineAct(e) == EngineStep(e) /\ UNCHANGED <<stopVars, seen, boundVars>>

Next ==
  \/ \E e \in Engine : EngineAct(e) \/ StartCommand(e) \/ Crash(e)
  \/ StopCommand \/ StopReadsJob \/ StopMarksJob \/ StopListsTasks
  \/ StopMarksTask \/ StopKills
  \/ \E r \in Reader : ReaderLoads(r) \/ ReaderReconciles(r)

Spec == Init /\ [][Next]_vars

-----------------------------------------------------------------------------
TypeOK ==
  /\ StoreTypeOK /\ EngineTypeOK
  /\ stopPc \in {"idle", "read", "mark", "list", "tasks"}
  /\ stopPid \in Engine \cup {NoPid}
  /\ stopTodo \subseteq Task
  /\ seen \in [Reader -> Engine \cup {NoPid, "nothing"}]
  /\ spawns \in 0..MaxSpawns /\ stops \in 0..MaxStops
  /\ crashes \in 0..MaxCrashes

-----------------------------------------------------------------------------
(* Safety.                                                                 *)

\* Two engines never work on the job's checkout at once: what start_job's pid
\* check is for ("a second engine beside it would commit its files").
OneEngine == \A d, e \in Engine : pc[d] \in Working /\ pc[e] \in Working => d = e

\* From the first attempt of a task to its COMPLETED, or to giving it up.
InTask(e) == pc[e] \in {"attempt", "agent", "limited", "retry", "commit",
                       "persist", "record", "stash"}
             \/ (pc[e] \in {"hook", "hookrun", "hookwait"} /\ phase[e] = "post_task")

Completed == {t \in Task : taskStatus[t] = "completed"}

\* A task is attempted only when every task before it is COMPLETED, also after
\* a stop whose list of tasks is stale by the time it marks them.
TasksInOrder ==
  \A e \in Engine : InTask(e) => 1..(at[e] - 1) \subseteq Completed

\* A COMPLETED task has its winning handoff on disk, whatever crashed when: the
\* "completion invariant" execute_task is written around.
HandoffBeforeCompleted == \A t \in Completed : <<t, taskRetries[t]>> \in handoff

\* The prompt of an attempt is built from the attempt before it: the last one of
\* this run, else the one that completed the previous task, also on a resume.
HandoverChain ==
  \A e \in Engine : pc[e] = "agent" =>
    hand[e] = IF k[e] > 0 THEN <<at[e], att[e] - 1>>
              ELSE IF at[e] = 1 THEN NoHandoff
              ELSE <<at[e] - 1, taskRetries[at[e] - 1]>>

\* Once an engine took the job over, the only rows still RUNNING are of what it
\* runs itself: the timeline shows no ghost of a stopped or crashed run.
RowsOwned ==
  \A e \in Engine : pc[e] \in Working =>
    /\ \A t \in Task, a \in Attempt : row[t][a] = "running" => t = at[e] /\ a = att[e]
    /\ hookOpen \subseteq {HookRow(e)}

\* A task's commit holds the work of that task alone, and a COMPLETED task has
\* no work left outside its commit (while git itself works).
CheckoutOwned ==
  /\ \A e \in Engine : pc[e] = "commit" => tree \subseteq {at[e]}
  /\ tree \cap Completed = {}

\* A job an agent's usage limit stopped stays STOPPED, with its reason, until it
\* is started again: "FAILED would bury it".
LimitKept == stopReason = "usage_limit" => jobStatus = "stopped"

\* An engine that outlives its stop begins at most the one hook, and works on at
\* most the one task, it was about to begin when the job was marked.  (Not counted are
\* the attempts at that task: TaskExecutor's retries do not ask whether the job was
\* stopped.)
StopHeeded == \A e \in Engine : Cardinality(lateTasks[e]) <= 1 /\ lateHooks[e] <= 1

-----------------------------------------------------------------------------
(* The plan's progress: the job implements PlanProgress.                   *)

Busy == LET B == {e \in Engine : InTask(e)}
        IN  IF B = {} THEN 0 ELSE at[CHOOSE e \in B : TRUE]

Progress == INSTANCE PlanProgress WITH done <- Cardinality(Completed), busy <- Busy

\* Tasks run one at a time and in order, a task recorded as done is not run again
\* unless a stop that raced with its end takes it back.
RefinesPlanProgress == Progress!Spec

-----------------------------------------------------------------------------
(* What the code's comments and the README say, and the code does not do.  *)

\* "its status is re-read before every task and every hook, so an engine that
\* outlives its stop goes no further": no new attempt starts on a STOPPED job.
NoRetryAfterStop ==
  [][\A e \in Engine : pc[e] = "attempt" /\ pc'[e] = "agent" /\ k[e] > 0
                        => jobStatus # "stopped"]_vars

\* "already-committed tasks are not re-run": an agent is not launched for a task
\* whose work is in a commit.
CommittedNotRerun ==
  [][\A e \in Engine : pc[e] = "attempt" /\ pc'[e] = "agent"
                        => at[e] \notin committed]_vars

\* "RUNNING -> COMPLETED: All tasks complete successfully": a COMPLETED job has
\* only COMPLETED tasks, also when a stop raced with its end.
CompletedJobDone == jobStatus = "completed" => Completed = Task

-----------------------------------------------------------------------------
(* Liveness: processes that live keep going; nobody has to stop the job,   *)
(* crash, or read it, but somebody polls it and somebody starts it again.  *)

StopStep == StopReadsJob \/ StopMarksJob \/ StopListsTasks \/ StopMarksTask \/ StopKills

Fairness ==
  /\ \A e \in Engine : WF_vars(EngineAct(e)) /\ WF_vars(StartCommand(e))
  /\ WF_vars(StopStep)
  /\ \A r \in Reader : WF_vars(ReaderLoads(r)) /\ WF_vars(ReaderReconciles(r))

FairSpec == Spec /\ Fairness

\* A job does not stay RUNNING forever: it ends, or its dead engine is noticed.
RunningEnds == jobStatus = "running" ~> jobStatus # "running"

\* Started again after each stop and crash, a job whose agents and hooks succeed
\* gets through its whole plan.
PlanFinishes == <>(jobStatus = "completed")
=============================================================================
