------------------------------ MODULE JobEngine ------------------------------
(***************************************************************************)
(* One `mini job _run` process: start_job (job_controller.py), the task    *)
(* loop and its hooks (job_executor.py, hook_executor.py) and the attempts *)
(* of a task (task_executor.py) over the store and the git checkout.       *)
(*                                                                         *)
(* A step ends where another process can observe or change what the engine *)
(* reads next: each store transaction, each git command, each read of the  *)
(* job row and each child process is a step of its own, so a stop, a       *)
(* reader's reconcile or a crash may land between any two of them.         *)
(*                                                                         *)
(* The pcs of an engine e, in the order start_job goes through them:       *)
(*   off          no process has this pid                                  *)
(*   load, close, mark                           start_job up to RUNNING   *)
(*   hook, hookrun, hookwait                     _run_hooks, per hook      *)
(*   next, begin                                 the loop over tasks       *)
(*   attempt, agent, limited, retry              execute_task, per attempt *)
(*   commit, persist, record, stash, failtask    execute_task, at its end  *)
(*   jobdone, jobfail, exit                      start_job's last write    *)
(***************************************************************************)
EXTENDS JobStore, FiniteSetsExt

CONSTANTS
  MaxRetries,     \* TaskExecutor.MAX_RETRIES
  Hooks,          \* Hooks[p]: the on_failure of each hook of phase p, in order
  AgentOutcomes,  \* how an agent call may end
  HookOutcomes,   \* whether a hook's shell may succeed, may fail
  Faults          \* what else may fail: reading the plan, git commit and stash

OnFailure == {"skip", "retry", "fail"}

ASSUME MaxRetriesAssumption == MaxRetries \in Nat
ASSUME HooksAssumption == Hooks \in [Phase -> Seq(OnFailure)]
ASSUME OutcomesAssumption ==
  /\ AgentOutcomes \subseteq {"success", "failure", "usage_limit"}
  /\ HookOutcomes \subseteq BOOLEAN
  /\ Faults \subseteq {"plan", "git"}

VARIABLES
  tree,        \* tasks with uncommitted work in the checkout
  committed,   \* tasks whose work is in a commit
  pc,          \* where each engine is
  at,          \* its task: 0 until the first one it executes
  phase,       \* the hook list it runs
  h,           \* index of the hook in that list
  k,           \* run-local index of the attempt
  att,         \* attempt number, task.retries in memory
  snapDone,    \* tasks start_job loaded as COMPLETED
  snapRetries, \* retries of the tasks start_job loaded
  hand,        \* the handoff the next prompt is built from
  lateTasks,   \* history: tasks it dispatched while the job was STOPPED
  lateHooks    \* history: hooks it began while the job was STOPPED, up to 2

gitVars == <<tree, committed>>
localVars == <<at, phase, h, k, att, snapDone, snapRetries, hand>>
lateVars == <<lateTasks, lateHooks>>
engineVars == <<pc, localVars, lateVars>>

Starting == {"load", "close", "mark"}
Working == {"hook", "hookrun", "hookwait", "next", "begin", "attempt", "agent",
            "limited", "retry", "commit", "persist", "record", "stash",
            "failtask", "jobdone", "jobfail"}
PC == {"off", "exit"} \cup Starting \cup Working

NoHandoff == <<0, 0>>

EngineInit ==
  /\ tree = {} /\ committed = {}
  /\ pc = [e \in Engine |-> "off"]
  /\ at = [e \in Engine |-> 0]
  /\ phase = [e \in Engine |-> "pre_plan"]
  /\ h = [e \in Engine |-> 1]
  /\ k = [e \in Engine |-> 0]
  /\ att = [e \in Engine |-> 0]
  /\ snapDone = [e \in Engine |-> {}]
  /\ snapRetries = [e \in Engine |-> [t \in Task |-> 0]]
  /\ hand = [e \in Engine |-> NoHandoff]
  /\ lateTasks = [e \in Engine |-> {}]
  /\ lateHooks = [e \in Engine |-> 0]

\* What engine e is about to do next.
Goto(e, l) == pc' = [pc EXCEPT ![e] = l]
RunHooks(e, p) ==
  /\ Goto(e, "hook")
  /\ phase' = [phase EXCEPT ![e] = p]
  /\ h' = [h EXCEPT ![e] = 1]

\* The process is gone: forget what it held in memory.
Gone(e) ==
  /\ Goto(e, "off")
  /\ at' = [at EXCEPT ![e] = 0]
  /\ phase' = [phase EXCEPT ![e] = "pre_plan"]
  /\ h' = [h EXCEPT ![e] = 1]
  /\ k' = [k EXCEPT ![e] = 0]
  /\ att' = [att EXCEPT ![e] = 0]
  /\ snapDone' = [snapDone EXCEPT ![e] = {}]
  /\ snapRetries' = [snapRetries EXCEPT ![e] = [t \in Task |-> 0]]
  /\ hand' = [hand EXCEPT ![e] = NoHandoff]
  /\ lateTasks' = [lateTasks EXCEPT ![e] = {}]
  /\ lateHooks' = [lateHooks EXCEPT ![e] = 0]

\* MUTANT: an engine is looked for only while its job is RUNNING.
AliveWhileRunning(p) == p # NoPid /\ jobStatus = "running" /\ pc[p] # "off"

\* _pid_alive and engine_alive, for a pid that only engines of this job use.
Alive(p) == p # NoPid /\ pc[p] # "off"

\* JobStore.load: a RUNNING job whose engine is dead becomes FAILED on the way.
Reconciled == IF jobStatus = "running" /\ ~Alive(jobPid) THEN "failed" ELSE jobStatus
Reconcile == jobStatus' = Reconciled /\ UNCHANGED <<jobPid, stopReason>>

Read == <<storeVars, gitVars>>   \* for the steps that write nothing durable

-----------------------------------------------------------------------------
(* start_job, up to the write that takes the job over.                     *)

\* MUTANT: no own-pid check, so an engine that got the old pid backs off.
AnyEngine(e) == Alive(jobPid)

\* Another engine of this job is alive, whatever the job's status says.
OtherEngine(e) == jobPid # e /\ Alive(jobPid)

\* MUTANT: a resume skips every task an earlier run touched.
TouchedOnLoad == {t \in Task : taskStatus[t] # "pending"}

\* MUTANT: a resume starts over.
NothingOnLoad == {}

\* The tasks a run will skip.
CompletedOnLoad == {t \in Task : taskStatus[t] = "completed"}

\* The tasks' statuses and retries stay, in memory, as they are read here.
LoadJob(e) ==
  /\ pc[e] = "load" /\ Reconcile
  /\ IF Reconciled \in {"running", "completed"} \/ OtherEngine(e)
     THEN Goto(e, "exit") /\ UNCHANGED <<snapDone, snapRetries>>
     ELSE /\ Goto(e, "close")
          /\ snapDone' = [snapDone EXCEPT ![e] = CompletedOnLoad]
          /\ snapRetries' = [snapRetries EXCEPT ![e] = taskRetries]
  /\ UNCHANGED <<taskVars, hookOpen, handoff, gitVars, at, phase, h, k, att,
                 hand, lateVars>>

\* load_plan raises: start_job answers RAN_FAILED and writes nothing.
PlanUnreadable(e) ==
  /\ pc[e] = "close" /\ "plan" \in Faults /\ Goto(e, "exit")
  /\ UNCHANGED <<Read, localVars, lateVars>>

CloseInterrupted(e) ==
  /\ pc[e] = "close"
  /\ CloseInterruptedExecutions /\ Goto(e, "mark")
  /\ UNCHANGED <<jobVars, handoff, gitVars, localVars, lateVars>>

TakeOver(e) ==
  /\ pc[e] = "mark"
  /\ MarkJobRunning(e) /\ RunHooks(e, "pre_plan")
  /\ UNCHANGED <<taskVars, hookOpen, handoff, gitVars, at, k, att, snapDone,
                 snapRetries, hand, lateVars>>

-----------------------------------------------------------------------------
(* The hooks: the job's status is read before each one.                    *)

HookRow(e) ==
  <<phase[e], IF phase[e] \in {"pre_task", "post_task"} THEN at[e] ELSE 0, h[e]>>

MoreHooks(e) == h[e] <= Len(Hooks[phase[e]])

\* _raise_if_stopped
StopCheck(e, next) ==
  /\ Reconcile
  /\ Goto(e, IF jobStatus = "stopped" THEN "exit" ELSE next)
  /\ UNCHANGED <<taskVars, hookOpen, handoff, gitVars>>

\* MUTANT: the status is not read before a hook.
HookUnchecked(e) ==
  /\ pc[e] = "hook" /\ MoreHooks(e) /\ Goto(e, "hookrun")
  /\ UNCHANGED <<Read, localVars, lateVars>>

HookCheck(e) ==
  /\ pc[e] = "hook" /\ MoreHooks(e)
  /\ StopCheck(e, "hookrun")
  /\ UNCHANGED <<localVars, lateVars>>

\* The row is saved RUNNING before the shell starts.
HookStart(e) ==
  /\ pc[e] = "hookrun" /\ Goto(e, "hookwait")
  /\ hookOpen' = hookOpen \cup {HookRow(e)}
  /\ lateHooks' = [lateHooks EXCEPT ![e] =
                     IF jobStatus = "stopped" /\ @ < 2 THEN @ + 1 ELSE @]
  /\ UNCHANGED <<jobVars, taskVars, handoff, gitVars, localVars, lateTasks>>

\* The shell ended: the row is saved again, closed.
HookReturns(e, ok) ==
  /\ pc[e] = "hookwait" /\ ok \in HookOutcomes
  /\ hookOpen' = hookOpen \ {HookRow(e)}
  /\ UNCHANGED <<jobVars, taskVars, handoff, gitVars, lateVars, at, phase, k,
                 snapDone, snapRetries>>

OnFail(e) == Hooks[phase[e]][h[e]]

\* It passed, or it is a post_task hook whose failure does not block.
HookPasses(e) ==
  /\ \E ok \in BOOLEAN :
       /\ HookReturns(e, ok)
       /\ ok \/ (phase[e] = "post_task" /\ OnFail(e) = "skip")
  /\ h' = [h EXCEPT ![e] = @ + 1] /\ Goto(e, "hook")
  /\ UNCHANGED <<att, hand>>

\* A pre_plan or post_plan hook failed: execute returns False.
PlanHookFails(e) ==
  /\ HookReturns(e, FALSE) /\ Goto(e, "jobfail")
  /\ phase[e] \in {"pre_plan", "post_plan"}
  /\ UNCHANGED <<h, att, hand>>

\* A pre_task hook failed before execute_task: the task's retries in memory are
\* still those loaded, and that attempt row is the one marked FAILED.
PreTaskHookFails(e) ==
  /\ HookReturns(e, FALSE) /\ Goto(e, "failtask")
  /\ phase[e] = "pre_task"
  /\ att' = [att EXCEPT ![e] = snapRetries[e][at[e]]]
  /\ UNCHANGED <<h, hand>>

\* A post_task hook asks for another attempt, and one is left.
PostTaskHookRetries(e) ==
  /\ HookReturns(e, FALSE) /\ Goto(e, "retry")
  /\ phase[e] = "post_task" /\ OnFail(e) = "retry" /\ k[e] < MaxRetries
  /\ UNCHANGED <<h, att, hand>>

\* A post_task hook fails the task, or asks for an attempt that is not left.
PostTaskHookFails(e) ==
  /\ HookReturns(e, FALSE) /\ Goto(e, "stash")
  /\ phase[e] = "post_task"
  /\ OnFail(e) = "fail" \/ (OnFail(e) = "retry" /\ k[e] >= MaxRetries)
  /\ UNCHANGED <<h, att, hand>>

\* Where the engine goes when a list of hooks is through.
AfterHooks(p) == CASE p = "pre_plan"  -> "next"
                   [] p = "pre_task"  -> "begin"
                   [] p = "post_task" -> "commit"
                   [] p = "post_plan" -> "jobdone"

HooksDone(e) ==
  /\ pc[e] = "hook" /\ ~MoreHooks(e)
  /\ Goto(e, AfterHooks(phase[e]))
  /\ UNCHANGED <<Read, localVars, lateVars>>

-----------------------------------------------------------------------------
(* execute: the loop over the tasks.                                       *)

\* The tasks still ahead of the engine that it did not load as COMPLETED.
Ahead(e) == {t \in Task : t > at[e]} \ snapDone[e]

\* MUTANT: the handoff of the previous task's first attempt, not of its last.
SeededFromFirst(e, t) ==
  IF t > 1 /\ <<t - 1, 0>> \in handoff THEN <<t - 1, 0>> ELSE NoHandoff

\* The handoff of the completed task before t, or "" when its file is gone.
SeededHandoff(e, t) ==
  LET f == <<t - 1, snapRetries[e][t - 1]>>
  IN  IF t > 1 /\ f \in handoff THEN f ELSE NoHandoff

\* Every task ran: only the post_plan hooks are left.
TasksDone(e) ==
  /\ pc[e] = "next" /\ Ahead(e) = {}
  /\ RunHooks(e, "post_plan")
  /\ UNCHANGED <<Read, at, k, att, snapDone, snapRetries, hand, lateVars>>

\* Take the next task that is not COMPLETED, unless the job was stopped.
NextTask(e) ==
  /\ pc[e] = "next" /\ Ahead(e) # {}
  /\ StopCheck(e, "hook")
  /\ IF jobStatus = "stopped"
     THEN UNCHANGED <<at, phase, h, hand>>
     ELSE LET t == Min(Ahead(e)) IN
          /\ at' = [at EXCEPT ![e] = t]
          /\ phase' = [phase EXCEPT ![e] = "pre_task"]
          /\ h' = [h EXCEPT ![e] = 1]
          /\ hand' = [hand EXCEPT ![e] =
                        IF at[e] = 0 THEN SeededHandoff(e, t) ELSE @]
  /\ UNCHANGED <<k, att, snapDone, snapRetries, lateVars>>

-----------------------------------------------------------------------------
(* execute_task: the attempts of one task.                                 *)

\* The job is loaded once more and the attempts start. A run continues the
\* attempt numbers of earlier runs with a fresh budget.
\* Bound: no run begins that could need a number above MaxAttempt.
BeginTask(e) ==
  /\ pc[e] = "begin" /\ Goto(e, "attempt")
  /\ \E n \in Attempt :
       /\ IsNextAttempt(at[e], n) /\ n + MaxRetries <= MaxAttempt
       /\ att' = [att EXCEPT ![e] = n]
  /\ k' = [k EXCEPT ![e] = 0]
  /\ Reconcile
  /\ UNCHANGED <<taskVars, hookOpen, handoff, gitVars, at, phase, h,
                 snapDone, snapRetries, hand, lateVars>>

\* mark_running, then the agent is launched.
StartAttempt(e) ==
  /\ pc[e] = "attempt" /\ Goto(e, "agent")
  /\ MarkRunning(at[e], att[e])
  /\ lateTasks' = [lateTasks EXCEPT ![e] =
                     IF jobStatus = "stopped" THEN @ \cup {at[e]} ELSE @]
  /\ UNCHANGED <<jobVars, hookOpen, handoff, gitVars, localVars, lateHooks>>

\* What an agent at work, ended or killed, leaves: edits and a handoff, or not.
AgentLeaves(e) ==
  /\ tree' \in {tree, tree \cup {at[e]}}
  /\ handoff' \in {handoff, handoff \cup {<<at[e], att[e]>>}}

AgentSucceeds(e) ==
  /\ pc[e] = "agent" /\ "success" \in AgentOutcomes
  /\ AgentLeaves(e) /\ RunHooks(e, "post_task")
  /\ UNCHANGED <<jobVars, taskVars, hookOpen, committed, at, k, att, snapDone,
                 snapRetries, hand, lateVars>>

\* MUTANT: one attempt too many.
AgentFailsOnceMore(e) ==
  /\ pc[e] = "agent" /\ "failure" \in AgentOutcomes
  /\ AgentLeaves(e) /\ Goto(e, IF k[e] <= MaxRetries THEN "retry" ELSE "stash")
  /\ UNCHANGED <<jobVars, taskVars, hookOpen, committed, localVars, lateVars>>

AgentFails(e) ==
  /\ pc[e] = "agent" /\ "failure" \in AgentOutcomes
  /\ AgentLeaves(e) /\ Goto(e, IF k[e] < MaxRetries THEN "retry" ELSE "stash")
  /\ UNCHANGED <<jobVars, taskVars, hookOpen, committed, localVars, lateVars>>

AgentHitsLimit(e) ==
  /\ pc[e] = "agent" /\ "usage_limit" \in AgentOutcomes
  /\ AgentLeaves(e) /\ Goto(e, "limited")
  /\ UNCHANGED <<jobVars, taskVars, hookOpen, committed, localVars, lateVars>>

\* MUTANT: the limit ends the run the way a failed task does.
UsageLimitFails(e) ==
  /\ pc[e] = "limited" /\ Goto(e, "jobfail")
  /\ MarkTaskUsageLimited(at[e], att[e])
  /\ UNCHANGED <<hookOpen, handoff, gitVars, localVars, lateVars>>

\* mark_task_usage_limited, then JobStopped: no retry, no hook, no stash.
UsageLimited(e) ==
  /\ pc[e] = "limited" /\ Goto(e, "exit")
  /\ MarkTaskUsageLimited(at[e], att[e])
  /\ UNCHANGED <<hookOpen, handoff, gitVars, localVars, lateVars>>

\* The attempt is recorded and the next one starts from its handoff.
RetryTask(e) ==
  /\ pc[e] = "retry" /\ Goto(e, "attempt")
  /\ RecordAttempt(at[e], att[e])
  /\ hand' = [hand EXCEPT ![e] = <<at[e], att[e]>>]
  /\ k' = [k EXCEPT ![e] = @ + 1]
  /\ att' = [att EXCEPT ![e] = @ + 1]
  /\ UNCHANGED <<jobVars, hookOpen, handoff, gitVars, at, phase, h, snapDone,
                 snapRetries, lateVars>>

\* MUTANT: the task is recorded before its handoff is on disk.
CommitThenRecord(e) ==
  /\ pc[e] = "commit" /\ Goto(e, "record")
  /\ tree' = {} /\ committed' = committed \cup tree
  /\ UNCHANGED <<storeVars, localVars, lateVars>>

\* git add -A and commit: everything the checkout holds. A failure is ignored.
CommitTask(e) ==
  /\ pc[e] = "commit" /\ Goto(e, "persist")
  /\ \/ tree' = {} /\ committed' = committed \cup tree
     \/ "git" \in Faults /\ UNCHANGED gitVars
  /\ UNCHANGED <<storeVars, localVars, lateVars>>

\* The winning attempt's handoff is on disk before the task is COMPLETED.
PersistHandoff(e) ==
  /\ pc[e] = "persist" /\ Goto(e, "record")
  /\ handoff' = handoff \cup {<<at[e], att[e]>>}
  /\ UNCHANGED <<jobVars, taskVars, hookOpen, gitVars, localVars, lateVars>>

RecordTask(e) ==
  /\ pc[e] = "record" /\ Goto(e, "next")
  /\ RecordCompleted(at[e], att[e])
  /\ hand' = [hand EXCEPT ![e] = <<at[e], att[e]>>]
  /\ UNCHANGED <<jobVars, hookOpen, handoff, gitVars, at, phase, h, k, att,
                 snapDone, snapRetries, lateVars>>

\* Out of attempts: the uncommitted work is parked in a git stash.
StashWork(e) ==
  /\ pc[e] = "stash" /\ Goto(e, "failtask")
  /\ \/ tree' = {} /\ UNCHANGED committed
     \/ "git" \in Faults /\ UNCHANGED gitVars
  /\ UNCHANGED <<storeVars, localVars, lateVars>>

\* MUTANT: the run goes on after a failed task.
FailTaskGoesOn(e) ==
  /\ pc[e] = "failtask" /\ Goto(e, "next")
  /\ MarkTaskFailed(at[e], att[e])
  /\ UNCHANGED <<jobVars, hookOpen, handoff, gitVars, localVars, lateVars>>

FailTask(e) ==
  /\ pc[e] = "failtask" /\ Goto(e, "jobfail")
  /\ MarkTaskFailed(at[e], att[e])
  /\ UNCHANGED <<jobVars, hookOpen, handoff, gitVars, localVars, lateVars>>

-----------------------------------------------------------------------------
(* start_job's last write, unconditional, and the end of the process.      *)

FinishJob(e) ==
  /\ pc[e] \in {"jobdone", "jobfail"} /\ Goto(e, "exit")
  /\ MarkJob(IF pc[e] = "jobdone" THEN "completed" ELSE "failed")
  /\ UNCHANGED <<taskVars, hookOpen, handoff, gitVars, localVars, lateVars>>

Exit(e) ==
  /\ pc[e] = "exit" /\ Gone(e)
  /\ UNCHANGED Read

EngineStep(e) ==
  \/ LoadJob(e) \/ PlanUnreadable(e)
  \/ CloseInterrupted(e) \/ TakeOver(e)
  \/ HookCheck(e) \/ HookStart(e) \/ HookPasses(e) \/ PlanHookFails(e)
  \/ PreTaskHookFails(e) \/ PostTaskHookRetries(e) \/ PostTaskHookFails(e)
  \/ HooksDone(e) \/ TasksDone(e) \/ NextTask(e)
  \/ BeginTask(e) \/ StartAttempt(e)
  \/ AgentSucceeds(e) \/ AgentFails(e) \/ AgentHitsLimit(e)
  \/ UsageLimited(e) \/ RetryTask(e)
  \/ CommitTask(e) \/ PersistHandoff(e) \/ RecordTask(e)
  \/ StashWork(e) \/ FailTask(e) \/ FinishJob(e) \/ Exit(e)

EngineTypeOK ==
  /\ tree \subseteq Task /\ committed \subseteq Task
  /\ pc \in [Engine -> PC]
  /\ at \in [Engine -> 0..NTasks]
  /\ phase \in [Engine -> Phase]
  /\ h \in [Engine -> Nat \ {0}]
  /\ k \in [Engine -> 0..MaxRetries]
  /\ att \in [Engine -> Attempt]
  /\ snapDone \in [Engine -> SUBSET Task]
  /\ snapRetries \in [Engine -> [Task -> Attempt]]
  /\ hand \in [Engine -> (Task \X Attempt) \cup {NoHandoff}]
  /\ lateTasks \in [Engine -> SUBSET Task]
  /\ lateHooks \in [Engine -> 0..2]
=============================================================================
