------------------------------ MODULE JobRows ------------------------------
(***************************************************************************)
(* What a job's views show, and when it is written: the times of the job,  *)
(* of its tasks and of its executions, and one agent_runs row per agent    *)
(* call.  The engine of JobEngine, seen by its rows alone: every hook and  *)
(* attempt it begins and ends, in order, with the times it stamps          *)
(* (storage/job_store.py, orchestration/hook_executor.py); beside it a     *)
(* stop, which marks the job and then, from the list it made, its tasks,   *)
(* and a load, which marks the job it found RUNNING when its engine is     *)
(* gone: what each of them read may have changed when it writes.           *)
(*                                                                         *)
(* Every stamped write takes the next tick of the clock; 0 is a NULL time. *)
(* JobEngine and JobSystem have the handoffs, git and a second engine;     *)
(* here a job is started when no engine of it lives and no stop or load of *)
(* it is under way.                                                        *)
(***************************************************************************)
EXTENDS Integers, Sequences, FiniteSets

CONSTANTS
  NTasks,      \* tasks of the plan
  HookPhases,  \* phases of the plan that have a hook
  MaxAttempt,  \* bound: highest attempt number of a task
  MaxRetries,  \* TaskExecutor.MAX_RETRIES
  MaxRuns,     \* bound: how often the job is started
  MaxStops     \* bound: stop commands

Task == 1..NTasks
Attempt == 0..MaxAttempt
Phase == {"pre_plan", "pre_task", "post_task", "post_plan"}

ASSUME JobRowsAssumption ==
  /\ NTasks \in Nat \ {0} /\ MaxAttempt \in Nat /\ MaxRetries \in Nat /\ MaxRuns \in Nat
  /\ MaxStops \in Nat /\ HookPhases \subseteq Phase

VARIABLES
  clock,  \* the next time stamp
  job,    \* jobs: status, started, completed, and whether a usage limit stopped it
  task,   \* tasks: status, started, completed, retries
  exec,   \* executions by execution_id: status, started, ended
  runs,   \* agent_runs of a task attempt: not started, open, or how it ended
  eng,    \* the engine: where it is, the tasks it has still to run, its task,
          \* attempt, retry, the retries it loaded, the agent's end
  stop,   \* `mini job stop`: where it is, the tasks it has still to mark
  seen    \* a load that found this run RUNNING may still be under way

rowVars == <<clock, job, task, exec, runs, eng>>
commandVars == <<stop, seen>>

\* Execution.execution_id: a hook's row is the same on every run, an attempt's is
\* its own.
Key == {<<p, 0, 0>> : p \in {"pre_plan", "post_plan"}}
       \cup ({"pre_task", "post_task"} \X Task \X {0})
       \cup ({"task"} \X Task \X Attempt)

NoRow == [status |-> "none", started |-> 0, ended |-> 0]
Idle == [at |-> "off", todo |-> {}, task |-> 0, attempt |-> 0, k |-> 0,
         was |-> [t \in Task |-> 0], done |-> 0, runs |-> 0]
NoStop == [at |-> "idle", todo |-> {}, stops |-> 0]

RowsInit ==
  /\ clock = 1
  /\ job = [status |-> "pending", started |-> 0, completed |-> 0, limited |-> FALSE]
  /\ task = [t \in Task |-> [status |-> "pending", started |-> 0, completed |-> 0,
                             retries |-> 0]]
  /\ exec = [k \in Key |-> NoRow]
  /\ runs = [t \in Task |-> [a \in Attempt |-> "none"]]
  /\ eng = Idle /\ stop = NoStop /\ seen = FALSE

-----------------------------------------------------------------------------
(* The writes, at time `clock`.                                            *)

Tick == clock' = clock + 1
Goto(where) == eng' = [eng EXCEPT !.at = where]
Running == job.status = "running"

\* update_job_status keeps completed_at when it is given none.
MarkJobRunning ==
  job' = [job EXCEPT !.status = "running", !.started = clock, !.limited = FALSE]
MarkJob(s) == job' = [job EXCEPT !.status = s, !.completed = clock]

EndTask(t, s, r) ==
  task' = [task EXCEPT ![t] = [@ EXCEPT !.status = s, !.completed = clock, !.retries = r]]

OpenRow(k) == exec' = [exec EXCEPT ![k] = [status |-> "running", started |-> clock, ended |-> 0]]
CloseRow(k, s, end) == exec' = [exec EXCEPT ![k] = [@ EXCEPT !.status = s, !.ended = end]]

\* MUTANT: the end of the earlier run stays on the task.
RerunTask(t) ==
  task' = [task EXCEPT ![t] = [@ EXCEPT !.status = "running", !.retries = 0,
             !.started = IF eng.k = 0 THEN clock ELSE @]]

\* The first attempt of a run stamps the task anew and clears its end.
MarkTaskRunning(t) ==
  task' = [task EXCEPT ![t] = [@ EXCEPT !.status = "running", !.retries = 0,
             !.started = IF eng.k = 0 THEN clock ELSE task[t].started,
             !.completed = IF eng.k = 0 THEN 0 ELSE task[t].completed]]

\* MUTANT: a run begins and leaves the rows it finds as they are.
CloseNothing == UNCHANGED exec

\* Rows an earlier run left RUNNING end when the job did, not before they began.
CloseInterrupted ==
  LET ended(r) == IF job.completed = 0 \/ job.completed < r.started
                  THEN r.started ELSE job.completed
      closed == IF job.status = "stopped" THEN "stopped" ELSE "failed"
  IN  exec' = [k \in Key |-> IF exec[k].status = "running"
                 THEN [exec[k] EXCEPT !.status = closed, !.ended = ended(exec[k])]
                 ELSE exec[k]]

NextAttempt(t) ==
  CHOOSE n \in 0..(MaxAttempt + 1) :
    /\ \A a \in Attempt : a >= n => exec[<<"task", t, a>>].status = "none"
    /\ n > 0 => exec[<<"task", t, n - 1>>].status # "none"

-----------------------------------------------------------------------------
(* The engine.  `at` is a phase whose hook comes next, its hook running, or *)
(* a place inside a task.                                                  *)

HookKey(p) == IF p \in {"pre_plan", "post_plan"} THEN <<p, 0, 0>> ELSE <<p, eng.task, 0>>
HookRun(p) ==
  CASE p = "pre_plan" -> "pre_plan_hook" [] p = "pre_task" -> "pre_task_hook"
    [] p = "post_task" -> "post_task_hook" [] p = "post_plan" -> "post_plan_hook"

\* start_job: a job that is neither running nor complete, by nobody's engine; its
\* tasks and their retries are those it loads.  (Nobody starts a job while he stops
\* it; and a load takes milliseconds: none spans the end of a run, another load's
\* FAILED and the next start.)
StartRun ==
  /\ eng.at = "off" /\ eng.runs < MaxRuns
  /\ stop.at = "idle"
  /\ job.status \in {"pending", "failed", "stopped"}
  /\ CloseInterrupted /\ MarkJobRunning /\ Tick
  /\ eng' = [Idle EXCEPT !.at = "pre_plan", !.runs = eng.runs + 1,
               !.todo = {t \in Task : task[t].status # "completed"},
               !.was = [t \in Task |-> task[t].retries]]
  /\ seen' = TRUE /\ UNCHANGED <<task, runs, stop>>

\* _raise_if_stopped, before each hook and each task: the run ends as it is.
SeeStopped ==
  /\ eng.at \in HookPhases \/ (eng.at = "next" /\ eng.todo # {})
  /\ job.status = "stopped"
  /\ Goto("off") /\ UNCHANGED <<clock, job, task, exec, runs>>

HookBegin(p) ==
  /\ eng.at = p /\ p \in HookPhases /\ job.status # "stopped"
  /\ OpenRow(HookKey(p)) /\ Tick /\ Goto(HookRun(p))
  /\ UNCHANGED <<job, task, runs>>

AfterHooks(p) == CASE p = "pre_plan" -> "next" [] p = "pre_task" -> "attempt"
                   [] p = "post_task" -> "complete" [] p = "post_plan" -> "succeed"

NoHook(p) ==
  /\ eng.at = p /\ p \notin HookPhases
  /\ Goto(AfterHooks(p)) /\ UNCHANGED <<clock, job, task, exec, runs>>

HookPasses(p) ==
  /\ eng.at = HookRun(p)
  /\ CloseRow(HookKey(p), "completed", clock) /\ Tick /\ Goto(AfterHooks(p))
  /\ UNCHANGED <<job, task, runs>>

\* A post_task hook's on_failure is retry, fail or skip; the others block.
HookFails(p) ==
  /\ eng.at = HookRun(p)
  /\ CloseRow(HookKey(p), "failed", clock) /\ Tick
  /\ \E at \in CASE p = "pre_task" -> {"hook_failed"}
                 [] p = "post_task" -> {"retry", "give_up", "complete"}
                 [] OTHER -> {"fail"} : Goto(at)
  /\ UNCHANGED <<job, task, runs>>

\* The next task that was not COMPLETED when it was loaded, or the plan's post hooks.
NextTask ==
  /\ eng.at = "next"
  /\ \/ eng.todo = {} /\ Goto("post_plan")
     \/ /\ job.status # "stopped"
        /\ \E t \in eng.todo :
             /\ \A u \in eng.todo : t <= u
             /\ eng' = [eng EXCEPT !.at = "pre_task", !.task = t, !.attempt = NextAttempt(t),
                                   !.k = 0, !.todo = @ \ {t}]
  /\ UNCHANGED <<clock, job, task, exec, runs>>

\* A pre_task hook failed: mark_task_failed closes the row of the retries the run
\* loaded, which it may also create.
PreHookFailed ==
  LET t == eng.task IN
  /\ eng.at = "hook_failed"
  /\ EndTask(t, "failed", eng.was[t])
  /\ CloseRow(<<"task", t, eng.was[t]>>, "failed", clock)
  /\ Tick /\ Goto("fail") /\ UNCHANGED <<job, runs>>

\* mark_running: the task and its attempt row, one transaction; then the call.
BeginAttempt ==
  /\ eng.at = "attempt" /\ eng.attempt \in Attempt
  /\ MarkTaskRunning(eng.task)
  /\ OpenRow(<<"task", eng.task, eng.attempt>>)
  /\ Tick /\ Goto("call") /\ UNCHANGED <<job, runs>>

StartAgentRun ==
  /\ eng.at = "call"
  /\ runs' = [runs EXCEPT ![eng.task][eng.attempt] = "open"]
  /\ Goto("agent") /\ UNCHANGED <<clock, job, task, exec>>

\* The agent returns, having reported its tokens or not; agent_end is stamped.
FinishAgentRun ==
  /\ eng.at = "agent"
  /\ \E tokens \in {"reported", "unknown"}, out \in {"post_task", "retry", "limit"} :
       /\ runs' = [runs EXCEPT ![eng.task][eng.attempt] = tokens]
       /\ eng' = [eng EXCEPT !.at = out, !.done = clock]
  /\ Tick /\ UNCHANGED <<job, task, exec>>

\* MUTANT: the job is marked before the rows are, each in a transaction.
LimitJobFirst ==
  \/ /\ eng.at = "limit"
     /\ job' = [job EXCEPT !.status = "stopped", !.completed = clock, !.limited = TRUE]
     /\ Tick /\ Goto("limit rows") /\ UNCHANGED <<task, exec, runs>>
  \/ /\ eng.at = "limit rows"
     /\ EndTask(eng.task, "stopped", eng.attempt)
     /\ CloseRow(<<"task", eng.task, eng.attempt>>, "stopped", eng.done)
     /\ Tick /\ Goto("off") /\ UNCHANGED <<job, runs>>

\* A usage limit closes attempt, task and job in one transaction.
UsageLimit ==
  /\ eng.at = "limit"
  /\ EndTask(eng.task, "stopped", eng.attempt)
  /\ CloseRow(<<"task", eng.task, eng.attempt>>, "stopped", eng.done)
  /\ job' = [job EXCEPT !.status = "stopped", !.completed = clock, !.limited = TRUE]
  /\ Tick /\ Goto("off") /\ UNCHANGED runs

\* The attempt failed, or its post_task hook asks for another.
RetryAttempt ==
  /\ eng.at = "retry" /\ eng.k < MaxRetries
  /\ task' = [task EXCEPT ![eng.task].status = "pending", ![eng.task].retries = 0]
  /\ CloseRow(<<"task", eng.task, eng.attempt>>, "failed", eng.done)
  /\ eng' = [eng EXCEPT !.at = "attempt", !.attempt = @ + 1, !.k = @ + 1]
  /\ UNCHANGED <<clock, job, runs>>

FailTask ==
  /\ eng.at = "give_up" \/ (eng.at = "retry" /\ eng.k >= MaxRetries)
  /\ EndTask(eng.task, "failed", eng.attempt)
  /\ CloseRow(<<"task", eng.task, eng.attempt>>, "failed", eng.done)
  /\ Tick /\ Goto("fail") /\ UNCHANGED <<job, runs>>

CompleteTask ==
  /\ eng.at = "complete"
  /\ EndTask(eng.task, "completed", eng.attempt)
  /\ CloseRow(<<"task", eng.task, eng.attempt>>, "completed", eng.done)
  /\ Tick /\ Goto("next") /\ UNCHANGED <<job, runs>>

\* The engine's last write, whatever the job's status is by then.
EndJob ==
  /\ eng.at \in {"succeed", "fail"}
  /\ MarkJob(IF eng.at = "succeed" THEN "completed" ELSE "failed")
  /\ Tick /\ Goto("off") /\ UNCHANGED <<task, exec, runs>>

-----------------------------------------------------------------------------
(* The rest of the world.                                                  *)

\* The engine's process dies; at the end of a run it exits with the last write.
Killed ==
  /\ eng.at # "off"
  /\ Goto("off") /\ UNCHANGED <<clock, job, task, exec, runs>>

Engine ==
  \/ SeeStopped \/ NextTask \/ PreHookFailed \/ BeginAttempt \/ StartAgentRun
  \/ FinishAgentRun \/ UsageLimit \/ RetryAttempt \/ FailTask \/ CompleteTask \/ EndJob
  \/ \E p \in Phase : HookBegin(p) \/ NoHook(p) \/ HookPasses(p) \/ HookFails(p)

\* `mini job stop` was accepted while the run's engine was alive, exiting included.
\* It marks the job here, whatever the row says and the engine did since.
StopMarksJob ==
  /\ stop.at = "idle" /\ stop.stops < MaxStops /\ eng.runs > 0
  /\ MarkJob("stopped") /\ Tick
  /\ stop' = [stop EXCEPT !.at = "list", !.stops = @ + 1]
  /\ UNCHANGED <<task, exec, runs, eng, seen>>

\* The tasks are read once.
StopListsTasks ==
  /\ stop.at = "list"
  /\ LET open == {t \in Task : task[t].status \in {"running", "pending"}}
     IN  stop' = [stop EXCEPT !.at = IF open = {} THEN "idle" ELSE "tasks", !.todo = open]
  /\ UNCHANGED <<rowVars, seen>>

\* Each is marked later, from what was read; then the engine may be Killed, or not.
StopMarksTask ==
  /\ stop.at = "tasks"
  /\ \E t \in stop.todo :
       /\ \A u \in stop.todo : t <= u
       /\ EndTask(t, "stopped", 0)
       /\ stop' = [stop EXCEPT !.todo = @ \ {t}, !.at = IF stop.todo = {t} THEN "idle" ELSE @]
  /\ Tick /\ UNCHANGED <<job, exec, runs, eng, seen>>

\* Any command's load found the run RUNNING at some time and asks for its engine
\* here: _reconcile marks the job FAILED, whatever the row says by now.  (One load of a
\* run that is so late: each writes the same.)
Reconcile ==
  /\ seen /\ eng.at = "off" /\ seen' = FALSE
  /\ MarkJob("failed") /\ Tick
  /\ UNCHANGED <<task, exec, runs, eng, stop>>

Command == StopMarksJob \/ StopListsTasks \/ StopMarksTask \/ Reconcile

-----------------------------------------------------------------------------
\* Nothing a view subtracts is negative: an execution and a task end after they
\* began, also when a later run begins them again or closes what it finds open.
TimesOrdered ==
  /\ \A k \in Key : exec[k].started > 0 /\ exec[k].ended > 0 => exec[k].started <= exec[k].ended
  /\ \A t \in Task : task[t].started > 0 /\ task[t].completed > 0
                       => task[t].started <= task[t].completed
=============================================================================
