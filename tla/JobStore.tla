------------------------------ MODULE JobStore ------------------------------
(***************************************************************************)
(* The durable side of a job: the row of the jobs table, the rows of the   *)
(* tasks and executions tables, and the handoff files, with the writes     *)
(* storage/job_store.py offers over them.  Every write is one SQLite       *)
(* transaction, so every operator below is one step of whoever calls it.   *)
(* A definition marked MUTANT is a plausible bug, used only to show that a *)
(* property notices it (README, "Mutants").                                *)
(*                                                                         *)
(* Timestamps, diffs, commit hashes, exit reasons and names are left out:  *)
(* no property tells them apart.  A handoff file is present in `handoff`   *)
(* when it exists and is not blank.                                        *)
(***************************************************************************)
EXTENDS Naturals, Sequences, FiniteSets

CONSTANTS
  NTasks,      \* number of tasks of the plan, in the order written
  MaxAttempt,  \* bound: highest attempt number a task may reach
  Engine,      \* process ids an engine can get
  NoPid        \* the pid of a job that was never started

ASSUME NTasksAssumption == NTasks \in Nat \ {0}
ASSUME MaxAttemptAssumption == MaxAttempt \in Nat
ASSUME NoPidAssumption == NoPid \notin Engine

VARIABLES
  jobStatus,   \* jobs.status
  jobPid,      \* jobs.pid
  stopReason,  \* jobs.stop_reason
  taskStatus,  \* tasks.status
  taskRetries, \* tasks.retries: the winning or last attempt, 0 while unknown
  row,         \* executions: status of each attempt of each task
  hookOpen,    \* executions: the hook rows whose status is RUNNING
  handoff      \* the non-blank files handoffs/<task>/attempt-<n>.md

jobVars == <<jobStatus, jobPid, stopReason>>
taskVars == <<taskStatus, taskRetries, row>>
storeVars == <<jobVars, taskVars, hookOpen, handoff>>

Task == 1..NTasks
Attempt == 0..MaxAttempt
Status == {"pending", "running", "completed", "failed", "stopped"}
Phase == {"pre_plan", "pre_task", "post_task", "post_plan"}

\* A hook's executions row: its kind, its task (0 for a plan hook), its index.
HookKey == Phase \X (0..NTasks) \X Nat

\* A job fresh from `mini job new`: nothing ran, no engine was ever started.
StoreInit ==
  /\ jobStatus = "pending" /\ jobPid = NoPid /\ stopReason = "none"
  /\ taskStatus = [t \in Task |-> "pending"]
  /\ taskRetries = [t \in Task |-> 0]
  /\ row = [t \in Task |-> [a \in Attempt |-> "none"]]
  /\ hookOpen = {}
  /\ handoff = {}

-----------------------------------------------------------------------------
(* The job row.                                                            *)

\* Starting again takes the pid over and clears the reason of the last stop.
MarkJobRunning(e) ==
  /\ jobStatus' = "running" /\ jobPid' = e /\ stopReason' = "none"

\* mark_job_completed, mark_job_failed and mark_job_stopped: an UPDATE of the
\* status alone, whatever it was before.
MarkJob(s) == jobStatus' = s /\ UNCHANGED <<jobPid, stopReason>>

-----------------------------------------------------------------------------
(* The task and attempt rows.                                              *)

SetTask(t, s, r) ==
  /\ taskStatus' = [taskStatus EXCEPT ![t] = s]
  /\ taskRetries' = [taskRetries EXCEPT ![t] = r]

SetRow(t, a, s) == row' = [row EXCEPT ![t][a] = s]

\* The attempt number a new run of t starts at: one past its highest row.
IsNextAttempt(t, n) ==
  /\ \A a \in Attempt : a >= n => row[t][a] = "none"
  /\ \A a \in Attempt : a + 1 = n => row[t][a] # "none"

\* update_task_status writes retries = 0 unless it is told otherwise.
MarkRunning(t, a) == SetTask(t, "running", 0) /\ SetRow(t, a, "running")

RecordAttempt(t, a) == SetTask(t, "pending", 0) /\ SetRow(t, a, "failed")

RecordCompleted(t, a) == SetTask(t, "completed", a) /\ SetRow(t, a, "completed")

MarkTaskFailed(t, a) == SetTask(t, "failed", a) /\ SetRow(t, a, "failed")

\* One transaction stops the task, its attempt and its job, with the reason.
MarkTaskUsageLimited(t, a) ==
  /\ SetTask(t, "stopped", a) /\ SetRow(t, a, "stopped")
  /\ jobStatus' = "stopped" /\ stopReason' = "usage_limit"
  /\ UNCHANGED jobPid

MarkTaskStopped(t) == SetTask(t, "stopped", 0) /\ UNCHANGED row

\* MUTANT: only the attempts are closed, the hooks are forgotten.
CloseInterruptedAttempts ==
  /\ row' = [t \in Task |-> [a \in Attempt |->
               IF row[t][a] = "running" THEN "failed" ELSE row[t][a]]]
  /\ UNCHANGED <<taskStatus, taskRetries, hookOpen>>

\* Close every row an earlier run left RUNNING, as the job itself ended.
CloseInterruptedExecutions ==
  LET closed == IF jobStatus = "stopped" THEN "stopped" ELSE "failed"
  IN  /\ row' = [t \in Task |-> [a \in Attempt |->
                   IF row[t][a] = "running" THEN closed ELSE row[t][a]]]
      /\ hookOpen' = {}
      /\ UNCHANGED <<taskStatus, taskRetries>>

-----------------------------------------------------------------------------
StoreTypeOK ==
  /\ jobStatus \in Status
  /\ jobPid \in Engine \cup {NoPid}
  /\ stopReason \in {"none", "usage_limit"}
  /\ taskStatus \in [Task -> Status]
  /\ taskRetries \in [Task -> Attempt]
  /\ row \in [Task -> [Attempt -> {"none"} \cup Status]]
  /\ hookOpen \subseteq HookKey
  /\ handoff \subseteq Task \X Attempt
=============================================================================
