--------------------------- MODULE JobPageProofs ---------------------------
(***************************************************************************)
(* Proofs about a job's rows and its page, for every plan, retry count and *)
(* number of runs, whatever a stop or a load writes late: no view          *)
(* subtracts a later time from an earlier one; what the page stops polling *)
(* on has every row and call as it stays; its rows then add up to the      *)
(* tokens of each task and of the job; and a completed job shows no        *)
(* running step, a completed attempt of every task, and no bar that goes   *)
(* backwards or beyond its end.                                            *)
(***************************************************************************)
EXTENDS JobPage, FiniteSetTheorems, WellFoundedInduction, TLAPS

RowStatus == {"none", "pending", "running", "completed", "failed", "stopped"}

\* The places of an attempt before and after its agent's end was stamped.
Begun == {"call", "agent"}
Ended == {"post_task", "post_task_hook", "retry", "limit", "give_up", "complete"}
Before == {"pre_task", "pre_task_hook", "attempt", "hook_failed"}

\* What the writes below update.  (The attempt number is a number once the engine
\* begins the attempt: NextAttempt may be beyond the bound before.)
Shape ==
  /\ clock \in Nat \ {0}
  /\ job \in [status : RowStatus, started : Nat, completed : Nat, limited : BOOLEAN]
  /\ exec \in [Key -> [status : RowStatus, started : Nat, ended : Nat]]
  /\ task \in [Task -> [status : RowStatus, started : Nat, completed : Nat, retries : Attempt]]
  /\ eng = [at |-> eng.at, todo |-> eng.todo, task |-> eng.task, attempt |-> eng.attempt,
            k |-> eng.k, was |-> eng.was, done |-> eng.done, runs |-> eng.runs]
  /\ eng.todo \subseteq Task /\ eng.was \in [Task -> Attempt] /\ eng.done \in Nat
  /\ eng.at \in Before \cup Begun \cup Ended => eng.task \in Task
  /\ eng.at \in Begun \cup Ended => eng.attempt \in Attempt

\* Every beginning that is written is before now, and so is the job's last end.
Past ==
  /\ job.completed < clock
  /\ \A k \in Key : exec[k].started < clock
  /\ \A t \in Task : task[t].started < clock

\* The agent's end, with which its attempt's row is closed, is after its beginning.
AgentEnds ==
  eng.at \in Ended => exec[<<"task", eng.task, eng.attempt>>].started <= eng.done

TimesInv == Shape /\ Past /\ AgentEnds /\ TimesOrdered

\* A stop marks tasks of the plan.
StopInv ==
  /\ stop = [at |-> stop.at, todo |-> stop.todo, stops |-> stop.stops]
  /\ stop.todo \subseteq Task

LEMMA TaskKeys == \A t \in Task, a \in Attempt : <<"task", t, a>> \in Key
  BY DEF Key

LEMMA HookKeys ==
  ASSUME NEW p \in Phase, p \in {"pre_task", "post_task"} => eng.task \in Task
  PROVE  HookKey(p) \in Key /\ \A t \in Task, a \in Attempt : HookKey(p) # <<"task", t, a>>
  BY DEF Phase, HookKey, Key

-----------------------------------------------------------------------------
(* The writes to the rows.                                                 *)

LEMMA OpenRowKeeps ==
  ASSUME TimesInv, NEW k \in Key, OpenRow(k), Tick
  PROVE  /\ exec' \in [Key -> [status : RowStatus, started : Nat, ended : Nat]]
         /\ \A j \in Key : exec'[j].started < clock'
         /\ \A j \in Key : exec'[j].started > 0 /\ exec'[j].ended > 0
                             => exec'[j].started <= exec'[j].ended
         /\ \A j \in Key \ {k} : exec'[j] = exec[j]
         /\ exec'[k].started = clock
  BY DEF TimesInv, Shape, Past, TimesOrdered, OpenRow, Tick, RowStatus

LEMMA CloseRowKeeps ==
  ASSUME TimesInv, NEW k \in Key, NEW s \in RowStatus, NEW end \in Nat,
         exec[k].started <= end, CloseRow(k, s, end), clock' \in {clock, clock + 1}
  PROVE  /\ exec' \in [Key -> [status : RowStatus, started : Nat, ended : Nat]]
         /\ \A j \in Key : exec'[j].started < clock'
         /\ \A j \in Key : exec'[j].started > 0 /\ exec'[j].ended > 0
                             => exec'[j].started <= exec'[j].ended
         /\ \A j \in Key : exec'[j].started = exec[j].started
<1>1. exec'[k] = [status |-> s, started |-> exec[k].started, ended |-> end]
  BY DEF TimesInv, Shape, CloseRow
<1>2. \A j \in Key \ {k} : exec'[j] = exec[j]
  BY DEF TimesInv, Shape, CloseRow
<1>3. exec' \in [Key -> [status : RowStatus, started : Nat, ended : Nat]]
  BY DEF TimesInv, Shape, CloseRow
<1>4. \A j \in Key : exec'[j].started = exec[j].started
  BY <1>1, <1>2
<1>5. QED
  BY <1>1, <1>2, <1>3, <1>4 DEF TimesInv, Shape, Past, TimesOrdered

LEMMA EndTaskKeeps ==
  ASSUME TimesInv, NEW t \in Task, NEW s \in RowStatus, NEW r \in Attempt, EndTask(t, s, r), Tick
  PROVE  /\ task' \in [Task -> [status : RowStatus, started : Nat, completed : Nat,
                                 retries : Attempt]]
         /\ \A u \in Task : task'[u].started < clock'
         /\ \A u \in Task : task'[u].started > 0 /\ task'[u].completed > 0
                              => task'[u].started <= task'[u].completed
<1>1. task'[t] = [status |-> s, started |-> task[t].started, completed |-> clock, retries |-> r]
  BY DEF TimesInv, Shape, EndTask
<1>2. \A u \in Task \ {t} : task'[u] = task[u]
  BY DEF TimesInv, Shape, EndTask
<1>3. clock \in Nat \ {0} /\ clock' = clock + 1
  BY DEF TimesInv, Shape, Tick
<1>4. task' \in [Task -> [status : RowStatus, started : Nat, completed : Nat,
                         retries : Attempt]]
  BY <1>3 DEF TimesInv, Shape, EndTask
<1>5. ASSUME NEW u \in Task
      PROVE  /\ task[u].started \in Nat /\ task[u].started < clock
             /\ task[u].started > 0 /\ task[u].completed > 0
                  => task[u].started <= task[u].completed
  BY DEF TimesInv, Shape, Past, TimesOrdered
<1>6. ASSUME NEW u \in Task
      PROVE  /\ task'[u].started < clock'
             /\ task'[u].started > 0 /\ task'[u].completed > 0
                  => task'[u].started <= task'[u].completed
  <2>1. CASE u = t
    BY <1>1, <1>3, <1>5, <2>1
  <2>2. CASE u # t
    BY <1>2, <1>3, <1>5, <2>2
  <2>3. QED BY <2>1, <2>2
<1>7. QED
  BY <1>4, <1>6

LEMMA MarkJobKeeps ==
  ASSUME TimesInv, NEW s \in RowStatus, MarkJob(s), Tick
  PROVE  /\ job' \in [status : RowStatus, started : Nat, completed : Nat, limited : BOOLEAN]
         /\ job'.completed < clock' /\ clock' \in Nat \ {0} /\ clock' = clock + 1
<1>1. clock \in Nat \ {0} /\ clock' = clock + 1
  BY DEF TimesInv, Shape, Tick
<1>2. job' = [status |-> s, started |-> job.started, completed |-> clock,
              limited |-> job.limited]
  BY DEF TimesInv, Shape, MarkJob
<1>3. job' \in [status : RowStatus, started : Nat, completed : Nat, limited : BOOLEAN]
  BY <1>1, <1>2 DEF TimesInv, Shape
<1>4. QED
  BY <1>1, <1>2, <1>3

\* A job that is marked changes nothing else: the rows' times stay where they are.
LEMMA MarkedStep ==
  ASSUME TimesInv, NEW s \in RowStatus, MarkJob(s), Tick, UNCHANGED <<task, exec>>,
         UNCHANGED eng \/ Goto("off")
  PROVE  TimesInv'
<1>1. Shape'
  BY MarkJobKeeps DEF TimesInv, Shape, Goto, Before, Begun, Ended
<1>2. Past'
  BY MarkJobKeeps DEF TimesInv, Shape, Past
<1>3. AgentEnds' /\ TimesOrdered'
  BY DEF TimesInv, Shape, AgentEnds, TimesOrdered, Goto, Ended
<1>4. QED
  BY <1>1, <1>2, <1>3 DEF TimesInv

-----------------------------------------------------------------------------
(* The steps of the engine.                                                *)

\* A step that writes no time.
LEMMA QuietStep ==
  ASSUME TimesInv,
         \/ UNCHANGED rowVars \/ SeeStopped \/ NextTask \/ StartAgentRun \/ Killed
         \/ \E p \in Phase : NoHook(p)
  PROVE  TimesInv'
<1>1. UNCHANGED <<clock, job, task, exec>>
  BY DEF rowVars, SeeStopped, NextTask, StartAgentRun, Killed, NoHook
<1>2. Past' /\ TimesOrdered'
  BY <1>1 DEF TimesInv, Past, TimesOrdered
<1>3. Shape'
  <2>1. CASE NextTask
    <3>1. CASE eng.todo = {} /\ Goto("post_plan")
      BY <1>1, <3>1 DEF Goto, TimesInv, Shape, Before, Begun, Ended
    <3>2. ASSUME NEW t \in eng.todo,
                 eng' = [eng EXCEPT !.at = "pre_task", !.task = t, !.attempt = NextAttempt(t),
                                    !.k = 0, !.todo = @ \ {t}]
          PROVE  Shape'
      <4>1. eng' = [at |-> "pre_task", todo |-> eng.todo \ {t}, task |-> t,
                    attempt |-> NextAttempt(t), k |-> 0, was |-> eng.was, done |-> eng.done,
                    runs |-> eng.runs]
        BY <3>2 DEF TimesInv, Shape
      <4>2. QED
        BY <1>1, <4>1 DEF TimesInv, Shape, Before, Begun, Ended
    <3>3. QED
      BY <2>1, <3>1, <3>2 DEF NextTask
  <2>2. CASE UNCHANGED rowVars \/ SeeStopped \/ StartAgentRun \/ Killed
    BY <1>1, <2>2 DEF rowVars, SeeStopped, StartAgentRun, Killed, Goto, TimesInv, Shape,
       Before, Begun, Ended
  <2>3. ASSUME NEW p \in Phase, NoHook(p)
        PROVE  Shape'
    BY <1>1, <2>3 DEF NoHook, Goto, AfterHooks, Phase, TimesInv, Shape, Before, Begun, Ended
  <2>4. QED
    BY <2>1, <2>2, <2>3
<1>4. AgentEnds'
  <2>1. CASE UNCHANGED rowVars \/ SeeStopped \/ StartAgentRun \/ Killed \/ NextTask
    BY <1>1, <2>1 DEF rowVars, SeeStopped, StartAgentRun, Killed, NextTask, Goto, TimesInv,
       Shape, AgentEnds, Ended
  <2>2. ASSUME NEW p \in Phase, NoHook(p)
        PROVE  AgentEnds'
    BY <1>1, <2>2 DEF NoHook, Goto, AfterHooks, Phase, TimesInv, Shape, AgentEnds, Ended
  <2>3. QED
    BY <2>1, <2>2
<1>5. QED
  BY <1>2, <1>3, <1>4 DEF TimesInv

\* A hook's row is no attempt's row.
LEMMA HookStep ==
  ASSUME TimesInv, NEW p \in Phase, HookBegin(p) \/ HookPasses(p) \/ HookFails(p)
  PROVE  TimesInv'
<1>1. p \in {"pre_task", "post_task"} => eng.task \in Task
  BY DEF HookBegin, HookPasses, HookFails, HookRun, TimesInv, Shape, Before, Ended
<1>2. HookKey(p) \in Key /\ \A t \in Task, a \in Attempt : HookKey(p) # <<"task", t, a>>
  BY <1>1, HookKeys
<1>3. clock \in Nat \ {0} /\ clock' = clock + 1 /\ UNCHANGED <<job, task>>
  BY DEF HookBegin, HookPasses, HookFails, TimesInv, Shape, Tick
<1>4. /\ exec' \in [Key -> [status : RowStatus, started : Nat, ended : Nat]]
      /\ \A j \in Key : exec'[j].started < clock'
      /\ \A j \in Key : exec'[j].started > 0 /\ exec'[j].ended > 0
                          => exec'[j].started <= exec'[j].ended
      /\ \A j \in Key \ {HookKey(p)} : exec'[j].started = exec[j].started
  <2>1. CASE HookBegin(p)
    BY <1>2, <2>1, OpenRowKeeps DEF HookBegin
  <2>2. CASE HookPasses(p) \/ HookFails(p)
    <3>1. PICK s \in RowStatus : CloseRow(HookKey(p), s, clock)
      BY <2>2 DEF HookPasses, HookFails, RowStatus
    <3>2. exec[HookKey(p)].started <= clock
      BY <1>2, <1>3 DEF TimesInv, Shape, Past
    <3>3. QED
      BY <1>2, <1>3, <3>1, <3>2, CloseRowKeeps
  <2>3. QED
    BY <2>1, <2>2
<1>5. \E at \in {"pre_plan_hook", "pre_task_hook", "post_task_hook", "post_plan_hook", "next",
                 "attempt", "complete", "succeed", "hook_failed", "retry", "give_up", "fail"} :
        /\ Goto(at)
        /\ at \in Before => p = "pre_task"
        /\ at \in Ended => p = "post_task"
  BY DEF HookBegin, HookPasses, HookFails, HookRun, AfterHooks, Phase, Before, Ended
<1>6. p = "post_task" => eng.at \in Ended
  BY DEF HookBegin, HookPasses, HookFails, HookRun, Ended
<1>7. Shape'
  BY <1>1, <1>3, <1>4, <1>5, <1>6 DEF TimesInv, Shape, Goto, Begun, Before, Ended
<1>8. AgentEnds'
  <2>1. SUFFICES ASSUME eng'.at \in Ended
                 PROVE  exec'[<<"task", eng'.task, eng'.attempt>>].started <= eng'.done
    BY DEF AgentEnds
  <2>2. UNCHANGED <<eng.task, eng.attempt, eng.done>> /\ eng.at \in Ended
    BY <1>5, <1>6, <2>1 DEF TimesInv, Shape, Goto
  <2>3. <<"task", eng.task, eng.attempt>> \in Key \ {HookKey(p)}
    BY <1>2, <2>2, TaskKeys DEF TimesInv, Shape
  <2>4. QED
    BY <1>4, <2>2, <2>3 DEF TimesInv, AgentEnds
<1>9. QED
  BY <1>3, <1>4, <1>7, <1>8 DEF TimesInv, Shape, Past, TimesOrdered

\* The row and the task of the attempt that begins; nothing is known of the agent's
\* end before it is stamped.
LEMMA BeginStep ==
  ASSUME TimesInv, BeginAttempt
  PROVE  TimesInv'
<1> DEFINE k == <<"task", eng.task, eng.attempt>>
<1>1. k \in Key /\ eng.task \in Task /\ eng.attempt \in Attempt
  BY TaskKeys DEF BeginAttempt, TimesInv, Shape, Before
<1>2. clock \in Nat \ {0} /\ clock' = clock + 1 /\ job' = job
  BY DEF BeginAttempt, TimesInv, Shape, Tick
<1>3. /\ exec' \in [Key -> [status : RowStatus, started : Nat, ended : Nat]]
      /\ \A j \in Key : exec'[j].started < clock'
      /\ \A j \in Key : exec'[j].started > 0 /\ exec'[j].ended > 0
                          => exec'[j].started <= exec'[j].ended
  <2>1. OpenRow(k) /\ Tick
    BY DEF BeginAttempt
  <2>2. QED
    BY <1>1, <2>1, OpenRowKeeps
<1>4. /\ task' \in [Task -> [status : RowStatus, started : Nat, completed : Nat,
                              retries : Attempt]]
      /\ \A t \in Task : \/ task'[t].started = clock /\ task'[t].completed = 0
                         \/ /\ task'[t].started = task[t].started
                            /\ task'[t].completed = task[t].completed
  <2>1. 0 \in Attempt
    BY JobRowsAssumption DEF Attempt
  <2>2. MarkTaskRunning(eng.task)
    BY DEF BeginAttempt
  <2>3. \A t \in Task \ {eng.task} : task'[t] = task[t]
    BY <1>1, <2>2 DEF MarkTaskRunning, TimesInv, Shape
  <2> DEFINE started == IF eng.k = 0 THEN clock ELSE task[eng.task].started
             completed == IF eng.k = 0 THEN 0 ELSE task[eng.task].completed
  <2>7. started \in Nat /\ completed \in Nat
    BY <1>1, <1>2 DEF TimesInv, Shape
  <2>4. task'[eng.task] = [status |-> "running", started |-> started, completed |-> completed,
                           retries |-> 0]
    <3>1. CASE eng.k = 0
      BY <1>1, <2>2, <3>1 DEF MarkTaskRunning, TimesInv, Shape
    <3>2. CASE eng.k # 0
      BY <1>1, <2>2, <3>2 DEF MarkTaskRunning, TimesInv, Shape
    <3>3. QED
      BY <3>1, <3>2
  <2> HIDE DEF started, completed
  <2>8. DOMAIN task' = Task /\ task' = [t \in Task |-> task'[t]]
    BY <2>2 DEF MarkTaskRunning, TimesInv, Shape
  <2>5. task' \in [Task -> [status : RowStatus, started : Nat, completed : Nat,
                            retries : Attempt]]
    BY <1>1, <2>1, <2>3, <2>4, <2>7, <2>8 DEF TimesInv, Shape, RowStatus
  <2>6. QED
    BY <1>1, <2>3, <2>4, <2>5 DEF started, completed
<1>5. Shape' /\ eng'.at = "call"
  BY <1>1, <1>2, <1>3, <1>4 DEF BeginAttempt, Goto, TimesInv, Shape
<1>6. Past' /\ TimesOrdered'
  <2>1. job' = job /\ job.completed < clock' /\ clock' = clock + 1
    BY <1>2 DEF TimesInv, Shape, Past
  <2>2. ASSUME NEW u \in Task
        PROVE  /\ task'[u].started < clock'
               /\ task'[u].started > 0 /\ task'[u].completed > 0
                    => task'[u].started <= task'[u].completed
    <3>1. /\ task[u].started \in Nat /\ task[u].started < clock
          /\ task[u].started > 0 /\ task[u].completed > 0
               => task[u].started <= task[u].completed
      BY DEF TimesInv, Shape, Past, TimesOrdered
    <3>2. QED
      BY <1>2, <1>4, <2>1, <3>1
  <2>3. QED
    BY <1>3, <2>1, <2>2 DEF Past, TimesOrdered
<1>7. AgentEnds'
  BY <1>5 DEF AgentEnds, Ended
<1>8. QED
  BY <1>5, <1>6, <1>7 DEF TimesInv

\* The agent's end is stamped now.
LEMMA AgentEndStep ==
  ASSUME TimesInv, FinishAgentRun
  PROVE  TimesInv'
<1>1. /\ clock \in Nat \ {0} /\ clock' = clock + 1 /\ UNCHANGED <<job, task, exec>>
      /\ eng'.done = clock /\ UNCHANGED <<eng.task, eng.attempt>>
      /\ eng.task \in Task /\ eng.attempt \in Attempt
  BY DEF FinishAgentRun, Tick, TimesInv, Shape, Begun
<1>2. Shape'
  <2>1. PICK out \in {"post_task", "retry", "limit"} :
          eng' = [eng EXCEPT !.at = out, !.done = clock]
    BY DEF FinishAgentRun
  <2>2. eng' = [at |-> out, todo |-> eng.todo, task |-> eng.task, attempt |-> eng.attempt,
                k |-> eng.k, was |-> eng.was, done |-> clock, runs |-> eng.runs]
    BY <2>1 DEF TimesInv, Shape
  <2>3. QED
    BY <1>1, <2>2 DEF TimesInv, Shape
<1>3. AgentEnds'
  BY <1>1, TaskKeys DEF TimesInv, Shape, Past, AgentEnds
<1>4. QED
  BY <1>1, <1>2, <1>3 DEF TimesInv, Shape, Past, TimesOrdered

\* An attempt's row is closed with the end of its agent, which is after its beginning.
LEMMA AttemptCloses ==
  ASSUME TimesInv, NEW s \in RowStatus, eng.at \in Ended,
         CloseRow(<<"task", eng.task, eng.attempt>>, s, eng.done), clock' \in {clock, clock + 1}
  PROVE  /\ eng.task \in Task /\ eng.attempt \in Attempt /\ clock \in Nat \ {0}
         /\ exec' \in [Key -> [status : RowStatus, started : Nat, ended : Nat]]
         /\ \A j \in Key : exec'[j].started < clock'
         /\ \A j \in Key : exec'[j].started > 0 /\ exec'[j].ended > 0
                             => exec'[j].started <= exec'[j].ended
<1> DEFINE k == <<"task", eng.task, eng.attempt>>
<1>1. /\ eng.task \in Task /\ eng.attempt \in Attempt /\ clock \in Nat \ {0}
      /\ k \in Key /\ eng.done \in Nat /\ exec[k].started <= eng.done
  BY TaskKeys DEF TimesInv, Shape, AgentEnds
<1>2. CloseRow(k, s, eng.done)
  OBVIOUS
<1> HIDE DEF k
<1>3. QED
  BY <1>1, <1>2, CloseRowKeeps

\* The task and its attempt's row end, and no attempt's end is to be written any more.
LEMMA TaskEndStep ==
  ASSUME TimesInv, UsageLimit \/ FailTask \/ CompleteTask
  PROVE  TimesInv'
<1>1. PICK s \in RowStatus :
        /\ EndTask(eng.task, s, eng.attempt)
        /\ CloseRow(<<"task", eng.task, eng.attempt>>, s, eng.done)
  BY DEF UsageLimit, FailTask, CompleteTask, RowStatus
<1>2. eng.at \in Ended /\ Tick /\ clock' = clock + 1
  BY DEF UsageLimit, FailTask, CompleteTask, Ended, Tick
<1>3. /\ eng.task \in Task /\ eng.attempt \in Attempt /\ clock \in Nat \ {0}
      /\ exec' \in [Key -> [status : RowStatus, started : Nat, ended : Nat]]
      /\ \A j \in Key : exec'[j].started < clock'
      /\ \A j \in Key : exec'[j].started > 0 /\ exec'[j].ended > 0
                          => exec'[j].started <= exec'[j].ended
  BY <1>1, <1>2, AttemptCloses
<1>4. /\ task' \in [Task -> [status : RowStatus, started : Nat, completed : Nat,
                              retries : Attempt]]
      /\ \A u \in Task : task'[u].started < clock'
      /\ \A u \in Task : task'[u].started > 0 /\ task'[u].completed > 0
                           => task'[u].started <= task'[u].completed
  BY <1>1, <1>2, <1>3, EndTaskKeeps
<1>5. /\ job' \in [status : RowStatus, started : Nat, completed : Nat, limited : BOOLEAN]
      /\ job'.completed < clock'
  <2>1. CASE UsageLimit
    <3>1. job' = [status |-> "stopped", started |-> job.started, completed |-> clock,
                  limited |-> TRUE]
      BY <2>1 DEF UsageLimit, TimesInv, Shape
    <3>2. QED
      BY <1>2, <1>3, <3>1 DEF TimesInv, Shape, RowStatus
  <2>2. CASE FailTask \/ CompleteTask
    BY <1>2, <1>3, <2>2 DEF FailTask, CompleteTask, TimesInv, Shape, Past
  <2>3. QED
    BY <2>1, <2>2
<1>6. \E at \in {"off", "fail", "next"} : Goto(at)
  BY DEF UsageLimit, FailTask, CompleteTask
<1>7. Shape' /\ AgentEnds'
  <2>1. PICK at \in {"off", "fail", "next"} : Goto(at)
    BY <1>6
  <2>2. eng' = [at |-> at, todo |-> eng.todo, task |-> eng.task, attempt |-> eng.attempt,
                k |-> eng.k, was |-> eng.was, done |-> eng.done, runs |-> eng.runs]
    BY <2>1 DEF Goto, TimesInv, Shape
  <2>3. at \notin Before \cup Begun \cup Ended
    BY DEF Before, Begun, Ended
  <2>4. clock' \in Nat \ {0}
    BY <1>2, <1>3 DEF TimesInv, Shape
  <2>5. eng.todo \subseteq Task /\ eng.was \in [Task -> Attempt] /\ eng.done \in Nat
    BY DEF TimesInv, Shape
  <2>6. /\ eng' = [at |-> eng'.at, todo |-> eng'.todo, task |-> eng'.task,
                   attempt |-> eng'.attempt, k |-> eng'.k, was |-> eng'.was,
                   done |-> eng'.done, runs |-> eng'.runs]
        /\ eng'.todo \subseteq Task /\ eng'.was \in [Task -> Attempt] /\ eng'.done \in Nat
        /\ eng'.at \notin Before \cup Begun \cup Ended
    BY <2>2, <2>3, <2>5
  <2>7. QED
    BY <1>3, <1>4, <1>5, <2>4, <2>6 DEF Shape, AgentEnds
<1>8. QED
  BY <1>3, <1>4, <1>5, <1>7 DEF TimesInv, Past, TimesOrdered

\* The row of an attempt that is tried again ends; the task's times stay.
LEMMA RetryStep ==
  ASSUME TimesInv, RetryAttempt
  PROVE  TimesInv'
<1>1. /\ CloseRow(<<"task", eng.task, eng.attempt>>, "failed", eng.done)
      /\ eng.at \in Ended /\ clock' = clock /\ job' = job /\ "failed" \in RowStatus
  BY DEF RetryAttempt, Ended, RowStatus
<1>2. /\ eng.task \in Task /\ eng.attempt \in Attempt /\ clock \in Nat \ {0}
      /\ exec' \in [Key -> [status : RowStatus, started : Nat, ended : Nat]]
      /\ \A j \in Key : exec'[j].started < clock'
      /\ \A j \in Key : exec'[j].started > 0 /\ exec'[j].ended > 0
                          => exec'[j].started <= exec'[j].ended
  BY <1>1, AttemptCloses
<1>3. task' = [task EXCEPT ![eng.task] = [@ EXCEPT !.status = "pending", !.retries = 0]]
  BY <1>2 DEF RetryAttempt, TimesInv, Shape
<1>4. /\ task' \in [Task -> [status : RowStatus, started : Nat, completed : Nat,
                              retries : Attempt]]
      /\ \A t \in Task : /\ task'[t].started = task[t].started
                         /\ task'[t].completed = task[t].completed
  <2>1. 0 \in Attempt /\ "pending" \in RowStatus
    BY JobRowsAssumption DEF Attempt, RowStatus
  <2>2. QED
    BY <1>2, <1>3, <2>1 DEF TimesInv, Shape
<1>5. Shape' /\ AgentEnds'
  BY <1>1, <1>2, <1>4 DEF RetryAttempt, TimesInv, Shape, AgentEnds, Before, Begun, Ended
<1>6. QED
  BY <1>1, <1>2, <1>4, <1>5 DEF TimesInv, Past, TimesOrdered

\* A failed pre_task hook ends the task, and the row of the retries it was loaded with.
LEMMA PreHookStep ==
  ASSUME TimesInv, PreHookFailed
  PROVE  TimesInv'
<1> DEFINE k == <<"task", eng.task, eng.was[eng.task]>>
<1>1. /\ eng.task \in Task /\ eng.was[eng.task] \in Attempt /\ clock \in Nat \ {0}
      /\ clock' = clock + 1 /\ job' = job /\ "failed" \in RowStatus /\ Goto("fail")
  BY DEF PreHookFailed, TimesInv, Shape, Before, Tick, RowStatus
<1>2. k \in Key /\ exec[k].started <= clock
  BY <1>1, TaskKeys DEF TimesInv, Shape, Past
<1>3. CloseRow(k, "failed", clock) /\ EndTask(eng.task, "failed", eng.was[eng.task]) /\ Tick
  BY DEF PreHookFailed
<1> HIDE DEF k
<1>4. /\ exec' \in [Key -> [status : RowStatus, started : Nat, ended : Nat]]
      /\ \A j \in Key : exec'[j].started < clock'
      /\ \A j \in Key : exec'[j].started > 0 /\ exec'[j].ended > 0
                          => exec'[j].started <= exec'[j].ended
  BY <1>1, <1>2, <1>3, CloseRowKeeps
<1>5. /\ task' \in [Task -> [status : RowStatus, started : Nat, completed : Nat,
                              retries : Attempt]]
      /\ \A u \in Task : task'[u].started < clock'
      /\ \A u \in Task : task'[u].started > 0 /\ task'[u].completed > 0
                           => task'[u].started <= task'[u].completed
  BY <1>1, <1>3, EndTaskKeeps
<1>6. Shape' /\ AgentEnds'
  BY <1>1, <1>4, <1>5 DEF TimesInv, Shape, AgentEnds, Goto, Before, Begun, Ended
<1>7. QED
  BY <1>1, <1>4, <1>5, <1>6 DEF TimesInv, Shape, Past, TimesOrdered

-----------------------------------------------------------------------------
(* The steps beside the engine's.                                          *)

LEMMA StopInvStep == ASSUME StopInv, [PageNext]_pageVars PROVE StopInv'
<1>1. CASE StopMarksJob
  BY <1>1 DEF StopMarksJob, StopInv
<1>2. CASE StopListsTasks
  BY <1>2 DEF StopListsTasks, StopInv
<1>3. CASE StopMarksTask
  BY <1>3 DEF StopMarksTask, StopInv
<1>4. CASE stop' = stop
  BY <1>4 DEF StopInv
<1>5. QED
  BY <1>1, <1>2, <1>3, <1>4
  DEF PageNext, pageVars, commandVars, Command, Reconcile, Restart, StartRun

\* A stop ends a task now, after it began.
LEMMA StopStep ==
  ASSUME TimesInv, StopInv, StopMarksTask
  PROVE  TimesInv'
<1>1. PICK t \in Task : EndTask(t, "stopped", 0)
  BY DEF StopMarksTask, StopInv
<1>2. Tick /\ clock \in Nat \ {0} /\ clock' = clock + 1 /\ UNCHANGED <<job, exec, eng>>
  BY DEF StopMarksTask, Tick, TimesInv, Shape
<1>3. 0 \in Attempt /\ "stopped" \in RowStatus
  BY JobRowsAssumption DEF Attempt, RowStatus
<1>4. /\ task' \in [Task -> [status : RowStatus, started : Nat, completed : Nat,
                              retries : Attempt]]
      /\ \A u \in Task : task'[u].started < clock'
      /\ \A u \in Task : task'[u].started > 0 /\ task'[u].completed > 0
                           => task'[u].started <= task'[u].completed
  BY <1>1, <1>2, <1>3, EndTaskKeeps
<1>5. Shape' /\ AgentEnds'
  BY <1>2, <1>4 DEF TimesInv, Shape, AgentEnds
<1>6. QED
  BY <1>2, <1>4, <1>5 DEF TimesInv, Shape, Past, TimesOrdered

\* What a run finds open it closes when the job ended, or when the row began if that
\* was later.
LEMMA StartStep ==
  ASSUME TimesInv, StartRun
  PROVE  TimesInv'
<1>1. /\ clock \in Nat \ {0} /\ clock' = clock + 1 /\ task' = task
      /\ job' = [status |-> "running", started |-> clock, completed |-> job.completed,
                 limited |-> FALSE]
  BY DEF StartRun, MarkJobRunning, Tick, TimesInv, Shape
<1>2. exec' = [k \in Key |-> exec'[k]]
  BY DEF StartRun, CloseInterrupted
<1>3. ASSUME NEW k \in Key
      PROVE  /\ exec'[k] \in [status : RowStatus, started : Nat, ended : Nat]
             /\ exec'[k].started = exec[k].started
             /\ exec'[k].started > 0 /\ exec'[k].ended > 0 => exec'[k].started <= exec'[k].ended
  <2>1. CASE exec[k].status = "running"
    <3> DEFINE end == IF job.completed = 0 \/ job.completed < exec[k].started
                      THEN exec[k].started ELSE job.completed
               closed == IF job.status = "stopped" THEN "stopped" ELSE "failed"
    <3>1. end \in Nat /\ exec[k].started <= end /\ closed \in RowStatus
      BY DEF TimesInv, Shape, RowStatus
    <3>2. exec'[k] = [exec[k] EXCEPT !.status = closed, !.ended = end]
      BY <2>1 DEF StartRun, CloseInterrupted
    <3>3. exec[k] \in [status : RowStatus, started : Nat, ended : Nat]
      BY DEF TimesInv, Shape
    <3> HIDE DEF end, closed
    <3>4. exec'[k] = [status |-> closed, started |-> exec[k].started, ended |-> end]
      BY <3>2, <3>3
    <3>5. QED
      BY <3>1, <3>3, <3>4
  <2>2. CASE exec[k].status # "running"
    BY <2>2 DEF StartRun, CloseInterrupted, TimesInv, Shape, TimesOrdered
  <2>3. QED
    BY <2>1, <2>2
<1>4. exec' \in [Key -> [status : RowStatus, started : Nat, ended : Nat]]
  BY <1>2, <1>3
<1>5. eng' = [at |-> "pre_plan", todo |-> {t \in Task : task[t].status # "completed"},
              task |-> 0, attempt |-> 0, k |-> 0, was |-> [t \in Task |-> task[t].retries],
              done |-> 0, runs |-> eng.runs + 1]
  BY DEF StartRun, Idle
<1>6. Shape' /\ AgentEnds'
  BY <1>1, <1>4, <1>5, JobRowsAssumption
  DEF TimesInv, Shape, AgentEnds, Before, Begun, Ended, RowStatus, Attempt
<1>7. QED
  BY <1>1, <1>3, <1>6 DEF TimesInv, Shape, Past, TimesOrdered

LEMMA TimesInvStep == ASSUME TimesInv, StopInv, [PageNext]_pageVars PROVE TimesInv'
<1>1. CASE Engine
  <2>1. ASSUME NEW p \in Phase, HookBegin(p) \/ NoHook(p) \/ HookPasses(p) \/ HookFails(p)
        PROVE  TimesInv'
    BY <2>1, QuietStep, HookStep
  <2>2. CASE EndJob
    <3>1. \E s \in RowStatus : MarkJob(s)
      BY <2>2 DEF EndJob, RowStatus
    <3>2. QED
      BY <2>2, <3>1, MarkedStep DEF EndJob
  <2>3. QED
    BY <1>1, <2>1, <2>2, QuietStep, BeginStep, AgentEndStep, TaskEndStep, RetryStep, PreHookStep
    DEF Engine
<1>2. CASE StopMarksTask \/ Killed
  BY <1>2, StopStep, QuietStep
<1>3. CASE StopMarksJob \/ Reconcile \/ ReconcileRead
  <2>1. CASE UNCHANGED rowVars
    BY <2>1, QuietStep
  <2>2. ASSUME NEW status \in {"failed", "stopped"}, MarkJob(status), Tick,
               UNCHANGED <<task, exec, eng>>
        PROVE  TimesInv'
    BY <2>2, MarkedStep DEF RowStatus
  <2>3. QED
    BY <1>3, <2>1, <2>2 DEF StopMarksJob, Reconcile, ReconcileRead, rowVars
<1>4. CASE Restart
  BY <1>4, StartStep DEF Restart
<1>5. CASE UNCHANGED rowVars
  BY <1>5, QuietStep
<1>6. QED
  BY <1>1, <1>2, <1>3, <1>4, <1>5
  DEF PageNext, pageVars, Command, StopListsTasks, LoadJob, ReadTasks, ReadExecutions, ReadRuns, Poll

LEMMA InitTimes == Init => TimesInv /\ StopInv
<1> SUFFICES ASSUME Init PROVE TimesInv /\ StopInv
  OBVIOUS
<1>0. StopInv
  BY DEF Init, RowsInit, NoStop, StopInv
<1>1. /\ clock = 1 /\ eng = Idle
      /\ job = [status |-> "pending", started |-> 0, completed |-> 0, limited |-> FALSE]
      /\ exec = [k \in Key |-> NoRow]
      /\ task = [t \in Task |-> [status |-> "pending", started |-> 0, completed |-> 0,
                                 retries |-> 0]]
  BY DEF Init, RowsInit
<1>2. Shape
  BY <1>1, JobRowsAssumption
  DEF Shape, Idle, NoRow, RowStatus, Attempt, Before, Begun, Ended
<1>3. QED
  BY <1>0, <1>1, <1>2 DEF TimesInv, Past, AgentEnds, TimesOrdered, Idle, NoRow, Ended

\* TimesOrdered holds of every run: whatever hooks, attempts, limits, stops, crashes,
\* reconciles and restarts a job goes through (storage/job_store.py), no row and no
\* task has an end before its beginning.
THEOREM TimesStayOrdered == PageSpec => []TimesOrdered
<1>1. TimesInv => TimesOrdered
  BY DEF TimesInv
<1>2. QED
  BY <1>1, InitTimes, StopInvStep, TimesInvStep, PTL DEF PageSpec

-----------------------------------------------------------------------------
(* The last page of a run.                                                 *)

\* A run that is over by itself, by its limit or by a reconcile.
Final(j) == j.status \in {"completed", "failed"} \/ j.limited
JobRow == [status : RowStatus, started : Nat, completed : Nat, limited : BOOLEAN]

\* The engine is gone when its job is over; a limit is a stop, unless it is buried.
OverInv ==
  /\ job.limited => job.status \in {"stopped", "failed"}
  /\ Final(job) => eng.at = "off"

\* What a page has of a job that is over: the rows and calls as they stay, since its
\* engine is gone; only a late stop or reconcile writes to the job and its tasks.
Read == {"tasks", "pid", "executions", "runs", "shown"}
PageInv ==
  page.at \in Read =>
    /\ page.job \in JobRow
    /\ page.job.limited => page.job.status \in {"stopped", "failed"}
    /\ page.at = "pid" => page.job.status = "running"
    /\ Final(page.job) =>
         /\ eng.at = "off"
         /\ job.status \in {page.job.status, "stopped", "failed"}
         /\ page.at \in {"executions", "runs", "shown"} /\ ~page.dead =>
              \A t \in Task : task[t] = page.task[t] \/ task[t].status = "stopped"
         /\ page.at \in {"runs", "shown"} => page.exec = exec
         /\ page.at = "shown" => page.runs = runs

PageShape ==
  /\ page.at \in Read \cup {"load"}
  /\ page = [at |-> page.at, job |-> page.job, task |-> page.task, exec |-> page.exec,
             runs |-> page.runs, dead |-> page.dead, plan |-> page.plan, now |-> page.now]

FinalInv == OverInv /\ PageInv /\ PageShape

\* Nobody but a stop or a load writes when the engine is gone.
LEMMA OffIsQuiet ==
  ASSUME eng.at = "off", Engine \/ Killed PROVE FALSE
<1>1. ASSUME NEW p \in Phase, HookBegin(p) \/ NoHook(p) \/ HookPasses(p) \/ HookFails(p)
      PROVE  FALSE
  BY <1>1 DEF HookBegin, NoHook, HookPasses, HookFails, HookRun, Phase
<1>2. ~SeeStopped
  BY JobRowsAssumption DEF SeeStopped, Phase
<1>3. QED
  BY <1>1, <1>2
  DEF Engine, NextTask, PreHookFailed, BeginAttempt, StartAgentRun, FinishAgentRun,
      UsageLimit, RetryAttempt, FailTask, CompleteTask, EndJob, Killed

\* What a step of the engine does to the job: nothing, or it ends the run.
LEMMA JobSteps ==
  ASSUME Shape, OverInv, Engine \/ Killed
  PROVE  OverInv'
<1>1. ~Final(job)
  BY OffIsQuiet DEF OverInv
<1>2. CASE job' = job
  BY <1>1, <1>2 DEF Shape, OverInv, Final
<1>3. CASE EndJob
  <2>1. \E s \in {"completed", "failed"} : MarkJob(s)
    BY <1>3 DEF EndJob
  <2>2. eng'.at = "off"
    BY <1>3 DEF EndJob, Goto, Shape
  <2>3. QED
    BY <1>1, <2>1, <2>2 DEF MarkJob, Shape, OverInv, Final
<1>4. CASE UsageLimit
  <2>1. eng'.at = "off"
    BY <1>4 DEF UsageLimit, Goto, Shape
  <2>2. QED
    BY <1>4, <2>1 DEF UsageLimit, Shape, OverInv, Final
<1>6. ASSUME NEW p \in Phase, HookBegin(p) \/ NoHook(p) \/ HookPasses(p) \/ HookFails(p)
      PROVE  job' = job
  BY <1>6 DEF HookBegin, NoHook, HookPasses, HookFails
<1>7. QED
  BY <1>2, <1>3, <1>4, <1>6
  DEF Engine, SeeStopped, NextTask, PreHookFailed, BeginAttempt, StartAgentRun,
      FinishAgentRun, RetryAttempt, FailTask, CompleteTask, Killed

\* What a stop and a load do to it: they make it STOPPED, or FAILED without an engine.
LEMMA CommandSteps ==
  ASSUME Shape, StopInv, OverInv, Command
  PROVE  /\ OverInv' /\ UNCHANGED <<exec, runs, eng>>
         /\ job' = job \/ job'.status \in {"stopped", "failed"}
         /\ \A t \in Task : task'[t] = task[t] \/ task'[t].status = "stopped"
<1>1. CASE StopMarksJob
  <2>1. job' = [job EXCEPT !.status = "stopped", !.completed = clock]
        /\ UNCHANGED <<task, exec, runs, eng>>
    BY <1>1 DEF StopMarksJob, MarkJob
  <2>2. job'.status = "stopped" /\ job'.limited = job.limited
    BY <2>1 DEF Shape
  <2>3. QED
    BY <2>1, <2>2 DEF OverInv, Final
<1>2. CASE Reconcile
  <2>1. job' = [job EXCEPT !.status = "failed", !.completed = clock]
        /\ UNCHANGED <<task, exec, runs, eng>> /\ eng.at = "off"
    BY <1>2 DEF Reconcile, MarkJob
  <2>2. job'.status = "failed" /\ job'.limited = job.limited
    BY <2>1 DEF Shape
  <2>3. QED
    BY <2>1, <2>2 DEF OverInv, Final
<1>3. CASE StopListsTasks
  BY <1>3 DEF StopListsTasks, rowVars, OverInv
<1>4. CASE StopMarksTask
  <2>1. PICK t \in Task : EndTask(t, "stopped", 0)
    BY <1>4 DEF StopMarksTask, StopInv
  <2>2. \A u \in Task : task'[u] = task[u] \/ task'[u].status = "stopped"
    BY <2>1 DEF EndTask, Shape
  <2>3. QED
    BY <1>4, <2>2 DEF StopMarksTask, OverInv
<1>5. QED
  BY <1>1, <1>2, <1>3, <1>4 DEF Command

\* A page reads what there is; whoever starts the job again begins it anew.
LEMMA FinalInvStep == ASSUME TimesInv, StopInv, FinalInv, [PageNext]_pageVars PROVE FinalInv'
<1> USE DEF TimesInv, FinalInv
<1>1. CASE (Engine \/ Killed) /\ UNCHANGED page
  <2>1. OverInv'
    BY <1>1, JobSteps
  <2>2. page.at \in Read => ~Final(page.job)
    BY <1>1, OffIsQuiet DEF PageInv
  <2>3. QED
    BY <1>1, <2>1, <2>2 DEF PageInv, PageShape
<1>2. CASE Command /\ UNCHANGED page
  <2>1. /\ OverInv' /\ UNCHANGED <<exec, runs, eng>>
        /\ job' = job \/ job'.status \in {"stopped", "failed"}
        /\ \A t \in Task : task'[t] = task[t] \/ task'[t].status = "stopped"
    BY <1>2, CommandSteps
  <2>2. ASSUME page.at \in Read, Final(page.job)
        PROVE  /\ eng'.at = "off"
               /\ job'.status \in {page.job.status, "stopped", "failed"}
               /\ page.at \in {"executions", "runs", "shown"} /\ ~page.dead =>
                    \A t \in Task : task'[t] = page.task[t] \/ task'[t].status = "stopped"
               /\ page.at \in {"runs", "shown"} => page.exec = exec'
               /\ page.at = "shown" => page.runs = runs'
    BY <2>1, <2>2 DEF PageInv
  <2>3. QED
    BY <1>2, <2>1, <2>2 DEF PageInv, PageShape
<1>3. CASE LoadJob
  <2>1. page'.at = "tasks" /\ page'.job = job /\ UNCHANGED rowVars /\ PageShape'
    BY <1>3 DEF LoadJob, PageShape, Read
  <2>2. job \in JobRow
    BY DEF Shape, JobRow
  <2>3. QED
    BY <2>1, <2>2 DEF rowVars, PageInv, OverInv, Final
<1>4. CASE ReadTasks
  <2>1. /\ page.at = "tasks" /\ page'.job = page.job /\ page'.task = task /\ UNCHANGED rowVars
        /\ page'.at = (IF page.job.status = "running" THEN "pid" ELSE "executions") /\ PageShape'
    BY <1>4 DEF ReadTasks, PageShape, Read
  <2>2. QED
    BY <2>1 DEF rowVars, PageInv, OverInv, Final, Read
<1>5. CASE ReconcileRead
  <2>1. page.at = "pid" /\ page.job \in JobRow /\ page.job.status = "running" /\ ~page.job.limited
    BY <1>5 DEF ReconcileRead, PageInv, Read
  <2>2. CASE eng.at # "off"
    <3>1. page'.at = "executions" /\ page'.job = page.job /\ UNCHANGED rowVars /\ PageShape'
      BY <1>5, <2>2 DEF ReconcileRead, PageShape, Read, rowVars
    <3>2. QED
      BY <2>1, <3>1 DEF rowVars, PageInv, OverInv, Final
  <2>3. CASE eng.at = "off"
    <3>1. /\ page' = [page EXCEPT !.at = "executions", !.dead = TRUE, !.job.status = "failed"]
          /\ job' = [job EXCEPT !.status = "failed", !.completed = clock]
          /\ UNCHANGED <<task, exec, runs, eng>>
      BY <1>5, <2>3 DEF ReconcileRead, MarkJob
    <3>2. /\ page'.job = [page.job EXCEPT !.status = "failed"] /\ page'.at = "executions"
          /\ page'.dead /\ PageShape'
      BY <3>1 DEF PageShape, Read
    <3>3. page'.job \in JobRow /\ page'.job.status = "failed" /\ page'.job.limited = page.job.limited
      BY <2>1, <3>2 DEF JobRow, RowStatus
    <3>4. job'.status = "failed" /\ job'.limited = job.limited
      BY <3>1 DEF Shape
    <3>5. QED
      BY <2>3, <3>1, <3>2, <3>3, <3>4 DEF PageInv, OverInv, Final
  <2>4. QED
    BY <2>2, <2>3
<1>6. CASE ReadExecutions
  <2>1. /\ page.at = "executions" /\ page'.at = "runs" /\ page'.job = page.job
        /\ page'.task = page.task /\ page'.exec = exec /\ page'.dead = page.dead
        /\ UNCHANGED rowVars /\ PageShape'
    BY <1>6 DEF ReadExecutions, PageShape, Read
  <2>2. QED
    BY <2>1 DEF rowVars, PageInv, OverInv, Final, Read
<1>7. CASE ReadRuns
  <2>1. /\ page.at = "runs" /\ page'.at = "shown" /\ page'.job = page.job
        /\ page'.task = page.task /\ page'.exec = page.exec /\ page'.runs = runs
        /\ page'.dead = page.dead /\ UNCHANGED rowVars /\ PageShape'
    BY <1>7 DEF ReadRuns, PageShape, Read
  <2>2. QED
    BY <2>1 DEF rowVars, PageInv, OverInv, Final, Read
<1>8. CASE Poll
  BY <1>8 DEF Poll, Blank, rowVars, OverInv, PageInv, PageShape, Final, Read
<1>9. CASE Restart
  <2>1. job'.status = "running" /\ ~job'.limited
    BY <1>9 DEF Restart, StartRun, MarkJobRunning, Shape
  <2>2. QED
    BY <1>9, <2>1 DEF Restart, Blank, OverInv, PageInv, PageShape, Final, Read
<1>10. CASE UNCHANGED pageVars
  BY <1>10 DEF pageVars, rowVars, OverInv, PageInv, PageShape, Final
<1>11. QED
  BY <1>1, <1>2, <1>3, <1>4, <1>5, <1>6, <1>7, <1>8, <1>9, <1>10 DEF PageNext

LEMMA InitFinal == Init => FinalInv
  BY DEF Init, RowsInit, Idle, Blank, FinalInv, OverInv, PageInv, PageShape, Final, Read

\* FinalPageTrue holds of every run: what poll.js stops polling on, unless a stop ended
\* the job, has every execution and agent call as the reads of GET /jobs/<id> would find
\* them at any later time; a stop or a load that is late makes the job STOPPED or FAILED
\* and a task STOPPED, and writes nothing else.
THEOREM FinalPageStays == PageSpec => []FinalPageTrue
<1>1. FinalInv => FinalPageTrue
  BY DEF FinalInv, PageInv, FinalPageTrue, Over, Shown, Final, Read
<1>2. PageSpec => [](TimesInv /\ StopInv)
  BY InitTimes, StopInvStep, TimesInvStep, PTL DEF PageSpec
<1>3. QED
  BY <1>1, <1>2, InitFinal, FinalInvStep, PTL DEF PageSpec

-----------------------------------------------------------------------------
(* The order of a finite set's elements.                                   *)

\* A set of naturals has a least element.
LEMMA LeastExists ==
  ASSUME NEW T, T \subseteq Nat, T # {}
  PROVE  \E x \in T : \A y \in T : x <= y
<1> DEFINE R == OpToRel(<, Nat)
<1>1. IsWellFoundedOn(R, Nat)
  BY NatLessThanWellFounded
<1>2. \A a, b \in Nat : a < b => <<a, b>> \in R
  BY DEF OpToRel
<1> HIDE DEF R
<1>3. PICK x \in T : \A y \in T : ~(<<y, x>> \in R)
  BY <1>1, WFMin
<1>4. ASSUME NEW y \in T PROVE x <= y
  <2>1. x \in Nat /\ y \in Nat
    OBVIOUS
  <2>2. ~(y < x)
    BY <1>2, <1>3, <2>1
  <2>3. QED BY <2>1, <2>2
<1>5. QED BY <1>4

\* As many as there are, one for one.
LEMMA SameSize ==
  ASSUME NEW S, IsFiniteSet(S), NEW f, NEW T, T = {f[x] : x \in S},
         \A x, y \in S : f[x] = f[y] => x = y
  PROVE  Cardinality(T) = Cardinality(S)
<1> DEFINE g == [x \in S |-> f[x]]
<1>1. g \in [S -> T] /\ \A x \in S : g[x] = f[x]
  OBVIOUS
<1>2. \A t \in T : \E x \in S : g[x] = t
  OBVIOUS
<1> HIDE DEF g
<1>3. DOMAIN g = S
  BY <1>1
<1>4. g \in Injection(S, T)
  BY <1>1, <1>3 DEF Injection, IsInjective
<1>5. g \in Surjection(S, T)
  BY <1>1, <1>2 DEF Surjection
<1>6. ExistsBijection(S, T)
  BY <1>4, <1>5 DEF ExistsBijection, Bijection
<1>7. QED BY <1>6, FS_Bijection

\* An order of a finite set gives each place to one element.
LEMMA Ranked ==
  ASSUME NEW S, IsFiniteSet(S), NEW below,
         \A x \in S : below[x] \subseteq S /\ x \notin below[x],
         \A x, y \in S : y \in below[x] => below[y] \subseteq below[x],
         \A x, y \in S : x # y => x \in below[y] \/ y \in below[x]
  PROVE  \E at \in [1..Cardinality(S) -> S] :
           /\ \A i \in 1..Cardinality(S) : at[i] = CHOOSE x \in S : Cardinality(below[x]) = i - 1
           /\ \A x \in S : \E i \in 1..Cardinality(S) : at[i] = x
           /\ \A i, j \in 1..Cardinality(S) : at[i] = at[j] => i = j
<1> DEFINE n == Cardinality(S)
           rank == [x \in S |-> Cardinality(below[x]) + 1]
<1>1. n \in Nat /\ IsFiniteSet(1..n) /\ Cardinality(1..n) = n
  <2>1. n \in Nat
    BY FS_CardinalityType
  <2> HIDE DEF n
  <2>2. IsFiniteSet(1..n) /\ Cardinality(1..n) = IF 1 > n THEN 0 ELSE n - 1 + 1
    BY <2>1, FS_Interval
  <2>3. QED BY <2>1, <2>2
<1>2. ASSUME NEW x \in S
      PROVE  IsFiniteSet(below[x]) /\ Cardinality(below[x]) \in Nat /\ Cardinality(below[x]) < n
  <2>1. below[x] \in SUBSET S
    OBVIOUS
  <2>2. IsFiniteSet(below[x]) /\ Cardinality(below[x]) <= n /\ Cardinality(below[x]) \in Nat
    BY <2>1, FS_Subset, FS_CardinalityType
  <2>3. Cardinality(below[x]) # n
    BY <2>1, FS_Subset
  <2> HIDE DEF n
  <2>4. QED BY <1>1, <2>2, <2>3
<1>3. ASSUME NEW x \in S, NEW y \in S, y \in below[x]
      PROVE  Cardinality(below[y]) < Cardinality(below[x])
  <2>1. below[y] \in SUBSET below[x] /\ below[y] # below[x]
    BY <1>3
  <2>2. Cardinality(below[y]) <= Cardinality(below[x]) /\ Cardinality(below[y]) # Cardinality(below[x])
    BY <1>2, <2>1, FS_Subset
  <2>3. QED BY <1>2, <2>2
<1>4. rank \in [S -> 1..n]
  <2> HIDE DEF n
  <2>1. \A x \in S : Cardinality(below[x]) + 1 \in 1..n
    BY <1>1, <1>2
  <2>2. QED BY <2>1
<1>5. \A x, y \in S : rank[x] = rank[y] => x = y
  <2>1. SUFFICES ASSUME NEW x \in S, NEW y \in S, rank[x] = rank[y], x # y PROVE FALSE
    OBVIOUS
  <2>2. Cardinality(below[x]) = Cardinality(below[y])
    BY <1>2, <2>1
  <2>3. QED BY <1>2, <1>3, <2>1, <2>2
<1>6. rank \in Injection(S, 1..n)
  <2> HIDE DEF rank, n
  <2>1. DOMAIN rank = S
    BY <1>4
  <2>2. QED BY <1>4, <1>5, <2>1 DEF Injection, IsInjective
<1>7. rank \in Surjection(S, 1..n)
  <2> HIDE DEF rank
  <2>1. QED BY <1>1, <1>6, FS_Injection
<1>8. \A i \in 1..n : \E x \in S : rank[x] = i
  <2> HIDE DEF rank, n
  <2>1. QED BY <1>7 DEF Surjection
<1> DEFINE at == [i \in 1..n |-> CHOOSE x \in S : Cardinality(below[x]) = i - 1]
<1>9. ASSUME NEW i \in 1..n PROVE at[i] \in S /\ rank[at[i]] = i
  <2>1. PICK x \in S : rank[x] = i
    BY <1>8
  <2>2. Cardinality(below[x]) = i - 1
    BY <1>2, <2>1
  <2>3. at[i] \in S /\ Cardinality(below[at[i]]) = i - 1
    BY <2>2
  <2> HIDE DEF at
  <2>4. QED BY <2>3
<1>10. \A i \in 1..n : at[i] = CHOOSE x \in S : Cardinality(below[x]) = i - 1
  OBVIOUS
<1>11. at = [i \in 1..n |-> at[i]]
  OBVIOUS
<1> HIDE DEF at, rank, n
<1>12. at \in [1..n -> S]
  BY <1>9, <1>11
<1>13. \A x \in S : rank[x] \in 1..n /\ at[rank[x]] = x
  BY <1>4, <1>5, <1>9
<1>14. \A i, j \in 1..n : at[i] = at[j] => i = j
  BY <1>9
<1>15. QED BY <1>10, <1>12, <1>13, <1>14 DEF n

-----------------------------------------------------------------------------
(* The lines of a page.                                                    *)

LEMMA TripleFinite ==
  ASSUME NEW A, IsFiniteSet(A), NEW B, IsFiniteSet(B), NEW C, IsFiniteSet(C)
  PROVE  IsFiniteSet(A \X B \X C)
<1> DEFINE P == (A \X B) \X C
           f == [p \in P |-> <<p[1][1], p[1][2], p[2]>>]
<1>1. IsFiniteSet(P)
  BY FS_Product
<1>2. f \in Surjection(P, A \X B \X C)
  <2>1. f \in [P -> A \X B \X C]
    OBVIOUS
  <2>2. ASSUME NEW t \in A \X B \X C PROVE \E p \in P : f[p] = t
    <3>1. PICK a \in A, b \in B, c \in C : t = <<a, b, c>>
      OBVIOUS
    <3>2. <<<<a, b>>, c>> \in P /\ f[<<<<a, b>>, c>>] = <<a, b, c>>
      OBVIOUS
    <3>3. QED BY <3>1, <3>2
  <2> HIDE DEF P, f
  <2>3. QED BY <2>1, <2>2 DEF Surjection
<1> HIDE DEF P, f
<1>3. QED BY <1>1, <1>2, FS_Surjection

LEMMA LinesFinite == IsFiniteSet(Lines)
<1> DEFINE T == 0..NTasks
           P == {"task"} \cup Phase
           A == (0..MaxAttempt) \cup {-1}
<1>1. NTasks \in Nat /\ MaxAttempt \in Nat
  BY JobRowsAssumption
<1>2. IsFiniteSet(T)
  BY <1>1, FS_Interval
<1>3. IsFiniteSet(0..MaxAttempt)
  BY <1>1, FS_Interval
<1>4. IsFiniteSet(A)
  BY <1>3, FS_AddElement
<1>5. IsFiniteSet(P)
  <2>1. IsFiniteSet({"task"})
    BY FS_Singleton
  <2>2. IsFiniteSet({"task"} \cup {"pre_plan"})
    BY <2>1, FS_AddElement
  <2>3. IsFiniteSet({"task"} \cup {"pre_plan"} \cup {"pre_task"})
    BY <2>2, FS_AddElement
  <2>4. IsFiniteSet({"task"} \cup {"pre_plan"} \cup {"pre_task"} \cup {"post_task"})
    BY <2>3, FS_AddElement
  <2>5. IsFiniteSet({"task"} \cup {"pre_plan"} \cup {"pre_task"} \cup {"post_task"} \cup {"post_plan"})
    BY <2>4, FS_AddElement
  <2>6. P = {"task"} \cup {"pre_plan"} \cup {"pre_task"} \cup {"post_task"} \cup {"post_plan"}
    BY DEF Phase
  <2>7. QED BY <2>5, <2>6
<1>6. Key \subseteq P \X T \X A
  BY <1>1 DEF Key, Task, Attempt, Phase
<1>7. Waiting \subseteq P \X T \X A
  BY <1>1 DEF Waiting, Task
<1>8. Lines \in SUBSET (P \X T \X A)
  BY <1>6, <1>7 DEF Lines
<1> HIDE DEF P, T, A
<1>9. QED BY <1>2, <1>4, <1>5, <1>8, TripleFinite, FS_Subset

\* What a line may be.
LEMMA LineIs ==
  ASSUME NEW x \in Lines
  PROVE  /\ x = <<x[1], x[2], x[3]>> /\ x[1] \in {"task"} \cup Phase
         /\ x[1] = "task" => x[2] \in Task /\ x[3] \in Attempt \cup {-1}
                             /\ (x \in Key <=> x[3] \in Attempt)
         /\ x[1] \in {"pre_task", "post_task"} => x[2] \in Task
         /\ x[1] \in {"pre_plan", "post_plan"} => x[2] = 0
         /\ x[1] # "task" => x \in Key /\ x[3] = 0
<1>1. CASE x \in {<<p, 0, 0>> : p \in {"pre_plan", "post_plan"}}
  BY <1>1 DEF Phase, Key
<1>2. CASE x \in {"pre_task", "post_task"} \X Task \X {0}
  BY <1>2 DEF Phase, Key
<1>3. CASE x \in {"task"} \X Task \X Attempt
  BY <1>3 DEF Phase, Key
<1>4. CASE x \in Waiting
  <2>1. PICK t \in Task : x = <<"task", t, -1>>
    BY <1>4 DEF Waiting
  <2>2. x \notin Key
    BY <2>1, JobRowsAssumption DEF Key, Attempt
  <2>3. QED BY <2>1, <2>2, JobRowsAssumption DEF Attempt
<1>5. QED BY <1>1, <1>2, <1>3, <1>4 DEF Lines, Key

\* The times of the rows, as the page read them.
Timed == page.now \in Int /\ \A k \in Key : page.exec[k].started \in Int

LEMMA PrecedesIs ==
  ASSUME NEW a, NEW b, NEW c, NEW d, NEW e, NEW f, NEW g, NEW h
  PROVE  Precedes(<<a, b, c, d>>, <<e, f, g, h>>)
           <=> \/ a < e
               \/ a = e /\ b < f
               \/ a = e /\ b = f /\ c < g
               \/ a = e /\ b = f /\ c = g /\ d < h
<1> DEFINE p == <<a, b, c, d>>
           q == <<e, f, g, h>>
<1>1. DOMAIN p = {1, 2, 3, 4}
  OBVIOUS
<1>2. 1..(1 - 1) = {} /\ 1..(2 - 1) = {1} /\ 1..(3 - 1) = {1, 2} /\ 1..(4 - 1) = {1, 2, 3}
  OBVIOUS
<1>3. /\ p[1] = a /\ p[2] = b /\ p[3] = c /\ p[4] = d
      /\ q[1] = e /\ q[2] = f /\ q[3] = g /\ q[4] = h
  OBVIOUS
<1> HIDE DEF p, q
<1>4. Precedes(p, q) <=> \/ p[1] < q[1] /\ \A j \in {} : p[j] = q[j]
                         \/ p[2] < q[2] /\ \A j \in {1} : p[j] = q[j]
                         \/ p[3] < q[3] /\ \A j \in {1, 2} : p[j] = q[j]
                         \/ p[4] < q[4] /\ \A j \in {1, 2, 3} : p[j] = q[j]
  BY <1>1, <1>2 DEF Precedes
<1>5. QED BY <1>3, <1>4 DEF p, q

LEMMA PlaceIs ==
  ASSUME Timed, NEW x \in Lines
  PROVE  /\ Place(x) = <<Place(x)[1], Place(x)[2], Place(x)[3], x[3]>>
         /\ Place(x)[1] \in Int /\ Place(x)[3] \in {0, 1, 2} /\ x[3] \in Int
         /\ Place(x)[2] = (CASE x[1] = "pre_plan" -> 0 [] x[1] = "post_plan" -> NTasks + 1
                             [] OTHER -> x[2])
         /\ Place(x)[2] \in Int
         /\ Place(x)[3] = (CASE x[1] = "pre_task" -> 0 [] x[1] = "task" -> 1 [] OTHER -> 2)
<1> DEFINE t == CASE x[1] = "pre_plan" -> 0 [] x[1] = "post_plan" -> NTasks + 1 [] OTHER -> x[2]
           part == CASE x[1] = "pre_task" -> 0 [] x[1] = "task" -> 1 [] OTHER -> 2
           start == IF page.plan THEN 0 ELSE IF x \in Key THEN page.exec[x].started ELSE page.now
<1>1. Place(x) = <<start, t, part, x[3]>>
  BY DEF Place
<1>2. start \in Int
  BY DEF Timed
<1>3. part \in {0, 1, 2}
  OBVIOUS
<1>4. t \in Int /\ x[3] \in Int
  BY LineIs, JobRowsAssumption DEF Task, Attempt, Phase
<1> HIDE DEF start
<1>5. QED BY <1>1, <1>2, <1>3, <1>4

\* The steps are the lines, each once.
LEMMA StepsAreLines ==
  ASSUME Timed
  PROVE  \E at \in [DOMAIN Steps -> Lines] :
           /\ \A i \in DOMAIN Steps : Steps[i] = StepOf(at[i])
           /\ \A x \in Lines : \E i \in DOMAIN Steps : at[i] = x
           /\ \A i, j \in DOMAIN Steps : at[i] = at[j] => i = j
<1> DEFINE below == [x \in Lines |-> Earlier(x)]
<1>1. \A x \in Lines, y \in Lines : y \in below[x] <=> Precedes(Place(y), Place(x))
  BY DEF Earlier
<1>2. \A x \in Lines : below[x] \subseteq Lines
  BY DEF Earlier
<1> HIDE DEF below
<1>3. ASSUME NEW x \in Lines, NEW y \in Lines
      PROVE  Precedes(Place(y), Place(x)) <=>
               \/ Place(y)[1] < Place(x)[1]
               \/ Place(y)[1] = Place(x)[1] /\ Place(y)[2] < Place(x)[2]
               \/ Place(y)[1] = Place(x)[1] /\ Place(y)[2] = Place(x)[2] /\ Place(y)[3] < Place(x)[3]
               \/ /\ Place(y)[1] = Place(x)[1] /\ Place(y)[2] = Place(x)[2]
                  /\ Place(y)[3] = Place(x)[3] /\ y[3] < x[3]
  <2>1. /\ Place(x) = <<Place(x)[1], Place(x)[2], Place(x)[3], x[3]>>
        /\ Place(y) = <<Place(y)[1], Place(y)[2], Place(y)[3], y[3]>>
    BY PlaceIs
  <2>2. QED BY <2>1, PrecedesIs
<1>4. \A x \in Lines : /\ Place(x)[1] \in Int /\ Place(x)[2] \in Int /\ Place(x)[3] \in Int
                       /\ x[3] \in Int
  BY PlaceIs
<1>5. ASSUME NEW x \in Lines, NEW y \in Lines, Place(x)[2] = Place(y)[2], Place(x)[3] = Place(y)[3],
             x[3] = y[3]
      PROVE  x = y
  <2>1. x = <<x[1], x[2], x[3]>> /\ y = <<y[1], y[2], y[3]>>
    BY LineIs
  <2>2. x[1] = y[1] /\ x[2] = y[2]
    BY <1>5, LineIs, PlaceIs, JobRowsAssumption DEF Task, Phase
  <2>3. QED BY <1>5, <2>1, <2>2
<1>6. \A x \in Lines : x \notin below[x]
  BY <1>1, <1>3, <1>4
<1>7. \A x, y \in Lines : x # y => x \in below[y] \/ y \in below[x]
  BY <1>1, <1>3, <1>4, <1>5
<1>8. \A x, y \in Lines : y \in below[x] => below[y] \subseteq below[x]
  <2>1. ASSUME NEW x \in Lines, NEW y \in Lines, y \in below[x], NEW z \in below[y]
        PROVE  z \in below[x]
    <3>1. z \in Lines
      BY <1>2, <2>1
    <3>2. Precedes(Place(z), Place(y)) /\ Precedes(Place(y), Place(x))
      BY <1>1, <2>1, <3>1
    <3>3. Precedes(Place(z), Place(x))
      BY <1>3, <1>4, <3>1, <3>2
    <3>4. QED BY <1>1, <3>1, <3>3
  <2>2. QED BY <2>1
<1>9. PICK at \in [1..Cardinality(Lines) -> Lines] :
        /\ \A i \in 1..Cardinality(Lines) : at[i] = CHOOSE x \in Lines : Cardinality(below[x]) = i - 1
        /\ \A x \in Lines : \E i \in 1..Cardinality(Lines) : at[i] = x
        /\ \A i, j \in 1..Cardinality(Lines) : at[i] = at[j] => i = j
  BY <1>2, <1>6, <1>7, <1>8, LinesFinite, Ranked
<1>10. DOMAIN Steps = 1..Cardinality(Lines)
  BY DEF Steps
<1>11. ASSUME NEW i \in DOMAIN Steps PROVE Steps[i] = StepOf(at[i])
  <2>1. at[i] = CHOOSE x \in Lines : Cardinality(Earlier(x)) = i - 1
    BY <1>9, <1>10 DEF below
  <2>2. QED BY <1>10, <2>1 DEF Steps
<1>12. QED BY <1>9, <1>10, <1>11

-----------------------------------------------------------------------------
(* The rows a run leaves.                                                  *)

\* An agent call has a row of its attempt.
CallsInv ==
  /\ runs \in [Task -> [Attempt -> {"none", "open", "reported", "unknown"}]]
  /\ \A t \in Task, a \in Attempt : runs[t][a] # "none" => exec[<<"task", t, a>>].status # "none"
  /\ eng.at \in Begun \cup Ended => exec[<<"task", eng.task, eng.attempt>>].status # "none"

\* What has begun and does not run has an end, in the past.
Closed(r) ==
  /\ r.status # "pending" /\ (r.status = "none" => r.started = 0)
  /\ r.status \notin {"none", "running"} /\ r.started > 0 => r.ended > 0
ClosedInv ==
  /\ \A k \in Key : Closed(exec[k]) /\ exec[k].ended < clock
  /\ eng.done < clock

\* While an engine works only the rows of its own hook and attempt are RUNNING.
Own(k) ==
  \/ eng.at \in Begun \cup Ended /\ k = <<"task", eng.task, eng.attempt>>
  \/ \E p \in Phase : eng.at = HookRun(p) /\ k = HookKey(p)
OpenInv == eng.at # "off" => \A k \in Key : exec[k].status = "running" => Own(k)

\* An attempt of the task completed, and the task says so unless a stop marked it.
HasDone(t) == \E a \in Attempt : exec[<<"task", t, a>>].status = "completed"
Through(t) == HasDone(t) /\ task[t].status \in {"completed", "stopped"}

\* What the engine has behind it is through, also where a stop marked the task since;
\* the plan's post hooks come when nothing is left.
InTask == eng.at \in Before \cup Begun \cup Ended
TasksInv ==
  /\ \A t \in Task : task[t].status = "completed" => HasDone(t)
  /\ eng.at \notin {"off", "fail"} =>
       \A t \in Task : t \in eng.todo \/ (InTask /\ t = eng.task) \/ Through(t)
  /\ eng.at \in {"post_plan", "post_plan_hook", "succeed"} => eng.todo = {}

\* What a job leaves that was completed at a time.
Finished(end) ==
  /\ \A t \in Task : Through(t)
  /\ \A k \in Key : exec[k].status # "running" /\ exec[k].ended <= end
CompletedInv == job.status = "completed" => Finished(job.completed)

LeftInv == CallsInv /\ ClosedInv /\ OpenInv /\ TasksInv /\ CompletedInv

\* Nothing is written to the rows.
LEMMA SameRows ==
  ASSUME TimesInv, LeftInv, UNCHANGED exec, clock' \in {clock, clock + 1},
         runs' = runs, eng'.done \in {eng.done, clock}, clock' = clock => eng'.done = eng.done,
         eng'.at \in Begun \cup Ended =>
           eng.at \in Begun \cup Ended /\ eng'.task = eng.task /\ eng'.attempt = eng.attempt
  PROVE  CallsInv' /\ ClosedInv'
<1>1. CallsInv'
  BY DEF LeftInv, CallsInv
<1>2. clock \in Nat /\ \A k \in Key : exec[k].ended \in Nat
  BY DEF TimesInv, Shape
<1>3. ClosedInv'
  BY <1>2 DEF LeftInv, ClosedInv, TimesInv, Shape
<1>4. QED BY <1>1, <1>3

\* No task ends or begins, but a stop may mark some.
LEMMA SameTasks ==
  ASSUME TasksInv,
         \A t \in Task : task'[t] = task[t] \/ task'[t].status = "stopped",
         \A t \in Task, a \in Attempt :
           exec[<<"task", t, a>>].status = "completed" => exec'[<<"task", t, a>>].status = "completed",
         eng'.at \notin {"off", "fail"} =>
           /\ eng.at \notin {"off", "fail"} /\ eng'.todo = eng.todo
           /\ InTask => InTask' /\ eng'.task = eng.task,
         eng'.at \in {"post_plan", "post_plan_hook", "succeed"} =>
           eng.at \in {"post_plan", "post_plan_hook", "succeed"}
  PROVE  TasksInv'
<1>1. \A t \in Task : HasDone(t) => HasDone(t)'
  BY DEF HasDone
<1>2. \A t \in Task : Through(t) => Through(t)'
  BY <1>1 DEF Through
<1>3. \A t \in Task : task'[t].status = "completed" => HasDone(t)'
  BY <1>1 DEF TasksInv
<1>4. eng'.at \notin {"off", "fail"} =>
        \A t \in Task : t \in eng'.todo \/ (InTask' /\ t = eng'.task) \/ Through(t)'
  BY <1>2 DEF TasksInv
<1>5. eng'.at \in {"post_plan", "post_plan_hook", "succeed"} => eng'.todo = {}
  BY DEF TasksInv
<1>6. QED BY <1>3, <1>4, <1>5 DEF TasksInv

\* The task of the engine changes, and no other.
LEMMA OneTask ==
  ASSUME TasksInv, NEW u \in Task, eng.task = u, eng.at # "off", eng.at # "fail",
         \A t \in Task : t # u => task'[t] = task[t],
         \A t \in Task, a \in Attempt : t # u => exec'[<<"task", t, a>>] = exec[<<"task", t, a>>],
         task'[u].status = "completed" => HasDone(u)',
         eng'.at \notin {"off", "fail"} =>
           eng'.todo = eng.todo /\ ((InTask' /\ eng'.task = u) \/ Through(u)'),
         eng'.at \notin {"post_plan", "post_plan_hook", "succeed"}
  PROVE  TasksInv'
<1>1. \A t \in Task : t # u => (HasDone(t) <=> HasDone(t)')
  BY DEF HasDone
<1>2. \A t \in Task : t # u => (Through(t) <=> Through(t)')
  BY <1>1 DEF Through
<1>3. \A t \in Task : task'[t].status = "completed" => HasDone(t)'
  BY <1>1 DEF TasksInv
<1>4. eng'.at \notin {"off", "fail"} =>
        \A t \in Task : t \in eng'.todo \/ (InTask' /\ t = eng'.task) \/ Through(t)'
  BY <1>2 DEF TasksInv
<1>5. QED BY <1>3, <1>4 DEF TasksInv

LEMMA QuietLeft ==
  ASSUME TimesInv, LeftInv,
         \/ UNCHANGED rowVars \/ SeeStopped \/ NextTask \/ StartAgentRun \/ Killed
         \/ \E p \in Phase : NoHook(p)
  PROVE  LeftInv'
<1>1. UNCHANGED <<clock, job, task, exec>>
  BY DEF rowVars, SeeStopped, NextTask, StartAgentRun, Killed, NoHook
<1>2. CompletedInv'
  BY <1>1 DEF LeftInv, CompletedInv, Finished, Through, HasDone
<1>3. ASSUME UNCHANGED <<rowVars>> PROVE LeftInv'
  BY <1>3 DEF rowVars, LeftInv, CallsInv, ClosedInv, OpenInv, Own, HookKey, CompletedInv,
     TasksInv, InTask, Finished, Through, HasDone
<1>4. eng = [at |-> eng.at, todo |-> eng.todo, task |-> eng.task, attempt |-> eng.attempt,
             k |-> eng.k, was |-> eng.was, done |-> eng.done, runs |-> eng.runs]
  BY DEF TimesInv, Shape
<1>5. CASE SeeStopped \/ Killed
  <2>1. eng'.at = "off" /\ eng'.done = eng.done /\ runs' = runs
    BY <1>4, <1>5 DEF SeeStopped, Killed, Goto
  <2>2. OpenInv' /\ TasksInv'
    BY <1>1, <2>1, SameTasks DEF OpenInv, LeftInv
  <2>3. "off" \notin Begun \cup Ended
    BY DEF Begun, Ended
  <2>4. QED BY <1>1, <1>2, <2>1, <2>2, <2>3, SameRows DEF LeftInv
<1>6. CASE NextTask
  <2>1. /\ eng.at = "next" /\ eng'.done = eng.done /\ runs' = runs
        /\ \/ eng'.at = "post_plan" /\ eng'.todo = {} /\ eng.todo = {}
           \/ \E t \in eng.todo : eng'.at = "pre_task" /\ eng'.task = t /\ eng'.todo = eng.todo \ {t}
    BY <1>4, <1>6 DEF NextTask, Goto
  <2>2. \A k \in Key : exec[k].status # "running"
    BY <2>1 DEF LeftInv, OpenInv, Own, Begun, Ended, HookRun, Phase
  <2>3. OpenInv'
    BY <1>1, <2>2 DEF OpenInv
  <2>4. TasksInv'
    <3>1. /\ \A t \in Task : t \in eng.todo \/ Through(t)
          /\ \A t \in Task : task[t].status = "completed" => HasDone(t)
      BY <2>1 DEF LeftInv, TasksInv, InTask, Before, Begun, Ended
    <3>3. eng'.at = "pre_task" => InTask'
      BY DEF InTask, Before
    <3>4. ASSUME NEW t \in Task
          PROVE  /\ t \in eng'.todo \/ (InTask' /\ t = eng'.task) \/ Through(t)'
                 /\ task'[t].status = "completed" => HasDone(t)'
      <4>1. t \in eng.todo => t \in eng'.todo \/ (InTask' /\ t = eng'.task)
        BY <2>1, <3>3
      <4>2. HasDone(t) => HasDone(t)'
        BY <1>1 DEF HasDone
      <4>3. Through(t) => Through(t)'
        BY <1>1, <4>2 DEF Through
      <4>4. t \in eng.todo \/ Through(t)
        BY <3>1
      <4>5. task'[t].status = "completed" => HasDone(t)'
        BY <1>1, <3>1, <4>2
      <4>6. QED BY <4>1, <4>3, <4>4, <4>5
    <3>6. eng'.at \in {"post_plan", "post_plan_hook", "succeed"} => eng'.todo = {}
      BY <2>1
    <3>7. QED BY <3>4, <3>6 DEF TasksInv
  <2>5. eng'.at \notin Begun \cup Ended
    BY <2>1 DEF Begun, Ended
  <2>6. QED BY <1>1, <1>2, <2>1, <2>3, <2>4, <2>5, SameRows DEF LeftInv
<1>7. CASE StartAgentRun
  <2>1. /\ eng.at = "call" /\ eng'.at = "agent" /\ eng'.done = eng.done /\ eng'.task = eng.task
        /\ eng'.attempt = eng.attempt
    BY <1>4, <1>7 DEF StartAgentRun, Goto
  <2>2. eng.task \in Task /\ eng.attempt \in Attempt
    BY <2>1 DEF TimesInv, Shape, Begun
  <2>3. runs' = [runs EXCEPT ![eng.task][eng.attempt] = "open"]
    BY <1>7 DEF StartAgentRun
  <2>4. CallsInv'
    BY <1>1, <2>1, <2>2, <2>3 DEF LeftInv, CallsInv, Begun, Ended
  <2>5. ClosedInv'
    BY <1>1, <2>1 DEF LeftInv, ClosedInv
  <2>6. OpenInv'
    BY <1>1, <2>1 DEF LeftInv, OpenInv, Own, Begun, Ended, HookRun, Phase
  <2>7. TasksInv'
    BY <1>1, <1>4, <1>7, <2>1, SameTasks
    DEF StartAgentRun, Goto, LeftInv, InTask, Before, Begun, Ended
  <2>8. QED BY <1>2, <2>4, <2>5, <2>6, <2>7 DEF LeftInv
<1>8. ASSUME NEW p \in Phase, NoHook(p) PROVE LeftInv'
  <2>1. /\ eng.at = p /\ eng'.at = AfterHooks(p) /\ eng'.done = eng.done /\ eng'.task = eng.task
        /\ eng'.attempt = eng.attempt /\ runs' = runs
    BY <1>4, <1>8 DEF NoHook, Goto
  <2>2. TasksInv'
    BY <1>1, <1>4, <1>8, <2>1, SameTasks
    DEF NoHook, Goto, LeftInv, AfterHooks, Phase, InTask, Before, Begun, Ended
  <2>3. OpenInv'
    BY <1>1, <2>1 DEF LeftInv, OpenInv, Own, Begun, Ended, HookRun, Phase, AfterHooks
  <2>4. eng'.at \in Begun \cup Ended => eng.at \in Begun \cup Ended
    BY <2>1 DEF Begun, Ended, AfterHooks, Phase
  <2>5. QED BY <1>1, <1>2, <2>1, <2>2, <2>3, <2>4, SameRows DEF LeftInv
<1>9. QED BY <1>3, <1>5, <1>6, <1>7, <1>8

LEMMA OpenedRow ==
  ASSUME TimesInv, LeftInv, NEW k \in Key, OpenRow(k), Tick, eng'.done \in {eng.done, clock}
  PROVE  /\ ClosedInv' /\ exec'[k].status = "running"
         /\ \A j \in Key : j # k => exec'[j] = exec[j]
<1>1. clock \in Nat \ {0} /\ clock' = clock + 1 /\ eng.done \in Nat /\ \A j \in Key : exec[j].ended \in Nat
  BY DEF TimesInv, Shape, Tick
<1>2. /\ exec'[k] = [status |-> "running", started |-> clock, ended |-> 0]
      /\ \A j \in Key : j # k => exec'[j] = exec[j]
  BY DEF TimesInv, Shape, OpenRow
<1>3. Closed(exec'[k]) /\ exec'[k].ended < clock'
  BY <1>1, <1>2 DEF Closed
<1>4. \A j \in Key : Closed(exec'[j]) /\ exec'[j].ended < clock'
  BY <1>1, <1>2, <1>3 DEF LeftInv, ClosedInv
<1>5. eng'.done < clock'
  BY <1>1 DEF LeftInv, ClosedInv
<1>6. QED BY <1>2, <1>4, <1>5 DEF ClosedInv

LEMMA ClosedRow ==
  ASSUME TimesInv, LeftInv, NEW k \in Key, NEW s \in {"completed", "failed", "stopped"},
         NEW end \in Nat, CloseRow(k, s, end), clock' \in {clock, clock + 1}, end < clock',
         exec[k].started > 0 => end > 0, eng'.done \in {eng.done, clock},
         clock' = clock => eng'.done = eng.done
  PROVE  /\ ClosedInv' /\ exec'[k].status = s
         /\ \A j \in Key : j # k => exec'[j] = exec[j]
<1>1. clock \in Nat \ {0} /\ eng.done \in Nat /\ \A j \in Key : exec[j].ended \in Nat
  BY DEF TimesInv, Shape
<1>2. /\ exec'[k] = [status |-> s, started |-> exec[k].started, ended |-> end]
      /\ \A j \in Key : j # k => exec'[j] = exec[j]
  BY DEF TimesInv, Shape, CloseRow
<1>3. Closed(exec'[k]) /\ exec'[k].ended < clock'
  BY <1>2 DEF Closed
<1>4. \A j \in Key : Closed(exec'[j]) /\ exec'[j].ended < clock'
  BY <1>1, <1>2, <1>3 DEF LeftInv, ClosedInv
<1>5. eng'.done < clock'
  BY <1>1 DEF LeftInv, ClosedInv
<1>6. exec'[k].status = s
  BY <1>2
<1>7. QED BY <1>2, <1>4, <1>5, <1>6 DEF ClosedInv

\* The calls have their rows when none is taken away.
LEMMA SameCalls ==
  ASSUME LeftInv, UNCHANGED runs,
         \A k \in Key : exec[k].status # "none" => exec'[k].status # "none",
         eng'.at \in Begun \cup Ended =>
           /\ eng'.task \in Task /\ eng'.attempt \in Attempt
           /\ \/ /\ eng.at \in Begun \cup Ended /\ eng'.task = eng.task
                 /\ eng'.attempt = eng.attempt
              \/ exec'[<<"task", eng'.task, eng'.attempt>>].status # "none"
  PROVE  CallsInv'
  BY TaskKeys DEF LeftInv, CallsInv

LEMMA WorkingJob ==
  ASSUME OverInv, eng.at # "off" PROVE job.status # "completed"
  BY DEF OverInv, Final

LEMMA HookLeft ==
  ASSUME TimesInv, LeftInv, OverInv, NEW p \in Phase, HookBegin(p) \/ HookPasses(p) \/ HookFails(p)
  PROVE  LeftInv'
<1>1. p \in {"pre_task", "post_task"} => eng.task \in Task
  BY DEF HookBegin, HookPasses, HookFails, HookRun, TimesInv, Shape, Before, Ended
<1>2. HookKey(p) \in Key /\ \A t \in Task, a \in Attempt : HookKey(p) # <<"task", t, a>>
  BY <1>1, HookKeys
<1>3. clock \in Nat \ {0} /\ clock' = clock + 1 /\ UNCHANGED <<job, task, runs>>
  BY DEF HookBegin, HookPasses, HookFails, TimesInv, Shape, Tick
<1>4. PICK at : Goto(at) /\ \/ HookBegin(p) /\ at = HookRun(p)
                            \/ HookPasses(p) /\ at = AfterHooks(p)
                            \/ HookFails(p) /\ at \in CASE p = "pre_task" -> {"hook_failed"}
                                                 [] p = "post_task" -> {"retry", "give_up", "complete"}
                                                 [] OTHER -> {"fail"}
  BY DEF HookBegin, HookPasses, HookFails
<1>5. /\ eng'.at = at /\ eng'.task = eng.task /\ eng'.attempt = eng.attempt /\ eng'.done = eng.done
  BY <1>4 DEF Goto, TimesInv, Shape
<1>6. /\ ClosedInv' /\ exec'[HookKey(p)].status # "none"
      /\ HookPasses(p) \/ HookFails(p) => exec'[HookKey(p)].status # "running"
      /\ \A j \in Key : j # HookKey(p) => exec'[j] = exec[j]
  <2>1. CASE HookBegin(p)
    <3>1. OpenRow(HookKey(p)) /\ Tick
      BY <2>1 DEF HookBegin
    <3>2. ~HookPasses(p) /\ ~HookFails(p)
      BY <2>1 DEF HookBegin, HookPasses, HookFails, HookRun, Phase
    <3>3. QED BY <1>2, <1>5, <3>1, <3>2, OpenedRow
  <2>2. CASE HookPasses(p) \/ HookFails(p)
    <3>1. PICK s \in {"completed", "failed", "stopped"} : CloseRow(HookKey(p), s, clock)
      BY <2>2 DEF HookPasses, HookFails
    <3>2. /\ ClosedInv' /\ exec'[HookKey(p)].status = s
          /\ \A j \in Key : j # HookKey(p) => exec'[j] = exec[j]
      BY <1>2, <1>3, <1>5, <3>1, ClosedRow
    <3>3. QED BY <3>2
  <2>3. QED BY <2>1, <2>2
<1>7. /\ eng.at \in Begun \cup Ended <=> p = "post_task"
      /\ eng'.at \in Begun \cup Ended <=> p = "post_task"
  BY <1>4, <1>5 DEF HookBegin, HookPasses, HookFails, HookRun, AfterHooks, Phase, Begun, Ended
<1>8. CallsInv'
  BY <1>3, <1>5, <1>6, <1>7, SameCalls DEF TimesInv, Shape
<1>9. OpenInv'
  <2>1. SUFFICES ASSUME NEW k \in Key, exec'[k].status = "running" PROVE Own(k)'
    BY DEF OpenInv
  <2>2. \A q \in Phase : HookKey(q)' = HookKey(q)
    BY <1>5 DEF HookKey
  <2>3. CASE k = HookKey(p)
    <3>1. eng'.at = HookRun(p)
      BY <1>4, <1>5, <1>6, <2>1, <2>3
    <3>2. QED BY <2>2, <2>3, <3>1 DEF Own
  <2>4. CASE k # HookKey(p)
    <3>1. exec[k].status = "running" /\ eng.at # "off"
      BY <1>4, <1>6, <2>1, <2>4 DEF HookBegin, HookPasses, HookFails, HookRun, Phase
    <3>2. Own(k)
      BY <3>1 DEF LeftInv, OpenInv
    <3>3. \A q \in Phase : eng.at = HookRun(q) => q = p
      BY <1>4 DEF HookBegin, HookPasses, HookFails, HookRun, Phase
    <3>4. eng.at \in Begun \cup Ended /\ k = <<"task", eng.task, eng.attempt>>
      BY <2>4, <3>2, <3>3 DEF Own
    <3>5. QED BY <1>5, <1>7, <3>4 DEF Own
  <2>5. QED BY <2>3, <2>4
<1>10. TasksInv'
  <2>1. eng'.at \in {"post_plan", "post_plan_hook", "succeed"} =>
          eng.at \in {"post_plan", "post_plan_hook", "succeed"}
    BY <1>4, <1>5 DEF HookBegin, HookPasses, HookFails, HookRun, AfterHooks, Phase
  <2>2. eng.at \notin {"off", "fail"} /\ eng'.todo = eng.todo
    BY <1>4 DEF HookBegin, HookPasses, HookFails, HookRun, Phase, Goto, TimesInv, Shape
  <2>3. InTask => InTask' \/ eng'.at = "fail"
    BY <1>4, <1>5 DEF HookBegin, HookPasses, HookFails, HookRun, AfterHooks, Phase,
       InTask, Before, Begun, Ended
  <2>4. \A t \in Task, a \in Attempt : exec'[<<"task", t, a>>] = exec[<<"task", t, a>>]
    BY <1>2, <1>6, TaskKeys
  <2>5. QED BY <1>3, <1>5, <2>1, <2>2, <2>3, <2>4, SameTasks DEF LeftInv
<1>11. CompletedInv'
  <2>1. eng.at # "off"
    BY <1>4 DEF HookBegin, HookPasses, HookFails, HookRun, Phase
  <2>2. QED BY <1>3, <2>1, WorkingJob DEF CompletedInv
<1>12. QED BY <1>6, <1>8, <1>9, <1>10, <1>11 DEF LeftInv

LEMMA BeginLeft ==
  ASSUME TimesInv, LeftInv, OverInv, BeginAttempt PROVE LeftInv'
<1> DEFINE k == <<"task", eng.task, eng.attempt>>
<1>1. k \in Key /\ eng.task \in Task /\ eng.attempt \in Attempt /\ eng.at = "attempt"
  BY TaskKeys DEF BeginAttempt, TimesInv, Shape, Before
<1>2. /\ eng'.at = "call" /\ eng'.task = eng.task /\ eng'.attempt = eng.attempt
      /\ eng'.done = eng.done
  BY DEF BeginAttempt, Goto, TimesInv, Shape
<1>3. OpenRow(k) /\ Tick /\ UNCHANGED <<job, runs>>
  BY DEF BeginAttempt
<1> HIDE DEF k
<1>4. ClosedInv' /\ exec'[k].status = "running" /\ \A j \in Key : j # k => exec'[j] = exec[j]
  BY <1>1, <1>2, <1>3, OpenedRow
<1>5. CallsInv'
  BY <1>1, <1>2, <1>3, <1>4, SameCalls DEF k
<1>6. ASSUME NEW j \in Key, exec'[j].status = "running" PROVE j = k
  <2>1. j # k => exec[j].status = "running"
    BY <1>4, <1>6
  <2>2. ~Own(j)
    BY <1>1 DEF Own, Begun, Ended, HookRun, Phase
  <2>3. QED BY <1>1, <2>1, <2>2 DEF LeftInv, OpenInv
<1>7. OpenInv'
  BY <1>2, <1>6 DEF OpenInv, Own, Begun, k
<1>8. TasksInv'
  <2>1. task'[eng.task].status = "running" /\ \A t \in Task : t # eng.task => task'[t] = task[t]
    BY <1>1 DEF BeginAttempt, MarkTaskRunning, TimesInv, Shape
  <2>2. \A t \in Task, a \in Attempt :
          t # eng.task => exec'[<<"task", t, a>>] = exec[<<"task", t, a>>]
    BY <1>4, TaskKeys DEF k
  <2>3. eng'.todo = eng.todo /\ InTask'
    BY <1>2 DEF BeginAttempt, Goto, TimesInv, Shape, InTask, Begun
  <2>4. QED BY <1>1, <1>2, <2>1, <2>2, <2>3, OneTask DEF LeftInv
<1>9. CompletedInv'
  BY <1>1, <1>3, WorkingJob DEF CompletedInv
<1>10. QED BY <1>4, <1>5, <1>7, <1>8, <1>9 DEF LeftInv

LEMMA AgentEndLeft ==
  ASSUME TimesInv, LeftInv, OverInv, FinishAgentRun PROVE LeftInv'
<1>1. /\ clock \in Nat \ {0} /\ clock' = clock + 1 /\ UNCHANGED <<job, task, exec>>
      /\ eng.at = "agent" /\ eng.task \in Task /\ eng.attempt \in Attempt
  BY DEF FinishAgentRun, Tick, TimesInv, Shape, Begun
<1>2. PICK tokens \in {"reported", "unknown"}, out \in {"post_task", "retry", "limit"} :
        /\ runs' = [runs EXCEPT ![eng.task][eng.attempt] = tokens]
        /\ eng' = [eng EXCEPT !.at = out, !.done = clock]
  BY DEF FinishAgentRun
<1>3. /\ eng'.at = out /\ eng'.task = eng.task /\ eng'.attempt = eng.attempt /\ eng'.done = clock
  BY <1>2 DEF TimesInv, Shape
<1>4. exec[<<"task", eng.task, eng.attempt>>].status # "none"
  BY <1>1 DEF LeftInv, CallsInv, Begun
<1>5. /\ runs' \in [Task -> [Attempt -> {"none", "open", "reported", "unknown"}]]
      /\ \A t \in Task, a \in Attempt :
           runs'[t][a] # "none" => runs[t][a] # "none" \/ (t = eng.task /\ a = eng.attempt)
  BY <1>1, <1>2 DEF LeftInv, CallsInv
<1>6. CallsInv'
  BY <1>1, <1>3, <1>4, <1>5 DEF LeftInv, CallsInv
<1>7. ClosedInv'
  <2>1. \A k \in Key : exec[k].ended \in Nat
    BY DEF TimesInv, Shape
  <2>2. QED BY <1>1, <1>3, <2>1 DEF LeftInv, ClosedInv
<1>8. OpenInv'
  BY <1>1, <1>3 DEF LeftInv, OpenInv, Own, Begun, Ended, HookRun, Phase
<1>9. TasksInv'
  <2>1. eng'.todo = eng.todo /\ InTask'
    BY <1>2, <1>3 DEF TimesInv, Shape, InTask, Ended
  <2>2. QED BY <1>1, <1>3, <2>1, SameTasks DEF LeftInv
<1>10. CompletedInv'
  BY <1>1, WorkingJob DEF CompletedInv
<1>11. QED BY <1>6, <1>7, <1>8, <1>9, <1>10 DEF LeftInv

\* A task's row ends with it: nothing runs any more.
LEMMA AttemptLeft ==
  ASSUME TimesInv, LeftInv, OverInv, UsageLimit \/ FailTask \/ CompleteTask \/ RetryAttempt
  PROVE  LeftInv'
<1> DEFINE k == <<"task", eng.task, eng.attempt>>
<1>1. /\ eng.at \in {"limit", "give_up", "retry", "complete"} /\ clock' \in {clock, clock + 1}
      /\ UNCHANGED runs
  BY DEF UsageLimit, FailTask, CompleteTask, RetryAttempt, Tick
<1>2. PICK s \in {"completed", "failed", "stopped"} : CloseRow(k, s, eng.done)
  BY DEF UsageLimit, FailTask, CompleteTask, RetryAttempt
<1>3. /\ eng.task \in Task /\ eng.attempt \in Attempt /\ clock \in Nat \ {0} /\ eng.done \in Nat
      /\ k \in Key /\ exec[k].started <= eng.done /\ exec[k].started \in Nat
  BY <1>1, TaskKeys DEF TimesInv, Shape, AgentEnds, Ended
<1>4. eng'.at \in {"off", "fail", "next", "attempt"} /\ eng'.done = eng.done
  BY DEF UsageLimit, FailTask, CompleteTask, RetryAttempt, Goto, TimesInv, Shape
<1>5. eng.done < clock
  BY DEF LeftInv, ClosedInv
<1> HIDE DEF k
<1>6. ClosedInv' /\ exec'[k].status = s /\ \A j \in Key : j # k => exec'[j] = exec[j]
  <2>1. eng.done < clock' /\ (exec[k].started > 0 => eng.done > 0)
    BY <1>1, <1>3, <1>5
  <2>2. QED BY <1>1, <1>2, <1>3, <1>4, <2>1, ClosedRow
<1>7. eng'.at \notin Begun \cup Ended
  BY <1>4 DEF Begun, Ended
<1>8. CallsInv'
  BY <1>1, <1>6, <1>7, SameCalls
<1>9. \A j \in Key : exec'[j].status # "running"
  <2>1. \A j \in Key : Own(j) => j = k
    BY <1>1 DEF Own, HookRun, Phase, k
  <2>2. eng.at # "off"
    BY <1>1
  <2>3. QED BY <1>6, <2>1, <2>2 DEF LeftInv, OpenInv
<1>10. OpenInv'
  BY <1>9 DEF OpenInv
<1>13. TasksInv'
  <2> PICK u \in Task : u = eng.task
    BY <1>3
  <2>1. \A t \in Task : t # u => task'[t] = task[t]
    BY DEF UsageLimit, FailTask, CompleteTask, RetryAttempt, EndTask, TimesInv, Shape
  <2>2. \A t \in Task, a \in Attempt : t # u => exec'[<<"task", t, a>>] = exec[<<"task", t, a>>]
    BY <1>6, TaskKeys DEF k
  <2>3. /\ TasksInv /\ eng.task = u /\ eng.at \notin {"off", "fail"}
        /\ eng'.at \notin {"post_plan", "post_plan_hook", "succeed"}
    BY <1>1, <1>4 DEF LeftInv
  <2>4. CASE CompleteTask
    <3>1. CloseRow(k, "completed", eng.done) /\ EndTask(u, "completed", eng.attempt)
      BY <2>4 DEF CompleteTask, k
    <3>2. exec'[k].status = "completed"
      BY <1>3, <3>1 DEF CloseRow, TimesInv, Shape
    <3>3. task'[u].status = "completed"
      BY <3>1 DEF EndTask, TimesInv, Shape
    <3>4. HasDone(u)'
      BY <1>3, <3>2 DEF HasDone, k
    <3>5. Through(u)'
      BY <3>3, <3>4 DEF Through
    <3>6. eng'.todo = eng.todo
      BY <2>4 DEF CompleteTask, Goto, TimesInv, Shape
    <3>7. QED BY <2>1, <2>2, <2>3, <3>4, <3>5, <3>6, OneTask
  <2>5. CASE ~CompleteTask
    <3>1. task'[u].status \in {"stopped", "failed", "pending"}
      <4>1. CASE RetryAttempt
        BY <4>1 DEF RetryAttempt, TimesInv, Shape
      <4>2. CASE UsageLimit
        BY <4>2 DEF UsageLimit, EndTask, TimesInv, Shape
      <4>3. CASE FailTask
        BY <4>3 DEF FailTask, EndTask, TimesInv, Shape
      <4>4. QED BY <2>5, <4>1, <4>2, <4>3
    <3>2. eng'.at \notin {"off", "fail"} => eng'.todo = eng.todo /\ InTask' /\ eng'.task = u
      BY <2>5 DEF UsageLimit, FailTask, RetryAttempt, Goto, TimesInv, Shape, InTask, Before
    <3>3. QED BY <2>1, <2>2, <2>3, <3>1, <3>2, OneTask
  <2>6. QED BY <2>4, <2>5
<1>11. CompletedInv'
  <2>1. job.status # "completed"
    BY <1>1, WorkingJob
  <2>2. job'.status # "completed"
    BY <2>1 DEF UsageLimit, FailTask, CompleteTask, RetryAttempt, TimesInv, Shape
  <2>3. QED BY <2>2 DEF CompletedInv
<1>12. QED BY <1>6, <1>8, <1>10, <1>11, <1>13 DEF LeftInv

LEMMA PreHookLeft ==
  ASSUME TimesInv, LeftInv, OverInv, PreHookFailed PROVE LeftInv'
<1> DEFINE k == <<"task", eng.task, eng.was[eng.task]>>
<1>1. /\ eng.at = "hook_failed" /\ Tick /\ UNCHANGED <<job, runs>>
      /\ CloseRow(k, "failed", clock)
  BY DEF PreHookFailed
<1>2. k \in Key /\ eng.task \in Task /\ clock \in Nat \ {0} /\ clock' = clock + 1
  BY <1>1, TaskKeys DEF TimesInv, Shape, Before, Tick
<1>3. eng'.at = "fail" /\ eng'.done = eng.done
  BY DEF PreHookFailed, Goto, TimesInv, Shape
<1> HIDE DEF k
<1>4. ClosedInv' /\ exec'[k].status = "failed" /\ \A j \in Key : j # k => exec'[j] = exec[j]
  BY <1>1, <1>2, <1>3, ClosedRow
<1>5. CallsInv'
  BY <1>1, <1>3, <1>4, SameCalls DEF Begun, Ended
<1>6. \A j \in Key : exec'[j].status # "running"
  <2>1. \A j \in Key : ~Own(j)
    BY <1>1 DEF Own, HookRun, Phase, Begun, Ended
  <2>2. QED BY <1>1, <1>4, <2>1 DEF LeftInv, OpenInv
<1>7. OpenInv'
  BY <1>6 DEF OpenInv
<1>10. TasksInv'
  <2>1. task'[eng.task].status = "failed" /\ \A t \in Task : t # eng.task => task'[t] = task[t]
    BY <1>2 DEF PreHookFailed, EndTask, TimesInv, Shape
  <2>2. \A t \in Task, a \in Attempt :
          t # eng.task => exec'[<<"task", t, a>>] = exec[<<"task", t, a>>]
    BY <1>4, TaskKeys DEF k
  <2>3. QED BY <1>1, <1>2, <1>3, <2>1, <2>2, OneTask DEF LeftInv
<1>8. CompletedInv'
  BY <1>1, WorkingJob DEF CompletedInv
<1>9. QED BY <1>4, <1>5, <1>7, <1>8, <1>10 DEF LeftInv

-----------------------------------------------------------------------------
(* The rows when a run ends or begins.                                     *)

\* A stop or a load writes to the job and its tasks alone, and completes none.
LEMMA LateLeft ==
  ASSUME TimesInv, LeftInv, UNCHANGED <<exec, runs, eng>>, clock' \in {clock, clock + 1},
         job' = job \/ job'.status \in {"stopped", "failed"},
         \A t \in Task : task'[t] = task[t] \/ task'[t].status = "stopped"
  PROVE  LeftInv' /\ \A end : Finished(end) => Finished(end)'
<1>1. CallsInv' /\ ClosedInv'
  BY SameRows
<1>2. OpenInv'
  BY DEF LeftInv, OpenInv, Own, HookKey
<1>3. TasksInv'
  BY SameTasks DEF LeftInv, InTask
<1>4. \A end : Finished(end) => Finished(end)'
  BY DEF Finished, Through, HasDone
<1>5. CompletedInv'
  BY <1>4 DEF LeftInv, CompletedInv
<1>6. QED BY <1>1, <1>2, <1>3, <1>4, <1>5 DEF LeftInv

LEMMA EndJobLeft == ASSUME TimesInv, LeftInv, EndJob PROVE LeftInv'
<1>1. /\ clock \in Nat \ {0} /\ clock' = clock + 1 /\ UNCHANGED <<task, exec, runs>>
      /\ eng.at \in {"succeed", "fail"} /\ eng'.at = "off" /\ eng'.done = eng.done
  BY DEF EndJob, Tick, Goto, TimesInv, Shape
<1>2. job'.status = (IF eng.at = "succeed" THEN "completed" ELSE "failed") /\ job'.completed = clock
  BY DEF EndJob, MarkJob, TimesInv, Shape
<1>3. CallsInv' /\ ClosedInv'
  BY <1>1, SameRows DEF Begun, Ended
<1>4. OpenInv' /\ TasksInv'
  BY <1>1, SameTasks DEF OpenInv, LeftInv
<1>5. CompletedInv'
  <2>1. SUFFICES ASSUME eng.at = "succeed" PROVE CompletedInv'
    BY <1>1, <1>2 DEF CompletedInv
  <2>2. \A t \in Task : Through(t)
    BY <2>1 DEF LeftInv, TasksInv, InTask, Before, Begun, Ended
  <2>3. \A k \in Key : exec[k].status # "running"
    BY <2>1 DEF LeftInv, OpenInv, Own, HookRun, Phase, Begun, Ended
  <2>4. \A k \in Key : exec[k].ended <= clock
    BY <1>1 DEF LeftInv, ClosedInv, TimesInv, Shape
  <2>5. QED BY <1>1, <1>2, <2>2, <2>3, <2>4 DEF CompletedInv, Finished, Through, HasDone
<1>6. QED BY <1>3, <1>4, <1>5 DEF LeftInv

LEMMA StartLeft == ASSUME TimesInv, LeftInv, StartRun PROVE LeftInv'
<1>1. /\ clock \in Nat \ {0} /\ clock' = clock + 1 /\ UNCHANGED <<task, runs>>
      /\ job'.status = "running" /\ eng'.at = "pre_plan" /\ eng'.done = 0
  BY DEF StartRun, MarkJobRunning, Idle, Tick, TimesInv, Shape
<1>2. ASSUME NEW k \in Key
      PROVE  /\ Closed(exec'[k]) /\ exec'[k].ended < clock' /\ exec'[k].status # "running"
             /\ exec[k].status # "none" => exec'[k].status # "none"
  <2>1. CASE exec[k].status = "running"
    <3> DEFINE end == IF job.completed = 0 \/ job.completed < exec[k].started
                      THEN exec[k].started ELSE job.completed
               closed == IF job.status = "stopped" THEN "stopped" ELSE "failed"
    <3>1. end \in Nat /\ end < clock' /\ (exec[k].started > 0 => end > 0) /\ closed \in {"stopped", "failed"}
      BY <1>1 DEF TimesInv, Shape, Past
    <3>2. exec'[k] = [exec[k] EXCEPT !.status = closed, !.ended = end]
      BY <2>1 DEF StartRun, CloseInterrupted
    <3>3. exec[k] \in [status : RowStatus, started : Nat, ended : Nat]
      BY DEF TimesInv, Shape
    <3> HIDE DEF end, closed
    <3>4. exec'[k] = [status |-> closed, started |-> exec[k].started, ended |-> end]
      BY <3>2, <3>3
    <3>5. QED BY <3>1, <3>4 DEF Closed
  <2>2. CASE exec[k].status # "running"
    <3>1. exec'[k] = exec[k]
      BY <2>2 DEF StartRun, CloseInterrupted
    <3>2. Closed(exec[k]) /\ exec[k].ended < clock'
      BY <1>1 DEF LeftInv, ClosedInv, TimesInv, Shape
    <3>3. QED BY <2>2, <3>1, <3>2
  <2>3. QED BY <2>1, <2>2
<1>3. ClosedInv'
  BY <1>1, <1>2 DEF ClosedInv
<1>4. CallsInv'
  BY <1>1, <1>2, SameCalls DEF Begun, Ended
<1>5. OpenInv' /\ CompletedInv'
  BY <1>1, <1>2 DEF OpenInv, CompletedInv
<1>6. TasksInv'
  <2>1. eng'.todo = {t \in Task : task[t].status # "completed"}
    BY DEF StartRun, Idle
  <2>2. \A k \in Key : exec[k].status = "completed" => exec'[k] = exec[k]
    BY DEF StartRun, CloseInterrupted
  <2>3. \A t \in Task : HasDone(t) => HasDone(t)'
    BY <2>2, TaskKeys DEF HasDone
  <2>4. \A t \in Task : task[t].status = "completed" => Through(t)' /\ HasDone(t)'
    BY <1>1, <2>3 DEF LeftInv, TasksInv, Through
  <2>5. QED BY <1>1, <2>1, <2>4 DEF TasksInv
<1>7. QED BY <1>3, <1>4, <1>5, <1>6 DEF LeftInv

LEMMA LateCommand ==
  ASSUME TimesInv, StopInv, OverInv, Command
  PROVE  /\ UNCHANGED <<exec, runs, eng>> /\ clock' \in {clock, clock + 1}
         /\ job' = job \/ job'.status \in {"stopped", "failed"}
         /\ \A t \in Task : task'[t] = task[t] \/ task'[t].status = "stopped"
<1>1. clock' \in {clock, clock + 1}
  BY DEF Command, StopMarksJob, StopListsTasks, StopMarksTask, Reconcile, Tick, rowVars
<1>2. QED BY <1>1, CommandSteps DEF TimesInv

LEMMA LateRead ==
  ASSUME TimesInv, ReconcileRead
  PROVE  /\ UNCHANGED <<exec, runs, eng>> /\ clock' \in {clock, clock + 1}
         /\ job' = job \/ job'.status \in {"stopped", "failed"}
         /\ \A t \in Task : task'[t] = task[t] \/ task'[t].status = "stopped"
<1>1. UNCHANGED <<exec, runs, eng, task>>
  BY DEF ReconcileRead
<1>2. (clock' = clock + 1 /\ job'.status = "failed") \/ UNCHANGED <<clock, job>>
  BY DEF ReconcileRead, MarkJob, Tick, TimesInv, Shape
<1>3. QED BY <1>1, <1>2

LEMMA LeftStep ==
  ASSUME TimesInv, StopInv, FinalInv, LeftInv, [PageNext]_pageVars PROVE LeftInv'
<1> USE DEF FinalInv
<1>1. CASE Engine
  <2>1. ASSUME NEW p \in Phase, HookBegin(p) \/ NoHook(p) \/ HookPasses(p) \/ HookFails(p)
        PROVE  LeftInv'
    BY <2>1, QuietLeft, HookLeft
  <2>2. QED
    BY <1>1, <2>1, QuietLeft, BeginLeft, AgentEndLeft, AttemptLeft, PreHookLeft, EndJobLeft DEF Engine
<1>2. CASE Killed \/ UNCHANGED rowVars
  BY <1>2, QuietLeft
<1>3. CASE Command
  BY <1>3, LateCommand, LateLeft
<1>4. CASE ReconcileRead
  BY <1>4, LateRead, LateLeft
<1>5. CASE Restart
  BY <1>5, StartLeft DEF Restart
<1>6. QED
  BY <1>1, <1>2, <1>3, <1>4, <1>5
  DEF PageNext, pageVars, LoadJob, ReadTasks, ReadExecutions, ReadRuns, Poll

LEMMA InitLeft == Init => LeftInv
<1> SUFFICES ASSUME Init PROVE LeftInv
  OBVIOUS
<1>1. /\ clock = 1 /\ eng = Idle
      /\ job = [status |-> "pending", started |-> 0, completed |-> 0, limited |-> FALSE]
      /\ task = [t \in Task |-> [status |-> "pending", started |-> 0, completed |-> 0,
                                 retries |-> 0]]
      /\ exec = [k \in Key |-> NoRow] /\ runs = [t \in Task |-> [a \in Attempt |-> "none"]]
  BY DEF Init, RowsInit
<1>2. CallsInv
  BY <1>1 DEF CallsInv, Idle, Begun, Ended
<1>3. ClosedInv
  BY <1>1 DEF ClosedInv, Closed, NoRow, Idle
<1>4. OpenInv /\ TasksInv /\ CompletedInv
  BY <1>1 DEF OpenInv, TasksInv, CompletedInv, Idle
<1>5. QED BY <1>2, <1>3, <1>4 DEF LeftInv

-----------------------------------------------------------------------------
(* What a page reads of them.                                              *)

\* The page of a completed job has it finished by the end it shows.
ReadInv ==
  /\ page.now \in Nat
  /\ page.at \in Read /\ page.job.status = "completed" =>
       /\ Finished(page.job.completed)
       /\ page.at \in {"executions", "runs", "shown"} =>
            \A t \in Task : page.task[t].status \in {"completed", "stopped"}

LEMMA ReadInvStep ==
  ASSUME TimesInv, StopInv, FinalInv, LeftInv, ReadInv, [PageNext]_pageVars PROVE ReadInv'
<1> USE DEF FinalInv
<1>1. CASE (Engine \/ Killed) /\ UNCHANGED page
  <2>1. page.at \in Read => page.job.status # "completed"
    BY <1>1, OffIsQuiet DEF PageInv, Final
  <2>2. QED BY <1>1, <2>1 DEF ReadInv
<1>2. CASE Command /\ UNCHANGED page
  <2>1. \A end : Finished(end) => Finished(end)'
    BY <1>2, LateCommand, LateLeft
  <2>2. QED BY <1>2, <2>1 DEF ReadInv
<1>3. CASE UNCHANGED rowVars
  <2>1. \A end : Finished(end) <=> Finished(end)'
    BY <1>3 DEF rowVars, Finished, Through, HasDone
  <2>2. CASE LoadJob
    <3>1. page'.at = "tasks" /\ page'.job = job /\ page'.now = page.now
      BY <2>2 DEF LoadJob, PageShape
    <3>2. page'.job.status = "completed" => Finished(page'.job.completed)
      BY <3>1 DEF LeftInv, CompletedInv
    <3>3. QED BY <2>1, <3>1, <3>2 DEF ReadInv
  <2>3. CASE ReadTasks
    <3>1. page'.job = page.job /\ page'.task = task /\ page'.now = page.now /\ page.at = "tasks"
      BY <2>3 DEF ReadTasks, PageShape
    <3>2. page.job.status = "completed" =>
            /\ Finished(page.job.completed)
            /\ \A t \in Task : task[t].status \in {"completed", "stopped"}
      BY <3>1 DEF ReadInv, Finished, Through, Read
    <3>3. QED BY <2>1, <3>1, <3>2 DEF ReadInv
  <2>4. CASE ReadExecutions \/ ReadRuns
    <3>1. /\ page'.job = page.job /\ page'.task = page.task /\ page'.now \in {page.now, clock}
          /\ page.at \in {"executions", "runs"}
      BY <2>4 DEF ReadExecutions, ReadRuns, PageShape
    <3>2. page'.now \in Nat
      BY <3>1 DEF ReadInv, TimesInv, Shape
    <3>3. page.job.status = "completed" =>
            /\ Finished(page.job.completed)
            /\ \A t \in Task : page.task[t].status \in {"completed", "stopped"}
      BY <3>1 DEF ReadInv, Read
    <3>4. QED BY <2>1, <3>1, <3>2, <3>3 DEF ReadInv
  <2>5. CASE Poll
    BY <2>5 DEF Poll, Blank, ReadInv, Read
  <2>6. CASE UNCHANGED page
    BY <2>1, <2>6 DEF ReadInv
  <2>7. CASE ReconcileRead /\ eng.at # "off"
    <3>1. page'.job = page.job /\ page'.now = page.now /\ page.at = "pid"
      BY <2>7 DEF ReconcileRead, PageShape
    <3>2. page.job.status = "running"
      BY <3>1 DEF PageInv, Read
    <3>3. QED BY <3>1, <3>2 DEF ReadInv
  <2>8. CASE Restart
    BY <2>8 DEF Restart, Blank, ReadInv, Read
  <2>9. CASE ReconcileRead /\ eng.at = "off"
    <3>1. clock' = clock + 1 /\ clock' = clock /\ clock \in Nat
      BY <1>3, <2>9 DEF ReconcileRead, Tick, rowVars, TimesInv, Shape
    <3>2. QED BY <3>1
  <2>10. QED
    BY <1>1, <1>2, <2>2, <2>3, <2>4, <2>5, <2>6, <2>7, <2>8, <2>9 DEF PageNext, pageVars
<1>4. CASE ReconcileRead
  <2>1. CASE eng.at # "off"
    BY <1>3, <1>4, <2>1 DEF ReconcileRead, rowVars
  <2>2. CASE eng.at = "off"
    <3>1. page.at = "pid" /\ page.job \in JobRow
      BY <1>4 DEF ReconcileRead, PageInv, Read
    <3>2. page'.now = page.now /\ page'.job = [page.job EXCEPT !.status = "failed"]
      BY <1>4, <2>2 DEF ReconcileRead, PageShape
    <3>3. page'.job.status = "failed"
      BY <3>1, <3>2 DEF JobRow
    <3>4. QED BY <3>2, <3>3 DEF ReadInv
  <2>3. QED BY <2>1, <2>2
<1>5. CASE Restart
  BY <1>5 DEF Restart, Blank, ReadInv, Read
<1>6. QED
  BY <1>1, <1>2, <1>3, <1>4, <1>5
  DEF PageNext, pageVars, LoadJob, ReadTasks, ReadExecutions, ReadRuns, Poll

\* What a run of a job leaves, and what a page keeps of it, whatever a stop or a load
\* writes late.
THEOREM JobPageInvariant == PageSpec => [](TimesInv /\ FinalInv /\ LeftInv /\ ReadInv)
<1>1. Init => TimesInv /\ StopInv /\ FinalInv /\ LeftInv /\ ReadInv
  <2>1. Init => ReadInv
    BY DEF Init, Blank, ReadInv, Read
  <2>2. QED BY <2>1, InitTimes, InitFinal, InitLeft
<1>2. TimesInv /\ StopInv /\ FinalInv /\ LeftInv /\ ReadInv /\ [PageNext]_pageVars
        => (TimesInv /\ StopInv /\ FinalInv /\ LeftInv /\ ReadInv)'
  BY TimesInvStep, StopInvStep, FinalInvStep, LeftStep, ReadInvStep
<1>3. QED BY <1>1, <1>2, PTL DEF PageSpec

\* A page that has the rows and the calls as they are.
Whole ==
  /\ TimesInv /\ LeftInv /\ ReadInv /\ page.job \in JobRow
  /\ page.at = "shown" /\ Final(page.job) /\ page.job.status # "running"
  /\ page.exec = exec /\ page.runs = runs

LEMMA FinalIsWhole ==
  ASSUME TimesInv, FinalInv, LeftInv, ReadInv, Over PROVE Whole
<1>1. Shown /\ Final(page.job)
  BY DEF Over, Final
<1>2. /\ page.job \in JobRow /\ page.exec = exec /\ page.runs = runs
      /\ page.job.limited => page.job.status \in {"stopped", "failed"}
  BY <1>1 DEF FinalInv, PageInv, Shown, Read
<1>3. QED BY <1>1, <1>2 DEF Final, Shown, Whole

LEMMA WholeSteps == ASSUME Whole PROVE Timed
  BY DEF Whole, Timed, ReadInv, TimesInv, Shape

-----------------------------------------------------------------------------
(* The tokens of its rows.                                                 *)

LEMMA AttemptNumber ==
  ASSUME NEW n \in Attempt \cup {-1}, NEW try, try = n + 1
  PROVE  try - 1 = n /\ (n \in Attempt <=> n # -1) /\ (n # -1 <=> try # 0)
  BY JobRowsAssumption DEF Attempt

LEMMA LineTokens ==
  ASSUME Whole, NEW x \in Lines
  PROVE  /\ StepOf(x).phase = x[1]
         /\ x[1] = "task" =>
              /\ StepOf(x).task = x[2] /\ StepOf(x).try = x[3] + 1
              /\ RowTokens(StepOf(x)) =
                   IF x[3] = -1 \/ runs[x[2]][x[3]] = "none" THEN 0
                   ELSE IF runs[x[2]][x[3]] = "reported" THEN 1 ELSE -1
<1>1. /\ StepOf(x).phase = x[1] /\ StepOf(x).task = x[2]
      /\ x[1] = "task" => StepOf(x).try = x[3] + 1
  BY DEF StepOf
<1>2. SUFFICES ASSUME x[1] = "task"
               PROVE  RowTokens(StepOf(x)) = IF x[3] = -1 \/ runs[x[2]][x[3]] = "none" THEN 0
                                             ELSE IF runs[x[2]][x[3]] = "reported" THEN 1 ELSE -1
  BY <1>1
<1>3. x[2] \in Task /\ (x[3] \in Attempt \/ x[3] = -1) /\ Attempt \subseteq Nat
  BY <1>2, LineIs DEF Attempt
<1> DEFINE s == StepOf(x)
<1>4. s.task = x[2] /\ s.try = x[3] + 1
  BY <1>1, <1>2
<1> HIDE DEF s
<1>5. CASE x[3] = -1
  <2>1. RunsOfStep(s) = {}
    BY <1>4, <1>5 DEF RunsOfStep
  <2>2. QED BY <1>5, <2>1 DEF RowTokens, s
<1>6. CASE x[3] \in Attempt
  <2>1. x[3] # -1 /\ s.try # 0 /\ s.try - 1 = x[3]
    <3>1. x[3] \in Attempt \cup {-1}
      BY <1>6
    <3>2. QED BY <1>4, <1>6, <3>1, AttemptNumber
  <2>2. RunsOfStep(s) = {runs[x[2]][x[3]]} \ {"none"}
    BY <1>4, <2>1 DEF RunsOfStep, Whole
  <2>3. CASE runs[x[2]][x[3]] = "none"
    BY <2>2, <2>3 DEF RowTokens, s
  <2>4. CASE runs[x[2]][x[3]] # "none"
    <3>1. RunsOfStep(s) # {} /\ (RunsOfStep(s) = {"reported"} <=> runs[x[2]][x[3]] = "reported")
      BY <2>2, <2>4
    <3>2. RowTokens(s) = IF runs[x[2]][x[3]] = "reported" THEN 1 ELSE -1
      BY <3>1 DEF RowTokens, None
    <3>3. QED BY <2>1, <2>4, <3>2 DEF s
  <2>5. QED BY <2>3, <2>4
<1>7. QED BY <1>3, <1>5, <1>6

\* The rows of some tasks with one figure, and the calls they should stand for.
RowsWith(ts, v) ==
  {i \in DOMAIN Steps : Steps[i].phase = "task" /\ Steps[i].task \in ts /\ RowTokens(Steps[i]) = v}
CallsOf(ts, kinds) == {w \in ts \X Attempt : runs[w[1]][w[2]] \in kinds}

LEMMA RowsOf ==
  ASSUME Whole, NEW ts, ts \subseteq Task, NEW v, NEW kinds,
         (v = 1 /\ kinds = {"reported"}) \/ (v = -1 /\ kinds = {"open", "unknown"})
  PROVE  Cardinality(RowsWith(ts, v)) = Cardinality(CallsOf(ts, kinds))
<1> DEFINE U == {i \in DOMAIN Steps : /\ Steps[i].phase = "task" /\ Steps[i].task \in ts
                                      /\ RowTokens(Steps[i]) = v}
           W == {w \in ts \X Attempt : runs[w[1]][w[2]] \in kinds}
           f == [i \in DOMAIN Steps |-> <<Steps[i].task, Steps[i].try - 1>>]
<1>0. RowsWith(ts, v) = U /\ CallsOf(ts, kinds) = W
  BY DEF RowsWith, CallsOf
<1>1. PICK at \in [DOMAIN Steps -> Lines] :
           /\ \A i \in DOMAIN Steps : Steps[i] = StepOf(at[i])
           /\ \A x \in Lines : \E i \in DOMAIN Steps : at[i] = x
           /\ \A i, j \in DOMAIN Steps : at[i] = at[j] => i = j
  BY WholeSteps, StepsAreLines
<1>2. IsFiniteSet(U)
  <2>1. Cardinality(Lines) \in Nat
    BY LinesFinite, FS_CardinalityType
  <2>2. IsFiniteSet(1..Cardinality(Lines))
    BY <2>1, FS_Interval
  <2>3. DOMAIN Steps = 1..Cardinality(Lines)
    BY DEF Steps
  <2>4. U \in SUBSET DOMAIN Steps
    OBVIOUS
  <2> HIDE DEF U
  <2>5. QED BY <2>2, <2>3, <2>4, FS_Subset
<1>3. ASSUME NEW i \in DOMAIN Steps, Steps[i].phase = "task"
      PROVE  /\ at[i] \in Lines /\ at[i][1] = "task" /\ at[i] = <<"task", at[i][2], at[i][3]>>
             /\ at[i][2] \in Task /\ at[i][3] \in Attempt \cup {-1}
             /\ Steps[i].task = at[i][2] /\ f[i] = <<at[i][2], at[i][3]>>
             /\ RowTokens(Steps[i]) = IF at[i][3] = -1 \/ runs[at[i][2]][at[i][3]] = "none" THEN 0
                                      ELSE IF runs[at[i][2]][at[i][3]] = "reported" THEN 1 ELSE -1
  <2>1. at[i] \in Lines /\ Steps[i] = StepOf(at[i])
    BY <1>1
  <2>2. at[i][1] = "task"
    BY <1>3, <2>1, LineTokens
  <2>3. /\ at[i] = <<"task", at[i][2], at[i][3]>>
        /\ at[i][2] \in Task /\ at[i][3] \in Attempt \cup {-1}
    BY <2>1, <2>2, LineIs
  <2>6. Steps[i].task = at[i][2] /\ Steps[i].try = at[i][3] + 1
    BY <2>1, <2>2, LineTokens
  <2>7. f[i] = <<at[i][2], at[i][3]>>
    <3>1. Steps[i].try - 1 = at[i][3]
      BY <2>3, <2>6, AttemptNumber
    <3> HIDE DEF Steps
    <3>2. QED BY <2>6, <3>1
  <2>8. RowTokens(Steps[i]) = IF at[i][3] = -1 \/ runs[at[i][2]][at[i][3]] = "none" THEN 0
                              ELSE IF runs[at[i][2]][at[i][3]] = "reported" THEN 1 ELSE -1
    BY <2>1, <2>2, LineTokens
  <2> HIDE DEF f
  <2>9. QED BY <2>1, <2>2, <2>3, <2>6, <2>7, <2>8
<1>4. \A t \in Task, a \in Attempt : runs[t][a] \in {"none", "open", "reported", "unknown"}
  BY DEF Whole, LeftInv, CallsInv
<1> HIDE DEF f
<1>5. ASSUME NEW i \in U PROVE f[i] \in W
  <2>1. i \in DOMAIN Steps /\ Steps[i].phase = "task" /\ Steps[i].task \in ts /\ RowTokens(Steps[i]) = v
    OBVIOUS
  <2> HIDE DEF U
  <2>2. at[i][3] # -1 /\ runs[at[i][2]][at[i][3]] # "none"
        /\ (v = 1 <=> runs[at[i][2]][at[i][3]] = "reported")
    BY <1>3, <2>1
  <2>3. at[i][2] \in ts /\ at[i][3] \in Attempt /\ f[i] = <<at[i][2], at[i][3]>>
    BY <1>3, <2>1, <2>2
  <2>4. runs[at[i][2]][at[i][3]] \in kinds
    BY <1>4, <2>2, <2>3
  <2>5. QED BY <2>3, <2>4
<1>6. ASSUME NEW w \in W PROVE \E i \in U : f[i] = w
  <2>1. PICK t \in ts, a \in Attempt : w = <<t, a>>
    OBVIOUS
  <2>2. runs[t][a] \in kinds
    BY <2>1
  <2>3. runs[t][a] # "none" /\ (v = 1 <=> runs[t][a] = "reported")
    BY <2>2
  <2>4. exec[<<"task", t, a>>].status # "none" /\ <<"task", t, a>> \in Key
    BY <2>3, TaskKeys DEF Whole, LeftInv, CallsInv
  <2>5. <<"task", t, a>> \in Lines
    BY <2>4 DEF Lines, HasRow, Whole
  <2>6. PICK i \in DOMAIN Steps : at[i] = <<"task", t, a>>
    BY <1>1, <2>5
  <2>7. Steps[i].phase = "task"
    BY <1>1, <2>5, <2>6, LineTokens
  <2>8. a # -1
    BY DEF Attempt
  <2>9. Steps[i].task = t /\ f[i] = <<t, a>> /\ RowTokens(Steps[i]) = v
    BY <1>3, <2>3, <2>6, <2>7, <2>8
  <2>10. QED BY <2>1, <2>6, <2>7, <2>9
<1>7. \A i, j \in U : f[i] = f[j] => i = j
  <2>1. \A i \in U : i \in DOMAIN Steps /\ Steps[i].phase = "task"
    OBVIOUS
  <2> HIDE DEF U
  <2>2. ASSUME NEW i \in U, NEW j \in U, f[i] = f[j] PROVE i = j
    <3>1. <<at[i][2], at[i][3]>> = <<at[j][2], at[j][3]>>
      BY <1>3, <2>1, <2>2
    <3>2. at[i] = at[j]
      BY <1>3, <2>1, <3>1
    <3>3. QED BY <1>1, <2>1, <3>2
  <2>3. QED BY <2>2
<1>8. W = {f[i] : i \in U}
  <2> HIDE DEF U
  <2>1. QED BY <1>5, <1>6
<1> HIDE DEF U, W
<1>9. Cardinality(W) = Cardinality(U)
  BY <1>2, <1>7, <1>8, SameSize
<1>10. QED BY <1>9, <1>0

LEMMA Rollup ==
  ASSUME Whole, NEW ts, ts \subseteq Task, NEW total, total = TokensTotal(ts),
         NEW R, R = CallsOf(ts, {"reported"}), NEW M, M = CallsOf(ts, {"open", "unknown"})
  PROVE  Later(total.total, 0) = Cardinality(R) /\ total.missing = Cardinality(M)
<1> DEFINE counted == {x \in ts \X Attempt : Counted(x[1], x[2])}
           reported == {x \in counted : page.runs[x[1]][x[2]] = "reported"}
<1>1. ASSUME NEW w \in ts \X Attempt
      PROVE  /\ Counted(w[1], w[2]) <=> runs[w[1]][w[2]] # "none"
             /\ runs[w[1]][w[2]] \in {"none", "open", "reported", "unknown"}
  <2>1. w[1] \in Task /\ w[2] \in Attempt
    BY <1>1
  <2>2. runs[w[1]][w[2]] \in {"none", "open", "reported", "unknown"}
    BY <2>1 DEF Whole, LeftInv, CallsInv
  <2>3. QED BY <2>2 DEF Counted, Unended, Whole
<1>2. reported = R /\ counted \ reported = M
  BY <1>1 DEF Whole, CallsOf
<1>3. total = [total |-> IF counted # {} /\ reported = {} THEN -1 ELSE Cardinality(reported),
               missing |-> Cardinality(counted \ reported)]
  BY DEF TokensTotal, None
<1>4. IsFiniteSet(R)
  <2>1. NTasks \in Nat /\ MaxAttempt \in Nat
    BY JobRowsAssumption
  <2>2. IsFiniteSet(1..NTasks) /\ IsFiniteSet(0..MaxAttempt)
    <3>1. IsFiniteSet(1..NTasks)
      BY <2>1, FS_Interval
    <3>2. IsFiniteSet(0..MaxAttempt)
      BY <2>1, FS_Interval
    <3>3. QED BY <3>1, <3>2
  <2>3. IsFiniteSet(Task \X Attempt)
    BY <2>2, FS_Product DEF Task, Attempt
  <2>4. R \in SUBSET (Task \X Attempt)
    BY DEF CallsOf
  <2>5. QED BY <2>3, <2>4, FS_Subset
<1>5. Cardinality(R) \in Nat /\ (R = {} => Cardinality(R) = 0)
  <2>1. Cardinality(R) \in Nat
    BY <1>4, FS_CardinalityType
  <2>2. R = {} => Cardinality(R) = 0
    BY FS_EmptySet
  <2>3. QED BY <2>1, <2>2
<1>6. PICK none \in BOOLEAN : none = (counted # {} /\ reported = {})
  OBVIOUS
<1>7. none => R = {}
  BY <1>2, <1>6
<1> HIDE DEF counted, reported
<1>8. total = [total |-> IF none THEN -1 ELSE Cardinality(R), missing |-> Cardinality(M)]
  BY <1>2, <1>3, <1>6
<1>9. total.total = (IF none THEN -1 ELSE Cardinality(R)) /\ total.missing = Cardinality(M)
  BY <1>8
<1>10. CASE none
  BY <1>5, <1>7, <1>9, <1>10 DEF Later
<1>11. CASE ~none
  <2>1. total.total = Cardinality(R)
    BY <1>9, <1>11
  <2>2. QED BY <1>5, <1>9, <2>1 DEF Later
<1>12. QED BY <1>10, <1>11

LEMMA WholeTokens == ASSUME Whole PROVE FinalTokensAddUp
<1> DEFINE rows(ts) == {i \in DOMAIN Steps : Steps[i].phase = "task" /\ Steps[i].task \in ts}
<1>1. ASSUME NEW ts \in {{t} : t \in Task} \cup {Task}
      PROVE  /\ Cardinality({i \in rows(ts) : RowTokens(Steps[i]) = 1}) = Later(TokensTotal(ts).total, 0)
             /\ Cardinality({i \in rows(ts) : RowTokens(Steps[i]) = None}) = TokensTotal(ts).missing
  <2>1. ts \subseteq Task
    OBVIOUS
  <2>2. /\ {i \in rows(ts) : RowTokens(Steps[i]) = 1} = RowsWith(ts, 1)
        /\ {i \in rows(ts) : RowTokens(Steps[i]) = None} = RowsWith(ts, -1)
    BY DEF None, RowsWith
  <2> HIDE DEF rows
  <2>3. Cardinality(RowsWith(ts, 1)) = Cardinality(CallsOf(ts, {"reported"}))
    BY <2>1, RowsOf
  <2>4. Cardinality(RowsWith(ts, -1)) = Cardinality(CallsOf(ts, {"open", "unknown"}))
    BY <2>1, RowsOf
  <2>5. /\ Later(TokensTotal(ts).total, 0) = Cardinality(CallsOf(ts, {"reported"}))
        /\ TokensTotal(ts).missing = Cardinality(CallsOf(ts, {"open", "unknown"}))
    BY <2>1, Rollup
  <2>6. QED BY <2>2, <2>3, <2>4, <2>5
<1>2. QED BY <1>1 DEF FinalTokensAddUp

\* FinalTokensAddUp: once the page stops polling, its rows account for every agent
\* call of each task and of the job, however many tasks and attempts there are.
THEOREM FinalTokensStay == PageSpec => []FinalTokensAddUp
<1>1. TimesInv /\ FinalInv /\ LeftInv /\ ReadInv => FinalTokensAddUp
  <2>1. CASE Over
    BY <2>1, FinalIsWhole, WholeTokens
  <2>2. CASE ~Over
    BY <2>2 DEF FinalTokensAddUp
  <2>3. QED BY <2>1, <2>2
<1>2. QED BY <1>1, JobPageInvariant, PTL

-----------------------------------------------------------------------------
(* The page of a completed job.                                            *)

\* A step of a completed job either never began or ended before the job did.
LEMMA QuietLine ==
  ASSUME Whole, page.job.status = "completed", NEW x \in Lines, NEW s, s = StepOf(x)
  PROVE  /\ s.status # "running" /\ s.started \in Nat /\ s.ended \in Nat
         /\ s.started > 0 => /\ s.status \in Terminal /\ s.ended > 0
                             /\ s.started <= s.ended /\ s.ended <= page.job.completed
<1>1. Finished(page.job.completed)
  BY DEF Whole, ReadInv, Read
<1>2. CASE x \in Key /\ HasRow(x)
  <2> DEFINE r == exec[x]
  <2>1. s.status = r.status /\ s.started = r.started /\ s.ended = r.ended
    BY <1>2 DEF StepOf, Whole
  <2>2. r.status \in RowStatus /\ r.started \in Nat /\ r.ended \in Nat
    BY <1>2 DEF Whole, TimesInv, Shape
  <2>3. r.status # "none" /\ Closed(r)
    BY <1>2 DEF HasRow, Whole, LeftInv, ClosedInv
  <2>4. r.status # "running" /\ r.ended <= page.job.completed
    BY <1>1, <1>2 DEF Finished
  <2>5. r.ended > 0 => r.started <= r.ended
    BY <1>2, <2>2 DEF Whole, TimesInv, TimesOrdered
  <2> HIDE DEF r
  <2>6. QED BY <2>1, <2>2, <2>3, <2>4, <2>5 DEF Closed, RowStatus, Terminal
<1>3. CASE ~(x \in Key /\ HasRow(x))
  <2>1. s.status = "pending" /\ s.started = 0 /\ s.ended = 0
    BY <1>3 DEF StepOf
  <2>2. QED BY <2>1
<1>4. QED BY <1>2, <1>3

\* The bar of a step that is over does not depend on the steps before it.
LEMMA TerminalBar ==
  ASSUME NEW steps, NEW origin, NEW now, NEW i \in 1..Len(steps),
         steps[i].status \in Terminal, steps[i].started > 0, steps[i].ended > 0,
         NEW b, b = Bars(steps, origin, now)[i]
  PROVE  /\ b[1] = Clamp(steps[i].started - origin)
         /\ b[2] = Clamp(steps[i].ended - origin)
         /\ b[3] = Clamp(steps[i].ended - origin)
<1>1. \E c : b = [j \in 1..3 |-> Clamp(Bar(steps, i, origin, now, c)[j])]
  BY DEF Bars
<1>2. ASSUME NEW c
      PROVE  Bar(steps, i, origin, now, c) =
               <<steps[i].started - origin, steps[i].ended - origin, steps[i].ended - origin>>
  BY DEF Bar, Terminal
<1>3. QED BY <1>1, <1>2

LEMMA StepsLength == DOMAIN Steps = 1..Len(Steps)
<1> DEFINE n == Cardinality(Lines)
           S == {Steps[i] : i \in 1..n}
<1>1. n \in Nat
  BY LinesFinite, FS_CardinalityType
<1>2. DOMAIN Steps = 1..n /\ Steps = [i \in 1..n |-> Steps[i]]
  BY DEF Steps
<1> HIDE DEF n
<1>3. Steps \in Seq(S)
  BY <1>1, <1>2
<1> HIDE DEF S
<1>4. QED BY <1>3

\* The timeline begins no later than any of its steps.
LEMMA OriginLeast ==
  ASSUME page.job.started \in Nat, \A s \in ToSet(Steps) : s.started \in Nat,
         NEW u \in ToSet(Steps), u.started > 0
  PROVE  Origin \in Nat /\ Origin <= u.started
<1> DEFINE times == {t \in {page.job.started} \cup {s.started : s \in ToSet(Steps)} : t > 0}
<1>1. times \subseteq Nat /\ u.started \in times
  OBVIOUS
<1>2. Origin = IF times = {} THEN page.now ELSE CHOOSE t \in times : \A v \in times : t <= v
  BY DEF Origin
<1> HIDE DEF times
<1>3. \E t \in times : \A v \in times : t <= v
  BY <1>1, LeastExists
<1>4. Origin \in times /\ \A v \in times : Origin <= v
  BY <1>1, <1>2, <1>3
<1>5. QED BY <1>1, <1>4

LEMMA WholeQuiet == ASSUME Whole, page.job.status = "completed" PROVE CompletedPageQuiet
<1>1. page.job.completed \in Nat /\ page.job.started \in Nat
  BY DEF Whole, JobRow
<1>2. PICK at \in [DOMAIN Steps -> Lines] :
        /\ \A i \in DOMAIN Steps : Steps[i] = StepOf(at[i])
        /\ \A x \in Lines : \E i \in DOMAIN Steps : at[i] = x
  BY WholeSteps, StepsAreLines
<1>3. ASSUME NEW i \in DOMAIN Steps, NEW s, s = Steps[i]
      PROVE  /\ s.status # "running" /\ s.started \in Nat /\ s.ended \in Nat
             /\ s.started > 0 => /\ s.status \in Terminal /\ s.ended > 0
                                 /\ s.started <= s.ended /\ s.ended <= page.job.completed
  <2>1. at[i] \in Lines /\ s = StepOf(at[i])
    BY <1>2, <1>3
  <2>2. QED BY <2>1, QuietLine
<1>4. \A s \in ToSet(Steps) : \E i \in DOMAIN Steps : s = Steps[i]
  BY DEF ToSet
<1>5. \A i \in DOMAIN Steps : Steps[i].status # "running"
  BY <1>3
<1>6. ASSUME NEW t \in Task
      PROVE  /\ GroupStatus(t) \in {"completed", "stopped"}
             /\ \E i \in GroupOf(t) : Steps[i].phase = "task" /\ Steps[i].status = "completed"
  <2>1. page.task[t].status \in {"completed", "stopped"} /\ Finished(page.job.completed)
    BY DEF Whole, ReadInv, Read
  <2>2. \A i \in GroupOf(t) : Steps[i].status # "running"
    BY <1>3 DEF GroupOf
  <2>3. PICK a \in Attempt : exec[<<"task", t, a>>].status = "completed"
    BY <2>1 DEF Finished, Through, HasDone
  <2> DEFINE x == <<"task", t, a>>
  <2>4. x \in Key /\ page.exec[x].status = "completed"
    BY <2>3, TaskKeys DEF Whole
  <2>5. x \in Lines
    BY <2>4 DEF Lines, HasRow
  <2>6. StepOf(x).phase = "task" /\ StepOf(x).task = t /\ StepOf(x).status = "completed"
    BY <2>4 DEF StepOf, HasRow
  <2> HIDE DEF x
  <2>7. PICK i \in DOMAIN Steps : Steps[i] = StepOf(x)
    BY <1>2, <2>5
  <2>8. i \in GroupOf(t)
    BY <2>6, <2>7 DEF GroupOf
  <2>9. QED BY <2>1, <2>2, <2>6, <2>7, <2>8 DEF GroupStatus
<1>7. ASSUME NEW i \in DOMAIN Steps, Steps[i].started > 0, NEW b, b = PageBars[i]
      PROVE  b[1] <= b[2] /\ b[2] = b[3] /\ b[3] <= PageEnd - Origin
  <2> DEFINE s == Steps[i]
  <2>1. /\ s.started \in Nat /\ s.ended \in Nat /\ s.status \in Terminal /\ s.ended > 0
        /\ s.started <= s.ended /\ s.ended <= page.job.completed
    BY <1>3, <1>7
  <2>2. Origin \in Nat /\ Origin <= s.started
    <3>1. s \in ToSet(Steps)
      BY DEF ToSet
    <3>2. \A r \in ToSet(Steps) : r.started \in Nat
      BY <1>3, <1>4
    <3> HIDE DEF s
    <3>3. s.started > 0
      BY <1>7 DEF s
    <3>4. QED BY <1>1, <3>1, <3>2, <3>3, OriginLeast
  <2>3. /\ b[1] = Clamp(s.started - Origin)
        /\ b[2] = Clamp(s.ended - Origin) /\ b[3] = Clamp(s.ended - Origin)
    BY <1>7, <2>1, StepsLength, TerminalBar DEF PageBars
  <2>4. PageEnd = page.job.completed
    <3>1. page.job.completed > 0
      BY <1>1, <1>7, <2>1
    <3>2. QED BY <1>1, <3>1 DEF PageEnd, Terminal
  <2> HIDE DEF s
  <2>5. QED BY <1>1, <2>1, <2>2, <2>3, <2>4 DEF Clamp
<1>8. QED BY <1>5, <1>6, <1>7 DEF CompletedPageQuiet

\* CompletedPageQuiet: whatever ran, was interrupted and ran again, and whatever a stop
\* marks from a stale list, a completed job shows no running step, a completed attempt of
\* every task, and solid bars that end in time.
THEOREM CompletedPageStaysQuiet == PageSpec => []CompletedPageQuiet
<1>1. ASSUME TimesInv, FinalInv, LeftInv, ReadInv PROVE CompletedPageQuiet
  <2>1. CASE Shown /\ page.job.status = "completed"
    <3>1. Whole
      BY <1>1, <2>1, FinalIsWhole DEF Over
    <3>2. QED BY <2>1, <3>1, WholeQuiet
  <2>2. CASE ~(Shown /\ page.job.status = "completed")
    BY <2>2 DEF CompletedPageQuiet
  <2>3. QED BY <2>1, <2>2
<1>2. QED BY <1>1, JobPageInvariant, PTL
=============================================================================
