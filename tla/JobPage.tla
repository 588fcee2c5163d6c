------------------------------ MODULE JobPage ------------------------------
(***************************************************************************)
(* A job as its views show it: the web page that polls GET /jobs/<id>, and *)
(* `mini job status`, which reads the same things once.  A view reads the  *)
(* job, its tasks, the executions and the agent runs, each with a          *)
(* connection of its own, while everybody writes; it then computes the     *)
(* timeline (interfaces/timeline.py), the groups and bars of the page      *)
(* (interfaces/api_server.py) and the token figures                        *)
(* (interfaces/formatting.py).                                             *)
(*                                                                         *)
(* A reported run counts one token; labels, personas and prices are left   *)
(* out.  The web page polls until it shows a terminal status.              *)
(***************************************************************************)
EXTENDS JobRows, SequencesExt

CONSTANT Estimate   \* the estimate of every step, in ticks

ASSUME EstimateAssumption == Estimate \in Nat

VARIABLE page  \* the read so far: where it is and what it has of each table

pageVars == <<rowVars, commandVars, page>>

Terminal == {"completed", "failed", "stopped"}
None == -1     \* JSON null

Blank == [at |-> "load", job |-> <<>>, task |-> <<>>, exec |-> <<>>, runs |-> <<>>,
          dead |-> FALSE, plan |-> TRUE, now |-> 0]

Init == RowsInit /\ page = Blank

-----------------------------------------------------------------------------
(* The reads of one request.                                               *)

\* store.load: the job, then its tasks.
LoadJob ==
  /\ page.at = "load"
  /\ page' = [page EXCEPT !.at = "tasks", !.job = job]
  /\ UNCHANGED rowVars

ReadTasks ==
  /\ page.at = "tasks"
  /\ page' = [page EXCEPT !.task = task,
                !.at = IF page.job.status = "running" THEN "pid" ELSE "executions"]
  /\ UNCHANGED rowVars

\* If the engine of a RUNNING job is gone the row is marked FAILED, and the copy,
\* whose completed_at stays that of the earlier run.
ReconcileRead ==
  /\ page.at = "pid"
  /\ IF eng.at # "off"
     THEN page' = [page EXCEPT !.at = "executions"] /\ UNCHANGED <<job, clock>>
     ELSE /\ page' = [page EXCEPT !.at = "executions", !.dead = TRUE, !.job.status = "failed"]
          /\ MarkJob("failed") /\ Tick
  /\ UNCHANGED <<task, exec, runs, eng>>

ReadExecutions ==
  /\ page.at = "executions"
  /\ page' = [page EXCEPT !.at = "runs", !.exec = exec]
  /\ UNCHANGED rowVars

\* The agent runs; the cached plan may not parse any more; now is now.
ReadRuns ==
  /\ page.at = "runs"
  /\ \E readable \in BOOLEAN :
       page' = [page EXCEPT !.at = "shown", !.runs = runs, !.plan = readable, !.now = clock]
  /\ UNCHANGED rowVars

\* A page of a job that is not over is looked at as it is drawn.
Drawn == page.at = "shown" /\ page.job.status \notin Terminal

\* poll.js: the next poll, unless the page shows a terminal status.
Poll == Drawn /\ page' = Blank /\ UNCHANGED rowVars

\* Whoever starts the job again opens its page again: no load of the page either
\* spans the end of a run and the start of the next.
Restart == page.at \in {"load", "shown"} /\ StartRun /\ page' = Blank

PageNext ==
  \/ /\ LoadJob \/ ReadTasks \/ ReconcileRead \/ ReadExecutions \/ ReadRuns \/ Poll
     /\ UNCHANGED commandVars
  \/ Restart
  \/ ~Drawn /\ (Engine \/ Killed) /\ UNCHANGED <<commandVars, page>>
  \/ ~Drawn /\ Command /\ UNCHANGED page

PageSpec == Init /\ [][PageNext]_pageVars

-----------------------------------------------------------------------------
(* The timeline of a page.                                                 *)

\* A line of the timeline is the key of a row, or of an attempt a task is yet to have.
HasRow(k) == page.exec[k].status # "none"
Waiting == {<<"task", t, -1>> : t \in {t \in Task : \A a \in Attempt : ~HasRow(<<"task", t, a>>)}}

\* With a plan its hooks and the attempts, without one the executions; and the tasks
\* that have no attempt.
Lines ==
  {k \in Key : IF page.plan /\ k[1] # "task" THEN k[1] \in HookPhases ELSE HasRow(k)} \cup Waiting

\* Plan order: plan hooks around the tasks, each between its own hooks.  Without a
\* plan by start (then by id, taken to be in plan order), what has no row at the end.
Place(x) ==
  LET t == CASE x[1] = "pre_plan" -> 0 [] x[1] = "post_plan" -> NTasks + 1 [] OTHER -> x[2]
      part == CASE x[1] = "pre_task" -> 0 [] x[1] = "task" -> 1 [] OTHER -> 2
      start == IF page.plan THEN 0 ELSE IF x \in Key THEN page.exec[x].started ELSE page.now
  IN  <<start, t, part, x[3]>>

Precedes(p, q) == \E i \in DOMAIN p : p[i] < q[i] /\ \A j \in 1..(i - 1) : p[j] = q[j]

\* One row of the timeline.  A Step's attempt is counted from 1; 0 is a hook, or a
\* task with no attempt yet.
StepOf(x) ==
  LET row == IF x \in Key /\ HasRow(x) THEN page.exec[x]
             ELSE [status |-> "pending", started |-> 0, ended |-> 0]
  IN  [phase |-> x[1], task |-> x[2], try |-> IF x[1] = "task" THEN x[3] + 1 ELSE 0,
       status |-> row.status, started |-> row.started, ended |-> row.ended]

Earlier(x) == {y \in Lines : Precedes(Place(y), Place(x))}

Steps ==
  [i \in 1..Cardinality(Lines) |-> StepOf(CHOOSE x \in Lines : Cardinality(Earlier(x)) = i - 1)]

\* The timeline's zero: a resumed job's rows may have begun before this run.
Origin ==
  LET times == {t \in {page.job.started} \cup {s.started : s \in ToSet(Steps)} : t > 0}
  IN  IF times = {} THEN page.now ELSE CHOOSE t \in times : \A u \in times : t <= u

\* A finished job's timeline ends with the job, any other now.
PageEnd ==
  IF page.job.status \in Terminal /\ page.job.completed > 0 THEN page.job.completed ELSE page.now

\* project_steps: each step's bar, and the end of all projected work before it.
Clamp(n) == IF n < 0 THEN 0 ELSE n
Later(m, n) == IF m > n THEN m ELSE n

Bar(steps, i, origin, now, cursor) ==
  LET s == steps[i]
      start == s.started - origin
      ends == {now} \cup {steps[j].started - origin :
                            j \in {j \in (i + 1)..Len(steps) : steps[j].started > 0}}
      end == CHOOSE m \in ends : \A n \in ends : m <= n
  IN  CASE s.status \in Terminal /\ s.started > 0 /\ s.ended > 0 ->
             <<start, s.ended - origin, s.ended - origin>>
        [] s.status = "running" /\ s.started > 0 ->
             <<start, end, Later(end, start + Estimate)>>
        [] OTHER -> <<cursor, cursor, cursor + Estimate>>

Cursors(steps, origin, now) ==
  LET at[i \in 1..Len(steps)] ==
        IF i = 1 THEN 0
        ELSE Later(at[i - 1], Clamp(Bar(steps, i - 1, origin, now, at[i - 1])[3]))
  IN  at

Bars(steps, origin, now) ==
  LET cursor == Cursors(steps, origin, now)
  IN  [i \in 1..Len(steps) |->
         [j \in 1..3 |-> Clamp(Bar(steps, i, origin, now, cursor[i])[j])]]

PageBars == Bars(Steps, Origin, PageEnd - Origin)

-----------------------------------------------------------------------------
(* The token figures of a page.                                            *)

Unended(r) == r = "open"

\* A rollup counts a run that ended, and an open one once nobody runs the job.
Counted(t, a) ==
  /\ page.runs[t][a] # "none"
  /\ Unended(page.runs[t][a]) => page.job.status # "running"

TokensTotal(ts) ==
  LET counted == {x \in ts \X Attempt : Counted(x[1], x[2])}
      reported == {x \in counted : page.runs[x[1]][x[2]] = "reported"}
  IN  [total |-> IF counted # {} /\ reported = {} THEN None ELSE Cardinality(reported),
       missing |-> Cardinality(counted \ reported)]

\* MUTANT: the step's own number, which counts from 1.
RunsOfTry(s) == IF s.try \in Attempt \ {0} THEN {page.runs[s.task][s.try]} \ {"none"} ELSE {}

\* attempt_runs and row_tokens: the runs of one attempt row, and its figure.
RunsOfStep(s) == IF s.try = 0 THEN {} ELSE {page.runs[s.task][s.try - 1]} \ {"none"}

RowTokens(s) ==
  CASE RunsOfStep(s) = {} -> 0
    [] RunsOfStep(s) = {"reported"} -> 1
    [] OTHER -> None

\* _group_steps: a task's hooks and attempts are one group, wherever they appear;
\* a part that runs makes its group running, else the task's own status shows.
GroupOf(t) ==
  {i \in DOMAIN Steps : Steps[i].task = t /\ Steps[i].phase \in {"pre_task", "task", "post_task"}}

GroupStatus(t) ==
  IF \E i \in GroupOf(t) : Steps[i].status = "running" THEN "running" ELSE page.task[t].status

-----------------------------------------------------------------------------
(* Properties.                                                             *)

Shown == page.at = "shown"

\* The page shows a job that ended by itself, by its usage limit or by a reconcile.
Over == Shown /\ (page.job.status \in {"completed", "failed"} \/ page.job.limited)

\* An engine that ended its job has written everything before: what polling stops on
\* has every row and every agent call.  After it only a stop or a load writes that
\* read the job before it was over: they make the job STOPPED or FAILED, and a task
\* STOPPED.  (A load that marks the job itself has read the tasks before that.)
FinalPageTrue ==
  Over => /\ page.exec = exec /\ page.runs = runs
          /\ job.status \in {page.job.status, "stopped", "failed"}
          /\ ~page.dead => \A t \in Task : task[t] = page.task[t] \/ task[t].status = "stopped"

\* Once the page stops polling its rows account for every agent call: they add up
\* to each task's total and to the job's, whichever way the steps were found.
FinalTokensAddUp ==
  Over =>
    LET steps == Steps
        rows(ts) == {i \in DOMAIN steps : steps[i].phase = "task" /\ steps[i].task \in ts}
    IN  \A ts \in {{t} : t \in Task} \cup {Task} :
          /\ Cardinality({i \in rows(ts) : RowTokens(steps[i]) = 1})
               = Later(TokensTotal(ts).total, 0)
          /\ Cardinality({i \in rows(ts) : RowTokens(steps[i]) = None})
               = TokensTotal(ts).missing

\* A completed job shows no running step, an attempt that completed for every task,
\* also for one that a stop marked from a stale list, and for every step that began
\* a solid bar that ends before the job does, whatever run it is of.
CompletedPageQuiet ==
  Shown /\ page.job.status = "completed" =>
    LET steps == Steps
        bars == PageBars
    IN  /\ \A i \in DOMAIN steps : steps[i].status # "running"
        /\ \A t \in Task :
             /\ GroupStatus(t) \in {"completed", "stopped"}
             /\ \E i \in GroupOf(t) : steps[i].phase = "task" /\ steps[i].status = "completed"
        /\ \A i \in DOMAIN steps : steps[i].started > 0 =>
             bars[i][1] <= bars[i][2] /\ bars[i][2] = bars[i][3] /\ bars[i][3] <= PageEnd - Origin

\* The bars of a running job go forward: the solid part from where the step began,
\* the projection after it ("solid for real elapsed [start, actual_end), light for
\* the projected remainder [actual_end, proj_end)").
BarsForward ==
  Shown /\ page.job.status = "running" /\ page.plan =>
           \A i \in DOMAIN Steps :
             LET b == PageBars[i] IN b[1] <= b[2] /\ b[2] <= b[3]
=============================================================================
