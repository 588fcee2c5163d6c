# A formal model of minimise

minimise (`mini`) runs coding agents unattended, in two shapes:

- a **job** is an ordered plan of tasks; an engine process (`mini job _run`) runs
  one agent per task, with retries, hooks, handoffs and a git commit per task;
- a **loop** plans, implements and evaluates until its planner says it is done; an
  engine process (`mini loop _run`) drives it from an append-only journal.

Both can be stopped, can crash, and are started again by hand. This directory holds
TLA+ models of the two engines, of everything that touches their state and of the views
and logs that show it, the TLC runs that check them, and TLAPS proofs about the job, the
loop, the pages of both, the calls of an agent and the upgrade of the database. Paths
below are relative to the repository; `src/minimise/` is left out of the path of a Python
file.

## The system

### Components

| component | state | operations | modelled in |
|---|---|---|---|
| job store (`storage/job_store.py`) | rows of jobs, tasks, executions; handoff files | create, load (reconciles), mark_*, record_*, next_attempt, close_interrupted_executions | `JobStore`; the times of the rows in `JobRows` |
| job engine (`orchestration/job_controller.py`, `job_executor.py`, `task_executor.py`, `hook_executor.py`) | its place; tasks as loaded; attempt; handoff in hand | start_job, execute, execute_task, hooks | `JobEngine` |
| job commands and readers (`interfaces/cli/job.py`) | none of their own | start, stop, status, logs, list, new, delete | `JobSystem`, `JobPage`, `LogTail`; new and delete not modelled |
| process control (`orchestration/engine_process.py`) | the OS's processes | engine_alive, stop_engine | in `JobSystem`, `LoopSystem` |
| git tracker (`storage/git_tracker.py`) | checkout, history | commit, stash, get_diff | commit and stash, in `JobEngine` |
| handover manager | none | builds prompts | which handoff is used, in `JobEngine` |
| loop engine (`orchestration/loop_engine.py`) | its place; threads; spec as loaded | run, _run_iteration, _fan_out, _settle_carried, _run_step | `LoopEngine` |
| loop journal (`orchestration/loop_journal.py`) | journal.jsonl | append, read, parse_control, markers | what its readers compute, in `LoopEngine`; its lines, in `LoopRows` |
| loop store and commands (`storage/loop_store.py`, `interfaces/cli/loop.py`) | rows of loops, loop_steps; mirrored spec | start, stop, patch, load (reconciles), status, logs | `LoopSystem`, `LoopRows`, `LoopPage`, `LogTail`; new and delete not modelled |
| database (`storage/database.py`) | SQLite | one transaction per write; `init_db` | writes as single steps; `SchemaUpgrade` |
| agent harness (`agents/harness.py`) | one child process and its pipes | run, resume, name resolution | `AgentCall`, `AgentStep`; name resolution not modelled |
| token rollup, timeline, status views (`interfaces/formatting.py`, `timeline.py`, `api_server.py`, `loop_views.py`, `terminal_ui/`) | what they read of each table, and when | one request; rows to steps, bars, groups, scores, tokens | `JobPage`, `LoopPage` |
| web assets (`interfaces/static/poll.js`, `loop.js`) | the last page | poll, stop polling, heatmap | when they poll, and the heatmap's score |
| logging and log query (`logging/`) | log files | append, parse, search, follow | `LogQuery`, `LogTail` |
| settings, personas | none | read once per command | no |

### How they interact

`mini job start` and `mini loop start` check the row and spawn a detached engine. From
then on everything goes through shared state with no locks between processes: the
engine writes its rows, `stop` writes STOPPED and then kills, and **every load of a
RUNNING job or loop checks the engine's pid and writes FAILED when it is dead**
(`_reconcile`). So a plain `mini job list` is a writer. The engine learns of a stop
only where it reads its own row again: before a hook, before a task, before a step or
a retry of a loop. Between those reads, anything may happen.

Within a loop engine, evaluators run in a thread pool; they share the journal and the
database under locks, and the main thread waits for all of them.

A view is a row of reads, each with a connection of its own, of tables that an engine is
writing: job and tasks, executions, agent runs; or rows, journal, agent runs of a loop.
The pages read again until they see a terminal status, and then never again. A log
follow reads the file first and the status after it.

Every command begins with `init_db`. After an upgrade of minimise, the first commands,
an old engine's dashboard among them, all run the same list of statements over the same
file.

### What is hard here

- a stop, a reconcile or a crash between any two writes of an engine;
- values read once and used much later: the tasks `start_job` loads, the tasks
  `stop_job` lists, the status `_reconcile` looked at, the last journal lines;
- an engine that survives its stop and works beside a start;
- resuming: attempt numbers go on, the handoff comes from an earlier run, half an
  iteration is already in the journal, the spec was patched meanwhile, rows and times
  of the earlier run are still there;
- a usage limit, which is a pause and must not end as a failure;
- retries and cycles that must be bounded, rows and statuses that must not stay
  RUNNING for ever;
- views put together from reads of several moments, and that stop looking;
- an upgrade that several commands make at once, and that may die half way.

`PROJECT.json` lists each hazard at its line, with the properties that watch it.

### What makes each component correct

- *Job store, engine*: tasks run in order and one at a time; a COMPLETED task has its
  handoff; the prompt of an attempt continues the attempt before it; a commit holds one
  task's work; rows RUNNING belong to what runs; a stop is heeded; a usage limit keeps
  its reason; one engine at a time; RUNNING ends; a plan that can finish, finishes.
- *Loop engine, journal*: only the planner completes a loop; an iteration is closed only
  when it is whole; the verdicts in the journal are what an evaluator found; a pass is
  re-checked before the loop may finish on it; after a stop no queued evaluator and no
  retry starts; a usage limit keeps its reason; the loop ends.
- *Harness*: a call ends whatever pipe fills first, and leaves no agent behind; success
  means all of the output; a limit is recognised in every ending and not retried; a
  session is resumed only after a clean run; tokens are counted once.
- *Views*: a page that stops polling on a run that ended by itself has all that run
  wrote; every agent call is counted once, in a row and in the totals; nothing ends
  before it began; the score is the engine's own.
- *Logs*: a follow prints each line once, the last ones included, and ends.
- *Database*: no upgrade loses a row, and nobody works on half a schema.

## The modules

```
JobStore  <-  JobEngine  <-  JobSystem  <-  MCJob (TLC)        PlanProgress (abstract)
                                        <-  JobProofs                          (TLAPS)
              LoopEngine <-  LoopSystem <-  MCLoop (TLC)       LoopProgress (abstract)
                                        <-  LoopProofs                         (TLAPS)
              AgentCall  <-  AgentStep (TLC)  <-  AgentProofs                  (TLAPS)
              JobRows    <-  JobPage    <-  MCJobPage (TLC)
                                        <-  JobPageProofs                      (TLAPS)
              LoopRows   <-  LoopPage   <-  MCLoopPage (TLC)
                                        <-  LoopPageProofs <- LoopScoreProofs  (TLAPS)
              LogQuery   <-  LogTail    <-  MCLogTail (TLC)
                                        <-  LogTailProofs                      (TLAPS)
                         SchemaUpgrade  <-  MCSchema (TLC)
                                        <-  SchemaProofs                       (TLAPS)
```

**JobStore** holds the rows and one operator per write of `job_store.py`. A write is one
SQLite transaction, hence one step of its caller. `row[t][a]` is the executions row of
attempt `a` of task `t`, `hookOpen` the hook rows that are RUNNING, `handoff` the
non-blank handoff files. `SetTask` keeps an effect that is easy to miss:
`update_task_status` writes `retries = 0` unless told otherwise.

**JobEngine** is one engine, for any number of pids. Its `pc` follows `start_job`,
`execute` and `execute_task` in the order of the source (the module's header lists the
places). A step ends where another process can see or change what is read next. The
checkout is `tree` (tasks with uncommitted work) and `committed`. An agent call is two
steps, launch and outcome; what it leaves behind (work, a handoff or none) is chosen
freely, also when it is killed. `lateTasks` and `lateHooks` are history variables: what
an engine began on a job that was already STOPPED.

**JobSystem** adds the start command, the stop command in its five parts (read the job,
mark it, list the tasks, mark each, kill), readers whose load and reconcile are two
steps, and crashes. A kill may fail (`KillMayFail`): `stop_engine` ignores a
PermissionError and gives up after its grace period. With `SerialCommands` no start or
stop is issued before the last one took effect; without it two starts race.

**PlanProgress** is what a job promises of its plan: how many tasks are done and which
one is being worked on. The mapping reads `done` off the COMPLETED tasks and `busy` off
the engine that is in a task. Its one way back, `TakeBack`, is a stop that takes back
the task that was completed while it listed the tasks.

**LoopEngine** is the main thread (`pc`) and one thread per step (`st[s]`): slot 0 is
the step the main thread runs itself, slot `d` the evaluator of dimension `d`. `Active`
and `Queued` are the pool of `max_concurrent` threads, first in first out. The journal is
kept as what its readers compute: the last plan and implement line of the open iteration
and which came last, the last valid verdict of each dimension in it and before it, and
the number of commit markers. A reply is valid, malformed, a usage limit or an exception
of `harness.run` (`raises`). Planner answers `stop` and `done` are one value; so are
`continue` and a planner's `failed`, which the engine treats alike. `gen` numbers the
engine processes and stands for pids. `lastReal` is a history variable: what an
evaluator last found, whatever the journal says.

**LoopSystem** adds start, stop, patch, readers and crashes. One engine of a loop lives
at a time: commands are serial, and the race of two starts is studied in `JobSystem`
over the same check.

**LoopProgress** is what a loop promises of its journal: iterations closed one by one,
planned, implemented, judged once per dimension. `Stage` maps the journal's lines to it.

**AgentCall** is one `harness.run`: the child process, its three pipes with a capacity,
and the four threads of the engine around it. `pc` is the main thread
(`_run_jsonl_subprocess`, one action per call it makes); `Feed`, `Read` and `Drain` are
the other three. The child is external: it thinks, then writes an event, writes to
stderr, reads its prompt, hangs or exits, and once it has decided it blocks until the
pipe allows it (`want`). A process it started may hold its pipes open (`helper`); a stuck
one, like a hanging child, is there only when the call has a timeout. Events are what
the captures tell apart; `Seen` is what the reader consumed, and output, usage limit and
tokens are functions of it. Pi is Codex without the error events. A join or wait with a
time limit is a step that may be taken before what it waits for; only the join of the
reader without a timeout is not.

**AgentStep** is what the callers do with the calls: `_run_step` of a loop (gate,
retries, session, resume) and the attempts of a task. The rest of both handlers is in
`LoopEngine` and `JobEngine`, which take the outcome of a call as given; `AgentStep`
computes it from what the agent did. `prev`, `ids`, `spent` and `result.upto` are history
variables. One token unit stands for what one call uses.

**JobRows** is the same job seen by its rows alone: the times each write stamps on the
job, the tasks and the executions, and the agent_runs row around each call. `clock`
ticks at each stamped write; 0 is a NULL. A stop is as in the code a row of steps: it
was accepted while the engine was alive, which the exiting engine of a job that is over
still is; it marks the job whatever the row says by then (`StopMarksJob`), lists the tasks
(`StopListsTasks`), and marks each from that list (`StopMarksTask`); then the engine is
`Killed`, or not. A load that found the run RUNNING writes FAILED once the engine is gone,
whatever the row says by then (`Reconcile`; `seen` says that such a load may be under
way). One engine runs at a time, and a job is started when no stop of it is under way;
what a later run finds of an earlier one is all there. No load spans the end of a run and
the start of the next: a load takes milliseconds, and somebody has to read that the job
ended and start it. The pid check of a load and its FAILED are one step, since an engine
that is gone stays gone until such a start.

**JobPage** is one request of the job page (`api_server.py`), or of `mini job status`:
the job's row, its tasks, the pid check and FAILED of `store.load`, the executions, the
agent runs, each at another moment. `Steps` is `timeline.py`: its lines (`Lines`: hooks,
attempts, the task that waits, the pre_task rows that were never reached) in the order
of the page (`Place`). `Bars` lays them out from `Cursors`, the end of all projected
work before a step (`project_steps`); `PageBars` is what the page draws. `TokensTotal`
and `RowTokens` are the figures of `formatting.py`: a reported run counts one, an
unended one counts once its owner is not RUNNING, an unknown one is missing. The page
polls until it has read a terminal status.

**LoopRows** is the loop by what it writes: its status and whether `completed_at` is of
this run, the loop_steps rows in the order they began, the journal's lines with gate,
verdict and the iteration a carried one came from, and the agent_runs rows. A stop marks
the loop and then its rows, a load the loop and then its rows, each late and whatever
they are by then (`StopMarksLoop`, `StopMarksRows`, `Reconcile`, `ReconcileRows`), under
the assumptions of `JobRows`. **LoopPage**
reads them as the web page does (rows, journal, runs) and as `mini loop status` does
(journal, rows, runs), and computes what `loop_views.py`, `loop.js` and
`terminal_ui/loop.py` show of them: the status of an iteration, the record of a step,
the score of an iteration with what was carried, the heatmap, the tokens.

**LogQuery** is the query language as the JSONL backend evaluates it: clauses folded
into one query, where a later clause replaces an earlier one of its verb; a chain of
predicates read from the left; search, sort and limit (`Listing` puts each record at the
place that the number of records before it gives). **LogTail** is `logs` and
`journal` with `-f` beside the engine that appends and the commands that change its
status. A long line can be seen half; an engine killed in one leaves the half there,
and the next engine's first line ends up behind it.

**SchemaUpgrade** is `init_db`, statement by statement, with the transactions Python's
sqlite3 makes of it: DDL outside a transaction commits by itself, a savepoint opens one,
the first UPDATE opens one that lasts to `conn.commit()`. A database is a version, the
columns of each table, and one legacy row per table. Commands may be killed between any
two statements, and time out on each other's lock.

**MCJob**, **MCLoop**, **MCJobPage**, **MCLoopPage**, **MCLogTail**, **MCSchema** name the
hooks, dimensions, patches, agents, queries, releases and bounds the runs use.

## The runs

Every bound is a constant named in a cfg. TLC explores all interleavings within them.

| run | question | distinct states |
|---|---|---|
| `job_core` | does a reviewed plan keep order, handoffs, rows, checkout, stop and limit? | 1,884,253 |
| `job_race` | do two racing starts and a failing git end a RUNNING job? | 217,841 |
| `job_resume` | does a plan that can finish, finish across a stop and a crash? | 337,566 |
| `loop_journal` | is the journal true across crash, resume, patch, re-plan and raise? | 452,466 |
| `loop_ends` | does a loop with a pool of two heed stop and limit, and end? | 645,740 |
| `agent_call` | does a call end, leave no agent behind, and report what happened? | 1,333,856 |
| `job_page` | is what a job's page shows last true, counted once and in order, whatever is marked late? | 1,329,385 |
| `loop_page` | are a loop's last page, verdicts, score and tokens true, the same? | 2,778,828 |
| `log_tail` | does a follow print every line once, and end? | 532,644 |
| `schema_upgrade` | do two commands upgrade one database and lose nothing? | 339,201 |

and two runs, `schema_marks` and `loop_page_status`, that show where the code differs
from what it says (below).

*Why the bounds are enough.* Two tasks make order, handoffs and a commit beside another
task's work possible; one retry separates first, middle (for hooks) and last attempt;
`MaxAttempt` 3 lets a second run number its attempts after the first's. One spawn is a
run, the second is the resume or the surviving engine's rival, the third in
`job_resume` finishes what both a stop and a crash cut short. One stop and one crash
meet every step of the engine, and each other. For loops, two dimensions are one that
passed before and one that is failing, the least that carries a pass; three on a pool
of two are needed for one to queue behind one that failed and one that hit the limit.
Three iterations are needed for a pass to be carried twice; two versions for one patch.
The second engine of `loop_journal` may extend a loop that ended at its cap, by a patch.

For an agent call, a pipe holds one unit and the child writes up to two on stdout and on
stderr, so that each can fill and block it; two events are a message and its result, a
limit after a message, or an error after one; one retry is the resumed or repeated call.

For the pages, one task with both of its hooks and one retry has every kind of row, and
two runs leave an attempt of the first beside those of the second. One stop (`MaxStops`)
meets every step of the engine and of the page, also after the engine's last write, and
so does one load that marks late; in `job_page` both are of the first run
(`FirstRunMarked`). Crashes are not bounded. `EndingPages` leaves out reads that no property of the run looks
at: of a page that found a job going on, whose engine is alive, and that polls again
without having written. The loop of `loop_page` is new and runs once (`NewRunsOnce`), or
is resumed, twice, after a first iteration that failed one dimension (`FirstVerdicts`);
it writes up to four rows more: a carried pass, a rejected line, a limit, an implement
that raises. For the log, two runs and
three lines are a line cut off by a kill with one before and one after; the five queries
are none, an iteration, two filters, sort with limit, and a chain of `or` and `and`. For
the upgrade, seven releases have every state of the schema a released version left, two
commands are one that is overtaken, and one failure is a kill or a lock that lasts
beside them.

*Symmetry.* `job_core` permutes engines, which differ only by pid. The runs with
liveness use no symmetry.

*Deadlock.* `CHECK_DEADLOCK FALSE` everywhere: a job or loop that ended and is not
started again has stopped for good, as it should, a page that saw a terminal status
polls no more, and the counters end every behaviour.

*Fairness.* `FairSpec` asks what the scheduling gives. In `JobSystem` and `LoopSystem`: a
live engine's main thread and each step thread keep running (an agent call returns;
`agent_call` shows that it does with a timeout, which only a task with `timeout_min` has,
or when the agent and the processes it leaves behind end by themselves, which is assumed
of all others); a stop command that began goes on; a reader polls, as the dashboard does.
Nobody has to crash, stop or patch. `PlanFinishes` also needs `StartCommand` to be fair:
"Nothing resumes on its own", so someone keeps starting the job. `loop_ends` shows that a
loop ends with no reader, since there no engine crashes. In `AgentStep` the threads, the
caller and a child that has not hung go on, timers expire, and helpers that are not
stuck end. In `LogTail` the follow keeps polling, an engine in the middle of a write
ends it, an engine finishes at some time, and somebody loads the job, so that a dead
engine's status changes: the follow itself reads the row and not the pid. In
`SchemaUpgrade` a command that runs goes on, and one that failed is issued again until
it did its work. `job_page` and `loop_page` have no liveness.

### The properties

Jobs (`JobSystem`):

- `OneEngine`, two engines never work on the checkout at once.
- `TasksInOrder`, a task is attempted only after all before it are COMPLETED.
- `HandoffBeforeCompleted`, the completion invariant of `execute_task`.
- `HandoverChain`, a prompt continues the attempt before it, across runs.
- `RowsOwned`, no row of an earlier run stays RUNNING under a new engine.
- `CheckoutOwned`, a commit holds one task's work, and a COMPLETED task left none.
- `LimitKept`, a usage limit's STOPPED is not buried until the next start.
- `StopHeeded`, a surviving engine begins at most the one hook and the one task it was
  about to begin. It counts no attempts: the retries of that task go on (finding 3).
- `RefinesPlanProgress`, `RunningEnds`, `PlanFinishes`.

Loops (`LoopSystem`): `RowsOwned`, `LimitKept`, `RunningEnds` in the same sense, and

- `StopHeeded`, an engine that outlives its stop launches at most the agents its threads
  were about to launch, each once. `late` counts launches, so that a retry is one more.
- `CompletedByPlanner`, COMPLETED only on the planner's line, which is the newest.
- `VerdictReal`, a record is what an evaluator last found, also when carried over.
- `ClosedWhole`, an iteration is closed planned, implemented and judged in each dimension.
- `PassesRechecked`, one that closes with only passes had each of them evaluated in it.
- `RefinesLoopProgress`.

Agent calls (`AgentStep`):

- `DeadOnReturn`, a call that returned has left no child running.
- `SuccessWhole`, success means the whole output of an agent that ended well.
- `LimitNotRetried`, an agent whose last words were the usage limit is not called again.
- `SessionsSound`, only the session of a clean run is resumed; ids are never reused.
- `TokensOnce`, the agent_runs rows add up to what the agents reported.
- `StepEnds`, the step ends in whatever order the child fills its pipes.

The job's page (`JobRows`, `JobPage`):

- `TimesOrdered`, no execution and no task ends before it began, whatever run closed it.
- `FinalPageTrue`, a page that stops polling on a run that ended by itself, by its limit
  or by a reconcile has every execution and agent call as they stay. What can still
  change is what findings 5 and 6 are about: the job becomes STOPPED or FAILED by a stop
  or a load that read it before, and a task STOPPED.
- `FinalTokensAddUp`, its rows add up to the totals of the tasks and of the job, with and
  without a plan file: each call in one row, each unknown one counted as missing.
- `CompletedPageQuiet`, a completed job shows no running step, a completed attempt of
  every task, and solid bars that end before it does. The task itself may show STOPPED
  (finding 5).

The loop's page (`LoopPage`):

- `FinalLoopPageTrue`, a page that stops polling on a loop that COMPLETED or FAILED has
  its end, steps, journal and agent calls as they stay. A stop or a load that read the
  loop before can still make it STOPPED or FAILED, and marks rows that show as STOPPED
  already.
- `FinishedVerdictShown`, an evaluator shown as completed has the verdict it was accepted
  with, though rows and journal are read at two moments.
- `ScoreTrue`, the score of a closed iteration, on the page and in the heatmap, is what
  the engine itself reads in the journal when it decides what to carry.
- `IterationTokensAddUp`, the iterations' tokens add up to the loop's.

Logs (`LogTail`): `FollowComplete`, a follow that ended by itself printed every line of
the run once and in order, the words before its final status included, and with a query
every matching one; `FollowEnds`.

Database (`SchemaUpgrade`): `RowsKept`, no committed row is ever lost; `SchemaComplete`,
a command past `init_db` has the whole schema; `CommandsFinish`, commands that fail on
each other's statements do not fail for ever.

### Mutants

A definition marked MUTANT in a module is a plausible bug of the code: a check dropped,
an order swapped, a bound one too far. Each stands before the definition it alters and
is used nowhere. Put in its place, it makes one property of one run fail;
`PROJECT.json` pairs them. It shows that a property which holds would notice.

## What the checks showed

Most of what the code says of itself holds. Two runs hold TLC's counterexample to what
does not:

1. `schema_marks`: **an upgrade killed at the wrong moment never marks the old rows.**
   The ALTER that adds `tokens_untracked` commits by itself, the UPDATE that marks what
   is older does not (`storage/database.py:444`); the next run finds the column there and
   skips both, and old jobs look as if their tokens had been recorded.
2. `loop_page_status`: **an iteration whose evaluator failed shows as completed** when
   another evaluator began after it and completed (`interfaces/loop_views.py:84`); the
   comment above counts parallel evaluators as one only by equal start times.

Further properties fail that the modules define and no run holds. Each is reproduced by
changing one cfg as told; TLC then prints the counterexample.

3. **A stop does not end the retries** (`PROPERTY NoRetryAfterStop` in `MCJob.cfg`, in
   place of its properties). `task_executor.py:142` starts the next attempt without
   reading the job's status, while `job_executor.py:7` says an engine that outlives its
   stop goes no further.
4. **A committed task can be run again** (`PROPERTY CommittedNotRerun`, `MCJob.cfg`). The
   commit comes before the write of COMPLETED (`task_executor.py:230`, `:249`); a crash in
   between makes the resume run it again. README.md:215 says committed tasks are not
   re-run.
5. **A COMPLETED job with a STOPPED task** (`INVARIANT CompletedJobDone`, `MCJob.cfg`). The
   last write (`job_controller.py:131`) is unconditional, and `stop_job` marks from a
   stale list. A page shows it, and does not poll for what the stop marks later.
6. **A reader can bury a usage limit** (`MCJob.cfg` with `Reader = {r1}`; `LimitKept`).
   `_reconcile` (`job_store.py:106`) writes FAILED from a status it read before the engine
   stopped the job and exited. The same write makes a COMPLETED job FAILED, and a stop
   that was accepted while the engine of a job that is over exits makes it STOPPED
   (`StopMarksJob`, `Reconcile`), both after its page stopped polling.
7. **A finished plan is made again** (`PROPERTY FinishedPlanNotRerun`, `MCLoop.cfg`).
   `_resume_state` (`loop_engine.py:481`) takes the last implement line although a newer
   plan follows.
8. **A loop can close an iteration on a pass that was not re-checked** (`MCLoop.cfg` with
   `Dims <- FewerDims`, `MaxIterations <- SameIterations`; `PassesRechecked`). A carried
   record of the interrupted iteration counts as evaluated after a patch that drops the
   failing dimension (`loop_engine.py:482`); the README's "carries no earlier pass over"
   and "never finishes on a pass that wasn't re-checked" both fail.
9. **A bar that ends before it starts** (`INVARIANT BarsForward`, `MCJobPage.cfg`
   without its constraints). A running
   second attempt is laid out before its task's post_task hook, which may be of the
   first and began earlier (`timeline.py:114`).

Noticed while reading, without a run. Jobs:

- A pre_task hook that fails on a resume marks the attempt numbered by the *loaded*
  retries (`job_executor.py:99`), rewriting a row of an earlier run, which
  `task_executor.py:139` says stays. The model has it (`PreTaskHookFails`). On a fresh
  task that row never started, and a finished job's page keeps a projected bar for it
  (`api_server.py:245`).
- README.md:935 says a post_task reviewer runs after the task's commit;
  `task_executor.py:185` runs it before, and a failing review prevents the commit.
- `mark_job_running` and its twin for loops keep the `completed_at` of the earlier run,
  and `_reconcile` stamps the row but not the copy it returns (`job_store.py:107`): a page
  or `mini job status` can show a job that ended before it began (`cli/job.py:550`).

Loops:

- `cli/loop.py:192` appends to the journal although `loop_engine.py:6` calls the engine
  its sole writer.
- A re-plan after a failed implement uses the spec loaded before the implement
  (`loop_engine.py:221`), while `loop patch` prints "effective at next step". The model
  has it.
- `except Exception` (`loop_engine.py:179`) writes FAILED over a STOPPED a usage limit
  set beside it; `LimitKept` of the loop is therefore checked without `raises`. For the
  same reason a call that raises leaves its step's row RUNNING until the next start,
  stop or reconcile (`RowsOwned` counts a raised step as in flight).
- A FAILED loop that is started again at its cap runs one more iteration: the cap is
  compared after an iteration only (`loop_engine.py:171`).
- A stale reconcile can write FAILED over a loop's STOPPED, after which queued
  evaluators start; `loop_ends` has no reader for that reason. It can also write it over
  COMPLETED, and a stop accepted while the engine exits writes STOPPED over both
  (`cli/loop.py:499`); `LoopRows` has all of these.
- A usage limit stops the loop's row while evaluators beside it still run; the page sees
  a terminal status and polls no more, so `FinalLoopPageTrue` speaks of COMPLETED and
  FAILED only. The same holds of a stop: the last page of a stopped job or loop, and its
  log panel (`loop.js:312`), may miss what was written after it.
- A carried pass has its row COMPLETED before its record is in the journal;
  `FinishedVerdictShown` speaks of evaluators that called an agent.
- `mini loop status` takes the dimensions from the plan's path and not from the
  mirrored spec the engine runs (`cli/loop.py:398`).

Agent calls:

- With no timeout, a process the agent left behind with its stdout open keeps the call
  waiting for ever, though `harness.py:495` promises "bounded" pipe handling; with one,
  the kill reaches only the child (`harness.py:470`), and such a process goes on.
- The tokens of a result event that is read after the call timed out are not booked.
- `harness.py:55` says the tokens of a call are "Never a session total"; with a Claude
  Code that sends only `modelUsage` (`harness.py:375`) a resumed call's are. `TokensOnce`
  is checked with `SinceLast = TRUE`, the newer one.
- The gate of a loop step looks at the control line and not at `result.success`: a run
  that failed after writing one is accepted (`loop_engine.py:380`). The model has it.

Views and logs:

- `logs --query -f` searches the file, then opens it anew and seeks to its end: what is
  written in between is never printed (`cli/job.py:711`, `cli/loop.py:597`).
  `FollowComplete` leaves exactly those lines out.
- A second filter clause replaces the first (`logging/log_query.py:100`), also the one
  `--iteration` is said to append (`cli/loop.py:552`). The model has it.
- The API's job logs take the last `limit` lines and filter then (`api_server.py:573`);
  those of a loop filter first.
- A follow of a log that does not exist yet ends at once; `sort` compares as text.
- `terminal_ui/gantt.py:110` gives no column to a step once the width is used up, which
  line 97 excludes.

## The proofs

Eight modules hold proofs, for every value of the constants: any number of tasks,
engines, dimensions, retries, stops, crashes and upgrading commands, any hook list, pool
and agents. The assumptions are the named ASSUMEs of the modules, which say little more
than that the constants have their types, and what a theorem states itself. That of
`LoopRows` also says that a gate accepts a parsed line only: a reply without one goes to
`_no_line`, which raises (`loop_engine.py:391`); those of `LogTail` say that the texts of a
record are ordered and that a limit is a number. Every safety property that a passing run
checks is a theorem, and so are both refinements.

| module | theorem | property | extra assumption |
|---|---|---|---|
| `JobProofs` | `TypeCorrect` | `TypeOK` | |
| | `HandoffOnDisk` | `HandoffBeforeCompleted` | |
| | `SoleEngine` | `OneEngine` | `SerialCommands` |
| | `LimitSurvives` | `LimitKept` | `SerialCommands`, no reader |
| | `RowsStayOwned` | `RowsOwned` | `SerialCommands` |
| | `StopsAreHeeded` | `StopHeeded` | `SerialCommands`, no reader |
| | `TasksStayInOrder` | `TasksInOrder` | `SerialCommands`, no reader |
| | `CheckoutStaysOwned` | `CheckoutOwned` | the same, and git works |
| | `HandoversAreChained` | `HandoverChain` | `SerialCommands`, no reader |
| | `JobImplementsPlan` | `RefinesPlanProgress` | `SerialCommands`, no reader |
| `LoopProofs` | `TypeCorrect` | `TypeOK` | |
| | `CompletedMeansDone` | `CompletedByPlanner` | |
| | `IterationsClosedWhole` | `ClosedWhole` | |
| | `VerdictsAreReal` | `VerdictReal` | |
| | `CarriedPassesAreRechecked` | `PassesRechecked` | no patch changes the dimensions |
| | `LoopImplementsProgress` | `RefinesLoopProgress` | |
| | `RowsStayOwned` | `RowsOwned` | no call raises |
| | `LimitStays` | `LimitKept` | no call raises, no reader |
| | `StopsAreHeeded` | `StopHeeded` | no reader |
| `AgentProofs` | `ChildGone` | `DeadOnReturn` | |
| | `SuccessIsWhole` | `SuccessWhole` | |
| | `SessionsAreSound` | `SessionsSound` | |
| | `TokensAreBookedOnce` | `TokensOnce` | the CLI reports since its last report |
| | `LimitsAreNotRetried` | `LimitNotRetried` | |
| `JobPageProofs` | `TimesStayOrdered` | `TimesOrdered` | |
| | `FinalPageStays` | `FinalPageTrue` | |
| | `FinalTokensStay` | `FinalTokensAddUp` | |
| | `CompletedPageStaysQuiet` | `CompletedPageQuiet` | |
| `LoopPageProofs` | `FinalLoopPageStays` | `FinalLoopPageTrue` | |
| | `FinishedVerdictsStay` | `FinishedVerdictShown` | |
| `LoopScoreProofs` | `ScoreStays` | `ScoreTrue` | |
| | `IterationTokensStay` | `IterationTokensAddUp` | |
| `SchemaProofs` | `SchemaIsComplete` | `SchemaComplete` | |
| | `NoRowsLost` | `RowsKept` | |
| `LogTailProofs` | `FollowsAreComplete` | `FollowComplete` | |

The extra assumptions are those of the runs, and where they are needed "What the checks
showed" says why: a start issued beside another makes two engines; a reader that
reconciles late writes FAILED over STOPPED, and everything that relies on a stop being
seen goes with it; a failing `git stash` leaves a failed task's work in the checkout; a
call that raises leaves its row; a patch that drops a dimension carries a pass.

No property is inductive. What each argument adds:

*Jobs.* `TypeInv` ties an engine's place to a task (`at # 0`) and says that the attempt it
reached leaves room for its retries, `att + MaxRetries <= MaxAttempt + k`. `HandoffInv`
says that from the handoff's write to the task's the file is there. `SoleInv` says that
the job's pid is the working engine's, that nobody works while an engine is past its pid
check, and that one starts at a time. `LimitInv` says that while the reason stands nobody
is there to make the unconditional last write.

`RowsInv` says where an engine may have a row RUNNING, and that past the takeover there
is no other; since only the sole engine writes rows, `OthersAside` makes everybody else's
step harmless. `LateInv` says that what was begun late was begun from a place that reads
no status before it.

Order is the hard one, since a stop takes back COMPLETED tasks from a stale list. What
must be remembered is not what is COMPLETED but what stays so: `Kept` is Completed minus
what the stop under way will still mark. `StopInv` says that a stop with a list has made
the job STOPPED, and that nobody starts during one; `OrderInv`, that what an engine loaded
as COMPLETED is kept, that what was completed since is behind it, and that everything
before its task is kept while its task is not COMPLETED. An engine at the check between
two tasks of a job that is not STOPPED has kept its last task too, because a list that
could take it back implies STOPPED: that is the case that fails with a reader. `TreeInv`
then holds that work in the checkout is of a task with all before it COMPLETED and itself
not, hence of one task only; `ChainInv`, that what was loaded of kept tasks is still so
(`Gapless`: no COMPLETED task stands behind one that is not), and that the handoff in hand
is of the attempt before. `Mapped` reads off these that an engine's task is the one after
those done, and every step of the job becomes a step of `PlanProgress` or none: a marked
task that was COMPLETED is a `TakeBack`, with nobody in a task.

*Loops.* `LinesInv` says what plan and implement lines the iteration has at each place of
the engine; `JudgedInv`, which dimensions have a verdict, and which are still owed one by
a thread. With `CompletedInv` these give the first theorems and the refinement.
`VerdictReal` needs only the types. `RecheckInv` says that a pass is carried only beside a
dimension that failed in the same iteration, so that an iteration with only passes
carried none. `RowsInv`, `LimitInv` and `LateInv` of `LoopProofs` say which steps a
RUNNING row, a usage limit and a late agent can be of; the last counts the threads that
launched late or are past their check, never more than the pool has, and says that one
about to launch has not launched late yet.

*Agent calls.* `ChildInv`: every way to an answer goes by an exit or a kill. `ReaderInv`:
past the `is_alive` check the reader has ended, and stays so (`ReaderStaysDone`).
`StreamInv`: the reader takes only what was said and cannot pass an odd event unharmed.
`SessionInv`: a call that will resume has a session whose last agent was clean.
`TokenInv`: what is booked is what was reported, the report being the last event of a
Claude Code call. `LimitInv`: an answer made after the limit says so, and the callers end.

*The job's page.* `TimesInv` says that every time is past, and that an agent's end, stamped
after it, is later than its row's beginning. `FinalInv`: a job that is over by itself has
no engine (`OffIsQuiet`), and a stop or a load that is late touches neither executions nor
calls (`LateCommand`), so that the tables read one by one belong together.
`LeftInv` is what runs leave behind, a later run the rows of an earlier one included: an
open row is the working engine's own (`Own`), a closed one has an end, a call has the row
of its attempt, and a task that is COMPLETED or behind the engine has an attempt that
completed, also if a stop took its COMPLETED back. An engine that succeeds has left no
task, so that a page that read COMPLETED finds such an attempt of every task, and rows
that were over before the job was; `ReadInv` carries that to what it read.

The figures and bars speak of the timeline, so it must be known that it shows each row
once: no two lines have one place, so that the number of earlier lines names a line
(`Ranked`, `StepsAreLines`). Then a task's rows with a given figure stand one for one with
its calls of that outcome (`RowsOf`, `SameSize`), which is what the total counts
(`Rollup`). For the bars: on a completed job's page each line that began is over, a
terminal bar does not depend on the projected work before it (`TerminalBar`), and no
line begins before the timeline's zero (`OriginLeast`).

*The loop's page.* `RowsInv` of `LoopPageProofs` gives the shape of the tables and says
that a step under way has a row of its own that is not completed, that its accepted line
is in the journal when it is at its gate, and that an evaluator's row that ended well
has its accepted line last (`Accepted`). `FinalInv` says that what has been read of a loop
that is over is what is there, because the engine is gone (`Quiet`) and what is late marks
the loop, and rows that show as STOPPED already: `Calm`, the rows as a loop shows them
that is not running, does not change (`CalmStays`). `WebInv` says that what the page read
completed is completed still and that the journal it read afterwards has the lines: rows
and lines are only added, and an evaluator that ended well is not touched again
(`Grows`); the order of the two reads is what makes it true.

*The score.* What the page counts by rows and what the engine counts by journal lines
agree if a verdict is the end of its dimension in its iteration: no line and no row of
it follows. That is `VerdictsInv`, and it holds because the engine begins an evaluator,
a re-check or a carried row only for a dimension without a verdict. `EvaluatorStepsInv`
and `RecordInv` carry this through the steps: one under way has the last row of its
dimension and no verdict before the gate is at its line. `CoveredInv` says that from the
evaluators on each dimension is judged, carried or at work, so that a closed iteration
has a verdict of each (`ClosedInv`), and `LinesInv` that a line is of a row of its kind
and that only passes are carried over. Then the dimensions, their last rows and their
last lines stand one for one (`Verdicts`), and so do those of them that passed or were
carried (`SameSize`): all three count the same.

*The tokens of a loop.* An iteration's figure is over its own rows, the loop's over all:
`CallsInv` says that the calls of each row are a sequence, hence all calls a finite set, and
that set is cut by the iterations of the rows. The parts of a cut set have together as
many elements as the set (`SumOfParts`). The sum is a fold of the library, which the
provers can unfold but not do an induction over; a least set that breaks the rule
(`LeastSubset`) stands for it.

*The upgrade.* `SchemaInv` has four parts besides the types. `OneHolder`: one command at
most has a transaction that wrote. `DiskInv`: no successor of a table is on disk, no
column is there that no release made, and a database of the current version is complete.
`CommandInv`: what a command is about to commit (`Due`, its own view if it holds the
lock, else the disk) keeps all rows, has a successor table only inside the rebuild that
made it, with the old table's rows once they are copied, and has each column whose
statement the command is past (`Past`). A command that read the columns and was
overtaken may find one more than it saw, never one less: `seen` stays a subset.
Statement by statement, `Past` then ends in `Complete`; and since only a commit changes
the disk, and what is due keeps the rows, no row is lost.

*The follow.* A position is behind an ended line or in the middle of a long one
(`Position`). `FileInv` says that an unended last line is a long one and that the lines
`closed` counts are ended; `FileStep`, that the file only grows (`Grown`): a line keeps its
record and at most stops being one. `FollowInv` says what a follow has printed at its
position (`Promise`): without a query each ended line before it, whole or in its two
parts, and nothing else (`RawShown`); with one no whole line twice, none it has not come
to, and each wanted one from where it opened the file, besides what the search found
(`QueryShown`). `SomeRead` carries this over any piece read, a line, a part of one or all
that is left, and the last read of a follow ends at the end of the file, past all `closed`
lines. That a filtered or sorted list has each record once is `ListingIs`: where an
order is total, the number of predecessors names an element (`Ranked`).

Shared lemmas: `Frame`, a step of one engine leaves the others alone; `MinNat`, `Min` of a
nonempty set of naturals is its least element, from the library's well-foundedness of
finite sets; `LeastExists` and `LastExists`, a set of naturals has a least element and one
that is bounded a last, which stands for an induction the prover cannot be given;
`EngineCompletes` and `EngineRetries`, what a step does to the tasks; `Changed`,
`Appended` and `Listed`, what EXCEPT and Append make of a sequence.

*Only model-checked* is what is *out of the prover's reach*: liveness under fairness
(`RunningEnds`, `PlanFinishes`, `StepEnds`, `FollowEnds`, `CommandsFinish`), ENABLED,
induction over data, and recursive operators (the modules have none). `TypeOK` of
`AgentStep` holds on the instance of `agent_call` when added to its cfg; nothing rests on it.

## Not modelled

- Durations, diffs, hashes, prompts, prices, labels, HTML and layout: no property tells
  them apart. Times are an order.
- The choice of harness, model and persona, environments and flags; settings.
- `job new`, `loop new`, `results` and deletion. Deletion does change a live job's state
  (`PROJECT.json` lists the hazard): it removes rows and files that an engine which
  outlived its stop writes again, and modelling it means an engine on rows that are
  gone, for each of its writes.
- Two patches at once; two starts of a loop at once; pids reused by foreign processes
  (`_pid_alive` asks only whether the pid exists).
- Torn journal lines and SQLite lock timeouts outside `init_db`. An agent that outlives
  its crashed engine and keeps writing: what an agent leaves behind when its engine dies
  is chosen at the death.
- In `JobRows` and `LoopRows`, a start beside a stop, a load or another start of the same
  job or loop; `JobSystem` has starts beside loads.
- Characters: a journal record is one line and one record. One with U+2028 in a string is
  written as is (`ensure_ascii=False`, `loop_journal.py:21`) and cut in two by the readers
  that split with `str.splitlines()`, which no model tells apart.
- Lists of jobs and loops, log panels, the grammar of queries and projection to fields.

Components that are "partly" modelled in `PROJECT.json` say there what is left out.

## Where it could go on

1. Deletion beside a surviving engine, and `new` with a crash between rows and plan file.
2. An abstract "one outcome per call" that `AgentCall` implements and the two engines
   assume; an engine that dies in the middle of a call.
3. `loop_views.py` for stopped loops, with what is written after the stop.
4. Control lines and carried passes over whole journals, against the summary that
   `LoopEngine` keeps.
