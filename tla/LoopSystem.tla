----------------------------- MODULE LoopSystem -----------------------------
(***************************************************************************)
(* A loop and everything that touches it: the engine `mini loop start`     *)
(* spawns, `mini loop stop`, `mini loop patch`, the readers whose every    *)
(* load reconciles, and crashes.                                           *)
(***************************************************************************)
EXTENDS LoopEngine

CONSTANTS
  Reader,      \* processes that only read loops
  KillMayFail, \* an engine may outlive the signals of a stop
  MaxStops,    \* bound: stop commands
  MaxCrashes   \* bound: engines that die on their own

ASSUME SystemAssumption ==
  KillMayFail \in BOOLEAN /\ MaxStops \in Nat /\ MaxCrashes \in Nat

VARIABLES
  stopPc,  \* where the stop command is
  stopPid, \* the run it read the pid of
  seen,    \* per reader: the run whose RUNNING loop it loaded, 0 for none
  stops, crashes  \* what the bounds count

systemVars == <<stopPc, stopPid, seen, stops, crashes>>
vars == <<loopVars, systemVars>>

Init ==
  /\ LoopInit
  /\ stopPc = "idle" /\ stopPid = 0 /\ seen = [r \in Reader |-> 0]
  /\ stops = 0 /\ crashes = 0

-----------------------------------------------------------------------------
\* `mini loop start`: spawn an engine unless the loop is live or complete.
\* Bound: the journal has room for one more iteration.
StartCommand ==
  /\ gen < MaxSpawns /\ closed < MaxIteration /\ pc = "off" /\ stopPc = "idle"
  /\ Reconciled \notin {"running", "completed"}
  /\ Reconcile /\ gen' = gen + 1 /\ Goto("load")
  /\ UNCHANGED <<version, journalVars, ver, cap, resume, replans, res, threadVars,
                 systemVars>>

\* `mini loop stop` is accepted, and reads the pid it will kill.
StopCommand ==
  /\ stops < MaxStops /\ stopPc = "idle" /\ pc \notin {"load", "clear", "own"}
  /\ Reconciled = "running" \/ Alive(owner)
  /\ Reconcile /\ stopPc' = "mark" /\ stopPid' = owner /\ stops' = stops + 1
  /\ UNCHANGED <<version, journalVars, gen, mainVars, threadVars, seen, crashes>>

StopMarksLoop ==
  /\ stopPc = "mark" /\ stopPc' = "steps"
  /\ loopStatus' = "stopped" /\ UNCHANGED <<owner, stopReason>>
  /\ UNCHANGED <<running, version, journalVars, gen, mainVars, threadVars, stopPid,
                 seen, stops, crashes>>

StopMarksSteps ==
  /\ stopPc = "steps" /\ stopPc' = "kill"
  /\ running' = {}
  /\ UNCHANGED <<rowVars, version, journalVars, gen, mainVars, threadVars, stopPid,
                 seen, stops, crashes>>

\* The engine dies, with every thread and agent of its group.
Dies == Gone /\ UNCHANGED <<rowVars, running, version, journalVars, gen>>

StopKills ==
  /\ stopPc = "kill" /\ stopPc' = "idle" /\ stopPid' = 0
  /\ \/ Alive(stopPid) /\ Dies
     \/ (Alive(stopPid) => KillMayFail) /\ UNCHANGED loopVars
  /\ UNCHANGED <<seen, stops, crashes>>

\* `mini loop patch`: the next plan_version replaces the mirrored spec.
Patch ==
  /\ version < MaxVersion /\ version' = version + 1
  /\ UNCHANGED <<rowVars, running, journalVars, gen, mainVars, threadVars, systemVars>>

\* A load reads the loop's row first and checks the pid afterwards.
ReaderLoads(r) ==
  /\ seen[r] = 0 /\ loopStatus = "running"
  /\ seen' = [seen EXCEPT ![r] = owner]
  /\ UNCHANGED <<loopVars, stopPc, stopPid, stops, crashes>>

\* MUTANT: a load does not write what it found.
ReaderOnlyLooks(r) ==
  /\ seen[r] # 0 /\ seen' = [seen EXCEPT ![r] = 0]
  /\ UNCHANGED <<loopVars, stopPc, stopPid, stops, crashes>>

\* A dead pid makes the loop FAILED and its steps STOPPED, whatever they are now.
ReaderReconciles(r) ==
  /\ seen[r] # 0 /\ seen' = [seen EXCEPT ![r] = 0]
  /\ IF Alive(seen[r]) THEN UNCHANGED <<rowVars, running>>
     ELSE loopStatus' = "failed" /\ running' = {} /\ UNCHANGED <<owner, stopReason>>
  /\ UNCHANGED <<version, journalVars, gen, mainVars, threadVars, stopPc, stopPid,
                 stops, crashes>>

Crash ==
  /\ crashes < MaxCrashes /\ pc # "off"
  /\ Dies /\ crashes' = crashes + 1
  /\ UNCHANGED <<stopPc, stopPid, seen, stops>>

-----------------------------------------------------------------------------
Main == MainStep /\ UNCHANGED systemVars
Thread(s) == ThreadStep(s) /\ UNCHANGED systemVars
StopStep == StopMarksLoop \/ StopMarksSteps \/ StopKills

Next ==
  \/ Main \/ \E s \in Slot : Thread(s)
  \/ StartCommand \/ StopCommand \/ StopStep \/ Patch \/ Crash
  \/ \E r \in Reader : ReaderLoads(r) \/ ReaderReconciles(r)

Spec == Init /\ [][Next]_vars

-----------------------------------------------------------------------------
TypeOK ==
  /\ EngineTypeOK
  /\ stopPc \in {"idle", "mark", "steps", "kill"} /\ stopPid \in 0..MaxSpawns
  /\ seen \in [Reader -> 0..MaxSpawns]
  /\ stops \in 0..MaxStops /\ crashes \in 0..MaxCrashes

-----------------------------------------------------------------------------
(* Safety.                                                                 *)

TookOver == pc \notin {"off", "load", "clear", "own"}
InFlight == {s \in Slot : st[s] \notin {"idle", "queued", "done", "stopped", "exhausted"}}

\* Once an engine took the loop over, every row still RUNNING is of a step it has
\* in flight (as long as no agent call raises): no ghost of an earlier run.
RowsOwned == TookOver => \A x \in running : x[1] = gen /\ x[2] \in InFlight

\* An engine that outlives its stop launches at most the agents its threads were
\* about to launch, each once: queued evaluators stay off, and so do retries, also of
\* an agent that was launched late itself.
StopHeeded ==
  /\ \A s \in Slot : late[s] <= 1
  /\ Cardinality({s \in Slot : late[s] > 0}) <= MaxConcurrent

\* A loop an agent's usage limit stopped stays STOPPED, with its reason, until it
\* is started again, also when the evaluators beside it fail their gate.
LimitKept ==
  stopReason = "usage_limit" => loopStatus = "stopped"

\* "Status: completed means the planner decided to stop": the planner's line is
\* the last thing the journal's open iteration holds.
CompletedByPlanner ==
  loopStatus = "completed" => planLine = "done" /\ newest = "plan"

\* What the journal says of a dimension is what an evaluator last found, under
\* the version and in the iteration the record names, also when a pass is carried.
VerdictReal ==
  \A d \in Dimension :
    /\ verdict[d] # NoVerdict => verdict[d] = lastReal[d]
    /\ verdict[d] = NoVerdict => last[d] = lastReal[d]

\* An iteration is closed only when it was planned and implemented and every
\* dimension of the spec has a verdict in it: a stop or crash cuts no evaluator off.
ClosedWhole ==
  [][closed' # closed =>
       planLine = "continue" /\ implLine = "done" /\ Dims[ver] \subseteq Judged]_vars

\* "A loop never finishes on a pass that wasn't re-checked": an iteration whose
\* dimensions all pass is closed with every one of them evaluated in it.
PassesRechecked ==
  [][closed' # closed /\ (\A d \in Dims[ver] : verdict[d].pass) =>
       \A d \in Dims[ver] : verdict[d].from = closed']_vars

-----------------------------------------------------------------------------
(* The journal's progress: the loop implements LoopProgress.               *)

Stage ==
  CASE planLine = "done" -> "over"
    [] planLine # "done" /\ implLine = "done" -> "evaluate"
    [] planLine = "continue" /\ implLine # "done"
         /\ ~(newest = "implement" /\ implLine = "failed") -> "implement"
    [] OTHER -> "plan"

Progress == INSTANCE LoopProgress WITH stage <- Stage, judged <- Judged

\* No interleaving of runs, stops, crashes and patches makes the journal go back:
\* what is implemented is judged, each dimension once, and then closed.
RefinesLoopProgress == Progress!Spec

-----------------------------------------------------------------------------
(* What the README and comments say, and the code does not do.             *)

\* "It continues from the interrupted step, and finished ones don't run again":
\* the planner is not asked again while its newest plan is not implemented.
FinishedPlanNotRerun ==
  [][\A s \in Slot : st[s] = "ready" /\ st'[s] = "agent" /\ Plans(s) /\ tries[s] = 0
       => ~(planLine = "continue" /\ newest = "plan")]_vars

-----------------------------------------------------------------------------
(* Liveness.                                                               *)

Fairness ==
  /\ WF_vars(Main) /\ \A s \in Slot : WF_vars(Thread(s))
  /\ WF_vars(StopStep)
  /\ \A r \in Reader : WF_vars(ReaderLoads(r)) /\ WF_vars(ReaderReconciles(r))

FairSpec == Spec /\ Fairness

\* A loop does not run forever, whatever its agents answer: its engine ends it,
\* or its dead engine is noticed.
RunningEnds == loopStatus = "running" ~> loopStatus # "running"
=============================================================================
