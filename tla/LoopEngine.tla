----------------------------- MODULE LoopEngine -----------------------------
(***************************************************************************)
(* One `mini loop _run` process (cli/loop.py, loop_engine.py) over the     *)
(* loops and loop_steps tables (loop_store.py, database.py) and the        *)
(* journal (loop_journal.py).                                              *)
(*                                                                         *)
(* The main thread (pc) takes an iteration from plan to commit marker.     *)
(* Slot 0 is the step it runs itself; slot d > 0 is the evaluator of       *)
(* dimension d, a thread of the pool.  A step of the model ends where      *)
(* another thread or process can observe or change what is read next.      *)
(*                                                                         *)
(* The journal is kept as what its readers compute from it: the last plan  *)
(* and implement line of the open iteration, the last valid verdict of     *)
(* each dimension in it, and the last one before it.                       *)
(*                                                                         *)
(* At most one engine process of the loop lives at a time: the commands    *)
(* are serial (the double start is studied in JobSystem, same check).      *)
(***************************************************************************)
EXTENDS Naturals, FiniteSets, FiniteSetsExt

CONSTANTS
  NDims,         \* dimensions any version of the spec names
  Dims,          \* Dims[v]: the dimensions of version v of the spec
  MaxIterations, \* MaxIterations[v]: the max_iterations of version v
  Select,        \* evaluate.select: "all" or "failed"
  MaxConcurrent, \* evaluate.max_concurrent
  MaxRetries,    \* LoopEngine.MAX_RETRIES
  MaxReplans,    \* LoopEngine.MAX_REPLANS
  Replies,       \* how an agent call may end
  MaxVersion,    \* bound: versions of the spec
  MaxIteration,  \* bound: iterations of the journal
  MaxSpawns      \* bound: engines started

Dimension == 1..NDims
Slot == 0..NDims
Version == 1..MaxVersion

ASSUME LoopAssumption ==
  /\ NDims \in Nat \ {0} /\ MaxVersion \in Nat \ {0} /\ MaxConcurrent \in Nat \ {0}
  /\ Dims \in [Version -> (SUBSET Dimension) \ {{}}]
  /\ MaxIterations \in [Version -> 1..MaxIteration]
  /\ Select \in {"all", "failed"}
  /\ MaxIteration \in Nat /\ MaxRetries \in Nat /\ MaxReplans \in Nat /\ MaxSpawns \in Nat
  /\ Replies \subseteq {"valid", "malformed", "usage_limit", "raises"}

VARIABLES
  loopStatus, \* loops.status
  owner,      \* loops.pid: the run that took the loop over last, 0 for none
  stopReason, \* loops.stop_reason
  running,    \* loop_steps: the <<run, slot>> of the rows whose status is RUNNING
  version,    \* plan_version of the mirrored spec
  closed,     \* the last iteration with a commit marker
  planLine,   \* control of the open iteration's last plan line
  implLine,   \* control of its last implement line
  newest,     \* which of the two was appended last
  verdict,    \* per dimension: its last valid evaluate record, open iteration
  last,       \* per dimension: its last valid evaluate record before it
  lastReal,   \* history: what the last evaluator that ran reported
  gen,        \* number of engines started: names the run
  pc,         \* where the main thread is
  ver,        \* the version of the spec it loaded last
  cap,        \* the max_iterations it read when the iteration began
  resume,     \* the steps whose line of an earlier run is still to be reused
  replans,    \* implement-fail, re-plan cycles of the iteration in this run
  res,        \* the status its last write will set
  st,         \* per slot: where its step is
  tries,      \* per slot: index of its attempt
  late        \* history: per slot, the agents this engine launched on a STOPPED loop

rowVars == <<loopStatus, owner, stopReason>>
lineVars == <<planLine, implLine, newest>>
journalVars == <<closed, lineVars, verdict, last, lastReal>>
threadVars == <<st, tries, late>>
mainVars == <<pc, ver, cap, resume, replans, res>>
loopVars == <<rowVars, running, version, journalVars, gen, mainVars, threadVars>>

\* A dimension with no valid record, and a valid record: its verdict, the version
\* it was given under and the iteration an evaluator really ran in.
NoVerdict == [pass |-> FALSE, ver |-> 0, from |-> 0]
Verdict == [pass : BOOLEAN, ver : 0..MaxVersion, from : 0..MaxIteration]

Status == {"pending", "running", "completed", "failed", "stopped"}
PC == {"off", "load", "clear", "own", "top", "plan", "planning", "impl",
       "implementing", "replanning", "eval", "evaluating", "settle", "rechecking",
       "carry", "close", "mark", "finish", "exit"}
Ended == {"done", "stopped", "exhausted", "raised"}
StepPC == {"idle", "queued", "ready", "agent", "gate", "again", "exhaust", "limit"}
          \cup Ended

NoneLate == [s \in Slot |-> 0]

LoopInit ==
  /\ loopStatus = "pending" /\ owner = 0 /\ stopReason = "none" /\ running = {}
  /\ version = 1 /\ closed = 0 /\ planLine = "none" /\ implLine = "none"
  /\ newest = "none" /\ verdict = [d \in Dimension |-> NoVerdict]
  /\ last = verdict /\ lastReal = verdict
  /\ gen = 0 /\ pc = "off" /\ ver = 1 /\ cap = 1 /\ resume = {} /\ replans = 0
  /\ res = "failed" /\ st = [s \in Slot |-> "idle"]
  /\ tries = [s \in Slot |-> 0] /\ late = NoneLate

Stopped == loopStatus = "stopped"
Judged == {d \in Dimension : verdict[d] # NoVerdict}

\* The run whose pid the loop row holds is alive.
Alive(o) == o = gen /\ pc # "off"

\* LoopStore.load: a RUNNING loop whose engine is dead becomes FAILED, and the
\* rows of its steps STOPPED.
Reconciled == IF loopStatus = "running" /\ ~Alive(owner) THEN "failed" ELSE loopStatus
Reconcile ==
  /\ loopStatus' = Reconciled /\ UNCHANGED <<owner, stopReason>>
  /\ running' = IF Reconciled = loopStatus THEN running ELSE {}

Goto(l) == pc' = l
FinishAs(s) == Goto("finish") /\ res' = s
Dispatch(S) ==
  /\ st' = [s \in Slot |-> IF s \in S THEN "queued" ELSE "idle"]
  /\ tries' = [s \in Slot |-> 0]

-----------------------------------------------------------------------------
(* loop_run and the start of LoopEngine.run.                               *)

LoadLoop ==
  /\ pc = "load" /\ Reconcile
  /\ Goto(IF Reconciled \in {"running", "completed"} THEN "exit" ELSE "clear")
  /\ UNCHANGED <<version, journalVars, gen, ver, cap, resume, replans, res, threadVars>>

\* MUTANT: the rows an earlier engine left RUNNING stay.
KeepSteps ==
  /\ pc = "clear" /\ Goto("own")
  /\ UNCHANGED <<rowVars, running, version, journalVars, gen, ver, cap, resume,
                 replans, res, threadVars>>

\* A RUNNING step now belongs to a dead earlier engine.
ClearSteps ==
  /\ pc = "clear" /\ Goto("own") /\ running' = {}
  /\ UNCHANGED <<rowVars, version, journalVars, gen, ver, cap, resume,
                 replans, res, threadVars>>

TakeOver ==
  /\ pc = "own" /\ Goto("top")
  /\ loopStatus' = "running" /\ owner' = gen /\ stopReason' = "none"
  /\ UNCHANGED <<running, version, journalVars, gen, ver, cap, resume,
                 replans, res, threadVars>>

-----------------------------------------------------------------------------
(* One iteration: plan, implement, and plan again while implement fails.   *)

\* MUTANT: an implement that is done is run again.
ResumablePlan == {s \in {"plan"} : planLine \notin {"none", "bad"}}

\* The steps of the open iteration whose last line is a valid control line.
Resumable == {s \in {"plan", "implement"} :
                (IF s = "plan" THEN planLine ELSE implLine) \notin {"none", "bad"}}

\* The while loop's head: stop check, max_iterations, what can be resumed.
NextIteration ==
  /\ pc = "top"
  /\ IF Stopped
     THEN FinishAs("stopped") /\ UNCHANGED <<cap, resume, replans>>
     ELSE /\ Goto("plan") /\ cap' = MaxIterations[version]
          /\ resume' = Resumable /\ replans' = 0 /\ UNCHANGED res
  /\ UNCHANGED <<rowVars, running, version, journalVars, gen, ver, threadVars>>

StartPlan ==
  /\ pc = "plan"
  /\ IF Stopped
     THEN FinishAs("stopped") /\ UNCHANGED <<ver, resume, st, tries>>
     ELSE /\ ver' = version /\ resume' = resume \ {"plan"}
          /\ \/ /\ "plan" \in resume /\ UNCHANGED <<st, tries>>
                /\ IF planLine = "done" THEN FinishAs("completed")
                                        ELSE Goto("impl") /\ UNCHANGED res
             \/ /\ "plan" \notin resume
                /\ Dispatch({0}) /\ Goto("planning") /\ UNCHANGED res
  /\ UNCHANGED <<rowVars, running, version, journalVars, gen, cap, replans, late>>

\* MUTANT: a planner that keeps saying "continue" is asked for ever.
PlannedForEver ==
  /\ pc \in {"planning", "replanning"} /\ st[0] = "done"
  /\ IF planLine = "done" THEN FinishAs("completed")
                          ELSE Goto("impl") /\ UNCHANGED res
  /\ Dispatch({})
  /\ UNCHANGED <<rowVars, running, version, journalVars, gen, ver, cap, resume,
                 replans, late>>

\* MUTANT: running out of re-plans counts as done.
PlannedOut ==
  /\ pc \in {"planning", "replanning"} /\ st[0] = "done"
  /\ IF planLine = "done" \/ (pc = "replanning" /\ replans = MaxReplans)
     THEN FinishAs("completed") /\ UNCHANGED replans
     ELSE /\ Goto("impl") /\ UNCHANGED res
          /\ replans' = IF pc = "replanning" THEN replans + 1 ELSE replans
  /\ Dispatch({})
  /\ UNCHANGED <<rowVars, running, version, journalVars, gen, ver, cap, resume, late>>

\* The planner ended the loop, or its plan is to be implemented; a re-plan only
\* while cycles are left.
Planned ==
  /\ pc \in {"planning", "replanning"} /\ st[0] = "done"
  /\ CASE planLine = "done" -> FinishAs("completed") /\ UNCHANGED replans
       [] planLine # "done" /\ pc = "replanning" /\ replans = MaxReplans ->
            FinishAs("failed") /\ UNCHANGED replans
       [] OTHER ->
            /\ Goto("impl") /\ UNCHANGED res
            /\ replans' = IF pc = "replanning" THEN replans + 1 ELSE replans
  /\ Dispatch({})
  /\ UNCHANGED <<rowVars, running, version, journalVars, gen, ver, cap, resume, late>>

\* A failed implement goes back to the planner, under the spec already loaded.
AfterImplement ==
  IF implLine = "failed" THEN Goto("replanning") /\ Dispatch({0})
                         ELSE Goto("eval") /\ Dispatch({})

StartImplement ==
  /\ pc = "impl"
  /\ IF Stopped
     THEN FinishAs("stopped") /\ UNCHANGED <<ver, resume, st, tries>>
     ELSE /\ ver' = version /\ resume' = resume \ {"implement"} /\ UNCHANGED res
          /\ IF "implement" \in resume THEN AfterImplement
             ELSE Dispatch({0}) /\ Goto("implementing")
  /\ UNCHANGED <<rowVars, running, version, journalVars, gen, cap, replans, late>>

Implemented ==
  /\ pc = "implementing" /\ st[0] = "done" /\ AfterImplement
  /\ UNCHANGED <<rowVars, running, version, journalVars, gen, ver, cap, resume,
                 replans, res, late>>

-----------------------------------------------------------------------------
(* Evaluate, carry passes over, close.                                     *)

\* MUTANT: a pass is carried over whatever the spec became since.
CarriedUnder(v) == {d \in Dims[v] : Select = "failed" /\ last[d].pass}

\* select: failed. The dimensions whose last record before the open iteration is
\* a pass under this version: no evaluator is dispatched for them.
Carried(v) ==
  {d \in Dims[v] : Select = "failed" /\ last[d].pass /\ last[d].ver = v}

StartEvaluate ==
  /\ pc = "eval"
  /\ IF Stopped
     THEN FinishAs("stopped") /\ UNCHANGED <<ver, st, tries>>
     ELSE /\ ver' = version /\ Goto("evaluating") /\ UNCHANGED res
          /\ Dispatch(Dims[version] \ (Judged \cup Carried(version)))
  /\ UNCHANGED <<rowVars, running, version, journalVars, gen, cap, resume,
                 replans, late>>

AllDone == \A d \in Dimension : st[d] \in {"idle", "done"}

\* MUTANT: the iteration is closed without settling the carried passes.
EvaluatedOnly ==
  /\ pc \in {"evaluating", "rechecking"} /\ AllDone
  /\ Goto("close") /\ Dispatch({})
  /\ UNCHANGED <<rowVars, running, version, journalVars, gen, ver, cap, resume,
                 replans, res, late>>

Evaluated ==
  /\ pc \in {"evaluating", "rechecking"} /\ AllDone
  /\ Goto(IF pc = "evaluating" /\ Carried(ver) # {} THEN "settle" ELSE "close")
  /\ Dispatch({})
  /\ UNCHANGED <<rowVars, running, version, journalVars, gen, ver, cap, resume,
                 replans, res, late>>

\* MUTANT: carried passes are never checked again.
SettleByCarrying ==
  /\ pc = "settle"
  /\ IF Stopped THEN FinishAs("stopped") ELSE Goto("carry") /\ UNCHANGED res
  /\ UNCHANGED <<rowVars, running, version, journalVars, gen, ver, cap, resume,
                 replans, threadVars>>

\* Everything that ran passed: the carried passes are checked again. Otherwise
\* they are recorded as carried over.
Settle ==
  /\ pc = "settle"
  /\ IF Stopped THEN FinishAs("stopped") /\ UNCHANGED <<st, tries>>
     ELSE /\ UNCHANGED res
          /\ IF \A d \in Dims[ver] \ Carried(ver) : verdict[d].pass
             THEN Goto("rechecking") /\ Dispatch(Carried(ver) \ Judged)
             ELSE Goto("carry") /\ UNCHANGED <<st, tries>>
  /\ UNCHANGED <<rowVars, running, version, journalVars, gen, ver, cap, resume,
                 replans, late>>

\* One record per dimension: it copies the iteration the pass was given in, and is
\* stamped with the version in force.
CarryPass ==
  /\ pc = "carry"
  /\ LET todo == Carried(ver) \ Judged IN
     IF todo = {} THEN Goto("close") /\ UNCHANGED verdict
     ELSE /\ verdict' = [verdict EXCEPT ![Min(todo)] = [last[Min(todo)] EXCEPT !.ver = ver]]
          /\ UNCHANGED pc
  /\ UNCHANGED <<rowVars, running, version, closed, lineVars, last, lastReal, gen,
                 ver, cap, resume, replans, res, threadVars>>

\* "Never close a stopped iteration": the check, then the marker.
CloseCheck ==
  /\ pc = "close"
  /\ IF Stopped THEN FinishAs("stopped") ELSE Goto("mark") /\ UNCHANGED res
  /\ UNCHANGED <<rowVars, running, version, journalVars, gen, ver, cap, resume,
                 replans, threadVars>>

\* The commit marker. The iterations left are counted only now.
CloseIteration ==
  /\ pc = "mark"
  /\ closed' = closed + 1
  /\ planLine' = "none" /\ implLine' = "none" /\ newest' = "none"
  /\ last' = [d \in Dimension |-> IF d \in Judged THEN verdict[d] ELSE last[d]]
  /\ verdict' = [d \in Dimension |-> NoVerdict]
  /\ IF closed' >= cap THEN FinishAs("failed") ELSE Goto("top") /\ UNCHANGED res
  /\ UNCHANGED <<rowVars, running, version, lastReal, gen, ver, cap, resume,
                 replans, threadVars>>

-----------------------------------------------------------------------------
(* _run_step: one agent, its line, the gate.                               *)

StepVars == <<rowVars, running, version, journalVars, gen, mainVars>>
Move(s, l) == st' = [st EXCEPT ![s] = l]
CloseRow(s) == running' = running \ {<<gen, s>>}

\* The evaluators that hold a thread of the pool, and those that wait for one.
Active == {d \in Dimension : st[d] \notin Ended \cup {"idle", "queued"}}
Queued == {d \in Dimension : st[d] = "queued"}

\* Every step reads the loop's status before it starts.
StepCheck(s) ==
  /\ st[s] = "queued" /\ (s > 0 => s = Min(Queued) /\ Cardinality(Active) < MaxConcurrent)
  /\ Move(s, IF Stopped THEN "stopped" ELSE "ready")
  /\ UNCHANGED <<tries, late, StepVars>>

\* The first attempt of a step saves its row RUNNING; the agent is launched.
LaunchAgent(s) ==
  /\ st[s] = "ready" /\ Move(s, "agent")
  /\ running' = IF tries[s] = 0 THEN running \cup {<<gen, s>>} ELSE running
  /\ late' = IF Stopped THEN [late EXCEPT ![s] = @ + 1] ELSE late
  /\ UNCHANGED <<rowVars, version, journalVars, gen, mainVars, tries>>

\* What step s runs: slot 0 plans unless the main thread is implementing.
Plans(s) == s = 0 /\ pc # "implementing"
Implements(s) == s = 0 /\ pc = "implementing"

\* A valid control line: it is appended, then the gate accepts it.
AgentReplies(s) ==
  /\ st[s] = "agent" /\ "valid" \in Replies /\ Move(s, "gate")
  /\ \/ /\ Plans(s) /\ planLine' \in {"continue", "done"} /\ newest' = "plan"
        /\ UNCHANGED <<implLine, verdict, lastReal>>
     \/ /\ Implements(s) /\ implLine' \in {"done", "failed"} /\ newest' = "implement"
        /\ UNCHANGED <<planLine, verdict, lastReal>>
     \/ /\ s > 0 /\ UNCHANGED lineVars
        /\ \E p \in BOOLEAN :
             LET v == [pass |-> p, ver |-> ver, from |-> closed + 1]
             IN  /\ verdict' = [verdict EXCEPT ![s] = v]
                 /\ lastReal' = [lastReal EXCEPT ![s] = v]
  /\ UNCHANGED <<rowVars, running, version, closed, last, gen, mainVars, tries, late>>

StepPasses(s) ==
  /\ st[s] = "gate" /\ Move(s, "done") /\ CloseRow(s)
  /\ UNCHANGED <<rowVars, version, journalVars, gen, mainVars, tries, late>>

\* A reply the gate rejects: its line, if it has one, is in the journal already.
AgentRejected(s) ==
  /\ st[s] = "agent" /\ "malformed" \in Replies
  /\ Move(s, IF tries[s] < MaxRetries THEN "again" ELSE "exhaust")
  /\ \/ UNCHANGED lineVars
     \/ Plans(s) /\ planLine' = "bad" /\ newest' = "plan" /\ UNCHANGED implLine
     \/ Implements(s) /\ implLine' = "bad" /\ newest' = "implement" /\ UNCHANGED planLine
  /\ UNCHANGED <<rowVars, running, version, closed, verdict, last, lastReal, gen,
                 mainVars, tries, late>>

\* MUTANT: the status is read only when the step starts.
RetryUnchecked(s) ==
  /\ st[s] = "again" /\ Move(s, "ready") /\ tries' = [tries EXCEPT ![s] = @ + 1]
  /\ UNCHANGED <<rowVars, running, version, journalVars, gen, mainVars, late>>

\* No retry is spent on a stopped loop: its row is closed instead.
StepRetries(s) ==
  /\ st[s] = "again"
  /\ IF Stopped THEN Move(s, "stopped") /\ CloseRow(s) /\ UNCHANGED tries
     ELSE /\ Move(s, "ready") /\ tries' = [tries EXCEPT ![s] = @ + 1]
          /\ UNCHANGED running
  /\ UNCHANGED <<rowVars, version, journalVars, gen, mainVars, late>>

StepExhausts(s) ==
  /\ st[s] = "exhaust" /\ Move(s, "exhausted") /\ CloseRow(s)
  /\ UNCHANGED <<rowVars, version, journalVars, gen, mainVars, tries, late>>

\* A usage limit: the step's row is closed, then the loop is stopped for it.
AgentHitsLimit(s) ==
  /\ st[s] = "agent" /\ "usage_limit" \in Replies
  /\ Move(s, "limit") /\ CloseRow(s)
  /\ UNCHANGED <<rowVars, version, journalVars, gen, mainVars, tries, late>>

LimitStopsLoop(s) ==
  /\ st[s] = "limit" /\ Move(s, "stopped")
  /\ loopStatus' = "stopped" /\ stopReason' = "usage_limit" /\ UNCHANGED owner
  /\ UNCHANGED <<running, version, journalVars, gen, mainVars, tries, late>>

\* harness.run raises: nobody closes the step's row.
AgentRaises(s) ==
  /\ st[s] = "agent" /\ "raises" \in Replies /\ Move(s, "raised")
  /\ UNCHANGED <<StepVars, tries, late>>

-----------------------------------------------------------------------------
(* The end of a run.                                                       *)

Failing == {s \in Slot : st[s] \in Ended \ {"done"}}
Settled == \A s \in Slot : st[s] \in Ended \cup {"idle"}

\* MUTANT: an exhausted step fails the loop, whatever happened beside it.
StepsFailAlways ==
  /\ Settled /\ Failing # {}
  /\ FinishAs(IF st[Min(Failing)] = "stopped" THEN "stopped" ELSE "failed")
  /\ Dispatch({})
  /\ UNCHANGED <<rowVars, running, version, journalVars, gen, ver, cap, resume,
                 replans, late>>

\* The pool has drained: the exception of the first step that did not end well
\* ends the run. An exhausted gate leaves a loop STOPPED that was stopped.
StepsFail ==
  /\ Settled /\ Failing # {}
  /\ LET how == st[Min(Failing)]
     IN  FinishAs(IF how = "stopped" \/ (how = "exhausted" /\ Stopped)
                  THEN "stopped" ELSE "failed")
  /\ Dispatch({})
  /\ UNCHANGED <<rowVars, running, version, journalVars, gen, ver, cap, resume,
                 replans, late>>

\* The last write is unconditional.
FinishLoop ==
  /\ pc = "finish" /\ Goto("exit")
  /\ loopStatus' = res /\ UNCHANGED <<owner, stopReason>>
  /\ UNCHANGED <<running, version, journalVars, gen, ver, cap, resume, replans,
                 res, threadVars>>

\* The process is gone, and what it held in memory.
Gone ==
  /\ pc' = "off" /\ ver' = 1 /\ cap' = 1 /\ resume' = {} /\ replans' = 0
  /\ res' = "failed" /\ Dispatch({}) /\ late' = NoneLate

ExitLoop ==
  /\ pc = "exit" /\ Gone
  /\ UNCHANGED <<rowVars, running, version, journalVars, gen>>

MainStep ==
  \/ LoadLoop \/ ClearSteps \/ TakeOver
  \/ NextIteration \/ StartPlan \/ Planned \/ StartImplement \/ Implemented
  \/ StartEvaluate \/ Evaluated \/ Settle \/ CarryPass \/ CloseCheck
  \/ CloseIteration \/ StepsFail \/ FinishLoop \/ ExitLoop

ThreadStep(s) ==
  \/ StepCheck(s) \/ LaunchAgent(s) \/ AgentReplies(s) \/ StepPasses(s)
  \/ AgentRejected(s) \/ StepRetries(s) \/ StepExhausts(s)
  \/ AgentHitsLimit(s) \/ LimitStopsLoop(s) \/ AgentRaises(s)

EngineTypeOK ==
  /\ loopStatus \in Status /\ owner \in 0..MaxSpawns
  /\ stopReason \in {"none", "usage_limit"}
  /\ running \subseteq (1..MaxSpawns) \X Slot
  /\ version \in Version /\ closed \in 0..MaxIteration
  /\ planLine \in {"none", "bad", "continue", "done"}
  /\ implLine \in {"none", "bad", "failed", "done"}
  /\ newest \in {"none", "plan", "implement"}
  /\ verdict \in [Dimension -> Verdict] /\ last \in [Dimension -> Verdict]
  /\ lastReal \in [Dimension -> Verdict]
  /\ gen \in 0..MaxSpawns /\ pc \in PC /\ ver \in Version /\ cap \in 1..MaxIteration
  /\ resume \subseteq {"plan", "implement"} /\ replans \in 0..MaxReplans
  /\ res \in Status
  /\ st \in [Slot -> StepPC] /\ tries \in [Slot -> 0..MaxRetries] /\ late \in [Slot -> Nat]
=============================================================================
