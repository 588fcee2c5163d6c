------------------------------ MODULE LoopRows ------------------------------
(***************************************************************************)
(* What a loop's views show, and when it is written: the loop's status and *)
(* whether its completed_at is of this run, one loop_steps row per step in *)
(* the order they began, the journal's lines, and one agent_runs row per   *)
(* agent call.  The engine of LoopEngine, seen by what it writes           *)
(* (orchestration/loop_engine.py, storage/loop_store.py); beside it a stop *)
(* and a load, which mark the loop and then its rows, whatever they are    *)
(* when they are marked.                                                   *)
(*                                                                         *)
(* LoopEngine has the races inside one takeover, the patches, and the      *)
(* implements that fail and are planned again; here a loop is started when *)
(* no engine of it lives and no stop or load of it is under way, and every *)
(* finished implement is done.                                             *)
(***************************************************************************)
EXTENDS Integers, Sequences, FiniteSets

CONSTANTS
  NDims,         \* dimensions of the spec
  MaxIterations, \* max_iterations of the spec
  MaxConcurrent, \* evaluate.max_concurrent
  MaxRetries,    \* LoopEngine.MAX_RETRIES
  Replies(_, _), \* how an agent call of a step type may end, in a slot
  Fresh,         \* a loop may be new
  FirstVerdicts, \* verdicts of a first iteration some loop has behind it
  MaxRows,       \* bound: rows of loop_steps beyond those the loop begins with
  MaxRuns,       \* bound: how often the loop is started
  MaxStops       \* bound: stop commands

Dimension == 1..NDims
Slot == 0..NDims

ASSUME LoopRowsAssumption ==
  /\ NDims \in Nat \ {0} /\ MaxIterations \in Nat \ {0} /\ MaxConcurrent \in Nat \ {0}
  /\ MaxRetries \in Nat /\ MaxRows \in Nat /\ MaxRuns \in Nat /\ MaxStops \in Nat
  /\ Fresh \in BOOLEAN
  /\ FirstVerdicts \subseteq [Dimension -> {"pass", "fail"}]
  /\ \A type \in {"plan", "implement", "evaluate"}, s \in Slot :
       Replies(type, s) \subseteq [gate : {"valid", "rejected", "limit", "raises"},
                                 says : {"continue", "done", "pass", "fail", "nothing"},
                                 tokens : {"reported", "unknown"}]
  \* a gate accepts a parsed line only, and that line is in the journal by then
  /\ \A type \in {"plan", "implement", "evaluate"}, s \in Slot :
       \A r \in Replies(type, s) : r.gate = "valid" => r.says # "nothing"

VARIABLES
  loop,    \* loops: status, whether a usage limit stopped it, whose completed_at it has
           \* (past: the rows the loop begins with)
  rows,    \* loop_steps in the order they began: iteration, type, dimension, status
  journal, \* the journal's lines
  runs,    \* agent_runs, by row: each open or how it ended
  eng,     \* the engine: where its main thread is, its iteration, its steps
  stop,    \* `mini loop stop`: where it is
  seen     \* a load that found this run RUNNING may still have to mark it, or its rows

rowVars == <<loop, rows, journal, runs, eng>>
commandVars == <<stop, seen>>

NoStep == [at |-> "idle", row |-> 0, k |-> 0, reply |-> <<>>]
Off == [at |-> "off", iter |-> 0, runs |-> 0, res |-> "failed", step |-> [s \in Slot |-> NoStep]]

\* A new loop.
NewLoop ==
  /\ loop = [status |-> "pending", limited |-> FALSE, completed |-> "never", past |-> 0]
  /\ rows = <<>> /\ journal = <<>> /\ runs = <<>> /\ eng = Off

\* A loop whose engine died after its first iteration.
LaterLoop(verdicts) ==
  LET type(i) == CASE i = 1 -> "plan" [] i = 2 -> "implement" [] OTHER -> "evaluate"
      says(i) == CASE i = 1 -> "continue" [] i = 2 -> "done" [] OTHER -> verdicts[i - 2]
      step == 1..(NDims + 2)
      dim(i) == IF i > 2 THEN i - 2 ELSE 0
  IN  /\ loop = [status |-> "failed", limited |-> FALSE, completed |-> "this run",
                  past |-> NDims + 2]
      /\ rows = [i \in step |-> [iter |-> 1, type |-> type(i), dim |-> dim(i),
                                  status |-> "completed"]]
      /\ journal = [i \in step |-> [type |-> type(i), iter |-> 1, dim |-> dim(i), row |-> i,
                                     gate |-> "valid", says |-> says(i), from |-> 1]]
                   \o << [type |-> "commit", iter |-> 1, dim |-> 0, row |-> 0,
                          gate |-> "valid", says |-> "nothing", from |-> 1] >>
      /\ runs = [i \in step |-> <<"reported">>]
      /\ eng = Off

RowsInit ==
  /\ (Fresh /\ NewLoop) \/ \E verdicts \in FirstVerdicts : LaterLoop(verdicts)
  /\ stop = [at |-> "idle", stops |-> 0] /\ seen = "nothing"

-----------------------------------------------------------------------------
(* What the engine reads from the journal.                                 *)

Lines(type) == {i \in DOMAIN journal : journal[i].type = type}
Closed == Cardinality(Lines("commit"))

LastOf(is) == CHOOSE i \in is : \A j \in is : j <= i

\* The control of the open iteration's last line of a kind, if that is valid.
Resumed(type) ==
  LET is == {i \in Lines(type) : journal[i].iter = eng.iter}
  IN  IF is # {} /\ journal[LastOf(is)].gate = "valid" THEN journal[LastOf(is)].says ELSE "none"

\* _last_valid_evals: a dimension's last valid evaluate record in some iterations.
ValidEvals(d, iters) ==
  {i \in Lines("evaluate") : /\ journal[i].dim = d /\ journal[i].iter \in iters
                             /\ journal[i].gate = "valid"}

Judged == {d \in Dimension : ValidEvals(d, {eng.iter}) # {}}
Passed(d, iters) ==
  ValidEvals(d, iters) # {} /\ journal[LastOf(ValidEvals(d, iters))].says = "pass"

\* select: failed.
Carried == {d \in Dimension : Passed(d, 1..(eng.iter - 1))}
CarriedFrom(d) == journal[LastOf(ValidEvals(d, 1..(eng.iter - 1)))].from

-----------------------------------------------------------------------------
(* The writes.                                                             *)

Stopped == loop.status = "stopped"
Goto(at) == eng' = [eng EXCEPT !.at = at]
FinishAs(s) == eng' = [eng EXCEPT !.at = "finish", !.res = s]
MoveTo(s, step) == eng' = [eng EXCEPT !.step[s] = step]

Dispatch(S, at) ==
  eng' = [eng EXCEPT !.at = at, !.step = [s \in Slot |->
            IF s \in S THEN [NoStep EXCEPT !.at = "queued"] ELSE NoStep]]

MayAddRow == Len(rows) < loop.past + MaxRows

AddRow(type, d, s) ==
  /\ rows' = Append(rows, [iter |-> eng.iter, type |-> type, dim |-> d, status |-> s])
  /\ runs' = Append(runs, <<>>)
SetRow(i, s) == rows' = [rows EXCEPT ![i].status = s]

\* stop_running_loop_steps
StopRows ==
  rows' = [i \in DOMAIN rows |-> IF rows[i].status = "running"
             THEN [rows[i] EXCEPT !.status = "stopped"] ELSE rows[i]]

\* Only the engine's last write and a reconcile set completed_at; a run that
\* begins leaves the one before it there.
EndLoop(s) == loop' = [loop EXCEPT !.status = s, !.completed = "this run"]

StepType(s) == IF s > 0 THEN "evaluate" ELSE IF eng.at = "planning" THEN "plan" ELSE "implement"

-----------------------------------------------------------------------------
(* The main thread.                                                        *)

\* (Nobody starts a loop while he stops it; and a load takes milliseconds: none spans
\* the end of a run, another load's FAILED and the next start.)
StartRun ==
  /\ eng.at = "off" /\ eng.runs < MaxRuns
  /\ stop.at = "idle" /\ seen # "rows"
  /\ loop.status \in {"pending", "failed", "stopped"}
  /\ StopRows
  /\ loop' = [loop EXCEPT !.status = "running", !.limited = FALSE,
                          !.completed = IF @ = "never" THEN @ ELSE "earlier run"]
  /\ eng' = [Off EXCEPT !.at = "top", !.iter = Closed, !.runs = eng.runs + 1]
  /\ seen' = "run" /\ UNCHANGED <<journal, runs, stop>>

\* A stop is heeded between the stages; only what the journal holds is resumed.
NextIteration ==
  /\ eng.at = "top"
  /\ IF Stopped THEN FinishAs("stopped")
                ELSE eng' = [eng EXCEPT !.at = "plan", !.iter = eng.iter + 1]
  /\ UNCHANGED <<loop, rows, journal, runs>>

Plan ==
  /\ eng.at = "plan"
  /\ CASE Stopped -> FinishAs("stopped")
       [] ~Stopped /\ Resumed("plan") = "done" -> FinishAs("completed")
       [] ~Stopped /\ Resumed("plan") = "continue" -> Goto("implement")
       [] OTHER -> Dispatch({0}, "planning")
  /\ UNCHANGED <<loop, rows, journal, runs>>

Implement ==
  /\ eng.at = "implement"
  /\ CASE Stopped -> FinishAs("stopped")
       [] ~Stopped /\ Resumed("implement") # "none" -> Goto("evaluate")
       [] OTHER -> Dispatch({0}, "implementing")
  /\ UNCHANGED <<loop, rows, journal, runs>>

Evaluate ==
  /\ eng.at = "evaluate"
  /\ IF Stopped THEN FinishAs("stopped")
                ELSE Dispatch(Dimension \ (Judged \cup Carried), "evaluating")
  /\ UNCHANGED <<loop, rows, journal, runs>>

AllDone == \A s \in Slot : eng.step[s].at \in {"idle", "done"}

StageDone ==
  /\ AllDone /\ eng.at \in {"planning", "implementing", "evaluating", "rechecking"}
  /\ CASE eng.at = "planning" -> IF Resumed("plan") = "done" THEN FinishAs("completed")
                                                             ELSE Dispatch({}, "implement")
       [] eng.at = "implementing" -> Dispatch({}, "evaluate")
       [] eng.at = "evaluating" -> Dispatch({}, IF Carried # {} THEN "settle" ELSE "close")
       [] OTHER -> Dispatch({}, "close")
  /\ UNCHANGED <<loop, rows, journal, runs>>

\* Everything that ran passed: the carried passes are checked again; else they
\* are recorded.
Settle ==
  /\ eng.at = "settle"
  /\ CASE Stopped -> FinishAs("stopped")
       [] ~Stopped /\ (\A d \in Dimension \ Carried : Passed(d, {eng.iter})) ->
            Dispatch(Carried \ Judged, "rechecking")
       [] OTHER -> Goto("carry")
  /\ UNCHANGED <<loop, rows, journal, runs>>

\* One row, COMPLETED as it is created, and then its record.
CarryRow ==
  /\ eng.at = "carry" /\ MayAddRow
  /\ \E d \in Carried \ Judged :
       /\ \A e \in Carried \ Judged : d <= e
       /\ AddRow("evaluate", d, "completed")
  /\ Goto("record") /\ UNCHANGED <<loop, journal>>

CarryRecord ==
  /\ eng.at = "record"
  /\ LET d == rows[Len(rows)].dim
     IN  journal' = Append(journal, [type |-> "evaluate", iter |-> eng.iter, dim |-> d,
           row |-> Len(rows), gate |-> "valid", says |-> "pass", from |-> CarriedFrom(d)])
  /\ Goto("carry") /\ UNCHANGED <<loop, rows, runs>>

Close ==
  /\ eng.at = "close" \/ (eng.at = "carry" /\ Carried \subseteq Judged)
  /\ IF Stopped THEN FinishAs("stopped") /\ UNCHANGED journal
     ELSE /\ journal' = Append(journal, [type |-> "commit", iter |-> eng.iter, dim |-> 0,
               row |-> 0, gate |-> "valid", says |-> "nothing", from |-> eng.iter])
          /\ IF eng.iter >= MaxIterations THEN FinishAs("failed") ELSE Goto("top")
  /\ UNCHANGED <<loop, rows, runs>>

\* MUTANT: the loop fails at once, beside the evaluators that still run.
StepsFailAtOnce ==
  /\ eng.at # "over" /\ \E s \in Slot : eng.step[s].at \in {"failed", "raised"}
  /\ EndLoop("failed") /\ Goto("over")
  /\ UNCHANGED <<rows, journal, runs>>

\* The first step that did not end well, once all have ended.
StepsFail ==
  LET ends == {eng.step[s].at : s \in Slot}
      bad == {s \in Slot : eng.step[s].at \in {"failed", "stopped", "raised"}}
  IN  /\ bad # {} /\ ends \subseteq {"idle", "done", "failed", "stopped", "raised"}
      /\ \E s \in bad : /\ \A r \in bad : s <= r
                        /\ LET how == eng.step[s].at IN
                           FinishAs(IF how = "stopped" \/ (how = "failed" /\ Stopped)
                                    THEN "stopped" ELSE "failed")
      /\ UNCHANGED <<loop, rows, journal, runs>>

Finish ==
  /\ eng.at = "finish" /\ EndLoop(eng.res)
  /\ eng' = [Off EXCEPT !.runs = eng.runs]
  /\ UNCHANGED <<rows, journal, runs>>

-----------------------------------------------------------------------------
(* _run_step: the step of one slot.                                        *)

\* The pool takes the steps in their order, MaxConcurrent at once.
Working == {s \in Slot : eng.step[s].at \in {"call", "agent", "limit", "replied", "gated", "retry"}}
Before(s) == {r \in Slot : r < s /\ eng.step[r].at = "queued"}

OpenStep(s) ==
  /\ eng.step[s].at = "queued" /\ Cardinality(Working \cup Before(s)) < MaxConcurrent
  /\ IF Stopped THEN MoveTo(s, [eng.step[s] EXCEPT !.at = "stopped"]) /\ UNCHANGED <<rows, runs>>
     ELSE /\ MayAddRow
          /\ AddRow(StepType(s), s, "running")
          /\ MoveTo(s, [eng.step[s] EXCEPT !.at = "call", !.row = Len(rows) + 1])
  /\ UNCHANGED <<loop, journal>>

StartAgentRun(s) ==
  /\ eng.step[s].at = "call"
  /\ runs' = [runs EXCEPT ![eng.step[s].row] = Append(@, "open")]
  /\ MoveTo(s, [eng.step[s] EXCEPT !.at = "agent"])
  /\ UNCHANGED <<loop, rows, journal>>

FinishAgentRun(s) ==
  /\ eng.step[s].at = "agent"
  /\ \E r \in Replies(StepType(s), s) :
       /\ runs' = [runs EXCEPT ![eng.step[s].row] = [@ EXCEPT ![Len(@)] = r.tokens]]
       /\ MoveTo(s, [eng.step[s] EXCEPT !.reply = r,
                      !.at = CASE r.gate = "limit" -> "limit" [] r.gate = "raises" -> "raised"
                               [] OTHER -> "replied"])
  /\ UNCHANGED <<loop, rows, journal>>

\* The row, then the loop, under one lock.
HitLimit(s) ==
  /\ eng.step[s].at = "limit"
  /\ SetRow(eng.step[s].row, "stopped")
  /\ loop' = [loop EXCEPT !.status = "stopped", !.limited = TRUE]
  /\ MoveTo(s, [eng.step[s] EXCEPT !.at = "stopped"])
  /\ UNCHANGED <<journal, runs>>

\* A line is journaled before it is gated, also one the gate rejects.
JournalLine(s) ==
  /\ eng.step[s].at = "replied"
  /\ LET r == eng.step[s].reply IN
     journal' = IF r.says = "nothing" THEN journal
                ELSE Append(journal, [type |-> StepType(s), iter |-> eng.iter, dim |-> s,
                       row |-> eng.step[s].row, gate |-> r.gate, says |-> r.says,
                       from |-> eng.iter])
  /\ MoveTo(s, [eng.step[s] EXCEPT !.at = "gated"])
  /\ UNCHANGED <<loop, rows, runs>>

Gate(s) ==
  /\ eng.step[s].at = "gated"
  /\ LET end == IF eng.step[s].reply.gate = "valid" THEN "completed" ELSE "failed"
         retries == end = "failed" /\ eng.step[s].k < MaxRetries
     IN  IF retries
         THEN /\ MoveTo(s, [eng.step[s] EXCEPT !.at = "retry", !.k = @ + 1])
              /\ UNCHANGED rows
         ELSE /\ SetRow(eng.step[s].row, end)
              /\ MoveTo(s, [eng.step[s] EXCEPT !.at = IF end = "completed" THEN "done" ELSE end])
  /\ UNCHANGED <<loop, journal, runs>>

\* No retry is spent on a stopped loop.
Retry(s) ==
  /\ eng.step[s].at = "retry"
  /\ IF Stopped THEN SetRow(eng.step[s].row, "stopped") ELSE UNCHANGED rows
  /\ MoveTo(s, [eng.step[s] EXCEPT !.at = IF Stopped THEN "stopped" ELSE "call"])
  /\ UNCHANGED <<loop, journal, runs>>

-----------------------------------------------------------------------------
(* The rest of the world.                                                  *)

\* The engine's process dies; at the end of a run it exits with the last write.
Killed ==
  /\ eng.at # "off" /\ eng' = [Off EXCEPT !.runs = eng.runs]
  /\ UNCHANGED <<loop, rows, journal, runs>>

\* `mini loop stop` was accepted while the run's engine was alive, exiting included.
\* It marks the loop here, whatever the row says and the engine did since.
StopMarksLoop ==
  /\ stop.at = "idle" /\ stop.stops < MaxStops /\ eng.runs > 0
  /\ loop' = [loop EXCEPT !.status = "stopped"]
  /\ stop' = [at |-> "rows", stops |-> stop.stops + 1]
  /\ UNCHANGED <<rows, journal, runs, eng, seen>>

\* Then its steps that run by now; then the engine may be Killed, or not.
StopMarksRows ==
  /\ stop.at = "rows" /\ StopRows
  /\ stop' = [stop EXCEPT !.at = "idle"]
  /\ UNCHANGED <<loop, journal, runs, eng, seen>>

\* Any command's load found the run RUNNING at some time and asks for its engine
\* here: _reconcile marks the loop FAILED, whatever the row says by now.  (One load of a
\* run that is so late: each writes the same.)
Reconcile ==
  /\ seen = "run" /\ eng.at = "off" /\ seen' = "rows"
  /\ EndLoop("failed") /\ UNCHANGED <<rows, journal, runs, eng, stop>>

ReconcileRows ==
  /\ seen = "rows" /\ seen' = "nothing"
  /\ StopRows /\ UNCHANGED <<loop, journal, runs, eng, stop>>

Command == StopMarksLoop \/ StopMarksRows \/ Reconcile \/ ReconcileRows

Engine ==
  \/ NextIteration \/ Plan \/ Implement \/ Evaluate \/ StageDone \/ Settle
  \/ CarryRow \/ CarryRecord \/ Close \/ StepsFail \/ Finish
  \/ \E s \in Slot : \/ OpenStep(s) \/ StartAgentRun(s) \/ FinishAgentRun(s) \/ HitLimit(s)
                     \/ JournalLine(s) \/ Gate(s) \/ Retry(s)
=============================================================================
