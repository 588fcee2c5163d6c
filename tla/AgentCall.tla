----------------------------- MODULE AgentCall -----------------------------
(***************************************************************************)
(* One harness.run (agents/harness.py): an agent CLI as a child process,   *)
(* its three pipes, and the threads of the engine around it.               *)
(*                                                                         *)
(*   main thread   _run_jsonl_subprocess (pc)                              *)
(*   feeder        _feed_subprocess_stdin                                  *)
(*   reader        _read_jsonl_stdout, which hands each event to the       *)
(*                 capture of the harness                                  *)
(*   drain         _drain_stderr                                           *)
(*                                                                         *)
(* The child writes and reads in the order it likes and blocks on a pipe   *)
(* that is full or empty.  A process it started may hold its pipes open    *)
(* after it is gone (helper).  The child is external: its events are those *)
(* the captures of the source tell apart.                                  *)
(***************************************************************************)
EXTENDS Naturals, Sequences, SequencesExt

CONSTANTS
  PipeSize,  \* what a pipe holds
  MaxEvents, \* bound: events on stdout
  MaxErr,    \* bound: what the child writes to stderr
  PromptSize,\* what the child reads from stdin
  SinceLast  \* the CLI reports model_usage_since_last_result

ASSUME CallAssumption ==
  /\ PipeSize \in Nat \ {0} /\ MaxEvents \in Nat
  /\ MaxErr \in Nat /\ PromptSize \in Nat /\ SinceLast \in BOOLEAN

VARIABLES
  cli,     \* the harness of the call
  timed,   \* the call has a timeout
  pc,      \* where the main thread is
  proc,    \* the child: "none", "running", "exited"
  code,    \* its returncode: "none", "ok" (0), "bad"
  want,    \* what the child is about to do
  helper,  \* a process of the child that holds the pipes: "stuck" never ends
  said,    \* the events the child wrote to stdout
  read,    \* how many of them the reader consumed
  broke,   \* the reader ended with an exception (reader_errors)
  err,     \* what the child wrote to stderr, and
  drained, \* how much of it the drain took
  fed,     \* what the feeder wrote to stdin, and
  taken,   \* how much of it the child read
  total,   \* the session's token total, as the child would report it
  result   \* the HarnessResult, and (upto, history) how much it was made from

childVars == <<proc, code, want, helper, said, err, taken, total>>
threadVars == <<read, broke, drained, fed>>
callVars == <<cli, timed, pc, childVars, threadVars, result>>

\* Assistant text is prose, ends with a valid or an invalid control line, or is the
\* usage-limit message; "result" and "limited" are Claude Code's result events;
\* "error" is Codex's error or turn.failed; "odd" is JSON that consume raises on.
Texts == {"prose", "control", "invalid", "limit"}
Results == {"result", "limited"}
Event == Texts \cup Results \cup {"error", "odd"}
Line == {"none", "control", "invalid"}
NoResult == [exit |-> "none", limit |-> FALSE, line |-> "none", tokens |-> 0, upto |-> 0]
CallPC == {"off", "launch", "join", "check", "kill", "rejoin", "late", "wait",
           "joinerr", "answer", "return"}

\* What a call starts from: no child, empty pipes, a new capture.
CallInit ==
  /\ proc = "none" /\ code = "none" /\ want = "think" /\ helper = "none"
  /\ said = <<>> /\ read = 0 /\ broke = FALSE /\ err = 0 /\ drained = 0
  /\ fed = 0 /\ taken = 0 /\ result = NoResult

\* What is left of it then is no call's any more.
CallEnds ==
  /\ proc' = "none" /\ code' = "none" /\ want' = "think" /\ helper' = "none"
  /\ said' = <<>> /\ read' = 0 /\ broke' = FALSE /\ err' = 0 /\ drained' = 0
  /\ fed' = 0 /\ taken' = 0 /\ result' = NoResult

-----------------------------------------------------------------------------
(* What a capture makes of the events it consumed.                         *)

Seen == SubSeq(said, 1, read)
Has(s, e) == e \in ToSet(s)
LastOf(s, E) ==
  LET at == {i \in DOMAIN s : s[i] \in E} IN IF at = {} THEN "none" ELSE s[Max(at)]
LastText(s) == LastOf(s, Texts)

\* MUTANT: only the result event is looked at.
ResultLimit(s) == cli = "claude" /\ Has(s, "limited")

\* _ClaudeCapture.usage_limit: the result event, else the last assistant chunk.
UsageLimit(s) == cli = "claude" /\ (Has(s, "limited") \/ LastText(s) = "limit")

\* MUTANT: the session's running total.
SessionTotal(s) == IF ToSet(s) \cap Results = {} THEN 0 ELSE total

\* _ClaudeCapture.tokens: one unit per call, or none without a result event.
Tokens(s) ==
  IF cli # "claude" \/ ToSet(s) \cap Results = {} THEN 0
  ELSE IF SinceLast THEN 1 ELSE total

\* The line extract_last_json finds in the output.  Codex and Pi return their last
\* message; Claude Code's chunks are joined, and a line that more text follows is
\* found only where that text starts a line of its own.
Lines(s) ==
  IF LastText(s) \in Line THEN {LastText(s)}
  ELSE IF cli # "claude" THEN {"none"} ELSE {"none", LastOf(s, Line)}

-----------------------------------------------------------------------------
(* The child (external).                                                   *)

PipesClosed == proc = "exited" /\ helper = "none"
Room(written, gone) == written - gone < PipeSize

\* What a CLI may write next: Claude Code ends with one result event, which repeats
\* its last message; only Codex writes errors.
MaySay(e) ==
  /\ Len(said) < MaxEvents
  /\ e = "odd" \/ e \in Texts \cup (IF cli = "claude" THEN Results
                                    ELSE IF cli = "codex" THEN {"error"} ELSE {})
  /\ ToSet(said) \cap Results = {}
  /\ e = "result" => LastText(said) # "limit"

Think ==
  /\ proc = "running" /\ want = "think"
  /\ \/ (\E e \in Event : MaySay(e)) /\ want' = "out"
     \/ err < MaxErr /\ want' = "err"
     \/ taken < PromptSize /\ want' = "in"
     \/ timed /\ want' = "hang"
  /\ UNCHANGED <<proc, code, helper, said, err, taken, total>>

Say ==
  /\ proc = "running" /\ want = "out" /\ Room(Len(said), read)
  /\ \E e \in Event :
       /\ MaySay(e) /\ said' = Append(said, e)
       /\ total' = IF e \in Results THEN total + 1 ELSE total
  /\ want' = "think" /\ UNCHANGED <<proc, code, helper, err, taken>>

Complain ==
  /\ proc = "running" /\ want = "err" /\ Room(err, drained)
  /\ err' = err + 1 /\ want' = "think"
  /\ UNCHANGED <<proc, code, helper, said, taken, total>>

TakePrompt ==
  /\ proc = "running" /\ want = "in" /\ taken < fed
  /\ taken' = taken + 1 /\ want' = "think"
  /\ UNCHANGED <<proc, code, helper, said, err, total>>

Exit ==
  /\ proc = "running" /\ want = "think"
  /\ proc' = "exited" /\ code' \in {"ok", "bad"}
  /\ UNCHANGED <<want, helper, said, err, taken, total>>

HelperEnds ==
  /\ proc = "exited" /\ helper = "alive" /\ helper' = "none"
  /\ UNCHANGED <<proc, code, want, said, err, taken, total>>

Child ==
  /\ Think \/ Say \/ Complain \/ TakePrompt \/ Exit \/ HelperEnds
  /\ UNCHANGED <<cli, timed, pc, threadVars, result>>

-----------------------------------------------------------------------------
(* The three helper threads.                                               *)

Started == pc \notin {"off", "launch"} /\ proc # "none"

\* A child that is gone breaks the pipe, and the feeder ends.
Feed ==
  /\ Started /\ proc = "running" /\ fed < PromptSize /\ Room(fed, taken)
  /\ fed' = fed + 1 /\ UNCHANGED <<cli, timed, pc, childVars, read, broke, drained, result>>

ReaderDone == broke \/ (PipesClosed /\ read = Len(said))

Read ==
  /\ Started /\ ~broke /\ read < Len(said)
  /\ read' = read + 1 /\ broke' = (said[read + 1] = "odd")
  /\ UNCHANGED <<cli, timed, pc, childVars, drained, fed, result>>

\* MUTANT: stderr is read only when stdout is at its end.
DrainLate ==
  /\ Started /\ drained < err /\ pc = "joinerr" /\ drained' = drained + 1
  /\ UNCHANGED <<cli, timed, pc, childVars, read, broke, fed, result>>

Drain ==
  /\ Started /\ drained < err /\ drained' = drained + 1
  /\ UNCHANGED <<cli, timed, pc, childVars, read, broke, fed, result>>

DrainDone == PipesClosed /\ drained = err

-----------------------------------------------------------------------------
(* The main thread.                                                        *)

Answer(exit) ==
  \E line \in Lines(Seen) :
    result' = [exit |-> exit, limit |-> UsageLimit(Seen), line |-> line,
               tokens |-> Tokens(Seen), upto |-> read]

Goto(l) == pc' = l /\ UNCHANGED <<cli, timed, childVars, threadVars, result>>

Launch ==
  /\ pc = "launch" /\ pc' = "join" /\ proc' = "running"
  /\ UNCHANGED <<cli, timed, code, want, helper, said, err, taken, total, threadVars, result>>

\* Popen raised: there is no child and nothing was captured.
LaunchFails ==
  /\ pc = "launch" /\ pc' = "return" /\ result' = [NoResult EXCEPT !.exit = "agent_error"]
  /\ UNCHANGED <<cli, timed, childVars, threadVars>>

JoinReader == pc = "join" /\ (ReaderDone \/ timed) /\ Goto("check")

\* MUTANT: a join that returned is taken for a reader that ended.
NeverAlive == FALSE
IsAlive == ~ReaderDone

Check == pc = "check" /\ Goto(IF IsAlive THEN "kill" ELSE "wait")

Kill(next) ==
  /\ pc' = next /\ proc' = "exited"
  /\ code' = IF proc = "running" THEN "bad" ELSE code
  /\ UNCHANGED <<cli, timed, want, helper, said, err, taken, total, threadVars, result>>

KillLate == pc = "kill" /\ Kill("rejoin")

\* A helper holds the pipe, or the reader is slow: either way after 10 s.
Rejoin == pc = "rejoin" /\ Goto("late")

AnswerLate ==
  /\ pc = "late" /\ pc' = "return" /\ Answer("timeout")
  /\ UNCHANGED <<cli, timed, childVars, threadVars>>

WaitExited == pc = "wait" /\ proc = "exited" /\ Goto("joinerr")

\* MUTANT: the wait gives up on the child and leaves it running.
LeaveRunning == pc = "wait" /\ proc = "running" /\ Goto("joinerr")

\* TimeoutExpired: the child is killed.
WaitExpires == pc = "wait" /\ proc = "running" /\ Kill("joinerr")

\* Joined, or 10 s went by.
JoinDrain == pc = "joinerr" /\ Goto("answer")

ExitReason ==
  IF broke THEN "agent_error"
  ELSE IF cli = "codex" /\ Has(Seen, "error") THEN "agent_error"
  ELSE IF code = "ok" THEN "success" ELSE "agent_error"

AnswerEnded ==
  /\ pc = "answer" /\ pc' = "return" /\ Answer(ExitReason)
  /\ UNCHANGED <<cli, timed, childVars, threadVars>>

Main ==
  \/ Launch \/ LaunchFails \/ JoinReader \/ Check \/ KillLate \/ Rejoin \/ AnswerLate
  \/ WaitExited \/ WaitExpires \/ JoinDrain \/ AnswerEnded

CallNext == Main \/ Child \/ Feed \/ Read \/ Drain
=============================================================================
