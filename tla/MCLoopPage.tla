----------------------------- MODULE MCLoopPage -----------------------------
(* Agents for TLC: how the calls of LoopPage's loops end.                  *)
EXTENDS LoopPage

Reply(gate, says, tokens) == [gate |-> gate, says |-> says, tokens |-> tokens]

\* Implements that raise; a first evaluator that passes, fails or hits the usage
\* limit, and others that fail, in the end or after a rejected line that said "pass".
Agents(type, s) ==
  CASE type = "plan" -> {Reply("valid", "continue", "reported"), Reply("valid", "done", "reported")}
    [] type = "implement" -> {Reply("valid", "done", "reported"), Reply("raises", "nothing", "unknown")}
    [] type = "evaluate" /\ s = 1 ->
         {Reply("valid", "pass", "reported"), Reply("valid", "fail", "reported"),
          Reply("limit", "nothing", "unknown")}
    [] OTHER -> {Reply("valid", "fail", "reported"), Reply("rejected", "pass", "unknown")}

FirstFailed == {[d \in Dimension |-> IF d = 1 THEN "fail" ELSE "pass"]}
NoVerdicts == {}

\* Bound: a new loop runs once, one that has an iteration behind it MaxRuns times.
NewRunsOnce == loop.past = 0 => eng.runs <= 1
=============================================================================
