----------------------------- MODULE AgentStep -----------------------------
(***************************************************************************)
(* What a caller does with the calls of one agent: a step of a loop        *)
(* (LoopEngine._run_step) or the attempts of a task (TaskExecutor,         *)
(* _invoke_agent), over the calls of AgentCall.  JobEngine and LoopEngine  *)
(* model the rest of these two handlers (rows, hooks, handoffs, journal)   *)
(* and take the outcome of a call as given; here the outcome is computed   *)
(* from what the agent did.                                                *)
(***************************************************************************)
EXTENDS AgentCall

CONSTANTS
  Cli,       \* harnesses: "claude", "codex", "pi"
  MaxRetries \* MAX_RETRIES of LoopEngine or TaskExecutor

ASSUME StepAssumption ==
  Cli \subseteq {"claude", "codex", "pi"} /\ MaxRetries \in Nat

VARIABLES
  kind,    \* "loop" or "job"
  phase,   \* where the caller is
  attempt, \* index of the call
  session, \* id of the latest full run's session, 0 for none
  resume,  \* the next call resumes it and asks for the control line
  halted,  \* the loop's row is STOPPED
  booked,  \* sum of the tokens of the finished agent_runs rows
  ids,     \* history: sessions opened
  prev,    \* history: how the agent of the last call ended
  spent    \* history: token units the agents reported in events that were read

stepVars == <<kind, phase, attempt, session, resume, halted, booked, ids, prev, spent>>
vars == <<callVars, stepVars>>

Over == {"done", "failed", "stopped", "limited"}

Init ==
  /\ cli \in Cli /\ kind \in {"loop", "job"} /\ timed \in BOOLEAN
  /\ timed => kind = "job"
  /\ pc = "off" /\ CallInit /\ total = 0
  /\ phase = "begin" /\ attempt = 0 /\ session = 0 /\ resume = FALSE
  /\ halted = FALSE /\ booked = 0 /\ ids = 0 /\ prev = [limit |-> FALSE, clean |-> FALSE]
  /\ spent = 0

-----------------------------------------------------------------------------

\* A loop step reads the loop's row before its first call and before each retry.
Heed ==
  /\ phase = "begin" /\ kind = "loop" /\ halted /\ phase' = "stopped"
  /\ UNCHANGED <<callVars, kind, attempt, session, resume, halted, booked, ids, prev, spent>>

\* Only Claude Code has sessions to resume, and only a loop names them; a full run
\* opens a new one.
Supported == kind = "loop" /\ cli = "claude"

Call ==
  /\ phase = "begin" /\ (kind = "loop" => ~halted) /\ phase' = "called"
  /\ pc' = "launch" /\ UNCHANGED <<proc, code, want, said, err, taken, threadVars, result>>
  /\ helper' \in {"none", "alive"} \cup (IF timed THEN {"stuck"} ELSE {})
  /\ total' = IF resume THEN total ELSE 0
  /\ ids' = IF Supported /\ ~resume THEN ids + 1 ELSE ids
  /\ session' = IF Supported THEN ids' ELSE 0
  /\ UNCHANGED <<cli, timed, kind, attempt, resume, halted, booked, prev, spent>>

\* MUTANT: a run that failed is resumed too.
AlwaysResume == Supported
ResumeNext == Supported /\ result.exit = "success"

MayRetry == attempt < MaxRetries

\* The gate of a loop step wants a valid control line; a job wants success.
Accepted == IF kind = "loop" THEN result.line = "control" ELSE result.exit = "success"

\* harness.run returned: the agent_runs row is finished, then the usage limit is
\* looked at before anything else.
Judge ==
  /\ phase = "called" /\ pc = "return" /\ pc' = "off" /\ CallEnds
  /\ booked' = booked + result.tokens
  /\ spent' = spent + Cardinality({i \in 1..result.upto : said[i] \in Results})
  /\ prev' = [limit |-> /\ result.upto > 0 /\ cli = "claude"
                        /\ said[result.upto] \in {"limit", "limited"},
              clean |-> proc = "exited" /\ code = "ok" /\ read = Len(said)]
  /\ IF result.limit THEN phase' = "limited" /\ UNCHANGED <<attempt, resume>>
     ELSE IF Accepted THEN phase' = "done" /\ UNCHANGED <<attempt, resume>>
     ELSE IF MayRetry
     THEN phase' = "begin" /\ attempt' = attempt + 1 /\ resume' = ResumeNext
     ELSE phase' = "failed" /\ UNCHANGED <<attempt, resume>>
  /\ halted' = (halted \/ (kind = "loop" /\ result.limit))
  /\ total' = total /\ UNCHANGED <<cli, timed, kind, session, ids>>

\* `mini loop stop`.  No call looks at the row, so a stop during one is a stop after it.
StopArrives ==
  /\ kind = "loop" /\ ~halted /\ phase = "begin" /\ halted' = TRUE
  /\ UNCHANGED <<callVars, kind, phase, attempt, session, resume, booked, ids, prev, spent>>

Step == Heed \/ Call \/ Judge
Next == Step \/ StopArrives \/ (CallNext /\ UNCHANGED stepVars)

Spec == Init /\ [][Next]_vars

\* The threads run, a child that does not hang goes on, and so does the main thread.
FairSpec ==
  /\ Spec /\ WF_vars(Step)
  /\ WF_vars(Main /\ UNCHANGED stepVars) /\ WF_vars(Child /\ UNCHANGED stepVars)
  /\ WF_vars(Feed /\ UNCHANGED stepVars) /\ WF_vars(Read /\ UNCHANGED stepVars)
  /\ WF_vars(Drain /\ UNCHANGED stepVars)

-----------------------------------------------------------------------------
(* Properties.                                                             *)

\* TypeOK: the variables keep their types; no call is made beyond the retries.
TypeOK ==
  /\ cli \in Cli /\ timed \in BOOLEAN /\ pc \in CallPC
  /\ proc \in {"none", "running", "exited"} /\ code \in {"none", "ok", "bad"}
  /\ want \in {"think", "out", "err", "in", "hang"}
  /\ helper \in {"none", "alive", "stuck"} /\ said \in Seq(Event) /\ read \in 0..Len(said)
  /\ broke \in BOOLEAN /\ err \in 0..MaxErr /\ drained \in 0..err
  /\ fed \in 0..PromptSize /\ taken \in 0..fed /\ total \in Nat
  /\ result \in [exit : {"none", "success", "timeout", "agent_error"},
                 limit : BOOLEAN, line : Line, tokens : Nat, upto : 0..MaxEvents]
  /\ kind \in {"loop", "job"} /\ phase \in {"begin", "called"} \cup Over
  /\ attempt \in 0..MaxRetries /\ session \in 0..ids /\ resume \in BOOLEAN
  /\ halted \in BOOLEAN /\ booked \in Nat /\ ids \in 0..(MaxRetries + 1)
  /\ prev \in [limit : BOOLEAN, clean : BOOLEAN] /\ spent \in Nat

\* DeadOnReturn: no agent runs beside the next attempt or the commit of its work:
\* whenever a call has returned, its child is gone, however it ended.
DeadOnReturn == pc = "return" => proc # "running"

\* SuccessWhole: a call succeeds only with all of the agent's output, of an agent that
\* ended by itself with exit code 0 and reported no error.
SuccessWhole ==
  result.exit = "success" =>
    /\ read = Len(said) /\ code = "ok" /\ PipesClosed
    /\ ~Has(said, "odd") /\ (cli = "codex" => ~Has(said, "error"))

\* LimitNotRetried: an agent whose last words, as far as they were read, were the usage
\* limit is never called again: not after a timeout, a crash or a torn output either.
LimitNotRetried == phase \notin Over => ~prev.limit

\* SessionsSound: a resumed session is one that a call opened and whose agent ended
\* cleanly; any other call of a resumable harness opens a session of its own.
SessionsSound ==
  phase = "called" /\ Supported =>
    /\ session \in 1..ids
    /\ IF resume THEN prev.clean /\ attempt > 0 ELSE session = ids

\* TokensOnce: between calls the agent_runs rows add up to what the agents reported,
\* over resumed sessions too.
TokensOnce == phase # "called" => booked = spent

\* StepEnds: the step or task ends, whatever order the child fills its pipes in.
StepEnds == <>(phase \in Over)
=============================================================================
