---------------------------- MODULE AgentProofs ----------------------------
(***************************************************************************)
(* Proofs about AgentStep, for every harness, pipe size, number of events  *)
(* and number of retries: when a call has returned its child is gone, and  *)
(* a call that succeeded saw all of the agent's output.                    *)
(***************************************************************************)
EXTENDS AgentStep, FiniteSetTheorems, TLAPS

-----------------------------------------------------------------------------
(* The invariants.                                                         *)

\* The child over the course of the call: none before, none or an exited one after;
\* every way to the answer goes by an exit or a kill.
ChildInv ==
  /\ phase # "called" => pc = "off"
  /\ pc \in {"off", "launch"} => proc = "none"
  /\ pc \in {"rejoin", "late", "joinerr", "answer"} => proc = "exited"
  /\ pc = "return" => proc # "running"

\* What the reader took is a part of what was said, and it broke on odd events only.
StreamInv ==
  /\ said \in Seq(Event) /\ read \in 0..Len(said)
  /\ \A i \in 1..read : said[i] = "odd" => broke

\* Past the check the reader has ended, for good; a success is given only then.
ReaderInv ==
  /\ pc \in {"wait", "joinerr", "answer"} => ReaderDone
  /\ result.exit = "success" =>
       /\ pc = "return" /\ ~broke /\ ReaderDone /\ code = "ok"
       /\ cli = "codex" => ~Has(Seen, "error")

-----------------------------------------------------------------------------
(* The child.                                                              *)

LEMMA ChildInvStep == ASSUME ChildInv, [Next]_vars PROVE ChildInv'
<1> USE DEF ChildInv
<1>1. CASE Step
  BY <1>1 DEF Step, Heed, Call, Judge, CallEnds, callVars, childVars, Over
<1>2. CASE StopArrives
  BY <1>2 DEF StopArrives, callVars, childVars
<1>3. CASE Main /\ UNCHANGED stepVars
  BY <1>3 DEF Main, Launch, LaunchFails, JoinReader, Check, KillLate, Rejoin, AnswerLate,
     WaitExited, WaitExpires, JoinDrain, AnswerEnded, Goto, Kill, childVars, stepVars
<1>4. CASE Child /\ UNCHANGED stepVars
  BY <1>4 DEF Child, Think, Say, Complain, TakePrompt, Exit, HelperEnds, stepVars
<1>5. CASE (Feed \/ Read \/ Drain) /\ UNCHANGED stepVars
  BY <1>5 DEF Feed, Read, Drain, childVars, stepVars
<1>6. CASE UNCHANGED vars
  BY <1>6 DEF vars, callVars, childVars, stepVars
<1>7. QED
  BY <1>1, <1>2, <1>3, <1>4, <1>5, <1>6 DEF Next, CallNext

\* DeadOnReturn holds of every run: no harness.run (harness.py) returns with its child
\* running, whichever of the exits, timeouts and kills it went through.
THEOREM ChildGone == Spec => []DeadOnReturn
<1>1. Init => ChildInv
  BY DEF Init, CallInit, ChildInv
<1>2. ChildInv => DeadOnReturn
  BY DEF ChildInv, DeadOnReturn
<1>3. QED
  BY <1>1, <1>2, ChildInvStep, PTL DEF Spec

-----------------------------------------------------------------------------
(* The output.                                                             *)

\* The types follow from the actions alone: only Say writes an event, and only the
\* reader goes on, by one, to what was said.
LEMMA StreamInvStep == ASSUME StreamInv, [Next]_vars PROVE StreamInv'
<1> USE DEF StreamInv
<1>1. CASE UNCHANGED <<said, read, broke>>
  BY <1>1
<1>2. CASE Judge
  BY <1>2 DEF Judge, CallEnds
<1>3. CASE Say /\ UNCHANGED <<read, broke>>
  <2>1. PICK e \in Event : said' = Append(said, e)
    BY <1>3 DEF Say
  <2>2. said' \in Seq(Event) /\ Len(said') = Len(said) + 1
    BY <2>1
  <2>3. \A i \in 1..read : said'[i] = said[i]
    BY <2>1
  <2>4. QED
    BY <1>3, <2>2, <2>3
<1>4. CASE Read
  <2>1. said' = said /\ read' = read + 1 /\ read < Len(said)
    BY <1>4 DEF Read, childVars
  <2>2. ~broke /\ broke' = (said[read + 1] = "odd")
    BY <1>4 DEF Read
  <2>3. ASSUME NEW i \in 1..read', said'[i] = "odd"
        PROVE  broke'
    <3>1. i \notin 1..read
      BY <2>1, <2>2, <2>3
    <3>2. i = read + 1
      BY <2>1, <3>1
    <3>3. said[read + 1] = "odd"
      BY <2>1, <2>3, <3>2
    <3>4. QED
      BY <2>2, <3>3, Zenon
  <2>4. QED
    BY <2>1, <2>3
<1>5. QED
  <2>1. CASE Heed \/ Call \/ StopArrives
    BY <2>1, <1>1 DEF Heed, Call, StopArrives, callVars, childVars, threadVars
  <2>2. CASE Main
    BY <2>2, <1>1 DEF Main, Launch, LaunchFails, JoinReader, Check, KillLate, Rejoin,
       AnswerLate, WaitExited, WaitExpires, JoinDrain, AnswerEnded, Goto, Kill, childVars,
       threadVars
  <2>3. CASE Child
    BY <2>3, <1>1, <1>3 DEF Child, Think, Complain, TakePrompt, Exit, HelperEnds, threadVars
  <2>4. CASE Feed \/ Drain \/ UNCHANGED vars
    BY <2>4, <1>1 DEF Feed, Drain, vars, callVars, childVars, threadVars
  <2>5. QED
    BY <1>2, <1>4, <2>1, <2>2, <2>3, <2>4 DEF Next, Step, CallNext

\* A reader that ended stays ended: its child says no more, and there is nothing to read.
LEMMA ReaderStaysDone ==
  ASSUME StreamInv, ReaderDone, Child \/ Feed \/ Read \/ Drain
  PROVE  ReaderDone' /\ pc' = pc /\ result' = result /\ cli' = cli /\ broke' = broke
<1>1. CASE Child
  <2>1. UNCHANGED <<cli, pc, read, broke, result>>
    BY <1>1 DEF Child, threadVars
  <2>2. CASE broke
    BY <2>1, <2>2 DEF ReaderDone
  <2>3. CASE PipesClosed /\ read = Len(said)
    BY <1>1, <2>1, <2>3 DEF Child, Think, Say, Complain, TakePrompt, Exit, HelperEnds,
       PipesClosed, ReaderDone
  <2>4. QED
    BY <2>2, <2>3 DEF ReaderDone
<1>2. CASE Feed \/ Drain
  BY <1>2 DEF Feed, Drain, childVars, ReaderDone, PipesClosed
<1>3. CASE Read
  BY <1>3 DEF Read, StreamInv, ReaderDone
<1>4. QED
  BY <1>1, <1>2, <1>3

LEMMA ReaderInvStep ==
  ASSUME StreamInv, ChildInv, ReaderInv, [Next]_vars
  PROVE  ReaderInv'
<1>1. CASE Step
  <2>1. CASE Heed
    BY <2>1 DEF Heed, callVars, childVars, threadVars, ReaderInv, ReaderDone, PipesClosed,
       Seen, Has
  <2>2. CASE Call
    BY <2>2 DEF Call, ReaderInv, ChildInv
  <2>3. CASE Judge
    BY <2>3 DEF Judge, CallEnds, NoResult, ReaderInv
  <2>4. QED
    BY <1>1, <2>1, <2>2, <2>3 DEF Step
<1>2. CASE StopArrives \/ UNCHANGED vars
  BY <1>2 DEF StopArrives, vars, callVars, childVars, threadVars, ReaderInv, ReaderDone,
     PipesClosed, Seen, Has
<1>3. CASE Main
  <2>1. CASE Launch \/ LaunchFails \/ JoinReader \/ KillLate \/ Rejoin
    BY <2>1 DEF Launch, LaunchFails, JoinReader, KillLate, Rejoin, Goto, Kill, NoResult,
       ReaderInv, threadVars
  <2>2. CASE Check
    BY <2>2 DEF Check, Goto, IsAlive, ReaderInv, ReaderDone, PipesClosed, childVars,
       threadVars
  <2>3. CASE AnswerLate
    <3>1. pc' = "return" /\ result'.exit = "timeout"
      BY <2>3 DEF AnswerLate, Answer
    <3>2. QED
      BY <3>1 DEF ReaderInv
  <2>4. CASE WaitExited \/ JoinDrain
    BY <2>4 DEF WaitExited, JoinDrain, Goto, ReaderInv, ReaderDone, PipesClosed, childVars,
       threadVars
  <2>5. CASE WaitExpires
    <3>1. pc' = "joinerr" /\ result' = result /\ pc # "return"
      BY <2>5 DEF WaitExpires, Kill
    <3>2. ReaderDone'
      BY <2>5 DEF WaitExpires, Kill, ReaderInv, ReaderDone, PipesClosed, threadVars
    <3>3. QED
      BY <3>1, <3>2 DEF ReaderInv
  <2>6. CASE AnswerEnded
    <3>1. /\ pc' = "return" /\ result'.exit = ExitReason
          /\ UNCHANGED <<cli, childVars, threadVars>>
      BY <2>6 DEF AnswerEnded, Answer
    <3>2. ReaderDone /\ ReaderDone' /\ Seen' = Seen
      BY <2>6, <3>1 DEF AnswerEnded, ReaderInv, ReaderDone, PipesClosed, childVars,
         threadVars, Seen
    <3>3. ExitReason = "success" =>
            ~broke /\ code = "ok" /\ (cli = "codex" => ~Has(Seen, "error"))
      BY DEF ExitReason
    <3>4. broke' = broke /\ code' = code
      BY <3>1 DEF childVars, threadVars
    <3>5. QED
      BY <3>1, <3>2, <3>3, <3>4 DEF ReaderInv, Has
  <2>7. QED
    BY <1>3, <2>1, <2>2, <2>3, <2>4, <2>5, <2>6 DEF Main
<1>4. CASE Child \/ Feed \/ Read \/ Drain
  <2>1. UNCHANGED <<pc, cli, result>>
    BY <1>4 DEF Child, Feed, Read, Drain
  <2>2. CASE pc \in {"wait", "joinerr", "answer"}
    BY <1>4, <2>1, <2>2, ReaderStaysDone DEF ReaderInv
  <2>3. CASE result.exit = "success"
    <3>1. pc = "return" /\ ~broke /\ ReaderDone /\ code = "ok"
      BY <2>3 DEF ReaderInv
    <3>2. PipesClosed /\ read = Len(said)
      BY <3>1 DEF ReaderDone
    <3>3. ReaderDone' /\ broke' = broke
      BY <1>4, <3>1, ReaderStaysDone
    <3>4. UNCHANGED <<said, read, code>>
      BY <1>4, <3>2 DEF PipesClosed, Child, Think, Say, Complain, TakePrompt, Exit,
         HelperEnds, Feed, Read, Drain, threadVars, childVars, StreamInv
    <3>5. QED
      BY <2>1, <2>3, <3>1, <3>3, <3>4 DEF ReaderInv, Seen, Has
  <2>4. CASE pc \notin {"wait", "joinerr", "answer"} /\ result.exit # "success"
    BY <2>1, <2>4 DEF ReaderInv
  <2>5. QED
    BY <2>2, <2>3, <2>4
<1>5. QED
  BY <1>1, <1>2, <1>3, <1>4 DEF Next, CallNext

\* SuccessWhole holds of every run: a result with success=True (harness.py) was made of
\* all the agent wrote, by an agent that exited with 0 and whose pipes are closed.
THEOREM SuccessIsWhole == Spec => []SuccessWhole
<1>1. Init => StreamInv /\ ChildInv /\ ReaderInv
  BY DEF Init, CallInit, NoResult, StreamInv, ChildInv, ReaderInv
<1>2. StreamInv /\ ChildInv /\ ReaderInv => SuccessWhole
  <2>1. SUFFICES ASSUME StreamInv, ReaderInv, result.exit = "success"
                 PROVE  /\ read = Len(said) /\ code = "ok" /\ PipesClosed
                        /\ ~Has(said, "odd") /\ (cli = "codex" => ~Has(said, "error"))
    BY DEF SuccessWhole
  <2>2. ~broke /\ code = "ok" /\ PipesClosed /\ read = Len(said)
    BY <2>1 DEF ReaderInv, ReaderDone
  <2>3. Seen = said
    BY <2>1, <2>2 DEF Seen, StreamInv
  <2>4. \A i \in 1..Len(said) : said[i] # "odd"
    BY <2>1, <2>2 DEF StreamInv
  <2>5. ~Has(said, "odd")
    BY <2>1, <2>4 DEF Has, ToSet, StreamInv
  <2>6. QED
    BY <2>1, <2>2, <2>3, <2>5 DEF ReaderInv
<1>3. QED
  BY <1>1, <1>2, StreamInvStep, ChildInvStep, ReaderInvStep, PTL DEF Spec

-----------------------------------------------------------------------------
(* The sessions.                                                           *)

\* A call that is to resume has a session to resume, which its last agent left whole.
SessionInv ==
  /\ attempt \in Nat /\ ids \in Nat
  /\ resume /\ phase \notin Over => Supported /\ prev.clean /\ attempt > 0 /\ ids > 0
  /\ phase = "called" /\ Supported => ids > 0 /\ session = ids

LEMMA SessionInvStep ==
  ASSUME ReaderInv, SessionInv, [Next]_vars
  PROVE  SessionInv'
<1> USE DEF SessionInv
<1>1. CASE Heed \/ StopArrives
  BY <1>1 DEF Heed, StopArrives, callVars, Supported, Over
<1>2. CASE Call
  <2>1. /\ Supported' = Supported /\ phase' = "called" /\ phase = "begin"
        /\ UNCHANGED <<attempt, resume, prev>>
        /\ ids' = IF Supported /\ ~resume THEN ids + 1 ELSE ids
        /\ session' = IF Supported THEN ids' ELSE 0
    BY <1>2 DEF Call, Supported
  <2>2. QED
    BY <2>1 DEF Over
<1>3. CASE Judge
  <2>1. Supported' = Supported /\ ids' = ids /\ phase = "called" /\ phase' # "called"
    BY <1>3 DEF Judge, Supported
  <2>2. CASE phase' \in Over
    BY <1>3, <2>1, <2>2 DEF Judge, Over
  <2>3. CASE phase' \notin Over
    <3>1. /\ attempt' = attempt + 1 /\ resume' = ResumeNext
          /\ prev'.clean = (proc = "exited" /\ code = "ok" /\ read = Len(said))
      BY <1>3, <2>3 DEF Judge, Over
    <3>2. ResumeNext => proc = "exited" /\ code = "ok" /\ read = Len(said)
      BY DEF ResumeNext, ReaderInv, ReaderDone, PipesClosed
    <3>3. resume' => prev'.clean
      BY <3>1, <3>2, Zenon
    <3>4. resume' => Supported
      BY <3>1 DEF ResumeNext
    <3>5. QED
      BY <2>1, <3>1, <3>3, <3>4
  <2>4. QED
    BY <2>2, <2>3
<1>4. CASE (CallNext /\ UNCHANGED stepVars) \/ UNCHANGED vars
  <2>1. cli' = cli
    BY <1>4 DEF CallNext, Main, Launch, LaunchFails, JoinReader, Check, KillLate, Rejoin,
       AnswerLate, WaitExited, WaitExpires, JoinDrain, AnswerEnded, Goto, Kill, Child, Feed,
       Read, Drain, vars, callVars
  <2>2. QED
    BY <1>4, <2>1 DEF stepVars, vars, Supported
<1>5. QED
  BY <1>1, <1>2, <1>3, <1>4 DEF Next, Step

\* SessionsSound holds of every run: LoopEngine._run_step resumes only a session that it
\* opened itself and whose last agent exited with 0 and was read to its end.
THEOREM SessionsAreSound == Spec => []SessionsSound
<1>1. Init => StreamInv /\ ChildInv /\ ReaderInv /\ SessionInv
  BY DEF Init, CallInit, NoResult, StreamInv, ChildInv, ReaderInv, SessionInv
<1>2. SessionInv => SessionsSound
  BY DEF SessionInv, SessionsSound, Over
<1>3. QED
  BY <1>1, <1>2, StreamInvStep, ChildInvStep, ReaderInvStep, SessionInvStep, PTL DEF Spec

-----------------------------------------------------------------------------
(* The tokens.                                                             *)

Reported(n) == {i \in 1..n : said[i] \in Results}

\* Claude Code reports its tokens with the last event it writes, and with that one only;
\* an answer counts the report if it was read.
TokenInv ==
  /\ booked = spent
  /\ \A i \in 1..Len(said) : said[i] \in Results => cli = "claude" /\ i = Len(said)
  /\ pc = "return" => result.tokens = Cardinality(Reported(result.upto))

\* What is computed from the events read is what the agent reported in them.
LEMMA ReportedOnce ==
  ASSUME SinceLast, StreamInv, TokenInv
  PROVE  Tokens(Seen) = Cardinality(Reported(read))
<1>1. Len(said) \in Nat /\ read \in 0..Len(said)
  BY DEF StreamInv
<1>2. Seen \in Seq(Event) /\ Len(Seen) = read /\ \A i \in 1..read : Seen[i] = said[i]
  BY <1>1 DEF Seen, StreamInv
<1>3. ToSet(Seen) = {said[i] : i \in 1..read}
  BY <1>2 DEF ToSet
<1>4. ToSet(Seen) \cap Results = {} <=> Reported(read) = {}
  BY <1>3 DEF Reported
<1>5. CASE Reported(read) = {}
  <2>1. Tokens(Seen) = 0
    BY <1>4, <1>5 DEF Tokens
  <2>2. QED
    BY <1>5, <2>1, FS_EmptySet
<1>6. CASE Reported(read) # {}
  <2>1. cli = "claude" /\ Reported(read) = {Len(said)}
    BY <1>1, <1>6 DEF Reported, TokenInv
  <2>2. Tokens(Seen) = 1
    BY <1>4, <1>6, <2>1 DEF Tokens
  <2>3. Cardinality({Len(said)}) = 1
    BY Zenon, FS_Singleton
  <2>4. QED
    BY <2>1, <2>2, <2>3
<1>7. QED
  BY <1>5, <1>6

LEMMA TokenInvStep ==
  ASSUME SinceLast, StreamInv, ChildInv, TokenInv, [Next]_vars
  PROVE  TokenInv'
<1>1. CASE Heed \/ StopArrives \/ UNCHANGED vars
  BY <1>1 DEF Heed, StopArrives, vars, stepVars, callVars, childVars, TokenInv, Reported
<1>2. CASE Call
  BY <1>2 DEF Call, TokenInv
<1>3. CASE Judge
  <2>1. result.tokens = Cardinality(Reported(result.upto))
    BY <1>3 DEF Judge, TokenInv
  <2>2. booked' = spent'
    BY <1>3, <2>1 DEF Judge, TokenInv, Reported
  <2>3. said' = <<>> /\ pc' = "off"
    BY <1>3 DEF Judge, CallEnds
  <2>4. QED
    BY <2>2, <2>3 DEF TokenInv
<1>4. CASE Main /\ UNCHANGED stepVars
  <2>1. UNCHANGED <<cli, said, read, booked, spent>>
    BY <1>4 DEF Main, Launch, LaunchFails, JoinReader, Check, KillLate, Rejoin, AnswerLate,
       WaitExited, WaitExpires, JoinDrain, AnswerEnded, Goto, Kill, childVars, threadVars,
       stepVars
  <2>2. CASE AnswerLate \/ AnswerEnded
    <3>1. result'.tokens = Tokens(Seen) /\ result'.upto = read
      BY <2>2 DEF AnswerLate, AnswerEnded, Answer
    <3>2. Reported(result.upto)' = Reported(read)
      BY <2>1, <3>1 DEF Reported
    <3>3. QED
      BY <2>1, <3>1, <3>2, ReportedOnce DEF TokenInv
  <2>3. CASE LaunchFails
    <3>1. result'.tokens = 0 /\ result'.upto = 0
      BY <2>3 DEF LaunchFails, NoResult
    <3>2. Reported(result.upto)' = {}
      BY <3>1 DEF Reported
    <3>3. QED
      BY <2>1, <3>1, <3>2, FS_EmptySet DEF TokenInv
  <2>4. CASE pc' # "return"
    BY <2>1, <2>4 DEF TokenInv
  <2>5. QED
    BY <1>4, <2>2, <2>3, <2>4 DEF Main, Launch, JoinReader, Check, KillLate, Rejoin, WaitExited,
       WaitExpires, JoinDrain, Goto, Kill
<1>5. CASE Say /\ UNCHANGED <<cli, pc, booked, spent>>
  <2>1. PICK e \in Event : MaySay(e) /\ said' = Append(said, e)
    BY <1>5 DEF Say
  <2>2. /\ Len(said') = Len(said) + 1 /\ Len(said) \in Nat
        /\ \A i \in 1..Len(said) : said'[i] = said[i]
        /\ said'[Len(said) + 1] = e
    BY <2>1 DEF StreamInv
  <2>3. e \in Results => cli = "claude"
    BY <2>1 DEF MaySay, Results, Texts
  <2>4. \A i \in 1..Len(said) : said[i] \notin Results
    BY <2>1 DEF MaySay, ToSet, StreamInv
  <2>5. pc # "return"
    BY <1>5 DEF Say, ChildInv
  <2>6. QED
    BY <1>5, <2>2, <2>3, <2>4, <2>5 DEF TokenInv
<1>6. CASE (Child \/ Feed \/ Read \/ Drain) /\ ~Say /\ UNCHANGED stepVars
  BY <1>6 DEF Child, Think, Complain, TakePrompt, Exit, HelperEnds, Feed, Read, Drain,
     childVars, threadVars, stepVars, TokenInv, Reported
<1>7. CASE Say /\ Child /\ UNCHANGED stepVars
  BY <1>5, <1>7 DEF Child, stepVars
<1>8. QED
  <2>1. CASE CallNext /\ UNCHANGED stepVars
    BY <1>4, <1>6, <1>7, <2>1 DEF CallNext, Feed, Read, Drain, Say, Child, childVars
  <2>2. QED
    BY <1>1, <1>2, <1>3, <2>1 DEF Next, Step

\* TokensOnce holds of every run with a CLI that reports its tokens per turn: whatever calls
\* time out, break or resume, agent_runs sums up what was reported, once (harness.py, tokens).
THEOREM TokensAreBookedOnce == ASSUME SinceLast PROVE Spec => []TokensOnce
<1>1. Init => StreamInv /\ ChildInv /\ TokenInv
  BY DEF Init, CallInit, StreamInv, ChildInv, TokenInv
<1>2. TokenInv => TokensOnce
  BY DEF TokenInv, TokensOnce
<1>3. TokenInv /\ StreamInv /\ ChildInv /\ [Next]_vars => TokenInv'
  BY SinceLast, TokenInvStep
<1>4. QED
  BY <1>1, <1>2, <1>3, StreamInvStep, ChildInvStep, PTL DEF Spec

-----------------------------------------------------------------------------
(* The usage limit.                                                        *)

\* The last event of a sequence, when it is one of those looked for.
LEMMA LastOne ==
  ASSUME NEW s \in Seq(Event), NEW E, Len(s) > 0, s[Len(s)] \in E
  PROVE  LastOf(s, E) = s[Len(s)]
<1> DEFINE at == {i \in DOMAIN s : s[i] \in E}
<1>1. Len(s) \in at /\ \A i \in at : i \in Nat /\ i <= Len(s)
  OBVIOUS
<1>2. Max(at) = CHOOSE x \in at : \A y \in at : x >= y
  BY DEF Max
<1>3. Max(at) = Len(s)
  <2> HIDE DEF at
  <2>1. \E x \in at : \A y \in at : x >= y
    BY <1>1
  <2>2. Max(at) \in at /\ \A y \in at : Max(at) >= y
    BY <1>2, <2>1
  <2>3. QED
    BY <1>1, <2>2
<1>4. at # {}
  BY <1>1
<1>5. LastOf(s, E) = s[Max(at)]
  BY <1>4 DEF LastOf
<1>6. QED
  BY <1>3, <1>5

\* An answer made after the agent's last words were the limit says so.
LimitInv ==
  /\ phase \notin Over => ~prev.limit
  /\ pc = "return" /\ result.upto > 0 /\ cli = "claude" =>
       result.upto \in 1..Len(said)
         /\ (said[result.upto] \in {"limit", "limited"} => result.limit)

LEMMA LimitSeen ==
  ASSUME StreamInv, cli = "claude", read > 0, said[read] \in {"limit", "limited"}
  PROVE  UsageLimit(Seen)
<1>1. Seen \in Seq(Event) /\ Len(Seen) = read /\ Seen[read] = said[read]
  BY DEF Seen, StreamInv
<1>2. CASE said[read] = "limited"
  BY <1>1, <1>2 DEF UsageLimit, Has, ToSet, StreamInv
<1>3. CASE said[read] = "limit"
  <2>1. LastText(Seen) = "limit"
    <3>1. LastOf(Seen, Texts) = Seen[Len(Seen)]
      <4> DEFINE s == Seen
      <4>1. s \in Seq(Event) /\ Len(s) > 0 /\ s[Len(s)] \in Texts
        BY <1>1, <1>3 DEF Texts, StreamInv
      <4> HIDE DEF s
      <4>2. LastOf(s, Texts) = s[Len(s)]
        BY <4>1, LastOne
      <4>3. QED
        BY <4>2 DEF s
    <3>2. QED
      BY <1>1, <1>3, <3>1 DEF LastText
  <2>2. QED
    BY <2>1 DEF UsageLimit
<1>4. QED
  BY <1>2, <1>3

LEMMA LimitInvStep ==
  ASSUME StreamInv, ChildInv, LimitInv, [Next]_vars
  PROVE  LimitInv'
<1>1. CASE Heed \/ StopArrives \/ UNCHANGED vars
  BY <1>1 DEF Heed, StopArrives, vars, stepVars, callVars, childVars, LimitInv, Over
<1>2. CASE Call
  BY <1>2 DEF Call, LimitInv, Over
<1>3. CASE Judge
  <2>1. pc = "return" /\ pc' = "off"
    BY <1>3 DEF Judge
  <2>2. phase' \notin Over => ~result.limit
    BY <1>3 DEF Judge, Over
  <2>3. prev'.limit <=> /\ result.upto > 0 /\ cli = "claude"
                        /\ said[result.upto] \in {"limit", "limited"}
    <3>1. prev' = [limit |-> /\ result.upto > 0 /\ cli = "claude"
                             /\ said[result.upto] \in {"limit", "limited"},
                   clean |-> proc = "exited" /\ code = "ok" /\ read = Len(said)]
      BY <1>3 DEF Judge
    <3>2. QED
      BY <3>1, Zenon
  <2>4. QED
    BY <2>1, <2>2, <2>3 DEF LimitInv
<1>4. CASE Main /\ UNCHANGED stepVars
  <2>1. UNCHANGED <<cli, said, read, phase, prev>>
    BY <1>4 DEF Main, Launch, LaunchFails, JoinReader, Check, KillLate, Rejoin, AnswerLate,
       WaitExited, WaitExpires, JoinDrain, AnswerEnded, Goto, Kill, childVars, threadVars,
       stepVars
  <2>2. CASE AnswerLate \/ AnswerEnded
    <3>1. (result'.limit <=> UsageLimit(Seen)) /\ result'.upto = read
      BY <2>2 DEF AnswerLate, AnswerEnded, Answer
    <3>2. read \in 0..Len(said) /\ Len(said) \in Nat
      BY DEF StreamInv
    <3>3. QED
      BY <2>1, <3>1, <3>2, LimitSeen DEF LimitInv
  <2>3. CASE LaunchFails
    BY <2>1, <2>3 DEF LaunchFails, NoResult, LimitInv
  <2>4. CASE pc' # "return"
    BY <2>1, <2>4 DEF LimitInv
  <2>5. QED
    BY <1>4, <2>2, <2>3, <2>4 DEF Main, Launch, JoinReader, Check, KillLate, Rejoin, WaitExited,
       WaitExpires, JoinDrain, Goto, Kill
<1>5. CASE (Child \/ Feed \/ Read \/ Drain) /\ UNCHANGED stepVars
  <2>1. UNCHANGED <<cli, pc, result, phase, prev>>
    BY <1>5 DEF Child, Feed, Read, Drain, stepVars
  <2>2. pc = "return" => said' = said
    BY <1>5 DEF Child, Think, Say, Complain, TakePrompt, Exit, HelperEnds, Feed, Read, Drain,
       childVars, ChildInv
  <2>3. QED
    BY <2>1, <2>2 DEF LimitInv
<1>6. QED
  BY <1>1, <1>2, <1>3, <1>4, <1>5 DEF Next, Step, CallNext

\* LimitNotRetried holds of every run: an agent whose last words read were Claude Code's
\* usage limit is not called again, whether the call ended, broke, or timed out
\* (_ClaudeCapture.usage_limit, and what both callers make of it).
THEOREM LimitsAreNotRetried == Spec => []LimitNotRetried
<1>1. Init => StreamInv /\ ChildInv /\ LimitInv
  BY DEF Init, CallInit, NoResult, StreamInv, ChildInv, LimitInv
<1>2. LimitInv => LimitNotRetried
  BY DEF LimitInv, LimitNotRetried
<1>3. QED
  BY <1>1, <1>2, StreamInvStep, ChildInvStep, LimitInvStep, PTL DEF Spec
=============================================================================
