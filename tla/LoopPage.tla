------------------------------ MODULE LoopPage ------------------------------
(***************************************************************************)
(* A loop as its views show it: the web page that polls GET /api/loops/<id> *)
(* (interfaces/loop_views.py, static/loop.js) and `mini loop status`, which *)
(* reads the same things once (cli/loop.py, terminal_ui/loop.py).  A view  *)
(* reads the loop, its rows, its journal and its agent runs one after the  *)
(* other while the engine writes; it then computes each iteration's        *)
(* status, verdicts, score and tokens.                                     *)
(*                                                                         *)
(* A reported run counts one token.  Times are the order of the rows: no   *)
(* two rows begin at the same microsecond.  Durations, labels and prices   *)
(* are left out.                                                           *)
(***************************************************************************)
EXTENDS LoopRows, SequencesExt

VARIABLE page  \* the read so far: whose it is, where it is, what it has

pageVars == <<rowVars, commandVars, page>>

Terminal == {"completed", "failed", "stopped"}

Blank == [at |-> "load", by |-> "web", loop |-> <<>>, rows |-> <<>>, journal |-> <<>>,
          runs |-> <<>>, dims |-> 0]

Init == RowsInit /\ page = Blank

-----------------------------------------------------------------------------
(* The reads of one request or command.                                    *)

\* The web reads the rows before the journal, `mini loop status` after it.
FirstRead(by) == IF by = "web" THEN "rows" ELSE "journal"

\* store.load: the row first.
LoadLoop ==
  /\ page.at = "load"
  /\ \E by \in {"web", "status"} :
       page' = [page EXCEPT !.by = by, !.loop = loop,
                  !.at = IF loop.status = "running" THEN "pid" ELSE FirstRead(by)]
  /\ UNCHANGED rowVars

\* If the engine of a RUNNING loop is gone, the row is marked FAILED with the copy,
MarkDead ==
  /\ page.at = "pid"
  /\ IF eng.at # "off"
     THEN page' = [page EXCEPT !.at = FirstRead(page.by)] /\ UNCHANGED loop
     ELSE /\ page' = [page EXCEPT !.at = "dead", !.loop.status = "failed",
                                  !.loop.completed = "this run"]
          /\ EndLoop("failed")
  /\ UNCHANGED <<rows, journal, runs, eng>>

\* and then the steps it left RUNNING.
MarkDeadRows ==
  /\ page.at = "dead" /\ StopRows
  /\ page' = [page EXCEPT !.at = FirstRead(page.by)]
  /\ UNCHANGED <<loop, journal, runs, eng>>

ReadRows ==
  /\ page.at = "rows"
  /\ page' = [page EXCEPT !.at = IF page.by = "web" THEN "journal" ELSE "runs", !.rows = rows]
  /\ UNCHANGED rowVars

ReadJournal ==
  /\ page.at = "journal"
  /\ page' = [page EXCEPT !.at = IF page.by = "web" THEN "runs" ELSE "rows",
                          !.journal = journal]
  /\ UNCHANGED rowVars

\* The agent runs; and the dimensions of the spec, if that parses.
ReadRuns ==
  /\ page.at = "runs"
  /\ \E dims \in {0, NDims} : page' = [page EXCEPT !.at = "shown", !.runs = runs, !.dims = dims]
  /\ UNCHANGED rowVars

\* A page of a loop that is not over is looked at as it is drawn.
Drawn == page.at = "shown" /\ page.loop.status \notin Terminal

\* loop.js: the next poll, unless the page shows a terminal status.
Poll ==
  /\ Drawn /\ page' = Blank /\ UNCHANGED rowVars

\* Whoever starts the loop again opens its page again: no load of the page either
\* spans the end of a run and the start of the next.
Restart == page.at \in {"load", "shown"} /\ StartRun /\ page' = Blank

PageNext ==
  \/ /\ LoadLoop \/ MarkDead \/ MarkDeadRows \/ ReadRows \/ ReadJournal \/ ReadRuns \/ Poll
     /\ UNCHANGED commandVars
  \/ Restart
  \/ ~Drawn /\ (Engine \/ Killed) /\ UNCHANGED <<commandVars, page>>
  \/ ~Drawn /\ Command /\ UNCHANGED page

PageSpec == Init /\ [][PageNext]_pageVars

-----------------------------------------------------------------------------
(* Rows and verdicts.                                                      *)

\* shown_loop_steps: a step runs only while its loop does.
ShownStatus(l, r) ==
  IF r.status = "running" /\ l.status # "running" THEN "stopped" ELSE r.status
ShownRows(l, rs) == [i \in DOMAIN rs |-> [rs[i] EXCEPT !.status = ShownStatus(l, rs[i])]]
Steps == ShownRows(page.loop, page.rows)

\* MUTANT: only what ended well has tokens.
CompletedMembers(n) == {i \in DOMAIN Steps : Steps[i].iter = n /\ Steps[i].status = "completed"}

Iterations == {r.iter : r \in ToSet(Steps)}
Members(n) == {i \in DOMAIN Steps : Steps[i].iter = n}
Evaluators(n) == {i \in Members(n) : Steps[i].type = "evaluate"}

\* MUTANT: the first line of a step is its record.
FirstRecordOf(i) ==
  LET is == {j \in DOMAIN page.journal : page.journal[j].type = "evaluate"
                                          /\ page.journal[j].row = i}
  IN  IF is = {} THEN 0 ELSE CHOOSE j \in is : \A k \in is : j <= k

\* evaluate_records: the last line of a step, whatever the gate made of it.
RecordOf(i) ==
  LET is == {j \in DOMAIN page.journal : page.journal[j].type = "evaluate"
                                          /\ page.journal[j].row = i}
  IN  IF is = {} THEN 0 ELSE LastOf(is)

\* The verdict and carried_from of an evaluate step that is not running.
Recorded(i) == Steps[i].type = "evaluate" /\ Steps[i].status # "running" /\ RecordOf(i) # 0
VerdictOf(i) == IF Recorded(i) THEN page.journal[RecordOf(i)].says ELSE "none"
CarriedOver(i) ==
  Recorded(i) /\ page.journal[RecordOf(i)].from # page.journal[RecordOf(i)].iter

-----------------------------------------------------------------------------
(* An iteration of the page.                                               *)

\* _iteration_status: a step that runs, else how the last to begin ended.
IterationStatus(n) ==
  LET last == Steps[LastOf(Members(n))].status
  IN  IF \E i \in Members(n) : Steps[i].status = "running" THEN "running"
      ELSE IF last \in {"failed", "stopped"} THEN last ELSE "completed"

\* _iteration_passing: a dimension counts once, by the last of its steps that has a
\* verdict; carried counts those whose last step is a pass carried over.
IterationPassing(n) ==
  LET judged == {i \in Evaluators(n) : VerdictOf(i) # "none"}
      latest(is) == {i \in is : \A j \in is : Steps[j].dim = Steps[i].dim => j <= i}
      ran == latest(Evaluators(n))
  IN  [passed |-> Cardinality({i \in latest(judged) : VerdictOf(i) = "pass"}),
       total |-> IF page.dims > Cardinality(ran) THEN page.dims ELSE Cardinality(ran),
       carried |-> Cardinality({i \in ran : CarriedOver(i)})]

\* _pivot_evaluate, _carried_cells: the heatmap keeps the last line of a dimension
\* in an iteration.
Cell(d, n) ==
  LET is == {j \in DOMAIN page.journal : /\ page.journal[j].type = "evaluate"
                                          /\ page.journal[j].dim = d
                                          /\ page.journal[j].iter = n}
  IN  IF is = {} THEN 0 ELSE LastOf(is)

HeatmapPassing(n) ==
  LET cells == {Cell(d, n) : d \in Dimension} \ {0}
  IN  [passed |-> Cardinality({j \in cells : page.journal[j].says = "pass"}),
       carried |-> Cardinality({j \in cells : page.journal[j].from # n})]

\* The rollup of some rows: a run counts once it ended, or once the loop is not
\* running.  The runs of rows that began after the rows were read count for the loop.
Counted(run) == run # "open" \/ page.loop.status # "running"

Calls(is) == UNION {{i} \X DOMAIN page.runs[i] : i \in is \cap DOMAIN page.runs}

TokensTotal(is) ==
  LET counted == {c \in Calls(is) : Counted(page.runs[c[1]][c[2]])}
      reported == {c \in counted : page.runs[c[1]][c[2]] = "reported"}
  IN  [total |-> IF counted # {} /\ reported = {} THEN -1 ELSE Cardinality(reported),
       missing |-> Cardinality(counted \ reported)]

-----------------------------------------------------------------------------
(* Properties.                                                             *)

Shown == page.at = "shown"
Final == Shown /\ page.loop.status \in {"completed", "failed"}

\* An engine that ended its loop has written everything before: what polling stops
\* on has every step as it ended, line and agent call.  After it only a stop or a load
\* writes that read the loop before it was over: they make it STOPPED or FAILED, and
\* mark rows that show as STOPPED anyway.
FinalLoopPageTrue ==
  Final => /\ loop.status \in {page.loop.status, "stopped", "failed"}
           /\ page.loop.completed = "this run"
           /\ Steps = ShownRows(loop, rows) /\ page.journal = journal /\ page.runs = runs

\* The score of a closed iteration, on the web page and in the heatmap, is what the
\* engine reads in the journal when it decides what to carry: rejected lines, steps
\* cut off and begun again, and passes carried over change nothing in it.
ScoreTrue ==
  Final =>
    \A n \in Iterations :
      (\E j \in DOMAIN page.journal : page.journal[j].type = "commit" /\ page.journal[j].iter = n)
        => LET passed == {d \in Dimension : Passed(d, {n})}
               carried == {d \in passed : journal[LastOf(ValidEvals(d, {n}))].from # n}
           IN  /\ IterationPassing(n) = [passed |-> Cardinality(passed), total |-> NDims,
                                          carried |-> Cardinality(carried)]
               /\ HeatmapPassing(n) = [passed |-> Cardinality(passed),
                                        carried |-> Cardinality(carried)]

\* The page reads the rows first: an evaluator it shows completed is shown with the
\* verdict it was accepted with, however the engine went on between the reads.
FinishedVerdictShown ==
  Shown /\ page.by = "web" =>
    \A i \in DOMAIN Steps :
      Steps[i].type = "evaluate" /\ Steps[i].status = "completed" /\ page.runs[i] # <<>>
        => RecordOf(i) # 0 /\ page.journal[RecordOf(i)].gate = "valid"

\* The iterations of an ended loop account for every agent call of it: their
\* tokens add up to the loop's.
IterationTokensAddUp ==
  Final =>
    LET known(t) == IF t.total < 0 THEN 0 ELSE t.total
        all == TokensTotal(DOMAIN page.runs)
    IN  /\ known(all) = SumFunction([n \in Iterations |-> known(TokensTotal(Members(n)))])
        /\ all.missing = SumFunction([n \in Iterations |-> TokensTotal(Members(n)).missing])

\* "Parallel evaluators can share the latest start, so any of them counts as last":
\* an iteration whose evaluator failed or hit the limit, and was not run again, does
\* not show as completed.
FailedIterationShown ==
  Shown /\ page.by = "web" /\ page.loop.status # "running" /\ page.loop.completed = "this run" =>
    \A n \in Iterations :
      (\E i \in Members(n) :
         /\ Steps[i].status \in {"failed", "stopped"}
         /\ \A j \in Members(n) : j > i => <<Steps[j].type, Steps[j].dim>>
                                             # <<Steps[i].type, Steps[i].dim>>)
        => IterationStatus(n) # "completed"
=============================================================================
