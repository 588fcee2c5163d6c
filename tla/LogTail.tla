------------------------------ MODULE LogTail ------------------------------
(***************************************************************************)
(* `mini job logs -f` and `mini loop logs|journal -f` (interfaces/cli/     *)
(* job.py, loop.py) beside the engine that appends to the file they follow *)
(* and the commands that change the status they watch.                     *)
(*                                                                         *)
(* A record is appended by one write under the file's lock; a long one may *)
(* be seen half by a reader, and is left half by an engine killed in it.   *)
(* The next engine's first record then ends up on the same line.           *)
(***************************************************************************)
EXTENDS LogQuery

CONSTANTS
  Record,    \* records an engine writes
  Queries,   \* queries of the user, as sequences of clauses
  MaxLines,  \* bound on the lines of the file
  MaxRuns    \* bound on the runs of the job or loop

ASSUME BoundsAssumption == MaxLines \in Nat /\ MaxRuns \in Nat \ {0}

\* Texts are ordered; a limit is an integer, by the query's grammar.
ASSUME TextsAssumption == \A r \in Record : \A f \in DOMAIN r : r[f] \in Int
ASSUME QueriesAssumption == \A q \in Queries : Parse(q).limit \in Int

Unparsable == [message |-> 1]

VARIABLES
  status,    \* of the job or loop, in the database
  engine,    \* its engine is alive
  runs,
  file,      \* lines: the record, whether it is a long one, whether the line parses as one
  open,      \* the last line is not ended yet
  closed,    \* history: ended lines when the status last left RUNNING
  follow     \* the command: its query, where it is, what it printed

vars == <<status, engine, runs, file, open, closed, follow>>

Start == [lines |-> 0, head |-> FALSE]

Line(r, long) == [rec |-> r, long |-> long, whole |-> TRUE]

\* The command found the file: there is a line, or the start of one.
Init ==
  /\ status = "RUNNING" /\ engine = TRUE /\ runs = 1
  /\ file \in {<<Line(r, FALSE)>> : r \in Record}
  /\ open = FALSE /\ closed = 0
  /\ \E raw \in BOOLEAN, q \in Queries :
       /\ raw => q = <<>>
       /\ follow = [at |-> IF raw THEN "print" ELSE "search", raw |-> raw, query |-> Parse(q),
                    pos |-> Start, searched |-> 0, opened |-> 0, shown |-> <<>>]

-----------------------------------------------------------------------------
(* The engine and the commands.                                            *)

LeaveRunning(s) ==
  /\ status' = s
  /\ closed' = IF status = "RUNNING" THEN (IF open THEN Len(file) - 1 ELSE Len(file))
               ELSE closed

Appended(r) ==
  IF open THEN [file EXCEPT ![Len(file)].whole = FALSE]
  ELSE Append(file, Line(r, FALSE))

\* No write is under way; an unfinished last line is a dead engine's.
Written == open => ~file[Len(file)].whole

CanAppend == engine /\ Len(file) < MaxLines

\* JsonlLogBackend.record, loop_journal.append.
WriteLine ==
  /\ CanAppend /\ Written
  /\ \E r \in Record : file' = Appended(r)
  /\ open' = FALSE
  /\ UNCHANGED <<status, engine, runs, closed, follow>>

\* A long record, seen in two parts.
WriteHead ==
  /\ CanAppend /\ ~open
  /\ \E r \in Record : file' = Append(file, Line(r, TRUE))
  /\ open' = TRUE
  /\ UNCHANGED <<status, engine, runs, closed, follow>>

WriteRest ==
  /\ engine /\ ~Written
  /\ open' = FALSE
  /\ UNCHANGED <<status, engine, runs, file, closed, follow>>

\* The run is over: its last words are in the log before its status is.
Finish ==
  /\ engine /\ Written
  /\ LeaveRunning("ENDED")
  /\ engine' = FALSE
  /\ UNCHANGED <<runs, file, open, follow>>

\* A usage limit stops the row while evaluators beside it still talk, or a
\* `stop` does so before it kills the engine.
Stopped ==
  /\ engine /\ status = "RUNNING"
  /\ LeaveRunning("STOPPED")
  /\ UNCHANGED <<engine, runs, file, open, follow>>

\* The engine is killed, by a stop or by something else.
Killed ==
  /\ engine /\ engine' = FALSE
  /\ file' = IF open THEN [file EXCEPT ![Len(file)].whole = FALSE] ELSE file
  /\ UNCHANGED <<status, runs, open, closed, follow>>

\* Another reader loads the job or loop; the follower itself never does.
Reconcile ==
  /\ ~engine /\ status = "RUNNING"
  /\ LeaveRunning("ENDED")
  /\ UNCHANGED <<engine, runs, file, open, follow>>

Resume ==
  /\ ~engine /\ status # "RUNNING" /\ runs < MaxRuns
  /\ status' = "RUNNING" /\ engine' = TRUE /\ runs' = runs + 1
  /\ UNCHANGED <<file, open, closed, follow>>

-----------------------------------------------------------------------------
(* What a reader finds from a position on.                                 *)

Piece(i, pos) ==
  [line |-> i,
   part |-> CASE pos.head /\ i = pos.lines + 1 -> "rest"
              [] open /\ i = Len(file) -> "head"
              [] OTHER -> "whole"]

Pieces(pos) ==
  LET all == [k \in 1..(Len(file) - pos.lines) |-> Piece(pos.lines + k, pos)]
  IN  IF pos.head /\ open /\ pos.lines + 1 = Len(file) THEN <<>> ELSE all

End == IF open THEN [lines |-> Len(file) - 1, head |-> TRUE]
       ELSE [lines |-> Len(file), head |-> FALSE]

After(piece) ==
  IF piece.part = "head" THEN [lines |-> piece.line - 1, head |-> TRUE]
  ELSE [lines |-> piece.line, head |-> FALSE]

\* A line, or a part of one, that is no JSON object becomes a bare message.
Parsed(piece) ==
  IF piece.part = "whole" /\ file[piece.line].whole THEN file[piece.line].rec ELSE Unparsable

\* What is printed of the pieces read: all of a raw log, else the matching ones.
Emitted(pieces) ==
  LET kept == {k \in DOMAIN pieces : Matches(follow.query, Parsed(pieces[k]))}
      order == Listing(kept, [k \in kept |-> {j \in kept : j < k}])
  IN  IF follow.raw THEN pieces ELSE [n \in DOMAIN order |-> pieces[order[n]]]

Printed(pieces) == follow.shown \o Emitted(pieces)

-----------------------------------------------------------------------------
(* The command.                                                            *)

engineVars == <<status, engine, runs, file, open, closed>>

\* Without a query: the file so far; the same handle goes on.
PrintFile ==
  /\ follow.at = "print"
  /\ follow' = [follow EXCEPT !.at = "tail", !.shown = Printed(Pieces(Start)), !.pos = End]
  /\ UNCHANGED engineVars

\* With one: the backend reads the file for itself.
SearchFile ==
  /\ follow.at = "search"
  /\ LET found == Search(follow.query, [i \in DOMAIN file |-> Parsed(Pieces(Start)[i])]) IN
     follow' = [follow EXCEPT !.at = "open",
                              !.searched = Len(file),
                              !.shown = [i \in DOMAIN found |-> Pieces(Start)[found[i]]]]
  /\ UNCHANGED engineVars

\* open, then seek to the end.
OpenAtEnd ==
  /\ follow.at = "open"
  /\ follow' = [follow EXCEPT !.at = "tail", !.pos = End, !.opened = Len(file)]
  /\ UNCHANGED engineVars

\* readline returns what there is, to the end of the line or of the file.
ReadLine ==
  /\ follow.at = "tail" /\ Pieces(follow.pos) # <<>>
  /\ LET p == Head(Pieces(follow.pos)) IN
     follow' = [follow EXCEPT !.shown = Printed(<<p>>), !.pos = After(p)]
  /\ UNCHANGED engineVars

NothingNew ==
  /\ follow.at = "tail" /\ Pieces(follow.pos) = <<>>
  /\ follow' = [follow EXCEPT !.at = "poll"]
  /\ UNCHANGED engineVars

\* MUTANT: an ended job is one that completed or failed.
PollEnded ==
  /\ follow.at = "poll"
  /\ follow' = [follow EXCEPT !.at = IF status = "ENDED" THEN "drain" ELSE "tail"]
  /\ UNCHANGED engineVars

\* The row alone, without the check that its engine lives.
PollStatus ==
  /\ follow.at = "poll"
  /\ follow' = [follow EXCEPT !.at = IF status # "RUNNING" THEN "drain" ELSE "tail"]
  /\ UNCHANGED engineVars

\* MUTANT: the lines written since the last readline are not read.
EndAtOnce ==
  /\ follow.at = "drain"
  /\ follow' = [follow EXCEPT !.at = "done"]
  /\ UNCHANGED engineVars

\* What was written between the last readline and the status.
Drain ==
  /\ follow.at = "drain"
  /\ follow' = [follow EXCEPT !.at = "done", !.shown = Printed(Pieces(follow.pos)), !.pos = End]
  /\ UNCHANGED engineVars

Follow ==
  \/ PrintFile \/ SearchFile \/ OpenAtEnd \/ ReadLine \/ NothingNew \/ PollStatus \/ Drain

Next ==
  \/ WriteLine \/ WriteHead \/ WriteRest \/ Finish \/ Stopped \/ Killed \/ Reconcile \/ Resume
  \/ Follow

\* The command is scheduled, a run comes to its end, a long write too, and
\* some other reader notices a dead engine.
FairSpec ==
  /\ Init /\ [][Next]_vars
  /\ WF_vars(Follow) /\ WF_vars(WriteRest) /\ WF_vars(Finish) /\ WF_vars(Reconcile)

-----------------------------------------------------------------------------
(* Properties.                                                             *)

Times(i, part) == Cardinality({k \in DOMAIN follow.shown : follow.shown[k] = [line |-> i, part |-> part]})

\* The line is on the terminal once, at one go or in its two parts.
Once(i) ==
  \/ Times(i, "whole") = 1 /\ Times(i, "head") = 0 /\ Times(i, "rest") = 0
  \/ Times(i, "whole") = 0 /\ Times(i, "head") = 1 /\ Times(i, "rest") = 1

InOrder == \A j, k \in DOMAIN follow.shown : j < k => follow.shown[j].line <= follow.shown[k].line

\* A record the query keeps, in a line of its own that no reader sees in part.
Wanted(i) == file[i].whole /\ ~file[i].long /\ Matches(follow.query, file[i].rec)

\* A follow without a query that has ended by itself has printed every line the
\* engine wrote while the job was RUNNING, once and in order, its last words
\* before the final status included.  One with a query has printed no line of
\* them twice and every matching record, but for those written between its
\* search and its open, and those its `limit` cut off.
FollowComplete ==
  [][follow.at # "done" /\ follow'.at = "done" =>
       IF follow.raw THEN InOrder' /\ \A i \in 1..closed : Once(i)'
       ELSE \A i \in 1..closed :
              /\ Times(i, "whole")' <= 1
              /\ Wanted(i) /\ (i > follow.opened \/ (i <= follow.searched /\ follow.query.limit < 0))
                   => Times(i, "whole")' = 1]_vars

\* A follow comes to its end, however the run it follows does: completed,
\* failed, stopped or killed.
FollowEnds == <>(follow.at = "done")
=============================================================================
