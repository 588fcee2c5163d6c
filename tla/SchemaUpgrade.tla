--------------------------- MODULE SchemaUpgrade ---------------------------
(***************************************************************************)
(* Database.init_db (storage/database.py): every command of the CLI opens  *)
(* the database and, unless its user_version is the current one, runs the  *)
(* same list of statements over it, whatever it finds there: create what   *)
(* is missing, add columns, rebuild two tables, mark what is older than    *)
(* the token records, write the version.  Commands run side by side and    *)
(* may die between any two statements.                                     *)
(*                                                                         *)
(* The transactions are those of Python's sqlite3 with its default         *)
(* isolation level: a CREATE or ALTER outside a transaction commits by     *)
(* itself; a SAVEPOINT outside one opens it and its RELEASE commits; the   *)
(* first UPDATE outside one opens it until conn.commit(), and what follows *)
(* is part of it.  A statement that finds the file locked waits, and gives *)
(* up after sqlite3's five seconds.                                        *)
(*                                                                         *)
(* A column is its name; every table has an id column.  Of the rows of the *)
(* database one legacy row per table is told apart, and one new job, with  *)
(* its task, per command.                                                  *)
(***************************************************************************)
EXTENDS Integers, Sequences

CONSTANTS
  Cmd,         \* commands of the CLI running over this database
  Legacy,      \* versions of an earlier release the database may come from
  MaxFailures  \* bound: how often a command is killed or finds the file locked too long

Current == 12
Fresh == -1    \* no database yet

ASSUME LegacyAssumption == Legacy \subseteq 0..(Current - 1) \cup {Fresh}
ASSUME MaxFailuresAssumption == MaxFailures \in Nat

Old == "old"
ASSUME OldAssumption == Old \notin Cmd

\* Tables, and the columns the upgrade looks at; the rest come with the table.
Durable == {"jobs", "tasks", "executions", "loops", "loop_steps", "agent_runs"}
Table == Durable \cup {"tasks_new", "executions_new"}
TaskText == {"base_commit", "goal", "assignee", "harness", "model"}

\* The columns a CREATE TABLE of this release gives a table.
Created(t) ==
  CASE t = "jobs" -> {"id", "pid"}
    [] t \in {"tasks", "tasks_new"} -> {"id", "duration"} \cup TaskText
    [] t \in {"executions", "executions_new"} -> {"id", "hook_name", "exit_reason"}
    [] OTHER -> {"id"}

\* The columns of the complete schema.
Full(t) ==
  CASE t = "jobs" -> Created(t) \cup {"stop_reason", "tokens_untracked"}
    [] t = "loops" -> Created(t) \cup {"stop_reason", "tokens_untracked", "cwd"}
    [] OTHER -> Created(t)

-----------------------------------------------------------------------------
(* The statements of init_db, in order.  `add` and `mark` act on what the  *)
(* last `read` saw; `new` to `rename` are skipped unless the last check    *)
(* asked for a rebuild.                                                    *)

None == "none"    \* the table or column of a statement that has none

S(op, t, c) == [op |-> op, table |-> t, col |-> c]

Rebuild(t, check) ==
  << S(check, t, None), S("new", t, None), S("copy", t, None), S("drop", t, None),
     S("rename", t, None), S("release", t, None) >>

ReadAdd(t, c) == << S("read", t, None), S("add", t, c) >>

ReadAddMark(t) == ReadAdd(t, "tokens_untracked") \o << S("mark", t, "tokens_untracked") >>

Program ==
  << S("version", None, None), S("create", "jobs", None) >> \o ReadAdd("jobs", "pid")
  \o << S("create", "tasks", None), S("read", "tasks", None),
        S("add", "tasks", "base_commit"), S("add", "tasks", "goal"),
        S("add", "tasks", "assignee"), S("add", "tasks", "harness"),
        S("add", "tasks", "duration"), S("add", "tasks", "model"),
        S("backfill", "tasks", None) >>
  \o Rebuild("tasks", "nullable")
  \o << S("create", "executions", None) >>
  \o ReadAdd("executions", "hook_name") \o ReadAdd("executions", "exit_reason")
  \o Rebuild("executions", "output") \o Rebuild("tasks", "output")
  \o << S("create", "loops", None), S("create", "loop_steps", None) >>
  \o ReadAdd("jobs", "stop_reason") \o ReadAdd("loops", "stop_reason")
  \o << S("create", "agent_runs", None) >>
  \o ReadAddMark("jobs") \o ReadAddMark("loops")
  \o ReadAdd("loops", "cwd")
  \o << S("done", None, None) >>

Ready == Len(Program) + 1    \* init_db has returned

-----------------------------------------------------------------------------
VARIABLES
  origin,   \* the release the database comes from
  disk,     \* the committed database
  tx,       \* per command: what its open transaction has made of it
  pc,       \* per command: 0 not running, its statement, or past them
  seen,     \* per command: the columns its last PRAGMA table_info returned
  rebuild,  \* per command: the last check asked for a rebuild
  made,     \* commands whose new job is in the database
  failures

vars == <<origin, disk, tx, pc, seen, rebuild, made, failures>>

NoTx == [version |-> Fresh]

\* The tables a release v left: its columns, its rows, its nullable durations.
LegacyColumns(v, t) ==
  LET since(c) == CASE c \in {"stop_reason"} -> 9
                    [] c = "tokens_untracked" -> 11
                    [] c = "cwd" -> 12
                    [] c = "id" -> CASE t \in {"loops", "loop_steps"} -> 6
                                     [] t = "agent_runs" -> 11
                                     [] OTHER -> 0
                    [] OTHER -> 3
  IN  IF t \notin Durable \/ v = Fresh THEN {}
      ELSE {c \in Full(t) : since(c) <= v}
           \cup (IF v < 4 /\ t \in {"tasks", "executions"} THEN {"output"} ELSE {})

LegacyRows(v, t) == IF "id" \in LegacyColumns(v, t) THEN {Old} ELSE {}

LegacyDb(v) ==
  [version |-> IF v = Fresh THEN 0 ELSE v,
   cols |-> [t \in Table |-> LegacyColumns(v, t)],
   rows |-> [t \in Table |-> LegacyRows(v, t)],
   notNull |-> v > 3,
   nullDur |-> IF v = 3 THEN {Old} ELSE {},
   untracked |-> [t \in {"jobs", "loops"} |-> {}]]

Init ==
  /\ origin \in Legacy
  /\ disk = LegacyDb(origin)
  /\ tx = [p \in Cmd |-> NoTx]
  /\ pc = [p \in Cmd |-> 0]
  /\ seen = [p \in Cmd |-> {}]
  /\ rebuild = [p \in Cmd |-> FALSE]
  /\ made = {} /\ failures = 0

-----------------------------------------------------------------------------
View(p) == IF tx[p] = NoTx THEN disk ELSE tx[p]

Holds(p) == tx[p] # NoTx
Unlocked(p) == \A q \in Cmd \ {p} : ~Holds(q)

At(p, ops) == pc[p] \in 1..Len(Program) /\ Program[pc[p]].op \in ops
Stmt(p) == Program[pc[p]]
Tab(p) == Stmt(p).table
NewTab(p) == IF Tab(p) = "tasks" THEN "tasks_new" ELSE "executions_new"

Advance(p) == pc' = [pc EXCEPT ![p] = @ + 1]

\* A statement that opens a transaction, and one that commits unless in one.
Within(p, db) == Unlocked(p) /\ tx' = [tx EXCEPT ![p] = db] /\ UNCHANGED disk
Write(p, db) ==
  IF Holds(p) THEN Within(p, db)
  ELSE Unlocked(p) /\ disk' = db /\ UNCHANGED tx

Commit(p) ==
  IF Holds(p) THEN disk' = tx[p] /\ tx' = [tx EXCEPT ![p] = NoTx]
  ELSE UNCHANGED <<disk, tx>>

\* The command dies or raises: its transaction is rolled back.
Abandon(p) ==
  /\ tx' = [tx EXCEPT ![p] = NoTx]
  /\ pc' = [pc EXCEPT ![p] = 0]
  /\ seen' = [seen EXCEPT ![p] = {}]
  /\ rebuild' = [rebuild EXCEPT ![p] = FALSE]
  /\ UNCHANGED <<origin, disk, made>>

-----------------------------------------------------------------------------
local == <<seen, rebuild>>
world == <<origin, made, failures>>

\* A command of the user; it is issued again when an earlier one failed.
Start(p) ==
  /\ pc[p] = 0
  /\ pc' = [pc EXCEPT ![p] = 1]
  /\ UNCHANGED <<disk, tx, local, world>>

\* MUTANT: the column of the last release came without a new version.
ReadOldVersion(p) ==
  /\ At(p, {"version"})
  /\ pc' = [pc EXCEPT ![p] = IF disk.version >= Current - 1 THEN Ready ELSE @ + 1]
  /\ UNCHANGED <<disk, tx, local, world>>

\* The guard: an up to date database is left alone.
ReadVersion(p) ==
  /\ At(p, {"version"})
  /\ pc' = [pc EXCEPT ![p] = IF disk.version = Current THEN Ready ELSE @ + 1]
  /\ UNCHANGED <<disk, tx, local, world>>

\* CREATE TABLE IF NOT EXISTS.
CreateTable(p) ==
  /\ At(p, {"create"})
  /\ LET db == View(p) IN
     IF db.cols[Tab(p)] # {} THEN UNCHANGED <<disk, tx>>
     ELSE Write(p, [db EXCEPT !.cols[Tab(p)] = Created(Tab(p)),
                              !.notNull = @ \/ Tab(p) = "tasks"])
  /\ Advance(p) /\ UNCHANGED <<local, world>>

ReadColumns(p) ==
  /\ At(p, {"read"})
  /\ seen' = [seen EXCEPT ![p] = View(p).cols[Tab(p)]]
  /\ Advance(p) /\ UNCHANGED <<disk, tx, rebuild, world>>

\* ALTER TABLE ADD COLUMN of a column that was not seen.  Another command may
\* have added it since: then the statement raises.
AddColumn(p) ==
  /\ At(p, {"add"}) /\ Stmt(p).col \notin seen[p]
  /\ LET db == View(p) IN
     /\ Stmt(p).col \notin db.cols[Tab(p)]
     /\ Write(p, [db EXCEPT !.cols[Tab(p)] = @ \cup {Stmt(p).col},
                            !.nullDur = IF Stmt(p).col = "duration"
                                        THEN db.rows["tasks"] ELSE @])
  /\ Advance(p) /\ UNCHANGED <<local, world>>

DuplicateColumn(p) ==
  /\ At(p, {"add"}) /\ Stmt(p).col \notin seen[p]
  /\ Unlocked(p) /\ Stmt(p).col \in View(p).cols[Tab(p)]
  /\ Abandon(p) /\ UNCHANGED failures

\* SAVEPOINT dur_migration and the UPDATE that gives a duration to every task.
BackfillDuration(p) ==
  /\ At(p, {"backfill"})
  /\ Within(p, [View(p) EXCEPT !.nullDur = {}])
  /\ Advance(p) /\ UNCHANGED <<local, world>>

NeedsRebuild(p) ==
  IF Stmt(p).op = "nullable" THEN ~View(p).notNull ELSE "output" \in View(p).cols[Tab(p)]

CheckTable(p) ==
  /\ At(p, {"nullable", "output"})
  /\ rebuild' = [rebuild EXCEPT ![p] = NeedsRebuild(p)]
  /\ Advance(p) /\ UNCHANGED <<disk, tx, seen, world>>

-----------------------------------------------------------------------------
(* A table rebuild, inside its savepoint.                                  *)

Rebuilding(p, op) == At(p, {op}) /\ rebuild[p]

\* MUTANT: the rebuild without its savepoint.
CreateNewAlone(p) ==
  /\ Rebuilding(p, "new")
  /\ Write(p, [View(p) EXCEPT !.cols[NewTab(p)] = Created(NewTab(p)),
                              !.rows[NewTab(p)] = {}])
  /\ Advance(p) /\ UNCHANGED <<local, world>>

CreateNew(p) ==
  /\ Rebuilding(p, "new")
  /\ Within(p, [View(p) EXCEPT !.cols[NewTab(p)] = Created(NewTab(p)),
                               !.rows[NewTab(p)] = {}])
  /\ Advance(p) /\ UNCHANGED <<local, world>>

\* MUTANT: the column list comes from the old table.
CopyOldColumns(p) ==
  /\ Rebuilding(p, "copy")
  /\ LET db == View(p) IN
     /\ db.cols[Tab(p)] \subseteq db.cols[NewTab(p)]
     /\ Write(p, [db EXCEPT !.rows[NewTab(p)] = db.rows[Tab(p)]])
  /\ Advance(p) /\ UNCHANGED <<local, world>>

\* INSERT INTO t_new (the columns of t_new) SELECT them FROM t: it raises when t
\* lacks one of them or has a null where t_new allows none.
CopyRows(p) ==
  /\ Rebuilding(p, "copy")
  /\ LET db == View(p) IN
     /\ db.cols[NewTab(p)] \subseteq db.cols[Tab(p)]
     /\ Tab(p) = "tasks" => db.nullDur = {}
     /\ Write(p, [db EXCEPT !.rows[NewTab(p)] = db.rows[Tab(p)]])
  /\ Advance(p) /\ UNCHANGED <<local, world>>

DropOld(p) ==
  /\ Rebuilding(p, "drop")
  /\ Write(p, [View(p) EXCEPT !.cols[Tab(p)] = {}, !.rows[Tab(p)] = {}])
  /\ Advance(p) /\ UNCHANGED <<local, world>>

RenameNew(p) ==
  /\ Rebuilding(p, "rename")
  /\ LET db == View(p) IN
     Write(p, [db EXCEPT !.cols[Tab(p)] = db.cols[NewTab(p)], !.cols[NewTab(p)] = {},
                         !.rows[Tab(p)] = db.rows[NewTab(p)], !.rows[NewTab(p)] = {},
                         !.notNull = @ \/ Tab(p) = "tasks"])
  /\ Advance(p) /\ UNCHANGED <<local, world>>

Release(p) ==
  /\ At(p, {"release"})
  /\ Commit(p)
  /\ Advance(p) /\ UNCHANGED <<local, world>>

-----------------------------------------------------------------------------
\* UPDATE t SET tokens_untracked = 1, right after the ALTER that added it.
MarkUntracked(p) ==
  /\ At(p, {"mark"}) /\ Stmt(p).col \notin seen[p]
  /\ LET db == View(p) IN
     Within(p, [db EXCEPT !.untracked[Tab(p)] = db.rows[Tab(p)]])
  /\ Advance(p) /\ UNCHANGED <<local, world>>

\* What an IF of the source passes over.
PassOver(p) ==
  /\ \/ At(p, {"add", "mark"}) /\ Stmt(p).col \in seen[p]
     \/ At(p, {"new", "copy", "drop", "rename"}) /\ ~rebuild[p]
  /\ Advance(p) /\ UNCHANGED <<disk, tx, local, world>>

\* PRAGMA user_version, then conn.commit(): with the marks when they were made.
SetVersion(p) ==
  /\ At(p, {"done"}) /\ Unlocked(p)
  /\ disk' = [View(p) EXCEPT !.version = Current]
  /\ tx' = [tx EXCEPT ![p] = NoTx]
  /\ Advance(p) /\ UNCHANGED <<local, world>>

\* The command does its own work: `mini job new` inserts a job and its tasks.
CreateJob(p) ==
  /\ pc[p] = Ready /\ Unlocked(p)
  /\ disk' = [disk EXCEPT !.rows["jobs"] = @ \cup {p}, !.rows["tasks"] = @ \cup {p}]
  /\ made' = made \cup {p}
  /\ pc' = [pc EXCEPT ![p] = 0]
  /\ UNCHANGED <<origin, tx, local, failures>>

\* Five seconds on a locked file: the command raises.
LockTimeout(p) ==
  /\ pc[p] > 1 /\ ~Unlocked(p) /\ failures < MaxFailures
  /\ failures' = failures + 1
  /\ Abandon(p)

Crash(p) ==
  /\ pc[p] # 0 /\ failures < MaxFailures
  /\ failures' = failures + 1
  /\ Abandon(p)

-----------------------------------------------------------------------------
Step(p) ==
  \/ ReadVersion(p) \/ CreateTable(p) \/ ReadColumns(p) \/ AddColumn(p)
  \/ DuplicateColumn(p) \/ BackfillDuration(p) \/ CheckTable(p)
  \/ CreateNew(p) \/ CopyRows(p) \/ DropOld(p) \/ RenameNew(p) \/ Release(p)
  \/ MarkUntracked(p) \/ PassOver(p) \/ SetVersion(p) \/ CreateJob(p)

Next == \E p \in Cmd : (Start(p) /\ p \notin made) \/ Step(p) \/ LockTimeout(p) \/ Crash(p)

Spec == Init /\ [][Next]_vars

\* A command that runs goes on, and a failed one is issued again.
FairSpec == Spec /\ \A p \in Cmd : WF_vars(Step(p)) /\ WF_vars(Start(p) /\ p \notin made)

-----------------------------------------------------------------------------
(* Properties.                                                             *)

Complete(db) ==
  /\ \A t \in Durable : db.cols[t] = Full(t)
  /\ \A t \in Table \ Durable : db.cols[t] = {}
  /\ db.notNull /\ db.nullDur = {}

\* No statement, failure or kill ever takes a committed row away: the rebuilds
\* drop a table only inside the savepoint that brings its rows back.
RowsKept == [][\A t \in Durable : disk.rows[t] \subseteq disk'.rows[t]]_vars

\* A command past init_db works on the complete schema: so does every later one,
\* whatever other commands still do to the same tables.
SchemaComplete ==
  \A p \in Cmd : pc[p] = Ready \/ disk.version = Current => Complete(disk)

\* Commands that fail on each other's statements do not fail for ever: once
\* nobody is killed and no lock is held for seconds any more, every command
\* gets its schema and does its work.
CommandsFinish == <>(made = Cmd)

\* Only the jobs and loops from before the token records are marked untracked,
\* and all of those are ("Marked only in the step that adds the column, so it
\* runs once; new rows get 0").
UntrackedIsOld ==
  disk.version = Current =>
    \A t \in {"jobs", "loops"} :
      disk.untracked[t] = IF origin < 11 THEN LegacyRows(origin, t) ELSE {}
=============================================================================
