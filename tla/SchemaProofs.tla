---------------------------- MODULE SchemaProofs ----------------------------
(***************************************************************************)
(* What init_db keeps and reaches, for any number of commands that open    *)
(* the database at once, fail and are killed, from every earlier release.  *)
(***************************************************************************)
EXTENDS SchemaUpgrade, TLAPS

Column == {"id", "pid", "duration", "base_commit", "goal", "assignee", "harness", "model",
           "hook_name", "exit_reason", "stop_reason", "tokens_untracked", "cwd", "output"}

Db == [version : 0..Current, cols : [Table -> SUBSET Column], rows : [Table -> SUBSET (Cmd \cup {Old})],
       notNull : BOOLEAN, nullDur : SUBSET (Cmd \cup {Old}),
       untracked : [{"jobs", "loops"} -> SUBSET (Cmd \cup {Old})]]

TypeOK ==
  /\ disk \in Db
  /\ tx \in [Cmd -> Db \cup {NoTx}]
  /\ pc \in [Cmd -> 0..Ready]
  /\ seen \in [Cmd -> SUBSET Column]
  /\ rebuild \in [Cmd -> BOOLEAN]

-----------------------------------------------------------------------------
(* Databases.                                                              *)

\* A database has what an earlier state of it had, but for a column that the
\* rebuilds are there to take away.
Keeps(a, b) ==
  /\ \A t \in Durable : a.rows[t] \subseteq b.rows[t]
  /\ \A t \in Durable : a.cols[t] \ {"output"} \subseteq b.cols[t]
  /\ \A t \in Durable : a.cols[t] # {} /\ "output" \notin a.cols[t] => "output" \notin b.cols[t]
  /\ a.notNull => b.notNull
  /\ "duration" \in a.cols["tasks"] /\ a.nullDur = {} => b.nullDur = {}

\* Only columns of the schema, and the one the rebuilds take away.
Known(db) ==
  \A t \in Durable :
    /\ db.cols[t] \subseteq Full(t) \cup (IF t \in {"tasks", "executions"} THEN {"output"} ELSE {})
    /\ db.cols[t] # {} => "id" \in db.cols[t]

\* What statement j leaves behind, and what no later statement undoes.
Done(j, db) ==
  LET s == Program[j] IN
  /\ s.op = "create" => "id" \in db.cols[s.table]
  /\ s.op = "add" => s.col \in db.cols[s.table]
  /\ s.op = "backfill" => "duration" \in db.cols["tasks"] /\ db.nullDur = {}

\* What the check j asks a rebuild for.
Rebuilt(j, db) ==
  IF Program[j].op = "nullable" THEN db.notNull
  ELSE "id" \in db.cols[Program[j].table] /\ "output" \notin db.cols[Program[j].table]

Checks == {"nullable", "output"}

\* A command at statement i has all this behind it.
Past(i, skipped, db) ==
  /\ \A j \in 1..(i - 1) : Done(j, db)
  /\ \A j \in 1..(i - 1) : Program[j].op \in Checks /\ (skipped \/ i > j + 3) => Rebuilt(j, db)

-----------------------------------------------------------------------------
(* Commands.                                                               *)

\* Between the DROP of a table and the RENAME of its successor.
MidDrop(p) == At(p, {"rename"}) /\ rebuild[p]

\* What a command's transaction will have made of the database then.
Due(p) ==
  LET db == View(p) IN
  IF MidDrop(p)
  THEN [db EXCEPT !.cols[Tab(p)] = db.cols[NewTab(p)], !.cols[NewTab(p)] = {},
                  !.rows[Tab(p)] = db.rows[NewTab(p)], !.rows[NewTab(p)] = {},
                  !.notNull = @ \/ Tab(p) = "tasks"]
  ELSE db

\* The statements between which a transaction may be open.
MayHold == 14..19 \cup 27..30 \cup 33..36 \cup 47..52

\* The successor of a table exists only while its rebuild is under way.
Building(p, t) == At(p, {"copy", "drop"}) /\ rebuild[p] /\ t = NewTab(p)

CommandInv(p) ==
  /\ Holds(p) => pc[p] \in MayHold
  /\ Holds(p) => Due(p).version = disk.version
  /\ At(p, {"copy", "drop", "rename", "release"}) /\ rebuild[p] => Holds(p)
  /\ Keeps(disk, Due(p))
  /\ Known(Due(p))
  /\ \A t \in Table \ Durable : Building(p, t) \/ Due(p).cols[t] = {}
  /\ At(p, {"copy", "drop"}) /\ rebuild[p] => View(p).cols[NewTab(p)] = Created(NewTab(p))
  /\ At(p, {"drop"}) /\ rebuild[p] => View(p).rows[NewTab(p)] = View(p).rows[Tab(p)]
  /\ At(p, {"add", "mark"}) => seen[p] \ {"output"} \subseteq Due(p).cols[Tab(p)]
  /\ pc[p] > 1 => Past(pc[p], ~rebuild[p], Due(p))

DiskInv ==
  /\ Known(disk)
  /\ \A t \in Table \ Durable : disk.cols[t] = {}
  /\ disk.version = Current => Complete(disk)

OneHolder == \A p, q \in Cmd : Holds(p) /\ Holds(q) => p = q

SchemaInv == TypeOK /\ OneHolder /\ DiskInv /\ \A p \in Cmd : CommandInv(p)

-----------------------------------------------------------------------------
(* The statements of init_db.                                              *)

LEMMA Length == Len(Program) = 52 /\ Ready = 53
BY DEF Program, Ready, Rebuild, ReadAdd, ReadAddMark, S, None

\* The complete schema, column by column.
LEMMA Schema ==
  /\ Full("jobs") = {"id", "pid", "stop_reason", "tokens_untracked"}
  /\ Full("tasks") = {"id", "duration"} \cup TaskText
  /\ Full("executions") = {"id", "hook_name", "exit_reason"}
  /\ Full("loops") = {"id", "stop_reason", "tokens_untracked", "cwd"}
  /\ Full("loop_steps") = {"id"} /\ Full("agent_runs") = {"id"}
  /\ Created("tasks_new") = Full("tasks") /\ Created("executions_new") = Full("executions")
BY DEF Full, Created

LEMMA SchemaOf ==
  ASSUME NEW t \in Durable
  PROVE  /\ Created(t) \subseteq Full(t) /\ Full(t) \subseteq Column /\ "output" \notin Full(t)
         /\ "id" \in Created(t)
         /\ t = "tasks" => "duration" \in Created(t)
<1>1. t \in {"jobs", "tasks", "executions", "loops", "loop_steps", "agent_runs"}
  BY DEF Durable
<1>2. QED BY <1>1 DEF Full, Created, TaskText, Column

\* What the statements are about.
LEMMA Subjects ==
  ASSUME NEW i \in 1..52
  PROVE  /\ Program[i].op \notin {"version", "done"} => Program[i].table \in Durable
         /\ Program[i].op = "mark" => Program[i].table \in {"jobs", "loops"}
         /\ Program[i].op \in {"new", "copy", "drop", "rename"} =>
              Program[i].table \in {"tasks", "executions"}
         /\ Program[i].op = "output" => Program[i].table \in {"tasks", "executions"}
         /\ Program[i].op = "nullable" => Program[i].table = "tasks"
<1>1. Program[i].table \in {"jobs", "tasks", "executions", "loops", "loop_steps", "agent_runs", "none"}
  BY DEF Program, Rebuild, ReadAdd, ReadAddMark, S, None
<1>2. Program[i].op = "mark" => Program[i].table \in {"jobs", "loops"}
  BY DEF Program, Rebuild, ReadAdd, ReadAddMark, S, None
<1>3. Program[i].op \in {"new", "copy", "drop", "rename", "output"} =>
        Program[i].table \in {"tasks", "executions"}
  BY DEF Program, Rebuild, ReadAdd, ReadAddMark, S, None
<1>4. Program[i].op = "nullable" => Program[i].table = "tasks"
  BY DEF Program, Rebuild, ReadAdd, ReadAddMark, S, None
<1>5. Program[i].table = "none" => Program[i].op \in {"version", "done"}
  BY DEF Program, Rebuild, ReadAdd, ReadAddMark, S, None
<1>6. QED BY <1>1, <1>2, <1>3, <1>4, <1>5 DEF Durable

\* The columns that are added are those of the schema.
LEMMA AddedColumns ==
  ASSUME NEW i \in 1..52, Program[i].op = "add"
  PROVE  Program[i].col \in Full(Program[i].table)
<1>1. Program[i].table \in {"jobs", "tasks", "executions", "loops"}
  BY DEF Program, Rebuild, ReadAdd, ReadAddMark, S, None
<1>2. Program[i].table = "jobs" => Program[i].col \in {"pid", "stop_reason", "tokens_untracked"}
  BY DEF Program, Rebuild, ReadAdd, ReadAddMark, S, None
<1>3. Program[i].table = "tasks" =>
        Program[i].col \in {"duration", "base_commit", "goal", "assignee", "harness", "model"}
  BY DEF Program, Rebuild, ReadAdd, ReadAddMark, S, None
<1>4. Program[i].table = "executions" => Program[i].col \in {"hook_name", "exit_reason"}
  BY DEF Program, Rebuild, ReadAdd, ReadAddMark, S, None
<1>5. Program[i].table = "loops" => Program[i].col \in {"stop_reason", "tokens_untracked", "cwd"}
  BY DEF Program, Rebuild, ReadAdd, ReadAddMark, S, None
<1>6. QED BY <1>1, <1>2, <1>3, <1>4, <1>5, Schema DEF TaskText

\* A rebuild follows its check, all on one table.
LEMMA RebuildSteps ==
  ASSUME NEW i \in 1..52
  PROVE  /\ Program[i].op \in Checks =>
              /\ i + 5 <= 52
              /\ Program[i + 1].op = "new" /\ Program[i + 2].op = "copy"
              /\ Program[i + 3].op = "drop" /\ Program[i + 4].op = "rename"
              /\ Program[i + 5].op = "release"
         /\ Program[i].op \in {"new", "copy", "drop"} =>
              i < 52 /\ Program[i + 1].table = Program[i].table
         /\ Program[i].op = "new" => Program[i + 1].op = "copy"
         /\ Program[i].op = "copy" => Program[i + 1].op = "drop"
         /\ Program[i].op = "drop" =>
              /\ Program[i + 1].op = "rename"
              /\ i > 3 /\ Program[i - 3].op \in Checks /\ Program[i - 3].table = Program[i].table
         /\ Program[i].op = "rename" => i < 52 /\ Program[i + 1].op = "release"
<1>1. Program[i].op \in Checks =>
        /\ i + 5 <= 52
        /\ Program[i + 1].op = "new" /\ Program[i + 2].op = "copy"
        /\ Program[i + 3].op = "drop" /\ Program[i + 4].op = "rename"
        /\ Program[i + 5].op = "release"
  <2>1. Program[i].op \in Checks => i \in {14, 25, 31}
    BY DEF Program, Rebuild, ReadAdd, ReadAddMark, S, None, Checks
  <2>2. \A k \in {14, 25, 31} :
          /\ Program[k + 1].op = "new" /\ Program[k + 2].op = "copy"
          /\ Program[k + 3].op = "drop" /\ Program[k + 4].op = "rename"
          /\ Program[k + 5].op = "release"
    BY DEF Program, Rebuild, ReadAdd, ReadAddMark, S, None
  <2>3. QED BY <2>1, <2>2
<1>2. Program[i].op \in {"new", "copy", "drop"} => i < 52 /\ Program[i + 1].table = Program[i].table
  BY DEF Program, Rebuild, ReadAdd, ReadAddMark, S, None
<1>3. /\ Program[i].op = "new" => Program[i + 1].op = "copy"
      /\ Program[i].op = "copy" => Program[i + 1].op = "drop"
  BY DEF Program, Rebuild, ReadAdd, ReadAddMark, S, None
<1>4. Program[i].op = "drop" => i > 3 /\ Program[i + 1].op = "rename"
  BY DEF Program, Rebuild, ReadAdd, ReadAddMark, S, None
<1>5. Program[i].op = "drop" =>
        Program[i - 3].op \in Checks /\ Program[i - 3].table = Program[i].table
  BY DEF Program, Rebuild, ReadAdd, ReadAddMark, S, None, Checks
<1>6. Program[i].op = "rename" => i < 52 /\ Program[i + 1].op = "release"
  BY DEF Program, Rebuild, ReadAdd, ReadAddMark, S, None
<1>7. QED BY <1>1, <1>2, <1>3, <1>4, <1>5, <1>6

\* What comes before: a rebuild step its predecessor, an added column its reading.
LEMMA Predecessors ==
  ASSUME NEW i \in 1..51
  PROVE  /\ Program[i + 1].op = "copy" => Program[i].op = "new"
         /\ Program[i + 1].op = "drop" => Program[i].op = "copy"
         /\ Program[i + 1].op = "rename" => Program[i].op = "drop"
         /\ Program[i + 1].op = "release" => Program[i].op = "rename"
         /\ Program[i + 1].op \in {"add", "mark"} =>
              Program[i].op \in {"read", "add"} /\ Program[i].table = Program[i + 1].table
BY DEF Program, Rebuild, ReadAdd, ReadAddMark, S, None

\* Where transactions open, go on and end.
LEMMA Transactions ==
  ASSUME NEW i \in 1..52
  PROVE  /\ Program[i].op \in {"backfill", "new", "mark"} => i + 1 \in MayHold
         /\ i \in MayHold /\ Program[i].op \notin {"release", "done"} => i + 1 \in MayHold
         /\ Program[i].op = "done" => i = 52
         /\ Program[i].op = "version" => i = 1
BY DEF Program, Rebuild, ReadAdd, ReadAddMark, S, None, MayHold

LEMMA Beginnings == 0 \notin MayHold /\ 1 \notin MayHold /\ 53 \notin MayHold
BY DEF MayHold

\* No check is within another's rebuild.
LEMMA ChecksApart ==
  ASSUME NEW i \in 1..52, NEW j \in 1..52, Program[i].op \in Checks, Program[j].op \in Checks, j < i
  PROVE  i > j + 3
BY DEF Program, Rebuild, ReadAdd, ReadAddMark, S, None, Checks

\* The durations are filled in after their column was added.
LEMMA DurationAdded ==
  ASSUME NEW i \in 1..52, Program[i].op = "backfill"
  PROVE  11 < i /\ Program[11].op = "add" /\ Program[11].table = "tasks" /\ Program[11].col = "duration"
BY DEF Program, Rebuild, ReadAdd, ReadAddMark, S, None

-----------------------------------------------------------------------------
(* Types.                                                                  *)

\* A transaction is told from none by its version.
LEMMA NoneIsNone == ASSUME NEW db \in Db PROVE db # NoTx
<1>1. db.version \in 0..12
  BY DEF Db, Current
<1>2. NoTx.version = -1
  BY DEF NoTx, Fresh
<1>3. QED BY <1>1, <1>2

LEMMA Views ==
  ASSUME TypeOK, NEW p \in Cmd
  PROVE  /\ View(p) \in Db
         /\ Holds(p) => tx[p] \in Db /\ View(p) = tx[p]
         /\ ~Holds(p) => tx[p] = NoTx /\ View(p) = disk
<1>1. tx[p] \in Db \cup {NoTx} /\ disk \in Db
  BY DEF TypeOK
<1>2. QED BY <1>1 DEF View, Holds

LEMMA TypeInit == Init => TypeOK
<1> SUFFICES ASSUME Init PROVE TypeOK
  OBVIOUS
<1>1. origin \in 0..11 \cup {-1}
  BY LegacyAssumption DEF Init, Current, Fresh
<1>2. \A t \in Table : LegacyColumns(origin, t) \in SUBSET Column
  <2> TAKE t \in Table
  <2>1. CASE t \notin Durable \/ origin = Fresh
    BY <2>1 DEF LegacyColumns
  <2>2. CASE t \in Durable /\ origin # Fresh
    <3>1. LegacyColumns(origin, t) \subseteq Full(t) \cup {"output"}
      BY <2>2 DEF LegacyColumns
    <3>2. QED BY <3>1, <2>2, SchemaOf DEF Column
  <2>3. QED BY <2>1, <2>2
<1>3. \A t \in Table : LegacyRows(origin, t) \in SUBSET (Cmd \cup {Old})
  BY DEF LegacyRows
<1>4. LegacyDb(origin) \in Db
  BY <1>1, <1>2, <1>3, SMTT(30) DEF LegacyDb, Db, Current, Fresh
<1>5. QED BY <1>4, Length DEF Init, TypeOK

LEMMA WriteType ==
  ASSUME TypeOK, NEW p \in Cmd, NEW db \in Db, Write(p, db) \/ Within(p, db)
  PROVE  disk' \in Db /\ tx' \in [Cmd -> Db \cup {NoTx}]
BY DEF Write, Within, TypeOK

LEMMA AdvanceType ==
  ASSUME TypeOK, NEW p \in Cmd, pc[p] \in 1..52, Advance(p)
  PROVE  pc' \in [Cmd -> 0..Ready] /\ pc'[p] = pc[p] + 1
BY Length DEF Advance, TypeOK

\* The database a statement makes, by the statement.
LEMMA Statements ==
  ASSUME NEW db \in Db, NEW t \in Table, NEW u \in Table, NEW C \in SUBSET Column,
         NEW R \in SUBSET (Cmd \cup {Old}), NEW N \in SUBSET (Cmd \cup {Old}), NEW b \in BOOLEAN
  PROVE  /\ [db EXCEPT !.cols[t] = C, !.notNull = b] \in Db
         /\ [db EXCEPT !.cols[t] = C, !.nullDur = N] \in Db
         /\ [db EXCEPT !.nullDur = N] \in Db
         /\ [db EXCEPT !.cols[t] = C, !.rows[t] = R] \in Db
         /\ [db EXCEPT !.rows[t] = R] \in Db
         /\ [db EXCEPT !.cols[t] = C, !.cols[u] = {}, !.rows[t] = R, !.rows[u] = {},
                       !.notNull = b] \in Db
         /\ [db EXCEPT !.untracked[t] = R] \in Db
         /\ [db EXCEPT !.version = Current] \in Db
<1>1. [db EXCEPT !.cols[t] = C, !.notNull = b] \in Db
  BY DEF Db
<1>2. [db EXCEPT !.cols[t] = C, !.nullDur = N] \in Db
  BY DEF Db
<1>3. [db EXCEPT !.nullDur = N] \in Db
  BY DEF Db
<1>4. [db EXCEPT !.cols[t] = C, !.rows[t] = R] \in Db
  BY DEF Db
<1>5. [db EXCEPT !.rows[t] = R] \in Db
  BY DEF Db
<1>6. [db EXCEPT !.cols[t] = C, !.cols[u] = {}, !.rows[t] = R, !.rows[u] = {},
                 !.notNull = b] \in Db
  BY DEF Db
<1>7. [db EXCEPT !.untracked[t] = R] \in Db
  BY DEF Db
<1>8. [db EXCEPT !.version = Current] \in Db
  BY DEF Db, Current
<1>9. QED BY <1>1, <1>2, <1>3, <1>4, <1>5, <1>6, <1>7, <1>8

LEMMA AbandonType == ASSUME TypeOK, NEW p \in Cmd, Abandon(p) PROVE TypeOK'
BY Length DEF Abandon, TypeOK

LEMMA AtStatement ==
  ASSUME NEW p \in Cmd, NEW ops, At(p, ops)
  PROVE  pc[p] \in 1..52 /\ Stmt(p) = Program[pc[p]] /\ Tab(p) = Program[pc[p]].table
         /\ Program[pc[p]].op \in ops
BY Length DEF At, Stmt, Tab

\* The table of a statement that has one.
LEMMA AtTable ==
  ASSUME NEW p \in Cmd, NEW ops, At(p, ops), "version" \notin ops, "done" \notin ops
  PROVE  Tab(p) \in Durable /\ Tab(p) \in Table
<1>1. /\ pc[p] \in 1..52 /\ Tab(p) = Program[pc[p]].table
      /\ Program[pc[p]].op # "version" /\ Program[pc[p]].op # "done"
  BY AtStatement
<1>2. Tab(p) \in Durable
  BY <1>1, Subjects
<1>3. QED BY <1>2 DEF Table

LEMMA TypeNext == TypeOK /\ [Next]_vars => TypeOK'
<1> SUFFICES ASSUME TypeOK, [Next]_vars PROVE TypeOK'
  OBVIOUS
<1>1. CASE UNCHANGED vars
  BY <1>1 DEF TypeOK, vars
<1>2. ASSUME NEW p \in Cmd, Start(p) PROVE TypeOK'
  BY <1>2, Length DEF Start, TypeOK, local, world
<1>3. ASSUME NEW p \in Cmd, ReadVersion(p) PROVE TypeOK'
  <2>1. pc' \in [Cmd -> 0..Ready]
    BY <1>3, AtStatement, Length DEF ReadVersion, TypeOK
  <2>2. QED BY <1>3, <2>1 DEF ReadVersion, TypeOK, local, world
<1>4. ASSUME NEW p \in Cmd, CreateTable(p) PROVE TypeOK'
  <2>1. At(p, {"create"}) /\ Advance(p) /\ UNCHANGED local
    BY <1>4 DEF CreateTable
  <2>2. pc[p] \in 1..52 /\ Tab(p) \in Durable
    BY <2>1, AtStatement, AtTable
  <2>3. disk' \in Db /\ tx' \in [Cmd -> Db \cup {NoTx}]
    <3>1. CASE UNCHANGED <<disk, tx>>
      BY <3>1 DEF TypeOK
    <3>2. CASE Write(p, [View(p) EXCEPT !.cols[Tab(p)] = Created(Tab(p)),
                                       !.notNull = View(p).notNull \/ Tab(p) = "tasks"])
      <4>1. Created(Tab(p)) \in SUBSET Column /\ Tab(p) \in Table /\ View(p) \in Db
        BY <2>2, SchemaOf, Views DEF Table
      <4>2. QED BY <3>2, <4>1, Statements, WriteType
    <3>3. QED BY <1>4, <3>1, <3>2 DEF CreateTable
  <2>4. QED BY <2>1, <2>2, <2>3, AdvanceType DEF TypeOK, local
<1>5. ASSUME NEW p \in Cmd, ReadColumns(p) PROVE TypeOK'
  <2>1. At(p, {"read"}) /\ Advance(p) /\ UNCHANGED <<disk, tx, rebuild>>
        /\ seen' = [seen EXCEPT ![p] = View(p).cols[Tab(p)]]
    BY <1>5 DEF ReadColumns
  <2>2. pc[p] \in 1..52 /\ Tab(p) \in Table
    BY <2>1, AtStatement, AtTable
  <2>3. View(p).cols[Tab(p)] \in SUBSET Column
    BY <2>2, Views DEF Db
  <2>4. QED BY <2>1, <2>2, <2>3, AdvanceType DEF TypeOK
<1>6. ASSUME NEW p \in Cmd, AddColumn(p) PROVE TypeOK'
  <2>1. At(p, {"add"}) /\ Advance(p) /\ UNCHANGED local
    BY <1>6 DEF AddColumn
  <2>2. pc[p] \in 1..52 /\ Tab(p) \in Durable /\ Stmt(p).col \in Column /\ View(p) \in Db
    <3>1. pc[p] \in 1..52 /\ Stmt(p) = Program[pc[p]] /\ Program[pc[p]].op = "add"
      BY <2>1, AtStatement
    <3>2. Tab(p) \in Durable /\ View(p) \in Db
      BY <2>1, AtTable, Views
    <3>3. Stmt(p).col \in Full(Tab(p))
      BY <3>1, AddedColumns DEF Tab
    <3>4. QED BY <3>1, <3>2, <3>3, SchemaOf
  <2> DEFINE C == View(p).cols[Tab(p)] \cup {Stmt(p).col}
             N == IF Stmt(p).col = "duration" THEN View(p).rows["tasks"] ELSE View(p).nullDur
  <2>3. C \in SUBSET Column /\ N \in SUBSET (Cmd \cup {Old}) /\ Tab(p) \in Table
    BY <2>2 DEF Db, Durable, Table
  <2>4. Write(p, [View(p) EXCEPT !.cols[Tab(p)] = C, !.nullDur = N])
    BY <1>6 DEF AddColumn
  <2> HIDE DEF C, N
  <2>5. disk' \in Db /\ tx' \in [Cmd -> Db \cup {NoTx}]
    BY <2>2, <2>3, <2>4, Statements, WriteType
  <2>6. QED BY <2>1, <2>2, <2>5, AdvanceType DEF TypeOK, local
<1>7. ASSUME NEW p \in Cmd, BackfillDuration(p) PROVE TypeOK'
  <2>1. At(p, {"backfill"}) /\ Advance(p) /\ UNCHANGED local
        /\ Within(p, [View(p) EXCEPT !.nullDur = {}])
    BY <1>7 DEF BackfillDuration
  <2>2. [View(p) EXCEPT !.nullDur = {}] \in Db
    BY Views DEF Db
  <2>3. disk' \in Db /\ tx' \in [Cmd -> Db \cup {NoTx}]
    BY <2>1, <2>2, WriteType
  <2>4. QED BY <2>1, <2>3, AtStatement, AdvanceType DEF TypeOK, local
<1>8. ASSUME NEW p \in Cmd, CheckTable(p) PROVE TypeOK'
  <2>1. At(p, Checks) /\ Advance(p) /\ UNCHANGED <<disk, tx, seen>>
        /\ rebuild' = [rebuild EXCEPT ![p] = NeedsRebuild(p)]
    BY <1>8 DEF CheckTable, Checks
  <2>2. NeedsRebuild(p) \in BOOLEAN
    <3>1. NeedsRebuild(p) = ~View(p).notNull \/ NeedsRebuild(p) = ("output" \in View(p).cols[Tab(p)])
      BY DEF NeedsRebuild
    <3>2. (~View(p).notNull) \in BOOLEAN /\ ("output" \in View(p).cols[Tab(p)]) \in BOOLEAN
      OBVIOUS
    <3>3. QED BY <3>1, <3>2, Zenon
  <2>3. QED BY <2>1, <2>2, AtStatement, AdvanceType DEF TypeOK
<1>9. ASSUME NEW p \in Cmd, CreateNew(p) PROVE TypeOK'
  <2>1. At(p, {"new"}) /\ Advance(p) /\ UNCHANGED local
    BY <1>9 DEF CreateNew, Rebuilding
  <2>2. Tab(p) \in {"tasks", "executions"} /\ View(p) \in Db
    BY <2>1, AtStatement, Subjects, Views
  <2>3. Tab(p) \in Table /\ NewTab(p) \in Table /\ Created(NewTab(p)) \in SUBSET Column
    BY <2>2, Schema, SchemaOf DEF NewTab, Table, Durable
  <2>4. View(p).rows[Tab(p)] \in SUBSET (Cmd \cup {Old}) /\ View(p).cols[NewTab(p)] \in SUBSET Column
        /\ View(p).rows[NewTab(p)] \in SUBSET (Cmd \cup {Old}) /\ View(p).notNull \in BOOLEAN
    BY <2>2, <2>3 DEF Db
  <2>5. Within(p, [View(p) EXCEPT !.cols[NewTab(p)] = Created(NewTab(p)),
                                     !.rows[NewTab(p)] = {}])
    BY <1>9 DEF CreateNew
  <2>6. disk' \in Db /\ tx' \in [Cmd -> Db \cup {NoTx}]
    BY <2>2, <2>3, <2>4, <2>5, Statements, WriteType
  <2>7. QED BY <2>1, <2>6, AtStatement, AdvanceType DEF TypeOK, local
<1>10. ASSUME NEW p \in Cmd, CopyRows(p) PROVE TypeOK'
  <2>1. At(p, {"copy"}) /\ Advance(p) /\ UNCHANGED local
    BY <1>10 DEF CopyRows, Rebuilding
  <2>2. Tab(p) \in {"tasks", "executions"} /\ View(p) \in Db
    BY <2>1, AtStatement, Subjects, Views
  <2>3. Tab(p) \in Table /\ NewTab(p) \in Table /\ Created(NewTab(p)) \in SUBSET Column
    BY <2>2, Schema, SchemaOf DEF NewTab, Table, Durable
  <2>4. View(p).rows[Tab(p)] \in SUBSET (Cmd \cup {Old}) /\ View(p).cols[NewTab(p)] \in SUBSET Column
        /\ View(p).rows[NewTab(p)] \in SUBSET (Cmd \cup {Old}) /\ View(p).notNull \in BOOLEAN
    BY <2>2, <2>3 DEF Db
  <2>5. Write(p, [View(p) EXCEPT !.rows[NewTab(p)] = View(p).rows[Tab(p)]])
    BY <1>10 DEF CopyRows
  <2>6. disk' \in Db /\ tx' \in [Cmd -> Db \cup {NoTx}]
    BY <2>2, <2>3, <2>4, <2>5, Statements, WriteType
  <2>7. QED BY <2>1, <2>6, AtStatement, AdvanceType DEF TypeOK, local
<1>11. ASSUME NEW p \in Cmd, DropOld(p) PROVE TypeOK'
  <2>1. At(p, {"drop"}) /\ Advance(p) /\ UNCHANGED local
    BY <1>11 DEF DropOld, Rebuilding
  <2>2. Tab(p) \in {"tasks", "executions"} /\ View(p) \in Db
    BY <2>1, AtStatement, Subjects, Views
  <2>3. Tab(p) \in Table /\ NewTab(p) \in Table /\ Created(NewTab(p)) \in SUBSET Column
    BY <2>2, Schema, SchemaOf DEF NewTab, Table, Durable
  <2>4. View(p).rows[Tab(p)] \in SUBSET (Cmd \cup {Old}) /\ View(p).cols[NewTab(p)] \in SUBSET Column
        /\ View(p).rows[NewTab(p)] \in SUBSET (Cmd \cup {Old}) /\ View(p).notNull \in BOOLEAN
    BY <2>2, <2>3 DEF Db
  <2>5. Write(p, [View(p) EXCEPT !.cols[Tab(p)] = {}, !.rows[Tab(p)] = {}])
    BY <1>11 DEF DropOld
  <2>6. disk' \in Db /\ tx' \in [Cmd -> Db \cup {NoTx}]
    BY <2>2, <2>3, <2>4, <2>5, Statements, WriteType
  <2>7. QED BY <2>1, <2>6, AtStatement, AdvanceType DEF TypeOK, local
<1>12. ASSUME NEW p \in Cmd, RenameNew(p) PROVE TypeOK'
  <2>1. At(p, {"rename"}) /\ Advance(p) /\ UNCHANGED local
    BY <1>12 DEF RenameNew, Rebuilding
  <2>2. Tab(p) \in {"tasks", "executions"} /\ View(p) \in Db
    BY <2>1, AtStatement, Subjects, Views
  <2>3. Tab(p) \in Table /\ NewTab(p) \in Table /\ Created(NewTab(p)) \in SUBSET Column
    BY <2>2, Schema, SchemaOf DEF NewTab, Table, Durable
  <2>4. View(p).rows[Tab(p)] \in SUBSET (Cmd \cup {Old}) /\ View(p).cols[NewTab(p)] \in SUBSET Column
        /\ View(p).rows[NewTab(p)] \in SUBSET (Cmd \cup {Old}) /\ View(p).notNull \in BOOLEAN
    BY <2>2, <2>3 DEF Db
  <2>5. Write(p, [View(p) EXCEPT
               !.cols[Tab(p)] = View(p).cols[NewTab(p)], !.cols[NewTab(p)] = {},
               !.rows[Tab(p)] = View(p).rows[NewTab(p)], !.rows[NewTab(p)] = {},
               !.notNull = View(p).notNull \/ Tab(p) = "tasks"])
    BY <1>12 DEF RenameNew
  <2>6. disk' \in Db /\ tx' \in [Cmd -> Db \cup {NoTx}]
    BY <2>2, <2>3, <2>4, <2>5, Statements, WriteType
  <2>7. QED BY <2>1, <2>6, AtStatement, AdvanceType DEF TypeOK, local
<1>13. ASSUME NEW p \in Cmd, Release(p) PROVE TypeOK'
  <2>1. At(p, {"release"}) /\ Advance(p) /\ UNCHANGED local /\ Commit(p)
    BY <1>13 DEF Release
  <2>2. disk' \in Db /\ tx' \in [Cmd -> Db \cup {NoTx}]
    BY <2>1, Views DEF Commit, TypeOK
  <2>3. QED BY <2>1, <2>2, AtStatement, AdvanceType DEF TypeOK, local
<1>14. ASSUME NEW p \in Cmd, MarkUntracked(p) PROVE TypeOK'
  <2>1. At(p, {"mark"}) /\ Advance(p) /\ UNCHANGED local
        /\ Within(p, [View(p) EXCEPT !.untracked[Tab(p)] = View(p).rows[Tab(p)]])
    BY <1>14 DEF MarkUntracked
  <2>2. Tab(p) \in Table /\ View(p) \in Db
    BY <2>1, AtTable, Views
  <2>3. View(p).rows[Tab(p)] \in SUBSET (Cmd \cup {Old})
    BY <2>2 DEF Db
  <2>4. disk' \in Db /\ tx' \in [Cmd -> Db \cup {NoTx}]
    BY <2>1, <2>2, <2>3, Statements, WriteType
  <2>5. QED BY <2>1, <2>4, AtStatement, AdvanceType DEF TypeOK, local
<1>15. ASSUME NEW p \in Cmd, PassOver(p) PROVE TypeOK'
  <2>1. pc[p] \in 1..52 /\ Advance(p) /\ UNCHANGED <<disk, tx, local>>
    BY <1>15, AtStatement DEF PassOver
  <2>2. QED BY <2>1, AdvanceType DEF TypeOK, local
<1>16. ASSUME NEW p \in Cmd, SetVersion(p) PROVE TypeOK'
  <2>1. At(p, {"done"}) /\ Advance(p) /\ UNCHANGED local
    BY <1>16 DEF SetVersion
  <2>2. [View(p) EXCEPT !.version = Current] \in Db
    BY Views DEF Db, Current
  <2>3. disk' \in Db /\ tx' \in [Cmd -> Db \cup {NoTx}]
    BY <1>16, <2>2 DEF SetVersion, TypeOK
  <2>4. QED BY <2>1, <2>3, AtStatement, AdvanceType DEF TypeOK, local
<1>17. ASSUME NEW p \in Cmd, CreateJob(p) PROVE TypeOK'
  <2>1. disk' \in Db
    BY <1>17 DEF CreateJob, TypeOK, Db
  <2>2. QED BY <1>17, <2>1, Length DEF CreateJob, TypeOK, local
<1>18. ASSUME NEW p \in Cmd, DuplicateColumn(p) \/ LockTimeout(p) \/ Crash(p) PROVE TypeOK'
  BY <1>18, AbandonType DEF DuplicateColumn, LockTimeout, Crash
<1>19. QED
  BY <1>1, <1>2, <1>3, <1>4, <1>5, <1>6, <1>7, <1>8, <1>9, <1>10, <1>11, <1>12, <1>13, <1>14,
     <1>15, <1>16, <1>17, <1>18 DEF Next, Step

-----------------------------------------------------------------------------
(* What statements leave behind.                                           *)

LEMMA KeepsItself == ASSUME NEW a PROVE Keeps(a, a)
BY DEF Keeps

LEMMA KeepsOn ==
  ASSUME NEW a, NEW b, NEW c, Keeps(a, b), Keeps(b, c)
  PROVE  Keeps(a, c)
<1>1. ASSUME NEW t \in Durable PROVE a.rows[t] \subseteq c.rows[t] /\ a.cols[t] \ {"output"} \subseteq c.cols[t]
  BY DEF Keeps
<1>2. ASSUME NEW t \in Durable, a.cols[t] # {}, "output" \notin a.cols[t]
      PROVE  "output" \notin c.cols[t]
  <2>1. PICK x \in a.cols[t] : x # "output"
    BY <1>2
  <2>2. x \in b.cols[t] /\ "output" \notin b.cols[t]
    BY <1>2, <2>1 DEF Keeps
  <2>3. QED BY <2>2 DEF Keeps
<1>3. (a.notNull => c.notNull)
  BY Zenon DEF Keeps
<1>4. "duration" \in a.cols["tasks"] /\ a.nullDur = {} => c.nullDur = {}
  BY DEF Keeps, Durable
<1>5. QED BY <1>1, <1>2, <1>3, <1>4, Zenon DEF Keeps

LEMMA DoneKept ==
  ASSUME NEW j \in 1..52, NEW a, NEW b, Done(j, a), Keeps(a, b)
  PROVE  Done(j, b)
<1> DEFINE s == Program[j]
<1>1. \A t \in Durable : \A x : x \in a.cols[t] /\ x # "output" => x \in b.cols[t]
  BY DEF Keeps
<1>2. CASE s.op = "create"
  <2>1. s.table \in Durable
    BY <1>2, Subjects
  <2>2. QED BY <1>1, <1>2, <2>1 DEF Done
<1>3. CASE s.op = "add"
  <2>1. s.table \in Durable
    BY <1>3, Subjects
  <2>2. s.col # "output"
    BY <1>3, <2>1, AddedColumns, SchemaOf
  <2>3. QED BY <1>1, <1>3, <2>1, <2>2 DEF Done
<1>4. CASE s.op = "backfill"
  <2>1. "duration" \in b.cols["tasks"]
    BY <1>1, <1>4 DEF Done, Durable
  <2>2. b.nullDur = {}
    BY <1>4 DEF Done, Keeps
  <2>3. QED BY <1>4, <2>1, <2>2 DEF Done
<1>5. QED BY <1>2, <1>3, <1>4 DEF Done

LEMMA RebuiltKept ==
  ASSUME NEW j \in 1..52, Program[j].op \in Checks, NEW a, NEW b, Rebuilt(j, a), Keeps(a, b)
  PROVE  Rebuilt(j, b)
<1>1. CASE Program[j].op = "nullable"
  BY <1>1, Zenon DEF Rebuilt, Keeps
<1>2. CASE Program[j].op = "output"
  <2>1. Program[j].table \in Durable
    BY <1>2, Subjects
  <2>2. QED BY <1>2, <2>1 DEF Rebuilt, Keeps
<1>3. QED BY <1>1, <1>2 DEF Checks

LEMMA PastKept ==
  ASSUME NEW i \in 1..53, NEW skipped, NEW a, NEW b, Past(i, skipped, a), Keeps(a, b)
  PROVE  Past(i, skipped, b)
<1>1. \A j \in 1..(i - 1) : j \in 1..52
  OBVIOUS
<1>2. QED BY <1>1, DoneKept, RebuiltKept DEF Past

LEMMA PastNext ==
  ASSUME NEW i \in 1..52, NEW skipped, NEW db, Past(i, skipped, db), Done(i, db),
         Program[i].op \notin Checks,
         Program[i].op = "drop" /\ ~skipped => Rebuilt(i - 3, db)
  PROVE  Past(i + 1, skipped, db)
<1>1. ASSUME NEW j \in 1..i PROVE Done(j, db)
  <2>1. j \in 1..(i - 1) \/ j = i
    OBVIOUS
  <2>2. QED BY <2>1 DEF Past
<1>2. ASSUME NEW j \in 1..i, Program[j].op \in Checks, skipped \/ i + 1 > j + 3
      PROVE  Rebuilt(j, db)
  <2>1. j \in 1..(i - 1)
    BY <1>2
  <2>2. CASE skipped \/ i > j + 3
    BY <1>2, <2>1, <2>2 DEF Past
  <2>3. CASE ~skipped /\ ~(i > j + 3)
    <3>1. i = j + 3 /\ j \in 1..52
      BY <1>2, <2>1, <2>3
    <3>2. Program[i].op = "drop" /\ j = i - 3
      BY <1>2, <3>1, RebuildSteps
    <3>3. QED BY <2>3, <3>2
  <2>4. QED BY <2>2, <2>3
<1>3. (i + 1) - 1 = i
  OBVIOUS
<1>4. QED BY <1>1, <1>2, <1>3 DEF Past

LEMMA PastCheck ==
  ASSUME NEW i \in 1..52, NEW before, NEW skipped, NEW db, Past(i, before, db),
         Program[i].op \in Checks, skipped => Rebuilt(i, db)
  PROVE  Past(i + 1, skipped, db)
<1>1. ASSUME NEW j \in 1..i PROVE Done(j, db)
  <2>1. CASE j = i
    BY <2>1 DEF Done, Checks
  <2>2. CASE j \in 1..(i - 1)
    BY <2>2 DEF Past
  <2>3. QED BY <2>1, <2>2
<1>2. ASSUME NEW j \in 1..i, Program[j].op \in Checks, skipped \/ i + 1 > j + 3
      PROVE  Rebuilt(j, db)
  <2>1. CASE j = i
    BY <1>2, <2>1
  <2>2. CASE j \in 1..(i - 1)
    <3>1. j \in 1..52 /\ j < i
      BY <2>2
    <3>2. i > j + 3
      BY <1>2, <3>1, ChecksApart
    <3>3. QED BY <1>2, <2>2, <3>2 DEF Past
  <2>3. QED BY <2>1, <2>2
<1>3. (i + 1) - 1 = i
  OBVIOUS
<1>4. QED BY <1>1, <1>2, <1>3 DEF Past

\* Every column of the schema comes with a table or is added.
LEMMA Covered ==
  ASSUME NEW t \in Durable, NEW c \in Full(t)
  PROVE  \E j \in 1..51 : /\ Program[j].table = t
                          /\ \/ Program[j].op = "create" /\ c = "id"
                             \/ Program[j].op = "add" /\ c = Program[j].col
<1>1. CASE t = "jobs"
  <2>1. /\ Program[2].op = "create" /\ Program[2].table = "jobs"
        /\ Program[4].op = "add" /\ Program[4].table = "jobs" /\ Program[4].col = "pid"
        /\ Program[40].op = "add" /\ Program[40].table = "jobs" /\ Program[40].col = "stop_reason"
        /\ Program[45].op = "add" /\ Program[45].table = "jobs" /\ Program[45].col = "tokens_untracked"
    BY DEF Program, Rebuild, ReadAdd, ReadAddMark, S, None
  <2>2. c \in {"id", "pid", "stop_reason", "tokens_untracked"}
    BY <1>1, Schema
  <2>3. QED BY <1>1, <2>1, <2>2
<1>2. CASE t = "tasks"
  <2>1. /\ Program[5].op = "create" /\ Program[5].table = "tasks"
        /\ Program[7].op = "add" /\ Program[7].table = "tasks" /\ Program[7].col = "base_commit"
        /\ Program[8].op = "add" /\ Program[8].table = "tasks" /\ Program[8].col = "goal"
        /\ Program[9].op = "add" /\ Program[9].table = "tasks" /\ Program[9].col = "assignee"
        /\ Program[10].op = "add" /\ Program[10].table = "tasks" /\ Program[10].col = "harness"
        /\ Program[11].op = "add" /\ Program[11].table = "tasks" /\ Program[11].col = "duration"
        /\ Program[12].op = "add" /\ Program[12].table = "tasks" /\ Program[12].col = "model"
    BY DEF Program, Rebuild, ReadAdd, ReadAddMark, S, None
  <2>2. c \in {"id", "base_commit", "goal", "assignee", "harness", "duration", "model"}
    BY <1>2, Schema DEF TaskText
  <2>3. QED BY <1>2, <2>1, <2>2
<1>3. CASE t = "executions"
  <2>1. /\ Program[20].op = "create" /\ Program[20].table = "executions"
        /\ Program[22].op = "add" /\ Program[22].table = "executions" /\ Program[22].col = "hook_name"
        /\ Program[24].op = "add" /\ Program[24].table = "executions" /\ Program[24].col = "exit_reason"
    BY DEF Program, Rebuild, ReadAdd, ReadAddMark, S, None
  <2>2. c \in {"id", "hook_name", "exit_reason"}
    BY <1>3, Schema
  <2>3. QED BY <1>3, <2>1, <2>2
<1>4. CASE t = "loops"
  <2>1. /\ Program[37].op = "create" /\ Program[37].table = "loops"
        /\ Program[42].op = "add" /\ Program[42].table = "loops" /\ Program[42].col = "stop_reason"
        /\ Program[48].op = "add" /\ Program[48].table = "loops" /\ Program[48].col = "tokens_untracked"
        /\ Program[51].op = "add" /\ Program[51].table = "loops" /\ Program[51].col = "cwd"
    BY DEF Program, Rebuild, ReadAdd, ReadAddMark, S, None
  <2>2. c \in {"id", "stop_reason", "tokens_untracked", "cwd"}
    BY <1>4, Schema
  <2>3. QED BY <1>4, <2>1, <2>2
<1>5. CASE t = "loop_steps"
  <2>1. /\ Program[38].op = "create" /\ Program[38].table = "loop_steps"
    BY DEF Program, Rebuild, ReadAdd, ReadAddMark, S, None
  <2>2. c \in {"id"}
    BY <1>5, Schema
  <2>3. QED BY <1>5, <2>1, <2>2
<1>6. CASE t = "agent_runs"
  <2>1. /\ Program[43].op = "create" /\ Program[43].table = "agent_runs"
    BY DEF Program, Rebuild, ReadAdd, ReadAddMark, S, None
  <2>2. c \in {"id"}
    BY <1>6, Schema
  <2>3. QED BY <1>6, <2>1, <2>2
<1>7. QED BY <1>1, <1>2, <1>3, <1>4, <1>5, <1>6 DEF Durable

LEMMA LastChecks ==
  /\ Program[13].op = "backfill" /\ Program[14].op = "nullable" /\ Program[25].op = "output"
  /\ Program[25].table = "executions" /\ Program[31].op = "output" /\ Program[31].table = "tasks"
BY DEF Program, Rebuild, ReadAdd, ReadAddMark, S, None

\* The whole list makes the complete schema, whatever it began with.
LEMMA PastComplete ==
  ASSUME NEW db, NEW skipped, Past(52, skipped, db), Known(db), db.notNull \in BOOLEAN,
         \A t \in Table \ Durable : db.cols[t] = {}
  PROVE  Complete(db)
<1>1. ASSUME NEW t \in Durable, NEW c \in Full(t) PROVE c \in db.cols[t]
  <2>1. PICK j \in 1..51 : /\ Program[j].table = t
                           /\ \/ Program[j].op = "create" /\ c = "id"
                              \/ Program[j].op = "add" /\ c = Program[j].col
    BY Covered
  <2>2. Done(j, db)
    BY <2>1 DEF Past
  <2>3. QED BY <2>1, <2>2 DEF Done
<1>2. Rebuilt(14, db) /\ Rebuilt(25, db) /\ Rebuilt(31, db) /\ Done(13, db)
  BY LastChecks DEF Past, Checks
<1>3. db.notNull
  BY <1>2, LastChecks, Zenon DEF Rebuilt
<1>4. db.nullDur = {}
  BY <1>2, LastChecks DEF Done
<1>5. "output" \notin db.cols["tasks"] /\ "output" \notin db.cols["executions"]
  BY <1>2, LastChecks DEF Rebuilt
<1>6. ASSUME NEW t \in Durable PROVE db.cols[t] \subseteq Full(t)
  BY <1>5 DEF Known
<1>7. \A t \in Durable : db.cols[t] = Full(t)
  BY <1>1, <1>6
<1>8. QED BY <1>3, <1>4, <1>7, Zenon DEF Complete

\* On the complete schema the whole list has nothing to do.
LEMMA CompletePast ==
  ASSUME NEW db, NEW skipped, Complete(db)
  PROVE  Past(53, skipped, db)
<1>1. ASSUME NEW j \in 1..52 PROVE Done(j, db)
  <2>1. CASE Program[j].op = "create"
    <3>1. Program[j].table \in Durable
      BY <2>1, Subjects
    <3>2. QED BY <2>1, <3>1, SchemaOf DEF Done, Complete
  <2>2. CASE Program[j].op = "add"
    <3>1. Program[j].table \in Durable
      BY <2>2, Subjects
    <3>2. QED BY <2>2, <3>1, AddedColumns DEF Done, Complete
  <2>3. CASE Program[j].op = "backfill"
    <3>1. "tasks" \in Durable
      BY DEF Durable
    <3>2. QED BY <2>3, <3>1, SchemaOf DEF Done, Complete
  <2>4. QED BY <2>1, <2>2, <2>3 DEF Done
<1>2. ASSUME NEW j \in 1..52, Program[j].op \in Checks PROVE Rebuilt(j, db)
  <2>1. CASE Program[j].op = "nullable"
    BY <2>1, Zenon DEF Rebuilt, Complete
  <2>2. CASE Program[j].op # "nullable"
    <3>1. Program[j].table \in Durable /\ Program[j].op = "output"
      BY <1>2, <2>2, Subjects DEF Checks
    <3>2. QED BY <3>1, SchemaOf DEF Rebuilt, Complete
  <2>3. QED BY <2>1, <2>2
<1>3. 53 - 1 = 52
  OBVIOUS
<1>4. QED BY <1>1, <1>2, <1>3 DEF Past

\* A complete database stays complete.
LEMMA CompleteKept ==
  ASSUME NEW a, NEW b, Complete(a), Keeps(a, b), Known(b), b.notNull \in BOOLEAN,
         \A t \in Table \ Durable : b.cols[t] = {}
  PROVE  Complete(b)
<1>1. 53 \in 1..53 /\ 52 - 1 = 51 /\ 53 - 1 = 52 /\ 1..51 \subseteq 1..52
  OBVIOUS
<1>2. \A skipped : Past(53, skipped, b)
  <2>1. ASSUME NEW skipped PROVE Past(53, skipped, a)
    BY CompletePast
  <2>2. QED BY <1>1, <2>1, PastKept
<1>3. ASSUME NEW skipped, ~skipped PROVE Complete(b)
  <2>1. Past(52, skipped, b)
    BY <1>1, <1>2, <1>3 DEF Past
  <2>2. QED BY <2>1, PastComplete
<1>4. QED BY <1>3, Zenon

-----------------------------------------------------------------------------
(* The invariant.                                                          *)

LEMMA DueUnheld ==
  ASSUME NEW p \in Cmd, ~Holds(p),
         At(p, {"copy", "drop", "rename", "release"}) /\ rebuild[p] => Holds(p)
  PROVE  ~MidDrop(p) /\ Due(p) = disk /\ \A t : ~Building(p, t)
BY DEF MidDrop, Due, View, Holds, Building, At

LEMMA SchemaInit == Init => SchemaInv
<1> SUFFICES ASSUME Init PROVE SchemaInv
  OBVIOUS
<1>1. TypeOK
  BY TypeInit
<1>2. origin \in 0..11 \cup {-1} /\ Fresh = -1 /\ Current = 12
  BY LegacyAssumption DEF Init, Current, Fresh
<1>3. \A t \in Table : disk.cols[t] = LegacyColumns(origin, t)
  BY DEF Init, LegacyDb
<1>4. \A t \in Table \ Durable : disk.cols[t] = {}
  BY <1>3 DEF LegacyColumns
<1>5. ASSUME NEW t \in Durable
      PROVE  /\ disk.cols[t] \subseteq
                  Full(t) \cup (IF t \in {"tasks", "executions"} THEN {"output"} ELSE {})
             /\ disk.cols[t] # {} => "id" \in disk.cols[t]
  <2>1. CASE origin = Fresh
    BY <1>3, <2>1 DEF LegacyColumns, Table
  <2>2. CASE origin # Fresh
    <3>1. origin \in 0..11
      BY <1>2, <2>2
    <3>2. "id" \in Full(t)
      BY SchemaOf
    <3>3. disk.cols[t] = LegacyColumns(origin, t)
      BY <1>3 DEF Table
    <3>4. disk.cols[t] \subseteq
                  Full(t) \cup (IF t \in {"tasks", "executions"} THEN {"output"} ELSE {})
      BY <3>1, <3>3 DEF LegacyColumns
    <3>5. CASE t \notin {"loops", "loop_steps", "agent_runs"}
      <4>1. "id" \in LegacyColumns(origin, t)
        BY <2>2, <3>1, <3>2, <3>5 DEF LegacyColumns
      <4>2. QED BY <3>3, <3>4, <4>1
    <3>6. CASE t \in {"loops", "loop_steps", "agent_runs"}
      <4>1. ASSUME NEW c \in disk.cols[t] PROVE "id" \in disk.cols[t]
        <5>1. c \in Full(t) /\ Full(t) \subseteq {"id", "stop_reason", "tokens_untracked", "cwd"}
          BY <3>4, <3>6, Schema
        <5>2. CASE t = "loops"
          BY <2>2, <3>1, <3>2, <3>3, <5>1, <5>2 DEF LegacyColumns
        <5>3. CASE t # "loops"
          BY <3>4, <3>6, <5>3, Schema
        <5>4. QED BY <5>2, <5>3
      <4>2. QED BY <3>4, <4>1
    <3>7. QED BY <3>5, <3>6
  <2>3. QED BY <2>1, <2>2
<1>6. Known(disk)
  BY <1>5 DEF Known
<1>7. disk.version # Current
  BY <1>2 DEF Init, LegacyDb
<1>8. DiskInv
  BY <1>4, <1>6, <1>7 DEF DiskInv
<1>9. ASSUME NEW p \in Cmd PROVE CommandInv(p) /\ ~Holds(p)
  <2>1. ~Holds(p) /\ pc[p] = 0 /\ \A ops : ~At(p, ops)
    BY DEF Init, Holds, At
  <2>2. Due(p) = disk /\ \A t : ~Building(p, t)
    BY <2>1, DueUnheld
  <2>3. QED BY <1>4, <1>6, <2>1, <2>2, KeepsItself DEF CommandInv
<1>10. QED BY <1>1, <1>8, <1>9 DEF SchemaInv, OneHolder

\* What a step of one command means to the others.
LEMMA OthersKeep ==
  ASSUME SchemaInv, DiskInv', NEW p \in Cmd, NEW r \in Cmd, r # p,
         tx'[r] = tx[r], pc'[r] = pc[r], seen'[r] = seen[r], rebuild'[r] = rebuild[r],
         disk' = disk \/ (Unlocked(p) /\ Keeps(disk, disk'))
  PROVE  CommandInv(r)'
<1>1. CommandInv(r) /\ pc[r] \in 0..53
  BY Length DEF SchemaInv, TypeOK
<1>2. CASE disk' = disk
  <2>1. /\ Holds(r)' = Holds(r) /\ View(r)' = View(r)
        /\ Tab(r)' = Tab(r) /\ NewTab(r)' = NewTab(r)
        /\ \A ops : At(r, ops)' = At(r, ops)
    BY <1>2 DEF Holds, View, Tab, NewTab, Stmt, At
  <2>2. MidDrop(r)' = MidDrop(r) /\ Due(r)' = Due(r) /\ \A t : Building(r, t)' = Building(r, t)
    BY <2>1 DEF MidDrop, Due, Building
  <2>3. QED BY <1>1, <1>2, <2>1, <2>2 DEF CommandInv
<1>3. CASE Unlocked(p) /\ Keeps(disk, disk')
  <2>1. ~Holds(r)
    BY <1>3 DEF Unlocked
  <2>2. Due(r) = disk /\ \A t : ~Building(r, t)
    BY <1>1, <2>1, DueUnheld DEF CommandInv
  <2>3. ~(At(r, {"copy", "drop", "rename", "release"}) /\ rebuild[r])
    BY <1>1, <2>1 DEF CommandInv
  <2>4. ~Holds(r)' /\ \A ops : At(r, ops)' = At(r, ops)
    BY <2>1 DEF Holds, At
  <2>5. Due(r)' = disk' /\ \A t : ~Building(r, t)'
    BY <2>3, <2>4 DEF Due, View, Holds, MidDrop, At, Building
  <2>6. ASSUME At(r, {"add", "mark"})
        PROVE  seen[r] \ {"output"} \subseteq disk'.cols[Tab(r)] /\ Tab(r)' = Tab(r)
    <3>1. Tab(r) \in Durable
      BY <2>6, AtTable
    <3>2. seen[r] \ {"output"} \subseteq disk.cols[Tab(r)]
      BY <1>1, <2>2, <2>6 DEF CommandInv
    <3>3. QED BY <1>3, <3>1, <3>2 DEF Keeps, Tab, Stmt
  <2>7. pc[r] > 1 => Past(pc[r], ~rebuild[r], disk')
    BY <1>1, <1>3, <2>2, PastKept DEF CommandInv
  <2>8. Known(disk') /\ \A t \in Table \ Durable : disk'.cols[t] = {}
    BY DEF DiskInv
  <2>9. ~(At(r, {"copy", "drop", "rename", "release"}) /\ rebuild[r])'
        /\ ~(At(r, {"copy", "drop"}) /\ rebuild[r])' /\ ~(At(r, {"drop"}) /\ rebuild[r])'
    BY <2>3, <2>4 DEF At
  <2>10. QED BY <2>4, <2>5, <2>6, <2>7, <2>8, <2>9, KeepsItself DEF CommandInv
<1>4. QED BY <1>2, <1>3

\* The state of the other commands, which a step leaves alone.
OthersAlone(p) ==
  \A r \in Cmd \ {p} : /\ tx'[r] = tx[r] /\ pc'[r] = pc[r]
                       /\ seen'[r] = seen[r] /\ rebuild'[r] = rebuild[r]

\* A step keeps the invariant when it keeps the command's own part of it, writes
\* only while nobody else has a transaction, and takes nothing off the disk.
LEMMA StepKeeps ==
  ASSUME SchemaInv, TypeOK', DiskInv', NEW p \in Cmd, OthersAlone(p),
         disk' = disk \/ (Unlocked(p) /\ Keeps(disk, disk')),
         Holds(p)' => Unlocked(p),
         CommandInv(p)'
  PROVE  SchemaInv'
<1>1. ASSUME NEW r \in Cmd PROVE CommandInv(r)'
  <2>1. CASE r = p
    BY <2>1
  <2>2. CASE r # p
    BY <2>2, OthersKeep DEF OthersAlone
  <2>3. QED BY <2>1, <2>2
<1>2. \A r \in Cmd \ {p} : Holds(r)' = Holds(r)
  BY DEF OthersAlone, Holds
<1>3. ASSUME NEW q \in Cmd, NEW r \in Cmd, Holds(q)', Holds(r)' PROVE q = r
  <2>1. CASE q # p /\ r # p
    BY <1>2, <1>3, <2>1 DEF SchemaInv, OneHolder
  <2>2. CASE q = p /\ r # p
    BY <1>2, <1>3, <2>2 DEF Unlocked
  <2>3. CASE q # p /\ r = p
    BY <1>2, <1>3, <2>3 DEF Unlocked
  <2>4. QED BY <2>1, <2>2, <2>3
<1>4. OneHolder'
  BY <1>3 DEF OneHolder
<1>5. QED BY <1>1, <1>4 DEF SchemaInv

\* Outside a rebuild a command's view is what its transaction comes to.
LEMMA PlainBefore ==
  ASSUME SchemaInv, NEW p \in Cmd, pc[p] \in 1..52,
         Program[pc[p]].op \notin {"copy", "drop", "rename"} \/ ~rebuild[p]
  PROVE  /\ Due(p) = View(p) /\ View(p) \in Db
         /\ Keeps(disk, View(p)) /\ Known(View(p))
         /\ \A t \in Table \ Durable : View(p).cols[t] = {}
         /\ Holds(p) => View(p).version = disk.version
         /\ pc[p] > 1 => Past(pc[p], ~rebuild[p], View(p))
         /\ At(p, {"add", "mark"}) => seen[p] \ {"output"} \subseteq View(p).cols[Tab(p)]
<1>1. CommandInv(p) /\ TypeOK
  BY DEF SchemaInv
<1>2. ~MidDrop(p) /\ \A t : ~Building(p, t)
  BY DEF MidDrop, Building, At
<1>3. Due(p) = View(p)
  BY <1>2 DEF Due
<1>4. View(p) \in Db
  BY <1>1, Views
<1>5. QED BY <1>1, <1>2, <1>3, <1>4 DEF CommandInv

LEMMA PlainAfter ==
  ASSUME NEW p \in Cmd, TypeOK, TypeOK', pc[p] \in 1..52, pc'[p] = pc[p] + 1,
         Program[pc[p]].op \notin {"new", "copy", "drop", "rename"} \/ ~rebuild'[p],
         Holds(p)' => pc[p] + 1 \in MayHold /\ View(p)'.version = disk'.version,
         Keeps(disk', View(p)'), Known(View(p)'),
         \A t \in Table \ Durable : View(p)'.cols[t] = {},
         At(p, {"add", "mark"})' => seen'[p] \ {"output"} \subseteq View(p)'.cols[Tab(p)'],
         Past(pc[p] + 1, ~rebuild'[p], View(p)')
  PROVE  CommandInv(p)'
<1>1. ~(At(p, {"copy", "drop", "rename", "release"})' /\ rebuild'[p])
  <2>1. SUFFICES ASSUME At(p, {"copy", "drop", "rename", "release"})', rebuild'[p] PROVE FALSE
    OBVIOUS
  <2>2. pc[p] + 1 \in 1..52 /\ Program[pc[p] + 1].op \in {"copy", "drop", "rename", "release"}
    BY <2>1, Length DEF At
  <2>3. pc[p] \in 1..51
    BY <2>2
  <2>4. Program[pc[p]].op \in {"new", "copy", "drop", "rename"}
    BY <2>2, <2>3, Predecessors
  <2>5. QED BY <2>1, <2>4
<1>2. /\ ~(At(p, {"copy", "drop"})' /\ rebuild'[p]) /\ ~(At(p, {"drop"})' /\ rebuild'[p])
      /\ ~MidDrop(p)'
  BY <1>1 DEF At, MidDrop
<1>3. Due(p)' = View(p)'
  BY <1>2 DEF Due
<1>4. QED BY <1>1, <1>2, <1>3 DEF CommandInv

LEMMA HoldsAlone == ASSUME SchemaInv, NEW p \in Cmd, Holds(p) PROVE Unlocked(p)
BY DEF SchemaInv, OneHolder, Unlocked

\* A step that writes nothing.
LEMMA QuietStep ==
  ASSUME SchemaInv, TypeOK', NEW p \in Cmd, OthersAlone(p), UNCHANGED <<disk, tx>>,
         pc[p] \in 1..52, pc'[p] = pc[p] + 1,
         Program[pc[p]].op \notin {"new", "copy", "drop", "rename"} \/ (~rebuild[p] /\ ~rebuild'[p]),
         Holds(p) => Program[pc[p]].op \notin {"release", "done"},
         At(p, {"add", "mark"})' => seen'[p] \ {"output"} \subseteq View(p).cols[Tab(p)'],
         Past(pc[p] + 1, ~rebuild'[p], View(p))
  PROVE  SchemaInv'
<1>1. View(p)' = View(p) /\ Holds(p)' = Holds(p)
  BY DEF View, Holds
<1>2. /\ Keeps(disk, View(p)) /\ Known(View(p))
      /\ \A t \in Table \ Durable : View(p).cols[t] = {}
      /\ Holds(p) => View(p).version = disk.version
  BY PlainBefore
<1>3. Holds(p) => pc[p] \in MayHold
  BY DEF SchemaInv, CommandInv
<1>4. Holds(p) => pc[p] + 1 \in MayHold
  BY <1>3, Transactions
<1>5. TypeOK
  BY DEF SchemaInv
<1>6. CommandInv(p)'
  <2> HIDE DEF Holds, View, Past, Keeps, Known
  <2>1. Holds(p)' => pc[p] + 1 \in MayHold /\ View(p)'.version = disk'.version
    BY <1>1, <1>2, <1>4
  <2>2. Keeps(disk', View(p)') /\ Known(View(p)')
    BY <1>1, <1>2
  <2>3. \A t \in Table \ Durable : View(p)'.cols[t] = {}
    BY <1>1, <1>2
  <2>4. At(p, {"add", "mark"})' => seen'[p] \ {"output"} \subseteq View(p)'.cols[Tab(p)']
    BY <1>1
  <2>5. Past(pc[p] + 1, ~rebuild'[p], View(p)')
    BY <1>1
  <2>6. QED BY <1>5, <2>1, <2>2, <2>3, <2>4, <2>5, PlainAfter
<1>7. DiskInv'
  BY DEF SchemaInv, DiskInv
<1>8. QED BY <1>1, <1>6, <1>7, HoldsAlone, StepKeeps

\* A statement of no rebuild that writes db, into a transaction or at once.
LEMMA WriteStep ==
  ASSUME SchemaInv, TypeOK', NEW p \in Cmd, OthersAlone(p), NEW db \in Db,
         pc[p] \in 2..52, pc'[p] = pc[p] + 1, UNCHANGED <<seen, rebuild>>,
         Program[pc[p]].op \in {"create", "add", "backfill", "mark"},
         Write(p, db) \/ (Within(p, db) /\ pc[p] + 1 \in MayHold),
         db.version = View(p).version, Keeps(View(p), db), Known(db),
         \A t \in Table \ Durable : db.cols[t] = {},
         At(p, {"add", "mark"})' => seen[p] \ {"output"} \subseteq db.cols[Tab(p)'],
         Done(pc[p], db)
  PROVE  SchemaInv'
<1>1. /\ Program[pc[p]].op \notin {"new", "copy", "drop", "rename", "release", "done"}
      /\ Program[pc[p]].op \notin Checks /\ pc[p] \in 1..52 /\ pc[p] > 1 /\ pc[p] \in 1..53
  BY DEF Checks
<1>2. /\ View(p) \in Db /\ Keeps(disk, View(p)) /\ Known(View(p))
      /\ Holds(p) => View(p).version = disk.version
      /\ Past(pc[p], ~rebuild[p], View(p))
  BY <1>1, PlainBefore
<1>3. Past(pc[p] + 1, ~rebuild[p], db)
  BY <1>1, <1>2, PastKept, PastNext
<1>4. Keeps(disk, db)
  BY <1>2, KeepsOn
<1>5. Unlocked(p)
  BY DEF Write, Within
<1>6. TypeOK /\ CommandInv(p) /\ DiskInv
  BY DEF SchemaInv
<1>7. CASE /\ disk' = disk /\ tx' = [tx EXCEPT ![p] = db]
           /\ Holds(p) \/ pc[p] + 1 \in MayHold
  <2>1. tx'[p] = db
    BY <1>6, <1>7 DEF TypeOK
  <2>2. Holds(p)' /\ View(p)' = db
    BY <2>1, NoneIsNone DEF Holds, View
  <2>3. pc[p] + 1 \in MayHold
    BY <1>1, <1>6, <1>7, Transactions DEF CommandInv
  <2>4. db.version = disk.version
    BY <1>2, <1>7, Views, <1>6
  <2>5. CommandInv(p)'
    BY <1>1, <1>3, <1>4, <1>6, <1>7, <2>2, <2>3, <2>4, PlainAfter
  <2>6. DiskInv'
    BY <1>6, <1>7 DEF DiskInv
  <2>7. QED BY <1>5, <1>7, <2>5, <2>6, StepKeeps
<1>8. CASE disk' = db /\ tx' = tx /\ ~Holds(p)
  <2>1. ~Holds(p)' /\ View(p)' = db /\ View(p) = disk
    BY <1>8 DEF Holds, View
  <2>2. CommandInv(p)'
    BY <1>1, <1>3, <1>6, <1>8, <2>1, KeepsItself, PlainAfter
  <2>3. DiskInv'
    <3>1. db.version = Current => Complete(disk)
      BY <1>6, <2>1 DEF DiskInv
    <3>2. db.notNull \in BOOLEAN
      BY DEF Db
    <3>3. db.version = Current => Complete(db)
      BY <1>4, <3>1, <3>2, CompleteKept
    <3>4. QED BY <1>8, <3>3 DEF DiskInv
  <2>4. QED BY <1>4, <1>5, <1>8, <2>1, <2>2, <2>3, StepKeeps
<1>9. QED BY <1>7, <1>8 DEF Write, Within

\* The end of a transaction, and the version.
LEMMA CommitStep ==
  ASSUME SchemaInv, TypeOK', NEW p \in Cmd, OthersAlone(p), NEW db \in Db,
         pc[p] \in 2..52, pc'[p] = pc[p] + 1, UNCHANGED <<seen, rebuild>>,
         Program[pc[p]].op \in {"release", "done"},
         Unlocked(p), disk' = db, tx'[p] = NoTx,
         db.version = View(p).version \/ Complete(db),
         Keeps(View(p), db), Known(db), \A t \in Table \ Durable : db.cols[t] = {}
  PROVE  SchemaInv'
<1>1. /\ Program[pc[p]].op \notin {"new", "copy", "drop", "rename"} \cup Checks
      /\ pc[p] \in 1..52 /\ pc[p] > 1 /\ pc[p] \in 1..53
  BY DEF Checks
<1>2. /\ View(p) \in Db /\ Keeps(disk, View(p))
      /\ Holds(p) => View(p).version = disk.version
      /\ Past(pc[p], ~rebuild[p], View(p))
  BY <1>1, PlainBefore
<1>3. TypeOK /\ DiskInv
  BY DEF SchemaInv
<1>4. Keeps(disk, db)
  BY <1>2, KeepsOn
<1>5. Done(pc[p], db)
  BY <1>1 DEF Done
<1>6. Past(pc[p] + 1, ~rebuild[p], db)
  BY <1>1, <1>2, <1>5, PastKept, PastNext
<1>7. ~Holds(p)' /\ View(p)' = db
  BY DEF Holds, View
<1>8. ~At(p, {"add", "mark"})'
  <2>1. SUFFICES ASSUME At(p, {"add", "mark"})' PROVE FALSE
    OBVIOUS
  <2>2. pc[p] + 1 \in 1..52 /\ Program[pc[p] + 1].op \in {"add", "mark"}
    BY <2>1, Length DEF At
  <2>3. pc[p] \in 1..51
    BY <2>2, <1>1
  <2>4. Program[pc[p]].op \in {"read", "add"}
    BY <2>2, <2>3, Predecessors
  <2>5. QED BY <2>4
<1>9. CommandInv(p)'
  BY <1>1, <1>3, <1>6, <1>7, <1>8, KeepsItself, PlainAfter
<1>10. DiskInv'
  <2>1. CASE Complete(db)
    BY <2>1 DEF DiskInv
  <2>2. CASE db.version = View(p).version
    <3>1. db.version = disk.version
      BY <1>2, <1>3, <2>2, Views
    <3>2. db.version = Current => Complete(disk)
      BY <1>3, <3>1 DEF DiskInv
    <3>3. db.version = Current => Complete(db)
      BY <1>4, <3>2, CompleteKept DEF Db
    <3>4. QED BY <3>3 DEF DiskInv
  <2>3. QED BY <2>1, <2>2
<1>11. QED BY <1>4, <1>7, <1>9, <1>10, StepKeeps

\* A command that gives up leaves the disk as it is.
LEMMA AbandonStep ==
  ASSUME SchemaInv, TypeOK', NEW p \in Cmd, Abandon(p)
  PROVE  SchemaInv'
<1>1. TypeOK /\ DiskInv
  BY DEF SchemaInv
<1>2. /\ tx'[p] = NoTx /\ pc'[p] = 0 /\ disk' = disk /\ ~rebuild'[p] /\ OthersAlone(p)
  BY <1>1 DEF Abandon, TypeOK, OthersAlone
<1>3. ~Holds(p)' /\ (\A ops : ~At(p, ops)')
  BY <1>2 DEF Holds, At
<1>4. ~MidDrop(p)' /\ View(p)' = disk'
  BY <1>2 DEF MidDrop, View, Holds
<1>5. Due(p)' = disk'
  BY <1>4 DEF Due
<1>6. DiskInv'
  BY <1>1, <1>2 DEF DiskInv
<1>7. CommandInv(p)'
  BY <1>2, <1>3, <1>5, <1>6, KeepsItself DEF CommandInv, DiskInv
<1>8. QED BY <1>2, <1>3, <1>6, <1>7, StepKeeps

\* Every action is of one command.
LEMMA Alone ==
  ASSUME TypeOK, NEW p \in Cmd, Start(p) \/ Step(p) \/ LockTimeout(p) \/ Crash(p)
  PROVE  OthersAlone(p)
BY DEF TypeOK, OthersAlone, Step, Start, ReadVersion, CreateTable, ReadColumns, AddColumn,
       DuplicateColumn, BackfillDuration, CheckTable, CreateNew, CopyRows, DropOld, RenameNew,
       Release, MarkUntracked, PassOver, SetVersion, CreateJob, LockTimeout, Crash, Abandon,
       Advance, Write, Within, Commit, local, world

-----------------------------------------------------------------------------
(* The actions.                                                            *)

LEMMA First == Program[1].op = "version"
BY DEF Program, Rebuild, ReadAdd, ReadAddMark, S, None

\* The statement after one that neither reads nor adds a column adds none.
LEMMA NothingRead ==
  ASSUME NEW p \in Cmd, pc[p] \in 1..52, pc'[p] = pc[p] + 1,
         Program[pc[p]].op \notin {"read", "add"}
  PROVE  ~At(p, {"add", "mark"})'
<1>1. SUFFICES ASSUME At(p, {"add", "mark"})' PROVE FALSE
  OBVIOUS
<1>2. pc[p] + 1 \in 1..52 /\ Program[pc[p] + 1].op \in {"add", "mark"}
  BY <1>1, Length DEF At
<1>3. pc[p] \in 1..51
  BY <1>2
<1>4. QED BY <1>2, <1>3, Predecessors

\* ... and what follows one that does is about the same table.
LEMMA SameTable ==
  ASSUME NEW p \in Cmd, pc[p] \in 1..52, pc'[p] = pc[p] + 1, At(p, {"add", "mark"})'
  PROVE  Tab(p)' = Tab(p)
<1>1. pc[p] + 1 \in 1..52 /\ Program[pc[p] + 1].op \in {"add", "mark"}
  BY Length DEF At
<1>2. pc[p] \in 1..51
  BY <1>1
<1>3. Program[pc[p]].table = Program[pc[p] + 1].table
  BY <1>1, <1>2, Predecessors
<1>4. QED BY <1>3 DEF Tab, Stmt

\* A command in a statement it may hold no transaction in is as it begins.
LEMMA StartStep ==
  ASSUME SchemaInv, TypeOK', NEW p \in Cmd, Start(p)
  PROVE  SchemaInv'
<1>1. TypeOK /\ DiskInv /\ CommandInv(p)
  BY DEF SchemaInv
<1>2. /\ pc[p] = 0 /\ pc'[p] = 1 /\ disk' = disk /\ tx' = tx /\ OthersAlone(p)
  BY <1>1, Alone DEF Start, TypeOK
<1>3. ~Holds(p) /\ ~Holds(p)'
  BY <1>1, <1>2, Beginnings DEF CommandInv, Holds
<1>4. \A ops : "version" \notin ops => ~At(p, ops)'
  BY <1>2, First DEF At
<1>5. View(p)' = disk' /\ ~MidDrop(p)'
  BY <1>3, <1>4 DEF View, Holds, MidDrop
<1>6. Due(p)' = disk'
  BY <1>5 DEF Due
<1>7. DiskInv'
  BY <1>1, <1>2 DEF DiskInv
<1>8. CommandInv(p)'
  BY <1>2, <1>3, <1>4, <1>6, <1>7, KeepsItself DEF CommandInv, DiskInv
<1>9. QED BY <1>2, <1>3, <1>7, <1>8, StepKeeps

LEMMA ReadVersionStep ==
  ASSUME SchemaInv, TypeOK', NEW p \in Cmd, ReadVersion(p)
  PROVE  SchemaInv'
<1>1. TypeOK /\ DiskInv /\ CommandInv(p)
  BY DEF SchemaInv
<1>2. At(p, {"version"}) /\ UNCHANGED <<disk, tx, seen, rebuild>> /\ OthersAlone(p)
      /\ pc' = [pc EXCEPT ![p] = IF disk.version = Current THEN Ready ELSE @ + 1]
  BY <1>1, Alone DEF ReadVersion, local, Step
<1>3. pc[p] = 1 /\ Program[1].op = "version"
  <2>1. pc[p] \in 1..52 /\ Program[pc[p]].op \in {"version"}
    BY <1>2, AtStatement
  <2>2. pc[p] = 1
    BY <2>1, Transactions
  <2>3. QED BY <2>2, First
<1>4. ~Holds(p)
  BY <1>1, <1>3, Beginnings DEF CommandInv
<1>5. CASE disk.version = Current
  <2>1. pc'[p] = 53 /\ ~Holds(p)'
    BY <1>1, <1>2, <1>4, <1>5, Length DEF TypeOK, Holds
  <2>2. \A ops : ~At(p, ops)'
    BY <2>1, Length DEF At
  <2>3. View(p)' = disk' /\ ~MidDrop(p)'
    BY <2>1, <2>2 DEF View, Holds, MidDrop
  <2>4. Due(p)' = disk'
    BY <2>3 DEF Due
  <2>5. DiskInv'
    BY <1>1, <1>2 DEF DiskInv
  <2>6. Past(53, ~rebuild'[p], disk')
    BY <1>5, <1>2, <2>5, CompletePast DEF DiskInv
  <2>7. CommandInv(p)'
    BY <2>1, <2>2, <2>4, <2>5, <2>6, KeepsItself DEF CommandInv, DiskInv
  <2>8. QED BY <1>2, <2>1, <2>5, <2>7, StepKeeps
<1>6. CASE disk.version # Current
  <2>1. pc'[p] = pc[p] + 1
    BY <1>1, <1>2, <1>6 DEF TypeOK
  <2>2. Past(2, ~rebuild'[p], View(p))
    BY <1>3 DEF Past, Done, Checks
  <2>3. ~At(p, {"add", "mark"})'
    BY <1>3, <2>1, NothingRead
  <2>4. QED BY <1>2, <1>3, <1>4, <2>1, <2>2, <2>3, QuietStep
<1>7. QED BY <1>5, <1>6

LEMMA CreateTableStep ==
  ASSUME SchemaInv, TypeOK', NEW p \in Cmd, CreateTable(p)
  PROVE  SchemaInv'
<1>1. TypeOK
  BY DEF SchemaInv
<1>2. At(p, {"create"}) /\ Advance(p) /\ UNCHANGED <<seen, rebuild>> /\ OthersAlone(p)
  BY <1>1, Alone DEF CreateTable, local, Step
<1>3. /\ pc[p] \in 1..52 /\ Program[pc[p]].op = "create" /\ Tab(p) = Program[pc[p]].table
      /\ Tab(p) \in Durable /\ pc'[p] = pc[p] + 1
  BY <1>1, <1>2, AtStatement, AtTable, AdvanceType
<1>4. pc[p] \in 2..52 /\ Program[pc[p]].op \notin Checks
  BY <1>3, First DEF Checks
<1>5. ~At(p, {"add", "mark"})'
  BY <1>3, NothingRead
<1>6. /\ View(p) \in Db /\ Known(View(p)) /\ Past(pc[p], ~rebuild[p], View(p))
      /\ \A t \in Table \ Durable : View(p).cols[t] = {}
  BY <1>3, <1>4, PlainBefore
<1>7. CASE View(p).cols[Tab(p)] # {} /\ UNCHANGED <<disk, tx>>
  <2>1. Done(pc[p], View(p))
    BY <1>3, <1>6, <1>7 DEF Known, Done
  <2>2. Past(pc[p] + 1, ~rebuild'[p], View(p))
    BY <1>2, <1>3, <1>4, <1>6, <2>1, PastNext
  <2>3. QED BY <1>2, <1>3, <1>5, <1>7, <2>2, QuietStep
<1>8. CASE View(p).cols[Tab(p)] = {}
  <2> DEFINE b == View(p).notNull \/ Tab(p) = "tasks"
             db == [View(p) EXCEPT !.cols[Tab(p)] = Created(Tab(p)), !.notNull = b]
  <2>1. Write(p, db)
    BY <1>8 DEF CreateTable
  <2>2. Tab(p) \in Table /\ Created(Tab(p)) \in SUBSET Column /\ b \in BOOLEAN
    BY <1>3, SchemaOf DEF Table
  <2>3. db \in Db
    BY <1>6, <2>2, Statements
  <2>4. /\ db.cols = [View(p).cols EXCEPT ![Tab(p)] = Created(Tab(p))]
        /\ db.notNull = b /\ db.rows = View(p).rows
        /\ db.nullDur = View(p).nullDur /\ db.version = View(p).version
    BY <1>6 DEF Db
  <2> HIDE DEF db
  <2>5. db.cols[Tab(p)] = Created(Tab(p)) /\ \A t \in Table \ {Tab(p)} : db.cols[t] = View(p).cols[t]
    BY <1>6, <2>2, <2>4 DEF Db
  <2>6. Known(db)
    BY <1>3, <1>6, <2>5, SchemaOf DEF Known, Table
  <2>7. Keeps(View(p), db)
    <3>1. View(p).notNull => db.notNull
      BY <2>4, Zenon
    <3>2. ASSUME NEW t \in Durable
          PROVE  /\ View(p).cols[t] \ {"output"} \subseteq db.cols[t]
                 /\ View(p).cols[t] # {} /\ "output" \notin View(p).cols[t] => "output" \notin db.cols[t]
      BY <1>8, <2>5 DEF Table
    <3>3. \A t \in Durable : View(p).rows[t] \subseteq db.rows[t]
      BY <2>4
    <3>4. View(p).nullDur = {} => db.nullDur = {}
      BY <2>4
    <3>5. QED BY <3>1, <3>2, <3>3, <3>4, Zenon DEF Keeps
  <2>8. \A t \in Table \ Durable : db.cols[t] = {}
    BY <1>3, <1>6, <2>5
  <2>9. Done(pc[p], db)
    BY <1>3, <2>5, SchemaOf DEF Done
  <2>10. QED BY <1>2, <1>3, <1>4, <1>5, <2>1, <2>3, <2>4, <2>6, <2>7, <2>8, <2>9, WriteStep
<1>9. QED BY <1>7, <1>8 DEF CreateTable

\* A column is added to a table that was created before.
LEMMA TableFirst ==
  ASSUME NEW i \in 1..52, Program[i].op = "add"
  PROVE  \E j \in 1..(i - 1) : Program[j].op = "create" /\ Program[j].table = Program[i].table
<1>1. Program[i].table \in {"jobs", "tasks", "executions", "loops"}
  BY DEF Program, Rebuild, ReadAdd, ReadAddMark, S, None
<1>2. /\ Program[i].table = "jobs" => i > 2
      /\ Program[i].table = "tasks" => i > 5
      /\ Program[i].table = "executions" => i > 20
      /\ Program[i].table = "loops" => i > 37
  BY DEF Program, Rebuild, ReadAdd, ReadAddMark, S, None
<1>3. /\ Program[2].op = "create" /\ Program[2].table = "jobs"
      /\ Program[5].op = "create" /\ Program[5].table = "tasks"
      /\ Program[20].op = "create" /\ Program[20].table = "executions"
      /\ Program[37].op = "create" /\ Program[37].table = "loops"
  BY DEF Program, Rebuild, ReadAdd, ReadAddMark, S, None
<1>4. QED BY <1>1, <1>2, <1>3

\* ... and so is one whose output column is looked for.
LEMMA CheckedTable ==
  ASSUME NEW i \in 1..52, Program[i].op = "output"
  PROVE  \E j \in 1..(i - 1) : Program[j].op = "create" /\ Program[j].table = Program[i].table
<1>1. i > 20 /\ Program[i].table \in {"tasks", "executions"}
  BY DEF Program, Rebuild, ReadAdd, ReadAddMark, S, None
<1>2. /\ Program[5].op = "create" /\ Program[5].table = "tasks"
      /\ Program[20].op = "create" /\ Program[20].table = "executions"
  BY DEF Program, Rebuild, ReadAdd, ReadAddMark, S, None
<1>3. QED BY <1>1, <1>2

LEMMA ReadColumnsStep ==
  ASSUME SchemaInv, TypeOK', NEW p \in Cmd, ReadColumns(p)
  PROVE  SchemaInv'
<1>1. TypeOK
  BY DEF SchemaInv
<1>2. /\ At(p, {"read"}) /\ Advance(p) /\ UNCHANGED <<disk, tx, rebuild>> /\ OthersAlone(p)
      /\ seen' = [seen EXCEPT ![p] = View(p).cols[Tab(p)]]
  BY <1>1, Alone DEF ReadColumns, Step
<1>3. pc[p] \in 1..52 /\ Program[pc[p]].op = "read" /\ pc'[p] = pc[p] + 1
  BY <1>1, <1>2, AtStatement, AdvanceType
<1>4. pc[p] > 1 /\ Program[pc[p]].op \notin Checks
  BY <1>3, First DEF Checks
<1>5. seen'[p] = View(p).cols[Tab(p)]
  BY <1>1, <1>2 DEF TypeOK
<1>6. At(p, {"add", "mark"})' => seen'[p] \ {"output"} \subseteq View(p).cols[Tab(p)']
  BY <1>3, <1>5, SameTable
<1>7. Past(pc[p] + 1, ~rebuild'[p], View(p))
  BY <1>2, <1>3, <1>4, PlainBefore, PastNext DEF Done
<1>8. QED BY <1>2, <1>3, <1>6, <1>7, QuietStep

LEMMA AddColumnStep ==
  ASSUME SchemaInv, TypeOK', NEW p \in Cmd, AddColumn(p)
  PROVE  SchemaInv'
<1>1. TypeOK
  BY DEF SchemaInv
<1>2. At(p, {"add"}) /\ Advance(p) /\ UNCHANGED <<seen, rebuild>> /\ OthersAlone(p)
  BY <1>1, Alone DEF AddColumn, local, Step
<1>3. /\ pc[p] \in 1..52 /\ Program[pc[p]].op = "add" /\ Tab(p) = Program[pc[p]].table
      /\ Stmt(p) = Program[pc[p]] /\ Tab(p) \in Durable /\ pc'[p] = pc[p] + 1
  BY <1>1, <1>2, AtStatement, AtTable, AdvanceType
<1>4. pc[p] \in 2..52 /\ At(p, {"add", "mark"})
  <2>1. pc[p] # 1
    BY <1>3, First
  <2>2. QED BY <1>3, <2>1, Length DEF At
<1>5. /\ View(p) \in Db /\ Known(View(p)) /\ Past(pc[p], ~rebuild[p], View(p))
      /\ \A t \in Table \ Durable : View(p).cols[t] = {}
      /\ seen[p] \ {"output"} \subseteq View(p).cols[Tab(p)]
  BY <1>3, <1>4, PlainBefore
<1> DEFINE c == Stmt(p).col
           C == View(p).cols[Tab(p)] \cup {c}
           N == IF c = "duration" THEN View(p).rows["tasks"] ELSE View(p).nullDur
           db == [View(p) EXCEPT !.cols[Tab(p)] = C, !.nullDur = N]
<1>6. Write(p, db) /\ c \notin View(p).cols[Tab(p)]
  BY DEF AddColumn
<1>7. c \in Full(Tab(p)) /\ c # "output" /\ c \in Column
  BY <1>3, AddedColumns, SchemaOf
<1>8. Tab(p) \in Table /\ C \in SUBSET Column /\ N \in SUBSET (Cmd \cup {Old})
  BY <1>3, <1>5, <1>7 DEF Table, Durable, Db
<1>9. db \in Db
  <2> HIDE DEF C, N
  <2>1. QED BY <1>5, <1>8, Statements
<1>10. /\ db.cols = [View(p).cols EXCEPT ![Tab(p)] = C] /\ db.nullDur = N
       /\ db.notNull = View(p).notNull /\ db.rows = View(p).rows /\ db.version = View(p).version
  BY <1>5 DEF Db
<1> HIDE DEF db
<1>11. db.cols[Tab(p)] = C /\ \A t \in Table \ {Tab(p)} : db.cols[t] = View(p).cols[t]
  BY <1>5, <1>8, <1>10 DEF Db
<1>12. "id" \in View(p).cols[Tab(p)]
  <2>1. PICK j \in 1..(pc[p] - 1) : Program[j].op = "create" /\ Program[j].table = Tab(p)
    BY <1>3, TableFirst
  <2>2. Done(j, View(p))
    BY <1>5 DEF Past
  <2>3. QED BY <2>1, <2>2 DEF Done
<1>13. Keeps(View(p), db)
  <2>1. View(p).notNull => db.notNull
    BY <1>10, Zenon
  <2>2. ASSUME NEW t \in Durable
        PROVE  /\ View(p).cols[t] \ {"output"} \subseteq db.cols[t]
               /\ View(p).cols[t] # {} /\ "output" \notin View(p).cols[t] => "output" \notin db.cols[t]
    BY <1>7, <1>11 DEF Table
  <2>3. \A t \in Durable : View(p).rows[t] \subseteq db.rows[t]
    BY <1>10
  <2>4. "duration" \in View(p).cols["tasks"] /\ View(p).nullDur = {} => db.nullDur = {}
    <3>1. c = "duration" => Tab(p) = "tasks"
      BY <1>3, <1>7, Schema DEF Durable
    <3>2. QED BY <1>6, <1>10, <3>1
  <2>5. QED BY <2>1, <2>2, <2>3, <2>4, Zenon DEF Keeps
<1>14. Known(db)
  BY <1>5, <1>7, <1>11, <1>12 DEF Known, Table
<1>15. \A t \in Table \ Durable : db.cols[t] = {}
  BY <1>3, <1>5, <1>11
<1>16. At(p, {"add", "mark"})' => seen[p] \ {"output"} \subseteq db.cols[Tab(p)']
  BY <1>3, <1>5, <1>11, SameTable
<1>17. Done(pc[p], db)
  BY <1>3, <1>11 DEF Done
<1> HIDE DEF c, C, N
<1>18. QED BY <1>2, <1>3, <1>4, <1>6, <1>9, <1>10, <1>13, <1>14, <1>15, <1>16, <1>17, WriteStep

LEMMA BackfillDurationStep ==
  ASSUME SchemaInv, TypeOK', NEW p \in Cmd, BackfillDuration(p)
  PROVE  SchemaInv'
<1>1. TypeOK
  BY DEF SchemaInv
<1>2. At(p, {"backfill"}) /\ Advance(p) /\ UNCHANGED <<seen, rebuild>> /\ OthersAlone(p)
  BY <1>1, Alone DEF BackfillDuration, local, Step
<1>3. pc[p] \in 1..52 /\ Program[pc[p]].op = "backfill" /\ pc'[p] = pc[p] + 1
  BY <1>1, <1>2, AtStatement, AdvanceType
<1>4. pc[p] \in 2..52
  BY <1>3, First
<1>5. /\ View(p) \in Db /\ Known(View(p)) /\ Past(pc[p], ~rebuild[p], View(p))
      /\ \A t \in Table \ Durable : View(p).cols[t] = {}
  BY <1>3, <1>4, PlainBefore
<1> DEFINE db == [View(p) EXCEPT !.nullDur = {}]
<1>6. db \in Db
  BY <1>5 DEF Db
<1>7. /\ db.cols = View(p).cols /\ db.nullDur = {} /\ db.notNull = View(p).notNull
      /\ db.rows = View(p).rows /\ db.version = View(p).version
  BY <1>5 DEF Db
<1>8. Within(p, db) /\ pc[p] + 1 \in MayHold
  BY <1>3, Transactions DEF BackfillDuration
<1> HIDE DEF db
<1>9. Keeps(View(p), db)
  <2>1. View(p).notNull => db.notNull
    BY <1>7, Zenon
  <2>2. QED BY <1>7, <2>1 DEF Keeps
<1>10. Known(db) /\ \A t \in Table \ Durable : db.cols[t] = {}
  BY <1>5, <1>7 DEF Known
<1>11. Done(pc[p], db)
  <2>1. 11 \in 1..(pc[p] - 1) /\ Program[11].op = "add" /\ Program[11].table = "tasks"
        /\ Program[11].col = "duration"
    BY <1>3, DurationAdded
  <2>2. Done(11, View(p))
    BY <1>5, <2>1 DEF Past
  <2>3. QED BY <1>3, <1>7, <2>1, <2>2 DEF Done
<1>12. ~At(p, {"add", "mark"})'
  BY <1>3, NothingRead
<1>13. QED
  BY <1>2, <1>3, <1>4, <1>6, <1>7, <1>8, <1>9, <1>10, <1>11, <1>12, WriteStep

LEMMA CheckTableStep ==
  ASSUME SchemaInv, TypeOK', NEW p \in Cmd, CheckTable(p)
  PROVE  SchemaInv'
<1>1. TypeOK
  BY DEF SchemaInv
<1>2. /\ At(p, Checks) /\ Advance(p) /\ UNCHANGED <<disk, tx, seen>> /\ OthersAlone(p)
      /\ rebuild' = [rebuild EXCEPT ![p] = NeedsRebuild(p)]
  BY <1>1, Alone DEF CheckTable, Step, Checks
<1>3. /\ pc[p] \in 1..52 /\ Program[pc[p]].op \in Checks /\ pc'[p] = pc[p] + 1
      /\ Stmt(p) = Program[pc[p]] /\ Tab(p) = Program[pc[p]].table
  BY <1>1, <1>2, AtStatement, AdvanceType
<1>4. pc[p] > 1 /\ Program[pc[p]].op \notin {"new", "copy", "drop", "rename", "release", "done",
                                             "read", "add"}
  BY <1>3, First DEF Checks
<1>5. rebuild'[p] = NeedsRebuild(p)
  BY <1>1, <1>2 DEF TypeOK
<1>6. Past(pc[p], ~rebuild[p], View(p)) /\ Known(View(p))
  BY <1>3, <1>4, PlainBefore
<1>7. ~rebuild'[p] => Rebuilt(pc[p], View(p))
  <2>1. CASE Program[pc[p]].op = "nullable"
    BY <1>3, <1>5, <2>1, Zenon DEF NeedsRebuild, Rebuilt
  <2>2. CASE Program[pc[p]].op = "output"
    <3>1. Tab(p) \in {"tasks", "executions"} /\ Tab(p) \in Durable
      BY <1>3, <2>2, Subjects
    <3>2. \E j \in 1..(pc[p] - 1) : Program[j].op = "create" /\ Program[j].table = Tab(p)
      BY <1>3, <2>2, CheckedTable
    <3>3. PICK j \in 1..(pc[p] - 1) : Program[j].op = "create" /\ Program[j].table = Tab(p)
      BY <3>2
    <3>4. "id" \in View(p).cols[Tab(p)]
      BY <1>6, <3>3 DEF Past, Done
    <3>5. QED BY <1>3, <1>5, <2>2, <3>4 DEF NeedsRebuild, Rebuilt
  <2>3. QED BY <1>3, <2>1, <2>2 DEF Checks
<1>8. Past(pc[p] + 1, ~rebuild'[p], View(p))
  BY <1>3, <1>6, <1>7, PastCheck
<1>9. ~At(p, {"add", "mark"})'
  BY <1>3, <1>4, NothingRead
<1>10. QED BY <1>2, <1>3, <1>4, <1>8, <1>9, QuietStep

LEMMA MarkUntrackedStep ==
  ASSUME SchemaInv, TypeOK', NEW p \in Cmd, MarkUntracked(p)
  PROVE  SchemaInv'
<1>1. TypeOK
  BY DEF SchemaInv
<1>2. At(p, {"mark"}) /\ Advance(p) /\ UNCHANGED <<seen, rebuild>> /\ OthersAlone(p)
  BY <1>1, Alone DEF MarkUntracked, local, Step
<1>3. /\ pc[p] \in 1..52 /\ Program[pc[p]].op = "mark" /\ Tab(p) \in Durable
      /\ pc'[p] = pc[p] + 1
  BY <1>1, <1>2, AtStatement, AtTable, AdvanceType
<1>4. pc[p] \in 2..52
  BY <1>3, First
<1>5. /\ View(p) \in Db /\ Known(View(p)) /\ Past(pc[p], ~rebuild[p], View(p))
      /\ \A t \in Table \ Durable : View(p).cols[t] = {}
  BY <1>3, <1>4, PlainBefore
<1> DEFINE R == View(p).rows[Tab(p)]
           db == [View(p) EXCEPT !.untracked[Tab(p)] = R]
<1>6. Tab(p) \in Table /\ R \in SUBSET (Cmd \cup {Old})
  BY <1>3, <1>5 DEF Table, Db
<1>7. db \in Db
  <2> HIDE DEF R
  <2>1. QED BY <1>5, <1>6, Statements
<1>8. /\ db.cols = View(p).cols /\ db.nullDur = View(p).nullDur /\ db.notNull = View(p).notNull
      /\ db.rows = View(p).rows /\ db.version = View(p).version
  BY <1>5 DEF Db
<1>9. Within(p, db) /\ pc[p] + 1 \in MayHold
  BY <1>3, Transactions DEF MarkUntracked
<1> HIDE DEF db
<1>10. Keeps(View(p), db)
  <2>1. View(p).notNull => db.notNull
    BY <1>8, Zenon
  <2>2. QED BY <1>8, <2>1 DEF Keeps
<1>11. Known(db) /\ \A t \in Table \ Durable : db.cols[t] = {}
  BY <1>5, <1>8 DEF Known
<1>12. Done(pc[p], db)
  BY <1>3 DEF Done
<1>13. ~At(p, {"add", "mark"})'
  BY <1>3, NothingRead
<1>14. QED
  BY <1>2, <1>3, <1>4, <1>7, <1>8, <1>9, <1>10, <1>11, <1>12, <1>13, WriteStep

LEMMA PassOverStep ==
  ASSUME SchemaInv, TypeOK', NEW p \in Cmd, PassOver(p)
  PROVE  SchemaInv'
<1>1. TypeOK
  BY DEF SchemaInv
<1>2. Advance(p) /\ UNCHANGED <<disk, tx, seen, rebuild>> /\ OthersAlone(p)
  BY <1>1, Alone DEF PassOver, local, Step
<1>3. CASE At(p, {"add", "mark"}) /\ Stmt(p).col \in seen[p]
  <2>1. /\ pc[p] \in 1..52 /\ Program[pc[p]].op \in {"add", "mark"} /\ pc'[p] = pc[p] + 1
        /\ Stmt(p) = Program[pc[p]] /\ Tab(p) = Program[pc[p]].table
    BY <1>1, <1>2, <1>3, AtStatement, AdvanceType
  <2>2. pc[p] > 1 /\ Program[pc[p]].op \notin Checks
        /\ Program[pc[p]].op \notin {"new", "copy", "drop", "rename", "release", "done"}
    BY <2>1, First DEF Checks
  <2>3. /\ Past(pc[p], ~rebuild[p], View(p))
        /\ seen[p] \ {"output"} \subseteq View(p).cols[Tab(p)]
    BY <1>3, <2>1, <2>2, PlainBefore
  <2>4. Done(pc[p], View(p))
    <3>1. CASE Program[pc[p]].op = "add"
      <4>1. Tab(p) \in Durable
        BY <2>1, <3>1, Subjects
      <4>2. Stmt(p).col # "output"
        BY <2>1, <3>1, <4>1, AddedColumns, SchemaOf
      <4>3. QED BY <1>3, <2>1, <2>3, <3>1, <4>2 DEF Done
    <3>2. CASE Program[pc[p]].op = "mark"
      BY <3>2 DEF Done
    <3>3. QED BY <2>1, <3>1, <3>2
  <2>5. Past(pc[p] + 1, ~rebuild'[p], View(p))
    BY <1>2, <2>1, <2>2, <2>3, <2>4, PastNext
  <2>6. At(p, {"add", "mark"})' => seen'[p] \ {"output"} \subseteq View(p).cols[Tab(p)']
    BY <1>2, <2>1, <2>3, SameTable
  <2>7. QED BY <1>2, <2>1, <2>2, <2>5, <2>6, QuietStep
<1>4. CASE At(p, {"new", "copy", "drop", "rename"}) /\ ~rebuild[p]
  <2>1. /\ pc[p] \in 1..52 /\ Program[pc[p]].op \in {"new", "copy", "drop", "rename"}
        /\ pc'[p] = pc[p] + 1
    BY <1>1, <1>2, <1>4, AtStatement, AdvanceType
  <2>2. pc[p] > 1 /\ Program[pc[p]].op \notin Checks
        /\ Program[pc[p]].op \notin {"release", "done", "read", "add", "create", "backfill"}
    BY <2>1, First DEF Checks
  <2>3. Past(pc[p], ~rebuild[p], View(p))
    BY <1>4, <2>1, <2>2, PlainBefore
  <2>4. Done(pc[p], View(p))
    BY <2>2 DEF Done
  <2>5. Past(pc[p] + 1, ~rebuild'[p], View(p))
    BY <1>2, <1>4, <2>1, <2>2, <2>3, <2>4, PastNext
  <2>6. ~At(p, {"add", "mark"})'
    BY <2>1, <2>2, NothingRead
  <2>7. QED BY <1>2, <1>4, <2>1, <2>2, <2>5, <2>6, QuietStep
<1>5. QED BY <1>3, <1>4 DEF PassOver

LEMMA ReleaseStep ==
  ASSUME SchemaInv, TypeOK', NEW p \in Cmd, Release(p)
  PROVE  SchemaInv'
<1>1. TypeOK
  BY DEF SchemaInv
<1>2. At(p, {"release"}) /\ Advance(p) /\ UNCHANGED <<seen, rebuild>> /\ OthersAlone(p) /\ Commit(p)
  BY <1>1, Alone DEF Release, local, Step
<1>3. pc[p] \in 1..52 /\ Program[pc[p]].op = "release" /\ pc'[p] = pc[p] + 1
  BY <1>1, <1>2, AtStatement, AdvanceType
<1>4. pc[p] \in 2..52 /\ Program[pc[p]].op \notin Checks
  <2>1. pc[p] # 1
    BY <1>3, First
  <2>2. QED BY <1>3, <2>1 DEF Checks
<1>5. /\ View(p) \in Db /\ Known(View(p)) /\ Past(pc[p], ~rebuild[p], View(p))
      /\ \A t \in Table \ Durable : View(p).cols[t] = {}
  BY <1>3, <1>4, PlainBefore
<1>6. CASE Holds(p)
  <2>1. disk' = View(p) /\ tx'[p] = NoTx
    BY <1>1, <1>2, <1>6, Views DEF Commit, TypeOK
  <2>2. Unlocked(p)
    BY <1>6, HoldsAlone
  <2>3. QED BY <1>2, <1>3, <1>4, <1>5, <2>1, <2>2, KeepsItself, CommitStep
<1>7. CASE ~Holds(p)
  <2>1. UNCHANGED <<disk, tx>>
    BY <1>2, <1>7 DEF Commit
  <2>2. Past(pc[p] + 1, ~rebuild'[p], View(p))
    BY <1>2, <1>3, <1>4, <1>5, PastNext DEF Done
  <2>3. ~At(p, {"add", "mark"})'
    BY <1>3, NothingRead
  <2>4. QED BY <1>2, <1>3, <1>7, <2>1, <2>2, <2>3, QuietStep
<1>8. QED BY <1>6, <1>7

LEMMA SetVersionStep ==
  ASSUME SchemaInv, TypeOK', NEW p \in Cmd, SetVersion(p)
  PROVE  SchemaInv'
<1>1. TypeOK
  BY DEF SchemaInv
<1>2. At(p, {"done"}) /\ Advance(p) /\ UNCHANGED <<seen, rebuild>> /\ OthersAlone(p)
  BY <1>1, Alone DEF SetVersion, local, Step
<1>3. pc[p] = 52 /\ Program[52].op = "done" /\ pc'[p] = pc[p] + 1
  <2>1. pc[p] \in 1..52 /\ Program[pc[p]].op = "done" /\ pc'[p] = pc[p] + 1
    BY <1>1, <1>2, AtStatement, AdvanceType
  <2>2. pc[p] = 52
    BY <2>1, Transactions
  <2>3. QED BY <2>1, <2>2
<1>4. /\ View(p) \in Db /\ Known(View(p)) /\ Past(52, ~rebuild[p], View(p))
      /\ \A t \in Table \ Durable : View(p).cols[t] = {}
  BY <1>3, PlainBefore
<1> DEFINE db == [View(p) EXCEPT !.version = Current]
<1>5. /\ db \in Db
      /\ db.cols = View(p).cols /\ db.nullDur = View(p).nullDur /\ db.notNull = View(p).notNull
      /\ db.rows = View(p).rows
  BY <1>4 DEF Db, Current
<1>6. disk' = db /\ tx'[p] = NoTx /\ Unlocked(p)
  BY <1>1 DEF SetVersion, TypeOK
<1> HIDE DEF db
<1>7. Keeps(View(p), db)
  <2>1. View(p).notNull => db.notNull
    BY <1>5, Zenon
  <2>2. QED BY <1>5, <2>1 DEF Keeps
<1>8. Known(db) /\ \A t \in Table \ Durable : db.cols[t] = {}
  BY <1>4, <1>5 DEF Known
<1>9. Complete(db)
  <2>1. Past(52, ~rebuild[p], db)
    BY <1>4, <1>7, PastKept
  <2>2. db.notNull \in BOOLEAN
    BY <1>5 DEF Db
  <2>3. QED BY <1>8, <2>1, <2>2, PastComplete
<1>10. QED BY <1>2, <1>3, <1>5, <1>6, <1>7, <1>8, <1>9, CommitStep

LEMMA CreateJobStep ==
  ASSUME SchemaInv, TypeOK', NEW p \in Cmd, CreateJob(p)
  PROVE  SchemaInv'
<1>1. TypeOK /\ DiskInv /\ CommandInv(p)
  BY DEF SchemaInv
<1>2. /\ pc[p] = 53 /\ pc'[p] = 0 /\ Unlocked(p) /\ UNCHANGED <<tx, seen, rebuild>>
      /\ disk' = [disk EXCEPT !.rows["jobs"] = @ \cup {p}, !.rows["tasks"] = @ \cup {p}]
      /\ OthersAlone(p)
  BY <1>1, Alone, Length DEF CreateJob, local, Step, TypeOK
<1>3. ~Holds(p) /\ ~Holds(p)'
  BY <1>1, <1>2, Beginnings DEF CommandInv, Holds
<1>4. \A ops : ~At(p, ops)'
  BY <1>2 DEF At
<1>5. View(p)' = disk' /\ ~MidDrop(p)'
  BY <1>3, <1>4 DEF View, Holds, MidDrop
<1>6. Due(p)' = disk'
  BY <1>5 DEF Due
<1>7. /\ disk'.cols = disk.cols /\ disk'.nullDur = disk.nullDur /\ disk'.notNull = disk.notNull
      /\ disk'.version = disk.version
      /\ \A t \in Durable : disk.rows[t] \subseteq disk'.rows[t]
  BY <1>1, <1>2 DEF TypeOK, Db, Durable, Table
<1>8. DiskInv'
  BY <1>1, <1>7 DEF DiskInv, Known, Complete
<1>9. Keeps(disk, disk')
  <2>1. disk.notNull => disk'.notNull
    BY <1>7, Zenon
  <2>2. QED BY <1>7, <2>1 DEF Keeps
<1>10. CommandInv(p)'
  BY <1>2, <1>3, <1>4, <1>6, <1>8, KeepsItself DEF CommandInv, DiskInv
<1>11. QED BY <1>2, <1>3, <1>8, <1>9, <1>10, StepKeeps

\* Where a command is in a rebuild.
LEMMA InRebuild ==
  ASSUME SchemaInv, NEW p \in Cmd, NEW op \in {"new", "copy", "drop", "rename"}, Rebuilding(p, op)
  PROVE  /\ pc[p] \in 2..51 /\ pc[p] \in 1..52 /\ pc[p] \in 1..53
         /\ Program[pc[p]].op = op /\ rebuild[p] /\ op \notin Checks
         /\ Tab(p) = Program[pc[p]].table
         /\ Tab(p) \in {"tasks", "executions"} /\ NewTab(p) \in Table \ Durable
         /\ Tab(p) \in Durable /\ Tab(p) \in Table
         /\ Created(NewTab(p)) = Full(Tab(p))
         /\ View(p) \in Db
         /\ op # "new" => Holds(p)
         /\ op # "rename" => Due(p) = View(p)
         /\ op = "rename" => MidDrop(p)
         /\ Keeps(disk, Due(p)) /\ Known(Due(p)) /\ Past(pc[p], FALSE, Due(p))
         /\ Holds(p) => Due(p).version = disk.version
         /\ ~Holds(p) => View(p) = disk
         /\ \A t \in Table \ Durable :
              Due(p).cols[t] = {} \/ (op \in {"copy", "drop"} /\ t = NewTab(p))
<1>1. TypeOK /\ CommandInv(p)
  BY DEF SchemaInv
<1>2. At(p, {op}) /\ rebuild[p] /\ op # "version" /\ op # "done" /\ op # "release"
  BY DEF Rebuilding
<1>3. pc[p] \in 1..52 /\ Tab(p) = Program[pc[p]].table /\ Program[pc[p]].op = op
  BY <1>2, AtStatement
<1>4. pc[p] \in 2..51
  <2>1. pc[p] # 1
    BY <1>2, <1>3, First
  <2>2. pc[p] < 52
    BY <1>2, <1>3, RebuildSteps
  <2>3. QED BY <1>3, <2>1, <2>2
<1>5. Tab(p) \in {"tasks", "executions"}
  BY <1>3, Subjects
<1>6. /\ NewTab(p) \in Table \ Durable /\ Tab(p) \in Durable /\ Tab(p) \in Table
      /\ Created(NewTab(p)) = Full(Tab(p))
  BY <1>5, Schema DEF NewTab, Table, Durable
<1>7. View(p) \in Db /\ (~Holds(p) => View(p) = disk)
  BY <1>1, Views
<1>8. /\ op # "new" => Holds(p)
      /\ op # "rename" => ~MidDrop(p)
      /\ op = "rename" => MidDrop(p)
      /\ \A t : Building(p, t) => op \in {"copy", "drop"} /\ t = NewTab(p)
  <2>1. Stmt(p).op = op /\ Program[pc[p]].op = op
    BY <1>3 DEF Stmt
  <2>2. op # "new" => Holds(p)
    BY <1>1, <1>2, <1>3 DEF CommandInv, At
  <2>3. QED BY <1>2, <1>3, <2>2 DEF MidDrop, Building, At
<1>9. op # "rename" => Due(p) = View(p)
  BY <1>8 DEF Due
<1>10. Past(pc[p], FALSE, Due(p))
  BY <1>1, <1>2, <1>4 DEF CommandInv, Past
<1>11. /\ Keeps(disk, Due(p)) /\ Known(Due(p)) /\ (Holds(p) => Due(p).version = disk.version)
       /\ \A t \in Table \ Durable :
            Due(p).cols[t] = {} \/ (op \in {"copy", "drop"} /\ t = NewTab(p))
  BY <1>1, <1>8 DEF CommandInv
<1>12. op \notin Checks
  BY DEF Checks
<1>13. pc[p] \in 1..52 /\ pc[p] \in 1..53
  BY <1>4
<1>14. QED
  BY <1>2, <1>3, <1>4, <1>5, <1>6, <1>7, <1>8, <1>9, <1>10, <1>11, <1>12, <1>13

\* A step of a rebuild writes into its transaction.
LEMMA RebuildStep ==
  ASSUME SchemaInv, TypeOK', NEW p \in Cmd, NEW op \in {"new", "copy", "drop", "rename"},
         Rebuilding(p, op), OthersAlone(p), NEW db \in Db, Within(p, db),
         pc'[p] = pc[p] + 1, UNCHANGED <<seen, rebuild>>,
         NEW due, Due(p)' = due,
         due.version = Due(p).version, Keeps(Due(p), due), Known(due),
         \A t \in Table \ Durable : due.cols[t] = {} \/ (op \in {"new", "copy"} /\ t = NewTab(p)),
         op \in {"new", "copy"} => db.cols[NewTab(p)] = Created(NewTab(p)),
         op = "copy" => db.rows[NewTab(p)] = db.rows[Tab(p)],
         op = "drop" => Rebuilt(pc[p] - 3, due)
  PROVE  SchemaInv'
<1>1. /\ pc[p] \in 2..51 /\ pc[p] \in 1..52 /\ pc[p] \in 1..53
      /\ Program[pc[p]].op = op /\ rebuild[p] /\ op \notin Checks
      /\ Keeps(disk, Due(p)) /\ Past(pc[p], FALSE, Due(p))
      /\ Due(p).version = disk.version
  BY InRebuild
<1>2. TypeOK /\ DiskInv /\ CommandInv(p)
  BY DEF SchemaInv
<1>3. disk' = disk /\ tx'[p] = db /\ Unlocked(p)
  BY <1>2 DEF Within, TypeOK
<1>4. Holds(p)' /\ View(p)' = db
  BY <1>3, NoneIsNone DEF Holds, View
<1>5. pc[p] + 1 \in MayHold
  <2>1. op = "new" \/ pc[p] \in MayHold
    BY <1>2, InRebuild DEF CommandInv
  <2>2. QED BY <1>1, <2>1, Transactions
<1>6. /\ op = "new" => Program[pc[p] + 1].op = "copy"
      /\ op = "copy" => Program[pc[p] + 1].op = "drop"
      /\ op = "drop" => Program[pc[p] + 1].op = "rename"
      /\ op = "rename" => Program[pc[p] + 1].op = "release"
  BY <1>1, RebuildSteps
<1>7. op # "rename" => Tab(p)' = Tab(p) /\ NewTab(p)' = NewTab(p)
  <2>1. op # "rename" => Program[pc[p] + 1].table = Program[pc[p]].table
    BY <1>1, RebuildSteps
  <2>2. QED BY <2>1 DEF NewTab, Tab, Stmt
<1>8. \A ops : At(p, ops)' <=> Program[pc[p] + 1].op \in ops
  BY <1>1, Length DEF At
<1>9. DiskInv'
  BY <1>2, <1>3 DEF DiskInv
<1>10. Past(pc[p] + 1, FALSE, due)
  <2>1. Past(pc[p], FALSE, due)
    BY <1>1, PastKept
  <2>2. Done(pc[p], due)
    BY <1>1 DEF Done
  <2>3. QED BY <1>1, <2>1, <2>2, PastNext
<1>11. Keeps(disk, due)
  BY <1>1, KeepsOn
<1>12. CommandInv(p)'
  <2>1. Holds(p)' => pc'[p] \in MayHold /\ Due(p)'.version = disk'.version
    BY <1>1, <1>3, <1>5
  <2>2. Keeps(disk, Due(p))' /\ Known(Due(p))'
    BY <1>3, <1>11
  <2>3. ASSUME NEW t \in Table \ Durable PROVE Building(p, t)' \/ Due(p)'.cols[t] = {}
    <3>1. CASE op \in {"new", "copy"} /\ t = NewTab(p)
      <4>1. At(p, {"copy", "drop"})'
        BY <1>6, <1>8, <3>1
      <4>2. NewTab(p)' = NewTab(p)
        BY <1>7, <3>1
      <4>3. QED BY <1>1, <3>1, <4>1, <4>2 DEF Building
    <3>2. QED BY <3>1
  <2>4. (At(p, {"copy", "drop"}) /\ rebuild[p])' => (View(p).cols[NewTab(p)] = Created(NewTab(p)))'
    <3>1. SUFFICES ASSUME At(p, {"copy", "drop"})'
                   PROVE  db.cols[NewTab(p)'] = Created(NewTab(p)')
      BY <1>4 DEF Created
    <3>2. op \in {"new", "copy"}
      BY <1>6, <1>8, <3>1
    <3>3. QED BY <1>7, <3>2
  <2>5. (At(p, {"drop"}) /\ rebuild[p])' => (View(p).rows[NewTab(p)] = View(p).rows[Tab(p)])'
    <3>1. SUFFICES ASSUME At(p, {"drop"})' PROVE db.rows[NewTab(p)'] = db.rows[Tab(p)']
      BY <1>4
    <3>2. op = "copy"
      BY <1>6, <1>8, <3>1
    <3>3. QED BY <1>7, <3>2
  <2>6. ~At(p, {"add", "mark"})'
    BY <1>6, <1>8
  <2>7. Past(pc'[p], ~rebuild'[p], Due(p)')
    BY <1>1, <1>10 DEF Past
  <2>8. QED BY <1>4, <2>1, <2>2, <2>3, <2>4, <2>5, <2>6, <2>7 DEF CommandInv
<1>13. QED BY <1>3, <1>9, <1>12, StepKeeps

\* After the next step, unless it is the RENAME that makes the old table's place
\* its successor's, a command's view is what its transaction comes to.
LEMMA DueAfter ==
  ASSUME SchemaInv, TypeOK', NEW p \in Cmd, NEW op \in {"new", "copy", "drop", "rename"},
         Rebuilding(p, op), NEW db \in Db, Within(p, db), pc'[p] = pc[p] + 1, UNCHANGED rebuild
  PROVE  /\ View(p)' = db
         /\ op # "drop" => Due(p)' = db
         /\ op = "drop" =>
              Due(p)' = [db EXCEPT !.cols[Tab(p)] = db.cols[NewTab(p)], !.cols[NewTab(p)] = {},
                                   !.rows[Tab(p)] = db.rows[NewTab(p)], !.rows[NewTab(p)] = {},
                                   !.notNull = @ \/ Tab(p) = "tasks"]
<1>1. pc[p] \in 2..51 /\ pc[p] \in 1..52 /\ Program[pc[p]].op = op /\ rebuild[p] /\ TypeOK
  BY InRebuild DEF SchemaInv
<1>2. View(p)' = db
  BY <1>1, NoneIsNone DEF Within, View, TypeOK
<1>3. /\ op # "drop" => Program[pc[p] + 1].op # "rename"
      /\ op = "drop" => Program[pc[p] + 1].op = "rename"
                        /\ Program[pc[p] + 1].table = Program[pc[p]].table
  BY <1>1, RebuildSteps
<1>4. op = "drop" => Tab(p)' = Tab(p) /\ NewTab(p)' = NewTab(p)
  BY <1>3 DEF NewTab, Tab, Stmt
<1>5. MidDrop(p)' <=> op = "drop"
  BY <1>1, <1>3, Length DEF MidDrop, At
<1>6. op # "drop" => Due(p)' = db
  BY <1>2, <1>5 DEF Due
<1>7. CASE op = "drop"
  BY <1>2, <1>4, <1>5, <1>7 DEF Due
<1>8. QED BY <1>2, <1>6, <1>7

LEMMA CreateNewStep ==
  ASSUME SchemaInv, TypeOK', NEW p \in Cmd, CreateNew(p)
  PROVE  SchemaInv'
<1> DEFINE db == [View(p) EXCEPT !.cols[NewTab(p)] = Created(NewTab(p)), !.rows[NewTab(p)] = {}]
<1>1. TypeOK /\ Rebuilding(p, "new") /\ Within(p, db) /\ OthersAlone(p)
      /\ Advance(p) /\ UNCHANGED <<seen, rebuild>>
  BY Alone DEF CreateNew, local, Step, SchemaInv
<1>2. /\ pc[p] \in 1..52 /\ Due(p) = View(p) /\ View(p) \in Db /\ Known(View(p))
      /\ Tab(p) \in Durable /\ NewTab(p) \in Table \ Durable /\ Created(NewTab(p)) = Full(Tab(p))
      /\ \A t \in Table \ Durable : View(p).cols[t] = {}
  BY <1>1, InRebuild
<1>3. pc'[p] = pc[p] + 1
  BY <1>1, <1>2, AdvanceType
<1>4. Created(NewTab(p)) \in SUBSET Column
  BY <1>2, SchemaOf
<1>5. db \in Db
  BY <1>2, <1>4, Statements
<1>6. /\ \A t \in Durable : db.cols[t] = View(p).cols[t] /\ db.rows[t] = View(p).rows[t]
      /\ db.notNull = View(p).notNull /\ db.nullDur = View(p).nullDur
      /\ db.version = View(p).version
      /\ db.cols[NewTab(p)] = Created(NewTab(p))
      /\ \A t \in Table \ Durable : t # NewTab(p) => db.cols[t] = {}
  BY <1>2 DEF Db
<1> HIDE DEF db
<1>7. Keeps(View(p), db)
  <2>1. View(p).notNull => db.notNull
    BY <1>6, Zenon
  <2>2. "tasks" \in Durable
    BY DEF Durable
  <2>3. QED BY <1>6, <2>1, <2>2 DEF Keeps
<1>8. Known(db)
  BY <1>2, <1>6 DEF Known
<1>9. Due(p)' = db
  BY <1>1, <1>3, <1>5, DueAfter
<1>10. QED BY <1>1, <1>2, <1>3, <1>5, <1>6, <1>7, <1>8, <1>9, RebuildStep

LEMMA CopyRowsStep ==
  ASSUME SchemaInv, TypeOK', NEW p \in Cmd, CopyRows(p)
  PROVE  SchemaInv'
<1> DEFINE db == [View(p) EXCEPT !.rows[NewTab(p)] = View(p).rows[Tab(p)]]
<1>1. TypeOK /\ Rebuilding(p, "copy") /\ Write(p, db) /\ OthersAlone(p)
      /\ Advance(p) /\ UNCHANGED <<seen, rebuild>>
  BY Alone DEF CopyRows, local, Step, SchemaInv
<1>2. /\ pc[p] \in 1..52 /\ Due(p) = View(p) /\ View(p) \in Db /\ Known(View(p)) /\ Holds(p)
      /\ Tab(p) \in Durable /\ Tab(p) \in Table /\ NewTab(p) \in Table \ Durable
      /\ \A t \in Table \ Durable : View(p).cols[t] = {} \/ t = NewTab(p)
  BY <1>1, InRebuild
<1>3. pc'[p] = pc[p] + 1
  BY <1>1, <1>2, AdvanceType
<1>4. View(p).rows[Tab(p)] \in SUBSET (Cmd \cup {Old})
  BY <1>2 DEF Db
<1>5. db \in Db
  BY <1>2, <1>4, Statements
<1>6. View(p).cols[NewTab(p)] = Created(NewTab(p))
  BY <1>1 DEF SchemaInv, CommandInv, Rebuilding, At
<1>7. /\ \A t \in Durable : db.cols[t] = View(p).cols[t] /\ db.rows[t] = View(p).rows[t]
      /\ db.notNull = View(p).notNull /\ db.nullDur = View(p).nullDur
      /\ db.version = View(p).version
      /\ db.cols[NewTab(p)] = Created(NewTab(p))
      /\ db.rows[NewTab(p)] = db.rows[Tab(p)]
      /\ \A t \in Table \ Durable : t # NewTab(p) => db.cols[t] = {}
  BY <1>2, <1>6 DEF Db
<1>8. Within(p, db)
  BY <1>1, <1>2 DEF Write
<1> HIDE DEF db
<1>9. Keeps(View(p), db)
  <2>1. View(p).notNull => db.notNull
    BY <1>7, Zenon
  <2>2. "tasks" \in Durable
    BY DEF Durable
  <2>3. QED BY <1>7, <2>1, <2>2 DEF Keeps
<1>10. Known(db)
  BY <1>2, <1>7 DEF Known
<1>11. Due(p)' = db
  BY <1>1, <1>3, <1>5, <1>8, DueAfter
<1>12. QED BY <1>1, <1>2, <1>3, <1>5, <1>7, <1>8, <1>9, <1>10, <1>11, RebuildStep

LEMMA DropOldStep ==
  ASSUME SchemaInv, TypeOK', NEW p \in Cmd, DropOld(p)
  PROVE  SchemaInv'
<1> DEFINE db == [View(p) EXCEPT !.cols[Tab(p)] = {}, !.rows[Tab(p)] = {}]
<1> DEFINE due == [db EXCEPT !.cols[Tab(p)] = db.cols[NewTab(p)], !.cols[NewTab(p)] = {},
                             !.rows[Tab(p)] = db.rows[NewTab(p)], !.rows[NewTab(p)] = {},
                             !.notNull = @ \/ Tab(p) = "tasks"]
<1>1. TypeOK /\ Rebuilding(p, "drop") /\ Write(p, db) /\ OthersAlone(p)
      /\ Advance(p) /\ UNCHANGED <<seen, rebuild>>
  BY Alone DEF DropOld, local, Step, SchemaInv
<1>2. /\ pc[p] \in 1..52 /\ Due(p) = View(p) /\ View(p) \in Db /\ Known(View(p)) /\ Holds(p)
      /\ Tab(p) \in Durable /\ Tab(p) \in Table /\ NewTab(p) \in Table \ Durable
      /\ Created(NewTab(p)) = Full(Tab(p))
      /\ \A t \in Table \ Durable : View(p).cols[t] = {} \/ t = NewTab(p)
  BY <1>1, InRebuild
<1>3. pc'[p] = pc[p] + 1
  BY <1>1, <1>2, AdvanceType
<1>4. db \in Db
  BY <1>2, Statements
<1>5. /\ View(p).cols[NewTab(p)] = Full(Tab(p))
      /\ View(p).rows[NewTab(p)] = View(p).rows[Tab(p)]
  BY <1>1, <1>2 DEF SchemaInv, CommandInv, Rebuilding, At
<1>6. Within(p, db)
  BY <1>1, <1>2 DEF Write
<1>7. Due(p)' = due
  BY <1>1, <1>3, <1>4, <1>6, DueAfter
<1>8. /\ \A t \in Table : t # Tab(p) => db.cols[t] = View(p).cols[t] /\ db.rows[t] = View(p).rows[t]
      /\ db.notNull = View(p).notNull /\ db.nullDur = View(p).nullDur
      /\ db.version = View(p).version
  BY <1>2 DEF Db
<1>9. /\ NewTab(p) \in Table /\ NewTab(p) # Tab(p) /\ Durable \subseteq Table
      /\ db.cols \in [Table -> SUBSET Column]
      /\ db.rows \in [Table -> SUBSET (Cmd \cup {Old})]
  BY <1>2, <1>4 DEF Db, Table
<1>10. /\ db.cols[NewTab(p)] = Full(Tab(p)) /\ db.rows[NewTab(p)] = View(p).rows[Tab(p)]
  BY <1>5, <1>8, <1>9
<1>11. /\ due.cols = [db.cols EXCEPT ![Tab(p)] = db.cols[NewTab(p)], ![NewTab(p)] = {}]
       /\ due.rows = [db.rows EXCEPT ![Tab(p)] = db.rows[NewTab(p)], ![NewTab(p)] = {}]
       /\ due.nullDur = db.nullDur /\ due.version = db.version
  BY <1>4 DEF Db
<1>12. Tab(p) = "tasks" => due.notNull
  BY <1>4, Zenon DEF Db
<1>13. View(p).notNull => due.notNull
  BY <1>4, <1>8, Zenon DEF Db
<1> HIDE DEF due, db
<1>14. /\ due.cols[Tab(p)] = Full(Tab(p)) /\ due.rows[Tab(p)] = View(p).rows[Tab(p)]
       /\ \A t \in Durable : t # Tab(p) =>
            due.cols[t] = View(p).cols[t] /\ due.rows[t] = View(p).rows[t]
       /\ \A t \in Table \ Durable : due.cols[t] = {}
  BY <1>2, <1>8, <1>9, <1>10, <1>11
<1>15. Keeps(View(p), due)
  <2>1. \A t \in Durable : View(p).rows[t] \subseteq due.rows[t]
    BY <1>14
  <2>2. ASSUME NEW t \in Durable
        PROVE  /\ View(p).cols[t] \ {"output"} \subseteq due.cols[t]
               /\ View(p).cols[t] # {} /\ "output" \notin View(p).cols[t] => "output" \notin due.cols[t]
    <3>1. CASE t = Tab(p)
      <4>1. View(p).cols[t] \subseteq Full(t) \cup {"output"}
        BY <1>2 DEF Known
      <4>2. QED BY <1>14, <3>1, <4>1, SchemaOf
    <3>2. CASE t # Tab(p)
      BY <1>14, <3>2
    <3>3. QED BY <3>1, <3>2
  <2>3. View(p).nullDur = {} => due.nullDur = {}
    BY <1>8, <1>11
  <2>4. QED BY <1>13, <2>1, <2>2, <2>3 DEF Keeps
<1>16. Known(due)
  <2>1. Full(Tab(p)) \subseteq Full(Tab(p)) /\ "id" \in Full(Tab(p))
    BY <1>2, SchemaOf
  <2>2. QED BY <1>2, <1>14, <2>1 DEF Known
<1>17. Rebuilt(pc[p] - 3, due)
  <2>1. /\ pc[p] > 3 /\ Program[pc[p] - 3].op \in Checks
        /\ Program[pc[p] - 3].table = Tab(p) /\ pc[p] - 3 \in 1..52
    <3>1. Program[pc[p]].op = "drop" /\ Tab(p) = Program[pc[p]].table
      BY <1>1, InRebuild
    <3>2. /\ pc[p] > 3 /\ Program[pc[p] - 3].op \in Checks
          /\ Program[pc[p] - 3].table = Program[pc[p]].table
      BY <1>2, <3>1, RebuildSteps
    <3>3. QED BY <1>2, <3>1, <3>2
  <2>2. CASE Program[pc[p] - 3].op = "nullable"
    <3>1. Tab(p) = "tasks"
      BY <2>1, <2>2, Subjects
    <3>2. due.notNull
      BY <1>12, <3>1, Zenon
    <3>3. QED BY <2>2, <3>2, Zenon DEF Rebuilt
  <2>3. CASE Program[pc[p] - 3].op # "nullable"
    BY <1>2, <1>14, <2>1, <2>3, SchemaOf DEF Rebuilt
  <2>4. QED BY <2>2, <2>3
<1>18. due.version = Due(p).version
  BY <1>2, <1>8, <1>11
<1>19. QED
  BY <1>1, <1>2, <1>3, <1>4, <1>6, <1>7, <1>14, <1>15, <1>16, <1>17, <1>18, RebuildStep

LEMMA RenameNewStep ==
  ASSUME SchemaInv, TypeOK', NEW p \in Cmd, RenameNew(p)
  PROVE  SchemaInv'
<1> DEFINE db == [View(p) EXCEPT
                    !.cols[Tab(p)] = View(p).cols[NewTab(p)], !.cols[NewTab(p)] = {},
                    !.rows[Tab(p)] = View(p).rows[NewTab(p)], !.rows[NewTab(p)] = {},
                    !.notNull = @ \/ Tab(p) = "tasks"]
<1>1. TypeOK /\ Rebuilding(p, "rename") /\ Write(p, db) /\ OthersAlone(p)
      /\ Advance(p) /\ UNCHANGED <<seen, rebuild>>
  BY Alone DEF RenameNew, local, Step, SchemaInv
<1>2. /\ pc[p] \in 1..52 /\ MidDrop(p) /\ Known(Due(p)) /\ Holds(p) /\ View(p) \in Db
      /\ Tab(p) \in Table /\ NewTab(p) \in Table
      /\ \A t \in Table \ Durable : Due(p).cols[t] = {}
  BY <1>1, InRebuild
<1>3. pc'[p] = pc[p] + 1
  BY <1>1, <1>2, AdvanceType
<1>4. Due(p) = db
  BY <1>2 DEF Due
<1>5. Within(p, db)
  BY <1>1, <1>2 DEF Write
<1>6. db \in Db
  <2>1. View(p).cols[NewTab(p)] \in SUBSET Column /\ View(p).rows[NewTab(p)] \in SUBSET (Cmd \cup {Old})
    BY <1>2 DEF Db
  <2>2. (View(p).notNull \/ Tab(p) = "tasks") \in BOOLEAN
    BY Zenon
  <2>3. QED BY <1>2, <2>1, <2>2 DEF Db
<1> HIDE DEF db
<1>7. Due(p)' = db
  BY <1>1, <1>3, <1>5, <1>6, DueAfter
<1>8. QED BY <1>1, <1>2, <1>3, <1>4, <1>5, <1>6, <1>7, KeepsItself, RebuildStep

LEMMA SchemaNext == SchemaInv /\ [Next]_vars => SchemaInv'
<1> SUFFICES ASSUME SchemaInv, [Next]_vars PROVE SchemaInv'
  OBVIOUS
<1>1. TypeOK'
  BY TypeNext DEF SchemaInv
<1>2. CASE UNCHANGED vars
  <2>1. UNCHANGED <<disk, tx, pc, seen, rebuild>>
    BY <1>2 DEF vars
  <2>2. OneHolder' /\ DiskInv'
    BY <2>1 DEF SchemaInv, OneHolder, Holds, DiskInv
  <2>3. ASSUME NEW p \in Cmd PROVE CommandInv(p)'
    <3>1. CommandInv(p)
      BY DEF SchemaInv
    <3>2. /\ Holds(p)' = Holds(p) /\ View(p)' = View(p) /\ Tab(p)' = Tab(p)
          /\ NewTab(p)' = NewTab(p) /\ (\A ops : At(p, ops)' = At(p, ops))
      BY <2>1 DEF Holds, View, Tab, NewTab, Stmt, At
    <3>3. MidDrop(p)' = MidDrop(p) /\ Due(p)' = Due(p) /\ (\A t : Building(p, t)' = Building(p, t))
      BY <2>1, <3>2 DEF MidDrop, Due, Building
    <3>4. QED BY <2>1, <3>1, <3>2, <3>3 DEF CommandInv
  <2>4. QED BY <1>1, <2>2, <2>3 DEF SchemaInv
<1>3. ASSUME NEW p \in Cmd, Start(p) \/ Step(p) \/ LockTimeout(p) \/ Crash(p) PROVE SchemaInv'
  <2>1. CASE Start(p)
    BY <1>1, <2>1, StartStep
  <2>2. CASE LockTimeout(p) \/ Crash(p) \/ DuplicateColumn(p)
    <3>1. Abandon(p)
      BY <2>2 DEF LockTimeout, Crash, DuplicateColumn
    <3>2. QED BY <1>1, <3>1, AbandonStep
  <2>3. CASE ReadVersion(p)
    BY <1>1, <2>3, ReadVersionStep
  <2>4. CASE CreateTable(p)
    BY <1>1, <2>4, CreateTableStep
  <2>5. CASE ReadColumns(p)
    BY <1>1, <2>5, ReadColumnsStep
  <2>6. CASE AddColumn(p)
    BY <1>1, <2>6, AddColumnStep
  <2>7. CASE BackfillDuration(p)
    BY <1>1, <2>7, BackfillDurationStep
  <2>8. CASE CheckTable(p)
    BY <1>1, <2>8, CheckTableStep
  <2>9. CASE CreateNew(p)
    BY <1>1, <2>9, CreateNewStep
  <2>10. CASE CopyRows(p)
    BY <1>1, <2>10, CopyRowsStep
  <2>11. CASE DropOld(p)
    BY <1>1, <2>11, DropOldStep
  <2>12. CASE RenameNew(p)
    BY <1>1, <2>12, RenameNewStep
  <2>13. CASE Release(p)
    BY <1>1, <2>13, ReleaseStep
  <2>14. CASE MarkUntracked(p)
    BY <1>1, <2>14, MarkUntrackedStep
  <2>15. CASE PassOver(p)
    BY <1>1, <2>15, PassOverStep
  <2>16. CASE SetVersion(p)
    BY <1>1, <2>16, SetVersionStep
  <2>17. CASE CreateJob(p)
    BY <1>1, <2>17, CreateJobStep
  <2>18. QED
    BY <1>3, <2>1, <2>2, <2>3, <2>4, <2>5, <2>6, <2>7, <2>8, <2>9, <2>10, <2>11, <2>12,
       <2>13, <2>14, <2>15, <2>16, <2>17 DEF Step
<1>4. QED BY <1>2, <1>3 DEF Next

\* The invariant, at every moment: one open transaction at most; the disk never in
\* the middle of a rebuild; and every running command with all it has done so far
\* in its own view of the database, whatever the others have done since.
THEOREM SchemaInvariant == Spec => []SchemaInv
<1>1. QED BY SchemaInit, SchemaNext, PTL DEF Spec

LEMMA ReadyComplete ==
  ASSUME SchemaInv, NEW p \in Cmd, pc[p] = Ready
  PROVE  Complete(disk)
<1>1. TypeOK /\ DiskInv /\ CommandInv(p) /\ pc[p] = 53
  BY Length DEF SchemaInv
<1>2. ~Holds(p)
  BY <1>1, Beginnings DEF CommandInv
<1>3. Due(p) = disk
  BY <1>1, <1>2, DueUnheld DEF CommandInv
<1>4. Past(53, ~rebuild[p], disk)
  BY <1>1, <1>3 DEF CommandInv
<1>5. Past(52, FALSE, disk)
  BY <1>4 DEF Past
<1>6. disk.notNull \in BOOLEAN
  BY <1>1 DEF TypeOK, Db
<1>7. QED BY <1>1, <1>5, <1>6, PastComplete DEF DiskInv

\* A command that init_db let through works on the complete schema, and so does
\* every one that finds the current version: whichever release the database comes
\* from, however many commands upgraded it side by side, failed or were killed.
THEOREM SchemaIsComplete == Spec => []SchemaComplete
<1>1. SchemaInv => SchemaComplete
  BY ReadyComplete DEF SchemaComplete, SchemaInv, DiskInv
<1>2. QED BY <1>1, SchemaInvariant, PTL

\* What a step writes to the disk holds the rows that were there.
LEMMA DiskKeepsRows ==
  ASSUME SchemaInv, NEW p \in Cmd, Start(p) \/ Step(p) \/ LockTimeout(p) \/ Crash(p)
  PROVE  \A t \in Durable : disk.rows[t] \subseteq disk'.rows[t]
<1>1. TypeOK
  BY DEF SchemaInv
<1>2. CASE disk' = disk
  BY <1>2
<1>3. ASSUME NEW db, db.rows = View(p).rows, Write(p, db)
      PROVE  \A t \in Durable : disk.rows[t] \subseteq disk'.rows[t]
  <2>1. CASE Holds(p)
    BY <1>2, <1>3, <2>1 DEF Write, Within
  <2>2. CASE ~Holds(p)
    BY <1>1, <1>3, <2>2, Views DEF Write
  <2>3. QED BY <2>1, <2>2
<1>4. CASE CreateTable(p)
  <2>1. CASE disk' = disk
    BY <1>2, <2>1
  <2>2. CASE disk' # disk
    <3> DEFINE db == [View(p) EXCEPT !.cols[Tab(p)] = Created(Tab(p)),
                                     !.notNull = @ \/ Tab(p) = "tasks"]
    <3>1. Write(p, db)
      BY <1>4, <2>2 DEF CreateTable
    <3>2. db.rows = View(p).rows
      BY <1>1, Views DEF Db
    <3> HIDE DEF db
    <3>3. QED BY <1>3, <3>1, <3>2
  <2>3. QED BY <2>1, <2>2
<1>5. CASE AddColumn(p)
  <2> DEFINE db == [View(p) EXCEPT !.cols[Tab(p)] = @ \cup {Stmt(p).col},
                                   !.nullDur = IF Stmt(p).col = "duration"
                                               THEN View(p).rows["tasks"] ELSE @]
  <2>1. Write(p, db)
    BY <1>5 DEF AddColumn
  <2>2. db.rows = View(p).rows
    BY <1>1, Views DEF Db
  <2> HIDE DEF db
  <2>3. QED BY <1>3, <2>1, <2>2
<1>6. CASE BackfillDuration(p) \/ CreateNew(p) \/ MarkUntracked(p)
  BY <1>2, <1>6 DEF BackfillDuration, CreateNew, MarkUntracked, Within
<1>7. CASE CopyRows(p) \/ DropOld(p) \/ RenameNew(p)
  <2>1. Holds(p)
    BY <1>7, InRebuild DEF CopyRows, DropOld, RenameNew
  <2>2. disk' = disk
    BY <1>7, <2>1 DEF CopyRows, DropOld, RenameNew, Write, Within
  <2>3. QED BY <1>2, <2>2
<1>8. CASE Release(p) \/ SetVersion(p)
  <2>1. At(p, {"release", "done"})
    BY <1>8 DEF Release, SetVersion, At
  <2>2. pc[p] \in 1..52 /\ Program[pc[p]].op \in {"release", "done"}
    BY <2>1, AtStatement
  <2>3. Keeps(disk, View(p)) /\ View(p) \in Db
    BY <2>2, PlainBefore
  <2>4. disk' = disk \/ disk'.rows = View(p).rows
    <3>1. CASE Release(p)
      BY <1>1, <3>1, Views DEF Release, Commit
    <3>2. CASE SetVersion(p)
      BY <2>3, <3>2 DEF SetVersion, Db
    <3>3. QED BY <1>8, <3>1, <3>2
  <2>5. QED BY <2>3, <2>4 DEF Keeps
<1>9. CASE CreateJob(p)
  BY <1>1, <1>9 DEF CreateJob, TypeOK, Db, Durable, Table
<1>10. CASE \/ Start(p) \/ ReadVersion(p) \/ ReadColumns(p) \/ CheckTable(p) \/ PassOver(p)
            \/ DuplicateColumn(p) \/ LockTimeout(p) \/ Crash(p)
  BY <1>2, <1>10 DEF Start, ReadVersion, ReadColumns, CheckTable, PassOver, DuplicateColumn,
                     LockTimeout, Crash, Abandon
<1>11. QED BY <1>4, <1>5, <1>6, <1>7, <1>8, <1>9, <1>10 DEF Step

\* No step of any command takes a row off the disk: the rebuilds drop a table only
\* in the transaction that brings its rows back, and nobody commits in between.
THEOREM NoRowsLost == Spec => RowsKept
<1>1. ASSUME SchemaInv, [Next]_vars
      PROVE  [\A t \in Durable : disk.rows[t] \subseteq disk'.rows[t]]_vars
  <2>1. CASE UNCHANGED vars
    BY <2>1
  <2>2. CASE Next
    <3>1. PICK p \in Cmd : Start(p) \/ Step(p) \/ LockTimeout(p) \/ Crash(p)
      BY <2>2 DEF Next
    <3>2. \A t \in Durable : disk.rows[t] \subseteq disk'.rows[t]
      BY <1>1, <3>1, DiskKeepsRows
    <3>3. QED BY <3>2
  <2>3. QED BY <1>1, <2>1, <2>2
<1>2. QED BY <1>1, SchemaInvariant, PTL DEF Spec, RowsKept
=============================================================================
