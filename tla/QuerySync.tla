----------------------------- MODULE QuerySync -----------------------------
(***************************************************************************)
(* What the query orchestrators and the DAGs around them have in common,   *)
(* whatever servers they copy rows between: the state of a DAG run, of its *)
(* tasks, of the source and of the target, and the steps every task takes. *)
(* Modules MSSQLToMySQL, MongoDBToMSSQL and so on say how one direction    *)
(* puts these steps together, the writer modules what upsert_batch of each *)
(* server does.                                                            *)
(*                                                                         *)
(* The values of a row stand for a column with a unique index, where the   *)
(* target has one: no two rows of the source share one, NULL aside.        *)
(***************************************************************************)
EXTENDS Integers, FiniteSets, FiniteSetsExt

CONSTANTS Keys,            \* primary keys
          Values,          \* the rest of a row
          NullValue,       \* a row with NULL for its unique value
          NoRow, NoTable,
          Null,            \* NULL, None
          Configurations,  \* directions and settings of the DAG, see ConfigIsSound
          InitSources, InitTargets, \* rows to start with
          Versions,        \* version ids, the execution dates of the runs, or just 1
          TaskChunkSize,   \* task_chunk_size
          BatchSize,       \* batch_size
          FaultKinds, MaxFaults, \* the faults that may occur, and how many
          Changes,         \* the changes of the source, a key and its new row
          MaxChanges       \* and how many of them

Table == [Keys -> Values \cup {NoRow}]

Column == [Keys -> Int \cup {Null}]

\* At most one task for each row.
Chunks == 1 .. Cardinality(Keys)

ASSUME ConfigIsSound ==
  /\ IsFiniteSet(Keys)
  /\ NoRow \notin Values /\ Null \notin Int
  /\ \A S \in SUBSET Keys : NoTable # S
  /\ Configurations \subseteq
       [direction : STRING,
        dynamic : BOOLEAN,     \* use_dynamic_tasks
        delete : BOOLEAN,      \* delete_missing
        chunkColumn : Column,  \* the chunk_column of each key
        scopeColumn : Column]  \* the delete_scope_column of each key
  /\ InitSources \subseteq Table /\ InitTargets \subseteq Table
  /\ 1 \in Versions /\ Versions \subseteq Nat \ {0}
  /\ TaskChunkSize \in Nat \ {0} /\ BatchSize \in Nat \ {0}
  /\ Changes \subseteq Keys \X (Values \cup {NoRow})
  /\ MaxFaults \in Nat /\ MaxChanges \in Nat

VARIABLES
  config,      \* one of Configurations, for good
  source,      \* the rows the source query returns
  target,      \* the rows one sees in the target
  version,     \* their version_id, in ClickHouse
  keysStaging, \* keys in the keys staging table of each chunk, or NoTable
  phase,       \* of the DAG run
  runVersion,  \* version_id of the run
  total,       \* total_count
  bounds,      \* <<min_key, max_key>> of each chunk
  scope,       \* the bounds of each task's delete, or where its paging is
  pc,          \* next step of each task
  unread,      \* keys a task's stream has not returned yet
  batch,       \* the rows a task has fetched, NoRow where there is none
  known,       \* what a task, or its transaction, has found in the target
  counted,     \* transferred_records of each task
  report,      \* records in the report of the run
  undisturbed, \* since the run began the source has not changed, no commit was lost
  faults, changes

runVars   == <<phase, runVersion, total, bounds, report>>
taskVars  == <<scope, unread, batch, known, counted>>
envVars   == <<source, undisturbed, changes>>
tableVars == <<target, version, keysStaging>>
vars == <<config, source, target, version, keysStaging, phase, runVersion, total, bounds,
          scope, pc, unread, batch, known, counted, report, undisturbed, faults, changes>>

Locations == {"idle", "bounds", "count", "prepare", "fetch", "upsert", "insert", "bulk",
              "append", "scope", "delete", "ids", "drop", "done", "retry", "failed"}

NoBounds == <<Null, Null>>

RowsOf(table) == {k \in Keys : table[k] # NoRow}

EmptyTable == [k \in Keys |-> NoRow]

TypeOK ==
  /\ config \in Configurations
  /\ source \in Table /\ target \in Table
  /\ version \in [Keys -> Versions \cup {0}]
  /\ keysStaging \in [Chunks -> (SUBSET Keys) \cup {NoTable}]
  /\ phase \in {"idle", "validated", "counted", "running", "reported"}
  /\ runVersion \in Versions \cup {0}
  /\ total \in Nat
  /\ bounds \in [Chunks -> (Int \cup {Null}) \X (Int \cup {Null})]
  /\ scope \in [Chunks -> (Int \cup {Null}) \X (Int \cup {Null})]
  /\ pc \in [Chunks -> Locations]
  /\ unread \in [Chunks -> SUBSET Keys]
  /\ batch \in [Chunks -> Table] /\ known \in [Chunks -> Table]
  /\ \A n \in Chunks : Cardinality(RowsOf(batch[n])) <= BatchSize
  /\ counted \in [Chunks -> Nat] /\ report \in Nat
  /\ undisturbed \in BOOLEAN
  /\ faults \in 0 .. MaxFaults /\ changes \in 0 .. MaxChanges

Init ==
  /\ config \in Configurations
  /\ source \in InitSources /\ target \in InitTargets
  /\ version = [k \in Keys |-> 0]
  /\ keysStaging = [n \in Chunks |-> NoTable]
  /\ phase = "idle"
  /\ runVersion = 0 /\ total = 0 /\ report = 0
  /\ bounds = [n \in Chunks |-> NoBounds] /\ scope = [n \in Chunks |-> NoBounds]
  /\ pc = [n \in Chunks |-> "idle"]
  /\ unread = [n \in Chunks |-> {}]
  /\ batch = [n \in Chunks |-> EmptyTable] /\ known = [n \in Chunks |-> EmptyTable]
  /\ counted = [n \in Chunks |-> 0]
  /\ undisturbed = TRUE
  /\ faults = 0 /\ changes = 0

Fault(kind) ==
  /\ kind \in FaultKinds
  /\ faults < MaxFaults
  /\ faults' = faults + 1

Goto(n, from, to) ==
  /\ pc[n] = from
  /\ pc' = [pc EXCEPT ![n] = to]

\* Somebody inserts, updates or deletes a row of the source; a stream does not
\* return a row that has gone.
ChangeSource(k, row) ==
  /\ changes < MaxChanges
  /\ row # source[k]
  /\ row \in {NoRow, NullValue} \/ \A j \in Keys : source[j] # row
  /\ source' = [source EXCEPT ![k] = row]
  /\ undisturbed' = FALSE
  /\ changes' = changes + 1
  /\ unread' = IF row = NoRow THEN [n \in Chunks |-> unread[n] \ {k}] ELSE unread
  /\ UNCHANGED <<config, tableVars, runVars, pc, scope, batch, known, counted, faults>>

-----------------------------------------------------------------------------
(* Ranges of a column *)

InBounds(column, b, k) ==
  /\ Null \notin {b[1], b[2], column[k]}
  /\ b[1] <= column[k] /\ column[k] <= b[2]

\* MIN and MAX, which ignore NULL.
Bounds(values) ==
  IF values \ {Null} = {} THEN NoBounds ELSE <<Min(values \ {Null}), Max(values \ {Null})>>

\* The bounds of a column over some rows.
BoundsOf(column, keys) == Bounds({column[k] : k \in keys})

\* math.ceil(total_count / task_chunk_size).
ChunkCount == (total + TaskChunkSize - 1) \div TaskChunkSize

\* The i-th smallest value, NULL aside.
ValueAt(column, keys, i) ==
  CHOOSE v \in {column[k] : k \in keys} :
    /\ Cardinality({k \in keys : column[k] < v}) < i
    /\ i <= Cardinality({k \in keys : column[k] <= v})

\* The i-th value in the order of NTILE, NULL first or last.
NTileValue(i, nullsFirst) ==
  LET column == config.chunkColumn
      filled == {k \in RowsOf(source) : column[k] # Null}
      before == IF nullsFirst THEN Cardinality(RowsOf(source) \ filled) ELSE 0
  IN  IF i - before \in 1 .. Cardinality(filled)
      THEN ValueAt(column, filled, i - before) ELSE Null

\* Mutant: the rows that are left over are dealt to nobody.
EvenEnd(n, count, j) == j * (n \div count)

\* NTILE(count) deals n rows, in order, into tiles; the first n % count of them
\* get one row more.  These are the rows up to the end of tile j.
TileEnd(n, count, j) == j * (n \div count) + Min({j, n % count})

\* The plan of the SQL sources: the bounds of each tile that gets a row.
NTilePlan(nullsFirst) ==
  LET n == Cardinality(RowsOf(source))
  IN  [j \in 1 .. Min({ChunkCount, n}) |->
         Bounds({NTileValue(i, nullsFirst) :
                   i \in TileEnd(n, ChunkCount, j - 1) + 1 .. TileEnd(n, ChunkCount, j)})]

\* The order of values in MongoDB: null, or no value at all, first.
Precedes(v, w) == w # Null /\ (v = Null \/ v < w)

Before(v, values) == {w \in values : Precedes(w, v)}

\* The n-th of some values in this order.
NthValue(n, values) == CHOOSE v \in values : Cardinality(Before(v, values)) = n - 1

\* $bucketAuto: each bucket begins with some value, the first with the smallest,
\* and ends where the next one begins, the last with the greatest value.
Buckets(values, begins) ==
  LET count == Cardinality(begins)
  IN  [j \in 1 .. count |->
         <<NthValue(j, begins),
           IF j < count THEN NthValue(j + 1, begins)
           ELSE NthValue(Cardinality(values), values)>>]

\* How many there are and where they begin is up to the server.
BucketPlans ==
  LET values == {config.chunkColumn[k] : k \in RowsOf(source)}
  IN  {Buckets(values, begins) : begins \in
         {S \in SUBSET values : Cardinality(S) <= ChunkCount
                              /\ (values # {} => NthValue(1, values) \in S)}}

-----------------------------------------------------------------------------
(* The run *)

\* A task's first step: sync_data_chunk has its range, sync_data looks for it.
FirstStep ==
  IF config.dynamic THEN "prepare" ELSE IF config.delete THEN "bounds" ELSE "count"

AfterStream ==
  IF ~config.delete THEN "done" ELSE IF config.dynamic THEN "scope" ELSE "delete"

\* The connections answer; the run is the first of its date, or one run again.
BeginRun(versions) ==
  /\ phase = "idle"
  /\ phase' = "validated"
  /\ runVersion' \in versions
  /\ total' = 0 /\ report' = 0
  /\ undisturbed' = TRUE
  /\ UNCHANGED <<config, source, changes, tableVars, bounds, pc, taskVars, faults>>

\* get_total_count
CountTotal ==
  /\ config.dynamic /\ phase = "validated"
  /\ phase' = "counted"
  /\ total' = Cardinality(RowsOf(source))
  /\ UNCHANGED <<config, envVars, tableVars, runVersion, bounds, report, pc, taskVars, faults>>

\* One task for each range; without rows the only chunk has the skip flag.
ExpandChunks(plan) ==
  /\ phase = "counted"
  /\ phase' = "running"
  /\ bounds' = [n \in Chunks |-> IF n \in DOMAIN plan THEN plan[n] ELSE NoBounds]
  /\ pc' = [n \in Chunks |-> IF n \in DOMAIN plan THEN FirstStep ELSE "done"]
  /\ UNCHANGED <<config, envVars, tableVars, runVersion, total, report, taskVars, faults>>

\* Without dynamic tasks there is one task.
BeginTask ==
  /\ ~config.dynamic /\ phase = "validated"
  /\ phase' = "running"
  /\ pc' = [n \in Chunks |-> IF n = 1 THEN FirstStep ELSE "done"]
  /\ UNCHANGED <<config, envVars, tableVars, runVersion, total, bounds, report, taskVars, faults>>

\* A task before the copying ones is given up, and so is the run.
GiveUpRun ==
  /\ phase \in {"validated", "counted"}
  /\ phase' = "idle"
  /\ Fault("link")
  /\ UNCHANGED <<config, envVars, tableVars, runVersion, total, bounds, report, pc, taskVars>>

\* The report adds up what the tasks have returned, once all have succeeded.
ReportRun(records) ==
  /\ phase = "running"
  /\ \A n \in Chunks : pc[n] = "done"
  /\ phase' = "reported"
  /\ report' = records
  /\ UNCHANGED <<config, envVars, tableVars, runVersion, total, bounds, pc, taskVars, faults>>

\* Mutant: the result of the first task only.
FirstCount == counted[1]

\* _normalize_sync_results: the records of all tasks.
Transferred == MapThenSumSet(LAMBDA n : counted[n], Chunks)

\* Nothing is left of the tasks of a run that is over but what they wrote.
LeaveRun ==
  /\ phase' = "idle"
  /\ bounds' = [n \in Chunks |-> NoBounds] /\ scope' = [n \in Chunks |-> NoBounds]
  /\ pc' = [n \in Chunks |-> "idle"]
  /\ unread' = [n \in Chunks |-> {}]
  /\ batch' = [n \in Chunks |-> EmptyTable] /\ known' = [n \in Chunks |-> EmptyTable]
  /\ counted' = [n \in Chunks |-> 0]
  /\ UNCHANGED <<config, envVars, tableVars, runVersion, total, report, faults>>

\* The run is over: reported, or a task has failed for good and none goes on.
EndRun ==
  /\ \/ phase = "reported"
     \/ /\ phase = "running"
        /\ \A n \in Chunks : pc[n] \in {"done", "failed"}
        /\ \E n \in Chunks : pc[n] = "failed"
  /\ LeaveRun

-----------------------------------------------------------------------------
(* Steps of a task *)

\* sync_data fetches its bounds first, and with an error before anything else.
FetchBounds(n, b) ==
  /\ Goto(n, "bounds", "count")
  /\ scope' = [scope EXCEPT ![n] = b]
  /\ UNCHANGED <<config, envVars, tableVars, runVars, unread, batch, known, counted, faults>>

\* sync_data counts the rows; without any it goes on to the scoped delete.
CountRows(n) ==
  LET empty == RowsOf(source) = {}
  IN  /\ Goto(n, "count", IF empty THEN AfterStream ELSE "prepare")
      /\ keysStaging' = IF empty /\ config.delete
                        THEN [keysStaging EXCEPT ![n] = {}] ELSE keysStaging
      /\ counted' = [counted EXCEPT ![n] = 0]
      /\ UNCHANGED <<config, envVars, target, version, runVars, scope, unread, batch, known,
                     faults>>

\* prepare_keys_staging_table empties the table; the query or the cursor is opened.
BeginStream(n, rows) ==
  /\ Goto(n, "prepare", "fetch")
  /\ keysStaging' = IF config.delete THEN [keysStaging EXCEPT ![n] = {}] ELSE keysStaging
  /\ unread' = [unread EXCEPT ![n] = rows]
  /\ batch' = [batch EXCEPT ![n] = EmptyTable]
  /\ counted' = [counted EXCEPT ![n] = 0]
  /\ UNCHANGED <<config, envVars, target, version, runVars, scope, known, faults>>

\* Mutant: the size of the batch is not set on the cursor.
AllRows(n) == {unread[n]} \ {{}}

\* fetchmany
NextRows(n) == {rows \in (SUBSET unread[n]) \ {{}} :
                  Cardinality(rows) = Min({BatchSize, Cardinality(unread[n])})}

\* The next rows, in any order, each as it is at this time.
FetchBatch(n) ==
  /\ Goto(n, "fetch", "upsert")
  /\ \E rows \in NextRows(n) :
       /\ batch' = [batch EXCEPT ![n] =
            [k \in Keys |-> IF k \in rows THEN source[k] ELSE NoRow]]
       /\ unread' = [unread EXCEPT ![n] = @ \ rows]
  /\ UNCHANGED <<config, envVars, tableVars, runVars, scope, known, counted, faults>>

EndOfStream(n) ==
  /\ unread[n] = {}
  /\ Goto(n, "fetch", AfterStream)
  /\ UNCHANGED <<config, envVars, tableVars, runVars, taskVars, faults>>

\* Mutant: the keys of the last batch replace the others.
KeysOfLastBatch(n) == RowsOf(batch[n])

AppendedKeys(n) == keysStaging[n] \cup RowsOf(batch[n])

\* append_keys_to_staging, with delete_missing, and the count of the batch.  When it
\* does not tell of a failure, no more than some of the keys are kept.
AppendKeys(n, remains) ==
  /\ Goto(n, "append", "fetch")
  /\ counted' = [counted EXCEPT ![n] = @ + Cardinality(RowsOf(batch[n]))]
  /\ batch' = [batch EXCEPT ![n] = EmptyTable]
  /\ \/ /\ keysStaging' = IF config.delete
                          THEN [keysStaging EXCEPT ![n] = AppendedKeys(n)] ELSE keysStaging
        /\ UNCHANGED <<faults, undisturbed>>
     \/ /\ config.delete
        /\ Fault("lost")
        /\ undisturbed' = FALSE
        /\ \E keys \in remains : keysStaging' = [keysStaging EXCEPT ![n] = @ \cup keys]
  /\ UNCHANGED <<config, source, changes, target, version, runVars, scope, unread, known>>

\* The bounds of a chunk's delete.
FetchChunkBounds(n, b) ==
  /\ config.dynamic
  /\ Goto(n, "scope", "delete")
  /\ scope' = [scope EXCEPT ![n] = b]
  /\ UNCHANGED <<config, envVars, tableVars, runVars, unread, batch, known, counted, faults>>

\* Mutant: the end of the scope is left out.
MissingBefore(n) ==
  {k \in RowsOf(target) \ keysStaging[n] :
     InBounds(config.scopeColumn, scope[n], k) /\ config.scopeColumn[k] < scope[n][2]}

\* Rows of the target in the scope of a task whose key it has not collected.
Missing(n) ==
  {k \in RowsOf(target) \ keysStaging[n] : InBounds(config.scopeColumn, scope[n], k)}

Without(table, keys) == [k \in Keys |-> IF k \in keys THEN NoRow ELSE table[k]]

DropKeys(n) ==
  /\ Goto(n, "drop", "done")
  /\ keysStaging' = [keysStaging EXCEPT ![n] = NoTable]
  /\ scope' = [scope EXCEPT ![n] = NoBounds]
  /\ known' = [known EXCEPT ![n] = EmptyTable]
  /\ UNCHANGED <<config, envVars, target, version, runVars, unread, batch, counted, faults>>

-----------------------------------------------------------------------------
(* Transactions of an SQL server *)

\* Rows with a value of the batch under another key; the equality is NULL-safe.
Conflicts(table, rows) ==
  {k \in RowsOf(table) : \E j \in Keys \ {k} : rows[j] = table[k]}

\* Mutant: a batch without unique_keys removes nothing.
NothingDeleted(n) == {}

\* What a transaction has deleted, and keeps locked until it ends.
Deleted(n) == IF pc[n] = "insert" THEN Conflicts(known[n], batch[n]) ELSE {}

Locked(n) == UNION {Deleted(m) : m \in Chunks \ {n}}

\* The rows the next statement writes, or runs into.
Touched(n) ==
  CASE pc[n] = "upsert" -> Conflicts(target, batch[n])
    [] pc[n] = "insert" -> RowsOf(batch[n]) \cup Conflicts(target, batch[n])
    [] pc[n] = "delete" -> Missing(n)
    [] OTHER -> {}

\* The statement waits for the transaction of another task.
Waits(n) == Touched(n) \cap Locked(n) # {}

\* The unique index of a table; NULL is no duplicate of NULL.
UniqueIndexHolds(table) ==
  \A j, k \in Keys :
    j # k /\ table[j] = table[k] => table[j] \in {NoRow, NullValue}

\* Which of some tables the statements of a transaction can make.
Possible(n, tables) == IF Waits(n) THEN {} ELSE {table \in tables : UniqueIndexHolds(table)}

\* Rows that others have committed since the transaction looked for those of its batch:
\* it inserts them as well, unless its next statements see them.
Late(n) == {k \in RowsOf(batch[n]) : known[n][k] = NoRow /\ target[k] # NoRow}

\* Rows with a value of the batch that the transaction has not deleted.
Duplicates(n) ==
  {k \in Conflicts(Without(target, Deleted(n)), batch[n]) : target[k] # NullValue}

\* The first statement of upsert_batch, which sees what is committed by then.
DeleteConflicts(n) ==
  /\ Goto(n, "upsert", "insert")
  /\ ~Waits(n)
  /\ known' = [known EXCEPT ![n] =
       [k \in Keys |-> IF k \in RowsOf(batch[n]) \cup Conflicts(target, batch[n])
                      THEN target[k] ELSE NoRow]]
  /\ UNCHANGED <<config, envVars, tableVars, runVars, scope, unread, batch, counted, faults>>

\* The transaction ends, and what it knows with it.
EndUpsert(n, to) ==
  /\ Goto(n, "insert", to)
  /\ known' = [known EXCEPT ![n] = EmptyTable]
  /\ UNCHANGED <<config, source, changes, version, keysStaging, runVars, scope, unread, batch,
                 counted>>

\* The other statements and the commit.
Upsert(n, tables) ==
  /\ EndUpsert(n, "append")
  /\ target' \in Possible(n, tables)
  /\ UNCHANGED <<undisturbed, faults>>

\* One of them violates the primary key or the unique index, an error that is not
\* transient.
RejectUpsert(n, tables) ==
  /\ EndUpsert(n, "failed")
  /\ Late(n) \cup Duplicates(n) # {}
  /\ target' \in Possible(n, tables)
  /\ UNCHANGED <<undisturbed, faults>>

\* Another transaction, or statement, deadlocks with it, for instance over a gap or a
\* page; it is rolled back and tried again.
DeadlockVictim(n) ==
  /\ EndUpsert(n, "upsert")
  /\ \E m \in Chunks \ {n} : pc[m] \in {"upsert", "insert", "delete"}
  /\ UNCHANGED <<target, undisturbed, faults>>

\* upsert_batch has returned though its transaction did not commit.
LoseUpsert(n) ==
  /\ EndUpsert(n, "append")
  /\ ~Waits(n)
  /\ Fault("lost")
  /\ undisturbed' = FALSE
  /\ UNCHANGED target

\* delete_missing_in_scope, one statement.
DeleteMissing(n) ==
  /\ Goto(n, "delete", "drop")
  /\ ~Waits(n)
  /\ target' = Without(target, Missing(n))
  /\ UNCHANGED <<config, envVars, version, keysStaging, runVars, taskVars, faults>>

-----------------------------------------------------------------------------
(* Failures *)

\* A lost link or a timeout, named so in the message of the error.  Airflow also
\* runs a task again whose worker has died.
IsTransient(kind) == kind \in {"link", "died"}

\* What becomes of a failed task: the message of the result decides, and then the
\* exception raised for it; an error whose message has no more than a code
\* ("code") passes the first test and not the second.
FailTask(n, kind) ==
  /\ pc' = [pc EXCEPT ![n] = IF IsTransient(kind) THEN "retry" ELSE "failed"]
  /\ Fault(kind)

\* A query of the source fails.
ReadFails(n) ==
  /\ pc[n] \in {"bounds", "count", "fetch", "scope"}
  /\ \E kind \in {"link", "code", "died"} : FailTask(n, kind)
  /\ UNCHANGED <<config, envVars, tableVars, runVars, taskVars>>

\* A call of the writer fails, or the worker dies, whether or not the server did
\* what was asked.  A failed upsert leaves one of some tables, a failed delete may
\* have deleted; then the keys staging table is dropped all the same, if it can be.
WriteFails(n, leftovers, deleted) ==
  /\ pc[n] \in {"prepare", "upsert", "insert", "bulk", "append", "delete", "ids", "drop"}
  /\ \E kind \in {"link", "deadlock", "died"} : FailTask(n, kind)
  /\ target' \in CASE pc[n] \in {"insert", "bulk"} -> leftovers
                   [] pc[n] \in {"delete", "ids"} /\ ~Waits(n) -> {target, deleted}
                   [] OTHER -> {target}
  /\ keysStaging' \in
       IF ~config.delete THEN {keysStaging}
       ELSE CASE pc[n] = "prepare" -> {keysStaging, [keysStaging EXCEPT ![n] = {}]}
              [] pc[n] = "append" -> {keysStaging, [keysStaging EXCEPT ![n] = AppendedKeys(n)]}
              [] pc[n] \in {"delete", "ids", "drop"} ->
                   {keysStaging, [keysStaging EXCEPT ![n] = NoTable]}
              [] OTHER -> {keysStaging}
  /\ UNCHANGED <<config, envVars, version, runVars, taskVars>>

\* Airflow runs a failed task again, a chunk with the range of the plan.
RetryTask(n) ==
  /\ Goto(n, "retry", FirstStep)
  /\ scope' = [scope EXCEPT ![n] = NoBounds]
  /\ unread' = [unread EXCEPT ![n] = {}]
  /\ batch' = [batch EXCEPT ![n] = EmptyTable] /\ known' = [known EXCEPT ![n] = EmptyTable]
  /\ counted' = [counted EXCEPT ![n] = 0]
  /\ UNCHANGED <<config, envVars, tableVars, runVars, faults>>

=============================================================================
