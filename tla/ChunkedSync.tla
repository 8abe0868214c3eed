---------------------------- MODULE ChunkedSync ----------------------------
(***************************************************************************)
(* MSSQLToMSSQLQueryOrchestrator and the DAG around it: a run copies the   *)
(* rows of a source query into a target table, either in one task          *)
(* (sync_data) or, with use_dynamic_tasks, by planning key ranges of about *)
(* the same size (NTILE) and syncing every range in a task of its own.     *)
(* A task streams its rows, upserts them batch by batch, collects their    *)
(* keys and, with delete_missing, finally deletes the target rows of its   *)
(* scope whose key it has not collected.                                   *)
(*                                                                         *)
(* The source changes while all this goes on, tasks fail and are retried   *)
(* with the ranges of the plan, or given up; runs follow one another.      *)
(* upsert_batch is the merge of module BatchUpsert, of rows without unique *)
(* values besides the key: it is complete, or has failed, or is reported   *)
(* as complete although the server has rolled it back.                     *)
(***************************************************************************)
EXTENDS Integers, FiniteSets

CONSTANTS Keys,            \* primary keys
          Values,          \* the other columns
          NoRow, NoTable,
          ChunkValue,      \* [Keys -> Int], the chunk_column of a key
          ScopeValue,      \* [Keys -> Int], the delete_scope_column of a key
          InitSources, InitTargets \* rows to start with

CONSTANTS UseDynamicTasks, \* use_dynamic_tasks
          TaskChunkSize,   \* task_chunk_size
          BatchSize,       \* batch_size
          DeleteMissing,   \* delete_missing
          FaultKinds, MaxFaults, \* the faults that may occur, and how many
          MaxChanges       \* bound on the changes of the source

Table == [Keys -> Values \cup {NoRow}]

\* One range of keys, and one task, for each.  There are no more than rows.
Chunks == 1 .. Cardinality(Keys)

ASSUME ChunkConfigIsSound ==
  /\ IsFiniteSet(Keys)
  /\ NoRow \notin Values
  /\ \A S \in SUBSET Keys : NoTable # S
  /\ ChunkValue \in [Keys -> Int]
  /\ ScopeValue \in [Keys -> Int]
  /\ InitSources \subseteq Table /\ InitTargets \subseteq Table
  /\ UseDynamicTasks \in BOOLEAN
  /\ TaskChunkSize \in Nat \ {0}
  /\ BatchSize \in Nat \ {0}
  /\ DeleteMissing \in BOOLEAN
  /\ MaxFaults \in Nat
  /\ MaxChanges \in Nat

VARIABLES
  source,      \* the rows the source query returns
  target,      \* the rows of the target table
  keysStaging, \* keys in the keys staging table of each chunk, or NoTable
  phase,       \* of the DAG run: "idle", "counted" or "running"
  total,       \* total_count
  range,       \* the keys each chunk's query asks for
  pc,          \* next step of each task
  unread,      \* keys a task's stream has not returned yet, but has to
  batch,       \* the rows a task has fetched, NoRow where there is none
  scope,       \* the keys within a task's bounds for delete_missing
  stayed,      \* keys in the source ever since a task's stream began
  quiet,       \* the source has not changed since the run began
  faults, changes

taskVars == <<unread, batch, scope, stayed>>
runVars  == <<phase, total, range>>
envVars  == <<source, quiet, changes>>
vars == <<source, target, keysStaging, phase, total, range, pc, unread, batch, scope,
          stayed, quiet, faults, changes>>

Locations == {"idle", "bounds", "count", "prepare", "fetch", "upsert", "append",
              "scope", "delete", "drop", "done", "failed"}

RowsOf(table) == {k \in Keys : table[k] # NoRow}

EmptyBatch == [k \in Keys |-> NoRow]

TypeOK ==
  /\ source \in Table /\ target \in Table
  /\ keysStaging \in [Chunks -> (SUBSET Keys) \cup {NoTable}]
  /\ phase \in {"idle", "counted", "running"}
  /\ total \in Nat
  /\ range \in [Chunks -> SUBSET Keys]
  /\ pc \in [Chunks -> Locations]
  /\ unread \in [Chunks -> SUBSET Keys]
  /\ batch \in [Chunks -> Table]
  /\ \A n \in Chunks : Cardinality(RowsOf(batch[n])) <= BatchSize
  /\ scope \in [Chunks -> SUBSET Keys]
  /\ stayed \in [Chunks -> SUBSET Keys]
  /\ quiet \in BOOLEAN
  /\ faults \in 0 .. MaxFaults
  /\ changes \in 0 .. MaxChanges

Init ==
  /\ source \in InitSources /\ target \in InitTargets
  /\ keysStaging = [n \in Chunks |-> NoTable]
  /\ phase = "idle"
  /\ total = 0
  /\ range = [n \in Chunks |-> {}]
  /\ pc = [n \in Chunks |-> "idle"]
  /\ unread = [n \in Chunks |-> {}]
  /\ batch = [n \in Chunks |-> EmptyBatch]
  /\ scope = [n \in Chunks |-> {}]
  /\ stayed = [n \in Chunks |-> {}]
  /\ quiet = TRUE
  /\ faults = 0
  /\ changes = 0

\* A task's first step: sync_data_chunk has its range, sync_data looks for it.
FirstStep ==
  IF UseDynamicTasks THEN "prepare" ELSE IF DeleteMissing THEN "bounds" ELSE "count"

\* What follows the last batch.
AfterStream ==
  IF ~DeleteMissing THEN "done" ELSE IF UseDynamicTasks THEN "scope" ELSE "delete"

Fault(kind) ==
  /\ kind \in FaultKinds
  /\ faults < MaxFaults
  /\ faults' = faults + 1

Goto(n, from, to) ==
  /\ pc[n] = from
  /\ pc' = [pc EXCEPT ![n] = to]

\* Somebody inserts, updates or deletes a row of the source.
ChangeSource(k, row) ==
  /\ changes < MaxChanges
  /\ row # source[k]
  /\ source' = [source EXCEPT ![k] = row]
  /\ quiet' = FALSE
  /\ changes' = changes + 1
  /\ stayed' = [n \in Chunks |-> IF row = NoRow THEN stayed[n] \ {k} ELSE stayed[n]]
  /\ unread' = [n \in Chunks |-> IF row = NoRow THEN unread[n] \ {k} ELSE unread[n]]
  /\ UNCHANGED <<target, keysStaging, runVars, pc, batch, scope, faults>>

-----------------------------------------------------------------------------
(* plan_sync_chunks *)

Lesser(i, j) == IF i <= j THEN i ELSE j

\* The i-th smallest value of a column, among some keys.
ValueAt(column, keys, i) ==
  CHOOSE v \in {column[k] : k \in keys} :
    /\ Cardinality({k \in keys : column[k] < v}) < i
    /\ i <= Cardinality({k \in keys : column[k] <= v})

\* Mutant: the rows beyond a multiple of count are forgotten.
TileEndRoundedDown(n, count, j) == j * (n \div count)

\* NTILE(count) deals n rows, in order, into tiles; the first n % count of them
\* get one row more.  These are the rows up to the end of tile j.
TileEnd(n, count, j) == j * (n \div count) + Lesser(j, n % count)

\* math.ceil(total_count / task_chunk_size).
ChunkCount == (total + TaskChunkSize - 1) \div TaskChunkSize

Within(column, lo, hi) == {k \in Keys : lo <= column[k] /\ column[k] <= hi}

\* The keys between MIN(chunk_key) and MAX(chunk_key) of tile j.
TileRange(j) ==
  LET keys  == RowsOf(source)
      first == TileEnd(Cardinality(keys), ChunkCount, j - 1) + 1
      last  == TileEnd(Cardinality(keys), ChunkCount, j)
  IN  Within(ChunkValue, ValueAt(ChunkValue, keys, first), ValueAt(ChunkValue, keys, last))

\* Mutant: the last tile is left out.
TilesButLast == {j \in Chunks : j < ChunkCount /\ j <= Cardinality(RowsOf(source))}

\* Tiles that get a row at all.
Tiles == {j \in Chunks : j <= ChunkCount /\ j <= Cardinality(RowsOf(source))}

\* A DAG run begins: get_total_count, or the only task of sync_data.
StartRun ==
  /\ phase = "idle"
  /\ quiet' = TRUE
  /\ IF UseDynamicTasks
     THEN /\ phase' = "counted"
          /\ total' = Cardinality(RowsOf(source))
          /\ UNCHANGED <<range, pc>>
     ELSE /\ phase' = "running"
          /\ total' = 0
          /\ range' = [n \in Chunks |-> IF n = 1 THEN Keys ELSE {}]
          /\ pc' = [n \in Chunks |-> IF n = 1 THEN FirstStep ELSE "done"]
  /\ UNCHANGED <<source, target, keysStaging, taskVars, faults, changes>>

\* The query with NTILE; without rows the only chunk has the skip flag.
PlanSyncChunks ==
  /\ phase = "counted"
  /\ phase' = "running"
  /\ range' = [n \in Chunks |-> IF total # 0 /\ n \in Tiles THEN TileRange(n) ELSE {}]
  /\ pc' = [n \in Chunks |-> IF total # 0 /\ n \in Tiles THEN "prepare" ELSE "done"]
  /\ UNCHANGED <<source, target, keysStaging, total, taskVars, quiet, faults, changes>>

\* create_sync_chunks fails, and is run again.
PlanFails ==
  /\ phase = "counted"
  /\ phase' = "idle"
  /\ Fault("source")
  /\ UNCHANGED <<envVars, target, keysStaging, total, range, pc, taskVars>>

\* Every task has succeeded or is given up.
EndRun ==
  /\ phase = "running"
  /\ \A n \in Chunks : pc[n] \in {"done", "failed"}
  /\ phase' = "idle"
  /\ UNCHANGED <<envVars, target, keysStaging, total, range, pc, taskVars, faults>>

-----------------------------------------------------------------------------
(* sync_data, sync_data_chunk *)

\* The keys between the MIN and MAX of the scope column over some source rows.
Between(rows) ==
  {k \in Keys : \E lo, hi \in rows : /\ ScopeValue[lo] <= ScopeValue[k]
                                     /\ ScopeValue[k] <= ScopeValue[hi]}

\* sync_data fetches its bounds first.
FetchScopeBounds(n) ==
  /\ Goto(n, "bounds", "count")
  /\ scope' = [scope EXCEPT ![n] = Between(RowsOf(source))]
  /\ UNCHANGED <<envVars, target, keysStaging, runVars, unread, batch, stayed, faults>>

\* Mutant: the keys staging table is not emptied when there is one.
KeptTable(n) == IF keysStaging[n] = NoTable THEN {} ELSE keysStaging[n]

\* What prepare_keys_staging_table leaves: DROP TABLE IF EXISTS, SELECT TOP 0 INTO.
PreparedTable(n) == {}

\* sync_data counts the rows and streams them only when there are any; it
\* runs the scoped delete in either case.
CountRows(n) ==
  LET empty == RowsOf(source) = {}
  IN  /\ Goto(n, "count", IF empty THEN AfterStream ELSE "prepare")
      /\ keysStaging' = IF empty /\ DeleteMissing
                        THEN [keysStaging EXCEPT ![n] = PreparedTable(n)] ELSE keysStaging
      /\ stayed' = [stayed EXCEPT ![n] = {}]
      /\ UNCHANGED <<envVars, target, runVars, unread, batch, scope, faults>>

\* prepare_keys_staging_table, and stream_query executes its query.
StartStream(n) ==
  /\ Goto(n, "prepare", "fetch")
  /\ keysStaging' = IF DeleteMissing THEN [keysStaging EXCEPT ![n] = PreparedTable(n)]
                                    ELSE keysStaging
  /\ stayed' = [stayed EXCEPT ![n] = RowsOf(source)]
  /\ unread' = [unread EXCEPT ![n] = RowsOf(source) \cap range[n]]
  /\ batch'  = [batch EXCEPT ![n] = EmptyBatch]
  /\ UNCHANGED <<envVars, target, runVars, scope, faults>>

\* Mutant: a batch holds all the rows (fetchall).
EverythingAtOnce(n) == {RowsOf(source) \cap range[n]} \ {{}}

\* The batches fetchmany may return.  Rows come in any order; every row that
\* stays comes once, a row inserted meanwhile may come or not.
FetchableRows(n) ==
  {rows \in SUBSET (RowsOf(source) \cap range[n]) :
     /\ rows \cap unread[n] # {}
     /\ rows \cap stayed[n] \subseteq unread[n]
     /\ Cardinality(rows) <= BatchSize
     /\ Cardinality(rows) = BatchSize \/ unread[n] \subseteq rows}

\* A batch is read, each row as it is at this time.
FetchBatch(n) ==
  /\ Goto(n, "fetch", "upsert")
  /\ \E rows \in FetchableRows(n) :
       /\ batch' = [batch EXCEPT ![n] =
            [k \in Keys |-> IF k \in rows THEN source[k] ELSE NoRow]]
       /\ unread' = [unread EXCEPT ![n] = @ \ rows]
  /\ UNCHANGED <<envVars, target, keysStaging, runVars, scope, stayed, faults>>

AfterUpsert == IF DeleteMissing THEN "append" ELSE "fetch"

Merged(table, rows) == [k \in Keys |-> IF rows[k] # NoRow THEN rows[k] ELSE table[k]]

UpsertBatch(n) ==
  /\ Goto(n, "upsert", AfterUpsert)
  /\ target' = Merged(target, batch[n])
  /\ UNCHANGED <<envVars, keysStaging, runVars, taskVars, faults>>

\* _cleanup_staging_table fails, rolls the MERGE back and logs a warning, or the
\* commit fails and is only logged: the task goes on as if the rows were merged.
UpsertLost(n) ==
  /\ Goto(n, "upsert", AfterUpsert)
  /\ Fault("lost")
  /\ UNCHANGED <<envVars, target, keysStaging, runVars, taskVars>>

\* Mutant: the keys of the last batch replace the others.
KeysOfLastBatch(n) == RowsOf(batch[n])

AppendedKeys(n) == keysStaging[n] \cup RowsOf(batch[n])

\* append_keys_to_staging; a commit that fails is only logged.
AppendKeysToStaging(n) ==
  /\ Goto(n, "append", "fetch")
  /\ \/ /\ keysStaging' = [keysStaging EXCEPT ![n] = AppendedKeys(n)]
        /\ UNCHANGED faults
     \/ Fault("lost") /\ UNCHANGED keysStaging
  /\ UNCHANGED <<envVars, target, runVars, taskVars>>

\* fetchmany returns nothing.
EndOfStream(n) ==
  /\ unread[n] = {}
  /\ Goto(n, "fetch", AfterStream)
  /\ UNCHANGED <<envVars, target, keysStaging, runVars, taskVars, faults>>

\* The bounds of a chunk: its range, when that is a range of the scope column,
\* or else the bounds of its source rows.
ChunkScope(n) ==
  IF ScopeValue = ChunkValue THEN range[n]
  ELSE Between(RowsOf(source) \cap range[n])

FetchChunkDeleteScopeBounds(n) ==
  /\ Goto(n, "scope", "delete")
  /\ scope' = [scope EXCEPT ![n] = ChunkScope(n)]
  /\ UNCHANGED <<envVars, target, keysStaging, runVars, unread, batch, stayed, faults>>

WithoutMissing(n) ==
  [k \in Keys |-> IF k \in scope[n] \ keysStaging[n] THEN NoRow ELSE target[k]]

DeleteMissingInScope(n) ==
  /\ Goto(n, "delete", "drop")
  /\ target' = WithoutMissing(n)
  /\ UNCHANGED <<envVars, keysStaging, runVars, taskVars, faults>>

DropKeysStagingTable(n) ==
  /\ Goto(n, "drop", "done")
  /\ keysStaging' = [keysStaging EXCEPT ![n] = NoTable]
  /\ UNCHANGED <<envVars, target, runVars, taskVars, faults>>

\* A query of the source fails, or the worker dies.
ReadFails(n) ==
  /\ pc[n] \in {"bounds", "count", "fetch", "scope"}
  /\ pc' = [pc EXCEPT ![n] = "failed"]
  /\ Fault("source")
  /\ UNCHANGED <<envVars, target, keysStaging, runVars, taskVars>>

\* A statement on the target fails, or its commit, or the worker dies: the task
\* fails whether or not the server did what was asked.  A failed delete drops the
\* keys staging table all the same, if it can.
WriteFails(n) ==
  /\ pc[n] \in {"prepare", "upsert", "append", "delete", "drop"}
  /\ pc' = [pc EXCEPT ![n] = "failed"]
  /\ Fault("target")
  /\ \/ UNCHANGED <<target, keysStaging>>
     \/ /\ pc[n] = "prepare"
        /\ keysStaging' = [keysStaging EXCEPT ![n] = PreparedTable(n)]
        /\ UNCHANGED target
     \/ /\ pc[n] = "upsert"
        /\ target' = Merged(target, batch[n])
        /\ UNCHANGED keysStaging
     \/ /\ pc[n] = "append"
        /\ keysStaging' = [keysStaging EXCEPT ![n] = AppendedKeys(n)]
        /\ UNCHANGED target
     \/ /\ pc[n] \in {"delete", "drop"}
        /\ target' = target \/ (pc[n] = "delete" /\ target' = WithoutMissing(n))
        /\ keysStaging' \in {keysStaging, [keysStaging EXCEPT ![n] = NoTable]}
  /\ UNCHANGED <<envVars, runVars, taskVars>>

\* Airflow retries a failed task, a chunk with the range of the plan.
RetryTask(n) ==
  /\ phase = "running"
  /\ Goto(n, "failed", FirstStep)
  /\ UNCHANGED <<envVars, target, keysStaging, runVars, taskVars, faults>>

-----------------------------------------------------------------------------

Proceed(n) ==
  \/ FetchScopeBounds(n) \/ CountRows(n) \/ StartStream(n)
  \/ FetchBatch(n) \/ UpsertBatch(n) \/ AppendKeysToStaging(n) \/ EndOfStream(n)
  \/ FetchChunkDeleteScopeBounds(n) \/ DeleteMissingInScope(n) \/ DropKeysStagingTable(n)

Next ==
  \/ \E k \in Keys, row \in Values \cup {NoRow} : ChangeSource(k, row)
  \/ StartRun \/ PlanSyncChunks \/ PlanFails \/ EndRun
  \/ \E n \in Chunks :
       Proceed(n) \/ UpsertLost(n) \/ ReadFails(n) \/ WriteFails(n) \/ RetryTask(n)

Spec == Init /\ [][Next]_vars

\* Runs are scheduled for ever, and tasks that run go on.
Fairness ==
  /\ WF_vars(StartRun \/ PlanSyncChunks \/ EndRun)
  /\ \A n \in Chunks : WF_vars(Proceed(n))

FairSpec == Spec /\ Fairness

-----------------------------------------------------------------------------
(* Properties *)

\* All tasks of a run have succeeded.
RunSucceeded == phase = "running" /\ \A n \in Chunks : pc[n] = "done"

\* When a run has succeeded and nobody has changed the source meanwhile, every row
\* of the source is in the target: the ranges of the plan leave no row out, also
\* when values of the chunk column repeat, and no task's delete takes away what
\* another task, or a failed attempt, has written.
RunCopiesSource ==
  (RunSucceeded /\ quiet) => \A k \in RowsOf(source) : target[k] = source[k]

\* Likewise, and with delete_missing no row is left in the target that is not in
\* the source and lies between the bounds of the source.
RunRemovesOrphans ==
  (RunSucceeded /\ quiet /\ DeleteMissing) =>
    RowsOf(target) \cap Between(RowsOf(source)) \subseteq RowsOf(source)

\* delete_missing never takes away a row that was in the source all the time
\* since the deleting task began to read.
DeletesOnlyMissing ==
  [][\A n \in Chunks : (pc[n] = "delete" /\ pc'[n] # "delete") =>
       \A k \in stayed[n] : target'[k] = NoRow => target[k] = NoRow]_vars

\* Once the source does not change any more, the target comes to hold all its
\* rows, and keeps them.
TargetCatchesUp ==
  \A k \in Keys, v \in Values :
    <>[](source[k] = v) => <>[](target[k] = v)

-----------------------------------------------------------------------------
(* Why DeletesOnlyMissing holds *)

\* A task that collects keys has a table for them.
KeysTableExists ==
  \A n \in Chunks :
    /\ pc[n] \in {"append", "scope", "delete"} => DeleteMissing
    /\ (DeleteMissing /\ pc[n] \in {"fetch", "upsert", "append", "scope", "delete"})
         => keysStaging[n] # NoTable

\* What a task must not delete.
Kept(n) == stayed[n] \cap range[n]

\* It is in the keys staging table, in the current batch or still to come.
KeptIsCollected(n) ==
  /\ pc[n] = "fetch" => Kept(n) \subseteq keysStaging[n] \cup unread[n]
  /\ pc[n] \in {"upsert", "append"}
       => Kept(n) \subseteq keysStaging[n] \cup unread[n] \cup RowsOf(batch[n])
  /\ pc[n] \in {"scope", "delete"} => Kept(n) \subseteq keysStaging[n]

\* The task deletes nothing outside its range.
ScopeInRange(n) ==
  /\ (~UseDynamicTasks /\ pc[n] \notin {"idle", "done"}) => range[n] = Keys
  /\ pc[n] = "delete" => scope[n] \subseteq range[n]

\* Provided that keys are not lost, and that chunks are ranges of the column that
\* scopes the delete, a task's delete spares what it has to.
KeysInvariant ==
  /\ KeysTableExists
  /\ phase = "counted" => UseDynamicTasks
  /\ (DeleteMissing /\ "lost" \notin FaultKinds
        /\ (UseDynamicTasks => ScopeValue = ChunkValue))
       => \A n \in Chunks : KeptIsCollected(n) /\ ScopeInRange(n)


-----------------------------------------------------------------------------
(* Why RunCopiesSource and RunRemovesOrphans hold *)

\* No batch is lost that the code reports as merged, and a delete has all the keys to go
\* by and stays in its chunk.
NothingIsLost ==
  /\ "lost" \notin FaultKinds
  /\ DeleteMissing /\ UseDynamicTasks => ScopeValue = ChunkValue

Copied(k) == target[k] = source[k]

\* As long as the source stands still, a task that runs has seen all of its rows in it,
\* and those of its range are copied, in the batch or still to come.
CopiesItsRange(n) ==
  /\ pc[n] \in {"fetch", "upsert", "append", "scope", "delete"} => stayed[n] = RowsOf(source)
  /\ pc[n] = "upsert" => \A k \in RowsOf(batch[n]) : batch[n][k] = source[k]
  /\ \A k \in RowsOf(source) \cap range[n] :
       /\ pc[n] \in {"fetch", "append"} => k \in unread[n] \/ Copied(k)
       /\ pc[n] = "upsert" => k \in unread[n] \cup RowsOf(batch[n]) \/ Copied(k)
       /\ pc[n] \in {"scope", "delete", "drop", "done"} => Copied(k)

\* The plan is made of the rows that were counted, and leaves none of them out.
CopyInvariant ==
  /\ phase = "counted" /\ quiet => total = Cardinality(RowsOf(source))
  /\ phase = "running" /\ quiet =>
       /\ RowsOf(source) \subseteq UNION {range[n] : n \in Chunks}
       /\ \A n \in Chunks : CopiesItsRange(n)

\* The only task of sync_data collects keys of the source alone, and deletes between
\* the bounds of the source.
RemovesOrphans(n) ==
  /\ pc[n] # "scope"
  /\ pc[n] \in {"count", "prepare", "fetch", "upsert", "append", "delete"}
       => scope[n] = Between(RowsOf(source))
  /\ pc[n] \in {"fetch", "upsert", "append", "delete"} => keysStaging[n] \subseteq RowsOf(source)
  /\ pc[n] \in {"upsert", "append"} => RowsOf(batch[n]) \subseteq RowsOf(source)
  /\ pc[n] \in {"drop", "done"}
       => RowsOf(target) \cap Between(RowsOf(source)) \subseteq RowsOf(source)

OrphanInvariant ==
  (phase = "running" /\ quiet) =>
    \A n \in Chunks : IF n = 1 THEN RemovesOrphans(n) ELSE pc[n] = "done"

\* The inductive invariant of a run.
RunInvariant ==
  /\ NothingIsLost => CopyInvariant
  /\ DeleteMissing /\ ~UseDynamicTasks => OrphanInvariant

=============================================================================
