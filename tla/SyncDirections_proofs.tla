----------------------- MODULE SyncDirections_proofs -----------------------
(***************************************************************************)
(* Proofs about SyncDirections.  For each direction: every step of its DAG *)
(* is one of those that module QuerySync_proofs knows, CommonStep, or one  *)
(* of the steps that page through a table.  Then what the lemmas of that   *)
(* module say of the one holds of the other, and the theorems follow.      *)
(***************************************************************************)
EXTENDS SyncDirections, QuerySync_proofs

-----------------------------------------------------------------------------
(* SQL Server to MySQL *)

LEMMA ToMySQLLocks ==
  ASSUME NEW n
  PROVE  /\ ToMySQL!Deleted(n) = Deleted(n)
         /\ ToMySQL!Late(n) = Late(n)
         /\ ToMySQL!Duplicates(n) = Duplicates(n)
         /\ ToMySQL!Missing(n) = Missing(n)
         /\ ToMySQL!Waits(n) <=> Waits(n)
         /\ \A tables : ToMySQL!Possible(n, tables) = Possible(n, tables)
         /\ \A table, rows : ToMySQL!Conflicts(table, rows) = Conflicts(table, rows)
         /\ \A table, keys : ToMySQL!Without(table, keys) = Without(table, keys)
  BY DEF ToMySQL!Deleted, Deleted, ToMySQL!Locked, Locked, ToMySQL!Conflicts, Conflicts,
         ToMySQL!Touched, Touched, ToMySQL!Waits, Waits, ToMySQL!Missing, Missing,
         ToMySQL!InBounds, InBounds, ToMySQL!Without, Without, ToMySQL!Possible,
         Possible, ToMySQL!UniqueIndexHolds, UniqueIndexHolds, ToMySQL!Late, Late,
         ToMySQL!Duplicates, Duplicates, ToMySQL!RowsOf, RowsOf, ToMySQL!Chunks, Chunks,
         ToMySQL!Cardinality, Cardinality

LEMMA ToMySQLTasks ==
  ASSUME NEW n
  PROVE  /\ \A b : /\ ToMySQL!FetchBounds(n, b) <=> FetchBounds(n, b)
                   /\ ToMySQL!FetchChunkBounds(n, b) <=> FetchChunkBounds(n, b)
         /\ ToMySQL!CountRows(n) <=> CountRows(n)
         /\ \A rows : ToMySQL!BeginStream(n, rows) <=> BeginStream(n, rows)
         /\ ToMySQL!FetchBatch(n) <=> FetchBatch(n)
         /\ ToMySQL!EndOfStream(n) <=> EndOfStream(n)
         /\ ToMySQL!AppendKeysToStaging(n) <=> AppendKeys(n, {{}})
         /\ ToMySQL!DropKeysStagingTable(n) <=> DropKeys(n)
         /\ ToMySQL!ReadFails(n) <=> ReadFails(n)
         /\ ToMySQL!RetryTask(n) <=> RetryTask(n)
         /\ ToMySQL!DeleteUniqueKeyConflicts(n) <=> DeleteConflicts(n)
         /\ \A tables : /\ ToMySQL!Upsert(n, tables) <=> Upsert(n, tables)
                        /\ ToMySQL!RejectUpsert(n, tables) <=> RejectUpsert(n, tables)
         /\ ToMySQL!DeadlockVictim(n) <=> DeadlockVictim(n)
         /\ ToMySQL!LoseUpsert(n) <=> LoseUpsert(n)
         /\ ToMySQL!DeleteMissingInScope(n) <=> DeleteMissing(n)
         /\ \A tables :
              ToMySQL!WriteFails(n, tables, ToMySQL!Without(target, ToMySQL!Missing(n)))
                <=> WriteFails(n, tables, Without(target, Missing(n)))
  BY ToMySQLLocks
     DEF ToMySQL!Goto, Goto, ToMySQL!FailTask, FailTask, ToMySQL!IsTransient,
         IsTransient, ToMySQL!Fault, Fault, ToMySQL!envVars, envVars, ToMySQL!runVars,
         runVars, ToMySQL!taskVars, taskVars, ToMySQL!tableVars, tableVars,
         ToMySQL!RowsOf, RowsOf, ToMySQL!AfterStream, AfterStream, ToMySQL!FirstStep,
         FirstStep, ToMySQL!Chunks, Chunks, ToMySQL!NoBounds, NoBounds,
         ToMySQL!EmptyTable, EmptyTable, ToMySQL!Cardinality, Cardinality,
         ToMySQL!CountRows, CountRows, ToMySQL!BeginStream, BeginStream,
         ToMySQL!FetchBatch, FetchBatch, ToMySQL!NextRows, NextRows, ToMySQL!Min, Min,
         ToMySQL!EndOfStream, EndOfStream, ToMySQL!AppendKeys, AppendKeys,
         ToMySQL!AppendedKeys, AppendedKeys, ToMySQL!ReadFails, ReadFails,
         ToMySQL!RetryTask, RetryTask, ToMySQL!FetchBounds, FetchBounds,
         ToMySQL!FetchChunkBounds, FetchChunkBounds, ToMySQL!DropKeys, DropKeys,
         ToMySQL!DeleteConflicts, DeleteConflicts, ToMySQL!EndUpsert, EndUpsert,
         ToMySQL!Upsert, Upsert, ToMySQL!RejectUpsert, RejectUpsert,
         ToMySQL!DeadlockVictim, DeadlockVictim, ToMySQL!LoseUpsert, LoseUpsert,
         ToMySQL!DeleteMissing, DeleteMissing, ToMySQL!WriteFails, WriteFails,
         ToMySQL!AppendKeysToStaging, ToMySQL!DropKeysStagingTable,
         ToMySQL!DeleteMissingInScope, ToMySQL!DeleteUniqueKeyConflicts

LEMMA ToMySQLRun ==
  /\ \A versions : ToMySQL!BeginRun(versions) <=> BeginRun(versions)
  /\ ToMySQL!CountTotal <=> CountTotal
  /\ \A plan : ToMySQL!ExpandChunks(plan) <=> ExpandChunks(plan)
  /\ ToMySQL!NTilePlan(TRUE) = NTilePlan(TRUE)
  /\ ToMySQL!BeginTask <=> BeginTask
  /\ ToMySQL!GiveUpRun <=> GiveUpRun
  /\ ToMySQL!ReportSyncMetrics <=> ReportRun(Transferred)
  /\ ToMySQL!EndRun <=> EndRun
  /\ ToMySQL!Chunks = Chunks
  BY DEF ToMySQL!BeginRun, BeginRun, ToMySQL!CountTotal, CountTotal,
         ToMySQL!ExpandChunks, ExpandChunks, ToMySQL!BeginTask, BeginTask,
         ToMySQL!GiveUpRun, GiveUpRun, ToMySQL!ReportRun, ReportRun, ToMySQL!EndRun,
         EndRun, ToMySQL!LeaveRun, LeaveRun, ToMySQL!Transferred, Transferred,
         ToMySQL!MapThenSumSet, MapThenSumSet, ToMySQL!MapThenFoldSet, MapThenFoldSet,
         ToMySQL!Chunks, Chunks, ToMySQL!Cardinality, Cardinality, ToMySQL!Fault, Fault,
         ToMySQL!envVars, envVars, ToMySQL!runVars, runVars, ToMySQL!taskVars, taskVars,
         ToMySQL!tableVars, tableVars, ToMySQL!RowsOf, RowsOf, ToMySQL!FirstStep,
         FirstStep, ToMySQL!NoBounds, NoBounds, ToMySQL!EmptyTable, EmptyTable,
         ToMySQL!NTilePlan, NTilePlan, ToMySQL!Min, Min, ToMySQL!Max, Max,
         ToMySQL!ChunkCount, ChunkCount, ToMySQL!Bounds, Bounds, ToMySQL!TileEnd,
         TileEnd, ToMySQL!NTileValue, NTileValue, ToMySQL!ValueAt, ValueAt,
         ToMySQL!ReportSyncMetrics

\* Which rows the tables have that each of the statements may leave.
LEMMA ToMySQLUpserts ==
  ASSUME TypeOK, NEW n \in Chunks, NEW i \in 1 .. 3, NEW table \in ToMySQL!After(n, i)
  PROVE  /\ table \in Table
         /\ \A k \in Keys : \/ table[k] = target[k]
                            \/ i # 1 /\ batch[n][k] # NoRow /\ table[k] = batch[n][k]
                            \/ k \in Deleted(n) /\ table[k] = NoRow
         /\ i = 3 => \A k \in RowsOf(batch[n]) : \/ table[k] = batch[n][k]
                                                 \/ k \in Late(n) /\ table[k] = target[k]
<1>1. target \in Table /\ batch[n] \in Table
  BY DEF TypeOK
<1>2. PICK kept \in SUBSET Late(n) : table = ToMySQL!UpsertBatchOnce(n, kept)[i]
  BY ToMySQLLocks DEF ToMySQL!After
<1> DEFINE deleted == [k \in Keys |-> IF k \in Deleted(n) THEN NoRow ELSE target[k]]
           updated == [k \in Keys |->
             IF deleted[k] # NoRow /\ batch[n][k] # NoRow /\ k \notin kept
             THEN batch[n][k] ELSE deleted[k]]
           inserted == [k \in Keys |-> IF updated[k] = NoRow THEN batch[n][k] ELSE updated[k]]
<1>3. ToMySQL!UpsertBatchOnce(n, kept) = <<deleted, updated, inserted>>
  <2>1. Without(target, Deleted(n)) = deleted
    BY DEF Without
  <2>2. ToMySQL!Update(deleted, Without(batch[n], kept)) = updated
    BY <1>1 DEF ToMySQL!Update, Without
  <2>3. ToMySQL!Insert(updated, batch[n]) = inserted
    BY DEF ToMySQL!Insert
  <2> QED
    BY <2>1, <2>2, <2>3, ToMySQLLocks DEF ToMySQL!UpsertBatchOnce
<1>4. CASE i = 1
  BY <1>1, <1>2, <1>3, <1>4 DEF Table
<1>5. CASE i = 2
  BY <1>1, <1>2, <1>3, <1>5 DEF Table
<1>6. CASE i = 3
  BY <1>1, <1>2, <1>3, <1>6 DEF Table, RowsOf
<1> QED
  BY <1>4, <1>5, <1>6

LEMMA ToMySQLWrites ==
  ASSUME TypeOK, NEW n \in Chunks, ToMySQL!UpsertBatch(n) \/ ToMySQL!UpsertFails(n)
  PROVE  SqlWrites(n)
<1>1. /\ target \in Table
      /\ ToMySQL!After(n, 1) \in SUBSET Table /\ ToMySQL!After(n, 2) \in SUBSET Table
      /\ ToMySQL!After(n, 3) \in SUBSET Table
  BY ToMySQLUpserts DEF TypeOK
<1>2. ASSUME target' \in ToMySQL!After(n, 1) PROVE WritesBatch(n)
  BY <1>2, ToMySQLUpserts DEF WritesBatch
<1>3. ASSUME target' \in Possible(n, ToMySQL!After(n, 2)) PROVE WritesBatch(n)
  BY <1>3, ToMySQLUpserts DEF Possible, WritesBatch
<1>4. ASSUME target' \in Possible(n, ToMySQL!After(n, 3)) PROVE WritesBatch(n) /\ HasBatch(n)
  BY <1>4, ToMySQLUpserts DEF Possible, WritesBatch, HasBatch
<1>5. ASSUME target' = target PROVE WritesBatch(n)
  BY <1>5 DEF WritesBatch
<1> DEFINE kept == ToMySQL!After(n, 1) \cup ToMySQL!After(n, 2)
<1>6. CASE ToMySQL!UpsertBatch(n)
  <2>1. CASE Upsert(n, ToMySQL!After(n, 3))
    BY <1>1, <1>4, <2>1 DEF SqlWrites, Upsert
  <2>2. CASE RejectUpsert(n, kept)
    <3>1. WritesBatch(n)
      BY <1>2, <1>3, <2>2 DEF RejectUpsert, Possible
    <3> QED
      BY <1>1, <2>2, <3>1 DEF SqlWrites
  <2> QED
    BY <1>6, <2>1, <2>2, ToMySQLTasks DEF ToMySQL!UpsertBatch, SqlWrites
<1>7. CASE ToMySQL!UpsertFails(n)
  <2> DEFINE tables == ToMySQL!CleanupStagingTable(n)
  <2>1. tables = {target} \cup ToMySQL!After(n, 1)
                          \cup Possible(n, ToMySQL!After(n, 2) \cup ToMySQL!After(n, 3))
    BY ToMySQLLocks DEF ToMySQL!CleanupStagingTable
  <2>2. tables \in SUBSET Table
    BY <1>1, <2>1 DEF Possible
  <2>3. target' \in tables \/ target' = target => WritesBatch(n)
    BY <1>2, <1>3, <1>4, <1>5, <2>1 DEF Possible
  <2> HIDE DEF tables
  <2>4. WriteFails(n, tables, Without(target, Missing(n)))
    BY <1>7, ToMySQLTasks DEF ToMySQL!UpsertFails, tables
  <2>5. pc[n] = "insert" => WritesBatch(n)
    BY <2>3, <2>4, FailureEffects
  <2> QED
    BY <2>2, <2>4, <2>5 DEF SqlWrites
<1> QED
  BY <1>6, <1>7

LEMMA ToMySQLSteps == ASSUME TypeOK, ToMySQL!Next PROVE CommonStep
<1>1. config.direction = "mssql_to_mysql"
  BY DEF ToMySQL!Next, ToMySQL!Here
<1>2. /\ ~ToMongo /\ ToSql
      /\ ~OfMongo /\ ~OfTable
  BY <1>1 DEF OfMongo, ToMongo, ToSql, OfTable
<1>3. ASSUME NEW n \in Chunks, ToMySQL!CopyRows(n, TaskRange(n)) PROVE TaskStep(n)
  BY <1>2, <1>3, ToMySQLTasks, ToMySQLWrites DEF ToMySQL!CopyRows, TaskStep
<1>4. ASSUME NEW n \in Chunks, ToMySQL!FinalizeDeleteMissing(n) PROVE TaskStep(n)
  BY <1>2, <1>4, ToMySQLTasks DEF ToMySQL!FinalizeDeleteMissing, TaskStep, SqlWrites
<1>5. ASSUME NEW n \in Chunks, ToMySQL!SyncDataChunk(n) PROVE TaskStep(n)
  <2>1. config.dynamic /\ TaskRange(n) = ToMySQL!ChunkSource(n)
    BY <1>2, <1>5
       DEF ToMySQL!SyncDataChunk, TaskRange, ToMySQL!ChunkSource, ToMySQL!RowsOf, RowsOf,
           ToMySQL!InBounds, InBounds
  <2>2. ToMySQL!FetchChunkDeleteScopeBounds(n) => FetchChunkBounds(n, ChunkScope(n))
    <3>1. ToMySQL!ChunkSource(n) =
            {k \in RowsOf(source) : InBounds(config.chunkColumn, bounds[n], k)}
      BY DEF ToMySQL!ChunkSource, ToMySQL!RowsOf, RowsOf, ToMySQL!InBounds, InBounds
    <3>2. \A column, keys : ToMySQL!BoundsOf(column, keys) = BoundsOf(column, keys)
      BY DEF ToMySQL!BoundsOf, BoundsOf, ToMySQL!Bounds, Bounds, ToMySQL!NoBounds,
             NoBounds, ToMySQL!Min, Min, ToMySQL!Max, Max
    <3> QED
      BY <1>2, <3>1, <3>2, ToMySQLTasks
         DEF ToMySQL!FetchChunkDeleteScopeBounds, ChunkScope
  <2> QED
    BY <1>3, <1>4, <1>5, <2>1, <2>2 DEF ToMySQL!SyncDataChunk, TaskStep
<1>6. ASSUME NEW n \in Chunks, ToMySQL!SyncData(n) PROVE TaskStep(n)
  <2>1. ~config.dynamic /\ TaskRange(n) = ToMySQL!RowsOf(source)
    BY <1>6 DEF ToMySQL!SyncData, TaskRange, ToMySQL!RowsOf, RowsOf
  <2>2. ToMySQL!FetchScopeBounds(n)
         => FetchBounds(n, BoundsOf(config.scopeColumn, RowsOf(source)))
    BY ToMySQLTasks
       DEF ToMySQL!FetchScopeBounds, ToMySQL!RowsOf, RowsOf, ToMySQL!BoundsOf, BoundsOf,
           ToMySQL!Bounds, Bounds, ToMySQL!NoBounds, NoBounds, ToMySQL!Min, Min,
           ToMySQL!Max, Max
  <2> QED
    BY <1>3, <1>4, <1>6, <2>1, <2>2, ToMySQLTasks DEF ToMySQL!SyncData, TaskStep
<1>7. ASSUME ToMySQL!ValidateConnections \/ ToMySQL!CreateSyncChunks
             \/ ToMySQL!BeginTask \/ ToMySQL!ReportSyncMetrics \/ ToMySQL!EndRun
      PROVE  RunStep
  BY <1>2, <1>7, ToMySQLRun, ConfigIsSound
     DEF ToMySQL!ValidateConnections, ToMySQL!CreateSyncChunks,
         ToMySQL!PlanSyncChunks, ToMySQL!ChunkPlan, RunStep, EndRun
<1>8. ASSUME NEW n \in Chunks, ToMySQL!RetryTask(n) PROVE TaskStep(n)
  BY <1>8, ToMySQLTasks DEF TaskStep
<1>9. ToMySQL!Chunks = Chunks
  BY ToMySQLRun
<1> QED
  BY <1>5, <1>6, <1>7, <1>8, <1>9
     DEF ToMySQL!Next, ToMySQL!CreateDag, ToMySQL!SyncTask, ToMySQL!SyncChunkTask,
         CommonStep

-----------------------------------------------------------------------------
(* SQL Server to PostgreSQL *)

LEMMA ToPostgreSQLLocks ==
  ASSUME NEW n
  PROVE  /\ ToPostgreSQL!Deleted(n) = Deleted(n)
         /\ ToPostgreSQL!Late(n) = Late(n)
         /\ ToPostgreSQL!Duplicates(n) = Duplicates(n)
         /\ ToPostgreSQL!Missing(n) = Missing(n)
         /\ ToPostgreSQL!Waits(n) <=> Waits(n)
         /\ \A tables : ToPostgreSQL!Possible(n, tables) = Possible(n, tables)
         /\ \A table, rows : ToPostgreSQL!Conflicts(table, rows) = Conflicts(table, rows)
         /\ \A table, keys : ToPostgreSQL!Without(table, keys) = Without(table, keys)
  BY DEF ToPostgreSQL!Deleted, Deleted, ToPostgreSQL!Locked, Locked,
         ToPostgreSQL!Conflicts, Conflicts, ToPostgreSQL!Touched, Touched,
         ToPostgreSQL!Waits, Waits, ToPostgreSQL!Missing, Missing,
         ToPostgreSQL!InBounds, InBounds, ToPostgreSQL!Without, Without,
         ToPostgreSQL!Possible, Possible, ToPostgreSQL!UniqueIndexHolds,
         UniqueIndexHolds, ToPostgreSQL!Late, Late, ToPostgreSQL!Duplicates, Duplicates,
         ToPostgreSQL!RowsOf, RowsOf, ToPostgreSQL!Chunks, Chunks,
         ToPostgreSQL!Cardinality, Cardinality

LEMMA ToPostgreSQLTasks ==
  ASSUME NEW n
  PROVE  /\ \A b : /\ ToPostgreSQL!FetchBounds(n, b) <=> FetchBounds(n, b)
                   /\ ToPostgreSQL!FetchChunkBounds(n, b) <=> FetchChunkBounds(n, b)
         /\ ToPostgreSQL!CountRows(n) <=> CountRows(n)
         /\ \A rows : ToPostgreSQL!BeginStream(n, rows) <=> BeginStream(n, rows)
         /\ ToPostgreSQL!FetchBatch(n) <=> FetchBatch(n)
         /\ ToPostgreSQL!EndOfStream(n) <=> EndOfStream(n)
         /\ ToPostgreSQL!AppendKeysToStaging(n) <=> AppendKeys(n, {{}})
         /\ ToPostgreSQL!DropKeysStagingTable(n) <=> DropKeys(n)
         /\ ToPostgreSQL!ReadFails(n) <=> ReadFails(n)
         /\ ToPostgreSQL!RetryTask(n) <=> RetryTask(n)
         /\ ToPostgreSQL!DeleteUniqueKeyConflicts(n) <=> DeleteConflicts(n)
         /\ \A tables : /\ ToPostgreSQL!Upsert(n, tables) <=> Upsert(n, tables)
                        /\ ToPostgreSQL!RejectUpsert(n, tables) <=> RejectUpsert(n, tables)
         /\ ToPostgreSQL!DeadlockVictim(n) <=> DeadlockVictim(n)
         /\ ToPostgreSQL!LoseUpsert(n) <=> LoseUpsert(n)
         /\ ToPostgreSQL!DeleteMissingInScope(n) <=> DeleteMissing(n)
         /\ \A tables :
              ToPostgreSQL!WriteFails(n, tables,
                                      ToPostgreSQL!Without(target, ToPostgreSQL!Missing(n)))
                <=> WriteFails(n, tables, Without(target, Missing(n)))
  BY ToPostgreSQLLocks
     DEF ToPostgreSQL!Goto, Goto, ToPostgreSQL!FailTask, FailTask,
         ToPostgreSQL!IsTransient, IsTransient, ToPostgreSQL!Fault, Fault,
         ToPostgreSQL!envVars, envVars, ToPostgreSQL!runVars, runVars,
         ToPostgreSQL!taskVars, taskVars, ToPostgreSQL!tableVars, tableVars,
         ToPostgreSQL!RowsOf, RowsOf, ToPostgreSQL!AfterStream, AfterStream,
         ToPostgreSQL!FirstStep, FirstStep, ToPostgreSQL!Chunks, Chunks,
         ToPostgreSQL!NoBounds, NoBounds, ToPostgreSQL!EmptyTable, EmptyTable,
         ToPostgreSQL!Cardinality, Cardinality, ToPostgreSQL!CountRows, CountRows,
         ToPostgreSQL!BeginStream, BeginStream, ToPostgreSQL!FetchBatch, FetchBatch,
         ToPostgreSQL!NextRows, NextRows, ToPostgreSQL!Min, Min,
         ToPostgreSQL!EndOfStream, EndOfStream, ToPostgreSQL!AppendKeys, AppendKeys,
         ToPostgreSQL!AppendedKeys, AppendedKeys, ToPostgreSQL!ReadFails, ReadFails,
         ToPostgreSQL!RetryTask, RetryTask, ToPostgreSQL!FetchBounds, FetchBounds,
         ToPostgreSQL!FetchChunkBounds, FetchChunkBounds, ToPostgreSQL!DropKeys,
         DropKeys, ToPostgreSQL!DeleteConflicts, DeleteConflicts,
         ToPostgreSQL!EndUpsert, EndUpsert, ToPostgreSQL!Upsert, Upsert,
         ToPostgreSQL!RejectUpsert, RejectUpsert, ToPostgreSQL!DeadlockVictim,
         DeadlockVictim, ToPostgreSQL!LoseUpsert, LoseUpsert,
         ToPostgreSQL!DeleteMissing, DeleteMissing, ToPostgreSQL!WriteFails, WriteFails,
         ToPostgreSQL!AppendKeysToStaging, ToPostgreSQL!DropKeysStagingTable,
         ToPostgreSQL!DeleteMissingInScope, ToPostgreSQL!DeleteUniqueKeyConflicts

LEMMA ToPostgreSQLRun ==
  /\ \A versions : ToPostgreSQL!BeginRun(versions) <=> BeginRun(versions)
  /\ ToPostgreSQL!CountTotal <=> CountTotal
  /\ \A plan : ToPostgreSQL!ExpandChunks(plan) <=> ExpandChunks(plan)
  /\ ToPostgreSQL!NTilePlan(TRUE) = NTilePlan(TRUE)
  /\ ToPostgreSQL!BeginTask <=> BeginTask
  /\ ToPostgreSQL!GiveUpRun <=> GiveUpRun
  /\ ToPostgreSQL!ReportSyncMetrics <=> ReportRun(Transferred)
  /\ ToPostgreSQL!EndRun <=> EndRun
  /\ ToPostgreSQL!Chunks = Chunks
  BY DEF ToPostgreSQL!BeginRun, BeginRun, ToPostgreSQL!CountTotal, CountTotal,
         ToPostgreSQL!ExpandChunks, ExpandChunks, ToPostgreSQL!BeginTask, BeginTask,
         ToPostgreSQL!GiveUpRun, GiveUpRun, ToPostgreSQL!ReportRun, ReportRun,
         ToPostgreSQL!EndRun, EndRun, ToPostgreSQL!LeaveRun, LeaveRun,
         ToPostgreSQL!Transferred, Transferred, ToPostgreSQL!MapThenSumSet,
         MapThenSumSet, ToPostgreSQL!MapThenFoldSet, MapThenFoldSet,
         ToPostgreSQL!Chunks, Chunks, ToPostgreSQL!Cardinality, Cardinality,
         ToPostgreSQL!Fault, Fault, ToPostgreSQL!envVars, envVars, ToPostgreSQL!runVars,
         runVars, ToPostgreSQL!taskVars, taskVars, ToPostgreSQL!tableVars, tableVars,
         ToPostgreSQL!RowsOf, RowsOf, ToPostgreSQL!FirstStep, FirstStep,
         ToPostgreSQL!NoBounds, NoBounds, ToPostgreSQL!EmptyTable, EmptyTable,
         ToPostgreSQL!NTilePlan, NTilePlan, ToPostgreSQL!Min, Min, ToPostgreSQL!Max,
         Max, ToPostgreSQL!ChunkCount, ChunkCount, ToPostgreSQL!Bounds, Bounds,
         ToPostgreSQL!TileEnd, TileEnd, ToPostgreSQL!NTileValue, NTileValue,
         ToPostgreSQL!ValueAt, ValueAt, ToPostgreSQL!ReportSyncMetrics

\* Which rows the tables have that the last statement may leave.
LEMMA ToPostgreSQLUpserts ==
  ASSUME TypeOK, NEW n \in Chunks, NEW table \in ToPostgreSQL!Upserted(n)
  PROVE  /\ table \in Table
         /\ \A k \in Keys : \/ table[k] = target[k]
                            \/ batch[n][k] # NoRow /\ table[k] = batch[n][k]
                            \/ k \in Deleted(n) /\ table[k] = NoRow
         /\ \A k \in RowsOf(batch[n]) : \/ table[k] = batch[n][k]
                                        \/ k \in Late(n) /\ table[k] = target[k]
<1>1. target \in Table /\ batch[n] \in Table
  BY DEF TypeOK
<1>2. PICK kept \in SUBSET Late(n) : table = ToPostgreSQL!UpsertBatchOnce(n, kept)
  BY ToPostgreSQLLocks DEF ToPostgreSQL!Upserted
<1>3. \A keys, t : Without(t, keys) = [k \in Keys |-> IF k \in keys THEN NoRow ELSE t[k]]
  BY DEF Without
<1>4. table = [k \in Keys |->
        IF k \in Deleted(n) \/ target[k] = NoRow THEN batch[n][k]
        ELSE IF batch[n][k] # NoRow /\ k \notin kept THEN batch[n][k] ELSE target[k]]
  BY <1>1, <1>2, <1>3, ToPostgreSQLLocks
     DEF ToPostgreSQL!UpsertBatchOnce, ToPostgreSQL!Update, ToPostgreSQL!Insert, Table
<1> QED
  BY <1>1, <1>4 DEF Table, RowsOf

LEMMA ToPostgreSQLWrites ==
  ASSUME TypeOK, NEW n \in Chunks, ToPostgreSQL!UpsertBatch(n) \/ ToPostgreSQL!UpsertFails(n)
  PROVE  SqlWrites(n)
<1>1. target \in Table /\ ToPostgreSQL!Upserted(n) \in SUBSET Table
  BY ToPostgreSQLUpserts DEF TypeOK
<1>2. ASSUME target' \in Possible(n, ToPostgreSQL!Upserted(n)) PROVE WritesBatch(n) /\ HasBatch(n)
  BY <1>2, ToPostgreSQLUpserts DEF Possible, WritesBatch, HasBatch
<1>3. ASSUME target' = target PROVE WritesBatch(n)
  BY <1>3 DEF WritesBatch
<1>4. CASE ToPostgreSQL!UpsertBatch(n)
  <2>1. CASE Upsert(n, ToPostgreSQL!Upserted(n))
    BY <1>1, <1>2, <2>1 DEF SqlWrites, Upsert
  <2>2. CASE RejectUpsert(n, {target})
    BY <1>1, <1>3, <2>2 DEF SqlWrites, RejectUpsert, Possible
  <2> QED
    BY <1>4, <2>1, <2>2, ToPostgreSQLTasks DEF ToPostgreSQL!UpsertBatch, SqlWrites
<1>5. CASE ToPostgreSQL!UpsertFails(n)
  <2> DEFINE tables == ToPostgreSQL!CleanupStagingTable(n)
  <2>1. tables = {target} \cup Possible(n, ToPostgreSQL!Upserted(n))
    BY ToPostgreSQLLocks DEF ToPostgreSQL!CleanupStagingTable
  <2>2. tables \in SUBSET Table
    BY <1>1, <2>1 DEF Possible
  <2>3. target' \in tables \/ target' = target => WritesBatch(n)
    BY <1>2, <1>3, <2>1
  <2> HIDE DEF tables
  <2>4. WriteFails(n, tables, Without(target, Missing(n)))
    BY <1>5, ToPostgreSQLTasks DEF ToPostgreSQL!UpsertFails, tables
  <2>5. pc[n] = "insert" => WritesBatch(n)
    BY <2>3, <2>4, FailureEffects
  <2> QED
    BY <2>2, <2>4, <2>5 DEF SqlWrites
<1> QED
  BY <1>4, <1>5

LEMMA ToPostgreSQLSteps == ASSUME TypeOK, ToPostgreSQL!Next PROVE CommonStep
<1>1. config.direction = "mssql_to_postgresql"
  BY DEF ToPostgreSQL!Next, ToPostgreSQL!Here
<1>2. /\ ~ToMongo /\ ToSql
      /\ ~OfMongo /\ ~OfTable
  BY <1>1 DEF OfMongo, ToMongo, ToSql, OfTable
<1>3. ASSUME NEW n \in Chunks, ToPostgreSQL!CopyRows(n, TaskRange(n)) PROVE TaskStep(n)
  BY <1>2, <1>3, ToPostgreSQLTasks, ToPostgreSQLWrites DEF ToPostgreSQL!CopyRows, TaskStep
<1>4. ASSUME NEW n \in Chunks, ToPostgreSQL!FinalizeDeleteMissing(n) PROVE TaskStep(n)
  BY <1>2, <1>4, ToPostgreSQLTasks DEF ToPostgreSQL!FinalizeDeleteMissing, TaskStep, SqlWrites
<1>5. ASSUME NEW n \in Chunks, ToPostgreSQL!SyncDataChunk(n) PROVE TaskStep(n)
  <2>1. config.dynamic /\ TaskRange(n) = ToPostgreSQL!ChunkSource(n)
    BY <1>2, <1>5
       DEF ToPostgreSQL!SyncDataChunk, TaskRange, ToPostgreSQL!ChunkSource,
           ToPostgreSQL!RowsOf, RowsOf, ToPostgreSQL!InBounds, InBounds
  <2>2. ToPostgreSQL!FetchChunkDeleteScopeBounds(n) => FetchChunkBounds(n, ChunkScope(n))
    <3>1. ToPostgreSQL!ChunkSource(n) =
            {k \in RowsOf(source) : InBounds(config.chunkColumn, bounds[n], k)}
      BY DEF ToPostgreSQL!ChunkSource, ToPostgreSQL!RowsOf, RowsOf, ToPostgreSQL!InBounds,
             InBounds
    <3>2. \A column, keys : ToPostgreSQL!BoundsOf(column, keys) = BoundsOf(column, keys)
      BY DEF ToPostgreSQL!BoundsOf, BoundsOf, ToPostgreSQL!Bounds, Bounds,
             ToPostgreSQL!NoBounds, NoBounds, ToPostgreSQL!Min, Min, ToPostgreSQL!Max, Max
    <3> QED
      BY <1>2, <3>1, <3>2, ToPostgreSQLTasks
         DEF ToPostgreSQL!FetchChunkDeleteScopeBounds, ChunkScope
  <2> QED
    BY <1>3, <1>4, <1>5, <2>1, <2>2 DEF ToPostgreSQL!SyncDataChunk, TaskStep
<1>6. ASSUME NEW n \in Chunks, ToPostgreSQL!SyncData(n) PROVE TaskStep(n)
  <2>1. ~config.dynamic /\ TaskRange(n) = ToPostgreSQL!RowsOf(source)
    BY <1>6 DEF ToPostgreSQL!SyncData, TaskRange, ToPostgreSQL!RowsOf, RowsOf
  <2>2. ToPostgreSQL!FetchScopeBounds(n)
         => FetchBounds(n, BoundsOf(config.scopeColumn, RowsOf(source)))
    BY ToPostgreSQLTasks
       DEF ToPostgreSQL!FetchScopeBounds, ToPostgreSQL!RowsOf, RowsOf,
           ToPostgreSQL!BoundsOf, BoundsOf, ToPostgreSQL!Bounds, Bounds,
           ToPostgreSQL!NoBounds, NoBounds, ToPostgreSQL!Min, Min, ToPostgreSQL!Max, Max
  <2> QED
    BY <1>3, <1>4, <1>6, <2>1, <2>2, ToPostgreSQLTasks DEF ToPostgreSQL!SyncData, TaskStep
<1>7. ASSUME ToPostgreSQL!ValidateConnections \/ ToPostgreSQL!CreateSyncChunks
             \/ ToPostgreSQL!BeginTask \/ ToPostgreSQL!ReportSyncMetrics \/ ToPostgreSQL!EndRun
      PROVE  RunStep
  BY <1>2, <1>7, ToPostgreSQLRun, ConfigIsSound
     DEF ToPostgreSQL!ValidateConnections, ToPostgreSQL!CreateSyncChunks,
         ToPostgreSQL!PlanSyncChunks, ToPostgreSQL!ChunkPlan, RunStep, EndRun
<1>8. ASSUME NEW n \in Chunks, ToPostgreSQL!RetryTask(n) PROVE TaskStep(n)
  BY <1>8, ToPostgreSQLTasks DEF TaskStep
<1>9. ToPostgreSQL!Chunks = Chunks
  BY ToPostgreSQLRun
<1> QED
  BY <1>5, <1>6, <1>7, <1>8, <1>9
     DEF ToPostgreSQL!Next, ToPostgreSQL!CreateDag, ToPostgreSQL!SyncTask,
         ToPostgreSQL!SyncChunkTask, CommonStep

-----------------------------------------------------------------------------
(* MySQL to SQL Server *)

LEMMA FromMySQLLocks ==
  ASSUME NEW n
  PROVE  /\ FromMySQL!Deleted(n) = Deleted(n)
         /\ FromMySQL!Late(n) = Late(n)
         /\ FromMySQL!Duplicates(n) = Duplicates(n)
         /\ FromMySQL!Missing(n) = Missing(n)
         /\ FromMySQL!Waits(n) <=> Waits(n)
         /\ \A tables : FromMySQL!Possible(n, tables) = Possible(n, tables)
         /\ \A table, rows : FromMySQL!Conflicts(table, rows) = Conflicts(table, rows)
         /\ \A table, keys : FromMySQL!Without(table, keys) = Without(table, keys)
  BY DEF FromMySQL!Deleted, Deleted, FromMySQL!Locked, Locked, FromMySQL!Conflicts,
         Conflicts, FromMySQL!Touched, Touched, FromMySQL!Waits, Waits,
         FromMySQL!Missing, Missing, FromMySQL!InBounds, InBounds, FromMySQL!Without,
         Without, FromMySQL!Possible, Possible, FromMySQL!UniqueIndexHolds,
         UniqueIndexHolds, FromMySQL!Late, Late, FromMySQL!Duplicates, Duplicates,
         FromMySQL!RowsOf, RowsOf, FromMySQL!Chunks, Chunks, FromMySQL!Cardinality,
         Cardinality

LEMMA FromMySQLTasks ==
  ASSUME NEW n
  PROVE  /\ \A b : /\ FromMySQL!FetchBounds(n, b) <=> FetchBounds(n, b)
                   /\ FromMySQL!FetchChunkBounds(n, b) <=> FetchChunkBounds(n, b)
         /\ FromMySQL!CountRows(n) <=> CountRows(n)
         /\ \A rows : FromMySQL!BeginStream(n, rows) <=> BeginStream(n, rows)
         /\ FromMySQL!FetchBatch(n) <=> FetchBatch(n)
         /\ FromMySQL!EndOfStream(n) <=> EndOfStream(n)
         /\ FromMySQL!AppendKeysToStaging(n) <=> AppendKeys(n, {{}})
         /\ FromMySQL!DropKeysStagingTable(n) <=> DropKeys(n)
         /\ FromMySQL!ReadFails(n) <=> ReadFails(n)
         /\ FromMySQL!RetryTask(n) <=> RetryTask(n)
         /\ FromMySQL!DeleteUniqueKeyConflicts(n) <=> DeleteConflicts(n)
         /\ \A tables : /\ FromMySQL!Upsert(n, tables) <=> Upsert(n, tables)
                        /\ FromMySQL!RejectUpsert(n, tables) <=> RejectUpsert(n, tables)
         /\ FromMySQL!DeadlockVictim(n) <=> DeadlockVictim(n)
         /\ FromMySQL!LoseUpsert(n) <=> LoseUpsert(n)
         /\ FromMySQL!DeleteMissingInScope(n) <=> DeleteMissing(n)
         /\ \A tables :
              FromMySQL!WriteFails(n, tables, FromMySQL!Without(target, FromMySQL!Missing(n)))
                <=> WriteFails(n, tables, Without(target, Missing(n)))
  BY FromMySQLLocks
     DEF FromMySQL!Goto, Goto, FromMySQL!FailTask, FailTask, FromMySQL!IsTransient,
         IsTransient, FromMySQL!Fault, Fault, FromMySQL!envVars, envVars,
         FromMySQL!runVars, runVars, FromMySQL!taskVars, taskVars, FromMySQL!tableVars,
         tableVars, FromMySQL!RowsOf, RowsOf, FromMySQL!AfterStream, AfterStream,
         FromMySQL!FirstStep, FirstStep, FromMySQL!Chunks, Chunks, FromMySQL!NoBounds,
         NoBounds, FromMySQL!EmptyTable, EmptyTable, FromMySQL!Cardinality, Cardinality,
         FromMySQL!CountRows, CountRows, FromMySQL!BeginStream, BeginStream,
         FromMySQL!FetchBatch, FetchBatch, FromMySQL!NextRows, NextRows, FromMySQL!Min,
         Min, FromMySQL!EndOfStream, EndOfStream, FromMySQL!AppendKeys, AppendKeys,
         FromMySQL!AppendedKeys, AppendedKeys, FromMySQL!ReadFails, ReadFails,
         FromMySQL!RetryTask, RetryTask, FromMySQL!FetchBounds, FetchBounds,
         FromMySQL!FetchChunkBounds, FetchChunkBounds, FromMySQL!DropKeys, DropKeys,
         FromMySQL!DeleteConflicts, DeleteConflicts, FromMySQL!EndUpsert, EndUpsert,
         FromMySQL!Upsert, Upsert, FromMySQL!RejectUpsert, RejectUpsert,
         FromMySQL!DeadlockVictim, DeadlockVictim, FromMySQL!LoseUpsert, LoseUpsert,
         FromMySQL!DeleteMissing, DeleteMissing, FromMySQL!WriteFails, WriteFails,
         FromMySQL!AppendKeysToStaging, FromMySQL!DropKeysStagingTable,
         FromMySQL!DeleteMissingInScope, FromMySQL!DeleteUniqueKeyConflicts

LEMMA FromMySQLRun ==
  /\ \A versions : FromMySQL!BeginRun(versions) <=> BeginRun(versions)
  /\ FromMySQL!CountTotal <=> CountTotal
  /\ \A plan : FromMySQL!ExpandChunks(plan) <=> ExpandChunks(plan)
  /\ FromMySQL!NTilePlan(TRUE) = NTilePlan(TRUE)
  /\ FromMySQL!BeginTask <=> BeginTask
  /\ FromMySQL!GiveUpRun <=> GiveUpRun
  /\ FromMySQL!ReportSyncMetrics <=> ReportRun(Transferred)
  /\ FromMySQL!EndRun <=> EndRun
  /\ FromMySQL!Chunks = Chunks
  BY DEF FromMySQL!BeginRun, BeginRun, FromMySQL!CountTotal, CountTotal,
         FromMySQL!ExpandChunks, ExpandChunks, FromMySQL!BeginTask, BeginTask,
         FromMySQL!GiveUpRun, GiveUpRun, FromMySQL!ReportRun, ReportRun,
         FromMySQL!EndRun, EndRun, FromMySQL!LeaveRun, LeaveRun, FromMySQL!Transferred,
         Transferred, FromMySQL!MapThenSumSet, MapThenSumSet, FromMySQL!MapThenFoldSet,
         MapThenFoldSet, FromMySQL!Chunks, Chunks, FromMySQL!Cardinality, Cardinality,
         FromMySQL!Fault, Fault, FromMySQL!envVars, envVars, FromMySQL!runVars, runVars,
         FromMySQL!taskVars, taskVars, FromMySQL!tableVars, tableVars, FromMySQL!RowsOf,
         RowsOf, FromMySQL!FirstStep, FirstStep, FromMySQL!NoBounds, NoBounds,
         FromMySQL!EmptyTable, EmptyTable, FromMySQL!NTilePlan, NTilePlan,
         FromMySQL!Min, Min, FromMySQL!Max, Max, FromMySQL!ChunkCount, ChunkCount,
         FromMySQL!Bounds, Bounds, FromMySQL!TileEnd, TileEnd, FromMySQL!NTileValue,
         NTileValue, FromMySQL!ValueAt, ValueAt, FromMySQL!ReportSyncMetrics

LEMMA FromMySQLWrites ==
  ASSUME TypeOK, NEW n \in Chunks, FromMySQL!UpsertBatch(n) \/ FromMySQL!UpsertFails(n)
  PROVE  SqlWrites(n)
<1> DEFINE cleared == FromMySQL!Cleared(n)
           merged  == FromMySQL!Merged(n)
<1>1. target \in Table /\ batch[n] \in Table
  BY DEF TypeOK
<1>2. cleared = [k \in Keys |-> IF k \in Deleted(n) THEN NoRow ELSE target[k]]
  BY FromMySQLLocks DEF FromMySQL!Cleared, Without
<1>3. merged = [k \in Keys |-> IF batch[n][k] # NoRow THEN batch[n][k] ELSE cleared[k]]
  BY DEF FromMySQL!Merged, FromMySQL!Merge
<1> HIDE DEF cleared, merged
<1>4. cleared \in Table /\ merged \in Table
  BY <1>1, <1>2, <1>3 DEF Table
<1>5. ASSUME target' \in Possible(n, {merged}) PROVE WritesBatch(n) /\ HasBatch(n)
  BY <1>2, <1>3, <1>5 DEF Possible, WritesBatch, HasBatch, RowsOf
<1>6. ASSUME target' \in {target, cleared} PROVE WritesBatch(n)
  BY <1>2, <1>6 DEF WritesBatch
<1>7. CASE FromMySQL!UpsertBatch(n)
  <2>1. CASE Upsert(n, {merged})
    BY <1>4, <1>5, <2>1 DEF SqlWrites, Upsert
  <2>2. CASE RejectUpsert(n, {cleared})
    BY <1>4, <1>6, <2>2 DEF SqlWrites, RejectUpsert, Possible
  <2> QED
    BY <1>7, <2>1, <2>2, FromMySQLTasks DEF FromMySQL!UpsertBatch, SqlWrites, cleared, merged
<1>8. CASE FromMySQL!UpsertFails(n)
  <2> DEFINE tables == FromMySQL!CleanupStagingTable(n)
  <2>1. tables = {target, cleared} \cup Possible(n, {merged})
    BY FromMySQLLocks DEF FromMySQL!CleanupStagingTable, cleared, merged
  <2>2. tables \in SUBSET Table
    BY <1>1, <1>4, <2>1 DEF Possible
  <2>3. target' \in tables \/ target' = target => WritesBatch(n)
    BY <1>5, <1>6, <2>1
  <2> HIDE DEF tables
  <2>4. WriteFails(n, tables, Without(target, Missing(n)))
    BY <1>8, FromMySQLTasks DEF FromMySQL!UpsertFails, tables
  <2>5. pc[n] = "insert" => WritesBatch(n)
    BY <2>3, <2>4, FailureEffects
  <2> QED
    BY <2>2, <2>4, <2>5 DEF SqlWrites
<1> QED
  BY <1>7, <1>8

LEMMA FromMySQLSteps == ASSUME TypeOK, FromMySQL!Next PROVE CommonStep
<1>1. config.direction = "mysql_to_mssql"
  BY DEF FromMySQL!Next, FromMySQL!Here
<1>2. /\ ~ToMongo /\ ToSql
      /\ ~OfMongo /\ ~OfTable
  BY <1>1 DEF OfMongo, ToMongo, ToSql, OfTable
<1>3. ASSUME NEW n \in Chunks, FromMySQL!CopyRows(n, TaskRange(n)) PROVE TaskStep(n)
  BY <1>2, <1>3, FromMySQLTasks, FromMySQLWrites DEF FromMySQL!CopyRows, TaskStep
<1>4. ASSUME NEW n \in Chunks, FromMySQL!FinalizeDeleteMissing(n) PROVE TaskStep(n)
  BY <1>2, <1>4, FromMySQLTasks DEF FromMySQL!FinalizeDeleteMissing, TaskStep, SqlWrites
<1>5. ASSUME NEW n \in Chunks, FromMySQL!SyncDataChunk(n) PROVE TaskStep(n)
  <2>1. config.dynamic /\ TaskRange(n) = FromMySQL!ChunkSource(n)
    BY <1>2, <1>5
       DEF FromMySQL!SyncDataChunk, TaskRange, FromMySQL!ChunkSource, FromMySQL!RowsOf,
           RowsOf, FromMySQL!InBounds, InBounds
  <2>2. FromMySQL!FetchChunkDeleteScopeBounds(n) => FetchChunkBounds(n, ChunkScope(n))
    <3>1. FromMySQL!ChunkSource(n) =
            {k \in RowsOf(source) : InBounds(config.chunkColumn, bounds[n], k)}
      BY DEF FromMySQL!ChunkSource, FromMySQL!RowsOf, RowsOf, FromMySQL!InBounds, InBounds
    <3>2. \A column, keys : FromMySQL!BoundsOf(column, keys) = BoundsOf(column, keys)
      BY DEF FromMySQL!BoundsOf, BoundsOf, FromMySQL!Bounds, Bounds, FromMySQL!NoBounds,
             NoBounds, FromMySQL!Min, Min, FromMySQL!Max, Max
    <3> QED
      BY <1>2, <3>1, <3>2, FromMySQLTasks
         DEF FromMySQL!FetchChunkDeleteScopeBounds, ChunkScope
  <2> QED
    BY <1>3, <1>4, <1>5, <2>1, <2>2 DEF FromMySQL!SyncDataChunk, TaskStep
<1>6. ASSUME NEW n \in Chunks, FromMySQL!SyncData(n) PROVE TaskStep(n)
  <2>1. ~config.dynamic /\ TaskRange(n) = FromMySQL!RowsOf(source)
    BY <1>6 DEF FromMySQL!SyncData, TaskRange, FromMySQL!RowsOf, RowsOf
  <2>2. FromMySQL!FetchScopeBounds(n)
         => FetchBounds(n, BoundsOf(config.scopeColumn, RowsOf(source)))
    BY FromMySQLTasks
       DEF FromMySQL!FetchScopeBounds, FromMySQL!RowsOf, RowsOf, FromMySQL!BoundsOf,
           BoundsOf, FromMySQL!Bounds, Bounds, FromMySQL!NoBounds, NoBounds, FromMySQL!Min,
           Min, FromMySQL!Max, Max
  <2> QED
    BY <1>3, <1>4, <1>6, <2>1, <2>2, FromMySQLTasks DEF FromMySQL!SyncData, TaskStep
<1>7. ASSUME FromMySQL!ValidateConnections \/ FromMySQL!CreateSyncChunks
             \/ FromMySQL!BeginTask \/ FromMySQL!ReportSyncMetrics \/ FromMySQL!EndRun
      PROVE  RunStep
  BY <1>2, <1>7, FromMySQLRun, ConfigIsSound
     DEF FromMySQL!ValidateConnections, FromMySQL!CreateSyncChunks,
         FromMySQL!PlanSyncChunks, FromMySQL!ChunkPlan, RunStep, EndRun
<1>8. ASSUME NEW n \in Chunks, FromMySQL!RetryTask(n) PROVE TaskStep(n)
  BY <1>8, FromMySQLTasks DEF TaskStep
<1>9. FromMySQL!Chunks = Chunks
  BY FromMySQLRun
<1> QED
  BY <1>5, <1>6, <1>7, <1>8, <1>9
     DEF FromMySQL!Next, FromMySQL!CreateDag, FromMySQL!SyncTask, FromMySQL!SyncChunkTask,
         CommonStep

-----------------------------------------------------------------------------
(* PostgreSQL to SQL Server *)

LEMMA FromPostgreSQLLocks ==
  ASSUME NEW n
  PROVE  /\ FromPostgreSQL!Deleted(n) = Deleted(n)
         /\ FromPostgreSQL!Late(n) = Late(n)
         /\ FromPostgreSQL!Duplicates(n) = Duplicates(n)
         /\ FromPostgreSQL!Missing(n) = Missing(n)
         /\ FromPostgreSQL!Waits(n) <=> Waits(n)
         /\ \A tables : FromPostgreSQL!Possible(n, tables) = Possible(n, tables)
         /\ \A table, rows : FromPostgreSQL!Conflicts(table, rows) = Conflicts(table, rows)
         /\ \A table, keys : FromPostgreSQL!Without(table, keys) = Without(table, keys)
  BY DEF FromPostgreSQL!Deleted, Deleted, FromPostgreSQL!Locked, Locked,
         FromPostgreSQL!Conflicts, Conflicts, FromPostgreSQL!Touched, Touched,
         FromPostgreSQL!Waits, Waits, FromPostgreSQL!Missing, Missing,
         FromPostgreSQL!InBounds, InBounds, FromPostgreSQL!Without, Without,
         FromPostgreSQL!Possible, Possible, FromPostgreSQL!UniqueIndexHolds,
         UniqueIndexHolds, FromPostgreSQL!Late, Late, FromPostgreSQL!Duplicates,
         Duplicates, FromPostgreSQL!RowsOf, RowsOf, FromPostgreSQL!Chunks, Chunks,
         FromPostgreSQL!Cardinality, Cardinality

LEMMA FromPostgreSQLTasks ==
  ASSUME NEW n
  PROVE  /\ \A b : /\ FromPostgreSQL!FetchBounds(n, b) <=> FetchBounds(n, b)
                   /\ FromPostgreSQL!FetchChunkBounds(n, b) <=> FetchChunkBounds(n, b)
         /\ FromPostgreSQL!CountRows(n) <=> CountRows(n)
         /\ \A rows : FromPostgreSQL!BeginStream(n, rows) <=> BeginStream(n, rows)
         /\ FromPostgreSQL!FetchBatch(n) <=> FetchBatch(n)
         /\ FromPostgreSQL!EndOfStream(n) <=> EndOfStream(n)
         /\ FromPostgreSQL!AppendKeysToStaging(n) <=> AppendKeys(n, {{}})
         /\ FromPostgreSQL!DropKeysStagingTable(n) <=> DropKeys(n)
         /\ FromPostgreSQL!ReadFails(n) <=> ReadFails(n)
         /\ FromPostgreSQL!RetryTask(n) <=> RetryTask(n)
         /\ FromPostgreSQL!DeleteUniqueKeyConflicts(n) <=> DeleteConflicts(n)
         /\ \A tables : /\ FromPostgreSQL!Upsert(n, tables) <=> Upsert(n, tables)
                        /\ FromPostgreSQL!RejectUpsert(n, tables) <=> RejectUpsert(n, tables)
         /\ FromPostgreSQL!DeadlockVictim(n) <=> DeadlockVictim(n)
         /\ FromPostgreSQL!LoseUpsert(n) <=> LoseUpsert(n)
         /\ FromPostgreSQL!DeleteMissingInScope(n) <=> DeleteMissing(n)
         /\ \A tables :
              FromPostgreSQL!WriteFails(n, tables,
                                        FromPostgreSQL!Without(target, FromPostgreSQL!Missing(n)))
                <=> WriteFails(n, tables, Without(target, Missing(n)))
  BY FromPostgreSQLLocks
     DEF FromPostgreSQL!Goto, Goto, FromPostgreSQL!FailTask, FailTask,
         FromPostgreSQL!IsTransient, IsTransient, FromPostgreSQL!Fault, Fault,
         FromPostgreSQL!envVars, envVars, FromPostgreSQL!runVars, runVars,
         FromPostgreSQL!taskVars, taskVars, FromPostgreSQL!tableVars, tableVars,
         FromPostgreSQL!RowsOf, RowsOf, FromPostgreSQL!AfterStream, AfterStream,
         FromPostgreSQL!FirstStep, FirstStep, FromPostgreSQL!Chunks, Chunks,
         FromPostgreSQL!NoBounds, NoBounds, FromPostgreSQL!EmptyTable, EmptyTable,
         FromPostgreSQL!Cardinality, Cardinality, FromPostgreSQL!CountRows, CountRows,
         FromPostgreSQL!BeginStream, BeginStream, FromPostgreSQL!FetchBatch, FetchBatch,
         FromPostgreSQL!NextRows, NextRows, FromPostgreSQL!Min, Min,
         FromPostgreSQL!EndOfStream, EndOfStream, FromPostgreSQL!AppendKeys, AppendKeys,
         FromPostgreSQL!AppendedKeys, AppendedKeys, FromPostgreSQL!ReadFails, ReadFails,
         FromPostgreSQL!RetryTask, RetryTask, FromPostgreSQL!FetchBounds, FetchBounds,
         FromPostgreSQL!FetchChunkBounds, FetchChunkBounds, FromPostgreSQL!DropKeys,
         DropKeys, FromPostgreSQL!DeleteConflicts, DeleteConflicts,
         FromPostgreSQL!EndUpsert, EndUpsert, FromPostgreSQL!Upsert, Upsert,
         FromPostgreSQL!RejectUpsert, RejectUpsert, FromPostgreSQL!DeadlockVictim,
         DeadlockVictim, FromPostgreSQL!LoseUpsert, LoseUpsert,
         FromPostgreSQL!DeleteMissing, DeleteMissing, FromPostgreSQL!WriteFails,
         WriteFails, FromPostgreSQL!AppendKeysToStaging,
         FromPostgreSQL!DropKeysStagingTable, FromPostgreSQL!DeleteMissingInScope,
         FromPostgreSQL!DeleteUniqueKeyConflicts

LEMMA FromPostgreSQLRun ==
  /\ \A versions : FromPostgreSQL!BeginRun(versions) <=> BeginRun(versions)
  /\ FromPostgreSQL!CountTotal <=> CountTotal
  /\ \A plan : FromPostgreSQL!ExpandChunks(plan) <=> ExpandChunks(plan)
  /\ FromPostgreSQL!NTilePlan(FALSE) = NTilePlan(FALSE)
  /\ FromPostgreSQL!BeginTask <=> BeginTask
  /\ FromPostgreSQL!GiveUpRun <=> GiveUpRun
  /\ FromPostgreSQL!ReportSyncMetrics <=> ReportRun(Transferred)
  /\ FromPostgreSQL!EndRun <=> EndRun
  /\ FromPostgreSQL!Chunks = Chunks
  BY DEF FromPostgreSQL!BeginRun, BeginRun, FromPostgreSQL!CountTotal, CountTotal,
         FromPostgreSQL!ExpandChunks, ExpandChunks, FromPostgreSQL!BeginTask, BeginTask,
         FromPostgreSQL!GiveUpRun, GiveUpRun, FromPostgreSQL!ReportRun, ReportRun,
         FromPostgreSQL!EndRun, EndRun, FromPostgreSQL!LeaveRun, LeaveRun,
         FromPostgreSQL!Transferred, Transferred, FromPostgreSQL!MapThenSumSet,
         MapThenSumSet, FromPostgreSQL!MapThenFoldSet, MapThenFoldSet,
         FromPostgreSQL!Chunks, Chunks, FromPostgreSQL!Cardinality, Cardinality,
         FromPostgreSQL!Fault, Fault, FromPostgreSQL!envVars, envVars,
         FromPostgreSQL!runVars, runVars, FromPostgreSQL!taskVars, taskVars,
         FromPostgreSQL!tableVars, tableVars, FromPostgreSQL!RowsOf, RowsOf,
         FromPostgreSQL!FirstStep, FirstStep, FromPostgreSQL!NoBounds, NoBounds,
         FromPostgreSQL!EmptyTable, EmptyTable, FromPostgreSQL!NTilePlan, NTilePlan,
         FromPostgreSQL!Min, Min, FromPostgreSQL!Max, Max, FromPostgreSQL!ChunkCount,
         ChunkCount, FromPostgreSQL!Bounds, Bounds, FromPostgreSQL!TileEnd, TileEnd,
         FromPostgreSQL!NTileValue, NTileValue, FromPostgreSQL!ValueAt, ValueAt,
         FromPostgreSQL!ReportSyncMetrics

LEMMA FromPostgreSQLWrites ==
  ASSUME TypeOK, NEW n \in Chunks, FromPostgreSQL!UpsertBatch(n) \/ FromPostgreSQL!UpsertFails(n)
  PROVE  SqlWrites(n)
<1> DEFINE cleared == FromPostgreSQL!Cleared(n)
           merged  == FromPostgreSQL!Merged(n)
<1>1. target \in Table /\ batch[n] \in Table
  BY DEF TypeOK
<1>2. cleared = [k \in Keys |-> IF k \in Deleted(n) THEN NoRow ELSE target[k]]
  BY FromPostgreSQLLocks DEF FromPostgreSQL!Cleared, Without
<1>3. merged = [k \in Keys |-> IF batch[n][k] # NoRow THEN batch[n][k] ELSE cleared[k]]
  BY DEF FromPostgreSQL!Merged, FromPostgreSQL!Merge
<1> HIDE DEF cleared, merged
<1>4. cleared \in Table /\ merged \in Table
  BY <1>1, <1>2, <1>3 DEF Table
<1>5. ASSUME target' \in Possible(n, {merged}) PROVE WritesBatch(n) /\ HasBatch(n)
  BY <1>2, <1>3, <1>5 DEF Possible, WritesBatch, HasBatch, RowsOf
<1>6. ASSUME target' \in {target, cleared} PROVE WritesBatch(n)
  BY <1>2, <1>6 DEF WritesBatch
<1>7. CASE FromPostgreSQL!UpsertBatch(n)
  <2>1. CASE Upsert(n, {merged})
    BY <1>4, <1>5, <2>1 DEF SqlWrites, Upsert
  <2>2. CASE RejectUpsert(n, {cleared})
    BY <1>4, <1>6, <2>2 DEF SqlWrites, RejectUpsert, Possible
  <2> QED
    BY <1>7, <2>1, <2>2, FromPostgreSQLTasks
       DEF FromPostgreSQL!UpsertBatch, SqlWrites, cleared, merged
<1>8. CASE FromPostgreSQL!UpsertFails(n)
  <2> DEFINE tables == FromPostgreSQL!CleanupStagingTable(n)
  <2>1. tables = {target, cleared} \cup Possible(n, {merged})
    BY FromPostgreSQLLocks DEF FromPostgreSQL!CleanupStagingTable, cleared, merged
  <2>2. tables \in SUBSET Table
    BY <1>1, <1>4, <2>1 DEF Possible
  <2>3. target' \in tables \/ target' = target => WritesBatch(n)
    BY <1>5, <1>6, <2>1
  <2> HIDE DEF tables
  <2>4. WriteFails(n, tables, Without(target, Missing(n)))
    BY <1>8, FromPostgreSQLTasks DEF FromPostgreSQL!UpsertFails, tables
  <2>5. pc[n] = "insert" => WritesBatch(n)
    BY <2>3, <2>4, FailureEffects
  <2> QED
    BY <2>2, <2>4, <2>5 DEF SqlWrites
<1> QED
  BY <1>7, <1>8

LEMMA FromPostgreSQLSteps == ASSUME TypeOK, FromPostgreSQL!Next PROVE CommonStep
<1>1. config.direction = "postgresql_to_mssql"
  BY DEF FromPostgreSQL!Next, FromPostgreSQL!Here
<1>2. /\ ~ToMongo /\ ToSql
      /\ ~OfMongo /\ ~OfTable
  BY <1>1 DEF OfMongo, ToMongo, ToSql, OfTable
<1>3. ASSUME NEW n \in Chunks, FromPostgreSQL!CopyRows(n, TaskRange(n)) PROVE TaskStep(n)
  BY <1>2, <1>3, FromPostgreSQLTasks, FromPostgreSQLWrites
     DEF FromPostgreSQL!CopyRows, TaskStep
<1>4. ASSUME NEW n \in Chunks, FromPostgreSQL!FinalizeDeleteMissing(n) PROVE TaskStep(n)
  BY <1>2, <1>4, FromPostgreSQLTasks
     DEF FromPostgreSQL!FinalizeDeleteMissing, TaskStep, SqlWrites
<1>5. ASSUME NEW n \in Chunks, FromPostgreSQL!SyncDataChunk(n) PROVE TaskStep(n)
  <2>1. config.dynamic /\ TaskRange(n) = FromPostgreSQL!ChunkSource(n)
    BY <1>2, <1>5
       DEF FromPostgreSQL!SyncDataChunk, TaskRange, FromPostgreSQL!ChunkSource,
           FromPostgreSQL!RowsOf, RowsOf, FromPostgreSQL!InBounds, InBounds
  <2>2. FromPostgreSQL!FetchChunkDeleteScopeBounds(n) => FetchChunkBounds(n, ChunkScope(n))
    <3>1. FromPostgreSQL!ChunkSource(n) =
            {k \in RowsOf(source) : InBounds(config.chunkColumn, bounds[n], k)}
      BY DEF FromPostgreSQL!ChunkSource, FromPostgreSQL!RowsOf, RowsOf,
             FromPostgreSQL!InBounds, InBounds
    <3>2. \A column, keys : FromPostgreSQL!BoundsOf(column, keys) = BoundsOf(column, keys)
      BY DEF FromPostgreSQL!BoundsOf, BoundsOf, FromPostgreSQL!Bounds, Bounds,
             FromPostgreSQL!NoBounds, NoBounds, FromPostgreSQL!Min, Min, FromPostgreSQL!Max,
             Max
    <3> QED
      BY <1>2, <3>1, <3>2, FromPostgreSQLTasks
         DEF FromPostgreSQL!FetchChunkDeleteScopeBounds, ChunkScope
  <2> QED
    BY <1>3, <1>4, <1>5, <2>1, <2>2 DEF FromPostgreSQL!SyncDataChunk, TaskStep
<1>6. ASSUME NEW n \in Chunks, FromPostgreSQL!SyncData(n) PROVE TaskStep(n)
  <2>1. ~config.dynamic /\ TaskRange(n) = FromPostgreSQL!RowsOf(source)
    BY <1>6 DEF FromPostgreSQL!SyncData, TaskRange, FromPostgreSQL!RowsOf, RowsOf
  <2>2. FromPostgreSQL!FetchScopeBounds(n)
         => FetchBounds(n, BoundsOf(config.scopeColumn, RowsOf(source)))
    BY FromPostgreSQLTasks
       DEF FromPostgreSQL!FetchScopeBounds, FromPostgreSQL!RowsOf, RowsOf,
           FromPostgreSQL!BoundsOf, BoundsOf, FromPostgreSQL!Bounds, Bounds,
           FromPostgreSQL!NoBounds, NoBounds, FromPostgreSQL!Min, Min, FromPostgreSQL!Max,
           Max
  <2> QED
    BY <1>3, <1>4, <1>6, <2>1, <2>2, FromPostgreSQLTasks DEF FromPostgreSQL!SyncData, TaskStep
<1>7. ASSUME FromPostgreSQL!ValidateConnections \/ FromPostgreSQL!CreateSyncChunks
             \/ FromPostgreSQL!BeginTask \/ FromPostgreSQL!ReportSyncMetrics
             \/ FromPostgreSQL!EndRun
      PROVE  RunStep
  BY <1>2, <1>7, FromPostgreSQLRun, ConfigIsSound
     DEF FromPostgreSQL!ValidateConnections, FromPostgreSQL!CreateSyncChunks,
         FromPostgreSQL!PlanSyncChunks, FromPostgreSQL!ChunkPlan, RunStep, EndRun
<1>8. ASSUME NEW n \in Chunks, FromPostgreSQL!RetryTask(n) PROVE TaskStep(n)
  BY <1>8, FromPostgreSQLTasks DEF TaskStep
<1>9. FromPostgreSQL!Chunks = Chunks
  BY FromPostgreSQLRun
<1> QED
  BY <1>5, <1>6, <1>7, <1>8, <1>9
     DEF FromPostgreSQL!Next, FromPostgreSQL!CreateDag, FromPostgreSQL!SyncTask,
         FromPostgreSQL!SyncChunkTask, CommonStep

-----------------------------------------------------------------------------
(* ClickHouse to SQL Server *)

LEMMA FromClickHouseLocks ==
  ASSUME NEW n
  PROVE  /\ FromClickHouse!Deleted(n) = Deleted(n)
         /\ FromClickHouse!Late(n) = Late(n)
         /\ FromClickHouse!Duplicates(n) = Duplicates(n)
         /\ FromClickHouse!Missing(n) = Missing(n)
         /\ FromClickHouse!Waits(n) <=> Waits(n)
         /\ \A tables : FromClickHouse!Possible(n, tables) = Possible(n, tables)
         /\ \A table, rows : FromClickHouse!Conflicts(table, rows) = Conflicts(table, rows)
         /\ \A table, keys : FromClickHouse!Without(table, keys) = Without(table, keys)
  BY DEF FromClickHouse!Deleted, Deleted, FromClickHouse!Locked, Locked,
         FromClickHouse!Conflicts, Conflicts, FromClickHouse!Touched, Touched,
         FromClickHouse!Waits, Waits, FromClickHouse!Missing, Missing,
         FromClickHouse!InBounds, InBounds, FromClickHouse!Without, Without,
         FromClickHouse!Possible, Possible, FromClickHouse!UniqueIndexHolds,
         UniqueIndexHolds, FromClickHouse!Late, Late, FromClickHouse!Duplicates,
         Duplicates, FromClickHouse!RowsOf, RowsOf, FromClickHouse!Chunks, Chunks,
         FromClickHouse!Cardinality, Cardinality

LEMMA FromClickHouseTasks ==
  ASSUME NEW n
  PROVE  /\ \A b : /\ FromClickHouse!FetchBounds(n, b) <=> FetchBounds(n, b)
                   /\ FromClickHouse!FetchChunkBounds(n, b) <=> FetchChunkBounds(n, b)
         /\ FromClickHouse!CountRows(n) <=> CountRows(n)
         /\ \A rows : FromClickHouse!BeginStream(n, rows) <=> BeginStream(n, rows)
         /\ FromClickHouse!FetchBatch(n) <=> FetchBatch(n)
         /\ FromClickHouse!EndOfStream(n) <=> EndOfStream(n)
         /\ FromClickHouse!AppendKeysToStaging(n) <=> AppendKeys(n, {{}})
         /\ FromClickHouse!DropKeysStagingTable(n) <=> DropKeys(n)
         /\ FromClickHouse!ReadFails(n) <=> ReadFails(n)
         /\ FromClickHouse!RetryTask(n) <=> RetryTask(n)
         /\ FromClickHouse!DeleteUniqueKeyConflicts(n) <=> DeleteConflicts(n)
         /\ \A tables : /\ FromClickHouse!Upsert(n, tables) <=> Upsert(n, tables)
                        /\ FromClickHouse!RejectUpsert(n, tables) <=> RejectUpsert(n, tables)
         /\ FromClickHouse!DeadlockVictim(n) <=> DeadlockVictim(n)
         /\ FromClickHouse!LoseUpsert(n) <=> LoseUpsert(n)
         /\ FromClickHouse!DeleteMissingInScope(n) <=> DeleteMissing(n)
         /\ \A tables :
              FromClickHouse!WriteFails(n, tables,
                                        FromClickHouse!Without(target, FromClickHouse!Missing(n)))
                <=> WriteFails(n, tables, Without(target, Missing(n)))
  BY FromClickHouseLocks
     DEF FromClickHouse!Goto, Goto, FromClickHouse!FailTask, FailTask,
         FromClickHouse!IsTransient, IsTransient, FromClickHouse!Fault, Fault,
         FromClickHouse!envVars, envVars, FromClickHouse!runVars, runVars,
         FromClickHouse!taskVars, taskVars, FromClickHouse!tableVars, tableVars,
         FromClickHouse!RowsOf, RowsOf, FromClickHouse!AfterStream, AfterStream,
         FromClickHouse!FirstStep, FirstStep, FromClickHouse!Chunks, Chunks,
         FromClickHouse!NoBounds, NoBounds, FromClickHouse!EmptyTable, EmptyTable,
         FromClickHouse!Cardinality, Cardinality, FromClickHouse!CountRows, CountRows,
         FromClickHouse!BeginStream, BeginStream, FromClickHouse!FetchBatch, FetchBatch,
         FromClickHouse!NextRows, NextRows, FromClickHouse!Min, Min,
         FromClickHouse!EndOfStream, EndOfStream, FromClickHouse!AppendKeys, AppendKeys,
         FromClickHouse!AppendedKeys, AppendedKeys, FromClickHouse!ReadFails, ReadFails,
         FromClickHouse!RetryTask, RetryTask, FromClickHouse!FetchBounds, FetchBounds,
         FromClickHouse!FetchChunkBounds, FetchChunkBounds, FromClickHouse!DropKeys,
         DropKeys, FromClickHouse!DeleteConflicts, DeleteConflicts,
         FromClickHouse!EndUpsert, EndUpsert, FromClickHouse!Upsert, Upsert,
         FromClickHouse!RejectUpsert, RejectUpsert, FromClickHouse!DeadlockVictim,
         DeadlockVictim, FromClickHouse!LoseUpsert, LoseUpsert,
         FromClickHouse!DeleteMissing, DeleteMissing, FromClickHouse!WriteFails,
         WriteFails, FromClickHouse!AppendKeysToStaging,
         FromClickHouse!DropKeysStagingTable, FromClickHouse!DeleteMissingInScope,
         FromClickHouse!DeleteUniqueKeyConflicts

LEMMA FromClickHouseRun ==
  /\ \A versions : FromClickHouse!BeginRun(versions) <=> BeginRun(versions)
  /\ FromClickHouse!CountTotal <=> CountTotal
  /\ \A plan : FromClickHouse!ExpandChunks(plan) <=> ExpandChunks(plan)
  /\ FromClickHouse!NTilePlan(FALSE) = NTilePlan(FALSE)
  /\ FromClickHouse!BeginTask <=> BeginTask
  /\ FromClickHouse!GiveUpRun <=> GiveUpRun
  /\ FromClickHouse!ReportSyncMetrics <=> ReportRun(Transferred)
  /\ FromClickHouse!EndRun <=> EndRun
  /\ FromClickHouse!Chunks = Chunks
  BY DEF FromClickHouse!BeginRun, BeginRun, FromClickHouse!CountTotal, CountTotal,
         FromClickHouse!ExpandChunks, ExpandChunks, FromClickHouse!BeginTask, BeginTask,
         FromClickHouse!GiveUpRun, GiveUpRun, FromClickHouse!ReportRun, ReportRun,
         FromClickHouse!EndRun, EndRun, FromClickHouse!LeaveRun, LeaveRun,
         FromClickHouse!Transferred, Transferred, FromClickHouse!MapThenSumSet,
         MapThenSumSet, FromClickHouse!MapThenFoldSet, MapThenFoldSet,
         FromClickHouse!Chunks, Chunks, FromClickHouse!Cardinality, Cardinality,
         FromClickHouse!Fault, Fault, FromClickHouse!envVars, envVars,
         FromClickHouse!runVars, runVars, FromClickHouse!taskVars, taskVars,
         FromClickHouse!tableVars, tableVars, FromClickHouse!RowsOf, RowsOf,
         FromClickHouse!FirstStep, FirstStep, FromClickHouse!NoBounds, NoBounds,
         FromClickHouse!EmptyTable, EmptyTable, FromClickHouse!NTilePlan, NTilePlan,
         FromClickHouse!Min, Min, FromClickHouse!Max, Max, FromClickHouse!ChunkCount,
         ChunkCount, FromClickHouse!Bounds, Bounds, FromClickHouse!TileEnd, TileEnd,
         FromClickHouse!NTileValue, NTileValue, FromClickHouse!ValueAt, ValueAt,
         FromClickHouse!ReportSyncMetrics

LEMMA FromClickHouseWrites ==
  ASSUME TypeOK, NEW n \in Chunks, FromClickHouse!UpsertBatch(n) \/ FromClickHouse!UpsertFails(n)
  PROVE  SqlWrites(n)
<1> DEFINE cleared == FromClickHouse!Cleared(n)
           merged  == FromClickHouse!Merged(n)
<1>1. target \in Table /\ batch[n] \in Table
  BY DEF TypeOK
<1>2. cleared = [k \in Keys |-> IF k \in Deleted(n) THEN NoRow ELSE target[k]]
  BY FromClickHouseLocks DEF FromClickHouse!Cleared, Without
<1>3. merged = [k \in Keys |-> IF batch[n][k] # NoRow THEN batch[n][k] ELSE cleared[k]]
  BY DEF FromClickHouse!Merged, FromClickHouse!Merge
<1> HIDE DEF cleared, merged
<1>4. cleared \in Table /\ merged \in Table
  BY <1>1, <1>2, <1>3 DEF Table
<1>5. ASSUME target' \in Possible(n, {merged}) PROVE WritesBatch(n) /\ HasBatch(n)
  BY <1>2, <1>3, <1>5 DEF Possible, WritesBatch, HasBatch, RowsOf
<1>6. ASSUME target' \in {target, cleared} PROVE WritesBatch(n)
  BY <1>2, <1>6 DEF WritesBatch
<1>7. CASE FromClickHouse!UpsertBatch(n)
  <2>1. CASE Upsert(n, {merged})
    BY <1>4, <1>5, <2>1 DEF SqlWrites, Upsert
  <2>2. CASE RejectUpsert(n, {cleared})
    BY <1>4, <1>6, <2>2 DEF SqlWrites, RejectUpsert, Possible
  <2> QED
    BY <1>7, <2>1, <2>2, FromClickHouseTasks
       DEF FromClickHouse!UpsertBatch, SqlWrites, cleared, merged
<1>8. CASE FromClickHouse!UpsertFails(n)
  <2> DEFINE tables == FromClickHouse!CleanupStagingTable(n)
  <2>1. tables = {target, cleared} \cup Possible(n, {merged})
    BY FromClickHouseLocks DEF FromClickHouse!CleanupStagingTable, cleared, merged
  <2>2. tables \in SUBSET Table
    BY <1>1, <1>4, <2>1 DEF Possible
  <2>3. target' \in tables \/ target' = target => WritesBatch(n)
    BY <1>5, <1>6, <2>1
  <2> HIDE DEF tables
  <2>4. WriteFails(n, tables, Without(target, Missing(n)))
    BY <1>8, FromClickHouseTasks DEF FromClickHouse!UpsertFails, tables
  <2>5. pc[n] = "insert" => WritesBatch(n)
    BY <2>3, <2>4, FailureEffects
  <2> QED
    BY <2>2, <2>4, <2>5 DEF SqlWrites
<1> QED
  BY <1>7, <1>8

LEMMA FromClickHouseSteps == ASSUME TypeOK, FromClickHouse!Next PROVE CommonStep
<1>1. config.direction = "clickhouse_to_mssql"
  BY DEF FromClickHouse!Next, FromClickHouse!Here
<1>2. /\ ~ToMongo /\ ToSql
      /\ ~OfMongo /\ ~OfTable
  BY <1>1 DEF OfMongo, ToMongo, ToSql, OfTable
<1>3. ASSUME NEW n \in Chunks, FromClickHouse!CopyRows(n, TaskRange(n)) PROVE TaskStep(n)
  BY <1>2, <1>3, FromClickHouseTasks, FromClickHouseWrites
     DEF FromClickHouse!CopyRows, TaskStep
<1>4. ASSUME NEW n \in Chunks, FromClickHouse!FinalizeDeleteMissing(n) PROVE TaskStep(n)
  BY <1>2, <1>4, FromClickHouseTasks
     DEF FromClickHouse!FinalizeDeleteMissing, TaskStep, SqlWrites
<1>5. ASSUME NEW n \in Chunks, FromClickHouse!SyncDataChunk(n) PROVE TaskStep(n)
  <2>1. config.dynamic /\ TaskRange(n) = FromClickHouse!ChunkSource(n)
    BY <1>2, <1>5
       DEF FromClickHouse!SyncDataChunk, TaskRange, FromClickHouse!ChunkSource,
           FromClickHouse!RowsOf, RowsOf, FromClickHouse!InBounds, InBounds
  <2>2. FromClickHouse!FetchChunkDeleteScopeBounds(n) => FetchChunkBounds(n, ChunkScope(n))
    <3>1. FromClickHouse!ChunkSource(n) =
            {k \in RowsOf(source) : InBounds(config.chunkColumn, bounds[n], k)}
      BY DEF FromClickHouse!ChunkSource, FromClickHouse!RowsOf, RowsOf,
             FromClickHouse!InBounds, InBounds
    <3>2. \A column, keys : FromClickHouse!BoundsOf(column, keys) = BoundsOf(column, keys)
      BY DEF FromClickHouse!BoundsOf, BoundsOf, FromClickHouse!Bounds, Bounds,
             FromClickHouse!NoBounds, NoBounds, FromClickHouse!Min, Min, FromClickHouse!Max,
             Max
    <3> QED
      BY <1>2, <3>1, <3>2, FromClickHouseTasks
         DEF FromClickHouse!FetchChunkDeleteScopeBounds, ChunkScope
  <2> QED
    BY <1>3, <1>4, <1>5, <2>1, <2>2 DEF FromClickHouse!SyncDataChunk, TaskStep
<1>6. ASSUME NEW n \in Chunks, FromClickHouse!SyncData(n) PROVE TaskStep(n)
  <2>1. ~config.dynamic /\ TaskRange(n) = FromClickHouse!RowsOf(source)
    BY <1>6 DEF FromClickHouse!SyncData, TaskRange, FromClickHouse!RowsOf, RowsOf
  <2>2. FromClickHouse!FetchScopeBounds(n)
         => FetchBounds(n, BoundsOf(config.scopeColumn, RowsOf(source)))
    BY FromClickHouseTasks
       DEF FromClickHouse!FetchScopeBounds, FromClickHouse!RowsOf, RowsOf,
           FromClickHouse!BoundsOf, BoundsOf, FromClickHouse!Bounds, Bounds,
           FromClickHouse!NoBounds, NoBounds, FromClickHouse!Min, Min, FromClickHouse!Max,
           Max
  <2> QED
    BY <1>3, <1>4, <1>6, <2>1, <2>2, FromClickHouseTasks DEF FromClickHouse!SyncData, TaskStep
<1>7. ASSUME FromClickHouse!ValidateConnections \/ FromClickHouse!CreateSyncChunks
             \/ FromClickHouse!BeginTask \/ FromClickHouse!ReportSyncMetrics
             \/ FromClickHouse!EndRun
      PROVE  RunStep
  BY <1>2, <1>7, FromClickHouseRun, ConfigIsSound
     DEF FromClickHouse!ValidateConnections, FromClickHouse!CreateSyncChunks,
         FromClickHouse!PlanSyncChunks, FromClickHouse!ChunkPlan, RunStep, EndRun
<1>8. ASSUME NEW n \in Chunks, FromClickHouse!RetryTask(n) PROVE TaskStep(n)
  BY <1>8, FromClickHouseTasks DEF TaskStep
<1>9. FromClickHouse!Chunks = Chunks
  BY FromClickHouseRun
<1> QED
  BY <1>5, <1>6, <1>7, <1>8, <1>9
     DEF FromClickHouse!Next, FromClickHouse!CreateDag, FromClickHouse!SyncTask,
         FromClickHouse!SyncChunkTask, CommonStep

-----------------------------------------------------------------------------
(* MongoDB to SQL Server *)

LEMMA FromMongoDBLocks ==
  ASSUME NEW n
  PROVE  /\ FromMongoDB!Deleted(n) = Deleted(n)
         /\ FromMongoDB!Late(n) = Late(n)
         /\ FromMongoDB!Duplicates(n) = Duplicates(n)
         /\ FromMongoDB!Missing(n) = Missing(n)
         /\ FromMongoDB!Waits(n) <=> Waits(n)
         /\ \A tables : FromMongoDB!Possible(n, tables) = Possible(n, tables)
         /\ \A table, rows : FromMongoDB!Conflicts(table, rows) = Conflicts(table, rows)
         /\ \A table, keys : FromMongoDB!Without(table, keys) = Without(table, keys)
  BY DEF FromMongoDB!Deleted, Deleted, FromMongoDB!Locked, Locked,
         FromMongoDB!Conflicts, Conflicts, FromMongoDB!Touched, Touched,
         FromMongoDB!Waits, Waits, FromMongoDB!Missing, Missing, FromMongoDB!InBounds,
         InBounds, FromMongoDB!Without, Without, FromMongoDB!Possible, Possible,
         FromMongoDB!UniqueIndexHolds, UniqueIndexHolds, FromMongoDB!Late, Late,
         FromMongoDB!Duplicates, Duplicates, FromMongoDB!RowsOf, RowsOf,
         FromMongoDB!Chunks, Chunks, FromMongoDB!Cardinality, Cardinality

LEMMA FromMongoDBTasks ==
  ASSUME NEW n
  PROVE  /\ \A b : /\ FromMongoDB!FetchBounds(n, b) <=> FetchBounds(n, b)
                   /\ FromMongoDB!FetchChunkBounds(n, b) <=> FetchChunkBounds(n, b)
         /\ FromMongoDB!CountRows(n) <=> CountRows(n)
         /\ \A rows : FromMongoDB!BeginStream(n, rows) <=> BeginStream(n, rows)
         /\ FromMongoDB!FetchBatch(n) <=> FetchBatch(n)
         /\ FromMongoDB!EndOfStream(n) <=> EndOfStream(n)
         /\ FromMongoDB!AppendKeysToStaging(n) <=> AppendKeys(n, {{}})
         /\ FromMongoDB!DropKeysStagingTable(n) <=> DropKeys(n)
         /\ FromMongoDB!ReadFails(n) <=> ReadFails(n)
         /\ FromMongoDB!RetryTask(n) <=> RetryTask(n)
         /\ FromMongoDB!DeleteUniqueKeyConflicts(n) <=> DeleteConflicts(n)
         /\ \A tables : /\ FromMongoDB!Upsert(n, tables) <=> Upsert(n, tables)
                        /\ FromMongoDB!RejectUpsert(n, tables) <=> RejectUpsert(n, tables)
         /\ FromMongoDB!DeadlockVictim(n) <=> DeadlockVictim(n)
         /\ FromMongoDB!LoseUpsert(n) <=> LoseUpsert(n)
         /\ FromMongoDB!DeleteMissingInScope(n) <=> DeleteMissing(n)
         /\ \A tables :
              FromMongoDB!WriteFails(n, tables,
                                     FromMongoDB!Without(target, FromMongoDB!Missing(n)))
                <=> WriteFails(n, tables, Without(target, Missing(n)))
  BY FromMongoDBLocks
     DEF FromMongoDB!Goto, Goto, FromMongoDB!FailTask, FailTask,
         FromMongoDB!IsTransient, IsTransient, FromMongoDB!Fault, Fault,
         FromMongoDB!envVars, envVars, FromMongoDB!runVars, runVars,
         FromMongoDB!taskVars, taskVars, FromMongoDB!tableVars, tableVars,
         FromMongoDB!RowsOf, RowsOf, FromMongoDB!AfterStream, AfterStream,
         FromMongoDB!FirstStep, FirstStep, FromMongoDB!Chunks, Chunks,
         FromMongoDB!NoBounds, NoBounds, FromMongoDB!EmptyTable, EmptyTable,
         FromMongoDB!Cardinality, Cardinality, FromMongoDB!CountRows, CountRows,
         FromMongoDB!BeginStream, BeginStream, FromMongoDB!FetchBatch, FetchBatch,
         FromMongoDB!NextRows, NextRows, FromMongoDB!Min, Min, FromMongoDB!EndOfStream,
         EndOfStream, FromMongoDB!AppendKeys, AppendKeys, FromMongoDB!AppendedKeys,
         AppendedKeys, FromMongoDB!ReadFails, ReadFails, FromMongoDB!RetryTask,
         RetryTask, FromMongoDB!FetchBounds, FetchBounds, FromMongoDB!FetchChunkBounds,
         FetchChunkBounds, FromMongoDB!DropKeys, DropKeys, FromMongoDB!DeleteConflicts,
         DeleteConflicts, FromMongoDB!EndUpsert, EndUpsert, FromMongoDB!Upsert, Upsert,
         FromMongoDB!RejectUpsert, RejectUpsert, FromMongoDB!DeadlockVictim,
         DeadlockVictim, FromMongoDB!LoseUpsert, LoseUpsert, FromMongoDB!DeleteMissing,
         DeleteMissing, FromMongoDB!WriteFails, WriteFails,
         FromMongoDB!AppendKeysToStaging, FromMongoDB!DropKeysStagingTable,
         FromMongoDB!DeleteMissingInScope, FromMongoDB!DeleteUniqueKeyConflicts

LEMMA FromMongoDBRun ==
  /\ \A versions : FromMongoDB!BeginRun(versions) <=> BeginRun(versions)
  /\ FromMongoDB!CountTotal <=> CountTotal
  /\ \A plan : FromMongoDB!ExpandChunks(plan) <=> ExpandChunks(plan)
  /\ FromMongoDB!BucketPlans = BucketPlans
  /\ FromMongoDB!BeginTask <=> BeginTask
  /\ FromMongoDB!GiveUpRun <=> GiveUpRun
  /\ FromMongoDB!ReportSyncMetrics <=> ReportRun(Transferred)
  /\ FromMongoDB!EndRun <=> EndRun
  /\ FromMongoDB!Chunks = Chunks
  BY DEF FromMongoDB!BeginRun, BeginRun, FromMongoDB!CountTotal, CountTotal,
         FromMongoDB!ExpandChunks, ExpandChunks, FromMongoDB!BeginTask, BeginTask,
         FromMongoDB!GiveUpRun, GiveUpRun, FromMongoDB!ReportRun, ReportRun,
         FromMongoDB!EndRun, EndRun, FromMongoDB!LeaveRun, LeaveRun,
         FromMongoDB!Transferred, Transferred, FromMongoDB!MapThenSumSet, MapThenSumSet,
         FromMongoDB!MapThenFoldSet, MapThenFoldSet, FromMongoDB!Chunks, Chunks,
         FromMongoDB!Cardinality, Cardinality, FromMongoDB!Fault, Fault,
         FromMongoDB!envVars, envVars, FromMongoDB!runVars, runVars,
         FromMongoDB!taskVars, taskVars, FromMongoDB!tableVars, tableVars,
         FromMongoDB!RowsOf, RowsOf, FromMongoDB!FirstStep, FirstStep,
         FromMongoDB!NoBounds, NoBounds, FromMongoDB!EmptyTable, EmptyTable,
         FromMongoDB!BucketPlans, BucketPlans, FromMongoDB!Buckets, Buckets,
         FromMongoDB!NthValue, NthValue, FromMongoDB!Before, Before,
         FromMongoDB!Precedes, Precedes, FromMongoDB!ChunkCount, ChunkCount,
         FromMongoDB!ReportSyncMetrics

LEMMA FromMongoDBWrites ==
  ASSUME TypeOK, NEW n \in Chunks, FromMongoDB!UpsertBatch(n) \/ FromMongoDB!UpsertFails(n)
  PROVE  SqlWrites(n)
<1> DEFINE cleared == FromMongoDB!Cleared(n)
           merged  == FromMongoDB!Merged(n)
<1>1. target \in Table /\ batch[n] \in Table
  BY DEF TypeOK
<1>2. cleared = [k \in Keys |-> IF k \in Deleted(n) THEN NoRow ELSE target[k]]
  BY FromMongoDBLocks DEF FromMongoDB!Cleared, Without
<1>3. merged = [k \in Keys |-> IF batch[n][k] # NoRow THEN batch[n][k] ELSE cleared[k]]
  BY DEF FromMongoDB!Merged, FromMongoDB!Merge
<1> HIDE DEF cleared, merged
<1>4. cleared \in Table /\ merged \in Table
  BY <1>1, <1>2, <1>3 DEF Table
<1>5. ASSUME target' \in Possible(n, {merged}) PROVE WritesBatch(n) /\ HasBatch(n)
  BY <1>2, <1>3, <1>5 DEF Possible, WritesBatch, HasBatch, RowsOf
<1>6. ASSUME target' \in {target, cleared} PROVE WritesBatch(n)
  BY <1>2, <1>6 DEF WritesBatch
<1>7. CASE FromMongoDB!UpsertBatch(n)
  <2>1. CASE Upsert(n, {merged})
    BY <1>4, <1>5, <2>1 DEF SqlWrites, Upsert
  <2>2. CASE RejectUpsert(n, {cleared})
    BY <1>4, <1>6, <2>2 DEF SqlWrites, RejectUpsert, Possible
  <2> QED
    BY <1>7, <2>1, <2>2, FromMongoDBTasks
       DEF FromMongoDB!UpsertBatch, SqlWrites, cleared, merged
<1>8. CASE FromMongoDB!UpsertFails(n)
  <2> DEFINE tables == FromMongoDB!CleanupStagingTable(n)
  <2>1. tables = {target, cleared} \cup Possible(n, {merged})
    BY FromMongoDBLocks DEF FromMongoDB!CleanupStagingTable, cleared, merged
  <2>2. tables \in SUBSET Table
    BY <1>1, <1>4, <2>1 DEF Possible
  <2>3. target' \in tables \/ target' = target => WritesBatch(n)
    BY <1>5, <1>6, <2>1
  <2> HIDE DEF tables
  <2>4. WriteFails(n, tables, Without(target, Missing(n)))
    BY <1>8, FromMongoDBTasks DEF FromMongoDB!UpsertFails, tables
  <2>5. pc[n] = "insert" => WritesBatch(n)
    BY <2>3, <2>4, FailureEffects
  <2> QED
    BY <2>2, <2>4, <2>5 DEF SqlWrites
<1> QED
  BY <1>7, <1>8

LEMMA FromMongoDBSteps == ASSUME TypeOK, FromMongoDB!Next PROVE CommonStep
<1>1. config.direction = "mongo_to_mssql"
  BY DEF FromMongoDB!Next, FromMongoDB!Here
<1>2. /\ ~ToMongo /\ ToSql
      /\ OfMongo /\ ~OfTable
  BY <1>1 DEF OfMongo, ToMongo, ToSql, OfTable
<1>3. ASSUME NEW n \in Chunks, FromMongoDB!CopyRows(n, TaskRange(n)) PROVE TaskStep(n)
  BY <1>2, <1>3, FromMongoDBTasks, FromMongoDBWrites DEF FromMongoDB!CopyRows, TaskStep
<1>4. ASSUME NEW n \in Chunks, FromMongoDB!FinalizeDeleteMissing(n) PROVE TaskStep(n)
  BY <1>2, <1>4, FromMongoDBTasks DEF FromMongoDB!FinalizeDeleteMissing, TaskStep, SqlWrites
<1>5. ASSUME NEW n \in Chunks, FromMongoDB!SyncDataChunk(n) PROVE TaskStep(n)
  <2>1. config.dynamic /\ TaskRange(n) = FromMongoDB!StreamRange(n)
    BY <1>2, <1>5
       DEF FromMongoDB!SyncDataChunk, TaskRange, FromMongoDB!StreamRange,
           FromMongoDB!RowsOf, RowsOf, FromMongoDB!InBounds, InBounds
  <2>2. FromMongoDB!UseChunkBounds(n) => FetchChunkBounds(n, ChunkScope(n))
    BY <1>2, FromMongoDBTasks DEF FromMongoDB!UseChunkBounds, ChunkScope
  <2> QED
    BY <1>3, <1>4, <1>5, <2>1, <2>2 DEF FromMongoDB!SyncDataChunk, TaskStep
<1>6. ASSUME NEW n \in Chunks, FromMongoDB!SyncData(n) PROVE TaskStep(n)
  <2>1. ~config.dynamic /\ TaskRange(n) = FromMongoDB!RowsOf(source)
    BY <1>6 DEF FromMongoDB!SyncData, TaskRange, FromMongoDB!RowsOf, RowsOf
  <2>2. FromMongoDB!FetchScopeBounds(n)
         => FetchBounds(n, BoundsOf(config.scopeColumn, RowsOf(source)))
    BY FromMongoDBTasks
       DEF FromMongoDB!FetchScopeBounds, FromMongoDB!RowsOf, RowsOf, FromMongoDB!BoundsOf,
           BoundsOf, FromMongoDB!Bounds, Bounds, FromMongoDB!NoBounds, NoBounds,
           FromMongoDB!Min, Min, FromMongoDB!Max, Max
  <2> QED
    BY <1>3, <1>4, <1>6, <2>1, <2>2, FromMongoDBTasks DEF FromMongoDB!SyncData, TaskStep
<1>7. ASSUME FromMongoDB!ValidateConnections \/ FromMongoDB!CreateSyncChunks
             \/ FromMongoDB!BeginTask \/ FromMongoDB!ReportSyncMetrics \/ FromMongoDB!EndRun
      PROVE  RunStep
  BY <1>2, <1>7, FromMongoDBRun, ConfigIsSound
     DEF FromMongoDB!ValidateConnections, FromMongoDB!CreateSyncChunks,
         FromMongoDB!PlanSyncChunks, FromMongoDB!PlanBucketChunks, RunStep, EndRun
<1>8. ASSUME NEW n \in Chunks, FromMongoDB!RetryTask(n) PROVE TaskStep(n)
  BY <1>8, FromMongoDBTasks DEF TaskStep
<1>9. FromMongoDB!Chunks = Chunks
  BY FromMongoDBRun
<1> QED
  BY <1>5, <1>6, <1>7, <1>8, <1>9
     DEF FromMongoDB!Next, FromMongoDB!CreateDag, FromMongoDB!SyncTask,
         FromMongoDB!SyncChunkTask, CommonStep

-----------------------------------------------------------------------------
(* Headquarters to a store *)

LEMMA ToStoreLocks ==
  ASSUME NEW n
  PROVE  /\ ToStore!Deleted(n) = Deleted(n)
         /\ ToStore!Late(n) = Late(n)
         /\ ToStore!Duplicates(n) = Duplicates(n)
         /\ ToStore!Missing(n) = Missing(n)
         /\ ToStore!Waits(n) <=> Waits(n)
         /\ \A tables : ToStore!Possible(n, tables) = Possible(n, tables)
         /\ \A table, rows : ToStore!Conflicts(table, rows) = Conflicts(table, rows)
         /\ \A table, keys : ToStore!Without(table, keys) = Without(table, keys)
  BY DEF ToStore!Deleted, Deleted, ToStore!Locked, Locked, ToStore!Conflicts, Conflicts,
         ToStore!Touched, Touched, ToStore!Waits, Waits, ToStore!Missing, Missing,
         ToStore!InBounds, InBounds, ToStore!Without, Without, ToStore!Possible,
         Possible, ToStore!UniqueIndexHolds, UniqueIndexHolds, ToStore!Late, Late,
         ToStore!Duplicates, Duplicates, ToStore!RowsOf, RowsOf, ToStore!Chunks, Chunks,
         ToStore!Cardinality, Cardinality

LEMMA ToStoreTasks ==
  ASSUME NEW n
  PROVE  /\ \A b : /\ ToStore!FetchBounds(n, b) <=> FetchBounds(n, b)
                   /\ ToStore!FetchChunkBounds(n, b) <=> FetchChunkBounds(n, b)
         /\ ToStore!CountRows(n) <=> CountRows(n)
         /\ \A rows : ToStore!BeginStream(n, rows) <=> BeginStream(n, rows)
         /\ ToStore!FetchBatch(n) <=> FetchBatch(n)
         /\ ToStore!EndOfStream(n) <=> EndOfStream(n)
         /\ ToStore!AppendKeysToStaging(n) <=> AppendKeys(n, {{}})
         /\ ToStore!DropKeysStagingTable(n) <=> DropKeys(n)
         /\ ToStore!ReadFails(n) <=> ReadFails(n)
         /\ ToStore!RetryTask(n) <=> RetryTask(n)
         /\ ToStore!DeleteUniqueKeyConflicts(n) <=> DeleteConflicts(n)
         /\ \A tables : /\ ToStore!Upsert(n, tables) <=> Upsert(n, tables)
                        /\ ToStore!RejectUpsert(n, tables) <=> RejectUpsert(n, tables)
         /\ ToStore!DeadlockVictim(n) <=> DeadlockVictim(n)
         /\ ToStore!LoseUpsert(n) <=> LoseUpsert(n)
         /\ ToStore!DeleteMissingInScope(n) <=> DeleteMissing(n)
         /\ \A tables :
              ToStore!WriteFails(n, tables, ToStore!Without(target, ToStore!Missing(n)))
                <=> WriteFails(n, tables, Without(target, Missing(n)))
  BY ToStoreLocks
     DEF ToStore!Goto, Goto, ToStore!FailTask, FailTask, ToStore!IsTransient,
         IsTransient, ToStore!Fault, Fault, ToStore!envVars, envVars, ToStore!runVars,
         runVars, ToStore!taskVars, taskVars, ToStore!tableVars, tableVars,
         ToStore!RowsOf, RowsOf, ToStore!AfterStream, AfterStream, ToStore!FirstStep,
         FirstStep, ToStore!Chunks, Chunks, ToStore!NoBounds, NoBounds,
         ToStore!EmptyTable, EmptyTable, ToStore!Cardinality, Cardinality,
         ToStore!CountRows, CountRows, ToStore!BeginStream, BeginStream,
         ToStore!FetchBatch, FetchBatch, ToStore!NextRows, NextRows, ToStore!Min, Min,
         ToStore!EndOfStream, EndOfStream, ToStore!AppendKeys, AppendKeys,
         ToStore!AppendedKeys, AppendedKeys, ToStore!ReadFails, ReadFails,
         ToStore!RetryTask, RetryTask, ToStore!FetchBounds, FetchBounds,
         ToStore!FetchChunkBounds, FetchChunkBounds, ToStore!DropKeys, DropKeys,
         ToStore!DeleteConflicts, DeleteConflicts, ToStore!EndUpsert, EndUpsert,
         ToStore!Upsert, Upsert, ToStore!RejectUpsert, RejectUpsert,
         ToStore!DeadlockVictim, DeadlockVictim, ToStore!LoseUpsert, LoseUpsert,
         ToStore!DeleteMissing, DeleteMissing, ToStore!WriteFails, WriteFails,
         ToStore!AppendKeysToStaging, ToStore!DropKeysStagingTable,
         ToStore!DeleteMissingInScope, ToStore!DeleteUniqueKeyConflicts

LEMMA ToStoreRun ==
  /\ \A versions : ToStore!BeginRun(versions) <=> BeginRun(versions)
  /\ ToStore!CountTotal <=> CountTotal
  /\ \A plan : ToStore!ExpandChunks(plan) <=> ExpandChunks(plan)
  /\ ToStore!NTilePlan(TRUE) = NTilePlan(TRUE)
  /\ ToStore!BeginTask <=> BeginTask
  /\ ToStore!GiveUpRun <=> GiveUpRun
  /\ ToStore!ReportSyncMetrics <=> ReportRun(Transferred)
  /\ ToStore!EndRun <=> EndRun
  /\ ToStore!Chunks = Chunks
  BY DEF ToStore!BeginRun, BeginRun, ToStore!CountTotal, CountTotal,
         ToStore!ExpandChunks, ExpandChunks, ToStore!BeginTask, BeginTask,
         ToStore!GiveUpRun, GiveUpRun, ToStore!ReportRun, ReportRun, ToStore!EndRun,
         EndRun, ToStore!LeaveRun, LeaveRun, ToStore!Transferred, Transferred,
         ToStore!MapThenSumSet, MapThenSumSet, ToStore!MapThenFoldSet, MapThenFoldSet,
         ToStore!Chunks, Chunks, ToStore!Cardinality, Cardinality, ToStore!Fault, Fault,
         ToStore!envVars, envVars, ToStore!runVars, runVars, ToStore!taskVars, taskVars,
         ToStore!tableVars, tableVars, ToStore!RowsOf, RowsOf, ToStore!FirstStep,
         FirstStep, ToStore!NoBounds, NoBounds, ToStore!EmptyTable, EmptyTable,
         ToStore!NTilePlan, NTilePlan, ToStore!Min, Min, ToStore!Max, Max,
         ToStore!ChunkCount, ChunkCount, ToStore!Bounds, Bounds, ToStore!TileEnd,
         TileEnd, ToStore!NTileValue, NTileValue, ToStore!ValueAt, ValueAt,
         ToStore!ReportSyncMetrics

LEMMA ToStoreWrites ==
  ASSUME TypeOK, NEW n \in Chunks, ToStore!UpsertBatch(n) \/ ToStore!UpsertFails(n)
  PROVE  SqlWrites(n)
<1> DEFINE cleared == ToStore!Cleared(n)
           merged  == ToStore!Merged(n)
<1>1. target \in Table /\ batch[n] \in Table
  BY DEF TypeOK
<1>2. cleared = [k \in Keys |-> IF k \in Deleted(n) THEN NoRow ELSE target[k]]
  BY ToStoreLocks DEF ToStore!Cleared, Without
<1>3. merged = [k \in Keys |-> IF batch[n][k] # NoRow THEN batch[n][k] ELSE cleared[k]]
  BY DEF ToStore!Merged, ToStore!Merge
<1> HIDE DEF cleared, merged
<1>4. cleared \in Table /\ merged \in Table
  BY <1>1, <1>2, <1>3 DEF Table
<1>5. ASSUME target' \in Possible(n, {merged}) PROVE WritesBatch(n) /\ HasBatch(n)
  BY <1>2, <1>3, <1>5 DEF Possible, WritesBatch, HasBatch, RowsOf
<1>6. ASSUME target' \in {target, cleared} PROVE WritesBatch(n)
  BY <1>2, <1>6 DEF WritesBatch
<1>7. CASE ToStore!UpsertBatch(n)
  <2>1. CASE Upsert(n, {merged})
    BY <1>4, <1>5, <2>1 DEF SqlWrites, Upsert
  <2>2. CASE RejectUpsert(n, {cleared})
    BY <1>4, <1>6, <2>2 DEF SqlWrites, RejectUpsert, Possible
  <2> QED
    BY <1>7, <2>1, <2>2, ToStoreTasks DEF ToStore!UpsertBatch, SqlWrites, cleared, merged
<1>8. CASE ToStore!UpsertFails(n)
  <2> DEFINE tables == ToStore!CleanupStagingTable(n)
  <2>1. tables = {target, cleared} \cup Possible(n, {merged})
    BY ToStoreLocks DEF ToStore!CleanupStagingTable, cleared, merged
  <2>2. tables \in SUBSET Table
    BY <1>1, <1>4, <2>1 DEF Possible
  <2>3. target' \in tables \/ target' = target => WritesBatch(n)
    BY <1>5, <1>6, <2>1
  <2> HIDE DEF tables
  <2>4. WriteFails(n, tables, Without(target, Missing(n)))
    BY <1>8, ToStoreTasks DEF ToStore!UpsertFails, tables
  <2>5. pc[n] = "insert" => WritesBatch(n)
    BY <2>3, <2>4, FailureEffects
  <2> QED
    BY <2>2, <2>4, <2>5 DEF SqlWrites
<1> QED
  BY <1>7, <1>8

LEMMA ToStoreSteps == ASSUME TypeOK, ToStore!Next PROVE CommonStep
<1>1. config.direction = "masterdata_to_store"
  BY DEF ToStore!Next, ToStore!Here
<1>2. /\ ~ToMongo /\ ToSql
      /\ ~OfMongo /\ ~OfTable
  BY <1>1 DEF OfMongo, ToMongo, ToSql, OfTable
<1>3. ASSUME NEW n \in Chunks, ToStore!CopyRows(n, TaskRange(n)) PROVE TaskStep(n)
  BY <1>2, <1>3, ToStoreTasks, ToStoreWrites DEF ToStore!CopyRows, TaskStep
<1>4. ASSUME NEW n \in Chunks, ToStore!FinalizeDeleteMissing(n) PROVE TaskStep(n)
  BY <1>2, <1>4, ToStoreTasks DEF ToStore!FinalizeDeleteMissing, TaskStep, SqlWrites
<1>5. ASSUME NEW n \in Chunks, ToStore!SyncDataChunk(n) PROVE TaskStep(n)
  <2>1. config.dynamic /\ TaskRange(n) = ToStore!ChunkSource(n)
    BY <1>2, <1>5
       DEF ToStore!SyncDataChunk, TaskRange, ToStore!ChunkSource, ToStore!RowsOf, RowsOf,
           ToStore!InBounds, InBounds
  <2>2. ToStore!FetchChunkDeleteScopeBounds(n) => FetchChunkBounds(n, ChunkScope(n))
    <3>1. ToStore!ChunkSource(n) =
            {k \in RowsOf(source) : InBounds(config.chunkColumn, bounds[n], k)}
      BY DEF ToStore!ChunkSource, ToStore!RowsOf, RowsOf, ToStore!InBounds, InBounds
    <3>2. \A column, keys : ToStore!BoundsOf(column, keys) = BoundsOf(column, keys)
      BY DEF ToStore!BoundsOf, BoundsOf, ToStore!Bounds, Bounds, ToStore!NoBounds,
             NoBounds, ToStore!Min, Min, ToStore!Max, Max
    <3> QED
      BY <1>2, <3>1, <3>2, ToStoreTasks
         DEF ToStore!FetchChunkDeleteScopeBounds, ChunkScope
  <2> QED
    BY <1>3, <1>4, <1>5, <2>1, <2>2 DEF ToStore!SyncDataChunk, TaskStep
<1>6. ASSUME NEW n \in Chunks, ToStore!SyncData(n) PROVE TaskStep(n)
  <2>1. ~config.dynamic /\ TaskRange(n) = ToStore!RowsOf(source)
    BY <1>6 DEF ToStore!SyncData, TaskRange, ToStore!RowsOf, RowsOf
  <2>2. ToStore!FetchScopeBounds(n)
         => FetchBounds(n, BoundsOf(config.scopeColumn, RowsOf(source)))
    BY ToStoreTasks
       DEF ToStore!FetchScopeBounds, ToStore!RowsOf, RowsOf, ToStore!BoundsOf, BoundsOf,
           ToStore!Bounds, Bounds, ToStore!NoBounds, NoBounds, ToStore!Min, Min,
           ToStore!Max, Max
  <2> QED
    BY <1>3, <1>4, <1>6, <2>1, <2>2, ToStoreTasks DEF ToStore!SyncData, TaskStep
<1>7. ASSUME ToStore!ValidateConnections \/ ToStore!FetchStoreServerConnection
             \/ ToStore!ValidateStoreConnection \/ ToStore!CreateSyncChunks
             \/ ToStore!BeginTask \/ ToStore!ReportSyncMetrics \/ ToStore!EndRun
      PROVE  RunStep
  BY <1>2, <1>7, ToStoreRun, ConfigIsSound
     DEF ToStore!ValidateConnections, ToStore!FetchStoreServerConnection,
         ToStore!ValidateStoreConnection, ToStore!CreateSyncChunks,
         ToStore!PlanSyncChunks, ToStore!ChunkPlan, RunStep, EndRun
<1>8. ASSUME NEW n \in Chunks, ToStore!RetryTask(n) PROVE TaskStep(n)
  BY <1>8, ToStoreTasks DEF TaskStep
<1>9. ToStore!Chunks = Chunks
  BY ToStoreRun
<1> QED
  BY <1>5, <1>6, <1>7, <1>8, <1>9
     DEF ToStore!Next, ToStore!CreateDag, ToStore!SyncStore, ToStore!SyncStoreChunk,
         CommonStep

-----------------------------------------------------------------------------
(* SQL Server to MongoDB *)

LEMMA ToMongoDBTasks ==
  ASSUME NEW n
  PROVE  /\ \A b : /\ ToMongoDB!FetchBounds(n, b) <=> FetchBounds(n, b)
                   /\ ToMongoDB!FetchChunkBounds(n, b) <=> FetchChunkBounds(n, b)
         /\ ToMongoDB!CountRows(n) <=> CountRows(n)
         /\ \A rows : ToMongoDB!BeginStream(n, rows) <=> BeginStream(n, rows)
         /\ ToMongoDB!FetchBatch(n) <=> FetchBatch(n)
         /\ ToMongoDB!EndOfStream(n) <=> EndOfStream(n)
         /\ ToMongoDB!AppendKeysToStaging(n) <=> AppendKeys(n, SUBSET RowsOf(batch[n]))
         /\ ToMongoDB!DropKeysStagingTable(n) <=> DropKeys(n)
         /\ ToMongoDB!ReadFails(n) <=> ReadFails(n)
         /\ ToMongoDB!RetryTask(n) <=> RetryTask(n)
         /\ ToMongoDB!UpsertBatch(n) <=> UpsertBatch(n)
         /\ ToMongoDB!DeleteMissingInScope(n) <=> DeleteMissingInScope(n)
         /\ ToMongoDB!WritesFail(n) <=> WritesFail(n)
  BY DEF ToMongoDB!Goto, Goto, ToMongoDB!FailTask, FailTask, ToMongoDB!IsTransient,
         IsTransient, ToMongoDB!Fault, Fault, ToMongoDB!envVars, envVars,
         ToMongoDB!runVars, runVars, ToMongoDB!taskVars, taskVars, ToMongoDB!tableVars,
         tableVars, ToMongoDB!RowsOf, RowsOf, ToMongoDB!AfterStream, AfterStream,
         ToMongoDB!FirstStep, FirstStep, ToMongoDB!Chunks, Chunks, ToMongoDB!NoBounds,
         NoBounds, ToMongoDB!EmptyTable, EmptyTable, ToMongoDB!Cardinality, Cardinality,
         ToMongoDB!CountRows, CountRows, ToMongoDB!BeginStream, BeginStream,
         ToMongoDB!FetchBatch, FetchBatch, ToMongoDB!NextRows, NextRows, ToMongoDB!Min,
         Min, ToMongoDB!EndOfStream, EndOfStream, ToMongoDB!AppendKeys, AppendKeys,
         ToMongoDB!AppendedKeys, AppendedKeys, ToMongoDB!ReadFails, ReadFails,
         ToMongoDB!RetryTask, RetryTask, ToMongoDB!FetchBounds, FetchBounds,
         ToMongoDB!FetchChunkBounds, FetchChunkBounds, ToMongoDB!DropKeys, DropKeys,
         ToMongoDB!Missing, Missing, ToMongoDB!InBounds, InBounds, ToMongoDB!Without,
         Without, ToMongoDB!WriteFails, WriteFails, ToMongoDB!Waits, Waits,
         ToMongoDB!Touched, Touched, ToMongoDB!Locked, Locked, ToMongoDB!Deleted,
         Deleted, ToMongoDB!Conflicts, Conflicts, ToMongoDB!UpsertBatch, UpsertBatch,
         ToMongoDB!FindExisting, FindExisting, ToMongoDB!BulkWrite, BulkWrite,
         ToMongoDB!BulkWritten, BulkWritten, ToMongoDB!Replaced, Replaced,
         ToMongoDB!DeleteMissingInScope, DeleteMissingInScope, ToMongoDB!FindMissing,
         FindMissing, ToMongoDB!DeleteById, DeleteById, ToMongoDB!WritesFail,
         WritesFail, ToMongoDB!AppendKeysToStaging, ToMongoDB!DropKeysStagingTable

LEMMA ToMongoDBRun ==
  /\ \A versions : ToMongoDB!BeginRun(versions) <=> BeginRun(versions)
  /\ ToMongoDB!CountTotal <=> CountTotal
  /\ \A plan : ToMongoDB!ExpandChunks(plan) <=> ExpandChunks(plan)
  /\ ToMongoDB!NTilePlan(TRUE) = NTilePlan(TRUE)
  /\ ToMongoDB!BeginTask <=> BeginTask
  /\ ToMongoDB!GiveUpRun <=> GiveUpRun
  /\ ToMongoDB!ReportSyncMetrics <=> ReportRun(Transferred)
  /\ ToMongoDB!EndRun <=> EndRun
  /\ ToMongoDB!Chunks = Chunks
  BY DEF ToMongoDB!BeginRun, BeginRun, ToMongoDB!CountTotal, CountTotal,
         ToMongoDB!ExpandChunks, ExpandChunks, ToMongoDB!BeginTask, BeginTask,
         ToMongoDB!GiveUpRun, GiveUpRun, ToMongoDB!ReportRun, ReportRun,
         ToMongoDB!EndRun, EndRun, ToMongoDB!LeaveRun, LeaveRun, ToMongoDB!Transferred,
         Transferred, ToMongoDB!MapThenSumSet, MapThenSumSet, ToMongoDB!MapThenFoldSet,
         MapThenFoldSet, ToMongoDB!Chunks, Chunks, ToMongoDB!Cardinality, Cardinality,
         ToMongoDB!Fault, Fault, ToMongoDB!envVars, envVars, ToMongoDB!runVars, runVars,
         ToMongoDB!taskVars, taskVars, ToMongoDB!tableVars, tableVars, ToMongoDB!RowsOf,
         RowsOf, ToMongoDB!FirstStep, FirstStep, ToMongoDB!NoBounds, NoBounds,
         ToMongoDB!EmptyTable, EmptyTable, ToMongoDB!NTilePlan, NTilePlan,
         ToMongoDB!Min, Min, ToMongoDB!Max, Max, ToMongoDB!ChunkCount, ChunkCount,
         ToMongoDB!Bounds, Bounds, ToMongoDB!TileEnd, TileEnd, ToMongoDB!NTileValue,
         NTileValue, ToMongoDB!ValueAt, ValueAt, ToMongoDB!ReportSyncMetrics

LEMMA ToMongoDBSteps == ASSUME TypeOK, ToMongoDB!Next PROVE CommonStep
<1>1. config.direction = "mssql_to_mongo"
  BY DEF ToMongoDB!Next, ToMongoDB!Here
<1>2. /\ ToMongo /\ ~ToSql
      /\ ~OfMongo /\ ~OfTable
  BY <1>1 DEF OfMongo, ToMongo, ToSql, OfTable
<1>3. ASSUME NEW n \in Chunks, ToMongoDB!CopyRows(n, TaskRange(n)) PROVE TaskStep(n)
  BY <1>2, <1>3, ToMongoDBTasks DEF ToMongoDB!CopyRows, TaskStep, MongoWrites
<1>4. ASSUME NEW n \in Chunks, ToMongoDB!FinalizeDeleteMissing(n) PROVE TaskStep(n)
  BY <1>2, <1>4, ToMongoDBTasks DEF ToMongoDB!FinalizeDeleteMissing, TaskStep, MongoWrites
<1>5. ASSUME NEW n \in Chunks, ToMongoDB!SyncDataChunk(n) PROVE TaskStep(n)
  <2>1. config.dynamic /\ TaskRange(n) = ToMongoDB!ChunkSource(n)
    BY <1>2, <1>5
       DEF ToMongoDB!SyncDataChunk, TaskRange, ToMongoDB!ChunkSource, ToMongoDB!RowsOf,
           RowsOf, ToMongoDB!InBounds, InBounds
  <2>2. ToMongoDB!FetchChunkDeleteScopeBounds(n) => FetchChunkBounds(n, ChunkScope(n))
    <3>1. ToMongoDB!ChunkSource(n) =
            {k \in RowsOf(source) : InBounds(config.chunkColumn, bounds[n], k)}
      BY DEF ToMongoDB!ChunkSource, ToMongoDB!RowsOf, RowsOf, ToMongoDB!InBounds, InBounds
    <3>2. \A column, keys : ToMongoDB!BoundsOf(column, keys) = BoundsOf(column, keys)
      BY DEF ToMongoDB!BoundsOf, BoundsOf, ToMongoDB!Bounds, Bounds, ToMongoDB!NoBounds,
             NoBounds, ToMongoDB!Min, Min, ToMongoDB!Max, Max
    <3> QED
      BY <1>2, <3>1, <3>2, ToMongoDBTasks
         DEF ToMongoDB!FetchChunkDeleteScopeBounds, ChunkScope
  <2> QED
    BY <1>3, <1>4, <1>5, <2>1, <2>2 DEF ToMongoDB!SyncDataChunk, TaskStep
<1>6. ASSUME NEW n \in Chunks, ToMongoDB!SyncData(n) PROVE TaskStep(n)
  <2>1. ~config.dynamic /\ TaskRange(n) = ToMongoDB!RowsOf(source)
    BY <1>6 DEF ToMongoDB!SyncData, TaskRange, ToMongoDB!RowsOf, RowsOf
  <2>2. ToMongoDB!FetchScopeBounds(n)
         => FetchBounds(n, BoundsOf(config.scopeColumn, RowsOf(source)))
    BY ToMongoDBTasks
       DEF ToMongoDB!FetchScopeBounds, ToMongoDB!RowsOf, RowsOf, ToMongoDB!BoundsOf,
           BoundsOf, ToMongoDB!Bounds, Bounds, ToMongoDB!NoBounds, NoBounds, ToMongoDB!Min,
           Min, ToMongoDB!Max, Max
  <2> QED
    BY <1>3, <1>4, <1>6, <2>1, <2>2, ToMongoDBTasks DEF ToMongoDB!SyncData, TaskStep
<1>7. ASSUME ToMongoDB!ValidateConnections \/ ToMongoDB!CreateSyncChunks
             \/ ToMongoDB!BeginTask \/ ToMongoDB!ReportSyncMetrics \/ ToMongoDB!EndRun
      PROVE  RunStep
  BY <1>2, <1>7, ToMongoDBRun, ConfigIsSound
     DEF ToMongoDB!ValidateConnections, ToMongoDB!CreateSyncChunks,
         ToMongoDB!PlanSyncChunks, ToMongoDB!ChunkPlan, RunStep, EndRun
<1>8. ASSUME NEW n \in Chunks, ToMongoDB!RetryTask(n) PROVE TaskStep(n)
  BY <1>8, ToMongoDBTasks DEF TaskStep
<1>9. ToMongoDB!Chunks = Chunks
  BY ToMongoDBRun
<1> QED
  BY <1>5, <1>6, <1>7, <1>8, <1>9
     DEF ToMongoDB!Next, ToMongoDB!CreateDag, ToMongoDB!SyncTask, ToMongoDB!SyncChunkTask,
         CommonStep

-----------------------------------------------------------------------------
(* SQL Server to ClickHouse *)

LEMMA ToClickHouseTasks ==
  ASSUME NEW n
  PROVE  /\ ToClickHouse!CountRows(n) <=> CountRows(n)
         /\ \A rows : ToClickHouse!BeginStream(n, rows) <=> BeginStream(n, rows)
         /\ ToClickHouse!FetchBatch(n) <=> FetchBatch(n)
         /\ ToClickHouse!EndOfStream(n) <=> EndOfStream(n)
         /\ ToClickHouse!AppendKeys(n, {}) <=> AppendKeys(n, {})
         /\ ToClickHouse!ReadFails(n) <=> ReadFails(n)
         /\ ToClickHouse!RetryTask(n) <=> RetryTask(n)
  BY DEF ToClickHouse!Goto, Goto, ToClickHouse!FailTask, FailTask,
         ToClickHouse!IsTransient, IsTransient, ToClickHouse!Fault, Fault,
         ToClickHouse!envVars, envVars, ToClickHouse!runVars, runVars,
         ToClickHouse!taskVars, taskVars, ToClickHouse!tableVars, tableVars,
         ToClickHouse!RowsOf, RowsOf, ToClickHouse!AfterStream, AfterStream,
         ToClickHouse!FirstStep, FirstStep, ToClickHouse!Chunks, Chunks,
         ToClickHouse!NoBounds, NoBounds, ToClickHouse!EmptyTable, EmptyTable,
         ToClickHouse!Cardinality, Cardinality, ToClickHouse!CountRows, CountRows,
         ToClickHouse!BeginStream, BeginStream, ToClickHouse!FetchBatch, FetchBatch,
         ToClickHouse!NextRows, NextRows, ToClickHouse!Min, Min,
         ToClickHouse!EndOfStream, EndOfStream, ToClickHouse!AppendKeys, AppendKeys,
         ToClickHouse!AppendedKeys, AppendedKeys, ToClickHouse!ReadFails, ReadFails,
         ToClickHouse!RetryTask, RetryTask

LEMMA ToClickHouseRun ==
  /\ \A versions : ToClickHouse!BeginRun(versions) <=> BeginRun(versions)
  /\ ToClickHouse!CountTotal <=> CountTotal
  /\ \A plan : ToClickHouse!ExpandChunks(plan) <=> ExpandChunks(plan)
  /\ ToClickHouse!NTilePlan(TRUE) = NTilePlan(TRUE)
  /\ ToClickHouse!BeginTask <=> BeginTask
  /\ ToClickHouse!GiveUpRun <=> GiveUpRun
  /\ ToClickHouse!ReportSyncMetrics <=> ReportRun(Transferred)
  /\ ToClickHouse!EndRun <=> EndRun
  /\ ToClickHouse!Chunks = Chunks
  BY DEF ToClickHouse!BeginRun, BeginRun, ToClickHouse!CountTotal, CountTotal,
         ToClickHouse!ExpandChunks, ExpandChunks, ToClickHouse!BeginTask, BeginTask,
         ToClickHouse!GiveUpRun, GiveUpRun, ToClickHouse!ReportRun, ReportRun,
         ToClickHouse!EndRun, EndRun, ToClickHouse!LeaveRun, LeaveRun,
         ToClickHouse!Transferred, Transferred, ToClickHouse!MapThenSumSet,
         MapThenSumSet, ToClickHouse!MapThenFoldSet, MapThenFoldSet,
         ToClickHouse!Chunks, Chunks, ToClickHouse!Cardinality, Cardinality,
         ToClickHouse!Fault, Fault, ToClickHouse!envVars, envVars, ToClickHouse!runVars,
         runVars, ToClickHouse!taskVars, taskVars, ToClickHouse!tableVars, tableVars,
         ToClickHouse!RowsOf, RowsOf, ToClickHouse!FirstStep, FirstStep,
         ToClickHouse!NoBounds, NoBounds, ToClickHouse!EmptyTable, EmptyTable,
         ToClickHouse!NTilePlan, NTilePlan, ToClickHouse!Min, Min, ToClickHouse!Max,
         Max, ToClickHouse!ChunkCount, ChunkCount, ToClickHouse!Bounds, Bounds,
         ToClickHouse!TileEnd, TileEnd, ToClickHouse!NTileValue, NTileValue,
         ToClickHouse!ValueAt, ValueAt, ToClickHouse!ReportSyncMetrics

LEMMA ToClickHouseInserts ==
  ASSUME TypeOK, NEW n \in Chunks
  PROVE  /\ ToClickHouse!InsertRows(n) => WritesVersions(n, ToClickHouse!Shown(n))
         /\ UNCHANGED <<target, version>> => WritesVersions(n, {})
         /\ ToClickHouse!Shown(n) \in SUBSET RowsOf(batch[n])
         /\ \A k \in RowsOf(batch[n]) \ ToClickHouse!Shown(n) : version[k] > runVersion
<1>1. /\ runVersion \in Nat /\ \A k \in Keys : version[k] \in Nat
      /\ target = [k \in Keys |-> target[k]] /\ version = [k \in Keys |-> version[k]]
  <2>1. Versions \cup {0} \subseteq Nat
    BY ConfigIsSound
  <2>2. runVersion \in Versions \cup {0} /\ version \in [Keys -> Versions \cup {0}]
    BY DEF TypeOK
  <2>3. target \in [Keys -> Values \cup {NoRow}]
    BY DEF TypeOK, Table
  <2> QED
    BY <2>1, <2>2, <2>3
<1>2. ToClickHouse!InsertRows(n) => WritesVersions(n, ToClickHouse!Shown(n))
  BY DEF ToClickHouse!InsertRows, WritesVersions
<1>3. UNCHANGED <<target, version>> => WritesVersions(n, {})
  BY <1>1 DEF WritesVersions
<1> QED
  BY <1>1, <1>2, <1>3 DEF ToClickHouse!Shown, ToClickHouse!RowsOf, RowsOf

LEMMA ToClickHouseWrites ==
  ASSUME TypeOK, NEW n \in Chunks, ToClickHouse!UpsertBatch(n) \/ ToClickHouse!InsertFails(n)
  PROVE  VersionWrites(n)
<1> USE DEF ToClickHouse!Goto, Goto, ToClickHouse!FailTask, FailTask, ToClickHouse!Fault, Fault,
            ToClickHouse!IsTransient, IsTransient, ToClickHouse!envVars, envVars,
            ToClickHouse!runVars, runVars, ToClickHouse!taskVars, taskVars
<1>1. CASE ToClickHouse!UpsertBatch(n)
  BY <1>1, ToClickHouseInserts DEF ToClickHouse!UpsertBatch, VersionWrites
<1>2. CASE ToClickHouse!InsertFails(n)
  <2>1. \E keys \in SUBSET RowsOf(batch[n]) : WritesVersions(n, keys)
    BY <1>2, ToClickHouseInserts DEF ToClickHouse!InsertFails
  <2> QED
    BY <1>2, <2>1 DEF ToClickHouse!InsertFails, VersionWrites
<1> QED
  BY <1>1, <1>2

LEMMA ToClickHouseSteps == ASSUME TypeOK, ToClickHouse!Next PROVE CommonStep
<1>1. config.direction = "mssql_to_clickhouse"
  BY DEF ToClickHouse!Next, ToClickHouse!Here
<1>2. /\ ~ToMongo /\ ~ToSql
      /\ ~OfMongo /\ ~OfTable
  BY <1>1 DEF OfMongo, ToMongo, ToSql, OfTable
<1>3. ASSUME NEW n \in Chunks, ToClickHouse!CopyRows(n, TaskRange(n)) PROVE TaskStep(n)
  BY <1>2, <1>3, ToClickHouseTasks, ToClickHouseWrites DEF ToClickHouse!CopyRows, TaskStep
<1>5. ASSUME NEW n \in Chunks, ToClickHouse!SyncDataChunk(n) PROVE TaskStep(n)
  <2>1. config.dynamic /\ TaskRange(n) = ToClickHouse!ChunkSource(n)
    BY <1>2, <1>5
       DEF ToClickHouse!SyncDataChunk, TaskRange, ToClickHouse!ChunkSource,
           ToClickHouse!RowsOf, RowsOf, ToClickHouse!InBounds, InBounds
  <2> QED
    BY <1>3, <1>5, <2>1 DEF ToClickHouse!SyncDataChunk
<1>6. ASSUME NEW n \in Chunks, ToClickHouse!SyncData(n) PROVE TaskStep(n)
  <2>1. ~config.dynamic /\ TaskRange(n) = ToClickHouse!RowsOf(source)
    BY <1>6 DEF ToClickHouse!SyncData, TaskRange, ToClickHouse!RowsOf, RowsOf
  <2> QED
    BY <1>3, <1>6, <2>1, ToClickHouseTasks DEF ToClickHouse!SyncData, TaskStep
<1>7. ASSUME ToClickHouse!ValidateConnections \/ ToClickHouse!CreateSyncChunks
             \/ ToClickHouse!BeginTask \/ ToClickHouse!ReportSyncMetrics \/ ToClickHouse!EndRun
      PROVE  RunStep
  BY <1>2, <1>7, ToClickHouseRun, ConfigIsSound
     DEF ToClickHouse!ValidateConnections, ToClickHouse!CreateSyncChunks,
         ToClickHouse!PlanSyncChunks, ToClickHouse!ChunkPlan, RunStep, EndRun
<1>8. ASSUME NEW n \in Chunks, ToClickHouse!RetryTask(n) PROVE TaskStep(n)
  BY <1>8, ToClickHouseTasks DEF TaskStep
<1>9. ToClickHouse!Chunks = Chunks
  BY ToClickHouseRun
<1> QED
  BY <1>5, <1>6, <1>7, <1>8, <1>9
     DEF ToClickHouse!Next, ToClickHouse!CreateDag, ToClickHouse!SyncTask,
         ToClickHouse!SyncChunkTask, CommonStep

-----------------------------------------------------------------------------
(* SQL Server to Kafka *)

LEMMA ToKafkaTasks ==
  ASSUME NEW n
  PROVE  /\ ToKafka!CountRows(n) <=> CountRows(n)
         /\ \A rows : ToKafka!BeginStream(n, rows) <=> BeginStream(n, rows)
         /\ ToKafka!FetchBatch(n) <=> FetchBatch(n)
         /\ ToKafka!EndOfStream(n) <=> EndOfStream(n)
         /\ ToKafka!AppendKeys(n, {}) <=> AppendKeys(n, {})
         /\ ToKafka!ReadFails(n) <=> ReadFails(n)
         /\ ToKafka!RetryTask(n) <=> RetryTask(n)
  BY DEF ToKafka!Goto, Goto, ToKafka!FailTask, FailTask, ToKafka!IsTransient,
         IsTransient, ToKafka!Fault, Fault, ToKafka!envVars, envVars, ToKafka!runVars,
         runVars, ToKafka!taskVars, taskVars, ToKafka!tableVars, tableVars,
         ToKafka!RowsOf, RowsOf, ToKafka!AfterStream, AfterStream, ToKafka!FirstStep,
         FirstStep, ToKafka!Chunks, Chunks, ToKafka!NoBounds, NoBounds,
         ToKafka!EmptyTable, EmptyTable, ToKafka!Cardinality, Cardinality,
         ToKafka!CountRows, CountRows, ToKafka!BeginStream, BeginStream,
         ToKafka!FetchBatch, FetchBatch, ToKafka!NextRows, NextRows, ToKafka!Min, Min,
         ToKafka!EndOfStream, EndOfStream, ToKafka!AppendKeys, AppendKeys,
         ToKafka!AppendedKeys, AppendedKeys, ToKafka!ReadFails, ReadFails,
         ToKafka!RetryTask, RetryTask

LEMMA ToKafkaRun ==
  /\ \A versions : ToKafka!BeginRun(versions) <=> BeginRun(versions)
  /\ ToKafka!CountTotal <=> CountTotal
  /\ \A plan : ToKafka!ExpandChunks(plan) <=> ExpandChunks(plan)
  /\ ToKafka!NTilePlan(TRUE) = NTilePlan(TRUE)
  /\ ToKafka!BeginTask <=> BeginTask
  /\ ToKafka!GiveUpRun <=> GiveUpRun
  /\ ToKafka!ReportSyncMetrics <=> ReportRun(Transferred)
  /\ ToKafka!EndRun <=> EndRun
  /\ ToKafka!Chunks = Chunks
  BY DEF ToKafka!BeginRun, BeginRun, ToKafka!CountTotal, CountTotal,
         ToKafka!ExpandChunks, ExpandChunks, ToKafka!BeginTask, BeginTask,
         ToKafka!GiveUpRun, GiveUpRun, ToKafka!ReportRun, ReportRun, ToKafka!EndRun,
         EndRun, ToKafka!LeaveRun, LeaveRun, ToKafka!Transferred, Transferred,
         ToKafka!MapThenSumSet, MapThenSumSet, ToKafka!MapThenFoldSet, MapThenFoldSet,
         ToKafka!Chunks, Chunks, ToKafka!Cardinality, Cardinality, ToKafka!Fault, Fault,
         ToKafka!envVars, envVars, ToKafka!runVars, runVars, ToKafka!taskVars, taskVars,
         ToKafka!tableVars, tableVars, ToKafka!RowsOf, RowsOf, ToKafka!FirstStep,
         FirstStep, ToKafka!NoBounds, NoBounds, ToKafka!EmptyTable, EmptyTable,
         ToKafka!NTilePlan, NTilePlan, ToKafka!Min, Min, ToKafka!Max, Max,
         ToKafka!ChunkCount, ChunkCount, ToKafka!Bounds, Bounds, ToKafka!TileEnd,
         TileEnd, ToKafka!NTileValue, NTileValue, ToKafka!ValueAt, ValueAt,
         ToKafka!ReportSyncMetrics

LEMMA ToKafkaDelivers ==
  ASSUME NEW n, NEW rows
  PROVE  ToKafka!Deliver(n, rows) <=> WritesVersions(n, rows)
BY DEF ToKafka!Deliver, WritesVersions

LEMMA ToKafkaWrites ==
  ASSUME NEW n \in Chunks, ToKafka!SendBatchToKafka(n) \/ ToKafka!SendFails(n)
  PROVE  VersionWrites(n)
<1> USE DEF ToKafka!Goto, Goto, ToKafka!FailTask, FailTask, ToKafka!Fault, Fault,
            ToKafka!IsTransient, IsTransient, ToKafka!envVars, envVars, ToKafka!RowsOf, RowsOf,
            ToKafka!runVars, runVars, ToKafka!taskVars, taskVars
<1>1. CASE ToKafka!SendBatchToKafka(n)
  BY <1>1, ToKafkaDelivers
     DEF ToKafka!SendBatchToKafka, ToKafka!Flush, ToKafka!DeliveryFails, VersionWrites
<1>2. CASE ToKafka!SendFails(n)
  BY <1>2, ToKafkaDelivers DEF ToKafka!SendFails, VersionWrites
<1> QED
  BY <1>1, <1>2

LEMMA ToKafkaSteps == ASSUME TypeOK, ToKafka!Next PROVE CommonStep
<1>1. config.direction = "mssql_to_kafka"
  BY DEF ToKafka!Next, ToKafka!Here
<1>2. /\ ~ToMongo /\ ~ToSql
      /\ ~OfMongo /\ ~OfTable
  BY <1>1 DEF OfMongo, ToMongo, ToSql, OfTable
<1>3. ASSUME NEW n \in Chunks, ToKafka!CopyRows(n, TaskRange(n)) PROVE TaskStep(n)
  BY <1>2, <1>3, ToKafkaTasks, ToKafkaWrites DEF ToKafka!CopyRows, TaskStep
<1>5. ASSUME NEW n \in Chunks, ToKafka!SyncDataChunk(n) PROVE TaskStep(n)
  <2>1. config.dynamic /\ TaskRange(n) = ToKafka!ChunkSource(n)
    BY <1>2, <1>5
       DEF ToKafka!SyncDataChunk, TaskRange, ToKafka!ChunkSource, ToKafka!RowsOf, RowsOf,
           ToKafka!InBounds, InBounds
  <2> QED
    BY <1>3, <1>5, <2>1 DEF ToKafka!SyncDataChunk
<1>6. ASSUME NEW n \in Chunks, ToKafka!SyncData(n) PROVE TaskStep(n)
  <2>1. ~config.dynamic /\ TaskRange(n) = ToKafka!RowsOf(source)
    BY <1>6 DEF ToKafka!SyncData, TaskRange, ToKafka!RowsOf, RowsOf
  <2> QED
    BY <1>3, <1>6, <2>1, ToKafkaTasks DEF ToKafka!SyncData, TaskStep
<1>7. ASSUME ToKafka!ValidateConnections \/ ToKafka!CreateSyncChunks
             \/ ToKafka!BeginTask \/ ToKafka!ReportSyncMetrics \/ ToKafka!EndRun
      PROVE  RunStep
  BY <1>2, <1>7, ToKafkaRun, ConfigIsSound
     DEF ToKafka!ValidateConnections, ToKafka!CreateSyncChunks,
         ToKafka!PlanSyncChunks, ToKafka!ChunkPlan, RunStep, EndRun
<1>8. ASSUME NEW n \in Chunks, ToKafka!RetryTask(n) PROVE TaskStep(n)
  BY <1>8, ToKafkaTasks DEF TaskStep
<1>9. ToKafka!Chunks = Chunks
  BY ToKafkaRun
<1> QED
  BY <1>5, <1>6, <1>7, <1>8, <1>9
     DEF ToKafka!Next, ToKafka!CreateDag, ToKafka!SyncTask, ToKafka!SyncChunkTask,
         CommonStep

-----------------------------------------------------------------------------
(* SQL Server to Kafka or ClickHouse, by a transfer *)

LEMMA TransferTasks ==
  ASSUME NEW n
  PROVE  /\ Transfer!CountRows(n) <=> CountRows(n)
         /\ \A rows : Transfer!BeginStream(n, rows) <=> BeginStream(n, rows)
         /\ Transfer!FetchBatch(n) <=> FetchBatch(n)
         /\ Transfer!EndOfStream(n) <=> EndOfStream(n)
         /\ Transfer!AppendKeys(n, {}) <=> AppendKeys(n, {})
         /\ Transfer!RetryTask(n) <=> RetryTask(n)
  BY DEF Transfer!Goto, Goto, Transfer!FailTask, FailTask, Transfer!IsTransient,
         IsTransient, Transfer!Fault, Fault, Transfer!envVars, envVars,
         Transfer!runVars, runVars, Transfer!taskVars, taskVars, Transfer!tableVars,
         tableVars, Transfer!RowsOf, RowsOf, Transfer!AfterStream, AfterStream,
         Transfer!FirstStep, FirstStep, Transfer!Chunks, Chunks, Transfer!NoBounds,
         NoBounds, Transfer!EmptyTable, EmptyTable, Transfer!Cardinality, Cardinality,
         Transfer!CountRows, CountRows, Transfer!BeginStream, BeginStream,
         Transfer!FetchBatch, FetchBatch, Transfer!NextRows, NextRows, Transfer!Min,
         Min, Transfer!EndOfStream, EndOfStream, Transfer!AppendKeys, AppendKeys,
         Transfer!AppendedKeys, AppendedKeys, Transfer!ReadFails, ReadFails,
         Transfer!RetryTask, RetryTask

LEMMA TransferRun ==
  /\ \A versions : Transfer!BeginRun(versions) <=> BeginRun(versions)
  /\ Transfer!BeginTask <=> BeginTask
  /\ Transfer!GiveUpRun <=> GiveUpRun
  /\ Transfer!ReportRun(Transfer!Transferred) <=> ReportRun(Transferred)
  /\ Transfer!EndRun <=> EndRun
  /\ Transfer!LeaveRun <=> LeaveRun
  /\ Transfer!Chunks = Chunks
  BY DEF Transfer!BeginRun, BeginRun, Transfer!BeginTask, BeginTask, Transfer!GiveUpRun,
         GiveUpRun, Transfer!ReportRun, ReportRun, Transfer!EndRun, EndRun,
         Transfer!LeaveRun, LeaveRun, Transfer!Transferred, Transferred,
         Transfer!MapThenSumSet, MapThenSumSet, Transfer!MapThenFoldSet, MapThenFoldSet,
         Transfer!Chunks, Chunks, Transfer!Cardinality, Cardinality, Transfer!Fault,
         Fault, Transfer!envVars, envVars, Transfer!runVars, runVars, Transfer!taskVars,
         taskVars, Transfer!tableVars, tableVars, Transfer!RowsOf, RowsOf,
         Transfer!FirstStep, FirstStep, Transfer!NoBounds, NoBounds,
         Transfer!EmptyTable, EmptyTable

LEMMA TransferInserts ==
  ASSUME TypeOK, NEW n \in Chunks
  PROVE  /\ Transfer!InsertRows(n) => WritesVersions(n, Transfer!Shown(n))
         /\ UNCHANGED <<target, version>> => WritesVersions(n, {})
         /\ Transfer!Shown(n) \in SUBSET RowsOf(batch[n])
         /\ \A k \in RowsOf(batch[n]) \ Transfer!Shown(n) : version[k] > runVersion
<1>1. /\ runVersion \in Nat /\ \A k \in Keys : version[k] \in Nat
      /\ target = [k \in Keys |-> target[k]] /\ version = [k \in Keys |-> version[k]]
  <2>1. Versions \cup {0} \subseteq Nat
    BY ConfigIsSound
  <2>2. runVersion \in Versions \cup {0} /\ version \in [Keys -> Versions \cup {0}]
    BY DEF TypeOK
  <2>3. target \in [Keys -> Values \cup {NoRow}]
    BY DEF TypeOK, Table
  <2> QED
    BY <2>1, <2>2, <2>3
<1>2. Transfer!InsertRows(n) => WritesVersions(n, Transfer!Shown(n))
  BY DEF Transfer!InsertRows, WritesVersions
<1>3. UNCHANGED <<target, version>> => WritesVersions(n, {})
  BY <1>1 DEF WritesVersions
<1> QED
  BY <1>1, <1>2, <1>3 DEF Transfer!Shown, Transfer!RowsOf, RowsOf

LEMMA TransferDelivers ==
  ASSUME NEW n, NEW rows
  PROVE  Transfer!Deliver(n, rows) <=> WritesVersions(n, rows)
BY DEF Transfer!Deliver, WritesVersions

LEMMA TransferSends ==
  ASSUME TypeOK, NEW n \in Chunks, Transfer!SendBatch(n)
  PROVE  AppendKeys(n, {}) \/ VersionWrites(n)
<1> USE DEF Transfer!Goto, Goto, Transfer!Fault, Fault, Transfer!RowsOf, RowsOf,
            Transfer!envVars, envVars, Transfer!runVars, runVars, Transfer!taskVars, taskVars
<1>1. CASE Transfer!SendBatchToKafka(n)
  BY <1>1, TransferDelivers
     DEF Transfer!SendBatchToKafka, Transfer!Flush, Transfer!DeliveryFails, VersionWrites
<1>2. CASE Transfer!UpsertBatch(n)
  BY <1>2, TransferInserts DEF Transfer!UpsertBatch, VersionWrites
<1> QED
  BY <1>1, <1>2, TransferTasks DEF Transfer!SendBatch

LEMMA TransferFailsLike ==
  ASSUME TypeOK, NEW n \in Chunks, Transfer!TransferFails(n)
  PROVE  ReadFails(n) \/ OpenFails(n) \/ VersionWrites(n)
<1> USE DEF Transfer!Fault, Fault, FailTask, IsTransient,
            Transfer!envVars, envVars, Transfer!runVars, runVars, Transfer!taskVars, taskVars
<1>1. FailTask(n, "link") /\ UNCHANGED <<config, envVars, keysStaging, runVars, taskVars>>
  BY DEF Transfer!TransferFails
<1>2. CASE pc[n] \in {"count", "fetch"}
  BY <1>1, <1>2 DEF Transfer!TransferFails, ReadFails, tableVars
<1>3. CASE pc[n] = "prepare"
  BY <1>1, <1>3 DEF Transfer!TransferFails, OpenFails, tableVars
<1>4. CASE pc[n] = "upsert"
  <2>1. \E keys \in SUBSET RowsOf(batch[n]) : WritesVersions(n, keys)
    BY TransferInserts, TransferDelivers DEF Transfer!TransferFails, Transfer!RowsOf, RowsOf
  <2> QED
    BY <1>1, <1>4, <2>1 DEF VersionWrites
<1> QED
  BY <1>2, <1>3, <1>4 DEF Transfer!TransferFails

\* The steps of paging through a table, which only a transfer has.
PageStep(n) ==
  OfTable /\ (Transfer!OpenTable(n) \/ Transfer!FetchPage(n) \/ Transfer!CloseTable(n))

LEMMA TransferSteps ==
  ASSUME TypeOK, Transfer!Next
  PROVE  CommonStep \/ \E n \in Chunks : PageStep(n)
<1>1. config.direction \in {"table_to_kafka", "table_to_clickhouse",
                            "query_to_kafka", "query_to_clickhouse"}
  BY DEF Transfer!Next, Transfer!OfTable, Transfer!OfQuery
<1>2. /\ ~OfMongo /\ ~ToMongo /\ ~ToSql
      /\ OfTable <=> Transfer!OfTable
      /\ Transfer!OfQuery => ~OfTable
  BY <1>1 DEF OfMongo, ToMongo, ToSql, OfTable, Transfer!OfTable, Transfer!OfQuery
<1>3. ~config.dynamic
  BY <1>1, TransfersOnlyCopy DEF TypeOK
<1>4. ASSUME NEW n \in Chunks, Transfer!Transfer(n) PROVE TaskStep(n) \/ PageStep(n)
  <2>1. CASE Transfer!OfTable /\ Transfer!TransferTableData(n)
    BY <1>2, <1>3, <2>1, TransferTasks, TransferSends
       DEF Transfer!TransferTableData, TaskStep, PageStep
  <2>2. CASE Transfer!OfQuery /\ Transfer!TransferQueryData(n)
    <3>1. TaskRange(n) = Transfer!RowsOf(source)
      BY <1>3 DEF TaskRange, Transfer!RowsOf, RowsOf
    <3> QED
      BY <1>2, <1>3, <2>2, <3>1, TransferTasks, TransferSends
         DEF Transfer!TransferQueryData, TaskStep
  <2>3. CASE Transfer!TransferFails(n) \/ Transfer!RetryTask(n)
    BY <1>2, <2>3, TransferTasks, TransferFailsLike DEF TaskStep
  <2> QED
    BY <1>4, <2>1, <2>2, <2>3 DEF Transfer!Transfer
<1>5. ASSUME Transfer!ValidateConnections \/ Transfer!GiveUpRun \/ Transfer!BeginTask
             \/ Transfer!VerifyTransfer \/ Transfer!VerifyFails \/ Transfer!EndRun
      PROVE  RunStep
  <2>1. {v \in Versions : v >= runVersion} \in SUBSET Versions
    OBVIOUS
  <2> QED
    BY <1>5, <2>1, TransferRun
       DEF Transfer!ValidateConnections, Transfer!VerifyTransfer, Transfer!VerifyFails,
           RunStep, EndRun
<1>6. Transfer!Chunks = Chunks
  BY TransferRun
<1> QED
  BY <1>4, <1>5, <1>6 DEF Transfer!Next, CommonStep

-----------------------------------------------------------------------------
(* Types *)

LEMMA StepsAreCommon ==
  ASSUME TypeOK, Next
  PROVE  CommonStep \/ \E n \in Chunks : PageStep(n)
<1>1. Step => CommonStep \/ \E n \in Chunks : PageStep(n)
  BY ToMySQLSteps, ToPostgreSQLSteps, ToMongoDBSteps, ToClickHouseSteps, ToKafkaSteps,
     FromMySQLSteps, FromPostgreSQLSteps, FromClickHouseSteps, FromMongoDBSteps, ToStoreSteps,
     TransferSteps
     DEF Step
<1> QED
  BY <1>1 DEF Next, CommonStep

\* A page has no more rows than batch_size; paging goes on after the last of them.
LEMMA PageTypes == ASSUME TypeInvariant, NEW n \in Chunks, PageStep(n) PROVE TypeInvariant'
<1> TypeOK /\ Paging(n)
  BY DEF TypeInvariant
<1> USE DEF Transfer!Goto, Transfer!envVars, Transfer!tableVars, Transfer!runVars,
            Transfer!taskVars
<1>1. OfTable /\ ~config.delete
  BY TransfersOnlyCopy DEF PageStep, OfTable, TypeOK
<1>2. CASE Transfer!OpenTable(n)
  <2>1. Cardinality(RowsOf(source)) \in Nat
    BY RowsAreKeys, KeysAreCountable
  <2>2. total' \in Nat
    BY <1>2, <2>1 DEF Transfer!OpenTable, Transfer!Cardinality, Cardinality,
                      Transfer!RowsOf, RowsOf
  <2>3. scope' = [scope EXCEPT ![n] = <<Null, 0>>] /\ pc' = [pc EXCEPT ![n] = "fetch"]
    BY <1>2 DEF Transfer!OpenTable
  <2>4. TypeOK'
    BY <1>2, <2>2, <2>3 DEF Transfer!OpenTable, TypeOK, RowsOf, Locations
  <2> QED
    BY <1>1, <1>2, <2>3, <2>4
       DEF Transfer!OpenTable, TypeInvariant, TypeOK, HasKeysTable, Paging, OfTable
<1>3. CASE Transfer!FetchPage(n)
  <2>1. PICK rows \in SUBSET Keys :
          /\ Transfer!Page(n, rows)
          /\ pc[n] = "fetch"
          /\ pc' = [pc EXCEPT ![n] = IF rows = {} THEN "done" ELSE "upsert"]
          /\ batch' = [batch EXCEPT ![n] =
               [k \in Keys |-> IF k \in rows THEN source[k] ELSE NoRow]]
          /\ scope' = [scope EXCEPT ![n] =
               <<IF rows = {} THEN scope[n][1] ELSE BoundsOf(config.chunkColumn, rows)[2],
                 scope[n][2] + Cardinality(rows)>>]
    BY <1>3 DEF Transfer!FetchPage, Transfer!LastKey, Transfer!Processed, Transfer!OrderBy,
                Transfer!BoundsOf, BoundsOf, Transfer!Bounds, Bounds, Transfer!NoBounds, NoBounds,
                Transfer!Min, Min, Transfer!Max, Max, Transfer!Cardinality, Cardinality
  <2>2. IsFiniteSet(rows) /\ Cardinality(rows) \in Nat /\ Cardinality(rows) <= BatchSize
    <3>1. PICK ahead \in SUBSET Keys : Cardinality(rows) = Min({BatchSize, Cardinality(ahead)})
      BY <2>1, RowsAreKeys
         DEF Transfer!Page, Transfer!Min, Min, Transfer!Cardinality, Cardinality,
             Transfer!RowsOf, RowsOf
    <3>2. BatchSize \in Nat /\ Cardinality(ahead) \in Nat
      BY KeysAreCountable, ConfigIsSound
    <3> QED
      BY <3>1, <3>2, KeysAreCountable, MinOfTwo
  <2>3. /\ batch' \in [Chunks -> Table]
        /\ \A m \in Chunks : Cardinality(RowsOf(batch'[m])) <= BatchSize
    <3> DEFINE page == [k \in Keys |-> IF k \in rows THEN source[k] ELSE NoRow]
    <3>1. page \in Table
      BY DEF TypeOK, Table
    <3>2. Cardinality(RowsOf(page)) <= BatchSize
      <4>1. RowsOf(page) \in SUBSET rows
        BY DEF RowsOf
      <4>2. /\ Cardinality(RowsOf(page)) <= Cardinality(rows)
            /\ Cardinality(RowsOf(page)) \in Nat
        BY <2>2, <4>1, FS_Subset, FS_CardinalityType
      <4> QED
        BY <2>2, <4>2, ConfigIsSound
    <3> HIDE DEF page
    <3> QED
      BY <2>1, <3>1, <3>2 DEF TypeOK, page
  <2>4. scope' \in [Chunks -> Bound \X Bound] /\ scope'[n][2] \in Nat
    <3>1. BoundsOf(config.chunkColumn, rows) \in Ranges
      BY HasColumns, BoundsOfKeys DEF TypeOK, ColumnsOf
    <3>2. scope[n][1] \in Bound /\ scope[n][2] \in Nat
      BY <1>1, <2>1 DEF Paging, TypeOK, Bound
    <3> QED
      BY <2>1, <2>2, <3>1, <3>2 DEF TypeOK, Ranges, Bound
  <2>5. TypeOK'
    BY <1>3, <2>1, <2>3, <2>4 DEF Transfer!FetchPage, TypeOK, Bound, Locations
  <2> QED
    BY <1>1, <1>3, <2>1, <2>4, <2>5
       DEF Transfer!FetchPage, TypeInvariant, TypeOK, HasKeysTable, Paging, OfTable
<1>4. CASE Transfer!CloseTable(n)
  BY <1>1, <1>4
     DEF Transfer!CloseTable, TypeInvariant, TypeOK, HasKeysTable, Paging, OfTable, RowsOf,
         Locations
<1> QED
  BY <1>2, <1>3, <1>4 DEF PageStep

LEMMA TypesHold == Spec => []TypeInvariant
<1>1. Init => TypeInvariant
  BY TypeInit DEF TypeInvariant, Init, HasKeysTable, Paging
<1>2. TypeInvariant /\ [Next]_vars => TypeInvariant'
  <2> SUFFICES ASSUME TypeInvariant, [Next]_vars PROVE TypeInvariant'
    OBVIOUS
  <2>1. CASE Next
    <3>1. CommonStep \/ \E n \in Chunks : PageStep(n)
      BY <2>1, StepsAreCommon DEF TypeInvariant
    <3> QED
      BY <3>1, CommonTypes, PageTypes
  <2>2. CASE UNCHANGED vars
    BY <2>2
       DEF vars, TypeInvariant, TypeOK, HasKeysTable, Paging, OfTable, RowsOf
  <2> QED
    BY <2>1, <2>2
<1> QED
  BY <1>1, <1>2, PTL DEF Spec

\* Whatever the direction, the tables, the plan and the failures: all of the state has
\* its type.
THEOREM TypeCorrect == Spec => []TypeOK
<1>1. TypeInvariant => TypeOK
  BY DEF TypeInvariant
<1> QED
  BY <1>1, TypesHold, PTL

-----------------------------------------------------------------------------
(* What holds between the steps of a run *)

LEMMA InitiallyNothingRuns == ASSUME TypeOK, UniqueValues, Init PROVE RunInvariant
<1>1. IsUnique(source)
  BY DEF Init, UniqueValues
<1>2. phase = "idle" /\ \A n \in Chunks : pc[n] = "idle" /\ counted[n] = 0
  BY DEF Init
<1>3. ASSUME NEW n \in Chunks PROVE TaskInvariant(n)
  BY <1>2
     DEF TaskInvariant, BatchInvariant, InsertInvariant, FindInvariant, KeysInvariant,
         CopyInvariant, CountInvariant, Streaming, Streamed
<1>4. PhaseInvariant /\ PlanInvariant
  BY <1>2 DEF PhaseInvariant, PlanInvariant
<1> QED
  BY <1>1, <1>3, <1>4 DEF RunInvariant

\* Paging through a table changes nothing but what its task has read.
LEMMA PagesOf ==
  ASSUME TypeInvariant, NEW n \in Chunks, PageStep(n)
  PROVE  /\ OfTable /\ ~config.delete /\ ~config.dynamic
         /\ UNCHANGED <<config, source, target, version, keysStaging, phase, runVersion, bounds,
                        counted, report, undisturbed>>
         /\ pc[n] \in {"prepare", "fetch"} /\ pc'[n] \in {"fetch", "upsert", "done"}
         /\ \A m \in Chunks \ {n} : pc'[m] = pc[m] /\ batch'[m] = batch[m] /\ known'[m] = known[m]
         /\ pc'[n] = "upsert" => \A k \in Keys : batch'[n][k] \in {NoRow, source[k]}
<1> TypeOK /\ pc \in [Chunks -> Locations] /\ batch \in [Chunks -> Table]
  BY DEF TypeInvariant, TypeOK
<1> USE DEF Transfer!Goto, Transfer!envVars, Transfer!tableVars, Transfer!runVars,
            Transfer!taskVars
<1>1. OfTable /\ ~config.delete /\ ~config.dynamic
  BY TransfersOnlyCopy DEF PageStep, OfTable, TypeOK
<1>2. CASE Transfer!OpenTable(n)
  BY <1>1, <1>2 DEF Transfer!OpenTable
<1>3. CASE Transfer!FetchPage(n)
  <2>1. PICK rows \in SUBSET Keys :
          batch' = [batch EXCEPT ![n] = [k \in Keys |-> IF k \in rows THEN source[k] ELSE NoRow]]
    BY <1>3 DEF Transfer!FetchPage
  <2>2. \A k \in Keys : batch'[n][k] \in {NoRow, source[k]}
    BY <2>1
  <2>3. \A m \in Chunks \ {n} : batch'[m] = batch[m]
    BY <2>1
  <2> QED
    BY <1>1, <1>3, <2>2, <2>3 DEF Transfer!FetchPage
<1>4. CASE Transfer!CloseTable(n)
  BY <1>1, <1>4 DEF Transfer!CloseTable
<1> QED
  BY <1>2, <1>3, <1>4 DEF PageStep

LEMMA PagesKeepInvariant ==
  ASSUME TypeInvariant, RunInvariant, NEW n \in Chunks, PageStep(n)
  PROVE  RunInvariant'
<1> TypeOK /\ PhaseInvariant
  BY DEF TypeInvariant, RunInvariant
<1>1. /\ OfTable /\ ~config.delete /\ ~config.dynamic
      /\ UNCHANGED <<config, source, target, version, keysStaging, phase, runVersion, bounds,
                     counted, report, undisturbed>>
      /\ pc[n] \in {"prepare", "fetch"} /\ pc'[n] \in {"fetch", "upsert", "done"}
      /\ \A m \in Chunks \ {n} : pc'[m] = pc[m] /\ batch'[m] = batch[m] /\ known'[m] = known[m]
      /\ pc'[n] = "upsert" => \A k \in Keys : batch'[n][k] \in {NoRow, source[k]}
  BY PagesOf
<1>2. phase = "running" /\ n = 1
  <2>1. phase \in {"idle", "validated", "counted", "running", "reported"}
    BY DEF TypeOK
  <2> QED
    BY <1>1, <2>1 DEF PhaseInvariant
<1>3. PhaseInvariant'
  <2>1. Transferred' = Transferred
    BY <1>1, TransferredStays
  <2>2. ~ToMongo' /\ ~ToSql' /\ ~OfMongo'
    BY <1>1 DEF OfTable, ToMongo, ToSql, OfMongo
  <2>3. /\ phase' = "running" /\ ~config'.dynamic
        /\ pc'[n] \in {"fetch", "upsert", "done"}
        /\ \A m \in Chunks \ {n} : pc'[m] = pc[m] /\ m # 1
        /\ counted' = counted
    BY <1>1, <1>2
  <2>4. ASSUME NEW m \in Chunks
        PROVE  /\ pc'[m] = "idle" => counted'[m] = 0
               /\ m # 1 => pc'[m] \in {"idle", "done"} /\ counted'[m] = 0
               /\ pc'[m] \notin {"scope", "delete", "ids", "drop", "bulk", "insert"}
    <3>1. CASE m = n
      BY <1>2, <2>3, <3>1
    <3>2. CASE m # n
      BY <1>1, <2>3, <3>2 DEF PhaseInvariant
    <3> QED
      BY <3>1, <3>2
  <2> QED
    BY <2>2, <2>3, <2>4 DEF PhaseInvariant
<1>4. ASSUME undisturbed' PROVE PlanInvariant' /\ \A m \in Chunks : TaskInvariant(m)'
  <2>1. PlanInvariant /\ \A m \in Chunks : TaskInvariant(m)
    BY <1>1, <1>4 DEF RunInvariant
  <2>2. PlanInvariant'
    <3>1. \A m \in Chunks : TaskRange(m)' = TaskRange(m) /\ (Assigned(m)' <=> Assigned(m))
      BY <1>1, RangesStay
    <3> QED
      BY <1>1, <1>2, <2>1, <3>1 DEF PlanInvariant, IsPlanned, OfMongo, RowsOf
  <2>3. ASSUME NEW m \in Chunks PROVE TaskInvariant(m)'
    <3>1. OfTable' /\ ~config'.delete
      BY <1>1 DEF OfTable
    <3>2. BatchInvariant(m)'
      BY <1>1, <2>1 DEF TaskInvariant, BatchInvariant, Streaming
    <3>3. FindInvariant(m)'
      <4>1. CASE m = n
        BY <1>1, <4>1 DEF FindInvariant
      <4>2. CASE m # n
        BY <1>1, <2>1, <4>2 DEF TaskInvariant, FindInvariant, RowsOf
      <4> QED
        BY <4>1, <4>2
    <3>4. InsertInvariant(m)'
      BY <1>3, <3>1 DEF PhaseInvariant, InsertInvariant, ToSql, OfTable
    <3> QED
      BY <3>1, <3>2, <3>3, <3>4 DEF TaskInvariant, KeysInvariant
  <2> QED
    BY <2>2, <2>3
<1> QED
  BY <1>1, <1>3, <1>4 DEF RunInvariant, IsUnique

LEMMA StutteringKeepsInvariant == ASSUME RunInvariant, UNCHANGED vars PROVE RunInvariant'
<1> UNCHANGED <<config, source, target, version, keysStaging, phase, runVersion, total, bounds,
                scope, pc, unread, batch, known, counted, report, undisturbed>>
  BY DEF vars
<1>1. PhaseInvariant'
  BY PhasesStay DEF RunInvariant
<1>2. \A n \in Chunks : TaskRange(n)' = TaskRange(n) /\ (Assigned(n)' <=> Assigned(n))
                        /\ TaskScope(n)' = TaskScope(n)
  BY RangesStay
<1>3. PlanInvariant => PlanInvariant'
  BY <1>2 DEF PlanInvariant, IsPlanned, OfMongo, RowsOf
<1>4. ASSUME NEW n \in Chunks, TaskInvariant(n) PROVE TaskInvariant(n)'
  <2>1. /\ RowsOf(batch[n])' = RowsOf(batch[n]) /\ RowsOf(known[n])' = RowsOf(known[n])
        /\ RowsOf(source)' = RowsOf(source)
        /\ Unwritten(n)' = Unwritten(n) /\ Uncounted(n)' = Uncounted(n)
    BY DEF RowsOf, Unwritten, Uncounted
  <2>2. Orphans(n)' = Orphans(n)
    BY <1>2, <2>1 DEF Orphans, RowsOf
  <2>3. \A k : InTarget(k)' <=> InTarget(k)
    BY DEF InTarget
  <2>4. BatchInvariant(n)' /\ FindInvariant(n)'
    BY <1>4, <2>1 DEF TaskInvariant, BatchInvariant, FindInvariant
  <2>5. KeysInvariant(n)'
    BY <1>2, <1>4, <2>1, <2>2 DEF TaskInvariant, KeysInvariant
  <2>6. InsertInvariant(n)'
    <3>1. /\ Deleted(n)' = Deleted(n) /\ Locked(n)' = Locked(n) /\ Late(n)' = Late(n)
          /\ Conflicts(target, batch[n])' = Conflicts(target, batch[n])
      BY DEF Locked, Deleted, Conflicts, Late, RowsOf
    <3> QED
      BY <1>2, <1>4, <3>1 DEF TaskInvariant, InsertInvariant
  <2>7. ~OfTable => CopyInvariant(n)' /\ CountInvariant(n)'
    BY <1>2, <1>4, <2>1, <2>3 DEF TaskInvariant, CopyInvariant, CountInvariant
  <2> QED
    BY <2>4, <2>5, <2>6, <2>7 DEF TaskInvariant, OfTable
<1> QED
  BY <1>1, <1>3, <1>4 DEF RunInvariant, IsUnique

\* If values are unique in the source, and the scope of a chunked delete follows the order
\* of the chunks, what a run has copied, collected and counted fits, at every moment.
THEOREM RunInvariantHolds == ASSUME UniqueValues, ScopesInStep PROVE Spec => []RunInvariant
<1>1. TypeInvariant /\ Init => RunInvariant
  BY InitiallyNothingRuns DEF TypeInvariant
<1>2. TypeInvariant /\ RunInvariant /\ [Next]_vars => RunInvariant'
  <2> SUFFICES ASSUME TypeInvariant, RunInvariant, [Next]_vars PROVE RunInvariant'
    OBVIOUS
  <2> TypeOK
    BY DEF TypeInvariant
  <2>1. CASE CommonStep
    <3>1. config.delete /\ config.dynamic => InStep(config)
      BY DEF ScopesInStep, TypeOK
    <3> QED
      BY <2>1, <3>1, CommonStepsKeepInvariant
  <2>2. ASSUME NEW n \in Chunks, PageStep(n) PROVE RunInvariant'
    BY <2>2, PagesKeepInvariant
  <2>3. CASE UNCHANGED vars
    BY <2>3, StutteringKeepsInvariant
  <2> QED
    BY <2>1, <2>2, <2>3, StepsAreCommon
<1> QED
  BY <1>1, <1>2, TypesHold, PTL DEF Spec

-----------------------------------------------------------------------------
(* What a run that has been reported has done *)

\* From a query, a collection or a table in chunks, every row is in the target as it is in
\* the source.
THEOREM RunsCopyTheSource ==
  ASSUME UniqueValues, ScopesInStep PROVE Spec => [](OfTable \/ RunCopiesSource)
<1>1. TypeInvariant /\ RunInvariant => OfTable \/ RunCopiesSource
  <2> SUFFICES ASSUME RunInvariant, ~OfTable, phase = "reported", undisturbed,
                      NEW k \in RowsOf(source), IsPlanned(k), version[k] <= runVersion
               PROVE  target[k] = source[k]
    BY DEF RunCopiesSource
  <2>1. PICK n \in Chunks : Assigned(n) /\ k \in TaskRange(n)
    BY DEF RunInvariant, PlanInvariant
  <2>2. pc[n] = "done"
    BY DEF RunInvariant, PhaseInvariant
  <2> QED
    BY <2>1, <2>2 DEF RunInvariant, TaskInvariant, CopyInvariant, Streamed, InTarget
<1> QED
  BY <1>1, TypesHold, RunInvariantHolds, PTL

\* No chunk leaves a row in its scope that the source does not have.
THEOREM RunsRemoveOrphans ==
  ASSUME UniqueValues, ScopesInStep PROVE Spec => []RunRemovesOrphans
<1>1. TypeInvariant /\ RunInvariant => RunRemovesOrphans
  <2> SUFFICES ASSUME TypeInvariant, RunInvariant, phase = "reported", config.delete, undisturbed,
                      NEW k \in RowsOf(target) \ RowsOf(source), NEW n \in Chunks,
                      InBounds(config.scopeColumn, ScopeOf(n), k)
               PROVE  FALSE
    BY DEF RunRemovesOrphans, Deletes, InRunScope
  <2>1. config \in Configurations /\ config.dynamic \in BOOLEAN
    BY HasColumns DEF TypeInvariant, TypeOK
  <2>2. \A m \in Chunks : Assigned(m) => Orphans(m) = {}
    BY DEF RunInvariant, PhaseInvariant, TaskInvariant, KeysInvariant
  <2>3. ScopeOf(n) = TaskScope(n)
    BY <2>1 DEF ScopeOf, TaskScope, ChunkScope, ScopesInStep, InStep, OfMongo
  <2>4. CASE config.dynamic
    <3>1. Orphans(n) # {}
      BY <2>3 DEF Orphans
    <3>2. bounds[n] = NoBounds
      BY <2>2, <2>4, <3>1 DEF Assigned
    <3>3. \A column, j : ~InBounds(column, NoBounds, j)
      BY DEF InBounds, NoBounds
    <3>4. \A column : BoundsOf(column, {}) = NoBounds
      BY DEF BoundsOf, Bounds
    <3>5. ScopeOf(n) = NoBounds
      BY <2>4, <3>2, <3>3, <3>4 DEF ScopeOf
    <3> QED
      BY <3>3, <3>5
  <2>5. CASE ~config.dynamic
    <3>1. 1 \in Chunks
      BY KeysAreCountable, ConfigIsSound DEF Chunks
    <3>2. k \in Orphans(1)
      BY <2>3, <2>5 DEF Orphans, TaskScope
    <3> QED
      BY <2>2, <3>1, <3>2 DEF Assigned
  <2> QED
    BY <2>1, <2>4, <2>5
<1> QED
  BY <1>1, TypesHold, RunInvariantHolds, PTL

\* The report counts every row of the plan, whichever batches the tasks had and however
\* often they were tried.
THEOREM ReportsCountRows ==
  ASSUME UniqueValues, ScopesInStep PROVE Spec => [](OfTable \/ ReportCountsRows)
<1>1. TypeInvariant /\ RunInvariant => OfTable \/ ReportCountsRows
  BY ReportsAddUp DEF TypeInvariant, ReportCountsRows, Planned
<1> QED
  BY <1>1, TypesHold, RunInvariantHolds, PTL

\* No step of one task undoes what another has copied, and none undoes its own.
THEOREM SyncedRowsAreKept ==
  ASSUME UniqueValues, ScopesInStep PROVE Spec => SyncedRowsStay
<1> DEFINE Stays == undisturbed' /\ undisturbed =>
                      \A k \in RowsOf(source) : target[k] = source[k] => target'[k] = target[k]
<1>1. TypeInvariant /\ RunInvariant /\ [Next]_vars => [Stays]_vars
  <2> SUFFICES ASSUME TypeInvariant, RunInvariant, Next, undisturbed',  undisturbed
               PROVE  Stays
    OBVIOUS
  <2> TypeOK /\ PhaseInvariant /\ IsUnique(source)
    BY DEF TypeInvariant, RunInvariant
  <2>1. CASE \E n \in Chunks : TaskStep(n)
    <3>1. PICK n \in Chunks : TaskStep(n)
      BY <2>1
    <3>2. BatchInvariant(n) /\ KeysInvariant(n) /\ InsertInvariant(n)
      BY DEF RunInvariant, TaskInvariant
    <3>3. config.delete /\ config.dynamic => InStep(config)
      BY DEF ScopesInStep, TypeOK
    <3>4. RowsKept
      BY <3>1, <3>2, <3>3, TasksKeep
    <3> QED
      BY <3>4 DEF RowsKept
  <2>2. CASE RunStep
    BY <2>2 DEF RunStep, BeginRun, CountTotal, ExpandChunks, BeginTask, GiveUpRun, ReportRun,
                LeaveRun, tableVars
  <2>3. CASE \E change \in Changes : ChangeSource(change[1], change[2])
    BY <2>3 DEF ChangeSource, tableVars
  <2>4. ASSUME NEW n \in Chunks, PageStep(n) PROVE Stays
    BY <2>4, PagesOf
  <2> QED
    BY <2>1, <2>2, <2>3, <2>4, StepsAreCommon DEF CommonStep
<1> QED
  BY <1>1, TypesHold, RunInvariantHolds, PTL DEF Spec, SyncedRowsStay

-----------------------------------------------------------------------------
(* Which batches are rejected *)

\* No batch is rejected for a value that another task moves between rows: what the first
\* statement has deleted stays deleted, and no other task writes a row with a value of
\* the batch.  The reason is a row that another task, which has it in its range, too, has
\* copied between two of the statements, or a fault.
THEOREM RejectionsHaveSharedRows ==
  ASSUME UniqueValues, ScopesInStep PROVE Spec => RejectedOnlyOnSharedRows
<1> DEFINE Shared == faults' = faults /\ undisturbed /\ undisturbed' =>
                       \A n \in Chunks :
                         pc[n] # "failed" /\ pc'[n] = "failed" =>
                           \E m \in Chunks \ {n}, k \in RowsOf(batch[n]) :
                             Assigned(m) /\ k \in TaskRange(m) /\ target[k] = source[k]
<1>1. TypeInvariant /\ RunInvariant /\ [Next]_vars => [Shared]_vars
  <2> SUFFICES ASSUME TypeInvariant, RunInvariant, Next, faults' = faults, undisturbed,
                      NEW n \in Chunks, pc[n] # "failed", pc'[n] = "failed"
               PROVE  \E m \in Chunks \ {n}, k \in RowsOf(batch[n]) :
                        Assigned(m) /\ k \in TaskRange(m) /\ target[k] = source[k]
    OBVIOUS
  <2> TypeOK /\ pc \in [Chunks -> Locations]
    BY DEF TypeInvariant, TypeOK
  <2>1. TaskStep(n)
    <3>1. ASSUME NEW m \in Chunks, TaskStep(m) PROVE m = n
      BY <3>1, OthersStay DEF Of
    <3>2. CASE RunStep
      BY <3>2
         DEF RunStep, BeginRun, CountTotal, ExpandChunks, BeginTask, GiveUpRun, ReportRun,
             LeaveRun, FirstStep
    <3>3. CASE \E change \in Changes : ChangeSource(change[1], change[2])
      BY <3>3 DEF ChangeSource
    <3>4. ASSUME NEW m \in Chunks, PageStep(m) PROVE FALSE
      BY <3>4, PagesOf
    <3> QED
      BY <3>1, <3>2, <3>3, <3>4, StepsAreCommon DEF CommonStep
  <2>2. PICK tables : RejectUpsert(n, tables)
    BY <2>1, FailuresHaveCauses
  <2>3. pc[n] = "insert" /\ Late(n) \cup Duplicates(n) # {}
    BY <2>2 DEF RejectUpsert, EndUpsert, Goto
  <2>4. InsertInvariant(n)
    BY DEF RunInvariant, TaskInvariant
  <2>5. Late(n) # {}
    BY <2>3, <2>4, DuplicatesAreDeleted
  <2> QED
    BY <2>3, <2>4, <2>5 DEF InsertInvariant, Late
<1> QED
  BY <1>1, TypesHold, RunInvariantHolds, PTL DEF Spec, RejectedOnlyOnSharedRows

=============================================================================
