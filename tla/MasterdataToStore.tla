------------------------- MODULE MasterdataToStore --------------------------
(***************************************************************************)
(* MSSQLToMSSQLQueryOrchestrator in the DAG of                             *)
(* mssql_masterdata_to_mssql_store_sync_dag_factory: the rows of one       *)
(* store, from the publisher at headquarters to the SQL Server of the      *)
(* store.                                                                  *)
(***************************************************************************)
EXTENDS MSSQLTarget

Here == config.direction = "masterdata_to_store"

\* build_chunk_plan_query: NTILE, NULL sorts first.
ChunkPlan == NTilePlan(TRUE)

\* build_chunk_source_query: a range of the plan, both ends included.
ChunkSource(n) == {k \in RowsOf(source) : InBounds(config.chunkColumn, bounds[n], k)}

FetchScopeBounds(n) == FetchBounds(n, BoundsOf(config.scopeColumn, RowsOf(source)))

\* Another scope column is looked up in the rows of the chunk as they are now.
FetchChunkDeleteScopeBounds(n) ==
  FetchChunkBounds(n,
    IF config.scopeColumn = config.chunkColumn THEN bounds[n]
    ELSE BoundsOf(config.scopeColumn, ChunkSource(n)))

FinalizeDeleteMissing(n) == DeleteMissingInScope(n) \/ DropKeysStagingTable(n)

PlanSyncChunks == CountTotal \/ ExpandChunks(ChunkPlan)

\* The loop over the batches, and what ends it before its time.
CopyRows(n, rows) ==
  \/ BeginStream(n, rows) \/ FetchBatch(n) \/ UpsertBatch(n)
  \/ AppendKeysToStaging(n) \/ EndOfStream(n)
  \/ ReadFails(n) \/ UpsertFails(n)

SyncDataChunk(n) ==
  /\ config.dynamic
  /\ CopyRows(n, ChunkSource(n)) \/ FetchChunkDeleteScopeBounds(n) \/ FinalizeDeleteMissing(n)

SyncData(n) ==
  /\ ~config.dynamic
  /\ \/ FetchScopeBounds(n) \/ CountRows(n) \/ CopyRows(n, RowsOf(source))
     \/ FinalizeDeleteMissing(n)

-----------------------------------------------------------------------------
(* The tasks of mssql_masterdata_to_mssql_store_sync_dag_factory *)

\* The store's number is given, the servers at headquarters answer.
ValidateConnections == BeginRun({1})

\* The store is looked up, and the run fails for a number nobody knows.
FetchStoreServerConnection == GiveUpRun

\* The store's own server has to answer, too.
ValidateStoreConnection == GiveUpRun

CreateSyncChunks == PlanSyncChunks \/ GiveUpRun

SyncStore == BeginTask \/ \E n \in Chunks : SyncData(n)

SyncStoreChunk == \E n \in Chunks : SyncDataChunk(n)

\* The report adds up the results that are successes.
ReportSyncMetrics == ReportRun(Transferred)

CreateDag ==
  \/ ValidateConnections \/ FetchStoreServerConnection \/ ValidateStoreConnection
  \/ CreateSyncChunks \/ SyncStore \/ SyncStoreChunk
  \/ \E n \in Chunks : RetryTask(n)
  \/ ReportSyncMetrics \/ EndRun

Next == Here /\ CreateDag

=============================================================================
