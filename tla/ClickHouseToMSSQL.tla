------------------------- MODULE ClickHouseToMSSQL --------------------------
(***************************************************************************)
(* ClickHouseToMSSQLQueryOrchestrator and the DAG of                       *)
(* clickhouse_to_mssql_sync_dag_factory: ClickHouse, which sorts NULL      *)
(* last, to SQL Server.                                                    *)
(***************************************************************************)
EXTENDS MSSQLTarget

Here == config.direction = "clickhouse_to_mssql"

\* build_chunk_plan_query: NTILE, NULL sorts last.
ChunkPlan == NTilePlan(FALSE)

\* build_chunk_source_query: a range of the plan, both ends included.
ChunkSource(n) == {k \in RowsOf(source) : InBounds(config.chunkColumn, bounds[n], k)}

FetchScopeBounds(n) == FetchBounds(n, BoundsOf(config.scopeColumn, RowsOf(source)))

\* Another scope column is looked up in the rows of the chunk as they are now.
FetchChunkDeleteScopeBounds(n) ==
  FetchChunkBounds(n,
    IF config.scopeColumn = config.chunkColumn THEN bounds[n]
    ELSE BoundsOf(config.scopeColumn, ChunkSource(n)))

FinalizeDeleteMissing(n) == DeleteMissingInScope(n) \/ DropKeysStagingTable(n)

PlanSyncChunks == CountTotal \/ ExpandChunks(ChunkPlan)

\* The loop over the batches, and what ends it before its time.
CopyRows(n, rows) ==
  \/ BeginStream(n, rows) \/ FetchBatch(n) \/ UpsertBatch(n)
  \/ AppendKeysToStaging(n) \/ EndOfStream(n)
  \/ ReadFails(n) \/ UpsertFails(n)

SyncDataChunk(n) ==
  /\ config.dynamic
  /\ CopyRows(n, ChunkSource(n)) \/ FetchChunkDeleteScopeBounds(n) \/ FinalizeDeleteMissing(n)

SyncData(n) ==
  /\ ~config.dynamic
  /\ \/ FetchScopeBounds(n) \/ CountRows(n) \/ CopyRows(n, RowsOf(source))
     \/ FinalizeDeleteMissing(n)

-----------------------------------------------------------------------------
(* The tasks of clickhouse_to_mssql_sync_dag_factory *)

ValidateConnections == BeginRun({1})

CreateSyncChunks == PlanSyncChunks \/ GiveUpRun

SyncTask == BeginTask \/ \E n \in Chunks : SyncData(n)

SyncChunkTask == \E n \in Chunks : SyncDataChunk(n)

ReportSyncMetrics == ReportRun(Transferred)

CreateDag ==
  \/ ValidateConnections \/ CreateSyncChunks \/ SyncTask \/ SyncChunkTask
  \/ \E n \in Chunks : RetryTask(n)
  \/ ReportSyncMetrics \/ EndRun

Next == Here /\ CreateDag

=============================================================================
