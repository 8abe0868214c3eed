--------------------------- MODULE MongoDBToMSSQL ---------------------------
(***************************************************************************)
(* MongoDBToMSSQLQueryOrchestrator and the DAG of                          *)
(* mongo_to_mssql_sync_dag_factory: MongoDB to SQL Server. The ranges of   *)
(* the chunks are the buckets of $bucketAuto: a bucket ends at the value   *)
(* the next one begins with, so that both copy that row, and the bucket of *)
(* null has no range at all.                                               *)
(***************************************************************************)
EXTENDS MSSQLTarget

Here == config.direction = "mongo_to_mssql"

\* Mutant: the end of a bucket is left to the next one, the last one's as well.
HalfOpenRange(n) ==
  {k \in RowsOf(source) : /\ InBounds(config.chunkColumn, bounds[n], k)
                          /\ config.chunkColumn[k] < bounds[n][2]}

\* stream_collection: without both ends there is no filter, and it reads everything.
StreamRange(n) ==
  {k \in RowsOf(source) : Null \in {bounds[n][1], bounds[n][2]}
                          \/ InBounds(config.chunkColumn, bounds[n], k)}

\* get_field_bounds
FetchScopeBounds(n) == FetchBounds(n, BoundsOf(config.scopeColumn, RowsOf(source)))

\* The scope of a chunk's delete is its own range, whatever the scope column.
UseChunkBounds(n) == FetchChunkBounds(n, bounds[n])

FinalizeDeleteMissing(n) == DeleteMissingInScope(n) \/ DropKeysStagingTable(n)

\* plan_bucket_chunks
PlanBucketChunks == \E plan \in BucketPlans : ExpandChunks(plan)

PlanSyncChunks == CountTotal \/ PlanBucketChunks

\* The loop over the batches, and what ends it before its time.
CopyRows(n, rows) ==
  \/ BeginStream(n, rows) \/ FetchBatch(n) \/ UpsertBatch(n)
  \/ AppendKeysToStaging(n) \/ EndOfStream(n)
  \/ ReadFails(n) \/ UpsertFails(n)

SyncDataChunk(n) ==
  /\ config.dynamic
  /\ CopyRows(n, StreamRange(n)) \/ UseChunkBounds(n) \/ FinalizeDeleteMissing(n)

SyncData(n) ==
  /\ ~config.dynamic
  /\ \/ FetchScopeBounds(n) \/ CountRows(n) \/ CopyRows(n, RowsOf(source))
     \/ FinalizeDeleteMissing(n)

-----------------------------------------------------------------------------
(* The tasks of mongo_to_mssql_sync_dag_factory *)

ValidateConnections == BeginRun({1})

CreateSyncChunks == PlanSyncChunks \/ GiveUpRun

SyncTask == BeginTask \/ \E n \in Chunks : SyncData(n)

SyncChunkTask == \E n \in Chunks : SyncDataChunk(n)

ReportSyncMetrics == ReportRun(Transferred)

CreateDag ==
  \/ ValidateConnections \/ CreateSyncChunks \/ SyncTask \/ SyncChunkTask
  \/ \E n \in Chunks : RetryTask(n)
  \/ ReportSyncMetrics \/ EndRun

Next == Here /\ CreateDag

=============================================================================
