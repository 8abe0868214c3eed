---------------------------- MODULE MSSQLToKafka ----------------------------
(***************************************************************************)
(* MSSQLToKafkaQueryOrchestrator and the DAG of                            *)
(* mssql_to_kafka_sync_dag_factory: SQL Server to a topic. Nothing is      *)
(* deleted; every message carries the version_id of its run, the execution *)
(* date. The DAG sets fail_on_error: a batch that cannot be sent fails the *)
(* task.                                                                   *)
(***************************************************************************)
EXTENDS KafkaProducer

Here == config.direction = "mssql_to_kafka"

\* build_chunk_plan_query: NTILE in SQL Server, NULL sorts first.
ChunkPlan == NTilePlan(TRUE)

\* build_chunk_source_query: a range of the plan, both ends included.
ChunkSource(n) == {k \in RowsOf(source) : InBounds(config.chunkColumn, bounds[n], k)}

PlanSyncChunks == CountTotal \/ ExpandChunks(ChunkPlan)

\* The loop over the batches, and what ends it before its time.
CopyRows(n, rows) ==
  \/ BeginStream(n, rows) \/ FetchBatch(n) \/ SendBatchToKafka(n)
  \/ AppendKeys(n, {}) \/ EndOfStream(n)
  \/ ReadFails(n) \/ SendFails(n)

SyncDataChunk(n) == config.dynamic /\ CopyRows(n, ChunkSource(n))

SyncData(n) ==
  /\ ~config.dynamic
  /\ CountRows(n) \/ CopyRows(n, RowsOf(source))

-----------------------------------------------------------------------------
(* The tasks of mssql_to_kafka_sync_dag_factory *)

ValidateConnections == BeginRun(Versions)

CreateSyncChunks == PlanSyncChunks \/ GiveUpRun

SyncTask == BeginTask \/ \E n \in Chunks : SyncData(n)

SyncChunkTask == \E n \in Chunks : SyncDataChunk(n)

ReportSyncMetrics == ReportRun(Transferred)

CreateDag ==
  \/ ValidateConnections \/ CreateSyncChunks \/ SyncTask \/ SyncChunkTask
  \/ \E n \in Chunks : RetryTask(n)
  \/ ReportSyncMetrics \/ EndRun

Next == Here /\ CreateDag

=============================================================================
