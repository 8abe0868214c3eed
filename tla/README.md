# airflow-pipeline in TLA+

This directory specifies the concurrency- and failure-sensitive core of the
airflow-pipeline repository (`src/`): how rows travel between SQL Server, MySQL,
PostgreSQL, MongoDB, ClickHouse and Kafka, what is lost, duplicated, overwritten
or deleted on the way when tasks run in parallel, fail and are retried, how a
parent DAG starts and awaits the DAG runs of its stores, and what can be relied
upon. TLC checks small instances; for the SQL Server writer, the Kafka consumer
side, chunked synchronisation, the other directions and the trigger of DAG runs,
TLAPS proves the invariants and action properties for every value of the constants.

## 1. Inventory of the system

Airflow DAG factories (`src/dags/template/`) build DAGs whose tasks call
orchestrators (`src/pipeline/core/`); an orchestrator pulls batches from a
reader (`src/pipeline/database/*Reader.py`, `src/pipeline/kafka/`) and pushes
them into a writer (`src/pipeline/database/*Writer.py`) or a Kafka producer.
There is no shared memory between tasks. They share the target table, the
staging tables (by name), the consumer group's offsets and Airflow's records.

| Component | State | Operations | Interacts through |
|---|---|---|---|
| MSSQL writer (`database/MSSQLServerWriter.py`) | upsert staging table, keys staging table, an open transaction and its locks, a retry counter | `upsert_batch` (load, conflict DELETE, MERGE, cleanup, finalize, deadlock retry), `prepare_keys_staging_table`, `append_keys_to_staging`, `delete_missing_in_scope`, `drop_keys_staging_table` | SQL Server tables and locks |
| Kafka consumer (`kafka/KafkaDataConsumer.py`) | assignment, positions, the batch, offsets to commit, idle polls | `stream_messages`, `commit_offsets` | broker, committed offsets |
| Kafka to MSSQL orchestrator (`core/KafkaToMSSQLQueryOrchestrator.py`) | key bounds, counters | `plan_sync_chunks`, `sync_data`, `sync_data_chunk` | consumer, writer |
| MSSQL to MSSQL orchestrator (`core/MSSQLToMSSQLQueryOrchestrator.py`) | the plan (ranges), scope bounds, counters | `get_total_count`, `plan_sync_chunks`, `sync_data_chunk`, `sync_data` | reader, writer, XCom |
| MSSQL reader (`database/MSSQLDataReader.py`) | a cursor; last key and page counters in `stream_data` | `stream_query`, `stream_data` | source database |
| DAG factories | Airflow's task states, XCom | validate, count, plan, chunk tasks, retries, report | orchestrators |
| MySQL and PostgreSQL writers (`database/MySQLServerWriter.py`, `database/PostgreSQLServerWriter.py`) | as the MSSQL writer | as the MSSQL writer, with UPDATE and INSERT for the MERGE | tables of those servers |
| MongoDB writer (`database/MongoDBServerWriter.py`) | a keys staging collection | `upsert_batch` (find, `bulk_write`), `delete_missing_in_scope` (collect ids, `delete_many`), keys | collections |
| ClickHouse writer (`database/ClickHouseWriter.py`) | none; each row carries a version | `upsert_batch` | a ReplacingMergeTree table |
| Orchestrators of the other directions (`core/*QueryOrchestrator.py`) and their readers | as MSSQL to MSSQL | as MSSQL to MSSQL | reader, writer, XCom |
| Transfer orchestrator (`core/MSSQLDataTransferOrchestrator.py`) and its DAGs | last key, rows processed, a count | `transfer_table_data` (keyset pages), `transfer_query_data`, verification of the count | producer, ClickHouse writer |
| Kafka producer (`kafka/IdempotentKafkaProducer.py`) | queue of unacknowledged messages, delivery counters | produce, flush, delivery callbacks | broker |
| DagSyncTrigger (`core/DagSyncTrigger.py`) | run ids, results of each DAG and store, runs waited for, the retry attempt | `trigger_stores`: look up, trigger (create, reset, clear), wait, trigger failed runs again | Airflow's API server or metadata database, the scheduler |
| Error classification and retry helper (`core/exceptions.py`, `utils/retry_helper.py`) | attempt counters | classify, retry with back-off | everything above |
| ClickHouse optimizer, topic management, health monitor, connection factories, configuration, audit log, calendar | none that another component's correctness depends on | | |

What is hard about it, and the correctness that follows:

* **A writer call is two transactions and a clean-up that commits.** The staging
  table is loaded and committed, then the conflict DELETE and MERGE run, then
  `_cleanup_staging_table` drops the staging table *and commits*, then
  `_finalize_connection` commits or rolls back. Failures of the last two are
  logged and swallowed. A call should be one atomic merge, or fail; it should
  never merge rows that were left in a staging table by somebody else.
* **Parallel tasks upsert into one table** and delete each other's rows when they
  hold one of their unique values; they block, deadlock and start over. No task
  may undo what another reports as written, and every call has to end.
* **At-least-once from Kafka.** Offsets are committed after the MERGE; between
  the two everything may fail. A retry starts at the committed offsets; a
  partition has one task, which batches messages and flushes the batch on its
  size, on idle polls and at the message limit. No message may be passed over,
  no row may go back behind a committed message.
* **A plan that is stale when it is used.** Rows are counted, dealt into
  tiles by NTILE, and read later by tasks that are retried with the old ranges,
  while the source changes. Ranges of neighbouring chunks overlap when values of
  the chunk column repeat. A run has to copy every row, and deleting what is
  missing must spare what is not.
* **The other servers have less to offer.** MySQL commits before every DROP, so
  the clean-up of a failed upsert keeps half of it; MongoDB has no transaction at
  all; ClickHouse shows the row with the highest version, whenever it was
  written; Kafka reports a failed delivery to a callback nobody reads.
* **Check, then act, on DAG runs.** A run is looked up, then triggered, cleared or
  awaited, in requests of their own, while the scheduler runs it and people clear
  it; the caller may die and be run again. A store reported as a success must have
  been synchronised, an active run must be left alone, and the call must end.
* **`delete_missing` is driven by collected keys**, collected by the same attempt,
  batch by batch, in a table that outlives a crash.

`PROJECT.json` lists every hazard at its line with the properties that cover it.

## 2. Modules

| Module | What it is |
|---|---|
| `MSSQLWriter` | `upsert_batch` of several sessions against one table |
| `BatchUpsert` | abstract specification: what a caller may assume of `upsert_batch` |
| `MSSQLWriterContract` | the refinement mapping from `MSSQLWriter` to `BatchUpsert` |
| `KafkaToMSSQL` | consumer, orchestrator and the DAG around them, with the writer's calls |
| `ChunkedSync` | planning, chunk tasks and the whole-table task of MSSQL to MSSQL |
| `QuerySync` | what all query orchestrators and their DAGs share: the state of a run and its tasks, and the steps of a task |
| `MSSQLTarget`, `MySQLWriter`, `PostgreSQLWriter`, `MongoDBWriter`, `ClickHouseWriter`, `KafkaProducer` | the upserts and deletes of each server, over the state of `QuerySync` |
| `MSSQLToMySQL`, `MSSQLToPostgreSQL`, `MSSQLToMongoDB`, `MSSQLToClickHouse`, `MSSQLToKafka`, `MySQLToMSSQL`, `PostgreSQLToMSSQL`, `ClickHouseToMSSQL`, `MongoDBToMSSQL`, `MasterdataToStore` | one direction each: its orchestrator and the tasks of its DAG |
| `DataTransfer` | the transfer of a table or a query to Kafka or ClickHouse, page by page, with its verification |
| `SyncInvariant` | what holds between the steps of a run of `QuerySync` while the source stands still |
| `SyncDirections` | any one of these DAGs, over a source that changes; the properties of a run |
| `DagSyncTrigger` | `trigger_stores` against Airflow |
| `NTile_proofs` | lemmas about the arithmetic of NTILE, for `ChunkedSync` and `QuerySync` |
| `QuerySync_proofs` | lemmas about plans, sums and each step of `QuerySync` and the writers |
| `*_proofs` | theorems about `MSSQLWriter`, `MSSQLWriterContract`, `KafkaToMSSQL`, `ChunkedSync`, `SyncDirections` and `DagSyncTrigger` |
| `MC*` | instances for TLC: batches, logs and tables small enough to enumerate |

The modules build on one another like this (an arrow is EXTENDS, `SyncDirections`
uses INSTANCE):

    QuerySync <- MySQLWriter      <- MSSQLToMySQL
              <- PostgreSQLWriter <- MSSQLToPostgreSQL
              <- MongoDBWriter    <- MSSQLToMongoDB
              <- ClickHouseWriter <- MSSQLToClickHouse
              <- KafkaProducer    <- MSSQLToKafka
              <- MSSQLTarget      <- MySQLToMSSQL, PostgreSQLToMSSQL, ClickHouseToMSSQL,
                                     MongoDBToMSSQL, MasterdataToStore
              <- KafkaProducer, ClickHouseWriter <- DataTransfer
              <- SyncInvariant    <- SyncDirections
    SyncDirections composes all of them; BatchUpsert is refined by MSSQLWriter.

`KafkaToMSSQL` and `ChunkedSync` do not instantiate `MSSQLWriter`: they use the
calls at the granularity its contract allows. `ChunkedSync.UpsertBatch` is
`BatchUpsert.Complete`; `WriteFails` allows what `BatchUpsert.Fail` does.
`KafkaToMSSQL` keeps the two transactions of the writer apart
(`LoadStagingTable`, `UpsertBatch`), because tasks that share a staging name
meet exactly there. Both have `UpsertLost` for a call "in doubt", whose MERGE the
clean-up rolls back while it reports success (`MSSQLServerWriter.py:365`, `:1048`).

### MSSQLWriter

State: `target` and `staging` are committed tables; `pending[s]` is what session
`s`'s open transaction has written, which is also what it holds locks on; `pc`
is the place in `upsert_batch`, `error` the exception in flight, `attempt` the
counter of `RetryContext`, `warned` a ghost that remembers that a failure was
logged instead of raised during this call.

| Code | Action |
|---|---|
| `upsert_batch`, empty batches | `UpsertBatch` |
| `_load_staging_table` with its `_finalize_connection` | `LoadStagingTable`, `LoadFails` |
| `_resolve_unique_keys`, `_delete_unique_key_conflicts` | `DeleteUniqueKeyConflicts` |
| MERGE in `_upsert_batch_once` | `ExecuteMerge`, `StatementRejected`, `StatementFails` |
| `_cleanup_staging_table` (drop, commit; or warn, rollback) | `CleanupStagingTable`, `CleanupFails`, `CleanupLosesConnection` |
| `_finalize_connection(commit=success)` | `FinalizeConnection` |
| the `except` clause and `RetryContext` | `RetryDeadlock`, `RaiseError` |
| error 1205, killed worker | `DeadlockVictim`, `TaskDies` |

The server is external: row locks until the end of the transaction, READ
COMMITTED, unique indexes checked by the MERGE, a lock monitor. Statements are
atomic. A row the MERGE does not change is neither written nor locked. Locks that
are not modelled (pages, ranges, catalog) are the reason why `DeadlockVictim`
may hit any session that has a rival.

### KafkaToMSSQL

`Log` is the topic, `produced` how much of it exists. Per task: `position`,
`batch` (positions in the log, so that each row remembers where it came from),
`offsets` to commit, `idle`, `processed`, `ending`. `applied` is a ghost: the
offsets whose message a committed MERGE contained. `PollMessage`, `PollIdle` and
`PollFails` are the loop of `_stream_with_consumer`; `LoadStagingTable` to
`CommitOffsets` the body of the loop in `_sync_consume`; `DeleteMissingInScope`
and `DropKeysStagingTable` its end. `StartTask` is a first run, a retry or the
next DAG run. MERGE is modelled with its duplicates: it refuses two inserts or
two effective updates of one key (`MergeAccepts`), and takes the one row that
differs from the table when there are two (`Effective`).

### ChunkedSync

The DAG run has `phase`, the plan has `total` and `range`, each chunk's task its
`pc`, the rows still to come (`unread`), the `batch`, the `scope` of its delete
and the keys staging table. `ChangeSource` may happen between any two steps.
A stream that is open while the source changes returns each row that stays once,
and rows that come and go in between or not (`FetchableRows`). `stayed` (rows in
the source ever since the task's stream began) and `quiet` are ghosts.
`TileEnd`, `ValueAt` and `TileRange` are NTILE, MIN and MAX of the planning
query; `Between` and `ChunkScope` the bounds of the delete. `UseDynamicTasks`
selects planned chunks or the single task of `sync_data`. A row's values in the
chunk and scope columns are fixed functions of its key: rows come and go and
change in other columns, a row that moves between chunks is not modelled.

### QuerySync, the writers and the directions

A DAG run goes through `phase`: validated, counted, running, reported. Each chunk
has a task with its `pc`, the keys its stream has not returned (`unread`), its
`batch`, its keys staging table, the bounds of its delete (`scope`) and its count.
`target` is what one sees in the target, `version` the version a row has in
ClickHouse. `undisturbed` is a ghost: since the run began the source has stood
still and no server has lost a commit or a delivery that the code reports as done.

| Code | Definitions |
|---|---|
| `validate_*_connection` tasks | `BeginRun`, `GiveUpRun` |
| `get_total_count`, `plan_sync_chunks`, `create_sync_chunks` | `CountTotal`, `NTilePlan` or `BucketPlans`, `ExpandChunks` |
| `sync_data`, `sync_data_chunk` | `SyncData`, `SyncDataChunk` of each direction: `FetchBounds`, `CountRows`, `BeginStream`, `FetchBatch`, the writer's `UpsertBatch`, `AppendKeys`, `FetchChunkBounds`, the writer's delete, `DropKeys` |
| `except` clauses, `raise_sync_task_error`, Airflow's retries | `ReadFails`, `WriteFails`, `FailTask`, `RetryTask` |
| `_normalize_sync_results`, `report_sync_metrics` | `Transferred`, `ReportRun` |
| `upsert_batch` of MySQL, PostgreSQL, SQL Server | `DeleteUniqueKeyConflicts`; then `Upsert` (UPDATE and INSERT of `UpsertBatchOnce`, or the MERGE), `RejectUpsert`, `DeadlockVictim` or `LoseUpsert`; `CleanupStagingTable` (what a failed call leaves) |
| `upsert_batch`, `delete_missing_in_scope` of MongoDB | `FindExisting`, `BulkWrite`; `FindMissing`, `DeleteById` |
| `upsert_batch` of ClickHouse | `InsertRows` |
| `send_batch_to_kafka` | `Flush`, `DeliveryFails`, `SendFails` |
| `stream_data`, `verify_transfer`, `verify_query_transfer` | `OpenTable`, `FetchPage`, `CloseTable`; `IsVerified` |

The directions look alike because their code does, and differ where the code does:
where NULL sorts in NTILE, that MongoDB plans buckets which share their borders and
reads everything for the bucket of null, that its chunks delete in their own range
whatever the scope column, that nothing is deleted in ClickHouse and Kafka, that
two connections of a store are checked.

**The statements of an SQL upsert** see what is committed when each of them begins,
while tasks of other chunks write. The conflict DELETE is a step of its own
(`DeleteConflicts`): it remembers in `known` what it found and locks what it deleted
(`Locked`), on which other tasks wait (`Waits`). Until the call ends others may
commit, and then the remaining statements do one of these things:

* `Upsert`: rows that have come in the meantime (`Late`) are updated, if the UPDATE
  sees them, or kept by the INSERT, if only that does; either outcome is allowed.
* `RejectUpsert`: a late row that the INSERT does not see violates the primary key, or a
  row with a unique value of the batch (`Duplicates`) the unique index. Neither error is
  transient: the task fails for good, and in MySQL and SQL Server the clean-up commits
  what was deleted. The MERGE has no HOLDLOCK, so that two tasks may insert one row there
  too; `MSSQLWriter`, whose sessions hold the locks of the rows they insert, takes it for
  one locked statement.
* `DeadlockVictim`: two transactions deadlock, and one starts over.
* `LoseUpsert`: the commit, or in SQL Server the clean-up, fails and is only logged.

UPDATE and INSERT stay one step: what lies between them shows in which of the late rows
each has seen. The load of the staging table, which nobody else reads, is part of the
first step. PostgreSQL's UPDATE says `SET target."col"`
(`PostgreSQLServerWriter.py:695`), which the server rejects; the model takes it as it
is meant. Collected keys may be lost with a commit that is only logged, and in
MongoDB one by one: `append_keys_to_staging` takes each error that tells how many keys
were inserted for one of duplicates (`MongoDBServerWriter.py:337`).

Whether a failed task is tried again is decided twice in the code: by the message
of the failed result, and by the exception raised for it (`raise_sync_task_error`).
`FailTask` has the three outcomes that are left: a lost link is retried, an error
that has only a code passes the first test and not the second and is final, and so
is a deadlock that outlasts the writer's own retries.

### DagSyncTrigger

`runs` is the state of each DAG run, which the scheduler (`StartRun`, `EndRun`) and
people (`DisturbRun`) change between any two requests of the call. The call is at
`pc` of `store` and its `next` DAG. `config` selects Task SDK or ORM, serial or
parallel, waiting or not. `synced` and `failures` are ghosts: runs that have ended
in success, and how often each has failed, since the call began. In ORM mode `synced`
begins with the runs that had succeeded before the call, which the code takes for
its own (4).

| Code | Action |
|---|---|
| `trigger_stores`, `trigger_store` | `TriggerStores`, `EndStore` |
| the loops of `_trigger_store_serial`, `_trigger_store_parallel` | `NextDag`, `HasNextDag`, `WaitForAll` |
| `_trigger_store_dag` | `LookUp` |
| `_trigger_dag`, `_trigger_dag_sdk`, `_trigger_dag_orm`, `_clear_dag_run_orm` | `TriggerDag`, `TriggerFails`, `AlreadyExists`, `ClearExisting`, `CreateAgain`, `StillExists` |
| `_wait_for_dag_runs` | `Poll`, `EndWait` |
| `_wait_for_dag_runs_with_retry`, `_apply_wait_failures` | `EndWait`, `RetryRun` |
| `_build_dag_statuses` | `ActionOf`, `StatusOf` |

Every request may fail. A lookup that fails is taken for a run that does not exist
(`Lookup`), a trigger whose answer is lost may have started the run
(`TriggerFails`), and the worker may die (`CallerDies`) and its task be run again
(`TriggerStores`), meeting the runs of the first call.

## 3. What is checked

Every run finishes without an error unless it is marked *violation*.

| Run | Instance | Shows |
|---|---|---|
| `writer_isolated` | 2 sessions, 3 keys, 3 unique values, 2 attempts, 2 faults out of statement, commit, drop, connection, crash; the table starts with rows that hold each other's unique values | `TypeOK`, `WriterInvariant` (inductive, see 5), `ReportedRowsPresent`, `WritesComeFromOpenCall`, `DeletesOnlyConflicts`, `FailedCallIsRolledBack`, `InsertOnlyKeepsRows`, and that each call refines `BatchUpsert` |
| `writer_deadlock` | sessions that want each other's keys and unique values | `CallTerminates` |
| `writer_failed_call` | *violation* | a call with unique keys whose MERGE failed commits its conflict DELETE |
| `kafka_chunks` | 2 partitions, a task each, 5 messages, batches of 2; one key is repeated, once within a batch, and one is in both partitions; 2 faults (broker, database, crash) | `AtLeastOnce`, `CommittedRowsNotStale`, `OffsetsNeverGoBack`, `DeliveryInvariant` (inductive), `EverythingGetsCommitted` |
| `kafka_broken_topic` | 2 overlapping runs of one partition that share all names, an unreadable message, a repeated key, `delete_missing`, 1 fault of any kind | `UnreadableNotSkipped`, `RowsComeFromTopic` |
| `kafka_lost_upsert` | *violation* | a failing drop of the staging table rolls the MERGE back, the offsets are committed |
| `chunk_tasks` | 4 keys, two of which share a value of the chunk column, chunks of 2, 1 change of the source, 1 fault | `RunCopiesSource`, `DeletesOnlyMissing`, `KeysInvariant` and `RunInvariant` (inductive), `TargetCatchesUp` |
| `chunk_whole` | `sync_data` without chunks, 3 keys, 2 changes, 2 faults including lost keys | `RunRemovesOrphans`, `RunInvariant` |
| `chunk_other_scope` | *violation* | a `delete_scope_column` other than the chunk column |
| `directions` | every direction in one task and in chunks, `delete_missing` on where there is one; 4 keys, 3 rows in the source, of which one is missing in the target and the others hold values of each other or of the missing one there, and a row only in the target; chunks and batches of 2; a chunk column with NULL, with a repeated value, and a scope column of its own; 1 change of the source; 1 fault of any kind | `RunCopiesSource`, `RunRemovesOrphans`, `RejectedOnlyOnSharedRows`, `ReportCountsRows`, `SyncedRowsStay`, `RunInvariant` (inductive) |
| `null_unique` | *violation* | rows without a unique value delete each other in MySQL and PostgreSQL |
| `store_trigger` | 2 DAGs of a store and 1 DAG of 2 stores, all 8 ways to make the call, 1 retry of failed runs, 2 calls, 2 failing requests or dying workers, 1 run cleared or deleted by somebody | `SuccessMeansSynced`, `FailedRunWasRetried`, `SerialOrderKept`, `ActiveRunNotReplaced`, `TriggerInvariant` (inductive), `CallEnds` |

**Bounds.** Two sessions or tasks are enough for every pairwise conflict the
properties speak of (locks, unique values, staging names, chunk borders); a
property that quantifies over sessions is proved for any number of them where it
matters most (5). Three keys let a batch have a row to write, one to leave and
one to conflict with; four keys make two tiles whose border falls between equal
values. Two attempts give one retry that succeeds and one that is the last. Two
faults let a failure hit the recovery from a failure. Faults and source changes
are bounded because the liveness properties are about what happens once they
stop. `MaxMessagesPerRun` is 0 (`None`) in the listed runs.

In `directions`, four keys are two chunks of two with a batch to spare, which is what
it takes for a unique value to move between batches and between chunks, for tiles to
be uneven (three rows), for buckets to share a border and for a page to end full or
not. Tasks with a row in common meet late rows, wait for each other's locks, and have
batches rejected without any fault; `Duplicates` stays empty there, and is proved to
as long as the source stands still. One fault is enough for each failure that the code recovers from; a fault during
the recovery is what `writer_isolated` and `chunk_whole` look at with two. In
`store_trigger` two faults let a lookup and a trigger fail, or the caller die and its
second call meet another error; one retry is both the first and the last. The
`ORM` way and `MaxOthers = 1` make a run change between a lookup and what follows.

**Fairness.** `MSSQLWriter`: weak fairness of the steps of a call, since a task
that runs keeps running; strong fairness of the two statements that can block,
since SQL Server queues lock requests; weak fairness of choosing a victim when
sessions wait in a cycle, since its lock monitor does that. `KafkaToMSSQL`:
weak fairness of starting tasks (the scheduler starts runs again and again) and
of the steps a task takes by itself; strong fairness of polling each partition,
since a poll may time out any number of times but a broker that is asked again
and again delivers. `ChunkedSync`: weak fairness of starting and ending runs
and of task steps; none of `RetryTask`, so tasks may be given up.

`DagSyncTrigger`: weak fairness of the steps of the call, which runs in one task,
and of each DAG run's next step, since the scheduler runs what is queued and its
tasks end; no fairness of `TriggerStores`, so that the task need not be run again,
and none of what other people do. `CallEnds` excepts a run that has gone.
`SyncDirections` has no fairness and no liveness property: that a target catches
up is checked in `ChunkedSync`, whose tasks are made of the same steps.

**Mutants.** Each property of a passing run has a mutated definition, beside the
original and commented as such, under which TLC finds the property violated.

## 4. Disagreements with the code's documentation

The four violation runs are listed as findings in `PROJECT.json`. While
modelling, more behaviours came up that differ from what comments or guides say.
Each shows with a change of a `.cfg`; no run is kept for them.

* `insert_only` with unique keys to resolve deletes existing rows
  (`MSSQLServerWriter.py:1010`, against `:865`): in `writer_isolated.cfg` let
  `ResolveUniqueKeys = {s1, s2}` and drop `\ ResolveUniqueKeys` from
  `InsertOnlyKeepsRows`.
* A unique index with a filter `IS NOT NULL` accepts many NULLs, but the conflict
  DELETE takes NULL for equal to NULL and removes such rows (`:73`, against
  `:158`): `FilteredIndex = TRUE`, a batch and a row with `NullValue`;
  `DeletesOnlyConflicts` fails.
* A batch with two versions of a row, the later equal to the one in the table,
  merges the earlier one (`KafkaToMSSQLQueryOrchestrator.py:194`): the row goes back
  behind a committed message, by less than a batch, which is all that
  `CommittedRowsNotStale` excludes. `kafka_chunks` has the case, without any fault:
  put 1 for `BatchSize` in `Fresh`. When neither is in the table MERGE refuses the batch,
  and the task fails for as long as the two stay in one batch. Versions of a row in two
  partitions, as messages without a key have (below), are in no order at all.
* Overlapping runs of one chunk share the staging table, which is named after the
  chunk and not the run (`KafkaToMSSQLQueryOrchestrator.py:297`; `max_active_runs`
  is configurable, `DAGConfig.py:34`): check `AtLeastOnce` with two tasks of one
  suffix; one merges the other's rows and commits its own offsets.
* A retry with `delete_missing` collects only the keys of what was left to consume
  and deletes rows the first attempt has merged (`:237`, against
  `MSSQLServerWriter.py:861`).
* Target rows whose key lies between the ranges of two chunks are never deleted
  (`MSSQLToMSSQLQueryOrchestrator.py:429`, against
  `docs/ARCHITECTURE_FA.md:146`): check `RunRemovesOrphans` with chunks and a
  source without key 3 of 5.
* Collected keys whose commit fails are lost with a warning, and the delete then
  removes rows just upserted (`MSSQLServerWriter.py:393`): add `"lost"` to
  `FaultKinds` in `chunk_tasks.cfg`; `RunCopiesSource` fails. A whole batch is lost in
  the same way when the clean-up of an upsert fails (`:375`, `UpsertLost`), with
  `DeleteMissing = FALSE` too.
* **Chunks with a row in common** (values of the chunk column that repeat at a border, all
  buckets of MongoDB): when their tasks insert the row at the same time, one of them gets
  a key violation, which is not transient, and the run fails
  (`PostgreSQLServerWriter.py:730`, `MySQLServerWriter.py:728`, `MSSQLServerWriter.py:970`).
  Let `RejectedOnlyOnSharedRows` say that no task fails without a fault.
* **MongoDB, collected keys**: `append_keys_to_staging` ignores every error that tells how
  many keys were inserted, not only duplicates, against its comment
  (`MongoDBServerWriter.py:337`); documents whose keys are missing are deleted at the end
  of the run.
* `null_unique` shows rows without a unique value that are deleted in MySQL and
  PostgreSQL; the MSSQL writer, whose index has a filter, does the same (above).
* **SQL sources, dynamic tasks**: rows with NULL in `chunk_column` are counted and
  dealt into tiles, but are in no range and never copied
  (`build_chunk_source_query`); the run is a success. Drop `IsPlanned` from
  `RunCopiesSource` or `ReportCountsRows`.
* **ClickHouse and Kafka to ClickHouse**: a run of an earlier date than one before
  writes rows that do not show, and reports them as transferred: drop
  `version[k] <= runVersion` from `RunCopiesSource`.
* **Keyset pages** (`MSSQLDataReader.stream_data`): a row that shares its key with
  the last row of a page is skipped; a page that ends in NULL, or an
  `order_by_column` that is not among `columns`, leaves no last key, and the first
  page is read again. Only `verify_transfer` notices, when the count differs by
  0.1 % or more; a page read twice can make up for one that is missing.
* **Failed deliveries**: `send_batch_to_kafka` says "Flush to ensure all messages
  delivered", but a delivery that fails only adds to `failed_records`, which nobody
  reads. Without `undisturbed' = FALSE` in `DeliveryFails` `RunCopiesSource` fails.
* **Messages have no key**: `_get_key` (`IdempotentKafkaProducer.py:268`) returns the
  value of the key column, which `create_message_key` (`MessageSerializer.py:119`)
  takes for a column's name and does not find
  (against `docs/MSSQL_TO_KAFKA_SYNC_GUIDE.md:159`).
* **Errors with only a code**: the message of a failed result may say "transient" by
  its code, and the exception raised for it is classified again without it
  (`core/exceptions.py:150`): the task is not retried.
* **MongoDB**: `stream_data` of the reader passes an argument to `stream_collection` that
  it does not have, and cannot be called at all; a range replaces a condition of `filter_query` on the
  same column; without `id_as_mongo_id` a document's hash covers its `_id` and the
  batch's does not, so that every document is replaced each time.
* **DagSyncTrigger, ORM**: `reset_dag_run` is not passed on to Airflow: a run that is
  already a success is reported as triggered and then as a success, without a new
  run (`_trigger_dag_orm`, `:543`). `TriggerStores` counts it as synced for that
  reason; with `synced' = {}` there `SerialOrderKept` fails.
* **DagSyncTrigger, active runs** (docstring at `:22`, "active-run checks to prevent
  duplicate triggers"): a run that somebody starts again during the retry delay is
  cleared by the ORM retry; with the SDK two lookups that fail make the reset clear
  an active run. `ActiveRunNotReplaced` says under which conditions that cannot
  happen, and fails without either of them.
* **DagSyncTrigger, errors**: an error while a failed run is triggered again leaves
  `trigger_stores`, and later stores are not triggered (`Raised`); a run that has
  gone is waited for without end (drop the exception from `CallEnds`).

## 5. What is proved

All theorems hold for every value of the constants that satisfies the named
assumptions `MarkersAreNoRows`, `ConfigIsSound` (of `MSSQLWriter`, `QuerySync` and
`DagSyncTrigger`), `KafkaConfigIsSound` and `ChunkConfigIsSound`: types of the
constants, and markers that are no rows; and `TransfersOnlyCopy`, that the DAGs of
`DataTransfer`, which have neither `delete_missing` nor dynamic tasks, are configured
without. TLC evaluates them in every run. What a theorem needs beyond them is in its
`ASSUME`, and named below.

### The MSSQL writer (`MSSQLWriter_proofs`)

| Theorem | Property | Needs |
|---|---|---|
| `TypeCorrect` | `TypeOK` | |
| `WriterInvariantHolds` | `WriterInvariant` | |
| `FailedCallsAreRolledBack` | `FailedCallIsRolledBack` | |
| `InsertOnlyOverwritesNothing` | `InsertOnlyKeepsRows` | |
| `RowsReportedArePresent` | `ReportedRowsPresent` | `StagingSeparate` |
| `CallsWriteTheirRows` | `WritesComeFromOpenCall` | `StagingSeparate` |
| `OnlyConflictsAreDeleted` | `DeletesOnlyConflicts` | `StagingSeparate`, no filtered index |

`StagingSeparate`: no two sessions use one staging table. `ReportedRowsPresent` is
not inductive: the rows are in `target` only after the commit, before it they are
in the session's view, and that they survive depends on what the others have
staged. `WriterInvariant` adds the contents of the staging table at each step
(`StagingInvariant`), that no row is written by two open transactions, who may
write at all and that a call which resolves no unique keys deletes nothing
(`LockInvariant`), what an open transaction commits (`CommitInvariant`), and the
rows' way from view to table (`MergedInvariant`). `LockInvariant` needs no
hypothesis, which is why the rollback of a failed call and `insert_only` are
proved whoever shares staging tables. The lemma `OutOfReach` is the heart: no
other session can hold the lock of a row that an isolated session has written.

### Its contract (`MSSQLWriterContract_proofs`)

`WriterImplementsContract`: the mapping of `MSSQLWriterContract` takes `MSSQLWriter`
to `BatchUpsert` (`ImplementsContract`), if sessions have staging tables of their
own and are isolated from each other (`Isolated`: nobody else is given their keys or
unique values). Initial states are mapped to initial states; then each step of a
session is shown to be one of `BatchUpsert` (`Begin`, `Complete`, `Fail`, `Doubt`,
`ApplyDoubtful`, `Return`, `Raise`) or a stutter. Where the writer commits, the
lemmas of `MSSQLWriter_proofs` say what becomes visible: the rows of the batch
with the removal of conflicting ones, or, of a call that fails, nothing or as much
as the contract allows it.

### Kafka to MSSQL (`KafkaToMSSQL_proofs`)

| Theorem | Property | Needs |
|---|---|---|
| `TypeCorrect` | `TypeOK` | |
| `UnreadableIsNotSkipped` | `UnreadableNotSkipped` | |
| `RowsAreFromTopic` | `RowsComeFromTopic` | |
| `DeliveryInvariantHolds` | `DeliveryInvariant` | |
| `DeliveredAtLeastOnce` | `AtLeastOnce` | `SuffixSeparate`, no lost upsert |
| `OffsetsAreOnlyRaised` | `OffsetsNeverGoBack` | `PartitionsSeparate` |
| `CommittedIsNotStale` | `CommittedRowsNotStale` | both, no lost upsert, no `delete_missing` |

The first three hold however runs overlap and share names: `ConsumerInvariant` says
where position, batch and offsets of a task are in relation to each other, and that
nothing beyond an unreadable message is in any of them; `RowsComeFromTopic` is
inductive together with the same statement about the staging tables.
`DeliveryInvariant` carries the rest, each part under the hypothesis it needs.
`StreamInvariant` and `MergeInvariant`: everything below a task's position is merged
or in its batch, and a task that goes on to commit has had its batch merged.
`PositionInvariant`: a running task that owns its partition has read from the
committed offset on, so what it commits is not less.

`CommittedRowsNotStale` makes no assumption about the topic: keys repeat in a batch and
come from several partitions. `Fresh` says of a row and a set of offsets that the row is
that of some message and that no offset in the set, of the same key and partition, is a
batch or more ahead of it. Committed offsets alone are not enough for an induction: a
task merges before it commits, and a replay may set a row back to a message that is
not yet committed again. `SettledInvariant` therefore says `Fresh` of the offsets that
are `Settled`: committed, or behind the position of a running task and not in a batch
it has still to merge. The batch of a task spans fewer than `BatchSize` offsets of a
partition up to its position, and what is settled there lies below that position: so
whichever version MERGE takes, it is less than a batch behind. That a replay stays
so follows from `PositionInvariant`: all that is settled in a partition beyond the
committed offset was settled by its one task.

### Chunked synchronisation (`NTile_proofs`, `ChunkedSync_proofs`)

| Theorem | Property | Needs |
|---|---|---|
| `PlanLeavesNoRowOut` | every row is in the range of some tile | as many rows as were counted |
| `ChunkTypesHold` | `TypeOK` | |
| `KeysInvariantHolds` | `KeysInvariant` | |
| `RunInvariantHolds` | `RunInvariant` | its copy half: `NothingIsLost` |
| `OnlyMissingRowsDeleted` | `DeletesOnlyMissing` | no lost keys; chunks are ranges of the scope column |
| `RunsCopyTheSource` | `RunCopiesSource` | `NothingIsLost`: no call loses its MERGE or its keys while it reports success, and chunks that delete are ranges of the scope column |
| `RunsRemoveOrphans` | `RunRemovesOrphans` | no dynamic tasks |

`KeysInvariant` follows a row that a task must not delete: still to come, in the
batch, or among the collected keys; and bounds the scope by the task's range.
`RunInvariant` follows, while the source stands still, a row that a run must copy:
the plan has a task for it, and in that task it is still to come, in the batch or in
the target as in the source (`CopiesItsRange`). Other tasks only write rows of the
source, and by `KeysInvariant` their deletes spare it (`CopiesStay`). For the only
task of `sync_data` it adds that the scope is the whole source and that nothing but
keys of the source is collected (`RemovesOrphans`).

That the plan covers all rows is about arithmetic and `CHOOSE`, for any number of
rows, chunk size and repetition of values. Tiles end at `TileEnd`, from 0 to the
number of rows, so each row's rank lies in one tile (`InSomeTile`); `ValueAt` finds
a value for each rank (`RankedValue`, which takes the largest of the rows whose rank
is low enough), and a value's rank grows with it (`RanksInOrder`), so the row's value
lies between those of the tile's first and last row.

### The other directions (`QuerySync_proofs`, `SyncDirections_proofs`)

| Theorem | Property | Needs |
|---|---|---|
| `TypeCorrect` | `TypeOK` | |
| `RunInvariantHolds` | `RunInvariant` | `UniqueValues`, `ScopesInStep` |
| `RunsCopyTheSource` | `RunCopiesSource` | the same; not the transfer of a table |
| `RunsRemoveOrphans` | `RunRemovesOrphans` | the same |
| `ReportsCountRows` | `ReportCountsRows` | the same; not the transfer of a table |
| `SyncedRowsAreKept` | `SyncedRowsStay` | the same |
| `RejectionsHaveSharedRows` | `RejectedOnlyOnSharedRows` | the same |

`SyncDirections` has eleven instances of one state machine. The proof is in two
halves. `SyncDirections_proofs` shows that every step of a direction is a `CommonStep`,
a relation of `QuerySync_proofs` that has one disjunct for each step of `QuerySync` and
says of the statements of an SQL writer only `WritesBatch` (rows of the batch, late ones
perhaps not, and removals of what the transaction has deleted) and, where they return,
`HasBatch`; or a `PageStep` of a table transfer. `QuerySync_proofs` shows what
`CommonStep` preserves.

`RunInvariant` is the whole way of a row through a run, as long as the run is `undisturbed`.
`PlanInvariant`: the plan has a task for it. `CopyInvariant`: in that task it is still
to come, in a batch that is not yet written, or in the target as in the source.
`InsertInvariant`: between the statements of an upsert the rows it has deleted are its
own and as they were, no others have come that hold a value of its batch, and a late
row is one that another task of that row has copied. `FindInvariant`: what MongoDB's
`find` took for up to date still is when the bulk write leaves it out. `KeysInvariant`: its key is to come, in the batch or collected,
the delete has the bounds of the task's rows, the ids to delete are none of the source,
and after the delete there are no `Orphans`. `CountInvariant`: counted rows, rows of
the batch and rows to come add up to the task's range. None of them is inductive
without the others, nor for one task alone: `RowsKept` says what a step leaves to
every other task (no row of the source is set back, none that is not in it appears,
`OthersKeepInvariant`), `TaskMove` what a step does for its own. `RowsKept` is also
`SyncedRowsStay`. That a conflict DELETE spares the rows of the source is where unique
values are needed (`BatchesKeep`), and that a scoped delete spares those of other
chunks is where the order of the two columns is (`ScopeInRange`).

`RejectionsHaveSharedRows` rests on `InsertInvariant`: no other task writes a row with
a value of the batch, since the source has only one such row and the target's were
deleted and are locked, so `Duplicates` is empty (`DuplicatesAreDeleted`), and a batch
can only be rejected for a late row. That this row is in the range of a second task is
what the theorem says; that its task then fails, and with it the run, is the code's
answer (4).

`UniqueValues`: in the source no two rows share a unique value, and none has NULL there;
without the second, `null_unique` finds MySQL and PostgreSQL deleting rows. `ScopesInStep`:
where chunks delete, the scope column orders the rows as the chunk column does, and
from MongoDB is that column; `chunk_other_scope` is the counterexample. Both hold in
`directions`.

The plans are proved complete for any rows, chunk sizes and NULLs (`NTilePlanCovers`;
`BucketPlanCovers`, for any choice of the buckets' borders that MongoDB may make), and
the sum of the report for any number of tasks. Sums are recursive in the community
modules and induction cannot be instantiated; `PartByPart` does it by the smallest set
of tasks for which the claim fails.

### Trigger of DAG runs (`DagSyncTrigger_proofs`)

| Theorem | Property |
|---|---|
| `TypeCorrect` | `TypeOK` |
| `TriggerInvariantHolds` | `TriggerInvariant` |
| `SerialOrderHolds` | `SerialOrderKept` |
| `SuccessIsTrue` | `SuccessMeansSynced` |
| `FailuresWereRetried` | `FailedRunWasRetried` |
| `ActiveRunsStay` | `ActiveRunNotReplaced` |

None needs a hypothesis: they hold for any stores, DAGs, number of retries, ways to
make the call, failing requests, dying workers and disturbances; the conditions on
disturbances in `ActiveRunNotReplaced` are part of the property. `TriggerInvariant`
says what holds between any two requests: where the loop is and which DAGs it still
has to look at (`PositionInvariant`), which runs are waited for (`WaitInvariant`),
which way the call goes (`ModeInvariant`), that a run in the list of successes has
ended in success since the call began (`SyncInvariant`), how often a run in one of
the lists of failures has failed (`FailureInvariant`), and which runs may be reset,
given how many lookups have failed (`ResetInvariant`).

### Hypotheses

They are conditions the code does not establish by itself, and runs or variations
named in 4 show that they are needed: `kafka_lost_upsert` for lost upserts,
`chunk_other_scope` for the scope column, `null_unique` for unique values that are
NULL; filtered indexes, overlapping runs, and keys or batches that are lost in chunks
are in 4.

### Only model-checked

* `RunCopiesSource` and `ReportCountsRows` of `SyncDirections` for the two transfers of
  a table. Keyset pages may skip rows that share a key or read a page twice (4), and
  `verify_transfer` accepts a difference below 0.1 %: that a transfer which passes it is
  complete is true of the small tables that TLC enumerates and not of every table. Types
  and `SyncedRowsStay` are proved for them too.
* `RunRemovesOrphans` of `ChunkedSync` with chunks does not hold (4): it asks for every
  orphan between the bounds of the source. That of `SyncDirections` asks for those in
  the ranges of the chunks, and is proved.
* Every liveness property: `CallTerminates`, `EverythingGetsCommitted`,
  `TargetCatchesUp`, `CallEnds`. Liveness under fairness and `ENABLED` are outside
  the prover's reach. The safety that each rests on is proved, for instance that
  the attempts of the deadlock retry are bounded (`TypeCorrect`).

## 6. Not modelled

* **`insert_only`, `autocommit=True` and source queries without a count query** of the
  query orchestrators: only MSSQL to MSSQL passes `insert_only` on, and
  `MSSQLWriter` has it; nobody passes `autocommit`; a missing count only skips the
  early end of an empty source.
* **Both sinks in one transfer task, `fail_on_error=False`**: every batch goes to both,
  one after the other, so that each sink sees what `DataTransfer` shows; a swallowed
  error loses a batch by design.
* **Rows that move between chunks or scopes**: the chunk and scope columns are functions
  of the key.
* **Overlapping runs of a direction**: `max_active_runs` is 1 unless it is configured
  otherwise (`DAGConfig.py:34`); `KafkaToMSSQL` has overlapping runs.
* **Several calls of `trigger_stores` at once**: each parent run has its own run ids.
  Collisions of logical dates, which are spread over a second by a hash, are left out.
* **The row hash** (`MSSQLServerWriter.py:263` and its copies): it maps NULL and the
  text 'NULL' to one string, which no value of these models distinguishes; a model
  of the concatenation would only restate it.
* **`auto_offset_reset=latest`, rebalances**: what a run skips is then up to the time it
  starts; the factories assign partitions to tasks.
* **Insert, update and delete methods of the writers that no orchestrator calls**, and
  `stream_data` of the readers other than the MSSQL one.
* **ClickHouse optimizer**: it walks a table's partitions and runs OPTIMIZE; queries show
  the same rows before and after it.
* **Topic management and health monitor**: single administrative requests and alerts.
* **Connection factories**: I/O; that a connection fails is a fault of its user.
* **Configuration, audit log, metrics, calendar**: no step depends on a state they keep.

## 7. Plan

Done: the MSSQL writer with its contract; the Kafka consumer side; chunked and
whole-table synchronisation; the writers, readers, orchestrators and DAGs of every
other direction; the transfers to Kafka and ClickHouse; the trigger of store runs.
Proved: the safety and action properties of all of them, the table transfers aside
where 5 says so, and the refinement of `BatchUpsert`.

What is left, in this order:

1. Table transfers: a condition on keys and batch size under which a page skips
   nothing, and `RunCopiesSource` and `ReportCountsRows` under it.
2. `SyncDirections` as an implementation of an abstract specification of one run, along
   `RunInvariant`.
3. The liveness of a run in `SyncDirections`, with the fairness of `ChunkedSync`.
