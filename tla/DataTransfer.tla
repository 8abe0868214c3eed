---------------------------- MODULE DataTransfer ----------------------------
(***************************************************************************)
(* MSSQLDataTransferOrchestrator and its DAGs: one task copies a table, or *)
(* a query, from SQL Server to Kafka or to ClickHouse, and another one     *)
(* verifies how many rows it has copied.  A table is read page by page,    *)
(* each in a query of its own that begins after the last key of the page   *)
(* before.  With fail_on_error, as here, a batch that is not written fails *)
(* the task, and every failed task is tried again.  The version is the     *)
(* time of the run.                                                        *)
(***************************************************************************)
EXTENDS KafkaProducer, ClickHouseWriter

CONSTANT MinExpectedRecords \* min_expected_records of a query

OfTable == config.direction \in {"table_to_kafka", "table_to_clickhouse"}
OfQuery == config.direction \in {"query_to_kafka", "query_to_clickhouse"}
ToTopic == config.direction \in {"table_to_kafka", "query_to_kafka"}

\* order_by_column
OrderBy == config.chunkColumn

\* What paging remembers: the last key, and how many rows there have been.
LastKey(n)   == scope[n][1]
Processed(n) == scope[n][2]

\* stream_data takes a count of its own.
OpenTable(n) ==
  /\ Goto(n, "prepare", "fetch")
  /\ total' = Cardinality(RowsOf(source))
  /\ scope' = [scope EXCEPT ![n] = <<Null, 0>>]
  /\ UNCHANGED <<config, envVars, tableVars, phase, runVersion, bounds, report, unread, batch,
                 known, counted, faults>>

\* The end: all rows of the count, or a page that was not full.
IsLastPage(n) == Processed(n) >= total \/ Processed(n) % BatchSize # 0

\* build_keyset_pagination_query: the next rows in the order of the column; NULL,
\* which comes first, is behind no key.
Page(n, rows) ==
  LET ahead == {k \in RowsOf(source) : LastKey(n) # Null =>
                  OrderBy[k] # Null /\ OrderBy[k] > LastKey(n)}
  IN  /\ rows \subseteq ahead
      /\ Cardinality(rows) = Min({BatchSize, Cardinality(ahead)})
      /\ \A j \in rows, k \in ahead \ rows : ~Precedes(OrderBy[k], OrderBy[j])

FetchPage(n) ==
  /\ pc[n] = "fetch" /\ ~IsLastPage(n)
  /\ \E rows \in SUBSET Keys :
       /\ Page(n, rows)
       /\ Goto(n, "fetch", IF rows = {} THEN "done" ELSE "upsert")
       /\ batch' = [batch EXCEPT ![n] =
            [k \in Keys |-> IF k \in rows THEN source[k] ELSE NoRow]]
       /\ scope' = [scope EXCEPT ![n] =
            <<IF rows = {} THEN LastKey(n) ELSE BoundsOf(OrderBy, rows)[2],
              Processed(n) + Cardinality(rows)>>]
  /\ UNCHANGED <<config, envVars, tableVars, runVars, unread, known, counted, faults>>

CloseTable(n) ==
  /\ Goto(n, "fetch", "done")
  /\ IsLastPage(n)
  /\ UNCHANGED <<config, envVars, tableVars, runVars, taskVars, faults>>

\* One batch; AppendKeys only counts it.
SendBatch(n) ==
  \/ ToTopic /\ SendBatchToKafka(n)
  \/ ~ToTopic /\ UpsertBatch(n)
  \/ AppendKeys(n, {})

TransferTableData(n) ==
  \/ CountRows(n) \/ OpenTable(n) \/ FetchPage(n) \/ SendBatch(n) \/ CloseTable(n)

TransferQueryData(n) ==
  \/ CountRows(n) \/ BeginStream(n, RowsOf(source)) \/ FetchBatch(n) \/ SendBatch(n)
  \/ EndOfStream(n)

\* Every error becomes an AirflowException.  Some of the batch may have been written.
TransferFails(n) ==
  /\ pc[n] \in {"count", "prepare", "fetch", "upsert"}
  /\ pc' = [pc EXCEPT ![n] = "retry"]
  /\ Fault("link")
  /\ \/ pc[n] = "upsert" /\ ~ToTopic /\ InsertRows(n)
     \/ pc[n] = "upsert" /\ ToTopic /\ \E rows \in SUBSET RowsOf(batch[n]) : Deliver(n, rows)
     \/ UNCHANGED <<target, version>>
  /\ UNCHANGED <<config, envVars, keysStaging, runVars, taskVars>>

\* Mutant: the count of the source is only logged.
AlwaysSatisfied == TRUE

\* verify_transfer compares with a new count of the table, verify_query_transfer with
\* the minimum.
IsVerified ==
  LET rows == Cardinality(RowsOf(source))
      diff == IF Transferred > rows THEN Transferred - rows ELSE rows - Transferred
  IN  IF OfTable THEN rows = 0 \/ 1000 * diff < rows ELSE Transferred >= MinExpectedRecords

VerifyTransfer == IsVerified /\ ReportRun(Transferred)

\* The verification is tried once more, and given up.
VerifyFails ==
  /\ ~IsVerified
  /\ phase = "running" /\ \A n \in Chunks : pc[n] = "done"
  /\ LeaveRun

Transfer(n) ==
  \/ OfTable /\ TransferTableData(n)
  \/ OfQuery /\ TransferQueryData(n)
  \/ TransferFails(n) \/ RetryTask(n)

ValidateConnections == BeginRun({v \in Versions : v >= runVersion})

Next ==
  /\ OfTable \/ OfQuery
  /\ \/ ValidateConnections \/ GiveUpRun
     \/ BeginTask \/ \E n \in Chunks : Transfer(n)
     \/ VerifyTransfer \/ VerifyFails \/ EndRun

=============================================================================
