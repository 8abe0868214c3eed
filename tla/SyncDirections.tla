--------------------------- MODULE SyncDirections ---------------------------
(***************************************************************************)
(* One DAG of any of the directions: what a run copies, what it deletes,   *)
(* what it leaves alone and what it reports, while the source may change   *)
(* and calls may fail.                                                     *)
(***************************************************************************)
EXTENDS SyncInvariant

CONSTANT MinExpectedRecords \* min_expected_records of a query's DAG

\* The DAGs of MSSQLDataTransferOrchestrator have neither delete_missing nor
\* use_dynamic_tasks.
ASSUME TransfersOnlyCopy ==
  \A c \in Configurations :
    c.direction \in {"table_to_kafka", "table_to_clickhouse",
                    "query_to_kafka", "query_to_clickhouse"} => ~c.delete /\ ~c.dynamic

ToMySQL          == INSTANCE MSSQLToMySQL
ToPostgreSQL     == INSTANCE MSSQLToPostgreSQL
ToMongoDB        == INSTANCE MSSQLToMongoDB
ToClickHouse     == INSTANCE MSSQLToClickHouse
ToKafka          == INSTANCE MSSQLToKafka
FromMySQL        == INSTANCE MySQLToMSSQL
FromPostgreSQL   == INSTANCE PostgreSQLToMSSQL
FromClickHouse   == INSTANCE ClickHouseToMSSQL
FromMongoDB      == INSTANCE MongoDBToMSSQL
ToStore          == INSTANCE MasterdataToStore
Transfer         == INSTANCE DataTransfer

\* A step of the DAG.
Step ==
  \/ ToMySQL!Next \/ ToPostgreSQL!Next \/ ToMongoDB!Next \/ ToClickHouse!Next \/ ToKafka!Next
  \/ FromMySQL!Next \/ FromPostgreSQL!Next \/ FromClickHouse!Next \/ FromMongoDB!Next
  \/ ToStore!Next \/ Transfer!Next

Next == Step \/ \E change \in Changes : ChangeSource(change[1], change[2])

Spec == Init /\ [][Next]_vars

-----------------------------------------------------------------------------
(* Properties *)

Deletes == config.delete /\ undisturbed

\* The values of the scope column between which task n deletes.
ScopeOf(n) ==
  IF ~config.dynamic THEN BoundsOf(config.scopeColumn, RowsOf(source))
  ELSE IF config.scopeColumn = config.chunkColumn THEN bounds[n]
  ELSE BoundsOf(config.scopeColumn,
                {k \in RowsOf(source) : InBounds(config.chunkColumn, bounds[n], k)})

InRunScope(k) == \E n \in Chunks : InBounds(config.scopeColumn, ScopeOf(n), k)

\* When a run has been reported, and the source stood still since it began, every
\* row its plan covers is in the target as it is in the source, whichever batches
\* and chunks held unique values of one another, and whatever failed on the way.
\* A run of an earlier date does not show over a later one.
RunCopiesSource ==
  phase = "reported" /\ undisturbed =>
    \A k \in RowsOf(source) :
      IsPlanned(k) /\ version[k] <= runVersion => target[k] = source[k]

\* With delete_missing, a run that has been reported leaves no row in its scope that
\* the source does not have, in the ranges of all of its chunks.
RunRemovesOrphans ==
  phase = "reported" /\ Deletes =>
    \A k \in RowsOf(target) \ RowsOf(source) : ~InRunScope(k)

\* As long as the source stands still no step changes or deletes a row that is as
\* in the source already: no chunk undoes what another has done.
SyncedRowsStay ==
  [][undisturbed' /\ undisturbed =>
       \A k \in RowsOf(source) : target[k] = source[k] => target'[k] = target[k]]_vars

\* No batch is rejected for a unique value that another task writes or moves: without a
\* fault a task fails for good only when a row of its batch is in the range of another
\* task, too, and that one has copied it between two statements of upsert_batch.
RejectedOnlyOnSharedRows ==
  [][faults' = faults /\ undisturbed /\ undisturbed' =>
       \A n \in Chunks :
         pc[n] # "failed" /\ pc'[n] = "failed" =>
           \E m \in Chunks \ {n}, k \in RowsOf(batch[n]) :
             Assigned(m) /\ k \in TaskRange(m) /\ target[k] = source[k]]_vars

\* The report counts every row the run has planned: once in a run of one task, what a
\* failed attempt has copied not counted, and at least once where ranges overlap.
ReportCountsRows ==
  phase = "reported" /\ undisturbed =>
    LET rows == Cardinality({k \in RowsOf(source) : IsPlanned(k)})
    IN  IF config.dynamic THEN report >= rows ELSE report = rows

=============================================================================
