--------------------------- MODULE SyncInvariant ---------------------------
(***************************************************************************)
(* What holds between any two steps of a run, in whatever direction, while *)
(* the source stands still: where each row is on its way into the target,  *)
(* which keys have been collected, what is left to delete and to count.    *)
(***************************************************************************)
EXTENDS QuerySync

OfMongo == config.direction = "mongo_to_mssql"
ToMongo == config.direction = "mssql_to_mongo"
ToSql   == config.direction \in {"mssql_to_mysql", "mssql_to_postgresql", "mysql_to_mssql",
                                 "postgresql_to_mssql", "clickhouse_to_mssql",
                                 "mongo_to_mssql", "masterdata_to_store"}
OfTable == config.direction \in {"table_to_kafka", "table_to_clickhouse"}

\* The rows a task reads; without both ends a range of a collection is everything.
TaskRange(n) ==
  {k \in RowsOf(source) :
     \/ ~config.dynamic
     \/ InBounds(config.chunkColumn, bounds[n], k)
     \/ OfMongo /\ Null \in {bounds[n][1], bounds[n][2]}}

\* The scope of a chunk's delete.
ChunkScope(n) ==
  IF OfMongo \/ config.scopeColumn = config.chunkColumn THEN bounds[n]
  ELSE BoundsOf(config.scopeColumn,
                {k \in RowsOf(source) : InBounds(config.chunkColumn, bounds[n], k)})

TaskScope(n) ==
  IF config.dynamic THEN ChunkScope(n) ELSE BoundsOf(config.scopeColumn, RowsOf(source))

\* A task that the plan has given something to do.
Assigned(n) == n = 1 \/ (config.dynamic /\ bounds[n] # NoBounds)

\* A row with NULL in the chunk column is in no range of an SQL source.
IsPlanned(k) == ~config.dynamic \/ OfMongo \/ config.chunkColumn[k] # Null

\* A row of a later run shows over those of this one.
InTarget(k) == version[k] <= runVersion => target[k] = source[k]

Streaming == {"fetch", "upsert", "insert", "bulk", "append"}
Streamed  == {"scope", "delete", "ids", "drop", "done"}

\* The rows a task has fetched and not written, or not counted.
Unwritten(n) == IF pc[n] \in {"upsert", "insert", "bulk"} THEN RowsOf(batch[n]) ELSE {}
Uncounted(n) == IF pc[n] = "fetch" THEN {} ELSE RowsOf(batch[n])

Orphans(n) ==
  {k \in RowsOf(target) \ RowsOf(source) : InBounds(config.scopeColumn, TaskScope(n), k)}

-----------------------------------------------------------------------------
(* Whatever happens to the source *)

\* Tasks run while the run does, and one of them without dynamic tasks.
PhaseInvariant ==
  /\ phase \in {"idle", "validated", "counted"} => \A n \in Chunks : pc[n] = "idle"
  /\ phase = "reported" => report = Transferred /\ \A n \in Chunks : pc[n] = "done"
  /\ phase = "counted" => config.dynamic
  /\ \A n \in Chunks :
       /\ pc[n] = "idle" => counted[n] = 0
       /\ ~config.dynamic /\ n # 1 => pc[n] \in {"idle", "done"} /\ counted[n] = 0
       /\ pc[n] \in {"scope", "delete", "ids", "drop"} => config.delete
       /\ pc[n] \in {"bulk", "ids"} => ToMongo
       /\ pc[n] = "insert" => ToSql
       /\ OfMongo /\ ~Assigned(n) => pc[n] \in {"idle", "done"}

\* No two rows have the same values.
IsUnique(table) == \A j, k \in Keys : j # k /\ table[j] = table[k] => table[j] = NoRow

-----------------------------------------------------------------------------
(* While it stands still *)

\* The plan has a task for each row.
PlanInvariant ==
  /\ phase = "counted" => total = Cardinality(RowsOf(source))
  /\ phase \in {"running", "reported"} =>
       \A k \in RowsOf(source) :
         IsPlanned(k) => \E n \in Chunks : Assigned(n) /\ k \in TaskRange(n)

\* What has been read is as in the source.
BatchInvariant(n) ==
  pc[n] \in Streaming \ {"fetch"} => \A k \in Keys : batch[n][k] \in {NoRow, source[k]}

\* The rows of a task are still to come, or fetched, or in the target.
CopyInvariant(n) ==
  /\ pc[n] \in Streaming =>
       /\ unread[n] \cup RowsOf(batch[n]) \subseteq TaskRange(n)
       /\ \A k \in TaskRange(n) \ (unread[n] \cup Unwritten(n)) : InTarget(k)
  /\ pc[n] \in Streamed /\ Assigned(n) => \A k \in TaskRange(n) : InTarget(k)

\* What a transaction has deleted no other one has deleted, and it is as it was.  There is
\* no other row with a value of its batch.  A row it has not found has been copied by
\* another task of the row.
InsertInvariant(n) ==
  pc[n] = "insert" =>
    /\ Deleted(n) \cap Locked(n) = {}
    /\ \A k \in Deleted(n) : target[k] = known[n][k]
    /\ Conflicts(target, batch[n]) \subseteq Deleted(n)
    /\ \A k \in Late(n) :
         /\ target[k] = source[k]
         /\ \E m \in Chunks \ {n} : Assigned(m) /\ k \in TaskRange(m)

\* A document that was found is still there, and has not changed if it was the same.
FindInvariant(n) ==
  pc[n] = "bulk" =>
    \A k \in RowsOf(batch[n]) :
      known[n][k] # NoRow =>
        target[k] # NoRow /\ (known[n][k] = source[k] => target[k] = source[k])

\* The keys of a task are still to come, or fetched, or collected; its delete has the
\* bounds of its rows, and no document of the source is to go.
KeysInvariant(n) ==
  config.delete =>
    /\ pc[n] \in Streaming =>
         /\ keysStaging[n] \subseteq RowsOf(source)
         /\ TaskRange(n) \subseteq unread[n] \cup Uncounted(n) \cup keysStaging[n]
    /\ pc[n] \in {"scope", "delete"} =>
         TaskRange(n) \subseteq keysStaging[n] /\ keysStaging[n] \subseteq RowsOf(source)
    /\ pc[n] \in {"delete", "ids"} => scope[n] = TaskScope(n)
    /\ ~config.dynamic /\ pc[n] \in {"count", "prepare"} \cup Streaming =>
         scope[n] = TaskScope(n)
    /\ pc[n] = "ids" => Orphans(n) \subseteq RowsOf(known[n])
                        /\ RowsOf(known[n]) \cap RowsOf(source) = {}
    /\ pc[n] \in {"drop", "done"} /\ Assigned(n) => Orphans(n) = {}

\* What a task has counted, and what it has not.
CountInvariant(n) ==
  /\ pc[n] \in Streaming =>
       counted[n] + Cardinality(unread[n]) + Cardinality(Uncounted(n)) =
         Cardinality(TaskRange(n))
  /\ pc[n] \in Streamed /\ Assigned(n) => counted[n] = Cardinality(TaskRange(n))

TaskInvariant(n) ==
  /\ BatchInvariant(n) /\ KeysInvariant(n) /\ InsertInvariant(n) /\ FindInvariant(n)
  /\ ~OfTable => CopyInvariant(n) /\ CountInvariant(n)

RunInvariant ==
  /\ PhaseInvariant /\ IsUnique(source)
  /\ undisturbed => PlanInvariant /\ \A n \in Chunks : TaskInvariant(n)

-----------------------------------------------------------------------------
(* Hypotheses *)

\* Values are unique in the source, and NULL is none of them.
UniqueValues == NullValue \notin Values /\ \A table \in InitSources : IsUnique(table)

\* The scope column of a chunked run orders the rows as the chunk column does.
InStep(c) ==
  /\ c.direction = "mongo_to_mssql" => c.scopeColumn = c.chunkColumn
  /\ \A j, k \in Keys :
       c.scopeColumn[j] # Null /\ c.scopeColumn[k] # Null =>
         /\ c.chunkColumn[j] # Null
         /\ c.chunkColumn[j] < c.chunkColumn[k] => c.scopeColumn[j] < c.scopeColumn[k]

ScopesInStep == \A c \in Configurations : c.delete /\ c.dynamic => InStep(c)

=============================================================================
