-------------------------- MODULE MCSyncDirections --------------------------
(***************************************************************************)
(* Instances of SyncDirections: three rows in the source, of which one is  *)
(* not in the target and the others hold values of each other, or of the   *)
(* one that is missing; and a row that is only in the target.              *)
(***************************************************************************)
EXTENDS SyncDirections, TLC

CONSTANTS a, b, c, d

Row(s) == [k \in Keys |-> IF k \in DOMAIN s THEN s[k] ELSE NoRow]

Sources == {Row(1 :> a @@ 3 :> b @@ 4 :> c)}
Targets == {Row(2 :> b @@ 3 :> c @@ 4 :> a)}

Plain    == [k \in Keys |-> k]
WithNull == [Plain EXCEPT ![1] = Null]  \* NULL in one row
Shared   == [Plain EXCEPT ![3] = 4]     \* two rows with one value
Other    == [k \in Keys |-> 10 * k]     \* a column in step with the key

Config(direction, dynamic, delete, chunkColumn, scopeColumn) ==
  [direction |-> direction, dynamic |-> dynamic, delete |-> delete,
   chunkColumn |-> chunkColumn, scopeColumn |-> scopeColumn]

\* An update, an insert and a delete, any one of which may happen.
SomeChanges == {<<1, d>>, <<2, d>>, <<4, NoRow>>}

FromSQL == {"mssql_to_mysql", "mssql_to_postgresql", "mssql_to_mongo", "mysql_to_mssql",
            "postgresql_to_mssql", "clickhouse_to_mssql", "masterdata_to_store"}

\* With delete_missing, in one task or in one for each chunk.
Whole(direction, column)          == Config(direction, FALSE, TRUE, Plain, column)
Chunked(direction, column, other) == Config(direction, TRUE, TRUE, column, other)

AllDirections ==
       {Whole(s, WithNull) : s \in FromSQL}
  \cup {Chunked(s, WithNull, WithNull) : s \in FromSQL}
  \cup {Chunked(s, Shared, Other) : s \in FromSQL}
  \cup {Whole("mongo_to_mssql", Plain)}
  \cup {Chunked("mongo_to_mssql", column, column) : column \in {Shared, WithNull}}
  \cup {Config(s, dynamic, FALSE, Plain, Plain) :
          s \in {"mssql_to_clickhouse", "mssql_to_kafka"}, dynamic \in BOOLEAN}
  \cup {Config(s, FALSE, FALSE, column, Plain) :
          s \in {"table_to_kafka", "table_to_clickhouse"}, column \in {Plain, Shared, WithNull}}
  \cup {Config(s, FALSE, FALSE, Plain, Plain) :
          s \in {"query_to_kafka", "query_to_clickhouse"}}

\* Two rows without a unique value.
NullSources == {Row(1 :> NullValue @@ 2 :> NullValue @@ 3 :> b)}
NullTargets == {Row(<<>>), Row(1 :> a)}
OneTask     == {Config(s, FALSE, FALSE, Plain, Plain) :
                  s \in {"mssql_to_mysql", "mssql_to_postgresql"}}

=============================================================================
