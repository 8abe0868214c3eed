-------------------------- MODULE ClickHouseWriter -------------------------
(***************************************************************************)
(* upsert_batch of ClickHouseWriter: one INSERT, every row with the        *)
(* version_id of the run.  Of the rows with the same key a                 *)
(* ReplacingMergeTree shows the one with the highest version, the last     *)
(* among equals, whichever was written last.                               *)
(***************************************************************************)
EXTENDS QuerySync

\* The keys whose new row shows.
Shown(n) == {k \in RowsOf(batch[n]) : version[k] <= runVersion}

InsertRows(n) ==
  /\ target' = [k \in Keys |-> IF k \in Shown(n) THEN batch[n][k] ELSE target[k]]
  /\ version' = [k \in Keys |-> IF k \in Shown(n) THEN runVersion ELSE version[k]]

UpsertBatch(n) ==
  /\ Goto(n, "upsert", "append")
  /\ InsertRows(n)
  /\ UNCHANGED <<config, envVars, keysStaging, runVars, taskVars, faults>>

\* A failed INSERT may have been done.
InsertFails(n) ==
  /\ pc[n] = "upsert"
  /\ \E kind \in {"link", "died"} : FailTask(n, kind)
  /\ InsertRows(n) \/ UNCHANGED <<target, version>>
  /\ UNCHANGED <<config, envVars, keysStaging, runVars, taskVars>>

=============================================================================
