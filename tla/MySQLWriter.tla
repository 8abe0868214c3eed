---------------------------- MODULE MySQLWriter ----------------------------
(***************************************************************************)
(* upsert_batch of MySQLServerWriter.  The batch is loaded into a staging  *)
(* table and committed; one transaction then deletes the target rows that  *)
(* hold a unique value of the batch under another key, updates the rows    *)
(* that differ and inserts the new ones.  Other tasks commit in between.   *)
(* MySQL also commits before every DROP TABLE: cleaning up after a failed  *)
(* statement keeps what the statements before it did.                      *)
(***************************************************************************)
EXTENDS QuerySync

\* DELETE ... INNER JOIN staging.
DeleteUniqueKeyConflicts(n) == DeleteConflicts(n)

\* UPDATE ... INNER JOIN staging WHERE the row differs.
Update(table, rows) ==
  [k \in Keys |-> IF table[k] # NoRow /\ rows[k] # NoRow THEN rows[k] ELSE table[k]]

\* INSERT ... WHERE NOT EXISTS.
Insert(table, rows) == [k \in Keys |-> IF table[k] = NoRow THEN rows[k] ELSE table[k]]

\* The table after each of the statements, when the UPDATE has not seen the rows kept.
UpsertBatchOnce(n, kept) ==
  LET deleted == Without(target, Deleted(n))
      updated == Update(deleted, Without(batch[n], kept))
  IN  <<deleted, updated, Insert(updated, batch[n])>>

\* The table after the i-th of them: late rows are updated, or kept by the INSERT, or
\* the reason why it fails.
After(n, i) == {UpsertBatchOnce(n, kept)[i] : kept \in SUBSET Late(n)}

\* The tables a failed call may leave: the implicit commit of the DROP keeps what
\* the statements did that have run.
CleanupStagingTable(n) ==
  {target} \cup After(n, 1) \cup Possible(n, After(n, 2) \cup After(n, 3))

\* A deadlock is rolled back and tried again; _finalize_connection only logs a
\* commit that fails.
UpsertBatch(n) ==
  \/ DeleteUniqueKeyConflicts(n)
  \/ Upsert(n, After(n, 3))
  \/ RejectUpsert(n, After(n, 1) \cup After(n, 2))
  \/ DeadlockVictim(n) \/ LoseUpsert(n)

UpsertFails(n) == WriteFails(n, CleanupStagingTable(n), Without(target, Missing(n)))

\* The keys staging table; a commit of keys that fails is only logged.
AppendKeysToStaging(n) == AppendKeys(n, {{}})

DeleteMissingInScope(n) == DeleteMissing(n)

DropKeysStagingTable(n) == DropKeys(n)

=============================================================================
