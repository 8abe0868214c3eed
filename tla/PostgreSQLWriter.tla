------------------------- MODULE PostgreSQLWriter --------------------------
(***************************************************************************)
(* upsert_batch of PostgreSQLServerWriter: the statements of the MySQL     *)
(* writer, in a transaction that PostgreSQL really rolls back.  After a    *)
(* failed statement the DROP TABLE fails too, so that nothing is kept but  *)
(* the staging table.                                                      *)
(***************************************************************************)
EXTENDS QuerySync

\* DELETE ... USING staging.
DeleteUniqueKeyConflicts(n) == DeleteConflicts(n)

\* UPDATE ... FROM staging WHERE the row differs.
Update(table, rows) ==
  [k \in Keys |-> IF table[k] # NoRow /\ rows[k] # NoRow THEN rows[k] ELSE table[k]]

\* INSERT ... WHERE NOT EXISTS.
Insert(table, rows) == [k \in Keys |-> IF table[k] = NoRow THEN rows[k] ELSE table[k]]

\* Mutant: the conflicting rows are deleted last.
DeletedLast(n, kept) ==
  LET after == Insert(Update(target, Without(batch[n], kept)), batch[n])
  IN  Without(after, Conflicts(after, target))

\* The table after the last statement, when the UPDATE has not seen the rows kept.
UpsertBatchOnce(n, kept) ==
  Insert(Update(Without(target, Deleted(n)), Without(batch[n], kept)), batch[n])

\* Each statement has a snapshot of its own: late rows are updated, or kept by the
\* INSERT, or the reason why it fails.
Upserted(n) == {UpsertBatchOnce(n, kept) : kept \in SUBSET Late(n)}

\* A failed call has done nothing, unless only its worker has failed.
CleanupStagingTable(n) == {target} \cup Possible(n, Upserted(n))

\* A deadlock is rolled back and tried again; _finalize_connection only logs a
\* commit that fails.
UpsertBatch(n) ==
  \/ DeleteUniqueKeyConflicts(n)
  \/ Upsert(n, Upserted(n))
  \/ RejectUpsert(n, {target})
  \/ DeadlockVictim(n) \/ LoseUpsert(n)

UpsertFails(n) == WriteFails(n, CleanupStagingTable(n), Without(target, Missing(n)))

\* The keys staging table; a commit of keys that fails is only logged.
AppendKeysToStaging(n) == AppendKeys(n, {{}})

DeleteMissingInScope(n) == DeleteMissing(n)

DropKeysStagingTable(n) == DropKeys(n)

=============================================================================
