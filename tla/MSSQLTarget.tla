---------------------------- MODULE MSSQLTarget ----------------------------
(***************************************************************************)
(* upsert_batch of MSSQLServerWriter for the orchestrators that copy into  *)
(* SQL Server, of sessions that resolve unique keys: what module           *)
(* MSSQLWriter says of a call, and what parallel tasks with a row in       *)
(* common do to each other.  The MERGE has no HOLDLOCK: it may insert a    *)
(* row that another task has just inserted.                                *)
(***************************************************************************)
EXTENDS QuerySync

\* DELETE ... INNER JOIN staging.
DeleteUniqueKeyConflicts(n) == DeleteConflicts(n)

\* Mutant: rows are only inserted.
InsertedOnly(table, rows) ==
  [k \in Keys |-> IF table[k] = NoRow THEN rows[k] ELSE table[k]]

\* WHEN MATCHED, WHEN NOT MATCHED BY TARGET.
Merge(table, rows) == [k \in Keys |-> IF rows[k] # NoRow THEN rows[k] ELSE table[k]]

\* The table without the conflicting rows, and with the rows of the batch.
Cleared(n) == Without(target, Deleted(n))
Merged(n)  == Merge(Cleared(n), batch[n])

\* A failed call may have deleted the conflicting rows, and nothing else: the clean-up
\* commits before the connection is rolled back.
CleanupStagingTable(n) == {target, Cleared(n)} \cup Possible(n, {Merged(n)})

\* A deadlock is rolled back and tried again; _finalize_connection only logs a
\* commit that fails.
UpsertBatch(n) ==
  \/ DeleteUniqueKeyConflicts(n)
  \/ Upsert(n, {Merged(n)})
  \/ RejectUpsert(n, {Cleared(n)})
  \/ DeadlockVictim(n) \/ LoseUpsert(n)

UpsertFails(n) == WriteFails(n, CleanupStagingTable(n), Without(target, Missing(n)))

\* The keys staging table; a commit of keys that fails is only logged.
AppendKeysToStaging(n) == AppendKeys(n, {{}})

DeleteMissingInScope(n) == DeleteMissing(n)

DropKeysStagingTable(n) == DropKeys(n)

=============================================================================
