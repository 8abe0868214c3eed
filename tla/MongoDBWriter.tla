--------------------------- MODULE MongoDBWriter ---------------------------
(***************************************************************************)
(* upsert_batch and delete_missing_in_scope of MongoDBServerWriter.        *)
(* Neither is atomic.  upsert_batch looks for the documents of its batch,  *)
(* and then replaces those that differ and inserts those it has not found. *)
(* delete_missing_in_scope collects the ids of the documents whose key is  *)
(* not in the staging collection, and then deletes them.  Other tasks run  *)
(* between the two steps.                                                  *)
(***************************************************************************)
EXTENDS QuerySync

\* coll.find: the documents with a key of the batch.  Without
\* use_hash_change_detection it is not asked for, and every document is an upsert.
FindExisting(n) ==
  LET found == [k \in Keys |-> IF batch[n][k] # NoRow THEN target[k] ELSE NoRow]
  IN  /\ Goto(n, "upsert", "bulk")
      /\ known' \in {[known EXCEPT ![n] = found], [known EXCEPT ![n] = EmptyTable]}
      /\ UNCHANGED <<config, envVars, tableVars, runVars, scope, unread, batch, counted, faults>>

\* Mutant: a document that exists is not replaced.
Kept(n, k) == IF batch[n][k] # NoRow /\ known[n][k] = NoRow THEN batch[n][k] ELSE target[k]

\* ReplaceOne for one document: none if the hash was the same, an upsert if the
\* document was not there; one that was there and has gone is not written.
Replaced(n, k) ==
  IF batch[n][k] = NoRow \/ known[n][k] = batch[n][k] THEN target[k]
  ELSE IF known[n][k] # NoRow /\ target[k] = NoRow THEN NoRow
  ELSE batch[n][k]

\* bulk_write(ordered=False), when some of the operations have been done.
BulkWritten(n, done) == [k \in Keys |-> IF k \in done THEN Replaced(n, k) ELSE target[k]]

BulkWrite(n) ==
  /\ Goto(n, "bulk", "append")
  /\ target' = BulkWritten(n, Keys)
  /\ known' = [known EXCEPT ![n] = EmptyTable]
  /\ UNCHANGED <<config, envVars, version, keysStaging, runVars, scope, unread, batch, counted,
                 faults>>

UpsertBatch(n) == FindExisting(n) \/ BulkWrite(n)

\* $lookup, or the difference computed in Python: the ids to delete.
FindMissing(n) ==
  /\ Goto(n, "delete", "ids")
  /\ known' = [known EXCEPT ![n] =
       [k \in Keys |-> IF k \in Missing(n) THEN target[k] ELSE NoRow]]
  /\ UNCHANGED <<config, envVars, tableVars, runVars, scope, unread, batch, counted, faults>>

\* delete_many({"_id": {"$in": ids}})
DeleteById(n) ==
  /\ Goto(n, "ids", "drop")
  /\ target' = Without(target, RowsOf(known[n]))
  /\ UNCHANGED <<config, envVars, version, keysStaging, runVars, taskVars, faults>>

DeleteMissingInScope(n) == FindMissing(n) \/ DeleteById(n)

\* The keys staging collection.  An error that tells how many of the keys were inserted is
\* taken for one of duplicates, whatever it is.
AppendKeysToStaging(n) == AppendKeys(n, SUBSET RowsOf(batch[n]))

DropKeysStagingTable(n) == DropKeys(n)

\* Some of the operations may have been done.
WritesFail(n) ==
  WriteFails(n,
    IF pc[n] = "bulk" THEN {BulkWritten(n, done) : done \in SUBSET RowsOf(batch[n])}
    ELSE {target},
    IF pc[n] = "ids" THEN Without(target, RowsOf(known[n])) ELSE target)

=============================================================================
