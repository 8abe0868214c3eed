---------------------------- MODULE MSSQLWriter ----------------------------
(***************************************************************************)
(* MSSQLServerWriter.upsert_batch as the sessions of several parallel      *)
(* tasks execute it against one SQL Server table.                          *)
(*                                                                         *)
(* A call loads its rows into a staging table in one transaction, then, in *)
(* a second one, deletes the target rows that hold a staged unique value   *)
(* under another primary key, MERGEs, drops the staging table and commits  *)
(* (_cleanup_staging_table), and only then "finalizes" the connection with *)
(* a second commit or a rollback.  Deadlock victims start over.            *)
(*                                                                         *)
(* The server is READ COMMITTED with row locks: a session keeps a lock on  *)
(* every row its open transaction has written, `pending' holds what it     *)
(* wrote, and a statement that meets a foreign lock waits.                 *)
(***************************************************************************)
EXTENDS Naturals

CONSTANTS Sessions,         \* tasks calling upsert_batch, one connection each
          Keys,             \* primary keys
          UniqueValues,     \* values of the column under a unique index
          Values,           \* the remaining columns
          StagingTables,    \* names of staging tables
          StagingTable,     \* [Sessions -> StagingTables], from staging_suffix
          Batches,          \* [Sessions -> SUBSET Batch], what each may be given
          InitTargets,      \* contents the target table may start with
          NoRow, Untouched, NoTable, NullValue

CONSTANTS ResolveUniqueKeys, \* sessions given unique_keys, or told to look them up
          FilteredIndex,     \* the unique index has the filter IS NOT NULL
          InsertOnly,        \* sessions that pass insert_only
          MaxAttempts,       \* _UPSERT_DEADLOCK_MAX_ATTEMPTS
          FaultKinds,        \* the faults the environment may inject
          MaxFaults          \* bound on the number of faults

Rows == [uk : UniqueValues, val : Values]

\* The rows of one call: at most one row per primary key.
Batch == [Keys -> Rows \cup {NoRow}]

EmptyBatch == [k \in Keys |-> NoRow]
NoPending  == [k \in Keys |-> Untouched]

ASSUME MarkersAreNoRows ==
  /\ NoRow \notin Rows
  /\ Untouched \notin Rows \cup {NoRow}
  /\ NoTable \notin Batch

ASSUME ConfigIsSound ==
  /\ StagingTable \in [Sessions -> StagingTables]
  /\ Batches \in [Sessions -> SUBSET Batch]
  /\ InitTargets \subseteq Batch
  /\ ResolveUniqueKeys \subseteq Sessions
  /\ FilteredIndex \in BOOLEAN
  /\ InsertOnly \subseteq Sessions
  /\ MaxAttempts \in Nat \ {0}
  /\ MaxFaults \in Nat

VARIABLES
  target,   \* committed rows of the target table
  staging,  \* committed contents of every staging table, or NoTable
  pending,  \* what each session's open transaction wrote to the target
  pc,       \* the next step of each session
  batch,    \* the rows of each session's current call
  error,    \* the exception in flight: "none", "deadlock" or "other"
  attempt,  \* RetryContext.current_attempt
  warned,   \* a commit, rollback or drop failure was swallowed with a warning
  faults    \* faults injected so far

dbVars   == <<target, staging, pending>>
callVars == <<batch, attempt>>
vars     == <<target, staging, pending, pc, batch, error, attempt, warned, faults>>

Locations == {"idle", "load", "purge", "merge", "cleanup", "finalize",
              "except", "returned", "raised"}

TypeOK ==
  /\ target  \in Batch
  /\ staging \in [StagingTables -> Batch \cup {NoTable}]
  /\ pending \in [Sessions -> [Keys -> Rows \cup {NoRow, Untouched}]]
  /\ pc      \in [Sessions -> Locations]
  /\ batch   \in [Sessions -> Batch]
  /\ error   \in [Sessions -> {"none", "deadlock", "other"}]
  /\ attempt \in [Sessions -> 0 .. MaxAttempts - 1]
  /\ warned  \in [Sessions -> BOOLEAN]
  /\ faults  \in 0 .. MaxFaults

Init ==
  /\ target  \in InitTargets
  /\ staging = [n \in StagingTables |-> NoTable]
  /\ pending = [s \in Sessions |-> NoPending]
  /\ pc      = [s \in Sessions |-> "idle"]
  /\ batch   = [s \in Sessions |-> EmptyBatch]
  /\ error   = [s \in Sessions |-> "none"]
  /\ attempt = [s \in Sessions |-> 0]
  /\ warned  = [s \in Sessions |-> FALSE]
  /\ faults  = 0

-----------------------------------------------------------------------------
(* The server *)

Staged(s) == staging[StagingTable[s]]

\* The target table as session s sees it: its own writes over committed rows.
View(s) == [k \in Keys |-> IF pending[s][k] = Untouched THEN target[k]
                                                       ELSE pending[s][k]]

UniqueValuesOf(b) == {b[k].uk : k \in {j \in Keys : b[j] # NoRow}}

Indexed(u) == ~(FilteredIndex /\ u = NullValue)

\* The unique index of the target table accepts these rows.
UniqueIndexHolds(rows) ==
  \A j, k \in Keys :
    (j # k /\ rows[j] # NoRow /\ rows[k] # NoRow /\ Indexed(rows[j].uk))
      => rows[j].uk # rows[k].uk

\* Session t holds the lock of row k.
HoldsLock(t, k) == pending[t][k] # Untouched

\* The old or the new version of a row that t has locked has a unique value of b.
LocksUniqueValue(t, k, b) ==
  \E r \in {target[k], pending[t][k]} :
    r \in Rows /\ r.uk \in UniqueValuesOf(b)

\* The DELETE, or the MERGE, of session s meets a lock of session t.
PurgeWaitsFor(s, t) ==
  \E k \in Keys : HoldsLock(t, k) /\ LocksUniqueValue(t, k, Staged(s))

MergeWaitsFor(s, t) ==
  \E k \in Keys :
    /\ HoldsLock(t, k)
    /\ Staged(s)[k] # NoRow \/ LocksUniqueValue(t, k, Staged(s))

PurgeBlocked(s) == \E t \in Sessions \ {s} : PurgeWaitsFor(s, t)
MergeBlocked(s) == \E t \in Sessions \ {s} : MergeWaitsFor(s, t)

\* Mutant: unique keys are always looked up.
AlwaysUniqueKeys(s) == TRUE

\* _resolve_unique_keys finds a unique key besides the primary key.
HasUniqueKeys(s) == s \in ResolveUniqueKeys

WaitsFor(s, t) ==
  /\ s # t
  /\ Staged(s) # NoTable
  /\ \/ pc[s] = "purge" /\ HasUniqueKeys(s) /\ PurgeWaitsFor(s, t)
     \/ pc[s] = "merge" /\ MergeWaitsFor(s, t)

\* s belongs to a set of sessions that only wait for one another.
Deadlocked(s) ==
  \E D \in SUBSET Sessions :
    /\ s \in D
    /\ \A t \in D : (\E u \in D : WaitsFor(t, u)) /\ (\E u \in D : WaitsFor(u, t))

\* conn.commit() and conn.rollback() of session s.
CommitTx(s) ==
  /\ target'  = View(s)
  /\ pending' = [pending EXCEPT ![s] = NoPending]

\* Mutant: the transaction is left open.
RollbackForgotten(s) == UNCHANGED <<target, pending>>

RollbackTx(s) ==
  /\ pending' = [pending EXCEPT ![s] = NoPending]
  /\ UNCHANGED target

Fault(kind) ==
  /\ kind \in FaultKinds
  /\ faults < MaxFaults
  /\ faults' = faults + 1

Goto(s, from, to) ==
  /\ pc[s] = from
  /\ pc' = [pc EXCEPT ![s] = to]

-----------------------------------------------------------------------------
(* upsert_batch *)

\* upsert_batch is called with some rows; no rows, nothing to do.
UpsertBatch(s) ==
  /\ pc[s] \in {"idle", "returned", "raised"}
  /\ \E b \in Batches[s] :
       /\ batch' = [batch EXCEPT ![s] = b]
       /\ pc' = [pc EXCEPT ![s] = IF b = EmptyBatch THEN "returned" ELSE "load"]
  /\ error'   = [error EXCEPT ![s] = "none"]
  /\ attempt' = [attempt EXCEPT ![s] = 0]
  /\ warned'  = [warned EXCEPT ![s] = FALSE]
  /\ UNCHANGED <<dbVars, faults>>

\* Mutant: rows left in the staging table by an earlier call stay there.
RowsOverLeftovers(s) ==
  [k \in Keys |-> IF batch[s][k] = NoRow /\ Staged(s) # NoTable THEN Staged(s)[k]
                                                               ELSE batch[s][k]]

\* What the staging table holds after DROP, SELECT INTO and the INSERTs.
LoadedRows(s) == batch[s]

\* _load_staging_table: drop, create and fill the staging table, then
\* _finalize_connection, which swallows the failure of its commit.
LoadStagingTable(s) ==
  /\ Goto(s, "load", "purge")
  /\ \/ /\ staging' = [staging EXCEPT ![StagingTable[s]] = LoadedRows(s)]
        /\ UNCHANGED <<warned, faults>>
     \/ /\ Fault("commit")
        /\ staging' \in {staging, [staging EXCEPT ![StagingTable[s]] = LoadedRows(s)]}
        /\ warned' = [warned EXCEPT ![s] = TRUE]
  /\ UNCHANGED <<target, pending, error, callVars>>

\* A statement of _load_staging_table, or connecting, fails: rolled back, raised.
LoadFails(s) ==
  /\ Goto(s, "load", "except")
  /\ Fault("statement")
  /\ error' = [error EXCEPT ![s] = "other"]
  /\ UNCHANGED <<dbVars, warned, callVars>>

\* Mutant: the key_mismatch condition of the DELETE is missing.
ConflictingAnyKey(s, k) ==
  /\ View(s)[k] # NoRow
  /\ View(s)[k].uk \in UniqueValuesOf(Staged(s))

\* Rows of the target that match a staged row on the unique column (NULLs
\* match, _build_null_safe_equality) but not on the primary key.
Conflicting(s, k) ==
  /\ View(s)[k] # NoRow
  /\ \E j \in Keys \ {k} :
       /\ Staged(s)[j] # NoRow
       /\ Staged(s)[j].uk = View(s)[k].uk

\* _delete_unique_key_conflicts; returns at once when there are no unique keys.
DeleteUniqueKeyConflicts(s) ==
  /\ Goto(s, "purge", "merge")
  /\ IF HasUniqueKeys(s)
     THEN /\ Staged(s) # NoTable
          /\ ~PurgeBlocked(s)
          /\ pending' = [pending EXCEPT ![s] =
               [k \in Keys |-> IF Conflicting(s, k) THEN NoRow ELSE @[k]]]
     ELSE UNCHANGED pending
  /\ UNCHANGED <<target, staging, error, warned, faults, callVars>>

\* Mutants: MERGE without WHEN MATCHED, MERGE with it though insert_only is set.
InsertedRow(s, k) ==
  IF Staged(s)[k] # NoRow /\ View(s)[k] = NoRow THEN Staged(s)[k] ELSE View(s)[k]

OverwrittenRow(s, k) == IF Staged(s)[k] # NoRow THEN Staged(s)[k] ELSE View(s)[k]

\* What MERGE leaves under key k: staged rows are inserted, or written over the
\* row that is there unless insert_only drops the WHEN MATCHED clause.  A row
\* that does not change (change_match_condition) is not written, nor locked.
MergedRow(s, k) ==
  IF Staged(s)[k] # NoRow /\ (View(s)[k] = NoRow \/ s \notin InsertOnly)
  THEN Staged(s)[k]
  ELSE View(s)[k]

\* The MERGE statement of _upsert_batch_once succeeds.
ExecuteMerge(s) ==
  /\ Goto(s, "merge", "cleanup")
  /\ Staged(s) # NoTable
  /\ ~MergeBlocked(s)
  /\ UniqueIndexHolds([k \in Keys |-> MergedRow(s, k)])
  /\ pending' = [pending EXCEPT ![s] =
       [k \in Keys |-> IF MergedRow(s, k) # View(s)[k] THEN MergedRow(s, k) ELSE @[k]]]
  /\ UNCHANGED <<target, staging, error, warned, faults, callVars>>

\* A statement fails because of the data: no staging table, or a duplicate in
\* the unique index.  The transaction stays open with what it did before.
StatementRejected(s) ==
  /\ \/ Goto(s, "purge", "cleanup") /\ HasUniqueKeys(s) /\ Staged(s) = NoTable
     \/ /\ Goto(s, "merge", "cleanup")
        /\ \/ Staged(s) = NoTable
           \/ /\ Staged(s) # NoTable
              /\ ~MergeBlocked(s)
              /\ ~UniqueIndexHolds([k \in Keys |-> MergedRow(s, k)])
  /\ error' = [error EXCEPT ![s] = "other"]
  /\ UNCHANGED <<dbVars, warned, faults, callVars>>

\* Mutant: the exception is logged and not raised again.
StatementFailsSilently(s) ==
  /\ Goto(s, "purge", "cleanup") \/ Goto(s, "merge", "cleanup")
  /\ Fault("statement")
  /\ UNCHANGED <<dbVars, error, warned, callVars>>

\* A statement fails for a reason of the server's: only the statement is undone,
\* or the whole transaction.
StatementFails(s) ==
  /\ Goto(s, "purge", "cleanup") \/ Goto(s, "merge", "cleanup")
  /\ Fault("statement")
  /\ pending' \in {pending, [pending EXCEPT ![s] = NoPending]}
  /\ error' = [error EXCEPT ![s] = "other"]
  /\ UNCHANGED <<target, staging, warned, callVars>>

\* Error 1205: the server rolls the victim's transaction back.  The deadlock may
\* be one of locks that are not modelled (pages, ranges, system tables), so any
\* session with a rival may be hit.
DeadlockVictim(s) ==
  /\ \E t \in Sessions \ {s} : pc[t] \in {"load", "purge", "merge", "cleanup"}
  /\ \/ Goto(s, "load", "except")
     \/ Goto(s, "purge", "cleanup")
     \/ Goto(s, "merge", "cleanup")
  /\ RollbackTx(s)
  /\ error' = [error EXCEPT ![s] = "deadlock"]
  /\ UNCHANGED <<staging, warned, faults, callVars>>

\* _cleanup_staging_table drops the staging table and commits, whether or not
\* the MERGE succeeded.
CleanupStagingTable(s) ==
  /\ Goto(s, "cleanup", "finalize")
  /\ CommitTx(s)
  /\ staging' = [staging EXCEPT ![StagingTable[s]] = NoTable]
  /\ UNCHANGED <<error, warned, faults, callVars>>

\* The DROP or the commit fails on a live connection: rolled back, logged.
CleanupFails(s) ==
  /\ Goto(s, "cleanup", "finalize")
  /\ Fault("drop")
  /\ RollbackTx(s)
  /\ warned' = [warned EXCEPT ![s] = TRUE]
  /\ UNCHANGED <<staging, error, callVars>>

\* The connection is gone: the rollback raises too and leaves the finally block.
\* The server undid the transaction, or had just committed it.  A deadlock that
\* was being handled is still found in the chain of causes.
CleanupLosesConnection(s) ==
  /\ Goto(s, "cleanup", "except")
  /\ Fault("connection")
  /\ \/ RollbackTx(s) /\ UNCHANGED staging
     \/ CommitTx(s) /\ staging' = [staging EXCEPT ![StagingTable[s]] = NoTable]
  /\ error' = [error EXCEPT ![s] = IF @ = "deadlock" THEN @ ELSE "other"]
  /\ UNCHANGED <<warned, callVars>>

\* _finalize_connection(commit=success), whose own failure is only logged.
FinalizeConnection(s) ==
  /\ Goto(s, "finalize", IF error[s] = "none" THEN "returned" ELSE "except")
  /\ \/ /\ IF error[s] = "none" THEN CommitTx(s) ELSE RollbackTx(s)
        /\ UNCHANGED <<warned, faults>>
     \/ /\ Fault("commit")
        /\ RollbackTx(s)
        /\ warned' = [warned EXCEPT ![s] = TRUE]
  /\ UNCHANGED <<staging, error, callVars>>

\* Mutants: one attempt too many, attempts that are not counted.
OneAttemptMore(s) == attempt[s] < MaxAttempts

AttemptNotCounted(s) == UNCHANGED attempt

AttemptsLeft(s) == attempt[s] + 1 < MaxAttempts

\* RetryContext.record_failure.
RecordFailure(s) == attempt' = [attempt EXCEPT ![s] = @ + 1]

\* The except clause of upsert_batch: only deadlocks are retried.
RetryDeadlock(s) ==
  /\ Goto(s, "except", "load")
  /\ error[s] = "deadlock"
  /\ AttemptsLeft(s)
  /\ RecordFailure(s)
  /\ error'   = [error EXCEPT ![s] = "none"]
  /\ UNCHANGED <<dbVars, batch, warned, faults>>

RaiseError(s) ==
  /\ Goto(s, "except", "raised")
  /\ error[s] # "deadlock" \/ ~AttemptsLeft(s)
  /\ UNCHANGED <<dbVars, batch, attempt, error, warned, faults>>

\* The worker is killed: the server rolls back, the staging table stays.
TaskDies(s) ==
  /\ pc[s] \in Locations \ {"idle", "returned", "raised"}
  /\ pc' = [pc EXCEPT ![s] = "raised"]
  /\ Fault("crash")
  /\ RollbackTx(s)
  /\ error' = [error EXCEPT ![s] = "other"]
  /\ UNCHANGED <<staging, warned, callVars>>

-----------------------------------------------------------------------------

\* The steps of a call in progress.
CallStep(s) ==
  \/ LoadStagingTable(s) \/ LoadFails(s)
  \/ DeleteUniqueKeyConflicts(s)
  \/ ExecuteMerge(s)
  \/ StatementRejected(s) \/ StatementFails(s) \/ DeadlockVictim(s)
  \/ CleanupStagingTable(s) \/ CleanupFails(s) \/ CleanupLosesConnection(s)
  \/ FinalizeConnection(s)
  \/ RetryDeadlock(s) \/ RaiseError(s)

Next == \E s \in Sessions : UpsertBatch(s) \/ CallStep(s) \/ TaskDies(s)

Spec == Init /\ [][Next]_vars

\* The steps of a call that nobody hinders.
Proceed(s) ==
  \/ LoadStagingTable(s)
  \/ DeleteUniqueKeyConflicts(s) \/ ExecuteMerge(s) \/ StatementRejected(s)
  \/ CleanupStagingTable(s) \/ FinalizeConnection(s)
  \/ RetryDeadlock(s) \/ RaiseError(s)

\* A task that runs keeps running; the server grants locks in the order they
\* are asked for, so a statement is not passed over for ever; its deadlock
\* monitor finds every cycle of waits and picks a victim.
Fairness ==
  /\ \A s \in Sessions :
       /\ WF_vars(Proceed(s))
       /\ SF_vars(DeleteUniqueKeyConflicts(s))
       /\ SF_vars(ExecuteMerge(s) \/ StatementRejected(s))
  /\ WF_vars(\E s \in Sessions : Deadlocked(s) /\ DeadlockVictim(s))

FairSpec == Spec /\ Fairness

-----------------------------------------------------------------------------
(* Properties *)

\* No other session is ever given a key or a unique value of this one's, as
\* when the tasks are the chunks of one source snapshot.
Isolated(s) ==
  \A t \in Sessions \ {s} : \A b \in Batches[s], c \in Batches[t] :
    /\ \A k \in Keys : b[k] = NoRow \/ c[k] = NoRow
    /\ UniqueValuesOf(b) \cap UniqueValuesOf(c) = {}

\* What the orchestrators rely on when upsert_batch returns (they count the rows,
\* stage their keys, commit offsets): the rows are in the table.  It can fail
\* only after one of the warnings that the writer logs instead of raising.
ReportedRowsPresent ==
  \A s \in Sessions \ InsertOnly :
    (pc[s] = "returned" /\ ~warned[s] /\ Isolated(s)) =>
      \A k \in Keys : batch[s][k] # NoRow => target[k] = batch[s][k]

\* No two sessions were given the same staging_suffix.
StagingSeparate ==
  \A s, t \in Sessions : s # t => StagingTable[s] # StagingTable[t]

\* A call works on rows it was given; its staging table holds them between the
\* load and the DROP.
StagingInvariant ==
  \A s \in Sessions :
    /\ Staged(s) \in Batches[s] \cup {NoTable}
    /\ pc[s] # "idle" => batch[s] \in Batches[s]
    /\ pc[s] = "returned" => error[s] = "none"
    /\ (pc[s] \in {"purge", "merge", "cleanup"} /\ ~warned[s]) => Staged(s) = batch[s]

\* Locks, whatever the staging tables: outside the statements nothing is written,
\* nor by a victim; no row is written by two open transactions; a failed call has
\* nothing but deletions, and those only if it resolves unique keys.
LockInvariant ==
  \A s \in Sessions :
    /\ pc[s] \in {"load", "purge", "merge"} => error[s] = "none"
    /\ pc[s] \notin {"merge", "cleanup"} \/ error[s] = "deadlock" => pending[s] = NoPending
    /\ \A k \in Keys : HoldsLock(s, k) =>
         /\ \A t \in Sessions \ {s} : ~HoldsLock(t, k)
         /\ \/ pending[s][k] = NoRow /\ target[k] # NoRow /\ HasUniqueKeys(s)
            \/ /\ pending[s][k] # NoRow /\ pc[s] = "cleanup" /\ error[s] = "none"
               /\ s \in InsertOnly \ ResolveUniqueKeys => target[k] = NoRow

\* The row that is committed under k has the unique value of a row staged under
\* another key.
Overlaps(s, k) ==
  /\ target[k] # NoRow
  /\ \E j \in Keys \ {k} : Staged(s)[j] # NoRow /\ Staged(s)[j].uk = target[k].uk

\* What a session is about to commit: deletions of rows that overlap, staged rows,
\* and between the MERGE and the commit all of the staged rows are there to see.
CommitInvariant ==
  \A s \in Sessions :
    /\ \A k \in Keys : HoldsLock(s, k) =>
         /\ Staged(s) # NoTable
         /\ \/ pending[s][k] = NoRow /\ Overlaps(s, k)
            \/ /\ pending[s][k] = Staged(s)[k] /\ Staged(s)[k] # NoRow
               /\ s \in InsertOnly => target[k] = NoRow \/ Overlaps(s, k)
    /\ pc[s] = "cleanup" /\ error[s] = "none" =>
         /\ Staged(s) # NoTable
         /\ Isolated(s) /\ s \notin InsertOnly =>
              \A k \in Keys : Staged(s)[k] # NoRow => View(s)[k] = Staged(s)[k]

\* After the commit everybody sees them.
MergedInvariant ==
  \A s \in Sessions \ InsertOnly :
    (pc[s] \in {"finalize", "returned"} /\ error[s] = "none" /\ ~warned[s] /\ Isolated(s))
      => \A k \in Keys : batch[s][k] # NoRow => target[k] = batch[s][k]

\* The inductive invariant behind the properties.
WriterInvariant ==
  /\ LockInvariant
  /\ StagingSeparate => StagingInvariant /\ CommitInvariant /\ MergedInvariant

\* A row that appears or changes in the target table is a row of the call that
\* commits it: never one left in the staging table by another task or by an
\* earlier call that failed, crashed or could not drop its staging table.
WritesComeFromOpenCall ==
  [][\A k \in Keys :
       (target'[k] # target[k] /\ target'[k] # NoRow) =>
         \E s \in Sessions :
           /\ pc[s] \in {"cleanup", "finalize"}
           /\ batch[s][k] = target'[k] \/ warned[s]]_vars

\* A row leaves the target table only if it would have made the MERGE of the
\* committing call fail on the unique index.
DeletesOnlyConflicts ==
  [][\A k \in Keys :
       (target[k] # NoRow /\ target'[k] = NoRow) =>
         \E s \in Sessions : \E j \in Keys \ {k} :
           /\ pc[s] = "cleanup" /\ pc'[s] # "cleanup"
           /\ \/ /\ batch[s][j] # NoRow
                 /\ batch[s][j].uk = target[k].uk
                 /\ Indexed(target[k].uk)
              \/ warned[s]]_vars

\* The last steps of a call of session s whose statements failed.
LeavesFailedCall(s) ==
  pc[s] \in {"cleanup", "finalize"} /\ error[s] # "none" /\ pc'[s] # pc[s]

\* _finalize_connection is called with commit=success: a call whose statements
\* failed leaves the target table as it was.
FailedCallLeavesTable ==
  [][\A s \in Sessions : LeavesFailedCall(s) => target' = target]_vars

\* The same of the calls that resolve no unique keys: the MERGE is the only
\* statement that writes, so the commit of _cleanup_staging_table has nothing
\* to make permanent after it failed.
FailedCallIsRolledBack ==
  [][\A s \in Sessions \ ResolveUniqueKeys : LeavesFailedCall(s) => target' = target]_vars

\* A call with insert_only that resolves no unique keys leaves the rows that
\* exist when it commits as they are, whoever wrote them and when: also a row
\* that another task committed after this call looked at the table.
InsertOnlyKeepsRows ==
  [][\A s \in InsertOnly \ ResolveUniqueKeys :
       (pc[s] \in {"cleanup", "finalize"} /\ pc'[s] # pc[s]) =>
         \A k \in Keys : target[k] # NoRow => target'[k] = target[k]]_vars

\* Every call comes to an end, however the sessions block one another: waits are
\* broken by the server choosing a victim, and a victim starts over only
\* _UPSERT_DEADLOCK_MAX_ATTEMPTS times.
CallTerminates ==
  \A s \in Sessions : pc[s] = "load" ~> pc[s] \in {"returned", "raised"}

=============================================================================
