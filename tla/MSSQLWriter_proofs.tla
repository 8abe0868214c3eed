------------------------- MODULE MSSQLWriter_proofs -------------------------
(***************************************************************************)
(* Theorems about MSSQLWriter, for any number of sessions, keys and rows   *)
(* and any placement of failures.                                          *)
(***************************************************************************)
EXTENDS MSSQLWriter, TLAPS

\* A session sees a table of rows: its own writes over the committed ones.
LEMMA ViewType ==
  ASSUME TypeOK, NEW s \in Sessions
  PROVE  View(s) \in Batch
BY DEF TypeOK, View, Batch

\* MERGE leaves a row, or no row, under each key.
LEMMA MergedRowType ==
  ASSUME TypeOK, NEW s \in Sessions, NEW k \in Keys, Staged(s) # NoTable
  PROVE  MergedRow(s, k) \in Rows \cup {NoRow}
<1>1. View(s) \in Batch
  BY ViewType
<1>2. Staged(s) \in Batch
  BY ConfigIsSound DEF TypeOK, Staged
<1> QED
  BY <1>1, <1>2 DEF MergedRow, Batch

\* Commit and rollback keep the types.
LEMMA TxType ==
  ASSUME TypeOK, NEW s \in Sessions, CommitTx(s) \/ RollbackTx(s)
  PROVE  /\ target' \in Batch
         /\ pending' \in [Sessions -> [Keys -> Rows \cup {NoRow, Untouched}]]
<1>1. View(s) \in Batch
  BY ViewType
<1> QED
  BY <1>1 DEF TypeOK, CommitTx, RollbackTx, NoPending

\* A swallowed warning and a counted fault keep the types.
LEMMA WarnType ==
  ASSUME TypeOK, NEW s \in Sessions, NEW kind,
         \/ UNCHANGED <<warned, faults>>
         \/ Fault(kind) /\ UNCHANGED warned
         \/ Fault(kind) /\ warned' = [warned EXCEPT ![s] = TRUE]
  PROVE  warned' \in [Sessions -> BOOLEAN] /\ faults' \in 0 .. MaxFaults
<1>1. warned' \in [Sessions -> BOOLEAN]
  BY DEF TypeOK
<1>2. faults' \in 0 .. MaxFaults
  <2>1. faults' = faults \/ (faults < MaxFaults /\ faults' = faults + 1)
    BY DEF Fault
  <2> QED
    BY <2>1, ConfigIsSound DEF TypeOK
<1> QED
  BY <1>1, <1>2

LEMMA InitType == Init => TypeOK
BY ConfigIsSound DEF Init, TypeOK, Batch, EmptyBatch, NoPending, Locations

LEMMA StepType == TypeOK /\ [Next]_vars => TypeOK'
<1> SUFFICES ASSUME TypeOK, [Next]_vars PROVE TypeOK'
  OBVIOUS
<1> USE ConfigIsSound
<1>1. CASE UNCHANGED vars
  BY <1>1 DEF vars, TypeOK
<1>2. ASSUME NEW s \in Sessions, UpsertBatch(s) PROVE TypeOK'
  BY <1>2 DEF UpsertBatch, TypeOK, dbVars, Locations
<1>3. ASSUME NEW s \in Sessions, CallStep(s) \/ TaskDies(s) PROVE TypeOK'
  <2>1. CASE LoadStagingTable(s)
    <3>1. staging' \in [StagingTables -> Batch \cup {NoTable}]
      BY <2>1 DEF LoadStagingTable, LoadedRows, TypeOK
    <3>2. warned' \in [Sessions -> BOOLEAN] /\ faults' \in 0 .. MaxFaults
      BY <2>1, WarnType DEF LoadStagingTable, LoadedRows
    <3> QED
      BY <2>1, <3>1, <3>2 DEF LoadStagingTable, LoadedRows, TypeOK, Goto, callVars, Locations
  <2>2. CASE LoadFails(s)
    BY <2>2 DEF LoadFails, TypeOK, Fault, Goto, callVars, dbVars, Locations
  <2>3. CASE DeleteUniqueKeyConflicts(s)
    BY <2>3 DEF DeleteUniqueKeyConflicts, HasUniqueKeys, TypeOK, Goto, callVars, Locations
  <2>4. CASE ExecuteMerge(s)
    <3>1. \A k \in Keys : MergedRow(s, k) \in Rows \cup {NoRow}
      BY <2>4, MergedRowType DEF ExecuteMerge
    <3> QED
      BY <2>4, <3>1 DEF ExecuteMerge, TypeOK, Goto, callVars, Locations
  <2>5. CASE StatementRejected(s)
    BY <2>5 DEF StatementRejected, TypeOK, Goto, callVars, dbVars, Locations
  <2>6. CASE StatementFails(s)
    <3>1. pending' \in [Sessions -> [Keys -> Rows \cup {NoRow, Untouched}]]
      BY <2>6 DEF StatementFails, TypeOK, NoPending
    <3>2. warned' \in [Sessions -> BOOLEAN] /\ faults' \in 0 .. MaxFaults
      BY <2>6, WarnType DEF StatementFails
    <3> QED
      BY <2>6, <3>1, <3>2 DEF StatementFails, TypeOK, Goto, callVars, Locations
  <2>7. CASE DeadlockVictim(s)
    BY <2>7, TxType DEF DeadlockVictim, TypeOK, Goto, callVars, Locations
  <2>8. CASE CleanupStagingTable(s)
    BY <2>8, TxType DEF CleanupStagingTable, TypeOK, Goto, callVars, Locations
  <2>9. CASE CleanupFails(s)
    <3>1. warned' \in [Sessions -> BOOLEAN] /\ faults' \in 0 .. MaxFaults
      BY <2>9, WarnType DEF CleanupFails
    <3> QED
      BY <2>9, <3>1, TxType DEF CleanupFails, TypeOK, Goto, callVars, Locations
  <2>10. CASE CleanupLosesConnection(s)
    <3>1. warned' \in [Sessions -> BOOLEAN] /\ faults' \in 0 .. MaxFaults
      BY <2>10, WarnType DEF CleanupLosesConnection
    <3>2. staging' \in [StagingTables -> Batch \cup {NoTable}]
      BY <2>10 DEF CleanupLosesConnection, TypeOK
    <3>3. CommitTx(s) \/ RollbackTx(s)
      BY <2>10 DEF CleanupLosesConnection
    <3> QED
      BY <2>10, <3>1, <3>2, <3>3, TxType
         DEF CleanupLosesConnection, TypeOK, Goto, callVars, Locations
  <2>11. CASE FinalizeConnection(s)
    <3>1. warned' \in [Sessions -> BOOLEAN] /\ faults' \in 0 .. MaxFaults
      BY <2>11, WarnType DEF FinalizeConnection
    <3>2. CommitTx(s) \/ RollbackTx(s)
      BY <2>11 DEF FinalizeConnection
    <3> QED
      BY <2>11, <3>1, <3>2, TxType DEF FinalizeConnection, TypeOK, Goto, callVars, Locations
  <2>12. CASE RetryDeadlock(s)
    BY <2>12 DEF RetryDeadlock, AttemptsLeft, RecordFailure, TypeOK, Goto, dbVars, Locations
  <2>13. CASE RaiseError(s)
    BY <2>13 DEF RaiseError, TypeOK, Goto, dbVars, Locations
  <2>14. CASE TaskDies(s)
    BY <2>14, TxType DEF TaskDies, TypeOK, Goto, Fault, callVars, Locations
  <2> QED
    BY <1>3, <2>1, <2>2, <2>3, <2>4, <2>5, <2>6, <2>7, <2>8, <2>9, <2>10, <2>11,
       <2>12, <2>13, <2>14 DEF CallStep
<1> QED
  BY <1>1, <1>2, <1>3 DEF Next

\* Type correctness of the writer: in particular the counter of deadlock
\* retries stays below _UPSERT_DEADLOCK_MAX_ATTEMPTS.
THEOREM TypeCorrect == Spec => []TypeOK
BY InitType, StepType, PTL DEF Spec

-----------------------------------------------------------------------------
(* What one step of a session does to the others and to the database *)

Step(s) == UpsertBatch(s) \/ CallStep(s) \/ TaskDies(s)

\* A step leaves the calls and the transactions of the other sessions alone.
LEMMA CallFrame ==
  ASSUME TypeOK, NEW s \in Sessions, Step(s), NEW t \in Sessions \ {s}
  PROVE  /\ pc'[t] = pc[t] /\ batch'[t] = batch[t]
         /\ error'[t] = error[t] /\ warned'[t] = warned[t]
         /\ pending'[t] = pending[t]
<1> USE ConfigIsSound
<1>1. pc'[t] = pc[t] /\ batch'[t] = batch[t]
  BY DEF Step, CallStep, UpsertBatch, LoadStagingTable, LoadedRows, LoadFails,
     DeleteUniqueKeyConflicts, HasUniqueKeys, ExecuteMerge, StatementRejected, StatementFails,
     DeadlockVictim, CleanupStagingTable, CleanupFails, CleanupLosesConnection,
     FinalizeConnection, RetryDeadlock, AttemptsLeft, RecordFailure, RaiseError, TaskDies, Goto, callVars, TypeOK
<1>2. error'[t] = error[t] /\ warned'[t] = warned[t]
  BY DEF Step, CallStep, UpsertBatch, LoadStagingTable, LoadedRows, LoadFails,
     DeleteUniqueKeyConflicts, HasUniqueKeys, ExecuteMerge, StatementRejected, StatementFails,
     DeadlockVictim, CleanupStagingTable, CleanupFails, CleanupLosesConnection,
     FinalizeConnection, RetryDeadlock, AttemptsLeft, RecordFailure, RaiseError, TaskDies, TypeOK
<1>3. pending'[t] = pending[t]
  BY DEF Step, CallStep, UpsertBatch, LoadStagingTable, LoadedRows, LoadFails,
     DeleteUniqueKeyConflicts, HasUniqueKeys, ExecuteMerge, StatementRejected, StatementFails,
     DeadlockVictim, CleanupStagingTable, CleanupFails, CleanupLosesConnection,
     FinalizeConnection, RetryDeadlock, AttemptsLeft, RecordFailure, RaiseError, TaskDies, dbVars,
     CommitTx, RollbackTx, TypeOK
<1> QED
  BY <1>1, <1>2, <1>3

\* Their staging tables too, if they have their own.
LEMMA StagedFrame ==
  ASSUME TypeOK, StagingSeparate, NEW s \in Sessions, Step(s),
         NEW t \in Sessions \ {s}
  PROVE  Staged(t)' = Staged(t)
<1> USE ConfigIsSound
<1>1. StagingTable[s] # StagingTable[t]
  BY DEF StagingSeparate
<1>2. \/ UNCHANGED staging
      \/ \E rows : staging' = [staging EXCEPT ![StagingTable[s]] = rows]
  BY DEF Step, CallStep, UpsertBatch, LoadStagingTable, LoadedRows, LoadFails,
     DeleteUniqueKeyConflicts, HasUniqueKeys, ExecuteMerge, StatementRejected, StatementFails,
     DeadlockVictim, CleanupStagingTable, CleanupFails, CleanupLosesConnection,
     FinalizeConnection, RetryDeadlock, AttemptsLeft, RecordFailure, RaiseError, TaskDies, dbVars
<1> QED
  BY <1>1, <1>2 DEF Staged, TypeOK

\* s takes the lock of row k, which nobody holds, to delete the row or to write
\* the staged one over what it sees.
Acquires(s, k) ==
  /\ \A t \in Sessions \ {s} : ~HoldsLock(t, k)
  /\ Staged(s) # NoTable
  /\ \/ /\ pc[s] = "purge" /\ HasUniqueKeys(s)
        /\ pending[s][k] = Untouched /\ pending'[s][k] = NoRow /\ Overlaps(s, k)
     \/ /\ pc[s] = "merge" /\ pc'[s] = "cleanup"
        /\ Staged(s)[k] # NoRow /\ pending'[s][k] = Staged(s)[k]
        /\ s \in InsertOnly => View(s)[k] = NoRow

\* The DELETE of the conflicting rows locks nothing but free conflicting rows.
LEMMA PurgeLocks ==
  ASSUME TypeOK, LockInvariant, NEW s \in Sessions, DeleteUniqueKeyConflicts(s),
         NEW k \in Keys, HoldsLock(s, k)'
  PROVE  Acquires(s, k)
<1>1. pending[s] = NoPending /\ pc[s] = "purge"
  BY DEF LockInvariant, DeleteUniqueKeyConflicts, Goto
<1>2. View(s)[k] = target[k] /\ pending[s][k] = Untouched
  BY <1>1 DEF View, NoPending
<1>3. /\ Staged(s) # NoTable
      /\ ~PurgeBlocked(s)
      /\ HasUniqueKeys(s)
      /\ Conflicting(s, k)
      /\ pending'[s][k] = NoRow
  BY <1>2 DEF DeleteUniqueKeyConflicts, HoldsLock, TypeOK
<1>4. Overlaps(s, k)
  BY <1>2, <1>3 DEF Conflicting, Overlaps
<1>5. target[k] \in Rows /\ target[k].uk \in UniqueValuesOf(Staged(s))
  BY <1>4 DEF TypeOK, Batch, Overlaps, UniqueValuesOf
<1>6. ASSUME NEW t \in Sessions \ {s}, HoldsLock(t, k) PROVE FALSE
  <2>1. LocksUniqueValue(t, k, Staged(s))
    BY <1>5 DEF LocksUniqueValue
  <2> QED
    BY <2>1, <1>3, <1>6 DEF PurgeBlocked, PurgeWaitsFor
<1> QED
  BY <1>1, <1>2, <1>3, <1>4, <1>6 DEF Acquires

\* MERGE locks nothing but free rows with a staged key, those that it changes.
LEMMA MergeLocks ==
  ASSUME TypeOK, NEW s \in Sessions, ExecuteMerge(s),
         NEW k \in Keys, pending'[s][k] # pending[s][k]
  PROVE  Acquires(s, k)
<1>1. Staged(s) # NoTable /\ ~MergeBlocked(s) /\ pc[s] = "merge" /\ pc'[s] = "cleanup"
  BY DEF ExecuteMerge, Goto, TypeOK
<1>2. MergedRow(s, k) # View(s)[k] /\ pending'[s][k] = MergedRow(s, k)
  BY DEF ExecuteMerge, TypeOK
<1>3. /\ Staged(s)[k] # NoRow /\ MergedRow(s, k) = Staged(s)[k]
      /\ s \in InsertOnly => View(s)[k] = NoRow
  BY <1>2 DEF MergedRow
<1>4. \A t \in Sessions \ {s} : ~HoldsLock(t, k)
  BY <1>1, <1>3 DEF MergeBlocked, MergeWaitsFor
<1> QED
  BY <1>1, <1>2, <1>3, <1>4 DEF Acquires

\* A step changes the target only by committing, which releases every lock, and
\* writes only as Acquires says, during the statements of the call.
LEMMA DatabaseEffect ==
  ASSUME TypeOK, LockInvariant, NEW s \in Sessions, Step(s)
  PROVE  \/ /\ pending'[s] = NoPending
            /\ \/ target' = target
               \/ /\ target' = View(s)
                  /\ pc[s] \in {"cleanup", "finalize"} /\ pc'[s] # "cleanup"
         \/ /\ pc[s] \in {"purge", "merge"} /\ pc'[s] \in {"merge", "cleanup"}
            /\ UNCHANGED <<target, staging>>
            /\ \A k \in Keys : \/ pending'[s][k] = pending[s][k]
                               \/ Acquires(s, k) /\ error' = error
<1> DEFINE Releases == /\ pending'[s] = NoPending
                       /\ \/ target' = target
                          \/ /\ target' = View(s)
                             /\ pc[s] \in {"cleanup", "finalize"} /\ pc'[s] # "cleanup"
           Locks == /\ pc[s] \in {"purge", "merge"} /\ pc'[s] \in {"merge", "cleanup"}
                    /\ UNCHANGED <<target, staging>>
                    /\ \A k \in Keys : \/ pending'[s][k] = pending[s][k]
                                       \/ Acquires(s, k) /\ error' = error
<1> SUFFICES Releases \/ Locks
  OBVIOUS
<1>1. CASE UpsertBatch(s)
  BY <1>1 DEF UpsertBatch, dbVars, LockInvariant
<1>2. CASE LoadStagingTable(s) \/ LoadFails(s)
  BY <1>2 DEF LoadStagingTable, LoadedRows, LoadFails, Goto, dbVars, LockInvariant
<1>3. CASE DeleteUniqueKeyConflicts(s)
  <2>1. /\ pc[s] = "purge" /\ pc'[s] = "merge"
        /\ UNCHANGED <<target, staging, error>>
    BY <1>3 DEF DeleteUniqueKeyConflicts, Goto, TypeOK
  <2>2. pending[s] = NoPending
    BY <2>1 DEF LockInvariant
  <2>3. ASSUME NEW k \in Keys, ~HoldsLock(s, k)' PROVE pending'[s][k] = pending[s][k]
    BY <2>2, <2>3 DEF HoldsLock, NoPending
  <2> QED
    BY <2>1, <2>3, <1>3, PurgeLocks
<1>4. CASE ExecuteMerge(s)
  <2>1. /\ pc[s] = "merge" /\ pc'[s] = "cleanup"
        /\ UNCHANGED <<target, staging, error>>
    BY <1>4 DEF ExecuteMerge, Goto, TypeOK
  <2> QED
    BY <2>1, <1>4, MergeLocks
<1>5. CASE StatementRejected(s)
  <2>1. pc[s] \in {"purge", "merge"} /\ pc'[s] = "cleanup" /\ UNCHANGED dbVars
    BY <1>5 DEF StatementRejected, Goto, TypeOK
  <2> QED
    BY <2>1 DEF dbVars
<1>6. CASE StatementFails(s)
  <2>1. /\ pc[s] \in {"purge", "merge"} /\ pc'[s] = "cleanup"
        /\ UNCHANGED <<target, staging>>
    BY <1>6 DEF StatementFails, Goto, TypeOK
  <2>2. pending' = pending \/ pending'[s] = NoPending
    BY <1>6 DEF StatementFails, TypeOK
  <2> QED
    BY <2>1, <2>2
<1>7. CASE CleanupStagingTable(s) \/ CleanupFails(s)
             \/ CleanupLosesConnection(s) \/ FinalizeConnection(s)
  <2>1. CommitTx(s) \/ RollbackTx(s)
    BY <1>7 DEF CleanupStagingTable, CleanupFails, CleanupLosesConnection, FinalizeConnection
  <2>2. pc[s] \in {"cleanup", "finalize"} /\ pc'[s] # "cleanup"
    BY <1>7 DEF CleanupStagingTable, CleanupFails, CleanupLosesConnection,
       FinalizeConnection, Goto, TypeOK
  <2> QED
    BY <2>1, <2>2 DEF CommitTx, RollbackTx, TypeOK
<1>8. CASE DeadlockVictim(s) \/ TaskDies(s)
  BY <1>8 DEF DeadlockVictim, TaskDies, RollbackTx, TypeOK
<1>9. CASE RetryDeadlock(s) \/ RaiseError(s)
  BY <1>9 DEF RetryDeadlock, AttemptsLeft, RecordFailure, RaiseError, Goto, dbVars, LockInvariant
<1> QED
  BY <1>1, <1>2, <1>3, <1>4, <1>5, <1>6, <1>7, <1>8, <1>9 DEF Step, CallStep

\* A row whose committed version changes was locked by the session that commits.
LEMMA TargetChange ==
  ASSUME TypeOK, LockInvariant, NEW s \in Sessions, Step(s),
         NEW k \in Keys, ~HoldsLock(s, k)
  PROVE  target'[k] = target[k]
BY DatabaseEffect DEF View, HoldsLock

-----------------------------------------------------------------------------
(* The locks *)

\* The exception in flight while the statements are executed, or after a victim.
LEMMA ErrorStep ==
  ASSUME TypeOK, LockInvariant, NEW s \in Sessions, Step(s)
  PROVE  /\ pc'[s] \in {"load", "purge", "merge"} => error'[s] = "none"
         /\ error'[s] = "deadlock" => pending'[s] = NoPending
<1> USE DEF TypeOK, LockInvariant
<1>1. CASE UpsertBatch(s)
  BY <1>1 DEF UpsertBatch
<1>2. CASE LoadStagingTable(s) \/ LoadFails(s)
  BY <1>2 DEF LoadStagingTable, LoadFails, Goto, dbVars
<1>3. CASE DeleteUniqueKeyConflicts(s) \/ ExecuteMerge(s)
  BY <1>3 DEF DeleteUniqueKeyConflicts, ExecuteMerge, Goto
<1>4. CASE StatementRejected(s) \/ StatementFails(s)
  BY <1>4 DEF StatementRejected, StatementFails, Goto
<1>5. CASE DeadlockVictim(s)
  BY <1>5 DEF DeadlockVictim, RollbackTx, Goto
<1>6. CASE CleanupStagingTable(s) \/ CleanupFails(s) \/ CleanupLosesConnection(s)
             \/ FinalizeConnection(s)
  <2>1. pc'[s] \notin {"load", "purge", "merge"}
    BY <1>6 DEF CleanupStagingTable, CleanupFails, CleanupLosesConnection,
       FinalizeConnection, Goto
  <2>2. CommitTx(s) \/ RollbackTx(s)
    BY <1>6 DEF CleanupStagingTable, CleanupFails, CleanupLosesConnection, FinalizeConnection
  <2> QED
    BY <2>1, <2>2 DEF CommitTx, RollbackTx
<1>7. CASE RetryDeadlock(s) \/ RaiseError(s)
  BY <1>7 DEF RetryDeadlock, RaiseError, Goto, dbVars
<1>8. CASE TaskDies(s)
  BY <1>8 DEF TaskDies
<1> QED
  BY <1>1, <1>2, <1>3, <1>4, <1>5, <1>6, <1>7, <1>8 DEF Step, CallStep

LEMMA LockStep ==
  ASSUME TypeOK, LockInvariant, NEW s \in Sessions, Step(s)
  PROVE  LockInvariant'
<1> DEFINE Quiet(t) ==
             /\ pc[t] \in {"load", "purge", "merge"} => error[t] = "none"
             /\ pc[t] \notin {"merge", "cleanup"} \/ error[t] = "deadlock"
                  => pending[t] = NoPending
           Kind(t, k) ==
             \/ pending[t][k] = NoRow /\ target[k] # NoRow /\ HasUniqueKeys(t)
             \/ /\ pending[t][k] # NoRow /\ pc[t] = "cleanup" /\ error[t] = "none"
                /\ t \in InsertOnly \ ResolveUniqueKeys => target[k] = NoRow
<1>1. \A t \in Sessions : Quiet(t)
  BY DEF LockInvariant
<1>2. \A t, u \in Sessions, k \in Keys : HoldsLock(t, k) /\ HoldsLock(u, k) => t = u
  BY DEF LockInvariant
<1>3. \A t \in Sessions, k \in Keys : HoldsLock(t, k) => Kind(t, k)
  BY DEF LockInvariant
<1>4. \A t \in Sessions : Quiet(t)'
  <2>1. pc'[s] \notin {"merge", "cleanup"} => pending'[s] = NoPending
    BY DatabaseEffect
  <2>2. Quiet(s)'
    BY <2>1, ErrorStep
  <2> QED
    BY <2>2, <1>1, CallFrame
<1>5. \A t \in Sessions \ {s}, k \in Keys : HoldsLock(t, k)' <=> HoldsLock(t, k)
  BY CallFrame DEF HoldsLock
<1>6. ASSUME NEW k \in Keys, HoldsLock(s, k)'
      PROVE  /\ \A t \in Sessions \ {s} : ~HoldsLock(t, k)
             /\ Kind(s, k)'
  <2>1. /\ pc[s] \in {"purge", "merge"} /\ UNCHANGED <<target, staging>>
        /\ pending'[s][k] = pending[s][k] \/ (Acquires(s, k) /\ error' = error)
    BY <1>6, DatabaseEffect DEF HoldsLock, NoPending
  <2>2. CASE pending'[s][k] = pending[s][k]
    BY <2>1, <2>2, <1>2, <1>3, <1>6 DEF HoldsLock, HasUniqueKeys
  <2>3. CASE Acquires(s, k) /\ pc[s] = "purge"
    BY <2>1, <2>3 DEF Acquires, Overlaps, HasUniqueKeys
  <2>4. CASE Acquires(s, k) /\ pc[s] = "merge" /\ error' = error
    <3>1. /\ pending'[s][k] # NoRow /\ pc'[s] = "cleanup" /\ error'[s] = "none"
          /\ s \in InsertOnly => View(s)[k] = NoRow
      BY <2>4, <1>1 DEF Acquires
    <3>2. ASSUME s \in InsertOnly \ ResolveUniqueKeys PROVE target[k] = NoRow
      <4>1. ~HoldsLock(s, k)
        BY <1>3, <2>4, <3>2 DEF HasUniqueKeys
      <4> QED
        BY <4>1, <3>1, <3>2 DEF View, HoldsLock
    <3> QED
      BY <2>1, <2>4, <3>1, <3>2 DEF Acquires
  <2> QED
    BY <2>1, <2>2, <2>3, <2>4
<1>7. \A t, u \in Sessions, k \in Keys : HoldsLock(t, k)' /\ HoldsLock(u, k)' => t = u
  BY <1>2, <1>5, <1>6
<1>8. ASSUME NEW t \in Sessions \ {s}, NEW k \in Keys, HoldsLock(t, k)'
      PROVE  Kind(t, k)'
  <2>1. HoldsLock(t, k) /\ ~HoldsLock(s, k)
    BY <1>2, <1>5, <1>8
  <2>2. target'[k] = target[k]
    BY <2>1, TargetChange
  <2> QED
    BY <2>1, <2>2, <1>3, CallFrame DEF HasUniqueKeys
<1> QED
  BY <1>4, <1>6, <1>7, <1>8 DEF LockInvariant

-----------------------------------------------------------------------------
(* Staging tables of their own *)

\* One session's part of StagingInvariant.
Loaded(s) ==
  /\ Staged(s) \in Batches[s] \cup {NoTable}
  /\ pc[s] # "idle" => batch[s] \in Batches[s]
  /\ pc[s] = "returned" => error[s] = "none"
  /\ (pc[s] \in {"purge", "merge", "cleanup"} /\ ~warned[s]) => Staged(s) = batch[s]

LEMMA StagingStep ==
  ASSUME TypeOK, StagingSeparate, StagingInvariant, NEW s \in Sessions, Step(s)
  PROVE  StagingInvariant'
<1> USE ConfigIsSound
<1>1. \A t \in Sessions : Loaded(t)
  BY DEF StagingInvariant, Loaded
<1>2. ASSUME NEW t \in Sessions \ {s} PROVE Loaded(t)'
  BY <1>1, <1>2, CallFrame, StagedFrame DEF Loaded
<1>3. Loaded(s)'
  <2> USE <1>1 DEF Loaded, TypeOK
  <2>1. CASE UpsertBatch(s)
    BY <2>1 DEF UpsertBatch, dbVars, Staged
  <2>2. CASE LoadStagingTable(s)
    <3>1. batch' = batch /\ batch[s] \in Batches[s] /\ pc'[s] = "purge"
      BY <2>2 DEF LoadStagingTable, LoadedRows, Goto, callVars
    <3>2. Staged(s)' = batch[s] \/ (warned'[s] /\ Staged(s)' = Staged(s))
      BY <2>2 DEF LoadStagingTable, LoadedRows, Staged
    <3> QED
      BY <3>1, <3>2
  <2>3. CASE LoadFails(s) \/ StatementRejected(s) \/ RetryDeadlock(s) \/ RaiseError(s)
    BY <2>3 DEF LoadFails, StatementRejected, RetryDeadlock, AttemptsLeft, RecordFailure, RaiseError, Goto,
       dbVars, callVars, Staged
  <2>4. CASE DeleteUniqueKeyConflicts(s) \/ ExecuteMerge(s)
    BY <2>4 DEF DeleteUniqueKeyConflicts, HasUniqueKeys, ExecuteMerge, Goto, callVars, Staged
  <2>5. CASE StatementFails(s) \/ DeadlockVictim(s)
    BY <2>5 DEF StatementFails, DeadlockVictim, Goto, callVars, Staged
  <2>6. CASE CleanupStagingTable(s) \/ CleanupFails(s) \/ FinalizeConnection(s)
             \/ TaskDies(s)
    BY <2>6 DEF CleanupStagingTable, CleanupFails, FinalizeConnection, TaskDies,
       Goto, callVars, Staged, Locations
  <2>7. CASE CleanupLosesConnection(s)
    BY <2>7 DEF CleanupLosesConnection, Goto, callVars, Staged
  <2> QED
    BY <2>1, <2>2, <2>3, <2>4, <2>5, <2>6, <2>7 DEF Step, CallStep
<1> QED
  BY <1>2, <1>3 DEF StagingInvariant, Loaded

\* What t reports, or is about to commit, under key k is out of reach of the
\* other sessions: they lock only their own staged keys and rows that hold one
\* of their unique values.
LEMMA OutOfReach ==
  ASSUME StagingInvariant, CommitInvariant,
         NEW s \in Sessions, NEW t \in Sessions \ {s}, NEW k \in Keys, Isolated(t),
         NEW b \in Batches[t], b[k] # NoRow, target[k] = b[k]
  PROVE  ~HoldsLock(s, k)
<1> SUFFICES ASSUME HoldsLock(s, k) PROVE FALSE
  OBVIOUS
<1>1. Staged(s) \in Batches[s] /\ (Staged(s)[k] # NoRow \/ Overlaps(s, k))
  BY DEF StagingInvariant, CommitInvariant
<1>2. Staged(s)[k] = NoRow
  BY <1>1 DEF Isolated
<1>3. target[k].uk \in UniqueValuesOf(Staged(s))
  BY <1>1, <1>2 DEF Overlaps, UniqueValuesOf
<1>4. target[k].uk \in UniqueValuesOf(b)
  BY DEF UniqueValuesOf
<1> QED
  BY <1>1, <1>3, <1>4 DEF Isolated

\* Isolation is about what the sessions may be given: no step changes it.
LEMMA IsolatedIsConstant == ASSUME NEW s PROVE Isolated(s)' <=> Isolated(s)
BY DEF Isolated, UniqueValuesOf

\* Only the MERGE leads to the commit of a call that has not failed.
LEMMA OnlyMergeSucceeds ==
  ASSUME TypeOK, NEW s \in Sessions, Step(s), pc'[s] = "cleanup", error'[s] = "none"
  PROVE  ExecuteMerge(s)
<1> USE DEF TypeOK
<1>1. CASE UpsertBatch(s)
  BY <1>1 DEF UpsertBatch
<1>2. CASE LoadStagingTable(s) \/ LoadFails(s) \/ DeleteUniqueKeyConflicts(s)
  BY <1>2 DEF LoadStagingTable, LoadFails, DeleteUniqueKeyConflicts, Goto
<1>3. CASE StatementRejected(s) \/ StatementFails(s) \/ DeadlockVictim(s)
  BY <1>3 DEF StatementRejected, StatementFails, DeadlockVictim
<1>4. CASE CleanupStagingTable(s) \/ CleanupFails(s) \/ CleanupLosesConnection(s)
             \/ FinalizeConnection(s)
  BY <1>4 DEF CleanupStagingTable, CleanupFails, CleanupLosesConnection,
     FinalizeConnection, Goto
<1>5. CASE RetryDeadlock(s) \/ RaiseError(s) \/ TaskDies(s)
  BY <1>5 DEF RetryDeadlock, RaiseError, TaskDies, Goto
<1> QED
  BY <1>1, <1>2, <1>3, <1>4, <1>5 DEF Step, CallStep

\* The MERGE puts every staged row in the session's view.
LEMMA MergeShowsStaged ==
  ASSUME TypeOK, NEW s \in Sessions \ InsertOnly, ExecuteMerge(s),
         NEW k \in Keys, Staged(s)[k] # NoRow
  PROVE  View(s)'[k] = Staged(s)[k]
<1>1. MergedRow(s, k) = Staged(s)[k] /\ Staged(s) # NoTable
  BY DEF MergedRow, ExecuteMerge
<1>2. Staged(s)[k] # Untouched
  BY <1>1, MarkersAreNoRows, ConfigIsSound DEF TypeOK, Batch, Staged
<1>3. /\ target' = target
      /\ pending'[s][k] = IF MergedRow(s, k) # View(s)[k] THEN MergedRow(s, k)
                                                          ELSE pending[s][k]
  BY DEF ExecuteMerge, TypeOK
<1> QED
  BY <1>1, <1>2, <1>3 DEF View

\* The two parts of CommitInvariant.
Owed(s, k) ==
  /\ Staged(s) # NoTable
  /\ \/ pending[s][k] = NoRow /\ Overlaps(s, k)
     \/ /\ pending[s][k] = Staged(s)[k] /\ Staged(s)[k] # NoRow
        /\ s \in InsertOnly => target[k] = NoRow \/ Overlaps(s, k)

Shown(s) ==
  pc[s] = "cleanup" /\ error[s] = "none" =>
    /\ Staged(s) # NoTable
    /\ Isolated(s) /\ s \notin InsertOnly =>
         \A k \in Keys : Staged(s)[k] # NoRow => View(s)[k] = Staged(s)[k]

LEMMA CommitStep ==
  ASSUME TypeOK, LockInvariant, StagingSeparate, StagingInvariant, CommitInvariant,
         NEW s \in Sessions, Step(s)
  PROVE  CommitInvariant'
<1> USE ConfigIsSound
<1>1. \A t \in Sessions : Shown(t) /\ \A k \in Keys : HoldsLock(t, k) => Owed(t, k)
  BY DEF CommitInvariant, Shown, Owed
<1>2. ASSUME NEW t \in Sessions \ {s}, NEW k \in Keys, HoldsLock(t, k)'
      PROVE  Owed(t, k)'
  <2>1. HoldsLock(t, k) /\ pending'[t] = pending[t] /\ Staged(t)' = Staged(t)
    BY <1>2, CallFrame, StagedFrame DEF HoldsLock
  <2>2. target'[k] = target[k]
    BY <2>1, TargetChange DEF LockInvariant
  <2> QED
    BY <1>1, <2>1, <2>2 DEF Owed, Overlaps
<1>3. ASSUME NEW t \in Sessions \ {s} PROVE Shown(t)'
  <2> SUFFICES ASSUME pc[t] = "cleanup", error[t] = "none"
               PROVE  /\ Staged(t) # NoTable
                      /\ Isolated(t) /\ t \notin InsertOnly =>
                           \A k \in Keys : Staged(t)[k] # NoRow => View(t)'[k] = Staged(t)[k]
    BY CallFrame, StagedFrame, IsolatedIsConstant DEF Shown
  <2>1. Staged(t) \in Batches[t]
    BY <1>1 DEF Shown, StagingInvariant
  <2>2. ASSUME Isolated(t), t \notin InsertOnly, NEW k \in Keys, Staged(t)[k] # NoRow
        PROVE  View(t)'[k] = Staged(t)[k]
    <3>1. View(t)[k] = Staged(t)[k]
      BY <1>1, <2>2 DEF Shown
    <3>2. CASE HoldsLock(t, k)
      BY <3>1, <3>2, CallFrame DEF View, HoldsLock
    <3>3. CASE ~HoldsLock(t, k)
      <4>1. target[k] = Staged(t)[k]
        BY <3>1, <3>3 DEF View, HoldsLock
      <4>2. target'[k] = target[k]
        BY <4>1, <2>1, <2>2, OutOfReach, TargetChange
      <4> QED
        BY <4>1, <4>2, <3>3, CallFrame DEF View, HoldsLock
    <3> QED
      BY <3>2, <3>3
  <2> QED
    BY <2>1, <2>2, <1>1 DEF Shown
<1>4. ASSUME NEW k \in Keys, HoldsLock(s, k)' PROVE Owed(s, k)'
  <2>1. /\ UNCHANGED <<target, staging>>
        /\ pending'[s][k] = pending[s][k] \/ Acquires(s, k)
    BY <1>4, DatabaseEffect DEF HoldsLock, NoPending
  <2>2. Staged(s)' = Staged(s) /\ (Overlaps(s, k)' <=> Overlaps(s, k))
    BY <2>1 DEF Staged, Overlaps
  <2>3. CASE pending'[s][k] = pending[s][k]
    BY <1>1, <1>4, <2>1, <2>2, <2>3 DEF Owed, HoldsLock
  <2>4. CASE Acquires(s, k) /\ pending'[s][k] = NoRow
    BY <2>1, <2>2, <2>4 DEF Owed, Acquires
  <2>5. CASE Acquires(s, k) /\ pending'[s][k] # NoRow
    <3>1. /\ Staged(s) # NoTable /\ Staged(s)[k] # NoRow /\ pending'[s][k] = Staged(s)[k]
          /\ s \in InsertOnly => View(s)[k] = NoRow
      BY <2>5 DEF Acquires
    <3>2. View(s)[k] = NoRow => target[k] = NoRow \/ Overlaps(s, k)
      BY <1>1 DEF View, Owed, HoldsLock
    <3> QED
      BY <3>1, <3>2, <2>1, <2>2 DEF Owed
  <2> QED
    BY <2>1, <2>3, <2>4, <2>5
<1>5. Shown(s)'
  <2> SUFFICES ASSUME pc'[s] = "cleanup", error'[s] = "none"
               PROVE  /\ Staged(s)' # NoTable
                      /\ s \notin InsertOnly =>
                           \A k \in Keys : Staged(s)'[k] # NoRow => View(s)'[k] = Staged(s)'[k]
    BY DEF Shown
  <2>1. ExecuteMerge(s)
    BY OnlyMergeSucceeds
  <2>2. Staged(s)' = Staged(s) /\ Staged(s) # NoTable
    BY <2>1 DEF ExecuteMerge, Staged
  <2> QED
    BY <2>1, <2>2, MergeShowsStaged
<1> QED
  BY <1>2, <1>3, <1>4, <1>5 DEF CommitInvariant, Owed, Shown

\* One session's part of MergedInvariant.
Reliable(s) == error[s] = "none" /\ ~warned[s] /\ Isolated(s)

Merged(s) ==
  pc[s] \in {"finalize", "returned"} /\ Reliable(s) =>
    \A k \in Keys : batch[s][k] # NoRow => target[k] = batch[s][k]

LEMMA MergedStep ==
  ASSUME TypeOK, LockInvariant, StagingSeparate,
         StagingInvariant, CommitInvariant, MergedInvariant, NEW s \in Sessions, Step(s)
  PROVE  MergedInvariant'
<1>1. \A t \in Sessions \ InsertOnly : Merged(t)
  BY DEF MergedInvariant, Merged, Reliable
<1> SUFFICES ASSUME NEW t \in Sessions \ InsertOnly, pc'[t] \in {"finalize", "returned"},
                    Reliable(t)', NEW k \in Keys, batch'[t][k] # NoRow
             PROVE  target'[k] = batch'[t][k]
  BY DEF MergedInvariant, Reliable
<1>2. CASE t # s
  <2>1. pc'[t] = pc[t] /\ batch'[t] = batch[t] /\ Reliable(t)
    BY <1>2, CallFrame, IsolatedIsConstant DEF Reliable
  <2>2. batch[t] \in Batches[t] /\ target[k] = batch[t][k]
    BY <2>1, <1>1 DEF Merged, StagingInvariant
  <2>3. ~HoldsLock(s, k)
    BY <2>1, <2>2, <1>2, OutOfReach DEF Reliable
  <2> QED
    BY <2>1, <2>2, <2>3, TargetChange
<1>3. CASE t = s
  <2> USE <1>3 DEF TypeOK
  <2>1. CASE UpsertBatch(s)
    BY <2>1 DEF UpsertBatch, EmptyBatch
  <2>2. CASE LoadStagingTable(s) \/ LoadFails(s) \/ DeleteUniqueKeyConflicts(s)
             \/ ExecuteMerge(s) \/ StatementRejected(s) \/ StatementFails(s)
             \/ DeadlockVictim(s) \/ CleanupLosesConnection(s)
             \/ RetryDeadlock(s) \/ RaiseError(s) \/ TaskDies(s)
    BY <2>2 DEF LoadStagingTable, LoadFails, DeleteUniqueKeyConflicts, ExecuteMerge,
       StatementRejected, StatementFails, DeadlockVictim, CleanupLosesConnection,
       RetryDeadlock, RaiseError, TaskDies, Goto
  <2>3. CASE CleanupFails(s)
    BY <2>3 DEF CleanupFails, Reliable
  <2>4. CASE CleanupStagingTable(s)
    <3>1. /\ pc[s] = "cleanup" /\ batch' = batch /\ target' = View(s) /\ Reliable(s)
      BY <2>4, IsolatedIsConstant DEF CleanupStagingTable, CommitTx, Goto, callVars, Reliable
    <3>2. Staged(s) = batch[s]
      BY <3>1 DEF StagingInvariant, Reliable
    <3> QED
      BY <3>1, <3>2 DEF CommitInvariant, Reliable
  <2>5. CASE FinalizeConnection(s)
    <3>1. pc[s] = "finalize" /\ batch' = batch /\ Reliable(s)
      BY <2>5, IsolatedIsConstant DEF FinalizeConnection, Fault, Goto, callVars, Reliable
    <3>2. ~HoldsLock(s, k)
      BY <3>1 DEF LockInvariant, HoldsLock, NoPending
    <3> QED
      BY <3>1, <3>2, TargetChange, <1>1 DEF Merged
  <2> QED
    BY <2>1, <2>2, <2>3, <2>4, <2>5 DEF Step, CallStep
<1> QED
  BY <1>2, <1>3

-----------------------------------------------------------------------------
(* The inductive invariant *)

LEMMA InitParts ==
  Init => LockInvariant /\ StagingInvariant /\ CommitInvariant /\ MergedInvariant
<1> SUFFICES ASSUME Init
             PROVE  LockInvariant /\ StagingInvariant /\ CommitInvariant /\ MergedInvariant
  OBVIOUS
<1> USE ConfigIsSound DEF Init
<1>1. LockInvariant
  BY DEF LockInvariant, HoldsLock, NoPending
<1>2. StagingInvariant
  BY DEF StagingInvariant, Staged
<1>3. CommitInvariant
  BY DEF CommitInvariant, HoldsLock, NoPending
<1>4. MergedInvariant
  BY DEF MergedInvariant
<1> QED
  BY <1>1, <1>2, <1>3, <1>4

LEMMA InvariantStep ==
  TypeOK /\ WriterInvariant /\ [Next]_vars => WriterInvariant'
<1> SUFFICES ASSUME TypeOK, WriterInvariant, [Next]_vars PROVE WriterInvariant'
  OBVIOUS
<1> DEFINE Parts == StagingInvariant /\ CommitInvariant /\ MergedInvariant
<1>1. CASE UNCHANGED vars
  <2>1. LockInvariant'
    BY <1>1 DEF vars, WriterInvariant, LockInvariant, HoldsLock, HasUniqueKeys
  <2> SUFFICES ASSUME Parts PROVE Parts'
    BY <2>1 DEF WriterInvariant, StagingSeparate
  <2>2. StagingInvariant'
    BY <1>1 DEF vars, StagingInvariant, Staged
  <2>3. CommitInvariant'
    BY <1>1, IsolatedIsConstant DEF vars, CommitInvariant, HoldsLock, Overlaps, Staged, View
  <2>4. MergedInvariant'
    BY <1>1, IsolatedIsConstant DEF vars, MergedInvariant
  <2> QED
    BY <2>2, <2>3, <2>4
<1>2. ASSUME NEW s \in Sessions, Step(s) PROVE WriterInvariant'
  <2>1. LockInvariant'
    BY <1>2, LockStep DEF WriterInvariant
  <2>2. StagingSeparate => Parts'
    BY <1>2, StagingStep, CommitStep, MergedStep DEF WriterInvariant
  <2> QED
    BY <2>1, <2>2 DEF WriterInvariant, StagingSeparate
<1> QED
  BY <1>1, <1>2 DEF Next, Step

\* The locks protect what each session is about to commit; if no two share a
\* staging table, it commits what it was given, and that stays.
THEOREM WriterInvariantHolds == Spec => []WriterInvariant
<1>1. Init => WriterInvariant
  BY InitParts DEF WriterInvariant
<1> QED
  BY <1>1, InvariantStep, TypeCorrect, PTL DEF Spec

-----------------------------------------------------------------------------
(* The properties *)

\* When upsert_batch returns, for any number of chunks that run in parallel on
\* rows of their own with a staging_suffix of their own, and whatever statements
\* fail, connections drop or workers die, the rows it was given are in the
\* target table, unless it logged that a commit or a DROP failed.
THEOREM RowsReportedArePresent ==
  ASSUME StagingSeparate
  PROVE  Spec => []ReportedRowsPresent
<1>1. TypeOK /\ WriterInvariant => ReportedRowsPresent
  BY DEF WriterInvariant, StagingInvariant, MergedInvariant, ReportedRowsPresent
<1> QED
  BY <1>1, WriterInvariantHolds, TypeCorrect, PTL

\* A row that a session changes is one that it wrote, and it commits where it says.
LEMMA ChangedRow ==
  ASSUME TypeOK, LockInvariant, NEW s \in Sessions, Step(s),
         NEW k \in Keys, target'[k] # target[k]
  PROVE  /\ HoldsLock(s, k) /\ target'[k] = pending[s][k]
         /\ pc[s] = "cleanup" /\ pc'[s] # "cleanup"
<1>1. HoldsLock(s, k)
  BY TargetChange
<1>2. target' = View(s) /\ pc[s] \in {"cleanup", "finalize"} /\ pc'[s] # "cleanup"
  BY DatabaseEffect
<1>3. pc[s] # "finalize"
  BY <1>1 DEF LockInvariant, HoldsLock, NoPending
<1> QED
  BY <1>1, <1>2, <1>3 DEF View, HoldsLock

\* Whatever the staging tables: a call that resolves no unique keys and whose
\* statements failed leaves the table as it was, although _cleanup_staging_table
\* commits.
THEOREM FailedCallsAreRolledBack == Spec => FailedCallIsRolledBack
<1> DEFINE Kept == \A s \in Sessions \ ResolveUniqueKeys :
                      LeavesFailedCall(s) => target' = target
<1>1. ASSUME TypeOK, TypeOK', WriterInvariant, Next,
             NEW s \in Sessions \ ResolveUniqueKeys, LeavesFailedCall(s)
      PROVE  target' = target
  <2>1. LockInvariant /\ Step(s)
    BY <1>1, CallFrame DEF WriterInvariant, Next, Step, LeavesFailedCall
  <2>2. ASSUME NEW k \in Keys PROVE ~HoldsLock(s, k)
    BY <1>1, <2>1 DEF LockInvariant, LeavesFailedCall, HasUniqueKeys, HoldsLock, NoPending
  <2>3. \A k \in Keys : target'[k] = target[k]
    BY <1>1, <2>1, <2>2, TargetChange
  <2> QED
    BY <1>1, <2>3 DEF TypeOK, Batch
<1>2. TypeOK /\ TypeOK' /\ WriterInvariant /\ [Next]_vars => [Kept]_vars
  BY <1>1
<1> QED
  BY <1>2, WriterInvariantHolds, TypeCorrect, PTL DEF Spec, FailedCallIsRolledBack

\* Whatever the staging tables: insert_only without unique keys overwrites no row
\* and deletes none, also none that another task has committed in the meantime.
THEOREM InsertOnlyOverwritesNothing == Spec => InsertOnlyKeepsRows
<1> DEFINE Kept == \A s \in InsertOnly \ ResolveUniqueKeys :
                      (pc[s] \in {"cleanup", "finalize"} /\ pc'[s] # pc[s]) =>
                        \A k \in Keys : target[k] # NoRow => target'[k] = target[k]
<1>1. ASSUME TypeOK, WriterInvariant, Next,
             NEW s \in InsertOnly \ ResolveUniqueKeys, pc'[s] # pc[s],
             NEW k \in Keys, target[k] # NoRow
      PROVE  target'[k] = target[k]
  <2>1. s \in Sessions /\ LockInvariant
    BY <1>1, ConfigIsSound DEF WriterInvariant
  <2>2. Step(s)
    BY <1>1, <2>1, CallFrame DEF Next, Step
  <2>3. ~HoldsLock(s, k)
    BY <1>1, <2>1 DEF LockInvariant, HasUniqueKeys
  <2> QED
    BY <1>1, <2>1, <2>2, <2>3, TargetChange
<1>2. TypeOK /\ WriterInvariant /\ [Next]_vars => [Kept]_vars
  BY <1>1
<1> QED
  BY <1>2, WriterInvariantHolds, TypeCorrect, PTL DEF Spec, InsertOnlyKeepsRows

\* With a staging_suffix for each task, every row that appears or changes in the
\* target is a row of the call that is committed, unless that call has logged the
\* failure of a commit.
THEOREM CallsWriteTheirRows ==
  ASSUME StagingSeparate
  PROVE  Spec => WritesComeFromOpenCall
<1> DEFINE Own == \A k \in Keys :
                    (target'[k] # target[k] /\ target'[k] # NoRow) =>
                      \E s \in Sessions :
                        /\ pc[s] \in {"cleanup", "finalize"}
                        /\ batch[s][k] = target'[k] \/ warned[s]
<1>1. ASSUME TypeOK, WriterInvariant, NEW s \in Sessions, Step(s),
             NEW k \in Keys, target'[k] # target[k], target'[k] # NoRow
      PROVE  pc[s] = "cleanup" /\ (batch[s][k] = target'[k] \/ warned[s])
  <2>1. LockInvariant /\ StagingInvariant /\ CommitInvariant
    BY <1>1 DEF WriterInvariant
  <2>2. HoldsLock(s, k) /\ target'[k] = pending[s][k] /\ pc[s] = "cleanup"
    BY <1>1, <2>1, ChangedRow
  <2>3. target'[k] = Staged(s)[k]
    BY <1>1, <2>1, <2>2 DEF CommitInvariant
  <2> QED
    BY <2>1, <2>2, <2>3 DEF StagingInvariant
<1>2. TypeOK /\ WriterInvariant /\ [Next]_vars => [Own]_vars
  BY <1>1 DEF Next, Step
<1> QED
  BY <1>2, WriterInvariantHolds, TypeCorrect, PTL DEF Spec, WritesComeFromOpenCall

\* With a staging_suffix for each task and a unique index without a filter, a row
\* is deleted only for one that the committing call brings under another key.
THEOREM OnlyConflictsAreDeleted ==
  ASSUME StagingSeparate, FilteredIndex = FALSE
  PROVE  Spec => DeletesOnlyConflicts
<1> DEFINE Conflict ==
      \A k \in Keys :
        (target[k] # NoRow /\ target'[k] = NoRow) =>
          \E s \in Sessions : \E j \in Keys \ {k} :
            /\ pc[s] = "cleanup" /\ pc'[s] # "cleanup"
            /\ \/ /\ batch[s][j] # NoRow
                  /\ batch[s][j].uk = target[k].uk
                  /\ Indexed(target[k].uk)
               \/ warned[s]
<1>1. ASSUME TypeOK, WriterInvariant, NEW s \in Sessions, Step(s),
             NEW k \in Keys, target[k] # NoRow, target'[k] = NoRow
      PROVE  \E j \in Keys \ {k} :
               /\ pc[s] = "cleanup" /\ pc'[s] # "cleanup"
               /\ \/ /\ batch[s][j] # NoRow
                     /\ batch[s][j].uk = target[k].uk
                     /\ Indexed(target[k].uk)
                  \/ warned[s]
  <2>1. LockInvariant /\ StagingInvariant /\ CommitInvariant
    BY <1>1 DEF WriterInvariant
  <2>2. /\ HoldsLock(s, k) /\ pending[s][k] = NoRow
        /\ pc[s] = "cleanup" /\ pc'[s] # "cleanup"
    BY <1>1, <2>1, ChangedRow
  <2>3. PICK j \in Keys \ {k} : Staged(s)[j] # NoRow /\ Staged(s)[j].uk = target[k].uk
    BY <2>1, <2>2 DEF CommitInvariant, Overlaps
  <2>4. warned[s] \/ Staged(s) = batch[s]
    BY <2>1, <2>2 DEF StagingInvariant
  <2> QED
    BY <2>2, <2>3, <2>4 DEF Indexed
<1>2. TypeOK /\ WriterInvariant /\ [Next]_vars => [Conflict]_vars
  BY <1>1 DEF Next, Step
<1> QED
  BY <1>2, WriterInvariantHolds, TypeCorrect, PTL DEF Spec, DeletesOnlyConflicts

=============================================================================
