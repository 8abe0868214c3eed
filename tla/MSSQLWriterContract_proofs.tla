--------------------- MODULE MSSQLWriterContract_proofs ---------------------
(***************************************************************************)
(* MSSQLWriter implements BatchUpsert: every step of a session is a step   *)
(* of its call in the contract, or none.                                   *)
(***************************************************************************)
EXTENDS MSSQLWriterContract, MSSQLWriter_proofs

\* To delete nothing is allowed, and leaves the table as it is.
LEMMA NothingPurged ==
  ASSUME TypeOK, NEW s \in Sessions, NEW b
  PROVE  target \in Contract!Purged(s, b)
<1>1. Contract!Without(target, {}) = target
  BY DEF TypeOK, Batch, Contract!Without
<1> QED
  BY <1>1 DEF Contract!Purged

\* A call that has failed commits deletions of conflicting rows.
LEMMA FailedView ==
  ASSUME TypeOK, LockInvariant, CommitInvariant, NEW s \in Sessions,
         pc[s] = "cleanup", error[s] # "none"
  PROVE  View(s) \in Contract!Purged(s, Staged(s))
<1> DEFINE removed == {k \in Keys : HoldsLock(s, k)}
<1>1. ASSUME NEW k \in Keys, HoldsLock(s, k)
      PROVE  /\ pending[s][k] = NoRow /\ s \in ResolveUniqueKeys
             /\ Overlaps(s, k)
  <2>1. pending[s][k] = NoRow /\ s \in ResolveUniqueKeys
    BY <1>1 DEF LockInvariant, HasUniqueKeys
  <2>2. Overlaps(s, k)
    BY <1>1, <2>1 DEF CommitInvariant
  <2> QED
    BY <2>1, <2>2
<1>2. removed \in SUBSET Contract!Conflicts(s, target, Staged(s))
  BY <1>1 DEF Overlaps, Contract!Conflicts
<1>3. View(s) = Contract!Without(target, removed)
  BY <1>1 DEF View, HoldsLock, Contract!Without
<1> QED
  BY <1>2, <1>3 DEF Contract!Purged

\* One that has not, all of what is staged over what its deletions leave.
LEMMA SucceededView ==
  ASSUME TypeOK, LockInvariant, CommitInvariant, NEW s \in Sessions, Isolated(s),
         pc[s] = "cleanup", error[s] = "none"
  PROVE  View(s) \in Contract!Applied(s, Staged(s))
<1>1. Staged(s) # NoTable /\ Staged(s) \in Batch
  BY ConfigIsSound DEF CommitInvariant, TypeOK, Staged
<1>2. ASSUME NEW k \in Keys, HoldsLock(s, k)
      PROVE  \/ pending[s][k] = NoRow /\ Overlaps(s, k) /\ s \in ResolveUniqueKeys
             \/ /\ pending[s][k] = Staged(s)[k] /\ Staged(s)[k] # NoRow
                /\ s \in InsertOnly => target[k] = NoRow \/ Overlaps(s, k)
  BY <1>2 DEF LockInvariant, CommitInvariant, HasUniqueKeys
<1>3. CASE s \notin InsertOnly
  <2> DEFINE removed == {k \in Keys : HoldsLock(s, k) /\ pending[s][k] = NoRow}
  <2>1. removed \in SUBSET Contract!Conflicts(s, target, Staged(s))
    BY <1>2 DEF Overlaps, Contract!Conflicts
  <2>2. \A k \in Keys : Staged(s)[k] # NoRow => View(s)[k] = Staged(s)[k]
    BY <1>3 DEF CommitInvariant
  <2>3. View(s) = Contract!Merge(Contract!Without(target, removed), Staged(s))
    BY <1>2, <2>2 DEF View, HoldsLock, Contract!Without, Contract!Merge
  <2> QED
    BY <1>3, <2>1, <2>3 DEF Contract!Applied, Contract!Purged
<1>4. CASE s \in InsertOnly
  <2> DEFINE removed == {k \in Keys : /\ HoldsLock(s, k) /\ Overlaps(s, k)
                                      /\ s \in ResolveUniqueKeys}
             seen == {k \in Keys : HoldsLock(s, k) => pending[s][k] = NoRow}
  <2>1. removed \in SUBSET Contract!Conflicts(s, target, Staged(s))
    BY DEF Overlaps, Contract!Conflicts
  <2>2. ASSUME NEW k \in Keys, HoldsLock(s, k), Overlaps(s, k) PROVE s \in ResolveUniqueKeys
    BY <1>4, <2>2 DEF LockInvariant, HasUniqueKeys, Overlaps
  <2>3. View(s) = Contract!Insert(Contract!Without(target, removed), Staged(s), seen)
    BY <1>2, <1>4, <2>2 DEF View, HoldsLock, Overlaps, Contract!Without, Contract!Insert
  <2>4. PICK rows \in Contract!Purged(s, Staged(s)), now \in SUBSET Keys :
          View(s) = Contract!Insert(rows, Staged(s), now)
    <3>1. Contract!Without(target, removed) \in Contract!Purged(s, Staged(s))
      BY <2>1 DEF Contract!Purged
    <3> QED
      BY <2>3, <3>1
  <2>5. View(s) \in {Contract!Insert(r, Staged(s), n) :
                       r \in Contract!Purged(s, Staged(s)), n \in SUBSET Keys}
    BY <2>4
  <2> QED
    BY <1>4, <2>5 DEF Contract!Applied
<1> QED
  BY <1>3, <1>4

-----------------------------------------------------------------------------
(* The steps of a session as steps of its call *)

\* A step of s is the step of the contract that changes the call of s in this way.
LEMMA StepOfCall ==
  ASSUME TypeOK, NEW s \in Sessions, Step(s)
  PROVE  /\ CallOf(s)' = CallOf(s) /\ UNCHANGED <<target, batch>> => UNCHANGED Contract!vars
         /\ /\ CallOf(s) \in {"idle", "returned", "raised"} /\ UNCHANGED target
            /\ \E b \in Batches[s] : batch' = [batch EXCEPT ![s] = b]
            /\ \/ CallOf(s)' = "open"
               \/ CallOf(s)' = "returned" /\ batch'[s] = EmptyBatch
            => Contract!Begin(s)
         /\ /\ CallOf(s) = "open" /\ CallOf(s)' = "applied" /\ UNCHANGED batch
            /\ target' \in Contract!Applied(s, batch[s])
            => Contract!Complete(s)
         /\ /\ CallOf(s) = "open" /\ CallOf(s)' = "failing" /\ UNCHANGED batch
            /\ target' \in Contract!Purged(s, batch[s]) \cup Contract!Applied(s, batch[s])
            => Contract!Fail(s)
         /\ /\ CallOf(s) \in {"open", "applied", "failing"} /\ CallOf(s)' = "doubtful"
            /\ UNCHANGED <<target, batch>>
            => Contract!Doubt(s)
         /\ /\ CallOf(s) = "doubtful" /\ CallOf(s)' = "doubtful" /\ UNCHANGED batch
            /\ \E b \in Batches[s] :
                 target' \in Contract!Purged(s, b) \cup Contract!Applied(s, b)
            => Contract!ApplyDoubtful(s)
         /\ /\ CallOf(s) \in {"applied", "doubtful"} /\ CallOf(s)' = "returned"
            /\ UNCHANGED <<target, batch>>
            => Contract!Return(s)
         /\ /\ CallOf(s) \in {"open", "applied", "failing", "doubtful"}
            /\ CallOf(s)' = "raised" /\ UNCHANGED <<target, batch>>
            => Contract!Raise(s)
<1> DEFINE call == [t \in Sessions |-> CallOf(t)]
<1>1. \A t \in Sessions \ {s} : CallOf(t)' = CallOf(t)
  BY CallFrame DEF CallOf
<1>2. call' = [call EXCEPT ![s] = CallOf(s)']
  BY <1>1
<1>3. call[s] = CallOf(s)
  OBVIOUS
<1>4. CallOf(s)' = CallOf(s) => call' = call
  BY <1>2
<1>5. /\ CallOf(s)' = CallOf(s) /\ UNCHANGED <<target, batch>> => UNCHANGED Contract!vars
      /\ /\ CallOf(s) \in {"idle", "returned", "raised"} /\ UNCHANGED target
         /\ \E b \in Batches[s] : batch' = [batch EXCEPT ![s] = b]
         /\ \/ CallOf(s)' = "open"
            \/ CallOf(s)' = "returned" /\ batch'[s] = EmptyBatch
         => Contract!Begin(s)
  BY <1>2, <1>3, <1>4 DEF Contract!vars, Contract!Begin, EmptyBatch
<1> QED
  BY <1>2, <1>3, <1>5 DEF Contract!Complete, Contract!Fail, Contract!Doubt,
     Contract!ApplyDoubtful, Contract!Return, Contract!Raise

LEMMA CallSteps ==
  ASSUME TypeOK, LockInvariant, StagingSeparate, StagingInvariant, CommitInvariant,
         NEW s \in Sessions, Isolated(s), Step(s)
  PROVE  Contract!Next \/ UNCHANGED Contract!vars
<1> USE DEF TypeOK
<1> DEFINE S == /\ UNCHANGED <<target, batch>>
                /\ \/ CallOf(s)' = CallOf(s)
                   \/ CallOf(s) \in {"open", "applied", "failing"} /\ CallOf(s)' = "doubtful"
                   \/ CallOf(s) \in {"applied", "doubtful"} /\ CallOf(s)' = "returned"
                   \/ /\ CallOf(s) \in {"open", "applied", "failing", "doubtful"}
                      /\ CallOf(s)' = "raised"
  \* Steps that leave the target table alone.
<1>1. S => Contract!Next \/ UNCHANGED Contract!vars
  BY StepOfCall DEF Contract!Next
<1>2. CASE UpsertBatch(s)
  <2>1. CallOf(s) \in {"idle", "returned", "raised"} /\ UNCHANGED target
    BY <1>2 DEF UpsertBatch, dbVars, CallOf
  <2>2. PICK b \in Batches[s] :
          /\ batch' = [batch EXCEPT ![s] = b]
          /\ pc' = [pc EXCEPT ![s] = IF b = EmptyBatch THEN "returned" ELSE "load"]
    BY <1>2 DEF UpsertBatch
  <2>3. CallOf(s)' = "open" \/ (CallOf(s)' = "returned" /\ batch'[s] = EmptyBatch)
    BY <1>2, <2>2 DEF UpsertBatch, CallOf
  <2> QED
    BY <2>1, <2>2, <2>3, StepOfCall DEF Contract!Next
<1>3. CASE LoadStagingTable(s)
  <2>1. S
    BY <1>3 DEF LoadStagingTable, Goto, callVars, CallOf
  <2> QED
    BY <2>1, <1>1
<1>4. CASE LoadFails(s)
  <2>1. /\ UNCHANGED <<target, batch>>
        /\ \/ CallOf(s)' = CallOf(s)
           \/ CallOf(s) = "open" /\ CallOf(s)' = "failing"
    BY <1>4 DEF LoadFails, Goto, callVars, dbVars, CallOf
  <2> QED
    BY <2>1, NothingPurged, StepOfCall DEF Contract!Next
<1>5. CASE DeleteUniqueKeyConflicts(s) \/ ExecuteMerge(s) \/ StatementRejected(s)
             \/ StatementFails(s) \/ DeadlockVictim(s)
  <2>1. UNCHANGED <<target, batch, warned>>
    BY <1>5 DEF DeleteUniqueKeyConflicts, ExecuteMerge, StatementRejected, StatementFails,
       DeadlockVictim, RollbackTx, callVars, dbVars
  <2>2. /\ pc[s] \in {"load", "purge", "merge"}
        /\ pc'[s] \in {"merge", "cleanup"} \/ (pc'[s] = "except" /\ error'[s] = "deadlock")
    BY <1>5 DEF DeleteUniqueKeyConflicts, ExecuteMerge, StatementRejected, StatementFails,
       DeadlockVictim, Goto
  <2> QED
    BY <2>1, <2>2, <1>1 DEF CallOf
<1>6. CASE CleanupFails(s)
  <2>1. S
    BY <1>6 DEF CleanupFails, RollbackTx, Goto, callVars, CallOf
  <2> QED
    BY <2>1, <1>1
<1>7. CASE CleanupStagingTable(s) \/ CleanupLosesConnection(s)
  <2>1. /\ UNCHANGED <<batch, warned>> /\ pc[s] = "cleanup"
        /\ target' = target \/ target' = View(s)
        /\ \/ /\ pc'[s] = "finalize" /\ error'[s] = error[s]
           \/ /\ pc'[s] = "except"
              /\ error'[s] = IF error[s] = "deadlock" THEN "deadlock" ELSE "other"
    BY <1>7 DEF CleanupStagingTable, CleanupLosesConnection, CommitTx, RollbackTx, Goto,
       callVars
  <2>2. ASSUME error[s] = "deadlock" \/ Staged(s) = NoTable PROVE UNCHANGED target
    <3>1. \A k \in Keys : ~HoldsLock(s, k)
      BY <2>2 DEF LockInvariant, CommitInvariant, HoldsLock, NoPending
    <3>2. View(s) = target
      BY <3>1 DEF View, HoldsLock, Batch
    <3> QED
      BY <2>1, <3>2
  <2>3. /\ error[s] = "none" => View(s) \in Contract!Applied(s, Staged(s))
        /\ error[s] # "none" => View(s) \in Contract!Purged(s, Staged(s))
    BY <2>1, SucceededView, FailedView
  <2>4. CASE warned[s]
    <3>1. CallOf(s) = "doubtful" /\ CallOf(s)' = "doubtful"
      BY <2>1, <2>4 DEF CallOf
    <3>2. CASE Staged(s) = NoTable
      BY <3>1, <3>2, <2>1, <2>2, <1>1
    <3>3. CASE Staged(s) # NoTable
      <4>1. Staged(s) \in Batches[s]
        BY <3>3 DEF StagingInvariant
      <4>2. target' \in Contract!Purged(s, Staged(s)) \cup Contract!Applied(s, Staged(s))
        BY <2>1, <2>3, NothingPurged
      <4> QED
        BY <3>1, <4>1, <4>2, <2>1, StepOfCall DEF Contract!Next
    <3> QED
      BY <3>2, <3>3
  <2>5. CASE ~warned[s] /\ error[s] = "deadlock"
    <3>1. CallOf(s) = "open" /\ CallOf(s)' = "open"
      BY <2>1, <2>5 DEF CallOf
    <3> QED
      BY <3>1, <2>1, <2>2, <2>5, <1>1
  <2>6. CASE ~warned[s] /\ error[s] # "deadlock"
    <3>1. Staged(s) = batch[s] /\ CallOf(s) = "open"
      BY <2>1, <2>6 DEF StagingInvariant, CallOf
    <3>2. CASE pc'[s] = "finalize" /\ error[s] = "none"
      <4>1. CallOf(s)' = "applied"
        BY <3>2, <2>1, <2>6 DEF CallOf
      <4>2. CleanupStagingTable(s)
        BY <1>7, <3>2 DEF CleanupLosesConnection, Goto
      <4>3. target' = View(s)
        BY <4>2 DEF CleanupStagingTable, CommitTx
      <4> QED
        BY <4>1, <4>3, <3>1, <3>2, <2>1, <2>3, StepOfCall DEF Contract!Next
    <3>3. CASE ~(pc'[s] = "finalize" /\ error[s] = "none")
      <4>1. CallOf(s)' = "failing"
        BY <3>3, <2>1, <2>6 DEF CallOf
      <4>2. target' \in Contract!Purged(s, batch[s]) \cup Contract!Applied(s, batch[s])
        BY <3>1, <2>1, <2>3, NothingPurged
      <4> QED
        BY <4>1, <4>2, <3>1, <2>1, StepOfCall DEF Contract!Next
    <3> QED
      BY <3>2, <3>3
  <2> QED
    BY <2>4, <2>5, <2>6
<1>8. CASE FinalizeConnection(s)
  <2>1. pc[s] = "finalize" /\ UNCHANGED batch
    BY <1>8 DEF FinalizeConnection, Goto, callVars
  <2>2. \A k \in Keys : ~HoldsLock(s, k)
    BY <2>1 DEF LockInvariant, HoldsLock, NoPending
  <2>3. View(s) = target
    BY <2>2 DEF View, HoldsLock, Batch
  <2>4. UNCHANGED target
    BY <1>8, <2>3 DEF FinalizeConnection, CommitTx, RollbackTx
  <2>5. S
    BY <1>8, <2>1, <2>4 DEF FinalizeConnection, Goto, CallOf
  <2> QED
    BY <2>5, <1>1
<1>9. CASE RetryDeadlock(s) \/ RaiseError(s)
  <2>1. S
    BY <1>9 DEF RetryDeadlock, RaiseError, Goto, dbVars, CallOf
  <2> QED
    BY <2>1, <1>1
<1>10. CASE TaskDies(s)
  <2>1. S
    BY <1>10 DEF TaskDies, RollbackTx, callVars, Locations, CallOf
  <2> QED
    BY <2>1, <1>1
<1> QED
  BY <1>2, <1>3, <1>4, <1>5, <1>6, <1>7, <1>8, <1>9, <1>10 DEF Step, CallStep

\* upsert_batch keeps the contract the orchestrators rely on, for any number of
\* sessions with staging tables and rows of their own: a call is one atomic merge,
\* or fails, whatever is interleaved with its statements and wherever they fail.
THEOREM WriterImplementsContract ==
  ASSUME StagingSeparate, \A s \in Sessions : Isolated(s)
  PROVE  Spec => ImplementsContract
<1>1. Init => Contract!Init
  BY DEF Init, Contract!Init, EmptyBatch, CallOf
<1>2. TypeOK /\ WriterInvariant /\ [Next]_vars => [Contract!Next]_Contract!vars
  <2> SUFFICES ASSUME TypeOK, WriterInvariant, [Next]_vars
               PROVE  Contract!Next \/ UNCHANGED Contract!vars
    OBVIOUS
  <2>1. CASE UNCHANGED vars
    BY <2>1 DEF vars, Contract!vars, CallOf
  <2>2. ASSUME NEW s \in Sessions, Step(s)
        PROVE  Contract!Next \/ UNCHANGED Contract!vars
    BY <2>2, CallSteps DEF WriterInvariant
  <2> QED
    BY <2>1, <2>2 DEF Next, Step
<1> QED
  BY <1>1, <1>2, WriterInvariantHolds, TypeCorrect, PTL
     DEF Spec, ImplementsContract, Contract!Spec

=============================================================================
