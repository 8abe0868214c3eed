---------------------------- MODULE BatchUpsert ----------------------------
(***************************************************************************)
(* What the orchestrators may assume of a writer's upsert_batch: a call    *)
(* changes the target table in at most one atomic step.  Either all its    *)
(* rows are merged, or it fails, and a failed call may still have removed  *)
(* rows that held one of its unique values.  A call returns normally only  *)
(* after its rows were merged - except when the writer logged a failure of *)
(* a commit or of dropping the staging table: such a call is in doubt, may *)
(* merge the rows of an earlier call of its session, and return all the    *)
(* same.                                                                   *)
(***************************************************************************)
CONSTANTS Sessions, Keys, Batches, InitTargets, NoRow,
          InsertOnly,         \* sessions whose calls do not overwrite rows
          ResolveUniqueKeys   \* sessions whose calls remove conflicting rows

VARIABLES target,  \* rows of the target table
          batch,   \* the rows of each session's current call
          call     \* "idle", "open", "applied", "failing", "doubtful",
                   \* "returned", "raised"

vars == <<target, batch, call>>

Init ==
  /\ target \in InitTargets
  /\ batch = [s \in Sessions |-> [k \in Keys |-> NoRow]]
  /\ call  = [s \in Sessions |-> "idle"]

\* Keys whose row holds a unique value that b has under another key.
Conflicts(s, rows, b) ==
  {k \in Keys : /\ s \in ResolveUniqueKeys
                /\ rows[k] # NoRow
                /\ \E j \in Keys \ {k} : b[j] # NoRow /\ b[j].uk = rows[k].uk}

Without(rows, removed) == [k \in Keys |-> IF k \in removed THEN NoRow ELSE rows[k]]

\* The rows of b over those that are there.  A call that does not overwrite rows
\* inserts nothing under a key that had a row at some moment of the call.
Merge(rows, b) == [k \in Keys |-> IF b[k] # NoRow THEN b[k] ELSE rows[k]]

Insert(rows, b, seen) ==
  [k \in Keys |-> IF rows[k] = NoRow /\ k \notin seen THEN b[k] ELSE rows[k]]

Begin(s) ==
  /\ call[s] \in {"idle", "returned", "raised"}
  /\ \E b \in Batches[s] : batch' = [batch EXCEPT ![s] = b]
  /\ \E c \in {"open", "returned"} :
       /\ c = "returned" => batch'[s] = [k \in Keys |-> NoRow]
       /\ call' = [call EXCEPT ![s] = c]
  /\ UNCHANGED target

\* The rows of b, together with the removal of conflicting ones.
Purged(s, b)  == {Without(target, removed) : removed \in SUBSET Conflicts(s, target, b)}
Applied(s, b) ==
  IF s \in InsertOnly
  THEN {Insert(rows, b, seen) : rows \in Purged(s, b), seen \in SUBSET Keys}
  ELSE {Merge(rows, b) : rows \in Purged(s, b)}

Complete(s) ==
  /\ call[s] = "open"
  /\ target' \in Applied(s, batch[s])
  /\ call' = [call EXCEPT ![s] = "applied"]
  /\ UNCHANGED batch

\* The call fails: nothing done, conflicting rows removed, or, when the answer
\* to the commit was lost, everything done.
Fail(s) ==
  /\ call[s] = "open"
  /\ target' \in Purged(s, batch[s]) \cup Applied(s, batch[s])
  /\ call' = [call EXCEPT ![s] = "failing"]
  /\ UNCHANGED batch

\* A failed commit or DROP is logged.
Doubt(s) ==
  /\ call[s] \in {"open", "applied", "failing"}
  /\ call' = [call EXCEPT ![s] = "doubtful"]
  /\ UNCHANGED <<target, batch>>

\* The call works on what its session left in the staging table before.
ApplyDoubtful(s) ==
  /\ call[s] = "doubtful"
  /\ \E b \in Batches[s] : target' \in Purged(s, b) \cup Applied(s, b)
  /\ UNCHANGED <<batch, call>>

Return(s) ==
  /\ call[s] \in {"applied", "doubtful"}
  /\ call' = [call EXCEPT ![s] = "returned"]
  /\ UNCHANGED <<target, batch>>

Raise(s) ==
  /\ call[s] \in {"open", "applied", "failing", "doubtful"}
  /\ call' = [call EXCEPT ![s] = "raised"]
  /\ UNCHANGED <<target, batch>>

Next == \E s \in Sessions :
  \/ Begin(s) \/ Complete(s) \/ Fail(s)
  \/ Doubt(s) \/ ApplyDoubtful(s)
  \/ Return(s) \/ Raise(s)

Spec == Init /\ [][Next]_vars

=============================================================================
