------------------------ MODULE MSSQLWriterContract ------------------------
(***************************************************************************)
(* MSSQLWriter as an implementation of BatchUpsert: the target table is    *)
(* the same, the steps inside a call are stutters but the one that commits.*)
(***************************************************************************)
EXTENDS MSSQLWriter

\* The state of session s's call in the eyes of its caller.
CallOf(s) ==
  CASE pc[s] \in {"idle", "returned", "raised"} -> pc[s]
    [] pc[s] \in {"load", "purge", "merge", "cleanup"} ->
         IF warned[s] THEN "doubtful" ELSE "open"
    [] pc[s] \in {"finalize", "except"} ->
         CASE warned[s]                            -> "doubtful"
           [] ~warned[s] /\ error[s] = "none"     -> "applied"
           [] ~warned[s] /\ error[s] = "deadlock" -> "open"
           [] ~warned[s] /\ error[s] = "other"    -> "failing"

Contract == INSTANCE BatchUpsert WITH call <- [s \in Sessions |-> CallOf(s)]

\* upsert_batch keeps its contract: for concurrent calls on disjoint keys and
\* unique values, with failing statements, lost connections, deadlock retries
\* and killed workers, a call is one atomic merge or fails, having at most
\* removed conflicting rows, and it returns only after its rows were merged.
\* Only a call that logged the failure of a commit or of a DROP is in doubt, and
\* no longer than until it ends.
ImplementsContract == Contract!Spec

=============================================================================
