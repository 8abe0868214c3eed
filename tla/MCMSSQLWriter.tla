--------------------------- MODULE MCMSSQLWriter ---------------------------
(***************************************************************************)
(* Instances of MSSQLWriter for TLC.                                       *)
(***************************************************************************)
EXTENDS MSSQLWriterContract, TLC

CONSTANTS s1, s2, k1, k2, k3, u1, u2, u3, null, v1, v2, stg1, stg2

Row(u, v) == [uk |-> u, val |-> v]

\* A batch (or a table) given as a function on some of the keys.
Rowset(f) == [k \in Keys |-> IF k \in DOMAIN f THEN f[k] ELSE NoRow]

OwnStaging    == (s1 :> stg1) @@ (s2 :> stg2)

\* Two chunks of one snapshot: distinct keys, distinct unique values.
IsolatedBatches ==
  (s1 :> {Rowset(k1 :> Row(u1, v1)), Rowset((k1 :> Row(u1, v2)) @@ (k2 :> Row(u2, v2)))})
    @@ (s2 :> {Rowset(k3 :> Row(u3, v1)), EmptyBatch})

\* Target rows that hold each other's unique values, so both sessions purge.
StaleTargets ==
  {Rowset((k1 :> Row(u3, v1)) @@ (k3 :> Row(u1, v1))),
   Rowset((k2 :> Row(u1, v1)) @@ (k3 :> Row(u2, v1)))}

\* Sessions that want each other's rows: they block and deadlock.
ClashingBatches ==
  (s1 :> {Rowset((k1 :> Row(u1, v1)) @@ (k2 :> Row(u2, v1)))})
    @@ (s2 :> {Rowset((k2 :> Row(u3, v2)) @@ (k3 :> Row(u2, v2)))})

ClashingTargets ==
  {Rowset(<<>>), Rowset((k1 :> Row(u3, v1)) @@ (k3 :> Row(u1, v1)))}

=============================================================================
