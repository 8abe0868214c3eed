-------------------------- MODULE MCDagSyncTrigger --------------------------
(***************************************************************************)
(* Instances of DagSyncTrigger: every way to make the call, for two DAGs   *)
(* of one store and for one DAG of two stores.                             *)
(***************************************************************************)
EXTENDS DagSyncTrigger

EveryWay ==
  [sdk : BOOLEAN, parallel : BOOLEAN, wait : BOOLEAN, stores : {<<"s1">>}, dags : {<<"d1", "d2">>}]
  \cup
  [sdk : BOOLEAN, parallel : BOOLEAN, wait : BOOLEAN, stores : {<<"s1", "s2">>}, dags : {<<"d1">>}]

=============================================================================
