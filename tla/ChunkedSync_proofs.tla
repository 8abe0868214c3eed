------------------------ MODULE ChunkedSync_proofs -------------------------
(***************************************************************************)
(* The chunks of plan_sync_chunks leave no row out, a run of ChunkedSync   *)
(* copies the source, and its scoped deletes take away only rows that are  *)
(* missing there, for any table, any plan of chunks and any failures.      *)
(***************************************************************************)
EXTENDS ChunkedSync, NTile_proofs

TaskStep(n) == Proceed(n) \/ UpsertLost(n) \/ ReadFails(n) \/ WriteFails(n) \/ RetryTask(n)

\* The batch that holds some rows of the source has just their keys.
LEMMA BatchOfRows ==
  ASSUME NEW rows \in SUBSET RowsOf(source)
  PROVE  RowsOf([k \in Keys |-> IF k \in rows THEN source[k] ELSE NoRow]) = rows
BY DEF RowsOf

\* A counter below its bound can be incremented.
LEMMA Incremented ==
  ASSUME NEW bound \in Nat, NEW i \in 0 .. bound, i < bound
  PROVE  i + 1 \in 0 .. bound
OBVIOUS

-----------------------------------------------------------------------------
(* The plan *)

LEMMA RowsAreKeys == ASSUME NEW t PROVE RowsOf(t) \subseteq Keys
BY DEF RowsOf

LEMMA RowsAreCountable ==
  ASSUME NEW t
  PROVE  IsFiniteSet(RowsOf(t)) /\ Cardinality(RowsOf(t)) \in Nat
BY ChunkConfigIsSound, RowsAreKeys, FS_Subset, FS_CardinalityType

\* ValueAt finds the value of any row by its number.
LEMMA RankedValue ==
  ASSUME NEW keys \in SUBSET Keys, NEW i \in 1 .. Cardinality(keys)
  PROVE  /\ ValueAt(ChunkValue, keys, i) \in Int
         /\ IsRanked(ChunkValue, keys, ValueAt(ChunkValue, keys, i), i)
<1>1. IsColumn(ChunkValue, keys)
  BY ChunkConfigIsSound, FS_Subset DEF IsColumn
<1>2. PICK k \in keys : IsRanked(ChunkValue, keys, ChunkValue[k], i)
  BY <1>1, RankedRow
<1>3. /\ ValueAt(ChunkValue, keys, i) \in {ChunkValue[j] : j \in keys}
      /\ IsRanked(ChunkValue, keys, ValueAt(ChunkValue, keys, i), i)
  BY <1>2 DEF ValueAt, IsRanked, Below, UpTo
<1> QED
  BY <1>1, <1>3 DEF IsColumn

LEMMA TileEndIsBoundary ==
  ASSUME NEW n \in Nat, NEW count \in Nat \ {0}, NEW j \in Nat
  PROVE  TileEnd(n, count, j) = TileBoundary(n, count, j)
BY DEF TileEnd, TileBoundary, Lesser

\* plan_sync_chunks gives every row of the source to some chunk, as long as there are
\* as many rows as were counted: also the rows beyond a multiple of the number of
\* chunks, and those whose value of the chunk column is in two tiles.
THEOREM PlanLeavesNoRowOut ==
  ASSUME total = Cardinality(RowsOf(source)), NEW k \in RowsOf(source)
  PROVE  total # 0 /\ \E n \in Tiles : k \in TileRange(n)
<1> DEFINE keys == RowsOf(source)
           v    == ChunkValue[k]
<1>1. /\ IsColumn(ChunkValue, keys) /\ IsFiniteSet(keys)
      /\ keys \in SUBSET Keys /\ k \in keys /\ k \in Keys /\ v \in Int
      /\ Cardinality(keys) \in Nat /\ total = Cardinality(keys)
  BY ChunkConfigIsSound, RowsAreKeys, RowsAreCountable DEF IsColumn
<1>2. total \in Nat \ {0}
  BY <1>1, FS_EmptySet
<1> HIDE DEF keys
<1>3. PICK i \in 1 .. total : IsRanked(ChunkValue, keys, v, i)
  BY <1>1, RowHasRank
<1> HIDE DEF v
<1>4. ChunkCount \in 1 .. total
  BY <1>2, ChunkConfigIsSound, TileCount DEF ChunkCount
<1>5. PICK n \in 1 .. ChunkCount :
        i \in TileBoundary(total, ChunkCount, n - 1) + 1 .. TileBoundary(total, ChunkCount, n)
  <2>1. total \in Nat /\ ChunkCount \in Nat \ {0} /\ i \in 1 .. total
    BY <1>2, <1>3, <1>4
  <2> QED
    BY <2>1, InSomeTile
<1> DEFINE first == TileEnd(total, ChunkCount, n - 1) + 1
           last  == TileEnd(total, ChunkCount, n)
<1>6. first \in 1 .. total /\ last \in 1 .. total /\ first <= i /\ i <= last
  <2>1. /\ n - 1 \in 0 .. ChunkCount /\ n \in 0 .. ChunkCount
        /\ n - 1 \in Nat /\ n \in Nat /\ total \in Nat /\ ChunkCount \in Nat \ {0}
    BY <1>2, <1>4, <1>5
  <2>2. /\ TileBoundary(total, ChunkCount, n - 1) \in 0 .. total
        /\ TileBoundary(total, ChunkCount, n) \in 0 .. total
    BY <2>1, TileBoundaries
  <2>3. /\ TileEnd(total, ChunkCount, n - 1) = TileBoundary(total, ChunkCount, n - 1)
        /\ TileEnd(total, ChunkCount, n) = TileBoundary(total, ChunkCount, n)
    BY <2>1, TileEndIsBoundary
  <2> QED
    BY <1>2, <1>3, <1>5, <2>2, <2>3
<1>7. TileRange(n) =
        Within(ChunkValue, ValueAt(ChunkValue, keys, first), ValueAt(ChunkValue, keys, last))
  BY <1>1 DEF TileRange, keys
<1> HIDE DEF first, last
<1>8. /\ ValueAt(ChunkValue, keys, first) \in Int
      /\ IsRanked(ChunkValue, keys, ValueAt(ChunkValue, keys, first), first)
      /\ ValueAt(ChunkValue, keys, last) \in Int
      /\ IsRanked(ChunkValue, keys, ValueAt(ChunkValue, keys, last), last)
  BY <1>1, <1>6, RankedValue
<1>9. /\ ValueAt(ChunkValue, keys, first) <= v
      /\ v <= ValueAt(ChunkValue, keys, last)
  <2>1. first \in Nat /\ last \in Nat /\ i \in Nat
    BY <1>2, <1>3, <1>6
  <2>2. IsRanked(ChunkValue, keys, v, i)
    BY <1>3
  <2> QED
    BY <1>1, <1>6, <1>8, <2>1, <2>2, RanksInOrder
<1>10. k \in TileRange(n)
  BY <1>1, <1>7, <1>9 DEF Within, v
<1>11. n \in Tiles
  <2>1. Cardinality(keys) <= Cardinality(Keys) /\ Cardinality(Keys) \in Nat
    BY <1>1, ChunkConfigIsSound, FS_Subset, FS_CardinalityType
  <2> QED
    BY <1>1, <1>2, <1>4, <1>5, <2>1 DEF Tiles, Chunks, keys
<1>12. total # 0
  BY <1>2
<1> QED
  BY <1>10, <1>11, <1>12, Zenon

-----------------------------------------------------------------------------
(* Types *)

LEMMA TypeInit == Init => TypeOK
<1> SUFFICES ASSUME Init PROVE TypeOK
  OBVIOUS
<1>1. RowsOf(EmptyBatch) = {}
  BY DEF RowsOf, EmptyBatch
<1>2. Cardinality(RowsOf(EmptyBatch)) = 0
  BY <1>1, FS_EmptySet
<1> QED
  BY <1>2, ChunkConfigIsSound DEF Init, TypeOK, Table, Locations, EmptyBatch

LEMMA TypeEnv ==
  ASSUME TypeOK,
         \/ \E k \in Keys, row \in Values \cup {NoRow} : ChangeSource(k, row)
         \/ StartRun \/ PlanSyncChunks \/ PlanFails \/ EndRun
  PROVE  TypeOK'
<1>1. CASE \E k \in Keys, row \in Values \cup {NoRow} : ChangeSource(k, row)
  <2>1. PICK k \in Keys, row \in Values \cup {NoRow} : ChangeSource(k, row)
    BY <1>1
  <2>2. /\ source' \in Table
        /\ stayed' \in [Chunks -> SUBSET Keys]
        /\ unread' \in [Chunks -> SUBSET Keys]
    BY <2>1 DEF ChangeSource, TypeOK, Table
  <2>3. changes' \in 0 .. MaxChanges
    <3>1. MaxChanges \in Nat /\ changes \in 0 .. MaxChanges
      BY ChunkConfigIsSound DEF TypeOK
    <3>2. changes < MaxChanges /\ changes' = changes + 1
      BY <2>1 DEF ChangeSource
    <3> QED
      BY <3>1, <3>2, Incremented
  <2>4. quiet' \in BOOLEAN
    BY <2>1 DEF ChangeSource
  <2> QED
    BY <2>1, <2>2, <2>3, <2>4 DEF ChangeSource, TypeOK, runVars
<1>2. CASE StartRun
  <2>1. total' \in Nat
    BY <1>2, RowsAreCountable DEF StartRun
  <2> QED
    BY <1>2, <2>1 DEF StartRun, TypeOK, taskVars, Locations, FirstStep
<1>3. CASE PlanSyncChunks
  <2>1. range' \in [Chunks -> SUBSET Keys]
    BY <1>3 DEF PlanSyncChunks, TileRange, Within
  <2>2. pc' \in [Chunks -> Locations]
    BY <1>3 DEF PlanSyncChunks, Locations
  <2> QED
    BY <1>3, <2>1, <2>2 DEF PlanSyncChunks, TypeOK, taskVars
<1>4. CASE PlanFails
  BY <1>4, ChunkConfigIsSound DEF PlanFails, Fault, TypeOK, taskVars, envVars
<1>5. CASE EndRun
  BY <1>5 DEF EndRun, TypeOK, taskVars, envVars
<1> QED
  BY <1>1, <1>2, <1>3, <1>4, <1>5

LEMMA TypeTask ==
  ASSUME TypeOK, KeysTableExists, NEW n \in Chunks, TaskStep(n)
  PROVE  TypeOK'
<1> USE DEF TypeOK, envVars, runVars, taskVars, Goto, Locations
<1>1. CASE FetchScopeBounds(n)
  BY <1>1 DEF FetchScopeBounds, Between
<1>2. CASE CountRows(n)
  BY <1>2 DEF CountRows, PreparedTable, AfterStream
<1>3. CASE StartStream(n)
  <2>1. Cardinality(RowsOf(EmptyBatch)) = 0 /\ EmptyBatch \in Table
    <3>1. RowsOf(EmptyBatch) = {}
      BY DEF RowsOf, EmptyBatch
    <3> QED
      BY <3>1, FS_EmptySet DEF EmptyBatch, Table
  <2>2. \A m \in Chunks : Cardinality(RowsOf(batch'[m])) <= BatchSize
    BY <1>3, <2>1, ChunkConfigIsSound DEF StartStream
  <2> QED
    BY <1>3, <2>1, <2>2, RowsAreKeys DEF StartStream, PreparedTable
<1>4. CASE FetchBatch(n)
  <2>1. PICK rows \in FetchableRows(n) :
          /\ batch' = [batch EXCEPT ![n] =
               [k \in Keys |-> IF k \in rows THEN source[k] ELSE NoRow]]
          /\ unread' = [unread EXCEPT ![n] = @ \ rows]
    BY <1>4 DEF FetchBatch
  <2>2. rows \in SUBSET RowsOf(source) /\ Cardinality(rows) <= BatchSize
    BY <2>1 DEF FetchableRows
  <2>3. RowsOf(batch'[n]) = rows
    BY <2>1, <2>2, BatchOfRows
  <2>4. \A m \in Chunks : Cardinality(RowsOf(batch'[m])) <= BatchSize
    BY <2>1, <2>2, <2>3
  <2>5. batch' \in [Chunks -> Table]
    BY <2>1 DEF Table
  <2> QED
    BY <1>4, <2>1, <2>4, <2>5 DEF FetchBatch
<1>5. CASE UpsertBatch(n)
  BY <1>5 DEF UpsertBatch, AfterUpsert, Merged, Table
<1>6. CASE AppendKeysToStaging(n)
  <2>1. AppendedKeys(n) \in SUBSET Keys
    BY <1>6, RowsAreKeys DEF AppendKeysToStaging, AppendedKeys, KeysTableExists
  <2> QED
    BY <1>6, <2>1, ChunkConfigIsSound DEF AppendKeysToStaging, Fault
<1>7. CASE EndOfStream(n)
  BY <1>7 DEF EndOfStream, AfterStream
<1>8. CASE FetchChunkDeleteScopeBounds(n)
  BY <1>8 DEF FetchChunkDeleteScopeBounds, ChunkScope, Between
<1>9. CASE DeleteMissingInScope(n)
  BY <1>9 DEF DeleteMissingInScope, WithoutMissing, Table
<1>10. CASE DropKeysStagingTable(n)
  BY <1>10 DEF DropKeysStagingTable
<1>11. CASE ReadFails(n)
  BY <1>11, ChunkConfigIsSound DEF ReadFails, Fault
<1>12. CASE WriteFails(n)
  <2>1. pc[n] = "append" => AppendedKeys(n) \in SUBSET Keys
    BY RowsAreKeys DEF AppendedKeys, KeysTableExists
  <2>2. Merged(target, batch[n]) \in Table /\ WithoutMissing(n) \in Table
    BY DEF Merged, WithoutMissing, Table
  <2>3. target' \in Table /\ keysStaging' \in [Chunks -> (SUBSET Keys) \cup {NoTable}]
    BY <1>12, <2>1, <2>2 DEF WriteFails, PreparedTable
  <2>4. faults' \in 0 .. MaxFaults
    <3>1. MaxFaults \in Nat /\ faults \in 0 .. MaxFaults
      BY ChunkConfigIsSound
    <3>2. faults < MaxFaults /\ faults' = faults + 1
      BY <1>12 DEF WriteFails, Fault
    <3> QED
      BY <3>1, <3>2, Incremented
  <2>5. pc' \in [Chunks -> Locations]
    BY <1>12 DEF WriteFails
  <2>6. UNCHANGED <<envVars, runVars, taskVars>>
    BY <1>12 DEF WriteFails
  <2> QED
    BY <2>3, <2>4, <2>5, <2>6
<1>13. CASE RetryTask(n)
  BY <1>13 DEF RetryTask, FirstStep
<1>14. CASE UpsertLost(n)
  BY <1>14, ChunkConfigIsSound DEF UpsertLost, AfterUpsert, Fault
<1> QED
  BY <1>1, <1>2, <1>3, <1>4, <1>5, <1>6, <1>7, <1>8, <1>9, <1>10, <1>11, <1>12, <1>13, <1>14
     DEF TaskStep, Proceed

-----------------------------------------------------------------------------
(* The keys staging tables *)

\* A staging table, unlike NoTable, is a set of keys.
LEMMA KeysAreNoTable == \A S \in SUBSET Keys : S # NoTable
BY ChunkConfigIsSound

\* A step of task n is none of any other.
LEMMA OthersStay ==
  ASSUME TypeOK, NEW n \in Chunks, TaskStep(n), NEW m \in Chunks, m # n
  PROVE  /\ pc'[m] = pc[m] /\ keysStaging'[m] = keysStaging[m]
         /\ unread'[m] = unread[m] /\ batch'[m] = batch[m]
         /\ scope'[m] = scope[m] /\ stayed'[m] = stayed[m]
<1> USE DEF TypeOK, taskVars, Goto
<1>1. CASE FetchScopeBounds(n) \/ CountRows(n)
  BY <1>1 DEF FetchScopeBounds, CountRows
<1>2. CASE StartStream(n) \/ FetchBatch(n) \/ UpsertBatch(n) \/ UpsertLost(n)
  BY <1>2 DEF StartStream, FetchBatch, UpsertBatch, UpsertLost
<1>3. CASE AppendKeysToStaging(n) \/ EndOfStream(n)
  BY <1>3 DEF AppendKeysToStaging, EndOfStream
<1>4. CASE FetchChunkDeleteScopeBounds(n) \/ DeleteMissingInScope(n) \/ DropKeysStagingTable(n)
  BY <1>4 DEF FetchChunkDeleteScopeBounds, DeleteMissingInScope, DropKeysStagingTable
<1>5. CASE ReadFails(n) \/ RetryTask(n)
  BY <1>5 DEF ReadFails, RetryTask
<1>6. CASE WriteFails(n)
  BY <1>6 DEF WriteFails
<1> QED
  BY <1>1, <1>2, <1>3, <1>4, <1>5, <1>6 DEF TaskStep, Proceed

LEMMA KeysInit == Init => KeysInvariant
BY DEF Init, KeysInvariant, KeysTableExists, KeptIsCollected, ScopeInRange

\* Whatever happens outside of the tasks leaves the invariant alone.
LEMMA KeysEnv ==
  ASSUME TypeOK, KeysInvariant,
         \/ \E k \in Keys, row \in Values \cup {NoRow} : ChangeSource(k, row)
         \/ StartRun \/ PlanSyncChunks \/ PlanFails \/ EndRun
  PROVE  KeysInvariant'
<1> USE DEF KeysInvariant, KeysTableExists, KeptIsCollected, Kept, ScopeInRange
<1>1. CASE \E k \in Keys, row \in Values \cup {NoRow} : ChangeSource(k, row)
  <2>1. PICK k \in Keys, row \in Values \cup {NoRow} : ChangeSource(k, row)
    BY <1>1
  <2>2. ASSUME NEW n \in Chunks
        PROVE  /\ stayed'[n] \subseteq stayed[n]
               /\ unread[n] \cap stayed'[n] \subseteq unread'[n]
    BY <2>1 DEF ChangeSource, TypeOK
  <2>3. UNCHANGED <<keysStaging, phase, range, pc, batch, scope>>
    BY <2>1 DEF ChangeSource, runVars
  <2> QED
    BY <2>2, <2>3 DEF RowsOf
<1>2. CASE StartRun
  <2>1. CASE UseDynamicTasks
    BY <1>2, <2>1 DEF StartRun, taskVars, RowsOf
  <2>2. CASE ~UseDynamicTasks
    BY <1>2, <2>2 DEF StartRun, FirstStep, TypeOK
  <2> QED
    BY <2>1, <2>2
<1>3. CASE PlanSyncChunks
  BY <1>3 DEF PlanSyncChunks
<1>4. CASE PlanFails \/ EndRun
  BY <1>4 DEF PlanFails, EndRun, taskVars, RowsOf
<1> QED
  BY <1>1, <1>2, <1>3, <1>4


\* What the invariant says of a task that collects the keys it must keep.
Collects(n) == KeptIsCollected(n) /\ ScopeInRange(n)

Assumptions ==
  /\ DeleteMissing /\ "lost" \notin FaultKinds
  /\ UseDynamicTasks => ScopeValue = ChunkValue

LEMMA KeysTableTask ==
  ASSUME TypeOK, KeysTableExists, NEW n \in Chunks, TaskStep(n)
  PROVE  /\ pc'[n] \in {"append", "scope", "delete"} => DeleteMissing
         /\ (DeleteMissing /\ pc'[n] \in {"fetch", "upsert", "append", "scope", "delete"})
              => keysStaging'[n] # NoTable
<1> USE KeysAreNoTable DEF TypeOK, KeysTableExists, Goto
<1>1. CASE FetchScopeBounds(n) \/ DeleteMissingInScope(n) \/ DropKeysStagingTable(n)
  BY <1>1 DEF FetchScopeBounds, DeleteMissingInScope, DropKeysStagingTable
<1>2. CASE CountRows(n) \/ EndOfStream(n)
  BY <1>2 DEF CountRows, EndOfStream, AfterStream, PreparedTable
<1>3. CASE StartStream(n) \/ FetchBatch(n) \/ UpsertBatch(n) \/ UpsertLost(n)
  BY <1>3 DEF StartStream, FetchBatch, UpsertBatch, UpsertLost, AfterUpsert, PreparedTable
<1>4. CASE AppendKeysToStaging(n)
  <2>1. AppendedKeys(n) \in SUBSET Keys
    BY <1>4, RowsAreKeys DEF AppendKeysToStaging, AppendedKeys
  <2> QED
    BY <1>4, <2>1 DEF AppendKeysToStaging
<1>5. CASE FetchChunkDeleteScopeBounds(n)
  BY <1>5 DEF FetchChunkDeleteScopeBounds
<1>6. CASE ReadFails(n) \/ WriteFails(n) \/ RetryTask(n)
  BY <1>6 DEF ReadFails, WriteFails, RetryTask, FirstStep
<1> QED
  BY <1>1, <1>2, <1>3, <1>4, <1>5, <1>6 DEF TaskStep, Proceed

LEMMA CollectsTask ==
  ASSUME Assumptions, TypeOK, NEW n \in Chunks, Collects(n), TaskStep(n)
  PROVE  Collects(n)'
<1> USE DEF Assumptions, TypeOK, Goto, Collects, KeptIsCollected, Kept, ScopeInRange,
            runVars, taskVars
<1>1. CASE FetchScopeBounds(n)
  BY <1>1 DEF FetchScopeBounds
<1>2. CASE CountRows(n)
  BY <1>2 DEF CountRows, AfterStream
<1>3. CASE StartStream(n)
  BY <1>3 DEF StartStream
<1>4. CASE FetchBatch(n)
  <2>1. PICK rows \in FetchableRows(n) :
          /\ batch' = [batch EXCEPT ![n] =
               [k \in Keys |-> IF k \in rows THEN source[k] ELSE NoRow]]
          /\ unread' = [unread EXCEPT ![n] = @ \ rows]
    BY <1>4 DEF FetchBatch
  <2>2. RowsOf(batch'[n]) = rows
    BY <2>1, BatchOfRows DEF FetchableRows
  <2>3. RowsOf(batch[n])' = rows
    BY <2>2 DEF RowsOf
  <2> QED
    BY <1>4, <2>1, <2>3 DEF FetchBatch
<1>5. CASE UpsertBatch(n) \/ UpsertLost(n)
  <2>1. RowsOf(batch[n])' = RowsOf(batch[n])
    BY <1>5 DEF UpsertBatch, UpsertLost, RowsOf
  <2> QED
    BY <1>5, <2>1 DEF UpsertBatch, UpsertLost, AfterUpsert
<1>6. CASE AppendKeysToStaging(n)
  BY <1>6 DEF AppendKeysToStaging, AppendedKeys, Fault
<1>7. CASE EndOfStream(n)
  <2>1. /\ UNCHANGED <<keysStaging, range, unread, scope, stayed>>
        /\ pc[n] = "fetch" /\ unread[n] = {}
        /\ pc'[n] = IF UseDynamicTasks THEN "scope" ELSE "delete"
    <3>1. UNCHANGED <<keysStaging, range, unread, scope, stayed>>
      BY <1>7 DEF EndOfStream
    <3>2. pc[n] = "fetch" /\ unread[n] = {} /\ pc'[n] = AfterStream
      BY <1>7 DEF EndOfStream
    <3>3. AfterStream = IF UseDynamicTasks THEN "scope" ELSE "delete"
      BY DEF AfterStream
    <3> QED
      BY <3>1, <3>2, <3>3
  <2>2. stayed[n] \cap range[n] \subseteq keysStaging[n]
    BY <2>1
  <2>3. ~UseDynamicTasks => range[n] = Keys /\ scope[n] \subseteq Keys
    BY <2>1
  <2>4. KeptIsCollected(n)'
    BY <2>1, <2>2
  <2>5. ScopeInRange(n)'
    BY <2>1, <2>3
  <2> QED
    BY <2>4, <2>5
<1>8. CASE FetchChunkDeleteScopeBounds(n)
  <2>1. /\ UNCHANGED <<keysStaging, range, unread, stayed>>
        /\ pc[n] = "scope" /\ pc'[n] = "delete" /\ scope'[n] = ChunkScope(n)
    BY <1>8 DEF FetchChunkDeleteScopeBounds
  <2>2. ChunkScope(n) \subseteq range[n]
    BY <2>1 DEF ChunkScope, Between
  <2> QED
    BY <2>1, <2>2
<1>9. CASE DeleteMissingInScope(n) \/ DropKeysStagingTable(n)
  BY <1>9 DEF DeleteMissingInScope, DropKeysStagingTable
<1>10. CASE ReadFails(n) \/ WriteFails(n)
  BY <1>10 DEF ReadFails, WriteFails
<1>11. CASE RetryTask(n)
  BY <1>11 DEF RetryTask, FirstStep
<1> QED
  BY <1>1, <1>2, <1>3, <1>4, <1>5, <1>6, <1>7, <1>8, <1>9, <1>10, <1>11
     DEF TaskStep, Proceed

LEMMA RangesStay ==
  ASSUME NEW n \in Chunks, TaskStep(n)
  PROVE  UNCHANGED runVars
BY DEF TaskStep, Proceed, FetchScopeBounds, CountRows, StartStream, FetchBatch,
   UpsertBatch, UpsertLost, AppendKeysToStaging, EndOfStream, FetchChunkDeleteScopeBounds,
   DeleteMissingInScope, DropKeysStagingTable, ReadFails, WriteFails, RetryTask

LEMMA KeysTask ==
  ASSUME TypeOK, KeysInvariant, NEW n \in Chunks, TaskStep(n)
  PROVE  KeysInvariant'
<1>1. KeysTableExists'
  BY KeysTableTask, OthersStay DEF KeysInvariant, KeysTableExists
<1>2. UNCHANGED runVars
  BY RangesStay
<1>3. ASSUME Assumptions, NEW m \in Chunks PROVE Collects(m)'
  <2>1. Collects(m)
    BY <1>3 DEF KeysInvariant, Assumptions, Collects
  <2>2. CASE m = n
    BY <1>3, <2>1, <2>2, CollectsTask
  <2>3. CASE m # n
    <3>1. RowsOf(batch[m])' = RowsOf(batch[m])
      BY <2>3, OthersStay DEF RowsOf
    <3> QED
      BY <1>2, <2>1, <2>3, <3>1, OthersStay
         DEF Collects, KeptIsCollected, Kept, ScopeInRange, runVars
  <2> QED
    BY <2>2, <2>3
<1> QED
  BY <1>1, <1>2, <1>3 DEF KeysInvariant, Assumptions, Collects, runVars

-----------------------------------------------------------------------------
(* The theorems *)

TypedKeys == TypeOK /\ KeysInvariant

LEMMA StepKinds ==
  ASSUME Next
  PROVE  \/ \E k \in Keys, row \in Values \cup {NoRow} : ChangeSource(k, row)
         \/ StartRun \/ PlanSyncChunks \/ PlanFails \/ EndRun
         \/ \E n \in Chunks : TaskStep(n)
BY DEF Next, TaskStep

LEMMA Stutters ==
  ASSUME TypedKeys, UNCHANGED vars
  PROVE  TypedKeys'
BY DEF TypedKeys, vars, TypeOK, Table, RowsOf, KeysInvariant, KeysTableExists, KeptIsCollected,
   Kept, ScopeInRange

LEMMA Invariance == Spec => []TypedKeys
<1>1. Init => TypedKeys
  BY TypeInit, KeysInit DEF TypedKeys
<1>2. TypedKeys /\ [Next]_vars => TypedKeys'
  <2> SUFFICES ASSUME TypedKeys, [Next]_vars PROVE TypedKeys'
    OBVIOUS
  <2>1. TypeOK /\ KeysInvariant /\ KeysTableExists
    BY DEF TypedKeys, KeysInvariant
  <2>2. CASE Next
    <3>1. CASE \E n \in Chunks : TaskStep(n)
      BY <2>1, <3>1, TypeTask, KeysTask DEF TypedKeys
    <3>2. CASE ~ \E n \in Chunks : TaskStep(n)
      BY <2>1, <2>2, <3>2, StepKinds, TypeEnv, KeysEnv DEF TypedKeys
    <3> QED
      BY <3>1, <3>2
  <2>3. CASE UNCHANGED vars
    BY <2>3, Stutters
  <2> QED
    BY <2>2, <2>3
<1> QED
  BY <1>1, <1>2, PTL DEF Spec

\* Everything has its type; a batch that FetchBatch fills is no larger than
\* batch_size, and the changes and faults stay within their bounds.
THEOREM ChunkTypesHold == Spec => []TypeOK
BY Invariance, PTL DEF TypedKeys

\* Keys are collected before delete_missing uses them, as _finalize_delete_missing
\* relies on, in any interleaving of tasks and retries.
THEOREM KeysInvariantHolds == Spec => []KeysInvariant
BY Invariance, PTL DEF TypedKeys

\* The scoped delete of sync_data and sync_data_chunk spares every row that was in
\* the source since the task began, if append_keys_to_staging loses no commit and
\* delete_scope_column is the chunk column when there are chunks.
THEOREM OnlyMissingRowsDeleted ==
  ASSUME "lost" \notin FaultKinds, UseDynamicTasks => ScopeValue = ChunkValue
  PROVE  Spec => DeletesOnlyMissing
<1>1. TypedKeys /\ [Next]_vars =>
        [\A n \in Chunks : (pc[n] = "delete" /\ pc'[n] # "delete") =>
           \A k \in stayed[n] : target'[k] = NoRow => target[k] = NoRow]_vars
  <2> SUFFICES ASSUME TypedKeys, Next, NEW n \in Chunks, pc[n] = "delete", pc'[n] # "delete",
                      NEW k \in stayed[n], target'[k] = NoRow
               PROVE  target[k] = NoRow
    OBVIOUS
  <2>1. k \in Keys
    BY DEF TypedKeys, TypeOK
  <2>2. Kept(n) \subseteq keysStaging[n] /\ scope[n] \subseteq range[n]
    BY DEF TypedKeys, KeysInvariant, KeysTableExists, KeptIsCollected, ScopeInRange
  <2>3. CASE \E m \in Chunks : TaskStep(m)
    <3>1. TaskStep(n)
      BY <2>3, OthersStay DEF TypedKeys
    <3>2. target' = target \/ target' = WithoutMissing(n)
      BY <3>1 DEF TaskStep, Proceed, Goto, FetchScopeBounds, CountRows, StartStream,
         FetchBatch, UpsertBatch, UpsertLost, AppendKeysToStaging, EndOfStream,
         FetchChunkDeleteScopeBounds, DeleteMissingInScope, DropKeysStagingTable, ReadFails,
         WriteFails, RetryTask, envVars
    <3> QED
      BY <2>1, <2>2, <3>2 DEF WithoutMissing, Kept
  <2>4. CASE ~ \E m \in Chunks : TaskStep(m)
    <3>1. target' = target
      BY <2>4, StepKinds DEF ChangeSource, StartRun, PlanSyncChunks, PlanFails, EndRun
    <3> QED
      BY <3>1
  <2> QED
    BY <2>3, <2>4
<1> QED
  BY <1>1, Invariance, PTL DEF Spec, DeletesOnlyMissing


-----------------------------------------------------------------------------
(* What a run copies *)

LEMMA RunInit == Init => RunInvariant
BY DEF Init, RunInvariant, CopyInvariant, OrphanInvariant

\* Tasks leave the source and the run alone, and change the target in two ways.
LEMMA TargetStep ==
  ASSUME NEW n \in Chunks, TaskStep(n)
  PROVE  /\ UNCHANGED <<source, quiet, phase, total, range>>
         /\ \/ target' = target
            \/ pc[n] = "upsert" /\ target' = Merged(target, batch[n])
            \/ pc[n] = "delete" /\ target' = WithoutMissing(n)
<1> USE DEF envVars, runVars, taskVars, Goto
<1>1. CASE FetchScopeBounds(n) \/ CountRows(n) \/ StartStream(n) \/ FetchBatch(n)
  BY <1>1 DEF FetchScopeBounds, CountRows, StartStream, FetchBatch
<1>2. CASE UpsertBatch(n) \/ UpsertLost(n) \/ AppendKeysToStaging(n) \/ EndOfStream(n)
  BY <1>2 DEF UpsertBatch, UpsertLost, AppendKeysToStaging, EndOfStream
<1>3. CASE FetchChunkDeleteScopeBounds(n) \/ DeleteMissingInScope(n) \/ DropKeysStagingTable(n)
  BY <1>3 DEF FetchChunkDeleteScopeBounds, DeleteMissingInScope, DropKeysStagingTable
<1>4. CASE ReadFails(n) \/ RetryTask(n)
  BY <1>4 DEF ReadFails, RetryTask
<1>5. CASE WriteFails(n)
  BY <1>5 DEF WriteFails
<1> QED
  BY <1>1, <1>2, <1>3, <1>4, <1>5 DEF TaskStep, Proceed

\* What a task writes is what is in the source, and what it deletes is not: a row that
\* is copied stays so.
LEMMA CopiesStay ==
  ASSUME TypedKeys, NothingIsLost, NEW n \in Chunks, CopiesItsRange(n), TaskStep(n),
         NEW k \in RowsOf(source), Copied(k)
  PROVE  target'[k] = source[k]
<1>1. k \in Keys /\ k \in RowsOf(source)
  BY RowsAreKeys
<1>2. CASE target' = target
  BY <1>2 DEF Copied
<1>3. CASE pc[n] = "upsert" /\ target' = Merged(target, batch[n])
  <2>1. k \in RowsOf(batch[n]) => batch[n][k] = source[k]
    BY <1>3 DEF CopiesItsRange
  <2> QED
    BY <1>1, <1>3, <2>1 DEF Merged, RowsOf, Copied
<1>4. CASE pc[n] = "delete" /\ target' = WithoutMissing(n)
  <2>1. DeleteMissing
    BY <1>4 DEF TypedKeys, KeysInvariant, KeysTableExists
  <2>2. Kept(n) \subseteq keysStaging[n] /\ scope[n] \subseteq range[n]
    BY <1>4, <2>1 DEF TypedKeys, KeysInvariant, KeptIsCollected, ScopeInRange, NothingIsLost
  <2>3. stayed[n] = RowsOf(source)
    BY <1>4 DEF CopiesItsRange
  <2>4. k \notin scope[n] \ keysStaging[n]
    BY <1>1, <2>2, <2>3 DEF Kept
  <2> QED
    BY <1>1, <1>4, <2>4 DEF WithoutMissing, Copied
<1> QED
  BY <1>2, <1>3, <1>4, TargetStep


LEMMA CopiesOwn ==
  ASSUME TypedKeys, NothingIsLost, NEW n \in Chunks, CopiesItsRange(n), TaskStep(n)
  PROVE  CopiesItsRange(n)'
<1> DEFINE rows == RowsOf(source)
<1>1. /\ source' = source /\ range' = range
      /\ RowsOf(source)' = rows
      /\ rows \subseteq Keys
  BY TargetStep, RowsAreKeys DEF RowsOf
<1>2. \A k \in rows : Copied(k) => target'[k] = source[k]
  BY CopiesStay
<1>3. \A k \in rows : Copied(k)' <=> target'[k] = source[k]
  BY <1>1 DEF Copied
<1>4. TypeOK
  BY DEF TypedKeys
<1> HIDE DEF rows
<1>5. CASE FetchScopeBounds(n)
  <2>1. pc'[n] = "count"
    BY <1>4, <1>5 DEF FetchScopeBounds, Goto, TypeOK
  <2> QED
    BY <2>1 DEF CopiesItsRange
<1>6. CASE CountRows(n)
  <2>1. CASE rows = {}
    <3>1. stayed'[n] = {} /\ pc'[n] \in {"done", "scope", "delete"}
      BY <1>4, <1>6, <2>1 DEF CountRows, Goto, AfterStream, TypeOK, rows
    <3> QED
      BY <1>1, <2>1, <3>1 DEF CopiesItsRange
  <2>2. CASE rows # {}
    <3>1. pc'[n] = "prepare"
      BY <1>4, <1>6, <2>2 DEF CountRows, Goto, TypeOK, rows
    <3> QED
      BY <3>1 DEF CopiesItsRange
  <2> QED
    BY <2>1, <2>2
<1>7. CASE StartStream(n)
  <2>1. /\ pc'[n] = "fetch" /\ stayed'[n] = rows
        /\ unread'[n] = rows \cap range[n]
    BY <1>4, <1>7 DEF StartStream, Goto, TypeOK, rows
  <2> QED
    BY <1>1, <2>1 DEF CopiesItsRange
<1>8. CASE FetchBatch(n)
  <2>1. PICK read \in FetchableRows(n) :
          /\ batch' = [batch EXCEPT ![n] =
               [k \in Keys |-> IF k \in read THEN source[k] ELSE NoRow]]
          /\ unread' = [unread EXCEPT ![n] = @ \ read]
    BY <1>8 DEF FetchBatch
  <2>2. read \in SUBSET rows
    BY DEF FetchableRows, rows
  <2>3. /\ unread'[n] = unread[n] \ read
        /\ batch'[n] = [k \in Keys |-> IF k \in read THEN source[k] ELSE NoRow]
    BY <1>4, <2>1 DEF TypeOK
  <2>4. RowsOf(batch[n])' = read
    BY <2>2, <2>3, BatchOfRows DEF RowsOf, rows
  <2>5. \A k \in read : batch'[n][k] = source[k]
    BY <1>1, <2>2, <2>3
  <2>6. /\ pc[n] = "fetch" /\ pc'[n] = "upsert"
        /\ stayed' = stayed
    BY <1>4, <1>8 DEF FetchBatch, Goto, TypeOK
  <2>7. /\ stayed[n] = rows
        /\ \A k \in rows \cap range[n] : k \in unread[n] \/ Copied(k)
    BY <2>6 DEF CopiesItsRange, rows
  <2> QED
    BY <1>1, <1>2, <1>3, <2>3, <2>4, <2>5, <2>6, <2>7 DEF CopiesItsRange
<1>9. CASE UpsertBatch(n)
  <2>1. /\ pc[n] = "upsert" /\ pc'[n] \in {"append", "fetch"}
        /\ UNCHANGED <<stayed, unread, batch>>
        /\ target' = Merged(target, batch[n])
    BY <1>4, <1>9 DEF UpsertBatch, AfterUpsert, Goto, TypeOK, taskVars
  <2>2. /\ stayed[n] = rows
        /\ \A k \in RowsOf(batch[n]) : batch[n][k] = source[k]
        /\ \A k \in rows \cap range[n] : k \in unread[n] \cup RowsOf(batch[n]) \/ Copied(k)
    BY <2>1 DEF CopiesItsRange, rows
  <2>3. \A k \in rows : k \in RowsOf(batch[n]) => target'[k] = source[k]
    BY <1>1, <2>1, <2>2 DEF Merged, RowsOf
  <2> QED
    BY <1>1, <1>2, <1>3, <2>1, <2>2, <2>3 DEF CopiesItsRange
<1>10. CASE AppendKeysToStaging(n)
  <2>1. /\ pc[n] = "append" /\ pc'[n] = "fetch"
        /\ UNCHANGED <<stayed, unread>>
    BY <1>4, <1>10 DEF AppendKeysToStaging, Goto, TypeOK, taskVars
  <2> QED
    BY <1>1, <1>2, <1>3, <2>1 DEF CopiesItsRange, rows
<1>11. CASE EndOfStream(n)
  <2>1. /\ pc[n] = "fetch" /\ pc'[n] \in {"done", "scope", "delete"}
        /\ unread[n] = {} /\ UNCHANGED stayed
    BY <1>4, <1>11 DEF EndOfStream, Goto, AfterStream, TypeOK, taskVars
  <2> QED
    BY <1>1, <1>2, <1>3, <2>1 DEF CopiesItsRange, rows
<1>12. CASE FetchChunkDeleteScopeBounds(n) \/ DeleteMissingInScope(n) \/ DropKeysStagingTable(n)
  <2>1. /\ pc[n] \in {"scope", "delete", "drop"} /\ pc'[n] \in {"delete", "drop", "done"}
        /\ pc'[n] = "delete" => pc[n] = "scope"
        /\ UNCHANGED stayed
    BY <1>4, <1>12 DEF FetchChunkDeleteScopeBounds, DeleteMissingInScope,
                       DropKeysStagingTable, Goto, TypeOK, taskVars
  <2> QED
    BY <1>1, <1>2, <1>3, <2>1 DEF CopiesItsRange, rows
<1>13. CASE ReadFails(n) \/ WriteFails(n) \/ RetryTask(n)
  <2>1. pc'[n] \in {"failed", "prepare", "bounds", "count"}
    BY <1>4, <1>13 DEF ReadFails, WriteFails, RetryTask, FirstStep, Goto, TypeOK
  <2> QED
    BY <2>1 DEF CopiesItsRange
<1>14. ~UpsertLost(n)
  BY DEF UpsertLost, Fault, NothingIsLost
<1> QED
  BY <1>5, <1>6, <1>7, <1>8, <1>9, <1>10, <1>11, <1>12, <1>13, <1>14 DEF TaskStep, Proceed

LEMMA CopyTask ==
  ASSUME TypedKeys, NothingIsLost, CopyInvariant, NEW n \in Chunks, TaskStep(n)
  PROVE  CopyInvariant'
<1>1. /\ UNCHANGED <<source, quiet, phase, total, range>>
      /\ RowsOf(source)' = RowsOf(source)
  BY TargetStep DEF RowsOf
<1>2. phase = "counted" /\ quiet => total' = Cardinality(RowsOf(source)')
  BY <1>1 DEF CopyInvariant
<1>3. ASSUME phase = "running", quiet, NEW m \in Chunks
      PROVE  CopiesItsRange(m)'
  <2>1. CopiesItsRange(m) /\ CopiesItsRange(n)
    BY <1>3 DEF CopyInvariant
  <2>2. CASE m = n
    BY <2>1, <2>2, CopiesOwn
  <2>3. CASE m # n
    <3>1. /\ pc'[m] = pc[m] /\ unread'[m] = unread[m] /\ batch'[m] = batch[m]
          /\ stayed'[m] = stayed[m] /\ RowsOf(batch[m])' = RowsOf(batch[m])
      BY <2>3, OthersStay DEF TypedKeys, RowsOf
    <3>2. \A k \in RowsOf(source) : Copied(k) => target'[k] = source[k]
      BY <2>1, CopiesStay
    <3>3. \A k \in RowsOf(source) : Copied(k)' <=> target'[k] = source[k]
      BY <1>1 DEF Copied
    <3> QED
      BY <1>1, <2>1, <3>1, <3>2, <3>3 DEF CopiesItsRange
  <2> QED
    BY <2>2, <2>3
<1>4. phase = "running" /\ quiet => RowsOf(source)' \subseteq UNION {range'[m] : m \in Chunks}
  BY <1>1 DEF CopyInvariant
<1> QED
  BY <1>1, <1>2, <1>3, <1>4 DEF CopyInvariant


-----------------------------------------------------------------------------
(* What the only task of sync_data deletes *)

LEMMA OrphansOwn ==
  ASSUME TypedKeys, DeleteMissing, ~UseDynamicTasks,
         NEW n \in Chunks, RemovesOrphans(n), TaskStep(n)
  PROVE  RemovesOrphans(n)'
<1> DEFINE rows == RowsOf(source)
           bounds == Between(rows)
<1>1. /\ source' = source
      /\ RowsOf(source)' = rows /\ Between(RowsOf(source))' = bounds
      /\ rows \subseteq Keys /\ bounds \subseteq Keys
  BY TargetStep, RowsAreKeys DEF RowsOf, Between
<1>2. TypeOK
  BY DEF TypedKeys
<1> HIDE DEF rows, bounds
<1>3. CASE FetchScopeBounds(n)
  <2>1. pc'[n] = "count" /\ scope'[n] = bounds
    BY <1>2, <1>3 DEF FetchScopeBounds, Goto, TypeOK, rows, bounds
  <2> QED
    BY <1>1, <2>1 DEF RemovesOrphans
<1>4. CASE CountRows(n) \/ StartStream(n)
  <2>1. /\ pc[n] \in {"count", "prepare"} /\ pc'[n] \in {"prepare", "fetch", "delete"}
        /\ UNCHANGED scope
        /\ pc'[n] \in {"fetch", "delete"} => keysStaging'[n] = {}
    BY <1>2, <1>4 DEF CountRows, StartStream, PreparedTable, Goto, AfterStream, TypeOK
  <2> QED
    BY <1>1, <2>1 DEF RemovesOrphans, rows, bounds
<1>5. CASE FetchBatch(n)
  <2>1. PICK read \in FetchableRows(n) :
          batch' = [batch EXCEPT ![n] =
               [k \in Keys |-> IF k \in read THEN source[k] ELSE NoRow]]
    BY <1>5 DEF FetchBatch
  <2>2. read \in SUBSET rows
    BY DEF FetchableRows, rows
  <2>3. RowsOf(batch[n])' = read
    BY <1>2, <2>1, <2>2, BatchOfRows DEF RowsOf, TypeOK, rows
  <2>4. /\ pc[n] = "fetch" /\ pc'[n] = "upsert"
        /\ UNCHANGED <<scope, keysStaging>>
    BY <1>2, <1>5 DEF FetchBatch, Goto, TypeOK
  <2> QED
    BY <1>1, <2>2, <2>3, <2>4 DEF RemovesOrphans, rows, bounds
<1>6. CASE UpsertBatch(n) \/ UpsertLost(n)
  <2>1. /\ pc[n] = "upsert" /\ pc'[n] = "append"
        /\ UNCHANGED <<scope, keysStaging, batch>>
        /\ RowsOf(batch[n])' = RowsOf(batch[n])
    BY <1>2, <1>6 DEF UpsertBatch, UpsertLost, AfterUpsert, Goto, TypeOK, taskVars, RowsOf
  <2> QED
    BY <1>1, <2>1 DEF RemovesOrphans, rows, bounds
<1>7. CASE AppendKeysToStaging(n)
  <2>1. /\ pc[n] = "append" /\ pc'[n] = "fetch" /\ UNCHANGED scope
        /\ \/ keysStaging'[n] = keysStaging[n] \cup RowsOf(batch[n])
           \/ keysStaging'[n] = keysStaging[n]
    BY <1>2, <1>7 DEF AppendKeysToStaging, AppendedKeys, Goto, TypeOK, taskVars
  <2>2. keysStaging[n] \subseteq rows /\ RowsOf(batch[n]) \subseteq rows
    BY <2>1 DEF RemovesOrphans, rows
  <2>3. keysStaging'[n] \subseteq rows
    BY <2>1, <2>2
  <2> QED
    BY <1>1, <2>1, <2>3 DEF RemovesOrphans, rows, bounds
<1>8. CASE EndOfStream(n)
  <2>1. /\ pc[n] = "fetch" /\ pc'[n] = "delete"
        /\ UNCHANGED <<scope, keysStaging>>
    BY <1>2, <1>8 DEF EndOfStream, Goto, AfterStream, TypeOK, taskVars
  <2> QED
    BY <1>1, <2>1 DEF RemovesOrphans, rows, bounds
<1>9. CASE FetchChunkDeleteScopeBounds(n)
  BY <1>9 DEF FetchChunkDeleteScopeBounds, Goto, RemovesOrphans
<1>10. CASE DeleteMissingInScope(n)
  <2>1. pc[n] = "delete" /\ pc'[n] = "drop" /\ target' = WithoutMissing(n)
    BY <1>2, <1>10 DEF DeleteMissingInScope, Goto, TypeOK
  <2>2. scope[n] = bounds /\ keysStaging[n] \subseteq rows
    BY <2>1 DEF RemovesOrphans, rows, bounds
  <2>3. RowsOf(target)' \cap bounds \subseteq rows
    BY <2>1, <2>2 DEF WithoutMissing, RowsOf
  <2> QED
    BY <1>1, <2>1, <2>3 DEF RemovesOrphans
<1>11. CASE DropKeysStagingTable(n)
  <2>1. /\ pc[n] = "drop" /\ pc'[n] = "done"
        /\ RowsOf(target)' = RowsOf(target)
    BY <1>2, <1>11 DEF DropKeysStagingTable, Goto, TypeOK, RowsOf
  <2> QED
    BY <1>1, <2>1 DEF RemovesOrphans, rows, bounds
<1>12. CASE ReadFails(n) \/ WriteFails(n) \/ RetryTask(n)
  <2>1. pc'[n] \in {"failed", "bounds"}
    BY <1>2, <1>12 DEF ReadFails, WriteFails, RetryTask, FirstStep, Goto, TypeOK
  <2> QED
    BY <2>1 DEF RemovesOrphans
<1> QED
  BY <1>3, <1>4, <1>5, <1>6, <1>7, <1>8, <1>9, <1>10, <1>11, <1>12 DEF TaskStep, Proceed

LEMMA DoneIsDone ==
  ASSUME NEW n \in Chunks, TaskStep(n)
  PROVE  pc[n] # "done"
BY DEF TaskStep, Proceed, FetchScopeBounds, CountRows, StartStream, FetchBatch,
   UpsertBatch, UpsertLost, AppendKeysToStaging, EndOfStream, FetchChunkDeleteScopeBounds,
   DeleteMissingInScope, DropKeysStagingTable, ReadFails, WriteFails, RetryTask, Goto

LEMMA OrphanTask ==
  ASSUME TypedKeys, DeleteMissing, ~UseDynamicTasks, OrphanInvariant,
         NEW n \in Chunks, TaskStep(n)
  PROVE  OrphanInvariant'
<1>1. UNCHANGED <<quiet, phase>>
  BY TargetStep
<1>2. ASSUME phase = "running", quiet
      PROVE  \A m \in Chunks : IF m = 1 THEN RemovesOrphans(m)' ELSE pc'[m] = "done"
  <2>1. n = 1 /\ RemovesOrphans(n)
    BY <1>2, DoneIsDone DEF OrphanInvariant
  <2>2. RemovesOrphans(n)'
    BY <2>1, OrphansOwn
  <2>3. \A m \in Chunks : m # n => pc'[m] = "done"
    BY <1>2, <2>1, OthersStay DEF OrphanInvariant, TypedKeys
  <2> QED
    BY <2>1, <2>2, <2>3
<1> QED
  BY <1>1, <1>2 DEF OrphanInvariant

-----------------------------------------------------------------------------
(* What happens around the tasks *)

LEMMA RunEnv ==
  ASSUME TypedKeys, RunInvariant,
         \/ \E k \in Keys, row \in Values \cup {NoRow} : ChangeSource(k, row)
         \/ StartRun \/ PlanSyncChunks \/ PlanFails \/ EndRun
  PROVE  RunInvariant'
<1>1. CASE \E k \in Keys, row \in Values \cup {NoRow} : ChangeSource(k, row)
  BY <1>1 DEF ChangeSource, RunInvariant, CopyInvariant, OrphanInvariant
<1>2. CASE PlanFails \/ EndRun
  BY <1>2 DEF PlanFails, EndRun, RunInvariant, CopyInvariant, OrphanInvariant
<1>3. CASE StartRun
  <2>1. RowsOf(source)' = RowsOf(source) /\ RowsOf(source) \subseteq Keys
    BY <1>3, RowsAreKeys DEF StartRun, RowsOf
  <2>2. CASE UseDynamicTasks
    BY <1>3, <2>1, <2>2 DEF StartRun, RunInvariant, CopyInvariant
  <2>3. CASE ~UseDynamicTasks
    <3>1. /\ phase' = "running"
          /\ range' = [n \in Chunks |-> IF n = 1 THEN Keys ELSE {}]
          /\ pc' = [n \in Chunks |-> IF n = 1 THEN FirstStep ELSE "done"]
      BY <1>3, <2>3 DEF StartRun
    <3>2. RowsOf(source) \subseteq UNION {range'[n] : n \in Chunks}
      <4> SUFFICES ASSUME NEW k \in RowsOf(source)
                   PROVE  \E n \in Chunks : k \in range'[n]
        OBVIOUS
      <4>1. Cardinality(Keys) \in Nat /\ Cardinality(Keys) # 0
        BY <2>1, ChunkConfigIsSound, FS_CardinalityType, FS_EmptySet
      <4>2. 1 \in Chunks
        BY <4>1 DEF Chunks
      <4> QED
        BY <2>1, <3>1, <4>2
    <3>3. \A n \in Chunks : CopiesItsRange(n)'
      BY <3>1, <2>3 DEF CopiesItsRange, FirstStep
    <3>4. DeleteMissing => \A n \in Chunks : IF n = 1 THEN RemovesOrphans(n)' ELSE pc'[n] = "done"
      BY <3>1, <2>3 DEF RemovesOrphans, FirstStep
    <3> QED
      BY <2>1, <3>1, <3>2, <3>3, <3>4 DEF RunInvariant, CopyInvariant, OrphanInvariant
  <2> QED
    BY <2>2, <2>3
<1>4. CASE PlanSyncChunks
  <2>1. /\ phase = "counted" /\ phase' = "running"
        /\ UNCHANGED <<source, quiet>>
        /\ range' = [n \in Chunks |-> IF total # 0 /\ n \in Tiles THEN TileRange(n) ELSE {}]
        /\ pc' = [n \in Chunks |-> IF total # 0 /\ n \in Tiles THEN "prepare" ELSE "done"]
    BY <1>4 DEF PlanSyncChunks
  <2>2. RowsOf(source)' = RowsOf(source)
    BY <2>1 DEF RowsOf
  <2>3. UseDynamicTasks
    BY <2>1 DEF TypedKeys, KeysInvariant
  <2>4. ASSUME NothingIsLost, quiet
        PROVE  RowsOf(source) \subseteq UNION {range'[n] : n \in Chunks}
    <3> SUFFICES ASSUME NEW k \in RowsOf(source)
                 PROVE  \E n \in Chunks : k \in range'[n]
      OBVIOUS
    <3>1. total = Cardinality(RowsOf(source))
      BY <2>1, <2>4 DEF RunInvariant, CopyInvariant
    <3>2. total # 0 /\ \E n \in Tiles : k \in TileRange(n)
      BY <3>1, PlanLeavesNoRowOut
    <3> QED
      BY <2>1, <3>2 DEF Tiles
  <2>5. \A n \in Chunks : CopiesItsRange(n)'
    BY <2>1 DEF CopiesItsRange
  <2> QED
    BY <2>1, <2>2, <2>3, <2>4, <2>5 DEF RunInvariant, CopyInvariant
<1> QED
  BY <1>1, <1>2, <1>3, <1>4

-----------------------------------------------------------------------------
(* The theorems about runs *)

LEMMA RunStutters ==
  ASSUME RunInvariant, UNCHANGED vars
  PROVE  RunInvariant'
<1>1. /\ RowsOf(source)' = RowsOf(source) /\ RowsOf(target)' = RowsOf(target)
      /\ \A n \in Chunks : RowsOf(batch[n])' = RowsOf(batch[n])
  BY DEF vars, RowsOf
<1>2. UNCHANGED <<source, target, keysStaging, phase, total, range, pc, unread, batch,
                  scope, stayed, quiet>>
  BY DEF vars
<1>3. \A n \in Chunks : /\ CopiesItsRange(n) => CopiesItsRange(n)'
                        /\ RemovesOrphans(n) => RemovesOrphans(n)'
  BY <1>1, <1>2 DEF CopiesItsRange, RemovesOrphans, Copied
<1> QED
  BY <1>1, <1>2, <1>3 DEF RunInvariant, CopyInvariant, OrphanInvariant

LEMMA RunStep ==
  ASSUME TypedKeys, RunInvariant, [Next]_vars
  PROVE  RunInvariant'
<1>1. CASE Next
  <2>1. CASE \E n \in Chunks : TaskStep(n)
    <3>1. PICK n \in Chunks : TaskStep(n)
      BY <2>1
    <3> QED
      BY <3>1, CopyTask, OrphanTask DEF RunInvariant
  <2>2. CASE ~ \E n \in Chunks : TaskStep(n)
    BY <1>1, <2>2, StepKinds, RunEnv
  <2> QED
    BY <2>1, <2>2
<1>2. CASE UNCHANGED vars
  BY <1>2, RunStutters
<1> QED
  BY <1>1, <1>2

\* Where no upsert and no keys are lost, the rows of an undisturbed source are copied, in a
\* batch or still to come, whatever the plan and the retries; what the only task of
\* sync_data deletes is an orphan, even when something is lost.
THEOREM RunInvariantHolds == Spec => []RunInvariant
BY RunInit, RunStep, Invariance, PTL DEF Spec

\* A DAG run that succeeds over an undisturbed source has copied all of it: no row is
\* between the chunks of plan_sync_chunks, and none is deleted by a task of the same run,
\* if neither upsert_batch nor append_keys_to_staging reports success for what the server
\* has rolled back, and chunks that delete are ranges of the scope column.
THEOREM RunsCopyTheSource ==
  ASSUME NothingIsLost
  PROVE  Spec => []RunCopiesSource
<1>1. RunInvariant => RunCopiesSource
  BY DEF RunInvariant, CopyInvariant, CopiesItsRange, RunCopiesSource, RunSucceeded, Copied
<1> QED
  BY <1>1, RunInvariantHolds, PTL

\* With delete_missing, sync_data leaves nothing between the bounds of an undisturbed
\* source that is not in it, also when keys are lost and the task is retried.
THEOREM RunsRemoveOrphans ==
  ASSUME ~UseDynamicTasks
  PROVE  Spec => []RunRemovesOrphans
<1>1. RunInvariant => RunRemovesOrphans
  <2> SUFFICES ASSUME RunInvariant, RunSucceeded, quiet, DeleteMissing
               PROVE  RowsOf(target) \cap Between(RowsOf(source)) \subseteq RowsOf(source)
    BY DEF RunRemovesOrphans
  <2> SUFFICES ASSUME NEW k \in RowsOf(target)
               PROVE  RowsOf(target) \cap Between(RowsOf(source)) \subseteq RowsOf(source)
    OBVIOUS
  <2>1. Cardinality(Keys) \in Nat /\ Cardinality(Keys) # 0
    BY RowsAreKeys, ChunkConfigIsSound, FS_CardinalityType, FS_EmptySet
  <2>2. 1 \in Chunks
    BY <2>1 DEF Chunks
  <2> QED
    BY <2>2 DEF RunInvariant, OrphanInvariant, RunSucceeded, RemovesOrphans
<1> QED
  BY <1>1, RunInvariantHolds, PTL

=============================================================================
