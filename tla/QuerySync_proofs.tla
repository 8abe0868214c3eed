-------------------------- MODULE QuerySync_proofs -------------------------
(***************************************************************************)
(* The steps that the directions of SyncDirections have in common, for any *)
(* tables, settings, plans and failures. CommonStep has one disjunct for   *)
(* each of them; what a writer does to the target is no more than          *)
(* WritesBatch says.  The steps keep the types, first, and then the        *)
(* invariant of SyncInvariant: what a step of one task leaves of the rows  *)
(* of the others is RowsKept, what it does for itself is TaskMove.         *)
(***************************************************************************)
EXTENDS MongoDBWriter, SyncInvariant, NTile_proofs

\* What a transaction may leave: rows of its batch, unless it waits for another, and no
\* longer some of those that it has deleted.
WritesBatch(n) ==
  \A k \in Keys : \/ target'[k] = target[k]
                  \/ ~Waits(n) /\ batch[n][k] # NoRow /\ target'[k] = batch[n][k]
                  \/ k \in Deleted(n) /\ target'[k] = NoRow

\* And when it succeeds.
HasBatch(n) ==
  \A k \in RowsOf(batch[n]) : \/ target'[k] = batch[n][k]
                              \/ k \in Late(n) /\ target'[k] = target[k]

\* The writers of SQL servers.
SqlWrites(n) ==
  \/ DeleteConflicts(n) \/ DeadlockVictim(n) \/ LoseUpsert(n) \/ DeleteMissing(n)
  \/ \E tables \in SUBSET Table :
       \/ WritesBatch(n) /\ HasBatch(n) /\ Upsert(n, tables)
       \/ WritesBatch(n) /\ RejectUpsert(n, tables)
       \/ /\ pc[n] = "insert" => WritesBatch(n)
          /\ WriteFails(n, tables, Without(target, Missing(n)))

\* The writer of MongoDB.
MongoWrites(n) == UpsertBatch(n) \/ DeleteMissingInScope(n) \/ WritesFail(n)

\* The writers of versions, ClickHouse and Kafka, have written some of the batch.
WritesVersions(n, keys) ==
  /\ target' = [k \in Keys |-> IF k \in keys THEN batch[n][k] ELSE target[k]]
  /\ version' = [k \in Keys |-> IF k \in keys THEN runVersion ELSE version[k]]

VersionWrites(n) ==
  /\ \E keys \in SUBSET RowsOf(batch[n]) :
       /\ WritesVersions(n, keys)
       /\ \/ /\ Goto(n, "upsert", "append")
             /\ \A k \in RowsOf(batch[n]) \ keys : version[k] > runVersion
             /\ UNCHANGED <<faults, undisturbed>>
          \/ Goto(n, "upsert", "append") /\ Fault("lost") /\ undisturbed' = FALSE
          \/ /\ pc[n] = "upsert" /\ UNCHANGED undisturbed
             /\ \E kind \in {"link", "died"} : FailTask(n, kind)
  /\ UNCHANGED <<config, source, changes, keysStaging, runVars, taskVars>>

\* A stream that cannot be opened.
OpenFails(n) ==
  /\ pc[n] = "prepare"
  /\ FailTask(n, "link")
  /\ UNCHANGED <<config, envVars, tableVars, runVars, taskVars>>

\* A step of a task.
TaskStep(n) ==
  \/ ~config.dynamic /\ FetchBounds(n, BoundsOf(config.scopeColumn, RowsOf(source)))
  \/ ~config.dynamic /\ CountRows(n)
  \/ ~OfTable /\ BeginStream(n, TaskRange(n))
  \/ FetchBatch(n) \/ EndOfStream(n)
  \/ \E remains \in SUBSET SUBSET RowsOf(batch[n]) : AppendKeys(n, remains)
  \/ FetchChunkBounds(n, ChunkScope(n)) \/ DropKeys(n)
  \/ ReadFails(n) \/ OpenFails(n) \/ RetryTask(n)
  \/ ToSql /\ SqlWrites(n)
  \/ ToMongo /\ MongoWrites(n)
  \/ ~ToSql /\ ~ToMongo /\ VersionWrites(n)

\* A step of the run.
RunStep ==
  \/ \E versions \in SUBSET Versions : BeginRun(versions)
  \/ CountTotal
  \/ ~OfMongo /\ \E nullsFirst \in BOOLEAN : ExpandChunks(NTilePlan(nullsFirst))
  \/ OfMongo /\ \E plan \in BucketPlans : ExpandChunks(plan)
  \/ BeginTask \/ GiveUpRun \/ ReportRun(Transferred) \/ LeaveRun

CommonStep ==
  \/ RunStep
  \/ \E n \in Chunks : TaskStep(n)
  \/ \E change \in Changes : ChangeSource(change[1], change[2])

-----------------------------------------------------------------------------
(* Finite sets *)

LEMMA RowsAreKeys == ASSUME NEW t PROVE RowsOf(t) \subseteq Keys
BY DEF RowsOf

LEMMA KeysAreCountable ==
  ASSUME NEW keys \in SUBSET Keys
  PROVE  IsFiniteSet(keys) /\ Cardinality(keys) \in Nat /\ Cardinality(keys) <= Cardinality(Keys)
BY ConfigIsSound, FS_Subset, FS_CardinalityType

\* What a function takes from a finite set is finite.
LEMMA FiniteImage ==
  ASSUME NEW S, IsFiniteSet(S), NEW f
  PROVE  IsFiniteSet({f[x] : x \in S})
<1> DEFINE T == {f[x] : x \in S}
           g == [x \in S |-> f[x]]
<1>1. g \in Surjection(S, T)
  BY DEF Surjection
<1> QED
  BY <1>1, FS_Surjection

\* A finite set of numbers has a smallest and a greatest one.
LEMMA MinAndMax ==
  ASSUME NEW S \in SUBSET Int, IsFiniteSet(S), S # {}
  PROVE  /\ Min(S) \in S /\ \A v \in S : Min(S) <= v
         /\ Max(S) \in S /\ \A v \in S : v <= Max(S)
<1> DEFINE column == [v \in S |-> v]
<1>1. IsColumn(column, S) /\ \A v \in S : column[v] = v
  BY DEF IsColumn
<1> HIDE DEF column
<1>2. \E u \in S : \A v \in S : column[u] <= column[v]
  BY <1>1, Smallest
<1>3. \E u \in S : \A v \in S : column[v] <= column[u]
  BY <1>1, Largest
<1>4. /\ \E u \in S : \A v \in S : u <= v
      /\ \E u \in S : \A v \in S : u >= v
  BY <1>1, <1>2, <1>3
<1> QED
  BY <1>4 DEF Min, Max

LEMMA MinOfTwo ==
  ASSUME NEW i \in Int, NEW j \in Int
  PROVE  /\ Min({i, j}) = IF i <= j THEN i ELSE j
<1>1. IsFiniteSet({i, j})
  <2>1. IsFiniteSet({i}) /\ IsFiniteSet({i} \cup {j})
    BY FS_Singleton, FS_AddElement
  <2>2. {i} \cup {j} = {i, j}
    OBVIOUS
  <2> QED
    BY <2>1, <2>2, Zenon
<1>2. Min({i, j}) \in {i, j} /\ \A v \in {i, j} : Min({i, j}) <= v
  BY <1>1, MinAndMax
<1> QED
  BY <1>2

-----------------------------------------------------------------------------
(* Ranges *)

Bound  == Int \cup {Null}
Ranges == Bound \X Bound

LEMMA BoundsAreRanges ==
  ASSUME NEW values \in SUBSET Bound, IsFiniteSet(values)
  PROVE  /\ Bounds(values) \in Ranges
         /\ \A v \in values \ {Null} : /\ Null \notin {Bounds(values)[1], Bounds(values)[2]}
                                       /\ Bounds(values)[1] <= v /\ v <= Bounds(values)[2]
<1> DEFINE S == values \ {Null}
<1>1. CASE S = {}
  BY <1>1 DEF Bounds, NoBounds, Ranges, Bound
<1>2. CASE S # {}
  <2>1. S \in SUBSET Int /\ IsFiniteSet(S)
    BY FS_Subset DEF Bound
  <2>2. /\ Min(S) \in S /\ \A v \in S : Min(S) <= v
        /\ Max(S) \in S /\ \A v \in S : v <= Max(S)
    BY <1>2, <2>1, MinAndMax
  <2>3. Bounds(values) = <<Min(S), Max(S)>>
    BY <1>2 DEF Bounds
  <2> HIDE DEF S
  <2>4. Bounds(values)[1] = Min(S) /\ Bounds(values)[2] = Max(S) /\ Null \notin S
    BY <2>3 DEF S
  <2>5. Bounds(values) \in Ranges
    <3>1. Min(S) \in Bound /\ Max(S) \in Bound
      BY <2>1, <2>2 DEF Bound
    <3> QED
      BY <2>3, <3>1 DEF Ranges
  <2> QED
    BY <2>2, <2>4, <2>5 DEF S
<1> QED
  BY <1>1, <1>2

LEMMA BoundsOfKeys ==
  ASSUME NEW column \in Column, NEW keys \in SUBSET Keys
  PROVE  /\ BoundsOf(column, keys) \in Ranges
         /\ \A k \in keys : column[k] # Null => InBounds(column, BoundsOf(column, keys), k)
<1> DEFINE values == {column[k] : k \in keys}
<1>1. values \in SUBSET Bound
  BY DEF Column, Bound
<1>2. IsFiniteSet(values)
  BY KeysAreCountable, FiniteImage
<1>3. \A k \in keys : column[k] \in values
  OBVIOUS
<1>4. BoundsOf(column, keys) = Bounds(values)
  BY DEF BoundsOf
<1> HIDE DEF values
<1>5. /\ Bounds(values) \in Ranges
      /\ \A v \in values \ {Null} : /\ Null \notin {Bounds(values)[1], Bounds(values)[2]}
                                    /\ Bounds(values)[1] <= v /\ v <= Bounds(values)[2]
  BY <1>1, <1>2, BoundsAreRanges
<1> QED
  BY <1>3, <1>4, <1>5 DEF InBounds

-----------------------------------------------------------------------------
(* The plan of the SQL sources *)

LEMMA RankedValue ==
  ASSUME NEW column \in Column, NEW keys \in SUBSET Keys, \A k \in keys : column[k] # Null,
         NEW i \in 1 .. Cardinality(keys)
  PROVE  /\ ValueAt(column, keys, i) \in Int
         /\ IsRanked(column, keys, ValueAt(column, keys, i), i)
<1>1. IsColumn(column, keys)
  BY KeysAreCountable DEF IsColumn, Column
<1>2. PICK k \in keys : IsRanked(column, keys, column[k], i)
  BY <1>1, RankedRow
<1>3. /\ ValueAt(column, keys, i) \in {column[j] : j \in keys}
      /\ IsRanked(column, keys, ValueAt(column, keys, i), i)
  BY <1>2 DEF ValueAt, IsRanked, Below, UpTo
<1> QED
  BY <1>1, <1>3 DEF IsColumn

LEMMA TileEndIsBoundary ==
  ASSUME NEW n \in Nat, NEW count \in Nat \ {0}, NEW j \in Nat
  PROVE  TileEnd(n, count, j) = TileBoundary(n, count, j)
<1>1. n % count \in Nat
  BY Divided
<1>2. Min({j, n % count}) = IF j <= n % count THEN j ELSE n % count
  BY <1>1, MinOfTwo
<1> QED
  BY <1>2 DEF TileEnd, TileBoundary

ColumnsOf(c) == c.chunkColumn \in Column /\ c.scopeColumn \in Column

LEMMA HasColumns ==
  ASSUME config \in Configurations
  PROVE  /\ ColumnsOf(config)
         /\ config.dynamic \in BOOLEAN /\ config.delete \in BOOLEAN
BY ConfigIsSound DEF ColumnsOf

\* The rows that have a value of the chunk column, and how many come before them.
Filled == {k \in RowsOf(source) : config.chunkColumn[k] # Null}

NullsFirst(nullsFirst) == IF nullsFirst THEN Cardinality(RowsOf(source) \ Filled) ELSE 0

LEMMA NTileRanks ==
  ASSUME config \in Configurations, NEW nullsFirst \in BOOLEAN
  PROVE  /\ Filled \in SUBSET Keys /\ NullsFirst(nullsFirst) \in Nat
         /\ NullsFirst(nullsFirst) + Cardinality(Filled) <= Cardinality(RowsOf(source))
         /\ \A i : NTileValue(i, nullsFirst) =
              IF i - NullsFirst(nullsFirst) \in 1 .. Cardinality(Filled)
              THEN ValueAt(config.chunkColumn, Filled, i - NullsFirst(nullsFirst)) ELSE Null
<1>1. Filled \in SUBSET RowsOf(source) /\ RowsOf(source) \in SUBSET Keys
  BY RowsAreKeys DEF Filled
<1>2. /\ Cardinality(Filled) \in Nat /\ Cardinality(RowsOf(source)) \in Nat
      /\ IsFiniteSet(RowsOf(source)) /\ RowsOf(source) \cap Filled = Filled
  BY <1>1, KeysAreCountable
<1>3. Cardinality(RowsOf(source) \ Filled) = Cardinality(RowsOf(source)) - Cardinality(Filled)
  BY <1>2, FS_Difference
<1>4. Cardinality(Filled) <= Cardinality(RowsOf(source))
  BY <1>1, <1>2, FS_Subset
<1>5. NullsFirst(nullsFirst) \in Nat
      /\ NullsFirst(nullsFirst) + Cardinality(Filled) <= Cardinality(RowsOf(source))
  BY <1>2, <1>3, <1>4 DEF NullsFirst
<1>6. \A i : NTileValue(i, nullsFirst) =
        IF i - NullsFirst(nullsFirst) \in 1 .. Cardinality(Filled)
        THEN ValueAt(config.chunkColumn, Filled, i - NullsFirst(nullsFirst)) ELSE Null
  BY DEF NTileValue, NullsFirst, Filled
<1> QED
  BY <1>1, <1>5, <1>6

LEMMA NTileValuesAreBounds ==
  ASSUME config \in Configurations, NEW nullsFirst \in BOOLEAN, NEW i \in Int
  PROVE  NTileValue(i, nullsFirst) \in Bound
<1>1. /\ config.chunkColumn \in Column
      /\ \A k \in Filled : config.chunkColumn[k] # Null
  BY HasColumns DEF ColumnsOf, Filled
<1>2. ASSUME i - NullsFirst(nullsFirst) \in 1 .. Cardinality(Filled)
      PROVE  ValueAt(config.chunkColumn, Filled, i - NullsFirst(nullsFirst)) \in Int
  BY <1>1, <1>2, NTileRanks, RankedValue
<1> QED
  BY <1>2, NTileRanks DEF Bound

\* The rows of tile j, and the values of the chunk column that they have.
Tile(j) == TileEnd(Cardinality(RowsOf(source)), ChunkCount, j - 1) + 1
             .. TileEnd(Cardinality(RowsOf(source)), ChunkCount, j)

TileValues(j, nullsFirst) == {NTileValue(i, nullsFirst) : i \in Tile(j)}

LEMMA ChunkCountType ==
  ASSUME total \in Nat
  PROVE  ChunkCount \in Nat /\ (total # 0 => ChunkCount \in 1 .. total)
<1>1. TaskChunkSize \in Nat \ {0} /\ total + TaskChunkSize - 1 \in Nat
  BY ConfigIsSound
<1>2. ChunkCount \in Nat
  BY <1>1, Divided DEF ChunkCount
<1>3. ASSUME total # 0 PROVE ChunkCount \in 1 .. total
  BY <1>1, <1>3, TileCount DEF ChunkCount
<1> QED
  BY <1>2, <1>3

LEMMA NTilePlanTiles ==
  ASSUME total \in Nat, NEW nullsFirst \in BOOLEAN
  PROVE  /\ DOMAIN NTilePlan(nullsFirst) =
              {j \in 1 .. ChunkCount : j <= Cardinality(RowsOf(source))}
         /\ \A j \in DOMAIN NTilePlan(nullsFirst) :
              NTilePlan(nullsFirst)[j] = Bounds(TileValues(j, nullsFirst))
<1>1. ChunkCount \in Nat /\ Cardinality(RowsOf(source)) \in Nat
  BY ChunkCountType, RowsAreKeys, KeysAreCountable
<1>2. 1 .. Min({ChunkCount, Cardinality(RowsOf(source))}) =
        {j \in 1 .. ChunkCount : j <= Cardinality(RowsOf(source))}
  BY <1>1, MinOfTwo
<1>3. NTilePlan(nullsFirst) = [j \in 1 .. Min({ChunkCount, Cardinality(RowsOf(source))}) |->
                                Bounds(TileValues(j, nullsFirst))]
  BY DEF NTilePlan, TileValues, Tile
<1> QED
  BY <1>2, <1>3

LEMMA TileHasBounds ==
  ASSUME config \in Configurations, total \in Nat, NEW nullsFirst \in BOOLEAN,
         NEW j \in DOMAIN NTilePlan(nullsFirst)
  PROVE  TileValues(j, nullsFirst) \in SUBSET Bound /\ IsFiniteSet(TileValues(j, nullsFirst))
<1>1. /\ j \in 1 .. ChunkCount /\ ChunkCount \in Nat /\ j - 1 \in Nat
      /\ Cardinality(RowsOf(source)) \in Nat
  <2>1. ChunkCount \in Nat /\ Cardinality(RowsOf(source)) \in Nat
    BY ChunkCountType, RowsAreKeys, KeysAreCountable
  <2>2. DOMAIN NTilePlan(nullsFirst) =
          {h \in 1 .. ChunkCount : h <= Cardinality(RowsOf(source))}
    BY NTilePlanTiles
  <2>3. j \in 1 .. ChunkCount
    BY <2>2
  <2> QED
    BY <2>1, <2>3
<1>2. ChunkCount \in Nat \ {0} /\ j \in 0 .. ChunkCount /\ j - 1 \in 0 .. ChunkCount
  BY <1>1
<1>3. /\ TileEnd(Cardinality(RowsOf(source)), ChunkCount, j) \in Int
      /\ TileEnd(Cardinality(RowsOf(source)), ChunkCount, j - 1) \in Int
  BY <1>1, <1>2, TileEndIsBoundary, TileBoundaries
<1>4. Tile(j) \in SUBSET Int /\ IsFiniteSet(Tile(j))
  BY <1>3, FS_Interval DEF Tile
<1> DEFINE f == [i \in Tile(j) |-> NTileValue(i, nullsFirst)]
<1>5. TileValues(j, nullsFirst) = {f[i] : i \in Tile(j)}
  BY DEF TileValues
<1> HIDE DEF f
<1>6. IsFiniteSet(TileValues(j, nullsFirst))
  BY <1>4, <1>5, FiniteImage
<1>7. TileValues(j, nullsFirst) \in SUBSET Bound
  BY <1>4, NTileValuesAreBounds DEF TileValues
<1> QED
  BY <1>6, <1>7

LEMMA NTilePlanRanges ==
  ASSUME config \in Configurations, total \in Nat, NEW nullsFirst \in BOOLEAN,
         NEW j \in DOMAIN NTilePlan(nullsFirst)
  PROVE  NTilePlan(nullsFirst)[j] \in Ranges
BY NTilePlanTiles, TileHasBounds, BoundsAreRanges

\* Each row with a value of the chunk column is in the range of some chunk, as long
\* as there are as many rows as were counted.
LEMMA NTilePlanCovers ==
  ASSUME config \in Configurations, total = Cardinality(RowsOf(source)),
         NEW nullsFirst \in BOOLEAN,
         NEW k \in RowsOf(source), config.chunkColumn[k] # Null
  PROVE  \E j \in DOMAIN NTilePlan(nullsFirst) :
           j \in Chunks /\ InBounds(config.chunkColumn, NTilePlan(nullsFirst)[j], k)
<1> DEFINE column == config.chunkColumn
           v      == column[k]
           before == NullsFirst(nullsFirst)
<1>1. /\ column \in Column /\ \A h \in Filled : column[h] # Null
      /\ k \in Filled /\ k \in Keys /\ v \in Int /\ v # Null
  BY HasColumns, RowsAreKeys DEF ColumnsOf, Filled, Column
<1>2. /\ Filled \in SUBSET Keys /\ before \in Nat
      /\ before + Cardinality(Filled) <= total
      /\ total \in Nat /\ Cardinality(Filled) \in Nat
  BY NTileRanks, RowsAreKeys, KeysAreCountable
<1>3. IsColumn(column, Filled)
  BY <1>1, <1>2, KeysAreCountable DEF IsColumn, Column
<1> HIDE DEF column
<1>4. PICK r \in 1 .. Cardinality(Filled) : IsRanked(column, Filled, v, r)
  BY <1>1, <1>3, RowHasRank
<1>5. /\ ValueAt(column, Filled, r) \in Int
      /\ IsRanked(column, Filled, ValueAt(column, Filled, r), r)
  BY <1>1, <1>2, RankedValue
<1>6. ValueAt(column, Filled, r) = v
  <2>1. r \in Nat /\ r <= r
    OBVIOUS
  <2>2. v <= ValueAt(column, Filled, r) /\ ValueAt(column, Filled, r) <= v
    BY <1>1, <1>3, <1>4, <1>5, <2>1, RanksInOrder
  <2> QED
    BY <1>1, <1>5, <2>2
<1> HIDE DEF v, before
<1> DEFINE i == r + before
<1>7. i \in 1 .. total /\ i - before = r
  BY <1>2
<1>8. NTileValue(i, nullsFirst) = v
  <2>1. \A h : NTileValue(h, nullsFirst) =
          IF h - before \in 1 .. Cardinality(Filled)
          THEN ValueAt(column, Filled, h - before) ELSE Null
    BY NTileRanks DEF column, before
  <2> QED
    BY <1>6, <1>7, <2>1
<1> HIDE DEF i
<1>9. total \in Nat \ {0} /\ ChunkCount \in 1 .. total
  <2>1. total \in Nat /\ total # 0
    BY <1>2, <1>7
  <2> QED
    BY <2>1, ChunkCountType
<1>10. PICK j \in 1 .. ChunkCount :
         i \in TileBoundary(total, ChunkCount, j - 1) + 1 .. TileBoundary(total, ChunkCount, j)
  <2>1. total \in Nat /\ ChunkCount \in Nat \ {0}
    BY <1>9
  <2> QED
    BY <1>7, <2>1, InSomeTile
<1>11. i \in Tile(j)
  <2>1. j \in Nat /\ j - 1 \in Nat /\ ChunkCount \in Nat \ {0}
    BY <1>9, <1>10
  <2> QED
    BY <1>2, <1>10, <2>1, TileEndIsBoundary DEF Tile
<1>12. v \in TileValues(j, nullsFirst) \ {Null}
  BY <1>1, <1>8, <1>11 DEF TileValues
<1>13. j \in DOMAIN NTilePlan(nullsFirst)
       /\ NTilePlan(nullsFirst)[j] = Bounds(TileValues(j, nullsFirst))
  <2>1. /\ DOMAIN NTilePlan(nullsFirst) =
              {h \in 1 .. ChunkCount : h <= Cardinality(RowsOf(source))}
        /\ \A h \in DOMAIN NTilePlan(nullsFirst) :
              NTilePlan(nullsFirst)[h] = Bounds(TileValues(h, nullsFirst))
    BY <1>2, NTilePlanTiles
  <2>2. j \in 1 .. ChunkCount /\ j <= Cardinality(RowsOf(source))
    BY <1>9, <1>10
  <2>3. j \in DOMAIN NTilePlan(nullsFirst)
    BY <2>1, <2>2
  <2> QED
    BY <2>1, <2>3
<1>14. InBounds(column, NTilePlan(nullsFirst)[j], k)
  <2>1. TileValues(j, nullsFirst) \in SUBSET Bound /\ IsFiniteSet(TileValues(j, nullsFirst))
    BY <1>2, <1>13, TileHasBounds
  <2> QED
    BY <1>12, <1>13, <2>1, BoundsAreRanges DEF InBounds, v
<1>15. j \in Chunks
  <2>1. total <= Cardinality(Keys) /\ Cardinality(Keys) \in Nat
    BY RowsAreKeys, KeysAreCountable
  <2> QED
    BY <1>9, <1>10, <2>1 DEF Chunks
<1> QED
  BY <1>13, <1>14, <1>15 DEF column

-----------------------------------------------------------------------------
(* The plan of MongoDB *)

\* Some bounds can be numbered in the order of their values.
LEMMA Numbering ==
  ASSUME NEW values \in SUBSET Bound, IsFiniteSet(values)
  PROVE  \E code : /\ IsColumn(code, values)
                   /\ \A v, w \in values : Precedes(v, w) <=> code[v] < code[w]
                   /\ \A v, w \in values : code[v] = code[w] => v = w
<1> DEFINE numbers == values \ {Null}
<1>1. numbers \in SUBSET Int /\ IsFiniteSet(numbers)
  BY FS_Subset DEF Bound
<1>2. PICK low \in Int : \A v \in numbers : low < v
  <2>1. CASE numbers = {}
    BY <2>1
  <2>2. CASE numbers # {}
    <3>1. Min(numbers) \in Int /\ \A v \in numbers : Min(numbers) <= v
      BY <1>1, <2>2, MinAndMax
    <3>2. Min(numbers) - 1 \in Int /\ \A v \in numbers : Min(numbers) - 1 < v
      BY <1>1, <3>1
    <3> QED
      BY <3>2
  <2> QED
    BY <2>1, <2>2
<1> DEFINE code == [v \in values |-> IF v = Null THEN low ELSE v]
<1>3. IsColumn(code, values)
  BY <1>1, <1>2 DEF IsColumn
<1>4. ASSUME NEW v \in values, NEW w \in values
      PROVE  /\ Precedes(v, w) <=> code[v] < code[w]
             /\ code[v] = code[w] => v = w
  <2>1. /\ code[v] = IF v = Null THEN low ELSE v
        /\ code[w] = IF w = Null THEN low ELSE w
        /\ v # Null => v \in Int /\ low < v
        /\ w # Null => w \in Int /\ low < w
    BY <1>1, <1>2
  <2> HIDE DEF code
  <2>2. CASE v = Null
    BY <2>1, <2>2 DEF Precedes
  <2>3. CASE v # Null
    BY <2>1, <2>3 DEF Precedes
  <2> QED
    BY <2>2, <2>3
<1> HIDE DEF code
<1> QED
  BY <1>3, <1>4

\* The n-th value exists and has n - 1 values before it.
LEMMA NthIsRanked ==
  ASSUME NEW values \in SUBSET Bound, IsFiniteSet(values),
         NEW code, IsColumn(code, values),
         \A v, w \in values : Precedes(v, w) <=> code[v] < code[w],
         \A v, w \in values : code[v] = code[w] => v = w,
         NEW n \in 1 .. Cardinality(values)
  PROVE  /\ NthValue(n, values) \in values
         /\ IsRanked(code, values, code[NthValue(n, values)], n)
<1>1. ASSUME NEW v \in values
      PROVE  /\ Before(v, values) = Below(code, values, code[v])
             /\ Cardinality(Before(v, values)) \in Nat
             /\ Cardinality(UpTo(code, values, code[v])) = Cardinality(Before(v, values)) + 1
  <2>1. Before(v, values) = Below(code, values, code[v])
    BY DEF Before, Below
  <2>2. \A w \in values : code[w] \in Int
    BY DEF IsColumn
  <2>3. UpTo(code, values, code[v]) = Below(code, values, code[v]) \cup {v}
        /\ v \notin Below(code, values, code[v])
    BY <2>2 DEF UpTo, Below
  <2>4. IsFiniteSet(Below(code, values, code[v]))
        /\ Cardinality(Below(code, values, code[v])) \in Nat
    BY Counts
  <2>5. Cardinality(Below(code, values, code[v]) \cup {v}) =
          Cardinality(Below(code, values, code[v])) + 1
    BY <2>3, <2>4, FS_AddElement
  <2> QED
    BY <2>1, <2>3, <2>4, <2>5
<1>2. PICK v \in values : IsRanked(code, values, code[v], n)
  BY RankedRow
<1>3. Cardinality(Before(v, values)) = n - 1
  <2>1. /\ Cardinality(Before(v, values)) < n
        /\ n <= Cardinality(Before(v, values)) + 1
    BY <1>1, <1>2 DEF IsRanked
  <2> QED
    BY <1>1, <2>1
<1>4. /\ NthValue(n, values) \in values
      /\ Cardinality(Before(NthValue(n, values), values)) = n - 1
  BY <1>3 DEF NthValue
<1> QED
  BY <1>1, <1>4 DEF IsRanked

\* The n-th value is the only one of its rank.
LEMMA NthIsUnique ==
  ASSUME NEW values \in SUBSET Bound, IsFiniteSet(values),
         NEW code, IsColumn(code, values),
         \A v, w \in values : Precedes(v, w) <=> code[v] < code[w],
         \A v, w \in values : code[v] = code[w] => v = w,
         NEW n \in 1 .. Cardinality(values), NEW v \in values,
         IsRanked(code, values, code[v], n)
  PROVE  NthValue(n, values) = v
<1>1. /\ NthValue(n, values) \in values
      /\ IsRanked(code, values, code[NthValue(n, values)], n)
  BY NthIsRanked
<1>2. code[v] \in Int /\ code[NthValue(n, values)] \in Int /\ n \in Nat /\ n <= n
  BY <1>1 DEF IsColumn
<1>3. code[v] <= code[NthValue(n, values)] /\ code[NthValue(n, values)] <= code[v]
  BY <1>1, <1>2, RanksInOrder
<1> QED
  BY <1>1, <1>2, <1>3

BucketValues == {config.chunkColumn[k] : k \in RowsOf(source)}

LEMMA BucketValuesType ==
  ASSUME config \in Configurations
  PROVE  /\ BucketValues \in SUBSET Bound /\ IsFiniteSet(BucketValues)
         /\ Cardinality(BucketValues) \in Nat
<1>1. BucketValues \in SUBSET Bound
  BY HasColumns, RowsAreKeys DEF BucketValues, ColumnsOf, Column, Bound
<1>2. IsFiniteSet(BucketValues)
  BY RowsAreKeys, KeysAreCountable, FiniteImage DEF BucketValues
<1> QED
  BY <1>1, <1>2, FS_CardinalityType

LEMMA BucketPlanTiles ==
  ASSUME config \in Configurations, NEW plan \in BucketPlans
  PROVE  \E begins \in SUBSET BucketValues :
           /\ plan = Buckets(BucketValues, begins)
           /\ Cardinality(begins) <= ChunkCount
           /\ BucketValues # {} => NthValue(1, BucketValues) \in begins
           /\ IsFiniteSet(begins) /\ Cardinality(begins) \in Nat
           /\ Cardinality(begins) <= Cardinality(BucketValues)
<1>1. PICK begins \in SUBSET BucketValues :
           /\ plan = Buckets(BucketValues, begins)
           /\ Cardinality(begins) <= ChunkCount
           /\ BucketValues # {} => NthValue(1, BucketValues) \in begins
  BY DEF BucketPlans, BucketValues
<1>2. /\ IsFiniteSet(begins) /\ Cardinality(begins) <= Cardinality(BucketValues)
      /\ Cardinality(begins) \in Nat
  BY BucketValuesType, FS_Subset, FS_CardinalityType
<1> QED
  BY <1>1, <1>2

LEMMA NthType ==
  ASSUME NEW values \in SUBSET Bound, IsFiniteSet(values), NEW n \in 1 .. Cardinality(values)
  PROVE  NthValue(n, values) \in values
<1>1. PICK code : /\ IsColumn(code, values)
                  /\ \A v, w \in values : Precedes(v, w) <=> code[v] < code[w]
                  /\ \A v, w \in values : code[v] = code[w] => v = w
  BY Numbering
<1> QED
  BY <1>1, NthIsRanked

LEMMA BucketPlanRanges ==
  ASSUME config \in Configurations, NEW plan \in BucketPlans, NEW j \in DOMAIN plan
  PROVE  plan[j] \in Ranges
<1>1. PICK begins \in SUBSET BucketValues :
           /\ plan = Buckets(BucketValues, begins)
           /\ IsFiniteSet(begins) /\ Cardinality(begins) \in Nat
           /\ Cardinality(begins) <= Cardinality(BucketValues)
  BY BucketPlanTiles
<1>2. /\ BucketValues \in SUBSET Bound /\ IsFiniteSet(BucketValues)
      /\ Cardinality(BucketValues) \in Nat
  BY BucketValuesType
<1> DEFINE count == Cardinality(begins)
           end   == IF j < count THEN NthValue(j + 1, begins)
                    ELSE NthValue(Cardinality(BucketValues), BucketValues)
<1>3. j \in 1 .. count /\ plan[j] = <<NthValue(j, begins), end>>
  BY <1>1 DEF Buckets
<1>4. NthValue(j, begins) \in Bound
  BY <1>1, <1>2, <1>3, NthType
<1>5. end \in Bound
  <2>1. CASE j < count
    <3>1. j + 1 \in 1 .. count
      BY <1>1, <1>3, <2>1
    <3> QED
      BY <1>1, <1>2, <2>1, <3>1, NthType
  <2>2. CASE ~(j < count)
    <3>1. Cardinality(BucketValues) \in 1 .. Cardinality(BucketValues)
      BY <1>1, <1>2, <1>3
    <3> QED
      BY <1>2, <2>2, <3>1, NthType
  <2> QED
    BY <2>1, <2>2
<1> HIDE DEF end, count
<1> QED
  BY <1>3, <1>4, <1>5 DEF Ranges

\* Each document is in the range of some bucket, or the range of its bucket is open.
LEMMA BucketPlanCovers ==
  ASSUME config \in Configurations, NEW plan \in BucketPlans, NEW k \in RowsOf(source)
  PROVE  \E j \in DOMAIN plan :
           /\ j \in Chunks
           /\ InBounds(config.chunkColumn, plan[j], k) \/ Null \in {plan[j][1], plan[j][2]}
<1> DEFINE values == BucketValues
           v      == config.chunkColumn[k]
<1>1. PICK begins \in SUBSET values :
           /\ plan = Buckets(values, begins)
           /\ Cardinality(begins) <= ChunkCount
           /\ values # {} => NthValue(1, values) \in begins
           /\ IsFiniteSet(begins) /\ Cardinality(begins) \in Nat
           /\ Cardinality(begins) <= Cardinality(values)
  BY BucketPlanTiles
<1>2. /\ values \in SUBSET Bound /\ IsFiniteSet(values) /\ Cardinality(values) \in Nat
      /\ v \in values
  BY BucketValuesType DEF BucketValues
<1>3. Cardinality(values) <= Cardinality(Keys) /\ Cardinality(Keys) \in Nat
  <2> DEFINE f == [h \in RowsOf(source) |-> config.chunkColumn[h]]
  <2>1. f \in Surjection(RowsOf(source), values)
    BY DEF Surjection, BucketValues
  <2>2. /\ IsFiniteSet(RowsOf(source)) /\ Cardinality(RowsOf(source)) <= Cardinality(Keys)
        /\ Cardinality(RowsOf(source)) \in Nat /\ Cardinality(Keys) \in Nat
    BY RowsAreKeys, KeysAreCountable
  <2> HIDE DEF f
  <2>3. Cardinality(values) <= Cardinality(RowsOf(source))
    BY <2>1, <2>2, FS_Surjection
  <2> QED
    BY <1>2, <2>2, <2>3
<1> HIDE DEF values, v
<1>4. PICK code : /\ IsColumn(code, values)
                  /\ \A u, w \in values : Precedes(u, w) <=> code[u] < code[w]
                  /\ \A u, w \in values : code[u] = code[w] => u = w
  BY <1>2, Numbering
<1>5. IsColumn(code, begins) /\ \A w \in values : code[w] \in Int
  BY <1>1, <1>4 DEF IsColumn
<1>6. /\ NthValue(1, values) \in begins
      /\ \A w \in values : code[NthValue(1, values)] <= code[w]
  <2>1. values # {} /\ 1 \in 1 .. Cardinality(values)
    BY <1>2, FS_EmptySet
  <2>2. PICK w \in values : \A u \in values : code[w] <= code[u]
    BY <1>4, <2>1, Smallest
  <2>3. IsRanked(code, values, code[w], 1)
    <3>1. Below(code, values, code[w]) = {} /\ w \in UpTo(code, values, code[w])
      BY <1>5, <2>2 DEF Below, UpTo
    <3>2. /\ IsFiniteSet(UpTo(code, values, code[w]))
          /\ Cardinality(UpTo(code, values, code[w])) \in Nat
      BY <1>4, Counts
    <3> QED
      BY <3>1, <3>2, FS_EmptySet DEF IsRanked
  <2>4. NthValue(1, values) = w
    BY <1>2, <1>4, <2>1, <2>3, NthIsUnique
  <2> QED
    BY <1>1, <2>1, <2>2, <2>4
\* The bucket that k is in begins with b, the last one that does not begin after v.
<1> DEFINE upTo == {w \in begins : code[w] <= code[v]}
<1>7. PICK b \in upTo : \A w \in upTo : code[w] <= code[b]
  <2>1. NthValue(1, values) \in upTo
    BY <1>2, <1>6
  <2>2. IsColumn(code, upTo)
    BY <1>1, <1>5, FS_Subset DEF IsColumn
  <2> HIDE DEF upTo
  <2> QED
    BY <2>1, <2>2, Largest
<1>8. b \in begins /\ b \in values /\ code[b] <= code[v]
  BY <1>1, <1>7
<1>9. PICK j \in 1 .. Cardinality(begins) : IsRanked(code, begins, code[b], j)
  BY <1>5, <1>8, RowHasRank
<1>10. begins \in SUBSET Bound /\ begins \in SUBSET values
  BY <1>1, <1>2
<1>11. /\ \A u, w \in begins : Precedes(u, w) <=> code[u] < code[w]
       /\ \A u, w \in begins : code[u] = code[w] => u = w
  BY <1>4, <1>10
<1>12. NthValue(j, begins) = b
  BY <1>1, <1>5, <1>8, <1>9, <1>10, <1>11, NthIsUnique
<1> DEFINE count == Cardinality(begins)
           end   == IF j < count THEN NthValue(j + 1, begins)
                    ELSE NthValue(Cardinality(values), values)
<1>13. j \in DOMAIN plan /\ plan[j] = <<b, end>>
  BY <1>1, <1>9, <1>12 DEF Buckets
<1>14. end \in values /\ code[v] <= code[end]
  <2>1. CASE j < count
    <3> DEFINE e == NthValue(j + 1, begins)
    <3>1. j + 1 \in 1 .. count /\ j \in Nat /\ j + 1 \in Nat /\ j <= j + 1
      BY <1>1, <1>9, <2>1
    <3>2. e \in begins /\ IsRanked(code, begins, code[e], j + 1)
      BY <1>1, <1>5, <1>10, <1>11, <3>1, NthIsRanked
    <3> HIDE DEF e
    <3>3. code[b] <= code[e]
      BY <1>5, <1>8, <1>9, <1>10, <3>1, <3>2, RanksInOrder
    <3>4. e \in values /\ code[b] \in Int /\ code[e] \in Int /\ code[v] \in Int
      BY <1>2, <1>5, <1>8, <1>10, <3>2
    <3>5. ASSUME code[e] <= code[v] PROVE FALSE
      <4>1. code[e] <= code[b]
        BY <1>7, <3>2, <3>5
      <4>2. e = b
        BY <1>8, <1>11, <3>2, <3>3, <3>4, <4>1
      <4>3. IsRanked(code, begins, code[b], j + 1) /\ IsRanked(code, begins, code[b], j)
        BY <1>9, <3>2, <4>2
      <4>4. UpTo(code, begins, code[b]) = Below(code, begins, code[b]) \cup {b}
        BY <1>5, <1>8, <1>10, <1>11 DEF UpTo, Below
      <4>5. /\ IsFiniteSet(Below(code, begins, code[b]))
            /\ Cardinality(Below(code, begins, code[b])) \in Nat
        BY <1>5, Counts
      <4>6. Cardinality(UpTo(code, begins, code[b])) <=
              Cardinality(Below(code, begins, code[b])) + 1
        <5>1. Cardinality(Below(code, begins, code[b]) \cup {b}) =
                IF b \in Below(code, begins, code[b])
                THEN Cardinality(Below(code, begins, code[b]))
                ELSE Cardinality(Below(code, begins, code[b])) + 1
          BY <4>5, FS_AddElement
        <5> QED
          BY <4>4, <4>5, <5>1
      <4> QED
        BY <3>1, <4>3, <4>5, <4>6, <1>5, Counts DEF IsRanked
    <3>6. end = e
      BY <2>1 DEF e
    <3> QED
      BY <3>4, <3>5, <3>6
  <2>2. CASE ~(j < count)
    <3> DEFINE c == Cardinality(values)
               e == NthValue(c, values)
    <3>1. c \in 1 .. c /\ c \in Nat
      BY <1>2, FS_EmptySet
    <3>2. e \in values /\ IsRanked(code, values, code[e], c)
      BY <1>2, <1>4, <3>1, NthIsRanked
    <3>3. PICK i \in 1 .. c : IsRanked(code, values, code[v], i)
      BY <1>2, <1>4, RowHasRank
    <3> HIDE DEF e
    <3>4. code[v] <= code[e]
      <4>1. i \in Nat /\ i <= c /\ code[v] \in Int /\ code[e] \in Int
        BY <1>2, <1>5, <3>1, <3>2, <3>3
      <4>2. IsRanked(code, values, code[v], i)
        BY <3>3
      <4> QED
        BY <1>4, <3>1, <3>2, <4>1, <4>2, RanksInOrder
    <3>5. end = e
      BY <2>2 DEF e
    <3> QED
      BY <3>2, <3>4, <3>5
  <2> QED
    BY <2>1, <2>2
<1> HIDE DEF end, count, upTo
<1>15. j \in Chunks
  BY <1>1, <1>2, <1>3, <1>9 DEF Chunks
<1>16. CASE Null \in {b, end}
  BY <1>13, <1>15, <1>16
<1>17. CASE Null \notin {b, end}
  <2>1. b \in Int /\ end \in Int /\ v \in Bound
    BY <1>2, <1>8, <1>14, <1>17 DEF Bound
  <2>2. ~Precedes(v, b) /\ ~Precedes(end, v)
    <3>1. code[v] \in Int /\ code[b] \in Int /\ code[end] \in Int
      BY <1>2, <1>5, <1>8, <1>14
    <3> QED
      BY <1>2, <1>4, <1>8, <1>14, <3>1
  <2>3. v # Null /\ b <= v /\ v <= end
    BY <1>17, <2>1, <2>2 DEF Precedes, Bound
  <2> QED
    BY <1>13, <1>15, <1>17, <2>3 DEF InBounds, v
<1> QED
  BY <1>16, <1>17

-----------------------------------------------------------------------------
(* The sum of the tasks' counts *)

Picked(s) == CHOOSE x \in s : TRUE

\* g adds up what c counts, over any part of S.
IsSum(g, S, c) ==
  g = [s \in SUBSET S |-> IF s = {} THEN 0 ELSE c[Picked(s)] + g[s \ {Picked(s)}]]

LEMMA PartOf ==
  ASSUME NEW S, IsFiniteSet(S), NEW s \in SUBSET S, s # {}
  PROVE  /\ Picked(s) \in s /\ s \ {Picked(s)} \in SUBSET S
         /\ Cardinality(s) \in Nat /\ Cardinality(s \ {Picked(s)}) = Cardinality(s) - 1
<1>1. Picked(s) \in s
  BY DEF Picked
<1>2. IsFiniteSet(s) /\ Cardinality(s) \in Nat
  BY FS_Subset, FS_CardinalityType
<1> QED
  BY <1>1, <1>2, FS_RemoveElement

\* There is such a sum: one for the parts with at most i members, for every i.
LEMMA SumExists ==
  ASSUME NEW S, IsFiniteSet(S), NEW c
  PROVE  \E g : IsSum(g, S, c)
<1> DEFINE next(g, s) == IF s = {} THEN 0 ELSE c[Picked(s)] + g[s \ {Picked(s)}]
           Good(i)    == \E g : \A s \in SUBSET S : Cardinality(s) <= i => g[s] = next(g, s)
           Bad        == {i \in Nat : ~Good(i)}
<1>1. \A s \in SUBSET S : IsFiniteSet(s) /\ Cardinality(s) \in Nat
  BY FS_Subset, FS_CardinalityType
<1>2. Good(0)
  <2> DEFINE g == [s \in SUBSET S |-> 0]
  <2>1. \A s \in SUBSET S : Cardinality(s) <= 0 => s = {}
    BY <1>1, FS_EmptySet
  <2>2. \A s \in SUBSET S : Cardinality(s) <= 0 => g[s] = next(g, s)
    BY <2>1
  <2> HIDE DEF g, next
  <2> QED
    BY <2>2
<1>3. ASSUME NEW i \in Nat, Good(i) PROVE Good(i + 1)
  <2>1. PICK g : \A s \in SUBSET S : Cardinality(s) <= i => g[s] = next(g, s)
    BY <1>3
  <2> DEFINE h == [s \in SUBSET S |-> next(g, s)]
  <2>2. ASSUME NEW s \in SUBSET S, Cardinality(s) <= i + 1 PROVE h[s] = next(h, s)
    <3>1. CASE s = {}
      BY <3>1
    <3>2. CASE s # {}
      <4>1. /\ s \ {Picked(s)} \in SUBSET S
            /\ Cardinality(s) \in Nat /\ Cardinality(s \ {Picked(s)}) = Cardinality(s) - 1
        BY <3>2, PartOf
      <4>2. Cardinality(s \ {Picked(s)}) <= i
        BY <2>2, <4>1
      <4>3. g[s \ {Picked(s)}] = h[s \ {Picked(s)}]
        BY <2>1, <4>1, <4>2
      <4> QED
        BY <3>2, <4>3
    <3> QED
      BY <3>1, <3>2
  <2> HIDE DEF h, next
  <2> QED
    BY <2>2
<1>4. Bad = {}
  <2> SUFFICES ASSUME Bad # {} PROVE FALSE
    OBVIOUS
  <2> HIDE DEF Good
  <2>1. PICK i \in Bad : \A j \in Bad : i <= j
    BY LeastNumber
  <2>2. i - 1 \in Nat /\ i - 1 \notin Bad
    BY <1>2, <2>1
  <2>3. Good(i - 1) /\ ~Good(i)
    BY <2>1, <2>2
  <2> QED
    BY <1>3, <2>1, <2>2, <2>3
<1>5. Good(Cardinality(S))
  <2> HIDE DEF Good
  <2> QED
    BY <1>1, <1>4
<1>6. PICK f : \A s \in SUBSET S : f[s] = next(f, s)
  BY <1>1, <1>5, FS_Subset
<1> DEFINE g == [s \in SUBSET S |-> f[s]]
<1>7. \A s \in SUBSET S : next(g, s) = next(f, s)
  BY PartOf
<1>8. IsSum(g, S, c)
  BY <1>6, <1>7 DEF IsSum
<1> QED
  BY <1>8

\* ReportRun reports such a sum.
LEMMA ReportedSum ==
  \E g : IsSum(g, Chunks, counted) /\ Transferred = g[Chunks]
<1>1. IsFiniteSet(Chunks)
  BY KeysAreCountable, FS_Interval DEF Chunks
<1> DEFINE g == CHOOSE g : IsSum(g, Chunks, counted)
<1>2. IsSum(g, Chunks, counted)
  BY <1>1, SumExists
<1>3. Transferred = g[Chunks]
  BY DEF Transferred, MapThenSumSet, MapThenFoldSet, IsSum, Picked
<1> QED
  BY <1>2, <1>3

\* A number of some kind for each part: if it holds of nothing, and of a part if it
\* holds of that part without one of its members, it holds of everything.
LEMMA PartByPart ==
  ASSUME NEW S, IsFiniteSet(S), NEW Parts \in SUBSET SUBSET S, {} \in Parts,
         \A s \in (SUBSET S) \ {{}} : s \ {Picked(s)} \in Parts => s \in Parts
  PROVE  S \in Parts
<1> SUFFICES ASSUME S \notin Parts PROVE FALSE
  OBVIOUS
<1> DEFINE Bad     == (SUBSET S) \ Parts
           Numbers == {Cardinality(s) : s \in Bad}
<1>1. \A s \in SUBSET S : Cardinality(s) \in Nat
  BY FS_Subset, FS_CardinalityType
<1>2. Numbers \in SUBSET Nat /\ Numbers # {}
  BY <1>1
<1> HIDE DEF Numbers
<1>3. PICK i \in Numbers : \A j \in Numbers : i <= j
  BY <1>2, LeastNumber
<1>4. PICK s \in Bad : i = Cardinality(s)
  BY <1>3 DEF Numbers
<1>5. s # {} /\ s \in SUBSET S
  BY <1>4
<1>6. s \ {Picked(s)} \in Bad
  BY <1>5, <1>4, PartOf
<1>7. Cardinality(s \ {Picked(s)}) = Cardinality(s) - 1
  BY <1>5, PartOf
<1>8. Cardinality(s) <= Cardinality(s \ {Picked(s)})
  BY <1>3, <1>4, <1>6 DEF Numbers
<1> QED
  BY <1>1, <1>5, <1>7, <1>8

LEMMA SumType ==
  ASSUME NEW S, IsFiniteSet(S), NEW c \in [S -> Nat], NEW g, IsSum(g, S, c)
  PROVE  g[S] \in Nat
<1> DEFINE Parts == {s \in SUBSET S : g[s] \in Nat}
<1>1. {} \in Parts
  BY DEF IsSum
<1>2. ASSUME NEW s \in (SUBSET S) \ {{}}, s \ {Picked(s)} \in Parts PROVE s \in Parts
  <2>1. g[s] = c[Picked(s)] + g[s \ {Picked(s)}]
    BY DEF IsSum
  <2> QED
    BY <1>2, <2>1, PartOf
<1>3. S \in Parts
  <2> HIDE DEF Parts
  <2>1. Parts \in SUBSET SUBSET S
    BY DEF Parts
  <2> QED
    BY <1>1, <1>2, <2>1, PartByPart
<1> QED
  BY <1>3

LEMMA TransferredType == ASSUME counted \in [Chunks -> Nat] PROVE Transferred \in Nat
<1>1. IsFiniteSet(Chunks)
  BY KeysAreCountable, FS_Interval DEF Chunks
<1>2. PICK g : IsSum(g, Chunks, counted) /\ Transferred = g[Chunks]
  BY ReportedSum
<1> QED
  BY <1>1, <1>2, SumType

-----------------------------------------------------------------------------
(* Types *)

LEMMA EmptyBatch == Cardinality(RowsOf(EmptyTable)) = 0 /\ EmptyTable \in Table
<1>1. RowsOf(EmptyTable) = {}
  BY DEF RowsOf, EmptyTable
<1> QED
  BY <1>1, FS_EmptySet DEF EmptyTable, Table

LEMMA TypeInit == Init => TypeOK
<1> SUFFICES ASSUME Init PROVE TypeOK
  OBVIOUS
<1> QED
  BY EmptyBatch, ConfigIsSound
     DEF Init, TypeOK, Table, Locations, EmptyTable, NoBounds

LEMMA FaultTypes ==
  ASSUME TypeOK, NEW kind, Fault(kind)
  PROVE  faults' \in 0 .. MaxFaults /\ faults' > 0
BY ConfigIsSound DEF Fault, TypeOK

LEMMA PlanTypes ==
  ASSUME TypeOK, NEW plan, \A j \in DOMAIN plan : plan[j] \in Ranges, ExpandChunks(plan)
  PROVE  TypeOK'
BY DEF TypeOK, ExpandChunks, Ranges, Bound, FirstStep, Locations, NoBounds,
       envVars, tableVars, taskVars, RowsOf

LEMMA RunTypes == ASSUME TypeOK, RunStep PROVE TypeOK'
<1>1. ASSUME NEW versions \in SUBSET Versions, BeginRun(versions) PROVE TypeOK'
  BY <1>1 DEF TypeOK, BeginRun, tableVars, taskVars, RowsOf
<1>2. CASE CountTotal
  BY <1>2, RowsAreKeys, KeysAreCountable
     DEF TypeOK, CountTotal, envVars, tableVars, taskVars, RowsOf
<1>3. ASSUME NEW nullsFirst \in BOOLEAN, ExpandChunks(NTilePlan(nullsFirst)) PROVE TypeOK'
  <2>1. config \in Configurations /\ total \in Nat
    BY DEF TypeOK
  <2> QED
    BY <1>3, <2>1, NTilePlanRanges, PlanTypes
<1>4. ASSUME NEW plan \in BucketPlans, ExpandChunks(plan) PROVE TypeOK'
  <2>1. config \in Configurations
    BY DEF TypeOK
  <2> QED
    BY <1>4, <2>1, BucketPlanRanges, PlanTypes
<1>5. CASE BeginTask
  BY <1>5 DEF TypeOK, BeginTask, FirstStep, Locations, envVars, tableVars, taskVars, RowsOf
<1>6. CASE GiveUpRun
  BY <1>6, FaultTypes DEF TypeOK, GiveUpRun, envVars, tableVars, taskVars, RowsOf
<1>7. CASE ReportRun(Transferred)
  <2>1. Transferred \in Nat
    BY TransferredType DEF TypeOK
  <2> QED
    BY <1>7, <2>1 DEF TypeOK, ReportRun, envVars, tableVars, taskVars, RowsOf
<1>8. CASE LeaveRun
  <2>1. /\ \A n \in Chunks : batch'[n] = EmptyTable
        /\ batch' \in [Chunks -> Table] /\ known' \in [Chunks -> Table]
    BY <1>8, EmptyBatch DEF LeaveRun
  <2>2. \A n \in Chunks : Cardinality(RowsOf(batch'[n])) <= BatchSize
    BY <2>1, EmptyBatch, ConfigIsSound
  <2> QED
    BY <1>8, <2>1, <2>2
       DEF TypeOK, LeaveRun, Locations, NoBounds, envVars, tableVars, RowsOf
<1> QED
  BY <1>1, <1>2, <1>3, <1>4, <1>5, <1>6, <1>7, <1>8 DEF RunStep

LEMMA ScopesAreRanges ==
  ASSUME TypeOK, NEW n \in Chunks
  PROVE  /\ BoundsOf(config.scopeColumn, RowsOf(source)) \in Ranges
         /\ ChunkScope(n) \in Ranges
<1>1. config.scopeColumn \in Column /\ bounds[n] \in Ranges
  BY HasColumns DEF TypeOK, ColumnsOf, Ranges, Bound
<1>2. \A keys \in SUBSET Keys : BoundsOf(config.scopeColumn, keys) \in Ranges
  BY <1>1, BoundsOfKeys
<1> QED
  BY <1>1, <1>2, RowsAreKeys DEF ChunkScope

\* A batch has no more rows than batch_size.
LEMMA NextRowsFit ==
  ASSUME TypeOK, NEW n \in Chunks, NEW rows \in NextRows(n)
  PROVE  /\ rows \in SUBSET Keys
         /\ LET fetched == [k \in Keys |-> IF k \in rows THEN source[k] ELSE NoRow]
            IN  fetched \in Table /\ Cardinality(RowsOf(fetched)) <= BatchSize
<1> DEFINE fetched == [k \in Keys |-> IF k \in rows THEN source[k] ELSE NoRow]
<1>1. /\ rows \in SUBSET Keys /\ unread[n] \in SUBSET Keys
      /\ Cardinality(rows) = Min({BatchSize, Cardinality(unread[n])})
  BY DEF NextRows, TypeOK
<1>2. /\ IsFiniteSet(rows) /\ Cardinality(rows) \in Nat
      /\ Cardinality(unread[n]) \in Nat /\ BatchSize \in Nat
  BY <1>1, KeysAreCountable, ConfigIsSound
<1>3. Cardinality(rows) <= BatchSize
  BY <1>1, <1>2, MinOfTwo
<1>4. RowsOf(fetched) \in SUBSET rows /\ fetched \in Table
  BY <1>1 DEF RowsOf, TypeOK, Table
<1>5. /\ Cardinality(RowsOf(fetched)) <= Cardinality(rows)
      /\ Cardinality(RowsOf(fetched)) \in Nat
  BY <1>2, <1>4, FS_Subset, FS_CardinalityType
<1> QED
  BY <1>1, <1>2, <1>3, <1>4, <1>5

LEMMA ReadTypes ==
  ASSUME TypeOK, NEW n \in Chunks,
         \/ \E b \in Ranges : FetchBounds(n, b) \/ FetchChunkBounds(n, b)
         \/ CountRows(n) \/ FetchBatch(n) \/ EndOfStream(n)
         \/ \E rows \in SUBSET Keys : BeginStream(n, rows)
         \/ ReadFails(n) \/ OpenFails(n) \/ RetryTask(n)
  PROVE  TypeOK'
<1> USE DEF Goto, envVars, tableVars, runVars, taskVars, Locations
<1>1. ASSUME NEW b \in Ranges, FetchBounds(n, b) \/ FetchChunkBounds(n, b) PROVE TypeOK'
  <2>1. /\ scope' = [scope EXCEPT ![n] = b]
        /\ pc' = [pc EXCEPT ![n] = "count"] \/ pc' = [pc EXCEPT ![n] = "delete"]
        /\ UNCHANGED <<config, envVars, tableVars, runVars, unread, batch, known, counted, faults>>
    BY <1>1 DEF FetchBounds, FetchChunkBounds
  <2>2. scope' \in [Chunks -> (Int \cup {Null}) \X (Int \cup {Null})]
    BY <2>1 DEF TypeOK, Ranges, Bound
  <2> QED
    BY <2>1, <2>2 DEF TypeOK, RowsOf
<1>2. CASE CountRows(n)
  BY <1>2 DEF TypeOK, CountRows, AfterStream, RowsOf
<1>3. CASE FetchBatch(n)
  <2>1. PICK rows \in NextRows(n) :
          /\ batch' = [batch EXCEPT ![n] =
               [k \in Keys |-> IF k \in rows THEN source[k] ELSE NoRow]]
          /\ unread' = [unread EXCEPT ![n] = @ \ rows]
    BY <1>3 DEF FetchBatch
  <2>2. /\ batch' \in [Chunks -> Table]
        /\ \A m \in Chunks : Cardinality(RowsOf(batch'[m])) <= BatchSize
    BY <2>1, NextRowsFit DEF TypeOK
  <2> QED
    BY <1>3, <2>1, <2>2 DEF TypeOK, FetchBatch
<1>4. CASE EndOfStream(n)
  BY <1>4 DEF TypeOK, EndOfStream, AfterStream, RowsOf
<1>5. ASSUME NEW rows \in SUBSET Keys, BeginStream(n, rows) PROVE TypeOK'
  <2>1. batch' = [batch EXCEPT ![n] = EmptyTable]
    BY <1>5 DEF BeginStream
  <2>2. /\ batch' \in [Chunks -> Table]
        /\ \A m \in Chunks : Cardinality(RowsOf(batch'[m])) <= BatchSize
    BY <2>1, EmptyBatch, ConfigIsSound DEF TypeOK
  <2> QED
    BY <1>5, <2>1, <2>2 DEF TypeOK, BeginStream
<1>6. CASE ReadFails(n)
  BY <1>6, FaultTypes DEF TypeOK, ReadFails, FailTask, RowsOf
<1>7. CASE OpenFails(n)
  <2>1. faults' \in 0 .. MaxFaults
    BY <1>7, FaultTypes DEF OpenFails, FailTask
  <2>2. pc' \in [Chunks -> Locations]
    BY <1>7 DEF TypeOK, OpenFails, FailTask
  <2> QED
    BY <1>7, <2>1, <2>2 DEF TypeOK, OpenFails, RowsOf
<1>8. CASE RetryTask(n)
  <2>1. /\ batch' = [batch EXCEPT ![n] = EmptyTable]
        /\ known' = [known EXCEPT ![n] = EmptyTable]
    BY <1>8 DEF RetryTask
  <2>2. /\ batch' \in [Chunks -> Table] /\ known' \in [Chunks -> Table]
        /\ \A m \in Chunks : Cardinality(RowsOf(batch'[m])) <= BatchSize
    BY <2>1, EmptyBatch, ConfigIsSound DEF TypeOK
  <2> QED
    BY <1>8, <2>1, <2>2 DEF TypeOK, RetryTask, FirstStep, NoBounds
<1> QED
  BY <1>1, <1>2, <1>3, <1>4, <1>5, <1>6, <1>7, <1>8

\* While a task collects keys, the table for them is there.
HasKeysTable(n) ==
  config.delete /\ pc[n] \in {"fetch", "upsert", "insert", "bulk", "append", "scope", "delete",
                              "ids"} =>
    keysStaging[n] \in SUBSET Keys

\* The paging of a table knows how many rows there have been.
Paging(n) ==
  OfTable /\ pc[n] \in {"fetch", "upsert", "append"} => scope[n][2] \in Nat

TypeInvariant == TypeOK /\ \A n \in Chunks : HasKeysTable(n) /\ Paging(n)

LEMMA KeysTypes ==
  ASSUME TypeInvariant, NEW n \in Chunks,
         \/ \E remains \in SUBSET SUBSET RowsOf(batch[n]) : AppendKeys(n, remains)
         \/ DropKeys(n)
  PROVE  TypeOK'
<1> TypeOK /\ HasKeysTable(n)
  BY DEF TypeInvariant
<1> USE DEF Goto, envVars, tableVars, runVars, taskVars, Locations
<1>1. ASSUME NEW remains \in SUBSET SUBSET RowsOf(batch[n]), AppendKeys(n, remains) PROVE TypeOK'
  <2>1. /\ batch' = [batch EXCEPT ![n] = EmptyTable]
        /\ counted' = [counted EXCEPT ![n] = @ + Cardinality(RowsOf(batch[n]))]
    BY <1>1 DEF AppendKeys
  <2>2. /\ batch' \in [Chunks -> Table]
        /\ \A m \in Chunks : Cardinality(RowsOf(batch'[m])) <= BatchSize
    BY <2>1, EmptyBatch, ConfigIsSound DEF TypeOK
  <2>3. counted' \in [Chunks -> Nat]
    BY <2>1, RowsAreKeys, KeysAreCountable DEF TypeOK
  <2>4. /\ faults' \in 0 .. MaxFaults /\ undisturbed' \in BOOLEAN
        /\ UNCHANGED <<config, source, changes, target, version, phase, runVersion, total,
                       bounds, report, scope, unread, known>>
        /\ pc' = [pc EXCEPT ![n] = "fetch"]
    BY <1>1, FaultTypes DEF AppendKeys, TypeOK
  <2>5. \/ keysStaging' = keysStaging
        \/ /\ config.delete
           /\ \E keys \in SUBSET RowsOf(batch[n]) :
                keysStaging' = [keysStaging EXCEPT ![n] = @ \cup keys]
    BY <1>1 DEF AppendKeys, AppendedKeys
  <2>6. keysStaging' \in [Chunks -> (SUBSET Keys) \cup {NoTable}]
    <3>1. CASE keysStaging' = keysStaging
      BY <3>1 DEF TypeOK
    <3>2. ASSUME config.delete, NEW keys \in SUBSET RowsOf(batch[n]),
                 keysStaging' = [keysStaging EXCEPT ![n] = @ \cup keys]
          PROVE  keysStaging' \in [Chunks -> (SUBSET Keys) \cup {NoTable}]
      <4>1. keysStaging[n] \in SUBSET Keys
        BY <1>1, <3>2 DEF AppendKeys, HasKeysTable
      <4>2. keysStaging[n] \cup keys \in SUBSET Keys
        BY <4>1, RowsAreKeys
      <4> QED
        BY <3>2, <4>2 DEF TypeOK
    <3> QED
      BY <2>5, <3>1, <3>2
  <2> QED
    BY <2>2, <2>3, <2>4, <2>6 DEF TypeOK
<1>2. CASE DropKeys(n)
  BY <1>2, EmptyBatch DEF TypeOK, DropKeys, NoBounds, RowsOf
<1> QED
  BY <1>1, <1>2

\* What a failed call of a writer leaves.
LEMMA FailureEffects ==
  ASSUME NEW n \in Chunks, NEW tables, NEW deleted, WriteFails(n, tables, deleted)
  PROVE  /\ \/ target' = target
            \/ pc[n] \in {"insert", "bulk"} /\ target' \in tables
            \/ pc[n] \in {"delete", "ids"} /\ ~Waits(n) /\ target' = deleted
         /\ \/ keysStaging' = keysStaging
            \/ \E keys \in {{}, NoTable} : keysStaging' = [keysStaging EXCEPT ![n] = keys]
            \/ /\ config.delete /\ pc[n] = "append"
               /\ keysStaging' = [keysStaging EXCEPT ![n] = AppendedKeys(n)]
         /\ \E kind \in {"link", "deadlock", "died"} : FailTask(n, kind)
         /\ UNCHANGED <<config, envVars, version, runVars, taskVars>>
<1> USE DEF WriteFails
<1>1. \/ target' = target
      \/ pc[n] \in {"insert", "bulk"} /\ target' \in tables
      \/ pc[n] \in {"delete", "ids"} /\ ~Waits(n) /\ target' = deleted
  OBVIOUS
<1>2. \/ keysStaging' = keysStaging
      \/ \E keys \in {{}, NoTable} : keysStaging' = [keysStaging EXCEPT ![n] = keys]
      \/ /\ config.delete /\ pc[n] = "append"
         /\ keysStaging' = [keysStaging EXCEPT ![n] = AppendedKeys(n)]
  <2>1. CASE ~config.delete
    BY <2>1
  <2>2. CASE config.delete /\ pc[n] = "prepare"
    BY <2>2
  <2>3. CASE config.delete /\ pc[n] = "append"
    BY <2>3
  <2>4. CASE config.delete /\ pc[n] \in {"delete", "ids", "drop"}
    BY <2>4
  <2>5. CASE config.delete /\ pc[n] \in {"upsert", "insert", "bulk"}
    BY <2>5
  <2> QED
    BY <2>1, <2>2, <2>3, <2>4, <2>5
<1> QED
  BY <1>1, <1>2

LEMMA FailureTypes ==
  ASSUME TypeInvariant, NEW n \in Chunks, NEW tables \in SUBSET Table, NEW deleted \in Table,
         WriteFails(n, tables, deleted)
  PROVE  TypeOK'
<1> TypeOK /\ HasKeysTable(n)
  BY DEF TypeInvariant
<1>1. target' \in Table
  BY FailureEffects DEF TypeOK
<1>2. keysStaging' \in [Chunks -> (SUBSET Keys) \cup {NoTable}]
  <2>1. config.delete /\ pc[n] = "append" => AppendedKeys(n) \in SUBSET Keys
    BY RowsAreKeys DEF AppendedKeys, HasKeysTable
  <2>2. \/ keysStaging' = keysStaging
        \/ \E keys \in {{}, NoTable} : keysStaging' = [keysStaging EXCEPT ![n] = keys]
        \/ /\ config.delete /\ pc[n] = "append"
           /\ keysStaging' = [keysStaging EXCEPT ![n] = AppendedKeys(n)]
    BY FailureEffects
  <2> QED
    BY <2>1, <2>2 DEF TypeOK
<1>3. PICK kind : FailTask(n, kind)
  BY FailureEffects
<1>4. pc' \in [Chunks -> Locations] /\ faults' \in 0 .. MaxFaults
  BY <1>3, FaultTypes DEF FailTask, TypeOK, Locations
<1>5. UNCHANGED <<config, envVars, version, runVars, taskVars>>
  BY FailureEffects
<1> QED
  BY <1>1, <1>2, <1>4, <1>5 DEF TypeOK, RowsOf, envVars, tableVars, runVars, taskVars

LEMMA WithoutType ==
  ASSUME NEW table \in Table, NEW keys
  PROVE  Without(table, keys) \in Table
BY DEF Without, Table

LEMMA SqlTypes == ASSUME TypeInvariant, NEW n \in Chunks, SqlWrites(n) PROVE TypeOK'
<1> TypeOK /\ HasKeysTable(n)
  BY DEF TypeInvariant
<1>1. ASSUME NEW tables \in SUBSET Table, NEW deleted \in Table, WriteFails(n, tables, deleted)
      PROVE  TypeOK'
  BY <1>1, FailureTypes
<1>2. Without(target, Missing(n)) \in Table
  BY WithoutType DEF TypeOK
<1> USE DEF Goto, envVars, tableVars, runVars, taskVars, Locations
<1>3. ASSUME DeleteConflicts(n) PROVE TypeOK'
  <2>1. [k \in Keys |-> IF k \in RowsOf(batch[n]) \cup Conflicts(target, batch[n])
                        THEN target[k] ELSE NoRow] \in Table
    BY DEF TypeOK, Table
  <2>2. known' \in [Chunks -> Table]
    BY <1>3, <2>1 DEF DeleteConflicts, TypeOK
  <2> QED
    BY <1>3, <2>2 DEF DeleteConflicts, TypeOK, RowsOf
<1>4. ASSUME NEW to \in {"append", "failed", "upsert"}, EndUpsert(n, to), target' \in Table,
             undisturbed' \in BOOLEAN, faults' \in 0 .. MaxFaults
      PROVE  TypeOK'
  BY <1>4, EmptyBatch DEF EndUpsert, TypeOK, RowsOf
<1>5. ASSUME NEW tables \in SUBSET Table, Upsert(n, tables) \/ RejectUpsert(n, tables)
      PROVE  TypeOK'
  BY <1>4, <1>5 DEF Upsert, RejectUpsert, Possible, TypeOK
<1>6. CASE DeadlockVictim(n)
  BY <1>4, <1>6 DEF DeadlockVictim, TypeOK
<1>7. CASE LoseUpsert(n)
  BY <1>4, <1>7, FaultTypes DEF LoseUpsert, TypeOK
<1>8. CASE DeleteMissing(n)
  BY <1>2, <1>8 DEF TypeOK, DeleteMissing, RowsOf
<1> QED
  BY <1>1, <1>2, <1>3, <1>5, <1>6, <1>7, <1>8 DEF SqlWrites

LEMMA VersionTypes == ASSUME TypeOK, NEW n \in Chunks, VersionWrites(n) PROVE TypeOK'
<1> USE DEF Goto, envVars, tableVars, runVars, taskVars, Locations
<1>1. PICK keys \in SUBSET RowsOf(batch[n]) : WritesVersions(n, keys)
  BY DEF VersionWrites
<1>2. target' \in Table /\ version' \in [Keys -> Versions \cup {0}]
  BY <1>1 DEF WritesVersions, TypeOK, Table
<1>3. /\ pc' \in [Chunks -> Locations]
      /\ faults' \in 0 .. MaxFaults /\ undisturbed' \in BOOLEAN
  BY FaultTypes DEF VersionWrites, FailTask, TypeOK
<1>4. UNCHANGED <<config, source, changes, keysStaging, runVars, taskVars>>
  BY DEF VersionWrites
<1> QED
  BY <1>2, <1>3, <1>4 DEF TypeOK, RowsOf

LEMMA MongoTypes == ASSUME TypeInvariant, NEW n \in Chunks, MongoWrites(n) PROVE TypeOK'
<1> TypeOK
  BY DEF TypeInvariant
<1>1. /\ EmptyTable \in Table
      /\ [k \in Keys |-> IF batch[n][k] # NoRow THEN target[k] ELSE NoRow] \in Table
      /\ [k \in Keys |-> IF k \in Missing(n) THEN target[k] ELSE NoRow] \in Table
  BY EmptyBatch DEF TypeOK, Table
<1>2. \A done : BulkWritten(n, done) \in Table
  BY DEF TypeOK, Table, BulkWritten, Replaced
<1>3. \A keys : Without(target, keys) \in Table
  BY WithoutType DEF TypeOK
<1>4. CASE WritesFail(n)
  <2>1. PICK tables \in SUBSET Table, deleted \in Table : WriteFails(n, tables, deleted)
    BY <1>2, <1>3, <1>4 DEF WritesFail, TypeOK
  <2> QED
    BY <2>1, FailureTypes
<1> USE DEF Goto, envVars, tableVars, runVars, taskVars, Locations
<1>5. CASE UpsertBatch(n)
  <2>1. CASE FindExisting(n)
    <3>1. known' \in [Chunks -> Table]
      BY <1>1, <2>1 DEF FindExisting, TypeOK
    <3> QED
      BY <2>1, <3>1 DEF FindExisting, TypeOK, RowsOf
  <2>2. CASE BulkWrite(n)
    BY <1>1, <1>2, <2>2 DEF BulkWrite, TypeOK, RowsOf
  <2> QED
    BY <1>5, <2>1, <2>2 DEF UpsertBatch
<1>6. CASE DeleteMissingInScope(n)
  <2>1. CASE FindMissing(n)
    <3>1. known' \in [Chunks -> Table]
      BY <1>1, <2>1 DEF FindMissing, TypeOK
    <3> QED
      BY <2>1, <3>1 DEF FindMissing, TypeOK, RowsOf
  <2>2. CASE DeleteById(n)
    BY <1>3, <2>2 DEF DeleteById, TypeOK, RowsOf
  <2> QED
    BY <1>6, <2>1, <2>2 DEF DeleteMissingInScope
<1> QED
  BY <1>4, <1>5, <1>6 DEF MongoWrites

LEMMA ChangeTypes ==
  ASSUME TypeOK, NEW change \in Changes, ChangeSource(change[1], change[2])
  PROVE  TypeOK'
<1>1. change[1] \in Keys /\ change[2] \in Values \cup {NoRow}
  BY ConfigIsSound
<1>2. source' \in Table
  BY <1>1 DEF ChangeSource, TypeOK, Table
<1>3. changes' \in 0 .. MaxChanges
  BY ConfigIsSound DEF ChangeSource, TypeOK
<1>4. unread' \in [Chunks -> SUBSET Keys]
  BY DEF ChangeSource, TypeOK
<1> QED
  BY <1>2, <1>3, <1>4 DEF ChangeSource, TypeOK, tableVars, runVars, RowsOf

\* What is each task's own.
Of(m) == <<pc[m], keysStaging[m], scope[m], unread[m], batch[m], known[m], counted[m]>>

LEMMA OthersStay ==
  ASSUME TypeOK, NEW n \in Chunks, TaskStep(n), NEW m \in Chunks \ {n}
  PROVE  Of(m)' = Of(m)
<1> USE DEF Of, Goto, FailTask, envVars, tableVars, runVars, taskVars, TypeOK
<1>1. ASSUME NEW b, FetchBounds(n, b) \/ FetchChunkBounds(n, b) PROVE Of(m)' = Of(m)
  BY <1>1 DEF FetchBounds, FetchChunkBounds
<1>2. CASE CountRows(n)
  BY <1>2 DEF CountRows
<1>3. ASSUME NEW rows, BeginStream(n, rows) PROVE Of(m)' = Of(m)
  BY <1>3 DEF BeginStream
<1>4. CASE FetchBatch(n) \/ EndOfStream(n)
  BY <1>4 DEF FetchBatch, EndOfStream
<1>5. ASSUME NEW remains, AppendKeys(n, remains) PROVE Of(m)' = Of(m)
  BY <1>5 DEF AppendKeys
<1>6. CASE DropKeys(n) \/ ReadFails(n) \/ OpenFails(n) \/ RetryTask(n)
  BY <1>6 DEF DropKeys, ReadFails, OpenFails, RetryTask
<1>7. ASSUME NEW tables, NEW deleted, WriteFails(n, tables, deleted) PROVE Of(m)' = Of(m)
  <2>1. PICK kind : FailTask(n, kind)
    BY <1>7, FailureEffects
  <2>2. keysStaging'[m] = keysStaging[m] /\ UNCHANGED taskVars
    BY <1>7, FailureEffects
  <2> QED
    BY <2>1, <2>2
<1>8. CASE SqlWrites(n)
  BY <1>7, <1>8 DEF SqlWrites, DeleteConflicts, EndUpsert, Upsert, RejectUpsert, DeadlockVictim,
       LoseUpsert, DeleteMissing
<1>9. CASE VersionWrites(n)
  BY <1>9 DEF VersionWrites
<1>10. CASE MongoWrites(n)
  BY <1>7, <1>10 DEF MongoWrites, UpsertBatch, FindExisting, BulkWrite,
       DeleteMissingInScope, FindMissing, DeleteById, WritesFail
<1> QED
  BY <1>1, <1>2, <1>3, <1>4, <1>5, <1>6, <1>8, <1>9, <1>10 DEF TaskStep

\* A step of a task changes neither the source nor the run.
LEMMA TasksLeaveRun ==
  ASSUME NEW n \in Chunks, TaskStep(n)
  PROVE  /\ UNCHANGED <<config, source, changes, runVars>>
         /\ undisturbed' = undisturbed \/ undisturbed' = FALSE
<1> USE DEF envVars, tableVars, runVars
<1>1. ASSUME NEW tables, NEW deleted, WriteFails(n, tables, deleted)
      PROVE  UNCHANGED <<config, source, changes, undisturbed, runVars>>
  BY <1>1, FailureEffects
<1>2. CASE SqlWrites(n)
  BY <1>1, <1>2 DEF SqlWrites, DeleteConflicts, EndUpsert, Upsert, RejectUpsert, DeadlockVictim,
       LoseUpsert, DeleteMissing
<1>3. CASE VersionWrites(n)
  BY <1>3 DEF VersionWrites
<1>4. CASE MongoWrites(n)
  BY <1>1, <1>4 DEF MongoWrites, UpsertBatch, FindExisting, BulkWrite,
       DeleteMissingInScope, FindMissing, DeleteById, WritesFail
<1> QED
  BY <1>2, <1>3, <1>4
     DEF TaskStep, FetchBounds, FetchChunkBounds, CountRows, BeginStream, FetchBatch,
         EndOfStream, AppendKeys, DropKeys, ReadFails, OpenFails, RetryTask

LEMMA KeysTableStays ==
  ASSUME TypeInvariant, NEW n \in Chunks, TaskStep(n)
  PROVE  HasKeysTable(n)'
<1> TypeOK /\ HasKeysTable(n) /\ config' = config
  BY TasksLeaveRun DEF TypeInvariant
<1> USE DEF Goto, FailTask, HasKeysTable, tableVars, TypeOK
<1>1. ASSUME NEW b, FetchBounds(n, b) \/ FetchChunkBounds(n, b) PROVE HasKeysTable(n)'
  BY <1>1 DEF FetchBounds, FetchChunkBounds
<1>2. CASE CountRows(n)
  BY <1>2 DEF CountRows, AfterStream
<1>3. ASSUME NEW rows, BeginStream(n, rows) PROVE HasKeysTable(n)'
  BY <1>3 DEF BeginStream
<1>4. CASE FetchBatch(n) \/ EndOfStream(n)
  BY <1>4 DEF FetchBatch, EndOfStream, AfterStream
<1>5. ASSUME NEW remains \in SUBSET SUBSET RowsOf(batch[n]), AppendKeys(n, remains)
      PROVE  HasKeysTable(n)'
  <2>1. config.delete => keysStaging[n] \in SUBSET Keys
    BY <1>5 DEF AppendKeys
  <2>2. config.delete => \E keys \in SUBSET RowsOf(batch[n]) :
                           keysStaging' = [keysStaging EXCEPT ![n] = @ \cup keys]
    BY <1>5 DEF AppendKeys, AppendedKeys
  <2> QED
    BY <2>1, <2>2, RowsAreKeys
<1>6. CASE DropKeys(n) \/ ReadFails(n) \/ OpenFails(n) \/ RetryTask(n)
  BY <1>6 DEF DropKeys, ReadFails, OpenFails, RetryTask, FirstStep
<1>7. ASSUME NEW tables, NEW deleted, WriteFails(n, tables, deleted) PROVE HasKeysTable(n)'
  BY <1>7, FailureEffects
<1>8. CASE SqlWrites(n)
  BY <1>7, <1>8 DEF SqlWrites, DeleteConflicts, EndUpsert, Upsert, RejectUpsert, DeadlockVictim,
       LoseUpsert, DeleteMissing
<1>9. CASE VersionWrites(n)
  BY <1>9 DEF VersionWrites
<1>10. CASE MongoWrites(n)
  BY <1>7, <1>10 DEF MongoWrites, UpsertBatch, FindExisting, BulkWrite,
       DeleteMissingInScope, FindMissing, DeleteById, WritesFail
<1> QED
  BY <1>1, <1>2, <1>3, <1>4, <1>5, <1>6, <1>8, <1>9, <1>10 DEF TaskStep

LEMMA PagingStays ==
  ASSUME TypeInvariant, NEW n \in Chunks, TaskStep(n)
  PROVE  Paging(n)'
<1> TypeOK /\ Paging(n) /\ config' = config
  BY TasksLeaveRun DEF TypeInvariant
<1> USE DEF Goto, FailTask, Paging, OfTable, taskVars, TypeOK
<1>1. ASSUME NEW b, FetchBounds(n, b) \/ FetchChunkBounds(n, b) PROVE Paging(n)'
  BY <1>1 DEF FetchBounds, FetchChunkBounds
<1>2. CASE CountRows(n)
  BY <1>2 DEF CountRows, AfterStream
<1>3. CASE ~OfTable
  BY <1>3
<1>4. CASE FetchBatch(n) \/ EndOfStream(n)
  BY <1>4 DEF FetchBatch, EndOfStream, AfterStream
<1>5. ASSUME NEW remains, AppendKeys(n, remains) PROVE Paging(n)'
  BY <1>5 DEF AppendKeys
<1>6. CASE DropKeys(n) \/ ReadFails(n) \/ OpenFails(n) \/ RetryTask(n)
  BY <1>6 DEF DropKeys, ReadFails, OpenFails, RetryTask, FirstStep
<1>7. ASSUME NEW tables, NEW deleted, WriteFails(n, tables, deleted) PROVE Paging(n)'
  BY <1>7, FailureEffects
<1>8. CASE ToSql
  BY <1>8 DEF ToSql
<1>9. CASE VersionWrites(n)
  BY <1>9 DEF VersionWrites
<1>10. CASE ToMongo
  BY <1>10 DEF ToMongo
<1> QED
  BY <1>1, <1>2, <1>3, <1>4, <1>5, <1>6, <1>8, <1>9, <1>10 DEF TaskStep

LEMMA TaskTypes == ASSUME TypeInvariant, NEW n \in Chunks, TaskStep(n) PROVE TypeInvariant'
<1> TypeOK
  BY DEF TypeInvariant
<1>1. TypeOK'
  <2>1. TaskRange(n) \in SUBSET Keys
    BY RowsAreKeys DEF TaskRange
  <2> QED
    BY <2>1, ReadTypes, KeysTypes, SqlTypes, VersionTypes, MongoTypes, ScopesAreRanges
       DEF TaskStep
<1>2. ASSUME NEW m \in Chunks \ {n} PROVE HasKeysTable(m)' /\ Paging(m)'
  BY OthersStay, TasksLeaveRun DEF Of, TypeInvariant, HasKeysTable, Paging, OfTable
<1> QED
  BY <1>1, <1>2, KeysTableStays, PagingStays DEF TypeInvariant

\* A step of the run, or of somebody who changes the source, leaves the tasks as they
\* are, but for where they begin and for the end.
LEMMA CommonTypes == ASSUME TypeInvariant, CommonStep PROVE TypeInvariant'
<1> TypeOK
  BY DEF TypeInvariant
<1> USE DEF TypeInvariant, HasKeysTable, Paging, OfTable, envVars, tableVars, runVars, taskVars
<1>1. CASE RunStep
  <2>1. TypeOK'
    BY <1>1, RunTypes
  <2>2. ASSUME NEW n \in Chunks PROVE HasKeysTable(n)' /\ Paging(n)'
    <3>1. config' = config
      BY <1>1 DEF RunStep, BeginRun, CountTotal, ExpandChunks, BeginTask, GiveUpRun,
           ReportRun, LeaveRun
    <3>2. \/ UNCHANGED <<keysStaging, scope, pc>>
          \/ pc'[n] \in {"prepare", "bounds", "count", "done", "idle"}
      BY <1>1 DEF RunStep, BeginRun, CountTotal, ExpandChunks, BeginTask, GiveUpRun,
           ReportRun, LeaveRun, FirstStep
    <3> QED
      BY <3>1, <3>2
  <2> QED
    BY <2>1, <2>2
<1>2. ASSUME NEW change \in Changes, ChangeSource(change[1], change[2]) PROVE TypeInvariant'
  BY <1>2, ChangeTypes DEF ChangeSource
<1> QED
  BY <1>1, <1>2, TaskTypes DEF CommonStep

-----------------------------------------------------------------------------
(* Rejections *)

\* A task fails for good by a fault, or because its batch is rejected.
LEMMA FailuresHaveCauses ==
  ASSUME TypeOK, NEW n \in Chunks, TaskStep(n), faults' = faults, pc'[n] = "failed"
  PROVE  ToSql /\ \E tables : RejectUpsert(n, tables)
<1>1. faults \in Nat /\ pc \in [Chunks -> Locations]
  BY ConfigIsSound DEF TypeOK
<1>2. \A kind : ~FailTask(n, kind)
  BY <1>1 DEF FailTask, Fault
<1>3. ASSUME NEW tables, NEW deleted, WriteFails(n, tables, deleted) PROVE FALSE
  BY <1>2, <1>3, FailureEffects
<1> USE DEF Goto
<1>4. CASE ToSql /\ SqlWrites(n)
  BY <1>1, <1>3, <1>4
     DEF SqlWrites, DeleteConflicts, EndUpsert, Upsert, DeadlockVictim, LoseUpsert, DeleteMissing
<1>5. CASE VersionWrites(n)
  <2>1. PICK keys \in SUBSET RowsOf(batch[n]) :
          \/ Goto(n, "upsert", "append")
          \/ \E kind \in {"link", "died"} : FailTask(n, kind)
    BY <1>5 DEF VersionWrites
  <2> QED
    BY <1>1, <1>2, <2>1
<1>6. CASE MongoWrites(n)
  BY <1>1, <1>3, <1>6 DEF MongoWrites, UpsertBatch, FindExisting, BulkWrite,
       DeleteMissingInScope, FindMissing, DeleteById, WritesFail
<1>7. CASE ReadFails(n) \/ OpenFails(n)
  BY <1>2, <1>7 DEF ReadFails, OpenFails
<1>8. CASE \/ \E b : FetchBounds(n, b) \/ FetchChunkBounds(n, b)
           \/ CountRows(n) \/ (\E rows : BeginStream(n, rows)) \/ FetchBatch(n)
           \/ EndOfStream(n) \/ (\E remains : AppendKeys(n, remains)) \/ DropKeys(n)
           \/ RetryTask(n)
  BY <1>1, <1>8
     DEF FetchBounds, FetchChunkBounds, CountRows, BeginStream, FetchBatch, EndOfStream,
         AppendKeys, DropKeys, RetryTask, FirstStep, AfterStream
<1> QED
  BY <1>4, <1>5, <1>6, <1>7, <1>8 DEF TaskStep

\* But for late rows, no batch is.
LEMMA DuplicatesAreDeleted ==
  ASSUME NEW n \in Chunks, pc[n] = "insert", InsertInvariant(n)
  PROVE  Duplicates(n) = {}
<1>1. ASSUME NEW k \in Duplicates(n) PROVE FALSE
  <2>1. /\ k \in Keys /\ k \notin Deleted(n) /\ target[k] # NoRow
        /\ \E j \in Keys \ {k} : batch[n][j] = target[k]
    BY <1>1 DEF Duplicates, Conflicts, Without, RowsOf
  <2>2. k \in Conflicts(target, batch[n])
    BY <2>1 DEF Conflicts, RowsOf
  <2> QED
    BY <2>1, <2>2 DEF InsertInvariant
<1> QED
  BY <1>1

-----------------------------------------------------------------------------
(* What a task writes while the source stands still *)

\* The scope of a task's delete lies within its range.
LEMMA ScopeInRange ==
  ASSUME TypeOK, config.dynamic => InStep(config), NEW n \in Chunks,
         NEW k \in RowsOf(source), InBounds(config.scopeColumn, TaskScope(n), k)
  PROVE  k \in TaskRange(n)
<1> DEFINE chunk == config.chunkColumn
           col   == config.scopeColumn
           rows  == {j \in RowsOf(source) : InBounds(chunk, bounds[n], j)}
           vals  == {col[j] : j \in rows} \ {Null}
<1>1. chunk \in Column /\ col \in Column /\ bounds[n] \in Ranges
  BY HasColumns DEF TypeOK, ColumnsOf, Ranges, Bound
<1>2. CASE ~config.dynamic
  BY <1>2 DEF TaskRange
<1>3. CASE config.dynamic /\ (OfMongo \/ col = chunk)
  BY <1>3 DEF TaskRange, TaskScope, ChunkScope, InStep, OfMongo
<1>4. CASE config.dynamic /\ ~(OfMongo \/ col = chunk)
  <2>1. InBounds(col, BoundsOf(col, rows), k)
    BY <1>4 DEF TaskScope, ChunkScope
  <2>2. vals # {} /\ BoundsOf(col, rows) = <<Min(vals), Max(vals)>>
    BY <2>1 DEF BoundsOf, Bounds, InBounds, NoBounds
  <2>3. vals \in SUBSET Int /\ IsFiniteSet(vals)
    <3>1. rows \in SUBSET Keys /\ IsFiniteSet(rows)
      BY RowsAreKeys, KeysAreCountable
    <3>2. IsFiniteSet({col[j] : j \in rows})
      BY <3>1, FiniteImage
    <3>3. IsFiniteSet(vals)
      BY <3>2, FS_Subset
    <3> QED
      BY <1>1, <3>1, <3>3 DEF Column
  <2>4. Min(vals) \in vals /\ Max(vals) \in vals
    BY <2>2, <2>3, MinAndMax
  <2>5. PICK i \in rows, j \in rows : col[i] = Min(vals) /\ col[j] = Max(vals)
    BY <2>4
  <2>6. /\ col[i] # Null /\ col[j] # Null /\ col[k] # Null
        /\ col[i] <= col[k] /\ col[k] <= col[j]
        /\ col[i] \in Int /\ col[j] \in Int /\ col[k] \in Int
    <3>1. BoundsOf(col, rows)[1] = col[i] /\ BoundsOf(col, rows)[2] = col[j]
      BY <2>2, <2>5
    <3>2. col[i] \in Int /\ col[j] \in Int /\ col[i] # Null /\ col[j] # Null
      BY <2>3, <2>4, <2>5
    <3>3. /\ col[k] # Null /\ col[k] \in Int \cup {Null}
          /\ col[i] <= col[k] /\ col[k] <= col[j]
      <4>1. k \in Keys
        BY RowsAreKeys
      <4> HIDE DEF col, rows
      <4>2. col[k] \in Int \cup {Null}
        BY <1>1, <4>1 DEF Column
      <4> QED
        BY <2>1, <3>1, <4>2 DEF InBounds
    <3> QED
      BY <3>2, <3>3
  <2>7. /\ chunk[i] # Null /\ chunk[j] # Null /\ chunk[k] # Null
        /\ ~(chunk[k] < chunk[i]) /\ ~(chunk[j] < chunk[k])
    <3>1. i \in Keys /\ j \in Keys /\ k \in Keys
      BY <2>5, RowsAreKeys
    <3>2. InStep(config)
      BY <1>4
    <3> QED
      BY <2>6, <3>1, <3>2 DEF InStep
  <2>8. chunk[i] \in Int /\ chunk[j] \in Int /\ chunk[k] \in Int
    BY <1>1, <2>5, <2>7, RowsAreKeys DEF Column
  <2>9. /\ bounds[n][1] <= chunk[i] /\ chunk[j] <= bounds[n][2]
        /\ bounds[n][1] \in Int /\ bounds[n][2] \in Int
        /\ Null \notin {bounds[n][1], bounds[n][2]}
    BY <1>1, <2>5 DEF InBounds, Ranges, Bound
  <2> QED
    BY <2>7, <2>8, <2>9 DEF TaskRange, InBounds
<1> QED
  BY <1>2, <1>3, <1>4


\* While the source stands still, rows of it are not set back, and others do not appear.
RowsKept ==
  /\ \A k \in RowsOf(source) :
       \/ target'[k] \in {target[k], source[k]}
       \/ target'[k] = NoRow /\ target[k] # source[k] /\ ~ToMongo
  /\ \A k \in Keys \ RowsOf(source) : target'[k] \in {target[k], NoRow}
  /\ \A k \in Keys :
       version'[k] = version[k] \/ (version'[k] = runVersion /\ target'[k] = source[k])

\* Which rows a task that writes to an SQL server may change.
LEMMA RowsChange ==
  ASSUME PhaseInvariant, ToSql, NEW n \in Chunks, TaskStep(n)
  PROVE  /\ version' = version
         /\ \A k \in Keys :
              \/ target'[k] = target[k]
              \/ pc[n] = "insert" /\ ~Waits(n) /\ batch[n][k] # NoRow /\ target'[k] = batch[n][k]
              \/ k \in Deleted(n) /\ target'[k] = NoRow
              \/ pc[n] = "delete" /\ ~Waits(n) /\ k \in Missing(n) /\ target'[k] = NoRow
<1> DEFINE MayChange(k) ==
             \/ target'[k] = target[k]
             \/ pc[n] = "insert" /\ ~Waits(n) /\ batch[n][k] # NoRow /\ target'[k] = batch[n][k]
             \/ k \in Deleted(n) /\ target'[k] = NoRow
             \/ pc[n] = "delete" /\ ~Waits(n) /\ k \in Missing(n) /\ target'[k] = NoRow
           Changed == version' = version /\ \A k \in Keys : MayChange(k)
<1> SUFFICES Changed
  OBVIOUS
<1>1. ~ToMongo
  BY DEF ToSql, ToMongo
<1>2. CASE UNCHANGED <<target, version>>
  BY <1>2
<1>3. CASE version' = version /\ pc[n] = "insert" /\ WritesBatch(n)
  BY <1>3 DEF WritesBatch
<1>4. CASE version' = version /\ pc[n] = "delete" /\ ~Waits(n)
           /\ target' = Without(target, Missing(n))
  BY <1>4 DEF Without
<1> HIDE DEF Changed
<1>5. CASE SqlWrites(n)
  <2>1. ASSUME NEW tables, Upsert(n, tables) \/ RejectUpsert(n, tables), WritesBatch(n)
        PROVE  Changed
    BY <1>3, <2>1 DEF Upsert, RejectUpsert, EndUpsert, Goto
  <2>2. CASE DeleteConflicts(n) \/ DeadlockVictim(n) \/ LoseUpsert(n)
    BY <1>2, <2>2 DEF DeleteConflicts, DeadlockVictim, LoseUpsert, EndUpsert, tableVars
  <2>3. CASE DeleteMissing(n)
    BY <1>4, <2>3 DEF DeleteMissing, Goto
  <2>4. ASSUME NEW tables, WriteFails(n, tables, Without(target, Missing(n))),
               pc[n] = "insert" => WritesBatch(n)
        PROVE  Changed
    <3>1. /\ version' = version
          /\ \/ target' = target
             \/ pc[n] \in {"insert", "bulk"} /\ target' \in tables
             \/ pc[n] \in {"delete", "ids"} /\ ~Waits(n) /\ target' = Without(target, Missing(n))
      BY <2>4, FailureEffects
    <3>2. pc[n] \notin {"bulk", "ids"}
      BY <1>1 DEF PhaseInvariant
    <3> QED
      BY <1>2, <1>3, <1>4, <2>4, <3>1, <3>2
  <2> QED
    BY <1>5, <2>1, <2>2, <2>3, <2>4 DEF SqlWrites
<1>6. CASE \/ \E b : FetchBounds(n, b) \/ FetchChunkBounds(n, b)
           \/ CountRows(n) \/ (\E rows : BeginStream(n, rows)) \/ FetchBatch(n)
           \/ EndOfStream(n) \/ (\E remains : AppendKeys(n, remains)) \/ DropKeys(n)
           \/ RetryTask(n) \/ ReadFails(n) \/ OpenFails(n)
  BY <1>2, <1>6
     DEF FetchBounds, FetchChunkBounds, CountRows, BeginStream, FetchBatch, EndOfStream,
         DropKeys, RetryTask, ReadFails, OpenFails, AppendKeys, tableVars
<1> QED
  BY <1>1, <1>5, <1>6 DEF TaskStep

\* A batch takes no value from a row of the source.
LEMMA DeletedRows ==
  ASSUME NEW n \in Chunks, BatchInvariant(n), InsertInvariant(n), IsUnique(source),
         NEW k \in Deleted(n)
  PROVE  pc[n] = "insert" /\ k \in Keys /\ target[k] # source[k]
<1>1. /\ pc[n] = "insert" /\ k \in Keys /\ known[n][k] # NoRow
      /\ \E j \in Keys \ {k} : batch[n][j] = known[n][k]
  BY DEF Deleted, Conflicts, RowsOf
<1>2. target[k] = known[n][k] /\ \A j \in Keys : batch[n][j] \in {NoRow, source[j]}
  BY <1>1 DEF InsertInvariant, BatchInvariant, Streaming
<1> QED
  BY <1>1, <1>2 DEF IsUnique

\* Nor does a delete miss the key of one.
LEMMA DeletesSpare ==
  ASSUME TypeOK, config.dynamic => InStep(config), NEW n \in Chunks,
         scope[n] = TaskScope(n), TaskRange(n) \subseteq keysStaging[n]
  PROVE  Missing(n) \cap RowsOf(source) = {}
BY ScopeInRange DEF Missing

LEMMA WithoutKeeps ==
  ASSUME NEW keys, keys \cap RowsOf(source) = {}, target' = Without(target, keys),
         version' = version
  PROVE  RowsKept
BY DEF RowsKept, Without, RowsOf

LEMMA BulkKeeps ==
  ASSUME NEW n \in Chunks, \A k \in Keys : batch[n][k] \in {NoRow, source[k]},
         NEW done, target' = BulkWritten(n, done), version' = version
  PROVE  RowsKept
BY DEF RowsKept, BulkWritten, Replaced, RowsOf

LEMMA TasksKeep ==
  ASSUME TypeOK, IsUnique(source), PhaseInvariant,
         config.delete /\ config.dynamic => InStep(config),
         NEW n \in Chunks, TaskStep(n), BatchInvariant(n), KeysInvariant(n), InsertInvariant(n)
  PROVE  RowsKept
<1>1. CASE target' = target /\ version' = version
  BY <1>1 DEF RowsKept
<1>2. pc[n] \in {"upsert", "insert", "bulk"} => \A k \in Keys : batch[n][k] \in {NoRow, source[k]}
  BY DEF BatchInvariant, Streaming
<1>3. pc[n] = "delete" => Missing(n) \cap RowsOf(source) = {}
  <2> HAVE pc[n] = "delete"
  <2>1. config.delete
    BY DEF PhaseInvariant
  <2>2. scope[n] = TaskScope(n) /\ TaskRange(n) \subseteq keysStaging[n]
    BY <2>1 DEF KeysInvariant
  <2> QED
    BY <2>1, <2>2, DeletesSpare
<1>4. pc[n] = "ids" => RowsOf(known[n]) \cap RowsOf(source) = {}
  BY DEF PhaseInvariant, KeysInvariant
<1>5. CASE ToSql
  <2>1. ~ToMongo
    BY <1>5 DEF ToSql, ToMongo
  <2>2. /\ version' = version
        /\ \A k \in Keys : \/ target'[k] \in {target[k], source[k]}
                           \/ target'[k] = NoRow /\ (k \in RowsOf(source) => target[k] # source[k])
    <3>1. /\ version' = version
          /\ \A k \in Keys :
               \/ target'[k] = target[k]
               \/ pc[n] = "insert" /\ batch[n][k] # NoRow /\ target'[k] = batch[n][k]
               \/ k \in Deleted(n) /\ target'[k] = NoRow
               \/ pc[n] = "delete" /\ k \in Missing(n) /\ target'[k] = NoRow
      BY <1>5, RowsChange
    <3>2. \A k \in Deleted(n) : target[k] # source[k]
      BY DeletedRows
    <3> QED
      BY <1>2, <1>3, <3>1, <3>2
  <2> QED
    BY <2>1, <2>2 DEF RowsKept, RowsOf
<1>6. CASE ~ToMongo /\ VersionWrites(n)
  <2>1. PICK keys \in SUBSET RowsOf(batch[n]) : WritesVersions(n, keys)
    BY <1>6 DEF VersionWrites
  <2>2. pc[n] = "upsert"
    BY <1>6 DEF VersionWrites, Goto
  <2>3. \A k \in keys : k \in Keys /\ batch[n][k] = source[k] /\ k \in RowsOf(source)
    BY <1>2, <2>1, <2>2 DEF RowsOf
  <2> QED
    BY <2>1, <2>3, RowsAreKeys DEF WritesVersions, RowsKept
<1>7. CASE ToMongo /\ MongoWrites(n)
  <2>1. ASSUME FindExisting(n) \/ FindMissing(n) PROVE RowsKept
    BY <1>1, <2>1 DEF FindExisting, FindMissing, tableVars
  <2>2. ASSUME BulkWrite(n) PROVE RowsKept
    BY <1>2, <2>2, BulkKeeps DEF BulkWrite, Goto
  <2>3. ASSUME DeleteById(n) PROVE RowsKept
    BY <1>4, <2>3, WithoutKeeps DEF DeleteById, Goto
  <2>4. ASSUME WritesFail(n) PROVE RowsKept
    <3> DEFINE deleted == IF pc[n] = "ids" THEN Without(target, RowsOf(known[n])) ELSE target
               tables  == IF pc[n] = "bulk"
                          THEN {BulkWritten(n, done) : done \in SUBSET RowsOf(batch[n])}
                          ELSE {target}
    <3>1. WriteFails(n, tables, deleted)
      BY <2>4 DEF WritesFail
    <3> HIDE DEF tables, deleted
    <3>2. /\ version' = version
          /\ \/ target' = target
             \/ pc[n] \in {"insert", "bulk"} /\ target' \in tables
             \/ pc[n] \in {"delete", "ids"} /\ target' = deleted
      BY <3>1, FailureEffects
    <3>3. CASE pc[n] \in {"insert", "bulk"} /\ target' \in tables
      BY <1>1, <1>2, <3>2, <3>3, BulkKeeps DEF tables
    <3>4. CASE pc[n] \in {"delete", "ids"} /\ target' = deleted
      BY <1>1, <1>4, <3>2, <3>4, WithoutKeeps DEF deleted
    <3> QED
      BY <1>1, <3>2, <3>3, <3>4
  <2> QED
    BY <1>7, <2>1, <2>2, <2>3, <2>4 DEF MongoWrites, UpsertBatch, DeleteMissingInScope
<1>8. CASE \/ \E b : FetchBounds(n, b) \/ FetchChunkBounds(n, b)
           \/ CountRows(n) \/ (\E rows : BeginStream(n, rows)) \/ FetchBatch(n)
           \/ EndOfStream(n) \/ DropKeys(n) \/ RetryTask(n) \/ ReadFails(n) \/ OpenFails(n)
           \/ \E remains : AppendKeys(n, remains)
  <2>1. target' = target /\ version' = version
    BY <1>8
       DEF FetchBounds, FetchChunkBounds, CountRows, BeginStream, FetchBatch, EndOfStream,
           DropKeys, RetryTask, ReadFails, OpenFails, AppendKeys, tableVars
  <2> QED
    BY <1>1, <2>1
<1> QED
  BY <1>5, <1>6, <1>7, <1>8 DEF TaskStep

-----------------------------------------------------------------------------
(* Phases of a run *)

SumOf(counts) == (CHOOSE g : IsSum(g, Chunks, counts))[Chunks]

LEMMA TransferredIsSum == Transferred = SumOf(counted)
BY DEF Transferred, MapThenSumSet, MapThenFoldSet, IsSum, Picked, SumOf

LEMMA TransferredStays == ASSUME counted' = counted PROVE Transferred' = Transferred
<1>1. (Transferred = SumOf(counted))'
  BY TransferredIsSum, PTL
<1>2. Transferred' = SumOf(counted')
  BY <1>1
<1> QED
  BY <1>2, TransferredIsSum

\* Only the first bucket begins with null.
LEMMA NullComesFirst ==
  ASSUME config \in Configurations, NEW plan \in BucketPlans, NEW j \in DOMAIN plan,
         plan[j] = NoBounds
  PROVE  j = 1
<1>1. PICK begins \in SUBSET BucketValues :
           /\ plan = Buckets(BucketValues, begins)
           /\ IsFiniteSet(begins) /\ Cardinality(begins) \in Nat
  BY BucketPlanTiles
<1>2. begins \in SUBSET Bound
  BY <1>1, BucketValuesType
<1>3. j \in 1 .. Cardinality(begins) /\ NthValue(j, begins) = Null
  BY <1>1 DEF Buckets, NoBounds
<1>4. PICK code : /\ IsColumn(code, begins)
                  /\ \A v, w \in begins : Precedes(v, w) <=> code[v] < code[w]
                  /\ \A v, w \in begins : code[v] = code[w] => v = w
  BY <1>1, <1>2, Numbering
<1>5. Null \in begins /\ IsRanked(code, begins, code[Null], j)
  BY <1>1, <1>2, <1>3, <1>4, NthIsRanked
<1>6. UpTo(code, begins, code[Null]) = {Null}
  <2>1. ASSUME NEW v \in begins, code[v] <= code[Null] PROVE v = Null
    <3>1. code[v] \in Int /\ code[Null] \in Int
      BY <1>4, <1>5 DEF IsColumn
    <3>2. ~Precedes(v, Null)
      BY DEF Precedes
    <3>3. ~(code[v] < code[Null])
      BY <1>4, <1>5, <3>2
    <3> QED
      BY <1>4, <1>5, <2>1, <3>1, <3>3
  <2>2. code[Null] <= code[Null]
    BY <1>4, <1>5 DEF IsColumn
  <2> QED
    BY <1>5, <2>1, <2>2 DEF UpTo
<1>7. Cardinality(UpTo(code, begins, code[Null])) = 1
  BY <1>6, FS_Singleton
<1> QED
  BY <1>3, <1>5, <1>7 DEF IsRanked

\* A task takes steps only while its run is running.
LEMMA TasksRun ==
  ASSUME TypeOK, PhaseInvariant, NEW n \in Chunks, TaskStep(n)
  PROVE  /\ phase = "running" /\ pc[n] \notin {"idle", "done"} /\ (config.dynamic \/ n = 1)
         /\ OfMongo => Assigned(n)
<1>1. pc[n] \notin {"idle", "done"}
  <2>1. CASE MongoWrites(n)
    BY <2>1 DEF MongoWrites, UpsertBatch, FindExisting, BulkWrite, DeleteMissingInScope,
         FindMissing, DeleteById, WritesFail, WriteFails, Goto
  <2>2. CASE VersionWrites(n)
    BY <2>2 DEF VersionWrites, Goto
  <2>3. CASE SqlWrites(n)
    BY <2>3 DEF SqlWrites, DeleteConflicts, EndUpsert, Upsert, RejectUpsert, DeadlockVictim,
         LoseUpsert, DeleteMissing, WriteFails, Goto
  <2> QED
    BY <2>1, <2>2, <2>3
       DEF TaskStep, FetchBounds, CountRows, BeginStream, FetchBatch, EndOfStream, AppendKeys,
           FetchChunkBounds, DropKeys, ReadFails, OpenFails, RetryTask, Goto
<1>2. phase \in {"idle", "validated", "counted", "running", "reported"}
  BY DEF TypeOK
<1> QED
  BY <1>1, <1>2, HasColumns DEF PhaseInvariant, TypeOK

\* Where a task goes.
LEMMA TaskSteps ==
  ASSUME TypeOK, PhaseInvariant, NEW n \in Chunks, TaskStep(n)
  PROVE  /\ pc'[n] # "idle"
         /\ pc'[n] \in {"bulk", "ids"} => ToMongo
         /\ pc'[n] = "insert" => ToSql /\ DeleteConflicts(n)
         /\ pc'[n] \in {"scope", "delete"} => config.delete
         /\ pc'[n] = "ids" => pc[n] = "delete"
         /\ pc'[n] = "drop" => pc[n] \in {"delete", "ids"}
<1> USE DEF Goto
<1> pc \in [Chunks -> Locations] /\ config.delete \in BOOLEAN
  BY HasColumns DEF TypeOK
<1>1. CASE ToMongo /\ MongoWrites(n)
  BY <1>1 DEF MongoWrites, UpsertBatch, FindExisting, BulkWrite, DeleteMissingInScope,
       FindMissing, DeleteById, WritesFail, WriteFails, FailTask
<1>2. CASE VersionWrites(n) \/ (ToSql /\ SqlWrites(n))
  <2>1. CASE VersionWrites(n)
    BY <2>1 DEF VersionWrites, FailTask
  <2>2. CASE \E tables, deleted : WriteFails(n, tables, deleted)
    BY <2>2 DEF WriteFails, FailTask
  <2>3. CASE DeleteMissing(n)
    BY <2>3 DEF DeleteMissing
  <2>4. CASE ToSql /\ DeleteConflicts(n)
    BY <2>4 DEF DeleteConflicts
  <2>5. CASE \E to \in {"append", "failed", "upsert"} : EndUpsert(n, to)
    BY <2>5 DEF EndUpsert
  <2> QED
    BY <1>2, <2>1, <2>2, <2>3, <2>4, <2>5
       DEF SqlWrites, Upsert, RejectUpsert, DeadlockVictim, LoseUpsert
<1>3. CASE FetchChunkBounds(n, ChunkScope(n))
  BY <1>3 DEF FetchChunkBounds, PhaseInvariant
<1>4. CASE CountRows(n) \/ EndOfStream(n) \/ RetryTask(n)
  BY <1>4 DEF CountRows, EndOfStream, RetryTask, AfterStream, FirstStep
<1>5. CASE \/ FetchBounds(n, BoundsOf(config.scopeColumn, RowsOf(source)))
           \/ BeginStream(n, TaskRange(n)) \/ FetchBatch(n) \/ DropKeys(n) \/ ReadFails(n)
           \/ OpenFails(n) \/ \E remains : AppendKeys(n, remains)
  BY <1>5
     DEF FetchBounds, BeginStream, FetchBatch, AppendKeys, DropKeys, ReadFails, OpenFails,
         FailTask
<1> QED
  BY <1>1, <1>2, <1>3, <1>4, <1>5 DEF TaskStep

LEMMA PhasesOfTasks ==
  ASSUME TypeOK, PhaseInvariant, NEW n \in Chunks, TaskStep(n)
  PROVE  PhaseInvariant'
<1>1. /\ phase = "running" /\ (config.dynamic \/ n = 1) /\ (OfMongo => Assigned(n))
      /\ UNCHANGED <<config, phase, bounds>>
  BY TasksRun, TasksLeaveRun DEF runVars
<1>2. ASSUME NEW m \in Chunks
      PROVE  /\ pc'[m] = "idle" => counted'[m] = 0
             /\ ~config.dynamic /\ m # 1 => pc'[m] \in {"idle", "done"} /\ counted'[m] = 0
             /\ pc'[m] \in {"scope", "delete", "ids", "drop"} => config.delete
             /\ pc'[m] \in {"bulk", "ids"} => ToMongo
             /\ pc'[m] = "insert" => ToSql
             /\ OfMongo /\ ~Assigned(m) => pc'[m] \in {"idle", "done"}
  <2>1. CASE m = n
    BY <1>1, <2>1, TaskSteps DEF PhaseInvariant
  <2>2. CASE m # n
    BY <2>2, OthersStay DEF PhaseInvariant, Of
  <2> QED
    BY <2>1, <2>2
<1>3. (ToMongo' <=> ToMongo) /\ (ToSql' <=> ToSql) /\ (OfMongo' <=> OfMongo)
      /\ \A m : Assigned(m)' <=> Assigned(m)
  BY <1>1 DEF ToMongo, ToSql, OfMongo, Assigned
<1> QED
  BY <1>1, <1>2, <1>3 DEF PhaseInvariant

LEMMA PhasesOfRuns == ASSUME TypeOK, PhaseInvariant, RunStep PROVE PhaseInvariant'
<1> pc \in [Chunks -> Locations] /\ counted \in [Chunks -> Nat] /\ config.dynamic \in BOOLEAN
  BY HasColumns DEF TypeOK
<1>1. CASE \/ (\E versions \in SUBSET Versions : BeginRun(versions)) \/ CountTotal \/ GiveUpRun
  BY <1>1 DEF BeginRun, CountTotal, GiveUpRun, PhaseInvariant, taskVars, ToMongo
<1>2. ASSUME NEW plan, ExpandChunks(plan), OfMongo => plan \in BucketPlans PROVE PhaseInvariant'
  <2>1. \A n \in Chunks : /\ pc'[n] = IF n \in DOMAIN plan THEN "prepare" ELSE "done"
                          /\ bounds'[n] = IF n \in DOMAIN plan THEN plan[n] ELSE NoBounds
                          /\ counted'[n] = 0
    BY <1>2 DEF ExpandChunks, FirstStep, PhaseInvariant, taskVars
  <2>2. config.dynamic /\ config' = config /\ phase' = "running"
    BY <1>2 DEF ExpandChunks, PhaseInvariant
  <2>3. ASSUME NEW n \in Chunks, OfMongo, pc'[n] # "done" PROVE Assigned(n)'
    <3>1. n \in DOMAIN plan /\ bounds'[n] = plan[n]
      BY <2>1, <2>3
    <3>2. plan[n] = NoBounds => n = 1
      BY <1>2, <2>3, <3>1, NullComesFirst DEF TypeOK
    <3> QED
      BY <2>2, <3>1, <3>2 DEF Assigned
  <2>4. OfMongo' <=> OfMongo
    BY <2>2 DEF OfMongo
  <2> QED
    BY <2>1, <2>2, <2>3, <2>4 DEF PhaseInvariant
<1>3. CASE BeginTask
  <2>1. \A n \in Chunks : /\ pc'[n] \in {"bounds", "count", "done"} /\ counted'[n] = 0
                          /\ n # 1 => pc'[n] = "done"
    BY <1>3 DEF BeginTask, FirstStep, PhaseInvariant, taskVars
  <2> QED
    BY <1>3, <2>1 DEF BeginTask, PhaseInvariant, Assigned
<1>4. CASE ReportRun(Transferred)
  <2>1. counted' = counted /\ report' = Transferred
    BY <1>4 DEF ReportRun, taskVars
  <2>2. report' = Transferred'
    BY <2>1, TransferredStays
  <2> QED
    BY <1>4, <2>1, <2>2 DEF ReportRun, PhaseInvariant
<1>5. CASE LeaveRun
  BY <1>5 DEF LeaveRun, PhaseInvariant
<1> QED
  BY <1>1, <1>2, <1>3, <1>4, <1>5 DEF RunStep

LEMMA PhasesStay ==
  ASSUME PhaseInvariant, UNCHANGED <<config, phase, bounds, pc, counted, report>>
  PROVE  PhaseInvariant'
<1>1. Transferred' = Transferred
  BY TransferredStays
<1> QED
  BY <1>1 DEF PhaseInvariant, ToMongo, ToSql, OfMongo, Assigned

LEMMA UniqueStays ==
  ASSUME TypeOK, UniqueValues, IsUnique(source), NEW change \in Changes,
         ChangeSource(change[1], change[2])
  PROVE  IsUnique(source)'
<1> DEFINE key == change[1]
           row == change[2]
<1>1. key \in Keys /\ row \in Values \cup {NoRow}
  BY ConfigIsSound
<1>2. row = NoRow \/ \A j \in Keys : source[j] # row
  BY <1>1 DEF ChangeSource, UniqueValues
<1>3. \A k \in Keys : source'[k] = IF k = key THEN row ELSE source[k]
  BY DEF ChangeSource, TypeOK, Table
<1> QED
  BY <1>2, <1>3 DEF IsUnique

-----------------------------------------------------------------------------
(* The steps of a task while the source stands still *)

\* Every row of the batch is in the target, or a later version of it.
Written(n) ==
  /\ pc[n] \in {"upsert", "insert", "bulk"} /\ pc'[n] = "append"
  /\ \A k \in RowsOf(batch[n]) : version'[k] <= runVersion => target'[k] = batch[n][k]
  /\ UNCHANGED <<keysStaging, scope, unread, batch, counted>>

Appended(n) ==
  /\ Goto(n, "append", "fetch")
  /\ counted' = [counted EXCEPT ![n] = @ + Cardinality(RowsOf(batch[n]))]
  /\ batch' = [batch EXCEPT ![n] = EmptyTable]
  /\ keysStaging' = IF config.delete
                    THEN [keysStaging EXCEPT ![n] = AppendedKeys(n)] ELSE keysStaging
  /\ UNCHANGED <<target, version, scope, unread, known>>

TaskMove(n) ==
  \/ pc'[n] \in {"retry", "failed"}
  \/ pc'[n] = FirstStep
  \/ ~config.dynamic /\ FetchBounds(n, BoundsOf(config.scopeColumn, RowsOf(source)))
  \/ ~config.dynamic /\ CountRows(n)
  \/ ~OfTable /\ BeginStream(n, TaskRange(n))
  \/ FetchBatch(n) \/ Written(n) \/ Appended(n) \/ EndOfStream(n)
  \/ FetchChunkBounds(n, ChunkScope(n)) \/ DeleteMissing(n) \/ DropKeys(n)
  \/ DeleteConflicts(n) \/ DeadlockVictim(n)
  \/ ToMongo /\ (FindExisting(n) \/ FindMissing(n) \/ DeleteById(n))

LEMMA FailedTasksStop ==
  ASSUME TypeOK, NEW n \in Chunks, NEW kind, FailTask(n, kind)
  PROVE  pc'[n] \in {"retry", "failed"}
BY DEF FailTask, TypeOK

LEMMA TaskMoves ==
  ASSUME TypeOK, NEW n \in Chunks, TaskStep(n), BatchInvariant(n), InsertInvariant(n),
         FindInvariant(n), undisturbed'
  PROVE  TaskMove(n)
<1> pc \in [Chunks -> Locations]
  BY DEF TypeOK
<1>1. CASE SqlWrites(n)
  <2>1. ASSUME NEW tables, Upsert(n, tables), HasBatch(n) PROVE Written(n)
    <3>1. /\ pc[n] = "insert" /\ pc'[n] = "append"
          /\ UNCHANGED <<keysStaging, scope, unread, batch, counted>>
      BY <2>1 DEF Upsert, EndUpsert, Goto
    <3>2. ASSUME NEW k \in RowsOf(batch[n]) PROVE target'[k] = batch[n][k]
      <4>1. batch[n][k] = source[k]
        BY <3>1 DEF BatchInvariant, Streaming, RowsOf
      <4>2. k \in Late(n) => target[k] = source[k]
        BY <3>1 DEF InsertInvariant
      <4> QED
        BY <2>1, <4>1, <4>2 DEF HasBatch
    <3> QED
      BY <3>1, <3>2 DEF Written
  <2>2. ~LoseUpsert(n)
    BY DEF LoseUpsert
  <2>3. ASSUME NEW tables, NEW deleted, WriteFails(n, tables, deleted)
        PROVE  pc'[n] \in {"retry", "failed"}
    BY <2>3, FailedTasksStop DEF WriteFails
  <2>4. ASSUME NEW tables, RejectUpsert(n, tables) PROVE pc'[n] = "failed"
    BY <2>4 DEF RejectUpsert, EndUpsert, Goto
  <2> QED
    BY <1>1, <2>1, <2>2, <2>3, <2>4 DEF SqlWrites, TaskMove
<1>2. CASE VersionWrites(n)
  <2> DEFINE Done(keys) == /\ Goto(n, "upsert", "append")
                           /\ \A k \in RowsOf(batch[n]) \ keys : version[k] > runVersion
             Failed     == \E kind \in {"link", "died"} : FailTask(n, kind)
  <2>1. PICK keys \in SUBSET RowsOf(batch[n]) : WritesVersions(n, keys) /\ (Done(keys) \/ Failed)
    <3>1. undisturbed' # FALSE
      OBVIOUS
    <3>2. PICK keys \in SUBSET RowsOf(batch[n]) :
            /\ WritesVersions(n, keys)
            /\ \/ Done(keys)
               \/ undisturbed' = FALSE
               \/ Failed
      <4> HIDE DEF Failed
      <4> QED
        BY <1>2, Zenon DEF VersionWrites, Failed
    <3> QED
      BY <3>1, <3>2
  <2>2. CASE Failed
    BY <2>2, FailedTasksStop DEF TaskMove
  <2>3. CASE Done(keys)
    <3>1. ASSUME NEW k \in RowsOf(batch[n]), version'[k] <= runVersion
          PROVE  target'[k] = batch[n][k]
      <4>1. k \in Keys /\ version[k] \in Nat /\ runVersion \in Nat
        <5>1. k \in Keys
          BY DEF RowsOf
        <5>2. version[k] \in Versions \cup {0} /\ runVersion \in Versions \cup {0}
          BY <5>1 DEF TypeOK
        <5>3. Versions \cup {0} \subseteq Nat
          BY ConfigIsSound
        <5> QED
          BY <5>1, <5>2, <5>3
      <4>2. k \in keys
        BY <2>1, <2>3, <3>1, <4>1 DEF WritesVersions
      <4> QED
        BY <2>1, <4>1, <4>2 DEF WritesVersions
    <3>2. UNCHANGED taskVars /\ keysStaging' = keysStaging
      BY <1>2 DEF VersionWrites
    <3>3. Written(n)
      BY <2>3, <3>1, <3>2 DEF Written, Goto, taskVars
    <3> QED
      BY <3>3 DEF TaskMove
  <2> QED
    BY <2>1, <2>2, <2>3
<1>3. CASE ToMongo /\ MongoWrites(n)
  <2>1. ASSUME BulkWrite(n) PROVE Written(n)
    <3>1. ASSUME NEW k \in RowsOf(batch[n]) PROVE target'[k] = batch[n][k]
      <4>1. k \in Keys /\ pc[n] = "bulk" /\ batch[n][k] # NoRow /\ batch[n][k] = source[k]
        BY <2>1 DEF RowsOf, BulkWrite, Goto, BatchInvariant, Streaming
      <4>2. known[n][k] # NoRow =>
              target[k] # NoRow /\ (known[n][k] = source[k] => target[k] = source[k])
        BY <4>1 DEF FindInvariant
      <4> QED
        BY <2>1, <4>1, <4>2 DEF BulkWrite, BulkWritten, Replaced
    <3> QED
      BY <2>1, <3>1 DEF BulkWrite, Written, Goto
  <2>2. ASSUME WritesFail(n) PROVE pc'[n] \in {"retry", "failed"}
    BY <2>2, FailedTasksStop DEF WritesFail, WriteFails
  <2> QED
    BY <1>3, <2>1, <2>2
       DEF MongoWrites, UpsertBatch, DeleteMissingInScope, TaskMove
<1>4. ASSUME NEW remains, AppendKeys(n, remains) PROVE Appended(n)
  BY <1>4 DEF AppendKeys, Appended
<1>5. ReadFails(n) \/ OpenFails(n) => pc'[n] \in {"retry", "failed"}
  BY FailedTasksStop DEF ReadFails, OpenFails
<1>6. RetryTask(n) => pc'[n] = FirstStep
  BY DEF RetryTask, Goto
<1> QED
  BY <1>1, <1>2, <1>3, <1>4, <1>5, <1>6 DEF TaskStep, TaskMove

-----------------------------------------------------------------------------
(* What a task leaves of the others *)

LEMMA RangesStay ==
  ASSUME UNCHANGED <<config, source, bounds>>, NEW n \in Chunks
  PROVE  /\ TaskRange(n)' = TaskRange(n) /\ RowsOf(source)' = RowsOf(source)
         /\ TaskScope(n)' = TaskScope(n)
         /\ Assigned(n)' <=> Assigned(n)
BY DEF TaskRange, TaskScope, ChunkScope, Assigned, OfMongo

LEMMA InTargetStays ==
  ASSUME TypeOK, RowsKept, UNCHANGED <<source, runVersion>>, NEW k \in RowsOf(source), InTarget(k)
  PROVE  InTarget(k)'
<1>1. k \in Keys
  BY DEF RowsOf
<1>2. CASE version'[k] = version[k]
  BY <1>1, <1>2 DEF RowsKept, InTarget
<1>3. CASE version'[k] # version[k]
  BY <1>1, <1>3 DEF RowsKept, InTarget
<1> QED
  BY <1>2, <1>3

LEMMA OrphansOnlyGo ==
  ASSUME RowsKept, UNCHANGED <<config, source, bounds>>, NEW n \in Chunks
  PROVE  /\ Orphans(n)' \subseteq Orphans(n)
         /\ \A k \in Orphans(n)' : target'[k] = target[k]
<1>1. ASSUME NEW k \in Orphans(n)' PROVE k \in Orphans(n) /\ target'[k] = target[k]
  <2>1. k \in Keys /\ k \notin RowsOf(source) /\ target'[k] # NoRow
        /\ InBounds(config.scopeColumn, TaskScope(n), k)
    BY <1>1, RangesStay DEF Orphans, RowsOf
  <2> QED
    BY <2>1 DEF RowsKept, Orphans, RowsOf
<1> QED
  BY <1>1

\* The locks of the others.
LEMMA LocksOfOthers ==
  ASSUME TypeOK, NEW n \in Chunks, TaskStep(n)
  PROVE  /\ \A m \in Chunks \ {n} : Deleted(m)' = Deleted(m) /\ Deleted(m) \subseteq Locked(n)
         /\ Locked(n)' = Locked(n)
<1>1. ASSUME NEW m \in Chunks \ {n} PROVE Deleted(m)' = Deleted(m)
  BY OthersStay DEF Of, Deleted, Conflicts, RowsOf
<1> QED
  BY <1>1 DEF Locked

LEMMA DeletesConflicts ==
  ASSUME TypeOK, NEW n \in Chunks, DeleteConflicts(n)
  PROVE  /\ UNCHANGED <<target, batch>>
         /\ Deleted(n)' = Conflicts(target, batch[n])
         /\ Deleted(n)' \cap Locked(n) = {}
         /\ \A k \in Deleted(n)' : known'[n][k] = target[k]
         /\ Late(n)' = {}
<1>1. /\ pc[n] = "upsert" /\ pc'[n] = "insert" /\ UNCHANGED <<target, batch>>
      /\ known'[n] = [k \in Keys |-> IF k \in RowsOf(batch[n]) \cup Conflicts(target, batch[n])
                                     THEN target[k] ELSE NoRow]
  BY DEF DeleteConflicts, Goto, TypeOK, tableVars
<1>2. Deleted(n)' = Conflicts(known'[n], batch[n])
  BY <1>1 DEF Deleted, Conflicts, RowsOf
<1>3. \A k \in Keys : known'[n][k] # NoRow => known'[n][k] = target[k]
  BY <1>1
<1>4. \A k \in Conflicts(target, batch[n]) : k \in Keys /\ known'[n][k] = target[k]
  BY <1>1 DEF Conflicts, RowsOf
<1>5. Conflicts(known'[n], batch[n]) = Conflicts(target, batch[n])
  BY <1>3, <1>4 DEF Conflicts, RowsOf
<1>6. Touched(n) = Conflicts(target, batch[n]) /\ ~Waits(n)
  BY <1>1 DEF Touched, DeleteConflicts
<1>7. Late(n)' = {}
  <2>1. \A k \in RowsOf(batch[n]) : k \in Keys /\ known'[n][k] = target[k]
    BY <1>1 DEF RowsOf
  <2> QED
    BY <1>1, <2>1 DEF Late, RowsOf
<1> QED
  BY <1>1, <1>2, <1>4, <1>5, <1>6, <1>7 DEF Waits

\* What a transaction has deleted, no other task writes.
LEMMA LocksHold ==
  ASSUME TypeOK, PhaseInvariant, ToSql, NEW n \in Chunks, TaskStep(n), InsertInvariant(n),
         NEW k \in Keys, k \in Locked(n)
  PROVE  target'[k] = target[k]
<1>1. \/ target'[k] = target[k]
      \/ pc[n] = "insert" /\ ~Waits(n) /\ batch[n][k] # NoRow
      \/ k \in Deleted(n)
      \/ pc[n] = "delete" /\ ~Waits(n) /\ k \in Missing(n)
  BY RowsChange
<1>2. CASE pc[n] = "insert" /\ ~Waits(n) /\ batch[n][k] # NoRow
  BY <1>2 DEF Waits, Touched, RowsOf
<1>3. CASE pc[n] = "delete" /\ ~Waits(n) /\ k \in Missing(n)
  BY <1>3 DEF Waits, Touched
<1>4. CASE k \in Deleted(n)
  BY <1>4 DEF InsertInvariant, Deleted
<1> QED
  BY <1>1, <1>2, <1>3, <1>4

\* A task with something in its range has been given it by the plan.
LEMMA TasksAreAssigned ==
  ASSUME PhaseInvariant, config.dynamic \in BOOLEAN, NEW n \in Chunks,
         pc[n] \notin {"idle", "done"}, TaskRange(n) # {}
  PROVE  Assigned(n)
<1>1. CASE ~config.dynamic
  BY <1>1 DEF PhaseInvariant, Assigned
<1>2. CASE OfMongo
  BY <1>2 DEF PhaseInvariant
<1>3. CASE config.dynamic /\ ~OfMongo
  BY <1>3 DEF Assigned, TaskRange, InBounds, NoBounds
<1> QED
  BY <1>1, <1>2, <1>3

LEMMA OthersInsert ==
  ASSUME TypeOK, PhaseInvariant, IsUnique(source), RowsKept, UNCHANGED <<config, source, bounds>>,
         NEW n \in Chunks, TaskStep(n), TaskInvariant(n),
         NEW m \in Chunks \ {n}, TaskInvariant(m)
  PROVE  InsertInvariant(m)'
<1>1. Of(m)' = Of(m)
  BY OthersStay
<1>2. pc'[m] = pc[m] /\ batch'[m] = batch[m] /\ known'[m] = known[m]
  BY <1>1 DEF Of
<1> SUFFICES ASSUME pc[m] = "insert" PROVE InsertInvariant(m)'
  BY <1>2 DEF InsertInvariant
<1>3. /\ ToSql /\ ~OfTable /\ InsertInvariant(m)
      /\ \A k \in Keys : batch[m][k] \in {NoRow, source[k]}
  BY DEF PhaseInvariant, ToSql, OfTable, TaskInvariant, BatchInvariant, Streaming
<1>4. /\ \A l \in Chunks \ {n} : Deleted(l)' = Deleted(l) /\ Deleted(l) \subseteq Locked(n)
      /\ Locked(n)' = Locked(n)
  BY LocksOfOthers
<1>5. Deleted(m)' \cap Locked(m)' = {}
  <2>1. ASSUME NEW l \in Chunks \ {m}, NEW k \in Deleted(m), k \in Deleted(l)' PROVE FALSE
    <3>1. CASE l = n
      <4>1. pc'[n] = "insert"
        BY <2>1, <3>1 DEF Deleted
      <4>2. Deleted(n)' \cap Locked(n) = {}
        BY <4>1, TaskSteps, DeletesConflicts
      <4> QED
        BY <1>4, <2>1, <3>1, <4>2
    <3>2. CASE l # n
      BY <1>3, <1>4, <2>1, <3>2 DEF InsertInvariant, Locked
    <3> QED
      BY <3>1, <3>2
  <2>2. Locked(m)' = UNION {Deleted(l)' : l \in Chunks \ {m}}
    BY DEF Locked
  <2> QED
    BY <1>4, <2>1, <2>2
<1>6. ASSUME NEW k \in Deleted(m) PROVE target'[k] = known[m][k]
  <2>1. k \in Keys /\ k \in Locked(n) /\ target[k] = known[m][k]
    BY <1>3, <1>4 DEF Deleted, Conflicts, RowsOf, InsertInvariant
  <2> QED
    BY <1>3, <2>1, LocksHold DEF TaskInvariant
<1>7. ASSUME NEW k \in Conflicts(target', batch[m]) PROVE k \in Deleted(m)
  <2>1. k \in Keys /\ target'[k] # NoRow /\ \E j \in Keys \ {k} : source[j] = target'[k]
    BY <1>3 DEF Conflicts, RowsOf
  <2>2. target'[k] = target[k]
    BY <2>1 DEF RowsKept, IsUnique, RowsOf
  <2>3. k \in Conflicts(target, batch[m])
    BY <2>2 DEF Conflicts, RowsOf
  <2> QED
    BY <1>3, <2>3 DEF InsertInvariant
<1>8. ASSUME NEW k \in RowsOf(batch[m]), known[m][k] = NoRow, target'[k] # NoRow
      PROVE  target'[k] = source[k] /\ \E l \in Chunks \ {m} : Assigned(l) /\ k \in TaskRange(l)
  <2>1. k \in Keys /\ k \in RowsOf(source)
    BY <1>3 DEF RowsOf
  <2>2. CASE target[k] # NoRow
    BY <1>3, <1>8, <2>1, <2>2 DEF InsertInvariant, Late, RowsKept
  <2>3. CASE target[k] = NoRow
    <3>1. pc[n] = "insert" /\ batch[n][k] # NoRow /\ target'[k] = batch[n][k]
      BY <1>3, <1>8, <2>1, <2>3, RowsChange
    <3>2. batch[n][k] = source[k] /\ k \in TaskRange(n)
      BY <1>3, <2>1, <3>1
         DEF TaskInvariant, BatchInvariant, CopyInvariant, Streaming, RowsOf
    <3>3. Assigned(n)
      BY <3>1, <3>2, TasksAreAssigned, HasColumns DEF TypeOK
    <3> QED
      BY <3>1, <3>2, <3>3
  <2> QED
    BY <2>2, <2>3
<1>9. /\ Conflicts(target, batch[m])' = Conflicts(target', batch[m])
      /\ Late(m)' = {k \in RowsOf(batch[m]) : known[m][k] = NoRow /\ target'[k] # NoRow}
  BY <1>2 DEF Conflicts, Late, RowsOf
<1>10. \A l \in Chunks : TaskRange(l)' = TaskRange(l) /\ (Assigned(l)' <=> Assigned(l))
  BY RangesStay
<1> QED
  BY <1>2, <1>4, <1>5, <1>6, <1>7, <1>8, <1>9, <1>10 DEF InsertInvariant

LEMMA OthersKeepInvariant ==
  ASSUME TypeOK, PhaseInvariant, RowsKept, UNCHANGED <<config, source, bounds, runVersion>>,
         NEW m \in Chunks, Of(m)' = Of(m), TaskInvariant(m), InsertInvariant(m)'
  PROVE  TaskInvariant(m)'
<1>1. /\ TaskRange(m)' = TaskRange(m) /\ RowsOf(source)' = RowsOf(source)
      /\ TaskScope(m)' = TaskScope(m)
      /\ Assigned(m)' <=> Assigned(m)
  BY RangesStay
<1>2. /\ pc'[m] = pc[m] /\ keysStaging'[m] = keysStaging[m] /\ scope'[m] = scope[m]
      /\ unread'[m] = unread[m] /\ batch'[m] = batch[m] /\ known'[m] = known[m]
      /\ counted'[m] = counted[m]
  BY DEF Of
<1>3. /\ RowsOf(batch[m])' = RowsOf(batch[m]) /\ RowsOf(known[m])' = RowsOf(known[m])
      /\ Unwritten(m)' = Unwritten(m) /\ Uncounted(m)' = Uncounted(m)
  BY <1>2 DEF RowsOf, Unwritten, Uncounted
<1>4. \A k \in RowsOf(source) : InTarget(k) => InTarget(k)'
  BY InTargetStays
<1>5. BatchInvariant(m)'
  BY <1>2 DEF BatchInvariant, TaskInvariant
<1>6. KeysInvariant(m)'
  BY <1>1, <1>2, <1>3, OrphansOnlyGo DEF KeysInvariant, TaskInvariant
<1>7. FindInvariant(m)'
  <2>1. SUFFICES ASSUME pc[m] = "bulk", NEW k \in RowsOf(batch[m]), known[m][k] # NoRow
                 PROVE  target'[k] # NoRow
                        /\ (known[m][k] = source[k] => target'[k] = source[k])
    BY <1>2, <1>3 DEF FindInvariant
  <2>2. ToMongo /\ k \in RowsOf(source)
    BY <2>1 DEF PhaseInvariant, TaskInvariant, BatchInvariant, Streaming, RowsOf
  <2>3. target[k] # NoRow /\ (known[m][k] = source[k] => target[k] = source[k])
    BY <2>1 DEF TaskInvariant, FindInvariant
  <2> QED
    BY <2>2, <2>3 DEF RowsKept, RowsOf
<1>8. CopyInvariant(m) => CopyInvariant(m)'
  BY <1>1, <1>2, <1>3, <1>4 DEF CopyInvariant, TaskRange
<1>9. CountInvariant(m) => CountInvariant(m)'
  BY <1>1, <1>2, <1>3 DEF CountInvariant
<1> QED
  BY <1>5, <1>6, <1>7, <1>8, <1>9 DEF TaskInvariant, OfTable

-----------------------------------------------------------------------------
(* What a task does with its own rows *)

\* By which step a task gets where it is.
LEMMA Arrivals ==
  ASSUME TypeOK, NEW n \in Chunks, TaskMove(n)
  PROVE  /\ pc'[n] = "upsert" => FetchBatch(n) \/ DeadlockVictim(n)
         /\ pc'[n] = "insert" => DeleteConflicts(n)
         /\ pc'[n] = "bulk" => FindExisting(n)
         /\ pc'[n] = "append" => Written(n)
         /\ pc'[n] = "fetch" => (~OfTable /\ BeginStream(n, TaskRange(n))) \/ Appended(n)
         /\ pc'[n] = "scope" => EndOfStream(n) \/ (CountRows(n) /\ ~config.dynamic)
         /\ pc'[n] = "delete" => \/ EndOfStream(n) \/ (CountRows(n) /\ ~config.dynamic)
                                 \/ FetchChunkBounds(n, ChunkScope(n))
         /\ pc'[n] = "ids" => FindMissing(n)
         /\ pc'[n] = "drop" => DeleteMissing(n) \/ DeleteById(n)
         /\ pc'[n] = "done" => \/ EndOfStream(n) \/ (CountRows(n) /\ ~config.dynamic)
                               \/ DropKeys(n)
         /\ pc'[n] = "count" /\ config.delete =>
              FetchBounds(n, BoundsOf(config.scopeColumn, RowsOf(source)))
         /\ pc'[n] = "prepare" /\ ~config.dynamic => CountRows(n)
<1> pc \in [Chunks -> Locations] /\ config.dynamic \in BOOLEAN /\ config.delete \in BOOLEAN
  BY HasColumns DEF TypeOK
<1> USE DEF Goto
<1>1. CASE pc'[n] \in {"retry", "failed"}
  BY <1>1
<1>2. CASE pc'[n] = FirstStep
  BY <1>2 DEF FirstStep
<1>3. CASE FetchBounds(n, BoundsOf(config.scopeColumn, RowsOf(source)))
  <2>1. pc'[n] = "count"
    BY <1>3 DEF FetchBounds
  <2> QED
    BY <1>3, <2>1
<1>4. CASE ~config.dynamic /\ CountRows(n)
  <2>1. pc'[n] \in {"prepare", "done", "scope", "delete"}
    BY <1>4 DEF CountRows, AfterStream
  <2> QED
    BY <1>4, <2>1
<1>5. CASE (~OfTable /\ BeginStream(n, TaskRange(n))) \/ Appended(n)
  <2>1. pc'[n] = "fetch"
    BY <1>5 DEF BeginStream, Appended
  <2> QED
    BY <1>5, <2>1
<1>6. CASE FetchBatch(n)
  <2>1. pc'[n] = "upsert"
    BY <1>6 DEF FetchBatch
  <2> QED
    BY <1>6, <2>1
<1>7. CASE Written(n)
  <2>1. pc'[n] = "append"
    BY <1>7 DEF Written
  <2> QED
    BY <1>7, <2>1
<1>8. CASE EndOfStream(n)
  <2>1. pc'[n] \in {"done", "scope", "delete"}
    BY <1>8 DEF EndOfStream, AfterStream
  <2> QED
    BY <1>8, <2>1
<1>9. CASE FetchChunkBounds(n, ChunkScope(n))
  <2>1. pc'[n] = "delete"
    BY <1>9 DEF FetchChunkBounds
  <2> QED
    BY <1>9, <2>1
<1>10. CASE DeleteMissing(n) \/ DeleteById(n)
  <2>1. pc'[n] = "drop"
    BY <1>10 DEF DeleteMissing, DeleteById
  <2> QED
    BY <1>10, <2>1
<1>11. CASE DropKeys(n)
  <2>1. pc'[n] = "done"
    BY <1>11 DEF DropKeys
  <2> QED
    BY <1>11, <2>1
<1>12. CASE FindExisting(n)
  <2>1. pc'[n] = "bulk"
    BY <1>12 DEF FindExisting
  <2> QED
    BY <1>12, <2>1
<1>13. CASE FindMissing(n)
  <2>1. pc'[n] = "ids"
    BY <1>13 DEF FindMissing
  <2> QED
    BY <1>13, <2>1
<1>14. CASE DeleteConflicts(n)
  <2>1. pc'[n] = "insert"
    BY <1>14 DEF DeleteConflicts
  <2> QED
    BY <1>14, <2>1
<1>15. CASE DeadlockVictim(n)
  <2>1. pc'[n] = "upsert"
    BY <1>15 DEF DeadlockVictim, EndUpsert
  <2> QED
    BY <1>15, <2>1
<1> QED
  BY <1>1, <1>2, <1>3, <1>4, <1>5, <1>6, <1>7, <1>8, <1>9, <1>10, <1>11, <1>12, <1>13, <1>14,
     <1>15
     DEF TaskMove

\* A task that has looked at the target, or has to begin again, has its batch as it was.
LEMMA Looking ==
  ASSUME TypeOK, NEW n \in Chunks, FindExisting(n) \/ DeleteConflicts(n) \/ DeadlockVictim(n)
  PROVE  /\ pc[n] \in {"upsert", "insert"} /\ pc'[n] \in {"upsert", "insert", "bulk"}
         /\ UNCHANGED <<keysStaging, scope, unread, batch, counted>>
         /\ Unwritten(n)' = Unwritten(n) /\ Uncounted(n)' = Uncounted(n)
<1>1. /\ pc[n] \in {"upsert", "insert"} /\ pc'[n] \in {"upsert", "insert", "bulk"}
      /\ UNCHANGED <<keysStaging, scope, unread, batch, counted>>
  BY DEF FindExisting, DeleteConflicts, DeadlockVictim, EndUpsert, Goto, TypeOK, tableVars
<1> QED
  BY <1>1 DEF Unwritten, Uncounted, RowsOf

\* What a task fetches is in the source, and was still to come.
LEMMA Fetched ==
  ASSUME TypeOK, NEW n \in Chunks, FetchBatch(n)
  PROVE  /\ \A k \in Keys : batch'[n][k] \in {NoRow, source[k]}
         /\ pc[n] = "fetch"
         /\ unread[n] \subseteq unread'[n] \cup RowsOf(batch[n])' \cup (Keys \ RowsOf(source))
         /\ unread'[n] \cup RowsOf(batch[n])' \subseteq unread[n]
         /\ UNCHANGED <<target, version, keysStaging, scope, counted>>
         /\ unread[n] \subseteq RowsOf(source) =>
              Cardinality(unread'[n]) + Cardinality(RowsOf(batch[n])') = Cardinality(unread[n])
<1>1. PICK rows \in NextRows(n) :
        /\ batch' = [batch EXCEPT ![n] =
             [k \in Keys |-> IF k \in rows THEN source[k] ELSE NoRow]]
        /\ unread' = [unread EXCEPT ![n] = @ \ rows]
  BY DEF FetchBatch
<1>2. /\ batch'[n] = [k \in Keys |-> IF k \in rows THEN source[k] ELSE NoRow]
      /\ unread'[n] = unread[n] \ rows
      /\ rows \subseteq unread[n] /\ unread[n] \subseteq Keys
  BY <1>1 DEF TypeOK, NextRows
<1>3. \A k \in Keys : batch'[n][k] \in {NoRow, source[k]}
  BY <1>2
<1>4. RowsOf(batch[n])' = {k \in rows : source[k] # NoRow}
  BY <1>2 DEF RowsOf
<1>5. unread[n] \subseteq unread'[n] \cup RowsOf(batch[n])' \cup (Keys \ RowsOf(source))
  BY <1>2, <1>4 DEF RowsOf
<1>6. unread'[n] \cup RowsOf(batch[n])' \subseteq unread[n]
  BY <1>2, <1>4
<1>7. ASSUME unread[n] \subseteq RowsOf(source)
      PROVE  Cardinality(unread'[n]) + Cardinality(RowsOf(batch[n])') = Cardinality(unread[n])
  <2>1. RowsOf(batch[n])' = rows
    BY <1>2, <1>4, <1>7 DEF RowsOf
  <2>2. IsFiniteSet(unread[n]) /\ IsFiniteSet(rows)
    BY <1>2, KeysAreCountable
  <2>3. unread[n] \cap rows = rows
    BY <1>2
  <2>4. Cardinality(unread[n] \ rows) = Cardinality(unread[n]) - Cardinality(rows)
    BY <2>2, <2>3, FS_Difference
  <2>5. Cardinality(unread[n]) \in Nat /\ Cardinality(rows) \in Nat
    BY <2>2, FS_CardinalityType
  <2> QED
    BY <1>2, <2>1, <2>4, <2>5
<1> QED
  BY <1>3, <1>5, <1>7, <1>6 DEF FetchBatch, Goto, tableVars

LEMMA OwnBatch ==
  ASSUME TypeOK, NEW n \in Chunks, TaskMove(n), source' = source, BatchInvariant(n)
  PROVE  BatchInvariant(n)'
<1>1. SUFFICES ASSUME pc'[n] \in {"upsert", "insert", "bulk", "append"}, NEW k \in Keys
               PROVE  batch'[n][k] \in {NoRow, source[k]}
  BY DEF BatchInvariant, Streaming
<1>2. CASE FetchBatch(n)
  BY <1>2, Fetched
<1>3. CASE FindExisting(n) \/ DeleteConflicts(n) \/ DeadlockVictim(n) \/ Written(n)
  <2>1. pc[n] \in {"upsert", "insert", "bulk"} /\ batch' = batch
    BY <1>3, Looking DEF Written
  <2> QED
    BY <2>1 DEF BatchInvariant, Streaming
<1> QED
  BY <1>1, <1>2, <1>3, Arrivals

LEMMA OwnFind ==
  ASSUME TypeOK, NEW n \in Chunks, TaskMove(n), source' = source, BatchInvariant(n)
  PROVE  FindInvariant(n)'
<1>1. SUFFICES ASSUME pc'[n] = "bulk", NEW k \in RowsOf(batch[n])', known'[n][k] # NoRow
               PROVE  target'[k] # NoRow /\ (known'[n][k] = source[k] => target'[k] = source[k])
  BY DEF FindInvariant
<1>2. FindExisting(n)
  BY <1>1, Arrivals
<1>3. batch' = batch /\ target' = target /\ k \in Keys
  BY <1>1, <1>2 DEF FindExisting, tableVars, RowsOf
<1>4. known'[n][k] \in {NoRow, target[k]}
  BY <1>2, <1>3 DEF FindExisting, TypeOK, EmptyTable
<1> QED
  BY <1>1, <1>3, <1>4

LEMMA OwnInsert ==
  ASSUME TypeOK, NEW n \in Chunks, TaskStep(n), TaskMove(n)
  PROVE  InsertInvariant(n)'
<1> SUFFICES ASSUME pc'[n] = "insert" PROVE InsertInvariant(n)'
  BY DEF InsertInvariant
<1>1. DeleteConflicts(n)
  BY Arrivals
<1>2. /\ UNCHANGED <<target, batch>>
      /\ Deleted(n)' = Conflicts(target, batch[n])
      /\ Deleted(n)' \cap Locked(n) = {}
      /\ \A k \in Deleted(n)' : known'[n][k] = target[k]
      /\ Late(n)' = {}
  BY <1>1, DeletesConflicts
<1>3. Locked(n)' = Locked(n)
  BY LocksOfOthers
<1>4. Conflicts(target, batch[n])' = Conflicts(target, batch[n])
  BY <1>2 DEF Conflicts, RowsOf
<1> QED
  BY <1>2, <1>3, <1>4 DEF InsertInvariant

\* The steps after the stream.
LEMMA Finishing ==
  ASSUME TypeOK, NEW n \in Chunks, TaskMove(n), pc'[n] \in Streamed
  PROVE  \/ EndOfStream(n)
         \/ (CountRows(n) /\ ~config.dynamic /\ RowsOf(source) = {})
         \/ /\ pc[n] \in Streamed \ {"done"}
            /\ UNCHANGED <<version, keysStaging, unread, batch, counted>> \/ DropKeys(n)
<1>1. CASE CountRows(n) /\ ~config.dynamic
  <2>1. pc'[n] = IF RowsOf(source) = {} THEN AfterStream ELSE "prepare"
    BY <1>1 DEF CountRows, Goto, TypeOK
  <2> QED
    BY <1>1, <2>1 DEF Streamed
<1>2. CASE \/ FindMissing(n) \/ DeleteById(n) \/ DeleteMissing(n)
           \/ FetchChunkBounds(n, ChunkScope(n))
  BY <1>2
     DEF FindMissing, DeleteById, DeleteMissing, FetchChunkBounds, Goto, Streamed, tableVars,
         taskVars
<1>3. CASE DropKeys(n)
  BY <1>3 DEF DropKeys, Goto, Streamed
<1> QED
  BY <1>1, <1>2, <1>3, Arrivals DEF Streamed

LEMMA OwnCopy ==
  ASSUME TypeOK, RowsKept, UNCHANGED <<config, source, bounds, runVersion>>, NEW n \in Chunks,
         TaskMove(n), BatchInvariant(n), CopyInvariant(n)
  PROVE  CopyInvariant(n)'
<1>1. /\ TaskRange(n)' = TaskRange(n) /\ TaskRange(n) \subseteq RowsOf(source)
      /\ Assigned(n)' <=> Assigned(n)
  BY RangesStay DEF TaskRange
<1>2. \A k \in TaskRange(n) : InTarget(k) => InTarget(k)'
  BY <1>1, InTargetStays
<1>3. ASSUME pc'[n] \in Streaming
      PROVE  /\ unread'[n] \cup RowsOf(batch[n])' \subseteq TaskRange(n)
             /\ \A k \in TaskRange(n) \ (unread'[n] \cup Unwritten(n)') : InTarget(k)'
  <2> RowsOf(EmptyTable) = {}
    BY DEF RowsOf, EmptyTable
  <2>1. CASE ~OfTable /\ BeginStream(n, TaskRange(n))
    <3>1. batch'[n] = EmptyTable /\ unread'[n] = TaskRange(n)
      BY <2>1 DEF BeginStream, TypeOK
    <3>2. RowsOf(batch[n])' = {}
      BY <3>1 DEF RowsOf
    <3> QED
      BY <3>1, <3>2
  <2>2. CASE Appended(n)
    <3>1. batch'[n] = EmptyTable /\ unread' = unread /\ pc[n] = "append" /\ pc'[n] = "fetch"
      BY <2>2 DEF Appended, Goto, TypeOK
    <3>2. RowsOf(batch[n])' = {} /\ Unwritten(n)' = {} /\ Unwritten(n) = {}
      BY <3>1 DEF RowsOf, Unwritten
    <3> QED
      BY <1>2, <3>1, <3>2 DEF CopyInvariant, Streaming
  <2>3. CASE FetchBatch(n)
    <3>1. pc[n] = "fetch" /\ pc'[n] = "upsert"
      BY <2>3 DEF FetchBatch, Goto, TypeOK
    <3>2. Unwritten(n) = {} /\ Unwritten(n)' = RowsOf(batch[n])'
      BY <3>1 DEF Unwritten
    <3>3. /\ unread[n] \subseteq TaskRange(n)
          /\ \A k \in TaskRange(n) \ unread[n] : InTarget(k)
      BY <3>1, <3>2 DEF CopyInvariant, Streaming
    <3> QED
      BY <1>1, <1>2, <2>3, <3>2, <3>3, Fetched
  <2>4. CASE FindExisting(n) \/ DeleteConflicts(n) \/ DeadlockVictim(n)
    <3>1. /\ pc[n] \in {"upsert", "insert"} /\ unread' = unread /\ batch' = batch
          /\ Unwritten(n)' = Unwritten(n)
      BY <2>4, Looking
    <3>2. RowsOf(batch[n])' = RowsOf(batch[n])
      BY <3>1 DEF RowsOf
    <3> QED
      BY <1>2, <3>1, <3>2 DEF CopyInvariant, Streaming
  <2>5. CASE Written(n)
    <3>1. /\ pc[n] \in {"upsert", "insert", "bulk"} /\ pc'[n] = "append" /\ unread' = unread
          /\ Unwritten(n) = RowsOf(batch[n]) /\ RowsOf(batch[n])' = RowsOf(batch[n])
      BY <2>5 DEF Written, Unwritten, RowsOf
    <3>2. ASSUME NEW k \in TaskRange(n) \ unread[n] PROVE InTarget(k)'
      <4>1. CASE k \in RowsOf(batch[n])
        <5>1. batch[n][k] = source[k]
          BY <3>1, <4>1 DEF BatchInvariant, Streaming, RowsOf
        <5> QED
          BY <2>5, <4>1, <5>1 DEF Written, InTarget
      <4>2. CASE k \notin RowsOf(batch[n])
        BY <1>2, <3>1, <3>2, <4>2 DEF CopyInvariant, Streaming
      <4> QED
        BY <4>1, <4>2
    <3> QED
      BY <3>1, <3>2 DEF CopyInvariant, Streaming
  <2> QED
    BY <1>3, <2>1, <2>2, <2>3, <2>4, <2>5, Arrivals DEF Streaming
<1>4. ASSUME pc'[n] \in Streamed, Assigned(n), NEW k \in TaskRange(n) PROVE InTarget(k)'
  <2>1. CASE EndOfStream(n)
    BY <1>2, <1>4, <2>1 DEF EndOfStream, Goto, CopyInvariant, Streaming, Unwritten
  <2>2. CASE RowsOf(source) = {}
    BY <1>1, <1>4, <2>2
  <2>3. CASE pc[n] \in Streamed
    BY <1>2, <1>4, <2>3 DEF CopyInvariant
  <2> QED
    BY <1>4, <2>1, <2>2, <2>3, Finishing DEF DropKeys, Goto, Streamed
<1> QED
  BY <1>1, <1>3, <1>4 DEF CopyInvariant

LEMMA OwnCount ==
  ASSUME TypeOK, UNCHANGED <<config, source, bounds>>, NEW n \in Chunks,
         TaskMove(n), CopyInvariant(n), CountInvariant(n)
  PROVE  CountInvariant(n)'
<1>1. /\ TaskRange(n)' = TaskRange(n) /\ TaskRange(n) \subseteq RowsOf(source)
      /\ Assigned(n)' <=> Assigned(n)
  BY RangesStay DEF TaskRange
<1>2. /\ Cardinality(unread[n]) \in Nat /\ counted[n] \in Nat
      /\ Cardinality(RowsOf(batch[n])) \in Nat /\ Cardinality(TaskRange(n)) \in Nat
  BY <1>1, RowsAreKeys, KeysAreCountable DEF TypeOK
<1>3. Cardinality({}) = 0
  BY FS_EmptySet
<1>4. ASSUME pc'[n] \in Streaming
      PROVE  counted'[n] + Cardinality(unread'[n]) + Cardinality(Uncounted(n)') =
               Cardinality(TaskRange(n))
  <2>1. CASE ~OfTable /\ BeginStream(n, TaskRange(n))
    <3>1. counted'[n] = 0 /\ unread'[n] = TaskRange(n) /\ Uncounted(n)' = {}
      BY <2>1 DEF BeginStream, Goto, TypeOK, Uncounted
    <3> QED
      BY <1>2, <1>3, <3>1
  <2>2. CASE Appended(n)
    <3>1. /\ counted'[n] = counted[n] + Cardinality(RowsOf(batch[n]))
          /\ unread'[n] = unread[n] /\ Uncounted(n)' = {} /\ Uncounted(n) = RowsOf(batch[n])
          /\ pc[n] = "append"
      BY <2>2 DEF Appended, Goto, TypeOK, Uncounted
    <3> QED
      BY <1>2, <1>3, <3>1 DEF CountInvariant, Streaming
  <2>3. CASE FetchBatch(n)
    <3>1. pc[n] = "fetch" /\ pc'[n] = "upsert"
      BY <2>3 DEF FetchBatch, Goto, TypeOK
    <3>2. Uncounted(n) = {} /\ Uncounted(n)' = RowsOf(batch[n])'
      BY <3>1 DEF Uncounted
    <3>3. unread[n] \subseteq RowsOf(source)
      BY <1>1, <3>1 DEF CopyInvariant, Streaming
    <3>4. /\ Cardinality(unread'[n]) + Cardinality(RowsOf(batch[n])') = Cardinality(unread[n])
          /\ counted' = counted
      BY <2>3, <3>3, Fetched
    <3>5. counted[n] + Cardinality(unread[n]) + 0 = Cardinality(TaskRange(n))
      BY <1>3, <3>1, <3>2 DEF CountInvariant, Streaming
    <3>6. Cardinality(unread'[n]) \in Nat /\ Cardinality(RowsOf(batch[n])') \in Nat
      <4>1. unread'[n] \subseteq unread[n]
        BY <2>3, Fetched
      <4>2. unread'[n] \in SUBSET Keys /\ RowsOf(batch[n])' \in SUBSET Keys
        BY <4>1 DEF TypeOK, RowsOf
      <4> QED
        BY <4>2, KeysAreCountable
    <3> QED
      BY <1>2, <3>2, <3>4, <3>5, <3>6
  <2>4. CASE FindExisting(n) \/ DeleteConflicts(n) \/ DeadlockVictim(n) \/ Written(n)
    <3>1. /\ pc[n] \in {"upsert", "insert", "bulk"} /\ unread' = unread /\ batch' = batch
          /\ counted' = counted /\ pc'[n] # "fetch"
      BY <2>4, Looking DEF Written
    <3>2. Uncounted(n)' = Uncounted(n)
      BY <3>1 DEF Uncounted, RowsOf
    <3> QED
      BY <3>1, <3>2 DEF CountInvariant, Streaming
  <2> QED
    BY <1>4, <2>1, <2>2, <2>3, <2>4, Arrivals DEF Streaming
<1>5. ASSUME pc'[n] \in Streamed, Assigned(n) PROVE counted'[n] = Cardinality(TaskRange(n))
  <2>1. CASE EndOfStream(n)
    <3>1. pc[n] = "fetch" /\ unread[n] = {} /\ counted' = counted /\ Uncounted(n) = {}
      BY <2>1 DEF EndOfStream, Goto, Uncounted, taskVars
    <3> QED
      BY <1>2, <1>3, <3>1 DEF CountInvariant, Streaming
  <2>2. CASE CountRows(n) /\ RowsOf(source) = {}
    <3>1. counted'[n] = 0 /\ TaskRange(n) = {}
      BY <1>1, <2>2 DEF CountRows, TypeOK
    <3> QED
      BY <1>3, <3>1
  <2>3. CASE pc[n] \in Streamed /\ counted' = counted
    BY <1>5, <2>3 DEF CountInvariant
  <2> QED
    BY <1>5, <2>1, <2>2, <2>3, Finishing DEF DropKeys, Goto, Streamed
<1> QED
  BY <1>1, <1>4, <1>5 DEF CountInvariant

LEMMA OwnKeys ==
  ASSUME TypeOK, RowsKept, UNCHANGED <<config, source, bounds>>, NEW n \in Chunks,
         config.delete /\ config.dynamic => InStep(config),
         TaskMove(n), BatchInvariant(n), KeysInvariant(n)
  PROVE  KeysInvariant(n)'
<1> SUFFICES ASSUME config.delete PROVE KeysInvariant(n)'
  BY DEF KeysInvariant
<1>1. /\ TaskRange(n)' = TaskRange(n) /\ TaskRange(n) \subseteq RowsOf(source)
      /\ RowsOf(source)' = RowsOf(source) /\ TaskScope(n)' = TaskScope(n)
      /\ Assigned(n)' <=> Assigned(n)
  BY RangesStay DEF TaskRange
<1>2. Orphans(n)' \subseteq Orphans(n) /\ \A k \in Orphans(n)' : target'[k] = target[k]
  BY OrphansOnlyGo
<1>3. AfterStream = IF config.dynamic THEN "scope" ELSE "delete"
  BY DEF AfterStream
<1>4. ASSUME pc'[n] \in Streaming
      PROVE  /\ keysStaging'[n] \subseteq RowsOf(source)
             /\ TaskRange(n) \subseteq unread'[n] \cup Uncounted(n)' \cup keysStaging'[n]
  <2>1. CASE ~OfTable /\ BeginStream(n, TaskRange(n))
    BY <2>1 DEF BeginStream, TypeOK
  <2>2. CASE Appended(n)
    <3>1. /\ pc[n] = "append" /\ unread' = unread
          /\ keysStaging'[n] = keysStaging[n] \cup RowsOf(batch[n])
          /\ Uncounted(n) = RowsOf(batch[n])
      BY <2>2 DEF Appended, AppendedKeys, Goto, TypeOK, Uncounted
    <3>2. RowsOf(batch[n]) \subseteq RowsOf(source)
      BY <3>1 DEF BatchInvariant, Streaming, RowsOf
    <3> QED
      BY <3>1, <3>2 DEF KeysInvariant, Streaming
  <2>3. CASE FetchBatch(n)
    <3>1. /\ pc[n] = "fetch" /\ pc'[n] = "upsert" /\ Uncounted(n) = {}
          /\ Uncounted(n)' = RowsOf(batch[n])'
      BY <2>3 DEF FetchBatch, Goto, TypeOK, Uncounted
    <3>2. /\ unread[n] \subseteq unread'[n] \cup RowsOf(batch[n])' \cup (Keys \ RowsOf(source))
          /\ keysStaging' = keysStaging
      BY <2>3, Fetched
    <3>3. /\ keysStaging[n] \subseteq RowsOf(source)
          /\ TaskRange(n) \subseteq unread[n] \cup keysStaging[n]
      BY <3>1 DEF KeysInvariant, Streaming
    <3> QED
      BY <1>1, <3>1, <3>2, <3>3
  <2>4. CASE FindExisting(n) \/ DeleteConflicts(n) \/ DeadlockVictim(n) \/ Written(n)
    <3>1. /\ pc[n] \in {"upsert", "insert", "bulk"} /\ pc'[n] # "fetch"
          /\ unread' = unread /\ batch' = batch /\ keysStaging' = keysStaging
      BY <2>4, Looking DEF Written
    <3>2. Uncounted(n)' = Uncounted(n)
      BY <3>1 DEF Uncounted, RowsOf
    <3> QED
      BY <3>1, <3>2 DEF KeysInvariant, Streaming
  <2> QED
    BY <1>4, <2>1, <2>2, <2>3, <2>4, Arrivals DEF Streaming
<1>5. ASSUME pc'[n] \in {"scope", "delete"}
      PROVE  TaskRange(n) \subseteq keysStaging'[n] /\ keysStaging'[n] \subseteq RowsOf(source)
  <2>1. CASE EndOfStream(n)
    <3>1. pc[n] = "fetch" /\ unread[n] = {} /\ Uncounted(n) = {} /\ keysStaging' = keysStaging
      BY <2>1 DEF EndOfStream, Goto, Uncounted, tableVars
    <3> QED
      BY <3>1 DEF KeysInvariant, Streaming
  <2>2. CASE CountRows(n) /\ ~config.dynamic
    <3>1. RowsOf(source) = {}
      BY <1>5, <2>2, Finishing DEF CountRows, Goto, Streamed, TypeOK
    <3>2. keysStaging'[n] = {}
      BY <2>2, <3>1 DEF CountRows, TypeOK
    <3> QED
      BY <1>1, <3>1, <3>2
  <2>3. CASE FetchChunkBounds(n, ChunkScope(n))
    BY <2>3 DEF FetchChunkBounds, Goto, KeysInvariant, tableVars
  <2> QED
    BY <1>5, <2>1, <2>2, <2>3, Arrivals
<1>6. ASSUME pc'[n] \in {"delete", "ids"} PROVE scope'[n] = TaskScope(n)
  <2>1. CASE EndOfStream(n)
    <3>1. pc[n] = "fetch" /\ pc'[n] = AfterStream /\ scope' = scope
      BY <2>1 DEF EndOfStream, Goto, TypeOK, taskVars
    <3> QED
      BY <1>3, <1>6, <3>1 DEF KeysInvariant, Streaming
  <2>2. CASE CountRows(n) /\ ~config.dynamic
    BY <2>2 DEF CountRows, Goto, KeysInvariant
  <2>3. CASE FetchChunkBounds(n, ChunkScope(n))
    <3>1. config.dynamic /\ scope'[n] = ChunkScope(n)
      BY <2>3 DEF FetchChunkBounds, TypeOK
    <3> QED
      BY <3>1 DEF TaskScope
  <2>4. CASE FindMissing(n)
    BY <2>4 DEF FindMissing, Goto, KeysInvariant
  <2> QED
    BY <1>6, <2>1, <2>2, <2>3, <2>4, Arrivals
<1>7. ASSUME ~config.dynamic, pc'[n] \in {"count", "prepare"} \cup Streaming
      PROVE  scope'[n] = TaskScope(n)
  <2>1. CASE pc'[n] = "count"
    BY <1>7, <2>1, Arrivals DEF FetchBounds, TaskScope, TypeOK
  <2>2. CASE pc'[n] = "prepare"
    BY <1>7, <2>2, Arrivals DEF CountRows, Goto, KeysInvariant
  <2>3. CASE pc'[n] \in Streaming
    <3>1. pc[n] \in {"prepare"} \cup Streaming /\ scope' = scope
      BY <2>3, Arrivals, Looking DEF BeginStream, Appended, FetchBatch, Written, Goto, Streaming
    <3> QED
      BY <1>7, <3>1 DEF KeysInvariant
  <2> QED
    BY <1>7, <2>1, <2>2, <2>3
<1>8. pc[n] = "delete" => Missing(n) \cap RowsOf(source) = {} /\ Orphans(n) \subseteq Missing(n)
  <2> HAVE pc[n] = "delete"
  <2>1. /\ scope[n] = TaskScope(n) /\ TaskRange(n) \subseteq keysStaging[n]
        /\ keysStaging[n] \subseteq RowsOf(source)
    BY DEF KeysInvariant
  <2>2. Orphans(n) \subseteq Missing(n)
    BY <2>1 DEF Orphans, Missing
  <2> QED
    BY <2>1, <2>2, DeletesSpare
<1>9. ASSUME pc'[n] = "ids"
      PROVE  /\ Orphans(n)' \subseteq RowsOf(known[n])'
             /\ RowsOf(known[n])' \cap RowsOf(source) = {}
  <2>1. /\ pc[n] = "delete"
        /\ known'[n] = [k \in Keys |-> IF k \in Missing(n) THEN target[k] ELSE NoRow]
    <3>1. FindMissing(n)
      BY <1>9, Arrivals
    <3> QED
      BY <3>1 DEF FindMissing, Goto, TypeOK
  <2>2. RowsOf(known[n])' = Missing(n)
    BY <2>1 DEF RowsOf, Missing
  <2> QED
    BY <1>2, <1>8, <2>1, <2>2
<1>10. ASSUME pc'[n] \in {"drop", "done"}, Assigned(n) PROVE Orphans(n)' = {}
  <2>1. CASE DeleteMissing(n)
    <3>1. pc[n] = "delete" /\ target' = Without(target, Missing(n))
      BY <2>1 DEF DeleteMissing, Goto
    <3>2. ASSUME NEW k \in Orphans(n)' PROVE FALSE
      BY <1>2, <1>8, <3>1 DEF Without, Orphans, RowsOf
    <3> QED
      BY <3>2
  <2>2. CASE DeleteById(n)
    <3>1. pc[n] = "ids" /\ target' = Without(target, RowsOf(known[n]))
      BY <2>2 DEF DeleteById, Goto
    <3>2. Orphans(n) \subseteq RowsOf(known[n])
      BY <3>1 DEF KeysInvariant
    <3>3. ASSUME NEW k \in Orphans(n)' PROVE FALSE
      BY <1>2, <3>1, <3>2 DEF Without, Orphans, RowsOf
    <3> QED
      BY <3>3
  <2>3. CASE DropKeys(n)
    BY <1>2, <1>10, <2>3 DEF DropKeys, Goto, KeysInvariant
  <2>4. CASE EndOfStream(n) \/ CountRows(n)
    <3>1. pc'[n] \in {AfterStream, "prepare"}
      BY <2>4 DEF EndOfStream, CountRows, Goto, TypeOK
    <3> QED
      BY <1>3, <1>10, <3>1
  <2> QED
    BY <1>10, <2>1, <2>2, <2>3, <2>4, Arrivals
<1> QED
  BY <1>1, <1>4, <1>5, <1>6, <1>7, <1>9, <1>10 DEF KeysInvariant

-----------------------------------------------------------------------------
(* The run *)

\* Without rows there is no bucket, and with some there is one.
LEMMA FirstBucket ==
  ASSUME config \in Configurations, NEW plan \in BucketPlans, RowsOf(source) # {}
  PROVE  1 \in DOMAIN plan
<1>1. PICK begins \in SUBSET BucketValues :
           /\ plan = Buckets(BucketValues, begins)
           /\ BucketValues # {} => NthValue(1, BucketValues) \in begins
           /\ IsFiniteSet(begins) /\ Cardinality(begins) \in Nat
  BY BucketPlanTiles
<1>2. begins # {}
  BY <1>1 DEF BucketValues
<1>3. Cardinality(begins) # 0
  BY <1>1, <1>2, FS_EmptySet
<1>4. DOMAIN plan = 1 .. Cardinality(begins)
  BY <1>1 DEF Buckets
<1> QED
  BY <1>1, <1>3, <1>4

\* A task that has not begun has nothing to keep.
LEMMA IdleTasks ==
  ASSUME NEW n \in Chunks, pc'[n] \notin {"count", "prepare"} \cup Streaming \cup Streamed
  PROVE  TaskInvariant(n)'
BY DEF TaskInvariant, BatchInvariant, InsertInvariant, FindInvariant, KeysInvariant,
       CopyInvariant, CountInvariant, Streaming, Streamed

\* Nor has a task without a range.
LEMMA EmptyTasks ==
  ASSUME NEW n \in Chunks, pc'[n] = "done",
         Assigned(n)' => TaskRange(n)' = {} /\ Orphans(n)' = {} /\ counted'[n] = 0
  PROVE  TaskInvariant(n)'
<1>1. Cardinality({}) = 0
  BY FS_EmptySet
<1>2. CopyInvariant(n)' /\ CountInvariant(n)'
  BY <1>1 DEF CopyInvariant, CountInvariant, Streaming
<1>3. KeysInvariant(n)'
  BY DEF KeysInvariant, Streaming
<1> QED
  BY <1>2, <1>3 DEF TaskInvariant, BatchInvariant, InsertInvariant, FindInvariant, Streaming

LEMMA NoScope ==
  ASSUME NEW n \in Chunks, config'.dynamic, bounds'[n] = NoBounds
  PROVE  Orphans(n)' = {} /\ (~OfMongo' => TaskRange(n)' = {})
<1>1. \A column, k : ~InBounds(column, NoBounds, k)
  BY DEF InBounds, NoBounds
<1>2. ~OfMongo' => TaskRange(n)' = {}
  BY <1>1 DEF TaskRange
<1>3. Bounds({}) = NoBounds
  BY DEF Bounds
<1>4. \A column : BoundsOf(column, {}) = NoBounds
  BY <1>3 DEF BoundsOf
<1>5. TaskScope(n)' = NoBounds
  BY <1>1, <1>4 DEF TaskScope, ChunkScope
<1> QED
  BY <1>1, <1>2, <1>5 DEF Orphans

\* The tasks of a plan.
LEMMA PlanBegins ==
  ASSUME TypeOK, PhaseInvariant, NEW plan, ExpandChunks(plan),
         OfMongo /\ RowsOf(source) # {} => 1 \in DOMAIN plan, NEW n \in Chunks
  PROVE  TaskInvariant(n)'
<1>1. /\ config.dynamic /\ config' = config /\ source' = source
      /\ counted' = counted /\ counted[n] = 0
  BY DEF ExpandChunks, PhaseInvariant, envVars, taskVars
<1>2. /\ pc'[n] = IF n \in DOMAIN plan THEN "prepare" ELSE "done"
      /\ bounds'[n] = IF n \in DOMAIN plan THEN plan[n] ELSE NoBounds
  BY <1>1 DEF ExpandChunks, FirstStep
<1>3. CASE n \in DOMAIN plan
  BY <1>1, <1>2, <1>3
     DEF TaskInvariant, BatchInvariant, InsertInvariant, FindInvariant, KeysInvariant,
         CopyInvariant, CountInvariant, Streaming, Streamed
<1>4. CASE n \notin DOMAIN plan
  <2>1. ASSUME Assigned(n)'
        PROVE  TaskRange(n)' = {} /\ Orphans(n)' = {} /\ counted'[n] = 0
    <3>1. Orphans(n)' = {} /\ (~OfMongo' => TaskRange(n)' = {})
      BY <1>1, <1>2, <1>4, NoScope
    <3>2. n = 1
      BY <1>2, <1>4, <2>1 DEF Assigned
    <3>3. OfMongo => TaskRange(n)' = {}
      BY <1>1, <1>4, <3>2 DEF TaskRange, RowsOf
    <3> QED
      BY <1>1, <3>1, <3>3 DEF OfMongo
  <2> QED
    BY <1>2, <1>4, <2>1, EmptyTasks
<1> QED
  BY <1>3, <1>4

LEMMA OnlyTaskBegins ==
  ASSUME TypeOK, PhaseInvariant, BeginTask, NEW n \in Chunks
  PROVE  TaskInvariant(n)'
<1>1. CASE n = 1
  <2>1. pc'[n] = IF config.delete THEN "bounds" ELSE "count"
    BY <1>1 DEF BeginTask, FirstStep
  <2> QED
    BY <2>1
       DEF TaskInvariant, BatchInvariant, InsertInvariant, FindInvariant, KeysInvariant,
           CopyInvariant, CountInvariant, Streaming, Streamed, BeginTask
<1>2. CASE n # 1
  <2>1. pc'[n] = "done" /\ ~Assigned(n)'
    BY <1>2 DEF BeginTask, Assigned
  <2> QED
    BY <2>1, EmptyTasks
<1> QED
  BY <1>1, <1>2

\* Each row has a task in a plan made for as many rows as there are.
LEMMA PlanIsComplete ==
  ASSUME TypeOK, PhaseInvariant, PlanInvariant, NEW plan, ExpandChunks(plan),
         OfMongo => plan \in BucketPlans,
         ~OfMongo => \E nullsFirst \in BOOLEAN : plan = NTilePlan(nullsFirst)
  PROVE  PlanInvariant'
<1>1. /\ config.dynamic /\ total = Cardinality(RowsOf(source)) /\ phase' = "running"
      /\ UNCHANGED <<config, source>> /\ config \in Configurations
  BY DEF ExpandChunks, PhaseInvariant, PlanInvariant, envVars, TypeOK
<1>2. ASSUME NEW k \in RowsOf(source), IsPlanned(k)
      PROVE  \E n \in Chunks : Assigned(n)' /\ k \in TaskRange(n)'
  <2>1. PICK j \in DOMAIN plan :
          /\ j \in Chunks
          /\ \/ InBounds(config.chunkColumn, plan[j], k)
             \/ OfMongo /\ Null \in {plan[j][1], plan[j][2]}
    <3>1. CASE OfMongo
      BY <1>1, <3>1, BucketPlanCovers
    <3>2. CASE ~OfMongo
      BY <1>1, <1>2, <3>2, NTilePlanCovers DEF IsPlanned
    <3> QED
      BY <3>1, <3>2
  <2>2. bounds'[j] = plan[j]
    BY <2>1 DEF ExpandChunks
  <2>3. k \in TaskRange(j)'
    BY <1>1, <1>2, <2>1, <2>2 DEF TaskRange, OfMongo, RowsOf
  <2>4. plan[j] = NoBounds => j = 1
    <3>1. CASE OfMongo
      BY <1>1, <3>1, NullComesFirst
    <3>2. CASE ~OfMongo
      BY <2>1, <3>2 DEF InBounds, NoBounds
    <3> QED
      BY <3>1, <3>2
  <2>5. Assigned(j)'
    BY <1>1, <2>2, <2>4 DEF Assigned
  <2> QED
    BY <2>1, <2>3, <2>5
<1> QED
  BY <1>1, <1>2 DEF PlanInvariant, IsPlanned, OfMongo, RowsOf

LEMMA OnlyTaskIsComplete == ASSUME TypeOK, BeginTask PROVE PlanInvariant'
<1>1. ~config.dynamic /\ phase' = "running" /\ UNCHANGED <<config, source>>
  BY DEF BeginTask, envVars
<1>2. ASSUME NEW k \in RowsOf(source) PROVE 1 \in Chunks /\ Assigned(1)' /\ k \in TaskRange(1)'
  <2>1. Cardinality(Keys) \in Nat /\ Cardinality(Keys) # 0
    BY KeysAreCountable, ConfigIsSound, FS_EmptySet DEF RowsOf
  <2>2. 1 \in Chunks
    BY <2>1 DEF Chunks
  <2> QED
    BY <1>1, <1>2, <2>2 DEF Assigned, TaskRange, RowsOf
<1> QED
  BY <1>1, <1>2 DEF PlanInvariant, RowsOf

LEMMA RunsKeepInvariant ==
  ASSUME TypeOK, RunInvariant, RunStep, undisturbed'
  PROVE  PlanInvariant' /\ \A n \in Chunks : TaskInvariant(n)'
<1> PhaseInvariant
  BY DEF RunInvariant
<1>1. CASE \E versions \in SUBSET Versions : BeginRun(versions)
  <2>1. phase' = "validated" /\ \A n \in Chunks : pc'[n] = "idle"
    BY <1>1 DEF BeginRun, PhaseInvariant
  <2> QED
    BY <2>1, IdleTasks DEF PlanInvariant, Streaming, Streamed
<1>2. CASE CountTotal
  <2>1. /\ phase' = "counted" /\ source' = source /\ total' = Cardinality(RowsOf(source))
        /\ \A n \in Chunks : pc'[n] = "idle"
    BY <1>2 DEF CountTotal, PhaseInvariant, envVars
  <2>2. RowsOf(source)' = RowsOf(source)
    BY <2>1 DEF RowsOf
  <2> QED
    BY <2>1, <2>2, IdleTasks DEF PlanInvariant, Streaming, Streamed
<1>3. CASE GiveUpRun \/ LeaveRun
  <2>1. phase' = "idle" /\ \A n \in Chunks : pc'[n] = "idle"
    BY <1>3 DEF GiveUpRun, LeaveRun, PhaseInvariant
  <2> QED
    BY <2>1, IdleTasks DEF PlanInvariant, Streaming, Streamed
<1>4. CASE \E plan : /\ ExpandChunks(plan)
                     /\ OfMongo => plan \in BucketPlans
                     /\ ~OfMongo => \E nullsFirst \in BOOLEAN : plan = NTilePlan(nullsFirst)
  <2>1. PICK plan : /\ ExpandChunks(plan)
                    /\ OfMongo => plan \in BucketPlans
                    /\ ~OfMongo => \E nullsFirst \in BOOLEAN : plan = NTilePlan(nullsFirst)
    BY <1>4
  <2>2. PlanInvariant
    BY <2>1 DEF ExpandChunks, RunInvariant, envVars
  <2>3. OfMongo /\ RowsOf(source) # {} => 1 \in DOMAIN plan
    BY <2>1, FirstBucket DEF TypeOK
  <2> QED
    BY <2>1, <2>2, <2>3, PlanIsComplete, PlanBegins
<1>5. CASE BeginTask
  BY <1>5, OnlyTaskIsComplete, OnlyTaskBegins
<1>6. CASE ReportRun(Transferred)
  <2>1. /\ phase = "running" /\ phase' = "reported" /\ undisturbed
        /\ UNCHANGED <<config, source, bounds, target, version, runVersion, pc, keysStaging,
                       scope, unread, batch, known, counted>>
    BY <1>6 DEF ReportRun, envVars, tableVars, taskVars
  <2>2. RowsKept
    BY <2>1 DEF RowsKept
  <2>3. \A n \in Chunks : TaskInvariant(n)'
    <3>1. ASSUME NEW n \in Chunks PROVE TaskInvariant(n)'
      <4>1. /\ Of(n)' = Of(n) /\ TaskInvariant(n)
            /\ InsertInvariant(n)'
        BY <1>6, <2>1 DEF Of, RunInvariant, ReportRun, InsertInvariant
      <4> QED
        BY <2>1, <2>2, <4>1, OthersKeepInvariant
    <3> QED
      BY <3>1
  <2>4. PlanInvariant'
    <3>1. \A n \in Chunks : TaskRange(n)' = TaskRange(n) /\ (Assigned(n)' <=> Assigned(n))
      BY <2>1, RangesStay
    <3> QED
      BY <2>1, <3>1 DEF RunInvariant, PlanInvariant, IsPlanned, OfMongo, RowsOf
  <2> QED
    BY <2>3, <2>4
<1> QED
  BY <1>1, <1>2, <1>3, <1>4, <1>5, <1>6 DEF RunStep

LEMMA TasksKeepInvariant ==
  ASSUME TypeOK, RunInvariant, config.delete /\ config.dynamic => InStep(config),
         NEW n \in Chunks, TaskStep(n), undisturbed'
  PROVE  PlanInvariant' /\ \A m \in Chunks : TaskInvariant(m)'
<1> PhaseInvariant /\ IsUnique(source)
  BY DEF RunInvariant
<1>1. UNCHANGED <<config, source, bounds, runVersion, phase, total>> /\ undisturbed
  BY TasksLeaveRun DEF runVars
<1>2. PlanInvariant /\ \A m \in Chunks : TaskInvariant(m)
  BY <1>1 DEF RunInvariant
<1>3. BatchInvariant(n) /\ KeysInvariant(n) /\ InsertInvariant(n) /\ FindInvariant(n)
  BY <1>2 DEF TaskInvariant
<1>4. RowsKept /\ TaskMove(n)
  BY <1>3, TasksKeep, TaskMoves
<1>5. TaskInvariant(n)'
  <2>1. BatchInvariant(n)' /\ KeysInvariant(n)' /\ InsertInvariant(n)' /\ FindInvariant(n)'
    BY <1>1, <1>3, <1>4, OwnBatch, OwnKeys, OwnInsert, OwnFind
  <2>2. ~OfTable => CopyInvariant(n)' /\ CountInvariant(n)'
    BY <1>1, <1>2, <1>3, <1>4, OwnCopy, OwnCount DEF TaskInvariant
  <2> QED
    BY <1>1, <2>1, <2>2 DEF TaskInvariant, OfTable
<1>6. ASSUME NEW m \in Chunks \ {n} PROVE TaskInvariant(m)'
  <2>1. InsertInvariant(m)'
    BY <1>1, <1>2, <1>4, OthersInsert
  <2> QED
    BY <1>1, <1>2, <1>4, <2>1, OthersStay, OthersKeepInvariant
<1>7. PlanInvariant'
  <2>1. \A m \in Chunks : TaskRange(m)' = TaskRange(m) /\ (Assigned(m)' <=> Assigned(m))
    BY <1>1, RangesStay
  <2> QED
    BY <1>1, <1>2, <2>1 DEF PlanInvariant, IsPlanned, OfMongo, RowsOf
<1> QED
  BY <1>5, <1>6, <1>7

LEMMA CommonStepsKeepInvariant ==
  ASSUME TypeOK, UniqueValues, RunInvariant, config.delete /\ config.dynamic => InStep(config),
         CommonStep
  PROVE  RunInvariant'
<1> PhaseInvariant /\ IsUnique(source)
  BY DEF RunInvariant
<1>1. CASE RunStep
  <2>1. source' = source
    BY <1>1 DEF RunStep, BeginRun, CountTotal, ExpandChunks, BeginTask, GiveUpRun, ReportRun,
         LeaveRun, envVars
  <2> QED
    BY <1>1, <2>1, PhasesOfRuns, RunsKeepInvariant DEF RunInvariant, IsUnique
<1>2. CASE \E n \in Chunks : TaskStep(n)
  BY <1>2, TasksLeaveRun, PhasesOfTasks, TasksKeepInvariant DEF RunInvariant, IsUnique
<1>3. CASE \E change \in Changes : ChangeSource(change[1], change[2])
  <2>1. /\ UNCHANGED <<config, phase, bounds, pc, counted, report>> /\ undisturbed' = FALSE
    BY <1>3 DEF ChangeSource, runVars
  <2> QED
    BY <1>3, <2>1, UniqueStays, PhasesStay DEF RunInvariant
<1> QED
  BY <1>1, <1>2, <1>3 DEF CommonStep

-----------------------------------------------------------------------------
(* What has been counted in the end *)

Planned == {k \in RowsOf(source) : IsPlanned(k)}

\* One task's count is the sum if the others have counted nothing.
LEMMA SumOfOne ==
  ASSUME NEW S, IsFiniteSet(S), NEW c \in [S -> Nat], NEW g, IsSum(g, S, c),
         NEW m \in S, \A n \in S \ {m} : c[n] = 0
  PROVE  g[S] = c[m]
<1> DEFINE Parts == {s \in SUBSET S : g[s] = IF m \in s THEN c[m] ELSE 0}
<1>1. {} \in Parts
  BY DEF IsSum
<1>2. ASSUME NEW s \in (SUBSET S) \ {{}}, s \ {Picked(s)} \in Parts PROVE s \in Parts
  <2>1. Picked(s) \in s
    BY PartOf
  <2>2. g[s] = c[Picked(s)] + g[s \ {Picked(s)}]
    BY DEF IsSum
  <2>3. CASE Picked(s) = m
    <3>1. g[s \ {Picked(s)}] = 0 /\ m \in s /\ c[m] \in Nat
      BY <1>2, <2>1, <2>3
    <3> QED
      BY <2>2, <2>3, <3>1
  <2>4. CASE Picked(s) # m
    <3>1. c[Picked(s)] = 0 /\ g[s \ {Picked(s)}] = IF m \in s THEN c[m] ELSE 0
      BY <1>2, <2>1, <2>4
    <3>2. c[m] \in Nat
      OBVIOUS
    <3> QED
      BY <2>2, <3>1, <3>2
  <2> QED
    BY <2>3, <2>4
<1>3. Parts \in SUBSET SUBSET S
  OBVIOUS
<1>4. S \in Parts
  <2> HIDE DEF Parts
  <2> QED
    BY <1>1, <1>2, <1>3, PartByPart
<1> QED
  BY <1>4

\* The sum counts every row that some task has counted.
LEMMA SumCoversAll ==
  ASSUME NEW S, IsFiniteSet(S), NEW c \in [S -> Nat], NEW g, IsSum(g, S, c),
         NEW R, \A n \in S : IsFiniteSet(R[n]) /\ Cardinality(R[n]) <= c[n]
  PROVE  LET all == UNION {R[n] : n \in S}
         IN  IsFiniteSet(all) /\ Cardinality(all) <= g[S]
<1> DEFINE All(s) == UNION {R[n] : n \in s}
           Parts  == {s \in SUBSET S : /\ IsFiniteSet(All(s)) /\ g[s] \in Nat
                                       /\ Cardinality(All(s)) <= g[s]}
<1>1. {} \in Parts
  <2>1. All({}) = {} /\ g[{}] = 0
    BY DEF IsSum
  <2> QED
    BY <2>1, FS_EmptySet
<1>2. ASSUME NEW s \in (SUBSET S) \ {{}}, s \ {Picked(s)} \in Parts PROVE s \in Parts
  <2> DEFINE p == Picked(s)
  <2>1. p \in s /\ p \in S
    BY PartOf
  <2>2. g[s] = c[p] + g[s \ {p}]
    BY DEF IsSum
  <2>3. All(s) = R[p] \cup All(s \ {p})
    BY <2>1
  <2>4. /\ IsFiniteSet(R[p]) /\ Cardinality(R[p]) <= c[p] /\ c[p] \in Nat
        /\ IsFiniteSet(All(s \ {p})) /\ g[s \ {p}] \in Nat
        /\ Cardinality(All(s \ {p})) <= g[s \ {p}]
    BY <1>2, <2>1
  <2> HIDE DEF All, p
  <2>5. /\ IsFiniteSet(R[p] \cup All(s \ {p}))
        /\ Cardinality(R[p] \cup All(s \ {p})) =
             Cardinality(R[p]) + Cardinality(All(s \ {p})) - Cardinality(R[p] \cap All(s \ {p}))
    BY <2>4, FS_Union
  <2>6. /\ Cardinality(R[p]) \in Nat /\ Cardinality(All(s \ {p})) \in Nat
        /\ Cardinality(R[p] \cap All(s \ {p})) \in Nat
    BY <2>4, FS_CardinalityType, FS_Intersection
  <2>7. g[s] \in Nat /\ IsFiniteSet(All(s))
    BY <2>2, <2>3, <2>4, <2>5
  <2>8. Cardinality(All(s)) <= g[s]
    <3>1. Cardinality(All(s)) <= Cardinality(R[p]) + Cardinality(All(s \ {p}))
      BY <2>3, <2>5, <2>6
    <3> QED
      BY <2>2, <2>4, <2>6, <2>7, <2>3, <2>5, <3>1
  <2> QED
    BY <2>7, <2>8
<1>3. Parts \in SUBSET SUBSET S
  OBVIOUS
<1>4. S \in Parts
  <2> HIDE DEF Parts
  <2> QED
    BY <1>1, <1>2, <1>3, PartByPart
<1> QED
  BY <1>4

LEMMA ReportsAddUp ==
  ASSUME TypeOK, RunInvariant, undisturbed, phase = "reported", ~OfTable
  PROVE  IF config.dynamic THEN report >= Cardinality(Planned) ELSE report = Cardinality(Planned)
<1>1. PICK g : IsSum(g, Chunks, counted) /\ report = g[Chunks]
  BY ReportedSum DEF RunInvariant, PhaseInvariant
<1>2. /\ IsFiniteSet(Chunks) /\ counted \in [Chunks -> Nat] /\ report \in Nat
      /\ config.dynamic \in BOOLEAN
  BY KeysAreCountable, FS_Interval, HasColumns DEF Chunks, TypeOK
<1>3. \A n \in Chunks : /\ Assigned(n) => counted[n] = Cardinality(TaskRange(n))
                        /\ ~config.dynamic /\ n # 1 => counted[n] = 0
  BY DEF RunInvariant, PhaseInvariant, TaskInvariant, CountInvariant, Streamed
<1>4. \A k \in Planned : \E n \in Chunks : Assigned(n) /\ k \in TaskRange(n)
  BY DEF RunInvariant, PlanInvariant, Planned
<1>5. CASE ~config.dynamic
  <2>1. Planned = RowsOf(source)
    BY <1>5 DEF Planned, IsPlanned
  <2>2. CASE 1 \in Chunks
    <3>1. TaskRange(1) = RowsOf(source)
      BY <1>5 DEF TaskRange
    <3>2. counted[1] = Cardinality(RowsOf(source))
      BY <1>3, <2>2, <3>1 DEF Assigned
    <3>3. g[Chunks] = counted[1]
      BY <1>1, <1>2, <1>3, <1>5, <2>2, SumOfOne
    <3> QED
      BY <1>1, <1>5, <2>1, <3>2, <3>3
  <2>3. CASE 1 \notin Chunks
    <3>1. Cardinality(Keys) \in Nat /\ ~(1 <= Cardinality(Keys))
      BY <2>3, KeysAreCountable DEF Chunks
    <3>2. Chunks = {} /\ Keys = {}
      <4>1. Cardinality(Keys) = 0
        BY <3>1
      <4> QED
        BY <4>1, FS_EmptySet, ConfigIsSound DEF Chunks
    <3>3. g[Chunks] = 0 /\ Planned = {}
      BY <1>1, <3>2 DEF IsSum, Planned, RowsOf
    <3> QED
      BY <1>1, <1>5, <3>3, FS_EmptySet
  <2> QED
    BY <2>2, <2>3
<1>6. CASE config.dynamic
  <2> DEFINE R == [n \in Chunks |-> IF Assigned(n) THEN TaskRange(n) ELSE {}]
  <2>1. ASSUME NEW n \in Chunks PROVE IsFiniteSet(R[n]) /\ Cardinality(R[n]) <= counted[n]
    <3>1. CASE Assigned(n)
      <4>1. TaskRange(n) \in SUBSET Keys
        BY DEF TaskRange, RowsOf
      <4> QED
        BY <1>2, <1>3, <3>1, <4>1, KeysAreCountable
    <3>2. CASE ~Assigned(n)
      BY <1>2, <3>2, FS_EmptySet
    <3> QED
      BY <3>1, <3>2
  <2> DEFINE all == UNION {R[n] : n \in Chunks}
  <2>2. Planned \subseteq all
    BY <1>4
  <2> HIDE DEF R
  <2>3. IsFiniteSet(all) /\ Cardinality(all) <= g[Chunks]
    BY <1>1, <1>2, <2>1, SumCoversAll
  <2>4. /\ Cardinality(Planned) <= Cardinality(all) /\ Cardinality(Planned) \in Nat
        /\ Cardinality(all) \in Nat
    BY <2>2, <2>3, FS_Subset, FS_CardinalityType
  <2> QED
    BY <1>1, <1>2, <1>6, <2>3, <2>4
<1> QED
  BY <1>2, <1>5, <1>6

=============================================================================
