---------------------------- MODULE NTile_proofs ----------------------------
(***************************************************************************)
(* What the plans of chunks rest on, for any number of rows: the ranks of  *)
(* rows by the value of a column, which may repeat, and the tiles that     *)
(* NTILE deals them into.                                                  *)
(***************************************************************************)
EXTENDS Integers, FiniteSets, FiniteSetTheorems, WellFoundedInduction, TLAPS

-----------------------------------------------------------------------------
(* Numbers *)

\* Some member of a set of numbers has none below it.
LEMMA LeastNumber ==
  ASSUME NEW S \in SUBSET Nat, S # {}
  PROVE  \E i \in S : \A j \in S : i <= j
<1>1. PICK i \in S : \A j \in S : <<j, i>> \notin OpToRel(<, Nat)
  BY NatLessThanWellFounded, WFMin, Zenon
<1>2. ASSUME NEW j \in S PROVE ~(j < i)
  <2>1. i \in Nat /\ j \in Nat
    OBVIOUS
  <2> QED
    BY <1>1, <2>1, Zenon DEF OpToRel
<1> QED
  BY <1>2

\* Division of numbers.
LEMMA Divided ==
  ASSUME NEW n \in Nat, NEW count \in Nat \ {0}
  PROVE  /\ n \div count \in Nat
         /\ n % count \in 0 .. count - 1
         /\ n = count * (n \div count) + (n % count)
BY SMT


\* Multiplication keeps the order.
LEMMA MoreTiles ==
  ASSUME NEW i \in Nat, NEW j \in Nat, NEW q \in Nat, i <= j
  PROVE  i * q \in Nat /\ i * q <= j * q
<1>1. PICK d \in Nat : j = i + d
  <2> WITNESS j - i \in Nat
  <2> QED
    OBVIOUS
<1>2. j * q = i * q + d * q
  BY <1>1
<1>3. i * q \in Nat /\ d * q \in Nat
  BY <1>1
<1> QED
  BY <1>2, <1>3

-----------------------------------------------------------------------------
(* The tiles of NTILE *)

\* The rows up to the end of tile j, when n rows are dealt into count tiles.
TileBoundary(n, count, j) ==
  j * (n \div count) + (IF j <= n % count THEN j ELSE n % count)

\* The rows in front of the first tile are none, those up to the last are all.
LEMMA TileBoundaries ==
  ASSUME NEW n \in Nat, NEW count \in Nat \ {0}
  PROVE  /\ TileBoundary(n, count, 0) = 0
         /\ TileBoundary(n, count, count) = n
         /\ \A j \in 0 .. count : TileBoundary(n, count, j) \in 0 .. n
<1> DEFINE q == n \div count
           r == n % count
           extra(j) == IF j <= r THEN j ELSE r
<1>1. q \in Nat /\ r \in 0 .. count - 1 /\ n = count * q + r
  BY Divided
<1> HIDE DEF q, r
<1>2. \A j \in Nat : TileBoundary(n, count, j) = j * q + extra(j)
  BY DEF TileBoundary, q, r
<1>3. /\ extra(0) = 0 /\ extra(count) = r
      /\ \A j \in Nat : extra(j) \in Nat /\ extra(j) <= r
  <2>1. r \in Nat /\ r < count
    BY <1>1
  <2> QED
    BY <2>1
<1> HIDE DEF extra
<1>4. 0 * q = 0
  BY <1>1
<1>5. ASSUME NEW j \in 0 .. count
      PROVE  TileBoundary(n, count, j) \in 0 .. n
  <2>1. j * q \in Nat /\ count * q \in Nat /\ j * q <= count * q
    BY <1>1, MoreTiles
  <2>2. TileBoundary(n, count, j) = j * q + extra(j)
    BY <1>2
  <2>3. extra(j) \in Nat /\ extra(j) <= r
    BY <1>3
  <2> QED
    BY <1>1, <2>1, <2>2, <2>3
<1> QED
  BY <1>1, <1>2, <1>3, <1>4, <1>5

\* So every row is in a tile.
LEMMA InSomeTile ==
  ASSUME NEW n \in Nat, NEW count \in Nat \ {0}, NEW i \in 1 .. n
  PROVE  \E j \in 1 .. count : i \in TileBoundary(n, count, j - 1) + 1 .. TileBoundary(n, count, j)
<1> DEFINE J == {j \in 0 .. count : i <= TileBoundary(n, count, j)}
<1>1. /\ TileBoundary(n, count, 0) = 0
      /\ TileBoundary(n, count, count) = n
      /\ \A j \in 0 .. count : TileBoundary(n, count, j) \in 0 .. n
  BY TileBoundaries
<1>2. count \in J /\ J \in SUBSET Nat
  BY <1>1
<1>3. PICK j \in J : \A h \in J : j <= h
  BY <1>2, LeastNumber
<1>4. j \in 1 .. count
  BY <1>1, <1>3
<1>5. j - 1 \in 0 .. count /\ j - 1 \notin J
  BY <1>3, <1>4
<1>6. TileBoundary(n, count, j - 1) \in 0 .. n /\ TileBoundary(n, count, j) \in 0 .. n
  BY <1>1, <1>4, <1>5
<1>7. TileBoundary(n, count, j - 1) < i
  BY <1>5, <1>6
<1>8. i <= TileBoundary(n, count, j)
  BY <1>3
<1> QED
  BY <1>4, <1>6, <1>7, <1>8

\* There is a tile when there is a row, and there are no more tiles than rows.
LEMMA TileCount ==
  ASSUME NEW n \in Nat \ {0}, NEW T \in Nat \ {0}
  PROVE  (n + T - 1) \div T \in 1 .. n
<1> DEFINE c == (n + T - 1) \div T
           r == (n + T - 1) % T
<1>1. n + T - 1 \in Nat
  OBVIOUS
<1>2. c \in Nat /\ r \in 0 .. T - 1 /\ n + T - 1 = T * c + r
  BY <1>1, Divided
<1> SUFFICES c \in 1 .. n
  OBVIOUS
<1> HIDE DEF c, r
<1>3. c # 0
  <2>1. T * 0 = 0
    OBVIOUS
  <2> QED
    BY <1>1, <1>2, <2>1
<1>4. c <= n
  <2> SUFFICES ASSUME n + 1 <= c PROVE FALSE
    BY <1>2
  <2>1. (n + 1) * T <= c * T
    BY <1>2, MoreTiles
  <2>2. (n + 1) * T = n * T + T /\ c * T = T * c
    BY <1>2
  <2>3. n <= n * T
    <3>1. 1 * n <= T * n
      BY MoreTiles
    <3> QED
      BY <3>1
  <2>4. n * T \in Nat /\ T * c \in Nat
    BY <1>2
  <2> QED
    BY <1>1, <1>2, <2>1, <2>2, <2>3, <2>4
<1> QED
  BY <1>2, <1>3, <1>4

-----------------------------------------------------------------------------
(* The rank of a row in a column *)

\* The rows with a value smaller than v, and no larger than v.
Below(column, keys, v) == {k \in keys : column[k] < v}
UpTo(column, keys, v)  == {k \in keys : column[k] <= v}

IsColumn(column, keys) == IsFiniteSet(keys) /\ \A k \in keys : column[k] \in Int

\* Of any rows, one has the largest value, and one the smallest.
LEMMA Largest ==
  ASSUME NEW column, NEW keys, IsColumn(column, keys), keys # {}
  PROVE  \E k \in keys : \A j \in keys : column[j] <= column[k]
<1> DEFINE Above(k) == {j \in keys : column[k] < column[j]}
<1>1. \A k \in keys : column[k] \in Int
  BY DEF IsColumn
<1>2. ASSUME NEW k \in keys
      PROVE  IsFiniteSet(Above(k)) /\ Cardinality(Above(k)) \in Nat
  BY FS_Subset, FS_CardinalityType DEF IsColumn
<1>3. PICK k \in keys : \A j \in keys : Cardinality(Above(k)) <= Cardinality(Above(j))
  <2> DEFINE Numbers == {Cardinality(Above(k)) : k \in keys}
  <2>1. Numbers \in SUBSET Nat /\ Numbers # {}
    BY <1>2
  <2>2. \E i \in Numbers : \A j \in Numbers : i <= j
    <3> HIDE DEF Numbers
    <3> QED
      BY <2>1, LeastNumber
  <2>3. PICK k \in keys : \A i \in Numbers : Cardinality(Above(k)) <= i
    BY <2>2
  <2>4. \A j \in keys : Cardinality(Above(j)) \in Numbers
    OBVIOUS
  <2> HIDE DEF Numbers
  <2> QED
    BY <2>3, <2>4
<1>4. ASSUME NEW j \in keys, column[k] < column[j] PROVE FALSE
  <2>1. Above(j) \in SUBSET Above(k) /\ j \in Above(k) /\ j \notin Above(j)
    BY <1>1, <1>4
  <2>2. Cardinality(Above(j)) <= Cardinality(Above(k))
    BY <1>2, <2>1, FS_Subset
  <2>3. Cardinality(Above(j)) = Cardinality(Above(k))
    BY <1>2, <1>3, <2>2
  <2> QED
    BY <1>2, <2>1, <2>3, FS_Subset
<1> QED
  BY <1>1, <1>4

LEMMA Smallest ==
  ASSUME NEW column, NEW keys, IsColumn(column, keys), keys # {}
  PROVE  \E k \in keys : \A j \in keys : column[k] <= column[j]
<1> DEFINE mirrored == [k \in keys |-> 0 - column[k]]
<1>1. \A k \in keys : column[k] \in Int /\ mirrored[k] = 0 - column[k]
  BY DEF IsColumn
<1>2. IsColumn(mirrored, keys)
  BY <1>1 DEF IsColumn
<1> HIDE DEF mirrored
<1>3. PICK k \in keys : \A j \in keys : mirrored[j] <= mirrored[k]
  BY <1>2, Largest
<1> QED
  BY <1>1, <1>3

LEMMA Counts ==
  ASSUME NEW column, NEW keys, IsColumn(column, keys), NEW v
  PROVE  /\ IsFiniteSet(keys) /\ Cardinality(keys) \in Nat
         /\ IsFiniteSet(Below(column, keys, v)) /\ Cardinality(Below(column, keys, v)) \in Nat
         /\ IsFiniteSet(UpTo(column, keys, v)) /\ Cardinality(UpTo(column, keys, v)) \in Nat
BY FS_Subset, FS_CardinalityType DEF IsColumn, Below, UpTo

\* v is the i-th smallest value.
IsRanked(column, keys, v, i) ==
  /\ Cardinality(Below(column, keys, v)) < i
  /\ i <= Cardinality(UpTo(column, keys, v))

\* For each rank there is a row.
LEMMA RankedRow ==
  ASSUME NEW column, NEW keys, IsColumn(column, keys), NEW i \in 1 .. Cardinality(keys)
  PROVE  \E k \in keys : IsRanked(column, keys, column[k], i)
<1> DEFINE Low == {k \in keys : Cardinality(Below(column, keys, column[k])) < i}
<1>1. /\ \A k \in keys : column[k] \in Int
      /\ Cardinality(keys) \in Nat /\ i \in Nat \ {0}
  BY Counts DEF IsColumn
<1>2. keys # {}
  BY <1>1, FS_EmptySet
<1>3. Low # {} /\ IsColumn(column, Low)
  <2>1. PICK k \in keys : \A j \in keys : column[k] <= column[j]
    BY <1>2, Smallest
  <2>2. Below(column, keys, column[k]) = {}
    BY <1>1, <2>1 DEF Below
  <2>3. k \in Low
    BY <1>1, <2>2, FS_EmptySet
  <2> QED
    BY <2>3, FS_Subset DEF IsColumn
<1>4. PICK k \in Low : \A j \in Low : column[j] <= column[k]
  BY <1>3, Largest
<1>5. ASSUME Cardinality(UpTo(column, keys, column[k])) < i
      PROVE  FALSE
  <2> DEFINE High == {j \in keys : column[k] < column[j]}
  <2>1. High # {}
    <3>1. UpTo(column, keys, column[k]) # keys
      BY <1>1, <1>5
    <3> QED
      BY <1>1, <1>4, <3>1 DEF UpTo
  <2>2. IsColumn(column, High)
    BY FS_Subset DEF IsColumn
  <2>3. PICK h \in High : \A j \in High : column[h] <= column[j]
    BY <2>1, <2>2, Smallest
  <2>4. Below(column, keys, column[h]) = UpTo(column, keys, column[k])
    BY <1>1, <1>4, <2>3 DEF Below, UpTo
  <2>5. h \in Low
    BY <1>5, <2>3, <2>4
  <2> QED
    BY <1>1, <1>4, <2>3, <2>5
<1>6. i <= Cardinality(UpTo(column, keys, column[k]))
  BY <1>1, <1>5, Counts
<1> QED
  BY <1>4, <1>6 DEF IsRanked

\* And each row has a rank.
LEMMA RowHasRank ==
  ASSUME NEW column, NEW keys, IsColumn(column, keys), NEW k \in keys
  PROVE  \E i \in 1 .. Cardinality(keys) : IsRanked(column, keys, column[k], i)
<1> DEFINE v == column[k]
           i == Cardinality(Below(column, keys, v)) + 1
<1>1. v \in Int
  BY DEF IsColumn
<1>2. /\ Below(column, keys, v) \in SUBSET UpTo(column, keys, v)
      /\ UpTo(column, keys, v) \in SUBSET keys
      /\ k \in UpTo(column, keys, v) /\ k \notin Below(column, keys, v)
  BY <1>1 DEF Below, UpTo, IsColumn
<1>3. /\ Cardinality(Below(column, keys, v)) \in Nat
      /\ Cardinality(UpTo(column, keys, v)) \in Nat
      /\ IsFiniteSet(UpTo(column, keys, v)) /\ IsFiniteSet(keys)
      /\ Cardinality(keys) \in Nat
  BY Counts
<1>4. Cardinality(UpTo(column, keys, v)) <= Cardinality(keys)
  BY <1>2, <1>3, FS_Subset
<1>5. /\ Cardinality(Below(column, keys, v)) <= Cardinality(UpTo(column, keys, v))
      /\ Cardinality(Below(column, keys, v)) # Cardinality(UpTo(column, keys, v))
  BY <1>2, <1>3, FS_Subset
<1>6. i \in 1 .. Cardinality(keys) /\ IsRanked(column, keys, v, i)
  BY <1>3, <1>4, <1>5 DEF IsRanked
<1> HIDE DEF i
<1> QED
  BY <1>6

\* Ranks grow with the values.
LEMMA RanksInOrder ==
  ASSUME NEW column, NEW keys, IsColumn(column, keys), NEW v \in Int, NEW w \in Int,
         NEW i \in Nat, NEW j \in Nat, i <= j,
         IsRanked(column, keys, v, i), IsRanked(column, keys, w, j)
  PROVE  v <= w
<1> SUFFICES ASSUME w < v PROVE FALSE
  OBVIOUS
<1>1. UpTo(column, keys, w) \in SUBSET Below(column, keys, v)
  BY DEF UpTo, Below, IsColumn
<1>2. Cardinality(UpTo(column, keys, w)) <= Cardinality(Below(column, keys, v))
  BY <1>1, Counts, FS_Subset
<1> QED
  BY <1>2, Counts DEF IsRanked

=============================================================================
