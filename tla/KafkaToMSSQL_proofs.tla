------------------------ MODULE KafkaToMSSQL_proofs ------------------------
(***************************************************************************)
(* Theorems about KafkaToMSSQL, for any topic, any number of partitions    *)
(* and tasks, and any placement of failures.                               *)
(***************************************************************************)
EXTENDS KafkaToMSSQL, TLAPS

Step(t) ==
  \/ StartTask(t)
  \/ \E p \in Partitions : PollMessage(t, p)
  \/ Proceed(t)
  \/ PollFails(t) \/ UpsertFails(t) \/ UpsertLost(t) \/ AppendKeysFails(t)
  \/ CommitOffsetsFails(t) \/ DeleteMissingFails(t) \/ TaskDies(t)

\* A polled message joins those of the batch.
LEMMA AppendPositioned ==
  ASSUME NEW S, NEW seq \in Seq(S), NEW x \in S
  PROVE  /\ Append(seq, x) \in Seq(S) /\ Len(Append(seq, x)) = Len(seq) + 1
         /\ Positioned(Append(seq, x)) = Positioned(seq) \cup {x}
<1>1. Append(seq, x) \in Seq(S)
  OBVIOUS
<1>2. /\ DOMAIN seq = 1 .. Len(seq)
      /\ DOMAIN Append(seq, x) = 1 .. Len(seq) + 1
      /\ Len(seq) \in Nat /\ Len(Append(seq, x)) = Len(seq) + 1
  OBVIOUS
<1>3. /\ \A i \in 1 .. Len(seq) : Append(seq, x)[i] = seq[i]
      /\ Append(seq, x)[Len(seq) + 1] = x
  OBVIOUS
<1> QED
  BY <1>1, <1>2, <1>3 DEF Positioned

LEMMA NothingPositioned == Positioned(<<>>) = {}
BY DEF Positioned

-----------------------------------------------------------------------------
(* Messages *)

\* What a consumer can have read is the row of a message.
LEMMA ReadMessage ==
  ASSUME TypeOK, NEW pos, IsRead(pos)
  PROVE  /\ At(pos) \in Message /\ pos[2] \in Offsets(pos[1])
         /\ At(pos) = [key |-> At(pos).key, val |-> At(pos).val]
<1>1. /\ pos[1] \in Partitions /\ pos[2] \in 0 .. produced[pos[1]] - 1
      /\ Log[pos[1]] \in Seq(Message \cup {Poison})
      /\ Len(Log[pos[1]]) \in Nat /\ produced[pos[1]] \in Nat
      /\ produced[pos[1]] <= Len(Log[pos[1]])
  BY KafkaConfigIsSound DEF TypeOK, IsRead
<1>2. pos[2] + 1 \in 1 .. Len(Log[pos[1]])
  BY <1>1
<1>3. At(pos) \in Message
  BY <1>1, <1>2 DEF At, IsRead
<1>4. pos[2] \in Offsets(pos[1])
  BY <1>1 DEF Offsets
<1> QED
  BY <1>3, <1>4 DEF Message

\* A batch has the keys of rows.
LEMMA BatchKeys ==
  ASSUME TypeOK, NEW seq, \A pos \in Positioned(seq) : IsRead(pos)
  PROVE  KeysOf(seq) \subseteq Keys
BY ReadMessage DEF KeysOf, Message

\* What a MERGE changes, it takes from a staged message about the key.
LEMMA MergedRow ==
  ASSUME TypeOK, NEW rows, \A pos \in Positioned(rows) : IsRead(pos), MergeInto(rows),
         NEW k \in Keys
  PROVE  \/ target'[k] = target[k]
         \/ \E pos \in Positioned(rows) : At(pos) = [key |-> k, val |-> target'[k]]
<1>1. CASE Effective(rows, k) = {}
  BY <1>1 DEF MergeInto
<1>2. CASE Effective(rows, k) # {}
  <2> DEFINE i == CHOOSE j \in Effective(rows, k) : TRUE
  <2>1. i \in Effective(rows, k)
    BY <1>2
  <2>2. i \in DOMAIN rows /\ At(rows[i]).key = k
    BY <2>1 DEF Effective
  <2>3. target'[k] = At(rows[i]).val
    BY <1>2 DEF MergeInto
  <2>4. rows[i] \in Positioned(rows)
    BY <2>2 DEF Positioned
  <2>5. At(rows[i]) = [key |-> At(rows[i]).key, val |-> At(rows[i]).val]
    BY <2>4, ReadMessage
  <2> QED
    BY <2>2, <2>3, <2>4, <2>5
<1> QED
  BY <1>1, <1>2

\* The table after a MERGE is a table of rows, and the staged offsets are applied.
LEMMA MergeTypes ==
  ASSUME TypeOK, NEW rows, \A pos \in Positioned(rows) : IsRead(pos), MergeInto(rows)
  PROVE  /\ target' \in [Keys -> Values \cup {NoRow}]
         /\ applied' \in [Partitions -> SUBSET Nat]
         /\ \A p \in Partitions : applied'[p] \subseteq Offsets(p)
<1>1. ASSUME NEW k \in Keys PROVE target'[k] \in Values \cup {NoRow}
  <2>1. target[k] \in Values \cup {NoRow}
    BY DEF TypeOK
  <2>2. ASSUME NEW pos \in Positioned(rows), At(pos) = [key |-> k, val |-> target'[k]]
        PROVE  target'[k] \in Values
    <3>1. At(pos) \in Message
      BY ReadMessage
    <3>2. At(pos).val \in Values
      BY <3>1 DEF Message
    <3> QED
      BY <2>2, <3>2
  <2> QED
    BY <2>1, <2>2, MergedRow
<1>2. target' \in [Keys -> Values \cup {NoRow}]
  BY <1>1 DEF MergeInto
<1>3. ASSUME NEW p \in Partitions PROVE applied'[p] \subseteq Offsets(p)
  <2>1. \A pos \in Positioned(rows) : pos[1] = p => pos[2] \in Offsets(p)
    BY ReadMessage
  <2>2. applied'[p] = applied[p] \cup {pos[2] : pos \in {q \in Positioned(rows) : q[1] = p}}
    BY DEF MergeInto
  <2>3. applied[p] \subseteq Offsets(p)
    BY DEF TypeOK
  <2> QED
    BY <2>1, <2>2, <2>3
<1>4. \A p \in Partitions : Offsets(p) \subseteq Nat
  BY DEF Offsets
<1>5. applied' \in [Partitions -> SUBSET Nat]
  BY <1>3, <1>4 DEF MergeInto
<1> QED
  BY <1>2, <1>3, <1>5

\* Staging tables hold what was read.
LEMMA StagedIsRead ==
  ASSUME TypeOK, ConsumerInvariant, NEW t \in Tasks, staging[Suffix[t]] # NoTable
  PROVE  /\ staging[Suffix[t]] \in Seq(Positions)
         /\ \A pos \in Positioned(staging[Suffix[t]]) : IsRead(pos)
BY KafkaConfigIsSound DEF TypeOK, ConsumerInvariant

\* What a poll reads is a position of the log, of a row if it is not Poison.
LEMMA PolledIsRead ==
  ASSUME TypeOK, NEW t \in Tasks, NEW p \in Partitions, PollMessage(t, p)
  PROVE  /\ <<p, position[t][p]>> \in Positions /\ IsRead(<<p, position[t][p]>>)
         /\ position[t][p] \in Nat /\ position[t][p] + 1 <= produced[p]
         /\ Log[p][position[t][p] + 1] # Poison
<1> DEFINE o == position[t][p]
<1>1. /\ o \in Nat /\ o < produced[p] /\ produced[p] \in Nat
      /\ produced[p] <= Len(Log[p]) /\ Len(Log[p]) \in Nat
  BY KafkaConfigIsSound DEF TypeOK, PollMessage
<1>2. o \in Offsets(p)
  BY <1>1 DEF Offsets
<1>3. <<p, o>> \in Positions
  BY <1>2 DEF Positions
<1>4. Log[p][o + 1] # Poison /\ IsRead(<<p, o>>)
  BY <1>1 DEF PollMessage, IsRead, At
<1> QED
  BY <1>1, <1>3, <1>4

\* A fault is counted, and no more of them than allowed.
LEMMA FaultType ==
  ASSUME TypeOK, UNCHANGED faults \/ (faults < MaxFaults /\ faults' = faults + 1)
  PROVE  faults' \in 0 .. MaxFaults
BY KafkaConfigIsSound DEF TypeOK

LEMMA EmptyBatch == <<>> \in Seq(Positions) /\ Len(<<>>) = 0 /\ Len(<<>>) <= BatchSize
BY KafkaConfigIsSound

LEMMA InitType == Init => TypeOK
<1> SUFFICES ASSUME Init PROVE TypeOK
  OBVIOUS
<1> USE KafkaConfigIsSound DEF Init
<1>1. /\ \A p \in Partitions : Len(Log[p]) \in Nat
      /\ <<>> \in Seq(Positions) /\ Len(<<>>) = 0
  OBVIOUS
<1>2. /\ produced \in [Partitions -> Nat] /\ \A p \in Partitions : produced[p] <= Len(Log[p])
      /\ committed \in [Partitions -> Nat] /\ \A p \in Partitions : committed[p] <= produced[p]
      /\ applied \in [Partitions -> SUBSET Nat]
      /\ \A p \in Partitions : applied[p] \subseteq Offsets(p)
  BY <1>1
<1>3. /\ batch \in [Tasks -> Seq(Positions)] /\ \A t \in Tasks : Len(batch[t]) <= BatchSize
      /\ position \in [Tasks -> [Partitions -> Nat]]
      /\ offsets \in [Tasks -> [Partitions -> Nat]]
      /\ \A t \in Tasks, p \in Partitions : position[t][p] <= produced[p]
      /\ \A t \in Tasks, p \in Partitions : offsets[t][p] <= position[t][p]
  BY <1>1 DEF NoOffsets
<1>4. /\ target \in [Keys -> Values \cup {NoRow}]
      /\ staging \in [Suffixes -> Seq(Positions) \cup {NoTable}]
      /\ keysStaging \in [Suffixes -> (SUBSET Keys) \cup {NoTable}]
  OBVIOUS
<1>5. /\ pc \in [Tasks -> Locations]
      /\ idle \in [Tasks -> 0 .. MaxIdlePolls]
      /\ processed \in [Tasks -> Nat]
      /\ ending \in [Tasks -> BOOLEAN]
      /\ scope \in [Tasks -> SUBSET Keys]
      /\ faults \in 0 .. MaxFaults
  BY DEF Locations
<1> HIDE DEF Init
<1> QED
  BY <1>2, <1>3, <1>4, <1>5 DEF TypeOK

LEMMA StepType == TypeOK /\ ConsumerInvariant /\ [Next]_vars => TypeOK'
<1> SUFFICES ASSUME TypeOK, ConsumerInvariant, [Next]_vars PROVE TypeOK'
  OBVIOUS
<1> USE KafkaConfigIsSound
<1>1. CASE UNCHANGED vars
  BY <1>1 DEF vars, tableVars, streamVars, TypeOK
<1>2. ASSUME NEW p \in Partitions, Produce(p) PROVE TypeOK'
  <2>1. produced' = [produced EXCEPT ![p] = @ + 1] /\ produced[p] < Len(Log[p])
    BY <1>2 DEF Produce
  <2>2. Len(Log[p]) \in Nat
    OBVIOUS
  <2>3. /\ produced' \in [Partitions -> Nat]
        /\ \A q \in Partitions : produced[q] <= produced'[q] /\ produced'[q] <= Len(Log[q])
    BY <2>1, <2>2 DEF TypeOK
  <2>4. UNCHANGED <<committed, tableVars, pc, streamVars, scope, faults>>
    BY <1>2 DEF Produce
  <2>5. /\ \A q \in Partitions : committed[q] <= produced'[q]
        /\ \A t \in Tasks, q \in Partitions : position[t][q] <= produced'[q]
    <3>1. ASSUME NEW q \in Partitions, NEW n \in Nat, n <= produced[q] PROVE n <= produced'[q]
      BY <2>3, <3>1 DEF TypeOK
    <3>2. /\ \A q \in Partitions : committed[q] \in Nat /\ committed[q] <= produced[q]
          /\ \A t \in Tasks, q \in Partitions :
               position[t][q] \in Nat /\ position[t][q] <= produced[q]
      BY DEF TypeOK
    <3> QED
      BY <3>1, <3>2
  <2> QED
    BY <2>3, <2>4, <2>5 DEF TypeOK, tableVars, streamVars
<1>3. ASSUME NEW t \in Tasks, Step(t) PROVE TypeOK'
  <2>1. CASE StartTask(t)
    <3>1. UNCHANGED <<produced, committed, target, staging, applied, faults>>
      BY <2>1 DEF StartTask
    <3>2. /\ pc' \in [Tasks -> Locations] /\ idle' \in [Tasks -> 0 .. MaxIdlePolls]
          /\ processed' \in [Tasks -> Nat] /\ ending' \in [Tasks -> BOOLEAN]
          /\ scope' \in [Tasks -> SUBSET Keys]
          /\ keysStaging' \in [Suffixes -> (SUBSET Keys) \cup {NoTable}]
      BY <2>1 DEF StartTask, TypeOK, Locations
    <3>3. /\ position' = [position EXCEPT ![t] = committed]
          /\ offsets' = [offsets EXCEPT ![t] = NoOffsets]
          /\ batch' = [batch EXCEPT ![t] = <<>>]
      BY <2>1 DEF StartTask, StartPosition
    <3>4. NoOffsets \in [Partitions -> Nat] /\ \A p \in Partitions : NoOffsets[p] = 0
      BY DEF NoOffsets
    <3>5. /\ position' \in [Tasks -> [Partitions -> Nat]]
          /\ offsets' \in [Tasks -> [Partitions -> Nat]]
      BY <3>3, <3>4 DEF TypeOK
    <3>6. \A u \in Tasks, p \in Partitions :
            position'[u][p] <= produced[p] /\ offsets'[u][p] <= position'[u][p]
      BY <3>3, <3>4 DEF TypeOK
    <3>7. batch' \in [Tasks -> Seq(Positions)] /\ \A u \in Tasks : Len(batch'[u]) <= BatchSize
      BY <3>3, EmptyBatch DEF TypeOK
    <3> QED
      BY <3>1, <3>2, <3>5, <3>6, <3>7 DEF TypeOK
  <2>2. ASSUME NEW p \in Partitions, PollMessage(t, p) PROVE TypeOK'
    <3> DEFINE o == position[t][p]
               grown == Append(batch[t], <<p, o>>)
    <3>1. <<p, o>> \in Positions /\ o \in Nat /\ o + 1 <= produced[p]
      BY <2>2, PolledIsRead
    <3>2. batch[t] \in Seq(Positions) /\ Len(batch[t]) < BatchSize
      BY <2>2 DEF TypeOK, ConsumerInvariant, PollMessage, Goto
    <3>3. grown \in Seq(Positions) /\ Len(grown) <= BatchSize
      BY <3>1, <3>2, AppendPositioned
    <3>4. /\ batch' = [batch EXCEPT ![t] = grown]
          /\ offsets' = [offsets EXCEPT ![t][p] = o + 1]
          /\ position' = [position EXCEPT ![t][p] = o + 1]
          /\ UNCHANGED <<produced, committed, tableVars, scope, faults>>
      BY <2>2 DEF PollMessage, OffsetAfter
    <3>5. batch' \in [Tasks -> Seq(Positions)] /\ \A u \in Tasks : Len(batch'[u]) <= BatchSize
      BY <3>3, <3>4 DEF TypeOK
    <3>6. /\ position' \in [Tasks -> [Partitions -> Nat]]
          /\ offsets' \in [Tasks -> [Partitions -> Nat]]
      <4>1. /\ [position[t] EXCEPT ![p] = o + 1] \in [Partitions -> Nat]
            /\ [offsets[t] EXCEPT ![p] = o + 1] \in [Partitions -> Nat]
        BY <3>1 DEF TypeOK
      <4>2. /\ position' = [position EXCEPT ![t] = [position[t] EXCEPT ![p] = o + 1]]
            /\ offsets' = [offsets EXCEPT ![t] = [offsets[t] EXCEPT ![p] = o + 1]]
        BY <3>4
      <4> QED
        BY <4>1, <4>2 DEF TypeOK
    <3>7. ASSUME NEW u \in Tasks, NEW q \in Partitions
          PROVE  position'[u][q] <= produced[q] /\ offsets'[u][q] <= position'[u][q]
      <4>1. /\ position[u][q] \in Nat /\ offsets[u][q] \in Nat /\ produced[q] \in Nat
            /\ position[u][q] <= produced[q] /\ offsets[u][q] <= position[u][q]
        BY DEF TypeOK
      <4>2. /\ position'[u][q] = IF u = t /\ q = p THEN o + 1 ELSE position[u][q]
            /\ offsets'[u][q] = IF u = t /\ q = p THEN o + 1 ELSE offsets[u][q]
        BY <3>4 DEF TypeOK
      <4> QED
        BY <3>1, <4>1, <4>2
    <3>8. /\ pc' \in [Tasks -> Locations] /\ idle' \in [Tasks -> 0 .. MaxIdlePolls]
          /\ processed' \in [Tasks -> Nat] /\ ending' \in [Tasks -> BOOLEAN]
      <4>1. \E to \in Locations : pc' = [pc EXCEPT ![t] = to]
        BY <2>2 DEF PollMessage, Goto, Locations
      <4>2. /\ idle' = [idle EXCEPT ![t] = 0]
            /\ \E last \in BOOLEAN : ending' = [ending EXCEPT ![t] = last]
            /\ processed' \in {processed, [processed EXCEPT ![t] = @ + 1]}
        BY <2>2 DEF PollMessage
      <4>3. pc' \in [Tasks -> Locations] /\ ending' \in [Tasks -> BOOLEAN]
        BY <4>1, <4>2 DEF TypeOK
      <4>4. idle' \in [Tasks -> 0 .. MaxIdlePolls]
        <5>1. 0 \in 0 .. MaxIdlePolls
          BY KafkaConfigIsSound
        <5> QED
          BY <4>2, <5>1 DEF TypeOK
      <4>5. processed' \in [Tasks -> Nat]
        <5>1. processed \in [Tasks -> Nat]
          BY DEF TypeOK
        <5> QED
          BY <4>2, <5>1
      <4> QED
        BY <4>3, <4>4, <4>5
    <3> QED
      BY <3>4, <3>5, <3>6, <3>7, <3>8 DEF TypeOK, tableVars
  <2>3. CASE PollIdle(t)
    <3>1. idle[t] < MaxIdlePolls
      BY <2>3 DEF PollIdle, Goto, ConsumerInvariant
    <3>2. /\ pc' \in [Tasks -> Locations] /\ idle' \in [Tasks -> 0 .. MaxIdlePolls]
          /\ ending' \in [Tasks -> BOOLEAN]
      BY <2>3, <3>1 DEF PollIdle, Goto, AfterStream, TypeOK, Locations
    <3> QED
      BY <2>3, <3>2 DEF PollIdle, tableVars, TypeOK
  <2>4. CASE LoadStagingTable(t) \/ UpsertRejected(t)
    <3>1. staging' \in [Suffixes -> Seq(Positions) \cup {NoTable}]
      BY <2>4 DEF LoadStagingTable, LoadedMessages, UpsertRejected, TypeOK
    <3> QED
      BY <2>4, <3>1 DEF LoadStagingTable, UpsertRejected, Goto, streamVars, TypeOK, Locations
  <2>5. CASE UpsertBatch(t) \/ UpsertFails(t)
    <3>1. /\ target' \in [Keys -> Values \cup {NoRow}]
          /\ applied' \in [Partitions -> SUBSET Nat]
          /\ \A p \in Partitions : applied'[p] \subseteq Offsets(p)
      BY <2>5, StagedIsRead, MergeTypes DEF UpsertBatch, UpsertFails, TypeOK
    <3>2. staging' \in [Suffixes -> Seq(Positions) \cup {NoTable}]
      BY <2>5 DEF UpsertBatch, UpsertFails, TypeOK
    <3>3. pc' \in [Tasks -> Locations]
      <4>1. \E to \in Locations : pc' = [pc EXCEPT ![t] = to]
        BY <2>5 DEF UpsertBatch, UpsertFails, Goto, AfterUpsert, Locations
      <4> QED
        BY <4>1 DEF TypeOK
    <3>4. faults' \in 0 .. MaxFaults
      BY <2>5, FaultType DEF UpsertBatch, UpsertFails, Fault
    <3> QED
      BY <2>5, <3>1, <3>2, <3>3, <3>4 DEF UpsertBatch, UpsertFails, streamVars, TypeOK
  <2>6. CASE UpsertLost(t) \/ PollFails(t) \/ AppendKeysFails(t) \/ TaskDies(t)
    <3>1. pc' \in [Tasks -> Locations]
      <4>1. \E to \in Locations : pc' = [pc EXCEPT ![t] = to]
        BY <2>6 DEF UpsertLost, PollFails, AppendKeysFails, TaskDies, Goto, AfterUpsert,
                    Locations
      <4> QED
        BY <4>1 DEF TypeOK
    <3>2. faults' \in 0 .. MaxFaults
      BY <2>6, FaultType DEF UpsertLost, PollFails, AppendKeysFails, TaskDies, Fault
    <3> QED
      BY <2>6, <3>1, <3>2 DEF UpsertLost, PollFails, AppendKeysFails, TaskDies, tableVars,
                        streamVars, TypeOK
  <2>7. CASE AppendKeysToStaging(t)
    <3>1. AppendedKeys(t) \subseteq Keys /\ KeysOf(batch[t]) \subseteq Keys
      BY BatchKeys DEF AppendedKeys, ConsumerInvariant
    <3>2. keysStaging' \in [Suffixes -> (SUBSET Keys) \cup {NoTable}]
      <4>1. keysStaging[Suffix[t]] \in (SUBSET Keys) \cup {NoTable} /\ Suffix[t] \in Suffixes
        BY DEF TypeOK
      <4>2. keysStaging[Suffix[t]] # NoTable
        BY <2>7 DEF AppendKeysToStaging
      <4>3. keysStaging[Suffix[t]] \subseteq Keys
        BY <4>1, <4>2
      <4>4. keysStaging[Suffix[t]] \cup AppendedKeys(t) \in SUBSET Keys
        BY <3>1, <4>3
      <4>5. \/ UNCHANGED keysStaging
            \/ keysStaging' = [keysStaging EXCEPT ![Suffix[t]] = @ \cup AppendedKeys(t)]
        BY <2>7 DEF AppendKeysToStaging
      <4> QED
        BY <4>4, <4>5 DEF TypeOK
    <3>3. scope' \in [Tasks -> SUBSET Keys]
      BY <2>7, <3>1 DEF AppendKeysToStaging, TypeOK
    <3>4. pc' \in [Tasks -> Locations]
      <4>1. "commit" \in Locations /\ pc' = [pc EXCEPT ![t] = "commit"]
        BY <2>7 DEF AppendKeysToStaging, Goto, Locations
      <4> QED
        BY <4>1 DEF TypeOK
    <3>5. faults' \in 0 .. MaxFaults
      BY <2>7, FaultType DEF AppendKeysToStaging, Fault
    <3> QED
      BY <2>7, <3>2, <3>3, <3>4, <3>5 DEF AppendKeysToStaging, streamVars, TypeOK
  <2>8. CASE CommitOffsets(t) \/ CommitOffsetsFails(t)
    <3>1. /\ CommittedWith(t) \in [Partitions -> Nat]
          /\ \A p \in Partitions : CommittedWith(t)[p] <= produced[p]
      <4> SUFFICES ASSUME NEW p \in Partitions
                   PROVE  CommittedWith(t)[p] \in Nat /\ CommittedWith(t)[p] <= produced[p]
        BY DEF CommittedWith
      <4>1. /\ offsets[t][p] \in Nat /\ committed[p] \in Nat /\ position[t][p] \in Nat
            /\ produced[p] \in Nat /\ committed[p] <= produced[p]
            /\ offsets[t][p] <= position[t][p] /\ position[t][p] <= produced[p]
        BY DEF TypeOK
      <4>2. CommittedWith(t)[p] \in {offsets[t][p], committed[p]}
        BY DEF CommittedWith
      <4> QED
        BY <4>1, <4>2
    <3>2. /\ committed' \in [Partitions -> Nat]
          /\ \A p \in Partitions : committed'[p] <= produced[p]
      BY <2>8, <3>1 DEF CommitOffsets, CommitOffsetsFails, TypeOK
    <3>3. pc' \in [Tasks -> Locations]
      BY <2>8 DEF CommitOffsets, CommitOffsetsFails, Goto, AfterStream, TypeOK, Locations
    <3>7. faults' \in 0 .. MaxFaults
      BY <2>8, FaultType DEF CommitOffsets, CommitOffsetsFails, Fault
    <3>4. /\ offsets' \in [Tasks -> [Partitions -> Nat]]
          /\ \A u \in Tasks, p \in Partitions : offsets'[u][p] <= position[u][p]
      <4>1. offsets' = offsets \/ offsets' = [offsets EXCEPT ![t] = NoOffsets]
        BY <2>8 DEF CommitOffsets, CommitOffsetsFails, streamVars
      <4>2. NoOffsets \in [Partitions -> Nat] /\ \A p \in Partitions : NoOffsets[p] = 0
        BY DEF NoOffsets
      <4>3. offsets' \in [Tasks -> [Partitions -> Nat]]
        BY <4>1, <4>2 DEF TypeOK
      <4>4. ASSUME NEW u \in Tasks, NEW p \in Partitions
            PROVE  offsets'[u][p] <= position[u][p]
        <5>1. offsets[u][p] <= position[u][p] /\ 0 <= position[u][p]
          BY DEF TypeOK
        <5>2. offsets'[u] = offsets[u] \/ offsets'[u] = NoOffsets
          BY <4>1 DEF TypeOK
        <5> QED
          BY <4>2, <5>1, <5>2
      <4> QED
        BY <4>3, <4>4
    <3>5. batch' \in [Tasks -> Seq(Positions)] /\ \A u \in Tasks : Len(batch'[u]) <= BatchSize
      <4>1. batch' = batch \/ batch' = [batch EXCEPT ![t] = <<>>]
        BY <2>8 DEF CommitOffsets, CommitOffsetsFails, streamVars
      <4>2. batch \in [Tasks -> Seq(Positions)] /\ \A u \in Tasks : Len(batch[u]) <= BatchSize
        BY DEF TypeOK
      <4>3. batch' \in [Tasks -> Seq(Positions)]
        BY <4>1, <4>2, EmptyBatch
      <4>4. \A u \in Tasks : batch'[u] = batch[u] \/ batch'[u] = <<>>
        BY <4>1, <4>2
      <4> QED
        BY <4>2, <4>3, <4>4, EmptyBatch
    <3>6. UNCHANGED <<produced, tableVars, position, idle, processed, ending, scope>>
      BY <2>8 DEF CommitOffsets, CommitOffsetsFails, streamVars
    <3> QED
      BY <3>2, <3>3, <3>4, <3>5, <3>6, <3>7 DEF tableVars, TypeOK
  <2>9. CASE DeleteMissingInScope(t) \/ DeleteMissingFails(t) \/ DropKeysStagingTable(t)
    <3>1. WithoutMissing(t) \in [Keys -> Values \cup {NoRow}]
      BY DEF WithoutMissing, TypeOK
    <3>2. target' \in [Keys -> Values \cup {NoRow}]
      BY <2>9, <3>1 DEF DeleteMissingInScope, DeleteMissingFails, DropKeysStagingTable, TypeOK
    <3>3. keysStaging' \in [Suffixes -> (SUBSET Keys) \cup {NoTable}]
      <4>1. \/ UNCHANGED keysStaging
            \/ keysStaging' = [keysStaging EXCEPT ![Suffix[t]] = NoTable]
        BY <2>9 DEF DeleteMissingInScope, DeleteMissingFails, DropKeysStagingTable
      <4> QED
        BY <4>1 DEF TypeOK
    <3>4. pc' \in [Tasks -> Locations]
      BY <2>9 DEF DeleteMissingInScope, DeleteMissingFails, DropKeysStagingTable, Goto,
                  TypeOK, Locations
    <3>6. faults' \in 0 .. MaxFaults
      BY <2>9, FaultType DEF DeleteMissingInScope, DeleteMissingFails, DropKeysStagingTable,
                             Fault
    <3>5. UNCHANGED <<produced, committed, staging, applied, streamVars, scope>>
      BY <2>9 DEF DeleteMissingInScope, DeleteMissingFails, DropKeysStagingTable
    <3> QED
      BY <3>2, <3>3, <3>4, <3>5, <3>6 DEF streamVars, TypeOK
  <2> QED
    BY <1>3, <2>1, <2>2, <2>3, <2>4, <2>5, <2>6, <2>7, <2>8, <2>9 DEF Step, Proceed
<1> QED
  BY <1>1, <1>2, <1>3 DEF Next, Step


-----------------------------------------------------------------------------
(* What one step changes *)

\* A step of one task leaves what another is doing alone.
LEMMA OthersKeep ==
  ASSUME TypeOK, NEW t \in Tasks, Step(t), NEW u \in Tasks \ {t}
  PROVE  /\ pc'[u] = pc[u] /\ idle'[u] = idle[u] /\ ending'[u] = ending[u]
         /\ position'[u] = position[u] /\ batch'[u] = batch[u] /\ offsets'[u] = offsets[u]
<1> USE DEF Step, Proceed, StartTask, StartPosition, PollMessage, OffsetAfter, PollIdle,
       LoadStagingTable, UpsertBatch, UpsertRejected, AppendKeysToStaging, CommitOffsets,
       DeleteMissingInScope, DropKeysStagingTable, PollFails, UpsertFails, UpsertLost,
       AppendKeysFails, CommitOffsetsFails, DeleteMissingFails, TaskDies, streamVars
<1>1. pc \in [Tasks -> Locations] /\ idle \in [Tasks -> 0 .. MaxIdlePolls]
      /\ ending \in [Tasks -> BOOLEAN]
  BY DEF TypeOK
<1>2. /\ position \in [Tasks -> [Partitions -> Nat]]
      /\ batch \in [Tasks -> Seq(Positions)]
      /\ offsets \in [Tasks -> [Partitions -> Nat]]
  BY DEF TypeOK
<1>3. pc'[u] = pc[u]
  BY <1>1 DEF Goto
<1>4. idle'[u] = idle[u]
  BY <1>1
<1>5. ending'[u] = ending[u]
  BY <1>1
<1>6. position'[u] = position[u]
  BY <1>2
<1>7. batch'[u] = batch[u]
  BY <1>2
<1>8. offsets'[u] = offsets[u]
  BY <1>2
<1> QED
  BY <1>3, <1>4, <1>5, <1>6, <1>7, <1>8

\* Offsets are committed where the offsets of the batch are.
LEMMA CommittedChange ==
  ASSUME NEW t \in Tasks, Step(t)
  PROVE  /\ UNCHANGED produced
         /\ UNCHANGED committed \/ (pc[t] = "commit" /\ committed' = CommittedWith(t))
BY DEF Step, Proceed, StartTask, PollMessage, PollIdle, LoadStagingTable, UpsertBatch,
       UpsertRejected, AppendKeysToStaging, CommitOffsets, DeleteMissingInScope,
       DropKeysStagingTable, PollFails, UpsertFails, UpsertLost, AppendKeysFails,
       CommitOffsetsFails, DeleteMissingFails, TaskDies, Goto

\* The target changes by the MERGE of a staging table or by the delete at the end.
LEMMA TargetChange ==
  ASSUME NEW t \in Tasks, Step(t)
  PROVE  \/ UNCHANGED <<target, applied>>
         \/ /\ pc[t] = "merge" /\ staging[Suffix[t]] # NoTable
            /\ MergeAccepts(staging[Suffix[t]]) /\ MergeInto(staging[Suffix[t]])
         \/ pc[t] = "delete" /\ target' = WithoutMissing(t) /\ UNCHANGED applied
BY DEF Step, Proceed, StartTask, PollMessage, PollIdle, LoadStagingTable, UpsertBatch,
       UpsertRejected, AppendKeysToStaging, CommitOffsets, DeleteMissingInScope,
       DropKeysStagingTable, PollFails, UpsertFails, UpsertLost, AppendKeysFails,
       CommitOffsetsFails, DeleteMissingFails, TaskDies, Goto, tableVars

\* A task loads its batch into its own staging table, or drops that.
LEMMA StagingChange ==
  ASSUME NEW t \in Tasks, Step(t)
  PROVE  \/ UNCHANGED staging
         \/ staging' = [staging EXCEPT ![Suffix[t]] = NoTable]
         \/ staging' = [staging EXCEPT ![Suffix[t]] = batch[t]]
BY DEF Step, Proceed, StartTask, PollMessage, PollIdle, LoadStagingTable, LoadedMessages,
       UpsertBatch, UpsertRejected, AppendKeysToStaging, CommitOffsets,
       DeleteMissingInScope, DropKeysStagingTable, PollFails, UpsertFails, UpsertLost,
       AppendKeysFails, CommitOffsetsFails, DeleteMissingFails, TaskDies, tableVars

\* The position and the batch change when a run starts, by a message polled, and
\* when a batch is done.
LEMMA StreamChange ==
  ASSUME TypeOK, NEW t \in Tasks, Step(t)
  PROVE  \/ /\ StartTask(t) /\ pc'[t] = "poll"
            /\ position'[t] = committed /\ batch'[t] = <<>> /\ offsets'[t] = NoOffsets
         \/ \E p \in Partitions : PollMessage(t, p)
         \/ /\ CommitOffsets(t) /\ pc[t] = "commit" /\ committed' = CommittedWith(t)
            /\ position'[t] = position[t] /\ batch'[t] = <<>> /\ offsets'[t] = NoOffsets
         \/ /\ position'[t] = position[t] /\ batch'[t] = batch[t]
            /\ offsets'[t] = offsets[t]
<1>1. CASE StartTask(t)
  BY <1>1 DEF StartTask, StartPosition, TypeOK
<1>2. CASE CommitOffsets(t)
  BY <1>2 DEF CommitOffsets, Goto, TypeOK
<1>3. CASE ~StartTask(t) /\ ~CommitOffsets(t) /\ ~ \E p \in Partitions : PollMessage(t, p)
  BY <1>3 DEF Step, Proceed, PollIdle, LoadStagingTable, UpsertBatch, UpsertRejected,
       AppendKeysToStaging, DeleteMissingInScope, DropKeysStagingTable, PollFails,
       UpsertFails, UpsertLost, AppendKeysFails, CommitOffsetsFails, DeleteMissingFails,
       TaskDies, streamVars
<1> QED
  BY <1>1, <1>2, <1>3

\* What a poll does to the position, the batch and the offsets of its task.
LEMMA PolledStream ==
  ASSUME TypeOK, NEW t \in Tasks, NEW p \in Partitions, PollMessage(t, p)
  PROVE  /\ pc[t] = "poll" /\ pc'[t] \in {"poll", "load"} /\ p \in Assigned[t]
         /\ batch'[t] = Append(batch[t], <<p, position[t][p]>>)
         /\ Positioned(batch'[t]) = Positioned(batch[t]) \cup {<<p, position[t][p]>>}
         /\ Len(batch'[t]) = Len(batch[t]) + 1
         /\ position'[t] = [position[t] EXCEPT ![p] = position[t][p] + 1]
         /\ offsets'[t] = [offsets[t] EXCEPT ![p] = position[t][p] + 1]
<1>1. <<p, position[t][p]>> \in Positions /\ batch[t] \in Seq(Positions)
  BY PolledIsRead DEF TypeOK
<1>2. batch'[t] = Append(batch[t], <<p, position[t][p]>>)
  BY DEF PollMessage, TypeOK
<1>3. /\ position'[t] = [position[t] EXCEPT ![p] = position[t][p] + 1]
      /\ offsets'[t] = [offsets[t] EXCEPT ![p] = position[t][p] + 1]
  BY DEF PollMessage, OffsetAfter, TypeOK
<1>4. pc[t] = "poll" /\ pc'[t] \in {"poll", "load"} /\ p \in Assigned[t]
  BY DEF PollMessage, Goto, TypeOK
<1> QED
  BY <1>1, <1>2, <1>3, <1>4, AppendPositioned

-----------------------------------------------------------------------------
(* The consumer invariant *)

\* The part of it that belongs to one task.
Consumes(t) ==
  /\ \A p \in Partitions : \A o \in 0 .. position[t][p] - 1 : Log[p][o + 1] # Poison
  /\ \A p \in Partitions \ Assigned[t] : offsets[t][p] = 0
  /\ \A pos \in Positioned(batch[t]) : IsRead(pos)
  /\ pc[t] = "poll" => Len(batch[t]) < BatchSize /\ idle[t] < MaxIdlePolls
  /\ pc[t] \in {"load", "merge", "append", "commit"} => ending[t] \/ idle[t] < MaxIdlePolls
  /\ pc[t] \in {"append", "delete", "drop"} => DeleteMissing

\* What was read once has been read ever after.
LEMMA ReadStays ==
  ASSUME TypeOK, [Next]_vars, NEW pos, IsRead(pos)
  PROVE  IsRead(pos)'
<1>1. CASE UNCHANGED produced
  BY <1>1 DEF IsRead, At
<1>2. ASSUME NEW p \in Partitions, Produce(p) PROVE IsRead(pos)'
  <2>1. /\ produced' = [produced EXCEPT ![p] = @ + 1]
        /\ \A q \in Partitions : produced[q] \in Nat
        /\ produced \in [Partitions -> Nat]
    BY <1>2 DEF Produce, TypeOK
  <2>2. pos[1] \in Partitions /\ pos[2] \in 0 .. produced[pos[1]] - 1 /\ At(pos) # Poison
    BY DEF IsRead
  <2>3. pos[2] \in 0 .. produced'[pos[1]] - 1
    BY <2>1, <2>2
  <2> QED
    BY <2>2, <2>3 DEF IsRead, At
<1> QED
  BY <1>1, <1>2, CommittedChange DEF Next, Step, vars


\* The locations of a task, and how it leaves room for what comes next.
LEMMA RoomStep ==
  ASSUME TypeOK, NEW t \in Tasks, Consumes(t), Step(t)
  PROVE  /\ pc'[t] = "poll" => Len(batch'[t]) < BatchSize /\ idle'[t] < MaxIdlePolls
         /\ pc'[t] \in {"load", "merge", "append", "commit"} =>
              ending'[t] \/ idle'[t] < MaxIdlePolls
         /\ pc'[t] \in {"append", "delete", "drop"} => DeleteMissing
<1> USE KafkaConfigIsSound
<1>1. /\ pc \in [Tasks -> Locations] /\ idle \in [Tasks -> 0 .. MaxIdlePolls]
      /\ ending \in [Tasks -> BOOLEAN] /\ batch \in [Tasks -> Seq(Positions)]
  BY DEF TypeOK
<1>2. CASE StartTask(t)
  BY <1>1, <1>2 DEF StartTask
<1>3. ASSUME NEW p \in Partitions, PollMessage(t, p)
      PROVE  /\ pc'[t] \in {"poll", "load"} /\ idle'[t] = 0
             /\ pc'[t] = "poll" => Len(batch'[t]) < BatchSize
  <2>1. /\ batch'[t] = Append(batch[t], <<p, position[t][p]>>)
        /\ Len(batch'[t]) = Len(batch[t]) + 1
    BY <1>3, PolledStream
  <2>4. Len(batch[t]) \in Nat
    BY <1>1
  <2>2. pc'[t] \in {"poll", "load"} /\ (pc'[t] = "poll" => ~(Len(batch'[t]) >= BatchSize))
    BY <1>1, <1>3, <2>1 DEF PollMessage, Goto
  <2>3. idle'[t] = 0
    BY <1>1, <1>3 DEF PollMessage
  <2> QED
    BY <2>1, <2>2, <2>3, <2>4
<1>4. CASE PollIdle(t)
  <2>1. /\ pc[t] = "poll" /\ idle[t] < MaxIdlePolls /\ Len(batch[t]) < BatchSize
        /\ idle[t] \in 0 .. MaxIdlePolls /\ UNCHANGED batch
    BY <1>1, <1>4 DEF PollIdle, Goto, Consumes
  <2>2. /\ idle'[t] = idle[t] + 1 /\ ending'[t] = (idle[t] + 1 >= MaxIdlePolls)
        /\ pc'[t] = CASE batch[t] # <<>> -> "load"
                      [] batch[t] = <<>> /\ ending'[t] -> AfterStream
                      [] OTHER -> "poll"
    BY <1>1, <1>4 DEF PollIdle, Goto
  <2>3. CASE batch[t] # <<>>
    <3>1. pc'[t] = "load"
      BY <2>2, <2>3
    <3>2. ~ending'[t] => ~(idle[t] + 1 >= MaxIdlePolls)
      BY <2>2
    <3>3. ~ending'[t] => idle'[t] < MaxIdlePolls
      BY <2>1, <2>2, <3>2
    <3> QED
      BY <3>1, <3>3
  <2>4. CASE batch[t] = <<>> /\ ending'[t]
    BY <2>2, <2>4 DEF AfterStream
  <2>5. CASE batch[t] = <<>> /\ ~ending'[t]
    <3>1. pc'[t] = "poll" /\ ~(idle[t] + 1 >= MaxIdlePolls)
      BY <2>2, <2>5
    <3> QED
      BY <2>1, <2>2, <3>1
  <2> QED
    BY <2>3, <2>4, <2>5
<1>5. CASE CommitOffsets(t)
  <2>1. /\ pc[t] = "commit" /\ pc'[t] = IF ending[t] THEN AfterStream ELSE "poll"
        /\ UNCHANGED <<idle, ending>> /\ batch'[t] = <<>>
    BY <1>1, <1>5 DEF CommitOffsets, Goto
  <2> QED
    BY <2>1 DEF Consumes, AfterStream
<1>6. CASE LoadStagingTable(t) \/ UpsertBatch(t) \/ UpsertLost(t) \/ AppendKeysToStaging(t)
  <2>1. /\ pc[t] \in {"load", "merge", "append"} /\ pc'[t] \in {"merge", "append", "commit"}
        /\ UNCHANGED <<idle, ending>>
        /\ pc'[t] = "append" => DeleteMissing
    BY <1>1, <1>6 DEF LoadStagingTable, UpsertBatch, UpsertLost, AppendKeysToStaging, Goto,
                      AfterUpsert, streamVars
  <2> QED
    BY <2>1 DEF Consumes
<1>7. CASE DeleteMissingInScope(t)
  BY <1>1, <1>7 DEF DeleteMissingInScope, Goto, Consumes
<1>8. CASE \/ UpsertRejected(t) \/ DropKeysStagingTable(t) \/ PollFails(t) \/ UpsertFails(t)
           \/ AppendKeysFails(t) \/ CommitOffsetsFails(t) \/ DeleteMissingFails(t)
           \/ TaskDies(t)
  <2>1. pc'[t] \in {"done", "failed"}
    BY <1>1, <1>8 DEF UpsertRejected, DropKeysStagingTable, PollFails, UpsertFails,
         AppendKeysFails, CommitOffsetsFails, DeleteMissingFails, TaskDies, Goto
  <2> QED
    BY <2>1
<1> QED
  <2>1. \A p \in Partitions : PollMessage(t, p) =>
          /\ pc'[t] = "poll" => Len(batch'[t]) < BatchSize /\ idle'[t] < MaxIdlePolls
          /\ pc'[t] \in {"load", "merge", "append", "commit"} =>
               ending'[t] \/ idle'[t] < MaxIdlePolls
          /\ pc'[t] \in {"append", "delete", "drop"} => DeleteMissing
    BY <1>3
  <2> QED
    BY <2>1, <1>2, <1>4, <1>5, <1>6, <1>7, <1>8 DEF Step, Proceed

LEMMA ConsumesStep ==
  ASSUME TypeOK, ConsumerInvariant, NEW t \in Tasks, Step(t), [Next]_vars
  PROVE  Consumes(t)'
<1>1. Consumes(t) /\ UnreadableNotSkipped
  BY DEF ConsumerInvariant, Consumes
<1>2. /\ \A p \in Partitions : \A o \in 0 .. position[t][p] - 1 : Log[p][o + 1] # Poison
      /\ \A p \in Partitions \ Assigned[t] : offsets[t][p] = 0
      /\ \A pos \in Positioned(batch[t]) : IsRead(pos)
  BY <1>1 DEF Consumes
<1>3. /\ \A p \in Partitions : \A o \in 0 .. position'[t][p] - 1 : Log[p][o + 1] # Poison
      /\ \A p \in Partitions \ Assigned[t] : offsets'[t][p] = 0
      /\ \A pos \in Positioned(batch'[t]) : IsRead(pos)
  <2>1. CASE position'[t] = committed /\ batch'[t] = <<>> /\ offsets'[t] = NoOffsets
    BY <1>1, <2>1, NothingPositioned DEF UnreadableNotSkipped, NoOffsets
  <2>2. ASSUME NEW p \in Partitions, PollMessage(t, p)
        PROVE  /\ \A q \in Partitions : \A o \in 0 .. position'[t][q] - 1 :
                    Log[q][o + 1] # Poison
               /\ \A q \in Partitions \ Assigned[t] : offsets'[t][q] = 0
               /\ \A pos \in Positioned(batch'[t]) : IsRead(pos)
    <3>1. /\ p \in Assigned[t]
          /\ Positioned(batch'[t]) = Positioned(batch[t]) \cup {<<p, position[t][p]>>}
          /\ position'[t] = [position[t] EXCEPT ![p] = position[t][p] + 1]
          /\ offsets'[t] = [offsets[t] EXCEPT ![p] = position[t][p] + 1]
      BY <2>2, PolledStream
    <3>2. /\ IsRead(<<p, position[t][p]>>) /\ Log[p][position[t][p] + 1] # Poison
          /\ position[t][p] \in Nat
      BY <2>2, PolledIsRead
    <3>3. position[t] \in [Partitions -> Nat] /\ offsets[t] \in [Partitions -> Nat]
      BY DEF TypeOK
    <3>4. \A pos \in Positioned(batch'[t]) : IsRead(pos)
      BY <1>2, <3>1, <3>2
    <3>5. \A q \in Partitions \ Assigned[t] : offsets'[t][q] = 0
      BY <1>2, <3>1, <3>3
    <3>6. ASSUME NEW q \in Partitions, NEW o \in 0 .. position'[t][q] - 1
          PROVE  Log[q][o + 1] # Poison
      <4>1. CASE q = p
        BY <1>2, <3>1, <3>2, <3>3, <4>1
      <4>2. CASE q # p
        <5>1. position'[t][q] = position[t][q]
          BY <3>1, <3>3, <4>2
        <5> QED
          BY <1>2, <5>1
      <4> QED
        BY <4>1, <4>2
    <3> QED
      BY <3>4, <3>5, <3>6
  <2>3. CASE position'[t] = position[t] /\ batch'[t] = <<>> /\ offsets'[t] = NoOffsets
    BY <1>2, <2>3, NothingPositioned DEF NoOffsets
  <2>4. CASE /\ position'[t] = position[t] /\ batch'[t] = batch[t]
             /\ offsets'[t] = offsets[t]
    BY <1>2, <2>4
  <2> QED
    BY <2>1, <2>2, <2>3, <2>4, StreamChange
<1>4. \A pos \in Positioned(batch'[t]) : IsRead(pos)'
  BY <1>3, ReadStays
<1> QED
  BY <1>1, <1>3, <1>4, RoomStep DEF Consumes, Positioned

\* Whatever is committed over was read, so there is no unreadable message in it.
LEMMA UnreadableStep ==
  ASSUME TypeOK, ConsumerInvariant, NEW t \in Tasks, Step(t)
  PROVE  UnreadableNotSkipped'
<1> SUFFICES ASSUME NEW p \in Partitions, NEW o \in 0 .. committed'[p] - 1
             PROVE  Log[p][o + 1] # Poison
  BY DEF UnreadableNotSkipped
<1>1. /\ committed[p] \in Nat /\ offsets[t][p] \in Nat /\ position[t][p] \in Nat
      /\ offsets[t][p] <= position[t][p]
  BY DEF TypeOK
<1>2. committed'[p] = committed[p] \/ committed'[p] = offsets[t][p]
  BY CommittedChange DEF CommittedWith
<1>3. /\ \A r \in 0 .. committed[p] - 1 : Log[p][r + 1] # Poison
      /\ \A r \in 0 .. position[t][p] - 1 : Log[p][r + 1] # Poison
  BY DEF ConsumerInvariant, UnreadableNotSkipped
<1> QED
  BY <1>1, <1>2, <1>3

\* Every change of the target takes a row from the topic, or deletes.
LEMMA RowsStep ==
  ASSUME TypeOK, ConsumerInvariant, NEW t \in Tasks, Step(t)
  PROVE  RowsComeFromTopic'
<1> SUFFICES ASSUME NEW k \in Keys
             PROVE  \/ target'[k] \in {NoRow, InitTarget[k]}
                    \/ \E p \in Partitions : \E o \in 0 .. produced[p] - 1 :
                         Log[p][o + 1] = [key |-> k, val |-> target'[k]]
  BY CommittedChange DEF RowsComeFromTopic
<1>1. \/ target[k] \in {NoRow, InitTarget[k]}
      \/ \E p \in Partitions : \E o \in 0 .. produced[p] - 1 :
           Log[p][o + 1] = [key |-> k, val |-> target[k]]
  BY DEF ConsumerInvariant, RowsComeFromTopic
<1>2. CASE staging[Suffix[t]] # NoTable /\ MergeInto(staging[Suffix[t]])
  <2>1. \A pos \in Positioned(staging[Suffix[t]]) : IsRead(pos)
    BY <1>2, StagedIsRead
  <2>2. \/ target'[k] = target[k]
        \/ \E pos \in Positioned(staging[Suffix[t]]) : At(pos) = [key |-> k, val |-> target'[k]]
    BY <1>2, <2>1, MergedRow
  <2> QED
    BY <1>1, <2>1, <2>2 DEF IsRead, At
<1>3. CASE target' = WithoutMissing(t)
  BY <1>1, <1>3 DEF WithoutMissing
<1>4. CASE UNCHANGED target
  BY <1>1, <1>4
<1> QED
  BY <1>2, <1>3, <1>4, TargetChange


LEMMA InitConsumer == Init => ConsumerInvariant
<1> SUFFICES ASSUME Init PROVE ConsumerInvariant
  OBVIOUS
<1>1. UnreadableNotSkipped /\ RowsComeFromTopic
  BY DEF Init, UnreadableNotSkipped, RowsComeFromTopic
<1>2. \A n \in Suffixes : staging[n] = NoTable
  BY DEF Init
<1>3. ASSUME NEW t \in Tasks
      PROVE  /\ pc[t] = "idle" /\ batch[t] = <<>>
             /\ \A p \in Partitions : position[t][p] = 0 /\ offsets[t][p] = 0
  BY DEF Init, NoOffsets
<1> QED
  BY <1>1, <1>2, <1>3, NothingPositioned, KafkaConfigIsSound DEF ConsumerInvariant

LEMMA ConsumerStep == TypeOK /\ ConsumerInvariant /\ [Next]_vars => ConsumerInvariant'
<1> SUFFICES ASSUME TypeOK, ConsumerInvariant, [Next]_vars PROVE ConsumerInvariant'
  OBVIOUS
<1>1. /\ UnreadableNotSkipped /\ RowsComeFromTopic
      /\ \A n \in Suffixes : staging[n] # NoTable =>
           \A pos \in Positioned(staging[n]) : IsRead(pos)
      /\ \A t \in Tasks : Consumes(t)
  BY DEF ConsumerInvariant, Consumes
<1>2. SUFFICES /\ UnreadableNotSkipped' /\ RowsComeFromTopic'
               /\ \A n \in Suffixes : staging'[n] # NoTable =>
                    \A pos \in Positioned(staging'[n]) : IsRead(pos)
               /\ \A t \in Tasks : Consumes(t)'
  <2>1. ASSUME NEW n \in Suffixes, NEW pos \in Positioned(staging'[n]), IsRead(pos)
        PROVE  IsRead(pos)'
    BY <2>1, ReadStays
  <2> QED
    BY <1>2, <2>1 DEF ConsumerInvariant, Consumes, Positioned
<1>3. CASE UNCHANGED vars \/ (\E p \in Partitions : Produce(p))
  <2>1. UNCHANGED <<committed, tableVars, pc, streamVars>>
    BY <1>3 DEF vars, Produce
  <2>2. UNCHANGED <<committed, target, staging, pc, position, batch, offsets, idle, ending>>
    BY <2>1 DEF tableVars, streamVars
  <2>3. \A p \in Partitions : produced[p] \in Nat /\ produced'[p] \in Nat
                                /\ produced[p] <= produced'[p]
    <3>1. produced \in [Partitions -> Nat]
      BY DEF TypeOK
    <3>2. CASE UNCHANGED vars
      BY <3>1, <3>2 DEF vars
    <3>3. ASSUME NEW q \in Partitions, Produce(q)
          PROVE  \A p \in Partitions : produced[p] \in Nat /\ produced'[p] \in Nat
                                          /\ produced[p] <= produced'[p]
      <4>1. produced' = [produced EXCEPT ![q] = @ + 1]
        BY <3>3 DEF Produce
      <4> QED
        BY <3>1, <4>1
    <3> QED
      BY <1>3, <3>2, <3>3
  <2>4. UnreadableNotSkipped'
    BY <1>1, <2>2 DEF UnreadableNotSkipped
  <2>5. RowsComeFromTopic'
    <3>1. \A p \in Partitions : 0 .. produced[p] - 1 \subseteq 0 .. produced'[p] - 1
      BY <2>3
    <3> QED
      BY <1>1, <2>2, <3>1 DEF RowsComeFromTopic
  <2>6. ASSUME NEW t \in Tasks PROVE Consumes(t)'
    <3>1. \A pos \in Positioned(batch[t]) : IsRead(pos)'
      BY <1>1, ReadStays DEF Consumes
    <3> QED
      BY <1>1, <2>2, <3>1 DEF Consumes, Positioned
  <2> QED
    BY <1>1, <2>2, <2>4, <2>5, <2>6
<1>4. ASSUME NEW t \in Tasks, Step(t)
      PROVE  /\ UnreadableNotSkipped' /\ RowsComeFromTopic'
             /\ \A n \in Suffixes : staging'[n] # NoTable =>
                  \A pos \in Positioned(staging'[n]) : IsRead(pos)
             /\ \A u \in Tasks : Consumes(u)'
  <2>1. UnreadableNotSkipped' /\ RowsComeFromTopic'
    BY <1>4, UnreadableStep, RowsStep
  <2>2. ASSUME NEW n \in Suffixes, staging'[n] # NoTable
        PROVE  \A pos \in Positioned(staging'[n]) : IsRead(pos)
    <3>1. staging'[n] \in {staging[n], NoTable, batch[t]}
      BY <1>4, StagingChange DEF TypeOK
    <3> QED
      BY <1>1, <2>2, <3>1 DEF Consumes
  <2>3. ASSUME NEW u \in Tasks PROVE Consumes(u)'
    <3>1. CASE u = t
      BY <1>4, <3>1, ConsumesStep
    <3>2. CASE u # t
      <4>1. /\ pc'[u] = pc[u] /\ idle'[u] = idle[u] /\ ending'[u] = ending[u]
            /\ position'[u] = position[u] /\ batch'[u] = batch[u] /\ offsets'[u] = offsets[u]
        BY <1>4, <3>2, OthersKeep
      <4>2. \A pos \in Positioned(batch[u]) : IsRead(pos)'
        BY <1>1, ReadStays DEF Consumes
      <4> QED
        BY <1>1, <4>1, <4>2 DEF Consumes, Positioned
    <3> QED
      BY <3>1, <3>2
  <2> QED
    BY <2>1, <2>2, <2>3
<1> QED
  BY <1>3, <1>4 DEF Next, Step

LEMMA TypesAndConsumers == Spec => [](TypeOK /\ ConsumerInvariant)
BY InitType, InitConsumer, StepType, ConsumerStep, PTL DEF Spec

\* Offsets, positions and batches stay within the topic, batches within their size,
\* idle polls within their number, and the tables hold rows of their columns.
THEOREM TypeCorrect == Spec => []TypeOK
BY TypesAndConsumers, PTL

\* A message that cannot be deserialized is never committed over, whatever fails, and
\* whichever partitions and staging tables the tasks share.
THEOREM UnreadableIsNotSkipped == Spec => []UnreadableNotSkipped
<1>1. ConsumerInvariant => UnreadableNotSkipped
  BY DEF ConsumerInvariant
<1> QED
  BY <1>1, TypesAndConsumers, PTL

\* Every row of the target is an old one or comes from a message about its key, even
\* when tasks share a staging table and merge each other's batches.
THEOREM RowsAreFromTopic == Spec => []RowsComeFromTopic
<1>1. ConsumerInvariant => RowsComeFromTopic
  BY DEF ConsumerInvariant
<1> QED
  BY <1>1, TypesAndConsumers, PTL

-----------------------------------------------------------------------------
(* Partitions read by one task *)

\* The part of the position invariant that belongs to one task.
InPlace(t) ==
  /\ \A p \in Assigned[t] :
       /\ committed[p] <= position[t][p]
       /\ offsets[t][p] = 0 \/ committed[p] <= offsets[t][p]
  /\ \A pos \in Positioned(batch[t]) :
       /\ pos[1] \in Assigned[t]
       /\ committed[pos[1]] <= pos[2]
       /\ pos[2] < position[t][pos[1]]
       /\ position[t][pos[1]] - pos[2] <= Len(batch[t])
       /\ \A o \in pos[2] .. position[t][pos[1]] - 1 :
            <<pos[1], o>> \in Positioned(batch[t])

\* A task that does not run can only start; one whose commit fails does not run on.
LEMMA RunningStep ==
  ASSUME TypeOK, NEW t \in Tasks, Step(t)
  PROVE  /\ ~Running(t) => StartTask(t)
         /\ CommitOffsetsFails(t) => ~Running(t)'
<1>1. pc \in [Tasks -> Locations]
  BY DEF TypeOK
<1>2. CommitOffsetsFails(t) => ~Running(t)'
  BY <1>1 DEF CommitOffsetsFails, Goto, Running
<1>3. ~StartTask(t) => pc[t] \notin {"idle", "done", "failed"}
  BY DEF Step, Proceed, PollMessage, PollIdle, LoadStagingTable, UpsertBatch,
       UpsertRejected, AppendKeysToStaging, CommitOffsets, DeleteMissingInScope,
       DropKeysStagingTable, PollFails, UpsertFails, UpsertLost, AppendKeysFails,
       CommitOffsetsFails, DeleteMissingFails, TaskDies, Goto
<1> QED
  BY <1>2, <1>3 DEF Running

\* The offsets of a partition are committed by a task that reads it.
LEMMA OwnCommits ==
  ASSUME TypeOK, ConsumerInvariant, NEW t \in Tasks, Step(t), NEW p \in Partitions,
         p \notin Assigned[t]
  PROVE  committed'[p] = committed[p]
<1>1. offsets[t][p] = 0
  BY DEF ConsumerInvariant
<1> QED
  BY <1>1, CommittedChange DEF CommittedWith

LEMMA InPlacePoll ==
  ASSUME TypeOK, NEW t \in Tasks, InPlace(t), NEW p \in Partitions, PollMessage(t, p)
  PROVE  InPlace(t)'
<1> DEFINE n == position[t][p]
<1>1. /\ p \in Assigned[t]
      /\ Positioned(batch'[t]) = Positioned(batch[t]) \cup {<<p, n>>}
      /\ Len(batch'[t]) = Len(batch[t]) + 1
      /\ position'[t] = [position[t] EXCEPT ![p] = n + 1]
      /\ offsets'[t] = [offsets[t] EXCEPT ![p] = n + 1]
  BY PolledStream
<1>2. /\ position[t] \in [Partitions -> Nat] /\ offsets[t] \in [Partitions -> Nat]
      /\ committed \in [Partitions -> Nat] /\ UNCHANGED committed
      /\ batch[t] \in Seq(Positions) /\ Assigned[t] \subseteq Partitions
  BY KafkaConfigIsSound DEF TypeOK, PollMessage
<1>3. Len(batch[t]) \in Nat /\ n \in Nat
  BY <1>2
<1>4. /\ position'[t][p] = n + 1 /\ offsets'[t][p] = n + 1
      /\ \A q \in Partitions \ {p} :
           position'[t][q] = position[t][q] /\ offsets'[t][q] = offsets[t][q]
  BY <1>1, <1>2
<1>5. ASSUME NEW q \in Assigned[t]
      PROVE  committed[q] <= position'[t][q]
             /\ (offsets'[t][q] = 0 \/ committed[q] <= offsets'[t][q])
  <2>1. committed[q] <= position[t][q] /\ (offsets[t][q] = 0 \/ committed[q] <= offsets[t][q])
    BY DEF InPlace
  <2>2. CASE q = p
    BY <1>2, <1>3, <1>4, <2>1, <2>2
  <2>3. CASE q # p
    BY <1>2, <1>4, <2>1, <2>3
  <2> QED
    BY <2>2, <2>3
<1>6. ASSUME NEW pos \in Positioned(batch'[t])
      PROVE  /\ pos[1] \in Assigned[t]
             /\ committed[pos[1]] <= pos[2]
             /\ pos[2] < position'[t][pos[1]]
             /\ position'[t][pos[1]] - pos[2] <= Len(batch'[t])
             /\ \A o \in pos[2] .. position'[t][pos[1]] - 1 :
                  <<pos[1], o>> \in Positioned(batch'[t])
  <2>1. CASE pos = <<p, n>>
    <3>1. committed[p] <= n
      BY <1>1 DEF InPlace
    <3>2. pos[1] = p /\ pos[2] = n
      BY <2>1
    <3>3. ASSUME NEW o \in n .. n PROVE <<p, o>> \in Positioned(batch'[t])
      <4>1. o = n
        BY <1>3
      <4> QED
        BY <1>1, <4>1
    <3>4. Len(batch'[t]) >= 1 /\ n + 1 - n = 1 /\ n < n + 1 /\ n + 1 - 1 = n
      BY <1>1, <1>3
    <3> QED
      BY <1>1, <1>3, <1>4, <3>1, <3>2, <3>3, <3>4
  <2>2. CASE pos \in Positioned(batch[t])
    <3>1. /\ pos[1] \in Assigned[t]
          /\ committed[pos[1]] <= pos[2]
          /\ pos[2] < position[t][pos[1]]
          /\ position[t][pos[1]] - pos[2] <= Len(batch[t])
          /\ \A o \in pos[2] .. position[t][pos[1]] - 1 :
               <<pos[1], o>> \in Positioned(batch[t])
      BY <2>2 DEF InPlace
    <3>2. pos[1] \in Partitions /\ pos[2] \in Nat
      <4>1. pos \in Positions
        BY <1>2, <2>2 DEF Positioned
      <4> QED
        BY <4>1 DEF Positions, Offsets
    <3>3. CASE pos[1] # p
      <4>1. position'[t][pos[1]] = position[t][pos[1]] /\ position[t][pos[1]] \in Nat
        BY <1>2, <1>4, <3>2, <3>3
      <4> QED
        BY <1>1, <1>3, <3>1, <3>2, <4>1
    <3>4. CASE pos[1] = p
      <4>1. \A o \in pos[2] .. n : <<p, o>> \in Positioned(batch'[t])
        <5> SUFFICES ASSUME NEW o \in pos[2] .. n PROVE <<p, o>> \in Positioned(batch'[t])
          OBVIOUS
        <5>1. CASE o = n
          BY <1>1, <5>1
        <5>2. CASE o # n
          <6>1. o \in pos[2] .. n - 1
            BY <1>3, <3>2, <5>2
          <6>2. <<pos[1], o>> \in Positioned(batch[t])
            BY <3>1, <3>4, <6>1
          <6> QED
            BY <1>1, <3>4, <6>2
        <5> QED
          BY <5>1, <5>2
      <4>2. pos[2] < n + 1 /\ n + 1 - pos[2] <= Len(batch'[t]) /\ n + 1 - 1 = n
        BY <1>1, <1>3, <3>1, <3>2, <3>4
      <4>3. position'[t][pos[1]] = n + 1
        BY <1>4, <3>4
      <4>4. \A o \in pos[2] .. position'[t][pos[1]] - 1 : <<pos[1], o>> \in Positioned(batch'[t])
        <5>1. position'[t][pos[1]] - 1 = n
          BY <1>3, <4>3
        <5> QED
          BY <3>4, <4>1, <5>1
      <4>5. pos[2] < position'[t][pos[1]]
        BY <4>2, <4>3
      <4>6. position'[t][pos[1]] - pos[2] <= Len(batch'[t])
        BY <1>3, <3>2, <4>2, <4>3
      <4> QED
        BY <3>1, <4>4, <4>5, <4>6
    <3> QED
      BY <3>3, <3>4
  <2> QED
    BY <1>1, <2>1, <2>2
<1> QED
  BY <1>2, <1>5, <1>6 DEF InPlace, Positioned


\* Who keeps its place while nobody commits on its partitions is in place.
LEMMA InPlaceKept ==
  ASSUME NEW t \in Tasks, InPlace(t), position'[t] = position[t], batch'[t] = batch[t],
         offsets'[t] = offsets[t], \A p \in Assigned[t] : committed'[p] = committed[p]
  PROVE  InPlace(t)'
<1>1. \A p \in Assigned[t] :
        /\ committed'[p] <= position'[t][p]
        /\ offsets'[t][p] = 0 \/ committed'[p] <= offsets'[t][p]
  BY DEF InPlace
<1>2. Positioned(batch[t])' = Positioned(batch[t])
  BY DEF Positioned
<1>3. ASSUME NEW pos \in Positioned(batch[t])
      PROVE  /\ pos[1] \in Assigned[t]
             /\ committed'[pos[1]] <= pos[2]
             /\ pos[2] < position'[t][pos[1]]
             /\ position'[t][pos[1]] - pos[2] <= Len(batch'[t])
             /\ \A o \in pos[2] .. position'[t][pos[1]] - 1 :
                  <<pos[1], o>> \in Positioned(batch[t])
  BY DEF InPlace
<1> QED
  BY <1>1, <1>2, <1>3 DEF InPlace

LEMMA InPlaceStep ==
  ASSUME TypeOK, ConsumerInvariant, NEW t \in Tasks, Running(t) => InPlace(t), Step(t),
         Running(t)'
  PROVE  InPlace(t)'
<1> USE KafkaConfigIsSound
<1>1. /\ Assigned[t] \subseteq Partitions /\ NoOffsets \in [Partitions -> Nat]
      /\ committed \in [Partitions -> Nat]
      /\ position[t] \in [Partitions -> Nat] /\ offsets[t] \in [Partitions -> Nat]
      /\ \A p \in Partitions : offsets[t][p] <= position[t][p] /\ NoOffsets[p] = 0
  BY DEF NoOffsets, TypeOK
<1>2. CASE StartTask(t) /\ position'[t] = committed /\ batch'[t] = <<>>
           /\ offsets'[t] = NoOffsets
  <2>1. UNCHANGED committed
    BY <1>2 DEF StartTask
  <2> QED
    BY <1>1, <1>2, <2>1, NothingPositioned DEF InPlace, Positioned
<1>3. CASE ~StartTask(t)
  <2>1. InPlace(t)
    BY <1>3, RunningStep
  <2>2. ASSUME NEW p \in Partitions, PollMessage(t, p) PROVE InPlace(t)'
    BY <2>1, <2>2, InPlacePoll
  <2>3. CASE /\ CommitOffsets(t) /\ committed' = CommittedWith(t)
             /\ position'[t] = position[t] /\ batch'[t] = <<>> /\ offsets'[t] = NoOffsets
    <3>1. ASSUME NEW p \in Assigned[t]
          PROVE  committed'[p] <= position'[t][p] /\ offsets'[t][p] = 0
      <4>1. committed[p] <= position[t][p]
        BY <2>1 DEF InPlace
      <4>2. committed'[p] = committed[p] \/ committed'[p] = offsets[t][p]
        BY <1>1, <2>3 DEF CommittedWith
      <4> QED
        BY <1>1, <2>3, <4>1, <4>2
    <3>2. Positioned(batch'[t]) = {}
      BY <2>3, NothingPositioned
    <3> QED
      BY <3>1, <3>2 DEF InPlace, Positioned
  <2>4. CASE /\ ~CommitOffsets(t) /\ position'[t] = position[t] /\ batch'[t] = batch[t]
             /\ offsets'[t] = offsets[t]
    <3>1. UNCHANGED committed
      <4>1. ~CommitOffsetsFails(t)
        BY RunningStep
      <4> QED
        BY <1>3, <2>4, <4>1 DEF Step, Proceed, PollMessage, PollIdle, LoadStagingTable,
           UpsertBatch, UpsertRejected, AppendKeysToStaging, DeleteMissingInScope,
           DropKeysStagingTable, PollFails, UpsertFails, UpsertLost, AppendKeysFails,
           DeleteMissingFails, TaskDies
    <3> QED
      BY <2>1, <2>4, <3>1, InPlaceKept
  <2>6. CommitOffsets(t) => committed' = CommittedWith(t) /\ batch'[t] = <<>>
                            /\ position'[t] = position[t] /\ offsets'[t] = NoOffsets
    BY DEF CommitOffsets, TypeOK
  <2> QED
    BY <1>3, <2>2, <2>3, <2>4, <2>6, StreamChange
<1>4. StartTask(t) =>
        position'[t] = committed /\ batch'[t] = <<>> /\ offsets'[t] = NoOffsets
  BY DEF StartTask, StartPosition, TypeOK
<1> QED
  BY <1>2, <1>3, <1>4

LEMMA PositionStep ==
  TypeOK /\ ConsumerInvariant /\ PartitionsSeparate /\ PositionInvariant /\ [Next]_vars
    => PositionInvariant'
<1> SUFFICES ASSUME TypeOK, ConsumerInvariant, PartitionsSeparate, PositionInvariant,
                    [Next]_vars
             PROVE  PositionInvariant'
  OBVIOUS
<1>1. \A t \in Tasks : Running(t) => InPlace(t)
  BY DEF PositionInvariant, InPlace
<1>2. SUFFICES \A t \in Tasks : Running(t)' => InPlace(t)'
  BY <1>2 DEF PositionInvariant, InPlace
<1>3. CASE UNCHANGED vars \/ (\E p \in Partitions : Produce(p))
  <2>1. UNCHANGED <<committed, pc, position, batch, offsets>>
    BY <1>3 DEF vars, Produce, streamVars
  <2> QED
    BY <1>1, <2>1, InPlaceKept DEF Running
<1>4. ASSUME NEW t \in Tasks, Step(t), NEW u \in Tasks, Running(u)' PROVE InPlace(u)'
  <2>1. CASE u = t
    BY <1>1, <1>4, <2>1, InPlaceStep
  <2>2. CASE u # t
    <3>1. /\ pc'[u] = pc[u] /\ position'[u] = position[u] /\ batch'[u] = batch[u]
          /\ offsets'[u] = offsets[u]
      BY <1>4, <2>2, OthersKeep
    <3>2. InPlace(u)
      BY <1>1, <1>4, <3>1 DEF Running
    <3>3. \A p \in Assigned[u] : committed'[p] = committed[p]
      <4>1. \A p \in Assigned[u] : p \in Partitions /\ p \notin Assigned[t]
        BY <2>2, KafkaConfigIsSound DEF PartitionsSeparate
      <4> QED
        BY <1>4, <4>1, OwnCommits
    <3> QED
      BY <3>1, <3>2, <3>3, InPlaceKept
  <2> QED
    BY <2>1, <2>2
<1> QED
  BY <1>3, <1>4 DEF Next, Step

\* Offsets are only raised: a running task is never behind them.
LEMMA OffsetsStep ==
  TypeOK /\ ConsumerInvariant /\ PartitionsSeparate /\ PositionInvariant /\ [Next]_vars
    => \A p \in Partitions : committed'[p] >= committed[p]
<1> SUFFICES ASSUME TypeOK, ConsumerInvariant, PositionInvariant, [Next]_vars,
                    NEW p \in Partitions
             PROVE  committed'[p] >= committed[p]
  OBVIOUS
<1>1. committed[p] \in Nat
  BY DEF TypeOK
<1>2. CASE UNCHANGED committed
  BY <1>1, <1>2
<1>3. ASSUME NEW t \in Tasks, Step(t), pc[t] = "commit", committed' = CommittedWith(t)
      PROVE  committed'[p] >= committed[p]
  <2>1. p \in Assigned[t] => (offsets[t][p] = 0 \/ committed[p] <= offsets[t][p])
    BY <1>3 DEF PositionInvariant, Running
  <2>2. p \notin Assigned[t] => offsets[t][p] = 0
    BY DEF ConsumerInvariant
  <2>3. offsets[t][p] \in Nat
    BY DEF TypeOK
  <2> QED
    BY <1>1, <1>3, <2>1, <2>2, <2>3 DEF CommittedWith
<1>4. ASSUME NEW q \in Partitions, Produce(q) PROVE UNCHANGED committed
  BY <1>4 DEF Produce
<1> QED
  BY <1>2, <1>3, <1>4, CommittedChange DEF Next, Step, vars


-----------------------------------------------------------------------------
(* At-least-once *)

\* The parts of the invariant that belong to one task.
Covered(t) ==
  \A p \in Partitions :
    /\ \A o \in 0 .. position[t][p] - 1 :
         o \in applied[p] \/ <<p, o>> \in Positioned(batch[t])
    /\ offsets[t][p] <= position[t][p]

MergesOwn(t) ==
  /\ pc[t] = "merge" => staging[Suffix[t]] = batch[t]
  /\ pc[t] \in {"append", "commit"} =>
       \A pos \in Positioned(batch[t]) : pos[2] \in applied[pos[1]]

\* A committed MERGE adds the staged offsets to those applied.
LEMMA MergeApplies ==
  ASSUME NEW rows, \A pos \in Positioned(rows) : pos[1] \in Partitions, MergeInto(rows)
  PROVE  /\ \A p \in Partitions : applied[p] \subseteq applied'[p]
         /\ \A pos \in Positioned(rows) : pos[2] \in applied'[pos[1]]
BY DEF MergeInto

\* What is applied stays applied.
LEMMA AppliedGrows ==
  ASSUME TypeOK, ConsumerInvariant, NEW t \in Tasks, Step(t), NEW p \in Partitions
  PROVE  applied[p] \subseteq applied'[p]
<1>1. CASE staging[Suffix[t]] # NoTable /\ MergeInto(staging[Suffix[t]])
  <2>1. \A pos \in Positioned(staging[Suffix[t]]) : pos[1] \in Partitions
    BY <1>1, StagedIsRead DEF IsRead
  <2> QED
    BY <1>1, <2>1, MergeApplies
<1>2. CASE UNCHANGED applied
  BY <1>2
<1> QED
  BY <1>1, <1>2, TargetChange

\* A batch whose messages are applied may be dropped, or its offsets committed.
LEMMA CommitCovered ==
  ASSUME TypeOK, AtLeastOnce, NEW t \in Tasks, Covered(t), MergesOwn(t),
         pc[t] = "commit", NEW p \in Partitions
  PROVE  /\ \A o \in 0 .. position[t][p] - 1 : o \in applied[p]
         /\ \A o \in 0 .. CommittedWith(t)[p] - 1 : o \in applied[p]
<1>1. \A o \in 0 .. position[t][p] - 1 : o \in applied[p]
  BY DEF Covered, MergesOwn
<1>2. offsets[t][p] \in Nat /\ position[t][p] \in Nat /\ offsets[t][p] <= position[t][p]
  BY DEF TypeOK
<1> QED
  BY <1>1, <1>2 DEF CommittedWith, AtLeastOnce

LEMMA AtLeastOnceStep ==
  ASSUME TypeOK, ConsumerInvariant, AtLeastOnce, NEW t \in Tasks, Covered(t), MergesOwn(t),
         Step(t)
  PROVE  AtLeastOnce'
<1> SUFFICES ASSUME NEW p \in Partitions, NEW o \in 0 .. committed'[p] - 1
             PROVE  o \in applied[p]
  BY AppliedGrows DEF AtLeastOnce
<1> QED
  BY CommittedChange, CommitCovered DEF AtLeastOnce

LEMMA CoveredStep ==
  ASSUME TypeOK, ConsumerInvariant, AtLeastOnce, NEW t \in Tasks, Covered(t), MergesOwn(t),
         Step(t)
  PROVE  Covered(t)'
<1>1. \A p \in Partitions :
        /\ \A o \in 0 .. position[t][p] - 1 :
             o \in applied[p] \/ <<p, o>> \in Positioned(batch[t])
        /\ committed[p] \in Nat /\ position[t][p] \in Nat /\ offsets[t][p] <= position[t][p]
        /\ NoOffsets[p] = 0
  BY DEF Covered, TypeOK, NoOffsets
<1> SUFFICES ASSUME NEW p \in Partitions
             PROVE  /\ \A o \in 0 .. position'[t][p] - 1 :
                         o \in applied[p] \/ <<p, o>> \in Positioned(batch'[t])
                    /\ offsets'[t][p] <= position'[t][p]
  BY AppliedGrows DEF Covered, Positioned
<1>2. CASE StartTask(t) /\ position'[t] = committed /\ batch'[t] = <<>>
           /\ offsets'[t] = NoOffsets
  BY <1>1, <1>2 DEF AtLeastOnce
<1>3. ASSUME NEW q \in Partitions, PollMessage(t, q)
      PROVE  /\ \A o \in 0 .. position'[t][p] - 1 :
                  o \in applied[p] \/ <<p, o>> \in Positioned(batch'[t])
             /\ offsets'[t][p] <= position'[t][p]
  <2>1. /\ Positioned(batch'[t]) = Positioned(batch[t]) \cup {<<q, position[t][q]>>}
        /\ position'[t] = [position[t] EXCEPT ![q] = position[t][q] + 1]
        /\ offsets'[t] = [offsets[t] EXCEPT ![q] = position[t][q] + 1]
    BY <1>3, PolledStream
  <2>2. position[t] \in [Partitions -> Nat] /\ offsets[t] \in [Partitions -> Nat]
    BY DEF TypeOK
  <2>3. CASE p = q
    <3>1. position'[t][p] = position[t][p] + 1 /\ offsets'[t][p] = position[t][p] + 1
      BY <2>1, <2>2, <2>3
    <3> QED
      BY <1>1, <2>1, <2>3, <3>1
  <2>4. CASE p # q
    <3>1. position'[t][p] = position[t][p] /\ offsets'[t][p] = offsets[t][p]
      BY <2>1, <2>2, <2>4
    <3> QED
      BY <1>1, <2>1, <3>1
  <2> QED
    BY <2>3, <2>4
<1>4. CASE /\ pc[t] = "commit" /\ position'[t] = position[t] /\ batch'[t] = <<>>
           /\ offsets'[t] = NoOffsets
  <2>1. \A o \in 0 .. position[t][p] - 1 : o \in applied[p]
    BY <1>4, CommitCovered
  <2> QED
    BY <1>1, <1>4, <2>1
<1>5. CASE position'[t] = position[t] /\ batch'[t] = batch[t] /\ offsets'[t] = offsets[t]
  BY <1>1, <1>5
<1> QED
  BY <1>2, <1>3, <1>4, <1>5, StreamChange

LEMMA MergesOwnStep ==
  ASSUME TypeOK, ConsumerInvariant, Reliable, NEW t \in Tasks, MergesOwn(t), Step(t)
  PROVE  MergesOwn(t)'
<1>0. pc \in [Tasks -> Locations]
  BY DEF TypeOK
<1>1. CASE LoadStagingTable(t)
  <2>1. pc'[t] = "merge" /\ batch' = batch
    BY <1>0, <1>1 DEF LoadStagingTable, Goto, streamVars
  <2>2. staging'[Suffix[t]] = batch[t]
    BY <1>1, KafkaConfigIsSound DEF LoadStagingTable, LoadedMessages, TypeOK
  <2> QED
    BY <2>1, <2>2 DEF MergesOwn
<1>2. CASE UpsertBatch(t)
  <2>1. pc[t] = "merge" /\ pc'[t] # "merge" /\ batch' = batch
    BY <1>0, <1>2 DEF UpsertBatch, Goto, AfterUpsert, streamVars
  <2>2. MergeInto(batch[t])
    BY <1>2, <2>1 DEF UpsertBatch, MergesOwn
  <2>3. \A pos \in Positioned(batch[t]) : pos[1] \in Partitions
    BY DEF ConsumerInvariant, IsRead
  <2>4. \A pos \in Positioned(batch[t]) : pos[2] \in applied'[pos[1]]
    BY <2>2, <2>3, MergeApplies
  <2> QED
    BY <2>1, <2>4 DEF MergesOwn, Positioned
<1>3. CASE UpsertLost(t)
  BY <1>3 DEF UpsertLost, Fault, Reliable
<1>4. CASE AppendKeysToStaging(t)
  <2>1. pc[t] = "append" /\ pc'[t] = "commit" /\ batch' = batch /\ applied' = applied
    BY <1>0, <1>4 DEF AppendKeysToStaging, Goto, streamVars
  <2> QED
    BY <2>1 DEF MergesOwn, Positioned
<1>5. CASE ~(LoadStagingTable(t) \/ UpsertBatch(t) \/ UpsertLost(t) \/ AppendKeysToStaging(t))
  <2>1. pc'[t] \notin {"merge", "append", "commit"}
    BY <1>0, <1>5 DEF Step, Proceed, StartTask, PollMessage, PollIdle, UpsertRejected,
       CommitOffsets, DeleteMissingInScope, DropKeysStagingTable, PollFails,
       UpsertFails, AppendKeysFails, CommitOffsetsFails, DeleteMissingFails,
       TaskDies, Goto, AfterStream
  <2> QED
    BY <2>1 DEF MergesOwn
<1> QED
  BY <1>1, <1>2, <1>3, <1>4, <1>5

LEMMA DeliveryStep ==
  TypeOK /\ ConsumerInvariant /\ Reliable /\ [Next]_vars
    /\ AtLeastOnce /\ StreamInvariant /\ MergeInvariant
    => (AtLeastOnce /\ StreamInvariant /\ MergeInvariant)'
<1> SUFFICES ASSUME TypeOK, ConsumerInvariant, Reliable, [Next]_vars,
                    AtLeastOnce, StreamInvariant, MergeInvariant
             PROVE  (AtLeastOnce /\ StreamInvariant /\ MergeInvariant)'
  OBVIOUS
<1>1. \A t \in Tasks : Covered(t) /\ MergesOwn(t)
  BY DEF StreamInvariant, MergeInvariant, Covered, MergesOwn
<1>2. CASE UNCHANGED vars \/ (\E p \in Partitions : Produce(p))
  <2>1. UNCHANGED <<committed, tableVars, pc, streamVars>>
    BY <1>2 DEF vars, Produce
  <2>2. UNCHANGED <<committed, staging, applied, pc, position, batch, offsets>>
    BY <2>1 DEF tableVars, streamVars
  <2>3. AtLeastOnce'
    BY <2>2 DEF AtLeastOnce
  <2>4. \A t \in Tasks : Covered(t)'
    BY <1>1, <2>2 DEF Covered, Positioned
  <2>5. \A t \in Tasks : MergesOwn(t)'
    BY <1>1, <2>2 DEF MergesOwn, Positioned
  <2> QED
    BY <2>3, <2>4, <2>5 DEF StreamInvariant, MergeInvariant, Covered, MergesOwn
<1>3. ASSUME NEW t \in Tasks, Step(t)
      PROVE  (AtLeastOnce /\ StreamInvariant /\ MergeInvariant)'
  <2>1. AtLeastOnce' /\ Covered(t)' /\ MergesOwn(t)'
    BY <1>1, <1>3, AtLeastOnceStep, CoveredStep, MergesOwnStep
  <2>2. ASSUME NEW u \in Tasks \ {t} PROVE Covered(u)' /\ MergesOwn(u)'
    <3>1. /\ pc'[u] = pc[u] /\ position'[u] = position[u]
          /\ batch'[u] = batch[u] /\ offsets'[u] = offsets[u]
      BY <1>3, OthersKeep
    <3>2. staging'[Suffix[u]] = staging[Suffix[u]]
      <4>1. Suffix[t] # Suffix[u] /\ Suffix[u] \in Suffixes
        BY KafkaConfigIsSound DEF Reliable, SuffixSeparate
      <4> QED
        BY <1>3, <4>1, StagingChange DEF TypeOK
    <3>3. \A p \in Partitions : applied[p] \subseteq applied'[p]
      BY <1>3, AppliedGrows
    <3>4. \A pos \in Positioned(batch[u]) : pos[1] \in Partitions
      BY DEF ConsumerInvariant, IsRead
    <3>5. Positioned(batch[u])' = Positioned(batch[u])
      BY <3>1 DEF Positioned
    <3>6. Covered(u)'
      BY <1>1, <3>1, <3>3, <3>5 DEF Covered
    <3>7. MergesOwn(u)'
      BY <1>1, <3>1, <3>2, <3>3, <3>4, <3>5 DEF MergesOwn
    <3> QED
      BY <3>6, <3>7
  <2> QED
    BY <2>1, <2>2 DEF StreamInvariant, MergeInvariant, Covered, MergesOwn
<1> QED
  BY <1>2, <1>3 DEF Next, Step


-----------------------------------------------------------------------------
(* No stale rows *)

\* A batch that MERGE takes leaves, of each key it is about, the row of one of its
\* messages: also when it holds several, and when nothing had to be written.
LEMMA MergeBrings ==
  ASSUME TypeOK, ConsumerInvariant, NEW t \in Tasks, MergeInto(batch[t]),
         NEW pos \in Positioned(batch[t])
  PROVE  \E from \in Positioned(batch[t]) :
           At(from) = [key |-> At(pos).key, val |-> target'[At(pos).key]]
<1> DEFINE k == At(pos).key
<1>1. \A from \in Positioned(batch[t]) : IsRead(from)
  BY DEF ConsumerInvariant
<1>2. k \in Keys /\ At(pos) = [key |-> k, val |-> At(pos).val]
  BY <1>1, ReadMessage DEF Message
<1>3. CASE Effective(batch[t], k) = {}
  <2>1. PICK i \in DOMAIN batch[t] : batch[t][i] = pos
    BY DEF Positioned
  <2>2. At(pos).val = target[k]
    BY <1>3, <2>1 DEF Effective
  <2>3. target'[k] = target[k]
    BY <1>2, <1>3 DEF MergeInto
  <2> QED
    BY <1>2, <2>2, <2>3
<1>4. CASE Effective(batch[t], k) # {}
  <2> DEFINE i == CHOOSE j \in Effective(batch[t], k) : TRUE
  <2>1. i \in DOMAIN batch[t] /\ At(batch[t][i]).key = k
    BY <1>4 DEF Effective
  <2>2. target'[k] = At(batch[t][i]).val
    BY <1>2, <1>4 DEF MergeInto
  <2>3. batch[t][i] \in Positioned(batch[t])
    BY <2>1 DEF Positioned
  <2>4. At(batch[t][i]) = [key |-> k, val |-> target'[k]]
    BY <1>1, <2>1, <2>2, <2>3, ReadMessage
  <2> QED
    BY <2>3, <2>4
<1> QED
  BY <1>3, <1>4

\* It leaves alone the keys it has no message about.
LEMMA MergeLeaves ==
  ASSUME TypeOK, ConsumerInvariant, NEW t \in Tasks, MergeInto(batch[t]), NEW k \in Keys,
         \A pos \in Positioned(batch[t]) : At(pos).key # k
  PROVE  target'[k] = target[k]
<1>1. \A pos \in Positioned(batch[t]) : IsRead(pos)
  BY DEF ConsumerInvariant
<1>2. ASSUME NEW pos \in Positioned(batch[t]), At(pos) = [key |-> k, val |-> target'[k]]
      PROVE  FALSE
  BY <1>2
<1> QED
  BY <1>1, <1>2, MergedRow

\* What freshness rests on.
FreshContext ==
  /\ TypeOK /\ ConsumerInvariant /\ PositionInvariant /\ MergeInvariant
  /\ Reliable /\ PartitionsSeparate /\ ~DeleteMissing

\* The target changes only by the MERGE of the batch of the task that takes the step.
LEMMA OwnMerge ==
  ASSUME FreshContext, NEW t \in Tasks, Step(t)
  PROVE  \/ UNCHANGED target
         \/ pc[t] = "merge" /\ MergeInto(batch[t]) /\ UNCHANGED committed
<1>1. pc[t] = "merge" /\ staging[Suffix[t]] # NoTable => staging[Suffix[t]] = batch[t]
  BY DEF FreshContext, MergeInvariant
<1>2. pc[t] # "delete"
  BY DEF FreshContext, ConsumerInvariant
<1> QED
  BY <1>1, <1>2, TargetChange, CommittedChange

\* Settled offsets are those of messages.
LEMMA SettledMessage ==
  ASSUME TypeOK, ConsumerInvariant, NEW p \in Partitions, NEW o \in Settled[p]
  PROVE  /\ o \in Offsets(p) /\ o \in Nat
         /\ Log[p][o + 1] \in Message /\ Log[p][o + 1].key \in Keys
<1>1. /\ committed[p] \in Nat /\ committed[p] <= produced[p] /\ produced[p] \in Nat
      /\ produced[p] <= Len(Log[p])
  BY DEF TypeOK
<1>2. Log[p] \in Seq(Message \cup {Poison}) /\ Len(Log[p]) \in Nat
  BY KafkaConfigIsSound
<1>3. o \in Offsets(p) /\ Log[p][o + 1] # Poison
  <2>1. CASE o \in 0 .. committed[p] - 1
    BY <1>1, <1>2, <2>1 DEF Offsets, ConsumerInvariant, UnreadableNotSkipped
  <2>2. CASE o \notin 0 .. committed[p] - 1
    <3>1. PICK t \in Tasks : o \in Offsets(p) /\ o < position[t][p]
      BY <2>2 DEF Settled, Below
    <3>2. o \in 0 .. position[t][p] - 1
      BY <3>1 DEF Offsets, TypeOK
    <3> QED
      BY <3>1, <3>2 DEF ConsumerInvariant
  <2> QED
    BY <2>1, <2>2
<1>4. o \in Nat /\ o + 1 \in 1 .. Len(Log[p])
  BY <1>2, <1>3 DEF Offsets
<1>5. Log[p][o + 1] \in Message
  BY <1>2, <1>3, <1>4
<1> QED
  BY <1>3, <1>4, <1>5 DEF Message

\* What a task has settled itself.
SettledBy(t, p, o) ==
  /\ Running(t) /\ p \in Assigned[t] /\ o < position[t][p]
  /\ <<p, o>> \in Positioned(batch[t]) => pc[t] \in {"append", "commit"}

\* A task settles the messages of the batch it merges, and no others.
LEMMA OwnSettled ==
  ASSUME FreshContext, NEW t \in Tasks, Step(t), NEW p \in Partitions,
         NEW o \in Offsets(p), SettledBy(t, p, o)'
  PROVE  \/ o \in 0 .. committed[p] - 1
         \/ SettledBy(t, p, o)
         \/ pc[t] = "merge" /\ MergeInto(batch[t]) /\ <<p, o>> \in Positioned(batch[t])
<1> USE DEF FreshContext
<1>1. /\ p \in Assigned[t] /\ o < position'[t][p]
      /\ <<p, o>> \in Positioned(batch'[t]) => pc'[t] \in {"append", "commit"}
  BY DEF SettledBy, Positioned
<1>2. /\ o \in Nat /\ committed[p] \in Nat /\ position[t] \in [Partitions -> Nat]
      /\ pc \in [Tasks -> Locations]
  BY KafkaConfigIsSound DEF Offsets, TypeOK
<1>3. CASE StartTask(t)
  <2>1. position'[t] = committed
    BY <1>3 DEF StartTask, StartPosition, TypeOK
  <2> QED
    BY <1>1, <1>2, <2>1
<1>4. CASE ~StartTask(t)
  <2>1. Running(t)
    BY <1>4, RunningStep
  <2>2. ASSUME NEW q \in Partitions, PollMessage(t, q) PROVE SettledBy(t, p, o)
    <3>1. /\ pc'[t] \notin {"append", "commit"}
          /\ Positioned(batch'[t]) = Positioned(batch[t]) \cup {<<q, position[t][q]>>}
          /\ position'[t] = [position[t] EXCEPT ![q] = position[t][q] + 1]
      BY <2>2, PolledStream
    <3>2. <<p, o>> \notin Positioned(batch[t]) /\ <<p, o>> # <<q, position[t][q]>>
      BY <1>1, <3>1
    <3>3. o < position[t][p]
      BY <1>1, <1>2, <3>1, <3>2
    <3> QED
      BY <1>1, <2>1, <3>2, <3>3 DEF SettledBy
  <2>3. CASE pc[t] = "commit" /\ position'[t] = position[t]
    BY <1>1, <2>1, <2>3 DEF SettledBy
  <2>4. CASE position'[t] = position[t] /\ batch'[t] = batch[t]
    <3>1. CASE <<p, o>> \notin Positioned(batch[t]) \/ pc[t] \in {"append", "commit"}
      BY <1>1, <2>1, <2>4, <3>1 DEF SettledBy
    <3>2. CASE <<p, o>> \in Positioned(batch[t]) /\ pc[t] \notin {"append", "commit"}
      <4>1. pc'[t] \in {"append", "commit"}
        BY <1>1, <2>4, <3>2
      <4>2. ~UpsertLost(t)
        BY DEF UpsertLost, Fault, Reliable
      <4>3. UpsertBatch(t)
        BY <1>2, <1>4, <3>2, <4>1, <4>2 DEF Step, Proceed, PollMessage, PollIdle,
           LoadStagingTable, UpsertRejected, AppendKeysToStaging, CommitOffsets,
           DeleteMissingInScope, DropKeysStagingTable, PollFails, UpsertFails,
           AppendKeysFails, CommitOffsetsFails, DeleteMissingFails, TaskDies, Goto,
           AfterStream
      <4>4. pc[t] = "merge" /\ MergeInto(staging[Suffix[t]])
        BY <4>3 DEF UpsertBatch, Goto
      <4> QED
        BY <3>2, <4>4 DEF MergeInvariant
    <3> QED
      BY <3>1, <3>2
  <2> QED
    BY <1>4, <2>2, <2>3, <2>4, StreamChange
<1> QED
  BY <1>3, <1>4

LEMMA Behind ==
  ASSUME NEW a \in Nat, NEW b \in Nat, NEW c \in Nat, NEW d \in Nat, a <= b, b <= c, c <= d,
         NEW o \in 0 .. a - 1
  PROVE  o \in 0 .. d - 1 /\ o < b
OBVIOUS

\* Only a MERGE settles messages.
LEMMA SettledStep ==
  ASSUME FreshContext, NEW t \in Tasks, Step(t), NEW p \in Partitions, NEW o \in Settled'[p]
  PROVE  \/ o \in Settled[p]
         \/ pc[t] = "merge" /\ MergeInto(batch[t]) /\ <<p, o>> \in Positioned(batch[t])
<1> USE DEF FreshContext
<1>1. /\ committed[p] \in Nat /\ position[t][p] \in Nat /\ offsets[t][p] \in Nat
      /\ offsets[t][p] <= position[t][p] /\ position[t][p] <= produced[p]
      /\ produced[p] \in Nat /\ produced[p] <= Len(Log[p]) /\ Len(Log[p]) \in Nat
  <2>1. /\ committed[p] \in Nat /\ position[t][p] \in Nat /\ offsets[t][p] \in Nat
        /\ offsets[t][p] <= position[t][p] /\ position[t][p] <= produced[p]
        /\ produced[p] \in Nat /\ produced[p] <= Len(Log[p])
    BY DEF TypeOK
  <2> QED
    BY <2>1, KafkaConfigIsSound
<1>2. \/ o \in 0 .. committed'[p] - 1
      \/ o \in Offsets(p) /\ \E u \in Tasks : SettledBy(u, p, o)'
  BY DEF Settled, Below, SettledBy
<1>3. ASSUME \/ o \in 0 .. committed[p] - 1
             \/ o \in Offsets(p) /\ \E u \in Tasks : SettledBy(u, p, o)
      PROVE  o \in Settled[p]
  BY <1>3 DEF Settled, Below, SettledBy
<1>4. CASE o \in 0 .. committed'[p] - 1
  <2>1. CASE committed'[p] = committed[p]
    BY <1>3, <1>4, <2>1
  <2>2. CASE pc[t] = "commit" /\ committed'[p] = offsets[t][p] /\ offsets[t][p] # 0
    <3>1. p \in Assigned[t]
      BY <2>2 DEF ConsumerInvariant
    <3>2. o \in 0 .. offsets[t][p] - 1
      BY <1>4, <2>2
    <3>3. o \in Offsets(p) /\ o < position[t][p]
      BY <1>1, <3>2, Behind DEF Offsets
    <3>4. SettledBy(t, p, o)
      BY <2>2, <3>1, <3>3 DEF SettledBy, Running
    <3> QED
      BY <1>3, <3>3, <3>4
  <2> QED
    BY <2>1, <2>2, CommittedChange DEF CommittedWith
<1>5. ASSUME NEW u \in Tasks, o \in Offsets(p), SettledBy(u, p, o)'
      PROVE  \/ o \in Settled[p]
             \/ pc[t] = "merge" /\ MergeInto(batch[t]) /\ <<p, o>> \in Positioned(batch[t])
  <2>1. CASE u = t
    BY <1>3, <1>5, <2>1, OwnSettled
  <2>2. CASE u # t
    <3>1. pc'[u] = pc[u] /\ position'[u] = position[u] /\ batch'[u] = batch[u]
      BY <2>2, OthersKeep
    <3>2. SettledBy(u, p, o)
      BY <1>5, <3>1 DEF SettledBy, Running, Positioned
    <3> QED
      BY <1>3, <1>5, <3>2
  <2> QED
    BY <2>1, <2>2
<1> QED
  BY <1>2, <1>4, <1>5

\* What a running task has settled of its partitions is behind its position.
LEMMA SettledBehind ==
  ASSUME FreshContext, NEW t \in Tasks, Running(t), NEW p \in Partitions, p \in Assigned[t],
         NEW o \in Settled[p]
  PROVE  o < position[t][p]
<1>1. CASE o \in 0 .. committed[p] - 1
  <2>1. committed[p] <= position[t][p] /\ committed[p] \in Nat /\ position[t][p] \in Nat
    BY DEF FreshContext, PositionInvariant, TypeOK
  <2> QED
    BY <1>1, <2>1
<1>2. CASE o \notin 0 .. committed[p] - 1
  <2>1. PICK u \in Tasks : p \in Assigned[u] /\ o < position[u][p]
    BY <1>2 DEF Settled, Below
  <2> QED
    BY <2>1 DEF FreshContext, PartitionsSeparate
<1> QED
  BY <1>1, <1>2

LEMMA Within ==
  ASSUME NEW a \in Nat, NEW b \in Nat, NEW c \in Nat, NEW d \in Nat, a - b <= c, c <= d
  PROVE  a <= b + d
OBVIOUS

\* A merged batch leaves rows from its own messages, so close behind the position.
LEMMA MergeRefreshes ==
  ASSUME FreshContext, NEW t \in Tasks, Step(t), pc[t] = "merge", MergeInto(batch[t]),
         NEW pos \in Positioned(batch[t])
  PROVE  Fresh(At(pos).key, Settled)'
<1> USE DEF FreshContext
<1> DEFINE k == At(pos).key
<1>1. PICK from \in Positioned(batch[t]) : At(from) = [key |-> k, val |-> target'[k]]
  BY MergeBrings
<1> DEFINE p == from[1]
           i == from[2]
<1>2. Running(t) /\ InPlace(t)
  BY DEF PositionInvariant, InPlace, Running
<1>3. IsRead(from)
  BY DEF ConsumerInvariant
<1>4. /\ p \in Partitions /\ i \in 0 .. produced[p] - 1 /\ p \in Assigned[t]
      /\ position[t][p] - i <= Len(batch[t])
  BY <1>2, <1>3 DEF IsRead, InPlace
<1>5. /\ Len(batch[t]) <= BatchSize /\ Len(batch[t]) \in Nat /\ BatchSize \in Nat
      /\ position[t][p] \in Nat /\ produced[p] \in Nat
  <2>1. /\ Len(batch[t]) <= BatchSize /\ batch[t] \in Seq(Positions)
        /\ position[t][p] \in Nat /\ produced[p] \in Nat
    BY <1>4 DEF TypeOK
  <2> QED
    BY <2>1, KafkaConfigIsSound
<1>6. i \in Nat /\ position[t][p] <= i + BatchSize
  <2>1. i \in Nat
    BY <1>4, <1>5
  <2> QED
    BY <1>4, <1>5, <2>1, Within
<1>7. ASSUME NEW later \in Settled'[p] PROVE later < i + BatchSize
  <2>1. later < position[t][p] /\ later \in Nat
    <3>1. CASE later \in Settled[p]
      BY <1>2, <1>4, <3>1, SettledBehind, SettledMessage
    <3>2. CASE <<p, later>> \in Positioned(batch[t])
      <4>1. later < position[t][p] /\ IsRead(<<p, later>>)
        BY <1>2, <3>2 DEF InPlace, ConsumerInvariant
      <4> QED
        BY <1>5, <4>1 DEF IsRead
    <3> QED
      BY <1>4, <1>7, <3>1, <3>2, SettledStep
  <2> QED
    BY <1>5, <1>6, <2>1
<1>8. produced' = produced
  BY CommittedChange
<1>9. Log[p][i + 1] = [key |-> k, val |-> target'[k]]
  BY <1>1 DEF At
<1>10. \E q \in Partitions : \E o \in 0 .. produced'[q] - 1 :
        /\ Log[q][o + 1] = [key |-> k, val |-> target'[k]]
        /\ \A later \in Settled'[q] : Log[q][later + 1].key = k => later < o + BatchSize
  BY <1>4, <1>7, <1>8, <1>9
<1> QED
  BY <1>10 DEF Fresh

\* Where nothing about a key is merged, its row is as fresh as before.
LEMMA FreshKept ==
  ASSUME FreshContext, NEW t \in Tasks, Step(t), NEW k, Fresh(k, Settled),
         target'[k] = target[k],
         \A p \in Partitions : \A o \in Settled'[p] :
           Log[p][o + 1].key = k => o \in Settled[p]
  PROVE  Fresh(k, Settled)'
<1>1. produced' = produced
  BY CommittedChange
<1>2. \E q \in Partitions : \E o \in 0 .. produced'[q] - 1 :
        /\ Log[q][o + 1] = [key |-> k, val |-> target'[k]]
        /\ \A later \in Settled'[q] : Log[q][later + 1].key = k => later < o + BatchSize
  BY <1>1 DEF Fresh
<1> QED
  BY <1>2 DEF Fresh

LEMMA FreshStep ==
  ASSUME FreshContext, SettledInvariant, NEW t \in Tasks, Step(t)
  PROVE  SettledInvariant'
<1> SUFFICES ASSUME NEW p \in Partitions, NEW o \in Settled'[p]
             PROVE  Fresh(Log[p][o + 1].key, Settled)'
  BY DEF SettledInvariant
<1> DEFINE k == Log[p][o + 1].key
<1>1. CASE ~(pc[t] = "merge" /\ MergeInto(batch[t]))
  <2>1. \A q \in Partitions : \A r \in Settled'[q] : r \in Settled[q]
    BY <1>1, SettledStep
  <2>2. Fresh(k, Settled)
    BY <2>1 DEF SettledInvariant
  <2>3. target' = target
    BY <1>1, OwnMerge
  <2> QED
    BY <2>1, <2>2, <2>3, FreshKept
<1>2. CASE pc[t] = "merge" /\ MergeInto(batch[t])
  <2>1. CASE \E pos \in Positioned(batch[t]) : At(pos).key = k
    BY <1>2, <2>1, MergeRefreshes
  <2>2. CASE \A pos \in Positioned(batch[t]) : At(pos).key # k
    <3>1. \A q \in Partitions : \A r \in Settled'[q] :
            Log[q][r + 1].key = k => r \in Settled[q]
      BY <2>2, SettledStep DEF At
    <3>2. o \in Settled[p]
      BY <3>1
    <3>3. Fresh(k, Settled) /\ k \in Keys
      BY <3>2, SettledMessage DEF SettledInvariant, FreshContext
    <3>4. target'[k] = target[k]
      BY <1>2, <2>2, <3>3, MergeLeaves DEF FreshContext
    <3> QED
      BY <3>1, <3>3, <3>4, FreshKept
  <2> QED
    BY <2>1, <2>2
<1> QED
  BY <1>1, <1>2

\* What is committed is settled.
LEMMA SettledNotStale == SettledInvariant => CommittedRowsNotStale
<1> SUFFICES ASSUME SettledInvariant, NEW p \in Partitions, NEW o \in Below(committed)[p]
             PROVE  Fresh(Log[p][o + 1].key, Below(committed))
  BY DEF CommittedRowsNotStale
<1>1. \A q \in Partitions : Below(committed)[q] \subseteq Settled[q]
  BY DEF Settled
<1>2. Fresh(Log[p][o + 1].key, Settled)
  BY <1>1 DEF SettledInvariant
<1> QED
  BY <1>1, <1>2 DEF Fresh

LEMMA SettledInvariantStep ==
  FreshContext /\ SettledInvariant /\ [Next]_vars => (CommittedRowsNotStale /\ SettledInvariant)'
<1> SUFFICES ASSUME FreshContext, SettledInvariant, [Next]_vars PROVE SettledInvariant'
  BY SettledNotStale, PTL
<1>1. CASE UNCHANGED vars \/ (\E p \in Partitions : Produce(p))
  <2>1. UNCHANGED <<committed, target, pc, position, batch>>
    BY <1>1 DEF vars, Produce, tableVars, streamVars
  <2>2. Settled' = Settled
    BY <2>1 DEF Settled, Below, Running, Positioned
  <2>3. \A p \in Partitions :
          /\ produced[p] \in Nat /\ produced'[p] \in Nat /\ produced[p] <= produced'[p]
    <3>1. produced \in [Partitions -> Nat]
      BY DEF FreshContext, TypeOK
    <3>2. CASE UNCHANGED vars
      BY <3>1, <3>2 DEF vars
    <3>3. ASSUME NEW q \in Partitions, produced' = [produced EXCEPT ![q] = @ + 1]
          PROVE  \A p \in Partitions :
                   produced[p] \in Nat /\ produced'[p] \in Nat /\ produced[p] <= produced'[p]
      BY <3>1, <3>3
    <3> QED
      BY <1>1, <3>2, <3>3 DEF Produce
  <2>4. ASSUME NEW k, Fresh(k, Settled) PROVE Fresh(k, Settled)'
    <3>1. PICK q \in Partitions : \E o \in 0 .. produced[q] - 1 :
            /\ Log[q][o + 1] = [key |-> k, val |-> target[k]]
            /\ \A later \in Settled[q] : Log[q][later + 1].key = k => later < o + BatchSize
      BY <2>4 DEF Fresh
    <3>2. PICK o \in 0 .. produced[q] - 1 :
            /\ Log[q][o + 1] = [key |-> k, val |-> target[k]]
            /\ \A later \in Settled[q] : Log[q][later + 1].key = k => later < o + BatchSize
      BY <3>1
    <3>3. o \in 0 .. produced'[q] - 1
      BY <2>3
    <3>4. \E r \in 0 .. produced'[q] - 1 :
            /\ Log[q][r + 1] = [key |-> k, val |-> target'[k]]
            /\ \A later \in Settled'[q] : Log[q][later + 1].key = k => later < r + BatchSize
      BY <2>1, <2>2, <3>2, <3>3
    <3> QED
      BY <3>4 DEF Fresh
  <2> QED
    BY <2>2, <2>4 DEF SettledInvariant
<1>2. ASSUME NEW t \in Tasks, Step(t) PROVE SettledInvariant'
  BY <1>2, FreshStep
<1> QED
  BY <1>1, <1>2 DEF Next, Step

-----------------------------------------------------------------------------
(* The inductive invariant *)

LEMMA InitDelivery == Init => DeliveryInvariant
<1> SUFFICES ASSUME Init PROVE DeliveryInvariant
  OBVIOUS
<1>1. ConsumerInvariant
  BY InitConsumer
<1>2. \A p \in Partitions : committed[p] = 0
  BY DEF Init
<1>3. ASSUME NEW t \in Tasks
      PROVE  /\ pc[t] = "idle" /\ ~Running(t) /\ batch[t] = <<>>
             /\ \A p \in Partitions : position[t][p] = 0 /\ offsets[t][p] = 0
  BY DEF Init, NoOffsets, Running
<1>4. PositionInvariant /\ SettledInvariant
  BY <1>2, <1>3 DEF PositionInvariant, SettledInvariant, Settled, Below
<1>5. AtLeastOnce /\ CommittedRowsNotStale
  BY <1>2, <1>4, SettledNotStale DEF AtLeastOnce
<1>6. StreamInvariant /\ MergeInvariant
  BY <1>3 DEF StreamInvariant, MergeInvariant
<1> QED
  BY <1>1, <1>4, <1>5, <1>6 DEF DeliveryInvariant

LEMMA InvariantStep == TypeOK /\ DeliveryInvariant /\ [Next]_vars => DeliveryInvariant'
<1> SUFFICES ASSUME TypeOK, DeliveryInvariant, [Next]_vars PROVE DeliveryInvariant'
  OBVIOUS
<1>1. ConsumerInvariant'
  BY ConsumerStep DEF DeliveryInvariant
<1>2. PartitionsSeparate => PositionInvariant'
  BY PositionStep DEF DeliveryInvariant
<1>3. Reliable => AtLeastOnce' /\ StreamInvariant' /\ MergeInvariant'
  BY DeliveryStep DEF DeliveryInvariant
<1>4. Reliable /\ PartitionsSeparate /\ ~DeleteMissing =>
        CommittedRowsNotStale' /\ SettledInvariant'
  BY SettledInvariantStep DEF DeliveryInvariant, FreshContext
<1>5. (PartitionsSeparate' <=> PartitionsSeparate) /\ (Reliable' <=> Reliable)
  BY DEF PartitionsSeparate, Reliable, SuffixSeparate
<1> QED
  BY <1>1, <1>2, <1>3, <1>4, <1>5 DEF DeliveryInvariant

LEMMA TypesAndDelivery == Spec => [](TypeOK /\ DeliveryInvariant)
<1>1. Init => TypeOK /\ DeliveryInvariant
  BY InitType, InitDelivery
<1>2. TypeOK /\ DeliveryInvariant /\ [Next]_vars => (TypeOK /\ DeliveryInvariant)'
  BY StepType, InvariantStep DEF DeliveryInvariant
<1> QED
  BY <1>1, <1>2, PTL DEF Spec

\* The inductive invariant of the stream: what each of the four guarantees needs of
\* the assignment, the staging tables and the faults is part of it.
THEOREM DeliveryInvariantHolds == Spec => []DeliveryInvariant
BY TypesAndDelivery, PTL

\* At-least-once delivery: the group's offset passes a message only after a
\* committed MERGE contained it, however tasks fail, restart and overlap, as long
\* as they do not share a staging table and upsert_batch raises when it fails.
THEOREM DeliveredAtLeastOnce ==
  ASSUME "lost" \notin FaultKinds, SuffixSeparate
  PROVE  Spec => []AtLeastOnce
<1>1. DeliveryInvariant => AtLeastOnce
  BY DEF DeliveryInvariant, Reliable
<1> QED
  BY <1>1, DeliveryInvariantHolds, PTL

\* No row of a committed message is a batch or more behind the committed messages about
\* its key in the partition it stems from, whatever fails, is replayed and overlaps, and
\* however the producer spreads and repeats keys: when tasks have partitions and staging
\* tables of their own, upsert_batch raises when it fails, and nothing is deleted.
THEOREM CommittedIsNotStale ==
  ASSUME "lost" \notin FaultKinds, SuffixSeparate, PartitionsSeparate, DeleteMissing = FALSE
  PROVE  Spec => []CommittedRowsNotStale
<1>1. DeliveryInvariant => CommittedRowsNotStale
  BY DEF DeliveryInvariant, Reliable
<1> QED
  BY <1>1, DeliveryInvariantHolds, PTL

\* The committed offsets of tasks with partitions of their own are only raised, also
\* when a retry starts over, a commit is answered late or not at all.
THEOREM OffsetsAreOnlyRaised ==
  ASSUME PartitionsSeparate
  PROVE  Spec => OffsetsNeverGoBack
<1>1. TypeOK /\ DeliveryInvariant /\ [Next]_vars
        => [\A p \in Partitions : committed'[p] >= committed[p]]_vars
  BY OffsetsStep DEF DeliveryInvariant
<1> QED
  BY <1>1, TypesAndDelivery, PTL DEF Spec, OffsetsNeverGoBack

=============================================================================
