---------------------------- MODULE KafkaToMSSQL ----------------------------
(***************************************************************************)
(* KafkaToMSSQLQueryOrchestrator and KafkaDataConsumer: sync tasks poll    *)
(* batches of row messages, upsert each batch into a SQL Server table and  *)
(* then commit the offsets.  A task that fails is started again, by a      *)
(* retry or by the next DAG run, from the committed offsets.  Several tasks*)
(* run in parallel, one per partition, and a worker that Airflow has given *)
(* up may still run beside the retry of its task.                          *)
(*                                                                         *)
(* upsert_batch is taken as module MSSQLWriter describes it, in two steps: *)
(* the load of the staging table and the transaction that MERGEs.          *)
(***************************************************************************)
EXTENDS Integers, Sequences, FiniteSets

CONSTANTS Partitions,
          Keys,               \* primary keys, numbers so that they have bounds
          Values,             \* the other columns
          Log,                \* [Partitions -> Seq(Message)], what gets produced
          Poison,             \* a message that cannot be deserialized
          InitTarget,         \* rows of the target table before the first run
          Tasks,
          Assigned,           \* [Tasks -> SUBSET Partitions]
          Suffixes, Suffix,   \* [Tasks -> Suffixes], the staging_suffix
          NoRow, NoTable

CONSTANTS BatchSize,          \* batch_size
          MaxIdlePolls,       \* max_idle_polls
          MaxMessagesPerRun,  \* max_messages_per_run, 0 for None
          DeleteMissing,      \* delete_missing
          FaultKinds,         \* the faults the environment may inject
          MaxFaults           \* bound on the number of faults

Message == [key : Keys, val : Values]

ASSUME KafkaConfigIsSound ==
  /\ Keys \subseteq Int
  /\ Poison \notin Message
  /\ NoRow \notin Values
  /\ Log \in [Partitions -> Seq(Message \cup {Poison})]
  /\ InitTarget \in [Keys -> Values \cup {NoRow}]
  /\ Assigned \in [Tasks -> SUBSET Partitions]
  /\ Suffix \in [Tasks -> Suffixes]
  /\ BatchSize \in Nat \ {0}
  /\ MaxIdlePolls \in Nat \ {0}
  /\ MaxMessagesPerRun \in Nat
  /\ DeleteMissing \in BOOLEAN
  /\ MaxFaults \in Nat

VARIABLES
  produced,    \* how much of each partition's log there is so far
  committed,   \* the consumer group's committed offsets
  target,      \* the target table
  staging,     \* messages in each upsert staging table, or NoTable
  keysStaging, \* keys in each keys staging table, or NoTable
  applied,     \* offsets whose message some committed MERGE contained
  pc,          \* the next step of each task
  position,    \* next offset a task's consumer will fetch
  batch,       \* the messages of the current batch, as <<partition, offset>>
  offsets,     \* per partition, the offset to commit with the batch; 0 is none
  idle,        \* idle_polls
  processed,   \* messages polled in this run, for max_messages_per_run
  ending,      \* the stream ends after the current batch
  scope,       \* keys that were staged in this run (for min_key and max_key)
  faults       \* faults injected so far

streamVars == <<position, batch, offsets, idle, processed, ending>>
tableVars  == <<target, staging, keysStaging, applied>>
vars == <<produced, committed, tableVars, pc, streamVars, scope, faults>>

Locations == {"idle", "poll", "load", "merge", "append", "commit", "delete",
              "drop", "done", "failed"}

Offsets(p) == 0 .. Len(Log[p]) - 1

Positions == {<<p, o>> : p \in Partitions, o \in UNION {Offsets(q) : q \in Partitions}}

TypeOK ==
  /\ produced  \in [Partitions -> Nat] /\ \A p \in Partitions : produced[p] <= Len(Log[p])
  /\ committed \in [Partitions -> Nat] /\ \A p \in Partitions : committed[p] <= produced[p]
  /\ target \in [Keys -> Values \cup {NoRow}]
  /\ staging \in [Suffixes -> Seq(Positions) \cup {NoTable}]
  /\ keysStaging \in [Suffixes -> (SUBSET Keys) \cup {NoTable}]
  /\ applied \in [Partitions -> SUBSET Nat]
  /\ \A p \in Partitions : applied[p] \subseteq Offsets(p)
  /\ pc \in [Tasks -> Locations]
  /\ position \in [Tasks -> [Partitions -> Nat]]
  /\ \A t \in Tasks, p \in Partitions : position[t][p] <= produced[p]
  /\ batch \in [Tasks -> Seq(Positions)]
  /\ \A t \in Tasks : Len(batch[t]) <= BatchSize
  /\ offsets \in [Tasks -> [Partitions -> Nat]]
  /\ \A t \in Tasks, p \in Partitions : offsets[t][p] <= position[t][p]
  /\ idle \in [Tasks -> 0 .. MaxIdlePolls]
  /\ processed \in [Tasks -> Nat]
  /\ ending \in [Tasks -> BOOLEAN]
  /\ scope \in [Tasks -> SUBSET Keys]
  /\ faults \in 0 .. MaxFaults

NoOffsets == [p \in Partitions |-> 0]

Init ==
  /\ produced    = [p \in Partitions |-> 0]
  /\ committed   = [p \in Partitions |-> 0]
  /\ target      = InitTarget
  /\ staging     = [n \in Suffixes |-> NoTable]
  /\ keysStaging = [n \in Suffixes |-> NoTable]
  /\ applied     = [p \in Partitions |-> {}]
  /\ pc          = [t \in Tasks |-> "idle"]
  /\ position    = [t \in Tasks |-> [p \in Partitions |-> 0]]
  /\ batch       = [t \in Tasks |-> <<>>]
  /\ offsets     = [t \in Tasks |-> NoOffsets]
  /\ idle        = [t \in Tasks |-> 0]
  /\ processed   = [t \in Tasks |-> 0]
  /\ ending      = [t \in Tasks |-> FALSE]
  /\ scope       = [t \in Tasks |-> {}]
  /\ faults      = 0

-----------------------------------------------------------------------------

\* The message at a position of the log.
At(pos) == Log[pos[1]][pos[2] + 1]

Positioned(seq) == {seq[i] : i \in DOMAIN seq}

KeysOf(seq) == {At(pos).key : pos \in Positioned(seq)}

Goto(t, from, to) ==
  /\ pc[t] = from
  /\ pc' = [pc EXCEPT ![t] = to]

Fault(kind) ==
  /\ kind \in FaultKinds
  /\ faults < MaxFaults
  /\ faults' = faults + 1

\* What follows the last batch: the scoped delete, or the end of the run.
AfterStream == IF DeleteMissing THEN "delete" ELSE "done"

AfterUpsert == IF DeleteMissing THEN "append" ELSE "commit"

\* A producer adds the next message to the topic.
Produce(p) ==
  /\ produced[p] < Len(Log[p])
  /\ produced' = [produced EXCEPT ![p] = @ + 1]
  /\ UNCHANGED <<committed, tableVars, pc, streamVars, scope, faults>>

\* Mutant: the committed offsets are not looked up.
AlwaysEarliest == NoOffsets

\* Where a consumer takes up its partitions.
StartPosition == committed

\* _sync_consume begins: the keys staging table is created anew, the consumer
\* takes up its partitions at the committed offsets ("earliest" when there are
\* none).  A first run, a retry and the next DAG run are alike.
StartTask(t) ==
  /\ pc[t] \in {"idle", "done", "failed"}
  /\ pc' = [pc EXCEPT ![t] = "poll"]
  /\ keysStaging' = IF DeleteMissing THEN [keysStaging EXCEPT ![Suffix[t]] = {}]
                                     ELSE keysStaging
  /\ position'  = [position EXCEPT ![t] = StartPosition]
  /\ batch'     = [batch EXCEPT ![t] = <<>>]
  /\ offsets'   = [offsets EXCEPT ![t] = NoOffsets]
  /\ idle'      = [idle EXCEPT ![t] = 0]
  /\ processed' = [processed EXCEPT ![t] = 0]
  /\ ending'    = [ending EXCEPT ![t] = FALSE]
  /\ scope'     = [scope EXCEPT ![t] = {}]
  /\ UNCHANGED <<produced, committed, target, staging, applied, faults>>

\* Mutants: the offset of the message itself, and one too far.
OffsetOfLast(o) == o

OffsetTooFar(o) == o + 2

\* _track_offsets: the offset to commit for a message.
OffsetAfter(o) == o + 1

\* consumer.poll returns a row: it joins the batch, which is yielded when it is
\* full or when max_messages_per_run is reached.
PollMessage(t, p) ==
  LET grown == Append(batch[t], <<p, position[t][p]>>)
      last  == MaxMessagesPerRun # 0 /\ processed[t] + 1 >= MaxMessagesPerRun
  IN  /\ p \in Assigned[t]
      /\ position[t][p] < produced[p]
      /\ At(<<p, position[t][p]>>) # Poison
      /\ Goto(t, "poll", IF last \/ Len(grown) >= BatchSize THEN "load" ELSE "poll")
      /\ batch'     = [batch EXCEPT ![t] = grown]
      /\ offsets'   = [offsets EXCEPT ![t][p] = OffsetAfter(position[t][p])]
      /\ position'  = [position EXCEPT ![t][p] = @ + 1]
      /\ processed' = IF MaxMessagesPerRun = 0 THEN processed
                      ELSE [processed EXCEPT ![t] = @ + 1]
      /\ ending'    = [ending EXCEPT ![t] = last]
      /\ idle'      = [idle EXCEPT ![t] = 0]
      /\ UNCHANGED <<produced, committed, tableVars, scope, faults>>

\* consumer.poll times out: a batch begun is flushed, and the stream ends after
\* max_idle_polls timeouts in a row.
PollIdle(t) ==
  LET last == idle[t] + 1 >= MaxIdlePolls
  IN  /\ Goto(t, "poll", CASE batch[t] # <<>> -> "load"
                           [] batch[t] = <<>> /\ last -> AfterStream
                           [] OTHER -> "poll")
      /\ idle'   = [idle EXCEPT ![t] = @ + 1]
      /\ ending' = [ending EXCEPT ![t] = last]
      /\ UNCHANGED <<produced, committed, tableVars, position, batch, offsets, processed,
                     scope, faults>>

\* Mutant: a message that cannot be deserialized is skipped.
PollSkips(t) ==
  /\ pc[t] = "poll"
  /\ \E p \in Assigned[t] :
       /\ position[t][p] < produced[p]
       /\ position' = [position EXCEPT ![t][p] = @ + 1]
  /\ UNCHANGED <<produced, committed, tableVars, pc, batch, offsets, idle, processed,
                 ending, scope, faults>>

\* consumer.poll reports an error, or a message cannot be deserialized: the task
\* fails, and the batch it was gathering is lost with its offsets.
PollFails(t) ==
  /\ Goto(t, "poll", "failed")
  /\ \/ Fault("kafka")
     \/ /\ \E p \in Assigned[t] : position[t][p] < produced[p]
                                    /\ At(<<p, position[t][p]>>) = Poison
        /\ UNCHANGED faults
  /\ UNCHANGED <<produced, committed, tableVars, streamVars, scope>>

-----------------------------------------------------------------------------
(* upsert_batch *)

\* Mutant: the first row is left out.
AllButFirst(t) == Tail(batch[t])

LoadedMessages(t) == batch[t]

LoadStagingTable(t) ==
  /\ Goto(t, "load", "merge")
  /\ staging' = [staging EXCEPT ![Suffix[t]] = LoadedMessages(t)]
  /\ UNCHANGED <<produced, committed, target, keysStaging, applied, streamVars,
                 scope, faults>>

\* Mutants: MERGE that does not update, MERGE that does not match on the key.
EffectiveInserts(rows, k) ==
  {i \in DOMAIN rows : At(rows[i]).key = k /\ target[k] = NoRow}

EffectiveAnyKey(rows, k) == {i \in DOMAIN rows : At(rows[i]).val # target[k]}

\* The staged rows with key k that MERGE would insert, or update with.
Effective(rows, k) ==
  {i \in DOMAIN rows : At(rows[i]).key = k /\ At(rows[i]).val # target[k]}

\* MERGE inserts no key twice (primary key) and updates no row twice (error 8672).
MergeAccepts(rows) == \A k \in Keys : Cardinality(Effective(rows, k)) <= 1

MergeInto(rows) ==
  /\ target' = [k \in Keys |->
       IF Effective(rows, k) = {} THEN target[k]
       ELSE At(rows[CHOOSE i \in Effective(rows, k) : TRUE]).val]
  /\ applied' = [p \in Partitions |->
       applied[p] \cup {pos[2] : pos \in {q \in Positioned(rows) : q[1] = p}}]

\* The MERGE is committed and the staging table dropped.
UpsertBatch(t) ==
  /\ Goto(t, "merge", AfterUpsert)
  /\ staging[Suffix[t]] # NoTable
  /\ MergeAccepts(staging[Suffix[t]])
  /\ MergeInto(staging[Suffix[t]])
  /\ staging' = [staging EXCEPT ![Suffix[t]] = NoTable]
  /\ UNCHANGED <<produced, committed, keysStaging, streamVars, scope, faults>>

\* The rows are refused, or there is no staging table any more: the call raises,
\* and the orchestrator turns that into a failed TransferResult.
UpsertRejected(t) ==
  /\ Goto(t, "merge", "failed")
  /\ staging[Suffix[t]] # NoTable => ~MergeAccepts(staging[Suffix[t]])
  /\ staging' = [staging EXCEPT ![Suffix[t]] = NoTable]
  /\ UNCHANGED <<produced, committed, target, keysStaging, applied, streamVars,
                 scope, faults>>

\* The server or the connection fails: nothing was merged, or, when only the
\* answer to the commit was lost, everything was.
UpsertFails(t) ==
  /\ Goto(t, "load", "failed") \/ Goto(t, "merge", "failed")
  /\ Fault("upsert")
  /\ \/ UNCHANGED <<target, applied>>
     \/ /\ pc[t] = "merge" /\ staging[Suffix[t]] # NoTable
        /\ MergeAccepts(staging[Suffix[t]])
        /\ MergeInto(staging[Suffix[t]])
  /\ staging' \in {staging, [staging EXCEPT ![Suffix[t]] = NoTable]}
  /\ UNCHANGED <<produced, committed, keysStaging, streamVars, scope>>

\* _cleanup_staging_table fails, rolls the MERGE back and logs a warning:
\* upsert_batch returns as if the rows were merged.
UpsertLost(t) ==
  /\ Goto(t, "merge", AfterUpsert)
  /\ Fault("lost")
  /\ UNCHANGED <<produced, committed, tableVars, streamVars, scope>>

-----------------------------------------------------------------------------

AppendedKeys(t) == KeysOf(batch[t])

\* append_keys_to_staging and _update_key_bounds.  When the commit of the keys
\* fails _finalize_connection only logs it.
AppendKeysToStaging(t) ==
  /\ Goto(t, "append", "commit")
  /\ keysStaging[Suffix[t]] # NoTable
  /\ \/ /\ keysStaging' = [keysStaging EXCEPT ![Suffix[t]] = @ \cup AppendedKeys(t)]
        /\ UNCHANGED faults
     \/ Fault("lost") /\ UNCHANGED keysStaging
  /\ scope' = [scope EXCEPT ![t] = @ \cup KeysOf(batch[t])]
  /\ UNCHANGED <<produced, committed, target, staging, applied, streamVars>>

AppendKeysFails(t) ==
  /\ Goto(t, "append", "failed")
  /\ \/ keysStaging[Suffix[t]] = NoTable /\ UNCHANGED faults
     \/ Fault("upsert")
  /\ UNCHANGED <<produced, committed, tableVars, streamVars, scope>>

\* commit_offsets of a batch.  A consumer with assigned partitions is no member
\* of the group, so the broker takes any offset from it.
CommittedWith(t) ==
  [p \in Partitions |-> IF offsets[t][p] = 0 THEN committed[p] ELSE offsets[t][p]]

CommitOffsets(t) ==
  /\ Goto(t, "commit", IF ending[t] THEN AfterStream ELSE "poll")
  /\ committed' = CommittedWith(t)
  /\ batch'     = [batch EXCEPT ![t] = <<>>]
  /\ offsets'   = [offsets EXCEPT ![t] = NoOffsets]
  /\ UNCHANGED <<produced, tableVars, position, idle, processed, ending, scope, faults>>

\* The commit raises; the broker may have taken it.
CommitOffsetsFails(t) ==
  /\ Goto(t, "commit", "failed")
  /\ Fault("kafka")
  /\ committed' \in {committed, CommittedWith(t)}
  /\ UNCHANGED <<produced, tableVars, streamVars, scope>>

\* The target without the rows between min_key and max_key that are not in the
\* keys staging table.
WithoutMissing(t) ==
  [k \in Keys |-> IF /\ \E lo, hi \in scope[t] : lo <= k /\ k <= hi
                     /\ k \notin keysStaging[Suffix[t]]
                  THEN NoRow ELSE target[k]]

\* delete_missing_in_scope, skipped when no row was consumed.
DeleteMissingInScope(t) ==
  /\ Goto(t, "delete", "drop")
  /\ keysStaging[Suffix[t]] # NoTable \/ scope[t] = {}
  /\ target' = WithoutMissing(t)
  /\ UNCHANGED <<produced, committed, staging, keysStaging, applied, streamVars,
                 scope, faults>>

\* The delete raises, done or not when only the answer to its commit was lost.
\* The finally clause drops the keys staging table, if it can.
DeleteMissingFails(t) ==
  /\ Goto(t, "delete", "failed")
  /\ \/ /\ keysStaging[Suffix[t]] = NoTable /\ scope[t] # {}
        /\ UNCHANGED <<target, keysStaging, faults>>
     \/ /\ keysStaging[Suffix[t]] # NoTable \/ scope[t] = {}
        /\ Fault("upsert")
        /\ target' \in {target, WithoutMissing(t)}
        /\ keysStaging' \in {keysStaging, [keysStaging EXCEPT ![Suffix[t]] = NoTable]}
  /\ UNCHANGED <<produced, committed, staging, applied, streamVars, scope>>

DropKeysStagingTable(t) ==
  LET dropped == [keysStaging EXCEPT ![Suffix[t]] = NoTable]
  IN  /\ \/ /\ Goto(t, "drop", "done")
            /\ keysStaging' = dropped
            /\ UNCHANGED faults
         \/ /\ Goto(t, "drop", "failed")
            /\ Fault("upsert")
            /\ keysStaging' \in {keysStaging, dropped}
      /\ UNCHANGED <<produced, committed, target, staging, applied, streamVars, scope>>

\* The worker is killed or loses its heartbeat and exits.
TaskDies(t) ==
  /\ pc[t] \in Locations \ {"idle", "done", "failed"}
  /\ Fault("crash")
  /\ pc' = [pc EXCEPT ![t] = "failed"]
  /\ UNCHANGED <<produced, committed, tableVars, streamVars, scope>>

-----------------------------------------------------------------------------

\* The steps a running task takes by itself.
Proceed(t) ==
  \/ PollIdle(t) \/ LoadStagingTable(t) \/ UpsertBatch(t) \/ UpsertRejected(t)
  \/ AppendKeysToStaging(t) \/ CommitOffsets(t)
  \/ DeleteMissingInScope(t) \/ DropKeysStagingTable(t)

Next ==
  \/ \E p \in Partitions : Produce(p)
  \/ \E t \in Tasks :
       \/ StartTask(t)
       \/ \E p \in Partitions : PollMessage(t, p)
       \/ Proceed(t)
       \/ PollFails(t) \/ UpsertFails(t) \/ UpsertLost(t) \/ AppendKeysFails(t)
       \/ CommitOffsetsFails(t) \/ DeleteMissingFails(t) \/ TaskDies(t)

Spec == Init /\ [][Next]_vars

\* The DAG is scheduled again and again and its tasks run; the broker does not
\* keep back for ever a message that is asked for again and again.
Fairness ==
  \A t \in Tasks :
    /\ WF_vars(StartTask(t))
    /\ WF_vars(Proceed(t))
    /\ \A p \in Partitions : SF_vars(PollMessage(t, p))

FairSpec == Spec /\ Fairness

-----------------------------------------------------------------------------
(* Properties *)

\* At-least-once: an offset is committed only after a committed MERGE contained
\* its message, so that no failure, retry or overlap of tasks skips a message.
AtLeastOnce ==
  \A p \in Partitions : \A o \in 0 .. committed[p] - 1 : o \in applied[p]

\* The row of k is that of a produced message, and the messages about k at the given
\* offsets of that message's partition are less than a batch ahead of it.
Fresh(k, offs) ==
  \E p \in Partitions : \E o \in 0 .. produced[p] - 1 :
    /\ Log[p][o + 1] = [key |-> k, val |-> target[k]]
    /\ \A later \in offs[p] : Log[p][later + 1].key = k => later < o + BatchSize

\* The offsets that a function of the partitions is ahead of.
Below(ends) == [p \in Partitions |-> 0 .. ends[p] - 1]

\* However tasks fail, replay and overlap, the row of a committed message is less than
\* a batch behind the committed messages about its key in the partition it stems from.
\* Less is not promised: of two versions in a batch MERGE takes the one that differs.
CommittedRowsNotStale ==
  \A p \in Partitions : \A o \in Below(committed)[p] :
    Fresh(Log[p][o + 1].key, Below(committed))

\* Whatever fails and overlaps, a message that cannot be deserialized stops the
\* stream: its offset is never committed over.
UnreadableNotSkipped ==
  \A p \in Partitions : \A o \in 0 .. committed[p] - 1 : Log[p][o + 1] # Poison

\* Whatever fails and overlaps, a row of the target is an old one or the row of
\* some message produced for its key.
RowsComeFromTopic ==
  \A k \in Keys :
    \/ target[k] \in {NoRow, InitTarget[k]}
    \/ \E p \in Partitions : \E o \in 0 .. produced[p] - 1 :
         Log[p][o + 1] = [key |-> k, val |-> target[k]]

\* The consumer group never goes back to messages it is done with.
OffsetsNeverGoBack ==
  [][\A p \in Partitions : committed'[p] >= committed[p]]_vars

\* Through all the failures and retries the group catches up with the producer: in the
\* end every message is merged and its offset committed.
EverythingGetsCommitted == \A p \in Partitions : []<>(committed[p] = produced[p])

-----------------------------------------------------------------------------
(* Why they hold *)

\* A position of the log that a consumer can have read a row from.
IsRead(pos) ==
  /\ pos[1] \in Partitions
  /\ pos[2] \in 0 .. produced[pos[1]] - 1
  /\ At(pos) # Poison

\* Whatever the staging tables and the assignment: consumers stop at what they
\* cannot read, and leave room for the message and the timeout that come next.
ConsumerInvariant ==
  /\ UnreadableNotSkipped /\ RowsComeFromTopic
  /\ \A n \in Suffixes : staging[n] # NoTable =>
       \A pos \in Positioned(staging[n]) : IsRead(pos)
  /\ \A t \in Tasks :
       /\ \A p \in Partitions : \A o \in 0 .. position[t][p] - 1 : Log[p][o + 1] # Poison
       /\ \A p \in Partitions \ Assigned[t] : offsets[t][p] = 0
       /\ \A pos \in Positioned(batch[t]) : IsRead(pos)
       /\ pc[t] = "poll" => Len(batch[t]) < BatchSize /\ idle[t] < MaxIdlePolls
       /\ pc[t] \in {"load", "merge", "append", "commit"} =>
            ending[t] \/ idle[t] < MaxIdlePolls
       /\ pc[t] \in {"append", "delete", "drop"} => DeleteMissing

\* No two tasks use the same upsert staging table.
SuffixSeparate == \A t, u \in Tasks : t # u => Suffix[t] # Suffix[u]

\* Everything below a task's position is merged, or in its batch.
StreamInvariant ==
  \A t \in Tasks, p \in Partitions :
    /\ \A o \in 0 .. position[t][p] - 1 :
         o \in applied[p] \/ <<p, o>> \in Positioned(batch[t])
    /\ offsets[t][p] <= position[t][p]

\* What a task merges is its batch, and it goes on only when that is merged.
MergeInvariant ==
  \A t \in Tasks :
    /\ pc[t] = "merge" => staging[Suffix[t]] = batch[t]
    /\ pc[t] \in {"append", "commit"} =>
         \A pos \in Positioned(batch[t]) : pos[2] \in applied[pos[1]]

\* No two tasks read the same partition.
PartitionsSeparate == \A t, u \in Tasks : t # u => Assigned[t] \cap Assigned[u] = {}

Running(t) == pc[t] \notin {"idle", "done", "failed"}

\* A running task is not behind the offsets of its partitions, and its batch is all
\* that it has read of them from somewhere on.
PositionInvariant ==
  \A t \in Tasks : Running(t) =>
    /\ \A p \in Assigned[t] :
         /\ committed[p] <= position[t][p]
         /\ offsets[t][p] = 0 \/ committed[p] <= offsets[t][p]
    /\ \A pos \in Positioned(batch[t]) :
         /\ pos[1] \in Assigned[t]
         /\ committed[pos[1]] <= pos[2]
         /\ pos[2] < position[t][pos[1]]
         /\ position[t][pos[1]] - pos[2] <= Len(batch[t])
         /\ \A o \in pos[2] .. position[t][pos[1]] - 1 :
              <<pos[1], o>> \in Positioned(batch[t])

\* The offsets that are committed, or behind a running task and not in a batch it has
\* still to merge.
Settled ==
  [p \in Partitions |-> Below(committed)[p] \cup
     {o \in Offsets(p) : \E t \in Tasks :
        /\ Running(t) /\ p \in Assigned[t] /\ o < position[t][p]
        /\ <<p, o>> \in Positioned(batch[t]) => pc[t] \in {"append", "commit"}}]

\* Rows are as fresh with respect to what tasks have merged as to what is committed.
SettledInvariant ==
  \A p \in Partitions : \A o \in Settled[p] : Fresh(Log[p][o + 1].key, Settled)

Reliable == "lost" \notin FaultKinds /\ SuffixSeparate

\* The inductive invariant of the stream.
DeliveryInvariant ==
  /\ ConsumerInvariant
  /\ PartitionsSeparate => PositionInvariant
  /\ Reliable => AtLeastOnce /\ StreamInvariant /\ MergeInvariant
  /\ Reliable /\ PartitionsSeparate /\ ~DeleteMissing =>
       CommittedRowsNotStale /\ SettledInvariant

=============================================================================
