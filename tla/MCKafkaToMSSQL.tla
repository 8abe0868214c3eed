--------------------------- MODULE MCKafkaToMSSQL ---------------------------
(***************************************************************************)
(* Instances of KafkaToMSSQL for TLC.                                      *)
(***************************************************************************)
EXTENDS KafkaToMSSQL, TLC

CONSTANTS p1, p2, t1, t2, a, b, c, x

Msg(k, v) == [key |-> k, val |-> v]

\* Key 1 comes again and again, twice in one batch: MERGE takes it because one of the
\* two is the row that is there.  Key 3 has messages in both partitions, as a producer
\* that sends no message key spreads them.
TwoPartitionLog ==
  (p1 :> <<Msg(1, a), Msg(1, x), Msg(3, b), Msg(1, c)>>) @@ (p2 :> <<Msg(3, a)>>)

\* A snapshot: every key once.
SnapshotLog == (p1 :> <<Msg(1, a), Msg(2, b), Msg(3, a)>>)

\* A repeated key and a message that cannot be read.
BrokenLog == (p1 :> <<Msg(1, a), Msg(1, b), Poison, Msg(2, a)>>)

OneTaskPerPartition == (t1 :> {p1}) @@ (t2 :> {p2})
OneTask             == (t1 :> {p1})
OneSuffix           == (t1 :> "chunk_1")

OldTarget   == [k \in Keys |-> x]

TwoRunsOfOneChunk == (t1 :> {p1}) @@ (t2 :> {p1})
SameSuffix        == (t1 :> "chunk_1") @@ (t2 :> "chunk_1")
SuffixPerTask     == (t1 :> "chunk_1") @@ (t2 :> "chunk_2")

=============================================================================
