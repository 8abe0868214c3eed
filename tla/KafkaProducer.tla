--------------------------- MODULE KafkaProducer ----------------------------
(***************************************************************************)
(* send_batch_to_kafka of IdempotentKafkaProducer. The rows of the target  *)
(* are the last messages of each row on the topic. A batch's messages are  *)
(* produced and flushed; one the broker refuses, or that is too late, ends *)
(* up in a list nobody reads.                                              *)
(***************************************************************************)
EXTENDS QuerySync

\* The broker has the messages of some rows of the batch.
Deliver(n, rows) ==
  /\ target' = [k \in Keys |-> IF k \in rows THEN batch[n][k] ELSE target[k]]
  /\ version' = [k \in Keys |-> IF k \in rows THEN runVersion ELSE version[k]]

\* Mutant: flush is given up with messages in the queue, which go with the process.
FlushGivesUp(n) == \E rows \in SUBSET RowsOf(batch[n]) : Deliver(n, rows)

\* flush returns when every message has been delivered.
Flush(n) == Deliver(n, RowsOf(batch[n]))

\* flush returns, and _delivery_callback was told that some were not.
DeliveryFails(n) ==
  /\ Fault("lost")
  /\ \E rows \in SUBSET RowsOf(batch[n]) : rows # RowsOf(batch[n]) /\ Deliver(n, rows)
  /\ undisturbed' = FALSE

SendBatchToKafka(n) ==
  /\ Goto(n, "upsert", "append")
  /\ \/ Flush(n) /\ UNCHANGED <<faults, undisturbed>>
     \/ DeliveryFails(n)
  /\ UNCHANGED <<config, source, changes, keysStaging, runVars, taskVars>>

\* Messages are left after 60 seconds, or the queue is full; some have arrived.
SendFails(n) ==
  /\ pc[n] = "upsert"
  /\ \E kind \in {"link", "died"} : FailTask(n, kind)
  /\ \E rows \in SUBSET RowsOf(batch[n]) : Deliver(n, rows)
  /\ UNCHANGED <<config, envVars, keysStaging, runVars, taskVars>>

=============================================================================
