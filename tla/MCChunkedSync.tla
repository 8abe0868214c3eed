--------------------------- MODULE MCChunkedSync ---------------------------
(***************************************************************************)
(* Instances of ChunkedSync for TLC.                                       *)
(***************************************************************************)
EXTENDS ChunkedSync, TLC

CONSTANTS a, b

\* A table that holds the value v under some keys.
Filled(keys, v) == [k \in Keys |-> IF k \in keys THEN v ELSE NoRow]

KeyItself == [k \in Keys |-> k]

\* Keys 2 and 3 share a value of the chunk column, the first of their columns.
SharedValue == [k \in Keys |-> IF k >= 3 THEN k - 1 ELSE k]

\* Another column, that does not grow with the key.
Backwards == [k \in Keys |-> 0 - (k % 3)]

AllRows     == {Filled(Keys, a)}
AllButTwo   == {Filled(Keys \ {2}, a)}
OldRows     == {Filled(Keys, b)}
SomeRows    == {Filled({1, 2}, b)}

=============================================================================
