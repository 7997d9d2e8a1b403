------------------------------ MODULE RingBuffer ------------------------------
(***************************************************************************)
(* The bounded FIFO of server/core/ringBuffer.ts: an array that is written *)
(* round and round, and what reading it back yields.                       *)
(***************************************************************************)
EXTENDS Integers, Sequences

CONSTANT
  Nothing         \* undefined: a place of the array that was never written

(* A ring of the given capacity that holds nothing. *)
EmptyRing(capacity) ==
  [values |-> [i \in 0 .. capacity - 1 |-> Nothing], start |-> 0, length |-> 0]

Capacity(ring) == 1 + CHOOSE i \in DOMAIN ring.values : i + 1 \notin DOMAIN ring.values

(* Mutant: the first place is not given up when the ring is full. *)
PushKeepingStart(ring, value) ==
  LET end == (ring.start + ring.length) % Capacity(ring)
  IN [ring EXCEPT !.values[end] = value,
                  !.length = IF @ < Capacity(ring) THEN @ + 1 ELSE @]

(* push(): a full ring gives up its oldest value. *)
Push(ring, value) ==
  LET end == (ring.start + ring.length) % Capacity(ring)
      full == ring.length = Capacity(ring)
  IN [ring EXCEPT !.values[end] = value,
                  !.length = IF full THEN @ ELSE @ + 1,
                  !.start = IF full THEN (@ + 1) % Capacity(ring) ELSE @]

(* toArray(): the values, oldest first. *)
ToArray(ring) ==
  [i \in 1 .. ring.length |-> ring.values[(ring.start + i - 1) % Capacity(ring)]]
=============================================================================
