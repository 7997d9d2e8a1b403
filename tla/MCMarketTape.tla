----------------------------- MODULE MCMarketTape -----------------------------
(* MarketTape over three seconds of two buckets; and the ring it keeps its *)
(* trades in, against the last values pushed.                              *)
EXTENDS MarketTape, SequencesExt

MarkSymmetry == Permutations(Marks)

PushAll(ring, values) == FoldLeft(Push, ring, values)
Latest(values, n) == SubSeq(values, 1 + (IF Len(values) > n THEN Len(values) - n ELSE 0),
                            Len(values))

(* Reading the ring back gives the latest values, in order, whatever its   *)
(* capacity and however often it went round.                               *)
ASSUME RingKeepsTheLatest ==
  \A capacity \in 1 .. 3 : \A n \in 0 .. 7 :
    LET pushed == [i \in 1 .. n |-> i]
    IN ToArray(PushAll(EmptyRing(capacity), pushed)) = Latest(pushed, capacity)
=============================================================================
