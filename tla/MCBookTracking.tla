--------------------------- MODULE MCBookTracking ---------------------------
(* BookTracking over three ticks and a history of five changes that adds,  *)
(* deletes, re-adds and resizes levels and moves the touch both ways.      *)
(* Damaged events carry bad ranges, a negative quantity, a duplicate level *)
(* or levels that cross, on ticks a side holds and on ticks it does not.   *)
EXTENDS BookTracking, TLC

Side(a, b, c) == 1 :> a @@ 2 :> b @@ 3 :> c

MCTruth ==
  0 :> [bids |-> Side(1, 1, 0), asks |-> Side(0, 0, 1)] @@
  1 :> [bids |-> Side(1, 0, 0), asks |-> Side(0, 0, 1)] @@
  2 :> [bids |-> Side(1, 0, 0), asks |-> Side(0, 1, 1)] @@
  3 :> [bids |-> Side(1, 0, 0), asks |-> Side(0, 1, 1)] @@
  4 :> [bids |-> Side(2, 0, 0), asks |-> Side(0, 0, 1)] @@
  5 :> [bids |-> Side(2, 1, 0), asks |-> Side(0, 0, 1)]

Level(t, q) == [tick |-> t, qty |-> q]

DamagedUpdates ==
  [start : {-1, 3}, end : {2, 4}, prev : {NoPrev, 2}, bids : {{Level(2, -1)}}, asks : {{}}]
  \cup [start : 1 .. 4, end : {4}, prev : {NoPrev, 1, 2, 3},
        bids : {{Level(2, 2)}, {Level(1, 0), Level(3, 1)}, {Level(1, 1), Level(1, 2)}},
        asks : {{Level(1, 1)}, {Level(2, 3), Level(3, 0)}}]

BadSnapshots ==
  [lastUpdateId : {3}, bids : {{[tick |-> 3, qty |-> 1]}}, asks : {{[tick |-> 2, qty |-> 1]}}]

MCSnapshots == StreamSnapshots \cup BadSnapshots
MCUpdates == StreamUpdates \cup DamagedUpdates
=============================================================================
