---------------------------- MODULE MCBinanceFeed ----------------------------
(* BinanceFeed over two ticks and a history of three change numbers, the   *)
(* second of which belongs to another stream: an event may start late.     *)
EXTENDS BinanceFeed

Side(a, b) == 1 :> a @@ 2 :> b

MCTruth ==
  0 :> [bids |-> Side(1, 0), asks |-> Side(0, 1)] @@
  1 :> [bids |-> Side(2, 0), asks |-> Side(0, 1)] @@
  2 :> [bids |-> Side(2, 0), asks |-> Side(0, 1)] @@
  3 :> [bids |-> Side(0, 0), asks |-> Side(1, 2)]
=============================================================================
