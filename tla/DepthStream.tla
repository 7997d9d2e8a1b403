----------------------------- MODULE DepthStream -----------------------------
(***************************************************************************)
(* The exchange side of the depth feed, external to the repository and     *)
(* modelled from how server/feeds/binanceFeed.ts and                       *)
(* server/core/orderBook.ts use it.  Truth[n] is the exchange's book after *)
(* its change number n.  A depth event covers a range of change numbers    *)
(* and carries the final quantity of every tick touched in that range; the *)
(* REST snapshot is the whole book at one change number.                   *)
(***************************************************************************)
EXTENDS OrderBook

CONSTANTS
  LastSeq,  \* the last change number of the bounded history
  Truth     \* the exchange's book after each change

ASSUME DepthStreamAssumption ==
  /\ LastSeq \in Nat
  /\ Truth \in [0 .. LastSeq -> [bids : Sides, asks : Sides]]
  /\ \A n \in 0 .. LastSeq : ~Crossed(Truth[n].bids, Truth[n].asks)

(* Absolute final quantities of the ticks that differ somewhere on the way. *)
Touched(side, from, to) == {t \in Ticks : \E n \in from .. to : side[n][t] # side[to][t]}
FinalLevels(side, from, to) ==
  {[tick |-> t, qty |-> side[to][t]] : t \in Touched(side, from, to)}

BidsAt == [n \in 0 .. LastSeq |-> Truth[n].bids]
AsksAt == [n \in 0 .. LastSeq |-> Truth[n].asks]

(* An event covers the changes start..end after a predecessor that ended   *)
(* at from.  Futures change numbers are shared between streams, so start   *)
(* may be past from + 1 when nothing changed in between.                   *)
Framings ==
  {f \in [from : 0 .. LastSeq, start : 1 .. LastSeq, end : 1 .. LastSeq] :
     /\ f.from < f.start /\ f.start <= f.end
     /\ \A n \in f.from .. (f.start - 1) : Truth[n] = Truth[f.from]}

(* prev is "pu": present on the futures stream, absent on the spot one.    *)
Event(f, prev) ==
  [start |-> f.start, end |-> f.end, prev |-> prev,
   bids |-> FinalLevels(BidsAt, f.from, f.end), asks |-> FinalLevels(AsksAt, f.from, f.end)]

StreamUpdates ==
  {Event(f, f.from) : f \in Framings} \cup {Event(f, NoPrev) : f \in Framings}

SnapshotLevels(side) == {[tick |-> t, qty |-> side[t]] : t \in {s \in Ticks : side[s] > 0}}
SnapshotAt(n) == [lastUpdateId |-> n, bids |-> SnapshotLevels(Truth[n].bids),
                  asks |-> SnapshotLevels(Truth[n].asks)]
StreamSnapshots == {SnapshotAt(n) : n \in 0 .. LastSeq}
=============================================================================
