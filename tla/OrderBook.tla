------------------------------ MODULE OrderBook ------------------------------
(***************************************************************************)
(* The sequence-aware level-2 book of server/core/orderBook.ts, as pure    *)
(* operators on a book record.  A side is a function from ticks to         *)
(* quantities in which 0 stands for a tick the code's Map does not hold.   *)
(* Level lists are sets of [tick, qty] records: a negative quantity stands *)
(* for every level validateLevels() throws on (non-finite, misaligned,     *)
(* not an array), and two records on one tick for a duplicate level.       *)
(***************************************************************************)
EXTENDS Integers

CONSTANTS
  Ticks,     \* the price ticks in play
  NoPrev,    \* "pu" absent from an update (previousSequence === undefined)
  NoDigest   \* fingerprintCache === null

ASSUME OrderBookAssumption ==
  /\ Ticks \subseteq Nat
  /\ NoPrev \notin Int

Sides == [Ticks -> Nat]
NoLevels == [t \in Ticks |-> 0]
WireLevels == SUBSET [tick : Ticks, qty : Int]

SnapshotType == [lastUpdateId : Int, bids : WireLevels, asks : WireLevels]
UpdateType == [start : Int, end : Int, prev : Int \cup {NoPrev},
               bids : WireLevels, asks : WireLevels]

EmptyBook == [bids |-> NoLevels, asks |-> NoLevels, loaded |-> FALSE,
              bridged |-> FALSE, updateId |-> 0, digest |-> NoDigest]

HasBridgedSnapshot(b) == b.loaded /\ b.bridged

(* Best bid at or above best ask, both present. *)
Crossed(bids, asks) ==
  \E t, s \in Ticks : bids[t] > 0 /\ asks[s] > 0 /\ t >= s

ValidLevels(levels, allowDelete) ==
  /\ \A l \in levels : l.qty >= (IF allowDelete THEN 0 ELSE 1)
  /\ \A l, m \in levels : l.tick = m.tick => l = m

(* applyValidated(), and restore() when the levels are an undo record. *)
ApplyLevels(side, levels) ==
  [t \in Ticks |-> IF \E l \in levels : l.tick = t
                   THEN (CHOOSE l \in levels : l.tick = t).qty
                   ELSE side[t]]

(* Mutant: the undo forgets ticks the side did not hold. *)
CaptureUndoHeldOnly(side, levels) ==
  {[tick |-> l.tick, qty |-> side[l.tick]] : l \in {m \in levels : side[m.tick] > 0}}
CaptureUndo(side, levels) ==
  {[tick |-> l.tick, qty |-> side[l.tick]] : l \in levels}

(* What sha256 hashes: the sequence number and every level. *)
Digest(b) == <<b.updateId, b.bids, b.asks>>

(* fingerprint() returns the cached digest if there is one. *)
Fingerprint(b) == IF b.digest # NoDigest THEN b.digest ELSE Digest(b)
Fingerprinted(b) == [b EXCEPT !.digest = Fingerprint(b)]

(* loadSnapshot() throws exactly when this is false, before any write. *)
SnapshotAcceptable(s) ==
  /\ s.lastUpdateId >= 0
  /\ ValidLevels(s.bids, FALSE) /\ ValidLevels(s.asks, FALSE)
  /\ ~Crossed(ApplyLevels(NoLevels, s.bids), ApplyLevels(NoLevels, s.asks))

LoadSnapshot(b, s) ==
  IF SnapshotAcceptable(s)
  THEN [bids |-> ApplyLevels(NoLevels, s.bids),
        asks |-> ApplyLevels(NoLevels, s.asks),
        loaded |-> TRUE, bridged |-> FALSE,
        updateId |-> s.lastUpdateId, digest |-> NoDigest]
  ELSE b

Rejected(b, status, code) == [status |-> status, code |-> code, book |-> b]

(* The sequence checks, in the order of the code's early returns. *)
AlreadyApplied(b, u) == u.end <= b.updateId
RangeMalformed(u) == u.start < 0 \/ u.end < u.start
CanBridgeLate(b, u) == u.start <= b.updateId + 2 /\ u.end >= b.updateId + 1    \* mutant
CanBridgeEarly(b, u) == u.start <= b.updateId /\ u.end >= b.updateId + 1       \* mutant
CanBridge(b, u) == u.start <= b.updateId + 1 /\ u.end >= b.updateId + 1
ChainBroken(b, u) ==
  IF u.prev # NoPrev THEN u.prev # b.updateId ELSE u.start > b.updateId + 1

GapCode(b, u) ==
  IF ~b.bridged
  THEN IF u.end < b.updateId + 1 THEN "out_of_order" ELSE "sequence_gap"
  ELSE IF u.prev # NoPrev /\ u.prev < b.updateId THEN "out_of_order" ELSE "sequence_gap"

(* Levels are written first; a crossed result is rolled back from the undo. *)
CommitLevels(b, u) ==
  LET bids == ApplyLevels(b.bids, u.bids)
      asks == ApplyLevels(b.asks, u.asks)
  IN IF Crossed(bids, asks)
     THEN Rejected([b EXCEPT !.bids = ApplyLevels(bids, CaptureUndo(b.bids, u.bids)),
                             !.asks = ApplyLevels(asks, CaptureUndo(b.asks, u.asks))],
                   "invalid", "crossed")
     ELSE [status |-> "applied", code |-> "none",
           book |-> [b EXCEPT !.bids = bids, !.asks = asks, !.updateId = u.end,
                              !.bridged = TRUE, !.digest = NoDigest]]

ApplyUpdate(b, u) ==
  IF ~b.loaded THEN Rejected(b, "unsynced", "unsynced")
  ELSE IF RangeMalformed(u) THEN Rejected(b, "invalid", "malformed")
  ELSE IF AlreadyApplied(b, u)
    THEN Rejected(b, "ignored", IF u.end = b.updateId THEN "duplicate" ELSE "out_of_order")
  ELSE IF (b.bridged /\ ChainBroken(b, u)) \/ (~b.bridged /\ ~CanBridge(b, u))
    THEN Rejected(b, "gap", GapCode(b, u))
  ELSE IF ~ValidLevels(u.bids, TRUE) \/ ~ValidLevels(u.asks, TRUE)
    THEN Rejected(b, "invalid", "malformed")
  ELSE CommitLevels(b, u)

(* exportSnapshot(): every level, at the current sequence number. *)
ExportSide(side) == {[tick |-> t, qty |-> side[t]] : t \in {s \in Ticks : side[s] > 0}}
ExportSnapshot(b) == [lastUpdateId |-> b.updateId,
                      bids |-> ExportSide(b.bids), asks |-> ExportSide(b.asks)]

BookType ==
  [bids : Sides, asks : Sides, loaded : BOOLEAN, bridged : BOOLEAN, updateId : Nat,
   digest : {NoDigest} \cup (Nat \X Sides \X Sides)]
=============================================================================
