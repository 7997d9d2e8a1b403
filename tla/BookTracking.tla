---------------------------- MODULE BookTracking ----------------------------
(***************************************************************************)
(* An OrderBook object fed from the exchange's stream with events lost,    *)
(* repeated, reordered or damaged on the way, the way the validator of     *)
(* server/feeds/binanceFeed.ts and the book of server/marketGateway.ts are *)
(* fed over a connection that drops and comes back.  Damage is anything    *)
(* applyUpdate() can recognise: a range or a level that is malformed, or   *)
(* levels that cross each other whatever they are written on.              *)
(***************************************************************************)
EXTENDS OrderBookObject, DepthStream

SelfCrossing(u) ==
  \E bid \in u.bids, ask \in u.asks : bid.qty > 0 /\ ask.qty > 0 /\ bid.tick >= ask.tick

Damaged(u) ==
  \/ RangeMalformed(u)
  \/ ~ValidLevels(u.bids, TRUE) \/ ~ValidLevels(u.asks, TRUE)
  \/ SelfCrossing(u)

(* Every well-formed input is genuine; anything else fails validation. *)
ASSUME GenuineInputsAssumption ==
  /\ \A s \in Snapshots : s \in StreamSnapshots \/ ~SnapshotAcceptable(s)
  /\ \A u \in Updates : u \in StreamUpdates \/ Damaged(u)

(* Whatever was lost, repeated or reordered, a loaded book equals the      *)
(* exchange's book at the book's own sequence number: applyUpdate()'s      *)
(* bridge and chain checks admit no event that skips a change.             *)
TracksExchange ==
  book.loaded => /\ book.updateId \in 0 .. LastSeq
                 /\ book.bids = Truth[book.updateId].bids
                 /\ book.asks = Truth[book.updateId].asks

(* Nothing of the exchange's history is missing between the book and an    *)
(* event that goes past it, and the event names the book as predecessor    *)
(* where applyUpdate() looks at the name.                                  *)
Continues(b, u) ==
  /\ b.loaded /\ u.end > b.updateId
  /\ \A n \in b.updateId .. u.start - 1 : Truth[n] = Truth[b.updateId]
  /\ b.bridged => u.prev \in {NoPrev, b.updateId}

(* The event starts late, and the book has only the range to judge by: no  *)
(* event has bridged its snapshot yet, or the stream names no predecessor. *)
JudgedByRange(b, u) ==
  u.start > b.updateId + 1 /\ (~b.bridged \/ u.prev = NoPrev)

(* An intact event that continues the book is applied: no crossing, no     *)
(* malformed, out-of-order or duplicate verdict, and a gap in one case     *)
(* only.  There the stream is healthy and a resync is demanded all the     *)
(* same (orderBook.ts:114-124, README section 6).                          *)
HealthyStreamAccepted ==
  \A u \in Updates \cap StreamUpdates :
    Continues(book, u) =>
      ApplyUpdate(book, u).status = IF JudgedByRange(book, u) THEN "gap" ELSE "applied"

=============================================================================
