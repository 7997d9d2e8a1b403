-------------------------- MODULE OrderBookObject --------------------------
(***************************************************************************)
(* One OrderBook object of server/core/orderBook.ts under any sequence of  *)
(* the calls its owners make, on any input: the feed's validator, the      *)
(* gateway's book and its reconciliation candidate, and the replay's book. *)
(***************************************************************************)
EXTENDS OrderBook

CONSTANTS
  Snapshots,  \* the snapshots loadSnapshot() may be called with
  Updates     \* the updates applyUpdate() may be called with

ASSUME InputsAssumption ==
  /\ Snapshots \subseteq SnapshotType
  /\ Updates \subseteq UpdateType

VARIABLES
  book,     \* the object's fields
  outcome   \* which call was made last and what it returned

vars == <<book, outcome>>

Outcome(op, status, code) == [op |-> op, status |-> status, code |-> code]

Init ==
  /\ book = EmptyBook
  /\ outcome = Outcome("new", "none", "none")

(* A new OrderBook replaces the old one on every (re)connect or reset. *)
Replace ==
  /\ book' = EmptyBook
  /\ outcome' = Outcome("new", "none", "none")

Load(s) ==
  /\ book' = LoadSnapshot(book, s)
  /\ outcome' = Outcome("load", IF SnapshotAcceptable(s) THEN "applied" ELSE "invalid", "none")

Update(u) ==
  LET r == ApplyUpdate(book, u)
  IN /\ book' = r.book
     /\ outcome' = Outcome("update", r.status, r.code)

TakeFingerprint ==
  /\ book' = Fingerprinted(book)
  /\ outcome' = Outcome("fingerprint", "none", "none")

Next ==
  \/ Replace
  \/ TakeFingerprint
  \/ \E s \in Snapshots : Load(s)
  \/ \E u \in Updates : Update(u)

Spec == Init /\ [][Next]_vars

-----------------------------------------------------------------------------
(* The fields keep their types. *)
TypeOK ==
  /\ book \in BookType
  /\ outcome \in [op : {"new", "load", "update", "fingerprint"},
                  status : {"none", "applied", "ignored", "gap", "unsynced", "invalid"},
                  code : {"none", "duplicate", "out_of_order", "sequence_gap",
                          "malformed", "crossed", "unsynced"}]

(* loadSnapshot() and the rollback in applyUpdate(): no book is crossed.   *)
NeverCrossed == ~Crossed(book.bids, book.asks)

(* A digest kept in fingerprintCache is the digest of the current content: *)
(* every path that writes levels or the sequence number drops the cache.   *)
FingerprintCurrent == book.digest # NoDigest => book.digest = Digest(book)

(* A call that does not report success leaves levels, sequence number and  *)
(* bridge as they were: the crossed path in applyUpdate() undoes its       *)
(* writes, and a rejected loadSnapshot() keeps the last known-good state.  *)
RejectionKeepsBook ==
  [][outcome'.op \in {"load", "update"} /\ outcome'.status # "applied"
       => book' = book]_vars

(* The sequence number only rises while one snapshot's book is updated.    *)
UpdatesAdvance ==
  [][outcome'.op = "update" => \/ book'.updateId > book.updateId /\ book'.bridged
                               \/ book' = book]_vars
=============================================================================
