--------------------------- MODULE RawProjection ---------------------------
(***************************************************************************)
(* projectRawCapture() of server/replay/rawProjection.ts: the book rebuilt *)
(* from a capture, one record at a time.  Depth of a connection whose      *)
(* snapshot has not come yet is pending under the connection it is waiting *)
(* for, and is drained after it.                                           *)
(* This is the reading with options.strict = false; the strict one stops   *)
(* at the first event that applyUpdate() neither applies nor ignores, so   *)
(* what it returns is what this one computes on a capture without such an  *)
(* event.  broken stands for the errors thrown in both: a payload that     *)
(* does not parse, a snapshot the book refuses, too much pending depth.    *)
(* Trades only add to volumes and are left out, and pending depth of a     *)
(* connection is forgotten when another's arrives: the feed emits no body  *)
(* for a connection it has replaced, so nothing would drain it.            *)
(***************************************************************************)
EXTENDS OrderBook, Sequences, SequencesExt

NoConnection == 0

(* A projection with nothing pending, over the book of this connection.    *)
Projection(book, conn, broken) ==
  [book |-> book, active |-> conn, waiting |-> NoConnection, pending |-> <<>>,
   broken |-> broken]

EmptyProjection == Projection(EmptyBook, NoConnection, FALSE)
Broken == Projection(EmptyBook, NoConnection, TRUE)

(* The events a snapshot drains: those buffered for its own connection.    *)
Buffered(p, conn) == IF conn = p.waiting THEN p.pending ELSE <<>>

DrainBuffered(snapshotId, book, u) ==
  IF u.end <= snapshotId THEN book ELSE ApplyUpdate(book, u).book

ProjectSnapshot(p, conn, s) ==
  IF p.broken \/ ~SnapshotAcceptable(s) THEN Broken
  ELSE Projection(FoldLeft(LAMBDA book, u : DrainBuffered(s.lastUpdateId, book, u),
                           LoadSnapshot(p.book, s), Buffered(p, conn)),
                  conn, FALSE)

(* Mutant: depth goes to whatever book is loaded. *)
WaitsUnlessLoaded(p, conn) == ~p.book.loaded
Waits(p, conn) == ~p.book.loaded \/ conn # p.active

ProjectDepth(p, conn, u, maxPendingDepth) ==
  IF p.broken THEN p
  ELSE IF ~Waits(p, conn) THEN [p EXCEPT !.book = ApplyUpdate(p.book, u).book]
  ELSE IF Len(Buffered(p, conn)) >= maxPendingDepth THEN Broken
  ELSE [p EXCEPT !.waiting = conn, !.pending = Append(Buffered(p, conn), u)]
=============================================================================
