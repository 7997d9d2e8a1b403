---------------------------- MODULE ReplaySource ----------------------------
(***************************************************************************)
(* RawCaptureReplaySource.page of server/replay/replaySource.ts: one page  *)
(* of an immutable capture from a cursor on, up to a playhead.  A frame is *)
(* its position in the capture, which is what its sequence string orders.  *)
(* The first page after a seek opens with the book's pre-roll: the newest  *)
(* snapshot before the watermark and the depth records after it.           *)
(***************************************************************************)
EXTENDS Integers, SequencesExt

CONSTANTS
  Records,    \* the capture: a sequence of [stream |-> ..., at |-> capturedAt]
  Until,      \* range.to; range.from is 0
  MaxPreRoll  \* maxPreRollRecords

ASSUME SourceAssumption ==
  /\ Until \in Nat /\ MaxPreRoll \in Nat
  /\ Records \in Seq([stream : {"snapshot", "depth", "trade"}, at : Nat])

Queries(limits) ==
  [after : 0 .. Len(Records), startAt : 0 .. Until, through : 0 .. Until,
   limit : limits, includePreRoll : BOOLEAN]

(* The variables of the loop: anchor 0 is no anchor, stopped an early return. *)
Start == [frames |-> <<>>, anchor |-> 0, pending |-> <<>>, emitted |-> FALSE,
          dropped |-> 0, stopped |-> FALSE]

CollectPreroll(q) == q.includePreRoll /\ q.after = 0

RememberPreroll(q, scan, i) ==
  CASE ~CollectPreroll(q) -> scan
    [] CollectPreroll(q) /\ Records[i].stream = "snapshot" ->
         [scan EXCEPT !.anchor = i, !.pending = <<>>, !.dropped = 0, !.emitted = FALSE]
    [] CollectPreroll(q) /\ Records[i].stream = "depth" /\ scan.anchor # 0 ->
         IF Len(scan.pending) >= MaxPreRoll
         THEN [scan EXCEPT !.dropped = @ + 1]
         ELSE [scan EXCEPT !.pending = Append(@, i)]
    [] OTHER -> scan

DrainPreroll(q, scan) ==
  LET run == <<scan.anchor>> \o scan.pending
      room == q.limit - Len(scan.frames)
      take == IF Len(run) <= room THEN run ELSE SubSeq(run, 1, room)
  IN  IF ~CollectPreroll(q) \/ scan.emitted \/ scan.anchor = 0 THEN scan
      ELSE [scan EXCEPT !.frames = @ \o take, !.emitted = TRUE,
                        !.dropped = @ + Len(run) - Len(take)]

(* Before the final watermark a record ahead of the playhead ends the page. *)
WaitsForFuture(q) == q.through < Until

(* The body of the loop for record i. *)
Visit(q, scan, i) ==
  LET drained == DrainPreroll(q, scan)
      pushed == [drained EXCEPT !.frames = Append(@, i)]
  IN  IF scan.stopped \/ i <= q.after THEN scan
      ELSE IF Records[i].at < q.startAt THEN RememberPreroll(q, scan, i)
      ELSE IF Records[i].at > q.through
           THEN IF WaitsForFuture(q) THEN [drained EXCEPT !.stopped = TRUE] ELSE scan
      ELSE IF Len(pushed.frames) <= q.limit THEN pushed
           ELSE [pushed EXCEPT !.frames = SubSeq(@, 1, q.limit), !.stopped = TRUE]

Page(q) ==
  LET scan[i \in 0 .. Len(Records)] == IF i = 0 THEN Start ELSE Visit(q, scan[i - 1], i)
      scanned == scan[Len(Records)]
      ended == DrainPreroll(q, scanned)
  IN  IF scanned.stopped THEN [frames |-> scanned.frames, hasMore |-> TRUE]
      ELSE [frames |-> ended.frames, hasMore |-> ended.dropped > 0]

-----------------------------------------------------------------------------
(* What the pages after a seek add up to: as much of the pre-roll as was   *)
(* asked for and fitted the first page, and the records of the range, each *)
(* from the first on.                                                      *)

LiveFrames(seek) == {i \in DOMAIN Records : Records[i].at \in seek .. Until}

(* The pre-roll, as far as the first n records show it: the latest snapshot *)
(* of those before the watermark and the depth records that follow it.     *)
PreRollWithin(seek, n) ==
  LET before == {i \in 1 .. n : \A j \in 1 .. i : Records[j].at < seek}
      latest == {a \in before : /\ Records[a].stream = "snapshot"
                               /\ \A b \in before : b > a => Records[b].stream # "snapshot"}
      depth == {d \in before : Records[d].stream = "depth" /\ \E a \in latest : a < d}
  IN  latest \cup {d \in depth : Cardinality({e \in depth : e <= d}) <= MaxPreRoll}
PreRollFrames(seek) == PreRollWithin(seek, Len(Records))

(* Of the whole, the part has everything up to its last element. *)
Leads(part, whole) == \A i \in part \cap whole, j \in whole : j < i => j \in part

(* Of what lies before the watermark a client gets what it can apply: a    *)
(* snapshot, and a depth record only after its snapshot and the depth      *)
(* records between the two.                                                *)
PreRolled(d, frames, seek) ==
  /\ Records[d].at < seek
  /\ \/ Records[d].stream = "snapshot"
     \/ /\ Records[d].stream = "depth"
        /\ \E a \in frames :
             /\ a < d /\ Records[a].stream = "snapshot" /\ Records[a].at < seek
             /\ \A k \in (a + 1) .. (d - 1) : Records[k].at < seek =>
                  Records[k].stream # "snapshot" /\ (Records[k].stream = "depth" => k \in frames)

(* No live frame is passed over, and what is no live frame is pre-roll.    *)
Gapless(frames, seek) ==
  /\ \A i \in frames, j \in LiveFrames(seek) : j < i => j \in frames
  /\ \A d \in frames \ LiveFrames(seek) : PreRolled(d, frames, seek)

(* Which pre-roll is only fixed if the clock does not step back before a   *)
(* snapshot, nor from past the end of the range.                           *)
SteadyClock ==
  \A i, j \in DOMAIN Records : i < j =>
    /\ Records[j].stream = "snapshot" => Records[i].at <= Records[j].at
    /\ Records[i].at > Until => Records[j].at > Until

(* The frames of the pages, for any capture. *)
Delivers(frames, seek) ==
  /\ \A i, j \in DOMAIN frames : i < j => frames[i] < frames[j]
  /\ Gapless(Range(frames), seek)
  /\ SteadyClock =>
       /\ Range(frames) \subseteq PreRollFrames(seek) \cup LiveFrames(seek)
       /\ Leads(Range(frames), PreRollFrames(seek))
=============================================================================
