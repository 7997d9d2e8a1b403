-------------------------- MODULE MCReplaySessions --------------------------
(* A capture with everything a page tells apart: a pre-roll of two, a      *)
(* trade, a record of a clock that stepped back and one past the range.    *)
EXTENDS ReplaySessions

MCRecords == <<[stream |-> "snapshot", at |-> 0], [stream |-> "depth", at |-> 0],
               [stream |-> "trade", at |-> 1], [stream |-> "depth", at |-> 0],
               [stream |-> "depth", at |-> 2]>>

(* The run's capture is one whose pre-roll SpeedInvariant fixes. *)
ASSUME ClockIsSteady == SteadyClock

(* Of any capture, its clock steady or not, two pages after a seek are what *)
(* SpeedInvariant says, with and without a pre-roll, of which one record   *)
(* after the snapshot is kept.                                             *)
Capture(records) == INSTANCE ReplaySource WITH Records <- records, MaxPreRoll <- 1

Captures == [1 .. 4 -> [stream : {"snapshot", "depth", "trade"}, at : {0, 1, 2}]]

ASSUME PagesOfAnyCapture ==
  \A records \in Captures, limit \in {2, 4}, preRoll \in BOOLEAN, through \in {0, 1} :
    LET next(cursor, until) ==
          Capture(records)!Page(
            [after |-> cursor, startAt |-> 1, through |-> until, limit |-> limit,
             includePreRoll |-> preRoll /\ cursor = 0]).frames
        first == next(0, through)
        both == first \o next(IF first = <<>> THEN 0 ELSE Last(first), 1)
    IN  Capture(records)!Delivers(first, 1) /\ Capture(records)!Delivers(both, 1)

(* docs/phase-2/replay-contract.md:28 says the checksum is invariant to    *)
(* the size of the page.  It is not: with a limit of 1 the first page      *)
(* emits the snapshot only, and the page after it goes on with the live    *)
(* frames, past the rest of the pre-roll; with a limit of 3 nothing is     *)
(* lost.                                                                   *)
First(limit) ==
  Page([after |-> 0, startAt |-> 1, through |-> 1, limit |-> limit, includePreRoll |-> TRUE])
Second(limit) ==
  Page([after |-> Last(First(limit).frames), startAt |-> 1, through |-> 1, limit |-> limit,
        includePreRoll |-> FALSE])
ASSUME PageSizeMatters ==
  /\ PreRollFrames(1) = {1, 2}
  /\ First(1) = [frames |-> <<1>>, hasMore |-> TRUE] /\ Second(1).frames = <<3>>
  /\ First(3).frames = <<1, 2, 3>>
=============================================================================
