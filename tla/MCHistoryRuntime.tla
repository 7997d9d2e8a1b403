-------------------------- MODULE MCHistoryRuntime --------------------------
(* HistoryRuntime with records of one and two bytes: batches are cut by    *)
(* count and by bytes, and the queue fills up by either.                   *)
(* The laws that follow are those of the store that may replace the files, *)
(* with frames of one, two and four seconds for those of one, five and     *)
(* sixty: over every batch and every pair of faults, and over every        *)
(* history of three rounds.                                                *)
EXTENDS HistoryRuntime, SequencesExt, FiniteSetsExt, TLC

CONSTANTS small, large

MCSize == (small :> 1) @@ (large :> 2)

-----------------------------------------------------------------------------
LOCAL Ch == INSTANCE ClickHouseStore WITH Resolutions <- {1, 2, 4}, PageRows <- 3
LOCAL ClickHouse == Ch!Empty("clickhouse")
LOCAL Files == Ch!Empty("files")

LOCAL Row(kind, n) ==
  [kind |-> kind, captureId |-> 1, captureSequence |-> n, exchangeTimestamp |-> n - 1,
   intervalStart |-> n - 1, resolution |-> 1, volume |-> 2 ^ (n - 1)]
LOCAL Times(rows, r) == Cardinality({i \in DOMAIN rows : rows[i] = r})

(* Whatever fails on the way, a batch that was taken is stored whole; a    *)
(* record is there once more for every failed attempt that carried its     *)
(* statement out (the tables have no key to refuse it,                     *)
(* migrations/clickhouse/0001_history_v1.sql).                             *)
LOCAL Batches ==
  {<<Row(k, 1), Row(l, 2), Row(m, 3)>> : k, l, m \in {"trade", "depth_delta", "metric_frame"}}
LOCAL Faults == [statement : 1 .. 3, applied : BOOLEAN]
LOCAL Place(sent, r) == CHOOSE i \in DOMAIN Ch!KindsOf(sent) : Ch!KindsOf(sent)[i] = r.kind
ASSUME AppendsAreAtLeastOnce ==
  \A sent \in Batches :
    \A faults \in {<<>>} \cup {<<f>> : f \in Faults} \cup (Faults \X Faults) :
      (\A i \in DOMAIN faults : faults[i].statement <= Len(Ch!KindsOf(sent))) =>
        \A rows \in {Ch!Retried(ClickHouse, sent, faults).rows} : \A i \in DOMAIN sent :
          Times(rows, sent[i]) = 1 + Cardinality({n \in DOMAIN faults :
            \/ Place(sent, sent[i]) < faults[n].statement
            \/ Place(sent, sent[i]) = faults[n].statement /\ faults[n].applied})

(* Following the cursors shows every record of the range in order, however *)
(* small the pages; what is stored twice is shown once or twice.           *)
LOCAL Stores ==
  {[ClickHouse EXCEPT !.rows = rows] : rows \in [1 .. 4 -> {Row("metric_frame", n) : n \in 1 .. 4}]}
LOCAL Asked(from, to, resolution, limit) ==
  [kinds |-> {"metric_frame"}, captureId |-> 1, resolution |-> resolution, from |-> from,
   to |-> to, after |-> {}, limit |-> limit]
ASSUME PagesShowEveryRecord ==
  \A store \in Stores : \A from \in 0 .. 2, to \in 2 .. 4, limit \in 1 .. 3 :
    \A pages \in {Ch!AllPages(store, Asked(from, to, 1, limit))} :
      LET wanted == {r \in ToSet(store.rows) : r.exchangeTimestamp \in from .. to - 1}
      IN  /\ ToSet(pages) = wanted
          /\ \A r \in wanted : Times(pages, r) <= Times(store.rows, r)
          /\ \A i \in 2 .. Len(pages) : ~Ch!KeyLess(pages[i], pages[i - 1])

(* "3 * 365" days of minutes (clickHouseHistoryStore.ts:336): every frame  *)
(* is gone with the shortest of the ages.                                  *)
LOCAL Policy == [trade |-> 1, snapshot |-> 1, delta |-> 1,
                 frames |-> (1 :> 2 @@ 2 :> 3 @@ 4 :> 6)]
LOCAL OfResolution(store) ==
  [store EXCEPT !.rows = [i \in DOMAIN @ |-> [@[i] EXCEPT !.resolution = 2 ^ (i % 3)]]]
ASSUME RetentionTakesTheShortestAge ==
  \A store \in {OfResolution(s) : s \in Stores} : \A now \in 2 .. 8 :
    ToSet(Ch!RunRetention(store, Policy, now).rows)
      = {r \in ToSet(store.rows) : r.exchangeTimestamp >= now - 2}

(* A restore adds as many rows as were backed up to those that are there,  *)
(* and none of them at its time: the backup calls the times by other names *)
(* than the table, and what an INSERT does not name has its default.       *)
ASSUME RestoredRowsHaveNoTime ==
  \A store \in Stores :
    \A restored \in {Ch!RestoreBackup(store, Ch!CreateBackup(store))} :
      LET Stamped(s) == Ch!Page(s, Asked(1, 9, 1, 9)).records
      IN  /\ Len(restored.rows) = 2 * Len(store.rows)
          /\ Stamped(restored) = Stamped(store)

(* A history is what each of three rounds does: seconds are recorded, the  *)
(* first of them perhaps not (a late tick records the last full second     *)
(* only, marketGateway.ts:836), then the two jobs run, one of which a crash*)
(* may cut short (queueDownsample).                                        *)
LOCAL Rounds ==
  [frames : {0, 1, 4}, skip : BOOLEAN, crash : {"none", "first", "second"}]
LOCAL Job(source, target) == [captureId |-> 1, source |-> source, target |-> target]
LOCAL Round(held, round) ==
  LET skipped == IF round.skip THEN 1 ELSE 0
      upTo == held.frames + skipped + round.frames
      new == [i \in 1 .. round.frames |-> Row("metric_frame", held.frames + skipped + i)]
      recorded == Ch!AppendBatch(held.store, new, Ch!NoFault).store
      Crash(which) == IF round.crash = which THEN "append" ELSE "none"
      first == Ch!DownsampleRun(recorded, Job(1, 2), 0, upTo, Crash("first"))
      goesOn == first.outcome \in {"done", "nothing"}
      second == IF ~goesOn THEN [first EXCEPT !.outcome = "none"]
                ELSE Ch!DownsampleRun(first.store, Job(2, 4), 0, upTo, Crash("second"))
  IN  [store |-> second.store, frames |-> upTo, first |-> first.outcome,
       second |-> second.outcome]
LOCAL Histories == [1 .. 3 -> Rounds]
LOCAL After(empty, h, n) ==
  FoldLeft(LAMBDA held, i : Round(held, h[i]),
           [store |-> empty, frames |-> 0, first |-> "nothing", second |-> "nothing"],
           [i \in 1 .. n |-> i])
LOCAL RollupsOf(held, resolution) ==
  SelectSeq(held.store.rows, LAMBDA r : r.resolution = resolution)
LOCAL Summed(from, to) == 2 ^ to - 2 ^ from
LOCAL Seconds(held) == {r.intervalStart : r \in ToSet(RollupsOf(held, 1))}
LOCAL Whole(held, width) ==
  {t \in 0 .. held.frames - width : t % width = 0 /\ 0 .. t + width - 1 \subseteq Seconds(held)}

(* Over files, once a round has run to its end every bucket is rolled up   *)
(* once, from the seconds to the minutes, and sums the seconds it stands   *)
(* for, whatever crashed before (downsampleWorker.ts:49, "Restart-safe and *)
(* idempotent") -- up to the first second that was not recorded, and never *)
(* beyond it: an incomplete bucket ends every later run (:117).            *)
ASSUME RollupsSurviveCrashes ==
  \A h \in Histories : h[3].crash = "none" =>
    \A held \in {After(Files, h, 3)} : \A width \in {2, 4} :
      \A rollups \in {RollupsOf(held, width)} :
        /\ Len(rollups) = Cardinality(Whole(held, width))
        /\ {rollups[i].intervalStart : i \in DOMAIN rollups} = Whole(held, width)
        /\ \A i \in DOMAIN rollups :
             LET t == rollups[i].intervalStart IN rollups[i].volume = Summed(t, t + width)

(* Over ClickHouse, where a query of one resolution answers with all, no   *)
(* minute is ever rolled up: the seconds of the same time are in conflict  *)
(* with the frames to sum; and after a crash between append and checkpoint *)
(* nothing is rolled up again (the case downsampleWorker.ts:51 covers).    *)
ASSUME MinutesNeverComeOnClickHouse ==
  /\ \E h \in Histories : After(ClickHouse, h, 1).first = "crash"
  /\ \A h \in {h \in Histories : \A i \in 1 .. 3 : ~h[i].skip} :
       \A held \in {After(ClickHouse, h, 3)} :
         /\ RollupsOf(held, 4) = <<>> /\ held.second # "done"
         /\ held.frames >= 4 /\ (\A i \in 1 .. 3 : h[i].crash # "first")
              => /\ held.second = "conflict"
                 /\ Len(RollupsOf(held, 2)) = held.frames \div 2
         /\ \A n \in 1 .. 2 : \A before \in {After(ClickHouse, h, n)} :
              before.first = "crash" =>
                /\ held.first = "conflict"
                /\ RollupsOf(held, 2) = RollupsOf(before, 2)

(* And whoever asks for the seconds gets the volume twice.                 *)
ASSUME AnswersMixResolutions ==
  \A seconds \in {2, 4, 6} :
    LET history == [i \in 1 .. 3 |-> [frames |-> IF i = 1 THEN seconds ELSE 0,
                                      skip |-> FALSE, crash |-> "none"]]
        Volume(empty) ==
          FoldLeft(LAMBDA sum, r : sum + r.volume, 0,
                   Ch!Page(After(empty, history, 1).store, Asked(0, 9, 1, 99)).records)
    IN  /\ Volume(Files) = Summed(0, seconds)
        /\ Volume(ClickHouse) = 2 * Summed(0, seconds)
=============================================================================
