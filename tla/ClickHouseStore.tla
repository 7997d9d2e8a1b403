--------------------------- MODULE ClickHouseStore ---------------------------
(***************************************************************************)
(* History in ClickHouse: storage/clickHouseHistoryStore.ts, and the       *)
(* roll-up of storage/downsampleWorker.ts over it or over files.           *)
(*                                                                         *)
(* The tables are MergeTree tables without a key that rejects: what is     *)
(* inserted twice is there twice.  A statement may fail, and one that fails*)
(* may have been carried out (a timeout, an answer lost).  One sequence of *)
(* rows stands for the four tables, each holding the rows of its kind.     *)
(***************************************************************************)
EXTENDS Integers, SequencesExt, FiniteSetsExt, TLC

CONSTANTS
  Resolutions,   \* HISTORY_RESOLUTIONS_MS, each a multiple of the one before
  PageRows       \* pageRows of the worker

Empty(backend) ==
  [backend |-> backend, rows |-> <<>>, checkpoints |-> [target \in Resolutions |-> {}]]

(* appendBatch(): one INSERT per kind, in the order the kinds come up. A   *)
(* fault names the statement that fails and whether it was carried out.    *)
KindsOf(records) ==
  FoldLeft(LAMBDA kinds, r : kinds \o (IF Contains(kinds, r.kind) THEN <<>> ELSE <<r.kind>>),
           <<>>, records)
NoFault == [statement |-> 0, applied |-> FALSE]
AppendBatch(store, records, fault) ==
  LET kinds == KindsOf(records)
      failing == fault.statement \in DOMAIN kinds
      applied == IF ~failing THEN Len(kinds)
                 ELSE fault.statement - (IF fault.applied THEN 0 ELSE 1)
      Inserted(kind) == SelectSeq(records, LAMBDA r : r.kind = kind)
      rows == FoldLeft(LAMBDA done, kind : done \o Inserted(kind), store.rows,
                       SubSeq(kinds, 1, applied))
  IN  [store |-> [store EXCEPT !.rows = rows], ok |-> ~failing]
(* The writer retries a failed batch whole.                                *)
Retried(store, records, faults) ==
  LET failed == FoldLeft(LAMBDA s, fault : AppendBatch(s, records, fault).store, store, faults)
  IN  AppendBatch(failed, records, NoFault).store

(* query(): the range, the kinds and the cursor; not the capture, and not  *)
(* the resolution that were asked for.                                     *)
KeyLess(a, b) ==
  \/ a.exchangeTimestamp < b.exchangeTimestamp
  \/ /\ a.exchangeTimestamp = b.exchangeTimestamp
     /\ \/ a.captureId < b.captureId
        \/ a.captureId = b.captureId /\ a.captureSequence < b.captureSequence
Cursor(r) == [exchangeTimestamp |-> r.exchangeTimestamp, captureId |-> r.captureId,
              captureSequence |-> r.captureSequence]
Matches(q, r) ==
  /\ r.kind \in q.kinds
  /\ q.from <= r.exchangeTimestamp /\ r.exchangeTimestamp < q.to
  /\ \A cursor \in q.after : KeyLess(cursor, r)
(* The store of files reads what was asked for (external to this store).   *)
FilesMatch(q, r) ==
  /\ Matches(q, r) /\ r.captureId = q.captureId
  /\ r.kind = "metric_frame" => r.resolution = q.resolution
Answers(store, q, r) ==
  IF store.backend = "files" THEN FilesMatch(q, r) ELSE Matches(q, r)
Page(store, q) ==
  LET rows == store.rows
      places == [i \in DOMAIN rows |-> i]
      found == SortSeq(SelectSeq(places, LAMBDA i : Answers(store, q, rows[i])),
                 LAMBDA i, j : \/ KeyLess(rows[i], rows[j])
                               \/ ~KeyLess(rows[j], rows[i]) /\ i < j)
      size == Min({q.limit, Len(found)})
  IN  [records |-> [n \in 1 .. size |-> rows[found[n]]],
       truncated |-> Len(found) > q.limit,
       next |-> IF size = 0 THEN {} ELSE {Cursor(rows[found[size]])}]
(* A caller that follows the cursors until a page is not truncated.        *)
AllPages(store, q) ==
  FoldLeft(LAMBDA read, n :
             IF ~read.more THEN read
             ELSE LET page == Page(store, [q EXCEPT !.after = read.after])
                  IN  [records |-> read.records \o page.records, after |-> page.next,
                       more |-> page.truncated],
           [records |-> <<>>, after |-> {}, more |-> TRUE],
           [n \in 1 .. Len(store.rows) + 1 |-> n]).records

(* runRetention(): every resolution's age is applied to the whole table of *)
(* frames.                                                                 *)
Targets(policy) ==
  {<<"trade", policy.trade>>, <<"depth_snapshot", policy.snapshot>>,
   <<"depth_delta", policy.delta>>}
  \cup {<<"metric_frame", policy.frames[resolution]>> : resolution \in Resolutions}
RunRetention(store, policy, now) ==
  [store EXCEPT !.rows =
     SelectSeq(@, LAMBDA r : \A target \in Targets(policy) :
                  target[1] = r.kind => r.exchangeTimestamp >= now - target[2])]

(* What an INSERT names, and what a SELECT calls it.                       *)
BaseColumns == {"schema_version", "exchange", "symbol", "capture_id", "capture_sequence"}
OwnColumns ==
  [trade |-> {"trade_id", "price_ticks", "tick_size", "quantity", "side"},
   depth_snapshot |-> {"last_update_id", "tick_size", "bids_price_ticks", "bids_quantity",
                       "asks_price_ticks", "asks_quantity", "state_fingerprint"},
   depth_delta |-> {"sequence_start", "sequence_end", "previous_sequence", "tick_size",
                    "bids_price_ticks", "bids_quantity", "asks_price_ticks",
                    "asks_quantity"},
   metric_frame |-> {"resolution_ms", "interval_buy_volume", "interval_sell_volume",
                     "interval_trade_count", "last_price", "best_bid", "best_ask", "spread",
                     "delta", "cvd", "buy_volume", "sell_volume", "buy_sell_ratio",
                     "imbalance", "trade_rate", "volume_ratio", "momentum_short", "momentum_medium",
                     "latency_ms", "stale", "trend_direction", "trend_score",
                     "trend_confidence", "trend_active", "trend_strength", "trend_reasons",
                     "book_fingerprint", "analytics_fingerprint"}]
OnlyFrames(kind, columns) == IF kind = "metric_frame" THEN columns ELSE {}
InsertColumns(kind) ==
  BaseColumns \cup OwnColumns[kind] \cup {"exchange_timestamp", "received_timestamp"}
  \cup OnlyFrames(kind, {"interval_start", "interval_end", "trend_since"})
SelectedColumns(kind) ==
  BaseColumns \cup OwnColumns[kind] \cup {"exchange_ts_ms", "received_ms"}
  \cup OnlyFrames(kind, {"interval_start_ms", "interval_end_ms", "trend_since_ms"})

(* A backup holds rows as they are selected; they are inserted again as    *)
(* they are, beside what is there, and a column they do not name has its   *)
(* default.                                                                *)
CreateBackup(store) == store.rows
Restored(r) ==
  LET Kept(column, value) ==
        IF column \in InsertColumns(r.kind) \cap SelectedColumns(r.kind) THEN value ELSE 0
  IN  [r EXCEPT !.exchangeTimestamp = Kept("exchange_timestamp", @),
                !.intervalStart = Kept("interval_start", @)]
RestoreBackup(store, backup) ==
  [store EXCEPT !.rows = @ \o [i \in DOMAIN backup |-> Restored(backup[i])]]

(* The roll-up of a capture from one resolution to the next.               *)
BucketOf(r, job) == (r.intervalStart \div job.target) * job.target
FetchMetricFrames(store, job, from, to, resolution) ==
  ToSet(AllPages(store,
    [kinds |-> {"metric_frame"}, captureId |-> job.captureId, resolution |-> resolution,
     from |-> from, to |-> to, after |-> {}, limit |-> PageRows]))
Conflicting(frames) ==
  \E a, b \in frames : a # b /\ a.intervalStart = b.intervalStart
(* downsampleMetricFrames() takes frames of one lower resolution only.     *)
Mixed(frames, job) ==
  \/ Cardinality({f.resolution : f \in frames}) > 1
  \/ \E f \in frames : f.resolution >= job.target \/ job.target % f.resolution # 0
IsCompleteBucket(frames, bucket, job) ==
  {f.intervalStart : f \in {f \in frames : BucketOf(f, job) = bucket}}
    = {bucket + i * job.source : i \in 0 .. job.target \div job.source - 1}
(* downsampleMetricFrames() of one bucket: intervals add up, and what rolls*)
(* is that of the last frame.                                              *)
Latest(frames) ==
  CHOOSE f \in frames : \A g \in frames :
    \/ g.exchangeTimestamp < f.exchangeTimestamp
    \/ g.exchangeTimestamp = f.exchangeTimestamp /\ g.captureSequence <= f.captureSequence
RolledUp(frames, bucket, job) ==
  [Latest(frames) EXCEPT !.exchangeTimestamp = bucket, !.intervalStart = bucket,
     !.captureSequence = Max({f.captureSequence : f \in frames}),
     !.resolution = job.target, !.volume = MapThenSumSet(LAMBDA f : f.volume, frames)]
TargetIdentity(r) == <<r.captureId, r.resolution, r.intervalStart>>

(* One run of the worker over a range within one window, up to the first   *)
(* bucket that is not complete; to is what has settled. crash = "append":  *)
(* the process dies after the append and before the checkpoint.            *)
DownsampleRun(store, job, from, to, crash) ==
  LET Aligned(t) == ((t + job.target - 1) \div job.target) * job.target
      cursor == Max({Aligned(from)} \cup store.checkpoints[job.target])
      safeTo == (to \div job.target) * job.target
      source == FetchMetricFrames(store, job, cursor, safeTo, job.source)
      buckets == {b \in cursor .. safeTo - 1 : b % job.target = 0}
      complete == {b \in buckets : \A c \in buckets :
                     c <= b => IsCompleteBucket(source, c, job)}
      through == IF complete = {} THEN cursor ELSE Max(complete) + job.target
      Of(b) == {f \in source : BucketOf(f, job) = b}
      aggregates == [i \in 1 .. Cardinality(complete) |->
                       LET b == cursor + (i - 1) * job.target IN RolledUp(Of(b), b, job)]
      existing == FetchMetricFrames(store, job, cursor, through, job.target)
      missing == SelectSeq(aggregates, LAMBDA r :
                    TargetIdentity(r) \notin {TargetIdentity(e) : e \in existing})
      appended == AppendBatch(store, missing, NoFault).store
      Unchanged(outcome) == [store |-> store, outcome |-> outcome]
  IN  IF Conflicting(source) THEN Unchanged("conflict")
      ELSE IF complete = {} THEN Unchanged("nothing")
      ELSE IF Mixed(UNION {Of(b) : b \in complete}, job) THEN Unchanged("mixed")
      ELSE IF crash = "append" THEN [store |-> appended, outcome |-> "crash"]
      ELSE [store |-> [appended EXCEPT !.checkpoints[job.target] = {through}],
            outcome |-> "done"]
==============================================================================
