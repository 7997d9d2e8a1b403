---------------------------- MODULE Observability ----------------------------
(***************************************************************************)
(* server/observability: the metric series, the sampler that turns the     *)
(* counters of the attached gateway into series, incidents and operational *)
(* alerts once per interval, and the exporter of finished spans.           *)
(* Everything is a function of the record Fresh describes; a reading is    *)
(* what one sample sees of the gateway and of the process.  The text of    *)
(* the exposition, the log lines and the process gauges are left out.      *)
(***************************************************************************)
EXTENDS Integers, SequencesExt

CONSTANTS
  MaxIncidents,       \* maxIncidents
  MaxRecent,          \* maxRecentEvents
  MemoryWarn, MemoryCritical,  \* heap ratios, in percent
  SecondsPerError,    \* 1 / httpErrorRatePerSecond
  StormThreshold,     \* resyncStormThreshold
  Buckets,            \* the bounds of a histogram, increasing
  MaxBufferedSpans

(* The series of a family are a function from label values to readings; a  *)
(* set of labels is its own key, whatever order a call site wrote it in.   *)
Peek(series, labels) == IF labels \in DOMAIN series THEN series[labels] ELSE 0

SetTo(series, labels, v) == (labels :> v) @@ series

Inc(series, labels, v) == SetTo(series, labels, Peek(series, labels) + v)

(* bucketIndex(): a value equal to a bound counts at that bound, though    *)
(* the comment of metrics.ts:112 says the upper bucket.                    *)
BucketIndex(v) == Min({i \in DOMAIN Buckets : v <= Buckets[i]} \cup {Len(Buckets) + 1})

EmptyHistogram == [buckets |-> [i \in DOMAIN Buckets |-> 0], sum |-> 0, count |-> 0]

Observe(h, v) ==
  [buckets |-> [i \in DOMAIN Buckets |-> h.buckets[i] + (IF i >= BucketIndex(v) THEN 1 ELSE 0)],
   sum |-> h.sum + v, count |-> h.count + 1]

(* push(), then shift() of what exceeds the limit. *)
Kept(s, x, limit) == IF Len(s) = limit THEN Append(Tail(s), x) ELSE Append(s, x)

-----------------------------------------------------------------------------
(* The sampler *)

Kinds == {"sequence_gap", "duplicate", "out_of_order", "malformed", "crossed_book",
          "resync", "queue_overflow"}

Rules == {"stale_feed", "sequence_gap", "recovery_loop", "http_error_rate", "memory_pressure"}

(* createMarketObservability() at time now. *)
Fresh(now) ==
  [totals |-> [k \in Kinds |-> 0], counted |-> <<>>, incidents |-> <<>>,
   staleSince |-> {}, resyncSince |-> {},
   stale |-> EmptyHistogram, resync |-> EmptyHistogram,
   errors |-> 0, gaps |-> 0, resyncs |-> 0, sampledAt |-> now,
   active |-> {}, recent |-> <<>>, fired |-> <<>>]

RecordIncident(o, kind) == [o EXCEPT !.incidents = Kept(@, kind, MaxIncidents)]

(* recordHttpRequest() *)
RecordHttpRequest(o, route, status) ==
  LET counted == [o EXCEPT !.counted = Inc(@, <<"http", route, status>>, 1)]
  IN  IF status < 500 THEN counted
      ELSE [counted EXCEPT !.counted = Inc(@, <<"httpErrors", route>>, 1), !.errors = @ + 1]

ClientTier(bytes) ==
  IF bytes > 1048576 THEN "overloaded" ELSE IF bytes > 262144 THEN "high" ELSE "normal"

(* recordDroppedFrame(): another incident of the kind the sampler uses for *)
(* the overflows of the gateway.                                           *)
RecordDroppedFrame(o, reason) ==
  RecordIncident([o EXCEPT !.counted = Inc(@, <<"drop", reason>>, 1)], "queue_overflow")

(* diffAndApplyCounters(): what rose since the last sample, under the      *)
(* labels of the gateway attached now.                                     *)
Delta(o, reading, kind) == reading.counters[kind] - o.totals[kind]

CountOne(o, reading, kind) ==
  LET d == Delta(o, reading, kind)
      counted == [o EXCEPT !.counted = Inc(@, <<kind, reading.symbol>>, d)]
  IN  IF d <= 0 THEN o
      ELSE RecordIncident(
             CASE kind = "sequence_gap" -> [counted EXCEPT !.gaps = @ + d]
               [] kind = "resync" ->
                    [counted EXCEPT !.resyncs = @ + d,
                       !.resyncSince = IF @ = {} THEN {reading.now} ELSE @]
               [] OTHER -> counted,
             kind)

DiffAndApplyCounters(o, reading) ==
  LET all == FoldLeft(LAMBDA acc, kind : CountOne(acc, reading, kind), o,
               <<"sequence_gap", "duplicate", "out_of_order", "malformed", "crossed_book",
                 "resync", "queue_overflow">>)
  IN  [all EXCEPT !.totals = reading.counters]

Since(start, now) == Max({0, now - start})

(* trackStaleAndResyncDuration() *)
Recovered(o, now) ==
  LET measured ==
        IF o.staleSince = {} THEN o
        ELSE RecordIncident(
               [o EXCEPT !.stale = Observe(@, Since(Min(o.staleSince), now)), !.staleSince = {}],
               "recovered")
  IN  IF o.resyncSince = {} THEN measured
      ELSE [measured EXCEPT !.resync = Observe(@, Since(Min(o.resyncSince), now)),
                            !.resyncSince = {}]

TrackStaleAndResyncDuration(o, reading) ==
  IF reading.valid THEN Recovered(o, reading.now)
  ELSE [o EXCEPT !.staleSince = IF @ = {} THEN {reading.now} ELSE @]

(* transition(): an event only where the rule changes.                     *)
Transition(o, rule, condition) ==
  LET event == [rule |-> rule, active |-> condition]
  IN  IF condition = (rule \in o.active) THEN o
      ELSE [o EXCEPT !.active = IF condition THEN @ \cup {rule} ELSE @ \ {rule},
                     !.recent = Kept(@, event, MaxRecent), !.fired = Append(@, event)]

(* evaluate(): one transition per rule, and a second one for the memory    *)
(* rule between its two thresholds.                                        *)
StaleMs(o, now) == {Since(s, now) : s \in o.staleSince}

Condition(o, reading, rule) ==
  LET elapsed == Max({1, reading.now - o.sampledAt})
  IN  CASE rule = "stale_feed" -> \E ms \in StaleMs(o, reading.now) : ms > reading.staleAfterMs
        [] rule = "sequence_gap" -> o.gaps > 0
        [] rule = "recovery_loop" -> o.resyncs >= StormThreshold
        [] rule = "http_error_rate" -> o.errors * SecondsPerError * 1000 >= elapsed
        [] rule = "memory_pressure" -> reading.memory >= MemoryCritical

Evaluate(o, reading) ==
  LET each == FoldLeft(LAMBDA acc, rule : Transition(acc, rule, Condition(o, reading, rule)),
                [o EXCEPT !.fired = <<>>],
                <<"stale_feed", "sequence_gap", "recovery_loop", "http_error_rate",
                  "memory_pressure">>)
  IN  IF reading.memory \in MemoryWarn .. MemoryCritical - 1
      THEN Transition(each, "memory_pressure", TRUE) ELSE each

(* evaluateAlerts(): the emitted events are counted, the window starts anew. *)
EvaluateAlerts(o, reading) ==
  LET evaluated == Evaluate(o, reading)
      counted == FoldLeft(LAMBDA acc, event : Inc(acc, <<"alert", event.rule>>, 1),
                   evaluated.counted, evaluated.fired)
  IN  [evaluated EXCEPT !.counted = counted, !.errors = 0, !.gaps = 0, !.resyncs = 0,
                        !.sampledAt = reading.now]

(* sampleOnce(), and the same with no gateway attached (attachGateway).    *)
SampleOnce(o, reading) ==
  EvaluateAlerts(TrackStaleAndResyncDuration(DiffAndApplyCounters(o, reading), reading), reading)

SampleDetached(o, reading) == EvaluateAlerts(o, reading)

Reset(o) == [o EXCEPT !.active = {}, !.recent = <<>>]

-----------------------------------------------------------------------------
(* The exporter of spans *)

NoSpans == [buffered |-> <<>>, exporting |-> <<>>, busy |-> FALSE, sent |-> <<>>, lost |-> {}]

(* flush(): one request at a time takes the whole buffer. *)
Flush(t) ==
  IF t.busy \/ t.buffered = <<>> THEN t
  ELSE [t EXCEPT !.busy = TRUE, !.exporting = t.buffered, !.buffered = <<>>]

(* end() and retain(), with an endpoint: the oldest makes room. *)
EndSpan(t, span) ==
  LET full == Len(t.buffered) >= MaxBufferedSpans
      room == IF full THEN [t EXCEPT !.buffered = Tail(@), !.lost = @ \cup {Head(t.buffered)}]
              ELSE t
  IN  Flush([room EXCEPT !.buffered = Append(@, span)])

(* The request settles: what it carried is sent or given up, and whatever  *)
(* was finished meanwhile stays in the buffer until the next end().        *)
Exported(t) == [t EXCEPT !.busy = FALSE, !.exporting = <<>>, !.sent = @ \o t.exporting]

ExportFailed(t) ==
  [t EXCEPT !.busy = FALSE, !.exporting = <<>>,
            !.lost = @ \cup {t.exporting[i] : i \in DOMAIN t.exporting}]
=============================================================================
