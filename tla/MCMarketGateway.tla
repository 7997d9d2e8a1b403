--------------------------- MODULE MCMarketGateway ---------------------------
(* MarketGateway over one tick, where books differ by their quantity; the  *)
(* second change number belongs to another stream of the exchange.         *)
EXTENDS MarketGateway, FiniteSetsExt

MCTruth == [n \in 0 .. 3 |-> [bids |-> 1 :> IF n = 2 THEN 1 ELSE n, asks |-> 1 :> 0]]
MCDemoTruth == [p \in {0, 1} |-> [bids |-> 1 :> 0, asks |-> 1 :> 5 + p]]

-----------------------------------------------------------------------------
(* The laws of the observability service, over short histories of samples  *)
(* one second apart and of spans finished while an export is under way.    *)

LOCAL Obs == INSTANCE Observability WITH
  MaxIncidents <- 3, MaxRecent <- 4, MemoryWarn <- 80, MemoryCritical <- 90,
  SecondsPerError <- 2, StormThreshold <- 2, Buckets <- <<1, 5, 1000>>, MaxBufferedSpans <- 2

(* One second: what the gateway counts, whether its data is valid at the   *)
(* end, the heap ratio, and whether a request failed.                      *)
LOCAL Nothing == [k \in Obs!Kinds |-> 0]
LOCAL Counts == {Nothing, [Nothing EXCEPT !["sequence_gap"] = 1, !["resync"] = 1],
                 [Nothing EXCEPT !["resync"] = 2]}
LOCAL Seconds == [counts : Counts, valid : BOOLEAN, memory : {10}, failed : {FALSE}]
                 \cup [counts : {Nothing}, valid : BOOLEAN, memory : {85, 95}, failed : {FALSE}]
                 \cup [counts : {Nothing}, valid : {TRUE}, memory : {10, 85}, failed : {TRUE}]
LOCAL Histories == UNION {[1 .. n -> Seconds] : n \in 1 .. 3}

LOCAL Counter(h, n, k) == FoldLeft(LAMBDA sum, s : sum + s.counts[k], 0, SubSeq(h, 1, n))
LOCAL Reading(h, n) ==
  [now |-> 1000 * n, counters |-> [k \in Obs!Kinds |-> Counter(h, n, k)], valid |-> h[n].valid,
   memory |-> h[n].memory, symbol |-> "s", staleAfterMs |-> 500]
LOCAL Requested(o, second) ==
  IF second.failed THEN Obs!RecordHttpRequest(o, "r", 500)
  ELSE Obs!RecordHttpRequest(o, "r", 200)

(* The service at the start of a history and after each of its seconds.    *)
LOCAL Numbers(n) == [i \in 1 .. n |-> i]
LOCAL Run(h) ==
  FoldLeft(LAMBDA after, n :
             Append(after, Obs!SampleOnce(Requested(Last(after), h[n]), Reading(h, n))),
           <<Obs!Fresh(0)>>, Numbers(Len(h)))

(* However the events fall between the samples, each series ends at what   *)
(* the gateway counted, and a request is in the rate of one window.        *)
ASSUME SeriesCountOnce ==
  \A h \in Histories : \E o \in {Last(Run(h))} :
    /\ \A k \in Obs!Kinds : Obs!Peek(o.counted, <<k, "s">>) = Counter(h, Len(h), k)
    /\ Obs!Peek(o.counted, <<"httpErrors", "r">>) = Cardinality({n \in DOMAIN h : h[n].failed})
    /\ o.errors = 0

(* After a sample an alert is active exactly when its condition held in    *)
(* it, the memory alert from the warning ratio on.                         *)
ASSUME AlertsShowTheLastWindow ==
  \A h \in Histories : \E o \in {Last(Run(h))} :
    LET last == h[Len(h)]
    IN  /\ ("stale_feed" \in o.active) = (Len(h) > 1 /\ ~last.valid /\ ~h[Len(h) - 1].valid)
        /\ ("sequence_gap" \in o.active) = (last.counts["sequence_gap"] > 0)
        /\ ("recovery_loop" \in o.active) = (last.counts["resync"] >= 2)
        /\ ("http_error_rate" \in o.active) = last.failed
        /\ ("memory_pressure" \in o.active) = (last.memory >= 80)

(* A sample emits at most one event of a rule, and the events of a rule    *)
(* alternate, but for the memory alert: from the second sample between its *)
(* two ratios on, each resolves it and fires it again (alerts.ts:130).     *)
ASSUME OnlyTheMemoryAlertFlaps ==
  \A h \in Histories : \E after \in {Run(h)} : \A n \in DOMAIN h :
    \A rule \in Obs!Rules :
      LET events == SelectSeq(after[n + 1].fired, LAMBDA e : e.rule = rule)
          stays == rule \in after[n].active /\ rule \in after[n + 1].active
      IN  IF rule = "memory_pressure" /\ stays /\ h[n].memory = 85
          THEN [i \in DOMAIN events |-> events[i].active] = <<FALSE, TRUE>>
          ELSE Len(events) = IF (rule \in after[n + 1].active) = (rule \in after[n].active)
                             THEN 0 ELSE 1

(* The trail is bounded, and what rose in the last second is in it as far  *)
(* as the bound allows; a stale period, and the wait from the first resync *)
(* to valid data, are each measured once, sample to sample.                *)
LOCAL StaleRuns(h) ==
  {n \in DOMAIN h : ~h[n].valid /\ (n = 1 \/ h[n - 1].valid) /\ \E m \in n .. Len(h) : h[m].valid}
LOCAL Resync(h, n) == h[n].counts["resync"] > 0
LOCAL FirstResyncs(h) ==
  {n \in DOMAIN h : /\ Resync(h, n)
                    /\ ~\E m \in 1 .. n - 1 : Resync(h, m) /\ \A i \in m .. n - 1 : ~h[i].valid}
LOCAL ValidFrom(h, n) == {m \in n .. Len(h) : h[m].valid}
ASSUME IncidentsAreOnTheTrail ==
  \A h \in Histories : \E o \in {Last(Run(h))} :
    /\ Len(o.incidents) <= 3
    /\ \A k \in {"sequence_gap", "resync"} :
         h[Len(h)].counts[k] > 0 => k \in ToSet(o.incidents)
    /\ o.stale.count = Cardinality(StaleRuns(h))
    /\ o.stale.sum = 1000 * Cardinality({n \in DOMAIN h : ~h[n].valid
                                           /\ \E m \in n .. Len(h) : h[m].valid})
    /\ LET measured == {n \in FirstResyncs(h) : ValidFrom(h, n) # {}}
       IN  /\ o.resync.count = Cardinality(measured)
           /\ o.resync.sum = 1000 * MapThenSumSet(LAMBDA n : Min(ValidFrom(h, n)) - n, measured)

(* The buckets of a histogram are cumulative: each is what was observed up *)
(* to its bound.                                                           *)
LOCAL Values == {0, 1, 2, 5, 6, 1000, 1001}
ASSUME BucketsAreCumulative ==
  \A vs \in [1 .. 3 -> Values] :
    LET h == FoldLeft(LAMBDA acc, v : Obs!Observe(acc, v), Obs!EmptyHistogram, vs)
    IN  /\ \A i \in 1 .. 3 :
             h.buckets[i] = Cardinality({n \in 1 .. 3 : vs[n] <= <<1, 5, 1000>>[i]})
        /\ h.count = 3 /\ h.sum = vs[1] + vs[2] + vs[3]

(* A span is in one place, in the order the spans ended; the buffer is     *)
(* bounded; and with no export under way only what ended during the last   *)
(* one waits, for the next span that ends (tracing.ts:137).                *)
LOCAL SpanSteps == {"end", "ok", "failed"}
LOCAL SpanStep(t, step, n) ==
  CASE step = "end" -> Obs!EndSpan(t, n)
    [] step = "ok" /\ t.busy -> Obs!Exported(t)
    [] step = "failed" /\ t.busy -> Obs!ExportFailed(t)
    [] OTHER -> t
LOCAL Spans(steps) ==
  FoldLeft(LAMBDA t, n : SpanStep(t, steps[n], n), Obs!NoSpans, Numbers(Len(steps)))
ASSUME SpansAreSentOnceInOrder ==
  \A steps \in [1 .. 6 -> SpanSteps] : \E t \in {Spans(steps)} :
    LET line == t.sent \o t.exporting \o t.buffered
        ended == {n \in 1 .. 6 : steps[n] = "end"}
    IN  /\ ToSet(line) \cup t.lost = ended /\ ToSet(line) \cap t.lost = {}
        /\ \A i, j \in DOMAIN line : i < j => line[i] < line[j]
        /\ Len(t.buffered) <= 2
        /\ (steps[6] = "end" => t.busy) /\ (~t.busy => t.exporting = <<>>)
ASSUME WaitingSpansNeedAnother ==
  \E steps \in [1 .. 4 -> SpanSteps] : \E t \in {Spans(steps)} :
    ~t.busy /\ t.buffered # <<>>
=============================================================================
