------------------------------- MODULE Signals -------------------------------
(***************************************************************************)
(* The evaluation half of server/alerts/alertEngine.ts, and how            *)
(* server/insights/insightsRuntime.ts feeds it: baselines per market,      *)
(* thresholds, cooldowns, shadow mode, the audit trail, the samples that   *)
(* follow a signal over fixed horizons and their statistics.  Everything   *)
(* is a function of the record Fresh describes.  Quantities and prices are *)
(* integers, an excursion is a price difference instead of basis points,   *)
(* an absent value is the empty set; rule management is in Alerts.         *)
(***************************************************************************)
EXTENDS Integers, SequencesExt

CONSTANTS
  MinSamples, MaxSamples,  \* BASELINE_MIN_SAMPLES, BASELINE_MAX_SAMPLES
  MaxAudit, MaxSignals,    \* MAX_AUDIT_ENTRIES, MAX_SIGNAL_SAMPLES
  Horizons,                \* SIGNAL_HORIZONS_MS
  ConditionEvery,          \* 1_000 ms between two samples of a condition
  DayPart,                 \* an hour, the segment of the statistics
  PriceRing                \* PRICE_RING_SIZE

(* rules is a sequence, the order of the engine's Map; the functions of a  *)
(* finite domain go from <<id, symbol>> or from <<symbol, metric>>.        *)
Fresh(rules, shadow) ==
  [rules |-> rules, shadow |-> shadow, baselines |-> <<>>, lastTrigger |-> <<>>,
   conditionAt |-> <<>>, audit |-> <<>>, samples |-> <<>>, deliverable |-> <<>>]

LastOf(s, limit) == IF Len(s) > limit THEN SubSeq(s, Len(s) - limit + 1, Len(s)) ELSE s

Abs(x) == IF x < 0 THEN -x ELSE x

PushAudit(e, kind, id, symbol) ==
  [e EXCEPT !.audit = LastOf(Append(@, [kind |-> kind, id |-> id, symbol |-> symbol]), MaxAudit)]

-----------------------------------------------------------------------------
(* Baselines and thresholds, both doubled so that a median is an integer.  *)

Baseline(e, symbol, metric) ==
  IF <<symbol, metric>> \in DOMAIN e.baselines THEN e.baselines[<<symbol, metric>>] ELSE <<>>

PushBaseline(e, symbol, metric, value) ==
  LET values == LastOf(Append(Baseline(e, symbol, metric), value), MaxSamples)
  IN  [e EXCEPT !.baselines = (<<symbol, metric>> :> values) @@ @]

Median2(values) ==
  LET sorted == SortSeq(values, <)
      n == Len(values)
  IN  IF n < MinSamples THEN {} ELSE {sorted[(n + 1) \div 2] + sorted[n \div 2 + 1]}

ResolveThreshold2(rule, baseline2) ==
  IF rule.mode = "absolute" THEN {2 * Abs(v) : v \in rule.absoluteValue}
  ELSE {b * (IF \E k \in rule.multiplier : k > 0 THEN Max(rule.multiplier) ELSE 3) : b \in baseline2}

(* assessRule(): whether the condition holds, and the direction it has.    *)
(* A velocity rule has no use for its op.                                  *)
Assessment(hit, direction) == [hit |-> hit, direction |-> IF hit THEN direction ELSE {}]

AssessTrend(rule, c) ==
  LET threshold == IF rule.absoluteValue = {} THEN 60 ELSE Max(rule.absoluteValue)
  IN  Assessment(IF rule.op = "below" THEN c.trendScore <= threshold
                                      ELSE c.trendScore >= threshold,
        CASE c.trendDirection = "up" -> {"bullish"}
          [] c.trendDirection = "down" -> {"bearish"}
          [] OTHER -> {})

AssessVolume(e, rule, c) ==
  LET thresholds == ResolveThreshold2(rule, Median2(Baseline(e, c.symbol, "volume_delta")))
  IN  IF rule.op = "below"
      THEN Assessment(\E t \in thresholds : 2 * c.volumeDelta <= -Abs(t), {"bearish"})
      ELSE Assessment(\E t \in thresholds : 2 * c.volumeDelta >= Abs(t), {"bullish"})

AssessVelocity(e, rule, c) ==
  LET thresholds == ResolveThreshold2(rule, Median2(Baseline(e, c.symbol, "trade_velocity")))
  IN  Assessment(\E t \in thresholds : 2 * c.tradeVelocity >= t, {})

(* The first transition of the wanted kind decides the side.               *)
AssessWall(rule, c) ==
  LET matches == SelectSeq(c.wallTransitions, LAMBDA t : t.kind = rule.wallState)
  IN  Assessment(matches # <<>>,
        IF matches # <<>> /\ Head(matches).side = "bid" THEN {"bullish"} ELSE {"bearish"})

AssessRule(e, rule, c) ==
  CASE rule.kind = "trend_score" -> AssessTrend(rule, c)
    [] rule.kind = "volume_delta" -> AssessVolume(e, rule, c)
    [] rule.kind = "trade_velocity" -> AssessVelocity(e, rule, c)
    [] rule.kind = "liquidity_wall" -> AssessWall(rule, c)

-----------------------------------------------------------------------------
(* Samples of a signal *)

(* bucketVolatility(realizedVolatilityBps()): range over mean, in bps.     *)
VolatilityBucket(prices) ==
  LET sum == FoldLeft(LAMBDA a, p : a + p, 0, prices)
      range == (Max(ToSet(prices)) - Min(ToSet(prices))) * Len(prices) * 10000
  IN  IF Len(prices) < 4 \/ sum <= 0 THEN "low"
      ELSE IF range < 5 * sum THEN "low"
      ELSE IF range < 20 * sum THEN "mid" ELSE "high"

(* recordSignalSample(): no direction counts as bullish.                   *)
RecordSignalSample(e, rule, c, direction, source) ==
  LET sample == [kind |-> rule.kind, symbol |-> c.symbol,
                 direction |-> IF "bearish" \in direction THEN "bearish" ELSE "bullish",
                 source |-> source, entryTs |-> c.ts, entryPrice |-> Max(c.price),
                 hour |-> (c.ts \div DayPart) % 24, bucket |-> VolatilityBucket(c.prices),
                 exit |-> [h \in Horizons |-> {}], mfe |-> [h \in Horizons |-> 0],
                 mae |-> [h \in Horizons |-> 0]]
  IN  IF \E p \in c.price : p > 0
      THEN [e EXCEPT !.samples = LastOf(Append(@, sample), MaxSignals)] ELSE e

(* feedPrice(): the excursions of a horizon go on after it is resolved.    *)
Larger(a, b) == IF a < b THEN b ELSE a

Fed(sample, ts, price) ==
  LET move == price - sample.entryPrice
      signed == IF sample.direction = "bullish" THEN move ELSE -move
  IN  [sample EXCEPT
         !.mfe = [h \in Horizons |-> Larger(@[h], signed)],
         !.mae = [h \in Horizons |-> -Larger(-@[h], -signed)],
         !.exit = [h \in Horizons |->
                     IF @[h] = {} /\ ts >= sample.entryTs + h THEN {price} ELSE @[h]]]

FeedPrice(e, symbol, ts, price) ==
  IF price <= 0 THEN e
  ELSE [e EXCEPT !.samples = [i \in DOMAIN @ |->
          IF @[i].symbol = symbol THEN Fed(@[i], ts, price) ELSE @[i]]]

-----------------------------------------------------------------------------
(* evaluate() *)

(* The condition is sampled at most once per ConditionEvery.               *)
SampleCondition(e, rule, c, direction) ==
  LET key == <<rule.id, c.symbol>>
      due == ~(key \in DOMAIN e.conditionAt) \/ c.ts - e.conditionAt[key] >= ConditionEvery
  IN  IF ~due THEN e
      ELSE RecordSignalSample([e EXCEPT !.conditionAt = (key :> c.ts) @@ @], rule, c,
             direction, "condition")

CoolingDown(e, rule, c) ==
  LET key == <<rule.id, c.symbol>>
  IN  key \in DOMAIN e.lastTrigger /\ c.ts - e.lastTrigger[key] < rule.cooldown

Trigger(e, rule, c, direction) ==
  LET noted == RecordSignalSample(
                 [e EXCEPT !.lastTrigger = (<<rule.id, c.symbol>> :> c.ts) @@ @],
                 rule, c, direction, "trigger")
      alert == [id |-> rule.id, symbol |-> c.symbol, ts |-> c.ts, direction |-> direction]
  IN  IF e.shadow THEN PushAudit(noted, "suppressed_shadow", rule.id, c.symbol)
      ELSE [PushAudit(noted, "triggered", rule.id, c.symbol)
              EXCEPT !.deliverable = Append(@, alert)]

EvaluateRule(e, rule, c) ==
  LET assessed == AssessRule(e, rule, c)
      sampled == SampleCondition(e, rule, c, assessed.direction)
  IN  IF ~rule.enabled \/ rule.symbol \notin {"*", c.symbol} \/ ~assessed.hit THEN e
      ELSE IF CoolingDown(sampled, rule, c)
           THEN PushAudit(sampled, "suppressed_cooldown", rule.id, c.symbol)
           ELSE Trigger(sampled, rule, c, assessed.direction)

(* The baselines take the values of this evaluation first, again those of  *)
(* the last one where no metric came since.                                *)
Evaluate(e, c) ==
  LET volume == PushBaseline(e, c.symbol, "volume_delta", Abs(c.volumeDelta))
      both == PushBaseline(volume, c.symbol, "trade_velocity", c.tradeVelocity)
      fed == IF c.price = {} THEN both ELSE FeedPrice(both, c.symbol, c.ts, Max(c.price))
  IN  FoldLeft(LAMBDA acc, rule : EvaluateRule(acc, rule, c),
        [fed EXCEPT !.deliverable = <<>>], e.rules)

ResetVolatileState(e) == Fresh(e.rules, e.shadow)

(* auditTrail() *)
AuditTrail(e, limit) == Reverse(LastOf(e.audit, Max({1, Min({limit, MaxAudit})})))

-----------------------------------------------------------------------------
(* performance(): a row for each market, kind, horizon, hour, volatility   *)
(* and source; the source itself is not in the row it returns.             *)

RowKey(sample, h) ==
  <<sample.kind, sample.symbol, h, sample.hour, sample.bucket, sample.source>>

Favorable(sample, h) ==
  \E price \in sample.exit[h] :
    IF sample.direction = "bullish" THEN price > sample.entryPrice ELSE price < sample.entryPrice

Row(members, h) ==
  LET resolved == {s \in members : s.exit[h] # {}}
  IN  [triggered |-> Cardinality({s \in members : s.source = "trigger"}),
       resolved |-> Cardinality(resolved),
       favorable |-> Cardinality({s \in resolved : Favorable(s, h)}),
       mfe |-> MapThenSumSet(LAMBDA s : s.mfe[h], resolved),
       mae |-> MapThenSumSet(LAMBDA s : s.mae[h], resolved)]

Performance(e) ==
  LET numbered == {[e.samples[i] EXCEPT !.entryTs = <<@, i>>] : i \in DOMAIN e.samples}
      keys == {RowKey(s, h) : s \in numbered, h \in Horizons}
  IN  [key \in keys |-> Row({s \in numbered : RowKey(s, key[3]) = key}, key[3])]

-----------------------------------------------------------------------------
(* InsightsRuntime: what a market's session remembers between two ticks.   *)

FreshSession ==
  [trendScore |-> 0, trendDirection |-> "none", volumeDelta |-> 0, tradeVelocity |-> 0,
   price |-> {}, prices |-> <<>>]

HandleGatewayEvent(session, event) ==
  CASE event.type = "metric" ->
         [session EXCEPT !.tradeVelocity = event.tradeRate, !.volumeDelta = event.delta]
    [] event.type = "trend_signal" ->
         [session EXCEPT !.trendScore = event.score, !.trendDirection = event.direction]
    [] event.type = "price" ->
         [session EXCEPT !.price = {event.price},
                         !.prices = LastOf(Append(@, event.price), PriceRing)]
    [] OTHER -> session

Context(session, symbol, ts, transitions) ==
  session @@ [symbol |-> symbol, ts |-> ts, wallTransitions |-> transitions]

(* tick() for one market: every deliverable alert is sent to the sockets   *)
(* and recorded; deliverExternal() records how each channel fared later.   *)
Tick(e, session, symbol, ts, transitions) ==
  LET evaluated == Evaluate(e, Context(session, symbol, ts, transitions))
  IN  FoldLeft(LAMBDA acc, alert : PushAudit(acc, "delivered", alert.id, alert.symbol),
        evaluated, evaluated.deliverable)

DeliverExternal(e, alert, outcomes) ==
  FoldLeft(LAMBDA acc, ok : PushAudit(acc, IF ok THEN "delivered" ELSE "delivery_failed",
                              alert.id, alert.symbol), e, outcomes)
=============================================================================
