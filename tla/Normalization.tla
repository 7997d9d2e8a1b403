---------------------------- MODULE Normalization ----------------------------
(* What the page makes of what it is sent: a gateway message becomes one of *)
(* the events the buffers hold, or nothing, and a stored replay becomes the *)
(* same events (src/lib/marketNormalization.ts, src/lib/replayApi.ts).      *)
(* A JavaScript value is a record of what its readers find in it; what they *)
(* produce is such a value again, so that it can be read a second time.     *)
EXTENDS Integers, SequencesExt

CONSTANTS
  One,            \* the unit of ratios: imbalances and confidences count in 1/One
  Kilo,           \* how often a unit of time holds the next smaller one (1000)
  SecondsBelow,   \* a smaller timestamp is in seconds (100_000_000_000)
  SchemaVersion   \* MARKET_SCHEMA_VERSION

(* Values. number: the finite number it is or spells; text: the string, not *)
(* blank; items: of an array; fields: of an object, keyed by name.          *)
Undefined == [number |-> {}, text |-> {}, blank |-> FALSE, flag |-> {}, null |-> FALSE,
              items |-> {}, fields |-> {}]
Number(n) == [Undefined EXCEPT !.number = {n}]
Text(s) == [Undefined EXCEPT !.text = {s}]
Numeral(s, n) == [Text(s) EXCEPT !.number = {n}]
Blank == [Undefined EXCEPT !.blank = TRUE]
Flag(b) == [Undefined EXCEPT !.flag = {b}]
Null == [Undefined EXCEPT !.null = TRUE]
List(items) == [Undefined EXCEPT !.items = {items}]
Object(fields) == [Undefined EXCEPT !.fields = {fields}]

OrElse(found, fallback) == IF found = {} THEN fallback ELSE CHOOSE x \in found : TRUE
Nullable(found) == IF found = {} THEN Null ELSE Number(OrElse(found, 0))
(* A field that is present only when there is something to put in it.       *)
Optional(key, values) ==
  [k \in (IF values = {} THEN {} ELSE {key}) |-> OrElse(values, Undefined)]

Field(record, key) == IF key \in DOMAIN record THEN record[key] ELSE Undefined
IsTrue(record, key) == Field(record, key).flag = {TRUE}

(* Spellings of one field, the preferred one first: what cannot be read     *)
(* under one name is looked for under the next.                             *)
FirstNumber(record, keys) ==
  LET readable == SelectSeq(keys, LAMBDA k : Field(record, k).number # {})
  IN  IF readable = <<>> THEN {} ELSE Field(record, Head(readable)).number
FirstText(record, keys) ==
  LET readable == SelectSeq(keys, LAMBDA k : Field(record, k).text # {})
  IN  IF readable = <<>> THEN {} ELSE Field(record, Head(readable)).text

NonNegative(found, fallback) == IF found = {} THEN fallback ELSE Max({0, OrElse(found, 0)})
Clamp(x, minimum, maximum) == Min({maximum, Max({minimum, x})})
(* A ratio above one is taken for a percentage.                             *)
NormalizeConfidence(found) ==
  LET value == OrElse(found, 0)
  IN  Clamp(IF value > One THEN value \div 100 ELSE value, 0, One)
NormalizeSide(value, buyVolume, sellVolume) ==
  CASE value.text \cap {"buy", "BUY", "bid"} # {} -> "buy"
    [] value.text \cap {"sell", "SELL", "ask"} # {} -> "sell"
    [] OTHER -> IF buyVolume > sellVolume THEN "buy"
                ELSE IF sellVolume > buyVolume THEN "sell" ELSE "unknown"
NormalizeDirection(value) ==
  CASE value.text \cap {"up", "bullish", "buy"} # {} -> "up"
    [] value.text \cap {"down", "bearish", "sell"} # {} -> "down"
    [] OTHER -> "neutral"
TrendStrengths == {"neutral", "forming", "strong", "very_strong"}
StrengthOf(score) ==
  CASE score >= 80 -> "very_strong" [] score >= 60 -> "strong" [] score >= 40 -> "forming"
    [] OTHER -> "neutral"
NormalizeStrength(value, score) == OrElse(value.text \cap TrendStrengths, StrengthOf(score))

Rounded(n, d) == (2 * n + d) \div (2 * d)
(* The magnitude of a time tells its unit; what is no time at all is the    *)
(* fallback.                                                                *)
NormalizeTimestamp(found, fallback) ==
  LET time == OrElse(found, 0)
      Below(unit) == time < SecondsBelow * unit
  IN  CASE time <= 0 -> fallback
        [] time > 0 /\ Below(1) -> time * Kilo
        [] ~Below(1) /\ Below(Kilo) -> time
        [] ~Below(Kilo) /\ Below(Kilo * Kilo) -> Rounded(time, Kilo)
        [] OTHER -> Rounded(time, Kilo * Kilo)

(* Book levels: as pairs or as objects; of two at a price the later counts. *)
LevelPrice(level) ==
  IF level.items # {} THEN FirstNumber(OrElse(level.items, <<>>), <<1>>)
  ELSE FirstNumber(OrElse(level.fields, <<>>), <<"price", "p">>)
LevelQuantity(level) ==
  IF level.items # {} THEN FirstNumber(OrElse(level.items, <<>>), <<2>>)
  ELSE FirstNumber(OrElse(level.fields, <<>>), <<"quantity", "qty", "size", "volume", "q">>)
NormalizePriceLevels(input, side) ==
  LET counts(level) == /\ \E price \in LevelPrice(level) : price > 0
                       /\ \E quantity \in LevelQuantity(level) : quantity > 0
      levels == FoldLeft(LAMBDA book, level :
                           IF ~counts(level) THEN book
                           ELSE [p \in DOMAIN book \cup LevelPrice(level) |->
                                   IF p \in LevelPrice(level)
                                   THEN OrElse(LevelQuantity(level), 0) ELSE book[p]],
                         <<>>, OrElse(input.items, <<>>))
      prices == SetToSortSeq(DOMAIN levels, LAMBDA a, b :
                             IF side = "bids" THEN a > b ELSE a < b)
  IN  [i \in 1 .. Len(prices) |-> [price |-> prices[i], quantity |-> levels[prices[i]]]]
LevelsValue(levels) ==
  List([i \in 1 .. Len(levels) |-> Object([price |-> Number(levels[i].price),
                                           quantity |-> Number(levels[i].quantity)])])
BestOf(levels) == IF levels = <<>> THEN {} ELSE {levels[1].price}

(* The message as an object: one already, or the text of one.               *)
ParseInput(input) == input.fields

(* What delivery accounting reads of every message, control ones included.  *)
ReadWireEnvelopeMetadata(input) ==
  LET root == OrElse(ParseInput(input), <<>>)
  IN  [type |-> FirstText(root, <<"type", "event">>),
       sequence |-> FirstNumber(root, <<"sequence", "sequenceEnd", "sequence_end">>),
       streamId |-> FirstText(root, <<"streamId", "stream_id", "deliveryStreamId",
                                      "delivery_stream_id">>),
       deliverySequence |-> FirstNumber(root, <<"deliverySequence", "delivery_sequence">>)]

(* The context of a message with a type: its payload is what it wraps, or   *)
(* the message itself.                                                      *)
BuildContext(root, receivedAt) ==
  LET data == OrElse(Field(root, "data").fields, root)
      server == NormalizeTimestamp(
                  FirstNumber(root, <<"serverTimestamp", "server_timestamp", "timestamp">>),
                  receivedAt)
      own == FirstNumber(root, <<"exchangeTimestamp", "exchange_timestamp">>)
      payloads == FirstNumber(data, <<"exchangeTimestamp", "exchange_timestamp", "timestamp",
                                      "time">>)
      EitherText(key) == OrElse(FirstText(root, <<key>>),
                                OrElse(FirstText(data, <<key>>), "unknown"))
  IN  [type |-> OrElse(FirstText(root, <<"type", "event">>), "none"),
       data |-> data,
       schemaVersion |-> OrElse(FirstNumber(root, <<"schemaVersion", "schema_version",
                                                    "version">>), SchemaVersion),
       exchange |-> EitherText("exchange"),
       symbol |-> EitherText("symbol"),
       exchangeTimestamp |-> NormalizeTimestamp(IF own # {} THEN own ELSE payloads, server),
       serverTimestamp |-> server,
       sequence |-> OrElse(FirstNumber(root, <<"sequence", "sequenceEnd", "sequence_end">>),
                      OrElse(FirstNumber(data, <<"sequence", "sequenceEnd", "sequence_end",
                                                 "lastUpdateId">>), 0))]

Event(context, type, timestamp) ==
  [schemaVersion |-> Number(context.schemaVersion), exchange |-> Text(context.exchange),
   symbol |-> Text(context.symbol), exchangeTimestamp |-> Number(context.exchangeTimestamp),
   serverTimestamp |-> Number(context.serverTimestamp), sequence |-> Number(context.sequence),
   type |-> Text(type), timestamp |-> Number(timestamp)]

(* Prices count in units whose half is whole.                               *)
NormalizeDepth(context) ==
  LET data == context.data
      bids == NormalizePriceLevels(Field(data, "bids"), "bids")
      asks == NormalizePriceLevels(Field(data, "asks"), "asks")
      Either(found, fallback) == IF found # {} THEN found ELSE fallback
      bestBid == Either(FirstNumber(data, <<"bestBid", "best_bid">>), BestOf(bids))
      bestAsk == Either(FirstNumber(data, <<"bestAsk", "best_ask">>), BestOf(asks))
      Quoted(Of(_, _)) == {Of(b, a) : b \in bestBid, a \in bestAsk}
  IN  [bids |-> LevelsValue(bids), asks |-> LevelsValue(asks),
       lastUpdateId |-> Number(OrElse(FirstNumber(data, <<"lastUpdateId", "last_update_id">>),
                                      context.sequence)),
       bestBid |-> Nullable(bestBid), bestAsk |-> Nullable(bestAsk),
       midPrice |-> Nullable(Either(FirstNumber(data, <<"midPrice", "mid_price">>),
                                    Quoted(LAMBDA b, a : (b + a) \div 2))),
       spread |-> Nullable(Either(FirstNumber(data, <<"spread">>),
                                  Quoted(LAMBDA b, a : Max({0, a - b})))),
       stale |-> Flag(IsTrue(data, "stale")),
       source |-> Text(OrElse(FirstText(data, <<"source">>), context.exchange))]
      @@ Event(context, "depth_frame", context.exchangeTimestamp)

NormalizeTrade(context) ==
  LET data == context.data
      buy == NonNegative(FirstNumber(data, <<"buyVolume", "buy_volume">>), 0)
      sell == NonNegative(FirstNumber(data, <<"sellVolume", "sell_volume">>), 0)
      total == NonNegative(FirstNumber(data, <<"totalVolume", "total_volume", "volume">>),
                           buy + sell)
      price == OrElse(FirstNumber(data, <<"price", "vwap">>), 0)
      start == NormalizeTimestamp(FirstNumber(data, <<"bucketStart", "bucket_start",
                                                      "timestamp">>), context.exchangeTimestamp)
      end == NormalizeTimestamp(FirstNumber(data, <<"bucketEnd", "bucket_end">>), start)
  IN  [bucketStart |-> Number(start), bucketEnd |-> Number(end), price |-> Number(price),
       side |-> Text(NormalizeSide(Field(data, "side"), buy, sell)),
       volume |-> Number(NonNegative(FirstNumber(data, <<"volume">>), total)),
       tradeCount |-> Number(NonNegative(FirstNumber(data, <<"tradeCount", "trade_count">>), 0)),
       vwap |-> Number(OrElse(FirstNumber(data, <<"vwap">>), price)),
       maxTrade |-> Number(NonNegative(FirstNumber(data, <<"maxTrade", "max_trade">>), 0)),
       buyVolume |-> Number(buy), sellVolume |-> Number(sell), totalVolume |-> Number(total),
       delta |-> Number(OrElse(FirstNumber(data, <<"delta">>), buy - sell))]
      @@ Event(context, "trade_bucket", end)

NormalizePrice(context) ==
  LET data == context.data
  IN  [price |-> Number(OrElse(FirstNumber(data, <<"price">>), 0)),
       quantity |-> Number(NonNegative(FirstNumber(data, <<"quantity", "qty", "size",
                                                           "volume">>), 0)),
       side |-> Text(NormalizeSide(Field(data, "side"), 0, 0))]
      @@ Event(context, "price", context.exchangeTimestamp)

NormalizeMetric(context) ==
  LET data == context.data
      Signed(keys) == Number(OrElse(FirstNumber(data, keys), 0))
      Positive(keys) == Number(NonNegative(FirstNumber(data, keys), 0))
  IN  [lastPrice |-> Nullable(FirstNumber(data, <<"lastPrice", "last_price">>)),
       bestBid |-> Nullable(FirstNumber(data, <<"bestBid", "best_bid">>)),
       bestAsk |-> Nullable(FirstNumber(data, <<"bestAsk", "best_ask">>)),
       spread |-> Nullable(FirstNumber(data, <<"spread">>)),
       delta |-> Signed(<<"delta">>), cvd |-> Signed(<<"cvd">>),
       buyVolume |-> Positive(<<"buyVolume", "buy_volume">>),
       sellVolume |-> Positive(<<"sellVolume", "sell_volume">>),
       buySellRatio |-> Positive(<<"buySellRatio", "buy_sell_ratio">>),
       imbalance |-> Number(Clamp(OrElse(FirstNumber(data, <<"imbalance">>), 0), -One, One)),
       tradeRate |-> Positive(<<"tradeRate", "trade_rate">>),
       volumeRatio |-> Positive(<<"volumeRatio", "volume_ratio">>),
       momentumShort |-> Signed(<<"momentumShort", "momentum_short">>),
       momentumMedium |-> Signed(<<"momentumMedium", "momentum_medium">>),
       latencyMs |-> Positive(<<"latencyMs", "latency_ms">>),
       stale |-> Flag(IsTrue(data, "stale"))]
      @@ Event(context, "metric", context.exchangeTimestamp)

NormalizeTrend(context) ==
  LET data == context.data
      Score(keys) == Clamp(OrElse(FirstNumber(data, keys), 0), 0, 100)
      score == Score(<<"score">>)
  IN  [direction |-> Text(NormalizeDirection(Field(data, "direction"))),
       score |-> Number(score),
       upScore |-> Number(Score(<<"upScore", "up_score">>)),
       downScore |-> Number(Score(<<"downScore", "down_score">>)),
       confidence |-> Number(NormalizeConfidence(FirstNumber(data, <<"confidence">>))),
       active |-> Flag(IsTrue(data, "active")),
       strength |-> Text(NormalizeStrength(Field(data, "strength"), score)),
       reasons |-> List(SelectSeq(OrElse(Field(data, "reasons").items, <<>>),
                                  LAMBDA reason : reason.text # {} \/ reason.blank)),
       since |-> IF Field(data, "since").null THEN Null
                 ELSE Number(NormalizeTimestamp(FirstNumber(data, <<"since">>),
                                                context.exchangeTimestamp))]
      @@ Event(context, "trend_signal", context.exchangeTimestamp)

ConnectionStates == {"idle", "connecting", "syncing", "live", "reconnecting", "demo", "stale",
                     "error", "closed"}
DataValidities == {"invalid", "syncing", "valid", "stale", "closed"}
(* The counters of a status, each under both its spellings.                 *)
Counters ==
  <<<<"sequenceGaps", "sequence_gaps">>, <<"duplicates">>, <<"outOfOrder", "out_of_order">>,
    <<"malformedEvents", "malformed_events">>, <<"crossedBooks", "crossed_books">>,
    <<"resyncs">>, <<"queueOverflows", "queue_overflows">>>>
NormalizeCounters(raw) ==
  [name \in {Counters[i][1] : i \in DOMAIN Counters} |->
     Number(NonNegative(FirstNumber(raw, CHOOSE keys \in ToSet(Counters) : keys[1] = name), 0))]
NormalizeStatus(context) ==
  LET data == context.data
      state == OrElse(FirstText(data, <<"state">>) \cap ConnectionStates, "error")
      counters == {NormalizeCounters(raw) : raw \in Field(data, "counters").fields}
      resyncs == OrElse({OrElse(c["resyncs"].number, 0) : c \in counters}, 0)
      Time(keys) == {Number(NormalizeTimestamp({t}, 0)) : t \in FirstNumber(data, keys)}
      Said(key, keys) == Optional(key, {Text(s) : s \in FirstText(data, keys)})
      Known(key) == Optional(key, {Flag(b) : b \in Field(data, key).flag})
  IN  [state |-> Text(state),
       source |-> Text(OrElse(FirstText(data, <<"source">>), context.exchange)),
       message |-> OrElse({Text(s) : s \in FirstText(data, <<"message">>)}, Blank),
       stale |-> Flag(IsTrue(data, "stale") \/ state = "stale"),
       resyncCount |-> Number(NonNegative(FirstNumber(data, <<"resyncCount", "resync_count">>),
                                          resyncs)),
       lastEventTimestamp |-> OrElse(Time(<<"lastEventTimestamp", "last_event_timestamp">>),
                                     Null),
       latencyMs |-> Nullable(FirstNumber(data, <<"latencyMs", "latency_ms">>))]
      @@ Optional("validity", {Text(v) : v \in FirstText(data, <<"validity">>)
                                               \cap DataValidities})
      @@ Known("transportAlive") @@ Known("marketActive") @@ Known("synchronized")
      @@ Known("frozen")
      @@ Said("reason", <<"reason">>) @@ Said("sessionId", <<"sessionId", "session_id">>)
      @@ Optional("lastValidAt", Time(<<"lastValidAt", "last_valid_at">>))
      @@ Optional("counters", {Object(c) : c \in counters})
      @@ Optional("clockDriftMs", {Number(n) : n \in FirstNumber(data, <<"clockDriftMs",
                                                                         "clock_drift_ms">>)})
      @@ Event(context, "status", context.serverTimestamp)

NormalizeHeartbeat(context) ==
  LET data == context.data
  IN  [uptimeMs |-> Number(NonNegative(FirstNumber(data, <<"uptimeMs", "uptime_ms">>), 0))]
      @@ Optional("clientId", {Text(s) : s \in FirstText(data, <<"clientId", "client_id">>)})
      @@ Event(context, "heartbeat", context.serverTimestamp)

(* A reset freezes the chart unless it says otherwise.                      *)
NormalizeMarketReset(context) ==
  LET data == context.data
  IN  [sessionId |-> Text(OrElse(FirstText(data, <<"sessionId", "session_id">>), "unknown")),
       reason |-> Text(OrElse(FirstText(data, <<"reason">>), "Market session reset")),
       frozen |-> Flag(Field(data, "frozen").flag # {FALSE})]
      @@ Optional("previousSessionId",
                  {Text(s) : s \in FirstText(data, <<"previousSessionId",
                                                     "previous_session_id">>)})
      @@ Event(context, "market_reset", context.serverTimestamp)

(* The gateway's own packs pass as they are, under the envelope's identity. *)
PassthroughFrame(context, type) ==
  [type |-> Text(type), symbol |-> Text(context.symbol),
   timestamp |-> Number(IF context.exchangeTimestamp # 0 THEN context.exchangeTimestamp
                        ELSE context.serverTimestamp),
   algoVersion |-> OrElse({Text(s) : s \in FirstText(context.data, <<"algoVersion",
                                                                     "algo_version">>)}, Blank)]
  @@ context.data

(* At most one event: none for what is malformed or not for the chart.      *)
NormalizeMarketEvent(input, receivedAt) ==
  {Object(event) : event \in
    UNION {LET context == BuildContext(root, receivedAt)
           IN  CASE context.type \in {"snapshot", "depth_frame"} -> {NormalizeDepth(context)}
                 [] context.type \in {"trade", "trade_bucket"} -> {NormalizeTrade(context)}
                 [] context.type = "price" -> {NormalizePrice(context)}
                 [] context.type \in {"metrics", "metric"} -> {NormalizeMetric(context)}
                 [] context.type \in {"trend", "trend_signal"} -> {NormalizeTrend(context)}
                 [] context.type = "status" -> {NormalizeStatus(context)}
                 [] context.type = "market_reset" -> {NormalizeMarketReset(context)}
                 [] context.type \in {"heartbeat", "pong"} -> {NormalizeHeartbeat(context)}
                 [] context.type \in {"insight", "alert"} ->
                      {PassthroughFrame(context, context.type)}
                 [] OTHER -> {}
           : root \in ParseInput(input)}}

(* Stored analytics of a replay. An empty string is the number zero here.   *)
Finite(value, fallback) == IF value.blank THEN 0 ELSE OrElse(value.number, fallback)
NormalizeHistoryPoint(value) ==
  LET point == OrElse(value.fields, <<>>)
      At(key) == Finite(Field(point, key), 0)
      timestamp == NormalizeTimestamp(Field(point, "timestamp").number, 0)
  IN  IF timestamp <= 0 THEN {}
      ELSE {[timestamp |-> timestamp,
             price |-> IF Field(point, "price").blank THEN {0} ELSE Field(point, "price").number,
             volume |-> Max({0, At("volume")}), delta |-> At("delta"), cvd |-> At("cvd"),
             imbalance |-> Clamp(At("imbalance"), -One, One),
             trendScore |-> Clamp(At("trendScore"), 0, 100),
             trendDirection |-> OrElse(Field(point, "trendDirection").text
                                         \cap {"up", "down"}, "neutral")]}
(* Stable: points of one time keep the order they were stored in.           *)
ByTime(points) ==
  LET order == SetToSortSeq(DOMAIN points, LAMBDA i, j :
                 \/ points[i].timestamp < points[j].timestamp
                 \/ points[i].timestamp = points[j].timestamp /\ i < j)
  IN  [n \in 1 .. Len(points) |-> points[order[n]]]
(* At most one session: none without an identity and a market. The speed    *)
(* counts in tenths.                                                        *)
NormalizeReplaySession(value) ==
  UNION {LET session == OrElse(Field(root, "session").fields, root)
             read == FoldLeft(LAMBDA points, raw : points \o SetToSeq(NormalizeHistoryPoint(raw)),
                              <<>>, OrElse(Field(session, "frames").items, <<>>))
             frames == ByTime(read)
             TimeOf(i) == IF frames = <<>> THEN 0 ELSE frames[i].timestamp
             At(key, fallback) == NormalizeTimestamp(Field(session, key).number, fallback)
         IN  {[id |-> id, symbol |-> symbol, from |-> At("from", TimeOf(1)),
               to |-> At("to", TimeOf(Len(frames))),
               speed |-> Clamp(Finite(Field(session, "speed"), 10), 1, 200),
               expiresAt |-> At("expiresAt", 0), frames |-> frames]
              : id \in Field(session, "id").text, symbol \in Field(session, "symbol").text}
         : root \in value.fields}

(* The events of one stored point: prices only once one is known.           *)
PointEvents(session, exchange, frame, lastPrice, previous, sequence) ==
  LET at == frame.timestamp
      delta == Clamp(frame.delta, -frame.volume, frame.volume)
      buy == (frame.volume + delta) \div 2
      sell == (frame.volume - delta) \div 2
      side == Text(IF delta > 0 THEN "buy" ELSE IF delta < 0 THEN "sell" ELSE "unknown")
      trending == frame.trendDirection # "neutral"
      active == trending /\ frame.trendScore >= 65
      Leading(direction) == Number(IF frame.trendDirection = direction
                                   THEN frame.trendScore ELSE 0)
      Common(n, type) ==
        Event([schemaVersion |-> SchemaVersion, exchange |-> exchange,
               symbol |-> session.symbol, exchangeTimestamp |-> at, serverTimestamp |-> at,
               sequence |-> sequence + n], type, at)
      trades == {[bucketStart |-> Number(Min({previous, at})), bucketEnd |-> Number(at),
                  price |-> Number(p), side |-> side, volume |-> Number(frame.volume),
                  tradeCount |-> Number(IF frame.volume > 0 THEN 1 ELSE 0),
                  vwap |-> Number(p), maxTrade |-> Number(frame.volume),
                  buyVolume |-> Number(buy), sellVolume |-> Number(sell),
                  totalVolume |-> Number(frame.volume), delta |-> Number(delta)]
                   @@ Common(1, "trade_bucket") : p \in lastPrice}
      prices == {[price |-> Number(p), quantity |-> Number(frame.volume), side |-> side]
                   @@ Common(2, "price") : p \in lastPrice}
      priced == IF lastPrice = {} THEN 0 ELSE 2
      zero == Number(0)
      metric ==
        [lastPrice |-> Nullable(lastPrice), bestBid |-> Null, bestAsk |-> Null,
         spread |-> Null, delta |-> Number(delta), cvd |-> Number(frame.cvd),
         buyVolume |-> Number(buy), sellVolume |-> Number(sell),
         buySellRatio |-> Number(IF sell > 0 THEN buy \div sell ELSE buy),
         imbalance |-> Number(frame.imbalance), tradeRate |-> zero, volumeRatio |-> zero,
         momentumShort |-> zero, momentumMedium |-> zero, latencyMs |-> zero,
         stale |-> Flag(FALSE)] @@ Common(priced + 1, "metric")
      trend ==
        [direction |-> Text(frame.trendDirection), score |-> Number(frame.trendScore),
         upScore |-> Leading("up"), downScore |-> Leading("down"),
         confidence |-> Number(Clamp((One * (frame.trendScore - 25)) \div 75, 0, One)),
         active |-> Flag(active), strength |-> Text(StrengthOf(frame.trendScore)),
         reasons |-> List(IF ~trending THEN <<>>
                          ELSE <<Text(IF delta >= 0 THEN "Positive volume delta"
                                      ELSE "Negative volume delta"),
                                 Text(IF frame.imbalance >= 0 THEN "Bid liquidity imbalance"
                                      ELSE "Ask liquidity imbalance")>>),
         since |-> IF active THEN Number(at) ELSE Null] @@ Common(priced + 2, "trend_signal")
  IN  SetToSeq(trades) \o SetToSeq(prices) \o <<metric, trend>>
ReplaySessionToEvents(session, exchange) ==
  FoldLeft(LAMBDA run, frame :
             LET lastPrice == IF frame.price # {} THEN frame.price ELSE run.lastPrice
                 made == PointEvents(session, exchange, frame, lastPrice, run.previous,
                                     Len(run.events))
             IN  [events |-> run.events \o made, lastPrice |-> lastPrice,
                  previous |-> frame.timestamp],
           [events |-> <<>>, lastPrice |-> {}, previous |-> session.from],
           session.frames).events
==============================================================================
