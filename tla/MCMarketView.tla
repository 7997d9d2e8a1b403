----------------------------- MODULE MCMarketView -----------------------------
(* MarketView over two symbols; the gateway's capture has no book, as      *)
(* replaySessionToEvents() makes none, the built-in one has. With it, the  *)
(* laws of the events it is fed, and one of the replay source behind them. *)
EXTENDS MarketView, FiniteSetsExt

MCRemote == <<[kind |-> "trade_bucket", at |-> 1], [kind |-> "trend_signal", at |-> 1],
              [kind |-> "trade_bucket", at |-> 3]>>
MCBuiltIn == <<[kind |-> "status", at |-> 1], [kind |-> "depth_frame", at |-> 1],
               [kind |-> "trend_signal", at |-> 1], [kind |-> "depth_frame", at |-> 4]>>
MCSpeeds == <<1, 2>>

-----------------------------------------------------------------------------
(* The laws of what the view is fed, over messages of every kind with      *)
(* anything at all in some of their fields. A unit of time holds 64 of the *)
(* next and seconds are below 4: the times 4..255 are in milliseconds.     *)

LOCAL Norm == INSTANCE Normalization WITH
  One <- 100, Kilo <- 64, SecondsBelow <- 4, SchemaVersion <- 1

LOCAL Value(v) == CHOOSE n \in v.number : TRUE
LOCAL Word(v) == CHOOSE s \in v.text : TRUE
LOCAL Received == 9
LOCAL Read(fields) == Norm!NormalizeMarketEvent(Norm!Object(fields), Received)
LOCAL EventOf(found) == CHOOSE fields \in UNION {event.fields : event \in found} : TRUE

(* One full message of each kind, in the preferred spelling.               *)
LOCAL Envelope(type) ==
  [type |-> Norm!Text(type), exchange |-> Norm!Text("binance"), symbol |-> Norm!Text("BTC"),
   serverTimestamp |-> Norm!Number(10), exchangeTimestamp |-> Norm!Number(8),
   sequence |-> Norm!Number(7)]
LOCAL N(n) == Norm!Number(n)
LOCAL Levels(prices) ==
  Norm!List([i \in DOMAIN prices |-> Norm!List(<<N(prices[i]), Norm!Numeral("2", 2)>>)])
LOCAL Payload ==
  [depth_frame |-> [lastUpdateId |-> N(3), bids |-> Levels(<<2, 4>>), asks |-> Levels(<<8, 6>>),
                    bestBid |-> N(4), bestAsk |-> N(6), midPrice |-> N(5), spread |-> N(2),
                    stale |-> Norm!Flag(FALSE), source |-> Norm!Text("binance")],
   trade_bucket |-> [bucketStart |-> N(6), bucketEnd |-> N(7), price |-> N(4), vwap |-> N(4),
                     side |-> Norm!Text("buy"), buyVolume |-> N(4), sellVolume |-> N(2),
                     volume |-> N(6), totalVolume |-> N(6), tradeCount |-> N(3),
                     maxTrade |-> N(2), delta |-> N(2)],
   price |-> [price |-> N(4), quantity |-> N(2), side |-> Norm!Text("sell")],
   metric |-> [lastPrice |-> N(4), bestBid |-> N(4), bestAsk |-> N(6), spread |-> N(2),
               delta |-> N(-2), cvd |-> N(-2), buyVolume |-> N(2), sellVolume |-> N(4),
               buySellRatio |-> N(2), imbalance |-> N(-50), tradeRate |-> N(2),
               volumeRatio |-> N(2), momentumShort |-> N(-2), momentumMedium |-> N(2),
               latencyMs |-> N(2), stale |-> Norm!Flag(TRUE)],
   trend_signal |-> [direction |-> Norm!Text("bullish"), score |-> N(84), upScore |-> N(86),
                     downScore |-> N(2), confidence |-> N(7200), active |-> Norm!Flag(TRUE),
                     strength |-> Norm!Text("strong"), since |-> N(6),
                     reasons |-> Norm!List(<<Norm!Text("breakout"), Norm!Null>>)],
   status |-> [state |-> Norm!Text("stale"), message |-> Norm!Text("m"), resyncCount |-> N(2),
               lastEventTimestamp |-> N(6), latencyMs |-> N(2), validity |-> Norm!Text("stale"),
               frozen |-> Norm!Flag(TRUE), sessionId |-> Norm!Text("s"), lastValidAt |-> N(5),
               counters |-> Norm!Object([resyncs |-> N(4), sequenceGaps |-> N(2)]),
               clockDriftMs |-> N(-2)],
   market_reset |-> [sessionId |-> Norm!Text("s"), previousSessionId |-> Norm!Text("r"),
                     reason |-> Norm!Text("m"), frozen |-> Norm!Flag(FALSE)],
   heartbeat |-> [clientId |-> Norm!Text("c"), uptimeMs |-> N(2)],
   alert |-> [alertId |-> Norm!Text("a"), value |-> N(2), algoVersion |-> Norm!Text("1")],
   insight |-> [walls |-> Norm!List(<<>>), algoVersion |-> Norm!Text("1")]]
LOCAL Kinds == DOMAIN Payload
LOCAL Message(kind) == Envelope(kind) @@ [data |-> Norm!Object(Payload[kind])]

(* The same message with anything at all in up to two fields of the payload *)
(* and one of the envelope.                                                *)
LOCAL Anything ==
  {Norm!Undefined, Norm!Null, Norm!Blank, Norm!Text("x"), Norm!Numeral("2", 2), N(-3), N(400),
   Norm!Flag(TRUE), Norm!List(<<Norm!Null>>), Norm!Object(<<>>)}
LOCAL Garbled(kind) ==
  {LET payload == [Payload[kind] EXCEPT ![a] = v, ![b] = w]
   IN  [Envelope(kind) EXCEPT ![e] = u] @@ [data |-> Norm!Object(payload)]
   : a \in DOMAIN Payload[kind], b \in {CHOOSE b \in DOMAIN Payload[kind] : TRUE},
     v \in Anything, w \in Anything,
     e \in {"exchangeTimestamp", "sequence"}, u \in {N(8), N(-3), Norm!Text("x")}}

(* Whatever a field holds, the event has the type of its kind: quantities   *)
(* are not negative, ratios and scores in range, times are times, words are *)
(* known, and both sides of a book are sorted without repetition            *)
(* ("Malformed ... instead of destabilizing the render loop",               *)
(* marketNormalization.ts:495).                                             *)
LOCAL Quantities == {"volume", "tradeCount", "maxTrade", "buyVolume", "sellVolume", "totalVolume",
                     "quantity", "buySellRatio", "tradeRate", "volumeRatio", "resyncCount",
                     "uptimeMs"}
LOCAL Words == [side |-> {"buy", "sell", "unknown"}, direction |-> {"up", "down", "neutral"},
                strength |-> Norm!TrendStrengths, state |-> Norm!ConnectionStates,
                validity |-> Norm!DataValidities]
LOCAL Within(event, keys, low, high) ==
  \A k \in keys \cap DOMAIN event : \E n \in event[k].number : n \in low .. high
LOCAL SortedSide(event, side, Before(_, _)) ==
  side \in DOMAIN event =>
    \A levels \in event[side].items : \A i \in DOMAIN levels :
      /\ \A level \in levels[i].fields : Value(level.price) > 0 /\ Value(level.quantity) > 0
      /\ i > 1 => \A x \in levels[i - 1].fields, y \in levels[i].fields :
                    Before(Value(x.price), Value(y.price))
ASSUME EveryEventHasItsType ==
  \A kind \in Kinds \ {"alert", "insight"} : \A message \in Garbled(kind) :
    \A found \in {Read(message)} : \A event \in {EventOf(found)} :
      /\ Within(event, Quantities, 0, 10000)
      /\ Within(event, {"imbalance"}, -100, 100) /\ Within(event, {"confidence"}, 0, 100)
      /\ Within(event, {"score", "upScore", "downScore"}, 0, 100)
      /\ Within(event, {"exchangeTimestamp", "serverTimestamp", "timestamp"}, 1, 10000)
      /\ \A k \in DOMAIN Words \cap DOMAIN event : event[k].text \cap Words[k] # {}
      /\ \A k \in {"stale", "active", "frozen"} \cap DOMAIN event : event[k].flag # {}
      /\ SortedSide(event, "bids", LAMBDA a, b : a > b)
      /\ SortedSide(event, "asks", LAMBDA a, b : a < b)

(* An event that is read again is the same event: what has been normalized  *)
(* once may pass through the reader of the next layer.                      *)
ASSUME ReadingTwiceIsReadingOnce ==
  \A kind \in Kinds : \A message \in Garbled(kind) :
    \A found \in {Read(message)} : Read(EventOf(found)) = found

(* Seconds, milliseconds, microseconds and nanoseconds of one instant are   *)
(* one time (marketNormalization.ts:126), and a time read twice is itself.  *)
ASSUME UnitsAgree ==
  /\ \A t \in 4 .. 255 :
       /\ {Norm!NormalizeTimestamp({n}, 0) : n \in {t, 64 * t, 4096 * t}} = {t}
       /\ t % 64 = 0 => Norm!NormalizeTimestamp({t \div 64}, 0) = t
  /\ \A n \in 1 .. 255 * 64 :
       LET t == Norm!NormalizeTimestamp({n}, 0) IN Norm!NormalizeTimestamp({t}, 0) = t

(* Both spellings of a field say the same, but for one: the update id of a  *)
(* book is the event's sequence only as lastUpdateId (:267).                *)
LOCAL Spellings ==
  ("lastUpdateId" :> "last_update_id" @@ "bestBid" :> "best_bid" @@ "bestAsk" :> "best_ask"
   @@ "midPrice" :> "mid_price" @@ "bucketStart" :> "bucket_start" @@ "bucketEnd" :> "bucket_end"
   @@ "buyVolume" :> "buy_volume" @@ "sellVolume" :> "sell_volume"
   @@ "totalVolume" :> "total_volume" @@ "tradeCount" :> "trade_count" @@ "maxTrade" :> "max_trade"
   @@ "lastPrice" :> "last_price" @@ "buySellRatio" :> "buy_sell_ratio"
   @@ "tradeRate" :> "trade_rate" @@ "volumeRatio" :> "volume_ratio"
   @@ "momentumShort" :> "momentum_short" @@ "momentumMedium" :> "momentum_medium"
   @@ "latencyMs" :> "latency_ms" @@ "upScore" :> "up_score" @@ "downScore" :> "down_score"
   @@ "resyncCount" :> "resync_count" @@ "lastEventTimestamp" :> "last_event_timestamp"
   @@ "lastValidAt" :> "last_valid_at" @@ "sessionId" :> "session_id"
   @@ "previousSessionId" :> "previous_session_id" @@ "clockDriftMs" :> "clock_drift_ms"
   @@ "clientId" :> "client_id" @@ "uptimeMs" :> "uptime_ms")
LOCAL Respelled(fields, key) ==
  [k \in (DOMAIN fields \ {key}) \cup {Spellings[key]} |->
     IF k = Spellings[key] THEN fields[key] ELSE fields[k]]
LOCAL Without(f, key) == [k \in DOMAIN f \ {key} |-> f[k]]
ASSUME SpellingDoesNotMatter ==
  /\ \A kind \in Kinds : \A key \in DOMAIN Payload[kind] \cap DOMAIN Spellings :
       Read(Envelope(kind) @@ [data |-> Norm!Object(Respelled(Payload[kind], key))])
         = Read(Message(kind))
  /\ \A key \in DOMAIN Payload.depth_frame \cap DOMAIN Spellings :
       LET unnumbered == Without(Envelope("depth_frame"), "sequence")
           With(payload) == EventOf(Read(unnumbered @@ [data |-> Norm!Object(payload)]))
       IN  With(Respelled(Payload.depth_frame, key)) = With(Payload.depth_frame)
             <=> key # "lastUpdateId"

(* A book without quotes gets them from its levels, in whichever form and   *)
(* order these come; a level sent twice has its last quantity, and a later  *)
(* zero does not take it away.                                              *)
LOCAL RawLevels ==
  {Norm!List(<<N(p), N(q)>>) : p \in {2, 4}, q \in {0, 2}}
  \cup {Norm!Object([price |-> N(4), size |-> N(6)]), Norm!Object([p |-> N(-2), q |-> N(2)]),
        Norm!List(<<Norm!Text("x"), N(2)>>), Norm!Null}
LOCAL PriceOf(level) == Norm!LevelPrice(level)
LOCAL Held(levels) ==
  {i \in DOMAIN levels : /\ \E p \in PriceOf(levels[i]) : p > 0
                         /\ \E q \in Norm!LevelQuantity(levels[i]) : q > 0
                         /\ \A j \in i + 1 .. Len(levels) :
                              PriceOf(levels[j]) = PriceOf(levels[i])
                                => Norm!LevelQuantity(levels[j]) = {0}}
ASSUME QuotesComeFromTheLevels ==
  \A bids \in [1 .. 3 -> RawLevels] :
    \A event \in {EventOf(Read(Envelope("snapshot") @@
                    [bids |-> Norm!List(bids), asks |-> Levels(<<3, 8>>)]))} :
      LET prices == UNION {PriceOf(bids[i]) : i \in Held(bids)}
          best == {p \in prices : \A q \in prices : q <= p}
      IN  /\ event.bestBid.number = best
          /\ UNION {{<<PriceOf(bids[i]), Norm!LevelQuantity(bids[i])>>} : i \in Held(bids)}
               = UNION {{<<level.price.number, level.quantity.number>>
                         : level \in UNION {items[i].fields : i \in DOMAIN items}}
                        : items \in event.bids.items}
          /\ event.bestAsk.number = {3}
          /\ event.spread.number = {IF p < 3 THEN 3 - p ELSE 0 : p \in best}

(* What the gateway publishes is drawn, but for its answers and its errors, *)
(* and whatever can be drawn has its delivery counted by the same type.     *)
LOCAL ServerEventTypes ==
  {"snapshot", "depth_frame", "trade_bucket", "price", "metric", "trend_signal", "status",
   "heartbeat", "error", "subscribed", "unsubscribed", "replay_frame", "market_reset", "insight",
   "alert"}
ASSUME PublishedIsDrawn ==
  \A type \in ServerEventTypes :
    /\ Read(Envelope(type)) = {}
         <=> type \in {"error", "subscribed", "unsubscribed", "replay_frame"}
    /\ LET metadata == Norm!ReadWireEnvelopeMetadata(Norm!Object(Envelope(type)))
       IN  metadata.type = {type} /\ metadata.sequence = {7} /\ metadata.deliverySequence = {}
    /\ Read(Without(Envelope(type), "type")) = {}

(* A stored session with anything in its points.                            *)
LOCAL Point(at, price, volume, delta, score, direction) ==
  Norm!Object([timestamp |-> at, price |-> price, volume |-> N(volume), delta |-> N(delta),
               cvd |-> N(2), imbalance |-> N(-400), trendScore |-> N(score),
               trendDirection |-> Norm!Text(direction)])
LOCAL Points ==
  {Point(N(8), Norm!Null, 4, 2, 30, "up"), Point(N(8), N(6), 4, -8, 90, "down"),
   Point(N(4), N(4), 0, 2, 70, "up"), Point(N(6), Norm!Blank, -2, -2, 400, "x"),
   Point(N(0), N(4), 4, 2, 70, "up"), Point(N(9), Norm!Text("x"), 8, 8, -3, "down"), Norm!Null}
LOCAL Stored(points, from) ==
  Norm!Object([session |-> Norm!Object([id |-> Norm!Text("r"), symbol |-> Norm!Text("BTC"),
    from |-> from, to |-> N(9), expiresAt |-> N(12), frames |-> Norm!List(points)])])
LOCAL Captures ==
  UNION {Norm!NormalizeReplaySession(Stored(points, from))
         : points \in [1 .. 3 -> Points], from \in {N(2), N(7), Norm!Undefined}}
LOCAL Made(session) == Norm!ReplaySessionToEvents(session, "binance")

(* The events of a replay are those the page would make of the same message *)
(* from the gateway.                                                        *)
ASSUME ReplayEventsAreLiveEvents ==
  \A session \in Captures : \A events \in {Made(session)} : \A i \in DOMAIN events :
    Norm!NormalizeMarketEvent(Norm!Object(events[i]), 0) = {Norm!Object(events[i])}

(* They come in the order of time and are numbered without a gap, each      *)
(* trade adds up and goes on where the point before it ended, and none is   *)
(* made before a price is known; a trend has a score on its own side only.  *)
ASSUME ReplayAddsUp ==
  \A session \in Captures : \A events \in {Made(session)} :
    LET Is(i, kind) == Word(events[i].type) = kind
        trades == SelectSeq(events, LAMBDA e : Word(e.type) = "trade_bucket")
        unpriced == {i \in DOMAIN session.frames :
                       \A j \in 1 .. i : session.frames[j].price = {}}
    IN  /\ \A i \in DOMAIN events : Value(events[i].sequence) = i
        /\ \A i, j \in DOMAIN events :
             i <= j => Value(events[i].timestamp) <= Value(events[j].timestamp)
        /\ Len(trades) = Len(session.frames) - Cardinality(unpriced)
        /\ \A i \in DOMAIN trades :
             LET t == trades[i]
             IN  /\ Value(t.buyVolume) + Value(t.sellVolume) = Value(t.volume)
                 /\ Value(t.buyVolume) - Value(t.sellVolume) = Value(t.delta)
                 /\ Value(t.buyVolume) >= 0 /\ Value(t.sellVolume) >= 0
                 /\ i > 1 => t.bucketStart = trades[i - 1].bucketEnd
        /\ \A i \in DOMAIN events : Is(i, "trend_signal") =>
             LET e == events[i]
             IN  /\ Value(e.upScore) > 0 => Word(e.direction) = "up"
                 /\ Value(e.downScore) > 0 => Word(e.direction) = "down"
                 /\ e.active.flag = {~e.since.null}
                 /\ e.active.flag = {TRUE} => Word(e.direction) # "neutral"
-----------------------------------------------------------------------------
(* docs/phase-2/replay-contract.md:21 and :28 say that neither the order   *)
(* nor the checksum depends on the speed.  They do when the clock stepped  *)
(* back behind a record past the range: a reader that asks before the      *)
(* final watermark stops at that record, so its pre-roll ends there, and   *)
(* one that first asks at the watermark passes over it and goes on         *)
(* collecting.                                                             *)
LOCAL DriftRecords ==
  <<[stream |-> "snapshot", at |-> 0], [stream |-> "depth", at |-> 3],
    [stream |-> "depth", at |-> 0], [stream |-> "depth", at |-> 1]>>
LOCAL Drifting == INSTANCE ReplaySource WITH
  Records <- DriftRecords, Until <- 2, MaxPreRoll <- 2

LOCAL ReadUpTo(through, after) ==
  Drifting!Page([after |-> after, startAt |-> 1, through |-> through, limit |-> 3,
                 includePreRoll |-> TRUE]).frames
ASSUME ClockStepsMatter ==
  /\ ReadUpTo(1, 0) = <<1>> /\ ReadUpTo(2, 1) = <<4>>
  /\ ReadUpTo(2, 0) = <<1, 3, 4>>
=============================================================================
