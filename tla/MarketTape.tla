------------------------------ MODULE MarketTape ------------------------------
(***************************************************************************)
(* What a gateway derives from trades (server/marketGateway.ts): the       *)
(* bubbles of core/tradeAggregator.ts, the analytics and the trend of      *)
(* core/analytics.ts, and the one-second facts kept as history.  Sessions  *)
(* begin, fail and are replaced as MarketGateway shows; here each of those *)
(* is one step, and the tape is what must follow it.                       *)
(*                                                                         *)
(* Time is counted in aggregation buckets, PerSecond of them to a second.  *)
(* A trade has a number, and a sum over trades is the set of them, so that *)
(* a trade counted twice, or for the wrong session, shows.                 *)
(***************************************************************************)
EXTENDS Integers, FiniteSets, Sequences, RingBuffer

CONSTANTS
  Marks,          \* price tick and side, by which bubbles are told apart
  PerSecond,      \* aggregation buckets in a second
  Lateness,       \* how far an exchange timestamp lies behind reception
  Recency,        \* the 5 s of recent trades, in buckets
  Kept,           \* capacity of the engine's ring of trades
  Confirm,        \* confirmationFrames
  MaxTime, MaxTrades, MaxSessions, MaxSettings   \* bounds

ASSUME TapeAssumption ==
  /\ {PerSecond, Confirm, Kept} \subseteq Nat \ {0}
  /\ {Lateness, Recency, MaxTime, MaxTrades, MaxSessions, MaxSettings} \subseteq Nat

Directions == {"up", "down"}

VARIABLES
  now,            \* the clock
  session,        \* marketSession: number, source, valid, and whether it is closed
  open,           \* the trades in the aggregator's buckets
  engine,         \* AnalyticsEngine: ring of trades, cvd, TrendDetector
  intervals,      \* the trades in historyTradeIntervals
  lastEnd,        \* lastPersistedMetricEnd, in seconds
  published,      \* trade_bucket events
  metrics,        \* the metric records handed to the history
  settings,       \* changes of settings so far
  accepted,       \* history: every trade taken, with its session
  dropped,        \* history: the trades that the aggregator, the seconds and
                  \* the engine's sum were emptied of
  frameSeconds,   \* history: the seconds in which a frame was built
  frames          \* history: for each direction, how many frames in a row

tapeVars == <<now, session, open, engine, intervals, lastEnd, published, metrics,
              settings, accepted, dropped, frameSeconds, frames>>

-----------------------------------------------------------------------------
Second(t) == t \div PerSecond

NeutralDetector == [active |-> "neutral", pending |-> "neutral", count |-> 0, exits |-> 0]
FreshEngine == [ring |-> EmptyRing(Kept), cvd |-> {}, detector |-> NeutralDetector]
NoFrames == [strong |-> [d \in Directions |-> 0], weak |-> [d \in Directions |-> 0]]

TapeInit ==
  /\ now = 0
  /\ session = [number |-> 0, source |-> "binance", valid |-> FALSE, closed |-> FALSE]
  /\ open = {} /\ engine = FreshEngine /\ intervals = {} /\ lastEnd = 0
  /\ published = {} /\ metrics = {} /\ settings = 0
  /\ accepted = {} /\ dropped = [bubbles |-> {}, seconds |-> {}, sum |-> {}]
  /\ frameSeconds = {} /\ frames = NoFrames

Clock ==
  /\ now < MaxTime /\ now' = now + 1
  /\ UNCHANGED <<session, open, engine, intervals, lastEnd, published, metrics, settings,
                 accepted, dropped, frameSeconds, frames>>

(* What is emptied, and of which trades: the open buckets, the seconds, the sum. *)
Drop(bubbles, seconds, sum) ==
  dropped' = [bubbles |-> dropped.bubbles \union bubbles,
              seconds |-> dropped.seconds \union seconds,
              sum |-> dropped.sum \union sum]

(* Mutant: the facts of the running second survive a reset. *)
ResetKeepsIntervals(unshown) ==
  /\ open' = {} /\ engine' = FreshEngine /\ intervals' = intervals
  /\ lastEnd' = Second(now) /\ frames' = NoFrames
  /\ Drop(unshown, intervals, engine.cvd)

(* resetDerivedState(): what was derived for the old state goes; of the    *)
(* open trades, those nobody is shown.                                     *)
ResetDerivedState(unshown) ==
  /\ open' = {} /\ engine' = FreshEngine /\ intervals' = {}
  /\ lastEnd' = Second(now) /\ frames' = NoFrames
  /\ Drop(unshown, intervals, engine.cvd)

(* switchToBinance() begins a session that is valid, switchToDemo() one    *)
(* that waits for the demo's snapshot.                                     *)
SwitchTo(source) ==
  /\ ~session.closed /\ session.number < MaxSessions
  /\ session' = [session EXCEPT !.number = @ + 1, !.source = source,
                                !.valid = (source = "binance")]
  /\ ResetDerivedState(open)
  /\ UNCHANGED <<now, published, metrics, settings, accepted, frameSeconds>>

(* invalidateMarketData(): a gap, a lost feed or silence, perhaps with the *)
(* new session of a connection attempt.                                    *)
InvalidateMarketData(renewed) ==
  /\ ~session.closed /\ session.valid
  /\ renewed => session.number < MaxSessions
  /\ session' = [session EXCEPT !.valid = FALSE, !.number = IF renewed THEN @ + 1 ELSE @]
  /\ ResetDerivedState(open)
  /\ UNCHANGED <<now, published, metrics, settings, accepted, frameSeconds>>

(* processSnapshot() of a demo feed, first or again: the session goes on. *)
DemoSnapshot ==
  /\ ~session.closed /\ session.source = "demo"
  /\ session' = [session EXCEPT !.valid = TRUE]
  /\ ResetDerivedState(open)
  /\ UNCHANGED <<now, published, metrics, settings, accepted, frameSeconds>>

-----------------------------------------------------------------------------
(* AnalyticsEngine.onTrade(). *)
OnTrade(t) == [engine EXCEPT !.ring = Push(@, t), !.cvd = @ \union {t}]

(* processTrade() of a well-formed trade. *)
ProcessTrade(mark, at) ==
  /\ session.valid /\ Cardinality(accepted) < MaxTrades
  /\ at \in (now - Lateness) .. now /\ at >= 0
  /\ \E t \in {[id |-> Cardinality(accepted) + 1, mark |-> mark, exchange |-> at,
                received |-> now]} :
       /\ engine' = OnTrade(t)
       /\ open' = open \union {t}
       /\ intervals' = intervals \union {t}
       /\ accepted' = accepted \union {[trade |-> t, session |-> session.number]}
  /\ UNCHANGED <<now, session, lastEnd, published, metrics, settings, dropped,
                 frameSeconds, frames>>

(* TradeAggregator.add() groups by time, price and side. *)
BucketKey(t) == <<t.exchange, t.mark>>
TradeBuckets(ts) ==
  {[session |-> session.number, source |-> session.source,
    trades |-> {t \in ts : BucketKey(t) = key}] : key \in {BucketKey(t) : t \in ts}}

(* flushCompleted(): a late trade opens its bucket again, for the next frame. *)
Completed(ts) == {t \in ts : t.exchange + 1 <= now}

-----------------------------------------------------------------------------
(* The trend.  A score's place among the thresholds is 0 below the exit    *)
(* score, 2 from the enter score on; the higher score is the candidate.    *)
Scores ==
  {s \in [up : 0 .. 2, down : 0 .. 2, candidate : Directions \union {"neutral"}] :
     /\ s.candidate = "up" => s.up >= s.down
     /\ s.candidate = "down" => s.down >= s.up
     /\ s.candidate = "neutral" => s.up = s.down}

Strong(s, d) == s.candidate = d /\ s[d] = 2
Weak(s, d) == s[d] = 0

(* update() while no direction is active: enough frames in a row for one. *)
Enter(detector, s) ==
  IF ~\E d \in Directions : Strong(s, d) THEN NeutralDetector
  ELSE LET count == IF s.candidate = detector.pending THEN detector.count + 1 ELSE 1
       IN IF count >= Confirm THEN [NeutralDetector EXCEPT !.active = s.candidate]
          ELSE [NeutralDetector EXCEPT !.pending = s.candidate, !.count = count]

(* Mutant: weak frames are counted, but not in a row. *)
ExitAccumulating(detector, s) ==
  IF ~Weak(s, detector.active) THEN detector
  ELSE IF detector.exits + 1 >= 2 THEN NeutralDetector
  ELSE [detector EXCEPT !.exits = @ + 1]

(* update() of an active direction: two weak frames in a row end it. *)
Exit(detector, s) ==
  IF ~Weak(s, detector.active) THEN [detector EXCEPT !.exits = 0]
  ELSE IF detector.exits + 1 >= 2 THEN NeutralDetector
  ELSE [detector EXCEPT !.exits = @ + 1]

(* A trend needs two recent trades and a fresh, synchronized book. *)
Recent(ring) == {i \in DOMAIN ToArray(ring) : ToArray(ring)[i].exchange >= now - Recency}
FeaturesValid(stale) == ~stale /\ Cardinality(Recent(engine.ring)) >= 2

UpdateTrend(detector, s, valid) ==
  IF ~valid THEN NeutralDetector
  ELSE IF detector.active = "neutral" THEN Enter(detector, s) ELSE Exit(detector, s)

(* compute(): of the metric, the cvd; of the features, what the scores say. *)
Compute(s, stale) ==
  [engine EXCEPT !.detector = UpdateTrend(@, s, FeaturesValid(stale))]

Capped(n, most) == IF n < most THEN n + 1 ELSE n
FramesWith(s, stale) ==
  IF ~FeaturesValid(stale) THEN NoFrames
  ELSE [strong |-> [d \in Directions |-> IF Strong(s, d) THEN Capped(frames.strong[d], Confirm)
                                         ELSE 0],
        weak |-> [d \in Directions |-> IF Weak(s, d) THEN Capped(frames.weak[d], 2) ELSE 0]]

-----------------------------------------------------------------------------
(* emitFrame(). *)

Facts(second) == {t \in intervals : Second(t.received) = second}

(* Once a second, the facts of the second before, and of no earlier one. *)
PersistMetric ==
  \E end \in {Second(now)} :
    IF end > lastEnd
    THEN /\ metrics' = metrics \union
              {[session |-> session.number, second |-> end - 1, facts |-> Facts(end - 1),
                cvd |-> engine.cvd]}
         /\ lastEnd' = end
         /\ intervals' = {t \in intervals : Second(t.received) > end - 1}
    ELSE UNCHANGED <<metrics, lastEnd, intervals>>

EmitFrame(s, stale) ==
  /\ session.valid
  /\ open' = open \ Completed(open)
  /\ published' = published \union TradeBuckets(Completed(open))
  /\ engine' = Compute(s, stale)
  /\ frames' = FramesWith(s, stale)
  /\ PersistMetric
  /\ frameSeconds' = frameSeconds \union {Second(now)}
  /\ UNCHANGED <<now, session, settings, accepted, dropped>>

(* shutdown() of a valid gateway publishes the open buckets too. *)
Shutdown ==
  /\ ~session.closed
  /\ published' = IF session.valid THEN published \union TradeBuckets(open) ELSE published
  /\ session' = [session EXCEPT !.valid = FALSE, !.closed = TRUE]
  /\ ResetDerivedState(IF session.valid THEN {} ELSE open)
  /\ UNCHANGED <<now, metrics, settings, accepted, frameSeconds>>

(* updateSettings(): another bucket length is another aggregator, other    *)
(* thresholds another engine, with nothing of what the old ones held.      *)
UpdateSettings(bucketMs, thresholds) ==
  /\ settings < MaxSettings /\ settings' = settings + 1
  /\ open' = IF bucketMs THEN {} ELSE open
  /\ engine' = IF thresholds THEN FreshEngine ELSE engine
  /\ frames' = IF thresholds THEN NoFrames ELSE frames
  /\ Drop(IF bucketMs THEN open ELSE {}, {}, IF thresholds THEN engine.cvd ELSE {})
  /\ UNCHANGED <<now, session, intervals, lastEnd, published, metrics, accepted,
                 frameSeconds>>

TapeNext ==
  \/ Clock
  \/ \E source \in {"binance", "demo"} : SwitchTo(source)
  \/ \E renewed \in BOOLEAN : InvalidateMarketData(renewed)
  \/ DemoSnapshot
  \/ \E mark \in Marks : \E at \in 0 .. MaxTime : ProcessTrade(mark, at)
  \/ \E s \in Scores : \E stale \in BOOLEAN : EmitFrame(s, stale)
  \/ Shutdown
  \/ \E bucketMs \in BOOLEAN : \E thresholds \in BOOLEAN : UpdateSettings(bucketMs, thresholds)

TapeSpec == TapeInit /\ [][TapeNext]_tapeVars

-----------------------------------------------------------------------------
Taken(number) == {a.trade : a \in {b \in accepted : b.session = number}}

Bubbled == UNION {b.trades : b \in published}

(* A trade taken is in one bubble, or is still to be shown, or went with   *)
(* the open buckets when they were emptied: one of the three, for ever.    *)
(* No bubble mixes sessions or is shown for another one.  So neither a     *)
(* late trade that opens its bucket again nor a change of source or bucket *)
(* length shows a trade twice, and nothing but such a change loses one.    *)
BubblesHoldEachTradeOnce ==
  /\ \A b \in published :
       /\ b.trades \subseteq Taken(b.session)
       /\ \A c \in published : b = c \/ b.trades \cap c.trades = {}
  /\ open \subseteq Taken(session.number)
  /\ \A a \in accepted : a.trade \in Bubbled \union open \union dropped.bubbles
  /\ Bubbled \cap open = {} /\ Bubbled \cap dropped.bubbles = {}
  /\ open \cap dropped.bubbles = {}

Recorded == UNION {m.facts : m \in metrics}

(* A trade taken is among the facts of one recorded second, or in a second *)
(* still to be recorded, or went with the seconds at a reset; unless no    *)
(* frame was built in the second after its own, which then has no record.  *)
(* A second has at most one record, whose facts are the trades its session *)
(* took in it and had not dropped.  What its cvd sums is of that session,  *)
(* and includes them unless other thresholds replaced the engine.          *)
MetricsAreTheSecondsTrades ==
  /\ \A m \in metrics :
       /\ \A n \in metrics : n.second = m.second => n = m
       /\ m.facts = {t \in Taken(m.session) : Second(t.received) = m.second} \ dropped.seconds
       /\ m.cvd \subseteq Taken(m.session) /\ m.facts \ dropped.sum \subseteq m.cvd
  /\ \A a \in accepted :
       \/ a.trade \in Recorded \union intervals \union dropped.seconds
       \/ /\ Second(a.trade.received) + 1 \notin frameSeconds
          /\ \A m \in metrics : m.second # Second(a.trade.received)
  /\ Recorded \cap intervals = {} /\ intervals \cap dropped.seconds = {}

(* Both: where each trade is shown and recorded, and what lost the others. *)
TradesCountOnce == BubblesHoldEachTradeOnce /\ MetricsAreTheSecondsTrades

(* A trend begins after Confirm frames in a row that favour it strongly,   *)
(* and ends after two weak ones in a row, or with the data it rests on     *)
(* ("two consecutive frames", docs/phase-0/product-decisions.md).          *)
TrendIsConfirmed ==
  [][LET was == engine.detector.active
         is == engine'.detector.active
     IN was # is =>
          \/ was = "neutral" /\ frames'.strong[is] = Confirm
          \/ is = "neutral" /\ (frames'.weak[was] = 2 \/ frames' = NoFrames)]_tapeVars
=============================================================================
