------------------------------- MODULE Insights -------------------------------
(***************************************************************************)
(* The windows of server/insights/insightEngine.ts: rolling VWAP, volume   *)
(* profile, added and pulled liquidity, absorption, exhaustion, footprint  *)
(* and liquidations of one market, as functions of the record Fresh        *)
(* describes and of the events of its stream.  The walls are in Alerts.    *)
(* Prices are whole ticks (a tick size of one), quantities integers, a mid *)
(* is doubled and a ratio left as its two terms; rounding is left out.     *)
(***************************************************************************)
EXTENDS Integers, SequencesExt

CONSTANTS
  Window,             \* vwap, profile, addedPulled, liquidation and absorption windows
  RingSize,           \* the capacities of the rings
  MinNotional, MaxMoveBps,  \* absorptionMinNotionalUsd, absorptionMaxMoveBps
  MaxRows,            \* footprintMaxRows
  PublishEvery        \* publishIntervalMs

(* TimeRing and DeltaRing: entries in the order they came; only those at   *)
(* the front are dropped for their age.                                    *)
Push(ring, name, entry) ==
  LET longer == Append(ring, entry)
  IN  IF Len(longer) > RingSize[name] THEN Tail(longer) ELSE longer

DropOlderThan(ring, cutoff) ==
  LET recent == {i \in DOMAIN ring : ring[i].at >= cutoff}
  IN  IF recent = {} THEN <<>> ELSE SubSeq(ring, Min(recent), Len(ring))

SumOf(field, ring) == FoldLeft(LAMBDA sum, entry : sum + entry[field], 0, ring)

Total(ring) == SumOf("value", ring)

Sample(at, value) == [at |-> at, value |-> value]

Rings == {"vwap", "profile", "quantity", "delta", "quote", "mid", "bid", "ask", "rate",
          "liquidation"}

Fresh ==
  [sawInput |-> FALSE, lastPublish |-> {}, bids |-> <<>>, asks |-> <<>>,
   ring |-> [name \in Rings |-> <<>>], footprint |-> <<>>, metric |-> {}, trend |-> {},
   derivatives |-> {}]

Pushed(e, name, entry) == [e EXCEPT !.ring[name] = Push(@, name, entry)]

-----------------------------------------------------------------------------
(* Input handlers *)

(* diffLevels(): what a side gained and lost between two frames.           *)
At(levels, p) == IF p \in DOMAIN levels THEN levels[p] ELSE 0

Gain(before, after) ==
  MapThenSumSet(LAMBDA p : Max({0, after[p] - At(before, p)}), DOMAIN after)

Diff(before, after, at) ==
  [at |-> at, added |-> Gain(before, after), pulled |-> Gain(after, before)]

(* currentMidPrice(), doubled; one side alone stands for both.             *)
Mid2(bids, asks) ==
  LET best == [bid |-> IF bids = <<>> THEN {} ELSE {Max(DOMAIN bids)},
               ask |-> IF asks = <<>> THEN {} ELSE {Min(DOMAIN asks)}]
  IN  {b + a : b \in IF bids = <<>> THEN best.ask ELSE best.bid,
               a \in IF asks = <<>> THEN best.bid ELSE best.ask}

HandleDepth(e, at, bids, asks) ==
  LET diffed == Pushed(Pushed(e, "bid", Diff(e.bids, bids, at)), "ask", Diff(e.asks, asks, at))
      held == [diffed EXCEPT !.bids = bids, !.asks = asks, !.sawInput = TRUE]
  IN  IF Mid2(bids, asks) = {} THEN held
      ELSE Pushed(held, "mid", Sample(at, Max(Mid2(bids, asks))))

(* One row per price; the rows are never dropped (insightEngine.ts:380).   *)
FootprintRow(rows, at, bucket) ==
  LET same == {i \in DOMAIN rows : rows[i].price = bucket.price}
      row == IF same = {} THEN [price |-> bucket.price, buy |-> 0, sell |-> 0, count |-> 0]
             ELSE rows[Max(same)]
      updated == [price |-> row.price, buy |-> row.buy + bucket.buy,
                  sell |-> row.sell + bucket.sell, count |-> row.count + bucket.count, at |-> at]
  IN  IF same = {} THEN Append(rows, updated) ELSE [rows EXCEPT ![Max(same)] = updated]

(* handleTradeBucket(): the VWAP ring holds quote volume and, negated,     *)
(* base quantity; the profile counts buckets, whatever their volume.       *)
HandleTradeBucket(e, at, bucket) ==
  LET volume == bucket.buy + bucket.sell
      entries == <<<<"vwap", bucket.price * volume>>, <<"vwap", -volume>>,
                   <<"profile", bucket.price>>, <<"quantity", volume>>,
                   <<"delta", bucket.buy - bucket.sell>>, <<"quote", bucket.price * volume>>>>
      pushed == FoldLeft(LAMBDA acc, entry : Pushed(acc, entry[1], Sample(at, entry[2])),
                  e, entries)
  IN  IF volume <= 0 THEN e
      ELSE [pushed EXCEPT !.footprint = FootprintRow(@, at, bucket), !.sawInput = TRUE]

HandleMetric(e, at, rate) ==
  Pushed([e EXCEPT !.metric = {rate}, !.sawInput = TRUE], "rate", Sample(at, rate))

(* A trend that is neither up nor down is no direction.                    *)
HandleTrend(e, direction, active) ==
  [e EXCEPT !.trend = {[direction |-> direction, active |-> active]}, !.sawInput = TRUE]

(* pushLiquidation(): longs are positive.  It does not count as input.     *)
PushLiquidation(e, at, side, quantity) ==
  Pushed(e, "liquidation", Sample(at, IF side = "long" THEN quantity ELSE -quantity))

(* setDerivatives(): every value is replaced, an absent one by nothing.    *)
SetDerivatives(e, update) == [e EXCEPT !.derivatives = {update}]

-----------------------------------------------------------------------------
(* Computations *)

Windowed(e, now, names) ==
  [e EXCEPT !.ring = [n \in Rings |-> IF n \in names THEN DropOlderThan(@[n], now - Window)
                                      ELSE @[n]]]

(* The rolling VWAP as quote volume over base quantity, {} without trades. *)
RollingVwap(ring) ==
  LET quote == Total(SelectSeq(ring, LAMBDA x : x.value >= 0))
      base == -Total(SelectSeq(ring, LAMBDA x : x.value < 0))
  IN  IF base > 0 THEN {<<quote, base>>} ELSE {}

VolumeProfile(ring) ==
  LET prices == {ring[i].value : i \in DOMAIN ring}
  IN  [p \in prices |-> Cardinality({i \in DOMAIN ring : ring[i].value = p})]

(* The point of control is the first of the fullest prices in the ring.    *)
Poc(ring) ==
  LET profile == VolumeProfile(ring)
      fullest == {i \in DOMAIN ring : \A j \in DOMAIN ring :
                    profile[ring[j].value] <= profile[ring[i].value]}
  IN  {ring[i].value : i \in IF fullest = {} THEN {} ELSE {Min(fullest)}}

(* The rows touched last, the older row first among equals.                *)
FootprintShown(rows) ==
  LET Before(i, j) == rows[i].at > rows[j].at \/ (rows[i].at = rows[j].at /\ i < j)
  IN  {i \in DOMAIN rows : Cardinality({j \in DOMAIN rows : Before(j, i)}) < MaxRows}

Moved(a, b) == 10000 * IF a < b THEN b - a ELSE a - b

(* computeAbsorption(): enough traded value while the mid hardly moved.    *)
Absorption(e, now) ==
  LET traded == e.ring["quantity"]
      mids == SelectSeq(e.ring["mid"], LAMBDA x : x.at >= now - Window)
      still == Moved(Head(mids).value, Last(mids).value) <= MaxMoveBps * Head(mids).value
  IN  IF \/ traded = <<>> \/ Total(e.ring["quote"]) < MinNotional
         \/ mids = <<>> \/ Head(mids).value <= 0 \/ ~still
      THEN {}
      ELSE {IF Total(e.ring["delta"]) < 0 THEN "bullish" ELSE "bearish"}

(* computeExhaustion(): an active trend whose later half trades 30% less.  *)
Exhaustion(e) ==
  LET rates == [i \in DOMAIN e.ring["rate"] |-> e.ring["rate"][i].value]
      half == Len(rates) \div 2
      Sum(s) == FoldLeft(LAMBDA a, r : a + r, 0, s)
      older == Sum(SubSeq(rates, 1, half))
      newer == Sum(SubSeq(rates, half + 1, Len(rates)))
      faded == older > 0 /\ 10 * newer * half < 7 * older * (Len(rates) - half)
  IN  {t.direction : t \in {x \in e.trend : x.active /\ x.direction \in {"up", "down"}
                                            /\ e.metric # {} /\ Len(rates) >= 6 /\ faded}}

Liquidations(ring) ==
  LET longs == SelectSeq(ring, LAMBDA x : x.value >= 0)
      shorts == SelectSeq(ring, LAMBDA x : x.value < 0)
  IN  [longs |-> Len(longs), shorts |-> Len(shorts), longQuantity |-> Total(longs),
       shortQuantity |-> -Total(shorts)]

(* buildFrame(): the windows are cut at now, and absorption's only after   *)
(* the rest.                                                               *)
BuildFrame(e, now) ==
  LET cut == Windowed(e, now, {"vwap", "profile", "bid", "ask", "liquidation", "quantity",
                               "delta", "quote"})
  IN  [engine |-> cut,
       frame |-> [vwap |-> RollingVwap(cut.ring["vwap"]),
                  profile |-> VolumeProfile(cut.ring["profile"]),
                  poc |-> Poc(cut.ring["profile"]),
                  bidAdded |-> SumOf("added", cut.ring["bid"]),
                  bidPulled |-> SumOf("pulled", cut.ring["bid"]),
                  absorption |-> Absorption(cut, now), exhaustion |-> Exhaustion(cut),
                  footprint |-> FootprintShown(cut.footprint),
                  liquidations |-> Liquidations(cut.ring["liquidation"]),
                  derivatives |-> cut.derivatives]]

(* maybePublish() and snapshotFrame() *)
Due(e, now) == e.sawInput /\ \A t \in e.lastPublish : now - t >= PublishEvery

MaybePublish(e, now) ==
  IF Due(e, now) THEN {BuildFrame([e EXCEPT !.lastPublish = {now}], now)} ELSE {}

SnapshotFrame(e, now) == BuildFrame([e EXCEPT !.sawInput = TRUE], now)
=============================================================================
