------------------------------ MODULE MCAlerts ------------------------------
(* Alerts over two levels and two rules: one watches walls, one the trend. *)
EXTENDS Alerts, FiniteSetsExt

Input(kind, cooldown) ==
  [kind |-> kind, wallState |-> "appeared", cooldown |-> cooldown, enabled |-> TRUE]
MCInputs == {Input("liquidity_wall", 0), Input("trend_score", 3)}
RuleSymmetry == Permutations(RuleIds)
MCPatches == {[cooldown |-> 1], [enabled |-> FALSE], [wallState |-> "disappeared"]}

-----------------------------------------------------------------------------
(* The laws of what is computed beside the feed: the signals of the alert  *)
(* rules, the windows of the insights, and the polls of the derivatives.   *)

-----------------------------------------------------------------------------
(* The laws of signal evaluation, over every short history of ticks of two *)
(* markets, half a second apart, under one rule of each kind.              *)

LOCAL Sig == INSTANCE Signals WITH
  MinSamples <- 2, MaxSamples <- 3, MaxAudit <- 40, MaxSignals <- 40, Horizons <- {1, 2},
  ConditionEvery <- 2, DayPart <- 100, PriceRing <- 4

LOCAL Rule(id, kind, symbol, mode) ==
  [id |-> id, kind |-> kind, symbol |-> symbol, mode |-> mode, multiplier |-> {1},
   absoluteValue |-> {4}, op |-> "above", wallState |-> "appeared", cooldown |-> 3,
   enabled |-> TRUE]
LOCAL Rules ==
  <<Rule("v", "volume_delta", "*", "absolute"), Rule("t", "trade_velocity", "s", "baseline"),
    Rule("w", "liquidity_wall", "*", "absolute")>>

(* One tick: its market and what the session and the frame hold.           *)
LOCAL At(symbol, delta, velocity, price, transitions) ==
  [symbol |-> symbol, volumeDelta |-> delta, tradeVelocity |-> velocity, price |-> price,
   prices |-> <<>>, trendScore |-> 0, trendDirection |-> "none",
   wallTransitions |-> transitions]
LOCAL Wall == <<[kind |-> "appeared", side |-> "ask"]>>
LOCAL Ticks == {At("s", 0, 1, {10}, <<>>), At("s", 4, 1, {11}, <<>>), At("s", 4, 5, {9}, Wall),
                At("r", 4, 9, {10}, <<>>), At("r", 0, 1, {}, Wall)}
LOCAL Histories == [1 .. 5 -> Ticks]
LOCAL Context(h, n) == h[n] @@ [ts |-> n]
LOCAL Numbers(n) == [i \in 1 .. n |-> i]

(* The engine after the ticks of a history that pass a test; sent collects *)
(* what was deliverable.                                                   *)
LOCAL Run(h, shadow, Passes(_)) ==
  FoldLeft(LAMBDA run, n :
             LET next == Sig!Evaluate(run.engine, Context(h, n))
             IN  IF Passes(h[n]) THEN [engine |-> next, sent |-> run.sent \o next.deliverable]
                 ELSE run,
           [engine |-> Sig!Fresh(Rules, shadow), sent |-> <<>>], Numbers(5))
LOCAL All(tick) == TRUE

(* A rule for every market cools down, is sampled and finds its baseline   *)
(* in each market as if the others were not there.                         *)
ASSUME MarketsAreIndependent ==
  \A h \in Histories : \E run \in {Run(h, FALSE, All)} : \A symbol \in {"s", "r"} :
    LET alone == Run(h, FALSE, LAMBDA tick : tick.symbol = symbol)
        Of(s) == SelectSeq(s, LAMBDA x : x.symbol = symbol)
    IN  /\ Of(run.sent) = alone.sent
        /\ Of(run.engine.audit) = alone.engine.audit
        /\ Of(run.engine.samples) = alone.engine.samples

(* Shadow mode measures what would have been sent: the same signals at the *)
(* same times, none of them delivered.                                     *)
LOCAL Signals(run) == <<run.engine.samples, run.engine.lastTrigger, run.engine.conditionAt>>
ASSUME ShadowModeChangesOnlyDelivery ==
  \A h \in Histories : \E live \in {Run(h, FALSE, All)}, shadow \in {Run(h, TRUE, All)} :
    /\ Signals(live) = Signals(shadow) /\ shadow.sent = <<>>
    /\ [i \in DOMAIN live.engine.audit |-> live.engine.audit[i].kind = "triggered"]
         = [i \in DOMAIN shadow.engine.audit |->
              shadow.engine.audit[i].kind = "suppressed_shadow"]

(* Alerts of a rule and market are a cooldown apart, samples of its        *)
(* condition a second, and every hit is in the audit trail, as triggered   *)
(* or as suppressed.                                                       *)
LOCAL WallHits(h, symbol) == {n \in 1 .. 5 : h[n].symbol = symbol /\ h[n].wallTransitions # <<>>}
ASSUME EveryHitIsAccountedFor ==
  \A h \in Histories : \E run \in {Run(h, FALSE, All)} :
    /\ \A i, j \in DOMAIN run.sent :
         i < j /\ run.sent[i].id = run.sent[j].id /\ run.sent[i].symbol = run.sent[j].symbol =>
           run.sent[j].ts - run.sent[i].ts >= 3
    /\ \A s, t \in {x \in ToSet(run.engine.samples) : x.source = "condition"} :
         s.kind = t.kind /\ s.symbol = t.symbol /\ s.entryTs < t.entryTs =>
           t.entryTs - s.entryTs >= 2
    /\ \A symbol \in {"s", "r"} :
         Cardinality(WallHits(h, symbol))
           = Len(SelectSeq(run.engine.audit, LAMBDA a : a.id = "w" /\ a.symbol = symbol))

(* A baseline threshold needs MinSamples values, the value under test one  *)
(* of them, and follows the last MaxSamples.                               *)
ASSUME BaselinesFollowTheMarket ==
  \A h \in Histories : \E run \in {Run(h, FALSE, All)} :
    \A n \in {m \in 1 .. 5 : h[m].symbol = "s"} :
      LET seen == Sig!LastOf(SelectSeq(SubSeq(h, 1, n), LAMBDA t : t.symbol = "s"), 3)
          fives == Len(SelectSeq(seen, LAMBDA t : t.tradeVelocity = 5))
          alerted == \E i \in DOMAIN run.sent : run.sent[i].id = "t" /\ run.sent[i].ts = n
      IN  alerted => Len(seen) >= 2 /\ (h[n].tradeVelocity = 5 \/ 2 * fives < Len(seen))

(* A resolved horizon exits at the first price at or after its end.  Its   *)
(* excursions do not stop there: all horizons of a sample show those of    *)
(* its whole life (alertEngine.ts:385).                                    *)
LOCAL Exit(h, s, horizon) ==
  LET due == {n \in 1 .. 5 : n > s.entryTs /\ n >= s.entryTs + horizon
                              /\ h[n].symbol = s.symbol /\ h[n].price # {}}
  IN  IF due = {} THEN {} ELSE h[Min(due)].price
ASSUME HorizonsExitOnTime ==
  \A h \in Histories : \E e \in {Run(h, FALSE, All).engine} : \A i \in DOMAIN e.samples :
    LET s == e.samples[i]
    IN  /\ \A k \in {1, 2} : s.exit[k] = Exit(h, s, k)
        /\ s.mfe[1] = s.mfe[2] /\ s.mae[1] = s.mae[2]

(* The statistics count every sample once per horizon, split by source, so *)
(* that two rows of the answer may look the same.                          *)
ASSUME PerformanceCountsOnce ==
  \A h \in Histories : \E e \in {Run(h, FALSE, All).engine} :
    LET rows == Sig!Performance(e)
        Sum(F(_)) == MapThenSumSet(F, DOMAIN rows)
    IN  /\ Sum(LAMBDA k : rows[k].triggered)
             = 2 * Len(SelectSeq(e.samples, LAMBDA s : s.source = "trigger"))
        /\ Sum(LAMBDA k : rows[k].resolved)
             = FoldLeft(LAMBDA sum, s : sum + Cardinality({k \in {1, 2} : s.exit[k] # {}}), 0,
                 e.samples)
        /\ \A k \in DOMAIN rows : rows[k].favorable <= rows[k].resolved
             /\ rows[k].mae <= 0 /\ rows[k].mfe >= 0

(* The op of a velocity rule is checked and stored and has no effect.      *)
ASSUME VelocityRulesIgnoreTheirOp ==
  \A velocity \in {0, 4, 9} :
    LET c == Sig!Context([Sig!FreshSession EXCEPT !.tradeVelocity = velocity], "s", 1, <<>>)
        rule == Rule("t", "trade_velocity", "*", "absolute")
        Hit(op) == Sig!AssessRule(Sig!Fresh(<<>>, FALSE), [rule EXCEPT !.op = op], c).hit
    IN  Hit("below") = Hit("above") /\ Hit("above") = (velocity >= 4)

-----------------------------------------------------------------------------
(* The laws of the insight windows, over short streams of trades and books,*)
(* with rings small enough to overflow: the VWAP ring holds two trades.    *)

LOCAL Size == [n \in {"vwap", "profile", "quantity", "delta", "quote", "mid", "bid", "ask",
                      "rate", "liquidation"} |-> IF n = "vwap" THEN 4 ELSE 8]
LOCAL Ins == INSTANCE Insights WITH
  Window <- 2, RingSize <- Size, MinNotional <- 12, MaxMoveBps <- 1000, MaxRows <- 2,
  PublishEvery <- 1

(* Trades: the time since the one before, a price and who bought.          *)
LOCAL Trades == [step : {0, 1, 2}, price : {3, 4, 6}, buy : {0, 2}, sell : {1}]
LOCAL Streams == [1 .. 3 -> Trades]
LOCAL Time(s, n) == FoldLeft(LAMBDA t, trade : t + trade.step, 0, SubSeq(s, 1, n))
LOCAL Bucket(trade) ==
  [price |-> trade.price, buy |-> trade.buy, sell |-> trade.sell, count |-> 1]
LOCAL Traded(s) ==
  FoldLeft(LAMBDA e, n : Ins!HandleTradeBucket(e, Time(s, n), Bucket(s[n])), Ins!Fresh, <<1, 2, 3>>)
LOCAL Volume(trade) == trade.buy + trade.sell

(* The VWAP is that of the last two trades that are not too old: a quote   *)
(* volume never loses the base quantity it came with.                      *)
ASSUME VwapKeepsItsPairs ==
  \A s \in Streams : \E e \in {Traded(s)} : \A now \in Time(s, 3) .. Time(s, 3) + 3 :
    LET counted == {n \in {2, 3} : Time(s, n) >= now - 2}
        quote == MapThenSumSet(LAMBDA n : s[n].price * Volume(s[n]), counted)
        base == MapThenSumSet(LAMBDA n : Volume(s[n]), counted)
    IN  Ins!BuildFrame(e, now).frame.vwap = IF counted = {} THEN {} ELSE {<<quote, base>>}

(* The windows are cut at the server's clock, not at the events' (the head *)
(* of insightEngine.ts says no wall-clock is inside the compute path): a   *)
(* stream stamped three units behind has no VWAP while it trades.          *)
ASSUME ALateStreamHasNoWindows ==
  \A s \in Streams : Ins!BuildFrame(Traded(s), Time(s, 3) + 3).frame.vwap = {}

(* A trade older than the window stays as long as a younger one that came  *)
(* before it does.                                                         *)
ASSUME OnlyTheFrontGrowsOld ==
  \A first \in 0 .. 4, late \in 0 .. 4, now \in 4 .. 8 :
    LET ring == <<Ins!Sample(first, 1), Ins!Sample(late, 2)>>
        kept == ToSet(Ins!DropOlderThan(ring, now - 2))
    IN  Ins!Sample(late, 2) \in kept <=> first >= now - 2 \/ late >= now - 2

(* Every trade in its window is in one price of the profile; the point of  *)
(* control is one of the fullest; the rows shown are the last touched, and *)
(* no row is ever forgotten.                                               *)
ASSUME ProfileAndFootprintAgree ==
  \A s \in Streams : \E e \in {Traded(s)} :
  \E frame \in {Ins!BuildFrame(e, Time(s, 3)).frame} :
    LET inWindow == {n \in 1 .. 3 : Time(s, n) >= Time(s, 3) - 2}
        hidden == DOMAIN e.footprint \ frame.footprint
    IN  /\ MapThenSumSet(LAMBDA p : frame.profile[p], DOMAIN frame.profile)
             = Cardinality(inWindow)
        /\ \A p \in frame.poc, q \in DOMAIN frame.profile : frame.profile[q] <= frame.profile[p]
        /\ {e.footprint[i].price : i \in DOMAIN e.footprint} = {s[n].price : n \in 1 .. 3}
        /\ FoldLeft(LAMBDA sum, row : sum + row.buy + row.sell, 0, e.footprint)
             = Volume(s[1]) + Volume(s[2]) + Volume(s[3])
        /\ \A i \in hidden, j \in frame.footprint : e.footprint[i].at <= e.footprint[j].at
        /\ Cardinality(frame.footprint) = Min({2, Cardinality(DOMAIN e.footprint)})

(* What a side gained less what it lost is what it holds, as long as no    *)
(* frame of the book has left the window.                                  *)
LOCAL Sides == UNION {[P -> {0, 1, 3}] : P \in {{1}, {1, 2}, {2}}} \cup {<<>>}
LOCAL Held(side) == MapThenSumSet(LAMBDA p : side[p], DOMAIN side)
ASSUME AddedLessPulledIsHeld ==
  \A a, b, c \in Sides :
    LET e == FoldLeft(LAMBDA acc, side : Ins!HandleDepth(acc, 1, side, [p \in {5} |-> 1]),
               Ins!Fresh, <<a, b, c>>)
        frame == Ins!BuildFrame(e, 1).frame
    IN  frame.bidAdded - frame.bidPulled = Held(c) /\ frame.bidAdded >= 0 /\ frame.bidPulled >= 0

(* Absorption needs traded value and a mid that ends where it began: what  *)
(* the mid did in between is not looked at, though the comment of          *)
(* insightEngine.ts:612 says it moved at most so far.                      *)
LOCAL Moving(mids, trade) ==
  LET book == FoldLeft(LAMBDA e, n : Ins!HandleDepth(e, n, [p \in {mids[n]} |-> 1], <<>>),
                Ins!Fresh, <<1, 2, 3>>)
  IN  Ins!HandleTradeBucket(book, 3, Bucket(trade))
ASSUME AbsorptionComparesTheEnds ==
  \A mids \in [1 .. 3 -> {10, 11, 15}] : \A trade \in Trades :
    (Ins!BuildFrame(Moving(mids, trade), 3).frame.absorption # {})
      = (trade.price * Volume(trade) >= 12 /\ mids[3] - mids[1] \in -1 .. 1)

(* A trend is never called exhausted while each second trades at least as  *)
(* much as the one before, and one that stopped trading is.                *)
LOCAL Rated(rates) ==
  Ins!HandleTrend(FoldLeft(LAMBDA e, n : Ins!HandleMetric(e, n, rates[n]), Ins!Fresh,
                    [i \in DOMAIN rates |-> i]), "up", TRUE)
ASSUME ExhaustionNeedsFading ==
  \A n \in 5 .. 7 : \A rates \in [1 .. n -> {0, 3, 4}] :
    LET exhausted == Ins!Exhaustion(Rated(rates))
        half == n \div 2
    IN  /\ (\A i \in 1 .. n - 1 : rates[i] <= rates[i + 1]) => exhausted = {}
        /\ n >= 6 /\ (\A i \in 1 .. half : rates[i] > 0) /\ (\A i \in half + 1 .. n : rates[i] = 0)
             => exhausted = {"up"}

(* A frame is due once per interval from the first input on; a snapshot    *)
(* counts as input, a liquidation does not.                                *)
ASSUME FramesFollowInput ==
  LET liquidated == Ins!PushLiquidation(Ins!Fresh, 0, "long", 2)
      asked == Ins!SnapshotFrame(Ins!Fresh, 0).engine
  IN  /\ Ins!MaybePublish(liquidated, 0) = {} /\ Ins!MaybePublish(asked, 0) # {}
      /\ \A r \in Ins!MaybePublish(asked, 0) :
           Ins!MaybePublish(r.engine, 0) = {} /\ Ins!MaybePublish(r.engine, 1) # {}
      /\ Ins!SnapshotFrame(liquidated, 0).frame.liquidations
           = [longs |-> 1, shorts |-> 0, longQuantity |-> 2, shortQuantity |-> 0]

-----------------------------------------------------------------------------
(* The laws of the derivatives poller, over the states that a few overlap- *)
(* ping polls of two symbols reach, and of the liquidation stream.         *)

LOCAL Der == INSTANCE Derivatives WITH Symbols <- <<"a", "b">>
LOCAL MaxPolls == 3

LOCAL Answers(d, i) ==
  IF d.polls[i].waits = 0 THEN {Der!PricesCame(d, i), Der!PricesFailed(d, i)}
  ELSE {Der!InterestAnswered(d, i, ok) : ok \in BOOLEAN}
LOCAL Successors(d) ==
  UNION {Answers(d, i) : i \in DOMAIN d.polls}
  \cup {e \in {Der!Start(d), Der!IntervalFires(d), Der!Stop(d)} : e.asked <= MaxPolls}
LOCAL Reach(Allowed(_)) ==
  LET reach[n \in 0 .. 12] ==
        IF n = 0 THEN {Der!Idle}
        ELSE LET before == reach[n - 1]
             IN  before \cup {e \in UNION {Successors(d) : d \in before} : Allowed(e)}
  IN  reach[12]
LOCAL Reachable == Reach(LAMBDA d : TRUE)
(* What is reached when no poll starts before the last one ended.          *)
LOCAL InTurn == Reach(LAMBDA d : Len(d.polls) <= 1)

LOCAL Updates(d) == {<<s, d.shown[s]>> : s \in {"a", "b"}}

(* What is flagged stale shows no value, and an open interest is shown     *)
(* with the prices of the poll that asked for it.                          *)
ASSUME StaleShowsNothing ==
  \A d \in Reachable : \A u \in Updates(d) :
    /\ u[2].stale => u[2].values = {}
    /\ u[2].interest \subseteq u[2].values

(* The comment on a failed poll says it keeps the last known values and    *)
(* flags them stale after two misses (binanceDerivatives.ts:112): the first*)
(* miss takes every value away, and calls the absence fresh.               *)
ASSUME TheFirstMissForgets ==
  /\ \A d \in Reachable : \A i \in DOMAIN d.polls :
       d.polls[i].waits = 0 => \A u \in Updates(Der!PricesFailed(d, i)) : u[2].values = {}
  /\ \E d \in InTurn : \E u \in Updates(d) :
       u[2].values = {} /\ ~u[2].stale /\ u[2].poll > 1

(* Answers that overtake each other leave an older poll's values over a    *)
(* newer one's; polls in turn never do, whatever fails among them.         *)
LOCAL Back(d, e) == \E s \in {"a", "b"} : e.shown[s].poll < d.shown[s].poll
ASSUME OnlyOverlapsGoBack ==
  /\ \A d \in InTurn : \A e \in Successors(d) : ~Back(d, e)
  /\ \E d \in Reachable : \E e \in Successors(d) : Back(d, e)

(* A poll under way when the server stops the poller still reaches the     *)
(* sessions (index.ts:226 says no update does).                            *)
ASSUME APollOutlivesStop ==
  \E d \in Reachable : ~d.running /\ \E e \in Successors(d) : Updates(e) # Updates(d)

(* A forced order is read only whole, for the symbols asked for, and as    *)
(* the position it closed.                                                 *)
LOCAL Frames ==
  [symbol : {{}, {"a"}, {"x"}}, side : {{}, {"SELL"}, {"BUY"}, {"?"}}, quantity : {{}, {0}, {2}},
   price : {{}, {1}}, event : {"forceOrder", "other"}]
ASSUME LiquidationsAreWhole ==
  \A frame \in Frames :
    LET forced == Der!OnMessage(TRUE, {"a", "b"}, frame)
        whole == frame.symbol = {"a"} /\ frame.side \in {{"SELL"}, {"BUY"}}
                 /\ frame.quantity = {2} /\ frame.price = {1} /\ frame.event = "forceOrder"
    IN  /\ Cardinality(forced) = IF whole THEN 1 ELSE 0
        /\ \A event \in forced : (event.side = "long") = (frame.side = {"SELL"})
        /\ Der!OnMessage(FALSE, {"a"}, frame) = {}
=============================================================================
