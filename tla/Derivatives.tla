----------------------------- MODULE Derivatives -----------------------------
(***************************************************************************)
(* server/feeds/binanceDerivatives.ts and binanceLiquidations.ts: the      *)
(* poller, whose polls wait for one answer after another and may overlap,  *)
(* and the stream of forced orders.  A step is a function of the record    *)
(* Idle describes; shown is what the listener keeps of each symbol         *)
(* (InsightEngine.setDerivatives).  The answers are numbered by the poll   *)
(* that asked, which stands for fetchedAtMs.                               *)
(***************************************************************************)
EXTENDS Integers, SequencesExt

CONSTANT Symbols    \* a sequence: the order in which a poll asks

NoUpdate == [values |-> {}, interest |-> {}, stale |-> TRUE, poll |-> 0]

Idle ==
  [running |-> FALSE, polls |-> <<>>, failures |-> 0, asked |-> 0,
   shown |-> [s \in ToSet(Symbols) |-> NoUpdate]]

(* pollOnce() up to its first await.  waits is the index of the symbol     *)
(* whose open interest it waits for, 0 before the prices came.             *)
PollOnce(d) ==
  IF Symbols = <<>> THEN d
  ELSE [d EXCEPT !.asked = @ + 1,
                 !.polls = Append(@, [id |-> d.asked + 1, waits |-> 0])]

Start(d) ==
  IF d.running \/ Symbols = <<>> THEN d ELSE PollOnce([d EXCEPT !.running = TRUE])

IntervalFires(d) == IF d.running THEN PollOnce(d) ELSE d

(* stop() ends the timer; a poll under way goes on.                        *)
Stop(d) == [d EXCEPT !.running = FALSE]

Emit(d, s, update) == [d EXCEPT !.shown[s] = update]

(* The prices came: they are one object for all symbols.                   *)
PricesCame(d, i) ==
  [d EXCEPT !.failures = 0, !.polls[i].waits = 1]

(* They did not: every symbol loses its values, and is stale from the      *)
(* second miss on.                                                         *)
PricesFailed(d, i) ==
  LET failures == d.failures + 1
      missed == [values |-> {}, interest |-> {}, stale |-> failures >= 2,
                 poll |-> d.polls[i].id]
  IN  FoldLeft(LAMBDA acc, s : Emit(acc, s, missed),
        [d EXCEPT !.failures = failures, !.polls = RemoveAt(@, i)],
        Symbols)

(* fetchOpenInterest() never throws: a failure is no value.                *)
InterestAnswered(d, i, ok) ==
  LET poll == d.polls[i]
      update == [values |-> {poll.id}, interest |-> IF ok THEN {poll.id} ELSE {},
                 stale |-> FALSE, poll |-> poll.id]
      emitted == Emit(d, Symbols[poll.waits], update)
  IN  IF poll.waits = Len(Symbols) THEN [emitted EXCEPT !.polls = RemoveAt(@, i)]
      ELSE [emitted EXCEPT !.polls[i].waits = poll.waits + 1]

-----------------------------------------------------------------------------
(* The liquidation stream.  A frame is what can be read of a message: sets *)
(* of at most one value.                                                   *)

ParseForceOrder(frame) ==
  {[symbol |-> s, side |-> IF side = "SELL" THEN "long" ELSE "short", quantity |-> q] :
     s \in frame.symbol,
     side \in frame.side \cap {"SELL", "BUY"},
     q \in {n \in frame.quantity : frame.event = "forceOrder" /\ frame.price # {} /\ n > 0}}

(* onMessage(): nothing before start() or after stop(), and only the       *)
(* symbols asked for, if any.                                              *)
OnMessage(running, symbols, frame) ==
  {event \in ParseForceOrder(frame) : running /\ (symbols = {} \/ event.symbol \in symbols)}
=============================================================================
