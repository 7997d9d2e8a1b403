-------------------------- MODULE DepthStreamProofs --------------------------
(***************************************************************************)
(* Lemmas about the book's operators and the exchange's stream, for every  *)
(* tick set and every exchange history: what the level lists do to a side, *)
(* what applyUpdate() can do to a book, what a genuine snapshot and a      *)
(* genuine event do to a faithful one.  The modules that prove about the   *)
(* book, the feed and the gateway cite them.                               *)
(***************************************************************************)
EXTENDS DepthStream, SequencesExt, FiniteSetTheorems, WellFoundedInduction, TLAPS

-----------------------------------------------------------------------------
(* Induction.  The theorems of the library that take a predicate cannot be *)
(* instantiated here; these ones take the set of the values it holds of.   *)

LEMMA LeastElement ==
  ASSUME NEW T, T \subseteq Nat, T # {}
  PROVE  \E m \in T : \A k \in T : m <= k
<1> DEFINE F == {0 .. n : n \in T}
           R == StrictSubsetOrdering(Int)
<1>1. F \subseteq FiniteSubsetsOf(Int) /\ F # {}
  <2>1. \A n \in T : IsFiniteSet(0 .. n) /\ 0 .. n \in SUBSET Int
    BY FS_Interval
  <2> QED BY <2>1 DEF FiniteSubsetsOf
<1>2. IsWellFoundedOn(R, FiniteSubsetsOf(Int))
  BY FS_StrictSubsetOrderingWellFounded
<1>3. PICK x \in F : \A y \in F : <<y, x>> \notin R
  <2> HIDE DEF F, R
  <2> QED BY <1>1, <1>2, WFMin
<1>4. PICK m \in T : x = 0 .. m
  OBVIOUS
<1>5. ASSUME NEW k \in T, k < m PROVE FALSE
  <2>1. m \in Nat /\ k \in Nat /\ 0 .. k \in F
    OBVIOUS
  <2>2. 0 .. k \subseteq 0 .. m /\ m \in 0 .. m /\ m \notin 0 .. k
    BY <1>5, <2>1
  <2>3. <<0 .. k, 0 .. m>> \in (SUBSET Int) \X (SUBSET Int)
    BY <2>1
  <2>4. <<0 .. k, 0 .. m>> \in R
    BY <2>2, <2>3 DEF StrictSubsetOrdering
  <2> QED BY <1>3, <1>4, <2>1, <2>4
<1>6. \A k \in T : m <= k
  BY <1>5
<1> QED BY <1>6

(* T stands for the numbers up to n that a property holds of. *)
LEMMA IntervalInduction ==
  ASSUME NEW n \in Nat, NEW T, 0 \in T, \A k \in 1 .. n : k - 1 \in T => k \in T
  PROVE  0 .. n \subseteq T
<1> SUFFICES ASSUME (0 .. n) \ T # {} PROVE FALSE
  OBVIOUS
<1>1. PICK m \in (0 .. n) \ T : \A k \in (0 .. n) \ T : m <= k
  <2>1. (0 .. n) \ T \subseteq Nat
    OBVIOUS
  <2> QED BY <2>1, LeastElement
<1>2. m \in 1 .. n /\ m - 1 \in 0 .. n
  OBVIOUS
<1>3. m - 1 \in T
  BY <1>1, <1>2
<1> QED BY <1>2, <1>3

LEMMA GreatestElement ==
  ASSUME NEW n \in Nat, NEW s \in SUBSET (1 .. n), s # {}
  PROVE  /\ Max(s) \in s /\ \A k \in s : k <= Max(s)
<1> DEFINE T == {n - k : k \in s}
<1>1. T \subseteq Nat /\ T # {}
  <2>1. \A k \in s : n - k \in Nat
    OBVIOUS
  <2> QED BY <2>1
<1>2. PICK d \in T : \A e \in T : d <= e
  BY <1>1, LeastElement
<1>3. PICK m \in s : d = n - m
  OBVIOUS
<1>4. ASSUME NEW k \in s PROVE m >= k
  <2>1. n - k \in T
    OBVIOUS
  <2> QED BY <1>2, <1>3, <2>1
<1>5. Max(s) \in s /\ \A k \in s : Max(s) >= k
  BY <1>3, <1>4 DEF Max
<1> QED BY <1>5

(* The recursion by which FoldLeft() is defined has a solution: the set of *)
(* indices 1..n is taken apart from its greatest element.                  *)
Recursion(n, V, base, step) ==
  \E g \in [SUBSET (1 .. n) -> V] :
    \A s \in SUBSET (1 .. n) :
      g[s] = IF s = {} THEN base ELSE step[Max(s)][g[s \ {Max(s)}]]

LEMMA FoldRecursion ==
  ASSUME NEW n \in Nat, NEW V, NEW base \in V, NEW step \in [1 .. n -> [V -> V]]
  PROVE  Recursion(n, V, base, step)
<1> DEFINE Solves(g, k) == \A s \in SUBSET (1 .. k) :
                             g[s] = IF s = {} THEN base ELSE step[Max(s)][g[s \ {Max(s)}]]
           T == {k \in 0 .. n : \E g \in [SUBSET (1 .. k) -> V] : Solves(g, k)}
<1>1. 0 \in T
  <2> DEFINE g == [s \in SUBSET (1 .. 0) |-> base]
  <2>1. 1 .. 0 = {}
    OBVIOUS
  <2>2. g \in [SUBSET (1 .. 0) -> V]
    OBVIOUS
  <2>3. Solves(g, 0)
    BY <2>1
  <2>4. \E x \in [SUBSET (1 .. 0) -> V] : Solves(x, 0)
    BY <2>2, <2>3
  <2>5. 0 \in 0 .. n
    OBVIOUS
  <2> HIDE DEF Solves, g
  <2> QED BY <2>4, <2>5
<1>2. ASSUME NEW k \in 1 .. n, k - 1 \in T PROVE k \in T
  <2>1. PICK g \in [SUBSET (1 .. (k - 1)) -> V] : Solves(g, k - 1)
    BY <1>2
  <2> DEFINE h == [s \in SUBSET (1 .. k) |->
                     IF k \in s THEN step[k][g[s \ {k}]] ELSE g[s]]
  <2>2. \A s \in SUBSET (1 .. k) : s \ {k} \in SUBSET (1 .. (k - 1))
                                   /\ (k \notin s => s \in SUBSET (1 .. (k - 1)))
    OBVIOUS
  <2>3. h \in [SUBSET (1 .. k) -> V]
    <3> SUFFICES ASSUME NEW s \in SUBSET (1 .. k)
                 PROVE  (IF k \in s THEN step[k][g[s \ {k}]] ELSE g[s]) \in V
      OBVIOUS
    <3>1. g[s \ {k}] \in V /\ (k \notin s => g[s] \in V)
      BY <2>2
    <3> QED BY <3>1
  <2>4. Solves(h, k)
    <3> SUFFICES ASSUME NEW s \in SUBSET (1 .. k)
                 PROVE  h[s] = IF s = {} THEN base ELSE step[Max(s)][h[s \ {Max(s)}]]
      OBVIOUS
    <3>1. CASE k \in s
      <4>0. k \in Nat
        OBVIOUS
      <4>1. Max(s) = k
        <5>1. Max(s) \in s /\ k <= Max(s)
          BY <3>1, <4>0, GreatestElement
        <5>2. Max(s) \in 1 .. k
          BY <5>1
        <5> QED BY <5>1, <5>2
      <4>2. s \ {k} \in SUBSET (1 .. k) /\ k \notin s \ {k}
        OBVIOUS
      <4>3. h[s \ {k}] = g[s \ {k}]
        BY <4>2
      <4>4. h[s] = step[k][g[s \ {k}]]
        BY <3>1
      <4> QED BY <3>1, <4>1, <4>3, <4>4
    <3>2. CASE k \notin s /\ s # {}
      <4>1. s \in SUBSET (1 .. (k - 1)) /\ h[s] = g[s]
        BY <3>2, <2>2
      <4>2. k - 1 \in Nat
        OBVIOUS
      <4>3. Max(s) \in s
        BY <3>2, <4>1, <4>2, GreatestElement
      <4>4. k \notin s \ {Max(s)} /\ s \ {Max(s)} \in SUBSET (1 .. k)
        BY <3>2
      <4>5. h[s \ {Max(s)}] = g[s \ {Max(s)}]
        BY <4>4
      <4> HIDE DEF h
      <4> QED BY <3>2, <4>1, <4>5, <2>1
    <3>3. CASE s = {}
      <4>1. s \in SUBSET (1 .. (k - 1)) /\ h[s] = g[s]
        BY <3>3, <2>2
      <4> HIDE DEF h
      <4> QED BY <3>3, <4>1, <2>1
    <3> QED BY <3>1, <3>2, <3>3
  <2>5. k \in 0 .. n
    OBVIOUS
  <2> HIDE DEF h, Solves
  <2>6. \E x \in [SUBSET (1 .. k) -> V] : Solves(x, k)
    BY <2>3, <2>4
  <2> QED BY <2>5, <2>6
<1>3. 0 .. n \subseteq T
  <2> HIDE DEF T
  <2> QED BY <1>1, <1>2, IntervalInduction
<1>4. n \in T
  <2>1. n \in 0 .. n
    OBVIOUS
  <2> HIDE DEF T
  <2> QED BY <1>3, <2>1
<1> HIDE DEF Solves
<1>5. \E g \in [SUBSET (1 .. n) -> V] : Solves(g, n)
  BY <1>4
<1> QED BY <1>5 DEF Solves, Recursion

(* A solution is read along 1, 1..2, 1..3, ...: one element a step. *)
LEMMA PrefixSplit ==
  ASSUME NEW n \in Nat, NEW k \in 1 .. n
  PROVE  /\ 1 .. k \in SUBSET (1 .. n) /\ 1 .. k # {}
         /\ Max(1 .. k) = k /\ (1 .. k) \ {k} = 1 .. (k - 1)
<1>1. 1 .. k \in SUBSET (1 .. n) /\ k \in 1 .. k
  OBVIOUS
<1>2. Max(1 .. k) \in 1 .. k /\ k <= Max(1 .. k)
  BY <1>1, GreatestElement
<1>3. Max(1 .. k) = k
  BY <1>2
<1>4. (1 .. k) \ {k} = 1 .. (k - 1)
  OBVIOUS
<1> QED BY <1>1, <1>3, <1>4

-----------------------------------------------------------------------------
(* The book's operators. *)

(* Writing valid levels on a side yields a side. *)
LEMMA ApplyLevelsType ==
  ASSUME NEW side \in Sides, NEW levels \in WireLevels,
         \A l \in levels : l.qty >= 0
  PROVE  ApplyLevels(side, levels) \in Sides
<1> SUFFICES ASSUME NEW t \in Ticks
             PROVE  ApplyLevels(side, levels)[t] \in Nat
  BY DEF ApplyLevels, Sides
<1>1. CASE \E l \in levels : l.tick = t
  <2> DEFINE l == CHOOSE x \in levels : x.tick = t
  <2>1. l \in levels
    BY <1>1
  <2>2. l.qty \in Nat
    BY <2>1 DEF WireLevels
  <2> QED BY <1>1, <2>2 DEF ApplyLevels
<1>2. CASE ~ \E l \in levels : l.tick = t
  BY <1>2 DEF ApplyLevels, Sides
<1> QED BY <1>1, <1>2

(* restore() after applyValidated() gives the side captureUndo() saw. *)
LEMMA UndoRestores ==
  ASSUME NEW side \in Sides, NEW levels \in WireLevels
  PROVE  ApplyLevels(ApplyLevels(side, levels), CaptureUndo(side, levels)) = side
<1> DEFINE after == ApplyLevels(side, levels)
           undo == CaptureUndo(side, levels)
           back == ApplyLevels(after, undo)
<1>1. ASSUME NEW t \in Ticks PROVE back[t] = side[t]
  <2>1. CASE \E l \in levels : l.tick = t
    <3>0. PICK l \in levels : l.tick = t
      BY <2>1
    <3>1. \E m \in undo : m.tick = t
      <4> DEFINE w == [tick |-> l.tick, qty |-> side[l.tick]]
      <4>1. w \in undo
        BY DEF CaptureUndo
      <4>2. w.tick = t
        BY <3>0
      <4> QED BY <4>1, <4>2
    <3> DEFINE m == CHOOSE x \in undo : x.tick = t
    <3>2. m \in undo /\ m.tick = t
      BY <3>1
    <3>3. m.qty = side[t]
      <4>1. PICK k \in levels : m = [tick |-> k.tick, qty |-> side[k.tick]]
        BY <3>2 DEF CaptureUndo
      <4> HIDE DEF m
      <4>2. m.tick = k.tick /\ m.qty = side[k.tick]
        BY <4>1
      <4> QED BY <4>2, <3>2
    <3>4. back[t] = m.qty
      BY <3>1 DEF ApplyLevels
    <3> QED BY <3>3, <3>4
  <2>2. CASE ~ \E l \in levels : l.tick = t
    <3>1. ~ \E m \in undo : m.tick = t
      BY <2>2 DEF CaptureUndo
    <3>2. back[t] = after[t]
      BY <3>1 DEF ApplyLevels
    <3>3. after[t] = side[t]
      BY <2>2 DEF ApplyLevels
    <3> QED BY <3>2, <3>3
  <2> QED BY <2>1, <2>2
<1>2. back = [t \in Ticks |-> back[t]]
  BY DEF ApplyLevels
<1>3. side = [t \in Ticks |-> side[t]]
  BY DEF Sides
<1> QED BY <1>1, <1>2, <1>3

(* The three things applyUpdate() can do to a book: nothing, restore it    *)
(* after a crossing, or commit the levels of a well-formed later update.   *)
LEMMA ApplyUpdateCases ==
  ASSUME NEW b \in BookType, NEW u \in UpdateType
  PROVE  LET r == ApplyUpdate(b, u)
             bids == ApplyLevels(b.bids, u.bids)
             asks == ApplyLevels(b.asks, u.asks)
         IN \/ /\ r.status \in {"ignored", "gap", "unsynced", "invalid"}
               /\ r.book = b
            \/ /\ r.status = "applied"
               /\ b.loaded /\ ~RangeMalformed(u)
               /\ u.end > b.updateId
               /\ IF b.bridged THEN ~ChainBroken(b, u) ELSE CanBridge(b, u)
               /\ ValidLevels(u.bids, TRUE) /\ ValidLevels(u.asks, TRUE)
               /\ ~Crossed(bids, asks)
               /\ r.book = [b EXCEPT !.bids = bids, !.asks = asks,
                                     !.updateId = u.end, !.bridged = TRUE,
                                     !.digest = NoDigest]
<1> DEFINE r == ApplyUpdate(b, u)
           bids == ApplyLevels(b.bids, u.bids)
           asks == ApplyLevels(b.asks, u.asks)
           reaches == /\ b.loaded /\ ~RangeMalformed(u) /\ ~(u.end <= b.updateId)
                      /\ ~((b.bridged /\ ChainBroken(b, u)) \/ (~b.bridged /\ ~CanBridge(b, u)))
                      /\ ValidLevels(u.bids, TRUE) /\ ValidLevels(u.asks, TRUE)
<1>0. b.updateId \in Nat /\ u.end \in Int /\ u.start \in Int
      /\ b.bids \in Sides /\ b.asks \in Sides
      /\ u.bids \in WireLevels /\ u.asks \in WireLevels
      /\ b.bridged \in BOOLEAN
  BY DEF BookType, UpdateType
<1>1. CASE ~reaches
  BY <1>1, <1>0 DEF ApplyUpdate, Rejected, AlreadyApplied
<1>2. CASE reaches
  <2>1. r = CommitLevels(b, u)
    BY <1>2 DEF ApplyUpdate, AlreadyApplied
  <2>2. CASE Crossed(bids, asks)
    <3>1. ApplyLevels(bids, CaptureUndo(b.bids, u.bids)) = b.bids
      BY <1>0, UndoRestores
    <3>2. ApplyLevels(asks, CaptureUndo(b.asks, u.asks)) = b.asks
      BY <1>0, UndoRestores
    <3>3. [b EXCEPT !.bids = b.bids, !.asks = b.asks] = b
      BY DEF BookType
    <3>4. r = Rejected([b EXCEPT !.bids = b.bids, !.asks = b.asks], "invalid", "crossed")
      BY <2>1, <2>2, <3>1, <3>2 DEF CommitLevels
    <3> QED BY <3>3, <3>4 DEF Rejected
  <2>3. CASE ~Crossed(bids, asks)
    <3>1. r.status = "applied"
          /\ r.book = [b EXCEPT !.bids = bids, !.asks = asks, !.updateId = u.end,
                                !.bridged = TRUE, !.digest = NoDigest]
      BY <2>1, <2>3 DEF CommitLevels
    <3>2. u.end > b.updateId
      BY <1>2, <1>0
    <3>3. IF b.bridged THEN ~ChainBroken(b, u) ELSE CanBridge(b, u)
      BY <1>2
    <3> QED BY <3>1, <3>2, <3>3, <1>2, <2>3
  <2> QED BY <2>2, <2>3
<1> QED BY <1>1, <1>2

-----------------------------------------------------------------------------
(* A snapshot of the exchange loads as the exchange's side. *)
LEMMA SnapshotLevelsLoad ==
  ASSUME NEW side \in Sides
  PROVE  ApplyLevels(NoLevels, SnapshotLevels(side)) = side
<1> DEFINE levels == SnapshotLevels(side)
           loaded == ApplyLevels(NoLevels, levels)
<1>1. ASSUME NEW t \in Ticks PROVE loaded[t] = side[t]
  <2>1. CASE side[t] > 0
    <3> DEFINE w == [tick |-> t, qty |-> side[t]]
               m == CHOOSE x \in levels : x.tick = t
    <3>1. w \in levels /\ w.tick = t
      BY <2>1 DEF SnapshotLevels
    <3>2. m \in levels /\ m.tick = t
      BY <3>1
    <3>3. loaded[t] = m.qty
      BY <3>1 DEF ApplyLevels
    <3> HIDE DEF m
    <3>4. PICK k \in Ticks : m = [tick |-> k, qty |-> side[k]]
      BY <3>2 DEF SnapshotLevels
    <3>5. m.qty = side[t]
      <4>1. m.tick = k /\ m.qty = side[k]
        BY <3>4
      <4> QED BY <4>1, <3>2
    <3> QED BY <3>3, <3>5
  <2>2. CASE ~(side[t] > 0)
    <3>1. ~ \E x \in levels : x.tick = t
      BY <2>2 DEF SnapshotLevels
    <3>2. loaded[t] = 0
      BY <3>1 DEF ApplyLevels, NoLevels
    <3> QED BY <2>2, <3>2 DEF Sides
  <2> QED BY <2>1, <2>2
<1>2. loaded = [t \in Ticks |-> loaded[t]]
  BY DEF ApplyLevels
<1> QED BY <1>1, <1>2 DEF Sides

(* The levels of an event, written on the exchange's side at any change    *)
(* number the event's range reaches back to, give the side at its end.     *)
LEMMA EventAdvances ==
  ASSUME NEW side \in [0 .. LastSeq -> Sides],
         NEW from \in 0 .. LastSeq, NEW to \in 0 .. LastSeq, NEW at \in from .. to
  PROVE  ApplyLevels(side[at], FinalLevels(side, from, to)) = side[to]
<1> DEFINE levels == FinalLevels(side, from, to)
           written == ApplyLevels(side[at], levels)
<1>0. at \in 0 .. LastSeq /\ side[at] \in Sides /\ side[to] \in Sides
  BY DepthStreamAssumption
<1>1. ASSUME NEW t \in Ticks PROVE written[t] = side[to][t]
  <2>1. CASE t \in Touched(side, from, to)
    <3> DEFINE w == [tick |-> t, qty |-> side[to][t]]
               m == CHOOSE x \in levels : x.tick = t
    <3>1. w \in levels /\ w.tick = t
      BY <2>1 DEF FinalLevels
    <3>2. m \in levels /\ m.tick = t
      BY <3>1
    <3>3. written[t] = m.qty
      BY <3>1 DEF ApplyLevels
    <3> HIDE DEF m
    <3>4. PICK k \in Ticks : m = [tick |-> k, qty |-> side[to][k]]
      BY <3>2 DEF FinalLevels, Touched
    <3>5. m.qty = side[to][t]
      <4>1. m.tick = k /\ m.qty = side[to][k]
        BY <3>4
      <4> QED BY <4>1, <3>2
    <3> QED BY <3>3, <3>5
  <2>2. CASE t \notin Touched(side, from, to)
    <3>1. ~ \E x \in levels : x.tick = t
      BY <2>2 DEF FinalLevels
    <3>2. written[t] = side[at][t]
      BY <3>1 DEF ApplyLevels
    <3>3. side[at][t] = side[to][t]
      BY <2>2 DEF Touched
    <3> QED BY <3>2, <3>3
  <2> QED BY <2>1, <2>2
<1>2. written = [t \in Ticks |-> written[t]]
  BY DEF ApplyLevels
<1> QED BY <1>0, <1>1, <1>2 DEF Sides

(* What a genuine event is, field by field. *)
LEMMA StreamUpdateShape ==
  ASSUME NEW u \in StreamUpdates
  PROVE  \E from \in 0 .. LastSeq :
           /\ u.start \in 1 .. LastSeq /\ u.end \in u.start .. LastSeq
           /\ from < u.start
           /\ u.prev = NoPrev \/ u.prev = from
           /\ u.bids = FinalLevels(BidsAt, from, u.end)
           /\ u.asks = FinalLevels(AsksAt, from, u.end)
<1>1. PICK f \in Framings : u = Event(f, f.from) \/ u = Event(f, NoPrev)
  BY DEF StreamUpdates
<1>2. /\ u.start = f.start /\ u.end = f.end /\ u.prev \in {f.from, NoPrev}
      /\ u.bids = FinalLevels(BidsAt, f.from, f.end)
      /\ u.asks = FinalLevels(AsksAt, f.from, f.end)
  BY <1>1 DEF Event
<1>3. /\ f.from \in 0 .. LastSeq /\ f.start \in 1 .. LastSeq /\ f.end \in 1 .. LastSeq
      /\ f.from < f.start /\ f.start <= f.end
  BY DEF Framings
<1>4. f.end \in f.start .. LastSeq
  BY <1>3, DepthStreamAssumption
<1> QED BY <1>2, <1>3, <1>4

LEMMA TruthTypes ==
  /\ BidsAt \in [0 .. LastSeq -> Sides] /\ AsksAt \in [0 .. LastSeq -> Sides]
  /\ \A n \in 0 .. LastSeq : BidsAt[n] = Truth[n].bids /\ AsksAt[n] = Truth[n].asks
BY DepthStreamAssumption DEF BidsAt, AsksAt

(* An event whose range covers the book's next change takes a faithful     *)
(* book to the exchange's book at the event's end.                         *)
LEMMA GenuineEventTracks ==
  ASSUME NEW b \in BookType, NEW u \in StreamUpdates,
         b.updateId \in 0 .. LastSeq,
         b.bids = Truth[b.updateId].bids, b.asks = Truth[b.updateId].asks,
         b.updateId < u.end,
         u.prev = b.updateId \/ u.start <= b.updateId + 1
  PROVE  /\ ApplyLevels(b.bids, u.bids) = Truth[u.end].bids
         /\ ApplyLevels(b.asks, u.asks) = Truth[u.end].asks
         /\ u.end \in 0 .. LastSeq
<1>1. PICK from \in 0 .. LastSeq :
           /\ u.start \in 1 .. LastSeq /\ u.end \in u.start .. LastSeq
           /\ from < u.start
           /\ u.prev = NoPrev \/ u.prev = from
           /\ u.bids = FinalLevels(BidsAt, from, u.end)
           /\ u.asks = FinalLevels(AsksAt, from, u.end)
  BY StreamUpdateShape
<1>2. u.end \in 0 .. LastSeq /\ b.updateId \in from .. u.end
  BY <1>1, DepthStreamAssumption, OrderBookAssumption
<1>3. \A side \in [0 .. LastSeq -> Sides] :
        ApplyLevels(side[b.updateId], FinalLevels(side, from, u.end)) = side[u.end]
  BY <1>2, EventAdvances
<1>4. ApplyLevels(BidsAt[b.updateId], u.bids) = BidsAt[u.end]
  BY <1>1, <1>3, TruthTypes
<1>5. ApplyLevels(AsksAt[b.updateId], u.asks) = AsksAt[u.end]
  BY <1>1, <1>3, TruthTypes
<1> QED BY <1>2, <1>4, <1>5, TruthTypes

(* The levels of a genuine event pass validateLevels().                    *)
LEMMA FinalLevelsValid ==
  ASSUME NEW side \in [0 .. LastSeq -> Sides],
         NEW from \in 0 .. LastSeq, NEW to \in 0 .. LastSeq
  PROVE  ValidLevels(FinalLevels(side, from, to), TRUE)
<1> DEFINE levels == FinalLevels(side, from, to)
<1>1. ASSUME NEW l \in levels
      PROVE  l.tick \in Ticks /\ l.qty = side[to][l.tick] /\ l.qty >= 0
  <2>1. PICK t \in Ticks : l = [tick |-> t, qty |-> side[to][t]]
    BY DEF FinalLevels, Touched
  <2>2. l.tick = t /\ l.qty = side[to][t]
    BY <2>1
  <2>3. side[to][t] \in Nat
    BY DEF Sides
  <2> QED BY <2>2, <2>3
<1>2. ASSUME NEW l \in levels, NEW m \in levels, l.tick = m.tick PROVE l = m
  <2>1. PICK t \in Ticks : l = [tick |-> t, qty |-> side[to][t]]
    BY DEF FinalLevels, Touched
  <2>2. PICK s \in Ticks : m = [tick |-> s, qty |-> side[to][s]]
    BY DEF FinalLevels, Touched
  <2>3. l.tick = t /\ m.tick = s
    BY <2>1, <2>2
  <2> QED BY <2>1, <2>2, <2>3, <1>2
<1> QED BY <1>1, <1>2 DEF ValidLevels

(* A level list without repeated ticks is written level for level.         *)
LEMMA ValidLevelsWritten ==
  ASSUME NEW side \in Sides, NEW levels \in WireLevels, ValidLevels(levels, TRUE),
         NEW l \in levels
  PROVE  l.tick \in Ticks /\ ApplyLevels(side, levels)[l.tick] = l.qty
<1> DEFINE m == CHOOSE x \in levels : x.tick = l.tick
<1>1. l.tick \in Ticks
  BY DEF WireLevels
<1>2. m \in levels /\ m.tick = l.tick
  OBVIOUS
<1>3. m = l
  BY <1>2 DEF ValidLevels
<1>4. ApplyLevels(side, levels)[l.tick] = m.qty
  BY <1>1 DEF ApplyLevels
<1> QED BY <1>1, <1>3, <1>4

(* A list of every level of an uncrossed book loads as that book, whatever *)
(* the book loaded over was: the REST snapshot, and the handoff that       *)
(* drainReconciliation() exports.                                          *)
LEMMA WholeBookLoads ==
  ASSUME NEW bids \in Sides, NEW asks \in Sides, ~Crossed(bids, asks), NEW id \in Nat, NEW b
  PROVE  LET s == [lastUpdateId |-> id, bids |-> SnapshotLevels(bids),
                   asks |-> SnapshotLevels(asks)]
         IN /\ SnapshotAcceptable(s)
            /\ LoadSnapshot(b, s) = [bids |-> bids, asks |-> asks, loaded |-> TRUE,
                                     bridged |-> FALSE, updateId |-> id, digest |-> NoDigest]
            /\ LoadSnapshot(b, s) \in BookType
<1> DEFINE s == [lastUpdateId |-> id, bids |-> SnapshotLevels(bids),
                 asks |-> SnapshotLevels(asks)]
<1>1. /\ s.lastUpdateId = id /\ s.bids = SnapshotLevels(bids) /\ s.asks = SnapshotLevels(asks)
  OBVIOUS
<1>2. ASSUME NEW side \in Sides PROVE ValidLevels(SnapshotLevels(side), FALSE)
  <2>1. ASSUME NEW l \in SnapshotLevels(side)
        PROVE  l.tick \in Ticks /\ l.qty = side[l.tick] /\ l.qty >= 1
               /\ l = [tick |-> l.tick, qty |-> side[l.tick]]
    <3>1. PICK t \in Ticks : l = [tick |-> t, qty |-> side[t]] /\ side[t] > 0
      BY DEF SnapshotLevels
    <3>2. l.tick = t /\ l.qty = side[t]
      BY <3>1
    <3>3. side[t] \in Nat
      BY DEF Sides
    <3> QED BY <3>1, <3>2, <3>3
  <2>2. \A l, m \in SnapshotLevels(side) : l.tick = m.tick => l = m
    BY <2>1
  <2> QED BY <2>1, <2>2 DEF ValidLevels
<1>3. ApplyLevels(NoLevels, s.bids) = bids /\ ApplyLevels(NoLevels, s.asks) = asks
  BY <1>1, SnapshotLevelsLoad
<1> HIDE DEF s
<1>4. SnapshotAcceptable(s)
  <2>1. s.lastUpdateId >= 0
    BY <1>1
  <2>2. ValidLevels(s.bids, FALSE) /\ ValidLevels(s.asks, FALSE)
    BY <1>1, <1>2
  <2>3. ~Crossed(ApplyLevels(NoLevels, s.bids), ApplyLevels(NoLevels, s.asks))
    BY <1>3
  <2> QED BY <2>1, <2>2, <2>3 DEF SnapshotAcceptable
<1>5. LoadSnapshot(b, s) = [bids |-> bids, asks |-> asks, loaded |-> TRUE, bridged |-> FALSE,
                            updateId |-> id, digest |-> NoDigest]
  BY <1>1, <1>3, <1>4 DEF LoadSnapshot
<1>6. LoadSnapshot(b, s) \in BookType
  BY <1>5 DEF BookType
<1> QED BY <1>4, <1>5, <1>6 DEF s

(* Two books that differ at most in the cached digest. *)
SameBook(b, c) ==
  /\ b.loaded <=> c.loaded
  /\ b.bridged <=> c.bridged
  /\ b.updateId = c.updateId /\ b.bids = c.bids /\ b.asks = c.asks

(* applyUpdate() does not look at the digest. *)
LEMMA SameBookTakesTheSame ==
  ASSUME NEW b \in BookType, NEW c \in BookType, SameBook(b, c), NEW u \in UpdateType,
         ApplyUpdate(b, u).status = "applied"
  PROVE  /\ ApplyUpdate(c, u).status = "applied"
         /\ SameBook(ApplyUpdate(b, u).book, ApplyUpdate(c, u).book)
<1> DEFINE bids == ApplyLevels(b.bids, u.bids)
           asks == ApplyLevels(b.asks, u.asks)
<1>1. /\ b.loaded /\ ~RangeMalformed(u) /\ u.end > b.updateId
      /\ IF b.bridged THEN ~ChainBroken(b, u) ELSE CanBridge(b, u)
      /\ ValidLevels(u.bids, TRUE) /\ ValidLevels(u.asks, TRUE)
      /\ ~Crossed(bids, asks)
      /\ ApplyUpdate(b, u).book = [b EXCEPT !.bids = bids, !.asks = asks, !.updateId = u.end,
                                            !.bridged = TRUE, !.digest = NoDigest]
  BY ApplyUpdateCases
<1>2. /\ c.loaded /\ c.updateId = b.updateId /\ c.bids = b.bids /\ c.asks = b.asks
      /\ c.bridged <=> b.bridged
  BY <1>1 DEF SameBook
<1>3. c.updateId \in Nat /\ u.end \in Int
  BY DEF BookType, UpdateType
<1>4. IF c.bridged THEN ~ChainBroken(c, u) ELSE CanBridge(c, u)
  BY <1>1, <1>2 DEF ChainBroken, CanBridge
<1>5. ~AlreadyApplied(c, u)
  BY <1>1, <1>2, <1>3 DEF AlreadyApplied
<1>6. ApplyUpdate(c, u) = CommitLevels(c, u)
  BY <1>1, <1>2, <1>4, <1>5 DEF ApplyUpdate
<1>7. /\ ApplyUpdate(c, u).status = "applied"
      /\ ApplyUpdate(c, u).book = [c EXCEPT !.bids = bids, !.asks = asks, !.updateId = u.end,
                                            !.bridged = TRUE, !.digest = NoDigest]
  BY <1>1, <1>2, <1>6 DEF CommitLevels
<1> HIDE DEF bids, asks
<1> DEFINE x == ApplyUpdate(b, u).book
           y == ApplyUpdate(c, u).book
<1>8. /\ x = [bids |-> bids, asks |-> asks, loaded |-> b.loaded, bridged |-> TRUE,
              updateId |-> u.end, digest |-> NoDigest]
      /\ y = [bids |-> bids, asks |-> asks, loaded |-> c.loaded, bridged |-> TRUE,
              updateId |-> u.end, digest |-> NoDigest]
  <2> HIDE DEF x, y
  <2>1. /\ x = [b EXCEPT !.bids = bids, !.asks = asks, !.updateId = u.end,
                         !.bridged = TRUE, !.digest = NoDigest]
        /\ y = [c EXCEPT !.bids = bids, !.asks = asks, !.updateId = u.end,
                         !.bridged = TRUE, !.digest = NoDigest]
    BY <1>1, <1>7 DEF x, y
  <2> QED BY <2>1 DEF BookType
<1> HIDE DEF x, y
<1>9. /\ x.loaded = b.loaded /\ x.bridged = TRUE /\ x.updateId = u.end
      /\ x.bids = bids /\ x.asks = asks
      /\ y.loaded = c.loaded /\ y.bridged = TRUE /\ y.updateId = u.end
      /\ y.bids = bids /\ y.asks = asks
  BY <1>8
<1>10. x.loaded /\ y.loaded
  BY <1>1, <1>2, <1>9
<1> QED BY <1>7, <1>9, <1>10 DEF SameBook, x, y

(* fingerprint() changes nothing that the book shows. *)
LEMMA FingerprintedShape ==
  ASSUME NEW b \in BookType
  PROVE  /\ Fingerprinted(b) \in BookType
         /\ Fingerprinted(b).loaded = b.loaded /\ Fingerprinted(b).bridged = b.bridged
         /\ Fingerprinted(b).updateId = b.updateId
         /\ Fingerprinted(b).bids = b.bids /\ Fingerprinted(b).asks = b.asks
<1> DEFINE v == Fingerprinted(b)
<1>1. v = [b EXCEPT !.digest = Fingerprint(b)]
  BY DEF Fingerprinted
<1>2. Fingerprint(b) \in {NoDigest} \cup (Nat \X Sides \X Sides)
  BY DEF Fingerprint, Digest, BookType
<1> HIDE DEF v
<1>3. v = [bids |-> b.bids, asks |-> b.asks, loaded |-> b.loaded, bridged |-> b.bridged,
           updateId |-> b.updateId, digest |-> Fingerprint(b)]
  BY <1>1 DEF BookType
<1>4. /\ b.bids \in Sides /\ b.asks \in Sides /\ b.loaded \in BOOLEAN /\ b.bridged \in BOOLEAN
      /\ b.updateId \in Nat
  BY DEF BookType
<1>5. v \in BookType
  BY <1>2, <1>3, <1>4 DEF BookType
<1>6. /\ v.loaded = b.loaded /\ v.bridged = b.bridged /\ v.updateId = b.updateId
      /\ v.bids = b.bids /\ v.asks = b.asks
  BY <1>3
<1> QED BY <1>5, <1>6 DEF v

(* An update that continues a book is applied, whatever the book's sides.  *)
Advanced(r, n, bids, asks) ==
  /\ r.status = "applied" /\ r.book \in BookType /\ r.book.loaded
  /\ r.book.updateId = n /\ r.book.bids = bids /\ r.book.asks = asks

LEMMA NextUpdateApplies ==
  ASSUME NEW b \in BookType, NEW u \in UpdateType,
         NEW bids \in Sides, NEW asks \in Sides, ~Crossed(bids, asks),
         bids = ApplyLevels(b.bids, u.bids), asks = ApplyLevels(b.asks, u.asks),
         ValidLevels(u.bids, TRUE), ValidLevels(u.asks, TRUE),
         b.loaded, u.prev = b.updateId, u.start > b.updateId, u.end >= u.start,
         b.bridged \/ u.start = b.updateId + 1
  PROVE  Advanced(ApplyUpdate(b, u), u.end, bids, asks)
<1> DEFINE c == ApplyUpdate(b, u).book
<1>1. b.updateId \in Nat /\ u.start \in Int /\ u.end \in Int /\ u.end \in Nat
      /\ b.loaded \in BOOLEAN
  BY DEF BookType, UpdateType
<1>2. u.prev # NoPrev
  BY <1>1, OrderBookAssumption
<1>3. ~RangeMalformed(u) /\ ~AlreadyApplied(b, u)
  BY <1>1 DEF RangeMalformed, AlreadyApplied
<1>4. ~ChainBroken(b, u) /\ (~b.bridged => CanBridge(b, u))
  BY <1>1, <1>2 DEF ChainBroken, CanBridge
<1>5. ApplyUpdate(b, u) = CommitLevels(b, u)
  BY <1>3, <1>4 DEF ApplyUpdate
<1>6. /\ ApplyUpdate(b, u).status = "applied"
      /\ c = [b EXCEPT !.bids = bids, !.asks = asks, !.updateId = u.end,
                       !.bridged = TRUE, !.digest = NoDigest]
  BY <1>5 DEF CommitLevels
<1> HIDE DEF c
<1>7. c = [bids |-> bids, asks |-> asks, loaded |-> b.loaded, bridged |-> TRUE,
           updateId |-> u.end, digest |-> NoDigest]
  BY <1>6 DEF BookType
<1>8. c \in BookType
  BY <1>1, <1>7 DEF BookType
<1>9. c.loaded = b.loaded /\ c.updateId = u.end /\ c.bids = bids /\ c.asks = asks
  BY <1>7
<1> QED BY <1>6, <1>8, <1>9 DEF Advanced, c

(* ... and one that starts late, on a book no event has bridged yet, is    *)
(* refused as a gap.                                                       *)
LEMMA LateUpdateIsRefused ==
  ASSUME NEW b \in BookType, NEW u \in UpdateType, b.loaded, ~b.bridged,
         u.start > b.updateId + 1, u.end >= u.start
  PROVE  ApplyUpdate(b, u).status = "gap" /\ ApplyUpdate(b, u).book = b
<1>1. b.updateId \in Nat /\ u.start \in Int /\ u.end \in Int
  BY DEF BookType, UpdateType
<1>2. ~RangeMalformed(u) /\ ~AlreadyApplied(b, u) /\ ~CanBridge(b, u)
  BY <1>1 DEF RangeMalformed, AlreadyApplied, CanBridge
<1>3. ApplyUpdate(b, u) = Rejected(b, "gap", GapCode(b, u))
  BY <1>2 DEF ApplyUpdate
<1> QED BY <1>3 DEF Rejected

(* An event of a futures stream, which names its predecessor. *)
LEMMA FramedShape ==
  ASSUME NEW f \in Framings
  PROVE  LET u == Event(f, f.from) IN
         /\ u \in StreamUpdates /\ u \in UpdateType
         /\ u.prev = f.from /\ u.start = f.start /\ u.end = f.end
         /\ f.from \in 0 .. LastSeq /\ f.start \in 1 .. LastSeq
         /\ f.start > f.from /\ f.end \in f.start .. LastSeq
         /\ ValidLevels(u.bids, TRUE) /\ ValidLevels(u.asks, TRUE)
<1> DEFINE from == f.from
           end == f.end
           u == Event(f, from)
<1>1. /\ from \in 0 .. LastSeq /\ f.start \in 1 .. LastSeq /\ end \in 1 .. LastSeq
      /\ from < f.start /\ f.start <= end
  BY DEF Framings
<1>2. end \in f.start .. LastSeq
  BY <1>1, DepthStreamAssumption
<1>3. u \in StreamUpdates
  BY DEF StreamUpdates
<1>4. u = [start |-> f.start, end |-> end, prev |-> from,
           bids |-> FinalLevels(BidsAt, from, end), asks |-> FinalLevels(AsksAt, from, end)]
  BY DEF Event
<1>5. /\ FinalLevels(BidsAt, from, end) \in WireLevels
      /\ FinalLevels(AsksAt, from, end) \in WireLevels
      /\ ValidLevels(FinalLevels(BidsAt, from, end), TRUE)
      /\ ValidLevels(FinalLevels(AsksAt, from, end), TRUE)
  <2> HIDE DEF from, end
  <2>1. end \in 0 .. LastSeq
    BY <1>1, DepthStreamAssumption
  <2>2. ASSUME NEW side \in [0 .. LastSeq -> Sides]
        PROVE  FinalLevels(side, from, end) \in WireLevels
    <3>1. \A t \in Ticks : side[end][t] \in Int
      BY <2>1 DEF Sides
    <3> QED BY <3>1 DEF FinalLevels, Touched, WireLevels
  <2> QED BY <1>1, <2>1, <2>2, TruthTypes, FinalLevelsValid
<1> HIDE DEF from, end
<1> HIDE DEF u
<1>6. u \in UpdateType
  BY <1>1, <1>4, <1>5, DepthStreamAssumption DEF UpdateType
<1>7. u.prev = from /\ u.start = f.start /\ u.end = end
      /\ ValidLevels(u.bids, TRUE) /\ ValidLevels(u.asks, TRUE)
  BY <1>4, <1>5
<1> QED BY <1>1, <1>2, <1>3, <1>6, <1>7 DEF u, from, end
=============================================================================
