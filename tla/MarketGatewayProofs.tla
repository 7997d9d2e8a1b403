------------------------- MODULE MarketGatewayProofs -------------------------
(***************************************************************************)
(* Theorems about the vertical slice of server/marketGateway.ts, for every *)
(* exchange history, every demo market, every length of the pending queue  *)
(* and any number of faults and starts: what is shown as valid is one      *)
(* source's own book, its listeners know it, and the published status does *)
(* not contradict it.  The feed is the contract DepthFeed, which           *)
(* BinanceFeedProofs proves of the adapter.                                *)
(*                                                                         *)
(* Then theorems about the other end, the page (MarketView), for every     *)
(* recording in order and any number of acts of its user: what it shows is *)
(* current and of what was chosen, and a replay keeps its time.            *)
(***************************************************************************)
EXTENDS MarketGateway, MarketView, DepthStreamProofs

(* A book that shows these levels at this position. *)
Holds(b, n, levels) ==
  /\ b \in BookType /\ b.loaded /\ b.updateId = n
  /\ b.bids = levels.bids /\ b.asks = levels.asks

-----------------------------------------------------------------------------
(* Books. *)

LEMMA DemoTypes ==
  ASSUME NEW n \in Nat
  PROVE  /\ DemoBook(n).bids \in Sides /\ DemoBook(n).asks \in Sides
         /\ ~Crossed(DemoBook(n).bids, DemoBook(n).asks)
<1>1. n % 2 \in {0, 1}
  OBVIOUS
<1> QED BY <1>1, GatewayAssumption DEF DemoBook

LEMMA TruthLevels ==
  ASSUME NEW n \in 0 .. LastSeq
  PROVE  /\ Truth[n].bids \in Sides /\ Truth[n].asks \in Sides
         /\ ~Crossed(Truth[n].bids, Truth[n].asks)
BY DepthStreamAssumption

LEMMA FingerprintedHolds ==
  ASSUME NEW b, NEW n, NEW levels, Holds(b, n, levels)
  PROVE  Holds(Fingerprinted(b), n, levels)
BY FingerprintedShape DEF Holds

LEMMA WholeBookHolds ==
  ASSUME NEW n \in Nat, NEW levels, levels.bids \in Sides, levels.asks \in Sides,
         ~Crossed(levels.bids, levels.asks), NEW b, NEW s,
         s = [lastUpdateId |-> n, bids |-> SnapshotLevels(levels.bids),
              asks |-> SnapshotLevels(levels.asks)]
  PROVE  Holds(LoadSnapshot(b, s), n, levels)
<1> DEFINE c == LoadSnapshot(b, s)
<1>1. /\ c = [bids |-> levels.bids, asks |-> levels.asks, loaded |-> TRUE,
              bridged |-> FALSE, updateId |-> n, digest |-> NoDigest]
      /\ c \in BookType
  BY WholeBookLoads
<1> HIDE DEF c
<1>2. c.loaded /\ c.updateId = n /\ c.bids = levels.bids /\ c.asks = levels.asks
  BY <1>1
<1> QED BY <1>1, <1>2 DEF Holds, c

(* The demo feed rewrites every tick at every step. *)
LEMMA AllLevelsLoad ==
  ASSUME NEW side \in Sides, NEW old \in Sides
  PROVE  /\ AllLevels(side) \in WireLevels /\ ValidLevels(AllLevels(side), TRUE)
         /\ ApplyLevels(old, AllLevels(side)) = side
<1> DEFINE levels == AllLevels(side)
<1>1. \A l \in levels : l.tick \in Ticks /\ l.qty = side[l.tick] /\ l.qty \in Nat
  BY DEF AllLevels, Sides
<1>2. \A t \in Ticks : [tick |-> t, qty |-> side[t]] \in levels
  BY DEF AllLevels
<1>3. levels \in WireLevels
  BY DEF AllLevels, WireLevels, Sides
<1>4. \A l, m \in levels : l.tick = m.tick => l = m
  BY DEF AllLevels
<1> HIDE DEF levels
<1>5. ValidLevels(levels, TRUE)
  BY <1>1, <1>4 DEF ValidLevels
<1>6. \A t \in Ticks : ApplyLevels(old, levels)[t] = side[t]
  <2> TAKE t \in Ticks
  <2>1. [tick |-> t, qty |-> side[t]].tick = t
    OBVIOUS
  <2>2. PICK l \in levels : l.tick = t
    BY <1>2, <2>1
  <2> QED BY <1>1, <1>3, <1>5, <2>2, ValidLevelsWritten
<1>7. ApplyLevels(old, levels) = side
  BY <1>6 DEF ApplyLevels, Sides
<1> QED BY <1>3, <1>5, <1>7 DEF levels

(* processSnapshot("demo", ...) and processDepth("demo", ...). *)
LEMMA DemoSnapshotHolds ==
  ASSUME NEW n \in Nat
  PROVE  Holds(Fingerprinted(LoadSnapshot(EmptyBook, DemoSnapshot(n))), n, DemoBook(n))
<1>1. Holds(LoadSnapshot(EmptyBook, DemoSnapshot(n)), n, DemoBook(n))
  BY DemoTypes, WholeBookHolds DEF DemoSnapshot
<1> QED BY <1>1, FingerprintedHolds

LEMMA DemoUpdateHolds ==
  ASSUME NEW n \in Nat, NEW b, Holds(b, n, DemoBook(n))
  PROVE  LET r == ApplyUpdate(b, DemoUpdate(n + 1)) IN
         r.status = "applied" /\ Holds(r.book, n + 1, DemoBook(n + 1))
<1> DEFINE u == DemoUpdate(n + 1)
           levels == DemoBook(n + 1)
<1>1. /\ b \in BookType /\ b.loaded /\ b.updateId = n /\ b.bids \in Sides /\ b.asks \in Sides
  BY DEF Holds, BookType
<1>2. /\ levels.bids \in Sides /\ levels.asks \in Sides /\ ~Crossed(levels.bids, levels.asks)
  BY DemoTypes
<1> HIDE DEF levels
<1>3. u = [start |-> n + 1, end |-> n + 1, prev |-> n,
           bids |-> AllLevels(levels.bids), asks |-> AllLevels(levels.asks)]
  BY DEF DemoUpdate, levels
<1> HIDE DEF u
<1>4. /\ u.start = n + 1 /\ u.end = n + 1 /\ u.prev = n
      /\ u.bids = AllLevels(levels.bids) /\ u.asks = AllLevels(levels.asks)
  BY <1>3
<1>5. /\ u.bids \in WireLevels /\ u.asks \in WireLevels
      /\ ValidLevels(u.bids, TRUE) /\ ValidLevels(u.asks, TRUE)
      /\ ApplyLevels(b.bids, u.bids) = levels.bids
      /\ ApplyLevels(b.asks, u.asks) = levels.asks
  BY <1>1, <1>2, <1>4, AllLevelsLoad
<1>6. u \in UpdateType
  BY <1>3, <1>4, <1>5 DEF UpdateType
<1>7. u.end >= u.start
  BY <1>4
<1>8. Advanced(ApplyUpdate(b, u), n + 1, levels.bids, levels.asks)
  <2> DEFINE bids == levels.bids
             asks == levels.asks
  <2> HIDE DEF bids, asks
  <2>1. /\ bids \in Sides /\ asks \in Sides /\ ~Crossed(bids, asks)
        /\ bids = ApplyLevels(b.bids, u.bids) /\ asks = ApplyLevels(b.asks, u.asks)
    BY <1>2, <1>5 DEF bids, asks
  <2>2. u.prev = b.updateId /\ u.start = b.updateId + 1 /\ u.start > b.updateId
    BY <1>1, <1>4
  <2> QED BY <1>1, <1>4, <1>5, <1>6, <1>7, <2>1, <2>2, NextUpdateApplies DEF bids, asks
<1> QED BY <1>8 DEF Advanced, Holds, u, levels

(* The events of the feed: of a futures stream, each naming its predecessor. *)
Updates == {Event(f, f.from) : f \in Framings}

LEMMA UpdateShape ==
  ASSUME NEW u \in Updates
  PROVE  /\ u \in StreamUpdates /\ u \in UpdateType
         /\ u.prev \in 0 .. LastSeq /\ u.end \in 1 .. LastSeq /\ u.prev < u.end
         /\ u.start \in Int /\ u.prev < u.start /\ u.end >= u.start
         /\ ValidLevels(u.bids, TRUE) /\ ValidLevels(u.asks, TRUE)
<1>1. PICK f \in Framings : u = Event(f, f.from)
  BY DEF Updates
<1>2. /\ u \in StreamUpdates /\ u \in UpdateType
      /\ u.prev = f.from /\ u.start = f.start /\ u.end = f.end
      /\ f.from \in 0 .. LastSeq /\ f.start \in 1 .. LastSeq
      /\ f.start > f.from /\ f.end \in f.start .. LastSeq
      /\ ValidLevels(u.bids, TRUE) /\ ValidLevels(u.asks, TRUE)
  BY <1>1, FramedShape
<1>3. /\ f.from \in 0 .. LastSeq /\ f.start \in Int /\ f.end \in 1 .. LastSeq
      /\ f.start > f.from /\ f.end >= f.start /\ f.from < f.end
  BY <1>2, DepthStreamAssumption
<1> QED BY <1>2, <1>3

(* processDepth("binance", ...): an event that continues the book is       *)
(* applied, or refused for its late start, and the book left alone.        *)
LEMMA DeliveryHolds ==
  ASSUME NEW u \in Updates, NEW b, Holds(b, u.prev, Truth[u.prev])
  PROVE  LET r == ApplyUpdate(b, u) IN
         \/ r.status = "applied" /\ Holds(r.book, u.end, Truth[u.end])
         \/ r.status = "gap"
<1>1. /\ u \in StreamUpdates /\ u \in UpdateType
      /\ u.prev \in 0 .. LastSeq /\ u.end \in 1 .. LastSeq /\ u.prev < u.end
      /\ u.start \in Int /\ u.prev < u.start /\ u.end >= u.start
      /\ ValidLevels(u.bids, TRUE) /\ ValidLevels(u.asks, TRUE)
  BY UpdateShape
<1>2. /\ b \in BookType /\ b.loaded /\ b.updateId = u.prev
      /\ b.bids = Truth[u.prev].bids /\ b.asks = Truth[u.prev].asks
  BY DEF Holds
<1>3. CASE b.bridged \/ u.start = u.prev + 1
  <2> DEFINE bids == Truth[u.end].bids
             asks == Truth[u.end].asks
  <2>1. bids = ApplyLevels(b.bids, u.bids) /\ asks = ApplyLevels(b.asks, u.asks)
    BY <1>1, <1>2, GenuineEventTracks
  <2>2. bids \in Sides /\ asks \in Sides /\ ~Crossed(bids, asks)
    BY <1>1, TruthLevels
  <2>3. Advanced(ApplyUpdate(b, u), u.end, bids, asks)
    <3> HIDE DEF bids, asks
    <3> QED BY <1>1, <1>2, <1>3, <2>1, <2>2, NextUpdateApplies
  <2> QED BY <2>3 DEF Advanced, Holds
<1>4. CASE ~b.bridged /\ u.start > u.prev + 1
  BY <1>1, <1>2, <1>4, LateUpdateIsRefused
<1>5. u.start >= u.prev + 1
  BY <1>1
<1>6. b.bridged \in BOOLEAN
  BY <1>2 DEF BookType
<1> QED BY <1>1, <1>3, <1>4, <1>5, <1>6

-----------------------------------------------------------------------------
(* The queue kept behind a staged snapshot: the deliveries m + 1 .. h, each *)
(* one continuing the one before it.                                       *)
Chain(m, q, h) ==
  /\ q \in Seq(Updates)
  /\ \A i \in 1 .. Len(q) : q[i].prev = IF i = 1 THEN m ELSE q[i - 1].end
  /\ h = IF Len(q) = 0 THEN m ELSE q[Len(q)].end

LEMMA ChainGrows ==
  ASSUME NEW m, NEW q, NEW h \in 0 .. LastSeq, Chain(m, q, h),
         NEW u \in Updates, u.prev = h
  PROVE  Chain(m, Append(q, u), u.end)
<1> DEFINE p == Append(q, u)
<1>1. q \in Seq(Updates) /\ Len(q) \in Nat
  BY DEF Chain
<1>2. /\ p \in Seq(Updates) /\ Len(p) = Len(q) + 1 /\ p[Len(p)] = u
      /\ \A i \in 1 .. Len(q) : p[i] = q[i]
  BY <1>1
<1>3. ASSUME NEW i \in 1 .. Len(p)
      PROVE  p[i].prev = IF i = 1 THEN m ELSE p[i - 1].end
  <2>1. CASE i \in 1 .. Len(q)
    BY <1>1, <1>2, <2>1 DEF Chain
  <2>2. CASE i = Len(p)
    BY <1>1, <1>2, <2>2 DEF Chain
  <2> QED BY <1>1, <1>2, <2>1, <2>2
<1>4. u.end = IF Len(p) = 0 THEN m ELSE p[Len(p)].end
  BY <1>1, <1>2
<1> QED BY <1>2, <1>3, <1>4 DEF Chain

(* The fold of switchToBinance(), one pending update at a time. *)
Candidates == [book : BookType, ok : BOOLEAN]

LEMMA CommitOneCases ==
  ASSUME NEW acc \in Candidates, NEW u \in UpdateType
  PROVE  /\ CommitOne(acc, u) \in Candidates
         /\ CommitOne(acc, u).ok => acc.ok
         /\ LET r == ApplyUpdate(acc.book, u) IN
            /\ acc.ok /\ r.status = "applied" => CommitOne(acc, u).book = r.book
            /\ CommitOne(acc, u).ok => r.status # "gap"
<1> DEFINE r == ApplyUpdate(acc.book, u)
           c == CommitOne(acc, u)
<1>1. acc.book \in BookType /\ acc.ok \in BOOLEAN
  BY DEF Candidates
<1>2. CASE ~acc.ok \/ r.status = "ignored"
  BY <1>1, <1>2 DEF CommitOne
<1>3. CASE acc.ok /\ r.status # "ignored"
  <2>1. c = [book |-> r.book, ok |-> r.status = "applied"]
    BY <1>3 DEF CommitOne
  <2>2. r.book \in BookType
    <3> DEFINE bids == ApplyLevels(acc.book.bids, u.bids)
               asks == ApplyLevels(acc.book.asks, u.asks)
    <3>1. /\ acc.book.bids \in Sides /\ acc.book.asks \in Sides
          /\ acc.book.updateId \in Nat /\ u.end \in Int
          /\ u.bids \in WireLevels /\ u.asks \in WireLevels
      BY <1>1 DEF BookType, UpdateType
    <3>2. \/ r.book = acc.book
          \/ /\ u.end > acc.book.updateId
             /\ ValidLevels(u.bids, TRUE) /\ ValidLevels(u.asks, TRUE)
             /\ r.book = [acc.book EXCEPT !.bids = bids, !.asks = asks, !.updateId = u.end,
                                          !.bridged = TRUE, !.digest = NoDigest]
      BY <1>1, ApplyUpdateCases
    <3>3. ValidLevels(u.bids, TRUE) => bids \in Sides
      BY <3>1, ApplyLevelsType DEF ValidLevels
    <3>4. ValidLevels(u.asks, TRUE) => asks \in Sides
      BY <3>1, ApplyLevelsType DEF ValidLevels
    <3> HIDE DEF r, bids, asks
    <3>5. CASE r.book = acc.book
      BY <1>1, <3>5
    <3>6. CASE ~(r.book = acc.book)
      <4>1. /\ u.end > acc.book.updateId /\ bids \in Sides /\ asks \in Sides
            /\ r.book = [acc.book EXCEPT !.bids = bids, !.asks = asks, !.updateId = u.end,
                                         !.bridged = TRUE, !.digest = NoDigest]
        BY <3>2, <3>3, <3>4, <3>6
      <4>2. r.book = [bids |-> bids, asks |-> asks, loaded |-> acc.book.loaded,
                      bridged |-> TRUE, updateId |-> u.end, digest |-> NoDigest]
        BY <1>1, <4>1 DEF BookType
      <4>3. u.end \in Nat /\ acc.book.loaded \in BOOLEAN
        BY <1>1, <3>1, <4>1 DEF BookType
      <4> QED BY <4>1, <4>2, <4>3 DEF BookType
    <3> QED BY <3>5, <3>6
  <2> DEFINE applied == r.status = "applied"
  <2>3. applied \in BOOLEAN
    OBVIOUS
  <2>4. c = [book |-> r.book, ok |-> applied]
    BY <2>1
  <2> HIDE DEF r, applied, c
  <2>5. c \in Candidates
    BY <2>2, <2>3, <2>4 DEF Candidates
  <2>6. c.book = r.book /\ c.ok = (r.status = "applied")
    BY <2>4 DEF applied
  <2> QED BY <1>3, <2>5, <2>6 DEF c, r
<1> QED BY <1>1, <1>2, <1>3
LEMMA CommitPrefixes ==
  ASSUME NEW q \in Seq(Updates), NEW base \in Candidates
  PROVE  \E a \in [0 .. Len(q) -> Candidates] :
           /\ a[0] = base
           /\ \A k \in 1 .. Len(q) : a[k] = CommitOne(a[k - 1], q[k])
           /\ FoldLeft(CommitOne, base, q) = a[Len(q)]
<1> DEFINE n == Len(q)
           step == [k \in 1 .. n |-> [acc \in Candidates |-> CommitOne(acc, q[k])]]
           h == CHOOSE f : f = [s \in SUBSET (DOMAIN q) |->
                                  IF s = {} THEN base
                                  ELSE CommitOne(f[s \ {Max(s)}], q[Max(s)])]
<1>1. n \in Nat /\ DOMAIN q = 1 .. n /\ \A k \in 1 .. n : q[k] \in Updates
  OBVIOUS
<1>2. step \in [1 .. n -> [Candidates -> Candidates]]
  BY <1>1, CommitOneCases, UpdateShape
<1>3. PICK g \in [SUBSET (1 .. n) -> Candidates] :
        \A s \in SUBSET (1 .. n) :
          g[s] = IF s = {} THEN base ELSE step[Max(s)][g[s \ {Max(s)}]]
  <2> HIDE DEF n, step, h
  <2>1. Recursion(n, Candidates, base, step)
    BY <1>1, <1>2, FoldRecursion
  <2> QED BY <2>1 DEF Recursion
<1>4. \A s \in SUBSET (1 .. n) : s # {} => Max(s) \in 1 .. n
  <2> HIDE DEF n
  <2> QED BY <1>1, GreatestElement
<1>5. g = [s \in SUBSET (DOMAIN q) |->
             IF s = {} THEN base ELSE CommitOne(g[s \ {Max(s)}], q[Max(s)])]
  <2>1. ASSUME NEW s \in SUBSET (1 .. n)
        PROVE  g[s] = IF s = {} THEN base ELSE CommitOne(g[s \ {Max(s)}], q[Max(s)])
    <3>1. s # {} => g[s \ {Max(s)}] \in Candidates
      BY <1>3
    <3> QED BY <1>3, <1>4, <3>1
  <2> HIDE DEF n
  <2> QED BY <1>1, <1>3, <2>1
<1>6. h = [s \in SUBSET (DOMAIN q) |->
             IF s = {} THEN base ELSE CommitOne(h[s \ {Max(s)}], q[Max(s)])]
  BY <1>5
<1>7. FoldLeft(CommitOne, base, q) = h[DOMAIN q]
  BY Zenon DEF FoldLeft, MapThenFoldSet
<1> HIDE DEF h
<1> DEFINE a == [k \in 0 .. n |-> h[1 .. k]]
           T == {k \in 0 .. n : a[k] \in Candidates}
<1>8. a[0] = base /\ base \in Candidates
  <2>1. 1 .. 0 = {} /\ {} \in SUBSET (DOMAIN q) /\ 0 \in 0 .. n
    BY <1>1
  <2>2. h[{}] = base
    BY <1>6, <2>1
  <2> QED BY <2>1, <2>2
<1>9. ASSUME NEW k \in 1 .. n PROVE a[k] = CommitOne(a[k - 1], q[k])
  <2>1. k \in 0 .. n /\ k - 1 \in 0 .. n
    BY <1>1
  <2>2. /\ 1 .. k \in SUBSET (DOMAIN q) /\ 1 .. k # {}
        /\ Max(1 .. k) = k /\ (1 .. k) \ {k} = 1 .. (k - 1)
    <3> HIDE DEF n
    <3> QED BY <1>1, PrefixSplit
  <2>3. h[1 .. k] = CommitOne(h[1 .. (k - 1)], q[k])
    BY <1>6, <2>2
  <2> QED BY <2>1, <2>3
<1>10. ASSUME NEW k \in 1 .. n, k - 1 \in T PROVE k \in T
  <2>1. a[k - 1] \in Candidates /\ q[k] \in Updates /\ k \in 0 .. n
    BY <1>1, <1>10
  <2>2. a[k] \in Candidates
    <3> HIDE DEF a
    <3> QED BY <1>9, <2>1, CommitOneCases, UpdateShape
  <2> QED BY <2>1, <2>2
<1>11. 0 .. n \subseteq T
  <2>1. 0 \in T
    BY <1>1, <1>8
  <2> HIDE DEF T, n
  <2> QED BY <1>1, <1>10, <2>1, IntervalInduction
<1>12. a \in [0 .. n -> Candidates]
  <2>1. \A k \in 0 .. n : a[k] \in Candidates
    <3> HIDE DEF a
    <3> QED BY <1>11
  <2> QED BY <2>1
<1>13. FoldLeft(CommitOne, base, q) = a[n]
  BY <1>1, <1>7
<1> HIDE DEF a
<1> QED BY <1>8, <1>9, <1>12, <1>13


(* A staged snapshot and an unbroken queue commit to the exchange's book   *)
(* at the end of the queue; switchToBinance() refuses whatever else.       *)
Commits(m, q, h) ==
  Candidate(Reconciliation(m), q).ok => Holds(Candidate(Reconciliation(m), q).book, h, Truth[h])

LEMMA CandidateHolds ==
  ASSUME NEW m \in 0 .. LastSeq, NEW q, NEW h, Chain(m, q, h)
  PROVE  Commits(m, q, h)
<1> DEFINE loaded == LoadSnapshot(EmptyBook, SnapshotAt(m))
           accepted == /\ SnapshotAcceptable(SnapshotAt(m))
                       /\ Fingerprint(loaded) = Reconciliation(m).fingerprint
           base == [book |-> loaded, ok |-> accepted]
           n == Len(q)
           at(k) == IF k = 0 THEN m ELSE q[k].end
<1>1. q \in Seq(Updates) /\ n \in Nat /\ \A k \in 1 .. n : q[k] \in Updates
  BY DEF Chain
<1>2. Holds(loaded, m, Truth[m])
  BY DepthStreamAssumption, TruthLevels, WholeBookHolds DEF SnapshotAt
<1>3. base \in Candidates
  <2>1. accepted \in BOOLEAN
    BY DEF SnapshotAcceptable
  <2> HIDE DEF accepted, loaded
  <2> QED BY <1>2, <2>1 DEF Candidates, Holds
<1>4. base.book = loaded
  OBVIOUS
<1>5. Candidate(Reconciliation(m), q) = FoldLeft(CommitOne, base, q)
  BY DEF Candidate, Reconciliation
<1> HIDE DEF base, loaded
<1>6. PICK a \in [0 .. n -> Candidates] :
        /\ a[0] = base
        /\ \A k \in 1 .. n : a[k] = CommitOne(a[k - 1], q[k])
        /\ FoldLeft(CommitOne, base, q) = a[n]
  BY <1>1, <1>3, CommitPrefixes
<1> DEFINE T == {k \in 0 .. n : /\ at(k) \in 0 .. LastSeq
                                /\ a[k].ok => Holds(a[k].book, at(k), Truth[at(k)])}
<1>7. 0 \in T
  BY <1>1, <1>2, <1>4, <1>6
<1>8. ASSUME NEW k \in 1 .. n, k - 1 \in T PROVE k \in T
  <2> HIDE DEF n
  <2> DEFINE u == q[k]
             acc == a[k - 1]
             from == at(k - 1)
  <2>1. k \in 0 .. n /\ k - 1 \in 0 .. n /\ k # 0
    BY <1>1
  <2>2. u \in Updates /\ acc \in Candidates
    BY <1>1, <1>6, <2>1
  <2>3. u.prev = from
    BY <1>1, <2>1 DEF Chain, n
  <2>4. u.end \in 1 .. LastSeq /\ u \in UpdateType
    BY <2>2, UpdateShape
  <2>5. acc.ok => Holds(acc.book, from, Truth[from])
    BY <1>8
  <2>6. a[k] = CommitOne(acc, u)
    BY <1>6
  <2> HIDE DEF u, acc, from
  <2>7. a[k].ok => Holds(a[k].book, u.end, Truth[u.end])
    <3> SUFFICES ASSUME a[k].ok PROVE Holds(a[k].book, u.end, Truth[u.end])
      OBVIOUS
    <3>1. acc.ok
      BY <2>2, <2>4, <2>6, CommitOneCases
    <3>2. ApplyUpdate(acc.book, u).status # "gap"
      BY <2>2, <2>4, <2>6, CommitOneCases
    <3>3. LET r == ApplyUpdate(acc.book, u) IN
          r.status = "applied" /\ Holds(r.book, u.end, Truth[u.end])
      BY <2>2, <2>3, <2>5, <3>1, <3>2, DeliveryHolds
    <3>4. a[k].book = ApplyUpdate(acc.book, u).book
      BY <2>2, <2>4, <2>6, <3>1, <3>3, CommitOneCases
    <3> QED BY <3>3, <3>4
  <2>8. at(k) = u.end /\ u.end \in 0 .. LastSeq
    BY <2>1, <2>4 DEF u
  <2> QED BY <2>1, <2>7, <2>8
<1>9. n \in T
  <2>1. n \in Nat
    BY <1>1
  <2> HIDE DEF T, n
  <2>2. 0 .. n \subseteq T
    BY <2>1, <1>7, <1>8, IntervalInduction
  <2> QED BY <2>1, <2>2
<1>10. h = at(n)
  BY DEF Chain
<1> HIDE DEF n
<1>11. a[n].ok => Holds(a[n].book, h, Truth[h])
  BY <1>9, <1>10
<1> QED BY <1>5, <1>6, <1>11 DEF Commits

-----------------------------------------------------------------------------
(* The inductive invariant.  What the theorems say of a quiet gateway is   *)
(* not inductive: between a feed's step and the last of its handlers, the  *)
(* market, the feed and the events under way have to fit together.         *)

Down == {"connecting", "syncing", "reconnecting", "error"}
Told(frozen) == audience = [session |-> session.id, frozen |-> frozen]

DemoShown ==
  /\ source = "demo" /\ Valid /\ currentStatus = "demo"
  /\ session.id \in {Uuid(k) : k \in Nat}
  /\ Told(FALSE) /\ Holds(book, demoSeq, DemoBook(demoSeq))

NothingShown == source = "binance" /\ ~Valid /\ currentStatus \notin {"live", "demo"} /\ Told(TRUE)

BinanceShown(n) ==
  /\ source = "binance" /\ Valid /\ currentStatus = "live"
  /\ session.id = BinanceSession(gen)
  /\ Told(FALSE) /\ Holds(book, n, Truth[n])

Waiting == DemoShown \/ NothingShown

(* The feed's hand-over and what followed it, up to change number h.       *)
StagedAt(h) ==
  NothingStaged \/ \E m \in 0 .. LastSeq : staged = Reconciliation(m) /\ Chain(m, pending, h)

Fields ==
  /\ gen \in Nat /\ head \in 0 .. LastSeq /\ demoSeq \in Nat /\ minted \in Nat
  /\ live => ready
  /\ ready => running /\ ~retry /\ status.state \in {"syncing", "live"}
  /\ running => started

(* Nothing is under way: a live feed is shown, any other is waited for.    *)
Settled ==
  IF started
  THEN /\ IF live THEN BinanceShown(head) ELSE Waiting
       /\ ready /\ ~live => StagedAt(head)
  ELSE ~running

(* The feed lost its connection, or the attempt at one failed at once.     *)
Untold(g) == source = "binance" /\ (Valid \/ session.id # BinanceSession(g) \/ Told(TRUE))

Falling ==
  /\ ~ready /\ ~live
  /\ \/ \E s \in Down : emitted = <<StatusEvent(s, gen)>> /\ (DemoShown \/ Untold(gen))
     \/ \E s, t \in Down : /\ emitted = <<StatusEvent(s, gen - 1), StatusEvent(t, gen)>>
                           /\ DemoShown \/ Untold(gen - 1)

(* The feed handed a book over; it went live; it delivered a change.       *)
HandedOver ==
  /\ ready /\ Waiting
  /\ emitted = IF live THEN <<Reconciled(head), StatusEvent("live", gen)>>
               ELSE <<Reconciled(head)>>

WentLive == ready /\ live /\ Waiting /\ emitted = <<StatusEvent("live", gen)>> /\ StagedAt(head)

Delivered ==
  /\ ready
  /\ \E f \in Framings :
       /\ f.end = head /\ emitted = <<DepthEvent(f)>>
       /\ IF live THEN BinanceShown(f.from) ELSE Waiting /\ StagedAt(f.from)

IInv ==
  /\ Fields
  /\ \/ Quiet /\ Settled
     \/ running /\ (Falling \/ HandedOver \/ WentLive \/ Delivered)

-----------------------------------------------------------------------------
(* Where the gateway is when a handler runs. *)

LEMMA Queues ==
  ASSUME NEW x, NEW y
  PROVE  /\ <<x>> # <<>> /\ Head(<<x>>) = x /\ Tail(<<x>>) = <<>>
         /\ <<x, y>> # <<>> /\ Head(<<x, y>>) = x /\ Tail(<<x, y>>) = <<y>>
         /\ <<x>> \o <<>> = <<x>>
OBVIOUS

LEMMA EventKinds ==
  ASSUME IInv, emitted # <<>>
  PROVE  /\ running /\ started
         /\ Head(emitted).kind = "reconciled" => HandedOver
         /\ Head(emitted).kind = "depth" => Delivered
         /\ Head(emitted).kind = "status" /\ Head(emitted).state # "live" => Falling
         /\ Head(emitted).kind = "status" /\ Head(emitted).state = "live" => WentLive
<1>1. running /\ started /\ (Falling \/ HandedOver \/ WentLive \/ Delivered)
  BY DEF IInv, Quiet, Fields
<1>2. CASE Falling
  <2>1. PICK s \in Down, g \in {gen, gen - 1} : Head(emitted) = StatusEvent(s, g)
    BY <1>2 DEF Falling
  <2>2. Head(emitted).kind = "status" /\ Head(emitted).state # "live"
    BY <2>1 DEF StatusEvent, Down
  <2> QED BY <1>1, <1>2, <2>2
<1>3. CASE HandedOver
  <2>1. Head(emitted) = Reconciled(head)
    BY <1>3 DEF HandedOver
  <2>2. Head(emitted).kind = "reconciled"
    BY <2>1 DEF Reconciled
  <2> QED BY <1>1, <1>3, <2>2
<1>4. CASE WentLive
  <2>1. Head(emitted) = StatusEvent("live", gen)
    BY <1>4 DEF WentLive
  <2>2. Head(emitted).kind = "status" /\ Head(emitted).state = "live"
    BY <2>1 DEF StatusEvent
  <2> QED BY <1>1, <1>4, <2>2
<1>5. CASE Delivered
  <2>1. PICK f \in Framings : Head(emitted) = DepthEvent(f)
    BY <1>5 DEF Delivered
  <2>2. Head(emitted).kind = "depth"
    BY <2>1 DEF DepthEvent
  <2> QED BY <1>1, <1>5, <2>2
<1> QED BY <1>1, <1>2, <1>3, <1>4, <1>5

LEMMA QuietIsSettled == IInv /\ Quiet => Fields /\ Settled
<1>1. ASSUME Falling \/ HandedOver \/ WentLive \/ Delivered PROVE ~Quiet
  BY <1>1, Queues DEF Falling, HandedOver, WentLive, Delivered, Quiet
<1> QED BY <1>1 DEF IInv

LEMMA WaitingKept ==
  ASSUME UNCHANGED <<market, demoSeq>>
  PROVE  Waiting => Waiting'
BY DEF Waiting, DemoShown, NothingShown, Valid, Told, market

LEMMA WaitingIsUntold ==
  ASSUME Waiting, NEW g
  PROVE  DemoShown \/ Untold(g)
BY DEF Waiting, NothingShown, Untold

(* Whatever takes the feed's connection leaves a queue of statuses that    *)
(* the listeners have not been told of.                                    *)
LEMMA FallsTo ==
  ASSUME gen' \in Nat, head' \in 0 .. LastSeq, demoSeq' \in Nat, minted' \in Nat,
         running', started', ~ready', ~live', NEW s \in Down,
         emitted' = <<StatusEvent(s, gen')>>, DemoShown' \/ Untold(gen)'
  PROVE  IInv'
BY DEF IInv, Fields, Falling

(* requestResync() and restart(), on a market that waits or that is shown. *)
LEMMA DropFalls ==
  ASSUME Fields, started, NEW s \in Down, Feed!Drop(s), minted' \in Nat, demoSeq' \in Nat,
         emitted' = <<StatusEvent(s, gen + 1)>>, UNCHANGED started,
         DemoShown' \/ (source = "binance" /\ Valid)' \/ (source = "binance" /\ Told(TRUE))'
  PROVE  IInv'
<1>1. /\ gen' = gen + 1 /\ gen' \in Nat /\ head' \in 0 .. LastSeq
      /\ running' /\ ~ready' /\ ~live'
  BY DEF Feed!Drop, Feed!BookLost, Fields
<1>2. emitted' = <<StatusEvent(s, gen')>>
  BY <1>1
<1>3. DemoShown' \/ Untold(gen)'
  BY DEF Untold
<1> QED BY <1>1, <1>2, <1>3, FallsTo

-----------------------------------------------------------------------------
(* The handlers. *)

LEMMA ReconciledKeepsIInv == ASSUME IInv, OnReconciled PROVE IInv'
<1>1. /\ HandedOver /\ Fields /\ running /\ started
  BY EventKinds DEF OnReconciled, IInv
<1>2. Head(emitted) = Reconciled(head)
      /\ emitted' = IF live THEN <<StatusEvent("live", gen)>> ELSE <<>>
  BY <1>1 DEF HandedOver, OnReconciled
<1>3. Waiting'
  BY <1>1, WaitingKept DEF OnReconciled, HandedOver, demo
<1>4. Fields' /\ running' /\ started' /\ ready' /\ UNCHANGED <<live, head, gen>>
  BY <1>1 DEF OnReconciled, Fields, feed, demo, HandedOver
<1>5. Chain(head, <<>>, head)
  BY DEF Chain
<1>6. staged' = Reconciliation(head) /\ pending' = <<>>
  BY <1>2 DEF OnReconciled, Reconciled
<1>7. StagedAt(head)'
  BY <1>1, <1>4, <1>5, <1>6 DEF StagedAt, Fields
<1>8. CASE live
  <2>1. WentLive'
    BY <1>2, <1>3, <1>4, <1>7, <1>8 DEF WentLive
  <2> QED BY <1>4, <2>1 DEF IInv
<1>9. CASE ~live
  <2>1. Quiet' /\ Settled'
    BY <1>2, <1>3, <1>4, <1>7, <1>9 DEF Settled, Quiet
  <2> QED BY <1>4, <2>1 DEF IInv
<1> QED BY <1>8, <1>9

(* The event under way, and the update its handler reads from it. *)
LEMMA UnderWay ==
  ASSUME Delivered
  PROVE  \E u \in Updates :
           /\ DepthUpdate(Head(emitted)) = u /\ Tail(emitted) = <<>>
           /\ u.prev \in 0 .. LastSeq /\ u.end = head
           /\ IF live THEN BinanceShown(u.prev) ELSE Waiting /\ StagedAt(u.prev)
<1>1. PICK f \in Framings :
        /\ f.end = head /\ emitted = <<DepthEvent(f)>>
        /\ IF live THEN BinanceShown(f.from) ELSE Waiting /\ StagedAt(f.from)
  BY DEF Delivered
<1> DEFINE u == Event(f, f.from)
<1>2. u \in Updates
  BY DEF Updates
<1>3. u.prev = f.from /\ u.end = f.end /\ f.from \in 0 .. LastSeq
  BY FramedShape
<1>4. Head(emitted) = DepthEvent(f) /\ Tail(emitted) = <<>>
  BY <1>1
<1>5. DepthUpdate(DepthEvent(f)) = u
  BY DEF DepthUpdate, DepthEvent, Event
<1> HIDE DEF u
<1> QED BY <1>1, <1>2, <1>3, <1>4, <1>5

LEMMA StageKeepsIInv == ASSUME IInv, StageDepth PROVE IInv'
<1>1. Delivered /\ Fields /\ running /\ started
  BY EventKinds DEF StageDepth, IInv
<1>2. PICK u \in Updates :
        /\ DepthUpdate(Head(emitted)) = u /\ Tail(emitted) = <<>>
        /\ u.prev \in 0 .. LastSeq /\ u.end = head
        /\ IF live THEN BinanceShown(u.prev) ELSE Waiting /\ StagedAt(u.prev)
  BY <1>1, UnderWay
<1>3. ~live /\ Waiting /\ StagedAt(u.prev)
  BY <1>2 DEF StageDepth, BinanceShown
<1>4. Tail(emitted) = <<>>
  BY <1>2
<1>5. Waiting' /\ UNCHANGED <<source, session, audience, demoSeq, started, minted>>
  BY <1>3, WaitingKept DEF StageDepth, demo, market
<1>6. ASSUME emitted' = Tail(emitted), UNCHANGED feed, StagedAt(head)' PROVE IInv'
  <2>1. Fields' /\ UNCHANGED <<live, head>>
    BY <1>1, <1>5, <1>6 DEF Fields, feed
  <2>2. Quiet' /\ Settled'
    BY <1>1, <1>3, <1>4, <1>5, <1>6, <2>1 DEF Quiet, Settled
  <2> QED BY <2>1, <2>2 DEF IInv
<1>7. CASE NothingStaged
  <2>1. emitted' = Tail(emitted) /\ UNCHANGED feed /\ UNCHANGED staging
    BY <1>7 DEF StageDepth
  <2>2. StagedAt(head)'
    BY <1>7, <2>1 DEF StagedAt, NothingStaged, staging
  <2> QED BY <1>6, <2>1, <2>2
<1>8. CASE ~NothingStaged /\ PendingFull
  <2>1. Feed!Drop("syncing") /\ emitted' = <<StatusEvent("syncing", gen + 1)>>
    BY <1>1, <1>4, <1>8, Queues DEF StageDepth, RequestResync
  <2>2. DemoShown' \/ (source = "binance" /\ Told(TRUE))'
    BY <1>5 DEF Waiting, NothingShown
  <2>3. minted' \in Nat /\ demoSeq' \in Nat /\ "syncing" \in Down
    BY <1>1, <1>5 DEF Fields, Down
  <2> QED BY <1>1, <1>5, <2>1, <2>2, <2>3, DropFalls
<1>9. CASE ~NothingStaged /\ ~PendingFull
  <2>1. /\ pending' = Append(pending, u)
        /\ emitted' = Tail(emitted) /\ UNCHANGED feed /\ UNCHANGED staged
    BY <1>2, <1>9 DEF StageDepth
  <2>2. PICK m \in 0 .. LastSeq : staged = Reconciliation(m) /\ Chain(m, pending, u.prev)
    BY <1>3, <1>9 DEF StagedAt
  <2>4. Chain(m, Append(pending, u), head)
    BY <1>2, <2>2, ChainGrows
  <2>5. StagedAt(head)'
    BY <2>1, <2>2, <2>4 DEF StagedAt, feed
  <2> QED BY <1>6, <2>1, <2>5
<1> QED BY <1>7, <1>8, <1>9

LEMMA ProcessKeepsIInv == ASSUME IInv, ProcessDepth PROVE IInv'
<1>1. Delivered /\ Fields /\ running /\ started
  BY EventKinds DEF ProcessDepth, IInv
<1>2. PICK u \in Updates :
        /\ DepthUpdate(Head(emitted)) = u /\ Tail(emitted) = <<>>
        /\ u.prev \in 0 .. LastSeq /\ u.end = head
        /\ IF live THEN BinanceShown(u.prev) ELSE Waiting /\ StagedAt(u.prev)
  BY <1>1, UnderWay
<1>3. live /\ BinanceShown(u.prev)
  BY <1>2 DEF ProcessDepth, Waiting, DemoShown, NothingShown
<1> DEFINE r == ApplyUpdate(book, u)
<1>4. \/ r.status = "applied" /\ Holds(r.book, head, Truth[head])
      \/ r.status = "gap"
  BY <1>2, <1>3, DeliveryHolds DEF BinanceShown
<1>5. IF r.status \in {"applied", "ignored"}
      THEN /\ book' = IF r.status = "applied" THEN Fingerprinted(r.book) ELSE r.book
           /\ emitted' = Tail(emitted)
           /\ UNCHANGED <<feed, session, audience>>
      ELSE InvalidateMarketData(session.id, "invalid", EmptyBook) /\ RequestResync
  BY <1>2 DEF ProcessDepth
<1> HIDE DEF r
<1>6. UNCHANGED <<source, currentStatus, started, demoSeq, minted>>
  BY DEF ProcessDepth, demo
<1>7. CASE r.status = "applied" /\ Holds(r.book, head, Truth[head])
  <2>1. /\ book' = Fingerprinted(r.book)
        /\ emitted' = Tail(emitted) /\ UNCHANGED <<feed, session, audience>>
    BY <1>5, <1>7
  <2>2. Holds(book', head, Truth[head])
    BY <1>7, <2>1, FingerprintedHolds
  <2>3. Fields' /\ UNCHANGED <<live, head, gen>>
    BY <1>1, <1>6, <2>1 DEF Fields, feed
  <2>4. BinanceShown(head)'
    BY <1>3, <1>6, <2>1, <2>2, <2>3 DEF BinanceShown, Valid, Told
  <2>5. Quiet' /\ Settled'
    BY <1>1, <1>2, <1>3, <1>6, <2>1, <2>3, <2>4 DEF Quiet, Settled
  <2> QED BY <2>3, <2>5 DEF IInv
<1>8. CASE r.status = "gap"
  <2>1. InvalidateMarketData(session.id, "invalid", EmptyBook) /\ RequestResync
    BY <1>5, <1>8
  <2>2. Feed!Drop("syncing") /\ emitted' = <<StatusEvent("syncing", gen + 1)>>
    BY <1>1, <1>2, <2>1, Queues DEF RequestResync
  <2>3. source' = "binance" /\ Told(TRUE)'
    <3>1. session' = Invalidated(session.id, "invalid")
          /\ audience' = [session |-> session.id, frozen |-> TRUE]
      BY <1>3, <2>1 DEF InvalidateMarketData, BinanceShown
    <3>2. session'.id = session.id
      BY <3>1 DEF Invalidated
    <3> QED BY <1>3, <1>6, <3>1, <3>2 DEF Told, BinanceShown
  <2>4. minted' \in Nat /\ demoSeq' \in Nat /\ "syncing" \in Down
    BY <1>1, <1>6 DEF Fields, Down
  <2> QED BY <1>1, <1>6, <2>2, <2>3, <2>4, DropFalls
<1> QED BY <1>4, <1>7, <1>8

(* invalidateMarketData() for the session a feed's status carries: the     *)
(* listeners know of it afterwards, or knew already.                       *)
LEMMA InvalidatedIsTold ==
  ASSUME NEW g, NEW validity \in {"invalid", "syncing"}, NEW kept,
         InvalidateMarketData(BinanceSession(g), validity, kept), Untold(g)
  PROVE  ~Valid' /\ Told(TRUE)' /\ session' = Invalidated(BinanceSession(g), validity)
<1>1. session' = Invalidated(BinanceSession(g), validity)
  BY DEF InvalidateMarketData
<1>2. session'.id = BinanceSession(g) /\ session'.validity = validity
  BY <1>1 DEF Invalidated
<1>3. audience' = [session |-> BinanceSession(g), frozen |-> TRUE]
  BY DEF InvalidateMarketData, Untold, Told
<1> QED BY <1>1, <1>2, <1>3 DEF Valid, Told

LEMMA DownKeepsIInv == ASSUME IInv, OnDown PROVE IInv'
<1>1. Falling /\ Fields /\ running /\ started
  BY EventKinds DEF OnDown, IInv
<1>2. Fields' /\ UNCHANGED <<ready, live, gen, running, started, demoSeq>>
  BY <1>1 DEF OnDown, Fields, feed, demo
<1>3. ASSUME NEW s \in Down, NEW g, Head(emitted) = StatusEvent(s, g), DemoShown \/ Untold(g)
      PROVE  Waiting'
  <2>1. Head(emitted).state = s /\ Head(emitted).session = g
    BY <1>3 DEF StatusEvent
  <2>2. CASE source = "binance"
    <3> DEFINE validity == IF s = "error" THEN "invalid" ELSE "syncing"
    <3>1. Untold(g)
      BY <1>3, <2>2 DEF DemoShown
    <3>2. /\ InvalidateMarketData(BinanceSession(g), validity, EmptyBook)
          /\ currentStatus' = s /\ source' = "binance"
      BY <2>1, <2>2 DEF OnDown
    <3>3. validity \in {"invalid", "syncing"}
      OBVIOUS
    <3> HIDE DEF validity
    <3>4. ~Valid' /\ Told(TRUE)'
      BY <3>1, <3>2, <3>3, InvalidatedIsTold
    <3> QED BY <3>2, <3>4 DEF Waiting, NothingShown, Down
  <2>3. CASE source # "binance"
    <3>1. DemoShown
      BY <1>3, <2>3 DEF Untold
    <3>2. currentStatus' = "demo" /\ UNCHANGED <<source, session, book, audience>>
      BY <2>3 DEF OnDown, StatusBehindDemo
    <3> QED BY <1>2, <3>1, <3>2 DEF Waiting, DemoShown, Valid, Told
  <2> QED BY <2>2, <2>3
<1>4. emitted' = Tail(emitted)
  BY DEF OnDown
<1>5. CASE \E s \in Down : emitted = <<StatusEvent(s, gen)>> /\ (DemoShown \/ Untold(gen))
  <2>1. PICK s \in Down : emitted = <<StatusEvent(s, gen)>> /\ (DemoShown \/ Untold(gen))
    BY <1>5
  <2>2. Waiting' /\ Quiet'
    BY <1>3, <1>4, <2>1 DEF Quiet
  <2>3. Settled'
    BY <1>1, <1>2, <2>2 DEF Settled, Falling
  <2> QED BY <1>2, <2>2, <2>3 DEF IInv
<1>6. CASE \E s, t \in Down : /\ emitted = <<StatusEvent(s, gen - 1), StatusEvent(t, gen)>>
                              /\ DemoShown \/ Untold(gen - 1)
  <2>1. PICK s \in Down, t \in Down :
             /\ emitted = <<StatusEvent(s, gen - 1), StatusEvent(t, gen)>>
             /\ DemoShown \/ Untold(gen - 1)
    BY <1>6
  <2>2. Waiting' /\ emitted' = <<StatusEvent(t, gen')>>
    BY <1>2, <1>3, <1>4, <2>1
  <2>3. DemoShown' \/ Untold(gen)'
    BY <2>2 DEF Waiting, NothingShown, Untold
  <2>4. ~ready' /\ ~live' /\ running' /\ started'
    BY <1>1, <1>2 DEF Falling
  <2> QED BY <1>2, <2>2, <2>3, <2>4, FallsTo DEF Fields
<1> QED BY <1>1, <1>5, <1>6 DEF Falling

LEMMA LiveKeepsIInv == ASSUME IInv, OnLive PROVE IInv'
<1>1. WentLive /\ Fields /\ running /\ started
  BY EventKinds DEF OnLive, IInv
<1>2. /\ Head(emitted) = StatusEvent("live", gen) /\ Tail(emitted) = <<>>
      /\ Head(emitted).session = gen
  BY <1>1 DEF WentLive, StatusEvent
<1>3. UNCHANGED <<started, demoSeq, minted>>
  BY DEF OnLive
<1> DEFINE candidate == IF NothingStaged THEN [book |-> EmptyBook, ok |-> FALSE]
                        ELSE Candidate(staged, pending)
<1>4. CASE candidate.ok
  <2>1. /\ source' = "binance" /\ book' = Fingerprinted(candidate.book)
        /\ session' = Committed(BinanceSession(gen))
        /\ audience' = [session |-> session'.id, frozen |-> FALSE]
        /\ currentStatus' = "live" /\ emitted' = Tail(emitted) /\ UNCHANGED feed
    BY <1>2, <1>4 DEF OnLive
  <2>2. Holds(candidate.book, head, Truth[head])
    <3>1. ~NothingStaged
      BY <1>4
    <3>2. PICK m \in 0 .. LastSeq : staged = Reconciliation(m) /\ Chain(m, pending, head)
      BY <1>1, <3>1 DEF WentLive, StagedAt
    <3>3. candidate = Candidate(Reconciliation(m), pending)
      BY <3>1, <3>2
    <3> QED BY <1>4, <3>2, <3>3, CandidateHolds DEF Commits
  <2> HIDE DEF candidate
  <2>3. Holds(book', head, Truth[head])
    BY <2>1, <2>2, FingerprintedHolds
  <2>4. session'.id = BinanceSession(gen) /\ session'.validity = "valid"
    BY <2>1 DEF Committed
  <2>5. Fields' /\ UNCHANGED <<live, ready, head, gen>>
    BY <1>1, <1>3, <2>1 DEF Fields, feed
  <2>6. BinanceShown(head)'
    BY <2>1, <2>3, <2>4, <2>5 DEF BinanceShown, Valid, Told
  <2>7. Quiet' /\ Settled'
    BY <1>1, <1>2, <1>3, <2>1, <2>5, <2>6 DEF Quiet, Settled, WentLive
  <2> QED BY <2>5, <2>7 DEF IInv
<1>5. CASE ~candidate.ok
  <2>1. RequestResync /\ UNCHANGED <<market, fallbackTimer, demoRunning>>
    BY <1>5 DEF OnLive
  <2>2. Feed!Drop("syncing") /\ emitted' = <<StatusEvent("syncing", gen + 1)>>
    BY <1>1, <1>2, <2>1, Queues DEF RequestResync
  <2>3. Waiting'
    BY <1>1, <1>3, <2>1, WaitingKept DEF WentLive
  <2>4. DemoShown' \/ (source = "binance" /\ Told(TRUE))'
    BY <2>3 DEF Waiting, NothingShown
  <2>5. minted' \in Nat /\ demoSeq' \in Nat /\ "syncing" \in Down
    BY <1>1, <1>3 DEF Fields, Down
  <2> QED BY <1>1, <1>3, <2>2, <2>4, <2>5, DropFalls
<1> QED BY <1>4, <1>5

-----------------------------------------------------------------------------
(* The gateway's own operations and timers. *)

LEMMA DemoCommittedShows ==
  ASSUME NEW k \in Nat, DemoCommitted(Uuid(k)), source' = "demo",
         demoSeq \in Nat, UNCHANGED demoSeq
  PROVE  DemoShown'
<1>1. Holds(book', demoSeq, DemoBook(demoSeq))
  BY DemoSnapshotHolds DEF DemoCommitted
<1>2. /\ session'.id = Uuid(k) /\ session'.validity = "valid"
      /\ audience' = [session |-> Uuid(k), frozen |-> FALSE] /\ currentStatus' = "demo"
  BY DEF DemoCommitted, Committed
<1>3. DemoBook(demoSeq)' = DemoBook(demoSeq)
  BY DEF DemoBook
<1>4. session'.id \in {Uuid(i) : i \in Nat}
  BY <1>2
<1> QED BY <1>1, <1>2, <1>3, <1>4 DEF DemoShown, Valid, Told

LEMMA StartKeepsIInv == ASSUME IInv, Start PROVE IInv'
<1>1. Fields /\ Settled /\ ~started /\ ~running /\ ~ready /\ ~live
  BY DEF IInv, Start, Fields, Settled
<1>2. started' /\ UNCHANGED demoSeq
  BY DEF Start
<1>3. CASE forceDemo
  <2>1. /\ SwitchToDemo(Uuid(minted + 2)) /\ minted' = minted + 2
        /\ UNCHANGED <<feed, emitted>>
    BY <1>3 DEF Start
  <2>2. DemoShown'
    BY <1>1, <1>2, <2>1, DemoCommittedShows DEF SwitchToDemo, Fields
  <2>3. Fields' /\ ~live' /\ ~ready'
    BY <1>1, <1>2, <2>1 DEF Fields, feed
  <2>4. Quiet' /\ Settled'
    BY <1>2, <2>1, <2>2, <2>3 DEF Start, Quiet, Settled, Waiting
  <2> QED BY <2>3, <2>4 DEF IInv
<1>4. CASE ~forceDemo
  <2>1. /\ source' = "binance" /\ session' = Begun(Uuid(minted + 1)) /\ minted' = minted + 1
        /\ \/ Feed!Start /\ emitted' = <<StatusEvent("connecting", gen + 1)>>
           \/ /\ Feed!StartFails
              /\ emitted' = <<StatusEvent("connecting", gen + 1), StatusEvent("error", gen + 2)>>
    BY <1>4 DEF Start
  <2>2. source' = "binance" /\ \A g : session'.id # BinanceSession(g)
    <3>1. session'.id = Uuid(minted + 1)
      BY <2>1 DEF Begun
    <3> QED BY <2>1, <3>1 DEF Uuid, BinanceSession
  <2>3. CASE Feed!Start /\ emitted' = <<StatusEvent("connecting", gen + 1)>>
    <3>1. /\ gen' = gen + 1 /\ gen' \in Nat /\ running' /\ ~ready' /\ ~live'
          /\ head' \in 0 .. LastSeq /\ minted' \in Nat /\ demoSeq' \in Nat
      BY <1>1, <1>2, <2>1, <2>3 DEF Feed!Start, Feed!Connect, Feed!BookLost, Fields
    <3>2. emitted' = <<StatusEvent("connecting", gen')>> /\ Untold(gen)'
      BY <2>2, <2>3, <3>1 DEF Untold, BinanceSession
    <3> QED BY <1>2, <3>1, <3>2, FallsTo DEF Down
  <2>4. CASE /\ Feed!StartFails
             /\ emitted' = <<StatusEvent("connecting", gen + 1), StatusEvent("error", gen + 2)>>
    <3>1. /\ gen' = gen + 2 /\ gen' \in Nat /\ running' /\ ~ready' /\ ~live'
          /\ head' \in 0 .. LastSeq /\ minted' \in Nat /\ demoSeq' \in Nat
      BY <1>1, <1>2, <2>1, <2>4 DEF Feed!StartFails, Feed!ConnectFails, Feed!BookLost, Fields
    <3>2. gen' - 1 = gen + 1
      BY <1>1, <3>1 DEF Fields
    <3>3. emitted' = <<StatusEvent("connecting", gen' - 1), StatusEvent("error", gen')>>
      BY <2>4, <3>1, <3>2
    <3>4. Untold(gen - 1)'
      BY <2>2 DEF Untold, BinanceSession
    <3>5. Falling'
      BY <3>1, <3>3, <3>4 DEF Falling, Down
    <3> QED BY <1>2, <3>1, <3>5 DEF IInv, Fields
  <2> QED BY <2>1, <2>3, <2>4
<1> QED BY <1>3, <1>4

LEMMA StopKeepsIInv == ASSUME IInv, Stop \/ Shutdown PROVE IInv'
<1>1. Fields /\ Quiet
  BY DEF IInv, Stop, Shutdown
<1>2. StopIngress /\ UNCHANGED <<emitted, demoSeq, minted>>
  BY DEF Stop, Shutdown
<1>3. Fields' /\ ~running' /\ ~started'
  BY <1>1, <1>2 DEF StopIngress, Feed!Stop, Feed!BookLost, Fields, feed
<1> QED BY <1>1, <1>2, <1>3 DEF IInv, Quiet, Settled

LEMMA FallbackKeepsIInv == ASSUME IInv, FallbackFires PROVE IInv'
<1>1. Fields /\ Quiet /\ Settled
  BY QuietIsSettled DEF FallbackFires
<1>2. /\ UNCHANGED <<feed, emitted, started, staging, demoSeq>>
      /\ UNCHANGED <<running, ready, live, head, gen, staged, pending>>
  BY DEF FallbackFires, feed, staging
<1>3. CASE currentStatus # "live" /\ started /\ source # "demo"
  <2>1. SwitchToDemo(Uuid(minted + 1)) /\ minted' = minted + 1
    BY <1>3 DEF FallbackFires
  <2>2. DemoShown'
    BY <1>1, <1>2, <2>1, DemoCommittedShows DEF SwitchToDemo, Fields
  <2>3. ~live
    BY <1>1, <1>3 DEF Settled, BinanceShown
  <2>4. Fields'
    BY <1>1, <1>2, <2>1 DEF Fields, feed
  <2>5. Settled'
    BY <1>1, <1>2, <2>2, <2>3 DEF Settled, Waiting, StagedAt, NothingStaged
  <2> QED BY <1>1, <1>2, <2>4, <2>5 DEF IInv, Quiet
<1>4. CASE ~(currentStatus # "live" /\ started /\ source # "demo")
  <2>1. UNCHANGED market /\ UNCHANGED minted
    BY <1>4 DEF FallbackFires
  <2>2. Fields'
    BY <1>1, <1>2, <2>1 DEF Fields, feed
  <2>3. Waiting => Waiting'
    BY <1>2, <2>1, WaitingKept
  <2>4. BinanceShown(head) => BinanceShown(head)'
    BY <1>2, <2>1 DEF BinanceShown, Valid, Told, market
  <2>5. Settled'
    BY <1>1, <1>2, <2>3, <2>4 DEF Settled, StagedAt, NothingStaged
  <2> QED BY <1>1, <1>2, <2>2, <2>5 DEF IInv, Quiet
<1> QED BY <1>3, <1>4

LEMMA StaleKeepsIInv == ASSUME IInv, GoesStale PROVE IInv'
<1>1. Fields /\ Quiet /\ Settled /\ started /\ Valid
  BY QuietIsSettled DEF GoesStale, IsMarketDataValid
<1>2. UNCHANGED <<started, source, staging, demoSeq, minted>>
  BY DEF GoesStale
<1>3. CASE source = "binance"
  <2>1. live /\ ready /\ running /\ BinanceShown(head)
    BY <1>1, <1>3 DEF Settled, Waiting, DemoShown, NothingShown, Fields
  <2>2. /\ InvalidateMarketData(session.id, "stale", book) /\ Feed!Drop("syncing")
        /\ emitted' = <<StatusEvent("syncing", gen + 1)>>
    BY <1>3, <2>1 DEF GoesStale, StaleRestartsFeed
  <2>3. source' = "binance" /\ Told(TRUE)'
    <3>1. session' = Invalidated(session.id, "stale")
          /\ audience' = [session |-> session.id, frozen |-> TRUE]
      BY <2>1, <2>2 DEF InvalidateMarketData, BinanceShown
    <3>2. session'.id = session.id
      BY <3>1 DEF Invalidated
    <3> QED BY <1>2, <1>3, <3>1, <3>2 DEF Told
  <2>4. minted' \in Nat /\ demoSeq' \in Nat /\ "syncing" \in Down
    BY <1>1, <1>2 DEF Fields, Down
  <2> QED BY <1>1, <1>2, <2>2, <2>3, <2>4, DropFalls
<1>4. CASE source # "binance"
  <2>1. DemoShown /\ ~live
    BY <1>1, <1>4 DEF Settled, Waiting, NothingShown, BinanceShown
  <2>2. DemoCommitted(session.id) /\ UNCHANGED <<feed, emitted>>
    BY <1>4 DEF GoesStale
  <2>3. PICK k \in Nat : session.id = Uuid(k)
    BY <2>1 DEF DemoShown
  <2>4. DemoCommitted(Uuid(k)) /\ source' = "demo" /\ demoSeq \in Nat
    BY <1>1, <1>2, <2>1, <2>2, <2>3 DEF DemoShown, Fields
  <2>5. DemoShown'
    BY <1>2, <2>4, DemoCommittedShows
  <2>6. Fields' /\ UNCHANGED <<ready, live, head, staged, pending>>
    BY <1>1, <1>2, <2>2 DEF Fields, feed, staging
  <2>7. Settled'
    BY <1>1, <1>2, <2>1, <2>5, <2>6 DEF Settled, Waiting, StagedAt, NothingStaged
  <2> QED BY <1>1, <2>2, <2>6, <2>7 DEF IInv, Quiet
<1> QED BY <1>3, <1>4

LEMMA DemoKeepsIInv == ASSUME IInv, DemoStep PROVE IInv'
<1>1. Fields /\ Quiet /\ Settled
  BY QuietIsSettled DEF DemoStep
<1>2. /\ demoSeq' = demoSeq + 1 /\ UNCHANGED <<feed, emitted, started, source, staging, minted>>
      /\ UNCHANGED <<running, ready, live, head, gen, staged, pending>>
  BY DEF DemoStep, feed, staging
<1>3. Fields' /\ Quiet'
  BY <1>1, <1>2 DEF Fields, Quiet, feed
<1>4. CASE ~started
  BY <1>1, <1>2, <1>3, <1>4 DEF IInv, Settled
<1>5. CASE started /\ source = "demo" /\ Valid
  <2>1. DemoShown /\ ~live
    BY <1>1, <1>5 DEF Settled, Waiting, NothingShown, BinanceShown
  <2> DEFINE r == ApplyUpdate(book, DemoUpdate(demoSeq + 1))
  <2>2. r.status = "applied" /\ Holds(r.book, demoSeq + 1, DemoBook(demoSeq + 1))
    BY <1>1, <2>1, DemoUpdateHolds DEF DemoShown, Fields
  <2>3. book' = Fingerprinted(r.book) /\ UNCHANGED <<session, audience, currentStatus>>
    BY <1>5, <2>2 DEF DemoStep
  <2> HIDE DEF r
  <2>4. Holds(book', demoSeq', DemoBook(demoSeq'))
    BY <1>2, <2>2, <2>3, FingerprintedHolds
  <2>5. DemoBook(demoSeq)' = DemoBook(demoSeq')
    BY DEF DemoBook
  <2>6. DemoShown'
    BY <1>2, <2>1, <2>3, <2>4, <2>5 DEF DemoShown, Valid, Told
  <2>7. Settled'
    BY <1>1, <1>2, <1>5, <2>1, <2>6 DEF Settled, Waiting, StagedAt, NothingStaged
  <2> QED BY <1>3, <2>7 DEF IInv
<1>6. CASE started /\ ~(source = "demo" /\ Valid)
  <2>1. UNCHANGED <<book, session, audience, currentStatus>>
    BY <1>6 DEF DemoStep
  <2>2. ~DemoShown
    BY <1>6 DEF DemoShown
  <2>3. NothingShown => NothingShown'
    BY <1>2, <2>1 DEF NothingShown, Valid, Told
  <2>4. BinanceShown(head) => BinanceShown(head)'
    BY <1>2, <2>1 DEF BinanceShown, Valid, Told
  <2>5. Settled'
    BY <1>1, <1>2, <1>6, <2>2, <2>3, <2>4 DEF Settled, Waiting, StagedAt, NothingStaged
  <2> QED BY <1>3, <2>5 DEF IInv
<1> QED BY <1>4, <1>5, <1>6

-----------------------------------------------------------------------------
(* Steps of the Binance feed. *)

LEMMA OpenedKeepsIInv == ASSUME IInv, FeedOpened PROVE IInv'
<1>1. Fields /\ Settled /\ Feed!Opened
  BY QuietIsSettled DEF FeedOpened
<1>2. /\ running /\ started /\ ~ready /\ ~live /\ Waiting
  BY <1>1 DEF Feed!Opened, Fields, Settled
<1>3. /\ UNCHANGED <<running, ready, live, gen, head, started, market, demoSeq, minted>>
      /\ emitted' = <<StatusEvent("syncing", gen')>>
  BY <1>1 DEF FeedOpened, Feed!Opened, demo
<1>4. Waiting'
  BY <1>2, <1>3, WaitingKept
<1>5. DemoShown' \/ Untold(gen)'
  BY <1>4 DEF Waiting, NothingShown, Untold
<1> QED BY <1>1, <1>2, <1>3, <1>5, FallsTo DEF Fields, Down

LEMMA HandOverKeepsIInv ==
  ASSUME IInv, NEW n \in 0 .. LastSeq, FeedHandsOver(n) PROVE IInv'
<1>1. Fields /\ Settled
  BY QuietIsSettled DEF FeedHandsOver
<1>2. /\ Feed!Opening /\ ready' /\ head' = n
      /\ UNCHANGED <<running, retry, gen, started, market, demoSeq, minted>>
      /\ status'.state \in {"syncing", "live"}
      /\ emitted' = IF live' THEN <<Reconciled(n), StatusEvent("live", gen)>>
                    ELSE <<Reconciled(n)>>
  <2>1. CASE Feed!HandOver(n) /\ emitted' = <<Reconciled(n)>>
    <3>1. Feed!Opening /\ ~live
      BY <1>1, <2>1 DEF Feed!HandOver, Feed!Opening, Fields
    <3>2. ~live' /\ status'.state = "syncing"
      BY <2>1, <3>1 DEF Feed!HandOver, Feed!Opening
    <3> QED BY <2>1, <3>1, <3>2 DEF FeedHandsOver, Feed!HandOver, demo
  <2>2. CASE /\ Feed!HandOverLive(n)
             /\ emitted' = <<Reconciled(n), StatusEvent("live", gen)>>
    BY <2>2 DEF FeedHandsOver, Feed!HandOverLive, Feed!Status, demo
  <2> QED BY <2>1, <2>2 DEF FeedHandsOver
<1>3. running /\ started /\ ~retry /\ Waiting
  BY <1>1, <1>2 DEF Feed!Opening, Fields, Settled
<1>4. Waiting'
  BY <1>2, <1>3, WaitingKept
<1>5. Fields'
  BY <1>1, <1>2, <1>3 DEF Fields
<1>6. HandedOver'
  BY <1>2, <1>4 DEF HandedOver, Reconciled, StatusEvent
<1> QED BY <1>2, <1>3, <1>5, <1>6 DEF IInv

LEMMA GoLiveKeepsIInv == ASSUME IInv, FeedGoesLive PROVE IInv'
<1>1. Fields /\ Settled /\ Feed!GoLive
  BY QuietIsSettled DEF FeedGoesLive
<1>2. running /\ started /\ ~retry /\ Waiting /\ StagedAt(head)
  BY <1>1 DEF Feed!GoLive, Fields, Settled
<1>3. /\ ready' /\ live' /\ status' = Feed!Status("live", gen)
      /\ UNCHANGED <<running, retry, gen, head, started, market, staged, pending, demoSeq,
                     minted>>
      /\ emitted' = <<StatusEvent("live", gen)>>
  BY <1>1 DEF FeedGoesLive, Feed!GoLive, staging, demo
<1>4. Waiting' /\ StagedAt(head)'
  BY <1>2, <1>3, WaitingKept DEF StagedAt, NothingStaged
<1>5. Fields'
  BY <1>1, <1>2, <1>3 DEF Fields, Feed!Status
<1>6. WentLive'
  BY <1>3, <1>4 DEF WentLive
<1> QED BY <1>2, <1>3, <1>5, <1>6 DEF IInv

LEMMA DeliverKeepsIInv ==
  ASSUME IInv, NEW n \in 0 .. LastSeq, FeedDelivers(n) PROVE IInv'
<1>1. Fields /\ Settled /\ Feed!Deliver(n)
  BY QuietIsSettled DEF FeedDelivers
<1>2. /\ ready /\ running /\ started /\ head < n /\ head' = n
      /\ UNCHANGED <<running, retry, gen, ready, live, status, started, market, staged,
                     pending, demoSeq, minted>>
  BY <1>1 DEF FeedDelivers, Feed!Deliver, staging, demo, Fields
<1>3. PICK f \in Framings : f.from = head /\ f.end = n /\ emitted' = <<DepthEvent(f)>>
  BY DEF FeedDelivers
<1> DEFINE from == f.from
<1>4. IF live THEN BinanceShown(from) ELSE Waiting /\ StagedAt(from)
  BY <1>1, <1>2, <1>3 DEF Settled
<1> HIDE DEF from
<1>5. BinanceShown(from) => BinanceShown(from)'
  BY <1>2 DEF BinanceShown, Valid, Told, market
<1>6. Waiting => Waiting'
  BY <1>2, WaitingKept
<1>7. StagedAt(from) => StagedAt(from)'
  BY <1>2 DEF StagedAt, NothingStaged
<1>8. Delivered'
  BY <1>2, <1>3, <1>4, <1>5, <1>6, <1>7 DEF Delivered, from
<1>9. Fields'
  BY <1>1, <1>2 DEF Fields
<1> QED BY <1>2, <1>8, <1>9 DEF IInv

LEMMA DropKeepsIInv ==
  ASSUME IInv, NEW s \in Feed!DropStates, FeedDrops(s) PROVE IInv'
<1>1. Fields /\ Settled /\ Feed!Drop(s) /\ started
  BY QuietIsSettled DEF FeedDrops, Feed!Drop, Fields
<1>2. UNCHANGED <<started, market, demoSeq, minted>> /\ emitted' = <<StatusEvent(s, gen + 1)>>
  BY DEF FeedDrops, demo
<1>3. DemoShown' \/ (source = "binance" /\ Valid)' \/ (source = "binance" /\ Told(TRUE))'
  <2>1. CASE live
    BY <1>1, <1>2, <2>1 DEF Settled, BinanceShown, Valid, market
  <2>2. CASE ~live
    <3>1. Waiting
      BY <1>1, <2>2 DEF Settled
    <3>2. Waiting'
      BY <1>2, <3>1, WaitingKept
    <3> QED BY <3>2 DEF Waiting, NothingShown
  <2> QED BY <2>1, <2>2
<1>4. s \in Down /\ minted' \in Nat /\ demoSeq' \in Nat
  BY <1>1, <1>2 DEF Feed!DropStates, Down, Fields
<1> QED BY <1>1, <1>2, <1>3, <1>4, DropFalls

LEMMA ReconnectKeepsIInv == ASSUME IInv, FeedReconnects PROVE IInv'
<1>1. /\ Fields /\ Settled
      /\ UNCHANGED <<started, market, demoSeq, minted>>
      /\ \/ Feed!Reconnect /\ emitted' = <<StatusEvent("reconnecting", gen + 1)>>
         \/ /\ Feed!ReconnectFails
            /\ emitted' = <<StatusEvent("reconnecting", gen + 1), StatusEvent("error", gen + 2)>>
  BY QuietIsSettled DEF FeedReconnects, demo
<1>2. running /\ started /\ Waiting
  BY <1>1 DEF Feed!Reconnect, Feed!ReconnectFails, Fields, Settled
<1>3. Waiting'
  BY <1>1, <1>2, WaitingKept
<1>4. DemoShown' \/ (Untold(gen)' /\ Untold(gen - 1)')
  BY <1>3 DEF Waiting, NothingShown, Untold
<1>5. CASE Feed!Reconnect /\ emitted' = <<StatusEvent("reconnecting", gen + 1)>>
  <2>1. /\ gen' = gen + 1 /\ gen' \in Nat /\ running' /\ ~ready' /\ ~live' /\ started'
        /\ head' \in 0 .. LastSeq /\ minted' \in Nat /\ demoSeq' \in Nat
    BY <1>1, <1>2, <1>5 DEF Feed!Reconnect, Feed!Connect, Feed!BookLost, Fields
  <2>2. emitted' = <<StatusEvent("reconnecting", gen')>>
    BY <1>5, <2>1
  <2> QED BY <1>4, <2>1, <2>2, FallsTo DEF Down
<1>6. CASE /\ Feed!ReconnectFails
           /\ emitted' = <<StatusEvent("reconnecting", gen + 1), StatusEvent("error", gen + 2)>>
  <2>1. /\ gen' = gen + 2 /\ gen' \in Nat /\ running' /\ ~ready' /\ ~live' /\ started'
        /\ head' \in 0 .. LastSeq /\ minted' \in Nat /\ demoSeq' \in Nat
    BY <1>1, <1>2, <1>6 DEF Feed!ReconnectFails, Feed!ConnectFails, Feed!BookLost, Fields
  <2>2. gen' - 1 = gen + 1
    BY <1>1, <2>1 DEF Fields
  <2>3. emitted' = <<StatusEvent("reconnecting", gen' - 1), StatusEvent("error", gen')>>
    BY <1>6, <2>1, <2>2
  <2>4. Falling'
    BY <1>4, <2>1, <2>3 DEF Falling, Down
  <2> QED BY <2>1, <2>4 DEF IInv, Fields
<1> QED BY <1>1, <1>5, <1>6

LEMMA StutterKeepsIInv == ASSUME IInv, UNCHANGED vars PROVE IInv'
<1>1. /\ UNCHANGED <<running, gen, retry, ready, live, head, status>>
      /\ UNCHANGED <<source, book, session, currentStatus, audience>>
      /\ UNCHANGED <<emitted, started, staged, pending, demoSeq, minted>>
  BY DEF vars, feed, market, staging, demo
<1>2. Fields' = Fields /\ Quiet' = Quiet
  BY <1>1 DEF Fields, Quiet
<1>3. DemoShown' = DemoShown /\ NothingShown' = NothingShown
  BY <1>1 DEF DemoShown, NothingShown, Valid, Told
<1>4. Waiting' = Waiting
  BY <1>3 DEF Waiting
<1>5. IInv' = IInv
  BY <1>1, <1>2, <1>3, <1>4 DEF IInv, Settled, Falling, HandedOver, WentLive, Delivered,
     BinanceShown, Valid, Told, StagedAt, NothingStaged, Untold
<1> QED BY <1>5

-----------------------------------------------------------------------------
LEMMA InitIInv == Init => IInv
<1> SUFFICES ASSUME Init PROVE IInv
  OBVIOUS
<1>1. /\ ~started /\ ~running /\ ~ready /\ ~live /\ gen = 0 /\ head = 0
      /\ demoSeq = 1 /\ minted = 0 /\ Quiet
  BY DEF Init, Feed!Init, Quiet
<1>2. Fields
  BY <1>1, DepthStreamAssumption DEF Fields
<1> QED BY <1>1, <1>2 DEF IInv, Settled

LEMMA StepKeepsIInv == IInv /\ [Next]_vars => IInv'
<1> SUFFICES ASSUME IInv, [Next]_vars PROVE IInv'
  OBVIOUS
<1>1. CASE OnReconciled
  BY <1>1, ReconciledKeepsIInv
<1>2. CASE StageDepth
  BY <1>2, StageKeepsIInv
<1>3. CASE ProcessDepth
  BY <1>3, ProcessKeepsIInv
<1>4. CASE OnDown
  BY <1>4, DownKeepsIInv
<1>5. CASE OnLive
  BY <1>5, LiveKeepsIInv
<1>6. CASE Start
  BY <1>6, StartKeepsIInv
<1>7. CASE Stop \/ Shutdown
  BY <1>7, StopKeepsIInv
<1>8. CASE FallbackFires
  BY <1>8, FallbackKeepsIInv
<1>9. CASE GoesStale
  BY <1>9, StaleKeepsIInv
<1>10. CASE DemoStep
  BY <1>10, DemoKeepsIInv
<1>11. CASE FeedOpened
  BY <1>11, OpenedKeepsIInv
<1>12. CASE FeedGoesLive
  BY <1>12, GoLiveKeepsIInv
<1>13. CASE FeedReconnects
  BY <1>13, ReconnectKeepsIInv
<1>14. ASSUME NEW n \in 0 .. LastSeq, FeedHandsOver(n) PROVE IInv'
  BY <1>14, HandOverKeepsIInv
<1>15. ASSUME NEW n \in 0 .. LastSeq, FeedDelivers(n) PROVE IInv'
  BY <1>15, DeliverKeepsIInv
<1>16. ASSUME NEW s \in Feed!DropStates, FeedDrops(s) PROVE IInv'
  BY <1>16, DropKeepsIInv
<1>17. CASE UNCHANGED vars
  BY <1>17, StutterKeepsIInv
<1> QED
  BY <1>1, <1>2, <1>3, <1>4, <1>5, <1>6, <1>7, <1>8, <1>9, <1>10, <1>11, <1>12, <1>13,
     <1>14, <1>15, <1>16, <1>17 DEF Next

(* The market, the feed and the events under way fit together.             *)
THEOREM GatewayInvariant == Spec => []IInv
<1> QED BY InitIInv, StepKeepsIInv, PTL DEF Spec

(* docs/phase-1/reliability-contract.md, the atomic handoff: a started     *)
(* gateway whose session is valid shows the whole book of one source, at   *)
(* the source's own position and, for Binance, under the session of the    *)
(* connection that delivered it, whatever faults, starts and handovers     *)
(* came before.                                                            *)
THEOREM GatewayShowsTheSourcesBook == Spec => []ValidBookIsTheSourcesBook
<1>1. IInv => ValidBookIsTheSourcesBook
  <2> SUFFICES ASSUME IInv, started, Quiet, Valid
               PROVE  /\ book.loaded
                      /\ IF source = "binance"
                         THEN /\ session.id = BinanceSession(gen) /\ book.updateId = head
                              /\ book.bids = Truth[head].bids /\ book.asks = Truth[head].asks
                         ELSE /\ session.id[1] = "uuid" /\ book.updateId = demoSeq
                              /\ book.bids = DemoBook(demoSeq).bids
                              /\ book.asks = DemoBook(demoSeq).asks
    BY DEF ValidBookIsTheSourcesBook
  <2>1. DemoShown \/ BinanceShown(head)
    BY QuietIsSettled DEF Settled, Waiting, NothingShown
  <2>2. CASE DemoShown
    <3>1. PICK k \in Nat : session.id = Uuid(k)
      BY <2>2 DEF DemoShown
    <3>2. session.id[1] = "uuid"
      BY <3>1 DEF Uuid
    <3> QED BY <2>2, <3>2 DEF DemoShown, Holds
  <2>3. CASE BinanceShown(head)
    BY <2>3 DEF BinanceShown, Holds
  <2> QED BY <2>1, <2>2, <2>3
<1> QED BY <1>1, GatewayInvariant, PTL

(* market_reset and snapshot reach the listeners in an order that leaves   *)
(* none with a session that is over, or with one it takes to be frozen.    *)
THEOREM GatewayTellsItsListeners == Spec => []ListenersToldOfEverySession
<1>1. IInv => ListenersToldOfEverySession
  <2> SUFFICES ASSUME IInv, started, Quiet
               PROVE  audience = [session |-> session.id, frozen |-> ~Valid]
    BY DEF ListenersToldOfEverySession
  <2>1. (Valid /\ Told(FALSE)) \/ (~Valid /\ Told(TRUE))
    BY QuietIsSettled DEF Settled, Waiting, DemoShown, NothingShown, BinanceShown
  <2> QED BY <2>1 DEF Told
<1> QED BY <1>1, GatewayInvariant, PTL

(* The feed is live exactly while its book is the one shown, and the       *)
(* published state contradicts neither the source nor the session.         *)
THEOREM GatewayStatusHonest == Spec => []PublishedStatusHonest
<1>1. IInv => PublishedStatusHonest
  <2> SUFFICES ASSUME IInv, started, Quiet
               PROVE  /\ LiveFeedIsShown
                      /\ CASE source = "demo" -> Valid /\ currentStatus = "demo"
                           [] source = "binance" ->
                                (currentStatus = "live" <=> Valid) /\ currentStatus # "demo"
    BY DEF PublishedStatusHonest
  <2>1. IF live THEN BinanceShown(head) ELSE Waiting
    BY QuietIsSettled DEF Settled
  <2>2. LiveFeedIsShown
    BY <2>1 DEF LiveFeedIsShown, BinanceShown, Waiting, DemoShown, NothingShown
  <2>3. CASE DemoShown
    BY <2>2, <2>3 DEF DemoShown
  <2>4. CASE ~DemoShown
    <3>1. /\ source = "binance" /\ currentStatus # "demo"
          /\ currentStatus = "live" <=> Valid
      BY <2>1, <2>4 DEF BinanceShown, Waiting, NothingShown
    <3> QED BY <2>2, <3>1
  <2> QED BY <2>3, <2>4
<1> QED BY <1>1, GatewayInvariant, PTL

-----------------------------------------------------------------------------
(* The page (MarketView).                                                  *)

(* Types of the player and of what is selected.                            *)
RecordedEvents == [kind : RecordedKinds, at : Nat]
Modes == {"live", "demo"}
PageMarkets == [mode : Modes \cup {"replay"}, symbol : Symbols]
Players ==
  [status : {"idle", "ready", "playing", "paused", "ended"}, events : {<<>>, Remote, BuiltIn},
   cursor : Nat, index : Nat, speed : Nat \ {0}, wall : Nat, anchor : Nat]

(* The time the player's clock stands at; advance() plays up to it.        *)
Reach(p) == p.anchor + (now - p.wall) * p.speed

(* The cursor parts the events: those up to the index are not after it,    *)
(* those past the index are not before it.                                 *)
Positioned(p) ==
  /\ p.index \in 0 .. Len(p.events) /\ p.cursor \in From(p) .. To(p)
  /\ \A i \in DOMAIN p.events :
       /\ i <= p.index => p.events[i].at <= p.cursor
       /\ i > p.index => p.events[i].at >= p.cursor

(* The clock stands where the time played has come, or both have passed    *)
(* the end of the recording.                                               *)
Meets(p, t) == Reach(p) = t \/ (Reach(p) >= To(p) /\ t >= To(p))

Started(p, t) == p.wall <= now /\ p.cursor <= Reach(p) /\ Meets(p, t)

(* What load() sorted.                                                     *)
LEMMA CaptureShape ==
  ASSUME NEW p \in Players
  PROVE  /\ p.events \in Seq(RecordedEvents) /\ DOMAIN p.events = 1 .. Len(p.events)
         /\ Len(p.events) \in Nat /\ (p.events # <<>> => Len(p.events) > 0)
         /\ \A i \in DOMAIN p.events : p.events[i] \in RecordedEvents /\ p.events[i].at \in Nat
         /\ \A i, j \in DOMAIN p.events : i <= j => p.events[i].at <= p.events[j].at
<1>1. p.events \in {<<>>, Remote, BuiltIn}
  BY DEF Players
<1>2. p.events \in Seq(RecordedEvents)
  <2>1. Remote \in Seq(RecordedEvents) /\ BuiltIn \in Seq(RecordedEvents)
    BY Zenon, ViewAssumption DEF RecordedEvents
  <2>2. <<>> \in Seq(RecordedEvents)
    OBVIOUS
  <2> QED BY <1>1, <2>1, <2>2
<1>3. \A i, j \in DOMAIN p.events : i <= j => p.events[i].at <= p.events[j].at
  <2>1. CASE p.events = <<>>
    BY <2>1
  <2>2. CASE p.events \in {Remote, BuiltIn}
    BY <2>2, ViewAssumption
  <2> QED BY <1>1, <2>1, <2>2
<1>4. \A i \in DOMAIN p.events : p.events[i] \in RecordedEvents /\ p.events[i].at \in Nat
  <2>1. \A i \in DOMAIN p.events : p.events[i] \in RecordedEvents
    BY <1>2
  <2> QED BY <2>1 DEF RecordedEvents
<1>5. /\ DOMAIN p.events = 1 .. Len(p.events) /\ Len(p.events) \in Nat
      /\ (p.events # <<>> => Len(p.events) > 0)
  BY <1>2
<1> QED BY <1>2, <1>3, <1>4, <1>5

LEMMA CaptureEnds ==
  ASSUME NEW p \in Players, p.events # <<>>
  PROVE  /\ From(p) \in Nat /\ To(p) \in Nat /\ From(p) <= To(p)
         /\ To(p) = p.events[Len(p.events)].at
         /\ \A i \in DOMAIN p.events : From(p) <= p.events[i].at /\ p.events[i].at <= To(p)
<1>1. /\ 1 \in DOMAIN p.events /\ Len(p.events) \in DOMAIN p.events
      /\ \A i \in DOMAIN p.events : 1 <= i /\ i <= Len(p.events)
  BY CaptureShape
<1>2. From(p) = p.events[1].at /\ To(p) = p.events[Len(p.events)].at
  BY DEF From, To, Last
<1>3. \A i \in DOMAIN p.events : From(p) <= p.events[i].at /\ p.events[i].at <= To(p)
  BY <1>1, <1>2, CaptureShape
<1>4. From(p) \in Nat /\ To(p) \in Nat
  BY <1>1, <1>2, CaptureShape
<1> QED BY <1>1, <1>2, <1>3, <1>4

(* lowerBound() finds the number it searches for.                          *)
LEMMA LowerBoundCounts ==
  ASSUME NEW p \in Players, NEW t \in Nat
  PROVE  /\ LowerBound(p, t) \in 0 .. Len(p.events)
         /\ \A i \in DOMAIN p.events : i <= LowerBound(p, t) <=> p.events[i].at < t
<1> DEFINE T == {n \in 0 .. Len(p.events) : \A i \in DOMAIN p.events : i > n => p.events[i].at >= t}
<1>1. Len(p.events) \in T /\ T \subseteq Nat
  BY CaptureShape
<1>2. PICK n \in T : \A k \in T : n <= k
  <2> HIDE DEF T
  <2> QED BY <1>1, LeastElement
<1>3. n \in 0 .. Len(p.events) /\ \A i \in DOMAIN p.events : i > n => p.events[i].at >= t
  OBVIOUS
<1>4. ASSUME NEW i \in DOMAIN p.events, i <= n PROVE p.events[i].at < t
  <2>1. n \in DOMAIN p.events /\ n - 1 \in 0 .. Len(p.events) /\ n - 1 \notin T
    <3> HIDE DEF T
    <3> QED BY <1>2, <1>3, <1>4, CaptureShape
  <2>2. PICK j \in DOMAIN p.events : j > n - 1 /\ ~(p.events[j].at >= t)
    BY <2>1
  <2>3. j \in Nat /\ n \in Nat /\ ~(j > n)
    BY <2>2, <1>3, CaptureShape
  <2>4. j = n
    BY <2>2, <2>3
  <2> HIDE DEF T
  <2> QED BY <2>1, <2>2, <2>4, <1>4, CaptureShape
<1>5. \A i \in DOMAIN p.events : i <= n <=> p.events[i].at < t
  <2> HIDE DEF T
  <2>1. ASSUME NEW i \in DOMAIN p.events PROVE i <= n <=> p.events[i].at < t
    <3>1. i \in Nat /\ n \in Nat /\ p.events[i].at \in Nat
      BY <1>3, CaptureShape
    <3> QED BY <3>1, <1>3, <1>4
  <2> QED BY <2>1
<1> HIDE DEF T
<1> QED BY <1>3, <1>5 DEF LowerBound

(* The loop of advance() ends, at the last event that is due.              *)
LEMMA IndexAtStops ==
  ASSUME NEW p \in Players, p.index \in 0 .. Len(p.events), NEW t \in Nat
  PROVE  LET n == IndexAt(p, t) IN
         /\ n \in p.index .. Len(p.events)
         /\ \A i \in p.index + 1 .. n : p.events[i].at <= t
         /\ n < Len(p.events) => p.events[n + 1].at > t
<1> DEFINE T == {n \in p.index .. Len(p.events) : n < Len(p.events) => p.events[n + 1].at > t}
<1>1. Len(p.events) \in T /\ T \subseteq Nat
  BY CaptureShape
<1>2. PICK n \in T : \A k \in T : n <= k
  <2> HIDE DEF T
  <2> QED BY <1>1, LeastElement
<1>3. n \in p.index .. Len(p.events) /\ (n < Len(p.events) => p.events[n + 1].at > t)
  OBVIOUS
<1>4. ASSUME NEW i \in p.index + 1 .. n PROVE p.events[i].at <= t
  <2>1. /\ i - 1 \in p.index .. Len(p.events) /\ i - 1 < n /\ i - 1 < Len(p.events)
        /\ i = (i - 1) + 1 /\ i \in DOMAIN p.events
    BY <1>3, CaptureShape
  <2>2. i - 1 \notin T
    <3> HIDE DEF T
    <3> QED BY <1>2, <1>3, <2>1, CaptureShape
  <2>3. ~(p.events[i].at > t)
    BY <2>1, <2>2
  <2> HIDE DEF T
  <2> QED BY <2>1, <2>3, CaptureShape
<1> HIDE DEF T
<1> QED BY <1>3, <1>4 DEF IndexAt

(* The clock never stands before the moment play() took.                   *)
LEMMA ReachAdvances ==
  ASSUME NEW p \in Players, now \in Nat, p.wall <= now
  PROVE  Reach(p) \in Nat /\ Reach(p) >= p.anchor
<1>1. p.anchor \in Nat /\ p.wall \in Nat /\ p.speed \in Nat
  BY DEF Players
<1>2. \A d, v \in Nat : d * v \in Nat
  OBVIOUS
<1>3. now - p.wall \in Nat
  BY <1>1
<1>4. (now - p.wall) * p.speed \in Nat
  BY <1>1, <1>2, <1>3
<1> DEFINE d == (now - p.wall) * p.speed
<1>5. p.anchor + d \in Nat /\ p.anchor + d >= p.anchor
  <2> HIDE DEF d
  <2>1. d \in Nat
    BY <1>4 DEF d
  <2> QED BY <1>1, <2>1
<1> QED BY <1>5 DEF Reach

(* advance() keeps the position, never goes back, and stops at the clock or *)
(* at the end.                                                             *)
LEMMA PlayedOnAdvances ==
  ASSUME NEW p \in Players, p.events # <<>>, Positioned(p), now \in Nat, p.wall <= now,
         p.cursor <= Reach(p)
  PROVE  LET q == PlayedOn(p) IN
         /\ q \in Players /\ Positioned(q)
         /\ q.events = p.events /\ q.speed = p.speed /\ q.wall = p.wall /\ q.anchor = p.anchor
         /\ q.status \in {p.status, "ended"}
         /\ q.index >= p.index
         /\ q.cursor = IF Reach(p) > To(p) THEN To(p) ELSE Reach(p)
<1> DEFINE t == IF Reach(p) > To(p) THEN To(p) ELSE Reach(p)
           n == IndexAt(p, t)
           q == PlayedOn(p)
<1>1. /\ Reach(p) \in Nat /\ From(p) \in Nat /\ To(p) \in Nat /\ From(p) <= To(p)
      /\ p.cursor \in From(p) .. To(p) /\ p.index \in 0 .. Len(p.events)
      /\ Len(p.events) \in Nat /\ DOMAIN p.events = 1 .. Len(p.events)
  BY ReachAdvances, CaptureEnds, CaptureShape DEF Positioned
<1>2. t \in Nat /\ t >= p.cursor /\ t \in From(p) .. To(p)
  BY <1>1
<1>3. Target(p) = t
  BY DEF Target, Reach
<1>4. /\ q = [p EXCEPT !.cursor = t, !.index = n,
                       !.status = IF t >= To(p) /\ n >= Len(p.events) THEN "ended" ELSE @]
  <2> HIDE DEF t
  <2> QED BY <1>3 DEF PlayedOn
<1> HIDE DEF t
<1>5. /\ n \in p.index .. Len(p.events)
      /\ \A i \in p.index + 1 .. n : p.events[i].at <= t
      /\ n < Len(p.events) => p.events[n + 1].at > t
  BY <1>1, <1>2, IndexAtStops
<1> HIDE DEF n, q
<1>6. n \in Nat /\ n >= p.index /\ n \in 0 .. Len(p.events)
  BY <1>1, <1>5
<1>7. /\ q.events = p.events /\ q.speed = p.speed /\ q.wall = p.wall /\ q.anchor = p.anchor
      /\ q.status \in {p.status, "ended"} /\ q.index = n /\ q.cursor = t
  BY <1>4 DEF Players
<1>8. q \in Players
  <2> DEFINE st == IF t >= To(p) /\ n >= Len(p.events) THEN "ended" ELSE p.status
  <2>1. st \in {"idle", "ready", "playing", "paused", "ended"}
    BY DEF Players
  <2>2. q = [p EXCEPT !.cursor = t, !.index = n, !.status = st]
    BY <1>4 DEF Players
  <2> HIDE DEF st
  <2> QED BY <1>2, <1>6, <2>1, <2>2 DEF Players
<1>9. ASSUME NEW i \in DOMAIN p.events
      PROVE  (i <= n => p.events[i].at <= t) /\ (i > n => p.events[i].at >= t)
  <2>1. i \in Nat /\ i >= 1 /\ i <= Len(p.events) /\ p.events[i].at \in Nat
    BY <1>1, CaptureShape
  <2>2. CASE i <= p.index
    <3>1. p.events[i].at <= p.cursor
      BY <2>2 DEF Positioned
    <3>2. p.events[i].at <= t /\ ~(i > n)
      BY <3>1, <2>1, <2>2, <1>1, <1>2, <1>6
    <3> QED BY <3>2
  <2>3. CASE i > p.index /\ i <= n
    <3>1. i \in p.index + 1 .. n
      BY <2>1, <2>3, <1>1, <1>6
    <3> QED BY <1>5, <3>1, <2>1, <2>3, <1>6
  <2>4. CASE i > n
    <3>1. n < Len(p.events) /\ n + 1 \in DOMAIN p.events /\ n + 1 <= i
      BY <2>1, <2>4, <1>1, <1>6
    <3>2. p.events[n + 1].at > t /\ p.events[n + 1].at <= p.events[i].at
      BY <3>1, <1>5, CaptureShape
    <3>3. p.events[n + 1].at \in Nat
      BY <3>1, CaptureShape
    <3>4. p.events[i].at >= t /\ ~(i <= n)
      BY <3>2, <3>3, <2>1, <1>2, <2>4, <1>6
    <3> QED BY <3>4
  <2> QED BY <2>1, <2>2, <2>3, <2>4, <1>1, <1>6
<1>10. From(q) = From(p) /\ To(q) = To(p)
  BY <1>7 DEF From, To
<1>11. Positioned(q)
  BY <1>2, <1>6, <1>7, <1>9, <1>10 DEF Positioned
<1> QED BY <1>6, <1>7, <1>8, <1>11 DEF q, t

(* seek() to a time of the recording.                                      *)
LEMMA SoughtStands ==
  ASSUME NEW p \in Players, p.events # <<>>, now \in Nat, NEW t \in From(p) .. To(p)
  PROVE  LET q == Sought(p, t) IN
         /\ q \in Players /\ Positioned(q)
         /\ q.events = p.events /\ q.speed = p.speed /\ q.cursor = t
         /\ q.status = IF p.status = "playing" THEN "playing" ELSE "paused"
         /\ p.status = "playing" => q.wall = now /\ q.anchor = t
<1> DEFINE n == LowerBound(p, t)
           r == [p EXCEPT !.status = IF @ = "playing" THEN @ ELSE "paused", !.cursor = t,
                          !.index = n]
           q == Sought(p, t)
<1>1. From(p) \in Nat /\ To(p) \in Nat /\ t \in Nat /\ Clamp(p, t) = t
  BY CaptureEnds DEF Clamp
<1>2. n \in 0 .. Len(p.events) /\ \A i \in DOMAIN p.events : i <= n <=> p.events[i].at < t
  BY <1>1, LowerBoundCounts
<1>3. q = IF p.status = "playing" THEN Anchored(r) ELSE r
  BY <1>1 DEF Sought
<1> HIDE DEF n, q
<1>4. n \in Nat
  BY <1>2, CaptureShape
<1>5. /\ r.events = p.events /\ r.speed = p.speed /\ r.cursor = t /\ r.index = n
      /\ r.status = IF p.status = "playing" THEN "playing" ELSE "paused"
  BY DEF Players
<1>6. r \in Players
  <2> DEFINE st == IF p.status = "playing" THEN "playing" ELSE "paused"
  <2>1. st \in {"idle", "ready", "playing", "paused", "ended"} /\ r.status = st
    BY <1>5
  <2>2. r = [p EXCEPT !.status = st, !.cursor = t, !.index = n]
    BY DEF Players
  <2> HIDE DEF st, r
  <2> QED BY <1>1, <1>4, <2>1, <2>2 DEF Players
<1> HIDE DEF r
<1>7. /\ q \in Players /\ q.events = p.events /\ q.speed = p.speed /\ q.cursor = t /\ q.index = n
      /\ q.status = IF p.status = "playing" THEN "playing" ELSE "paused"
      /\ p.status = "playing" => q.wall = now /\ q.anchor = t
  <2>1. CASE p.status = "playing"
    <3>1. q = [r EXCEPT !.wall = now, !.anchor = t]
      BY <1>3, <1>5, <2>1 DEF Anchored
    <3>2. q \in Players
      BY <3>1, <1>1, <1>6 DEF Players
    <3> QED BY <3>1, <3>2, <1>5, <1>6, <2>1 DEF Players
  <2>2. CASE p.status # "playing"
    BY <1>3, <1>5, <1>6, <2>2
  <2> QED BY <2>1, <2>2
<1>8. From(q) = From(p) /\ To(q) = To(p)
  BY <1>7 DEF From, To
<1>9. ASSUME NEW i \in DOMAIN p.events
      PROVE  (i <= n => p.events[i].at <= t) /\ (i > n => p.events[i].at >= t)
  <2>1. i \in Nat /\ p.events[i].at \in Nat
    BY CaptureShape
  <2> QED BY <2>1, <1>1, <1>2, <1>4
<1>10. Positioned(q)
  BY <1>2, <1>7, <1>8, <1>9 DEF Positioned
<1> QED BY <1>7, <1>10 DEF q

(* The clock started at the cursor reaches just the cursor.                *)
LEMMA AnchoredStarts ==
  ASSUME NEW p \in Players, p.events # <<>>, Positioned(p), now \in Nat
  PROVE  LET q == Anchored(p) IN
         /\ q \in Players /\ Positioned(q) /\ q = [p EXCEPT !.wall = now, !.anchor = p.cursor]
         /\ q.status = p.status /\ q.events = p.events /\ q.speed = p.speed
         /\ q.cursor = p.cursor /\ q.index = p.index
         /\ Reach(q) = q.cursor /\ q.wall <= now
<1> DEFINE q == Anchored(p)
<1>1. q = [p EXCEPT !.wall = now, !.anchor = p.cursor]
  BY DEF Anchored
<1>2. p.cursor \in Nat /\ p.speed \in Nat
  BY DEF Players
<1>3. q \in Players
  BY <1>1, <1>2 DEF Players
<1>4. /\ q.wall = now /\ q.anchor = p.cursor /\ q.cursor = p.cursor /\ q.index = p.index
      /\ q.events = p.events /\ q.speed = p.speed /\ q.status = p.status
  BY <1>1 DEF Players
<1> HIDE DEF q
<1>5. \A v \in Nat : (now - now) * v = 0
  OBVIOUS
<1>6. Reach(q) = q.cursor
  BY <1>2, <1>4, <1>5 DEF Reach
<1>7. Positioned(q)
  BY <1>4 DEF Positioned, From, To
<1> QED BY <1>1, <1>3, <1>4, <1>6, <1>7 DEF q

(* advance() leaves the clock alone.                                       *)
LEMMA PlayedOnStaysStarted ==
  ASSUME NEW p \in Players, p.events # <<>>, Positioned(p), now \in Nat,
         NEW t \in Nat, Started(p, t)
  PROVE  Started(PlayedOn(p), t)
<1> DEFINE q == PlayedOn(p)
<1>1. p.wall <= now /\ p.cursor <= Reach(p)
  BY DEF Started
<1>2. /\ q.events = p.events /\ q.speed = p.speed /\ q.wall = p.wall /\ q.anchor = p.anchor
      /\ q.cursor = IF Reach(p) > To(p) THEN To(p) ELSE Reach(p)
  BY <1>1, PlayedOnAdvances
<1> HIDE DEF q
<1>3. Reach(q) = Reach(p) /\ To(q) = To(p)
  BY <1>2 DEF Reach, To
<1>4. Reach(p) \in Nat /\ To(p) \in Nat
  BY <1>1, ReachAdvances, CaptureEnds
<1>5. q.cursor <= Reach(q)
  BY <1>2, <1>3, <1>4
<1> QED BY <1>1, <1>2, <1>3, <1>5 DEF Started, Meets, q

(* play(): its clock starts where the replay stands.                       *)
LEMMA PlayingStarts ==
  ASSUME NEW p \in Players, p.events # <<>>, Positioned(p), now \in Nat,
         p.status \in {"ready", "paused", "ended"}
  PROVE  LET q == Playing(p) IN
         /\ q \in Players /\ Positioned(q) /\ q.events = p.events /\ q.speed = p.speed
         /\ q.status \in {"playing", "ended"}
         /\ Started(q, IF p.status = "ended" THEN From(p) ELSE p.cursor)
         /\ p.status # "ended" => q.index >= p.index
         /\ q.index >= PlayedFrom(p)
<1> DEFINE w == IF p.status = "ended" THEN Sought(p, From(p)) ELSE p
           a == Anchored(w)
           r == [a EXCEPT !.status = "playing"]
           q == Playing(p)
           t == IF p.status = "ended" THEN From(p) ELSE p.cursor
<1>1. From(p) \in Nat /\ From(p) \in From(p) .. To(p) /\ p.cursor \in Nat
  BY CaptureEnds DEF Players
<1>2. /\ w \in Players /\ Positioned(w) /\ w.events = p.events /\ w.speed = p.speed
      /\ w.cursor = t /\ (p.status # "ended" => w = p)
  BY <1>1, SoughtStands
<1>3. t \in Nat
  BY <1>1
<1>4. q = PlayedOn(r)
  BY DEF Playing
<1> HIDE DEF w, t, q
<1>5. /\ a \in Players /\ Positioned(a) /\ a.events = p.events /\ a.speed = p.speed
      /\ a.cursor = t /\ a.index = w.index /\ Reach(a) = t /\ a.wall <= now
  BY <1>2, AnchoredStarts
<1> HIDE DEF a
<1>6. /\ r \in Players /\ r.events = p.events /\ r.speed = p.speed /\ r.cursor = t
      /\ r.index = w.index /\ r.wall = a.wall /\ r.anchor = a.anchor /\ r.status = "playing"
  BY <1>5 DEF Players
<1> HIDE DEF r
<1>7. Reach(r) = t /\ Positioned(r)
  BY <1>5, <1>6 DEF Reach, Positioned, From, To
<1>8. Started(r, t)
  BY <1>3, <1>5, <1>6, <1>7 DEF Started, Meets
<1>9. /\ q \in Players /\ Positioned(q) /\ q.events = p.events /\ q.speed = p.speed
      /\ q.status \in {"playing", "ended"} /\ q.index >= r.index
  BY <1>4, <1>6, <1>7, <1>8, PlayedOnAdvances DEF Started
<1>10. Started(q, t)
  BY <1>3, <1>4, <1>6, <1>7, <1>8, PlayedOnStaysStarted
<1>11. q.index >= PlayedFrom(p)
  <2>1. q.index \in Nat
    BY <1>9 DEF Players
  <2>2. p.status # "ended" => q.index >= p.index
    BY <1>2, <1>6, <1>9
  <2> QED BY <2>1, <2>2 DEF PlayedFrom
<1> QED BY <1>2, <1>6, <1>9, <1>10, <1>11 DEF q, t

(* pause(), of a replay that plays.                                        *)
LEMMA PausedStands ==
  ASSUME NEW p \in Players, p.events # <<>>, Positioned(p), now \in Nat,
         p.status = "playing", NEW t \in Nat, Started(p, t)
  PROVE  LET q == Paused(p) IN
         /\ q \in Players /\ Positioned(q) /\ q.events = p.events /\ q.speed = p.speed
         /\ q.status \in {"playing", "paused", "ended"}
         /\ Started(q, t) /\ q.index >= p.index
<1> DEFINE r == PlayedOn(p)
           q == Paused(p)
<1>1. /\ r \in Players /\ Positioned(r) /\ r.events = p.events /\ r.speed = p.speed
      /\ r.status \in {"playing", "ended"} /\ r.index >= p.index
  BY PlayedOnAdvances DEF Started
<1>2. Started(r, t)
  BY PlayedOnStaysStarted
<1>3. q \in {r, [r EXCEPT !.status = "paused"]}
  BY DEF Paused
<1> HIDE DEF r, q
<1>4. CASE q = r
  BY <1>1, <1>2, <1>4 DEF q
<1>5. CASE q = [r EXCEPT !.status = "paused"]
  <2>1. /\ q \in Players /\ q.events = r.events /\ q.speed = r.speed /\ q.cursor = r.cursor
        /\ q.index = r.index /\ q.wall = r.wall /\ q.anchor = r.anchor /\ q.status = "paused"
    BY <1>1, <1>5 DEF Players
  <2>2. Positioned(q) /\ Started(q, t)
    BY <2>1, <1>1, <1>2 DEF Positioned, From, To, Started, Meets, Reach
  <2> QED BY <2>1, <2>2, <1>1 DEF q
<1> QED BY <1>3, <1>4, <1>5

(* setSpeed(): the clock starts over at the cursor.                        *)
LEMMA SpedUpStands ==
  ASSUME NEW p \in Players, p.events # <<>>, Positioned(p), now \in Nat,
         NEW t \in Nat, p.status = "playing" => Started(p, t), NEW speed \in Nat \ {0}
  PROVE  LET q == SpedUp(p, speed) IN
         /\ q \in Players /\ Positioned(q) /\ q.events = p.events
         /\ q.status \in {p.status, "ended"}
         /\ p.status = "playing" => Started(q, t)
         /\ q.index >= p.index
<1> DEFINE r == PlayedOn(p)
           a == Anchored(r)
           b == IF p.status = "playing" THEN a ELSE p
           q == SpedUp(p, speed)
<1>1. q = [b EXCEPT !.speed = speed]
  BY DEF SpedUp
<1>2. CASE p.status = "playing"
  <2>1. /\ r \in Players /\ Positioned(r) /\ r.events = p.events
        /\ r.status \in {p.status, "ended"} /\ r.index >= p.index /\ r.wall = p.wall
        /\ r.cursor = IF Reach(p) > To(p) THEN To(p) ELSE Reach(p)
    BY <1>2, PlayedOnAdvances DEF Started
  <2> HIDE DEF r, q
  <2>2. /\ a \in Players /\ Positioned(a) /\ a.events = p.events
        /\ a.status \in {p.status, "ended"} /\ a.index >= p.index
        /\ a.cursor = r.cursor /\ a.wall = now /\ a.anchor = a.cursor /\ b = a
    <3>1. /\ a \in Players /\ Positioned(a) /\ a.status = r.status /\ a.events = r.events
          /\ a.index = r.index /\ a.cursor = r.cursor
          /\ a = [r EXCEPT !.wall = now, !.anchor = r.cursor]
      BY <2>1, AnchoredStarts
    <3>2. a.wall = now /\ a.anchor = r.cursor
      BY <3>1, <2>1 DEF Players
    <3> QED BY <1>2, <2>1, <3>1, <3>2
  <2> HIDE DEF a, b
  <2>3. /\ q \in Players /\ q.events = p.events /\ q.status = a.status /\ q.index = a.index
        /\ q.cursor = a.cursor /\ q.wall = now /\ q.anchor = q.cursor /\ q.speed = speed
    BY <1>1, <2>2 DEF Players
  <2>4. Positioned(q)
    BY <2>2, <2>3 DEF Positioned, From, To
  <2>5. Reach(q) = q.cursor
    <3>1. \A v \in Nat : (now - now) * v = 0
      OBVIOUS
    <3>2. q.cursor \in Nat /\ speed \in Nat
      BY <2>3 DEF Players
    <3> QED BY <2>3, <3>1, <3>2 DEF Reach
  <2>6. Started(q, t)
    <3>1. Reach(p) \in Nat /\ To(p) \in Nat /\ To(q) = To(p)
      BY <1>2, <2>3, ReachAdvances, CaptureEnds DEF To, Started
    <3>2. Reach(p) = t \/ (Reach(p) >= To(p) /\ t >= To(p))
      BY <1>2 DEF Started, Meets
    <3>3. q.cursor = IF Reach(p) > To(p) THEN To(p) ELSE Reach(p)
      BY <2>1, <2>2, <2>3
    <3>4. Reach(q) = t \/ (Reach(q) >= To(q) /\ t >= To(q))
      BY <3>1, <3>2, <3>3, <2>5
    <3>5. q.cursor <= Reach(q)
      BY <2>5, <3>1, <3>3
    <3> QED BY <2>3, <3>4, <3>5 DEF Started, Meets
  <2> QED BY <2>2, <2>3, <2>4, <2>6 DEF q
<1>3. CASE p.status # "playing"
  <2>1. q = [p EXCEPT !.speed = speed]
    BY <1>1, <1>3
  <2> HIDE DEF q
  <2>2. /\ q \in Players /\ q.events = p.events /\ q.status = p.status /\ q.index = p.index
        /\ q.cursor = p.cursor
    BY <2>1 DEF Players
  <2>3. Positioned(q)
    BY <2>2 DEF Positioned, From, To
  <2>4. p.index \in Nat
    BY DEF Players
  <2> QED BY <1>3, <2>2, <2>3, <2>4 DEF q
<1> QED BY <1>2, <1>3

(* load(): at the first event.                                             *)
LEMMA LoadedStands ==
  ASSUME NEW events \in {Remote, BuiltIn} \ {<<>>}, NEW speed \in Nat \ {0}
  PROVE  LET p == Loaded(events, speed) IN
         /\ p \in Players /\ Positioned(p) /\ p.events = events /\ p.status = "ready"
         /\ p.index = 0 /\ p.cursor = events[1].at /\ p.speed = speed
<1> DEFINE p == Loaded(events, speed)
<1>1. p = [status |-> "ready", events |-> events, cursor |-> events[1].at, index |-> 0,
           speed |-> speed, wall |-> 0, anchor |-> 0]
  BY DEF Loaded, Idle
<1> HIDE DEF p
<1>2. [status |-> "ready", events |-> events, cursor |-> 0, index |-> 0,
       speed |-> speed, wall |-> 0, anchor |-> 0] \in Players
  BY DEF Players
<1>3. events[1].at \in Nat
  BY <1>2, CaptureShape
<1>4. p \in Players
  BY <1>1, <1>3 DEF Players
<1>5. /\ p.events = events /\ p.status = "ready" /\ p.index = 0 /\ p.cursor = events[1].at
      /\ p.speed = speed
  BY <1>1
<1>6. /\ From(p) \in Nat /\ From(p) <= To(p) /\ To(p) \in Nat /\ p.cursor = From(p)
      /\ Len(p.events) \in Nat
      /\ \A i \in DOMAIN p.events : From(p) <= p.events[i].at /\ p.events[i].at \in Nat /\ i > 0
  BY <1>4, <1>5, CaptureEnds, CaptureShape DEF From
<1>7. Positioned(p)
  BY <1>5, <1>6 DEF Positioned
<1> QED BY <1>4, <1>5, <1>7 DEF p

(* What the user sees.                                                     *)
Pages == [active : BOOLEAN, market : [mode : Modes, symbol : Symbols]]

(* The invariant of the player: a page is in a replay exactly when its     *)
(* player has events, the player is positioned among them, and while it    *)
(* plays its clock meets the time played.                                  *)
PlayerOK(pg, p, t) ==
  /\ pg \in Pages /\ p \in Players /\ t \in Nat
  /\ p.status # "ready"
  /\ p.status = "idle" <=> p.events = <<>>
  /\ pg.active <=> p.events # <<>>
  /\ p.events # <<>> => Positioned(p)
  /\ p.status = "playing" => Started(p, t)

PlayerInv == now \in Nat /\ PlayerOK(page, player, reached)

LEMMA SpeedsCount == Head(Speeds) \in Nat \ {0} /\ \A v \in ToSet(Speeds) : v \in Nat \ {0}
<1>1. Speeds \in Seq(Nat \ {0}) /\ Speeds # <<>>
  BY ViewAssumption
<1>2. \A s \in Seq(Nat \ {0}) : s # <<>> => Head(s) \in Nat \ {0}
  OBVIOUS
<1>3. \A s \in Seq(Nat \ {0}) : \A i \in DOMAIN s : s[i] \in Nat \ {0}
  OBVIOUS
<1> QED BY <1>1, <1>2, <1>3 DEF ToSet

LEMMA IdleStands ==
  ASSUME NEW pg \in Pages, ~pg.active, NEW speed \in Nat \ {0}, NEW t \in Nat
  PROVE  PlayerOK(pg, Idle(speed), t)
<1> DEFINE p == Idle(speed)
<1>1. p = [status |-> "idle", events |-> <<>>, cursor |-> 0, index |-> 0,
           speed |-> speed, wall |-> 0, anchor |-> 0]
  BY DEF Idle
<1> HIDE DEF p
<1>2. p \in Players
  BY <1>1 DEF Players
<1>3. p.status = "idle" /\ p.events = <<>>
  BY <1>1
<1> QED BY <1>2, <1>3 DEF PlayerOK, p

(* What does not touch the clock.                                          *)
LEMMA PlayerNext ==
  ASSUME now \in Nat, now' = now, PlayerOK(page', player', reached')
  PROVE  PlayerInv'
BY DEF PlayerInv, PlayerOK, Positioned, Started, Meets, Reach, From, To

LEMMA PlayerKept ==
  ASSUME PlayerInv, UNCHANGED <<now, page, player, reached>>
  PROVE  PlayerInv'
BY PlayerNext DEF PlayerInv

LEMMA PlayerTicks ==
  ASSUME PlayerInv, Tick
  PROVE  PlayerInv' /\ player'.index >= player.index /\ player'.events = player.events
<1>1. /\ player \in Players /\ now \in Nat /\ player.status = "playing" /\ player.events # <<>>
      /\ Positioned(player) /\ Started(player, reached) /\ reached \in Nat
      /\ page \in Pages /\ page.active
  BY DEF PlayerInv, PlayerOK, Tick
<1>2. /\ player' = PlayedOn(player)
      /\ now' = now /\ page' = page /\ reached' = reached
  BY DEF Tick
<1>3. /\ player' \in Players /\ Positioned(player') /\ player'.events = player.events
      /\ player'.status \in {"playing", "ended"} /\ player'.index >= player.index
      /\ Started(player', reached')
  BY <1>1, <1>2, PlayedOnAdvances, PlayedOnStaysStarted DEF Started
<1>4. PlayerOK(page', player', reached')
  BY <1>1, <1>2, <1>3 DEF PlayerOK
<1> QED BY <1>1, <1>2, <1>3, <1>4, PlayerNext

(* The clock ticks: the time played grows by the speed, and so does the    *)
(* reach.                                                                  *)
LEMMA ClockRuns ==
  ASSUME PlayerInv, Clock
  PROVE  PlayerInv'
<1>1. /\ now \in Nat /\ now' = now + 1 /\ now' \in Nat /\ page' = page /\ player' = player
      /\ reached' = IF player.status = "playing" THEN reached + player.speed ELSE reached
      /\ PlayerOK(page, player, reached) /\ player \in Players /\ reached \in Nat
  BY DEF Clock, PlayerInv, PlayerOK
<1>2. player.speed \in Nat /\ player.wall \in Nat /\ player.anchor \in Nat /\ player.cursor \in Nat
  BY <1>1 DEF Players
<1>3. reached' \in Nat
  BY <1>1, <1>2
<1>4. CASE player.status = "playing"
  <2>1. /\ Started(player, reached) /\ player.events # <<>> /\ Positioned(player)
        /\ player.wall <= now
    BY <1>1, <1>4 DEF PlayerOK, Started
  <2>2. Reach(player) \in Nat /\ To(player) \in Nat
    BY <1>1, <2>1, ReachAdvances, CaptureEnds
  <2>3. \A d, v, a \in Nat : a + (d + 1) * v = (a + d * v) + v
    OBVIOUS
  <2>4. Reach(player)' = Reach(player) + player.speed
    <3> DEFINE d == now - player.wall
    <3>1. d \in Nat /\ now' - player'.wall = d + 1
      BY <1>1, <1>2, <2>1
    <3>2. Reach(player) = player.anchor + d * player.speed
      BY DEF Reach
    <3> HIDE DEF d
    <3>3. Reach(player)' = player.anchor + (d + 1) * player.speed
      BY <1>1, <3>1 DEF Reach
    <3>4. player.anchor + (d + 1) * player.speed = (player.anchor + d * player.speed) + player.speed
      BY ONLY <1>2, <2>3, <3>1, Zenon
    <3> QED BY ONLY <3>2, <3>3, <3>4, Zenon
  <2>5. To(player)' = To(player)
    BY <1>1 DEF To
  <2> DEFINE r == Reach(player)
             to == To(player)
  <2>6. r + player.speed = reached + player.speed
          \/ (r + player.speed >= to /\ reached + player.speed >= to)
    <3>1. r = reached \/ (r >= to /\ reached >= to)
      BY <2>1 DEF Started, Meets
    <3>2. r \in Nat /\ to \in Nat /\ reached \in Nat
      BY <1>1, <2>2
    <3> HIDE DEF r, to
    <3> QED BY <1>2, <3>1, <3>2
  <2>7. Meets(player, reached)'
    <3>1. reached' = reached + player.speed
      BY <1>1, <1>4
    <3> QED BY <2>4, <2>5, <2>6, <3>1 DEF Meets
  <2>8. player'.wall <= now' /\ player'.cursor <= Reach(player)'
    <3>1. player.cursor <= Reach(player)
      BY <2>1 DEF Started
    <3>2. \A c, x, v \in Nat : c <= x => c <= x + v
      OBVIOUS
    <3> QED BY <1>1, <1>2, <2>1, <2>2, <2>4, <3>1, <3>2
  <2>9. Started(player, reached)'
    BY <2>7, <2>8 DEF Started
  <2>10. Positioned(player)'
    BY <1>1, <2>1 DEF Positioned, From, To
  <2> QED BY <1>1, <1>3, <1>4, <2>1, <2>9, <2>10 DEF PlayerInv, PlayerOK
<1>5. CASE player.status # "playing"
  <2>1. player.events # <<>> => Positioned(player)'
    BY <1>1 DEF PlayerOK, Positioned, From, To
  <2> QED BY <1>1, <1>3, <1>5, <2>1 DEF PlayerInv, PlayerOK
<1> QED BY <1>4, <1>5

LEMMA PlayerLeft ==
  ASSUME PlayerInv, NEW chosen \in [mode : Modes, symbol : Symbols], NEW pre, Leave(chosen, pre)
  PROVE  PlayerInv'
<1>1. now \in Nat /\ player.speed \in Nat \ {0}
  BY DEF PlayerInv, PlayerOK, Players
<1>2. page' \in Pages /\ ~page'.active
  BY DEF Leave, Pages
<1>3. player' = Idle(player.speed) /\ now' = now /\ reached' = 0
  BY DEF Leave
<1>4. PlayerOK(page', player', reached')
  BY <1>1, <1>2, <1>3, IdleStands
<1> QED BY <1>1, <1>3, <1>4, PlayerNext

LEMMA PlayerLoads ==
  ASSUME PlayerInv, NEW events \in {Remote, BuiltIn} \ {<<>>}, Load(events)
  PROVE  PlayerInv' /\ player'.events = events
<1>1. now \in Nat /\ player.speed \in Nat \ {0} /\ page \in Pages
  BY DEF PlayerInv, PlayerOK, Players
<1>2. /\ player' = Playing(Loaded(events, player.speed)) /\ now' = now
      /\ reached' = events[1].at /\ page' = [page EXCEPT !.active = TRUE]
  BY DEF Load
<1> DEFINE p == Loaded(events, player.speed)
<1>3. /\ p \in Players /\ Positioned(p) /\ p.events = events /\ p.status = "ready"
      /\ p.cursor = events[1].at
  BY <1>1, LoadedStands
<1> HIDE DEF p
<1>4. /\ player' \in Players /\ Positioned(player') /\ player'.events = events
      /\ player'.status \in {"playing", "ended"} /\ Started(player', events[1].at)
  BY <1>1, <1>2, <1>3, PlayingStarts DEF p
<1>5. events[1].at \in Nat
  BY <1>3 DEF Players
<1>6. page' \in Pages /\ page'.active
  BY <1>1, <1>2 DEF Pages
<1>7. PlayerOK(page', player', reached')
  BY <1>2, <1>4, <1>5, <1>6 DEF PlayerOK
<1> QED BY <1>1, <1>2, <1>4, <1>7, PlayerNext

LEMMA PlayerPlays ==
  ASSUME PlayerInv, Play
  PROVE  /\ PlayerInv' /\ player'.index >= PlayedFrom(player) /\ player'.events = player.events
         /\ player.status # "ended" => player'.index >= player.index
<1>1. /\ now \in Nat /\ page \in Pages /\ player \in Players /\ player.events # <<>>
      /\ Positioned(player) /\ player.status \in {"ready", "paused", "ended"} /\ page.active
  BY DEF Play, PlayerInv, PlayerOK
<1>2. /\ player' = Playing(player) /\ now' = now /\ page' = page
      /\ reached' = IF player.status = "ended" THEN From(player) ELSE player.cursor
  BY DEF Play
<1>3. /\ player' \in Players /\ Positioned(player') /\ player'.events = player.events
      /\ player'.status \in {"playing", "ended"} /\ Started(player', reached')
      /\ player'.index >= PlayedFrom(player)
      /\ player.status # "ended" => player'.index >= player.index
  BY <1>1, <1>2, PlayingStarts
<1>4. reached' \in Nat
  BY <1>1, <1>2, CaptureEnds DEF Players
<1>5. PlayerOK(page', player', reached')
  BY <1>1, <1>2, <1>3, <1>4 DEF PlayerOK
<1> QED BY <1>1, <1>2, <1>3, <1>5, PlayerNext

LEMMA PlayerPauses ==
  ASSUME PlayerInv, Pause
  PROVE  PlayerInv' /\ player'.index >= player.index /\ player'.events = player.events
<1>1. /\ player \in Players /\ now \in Nat /\ player.status = "playing" /\ player.events # <<>>
      /\ Positioned(player) /\ Started(player, reached) /\ reached \in Nat
      /\ page \in Pages /\ page.active
  BY DEF PlayerInv, PlayerOK, Pause
<1>2. player' = Paused(player) /\ now' = now /\ page' = page /\ reached' = reached
  BY DEF Pause
<1>3. /\ player' \in Players /\ Positioned(player') /\ player'.events = player.events
      /\ player'.status \in {"playing", "paused", "ended"} /\ player'.index >= player.index
      /\ Started(player', reached')
  BY <1>1, <1>2, PausedStands
<1>4. PlayerOK(page', player', reached')
  BY <1>1, <1>2, <1>3 DEF PlayerOK
<1> QED BY <1>1, <1>2, <1>3, <1>4, PlayerNext

(* seek(), and the restart of a replay: the clock starts at the new time.  *)
LEMMA SoughtIsOK ==
  ASSUME now \in Nat, NEW pg \in Pages, pg.active, NEW p \in Players, p.events # <<>>,
         NEW t \in From(p) .. To(p)
  PROVE  PlayerOK(pg, Sought(p, t), t)
<1> DEFINE q == Sought(p, t)
<1>1. /\ q \in Players /\ Positioned(q)
      /\ q.events = p.events /\ q.speed = p.speed /\ q.cursor = t
      /\ q.status = IF p.status = "playing" THEN "playing" ELSE "paused"
      /\ p.status = "playing" => q.wall = now /\ q.anchor = t
  BY SoughtStands
<1>2. t \in Nat
  BY CaptureEnds
<1> HIDE DEF q
<1>3. q.status = "playing" => Started(q, t)
  <2> HAVE q.status = "playing"
  <2>1. q.wall = now /\ q.anchor = t
    BY <1>1
  <2>2. \A v \in Nat : (now - now) * v = 0
    OBVIOUS
  <2>3. q.speed \in Nat
    BY <1>1 DEF Players
  <2>4. Reach(q) = t
    BY <1>2, <2>1, <2>2, <2>3 DEF Reach
  <2> QED BY <1>1, <1>2, <2>1, <2>4 DEF Started, Meets
<1> QED BY <1>1, <1>2, <1>3 DEF PlayerOK, q

LEMMA PlayerSeeks ==
  ASSUME PlayerInv, NEW t, Seek(t)
  PROVE  PlayerInv' /\ player'.events = player.events
<1>1. /\ player \in Players /\ now \in Nat /\ player.events # <<>> /\ page \in Pages
      /\ page.active /\ t \in From(player) .. To(player)
  BY DEF PlayerInv, PlayerOK, Seek
<1>2. player' = Sought(player, t) /\ now' = now /\ page' = page /\ reached' = t
  BY DEF Seek
<1>3. PlayerOK(page', player', reached')
  BY <1>1, <1>2, SoughtIsOK
<1>4. player'.events = player.events
  BY <1>1, <1>2, SoughtStands
<1> QED BY <1>1, <1>2, <1>3, <1>4, PlayerNext

LEMMA PlayerSpeeds ==
  ASSUME PlayerInv, NEW speed \in Nat \ {0}, SetSpeed(speed)
  PROVE  PlayerInv' /\ player'.index >= player.index /\ player'.events = player.events
<1>1. /\ player \in Players /\ now \in Nat /\ player.events # <<>> /\ Positioned(player)
      /\ player.status = "playing" => Started(player, reached)
      /\ player.status \notin {"ready", "idle"}
      /\ reached \in Nat /\ page \in Pages /\ page.active
  BY DEF PlayerInv, PlayerOK, SetSpeed
<1>2. player' = SpedUp(player, speed) /\ now' = now /\ page' = page /\ reached' = reached
  BY DEF SetSpeed
<1>3. /\ player' \in Players /\ Positioned(player') /\ player'.events = player.events
      /\ player'.status \in {player.status, "ended"} /\ player'.index >= player.index
      /\ player.status = "playing" => Started(player', reached')
  BY <1>1, <1>2, SpedUpStands
<1>4. PlayerOK(page', player', reached')
  BY <1>1, <1>2, <1>3 DEF PlayerOK
<1> QED BY <1>1, <1>2, <1>3, <1>4, PlayerNext

LEMMA PlayerRestarts ==
  ASSUME PlayerInv, page.active, now' = now, Restarted
  PROVE  PlayerInv' /\ player'.events = player.events
<1>1. /\ player \in Players /\ now \in Nat /\ player.events # <<>> /\ Positioned(player)
      /\ player.status = "playing" => Started(player, reached)
      /\ reached \in Nat /\ page \in Pages
  BY DEF PlayerInv, PlayerOK
<1> DEFINE p == IF player.status = "playing" THEN Paused(player) ELSE player
<1>2. player' = Sought(p, From(p)) /\ page' = page /\ reached' = From(p)
  BY DEF Restarted
<1>3. p \in Players /\ p.events = player.events
  BY <1>1, PausedStands
<1> HIDE DEF p
<1>4. From(p) \in From(p) .. To(p)
  BY <1>1, <1>3, CaptureEnds
<1>5. PlayerOK(page', player', reached')
  BY <1>1, <1>2, <1>3, <1>4, SoughtIsOK
<1>6. player'.events = player.events
  BY <1>1, <1>2, <1>3, <1>4, SoughtStands
<1> QED BY <1>1, <1>5, <1>6, PlayerNext

(* The invariant of the player is inductive.                               *)
LEMMA PlayerStep ==
  ASSUME PlayerInv, [ViewNext]_viewVars
  PROVE  PlayerInv'
<1>1. CASE UNCHANGED viewVars
  BY <1>1, PlayerKept DEF viewVars
<1>2. CASE Render
  BY <1>2, PlayerKept DEF Render
<1>3. CASE Tick
  BY <1>3, PlayerTicks
<1>4. CASE Clock
  BY <1>4, ClockRuns
<1>5. CASE \E kind \in {"depth_frame", "trend_signal", "status", "market_reset"} :
             \E good \in BOOLEAN : Send(kind, good)
  BY <1>5, PlayerKept DEF Send
<1>6. CASE \E symbol \in Symbols : SelectSymbol(symbol)
  <2>1. PICK symbol \in Symbols : SelectSymbol(symbol)
    BY <1>6
  <2>2. [page.market EXCEPT !.symbol = symbol] \in [mode : Modes, symbol : Symbols]
    BY DEF PlayerInv, PlayerOK, Pages
  <2> QED BY <2>1, <2>2, PlayerLeft DEF SelectSymbol
<1>7. CASE \E mode \in {"live", "demo"} : SelectMode(mode)
  <2>1. PICK mode \in {"live", "demo"} : SelectMode(mode)
    BY <1>7
  <2>2. [page.market EXCEPT !.mode = mode] \in [mode : Modes, symbol : Symbols]
    BY DEF PlayerInv, PlayerOK, Pages, Modes
  <2> QED BY <2>1, <2>2, PlayerLeft DEF SelectMode
<1>8. CASE SelectReplay
  BY <1>8, PlayerKept DEF SelectReplay
<1>9. CASE FetchSettles
  BY <1>9, PlayerLoads DEF FetchSettles
<1>10. CASE Play
  BY <1>10, PlayerPlays
<1>11. CASE Pause
  BY <1>11, PlayerPauses
<1>12. CASE \E t \in 0 .. MaxClock * 2 : Seek(t)
  BY <1>12, PlayerSeeks
<1>13. CASE \E speed \in ToSet(Speeds) : SetSpeed(speed)
  BY <1>13, PlayerSpeeds, SpeedsCount
<1>14. CASE RecoverDashboard
  <2>1. CASE page.active
    BY <1>14, <2>1, PlayerRestarts DEF RecoverDashboard
  <2>2. CASE ~page.active
    BY <1>14, <2>2, PlayerKept DEF RecoverDashboard
  <2> QED BY <2>1, <2>2
<1> QED BY <1>1, <1>2, <1>3, <1>4, <1>5, <1>6, <1>7, <1>8, <1>9, <1>10, <1>11, <1>12,
           <1>13, <1>14 DEF ViewNext

LEMMA PlayerBegins ==
  ASSUME ViewInit
  PROVE  PlayerInv
<1>1. page \in Pages /\ ~page.active
  BY ViewAssumption DEF ViewInit, Pages, Modes
<1> QED BY <1>1, SpeedsCount, IdleStands DEF ViewInit, PlayerInv

(* The playhead is where the time played, at the speed of each moment, has *)
(* taken it, through pauses, seeks and changes of speed, for every         *)
(* recording in order, every list of speeds and any number of the user's   *)
(* acts; the events before it have been emitted or skipped, the others     *)
(* have not.                                                               *)
THEOREM ReplayStaysOnTime == ViewSpec => []ReplayKeepsTime
<1>1. ViewInit => PlayerInv
  BY PlayerBegins
<1>2. PlayerInv /\ [ViewNext]_viewVars => PlayerInv'
  BY PlayerStep
<1>3. PlayerInv => ReplayKeepsTime
  <2> SUFFICES ASSUME PlayerInv, player.events # <<>>
               PROVE  /\ player.status = "playing" =>
                           Target(player) = IF reached > To(player) THEN To(player) ELSE reached
                      /\ \A i \in DOMAIN player.events :
                           /\ i <= player.index => player.events[i].at <= player.cursor
                           /\ i > player.index => player.events[i].at >= player.cursor
    BY DEF ReplayKeepsTime
  <2>1. /\ player \in Players /\ Positioned(player) /\ now \in Nat /\ reached \in Nat
        /\ player.status = "playing" => Started(player, reached)
    BY DEF PlayerInv, PlayerOK
  <2>2. ASSUME player.status = "playing"
        PROVE  Target(player) = IF reached > To(player) THEN To(player) ELSE reached
    <3>1. Target(player) = IF Reach(player) > To(player) THEN To(player) ELSE Reach(player)
      BY DEF Target, Reach
    <3>2. Reach(player) \in Nat /\ To(player) \in Nat
      BY <2>1, <2>2, ReachAdvances, CaptureEnds DEF Started
    <3>3. Reach(player) = reached \/ (Reach(player) >= To(player) /\ reached >= To(player))
      BY <2>1, <2>2 DEF Started, Meets
    <3> QED BY <2>1, <3>1, <3>2, <3>3
  <2> QED BY <2>1, <2>2 DEF Positioned
<1> QED BY <1>1, <1>2, <1>3, PTL DEF ViewSpec

(* Types of the updaters that wait for React and of what they work on.     *)
Images == [market : PageMarkets, at : Nat, book : BOOLEAN]
Updaters ==
  {u \in [kind : RecordedKinds \cup {"market_reset", "clear", "ready"}, market : PageMarkets,
          at : Nat, good : BOOLEAN] :
     u.kind = "trade_bucket" => u.good}
Trends == {NoTrend, "live", "demo", "replay"}
Datas == [frames : Seq(Images), trend : Trends, stale : BOOLEAN, valid : BOOLEAN]
Screens == [buffer : Seq(Images), data : Datas, sound : BOOLEAN]

Drawn(u) == u.kind \in {"depth_frame", "trade_bucket"}
Sound(s) == s.data.trend # NoTrend => s.sound

(* RingBuffer.push(): the last of what was there.                          *)
LEMMA LastOfShape ==
  ASSUME NEW S, NEW seq \in Seq(S), NEW n \in Nat
  PROVE  /\ LastOf(seq, n) \in Seq(S)
         /\ \E d \in Nat : /\ Len(LastOf(seq, n)) = Len(seq) - d
                           /\ \A i \in 1 .. Len(seq) - d : LastOf(seq, n)[i] = seq[i + d]
<1> DEFINE d == IF Len(seq) > n THEN Len(seq) - n ELSE 0
<1>1. d \in Nat /\ d <= Len(seq) /\ Len(seq) \in Nat
  OBVIOUS
<1>2. LastOf(seq, n) = SubSeq(seq, 1 + d, Len(seq))
  BY DEF LastOf
<1> HIDE DEF d
<1>3. /\ SubSeq(seq, 1 + d, Len(seq)) \in Seq(S)
      /\ Len(SubSeq(seq, 1 + d, Len(seq))) = Len(seq) - d
      /\ \A i \in 1 .. Len(seq) - d : SubSeq(seq, 1 + d, Len(seq))[i] = seq[i + d]
  BY <1>1
<1> QED BY <1>1, <1>2, <1>3

LEMMA ScreenShape ==
  ASSUME NEW s \in Screens
  PROVE  /\ s.buffer \in Seq(Images) /\ s.data \in Datas /\ s.sound \in BOOLEAN
         /\ s.data.frames \in Seq(Images) /\ s.data.trend \in Trends
         /\ s.data.stale \in BOOLEAN /\ s.data.valid \in BOOLEAN
<1>1. s.buffer \in Seq(Images) /\ s.data \in Datas /\ s.sound \in BOOLEAN
  BY DEF Screens
<1>2. /\ s.data.frames \in Seq(Images) /\ s.data.trend \in Trends
      /\ s.data.stale \in BOOLEAN /\ s.data.valid \in BOOLEAN
  BY <1>1 DEF Datas
<1> QED BY <1>1, <1>2

LEMMA UpdaterShape ==
  ASSUME NEW u \in Updaters
  PROVE  /\ u.kind \in RecordedKinds \cup {"market_reset", "clear", "ready"}
         /\ u.market \in PageMarkets /\ u.market.mode \in Trends \ {NoTrend} /\ u.at \in Nat
         /\ u.good \in BOOLEAN /\ (u.kind = "trade_bucket" => u.good)
         /\ Image(u) \in Images /\ Image(u).market = u.market /\ Image(u).at = u.at
<1>1. /\ u.kind \in RecordedKinds \cup {"market_reset", "clear", "ready"}
      /\ u.market \in PageMarkets /\ u.at \in Nat
      /\ u.good \in BOOLEAN /\ (u.kind = "trade_bucket" => u.good)
  BY DEF Updaters
<1>2. u.market.mode \in Trends \ {NoTrend}
  BY <1>1 DEF PageMarkets, Modes, Trends, NoTrend
<1>3. Image(u) \in Images /\ Image(u).market = u.market /\ Image(u).at = u.at
  BY <1>1 DEF Image, Images
<1> QED BY <1>1, <1>2, <1>3

(* The updaters of the frames: a frame that loses the validity takes the   *)
(* trend with it.                                                          *)
LEMMA FrameRuns ==
  ASSUME page \in Pages, NEW s \in Screens, NEW u \in Updaters, Drawn(u), Sound(s)
  PROVE  LET r == RunFrame(s, u) IN
         /\ r \in Screens /\ Sound(r)
         /\ r.buffer = LastOf(Append(s.buffer, Image(u)), Kept) /\ r.data.frames = r.buffer
<1> DEFINE frames == LastOf(Append(s.buffer, Image(u)), Kept)
           invalid == ~u.good \/ ~FrameProven(s)
           isBook == Image(u).book
           stale == IF isBook THEN invalid ELSE s.data.stale
           trend == IF isBook THEN Still(s.data.trend, ~invalid) ELSE s.data.trend
           sd == s.sound /\ u.good
           r == RunFrame(s, u)
<1>1. frames \in Seq(Images)
  <2>1. Append(s.buffer, Image(u)) \in Seq(Images) /\ Kept \in Nat
    BY ScreenShape, UpdaterShape, ViewAssumption
  <2> QED BY <2>1, LastOfShape
<1>2. /\ invalid \in BOOLEAN /\ isBook \in BOOLEAN /\ sd \in BOOLEAN
      /\ isBook <=> u.kind = "depth_frame"
  <2>1. FrameProven(s) \in BOOLEAN
    BY ScreenShape DEF FrameProven, Pages
  <2> QED BY <2>1, UpdaterShape, ScreenShape DEF Image
<1>3. r = [s EXCEPT !.buffer = frames, !.data.frames = frames, !.data.stale = stale,
                    !.data.trend = trend, !.sound = sd]
  <2>1. s.data \in Datas
    BY ScreenShape
  <2> QED BY <2>1 DEF RunFrame, Screens, Datas
<1>4. (u.good => sd = s.sound) /\ (~u.good => isBook /\ invalid)
  <2>1. ~u.good => u.kind # "trade_bucket"
    BY UpdaterShape
  <2>2. ~u.good => isBook
    BY <1>2, <2>1 DEF Drawn
  <2>3. u.good => sd = s.sound
    BY ScreenShape, UpdaterShape
  <2> QED BY <2>2, <2>3
<1>5. stale \in BOOLEAN /\ trend \in Trends /\ (trend # NoTrend => sd)
  <2>1. stale \in BOOLEAN
    BY <1>2, ScreenShape
  <2>2. trend \in {s.data.trend, NoTrend}
    BY DEF Still
  <2>3. trend \in Trends
    BY <2>2, ScreenShape DEF Trends
  <2>4. ~u.good => trend = NoTrend
    BY <1>4 DEF Still
  <2>5. trend # NoTrend => sd
    BY <1>4, <2>2, <2>4 DEF Sound
  <2> QED BY <2>1, <2>3, <2>5
<1> HIDE DEF frames, invalid, isBook, stale, trend, sd, r
<1> DEFINE d == [s.data EXCEPT !.frames = frames, !.stale = stale, !.trend = trend]
<1>6. d \in Datas /\ d.frames = frames /\ d.trend = trend
  BY <1>1, <1>5, ScreenShape DEF Datas
<1>7. r = [s EXCEPT !.buffer = frames, !.data = d, !.sound = sd]
  BY <1>3, ScreenShape DEF Screens
<1> HIDE DEF d
<1>8. r \in Screens /\ r.buffer = frames /\ r.data = d /\ r.sound = sd
  BY <1>1, <1>2, <1>6, <1>7 DEF Screens
<1>9. Sound(r)
  BY <1>5, <1>6, <1>8 DEF Sound
<1> QED BY <1>6, <1>8, <1>9 DEF r, frames

(* What the other updaters change of the screen.                           *)
LEMMA OthersRun ==
  ASSUME page \in Pages, NEW s \in Screens, NEW u \in Updaters, ~Drawn(u), Sound(s)
  PROVE  LET r == Run(s, u) IN
         /\ r \in Screens /\ Sound(r)
         /\ u.kind = "clear" => r.buffer = s.buffer /\ r.data.frames = <<>>
         /\ u.kind = "market_reset" => r.buffer = <<>> /\ r.data.frames = <<>>
         /\ u.kind \notin {"clear", "market_reset"} =>
              r.buffer = s.buffer /\ r.data.frames = s.data.frames
<1> DEFINE r == Run(s, u)
<1>0. /\ page.active \in BOOLEAN /\ u.good \in BOOLEAN
      /\ s.buffer \in Seq(Images) /\ s.data \in Datas /\ s.sound \in BOOLEAN
      /\ s.data.frames \in Seq(Images) /\ s.data.trend \in Trends
      /\ s.data.stale \in BOOLEAN /\ s.data.valid \in BOOLEAN
  BY ScreenShape, UpdaterShape DEF Pages
<1>00. <<>> \in Seq(Images) /\ NoTrend \in Trends
  BY DEF Trends
<1>1. CASE u.kind = "trend_signal"
  <2> DEFINE allowed == /\ ~s.data.stale
                        /\ IF page.active THEN HasBook(s.data.frames) ELSE s.data.valid
             trend == IF allowed THEN u.market.mode ELSE NoTrend
             d == [s.data EXCEPT !.trend = trend]
  <2>1. r = [s EXCEPT !.data.trend = trend, !.sound = allowed]
    BY <1>1 DEF Run, RunTrend
  <2>2. allowed \in BOOLEAN
    BY <1>0 DEF HasBook
  <2>3. trend \in Trends /\ (trend # NoTrend => allowed)
    BY UpdaterShape DEF Trends
  <2> HIDE DEF allowed, trend, r
  <2>4. d \in Datas /\ d.frames = s.data.frames /\ d.trend = trend
    BY <1>0, <2>3 DEF Datas
  <2>5. r = [s EXCEPT !.data = d, !.sound = allowed]
    BY <2>1, <1>0 DEF Screens
  <2> HIDE DEF d
  <2>6. r \in Screens /\ r.buffer = s.buffer /\ r.data = d /\ r.sound = allowed
    BY <1>0, <2>2, <2>4, <2>5 DEF Screens
  <2>7. Sound(r)
    BY <2>3, <2>4, <2>6 DEF Sound
  <2> QED BY <1>1, <2>4, <2>6, <2>7 DEF r
<1>2. CASE u.kind = "status"
  <2> DEFINE valid == u.good /\ ~page.active
             trend == Still(s.data.trend, u.good)
             sd == s.sound /\ u.good
             d == [s.data EXCEPT !.valid = valid, !.stale = ~u.good, !.trend = trend]
  <2>1. r = [s EXCEPT !.data.valid = valid, !.data.stale = ~u.good, !.data.trend = trend,
                      !.sound = sd]
    BY <1>0, <1>2 DEF Run, RunStatus, Screens, Datas
  <2>2. valid \in BOOLEAN /\ sd \in BOOLEAN
    BY <1>0
  <2>3. trend \in Trends /\ (trend # NoTrend => sd)
    BY <1>0 DEF Still, Sound, Trends
  <2> HIDE DEF valid, trend, sd, r
  <2>4. d \in Datas /\ d.frames = s.data.frames /\ d.trend = trend
    BY <1>0, <2>2, <2>3 DEF Datas
  <2>5. r = [s EXCEPT !.data = d, !.sound = sd]
    BY <2>1, <1>0 DEF Screens
  <2> HIDE DEF d
  <2>6. r \in Screens /\ r.buffer = s.buffer /\ r.data = d /\ r.sound = sd
    BY <1>0, <2>2, <2>4, <2>5 DEF Screens
  <2>7. Sound(r)
    BY <2>3, <2>4, <2>6 DEF Sound
  <2> QED BY <1>2, <2>4, <2>6, <2>7 DEF r
<1>3. CASE u.kind = "market_reset"
  <2> DEFINE d == [frames |-> <<>>, trend |-> NoTrend, stale |-> TRUE, valid |-> FALSE]
  <2>1. r = [s EXCEPT !.buffer = <<>>, !.data = d, !.sound = FALSE]
    BY <1>3 DEF Run, RunReset
  <2>2. d \in Datas /\ d.frames = <<>> /\ d.trend = NoTrend
    BY <1>00 DEF Datas
  <2> HIDE DEF d, r
  <2>3. r \in Screens /\ r.buffer = <<>> /\ r.data = d
    BY <2>1, <2>2, <1>0, <1>00 DEF Screens
  <2> QED BY <1>3, <2>2, <2>3 DEF Sound, r
<1>4. CASE u.kind = "clear"
  <2> DEFINE d == [s.data EXCEPT !.frames = <<>>, !.trend = NoTrend]
  <2>1. r = [s EXCEPT !.data = d, !.sound = FALSE]
    BY <1>0, <1>4 DEF Run, RunClear, Screens
  <2>2. d \in Datas /\ d.frames = <<>> /\ d.trend = NoTrend
    BY <1>0, <1>00 DEF Datas
  <2> HIDE DEF d, r
  <2>3. r \in Screens /\ r.buffer = s.buffer /\ r.data = d
    BY <2>1, <2>2, <1>0 DEF Screens
  <2> QED BY <1>4, <2>2, <2>3 DEF Sound, r
<1>5. CASE u.kind = "ready"
  <2> DEFINE d == [s.data EXCEPT !.stale = FALSE, !.valid = FALSE]
  <2>1. r = [s EXCEPT !.data = d]
    BY <1>0, <1>5 DEF Run, RunReady, Screens
  <2>2. d \in Datas /\ d.frames = s.data.frames /\ d.trend = s.data.trend
    BY <1>0 DEF Datas
  <2> HIDE DEF d, r
  <2>3. r \in Screens /\ r.buffer = s.buffer /\ r.data = d /\ r.sound = s.sound
    BY <2>1, <2>2, <1>0 DEF Screens
  <2> QED BY <1>5, <2>2, <2>3 DEF Sound, r
<1> QED BY <1>1, <1>2, <1>3, <1>4, <1>5, UpdaterShape DEF RecordedKinds, Drawn

(* A screen whose trend is sound.                                          *)
SoundScreens == {s \in Screens : Sound(s)}

InTime(seq) == \A i, j \in DOMAIN seq : i <= j => seq[i].at <= seq[j].at

(* A screen (s) and the updaters that wait past the n-th of a queue (q)    *)
(* fit a source and the times it has been played through (D): what is      *)
(* drawn and what will be drawn is of that source, of those times and in   *)
(* their order; a clear that waits finds the buffers empty, and nothing is *)
(* drawn before it; and the chart shows what is in the buffers unless such *)
(* a clear is still to come.                                               *)
Fits(src, D, s, q, n) ==
  /\ \A i \in DOMAIN s.buffer : s.buffer[i].market = src /\ s.buffer[i].at \in D
  /\ InTime(s.buffer)
  /\ \A k \in n + 1 .. Len(q) : Drawn(q[k]) =>
       /\ q[k].market = src /\ q[k].at \in D
       /\ \A i \in DOMAIN s.buffer : s.buffer[i].at <= q[k].at
       /\ \A j \in k + 1 .. Len(q) : Drawn(q[j]) => q[k].at <= q[j].at
  /\ \A k \in n + 1 .. Len(q) : q[k].kind = "clear" =>
       s.buffer = <<>> /\ \A j \in n + 1 .. k - 1 : ~Drawn(q[j])
  /\ s.data.frames = s.buffer \/ \E k \in n + 1 .. Len(q) : q[k].kind = "clear"

LEMMA RunShape ==
  ASSUME page \in Pages, NEW s \in SoundScreens, NEW u \in Updaters
  PROVE  Run(s, u) \in SoundScreens
<1>1. Drawn(u) => Run(s, u) = RunFrame(s, u)
  BY DEF Drawn, Run
<1> QED BY <1>1, FrameRuns, OthersRun DEF SoundScreens

LEMMA PushedShape ==
  ASSUME NEW seq \in Seq(Images), NEW x \in Images
  PROVE  /\ LastOf(Append(seq, x), Kept) \in Seq(Images)
         /\ \A i \in DOMAIN LastOf(Append(seq, x), Kept) :
              LastOf(Append(seq, x), Kept)[i] = x
                \/ \E j \in DOMAIN seq : LastOf(Append(seq, x), Kept)[i] = seq[j]
         /\ (InTime(seq) /\ \A i \in DOMAIN seq : seq[i].at <= x.at)
              => InTime(LastOf(Append(seq, x), Kept))
<1> DEFINE b == Append(seq, x)
           f == LastOf(b, Kept)
<1>1. /\ b \in Seq(Images) /\ Len(b) = Len(seq) + 1 /\ Len(seq) \in Nat
      /\ DOMAIN seq = 1 .. Len(seq) /\ \A i \in 1 .. Len(seq) : b[i] = seq[i]
      /\ b[Len(seq) + 1] = x
  OBVIOUS
<1> HIDE DEF b
<1>2. f \in Seq(Images) /\ \E d \in Nat : /\ Len(f) = Len(b) - d
                                          /\ \A i \in 1 .. Len(b) - d : f[i] = b[i + d]
  <2>1. Kept \in Nat
    BY ViewAssumption
  <2> HIDE DEF f
  <2>2. \A n \in Nat :
          /\ LastOf(b, n) \in Seq(Images)
          /\ \E d \in Nat : /\ Len(LastOf(b, n)) = Len(b) - d
                            /\ \A i \in 1 .. Len(b) - d : LastOf(b, n)[i] = b[i + d]
    <3>1. b \in Seq(Images)
      BY <1>1
    <3> QED BY ONLY <3>1, LastOfShape, Zenon
  <2> QED BY <2>1, <2>2 DEF f
<1> HIDE DEF f
<1>3. PICK d \in Nat : Len(f) = Len(b) - d /\ \A i \in 1 .. Len(b) - d : f[i] = b[i + d]
  BY <1>2
<1>4. DOMAIN f = 1 .. Len(b) - d
  BY <1>2, <1>3
<1>5. ASSUME NEW i \in DOMAIN f PROVE f[i] = x \/ \E j \in DOMAIN seq : f[i] = seq[j]
  <2>1. i + d \in 1 .. Len(seq) + 1 /\ f[i] = b[i + d]
    BY <1>1, <1>3, <1>4
  <2>2. CASE i + d = Len(seq) + 1
    BY <1>1, <2>1, <2>2
  <2>3. CASE i + d \in 1 .. Len(seq)
    BY <1>1, <2>1, <2>3
  <2> QED BY <2>1, <2>2, <2>3, <1>1
<1>6. ASSUME InTime(seq), \A i \in DOMAIN seq : seq[i].at <= x.at,
             NEW i \in DOMAIN f, NEW j \in DOMAIN f, i <= j
      PROVE  f[i].at <= f[j].at
  <2>1. /\ i + d \in 1 .. Len(seq) + 1 /\ f[i] = b[i + d]
        /\ j + d \in 1 .. Len(seq) + 1 /\ f[j] = b[j + d] /\ i + d <= j + d
    BY <1>1, <1>3, <1>4, <1>6
  <2>2. CASE i + d = Len(seq) + 1
    <3>1. f[i] = x /\ f[j] = x
      BY <1>1, <2>1, <2>2
    <3>2. x.at \in Nat
      BY DEF Images
    <3> QED BY <3>1, <3>2
  <2>3. CASE i + d \in 1 .. Len(seq) /\ j + d = Len(seq) + 1
    BY <1>1, <1>6, <2>1, <2>3
  <2>4. CASE i + d \in 1 .. Len(seq) /\ j + d \in 1 .. Len(seq)
    BY <1>1, <1>6, <2>1, <2>4 DEF InTime
  <2> QED BY <1>1, <2>1, <2>2, <2>3, <2>4
<1> QED BY <1>2, <1>5, <1>6 DEF f, b, InTime

(* React runs the next updater.                                            *)
LEMMA RunFits ==
  ASSUME page \in Pages, NEW src, NEW D, D \subseteq Nat, NEW q \in Seq(Updaters),
         NEW n \in 1 .. Len(q), NEW s \in SoundScreens, Fits(src, D, s, q, n - 1)
  PROVE  Fits(src, D, Run(s, q[n]), q, n)
<1> DEFINE u == q[n]
           r == Run(s, u)
<1>1. /\ u \in Updaters /\ s \in Screens /\ Sound(s) /\ n \in Nat /\ Len(q) \in Nat
      /\ (n - 1) + 1 = n /\ n \in n .. Len(q)
      /\ n + 1 .. Len(q) \subseteq n .. Len(q)
      /\ s.buffer \in Seq(Images) /\ r \in SoundScreens
  BY RunShape, ScreenShape DEF SoundScreens
<1>2. /\ \A i \in DOMAIN s.buffer : s.buffer[i].market = src /\ s.buffer[i].at \in D
      /\ InTime(s.buffer)
      /\ \A k \in n .. Len(q) : Drawn(q[k]) =>
           /\ q[k].market = src /\ q[k].at \in D
           /\ \A i \in DOMAIN s.buffer : s.buffer[i].at <= q[k].at
           /\ \A j \in k + 1 .. Len(q) : Drawn(q[j]) => q[k].at <= q[j].at
      /\ \A k \in n .. Len(q) : q[k].kind = "clear" =>
           s.buffer = <<>> /\ \A j \in n .. k - 1 : ~Drawn(q[j])
      /\ s.data.frames = s.buffer \/ \E k \in n .. Len(q) : q[k].kind = "clear"
  BY <1>1 DEF Fits
<1>3. CASE Drawn(u)
  <2> DEFINE f == LastOf(Append(s.buffer, Image(u)), Kept)
  <2>1. r.buffer = f /\ r.data.frames = f
    <3>1. r = RunFrame(s, u)
      BY <1>3 DEF Drawn, Run
    <3> QED BY <1>1, <1>3, <3>1, FrameRuns
  <2>2. Image(u) \in Images /\ Image(u).market = u.market /\ Image(u).at = u.at
    BY <1>1, UpdaterShape
  <2>3. /\ u.market = src /\ u.at \in D
        /\ \A i \in DOMAIN s.buffer : s.buffer[i].at <= u.at
        /\ \A j \in n + 1 .. Len(q) : Drawn(q[j]) => u.at <= q[j].at
    BY <1>1, <1>2, <1>3
  <2>4. /\ \A i \in DOMAIN f : f[i] = Image(u) \/ \E j \in DOMAIN s.buffer : f[i] = s.buffer[j]
        /\ InTime(f)
    BY <1>1, <1>2, <2>2, <2>3, PushedShape
  <2> HIDE DEF f, r, u
  <2>5. ASSUME NEW k \in n + 1 .. Len(q), q[k].kind = "clear" PROVE FALSE
    <3>1. n \in n .. k - 1 /\ k \in n .. Len(q)
      BY <1>1
    <3> QED BY <1>2, <1>3, <2>5, <3>1 DEF u
  <2>6. \A i \in DOMAIN r.buffer : r.buffer[i].market = src /\ r.buffer[i].at \in D
    BY <1>2, <2>1, <2>2, <2>3, <2>4
  <2>7. ASSUME NEW k \in n + 1 .. Len(q), Drawn(q[k])
        PROVE  /\ q[k].market = src /\ q[k].at \in D
               /\ \A i \in DOMAIN r.buffer : r.buffer[i].at <= q[k].at
               /\ \A j \in k + 1 .. Len(q) : Drawn(q[j]) => q[k].at <= q[j].at
    <3>1. k \in n .. Len(q)
      BY <1>1
    <3>2. \A i \in DOMAIN s.buffer : s.buffer[i].at <= q[k].at
      BY <1>2, <2>7, <3>1
    <3>3. u.at <= q[k].at
      BY <2>3, <2>7
    <3>4. \A i \in DOMAIN r.buffer : r.buffer[i].at <= q[k].at
      BY <2>1, <2>2, <2>4, <3>2, <3>3
    <3> QED BY <1>2, <2>7, <3>1, <3>4
  <2> QED BY <2>1, <2>4, <2>5, <2>6, <2>7 DEF Fits, r, u
<1>4. CASE ~Drawn(u)
  <2>1. /\ u.kind = "clear" => r.buffer = s.buffer /\ r.data.frames = <<>>
        /\ u.kind = "market_reset" => r.buffer = <<>> /\ r.data.frames = <<>>
        /\ u.kind \notin {"clear", "market_reset"} =>
             r.buffer = s.buffer /\ r.data.frames = s.data.frames
    BY <1>1, <1>4, OthersRun
  <2> HIDE DEF r
  <2>2. r.buffer \in {s.buffer, <<>>}
    BY <2>1
  <2>3. u.kind = "clear" => s.buffer = <<>>
    BY <1>1, <1>2
  <2>4. r.data.frames = r.buffer \/ \E k \in n + 1 .. Len(q) : q[k].kind = "clear"
    <3>1. CASE u.kind \in {"clear", "market_reset"}
      BY <2>1, <2>3, <3>1
    <3>2. CASE u.kind \notin {"clear", "market_reset"}
      <4>1. ASSUME NEW k \in n .. Len(q), q[k].kind = "clear" PROVE k \in n + 1 .. Len(q)
        <5>1. k # n
          BY <3>2, <4>1
        <5> QED BY <1>1, <5>1
      <4> QED BY <1>2, <2>1, <3>2, <4>1
    <3> QED BY <3>1, <3>2
  <2> HIDE DEF u
  <2>5. DOMAIN <<>> = {}
    OBVIOUS
  <2>6. /\ \A i \in DOMAIN r.buffer : r.buffer[i].market = src /\ r.buffer[i].at \in D
        /\ InTime(r.buffer)
    BY <1>2, <2>2, <2>5 DEF InTime
  <2>7. ASSUME NEW k \in n + 1 .. Len(q), Drawn(q[k])
        PROVE  /\ q[k].market = src /\ q[k].at \in D
               /\ \A i \in DOMAIN r.buffer : r.buffer[i].at <= q[k].at
               /\ \A j \in k + 1 .. Len(q) : Drawn(q[j]) => q[k].at <= q[j].at
    <3>1. k \in n .. Len(q)
      BY <1>1
    <3>2. \A i \in DOMAIN r.buffer : r.buffer[i].at <= q[k].at
      BY <1>2, <2>2, <2>5, <2>7, <3>1
    <3> QED BY <1>2, <2>7, <3>1, <3>2
  <2>8. ASSUME NEW k \in n + 1 .. Len(q), q[k].kind = "clear"
        PROVE  r.buffer = <<>> /\ \A j \in n + 1 .. k - 1 : ~Drawn(q[j])
    <3>1. k \in n .. Len(q) /\ n + 1 .. k - 1 \subseteq n .. k - 1
      BY <1>1
    <3> QED BY <1>2, <2>2, <2>8, <3>1
  <2> QED BY <2>4, <2>6, <2>7, <2>8 DEF Fits, r, u
<1> QED BY <1>3, <1>4

(* The screens between the updaters React runs.                            *)
LEMMA RunPrefixes ==
  ASSUME page \in Pages, NEW q \in Seq(Updaters), NEW base \in SoundScreens
  PROVE  \E a \in [0 .. Len(q) -> SoundScreens] :
           /\ a[0] = base
           /\ \A k \in 1 .. Len(q) : a[k] = Run(a[k - 1], q[k])
           /\ FoldLeft(Run, base, q) = a[Len(q)]
<1> DEFINE n == Len(q)
           step == [k \in 1 .. n |-> [acc \in SoundScreens |-> Run(acc, q[k])]]
           h == CHOOSE f : f = [s \in SUBSET (DOMAIN q) |->
                                  IF s = {} THEN base
                                  ELSE Run(f[s \ {Max(s)}], q[Max(s)])]
<1>1. n \in Nat /\ DOMAIN q = 1 .. n /\ \A k \in 1 .. n : q[k] \in Updaters
  OBVIOUS
<1>2. step \in [1 .. n -> [SoundScreens -> SoundScreens]]
  BY <1>1, RunShape
<1>3. PICK g \in [SUBSET (1 .. n) -> SoundScreens] :
        \A s \in SUBSET (1 .. n) :
          g[s] = IF s = {} THEN base ELSE step[Max(s)][g[s \ {Max(s)}]]
  <2> HIDE DEF n, step, h
  <2>1. Recursion(n, SoundScreens, base, step)
    BY <1>1, <1>2, FoldRecursion
  <2> QED BY <2>1 DEF Recursion
<1>4. \A s \in SUBSET (1 .. n) : s # {} => Max(s) \in 1 .. n
  <2> HIDE DEF n
  <2> QED BY <1>1, GreatestElement
<1>5. g = [s \in SUBSET (DOMAIN q) |->
             IF s = {} THEN base ELSE Run(g[s \ {Max(s)}], q[Max(s)])]
  <2>1. ASSUME NEW s \in SUBSET (1 .. n)
        PROVE  g[s] = IF s = {} THEN base ELSE Run(g[s \ {Max(s)}], q[Max(s)])
    <3>1. s # {} => g[s \ {Max(s)}] \in SoundScreens
      BY <1>3
    <3> QED BY <1>3, <1>4, <3>1
  <2> HIDE DEF n
  <2> QED BY <1>1, <1>3, <2>1
<1>6. h = [s \in SUBSET (DOMAIN q) |->
             IF s = {} THEN base ELSE Run(h[s \ {Max(s)}], q[Max(s)])]
  BY <1>5
<1>7. FoldLeft(Run, base, q) = h[DOMAIN q]
  BY Zenon DEF FoldLeft, MapThenFoldSet
<1> HIDE DEF h
<1> DEFINE a == [k \in 0 .. n |-> h[1 .. k]]
           T == {k \in 0 .. n : a[k] \in SoundScreens}
<1>8. a[0] = base /\ base \in SoundScreens
  <2>1. 1 .. 0 = {} /\ {} \in SUBSET (DOMAIN q) /\ 0 \in 0 .. n
    BY <1>1
  <2>2. h[{}] = base
    BY <1>6, <2>1
  <2> QED BY <2>1, <2>2
<1>9. ASSUME NEW k \in 1 .. n PROVE a[k] = Run(a[k - 1], q[k])
  <2>1. k \in 0 .. n /\ k - 1 \in 0 .. n
    BY <1>1
  <2>2. /\ 1 .. k \in SUBSET (DOMAIN q) /\ 1 .. k # {}
        /\ Max(1 .. k) = k /\ (1 .. k) \ {k} = 1 .. (k - 1)
    <3> HIDE DEF n
    <3> QED BY <1>1, PrefixSplit
  <2>3. h[1 .. k] = Run(h[1 .. (k - 1)], q[k])
    BY <1>6, <2>2
  <2> QED BY <2>1, <2>3
<1>10. ASSUME NEW k \in 1 .. n, k - 1 \in T PROVE k \in T
  <2>1. a[k - 1] \in SoundScreens /\ q[k] \in Updaters /\ k \in 0 .. n
    BY <1>1, <1>10
  <2>2. a[k] \in SoundScreens
    <3> HIDE DEF a
    <3> QED BY <1>9, <2>1, RunShape
  <2> QED BY <2>1, <2>2
<1>11. 0 .. n \subseteq T
  <2>1. 0 \in T
    BY <1>1, <1>8
  <2> HIDE DEF T, n
  <2> QED BY <1>1, <1>10, <2>1, IntervalInduction
<1>12. a \in [0 .. n -> SoundScreens]
  <2>1. \A k \in 0 .. n : a[k] \in SoundScreens
    <3> HIDE DEF a
    <3> QED BY <1>11
  <2> QED BY <2>1
<1>13. FoldLeft(Run, base, q) = a[n]
  BY <1>1, <1>7
<1> HIDE DEF a
<1> QED BY <1>8, <1>9, <1>12, <1>13

(* React runs all of them.                                                 *)
LEMMA RunsFit ==
  ASSUME page \in Pages, NEW src, NEW D, D \subseteq Nat, NEW q \in Seq(Updaters),
         NEW s \in SoundScreens
  PROVE  LET r == FoldLeft(Run, s, q) IN
         r \in SoundScreens /\ (Fits(src, D, s, q, 0) => Fits(src, D, r, q, Len(q)))
<1>1. PICK a \in [0 .. Len(q) -> SoundScreens] :
        /\ a[0] = s
        /\ \A k \in 1 .. Len(q) : a[k] = Run(a[k - 1], q[k])
        /\ FoldLeft(Run, s, q) = a[Len(q)]
  BY RunPrefixes
<1>2. Len(q) \in Nat
  OBVIOUS
<1>3. ASSUME Fits(src, D, s, q, 0) PROVE Fits(src, D, a[Len(q)], q, Len(q))
  <2> DEFINE T == {k \in 0 .. Len(q) : Fits(src, D, a[k], q, k)}
  <2>1. 0 \in T
    BY <1>1, <1>2, <1>3
  <2>2. ASSUME NEW k \in 1 .. Len(q), k - 1 \in T PROVE k \in T
    <3>1. a[k - 1] \in SoundScreens /\ Fits(src, D, a[k - 1], q, k - 1) /\ k \in 0 .. Len(q)
      BY <1>1, <1>2, <2>2
    <3>2. Fits(src, D, Run(a[k - 1], q[k]), q, k)
      BY <3>1, RunFits
    <3>3. a[k] = Run(a[k - 1], q[k])
      BY <1>1
    <3>4. Fits(src, D, a[k], q, k)
      BY ONLY <3>2, <3>3, Zenon
    <3> QED BY <3>1, <3>4
  <2>3. 0 .. Len(q) \subseteq T
    <3> HIDE DEF T
    <3> QED BY <1>2, <2>1, <2>2, IntervalInduction
  <2> QED BY <1>2, <2>3
<1> QED BY <1>1, <1>2, <1>3

(* What the chart may show: the replay or the market that is selected; and *)
(* the times a replay has played through.                                  *)
Source(pg) == IF pg.active THEN Recorded ELSE pg.market
DueTimes(pg, p) ==
  IF pg.active THEN {t \in Nat : \A i \in p.index + 1 .. Len(p.events) : t <= p.events[i].at}
  ELSE {0}

(* What may be appended: of the source, due and in time.                   *)
Follow(src, D, us) ==
  \A k \in 1 .. Len(us) :
    /\ us[k].kind # "clear"
    /\ Drawn(us[k]) => /\ us[k].market = src /\ us[k].at \in D
                       /\ \A j \in k + 1 .. Len(us) : Drawn(us[j]) => us[k].at <= us[j].at

LEMMA ConcatShape ==
  ASSUME NEW S, NEW q \in Seq(S), NEW us \in Seq(S)
  PROVE  /\ q \o us \in Seq(S) /\ Len(q \o us) = Len(q) + Len(us)
         /\ Len(q) \in Nat /\ Len(us) \in Nat
         /\ \A k \in 1 .. Len(q) : (q \o us)[k] = q[k]
         /\ \A k \in Len(q) + 1 .. Len(q) + Len(us) :
              (q \o us)[k] = us[k - Len(q)] /\ k - Len(q) \in 1 .. Len(us)
OBVIOUS

(* Updaters that follow may wait behind those that wait.                   *)
LEMMA Appended ==
  ASSUME NEW src, NEW D, NEW E, D \subseteq E, E \subseteq Nat, NEW s \in Screens,
         NEW q \in Seq(Updaters), NEW us \in Seq(Updaters), Fits(src, D, s, q, 0),
         Follow(src, E, us),
         \A k \in 1 .. Len(us) : Drawn(us[k]) => \A d \in D : d <= us[k].at
  PROVE  Fits(src, E, s, q \o us, 0)
<1> DEFINE w == q \o us
<1>1. /\ w \in Seq(Updaters) /\ Len(w) = Len(q) + Len(us) /\ Len(q) \in Nat /\ Len(us) \in Nat
      /\ \A k \in 1 .. Len(q) : w[k] = q[k]
      /\ \A k \in Len(q) + 1 .. Len(q) + Len(us) :
           w[k] = us[k - Len(q)] /\ k - Len(q) \in 1 .. Len(us)
  BY ConcatShape
<1> HIDE DEF w
<1>2. /\ \A i \in DOMAIN s.buffer : s.buffer[i].market = src /\ s.buffer[i].at \in D
      /\ InTime(s.buffer)
      /\ \A k \in 1 .. Len(q) : Drawn(q[k]) =>
           /\ q[k].market = src /\ q[k].at \in D
           /\ \A i \in DOMAIN s.buffer : s.buffer[i].at <= q[k].at
           /\ \A j \in k + 1 .. Len(q) : Drawn(q[j]) => q[k].at <= q[j].at
      /\ \A k \in 1 .. Len(q) : q[k].kind = "clear" =>
           s.buffer = <<>> /\ \A j \in 1 .. k - 1 : ~Drawn(q[j])
      /\ s.data.frames = s.buffer \/ \E k \in 1 .. Len(q) : q[k].kind = "clear"
  BY DEF Fits
<1>3. ASSUME NEW k \in 1 .. Len(w)
      PROVE  k \in 1 .. Len(q) \/ k \in Len(q) + 1 .. Len(q) + Len(us)
  BY <1>1
<1>4. ASSUME NEW k \in 1 .. Len(w), Drawn(w[k])
      PROVE  /\ w[k].market = src /\ w[k].at \in E
             /\ \A i \in DOMAIN s.buffer : s.buffer[i].at <= w[k].at
             /\ \A j \in k + 1 .. Len(w) : Drawn(w[j]) => w[k].at <= w[j].at
  <2>1. CASE k \in 1 .. Len(q)
    <3>1. /\ w[k] = q[k] /\ Drawn(q[k]) /\ q[k].market = src /\ q[k].at \in D
          /\ \A i \in DOMAIN s.buffer : s.buffer[i].at <= q[k].at
          /\ \A j \in k + 1 .. Len(q) : Drawn(q[j]) => q[k].at <= q[j].at
      BY <1>1, <1>2, <1>4, <2>1
    <3>2. ASSUME NEW j \in k + 1 .. Len(w), Drawn(w[j]) PROVE w[k].at <= w[j].at
      <4>1. j \in k + 1 .. Len(q) \/ j \in Len(q) + 1 .. Len(q) + Len(us)
        BY <1>1, <2>1
      <4>2. CASE j \in k + 1 .. Len(q)
        <5>1. w[j] = q[j]
          BY <1>1, <2>1, <4>2
        <5> QED BY <3>1, <3>2, <4>2, <5>1
      <4>3. CASE j \in Len(q) + 1 .. Len(q) + Len(us)
        <5>1. w[j] = us[j - Len(q)] /\ j - Len(q) \in 1 .. Len(us)
          BY <1>1, <4>3
        <5> QED BY <3>1, <3>2, <5>1
      <4> QED BY <4>1, <4>2, <4>3
    <3> QED BY <3>1, <3>2
  <2>2. CASE k \in Len(q) + 1 .. Len(q) + Len(us)
    <3> DEFINE m == k - Len(q)
    <3>1. w[k] = us[m] /\ m \in 1 .. Len(us)
      BY <1>1, <2>2
    <3>2. /\ us[m].market = src /\ us[m].at \in E
          /\ \A j \in m + 1 .. Len(us) : Drawn(us[j]) => us[m].at <= us[j].at
          /\ \A d \in D : d <= us[m].at
      <4> HIDE DEF m
      <4> QED BY <1>4, <3>1 DEF Follow
    <3>3. ASSUME NEW j \in k + 1 .. Len(w), Drawn(w[j]) PROVE w[k].at <= w[j].at
      <4>1. j \in Len(q) + 1 .. Len(q) + Len(us) /\ j - Len(q) \in m + 1 .. Len(us)
        BY <1>1, <2>2
      <4>2. w[j] = us[j - Len(q)]
        BY <1>1, <4>1
      <4> HIDE DEF m
      <4> QED BY <3>1, <3>2, <3>3, <4>1, <4>2
    <3> HIDE DEF m
    <3> QED BY <1>2, <3>1, <3>2, <3>3
  <2> QED BY <1>3, <2>1, <2>2
<1>5. ASSUME NEW k \in 1 .. Len(w), w[k].kind = "clear"
      PROVE  s.buffer = <<>> /\ \A j \in 1 .. k - 1 : ~Drawn(w[j])
  <2>1. CASE k \in 1 .. Len(q)
    <3>1. \A j \in 1 .. k - 1 : j \in 1 .. Len(q)
      BY <1>1, <2>1
    <3>2. w[k] = q[k] /\ \A j \in 1 .. k - 1 : w[j] = q[j]
      BY <1>1, <2>1, <3>1
    <3> QED BY <1>2, <1>5, <2>1, <3>2
  <2>2. CASE k \in Len(q) + 1 .. Len(q) + Len(us)
    <3>1. w[k] = us[k - Len(q)] /\ k - Len(q) \in 1 .. Len(us)
      BY <1>1, <2>2
    <3> QED BY <1>5, <3>1 DEF Follow
  <2> QED BY <1>3, <2>1, <2>2
<1>6. s.data.frames = s.buffer \/ \E k \in 1 .. Len(w) : w[k].kind = "clear"
  <2>1. ASSUME NEW k \in 1 .. Len(q), q[k].kind = "clear"
        PROVE  k \in 1 .. Len(w) /\ w[k].kind = "clear"
    BY <1>1, <2>1
  <2> QED BY <1>2, <2>1
<1>7. \A i \in DOMAIN s.buffer : s.buffer[i].market = src /\ s.buffer[i].at \in E
  BY <1>2
<1>8. Fits(src, E, s, w, 0)
  BY <1>2, <1>4, <1>5, <1>6, <1>7 DEF Fits
<1> QED BY <1>8 DEF w

(* A chart emptied with nothing waiting: what is queued starts it afresh.  *)
LEMMA ClearedAfresh ==
  ASSUME NEW src, NEW D, D \subseteq Nat, NEW s \in Screens, s.buffer = <<>>,
         NEW pre \in Seq(Updaters), \A k \in 1 .. Len(pre) : ~Drawn(pre[k]),
         NEW c \in Updaters, c.kind = "clear", NEW us \in Seq(Updaters), Follow(src, D, us)
  PROVE  Fits(src, D, s, pre \o (<<c>> \o us), 0)
<1> DEFINE v == <<c>> \o us
           q == pre \o v
           n == Len(pre) + 1
<1>1. <<c>> \in Seq(Updaters) /\ Len(<<c>>) = 1 /\ <<c>>[1] = c
  OBVIOUS
<1>2. /\ v \in Seq(Updaters) /\ Len(v) = 1 + Len(us) /\ Len(us) \in Nat /\ v[1] = c
      /\ \A k \in 2 .. 1 + Len(us) : v[k] = us[k - 1] /\ k - 1 \in 1 .. Len(us)
  <2> DEFINE o == <<c>>
  <2>1. o \in Seq(Updaters) /\ Len(o) = 1 /\ o[1] = c
    BY <1>1
  <2> HIDE DEF o
  <2>2. /\ o \o us \in Seq(Updaters) /\ Len(o \o us) = Len(o) + Len(us) /\ Len(us) \in Nat
        /\ \A k \in 1 .. Len(o) : (o \o us)[k] = o[k]
        /\ \A k \in Len(o) + 1 .. Len(o) + Len(us) :
             (o \o us)[k] = us[k - Len(o)] /\ k - Len(o) \in 1 .. Len(us)
    BY ONLY <2>1, us \in Seq(Updaters), ConcatShape, Zenon
  <2> DEFINE z == o \o us
  <2> HIDE DEF z
  <2>3. /\ z \in Seq(Updaters) /\ Len(z) = 1 + Len(us) /\ Len(us) \in Nat /\ z[1] = c
        /\ \A k \in 2 .. 1 + Len(us) : z[k] = us[k - 1] /\ k - 1 \in 1 .. Len(us)
    BY ONLY <2>1, <2>2, 1 \in 1 .. 1, 1 + 1 = 2 DEF z
  <2> QED BY <2>3 DEF o, z
<1> HIDE DEF v
<1>3. /\ q \in Seq(Updaters) /\ Len(q) = n + Len(us) /\ n \in Nat /\ n >= 1
      /\ \A k \in 1 .. n - 1 : q[k] = pre[k] /\ k \in 1 .. Len(pre)
      /\ q[n] = c /\ n \in 1 .. Len(q)
      /\ \A k \in n + 1 .. Len(q) : q[k] = us[k - n] /\ k - n \in 1 .. Len(us)
  <2>1. /\ q \in Seq(Updaters) /\ Len(q) = Len(pre) + Len(v) /\ Len(pre) \in Nat
        /\ \A k \in 1 .. Len(pre) : q[k] = pre[k]
        /\ \A k \in Len(pre) + 1 .. Len(pre) + Len(v) :
             q[k] = v[k - Len(pre)] /\ k - Len(pre) \in 1 .. Len(v)
    <3>1. v \in Seq(Updaters)
      BY <1>2
    <3> QED BY ONLY <3>1, pre \in Seq(Updaters), ConcatShape, Zenon DEF q
  <2> HIDE DEF q
  <2>2. q[n] = c
    <3>1. n \in Len(pre) + 1 .. Len(pre) + Len(v) /\ n - Len(pre) = 1
      BY <1>2, <2>1
    <3> QED BY <1>2, <2>1, <3>1
  <2>3. ASSUME NEW k \in n + 1 .. Len(q) PROVE q[k] = us[k - n] /\ k - n \in 1 .. Len(us)
    <3>1. /\ k \in Len(pre) + 1 .. Len(pre) + Len(v) /\ k - Len(pre) \in 2 .. 1 + Len(us)
          /\ (k - Len(pre)) - 1 = k - n
      BY <1>2, <2>1
    <3> QED BY <1>2, <2>1, <3>1
  <2>4. /\ Len(q) = n + Len(us) /\ n \in Nat /\ n >= 1 /\ n \in 1 .. Len(q)
        /\ \A k \in 1 .. n - 1 : k \in 1 .. Len(pre)
    BY <1>2, <2>1
  <2> QED BY <2>1, <2>2, <2>3, <2>4
<1> HIDE DEF q, n
<1>4. ASSUME NEW k \in 1 .. Len(q), Drawn(q[k]) PROVE k \in n + 1 .. Len(q)
  <2>1. ~(k \in 1 .. n - 1)
    BY <1>3, <1>4
  <2>2. k # n
    BY <1>3, <1>4 DEF Drawn
  <2> QED BY <1>3, <2>1, <2>2
<1>5. ASSUME NEW k \in 1 .. Len(q), Drawn(q[k])
      PROVE  /\ q[k].market = src /\ q[k].at \in D
             /\ \A j \in k + 1 .. Len(q) : Drawn(q[j]) => q[k].at <= q[j].at
  <2>1. k \in n + 1 .. Len(q) /\ q[k] = us[k - n] /\ k - n \in 1 .. Len(us)
    BY <1>3, <1>4, <1>5
  <2>2. ASSUME NEW j \in k + 1 .. Len(q), Drawn(q[j]) PROVE q[k].at <= q[j].at
    <3>1. j \in n + 1 .. Len(q) /\ j - n \in (k - n) + 1 .. Len(us)
      BY <1>3, <2>1
    <3>2. q[j] = us[j - n]
      BY <1>3, <3>1
    <3> QED BY <1>5, <2>1, <2>2, <3>1, <3>2 DEF Follow
  <2> QED BY <1>5, <2>1, <2>2 DEF Follow
<1>6. ASSUME NEW k \in 1 .. Len(q), q[k].kind = "clear", NEW j \in 1 .. k - 1, Drawn(q[j])
      PROVE  FALSE
  <2>1. j \in 1 .. Len(q)
    BY <1>3
  <2>2. j \in n + 1 .. Len(q)
    BY <1>4, <1>6, <2>1
  <2>3. k \in n + 1 .. Len(q)
    BY <1>3, <2>2
  <2>4. q[k] = us[k - n] /\ k - n \in 1 .. Len(us)
    BY <1>3, <2>3
  <2> QED BY <1>6, <2>4 DEF Follow
<1>7. \E k \in 1 .. Len(q) : q[k].kind = "clear"
  BY <1>3
<1>8. DOMAIN s.buffer = {}
  OBVIOUS
<1>9. Fits(src, D, s, q, 0)
  BY <1>5, <1>6, <1>7, <1>8 DEF Fits, InTime
<1> QED BY <1>9 DEF q, v

LEMMA RecordedShape == Recorded \in PageMarkets
BY ViewAssumption DEF Recorded, PageMarkets

(* What the player hands to ingest().                                      *)
LEMMA EmittedShape ==
  ASSUME NEW p \in Players, NEW from \in 0 .. Len(p.events), NEW to \in from .. Len(p.events)
  PROVE  LET us == Emitted(from, to, p.events) IN
         /\ us \in Seq(Updaters) /\ Len(us) = to - from
         /\ \A k \in 1 .. Len(us) :
              /\ from + k \in DOMAIN p.events /\ us[k].kind \in RecordedKinds
              /\ us[k].market = Recorded /\ us[k].at = p.events[from + k].at
<1> DEFINE us == Emitted(from, to, p.events)
           n == to - from
<1>1. /\ Len(p.events) \in Nat /\ DOMAIN p.events = 1 .. Len(p.events) /\ n \in Nat
      /\ from \in Nat /\ to \in Nat
  BY CaptureShape
<1>2. us = [i \in 1 .. n |-> Update(p.events[from + i].kind, Recorded, p.events[from + i].at, TRUE)]
  BY DEF Emitted
<1>3. ASSUME NEW k \in 1 .. n
      PROVE  /\ from + k \in DOMAIN p.events /\ us[k] \in Updaters /\ us[k].kind \in RecordedKinds
             /\ us[k].market = Recorded /\ us[k].at = p.events[from + k].at
  <2>1. from + k \in DOMAIN p.events
    BY <1>1
  <2> DEFINE e == p.events[from + k]
  <2>2. e \in RecordedEvents
    BY <2>1, CaptureShape
  <2> HIDE DEF e
  <2>3. us[k] = [kind |-> e.kind, market |-> Recorded, at |-> e.at, good |-> TRUE]
    BY <1>2 DEF Update, e
  <2>4. e.kind \in RecordedKinds /\ e.at \in Nat
    BY <2>2 DEF RecordedEvents
  <2> HIDE DEF us
  <2>5. us[k] \in Updaters
    BY <2>3, <2>4, RecordedShape DEF Updaters
  <2>6. us[k].kind = e.kind /\ us[k].market = Recorded /\ us[k].at = e.at
    BY <2>3
  <2> QED BY <2>1, <2>4, <2>5, <2>6 DEF e
<1> HIDE DEF n
<1>4. us \in [1 .. n -> Updaters]
  BY <1>2, <1>3
<1>5. us \in Seq(Updaters) /\ Len(us) = n
  BY <1>1, <1>4
<1> QED BY <1>3, <1>5 DEF n

LEMMA DueTimesAreTimes ==
  ASSUME NEW pg, NEW p
  PROVE  DueTimes(pg, p) \subseteq Nat
BY DEF DueTimes

(* What a replay emits on its way follows what it has emitted.             *)
LEMMA EmittedFollow ==
  ASSUME NEW pg, pg.active, NEW p \in Players, NEW q \in Players, q.events = p.events,
         NEW from \in 0 .. Len(p.events), q.index \in from .. Len(p.events)
  PROVE  /\ Follow(Source(pg), DueTimes(pg, q), Emitted(from, q.index, p.events))
         /\ from = p.index =>
              \A k \in 1 .. Len(Emitted(from, q.index, p.events)) :
                \A d \in DueTimes(pg, p) : d <= Emitted(from, q.index, p.events)[k].at
<1> DEFINE us == Emitted(from, q.index, p.events)
<1>1. /\ us \in Seq(Updaters) /\ Len(us) = q.index - from
      /\ \A k \in 1 .. Len(us) :
           /\ from + k \in DOMAIN p.events /\ us[k].kind \in RecordedKinds
           /\ us[k].market = Recorded /\ us[k].at = p.events[from + k].at
  BY EmittedShape
<1> HIDE DEF us
<1>2. /\ Len(p.events) \in Nat /\ DOMAIN p.events = 1 .. Len(p.events)
      /\ from \in Nat /\ q.index \in Nat
      /\ \A i \in DOMAIN p.events : p.events[i].at \in Nat
      /\ \A i, j \in DOMAIN p.events : i <= j => p.events[i].at <= p.events[j].at
  BY CaptureShape
<1>3. ASSUME NEW k \in 1 .. Len(us)
      PROVE  /\ us[k].kind # "clear" /\ us[k].market = Source(pg) /\ us[k].at \in DueTimes(pg, q)
             /\ \A j \in k + 1 .. Len(us) : us[k].at <= us[j].at
  <2>1. us[k].kind # "clear" /\ us[k].market = Source(pg)
    BY <1>1 DEF RecordedKinds, Source
  <2>2. ASSUME NEW i \in q.index + 1 .. Len(q.events) PROVE us[k].at <= q.events[i].at
    <3>1. i \in DOMAIN p.events /\ from + k \in DOMAIN p.events /\ from + k <= i
      BY <1>1, <1>2
    <3> QED BY <1>1, <1>2, <3>1
  <2>3. us[k].at \in DueTimes(pg, q)
    BY <1>1, <1>2, <2>2 DEF DueTimes
  <2>4. ASSUME NEW j \in k + 1 .. Len(us) PROVE us[k].at <= us[j].at
    <3>1. j \in 1 .. Len(us) /\ from + k <= from + j
      BY <1>1, <1>2
    <3> QED BY <1>1, <1>2, <3>1
  <2> QED BY <2>1, <2>3, <2>4
<1>4. ASSUME from = p.index, NEW k \in 1 .. Len(us), NEW d \in DueTimes(pg, p)
      PROVE  d <= us[k].at
  <2>1. from + k \in p.index + 1 .. Len(p.events)
    BY <1>1, <1>2, <1>4
  <2> QED BY <1>1, <1>4, <2>1 DEF DueTimes
<1>5. Follow(Source(pg), DueTimes(pg, q), us)
  BY <1>3 DEF Follow
<1> QED BY <1>4, <1>5 DEF us

(* Playing on, more times are played through.                              *)
LEMMA DueTimesGrow ==
  ASSUME NEW pg, NEW p \in Players, NEW q \in Players, q.events = p.events, q.index >= p.index
  PROVE  DueTimes(pg, p) \subseteq DueTimes(pg, q)
<1>1. p.index \in Nat /\ q.index \in Nat /\ Len(p.events) \in Nat
  BY CaptureShape DEF Players
<1>2. q.index + 1 .. Len(p.events) \subseteq p.index + 1 .. Len(p.events)
  BY <1>1
<1> QED BY <1>2 DEF DueTimes

LEMMA AnnouncementShape ==
  ASSUME NEW chosen \in [mode : Modes, symbol : Symbols], NEW D, 0 \in D
  PROVE  LET us == Announcement(chosen) IN
         /\ us \in Seq(Updaters) /\ Follow(chosen, D, us) /\ Len(us) \in {1, 3}
         /\ Len(us) = 1 => ~Drawn(us[1])
<1>1. chosen \in PageMarkets
  BY DEF PageMarkets
<1>2. CASE chosen.mode = "live"
  <2> DEFINE u == Update("status", chosen, 0, FALSE)
  <2>1. u \in Updaters /\ u.kind = "status"
    BY <1>1 DEF Update, Updaters, RecordedKinds
  <2> HIDE DEF u
  <2>2. Announcement(chosen) = <<u>>
    BY <1>2 DEF Announcement, u
  <2>3. <<u>> \in Seq(Updaters) /\ Len(<<u>>) = 1 /\ <<u>>[1] = u
    BY <2>1
  <2>4. ~Drawn(u) /\ u.kind # "clear"
    BY <2>1 DEF Drawn
  <2>5. Follow(chosen, D, <<u>>)
    <3>1. \A k \in 1 .. Len(<<u>>) : <<u>>[k] = u
      BY <2>3
    <3> QED BY <2>4, <3>1 DEF Follow
  <2> QED BY <2>2, <2>3, <2>4, <2>5
<1>3. CASE chosen.mode # "live"
  <2> DEFINE us == Announcement(chosen)
             kinds == <<"status", "depth_frame", "trend_signal">>
  <2>1. us = [i \in 1 .. 3 |-> Update(kinds[i], chosen, 0, TRUE)]
    BY <1>3 DEF Announcement
  <2>2. \A i \in 1 .. 3 : kinds[i] \in {"status", "depth_frame", "trend_signal"}
    OBVIOUS
  <2> HIDE DEF kinds
  <2>3. ASSUME NEW i \in 1 .. 3
        PROVE  /\ us[i] \in Updaters /\ us[i].kind # "clear" /\ us[i].market = chosen
               /\ us[i].at = 0
    <3>1. us[i] = [kind |-> kinds[i], market |-> chosen, at |-> 0, good |-> TRUE]
      BY <2>1 DEF Update
    <3> HIDE DEF us
    <3> QED BY <1>1, <2>2, <3>1 DEF Updaters, RecordedKinds
  <2>4. us \in [1 .. 3 -> Updaters]
    BY <2>1, <2>3
  <2> HIDE DEF us
  <2>5. us \in Seq(Updaters) /\ Len(us) = 3
    <3> DEFINE n == 3
    <3>1. n \in Nat /\ us \in [1 .. n -> Updaters]
      BY <2>4
    <3> HIDE DEF n
    <3>2. us \in Seq(Updaters) /\ Len(us) = n
      BY <3>1
    <3> QED BY <3>2 DEF n
  <2>6. Follow(chosen, D, us)
    <3>1. \A k \in 1 .. 3 : \A j \in k + 1 .. 3 : j \in 1 .. 3
      OBVIOUS
    <3>2. \A k \in 1 .. 3 : \A j \in k + 1 .. 3 : us[k].at <= us[j].at
      BY <2>3, <3>1
    <3> QED BY <2>3, <2>5, <3>2 DEF Follow
  <2> QED BY <2>5, <2>6 DEF us
<1> QED BY <1>2, <1>3

(* The invariant of the page: its trend is sound, and unless the buffers   *)
(* are known to be mixed, they and what waits fit what is selected and     *)
(* played.                                                                 *)
Screen == [buffer |-> buffer, data |-> data, sound |-> sound]

Fit(pg, p, s, q) == Fits(Source(pg), DueTimes(pg, p), s, q, 0)

ScreenInv ==
  /\ queue \in Seq(Updaters) /\ Screen \in SoundScreens
  /\ ~mixed => Fit(page, player, Screen, queue)

ViewInv == PlayerInv /\ ScreenInv

(* A step that leaves the state of the hook to React.                      *)
LEMMA ScreenNext ==
  ASSUME ScreenInv, UNCHANGED <<data, sound>>, buffer' \in {buffer, <<>>},
         queue' \in Seq(Updaters),
         ~mixed' => Fit(page', player', [buffer |-> buffer', data |-> data, sound |-> sound],
                        queue')
  PROVE  ScreenInv'
<1> DEFINE t == [buffer |-> buffer', data |-> data, sound |-> sound]
<1>1. Screen \in Screens /\ Sound(Screen)
  BY DEF ScreenInv, SoundScreens
<1>2. buffer \in Seq(Images) /\ data \in Datas /\ sound \in BOOLEAN
  BY <1>1 DEF Screens, Screen
<1>3. buffer' \in Seq(Images)
  <2>1. <<>> \in Seq(Images)
    OBVIOUS
  <2> QED BY <1>2, <2>1
<1>4. t \in Screens
  BY <1>2, <1>3 DEF Screens
<1>5. Sound(t)
  BY <1>1 DEF Sound, Screen
<1>6. Screen' = t
  BY DEF Screen
<1>7. t \in SoundScreens /\ (~mixed' => Fit(page', player', t, queue'))
  BY <1>4, <1>5 DEF SoundScreens
<1> HIDE DEF t
<1>8. Screen' \in SoundScreens /\ (~mixed' => Fit(page', player', Screen', queue'))
  BY <1>6, <1>7
<1> QED BY <1>8 DEF ScreenInv, Fit

LEMMA ScreenKept ==
  ASSUME ScreenInv, UNCHANGED <<page, player, screen>>
  PROVE  ScreenInv'
BY DEF ScreenInv, screen, Screen, Fit

LEMMA ScreenRenders ==
  ASSUME PlayerInv, ScreenInv, Render
  PROVE  ScreenInv'
<1> DEFINE s == FoldLeft(Run, [buffer |-> buffer, data |-> data, sound |-> sound], queue)
           D == DueTimes(page, player)
<1>1. /\ buffer' = s.buffer /\ data' = s.data /\ sound' = s.sound /\ queue' = <<>>
      /\ page' = page /\ player' = player /\ mixed' = mixed
  BY DEF Render
<1>2. page \in Pages /\ Screen \in SoundScreens /\ queue \in Seq(Updaters)
  BY DEF PlayerInv, PlayerOK, ScreenInv
<1>3. s = FoldLeft(Run, Screen, queue)
  BY DEF Screen
<1> HIDE DEF s
<1>4. /\ s \in SoundScreens
      /\ Fits(Source(page), D, Screen, queue, 0) => Fits(Source(page), D, s, queue, Len(queue))
  BY <1>2, <1>3, RunsFit, DueTimesAreTimes
<1>5. s = [buffer |-> s.buffer, data |-> s.data, sound |-> s.sound]
  BY <1>4 DEF SoundScreens, Screens
<1>6. Screen' = s
  BY <1>1, <1>5 DEF Screen
<1> HIDE DEF D
<1>7. Fits(Source(page), D, s, queue, Len(queue)) => Fits(Source(page), D, s, <<>>, 0)
  <2>1. /\ Len(queue) \in Nat /\ Len(queue) + 1 .. Len(queue) = {}
        /\ Len(<<>>) = 0 /\ 0 + 1 .. 0 = {}
    BY <1>2
  <2> QED BY <2>1 DEF Fits
<1>8. ~mixed' => Fit(page', player', Screen', queue')
  BY <1>1, <1>4, <1>6, <1>7 DEF ScreenInv, Fit, D
<1>9. queue' \in Seq(Updaters)
  BY <1>1
<1> QED BY <1>4, <1>6, <1>8, <1>9 DEF ScreenInv, Fit

(* What is sent or emitted, after what waits.                              *)
LEMMA ScreenFollows ==
  ASSUME ScreenInv, UNCHANGED <<buffer, data, sound>>, NEW us \in Seq(Updaters),
         queue' = queue \o us,
         ~mixed' => /\ ~mixed /\ Source(page') = Source(page)
                    /\ DueTimes(page, player) \subseteq DueTimes(page', player')
                    /\ Follow(Source(page'), DueTimes(page', player'), us)
                    /\ \A k \in 1 .. Len(us) : Drawn(us[k]) =>
                         \A d \in DueTimes(page, player) : d <= us[k].at
  PROVE  ScreenInv'
<1>1. queue \in Seq(Updaters) /\ Screen \in Screens
  BY DEF ScreenInv, SoundScreens
<1>2. queue' \in Seq(Updaters)
  BY <1>1, ConcatShape
<1>3. ASSUME ~mixed' PROVE Fit(page', player', Screen, queue')
  <2>1. Fits(Source(page'), DueTimes(page, player), Screen, queue, 0)
    BY <1>3 DEF ScreenInv, Fit
  <2>2. DueTimes(page', player') \subseteq Nat
    BY DueTimesAreTimes
  <2> QED BY <1>1, <1>3, <2>1, <2>2, Appended DEF Fit
<1>4. Screen = [buffer |-> buffer', data |-> data, sound |-> sound]
  BY DEF Screen
<1> QED BY <1>2, <1>3, <1>4, ScreenNext

(* clear(), with nothing waiting or a mixed chart.                         *)
LEMMA ScreenCleared ==
  ASSUME ScreenInv, UNCHANGED <<data, sound>>, buffer' = <<>>, NEW pre \in Seq(Updaters),
         NEW c \in Updaters, c.kind = "clear", NEW us \in Seq(Updaters),
         queue' = queue \o (pre \o (<<c>> \o us)),
         ~mixed' => /\ queue = <<>> /\ \A k \in 1 .. Len(pre) : ~Drawn(pre[k])
                    /\ Follow(Source(page'), DueTimes(page', player'), us)
  PROVE  ScreenInv'
<1> DEFINE s == [buffer |-> buffer', data |-> data, sound |-> sound]
           w == pre \o (<<c>> \o us)
<1>1. queue \in Seq(Updaters) /\ Screen \in Screens
  BY DEF ScreenInv, SoundScreens
<1>2. s \in Screens /\ s.buffer = <<>>
  BY <1>1 DEF Screens, Screen
<1>3. <<c>> \in Seq(Updaters)
  OBVIOUS
<1>4. <<c>> \o us \in Seq(Updaters)
  BY ONLY <1>3, us \in Seq(Updaters), ConcatShape, Zenon
<1>5. w \in Seq(Updaters)
  BY ONLY <1>4, pre \in Seq(Updaters), ConcatShape, Zenon
<1> HIDE DEF s
<1>6. ASSUME ~mixed' PROVE Fit(page', player', s, w)
  <2>1. DueTimes(page', player') \subseteq Nat
    BY DueTimesAreTimes
  <2>2. /\ \A k \in 1 .. Len(pre) : ~Drawn(pre[k])
        /\ Follow(Source(page'), DueTimes(page', player'), us)
    BY <1>6
  <2> QED BY <1>2, <2>1, <2>2, ClearedAfresh DEF Fit
<1> HIDE DEF w
<1>7. queue' \in Seq(Updaters)
  BY <1>1, <1>5, ConcatShape DEF w
<1>8. ASSUME ~mixed' PROVE Fit(page', player', s, queue')
  <2>1. queue' = w
    BY <1>5, <1>8 DEF w
  <2> QED BY <1>6, <1>8, <2>1
<1> QED BY <1>7, <1>8, ScreenNext DEF s

LEMMA ClearedShape ==
  ASSUME page \in Pages
  PROVE  Cleared \in Updaters /\ Cleared.kind = "clear"
<1>1. page.market \in PageMarkets
  BY DEF Pages, PageMarkets
<1> QED BY <1>1 DEF Cleared, Update, Updaters

LEMMA EmptyFollows ==
  ASSUME NEW src, NEW D
  PROVE  <<>> \in Seq(Updaters) /\ Follow(src, D, <<>>)
BY DEF Follow

(* A step of the replay that emits from where it stands.                   *)
LEMMA ScreenEmits ==
  ASSUME PlayerInv, ScreenInv, PlayerInv', player'.events = player.events, page.active,
         page' = page, UNCHANGED <<buffer, data, sound>>,
         NEW from \in 0 .. player'.index,
         queue' = queue \o Emitted(from, player'.index, player.events),
         ~mixed' => ~mixed /\ from = player.index
  PROVE  ScreenInv'
<1> DEFINE us == Emitted(from, player'.index, player.events)
<1>1. /\ player \in Players /\ player' \in Players /\ page \in Pages
      /\ player.events # <<>> /\ Positioned(player')
  BY DEF PlayerInv, PlayerOK
<1>2. Positioned(player)' /\ player'.index \in 0 .. Len(player.events) /\ Len(player.events) \in Nat
  BY <1>1, CaptureShape DEF PlayerInv, PlayerOK, Positioned
<1>3. from \in 0 .. Len(player.events) /\ player'.index \in from .. Len(player.events)
  BY <1>2
<1>4. us \in Seq(Updaters)
  BY <1>1, <1>3, EmittedShape
<1>5. /\ Follow(Source(page), DueTimes(page, player'), us)
      /\ from = player.index =>
           \A k \in 1 .. Len(us) : \A d \in DueTimes(page, player) : d <= us[k].at
  BY <1>1, <1>3, EmittedFollow
<1> HIDE DEF us
<1>6. from = player.index => DueTimes(page, player) \subseteq DueTimes(page, player')
  BY <1>1, <1>3, DueTimesGrow
<1>7. queue' = queue \o us
  BY DEF us
<1> QED BY <1>4, <1>5, <1>6, <1>7, ScreenFollows

LEMMA EmptyConcat ==
  ASSUME NEW S, NEW s \in Seq(S)
  PROVE  s \o <<>> = s /\ <<>> \o s = s
OBVIOUS

(* setMode(), setSelection(): what waits is of the market that is left     *)
(* only when the history says so.                                          *)
LEMMA ScreenLeaves ==
  ASSUME PlayerInv, ScreenInv, NEW chosen \in [mode : Modes, symbol : Symbols], NEW pre,
         pre = BackToLive \/ (pre = <<>> /\ chosen # page.market), Leave(chosen, pre)
  PROVE  ScreenInv'
<1> DEFINE a == IF page.active THEN Announcement(page.market) ELSE <<>>
           b == Announcement(chosen)
           c == Cleared
<1>1. /\ page' = [active |-> FALSE, market |-> chosen] /\ buffer' = <<>>
      /\ queue' = queue \o (pre \o IF chosen = page.market THEN <<>> ELSE <<c>> \o b)
      /\ ~mixed' => queue = <<>> /\ (chosen # page.market => ~(Len(pre) > 2))
      /\ UNCHANGED <<data, sound>>
  BY DEF Leave, Enqueue, Overtaken
<1>2. /\ page \in Pages /\ page.market \in [mode : Modes, symbol : Symbols]
      /\ c \in Updaters /\ c.kind = "clear"
  BY ClearedShape DEF PlayerInv, PlayerOK, Pages
<1>3. Source(page') = chosen /\ DueTimes(page', player') = {0}
  BY <1>1 DEF Source, DueTimes
<1>4. /\ b \in Seq(Updaters) /\ Follow(chosen, {0}, b)
  BY AnnouncementShape
<1>5. /\ a \in Seq(Updaters) /\ Follow(page.market, {0}, a)
      /\ Len(a) <= 1 => \A k \in 1 .. Len(a) : ~Drawn(a[k])
  <2>1. CASE page.active
    <3>1. /\ a \in Seq(Updaters) /\ Follow(page.market, {0}, a) /\ Len(a) \in {1, 3}
          /\ Len(a) = 1 => ~Drawn(a[1])
      BY <1>2, <2>1, AnnouncementShape
    <3> HIDE DEF a
    <3>2. \A k \in 1 .. Len(a) : Len(a) <= 1 => Len(a) = 1 /\ k = 1
      BY <3>1
    <3> QED BY <3>1, <3>2
  <2>2. CASE ~page.active
    <3>1. a = <<>> /\ Len(<<>>) = 0 /\ 1 .. 0 = {}
      BY <2>2
    <3> HIDE DEF a
    <3> QED BY <3>1, EmptyFollows
  <2> QED BY <2>1, <2>2
<1>6. BackToLive = <<c>> \o a
  BY DEF BackToLive
<1> HIDE DEF a, b, c
<1>7. <<c>> \in Seq(Updaters) /\ Len(<<c>>) = 1 /\ <<c>>[1] = c
  BY <1>2
<1> DEFINE o == <<c>>
<1> HIDE DEF o
<1>8. /\ o \in Seq(Updaters) /\ o \o a \in Seq(Updaters) /\ Len(o \o a) = Len(o) + Len(a)
      /\ Len(a) \in Nat /\ \A k \in 1 .. Len(o) : (o \o a)[k] = o[k]
      /\ \A k \in Len(o) + 1 .. Len(o) + Len(a) :
           (o \o a)[k] = a[k - Len(o)] /\ k - Len(o) \in 1 .. Len(a)
  <2>1. o \in Seq(Updaters)
    BY <1>7 DEF o
  <2> QED BY ONLY <2>1, <1>5, ConcatShape, Zenon
<1>9. CASE chosen = page.market
  <2>1. pre = o \o a
    BY <1>6, <1>9 DEF o
  <2>2. pre \o <<>> = pre /\ <<>> \o (o \o a) = o \o a
    BY <1>8, <2>1, EmptyConcat
  <2>3. queue' = queue \o (<<>> \o (<<c>> \o a))
    BY <1>1, <1>9, <2>1, <2>2 DEF o
  <2>4. <<>> \in Seq(Updaters) /\ \A k \in 1 .. Len(<<>>) : ~Drawn(<<>>[k])
    OBVIOUS
  <2>5. ~mixed' => /\ queue = <<>> /\ \A k \in 1 .. Len(<<>>) : ~Drawn(<<>>[k])
                   /\ Follow(Source(page'), DueTimes(page', player'), a)
    BY <1>1, <1>3, <1>5, <1>9, <2>4
  <2> QED BY <1>1, <1>2, <1>5, <2>3, <2>4, <2>5, ScreenCleared
<1>10. CASE chosen # page.market
  <2>1. queue' = queue \o (pre \o (<<c>> \o b))
    BY <1>1, <1>10
  <2>2. pre \in Seq(Updaters) /\ (Len(pre) <= 2 => \A k \in 1 .. Len(pre) : ~Drawn(pre[k]))
    <3>1. CASE pre = <<>>
      <4>1. <<>> \in Seq(Updaters) /\ Len(<<>>) = 0 /\ 1 .. 0 = {}
        OBVIOUS
      <4> QED BY <3>1, <4>1
    <3>2. CASE pre = BackToLive
      <4> DEFINE z == o \o a
      <4>1. pre = z
        BY <1>6, <3>2 DEF o
      <4> HIDE DEF z
      <4>2. z \in Seq(Updaters) /\ Len(z) = 1 + Len(a) /\ Len(a) \in Nat /\ z[1] = c
        BY <1>7, <1>8, 1 \in 1 .. 1 DEF o, z
      <4>3. ASSUME Len(z) <= 2, NEW k \in 1 .. Len(z) PROVE ~Drawn(z[k])
        <5>1. CASE k = 1
          BY <1>2, <4>2, <5>1 DEF Drawn
        <5>2. CASE k # 1
          <6>1. k \in Len(o) + 1 .. Len(o) + Len(a) /\ k - Len(o) \in 1 .. Len(a) /\ Len(a) <= 1
            BY <1>7, <4>2, <4>3, <5>2 DEF o
          <6>2. z[k] = a[k - Len(o)]
            BY <1>8, <6>1 DEF z
          <6> QED BY <1>5, <6>1, <6>2
        <5> QED BY <5>1, <5>2
      <4> QED BY <4>1, <4>2, <4>3
    <3> QED BY <1>10, <3>1, <3>2
  <2>3. ~mixed' => /\ queue = <<>> /\ \A k \in 1 .. Len(pre) : ~Drawn(pre[k])
                   /\ Follow(Source(page'), DueTimes(page', player'), b)
    <3>1. Len(pre) \in Nat
      BY <2>2
    <3>2. ~mixed' => queue = <<>> /\ Len(pre) <= 2
      BY <1>1, <1>10, <3>1
    <3> QED BY <1>3, <1>4, <2>2, <3>2
  <2> QED BY <1>1, <1>2, <1>4, <2>1, <2>2, <2>3, ScreenCleared
<1> QED BY <1>9, <1>10

LEMMA ScreenSends ==
  ASSUME PlayerInv, ScreenInv,
         NEW kind \in {"depth_frame", "trend_signal", "status", "market_reset"},
         NEW good \in BOOLEAN, Send(kind, good)
  PROVE  ScreenInv'
<1> DEFINE u == Update(kind, page.market, 0, good)
<1>1. /\ ~page.active /\ page' = page /\ player' = player /\ mixed' = mixed
      /\ UNCHANGED <<buffer, data, sound>> /\ queue' = queue \o <<u>>
  BY DEF Send, Enqueue
<1>2. page.market \in PageMarkets
  BY DEF PlayerInv, PlayerOK, Pages, PageMarkets
<1>3. u \in Updaters /\ u.kind # "clear" /\ u.market = page.market /\ u.at = 0
  BY <1>2 DEF Update, Updaters, RecordedKinds
<1> HIDE DEF u
<1>4. Source(page) = page.market /\ DueTimes(page, player) = {0}
  BY <1>1 DEF Source, DueTimes
<1> DEFINE us == <<u>>
<1>5. us \in Seq(Updaters) /\ Len(us) = 1 /\ \A k \in 1 .. Len(us) : us[k] = u /\ k = 1
  BY <1>3
<1>6. queue' = queue \o us
  BY <1>1
<1> HIDE DEF us
<1>7. Follow(page.market, {0}, us)
  <2>1. \A k \in 1 .. Len(us) : \A j \in k + 1 .. Len(us) : FALSE
    BY <1>5
  <2> QED BY <1>3, <1>5, <2>1 DEF Follow
<1>8. \A k \in 1 .. Len(us) : Drawn(us[k]) => \A d \in {0} : d <= us[k].at
  BY <1>3, <1>5
<1> QED BY <1>1, <1>4, <1>5, <1>6, <1>7, <1>8, ScreenFollows

(* load(): the chart starts afresh with the recording.                     *)
LEMMA ScreenLoads ==
  ASSUME PlayerInv, PlayerInv', ScreenInv, NEW events \in {Remote, BuiltIn} \ {<<>>},
         player'.events = events, Load(events)
  PROVE  ScreenInv'
<1> DEFINE c == Cleared
           r == Update("ready", Recorded, 0, TRUE)
           e == Emitted(0, player'.index, events)
           us == <<r>> \o e
<1>1. /\ page' = [page EXCEPT !.active = TRUE] /\ buffer' = <<>> /\ UNCHANGED <<data, sound>>
      /\ queue' = queue \o (<<c>> \o us) /\ (~mixed' => queue = <<>>)
  BY DEF Load, ClearThen, Enqueue, Overtaken
<1>2. page \in Pages /\ player' \in Players
  BY DEF PlayerInv, PlayerOK
<1>3. page'.active
  BY <1>1, <1>2 DEF Pages
<1>4. c \in Updaters /\ c.kind = "clear"
  BY <1>2, ClearedShape
<1>5. r \in Updaters /\ r.kind = "ready"
  BY RecordedShape DEF Update, Updaters
<1>6. /\ player'.index \in 0 .. Len(events) /\ Len(events) \in Nat /\ events # <<>>
      /\ 0 \in 0 .. Len(events)
  BY <1>2, CaptureShape DEF PlayerInv, PlayerOK, Positioned
<1>7. /\ e \in Seq(Updaters) /\ Follow(Source(page'), DueTimes(page', player'), e)
  BY <1>2, <1>3, <1>6, EmittedShape, EmittedFollow
<1> HIDE DEF c, r, e
<1> DEFINE o == <<r>>
<1>8. o \in Seq(Updaters) /\ Len(o) = 1 /\ o[1] = r
  BY <1>5
<1>9. us = o \o e
  OBVIOUS
<1> HIDE DEF o, us
<1>10. /\ us \in Seq(Updaters) /\ Len(us) = 1 + Len(e) /\ Len(e) \in Nat /\ us[1] = r
       /\ \A k \in 2 .. 1 + Len(e) : us[k] = e[k - 1] /\ k - 1 \in 1 .. Len(e)
  <2>1. /\ us \in Seq(Updaters) /\ Len(us) = Len(o) + Len(e) /\ Len(e) \in Nat
        /\ \A k \in 1 .. Len(o) : us[k] = o[k]
        /\ \A k \in Len(o) + 1 .. Len(o) + Len(e) :
             us[k] = e[k - Len(o)] /\ k - Len(o) \in 1 .. Len(e)
    <3>1. o \in Seq(Updaters) /\ e \in Seq(Updaters)
      BY <1>7, <1>8
    <3> QED BY ONLY <3>1, <1>9, ConcatShape, Zenon
  <2> QED BY <1>8, <2>1, 1 \in 1 .. 1, 1 + 1 = 2
<1>11. Follow(Source(page'), DueTimes(page', player'), us)
  <2>1. ASSUME NEW k \in 1 .. Len(us)
        PROVE  /\ us[k].kind # "clear"
               /\ Drawn(us[k]) =>
                    /\ us[k].market = Source(page') /\ us[k].at \in DueTimes(page', player')
                    /\ \A j \in k + 1 .. Len(us) : Drawn(us[j]) => us[k].at <= us[j].at
    <3>1. CASE k = 1
      BY <1>5, <1>10, <3>1 DEF Drawn
    <3>2. CASE k # 1
      <4>1. k \in 2 .. 1 + Len(e) /\ us[k] = e[k - 1] /\ k - 1 \in 1 .. Len(e)
        BY <1>10, <3>2
      <4>2. ASSUME NEW j \in k + 1 .. Len(us)
            PROVE  us[j] = e[j - 1] /\ j - 1 \in (k - 1) + 1 .. Len(e)
        <5>1. j \in 2 .. 1 + Len(e) /\ j - 1 \in (k - 1) + 1 .. Len(e)
          BY <1>10, <4>1
        <5> QED BY <1>10, <5>1
      <4> QED BY <1>7, <4>1, <4>2 DEF Follow
    <3> QED BY <3>1, <3>2
  <2> QED BY <2>1 DEF Follow
<1>12. <<c>> \o us \in Seq(Updaters)
  <2>1. <<c>> \in Seq(Updaters) /\ us \in Seq(Updaters)
    BY <1>4, <1>10
  <2> QED BY ONLY <2>1, ConcatShape, Zenon
<1>13. queue' = queue \o (<<>> \o (<<c>> \o us))
  BY <1>1, <1>12, EmptyConcat
<1>14. <<>> \in Seq(Updaters) /\ \A k \in 1 .. Len(<<>>) : ~Drawn(<<>>[k])
  OBVIOUS
<1> QED BY <1>1, <1>4, <1>10, <1>11, <1>13, <1>14, ScreenCleared

LEMMA PlayingShown ==
  ASSUME PlayerInv, player.events # <<>>
  PROVE  page.active /\ player \in Players /\ player.index \in Nat /\ Positioned(player)
BY DEF PlayerInv, PlayerOK, Players

(* The player goes on, by its interval, pause() or setSpeed().             *)
LEMMA ScreenTicks ==
  ASSUME PlayerInv, PlayerInv', ScreenInv, player'.events = player.events,
         player'.index >= player.index,
         Tick \/ Pause \/ \E speed \in ToSet(Speeds) : SetSpeed(speed)
  PROVE  ScreenInv'
<1>1. player.events # <<>>
  BY DEF Tick, Pause, SetSpeed, PlayerInv, PlayerOK
<1>2. /\ page' = page /\ UNCHANGED <<buffer, data, sound>> /\ mixed' = mixed
      /\ queue' = queue \o Emitted(player.index, player'.index, player.events)
  BY DEF Tick, Pause, SetSpeed, Enqueue
<1>3. player'.index \in Nat
  BY DEF PlayerInv, PlayerOK, Players
<1>4. page.active /\ player.index \in 0 .. player'.index
  BY <1>1, <1>3, PlayingShown
<1> QED BY <1>2, <1>4, ScreenEmits

LEMMA ScreenPlays ==
  ASSUME PlayerInv, PlayerInv', ScreenInv, player'.events = player.events,
         player'.index >= PlayedFrom(player), Play
  PROVE  ScreenInv'
<1>1. player.events # <<>>
  BY DEF Play, PlayerInv, PlayerOK
<1>2. /\ page' = page /\ UNCHANGED <<buffer, data, sound>>
      /\ mixed' = (mixed \/ player.status = "ended")
      /\ queue' = queue \o Emitted(PlayedFrom(player), player'.index, player.events)
  BY DEF Play, Enqueue
<1>3. player'.index \in Nat
  BY DEF PlayerInv, PlayerOK, Players
<1>4. page.active /\ PlayedFrom(player) \in 0 .. player'.index
  BY <1>1, <1>3, PlayingShown DEF PlayedFrom
<1>5. player.status # "ended" => PlayedFrom(player) = player.index
  BY DEF PlayedFrom
<1> QED BY <1>2, <1>4, <1>5, ScreenEmits

(* seek(): back through clear(), forward on the same chart.                *)
LEMMA ScreenSeeks ==
  ASSUME PlayerInv, PlayerInv', ScreenInv, player'.events = player.events, NEW t, Seek(t)
  PROVE  ScreenInv'
<1>1. /\ player.events # <<>> /\ page' = page /\ UNCHANGED <<data, sound>>
      /\ IF t < player.cursor THEN ClearThen(<<>>)
         ELSE /\ mixed' = (mixed \/ player'.index < player.index)
              /\ UNCHANGED <<queue, buffer, data, sound>>
  <2>1. /\ player.events # <<>> /\ page' = page
        /\ IF t < player.cursor THEN ClearThen(<<>>)
           ELSE /\ mixed' = (mixed \/ player'.index < player.index)
                /\ UNCHANGED <<queue, buffer, data, sound>>
    BY DEF Seek
  <2>2. UNCHANGED <<data, sound>>
    BY <2>1 DEF ClearThen
  <2> QED BY <2>1, <2>2
<1>2. /\ page \in Pages /\ page.active /\ player \in Players /\ player' \in Players
      /\ player.index \in Nat /\ player'.index \in Nat /\ queue \in Seq(Updaters)
  BY <1>1, PlayingShown DEF PlayerInv, PlayerOK, Players, ScreenInv
<1>3. CASE t < player.cursor
  <2>1. /\ buffer' = <<>> /\ queue' = queue \o (<<Cleared>> \o <<>>) /\ (~mixed' => queue = <<>>)
    BY <1>1, <1>3 DEF ClearThen, Enqueue, Overtaken
  <2>2. Cleared \in Updaters /\ Cleared.kind = "clear"
    BY <1>2, ClearedShape
  <2> DEFINE c == Cleared
  <2> HIDE DEF c
  <2>3. <<c>> \in Seq(Updaters) /\ <<c>> \o <<>> \in Seq(Updaters)
    BY <2>2 DEF c
  <2>4. <<>> \o (<<c>> \o <<>>) = <<c>> \o <<>>
    BY <2>3, EmptyConcat
  <2>5. queue' = queue \o (<<>> \o (<<c>> \o <<>>))
    BY <2>1, <2>4 DEF c
  <2>6. <<>> \in Seq(Updaters) /\ \A k \in 1 .. Len(<<>>) : ~Drawn(<<>>[k])
    OBVIOUS
  <2>7. Follow(Source(page'), DueTimes(page', player'), <<>>)
    BY EmptyFollows
  <2>8. c \in Updaters /\ c.kind = "clear"
    BY <2>2 DEF c
  <2> QED BY <1>1, <2>1, <2>5, <2>6, <2>7, <2>8, ScreenCleared
<1>4. CASE ~(t < player.cursor)
  <2>1. /\ mixed' = (mixed \/ player'.index < player.index)
        /\ UNCHANGED <<queue, buffer, data, sound>>
    BY <1>1, <1>4
  <2>2. ~mixed' => ~mixed /\ DueTimes(page, player) \subseteq DueTimes(page, player')
    <3>1. ~mixed' => ~mixed /\ player'.index >= player.index
      <4>1. ~mixed' => ~mixed /\ ~(player'.index < player.index)
        BY ONLY <2>1, Zenon
      <4> QED BY <1>2, <4>1
    <3> QED BY <1>2, <3>1, DueTimesGrow
  <2>3. queue' = queue \o <<>>
    BY <1>2, <2>1, EmptyConcat
  <2>4. <<>> \in Seq(Updaters) /\ Follow(Source(page'), DueTimes(page', player'), <<>>)
    BY EmptyFollows
  <2>5. \A k \in 1 .. Len(<<>>) : FALSE
    OBVIOUS
  <2> QED BY <1>1, <2>1, <2>2, <2>3, <2>4, <2>5, ScreenFollows
<1> QED BY <1>3, <1>4

(* recoverDashboard().                                                     *)
LEMMA ScreenRecovers ==
  ASSUME PlayerInv, ScreenInv, RecoverDashboard
  PROVE  ScreenInv'
<1> DEFINE c == Cleared
<1>1. page \in Pages /\ queue \in Seq(Updaters) /\ now' = now
  BY DEF PlayerInv, PlayerOK, ScreenInv, RecoverDashboard
<1>2. c \in Updaters /\ c.kind = "clear"
  BY <1>1, ClearedShape
<1>3. /\ <<>> \in Seq(Updaters) /\ Len(<<>>) = 0
      /\ \A src, D : Follow(src, D, <<>>)
  BY EmptyFollows
<1>4. CASE ~page.active
  <2>1. /\ buffer' = <<>> /\ queue' = queue \o (<<c>> \o <<>>) /\ (~mixed' => queue = <<>>)
        /\ UNCHANGED <<data, sound, page, player>>
    BY <1>4 DEF RecoverDashboard, ClearThen, Enqueue, Overtaken
  <2> HIDE DEF c
  <2>2. <<c>> \in Seq(Updaters) /\ <<c>> \o <<>> \in Seq(Updaters)
    BY <1>2
  <2>3. <<>> \o (<<c>> \o <<>>) = <<c>> \o <<>>
    BY <2>2, EmptyConcat
  <2>4. queue' = queue \o (<<>> \o (<<c>> \o <<>>))
    BY <2>1, <2>3
  <2>5. \A k \in 1 .. Len(<<>>) : ~Drawn(<<>>[k])
    OBVIOUS
  <2>6. Follow(Source(page'), DueTimes(page', player'), <<>>)
    BY <1>3
  <2> QED BY <1>2, <1>3, <2>1, <2>4, <2>5, <2>6, ScreenCleared
<1>5. CASE page.active
  <2> DEFINE p == IF player.status = "playing" THEN Paused(player) ELSE player
             due == Emitted(player.index, p.index, player.events)
             x == IF From(p) < p.cursor THEN <<c>> ELSE <<>>
  <2>1. /\ buffer' = <<>> /\ queue' = queue \o (<<c>> \o due \o x)
        /\ (~mixed' => queue = <<>> /\ due = <<>>) /\ UNCHANGED <<data, sound>>
    BY <1>5 DEF RecoverDashboard, Restarted, Enqueue, Overtaken
  <2>2. due \in Seq(Updaters)
    <3>1. /\ player \in Players /\ player.events # <<>> /\ Positioned(player) /\ now \in Nat
          /\ reached \in Nat /\ (player.status = "playing" => Started(player, reached))
      BY <1>5 DEF PlayerInv, PlayerOK
    <3>2. p \in Players /\ Positioned(p) /\ p.events = player.events /\ p.index >= player.index
      <4>1. CASE player.status = "playing"
        <5>1. p = Paused(player)
          BY <4>1
        <5> HIDE DEF p
        <5> QED BY <3>1, <4>1, <5>1, PausedStands
      <4>2. CASE player.status # "playing"
        <5>1. player.index \in Nat
          BY <3>1 DEF Players
        <5> QED BY <3>1, <4>2, <5>1
      <4> QED BY <4>1, <4>2
    <3> HIDE DEF p
    <3>3. player.index \in 0 .. Len(player.events) /\ p.index \in player.index .. Len(player.events)
      BY <3>1, <3>2, CaptureShape DEF Positioned
    <3> QED BY <3>1, <3>3, EmittedShape
  <2>3. x \in {<<>>, <<c>>}
    OBVIOUS
  <2> HIDE DEF p, due, x, c
  <2>4. <<c>> \in Seq(Updaters) /\ Len(<<c>>) = 1 /\ \A k \in 1 .. Len(<<c>>) : <<c>>[k] = c
    BY <1>2
  <2>5. <<c>> \o due \in Seq(Updaters)
    <3>1. <<c>> \in Seq(Updaters)
      BY <2>4
    <3> QED BY ONLY <3>1, <2>2, ConcatShape, Zenon
  <2>6. CASE x = <<>>
    <3>1. (<<c>> \o due) \o x = <<c>> \o due /\ <<>> \o (<<c>> \o due) = <<c>> \o due
      BY <2>5, <2>6, EmptyConcat
    <3>2. queue' = queue \o (<<>> \o (<<c>> \o due))
      BY <2>1, <3>1
    <3>3. \A k \in 1 .. Len(<<>>) : ~Drawn(<<>>[k])
      OBVIOUS
    <3>4. ~mixed' => queue = <<>> /\ Follow(Source(page'), DueTimes(page', player'), due)
      BY <1>3, <2>1
    <3> QED BY <1>2, <1>3, <2>1, <2>2, <3>2, <3>3, <3>4, ScreenCleared
  <2>7. CASE x = <<c>>
    <3> DEFINE pre == <<c>> \o due
    <3>1. <<c>> \o <<>> = <<c>>
      BY <2>4, EmptyConcat
    <3>2. queue' = queue \o (pre \o (<<c>> \o <<>>))
      BY <2>1, <2>7, <3>1
    <3>3. due = <<>> => \A k \in 1 .. Len(pre) : ~Drawn(pre[k])
      <4> HAVE due = <<>>
      <4>1. pre = <<c>>
        BY <3>1
      <4> QED BY <1>2, <2>4, <4>1 DEF Drawn
    <3>4. pre \in Seq(Updaters)
      BY <2>5
    <3> HIDE DEF pre
    <3>5. ~mixed' => /\ queue = <<>> /\ \A k \in 1 .. Len(pre) : ~Drawn(pre[k])
                     /\ Follow(Source(page'), DueTimes(page', player'), <<>>)
      BY <1>3, <2>1, <3>3
    <3> QED BY <1>2, <1>3, <2>1, <3>2, <3>4, <3>5, ScreenCleared
  <2> QED BY <2>3, <2>6, <2>7
<1> QED BY <1>4, <1>5

(* The invariant of the page is inductive.                                 *)
LEMMA ViewStep ==
  ASSUME ViewInv, [ViewNext]_viewVars
  PROVE  ViewInv'
<1>1. PlayerInv /\ ScreenInv /\ PlayerInv'
  BY PlayerStep DEF ViewInv
<1>2. ScreenInv'
  <2>1. CASE UNCHANGED viewVars
    BY <1>1, <2>1, ScreenKept DEF viewVars, screen
  <2>2. CASE Render
    BY <1>1, <2>2, ScreenRenders
  <2>3. CASE Tick
    BY <1>1, <2>3, PlayerTicks, ScreenTicks
  <2>4. CASE Clock
    BY <1>1, <2>4, ScreenKept DEF Clock
  <2>5. CASE \E kind \in {"depth_frame", "trend_signal", "status", "market_reset"} :
               \E good \in BOOLEAN : Send(kind, good)
    BY <1>1, <2>5, ScreenSends
  <2>6. CASE \E symbol \in Symbols : SelectSymbol(symbol)
    <3>1. PICK symbol \in Symbols : SelectSymbol(symbol)
      BY <2>6
    <3> DEFINE chosen == [page.market EXCEPT !.symbol = symbol]
               pre == IF page.active THEN BackToLive ELSE <<>>
    <3>2. page.market \in [mode : Modes, symbol : Symbols] /\ symbol # page.market.symbol
      BY <1>1, <3>1 DEF PlayerInv, PlayerOK, Pages, SelectSymbol
    <3>3. chosen \in [mode : Modes, symbol : Symbols] /\ chosen # page.market
      BY <3>2
    <3>4. pre = BackToLive \/ pre = <<>>
      OBVIOUS
    <3>5. Leave(chosen, pre)
      BY <3>1 DEF SelectSymbol
    <3> HIDE DEF chosen, pre
    <3> QED BY <1>1, <3>3, <3>4, <3>5, ScreenLeaves
  <2>7. CASE \E mode \in {"live", "demo"} : SelectMode(mode)
    <3>1. PICK mode \in {"live", "demo"} : SelectMode(mode)
      BY <2>7
    <3>2. [page.market EXCEPT !.mode = mode] \in [mode : Modes, symbol : Symbols]
      BY <1>1 DEF PlayerInv, PlayerOK, Pages, Modes
    <3> QED BY <1>1, <3>1, <3>2, ScreenLeaves DEF SelectMode
  <2>8. CASE SelectReplay
    BY <1>1, <2>8, ScreenKept DEF SelectReplay
  <2>9. CASE FetchSettles
    BY <1>1, <2>9, PlayerLoads, ScreenLoads DEF FetchSettles
  <2>10. CASE Play
    BY <1>1, <2>10, PlayerPlays, ScreenPlays
  <2>11. CASE Pause
    BY <1>1, <2>11, PlayerPauses, ScreenTicks
  <2>12. CASE \E t \in 0 .. MaxClock * 2 : Seek(t)
    BY <1>1, <2>12, PlayerSeeks, ScreenSeeks
  <2>13. CASE \E speed \in ToSet(Speeds) : SetSpeed(speed)
    BY <1>1, <2>13, PlayerSpeeds, SpeedsCount, ScreenTicks
  <2>14. CASE RecoverDashboard
    BY <1>1, <2>14, ScreenRecovers
  <2> QED BY <2>1, <2>2, <2>3, <2>4, <2>5, <2>6, <2>7, <2>8, <2>9, <2>10, <2>11, <2>12,
             <2>13, <2>14 DEF ViewInv, ViewNext
<1> QED BY <1>1, <1>2 DEF ViewInv

LEMMA ViewBegins ==
  ASSUME ViewInit
  PROVE  ViewInv
<1> DEFINE chosen == [mode |-> "live", symbol |-> Default]
           us == Announcement(chosen)
<1>1. PlayerInv
  BY PlayerBegins
<1>2. chosen \in [mode : Modes, symbol : Symbols]
  BY ViewAssumption DEF Modes
<1>3. page = [active |-> FALSE, market |-> chosen] /\ queue = us
  BY DEF ViewInit
<1> HIDE DEF chosen
<1>4. us \in Seq(Updaters) /\ Follow(chosen, {0}, us)
  BY <1>2, AnnouncementShape
<1>5. Source(page) = chosen /\ DueTimes(page, player) = {0}
  BY <1>3 DEF Source, DueTimes
<1> DEFINE d == [frames |-> <<>>, trend |-> NoTrend, stale |-> TRUE, valid |-> FALSE]
<1>6. buffer = <<>> /\ data = d /\ sound = FALSE
  BY DEF ViewInit
<1>7. <<>> \in Seq(Images) /\ <<>> \in Seq(Updaters) /\ DOMAIN <<>> = {} /\ 1 .. Len(<<>>) = {}
  OBVIOUS
<1>8. d \in Datas /\ d.trend = NoTrend /\ d.frames = <<>>
  BY <1>7 DEF Datas, Trends
<1> HIDE DEF d, us
<1>9. Screen \in Screens /\ Screen.buffer = <<>> /\ Screen.data = d
  BY <1>6, <1>7, <1>8 DEF Screens, Screen
<1>10. Sound(Screen)
  BY <1>8, <1>9 DEF Sound
<1>11. Fits(chosen, {0}, Screen, <<>>, 0)
  BY <1>7, <1>8, <1>9 DEF Fits, InTime
<1>12. <<>> \o us = us
  BY <1>4, EmptyConcat
<1>13. \A k \in 1 .. Len(us) : Drawn(us[k]) => \A t \in {0} : t <= us[k].at
  BY <1>4 DEF Follow
<1>14. Fits(chosen, {0}, Screen, <<>> \o us, 0)
  <2>1. {0} \subseteq {0} /\ {0} \subseteq Nat
    OBVIOUS
  <2>2. <<>> \in Seq(Updaters) /\ us \in Seq(Updaters) /\ Follow(chosen, {0}, us)
    BY <1>4, <1>7
  <2>3. Screen \in Screens
    BY <1>9
  <2> QED BY ONLY <1>11, <1>13, <2>1, <2>2, <2>3, Appended, Zenon
<1> QED BY <1>1, <1>3, <1>4, <1>5, <1>9, <1>10, <1>12, <1>14
        DEF ViewInv, ScreenInv, SoundScreens, Fit

(* A signal the page shows was computed after validity was last lost, and  *)
(* the chart is drawn from the selected market or from the replay that     *)
(* plays, in the order of its times, however late React runs the updaters  *)
(* of ingest(), clear() and load(); but for the updaters that a clear()    *)
(* overtook, and the events a replay repeats.                              *)
THEOREM PageShowsTheChoice == ViewSpec => []PageIsTruthful
<1>1. ViewInit => ViewInv
  BY ViewBegins
<1>2. ViewInv /\ [ViewNext]_viewVars => ViewInv'
  BY ViewStep
<1>3. ViewInv => PageIsTruthful
  <2> SUFFICES ASSUME ViewInv PROVE ShownTrendIsCurrent /\ ChartShowsOneSource
    BY DEF PageIsTruthful
  <2>1. /\ Screen \in Screens /\ Sound(Screen)
        /\ ~mixed => Fit(page, player, Screen, queue)
    BY DEF ViewInv, ScreenInv, SoundScreens
  <2>2. Screen.buffer = buffer /\ Screen.data = data /\ Screen.sound = sound
    BY DEF Screen
  <2>3. ShownTrendIsCurrent
    BY <2>1, <2>2 DEF ShownTrendIsCurrent, Sound
  <2>4. ASSUME queue = <<>>, ~mixed
        PROVE  \A i \in DOMAIN data.frames :
                 /\ data.frames[i].market = IF page.active THEN Recorded ELSE page.market
                 /\ \A j \in i + 1 .. Len(data.frames) : data.frames[i].at <= data.frames[j].at
    <3>1. Fits(Source(page), DueTimes(page, player), Screen, <<>>, 0)
      BY <2>1, <2>4 DEF Fit
    <3>2. Len(<<>>) = 0 /\ 0 + 1 .. 0 = {}
      OBVIOUS
    <3>3. /\ data.frames = buffer /\ InTime(buffer)
          /\ \A i \in DOMAIN buffer : buffer[i].market = Source(page)
      BY <2>2, <3>1, <3>2 DEF Fits
    <3>4. buffer \in Seq(Images)
      BY <2>1, <2>2, ScreenShape
    <3>5. ASSUME NEW i \in DOMAIN buffer, NEW j \in i + 1 .. Len(buffer)
          PROVE  buffer[i].at <= buffer[j].at
      <4>1. j \in DOMAIN buffer /\ i <= j
        BY <3>4
      <4> QED BY <3>3, <4>1 DEF InTime
    <3> QED BY <3>3, <3>5 DEF Source
  <2> QED BY <2>3, <2>4 DEF ChartShowsOneSource
<1> QED BY <1>1, <1>2, <1>3, PTL DEF ViewSpec
=============================================================================
