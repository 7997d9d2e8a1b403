-------------------------- MODULE BinanceFeedProofs --------------------------
(***************************************************************************)
(* Theorems about the adapter of server/feeds/binanceFeed.ts, for every    *)
(* exchange history, buffer size, number of faults and number of starts:   *)
(* it is supervised, what it emits keeps a listener's book equal to the    *)
(* exchange's, it implements the contract of DepthFeed, and a capture of   *)
(* what it received replays to the book it held.                           *)
(***************************************************************************)
EXTENDS BinanceFeed, DepthStreamProofs

(* What the depth socket can carry to handleDepthMessage(). *)
Messages == {EventAfter[f] : f \in Framings}
Payloads == Messages \cup {DamagedUpdate(m) : m \in Messages}

Faithful(b) ==
  b.loaded => /\ b.updateId \in 0 .. LastSeq
              /\ b.bids = Truth[b.updateId].bids
              /\ b.asks = Truth[b.updateId].asks

DigestCurrent(b) == b.digest # NoDigest => b.digest = Digest(b)

-----------------------------------------------------------------------------
(* Payloads. *)

LEMMA MessageShape ==
  ASSUME NEW u \in Messages
  PROVE  /\ u \in StreamUpdates /\ u \in UpdateType
         /\ u.prev \in 0 .. LastSeq /\ u.start \in 1 .. LastSeq /\ u.start > u.prev
         /\ u.end \in u.start .. LastSeq
         /\ ValidLevels(u.bids, TRUE) /\ ValidLevels(u.asks, TRUE)
<1>1. PICK f \in Framings : u = EventAfter[f]
  BY DEF Messages
<1>2. u = Event(f, f.from)
  BY <1>1 DEF EventAfter
<1> DEFINE v == Event(f, f.from)
<1>3. /\ v \in StreamUpdates /\ v \in UpdateType
      /\ v.prev = f.from /\ v.start = f.start /\ v.end = f.end
      /\ f.from \in 0 .. LastSeq /\ f.start \in 1 .. LastSeq
      /\ f.start > f.from /\ f.end \in f.start .. LastSeq
      /\ ValidLevels(v.bids, TRUE) /\ ValidLevels(v.asks, TRUE)
  BY FramedShape
<1> HIDE DEF v
<1>4. u = v
  BY <1>2 DEF v
<1> QED BY <1>3, <1>4

LEMMA PayloadShape ==
  ASSUME NEW u \in Payloads
  PROVE  /\ u \in UpdateType
         /\ u.prev \in 0 .. LastSeq /\ u.start \in 1 .. LastSeq /\ u.start > u.prev
         /\ u.end \in u.start .. LastSeq
         /\ u \in Messages \/ ~ValidLevels(u.bids, TRUE)
<1>1. CASE u \in Messages
  BY <1>1, MessageShape
<1>2. CASE u \notin Messages
  <2>1. PICK m \in Messages : u = DamagedUpdate(m)
    BY <1>2 DEF Payloads
  <2> DEFINE bad == {[tick |-> t, qty |-> -1] : t \in Ticks}
  <2>2. m \in UpdateType /\ m.prev \in 0 .. LastSeq /\ m.start \in 1 .. LastSeq
        /\ m.start > m.prev /\ m.end \in m.start .. LastSeq
    BY MessageShape
  <2>3. bad \in WireLevels
    BY DEF WireLevels
  <2> HIDE DEF bad
  <2>4. u = [m EXCEPT !.bids = bad]
    BY <2>1 DEF DamagedUpdate, bad
  <2>5. u = [start |-> m.start, end |-> m.end, prev |-> m.prev, bids |-> bad, asks |-> m.asks]
    BY <2>2, <2>4 DEF UpdateType
  <2>6. u \in UpdateType
    BY <2>2, <2>3, <2>5 DEF UpdateType
  <2>7. ~ValidLevels(u.bids, TRUE)
    <3>1. Ticks # {}
      <4>1. SUFFICES ASSUME Ticks = {} PROVE FALSE
        OBVIOUS
      <4>2. bad = {} /\ m.bids = {}
        BY <4>1, <2>2 DEF bad, UpdateType, WireLevels
      <4>3. u = m
        BY <2>2, <2>4, <4>2 DEF UpdateType
      <4> QED BY <1>2, <4>3
    <3>2. PICK t \in Ticks : TRUE
      BY <3>1
    <3> DEFINE l == [tick |-> t, qty |-> -1]
    <3>3. l \in bad /\ l.qty = -1
      BY DEF bad
    <3> QED BY <2>5, <3>3 DEF ValidLevels
  <2> QED BY <2>2, <2>5, <2>6, <2>7
<1> QED BY <1>1, <1>2

(* applyUpdate() of a payload on a faithful book: refused, or applied and  *)
(* the book faithful at the event's end.                                   *)
LEMMA PayloadOnFaithfulBook ==
  ASSUME NEW b \in BookType, Faithful(b), NEW u \in Payloads
  PROVE  LET r == ApplyUpdate(b, u) IN
         \/ /\ r.status \in {"ignored", "gap", "unsynced", "invalid"} /\ r.book = b
         \/ /\ r.status = "applied" /\ u \in Messages
            /\ b.loaded /\ u.end > b.updateId
            /\ b.bridged => u.prev = b.updateId
            /\ ~b.bridged => CanBridge(b, u)
            /\ r.book \in BookType /\ Faithful(r.book)
            /\ r.book.loaded /\ r.book.bridged
            /\ r.book.updateId = u.end /\ r.book.digest = NoDigest
<1> DEFINE r == ApplyUpdate(b, u)
           bids == ApplyLevels(b.bids, u.bids)
           asks == ApplyLevels(b.asks, u.asks)
<1>1. /\ u \in UpdateType
      /\ u.prev \in 0 .. LastSeq /\ u.start \in 1 .. LastSeq /\ u.start > u.prev
      /\ u.end \in u.start .. LastSeq
      /\ u \in Messages \/ ~ValidLevels(u.bids, TRUE)
  BY PayloadShape
<1>2. CASE r.status # "applied"
  BY <1>1, <1>2, ApplyUpdateCases
<1>3. CASE r.status = "applied"
  <2>1. /\ b.loaded /\ u.end > b.updateId
        /\ IF b.bridged THEN ~ChainBroken(b, u) ELSE CanBridge(b, u)
        /\ ValidLevels(u.bids, TRUE) /\ ValidLevels(u.asks, TRUE)
        /\ r.book = [b EXCEPT !.bids = bids, !.asks = asks, !.updateId = u.end,
                              !.bridged = TRUE, !.digest = NoDigest]
    BY <1>1, <1>3, ApplyUpdateCases
  <2>2. u \in Messages /\ u.prev # NoPrev
    <3>1. u.prev \in Int
      BY <1>1, DepthStreamAssumption
    <3> QED BY <1>1, <2>1, <3>1, OrderBookAssumption
  <2>3. (b.bridged => u.prev = b.updateId) /\ (~b.bridged => CanBridge(b, u))
    BY <2>1, <2>2 DEF ChainBroken
  <2>4. b.updateId \in Nat /\ (u.prev = b.updateId \/ u.start <= b.updateId + 1)
    BY <2>3 DEF CanBridge, BookType
  <2>5. bids = Truth[u.end].bids /\ asks = Truth[u.end].asks /\ u.end \in 0 .. LastSeq
    <3>1. u \in StreamUpdates
      BY <2>2, MessageShape
    <3>2. /\ b.updateId \in 0 .. LastSeq
          /\ b.bids = Truth[b.updateId].bids /\ b.asks = Truth[b.updateId].asks
      BY <2>1 DEF Faithful
    <3> QED BY <2>1, <2>4, <3>1, <3>2, GenuineEventTracks
  <2>6. bids \in Sides /\ asks \in Sides
    BY <2>5, DepthStreamAssumption
  <2> HIDE DEF r, bids, asks
  <2>7. r.book = [bids |-> bids, asks |-> asks, loaded |-> b.loaded, bridged |-> TRUE,
                  updateId |-> u.end, digest |-> NoDigest]
    BY <2>1 DEF BookType
  <2>8. /\ r.book.bids = bids /\ r.book.asks = asks /\ r.book.loaded = b.loaded
        /\ r.book.bridged = TRUE /\ r.book.updateId = u.end /\ r.book.digest = NoDigest
    BY <2>7
  <2>9. r.book \in BookType
    BY <2>5, <2>6, <2>7 DEF BookType
  <2>10. Faithful(r.book)
    BY <2>5, <2>8 DEF Faithful
  <2>11. r.book.loaded /\ r.book.bridged
    BY <2>1, <2>8
  <2> HIDE DEF Faithful
  <2>12. ApplyUpdate(b, u) = r
    BY DEF r
  <2>13. /\ r.status = "applied" /\ u \in Messages
         /\ b.loaded /\ u.end > b.updateId
         /\ b.bridged => u.prev = b.updateId
         /\ ~b.bridged => CanBridge(b, u)
         /\ r.book \in BookType /\ Faithful(r.book)
         /\ r.book.loaded /\ r.book.bridged
         /\ r.book.updateId = u.end /\ r.book.digest = NoDigest
    <3>1. r.book.updateId = u.end /\ r.book.digest = NoDigest
      BY <2>8
    <3>2. r.status = "applied"
      BY <1>3 DEF r
    <3> QED BY <2>1, <2>2, <2>3, <2>9, <2>10, <2>11, <3>1, <3>2
  <2> QED BY <2>12, <2>13
<1> QED BY <1>2, <1>3

-----------------------------------------------------------------------------
(* The drain of the buffer. *)

FaithfulBooks == {b \in BookType : Faithful(b)}
Drains == [book : FaithfulBooks, ok : BOOLEAN, from : 0 .. LastSeq]

(* One event of the buffer: skipped, refused, or applied. *)
LEMMA DrainOneCases ==
  ASSUME NEW acc \in Drains, NEW u \in Payloads
  PROVE  /\ DrainOne(acc, u) \in Drains
         /\ \/ DrainOne(acc, u) = acc
            \/ /\ DrainOne(acc, u).book = acc.book /\ ~DrainOne(acc, u).ok
            \/ LET r == ApplyUpdate(acc.book, u) IN
               /\ acc.ok /\ u.end > acc.from /\ r.status = "applied"
               /\ DrainOne(acc, u).book = r.book
               /\ r.book.loaded /\ r.book.bridged
               /\ r.book.updateId = u.end /\ r.book.digest = NoDigest
<1> DEFINE r == ApplyUpdate(acc.book, u)
           d == DrainOne(acc, u)
<1>1. acc.book \in BookType /\ Faithful(acc.book) /\ acc.ok \in BOOLEAN
      /\ acc.from \in 0 .. LastSeq
  BY DEF Drains, FaithfulBooks
<1>2. u.end \in Int /\ acc.from \in Int
  <2>1. u \in UpdateType
    BY PayloadShape
  <2> QED BY <1>1, <2>1, DepthStreamAssumption DEF UpdateType
<1>3. CASE ~acc.ok \/ u.end <= acc.from \/ r.status = "ignored"
  BY <1>3 DEF DrainOne
<1>4. CASE acc.ok /\ u.end > acc.from /\ r.status = "applied"
  <2>1. /\ r.book \in BookType /\ Faithful(r.book)
        /\ r.book.loaded /\ r.book.bridged
        /\ r.book.updateId = u.end /\ r.book.digest = NoDigest
    BY <1>1, <1>4, PayloadOnFaithfulBook
  <2>2. d = [acc EXCEPT !.book = r.book, !.ok = (r.status = "applied")]
    BY <1>2, <1>4 DEF DrainOne
  <2> HIDE DEF d, Faithful
  <2>3. d = [acc EXCEPT !.book = r.book, !.ok = TRUE]
    BY <1>4, <2>2
  <2> HIDE DEF r
  <2>4. d = [book |-> r.book, ok |-> TRUE, from |-> acc.from]
    BY <2>3 DEF Drains
  <2>5. d \in Drains
    BY <1>1, <2>1, <2>4 DEF Drains, FaithfulBooks
  <2>6. d.book = r.book
    BY <2>4
  <2> QED BY <1>4, <2>1, <2>5, <2>6 DEF d, r
<1>5. CASE acc.ok /\ u.end > acc.from /\ r.status \notin {"applied", "ignored"}
  <2>1. r.book = acc.book
    BY <1>1, <1>5, PayloadOnFaithfulBook
  <2>2. d = [acc EXCEPT !.book = r.book, !.ok = (r.status = "applied")]
    BY <1>2, <1>5 DEF DrainOne
  <2> HIDE DEF d
  <2>3. d = [acc EXCEPT !.book = acc.book, !.ok = FALSE]
    BY <1>5, <2>1, <2>2
  <2> HIDE DEF r
  <2>4. d = [book |-> acc.book, ok |-> FALSE, from |-> acc.from]
    BY <2>3 DEF Drains
  <2>5. d \in Drains
    BY <1>1, <2>4 DEF Drains, FaithfulBooks
  <2>6. d.book = acc.book /\ ~d.ok
    BY <2>4
  <2> QED BY <2>5, <2>6 DEF d
<1> QED BY <1>2, <1>3, <1>4, <1>5

(* The fold of drainReconciliation(), one buffered event at a time. *)
LEMMA DrainPrefixes ==
  ASSUME NEW q \in Seq(Payloads), NEW base \in Drains
  PROVE  \E a \in [0 .. Len(q) -> Drains] :
           /\ a[0] = base
           /\ \A k \in 1 .. Len(q) : a[k] = DrainOne(a[k - 1], q[k])
           /\ FoldLeft(DrainOne, base, q) = a[Len(q)]
<1> DEFINE n == Len(q)
           step == [k \in 1 .. n |-> [acc \in Drains |-> DrainOne(acc, q[k])]]
           h == CHOOSE f : f = [s \in SUBSET (DOMAIN q) |->
                                  IF s = {} THEN base
                                  ELSE DrainOne(f[s \ {Max(s)}], q[Max(s)])]
<1>1. n \in Nat /\ DOMAIN q = 1 .. n /\ \A k \in 1 .. n : q[k] \in Payloads
  OBVIOUS
<1>2. step \in [1 .. n -> [Drains -> Drains]]
  BY <1>1, DrainOneCases
<1>3. PICK g \in [SUBSET (1 .. n) -> Drains] :
        \A s \in SUBSET (1 .. n) :
          g[s] = IF s = {} THEN base ELSE step[Max(s)][g[s \ {Max(s)}]]
  <2> HIDE DEF n, step, h
  <2>1. Recursion(n, Drains, base, step)
    BY <1>1, <1>2, FoldRecursion
  <2> QED BY <2>1 DEF Recursion
<1>4. \A s \in SUBSET (1 .. n) : s # {} => Max(s) \in 1 .. n
  <2> HIDE DEF n
  <2> QED BY <1>1, GreatestElement
<1>5. g = [s \in SUBSET (DOMAIN q) |->
             IF s = {} THEN base ELSE DrainOne(g[s \ {Max(s)}], q[Max(s)])]
  <2>1. ASSUME NEW s \in SUBSET (1 .. n)
        PROVE  g[s] = IF s = {} THEN base ELSE DrainOne(g[s \ {Max(s)}], q[Max(s)])
    <3>1. s # {} => g[s \ {Max(s)}] \in Drains
      BY <1>3
    <3> QED BY <1>3, <1>4, <3>1
  <2> HIDE DEF n
  <2> QED BY <1>1, <1>3, <2>1
<1>6. h = [s \in SUBSET (DOMAIN q) |->
             IF s = {} THEN base ELSE DrainOne(h[s \ {Max(s)}], q[Max(s)])]
  BY <1>5
<1>7. FoldLeft(DrainOne, base, q) = h[DOMAIN q]
  BY Zenon DEF FoldLeft, MapThenFoldSet
<1> HIDE DEF h
<1> DEFINE a == [k \in 0 .. n |-> h[1 .. k]]
           T == {k \in 0 .. n : a[k] \in Drains}
<1>8. a[0] = base /\ base \in Drains
  <2>1. 1 .. 0 = {} /\ {} \in SUBSET (DOMAIN q) /\ 0 \in 0 .. n
    BY <1>1
  <2>2. h[{}] = base
    BY <1>6, <2>1
  <2> QED BY <2>1, <2>2
<1>9. ASSUME NEW k \in 1 .. n PROVE a[k] = DrainOne(a[k - 1], q[k])
  <2>1. k \in 0 .. n /\ k - 1 \in 0 .. n
    BY <1>1
  <2>2. /\ 1 .. k \in SUBSET (DOMAIN q) /\ 1 .. k # {}
        /\ Max(1 .. k) = k /\ (1 .. k) \ {k} = 1 .. (k - 1)
    <3> HIDE DEF n
    <3> QED BY <1>1, PrefixSplit
  <2>3. h[1 .. k] = DrainOne(h[1 .. (k - 1)], q[k])
    BY <1>6, <2>2
  <2> QED BY <2>1, <2>3
<1>10. ASSUME NEW k \in 1 .. n, k - 1 \in T PROVE k \in T
  <2>1. a[k - 1] \in Drains /\ q[k] \in Payloads /\ k \in 0 .. n
    BY <1>1, <1>10
  <2>2. a[k] \in Drains
    <3> HIDE DEF a
    <3> QED BY <1>9, <2>1, DrainOneCases
  <2> QED BY <2>1, <2>2
<1>11. 0 .. n \subseteq T
  <2>1. 0 \in T
    BY <1>1, <1>8
  <2> HIDE DEF T, n
  <2> QED BY <1>1, <1>10, <2>1, IntervalInduction
<1>12. a \in [0 .. n -> Drains]
  <2>1. \A k \in 0 .. n : a[k] \in Drains
    <3> HIDE DEF a
    <3> QED BY <1>11
  <2> QED BY <2>1
<1>13. FoldLeft(DrainOne, base, q) = a[n]
  BY <1>1, <1>7
<1> HIDE DEF a
<1> QED BY <1>8, <1>9, <1>12, <1>13

(* What a drain leaves: the book it began with, or one that an event of    *)
(* the buffer bridged.                                                     *)
Drained(q, b, from) == FoldLeft(DrainOne, [book |-> b, ok |-> TRUE, from |-> from], q)

LEMMA DrainResult ==
  ASSUME NEW q \in Seq(Payloads), NEW b \in FaithfulBooks, NEW from \in 0 .. LastSeq,
         b.loaded, b.digest = NoDigest
  PROVE  LET d == Drained(q, b, from) IN
         /\ d.ok \in BOOLEAN /\ d.book \in FaithfulBooks
         /\ d.book.loaded /\ d.book.digest = NoDigest
         /\ \/ d.book = b
            \/ d.book.bridged /\ \E i \in 1 .. Len(q) : d.book.updateId = q[i].end
<1> DEFINE base == [book |-> b, ok |-> TRUE, from |-> from]
           n == Len(q)
           Good(c) == /\ c.loaded /\ c.digest = NoDigest
                      /\ \/ c = b
                         \/ c.bridged /\ \E i \in 1 .. n : c.updateId = q[i].end
<1>1. base \in Drains /\ base.book = b
  BY DEF Drains
<1>2. n \in Nat /\ \A k \in 1 .. n : q[k] \in Payloads
  OBVIOUS
<1> HIDE DEF base
<1>3. PICK a \in [0 .. n -> Drains] :
           /\ a[0] = base
           /\ \A k \in 1 .. n : a[k] = DrainOne(a[k - 1], q[k])
           /\ FoldLeft(DrainOne, base, q) = a[n]
  BY <1>1, DrainPrefixes
<1> DEFINE T == {k \in 0 .. n : Good(a[k].book)}
<1>4. 0 \in T
  BY <1>1, <1>2, <1>3
<1>5. ASSUME NEW k \in 1 .. n, k - 1 \in T PROVE k \in T
  <2> HIDE DEF n
  <2>1. a[k - 1] \in Drains /\ q[k] \in Payloads /\ k \in 0 .. n
    BY <1>2, <1>3
  <2>2. Good(a[k - 1].book)
    BY <1>5
  <2> DEFINE d == a[k]
             c == a[k - 1]
             r == ApplyUpdate(c.book, q[k])
  <2>3. \/ d = c
        \/ d.book = c.book
        \/ /\ d.book = r.book /\ r.book.loaded /\ r.book.bridged
           /\ r.book.updateId = q[k].end /\ r.book.digest = NoDigest
    BY <1>3, <2>1, DrainOneCases
  <2> HIDE DEF d, c, r
  <2>4. Good(d.book)
    BY <2>2, <2>3 DEF c
  <2> QED BY <2>1, <2>4 DEF d
<1>6. n \in T
  <2>1. n \in Nat
    BY <1>2
  <2> HIDE DEF T, n
  <2>2. 0 .. n \subseteq T
    BY <2>1, <1>4, <1>5, IntervalInduction
  <2> QED BY <2>1, <2>2
<1>7. a[n] \in Drains /\ Good(a[n].book) /\ Drained(q, b, from) = a[n]
  BY <1>2, <1>3, <1>6 DEF Drained, base
<1>8. a[n].ok \in BOOLEAN /\ a[n].book \in FaithfulBooks
  BY <1>7 DEF Drains
<1> QED BY <1>7, <1>8

-----------------------------------------------------------------------------
(* The inductive invariant.  Supervised and ListenerTracksExchange are not *)
(* inductive: a handler relies on where in its life the connection is, on  *)
(* whose requests are pending, on what the buffer holds, and on how far    *)
(* the exchange has been heard.                                            *)

Connected == running /\ ~reconnectTimer

Fields ==
  /\ running \in BOOLEAN /\ gen \in Nat /\ reconnectTimer \in BOOLEAN
  /\ opened \subseteq Streams
  /\ synchronizing \in BOOLEAN /\ reconciliationReady \in BOOLEAN /\ live \in BOOLEAN
  /\ reconciliationSnapshot \in {NoSnapshot} \cup 0 .. LastSeq
  /\ seq \in 0 .. LastSeq /\ cursor \in 0 .. seq
  /\ fetching \subseteq (1 .. gen) \X (0 .. LastSeq)
  /\ bufferedDepth \in Seq(Payloads)

(* A connection waits for its depth socket, synchronizes, is reconciled.   *)
Phases ==
  /\ Connected => synchronizing = ~reconciliationReady
  /\ ~Connected => ~synchronizing /\ ~reconciliationReady /\ ~live /\ opened = {}
  /\ ~synchronizing => bufferedDepth = <<>> /\ reconciliationSnapshot = NoSnapshot
  /\ "depth" \notin opened =>
       /\ ~reconciliationReady /\ bufferedDepth = <<>> /\ reconciliationSnapshot = NoSnapshot
       /\ Connected => status.state \in {"connecting", "reconnecting"}
  /\ "depth" \in opened /\ ~live => status.state = "syncing"

(* The current connection awaits one snapshot at most, before any other    *)
(* was taken over.                                                         *)
Requests ==
  \A r \in fetching : r[1] = gen =>
    /\ "depth" \in opened /\ synchronizing /\ reconciliationSnapshot = NoSnapshot
    /\ \A s \in fetching : s[1] = gen => s = r

Books ==
  /\ validator \in FaithfulBooks /\ mirror \in FaithfulBooks
  /\ verdict \in {"none", "verified", "applied", "lateStart"}
  /\ reconciliationReady =>
       /\ verdict \in {"verified", "applied"}
       /\ validator.loaded /\ validator.bridged
       /\ mirror.loaded /\ mirror.updateId = validator.updateId
  /\ reconciliationSnapshot # NoSnapshot =>
       /\ bufferedDepth = <<>> /\ validator.loaded /\ ~validator.bridged
       /\ validator.digest = NoDigest /\ validator.updateId = reconciliationSnapshot

(* What was handed over is behind everything buffered, and both behind     *)
(* what the current socket has carried.                                    *)
Heads ==
  /\ mirror.updateId <= cursor
  /\ \A i \in 1 .. Len(bufferedDepth) : bufferedDepth[i].end \in mirror.updateId .. cursor

Core == Fields /\ Supervised /\ Phases /\ Requests /\ Books /\ Heads

-----------------------------------------------------------------------------
(* The outcomes of a handler. *)

HandsOver(q) ==
  /\ UNCHANGED connection
  /\ bufferedDepth' = <<>> /\ reconciliationSnapshot' = NoSnapshot
  /\ synchronizing' = FALSE /\ reconciliationReady' = TRUE
  /\ validator' \in FaithfulBooks /\ validator'.loaded /\ validator'.bridged
  /\ mirror' \in FaithfulBooks /\ mirror'.loaded /\ mirror'.updateId = validator'.updateId
  /\ \E i \in 1 .. Len(q) : mirror'.updateId = q[i].end
  /\ verdict' = "verified"
  /\ MaybeBecomeLive(TRUE, opened)

KeepsWaiting(b, from) ==
  /\ UNCHANGED <<connection, synchronizing, reconciliationReady, live, status, listener>>
  /\ bufferedDepth' = <<>> /\ reconciliationSnapshot' = from /\ validator' = b

Buffers(u) ==
  /\ synchronizing /\ reconciliationSnapshot = NoSnapshot
  /\ bufferedDepth' = Append(bufferedDepth, u)
  /\ UNCHANGED <<connection, synchronizing, reconciliationReady, live,
                 reconciliationSnapshot, validator, status, listener>>

Delivers(u) ==
  /\ ~synchronizing
  /\ validator' \in FaithfulBooks /\ validator'.loaded /\ validator'.bridged
  /\ mirror' \in FaithfulBooks /\ mirror'.loaded
  /\ mirror'.updateId = u.end /\ validator'.updateId = u.end /\ u.end > mirror.updateId
  /\ verdict' = "applied"
  /\ UNCHANGED <<connection, synchronizing, reconciliationReady, live,
                 bufferedDepth, reconciliationSnapshot, status>>

(* The listener refuses the event and asks for a resync. *)
Refuses(u) ==
  /\ ~synchronizing /\ DropConnection("syncing")
  /\ validator' \in FaithfulBooks /\ verdict' = "lateStart"
  /\ mirror' \in FaithfulBooks /\ mirror'.updateId = u.end
  /\ u.end > mirror.updateId /\ u.end \in 0 .. LastSeq

Skips == UNCHANGED <<connection, sync, listener>>

(* drainReconciliation(). *)
LEMMA DrainOutcome ==
  ASSUME NEW q \in Seq(Payloads), NEW b \in FaithfulBooks, NEW from \in 0 .. LastSeq,
         b.loaded, b.digest = NoDigest, ~b.bridged,
         DrainReconciliation(b, from, q)
  PROVE  Restart("error") \/ HandsOver(q) \/ KeepsWaiting(b, from)
<1> DEFINE d == Drained(q, b, from)
           handoff == LoadSnapshot(EmptyBook, ExportSnapshot(d.book))
<1>1. /\ d.ok \in BOOLEAN /\ d.book \in FaithfulBooks
      /\ d.book.loaded /\ d.book.digest = NoDigest
      /\ \/ d.book = b
         \/ d.book.bridged /\ \E i \in 1 .. Len(q) : d.book.updateId = q[i].end
  BY DrainResult
<1>2. \/ ~d.ok /\ Restart("error")
      \/ /\ d.ok /\ bufferedDepth' = <<>> /\ UNCHANGED connection
         /\ IF HasBridgedSnapshot(d.book)
            THEN /\ validator' = Fingerprinted(d.book)
                 /\ synchronizing' = FALSE /\ reconciliationReady' = TRUE
                 /\ reconciliationSnapshot' = NoSnapshot
                 /\ mirror' = handoff
                 /\ verdict' = IF Fingerprint(handoff) = Fingerprint(d.book)
                               THEN "verified" ELSE "mismatch"
                 /\ MaybeBecomeLive(TRUE, opened)
            ELSE /\ validator' = d.book
                 /\ reconciliationSnapshot' = from
                 /\ UNCHANGED <<synchronizing, reconciliationReady, live, status, listener>>
  BY DEF DrainReconciliation, Drained
<1>3. CASE d.ok /\ ~HasBridgedSnapshot(d.book)
  BY <1>1, <1>2, <1>3 DEF HasBridgedSnapshot, KeepsWaiting
<1>4. CASE d.ok /\ HasBridgedSnapshot(d.book)
  <2>1. /\ d.book \in BookType /\ d.book.bridged /\ d.book.loaded
        /\ d.book.updateId \in 0 .. LastSeq
        /\ d.book.bids = Truth[d.book.updateId].bids
        /\ d.book.asks = Truth[d.book.updateId].asks
    BY <1>1, <1>4 DEF HasBridgedSnapshot, FaithfulBooks, Faithful
  <2> DEFINE c == d.book
  <2> HIDE DEF d
  <2>2. c.bids \in Sides /\ c.asks \in Sides /\ ~Crossed(c.bids, c.asks) /\ c.updateId \in Nat
    BY <2>1, DepthStreamAssumption
  <2>3. ExportSnapshot(c) = [lastUpdateId |-> c.updateId, bids |-> SnapshotLevels(c.bids),
                             asks |-> SnapshotLevels(c.asks)]
    BY DEF ExportSnapshot, ExportSide, SnapshotLevels
  <2>4. /\ handoff = [bids |-> c.bids, asks |-> c.asks, loaded |-> TRUE, bridged |-> FALSE,
                      updateId |-> c.updateId, digest |-> NoDigest]
        /\ handoff \in BookType
    BY <2>2, <2>3, WholeBookLoads
  <2> HIDE DEF handoff
  <2>5. /\ handoff.bids = c.bids /\ handoff.asks = c.asks /\ handoff.loaded
        /\ handoff.updateId = c.updateId /\ handoff.digest = NoDigest
    BY <2>4
  <2>6. handoff \in FaithfulBooks
    BY <2>1, <2>4, <2>5 DEF FaithfulBooks, Faithful
  <2>7. Fingerprint(handoff) = Fingerprint(c)
    BY <1>1, <2>5 DEF Fingerprint, Digest
  <2> DEFINE v == Fingerprinted(c)
  <2>10. /\ v \in BookType
         /\ v.bids = c.bids /\ v.asks = c.asks /\ v.updateId = c.updateId
         /\ v.loaded = c.loaded /\ v.bridged = c.bridged
    BY <2>1, FingerprintedShape
  <2> HIDE DEF v
  <2>11. v.loaded /\ v.bridged
    BY <2>1, <2>10
  <2>13. v \in FaithfulBooks
    BY <2>1, <2>10 DEF FaithfulBooks, Faithful
  <2>14. \E i \in 1 .. Len(q) : c.updateId = q[i].end
    BY <1>1, <2>1 DEF d
  <2>15. /\ validator' = v /\ mirror' = handoff /\ verdict' = "verified"
         /\ synchronizing' = FALSE /\ reconciliationReady' = TRUE
         /\ reconciliationSnapshot' = NoSnapshot /\ bufferedDepth' = <<>>
         /\ UNCHANGED connection /\ MaybeBecomeLive(TRUE, opened)
    BY <1>2, <1>4, <2>7 DEF v
  <2> HIDE DEF c
  <2> QED BY <2>5, <2>6, <2>10, <2>11, <2>13, <2>14, <2>15 DEF HandsOver
<1> QED BY <1>1, <1>2, <1>3, <1>4

LEMMA DroppedBookFaithful ==
  ASSUME NEW n \in Nat
  PROVE  LET b == [EmptyBook EXCEPT !.updateId = n] IN
         b \in FaithfulBooks /\ b.updateId = n
<1> DEFINE b == [EmptyBook EXCEPT !.updateId = n]
<1>1. EmptyBook \in BookType /\ ~EmptyBook.loaded
  BY DEF EmptyBook, BookType, Sides, NoLevels
<1>2. b \in BookType /\ ~b.loaded /\ b.updateId = n
  BY <1>1 DEF BookType
<1> HIDE DEF b
<1> QED BY <1>2 DEF FaithfulBooks, Faithful, b

(* An event on the listener's book, when the feed's own took it: applied,  *)
(* or refused where it starts late on a book fresh from a handoff.         *)
LEMMA ListenerFollows ==
  ASSUME NEW b \in FaithfulBooks, NEW c \in FaithfulBooks, NEW u \in Payloads,
         b.loaded, b.bridged, c.loaded, c.updateId = b.updateId,
         ApplyUpdate(b, u).status = "applied"
  PROVE  LET r == ApplyUpdate(c, u) IN
         \/ /\ r.status = "applied" /\ r.book \in FaithfulBooks
            /\ r.book.loaded /\ r.book.updateId = u.end
         \/ r.status = "gap" /\ LateStart(c, u)
<1> DEFINE bids == ApplyLevels(c.bids, u.bids)
           asks == ApplyLevels(c.asks, u.asks)
<1>1. /\ b \in BookType /\ c \in BookType /\ Faithful(b) /\ Faithful(c)
  BY DEF FaithfulBooks
<1>2. /\ u \in Messages /\ u.end > b.updateId /\ u.prev = b.updateId
  BY <1>1, PayloadOnFaithfulBook
<1>3. /\ u.prev \in 0 .. LastSeq /\ u.start \in 1 .. LastSeq /\ u.start > u.prev
      /\ u.end \in u.start .. LastSeq
      /\ u \in StreamUpdates /\ u \in UpdateType
      /\ ValidLevels(u.bids, TRUE) /\ ValidLevels(u.asks, TRUE)
  BY <1>2, MessageShape
<1>4. /\ c.updateId \in 0 .. LastSeq
      /\ c.bids = Truth[c.updateId].bids /\ c.asks = Truth[c.updateId].asks
  BY <1>1 DEF Faithful
<1>5. bids = Truth[u.end].bids /\ asks = Truth[u.end].asks /\ u.end \in 0 .. LastSeq
  BY <1>1, <1>2, <1>3, <1>4, GenuineEventTracks
<1>6. ~Crossed(bids, asks) /\ bids \in Sides /\ asks \in Sides
  BY <1>5, DepthStreamAssumption
<1>7. u.start \in Int /\ u.end \in Int /\ u.end >= u.start /\ c.updateId \in Nat
  BY <1>3, <1>4, DepthStreamAssumption
<1>8. u.prev = c.updateId /\ u.start > c.updateId
  BY <1>2, <1>3
<1>9. CASE c.bridged \/ u.start = c.updateId + 1
  <2>1. Advanced(ApplyUpdate(c, u), u.end, bids, asks)
    BY <1>1, <1>3, <1>6, <1>7, <1>8, <1>9, NextUpdateApplies
  <2>2. ApplyUpdate(c, u).status = "applied"
    BY <2>1 DEF Advanced
  <2> QED BY <1>1, <2>2, PayloadOnFaithfulBook DEF FaithfulBooks
<1>10. CASE ~c.bridged /\ u.start # c.updateId + 1
  <2>1. u.start > c.updateId + 1
    BY <1>7, <1>8, <1>10
  <2> QED BY <1>1, <1>3, <1>7, <1>8, <1>10, <2>1, LateUpdateIsRefused DEF LateStart
<1> QED BY <1>9, <1>10

(* handleDepthMessage() of the current connection. *)
LEMMA HandleDepthOutcome ==
  ASSUME Core, IsCurrentDepth(gen), "depth" \in opened, NEW u \in Payloads, HandleDepth(u)
  PROVE  \/ \E state \in {"syncing", "error"} : Restart(state)
         \/ /\ synchronizing /\ reconciliationSnapshot # NoSnapshot
            /\ \/ HandsOver(Append(bufferedDepth, u))
               \/ KeepsWaiting(validator, reconciliationSnapshot)
         \/ Buffers(u) \/ Delivers(u) \/ Refuses(u) \/ Skips
<1>1. CASE synchronizing /\ BufferFull
  BY <1>1 DEF HandleDepth
<1>2. CASE synchronizing /\ ~BufferFull /\ reconciliationSnapshot = NoSnapshot
  BY <1>2 DEF HandleDepth, Buffers
<1>3. CASE synchronizing /\ ~BufferFull /\ reconciliationSnapshot # NoSnapshot
  <2>1. DrainReconciliation(validator, reconciliationSnapshot, Append(bufferedDepth, u))
    BY <1>3 DEF HandleDepth
  <2>2. Append(bufferedDepth, u) \in Seq(Payloads)
    BY DEF Core, Fields
  <2>3. /\ validator \in FaithfulBooks /\ validator.loaded /\ ~validator.bridged
        /\ validator.digest = NoDigest /\ reconciliationSnapshot \in 0 .. LastSeq
    BY <1>3 DEF Core, Fields, Books
  <2> QED BY <1>3, <2>1, <2>2, <2>3, DrainOutcome
<1>4. CASE ~synchronizing
  <2> DEFINE r == ApplyUpdate(validator, u)
             heard == ApplyUpdate(mirror, u)
  <2>1. /\ validator \in FaithfulBooks /\ mirror \in FaithfulBooks
        /\ validator.loaded /\ validator.bridged
        /\ mirror.loaded /\ mirror.updateId = validator.updateId
    BY <1>4 DEF Core, Books, Phases, Connected
  <2>2. \/ r.status \notin {"applied", "ignored"} /\ Restart("syncing")
        \/ /\ r.status \in {"applied", "ignored"}
           /\ validator' = r.book
           /\ IF r.status = "applied"
              THEN EmitDepth(u)
              ELSE UNCHANGED <<connection, synchronizing, reconciliationReady, live,
                               bufferedDepth, reconciliationSnapshot, status, listener>>
    BY <1>4 DEF HandleDepth, Emits
  <2>3. CASE r.status \notin {"applied", "ignored"}
    BY <2>2, <2>3
  <2>4. CASE r.status = "ignored"
    <3>1. r.book = validator
      BY <2>1, <2>4, PayloadOnFaithfulBook DEF FaithfulBooks
    <3> QED BY <2>2, <2>4, <3>1 DEF Skips, sync
  <2>5. CASE r.status = "applied"
    <3>1. /\ r.book \in FaithfulBooks /\ r.book.loaded /\ r.book.bridged
          /\ r.book.updateId = u.end /\ u.end > mirror.updateId
      BY <2>1, <2>5, PayloadOnFaithfulBook DEF FaithfulBooks
    <3>2. \/ /\ heard.status = "applied" /\ heard.book \in FaithfulBooks
             /\ heard.book.loaded /\ heard.book.updateId = u.end
          \/ heard.status = "gap" /\ LateStart(mirror, u)
      BY <2>1, <2>5, ListenerFollows
    <3>3. validator' = r.book /\ EmitDepth(u)
      BY <2>2, <2>5
    <3>4. /\ verdict' = HeardAs(heard, u)
          /\ IF heard.status \in {"applied", "ignored"}
             THEN /\ mirror' = heard.book
                  /\ UNCHANGED <<connection, synchronizing, reconciliationReady, live,
                                 bufferedDepth, reconciliationSnapshot, status>>
             ELSE /\ mirror' = [EmptyBook EXCEPT !.updateId = u.end]
                  /\ DropConnection("syncing")
      BY <3>3 DEF EmitDepth
    <3>5. u.end \in 0 .. LastSeq /\ u.end \in Nat
      <4>1. u.start \in 1 .. LastSeq /\ u.end \in u.start .. LastSeq
        BY <2>1, PayloadShape
      <4> QED BY <4>1, DepthStreamAssumption
    <3> HIDE DEF r, heard
    <3>6. CASE heard.status = "applied"
      <4>1. verdict' = "applied"
        BY <3>4, <3>6 DEF HeardAs
      <4> QED BY <1>4, <3>1, <3>2, <3>3, <3>4, <3>6, <4>1 DEF Delivers
    <3>7. CASE heard.status = "gap" /\ LateStart(mirror, u)
      <4>1. verdict' = "lateStart"
        BY <3>4, <3>7 DEF HeardAs
      <4>2. mirror' \in FaithfulBooks /\ mirror'.updateId = u.end
        BY <3>4, <3>5, <3>7, DroppedBookFaithful
      <4> QED BY <1>4, <3>1, <3>3, <3>4, <3>5, <3>7, <4>1, <4>2 DEF Refuses
    <3> QED BY <3>2, <3>6, <3>7
  <2> QED BY <2>3, <2>4, <2>5
<1>5. synchronizing \in BOOLEAN
  BY DEF Core, Fields
<1> QED BY <1>1, <1>2, <1>3, <1>4, <1>5

-----------------------------------------------------------------------------
(* Every outcome keeps the invariant. *)

LEMMA DropKeepsCore ==
  ASSUME Core, running, NEW state \in {"syncing", "reconnecting", "error"},
         DropConnection(state),
         fetching' \subseteq fetching, seq' = seq, cursor' \in cursor .. seq,
         validator' \in FaithfulBooks, mirror' \in FaithfulBooks, mirror'.updateId <= cursor',
         verdict' \in {"none", "verified", "applied", "lateStart"}
  PROVE  Core'
<1> USE DEF DropConnection, TerminateSockets, ResetConnectionState, EmitStatus
<1>1. Fields'
  <2>1. cursor' \in 0 .. seq'
    BY DEF Core, Fields
  <2>2. fetching' \subseteq (1 .. gen') \X (0 .. LastSeq) /\ gen' \in Nat
    BY DEF Core, Fields
  <2>3. bufferedDepth' \in Seq(Payloads)
    OBVIOUS
  <2> QED BY <2>1, <2>2, <2>3 DEF Core, Fields
<1>2. Supervised'
  BY DEF Core, Fields, Supervised, LiveStatusTruthful, None
<1>3. Phases'
  BY DEF Phases, Connected
<1>4. Requests'
  BY DEF Core, Fields, Requests
<1>5. Books'
  BY DEF Books
<1>6. Heads'
  BY DEF Heads
<1> QED BY <1>1, <1>2, <1>3, <1>4, <1>5, <1>6 DEF Core

LEMMA RestartKeepsCore ==
  ASSUME Core, running, NEW state \in {"syncing", "reconnecting", "error"}, Restart(state),
         fetching' \subseteq fetching, seq' = seq, cursor' \in cursor .. seq
  PROVE  Core'
<1>1. DropConnection(state) /\ UNCHANGED <<validator, listener>>
  BY DEF Restart
<1>2. /\ validator' \in FaithfulBooks /\ mirror' \in FaithfulBooks
      /\ verdict' \in {"none", "verified", "applied", "lateStart"}
  BY <1>1 DEF Core, Books, listener
<1>3. mirror'.updateId <= cursor'
  BY <1>1 DEF Core, Fields, Books, Heads, FaithfulBooks, BookType, listener
<1> QED BY <1>1, <1>2, <1>3, DropKeepsCore

LEMMA EmptyBookFaithful == EmptyBook \in FaithfulBooks
BY DEF EmptyBook, FaithfulBooks, Faithful, BookType, Sides, NoLevels

LEMMA ConnectKeepsCore ==
  ASSUME Core, NEW state \in {"connecting", "reconnecting"}, Connect(state),
         running' = TRUE, reconnectTimer' = FALSE, UNCHANGED <<fetching, exchange>>
  PROVE  Core'
<1> USE DEF Connect, ResetConnectionState, EmitStatus, exchange
<1>1. Fields'
  <2>1. fetching' \subseteq (1 .. gen') \X (0 .. LastSeq) /\ gen' \in Nat
    BY DEF Core, Fields
  <2>2. bufferedDepth' \in Seq(Payloads)
    OBVIOUS
  <2> QED BY <2>1, <2>2 DEF Core, Fields
<1>2. Supervised'
  BY DEF Core, Fields, Supervised, LiveStatusTruthful
<1>3. Phases'
  BY DEF Phases, Connected
<1>4. Requests'
  BY DEF Core, Fields, Requests
<1>5. Books'
  BY EmptyBookFaithful DEF Core, Books, listener
<1>6. Heads'
  BY DEF Core, Fields, Books, Heads, FaithfulBooks, BookType, listener
<1> QED BY <1>1, <1>2, <1>3, <1>4, <1>5, <1>6 DEF Core

LEMMA ConnectThrowsKeepsCore ==
  ASSUME Core, ConnectThrows, running' = TRUE, UNCHANGED <<fetching, exchange>>
  PROVE  Core'
<1> USE DEF ConnectThrows, TerminateSockets, ResetConnectionState, EmitStatus, exchange
<1>1. Fields'
  <2>1. fetching' \subseteq (1 .. gen') \X (0 .. LastSeq) /\ gen' \in Nat
    BY DEF Core, Fields
  <2>2. bufferedDepth' \in Seq(Payloads)
    OBVIOUS
  <2> QED BY <2>1, <2>2 DEF Core, Fields
<1>2. Supervised'
  BY DEF Core, Fields, Supervised, LiveStatusTruthful
<1>3. Phases'
  BY DEF Phases, Connected
<1>4. Requests'
  BY DEF Core, Fields, Requests
<1>5. Books'
  BY EmptyBookFaithful DEF Core, Books, listener
<1>6. Heads'
  BY DEF Core, Fields, Books, Heads, FaithfulBooks, BookType, listener
<1> QED BY <1>1, <1>2, <1>3, <1>4, <1>5, <1>6 DEF Core

(* The queue is what was buffered and, from a message, the message. *)
LEMMA HandOverKeepsCore ==
  ASSUME Core, running, "depth" \in opened, synchronizing,
         NEW q \in Seq(Payloads), \A i \in 1 .. Len(q) : q[i].end \in mirror.updateId .. cursor',
         HandsOver(q), fetching' \subseteq fetching, seq' = seq, cursor' \in cursor .. seq,
         \A r \in fetching' : r[1] # gen
  PROVE  Core'
<1> USE DEF HandsOver, connection
<1>0. ~live /\ ~reconnectTimer
  BY DEF Core, Fields, Supervised, LiveStatusTruthful, Phases, Connected
<1>00. \/ /\ live' = TRUE /\ opened = Streams
          /\ status' = [state |-> "live", session |-> gen]
       \/ live' = live /\ status' = status
  <2>1. Streams \subseteq opened => opened = Streams
    BY DEF Core, Fields
  <2> QED BY <2>1 DEF MaybeBecomeLive, EmitStatus, TransportAlive
<1>1. Fields'
  <2>1. cursor' \in 0 .. seq'
    BY DEF Core, Fields
  <2>2. live' \in BOOLEAN
    BY <1>00 DEF Core, Fields
  <2>3. bufferedDepth' \in Seq(Payloads)
    OBVIOUS
  <2> QED BY <2>1, <2>2, <2>3 DEF Core, Fields
<1>2. Supervised'
  <2>1. /\ depthSocket = gen /\ tradeSocket = gen /\ healthTimer = gen
        /\ status.session = gen /\ status.state # "live"
    BY <1>0 DEF Core, Supervised, LiveStatusTruthful
  <2>2. status'.session = gen /\ ((status'.state = "live") <=> live')
    BY <1>00, <1>0, <2>1
  <2>3. live' => opened = Streams
    BY <1>00, <1>0
  <2> QED BY <1>0, <2>1, <2>2, <2>3 DEF Supervised, LiveStatusTruthful
<1>3. Phases'
  BY <1>0, <1>00 DEF Core, Fields, Phases, Connected
<1>4. Requests'
  BY DEF Core, Fields, Requests
<1>5. Books'
  BY DEF Core, Books
<1>6. Heads'
  <2>1. bufferedDepth' = <<>> /\ Len(<<>>) = 0
    OBVIOUS
  <2>2. mirror.updateId \in Int /\ cursor' \in Int
    BY DEF Core, Fields, Books, FaithfulBooks, BookType
  <2>3. PICK i \in 1 .. Len(q) : mirror'.updateId = q[i].end
    OBVIOUS
  <2>4. q[i].end \in mirror.updateId .. cursor'
    OBVIOUS
  <2>5. mirror'.updateId <= cursor'
    BY <2>2, <2>3, <2>4
  <2> QED BY <2>1, <2>5 DEF Heads
<1> QED BY <1>1, <1>2, <1>3, <1>4, <1>5, <1>6 DEF Core

LEMMA WaitKeepsCore ==
  ASSUME Core, running, "depth" \in opened, synchronizing,
         NEW b \in FaithfulBooks, NEW from \in 0 .. LastSeq,
         b.loaded, ~b.bridged, b.digest = NoDigest, b.updateId = from,
         KeepsWaiting(b, from), fetching' \subseteq fetching,
         seq' = seq, cursor' \in cursor .. seq, \A r \in fetching' : r[1] # gen
  PROVE  Core'
<1> USE DEF KeepsWaiting, connection, listener
<1>1. Fields'
  <2>1. cursor' \in 0 .. seq'
    BY DEF Core, Fields
  <2>2. bufferedDepth' \in Seq(Payloads)
    OBVIOUS
  <2> QED BY <2>1, <2>2 DEF Core, Fields
<1>2. Supervised'
  BY DEF Core, Supervised, LiveStatusTruthful
<1>3. Phases'
  BY DEF Core, Phases, Connected
<1>4. Requests'
  BY DEF Core, Fields, Requests
<1>5. Books'
  <2>1. ~reconciliationReady'
    BY DEF Core, Phases, Connected
  <2> QED BY <2>1 DEF Core, Books
<1>6. Heads'
  BY DEF Core, Fields, Books, Heads, FaithfulBooks, BookType
<1> QED BY <1>1, <1>2, <1>3, <1>4, <1>5, <1>6 DEF Core

LEMMA BufferKeepsCore ==
  ASSUME Core, running, "depth" \in opened, NEW u \in Payloads, Buffers(u),
         UNCHANGED <<fetching, seq>>, cursor' \in cursor .. seq,
         u.end \in mirror.updateId .. cursor'
  PROVE  Core'
<1> USE DEF Buffers, connection, listener
<1>0. bufferedDepth \in Seq(Payloads)
  BY DEF Core, Fields
<1>1. Fields'
  <2>1. cursor' \in 0 .. seq'
    BY DEF Core, Fields
  <2>2. bufferedDepth' \in Seq(Payloads)
    BY <1>0
  <2> QED BY <2>1, <2>2 DEF Core, Fields
<1>2. Supervised'
  BY DEF Core, Supervised, LiveStatusTruthful
<1>3. Phases'
  BY DEF Core, Phases, Connected
<1>4. Requests'
  BY DEF Core, Requests
<1>5. Books'
  BY DEF Core, Books
<1>6. Heads'
  <2>1. mirror.updateId \in Nat
    BY DEF Core, Books, FaithfulBooks, BookType
  <2>2. ASSUME NEW i \in 1 .. Len(bufferedDepth')
        PROVE  bufferedDepth'[i].end \in mirror.updateId .. cursor'
    <3>1. CASE i \in 1 .. Len(bufferedDepth)
      <4>1. bufferedDepth'[i] = bufferedDepth[i]
        BY <1>0, <3>1
      <4>2. bufferedDepth[i].end \in mirror.updateId .. cursor
        BY <3>1 DEF Core, Heads
      <4> QED BY <4>1, <4>2, <2>1 DEF Core, Fields
    <3>2. CASE i = Len(bufferedDepth) + 1
      <4>1. bufferedDepth'[i] = u
        BY <1>0, <3>2
      <4> QED BY <4>1
    <3> QED BY <1>0, <3>1, <3>2
  <2>3. mirror.updateId <= cursor'
    BY <2>1 DEF Core, Heads, Fields
  <2> QED BY <2>2, <2>3 DEF Heads
<1> QED BY <1>1, <1>2, <1>3, <1>4, <1>5, <1>6 DEF Core

LEMMA DeliverKeepsCore ==
  ASSUME Core, running, "depth" \in opened, NEW u \in Payloads, Delivers(u),
         UNCHANGED <<fetching, seq>>, cursor' \in cursor .. seq,
         u.end \in mirror.updateId .. cursor'
  PROVE  Core'
<1> USE DEF Delivers, connection
<1>1. Fields'
  <2>1. cursor' \in 0 .. seq'
    BY DEF Core, Fields
  <2> QED BY <2>1 DEF Core, Fields
<1>2. Supervised'
  BY DEF Core, Supervised, LiveStatusTruthful
<1>3. Phases'
  BY DEF Core, Phases, Connected
<1>4. Requests'
  BY DEF Core, Requests
<1>5. Books'
  <2>1. reconciliationSnapshot' = NoSnapshot
    BY DEF Core, Phases
  <2> QED BY <2>1 DEF Core, Books
<1>6. Heads'
  <2>1. bufferedDepth' = <<>> /\ Len(<<>>) = 0
    BY DEF Core, Phases
  <2> QED BY <2>1 DEF Heads
<1> QED BY <1>1, <1>2, <1>3, <1>4, <1>5, <1>6 DEF Core

(* Nothing but the cursor moves. *)
LEMMA SkipKeepsCore ==
  ASSUME Core, Skips, fetching' \subseteq fetching, seq' = seq, cursor' \in cursor .. seq
  PROVE  Core'
<1> USE DEF Skips, connection, sync, listener
<1>1. Fields'
  <2>1. cursor' \in 0 .. seq'
    BY DEF Core, Fields
  <2> QED BY <2>1 DEF Core, Fields
<1>2. Supervised'
  BY DEF Core, Supervised, LiveStatusTruthful
<1>3. Phases'
  BY DEF Core, Phases, Connected
<1>4. Requests'
  BY DEF Core, Requests
<1>5. Books'
  BY DEF Core, Books
<1>6. Heads'
  <2>1. mirror.updateId \in Nat /\ cursor \in Nat /\ cursor' \in Nat /\ cursor <= cursor'
    BY DEF Core, Books, Fields, FaithfulBooks, BookType
  <2>2. \A i \in 1 .. Len(bufferedDepth) : bufferedDepth[i].end \in mirror.updateId .. cursor
    BY DEF Core, Heads
  <2>3. \A e \in mirror.updateId .. cursor : e \in mirror.updateId .. cursor'
    BY <2>1
  <2> QED BY <2>1, <2>2, <2>3 DEF Core, Heads
<1> QED BY <1>1, <1>2, <1>3, <1>4, <1>5, <1>6 DEF Core

(* The queue with the next payload stays ahead of the listener. *)
LEMMA QueueAhead ==
  ASSUME Core, NEW u \in Payloads, cursor' \in cursor .. seq, u.end \in cursor .. cursor'
  PROVE  LET q == Append(bufferedDepth, u) IN
         q \in Seq(Payloads) /\ \A i \in 1 .. Len(q) : q[i].end \in mirror.updateId .. cursor'
<1> DEFINE q == Append(bufferedDepth, u)
<1>1. /\ mirror.updateId \in Nat /\ cursor \in Nat /\ cursor' \in Nat
      /\ mirror.updateId <= cursor /\ cursor <= cursor'
      /\ bufferedDepth \in Seq(Payloads)
  BY DEF Core, Books, Fields, Heads, FaithfulBooks, BookType
<1>2. u.end \in mirror.updateId .. cursor'
  BY <1>1
<1>3. ASSUME NEW i \in 1 .. Len(q) PROVE q[i].end \in mirror.updateId .. cursor'
  <2>1. CASE i \in 1 .. Len(bufferedDepth)
    <3>1. q[i] = bufferedDepth[i]
      BY <1>1, <2>1
    <3>2. bufferedDepth[i].end \in mirror.updateId .. cursor
      BY <2>1 DEF Core, Heads
    <3> HIDE DEF q
    <3> QED BY <3>1, <3>2, <1>1
  <2>2. CASE i = Len(bufferedDepth) + 1
    <3>1. q[i] = u
      BY <1>1, <2>2
    <3> QED BY <3>1, <1>2
  <2> QED BY <1>1, <2>1, <2>2
<1> QED BY <1>1, <1>3

(* Every outcome of a payload of the current socket, which carries nothing *)
(* the listener has passed.                                                *)
LEMMA MessageKeepsCore ==
  ASSUME Core, IsCurrentDepth(gen), "depth" \in opened, NEW u \in Payloads, HandleDepth(u),
         UNCHANGED <<fetching, seq>>, cursor' \in cursor .. seq, u.end \in cursor .. cursor'
  PROVE  Core'
<1>1. running
  BY DEF IsCurrentDepth
<1>2. /\ mirror.updateId \in Nat /\ cursor \in Nat /\ cursor' \in Nat
      /\ mirror.updateId <= cursor /\ cursor <= cursor'
      /\ bufferedDepth \in Seq(Payloads)
  BY DEF Core, Books, Fields, Heads, FaithfulBooks, BookType
<1>3. u.end \in mirror.updateId .. cursor'
  BY <1>2
<1> DEFINE q == Append(bufferedDepth, u)
<1>4. q \in Seq(Payloads) /\ \A i \in 1 .. Len(q) : q[i].end \in mirror.updateId .. cursor'
  BY QueueAhead
<1>5. CASE \E state \in {"syncing", "error"} : Restart(state)
  BY <1>1, <1>5, RestartKeepsCore
<1>6. CASE /\ synchronizing /\ reconciliationSnapshot # NoSnapshot
           /\ HandsOver(q) \/ KeepsWaiting(validator, reconciliationSnapshot)
  <2>1. \A r \in fetching' : r[1] # gen
    BY <1>6 DEF Core, Requests
  <2>2. /\ validator \in FaithfulBooks /\ reconciliationSnapshot \in 0 .. LastSeq
        /\ validator.loaded /\ ~validator.bridged
        /\ validator.digest = NoDigest /\ validator.updateId = reconciliationSnapshot
    BY <1>6 DEF Core, Fields, Books
  <2> HIDE DEF q
  <2>3. CASE HandsOver(q)
    BY <1>1, <1>4, <1>6, <2>1, <2>3, HandOverKeepsCore
  <2>4. CASE KeepsWaiting(validator, reconciliationSnapshot)
    BY <1>1, <1>6, <2>1, <2>2, <2>4, WaitKeepsCore
  <2> QED BY <1>6, <2>3, <2>4
<1>7. CASE Buffers(u)
  BY <1>1, <1>3, <1>7, BufferKeepsCore
<1>8. CASE Delivers(u)
  BY <1>1, <1>3, <1>8, DeliverKeepsCore
<1>9. CASE Skips
  BY <1>9, SkipKeepsCore
<1>10. CASE Refuses(u)
  <2>1. mirror'.updateId <= cursor'
    BY <1>2, <1>3, <1>10 DEF Refuses
  <2> QED BY <1>1, <1>10, <2>1, DropKeepsCore DEF Refuses
<1> QED BY <1>5, <1>6, <1>7, <1>8, <1>9, <1>10, HandleDepthOutcome

-----------------------------------------------------------------------------
(* The actions. *)

LEMMA InitCore == Init => Core
<1> SUFFICES ASSUME Init PROVE Core
  OBVIOUS
<1> USE DEF Init
<1>1. Fields
  BY DepthStreamAssumption DEF Fields
<1>2. Supervised /\ Phases /\ Requests
  BY DEF Supervised, Phases, Connected, Requests, None
<1>3. Books
  BY EmptyBookFaithful DEF Books
<1>4. Heads
  BY DEF Heads, EmptyBook
<1> QED BY <1>1, <1>2, <1>3, <1>4 DEF Core

LEMMA StartKeepsCore == Core /\ Start => Core'
<1> SUFFICES ASSUME Core, Start PROVE Core'
  OBVIOUS
<1>1. reconnectTimer = FALSE
  BY DEF Core, Fields, Supervised, Start
<1>2. CASE Connect("connecting") /\ UNCHANGED <<faults, reconnectTimer>>
  BY <1>1, <1>2, ConnectKeepsCore DEF Start
<1>3. CASE ConnectThrows
  BY <1>3, ConnectThrowsKeepsCore DEF Start
<1> QED BY <1>2, <1>3 DEF Start

LEMMA StopKeepsCore == Core /\ Stop => Core'
<1> SUFFICES ASSUME Core, Stop PROVE Core'
  OBVIOUS
<1> USE DEF Stop, TerminateSockets, ResetConnectionState, exchange, listener
<1>1. Fields'
  <2>1. fetching' \subseteq (1 .. gen') \X (0 .. LastSeq) /\ gen' \in Nat
    BY DEF Core, Fields
  <2>2. bufferedDepth' \in Seq(Payloads)
    OBVIOUS
  <2> QED BY <2>1, <2>2 DEF Core, Fields
<1>2. Supervised'
  BY DEF Supervised
<1>3. Phases'
  BY DEF Phases, Connected
<1>4. Requests'
  BY DEF Core, Fields, Requests
<1>5. Books'
  BY DEF Core, Books
<1>6. Heads'
  BY DEF Core, Heads
<1> QED BY <1>1, <1>2, <1>3, <1>4, <1>5, <1>6 DEF Core

LEMMA DepthOpenKeepsCore == ASSUME Core, NEW g \in 1 .. gen, DepthOpen(g) PROVE Core'
<1>1. CASE ~IsCurrentDepth(g)
  <2>1. Skips /\ fetching' \subseteq fetching /\ seq' = seq /\ cursor' \in cursor .. seq
    BY <1>1 DEF DepthOpen, Skips, connection, sync, listener, Core, Fields
  <2> QED BY <2>1, SkipKeepsCore
<1>2. CASE IsCurrentDepth(g)
  <2> USE DEF DepthOpen, EmitStatus, listener
  <2>1. /\ g = gen /\ running /\ depthSocket = gen /\ gen \in Nat /\ gen # 0
        /\ "depth" \notin opened
    BY <1>2 DEF IsCurrentDepth, Core, Fields
  <2>2. /\ Connected /\ synchronizing /\ ~reconciliationReady /\ ~live
        /\ reconciliationSnapshot = NoSnapshot /\ bufferedDepth = <<>>
        /\ \A r \in fetching : r[1] # gen
    BY <2>1 DEF Core, Fields, Supervised, LiveStatusTruthful, Phases, Connected, Requests, None
  <2>3. /\ opened' = opened \cup {"depth"} /\ status' = [state |-> "syncing", session |-> gen]
        /\ fetching' = fetching \cup {<<gen, seq>>} /\ cursor' = seq
    BY <1>2, <2>1
  <2>4. Fields'
    <3>1. fetching' \subseteq (1 .. gen') \X (0 .. LastSeq)
      BY <2>1, <2>3 DEF Core, Fields
    <3> QED BY <2>3, <3>1 DEF Core, Fields, Streams
  <2>5. Supervised'
    BY <2>1, <2>2, <2>3 DEF Core, Supervised, LiveStatusTruthful, Connected
  <2>6. Phases'
    BY <2>1, <2>2, <2>3 DEF Core, Phases, Connected
  <2>7. Requests'
    BY <2>2, <2>3 DEF Requests
  <2>8. Books'
    BY DEF Core, Books
  <2>9. Heads'
    <3>1. Len(bufferedDepth') = 0
      BY <2>2
    <3>2. mirror.updateId <= seq
      BY DEF Core, Fields, Books, Heads, FaithfulBooks, BookType
    <3> QED BY <2>3, <3>1, <3>2 DEF Heads
  <2> QED BY <2>4, <2>5, <2>6, <2>7, <2>8, <2>9 DEF Core
<1> QED BY <1>1, <1>2

LEMMA TradeOpenKeepsCore == ASSUME Core, NEW g \in 1 .. gen, TradeOpen(g) PROVE Core'
<1>1. CASE ~IsCurrentTrade(g)
  <2>1. Skips /\ fetching' \subseteq fetching /\ seq' = seq /\ cursor' \in cursor .. seq
    BY <1>1 DEF TradeOpen, Skips, connection, sync, listener, exchange, Core, Fields
  <2> QED BY <2>1, SkipKeepsCore
<1>2. CASE IsCurrentTrade(g)
  <2> USE DEF TradeOpen, listener, exchange
  <2>1. /\ g = gen /\ running /\ tradeSocket = gen /\ gen \in Nat /\ gen # 0
        /\ "trade" \notin opened
    BY <1>2 DEF IsCurrentTrade, Core, Fields
  <2>2. Connected /\ ~live
    BY <2>1 DEF Core, Fields, Supervised, LiveStatusTruthful, Connected, None, Streams
  <2>3. opened' = opened \cup {"trade"}
    BY <1>2
  <2>4. \/ /\ live' = TRUE /\ reconciliationReady /\ opened' = Streams
           /\ status' = [state |-> "live", session |-> gen]
        \/ live' = live /\ status' = status
    <3>1. Streams \subseteq opened' => opened' = Streams
      BY <2>3 DEF Core, Fields, Streams
    <3> QED BY <1>2, <2>1, <3>1 DEF MaybeBecomeLive, EmitStatus, TransportAlive
  <2>5. Fields'
    <3>1. live' \in BOOLEAN /\ opened' \subseteq Streams
      BY <2>3, <2>4 DEF Core, Fields, Streams
    <3> QED BY <3>1 DEF Core, Fields
  <2>6. Supervised'
    <3>1. /\ depthSocket = gen /\ tradeSocket = gen /\ healthTimer = gen /\ ~reconnectTimer
          /\ status.session = gen /\ status.state # "live"
      BY <2>1, <2>2 DEF Core, Supervised, LiveStatusTruthful, Connected
    <3>2. status'.session = gen /\ ((status'.state = "live") <=> live')
      BY <2>2, <2>4, <3>1
    <3>3. live' => /\ opened' = Streams /\ reconciliationReady' /\ ~synchronizing'
      BY <2>2, <2>4 DEF Core, Phases
    <3> QED BY <2>1, <3>1, <3>2, <3>3 DEF Supervised, LiveStatusTruthful
  <2>7. Phases'
    <3>1. ("depth" \in opened') <=> ("depth" \in opened)
      BY <2>3
    <3>2. "depth" \notin opened => ~reconciliationReady /\ live' = live /\ status' = status
      BY <2>4 DEF Core, Phases
    <3> QED BY <2>2, <2>3, <2>4, <3>1, <3>2 DEF Core, Phases, Connected
  <2>8. Requests'
    BY <2>3 DEF Core, Requests
  <2>9. Books' /\ Heads'
    BY DEF Core, Books, Heads
  <2> QED BY <2>5, <2>6, <2>7, <2>8, <2>9 DEF Core
<1> QED BY <1>1, <1>2

LEMMA StallKeepsCore == ASSUME Core, NEW s \in Streams, Stall(s) PROVE Core'
<1> USE DEF Stall, sync, exchange, listener
<1>1. Fields' /\ Phases' /\ Requests' /\ Books' /\ Heads'
  BY DEF Core, Fields, Phases, Requests, Books, Heads, Connected
<1>2. Supervised'
  BY DEF Core, Supervised, LiveStatusTruthful
<1> QED BY <1>1, <1>2 DEF Core

LEMMA ChangeKeepsCore == Core /\ Change => Core'
<1> SUFFICES ASSUME Core, Change PROVE Core'
  OBVIOUS
<1> USE DEF Change, connection, sync, listener
<1>1. Fields'
  <2>1. seq' \in 0 .. LastSeq /\ cursor' \in 0 .. seq'
    BY DepthStreamAssumption DEF Core, Fields
  <2> QED BY <2>1 DEF Core, Fields
<1>2. Phases' /\ Requests' /\ Books' /\ Heads'
  BY DEF Core, Phases, Requests, Books, Heads, Connected
<1>3. Supervised'
  BY DEF Core, Supervised, LiveStatusTruthful
<1> QED BY <1>1, <1>2, <1>3 DEF Core

(* The events that DepthMessage takes from the exchange. *)
LEMMA MessageOfExchange ==
  ASSUME NEW f \in Framings
  PROVE  LET u == EventAfter[f] IN
         /\ u \in Payloads /\ DamagedUpdate(u) \in Payloads
         /\ u.end = f.end /\ DamagedUpdate(u).end = f.end
         /\ f.from \in Nat /\ f.end \in Nat /\ f.from < f.end
<1> DEFINE u == EventAfter[f]
<1>1. u \in Messages
  BY DEF Messages
<1>2. u = Event(f, f.from)
  BY DEF EventAfter
<1>3. /\ u.end = f.end /\ f.from \in 0 .. LastSeq /\ f.start \in 1 .. LastSeq
      /\ f.start > f.from /\ f.end \in f.start .. LastSeq
  BY <1>2, FramedShape
<1>4. f.from \in Nat /\ f.end \in Nat /\ f.from < f.end
  BY <1>3, DepthStreamAssumption
<1>5. DamagedUpdate(u) \in Payloads /\ u \in Payloads
  BY <1>1 DEF Payloads
<1>6. DamagedUpdate(u).end = f.end
  <2>1. u \in UpdateType
    BY <1>1, MessageShape
  <2> HIDE DEF u
  <2> QED BY <1>3, <2>1 DEF DamagedUpdate, UpdateType
<1> QED BY <1>3, <1>4, <1>5, <1>6

(* The cases of DepthMessage: a late callback, a payload that is handled,  *)
(* one that is lost or does not parse.                                     *)
LEMMA DepthMessageCases ==
  ASSUME Core, NEW g \in 1 .. gen, DepthMessage(g)
  PROVE  /\ UNCHANGED <<fetching, seq>> /\ cursor' \in cursor .. seq
         /\ \/ ~IsCurrentDepth(g) /\ Skips /\ UNCHANGED replay
            \/ /\ g = gen /\ IsCurrentDepth(gen) /\ "depth" \in opened
               /\ \/ \E u \in Payloads : HandleDepth(u) /\ u.end \in cursor .. cursor'
                                          /\ EmitRawDepth(gen, u)
                  \/ Skips /\ (UNCHANGED replay \/ EmitRawGarbage)
<1> USE DEF Skips
<1>1. cursor \in 0 .. seq /\ seq \in 0 .. LastSeq /\ seq \in Nat
  BY DepthStreamAssumption DEF Core, Fields
<1>2. UNCHANGED <<fetching, seq>>
  BY DEF DepthMessage
<1>3. CASE ~IsCurrentDepth(g)
  BY <1>1, <1>2, <1>3 DEF DepthMessage
<1>4. CASE IsCurrentDepth(g)
  <2> DEFINE Carries(f) ==
               LET u == EventAfter[f]
               IN \/ /\ f.from = cursor /\ cursor' = f.end
                     /\ \/ HandleDepth(u) /\ EmitRawDepth(g, u) /\ UNCHANGED faults
                        \/ /\ HandleDepth(DamagedUpdate(u))
                           /\ EmitRawDepth(g, DamagedUpdate(u)) /\ Fault
                        \/ Fault /\ UNCHANGED <<connection, sync, listener, replay>>
                        \/ Fault /\ EmitRawGarbage /\ UNCHANGED <<connection, sync, listener>>
                  \/ /\ f.end = cursor /\ HandleDepth(u) /\ EmitRawDepth(g, u)
                     /\ Fault /\ UNCHANGED cursor
  <2>1. PICK f \in Framings : f.end <= seq /\ Carries(f)
    BY <1>4 DEF DepthMessage
  <2>2. g = gen /\ "depth" \in opened
    BY <1>4 DEF IsCurrentDepth, DepthMessage
  <2> DEFINE u == EventAfter[f]
  <2>3. /\ u \in Payloads /\ DamagedUpdate(u) \in Payloads
        /\ u.end = f.end /\ DamagedUpdate(u).end = f.end
        /\ f.from \in Nat /\ f.end \in Nat /\ f.from < f.end
    BY MessageOfExchange
  <2> HIDE DEF u
  <2>4. \/ /\ f.from = cursor /\ cursor' = f.end
           /\ \/ HandleDepth(u) /\ EmitRawDepth(g, u)
              \/ HandleDepth(DamagedUpdate(u)) /\ EmitRawDepth(g, DamagedUpdate(u))
              \/ UNCHANGED <<connection, sync, listener, replay>>
              \/ EmitRawGarbage /\ UNCHANGED <<connection, sync, listener>>
        \/ f.end = cursor /\ HandleDepth(u) /\ EmitRawDepth(g, u) /\ UNCHANGED cursor
    BY <2>1 DEF u
  <2>5. cursor' \in cursor .. seq /\ f.end \in cursor .. cursor'
    BY <1>1, <2>1, <2>3, <2>4
  <2> QED BY <1>2, <1>4, <2>2, <2>3, <2>4, <2>5
<1> QED BY <1>3, <1>4

LEMMA DepthMessageKeepsCore ==
  ASSUME Core, NEW g \in 1 .. gen, DepthMessage(g)
  PROVE  Core'
<1>1. /\ UNCHANGED <<fetching, seq>> /\ cursor' \in cursor .. seq
      /\ \/ Skips
         \/ /\ IsCurrentDepth(gen) /\ "depth" \in opened
            /\ \E u \in Payloads : HandleDepth(u) /\ u.end \in cursor .. cursor'
  BY DepthMessageCases
<1>2. CASE Skips
  BY <1>1, <1>2, SkipKeepsCore
<1>3. CASE /\ IsCurrentDepth(gen) /\ "depth" \in opened
           /\ \E u \in Payloads : HandleDepth(u) /\ u.end \in cursor .. cursor'
  BY <1>1, <1>3, MessageKeepsCore
<1> QED BY <1>1, <1>2, <1>3

(* What synchronize() loads of a snapshot that came. *)
Candidate(n) == LoadSnapshot(validator, StreamSnapshot[n])

LEMMA CandidateShape ==
  ASSUME NEW n \in 0 .. LastSeq
  PROVE  /\ SnapshotAcceptable(StreamSnapshot[n]) /\ StreamSnapshot[n].lastUpdateId = n
         /\ Candidate(n) \in FaithfulBooks /\ Candidate(n).loaded /\ ~Candidate(n).bridged
         /\ Candidate(n).digest = NoDigest /\ Candidate(n).updateId = n
         /\ \A b : LoadSnapshot(b, StreamSnapshot[n]) = Candidate(n)
<1> DEFINE c == [bids |-> Truth[n].bids, asks |-> Truth[n].asks, loaded |-> TRUE,
                 bridged |-> FALSE, updateId |-> n, digest |-> NoDigest]
           s == StreamSnapshot[n]
<1>1. /\ Truth[n].bids \in Sides /\ Truth[n].asks \in Sides /\ n \in Nat
      /\ ~Crossed(Truth[n].bids, Truth[n].asks)
  BY DepthStreamAssumption
<1>2. s = [lastUpdateId |-> n, bids |-> SnapshotLevels(Truth[n].bids),
           asks |-> SnapshotLevels(Truth[n].asks)]
  BY DEF StreamSnapshot, SnapshotAt
<1>3. SnapshotAcceptable(s) /\ \A b : LoadSnapshot(b, s) = c /\ LoadSnapshot(b, s) \in BookType
  BY <1>1, <1>2, WholeBookLoads
<1> HIDE DEF s
<1>4. c.loaded = TRUE /\ c.bridged = FALSE /\ c.digest = NoDigest /\ c.updateId = n
      /\ c.bids = Truth[n].bids /\ c.asks = Truth[n].asks
  OBVIOUS
<1>5. Candidate(n) = c /\ c \in BookType
  BY <1>3 DEF Candidate, s
<1> HIDE DEF c
<1>6. c \in FaithfulBooks
  BY <1>4, <1>5 DEF FaithfulBooks, Faithful
<1>7. s.lastUpdateId = n
  BY <1>2
<1> QED BY <1>3, <1>4, <1>5, <1>6, <1>7 DEF s

(* The cases of SnapshotArrives. *)
LEMMA SnapshotArrivesCases ==
  ASSUME Core, NEW r \in fetching, SnapshotArrives(r)
  PROVE  /\ fetching' = fetching \ {r} /\ seq' = seq /\ cursor' = cursor
         /\ \/ ~IsCurrentDepth(r[1]) /\ Skips /\ UNCHANGED replay
            \/ /\ r[1] = gen /\ running
               /\ "depth" \in opened /\ synchronizing /\ reconciliationSnapshot = NoSnapshot
               /\ \A x \in fetching' : x[1] # gen
               /\ \/ \E n \in 0 .. LastSeq :
                       /\ DrainReconciliation(Candidate(n), n, bufferedDepth)
                       /\ replay' = ProjectSnapshot(replay, gen, StreamSnapshot[n])
                  \/ Restart("error") /\ (UNCHANGED replay \/ EmitRawGarbage)
<1> USE DEF Skips, exchange
<1>1. fetching' = fetching \ {r} /\ seq' = seq /\ cursor' = cursor
  BY DEF SnapshotArrives
<1>2. CASE ~IsCurrentDepth(r[1])
  BY <1>1, <1>2 DEF SnapshotArrives
<1>3. CASE IsCurrentDepth(r[1])
  <2>1. /\ r[1] = gen /\ running
        /\ "depth" \in opened /\ synchronizing /\ reconciliationSnapshot = NoSnapshot
    BY <1>3 DEF IsCurrentDepth, Core, Requests
  <2>2. \A x \in fetching' : x[1] # gen
    BY <1>1, <2>1 DEF Core, Requests
  <2>3. \/ \E n \in 0 .. seq :
             /\ DrainReconciliation(Candidate(n), n, bufferedDepth)
             /\ replay' = ProjectSnapshot(replay, r[1], StreamSnapshot[n])
        \/ Restart("error") /\ (UNCHANGED replay \/ EmitRawGarbage)
    BY <1>3 DEF SnapshotArrives, Candidate
  <2>4. 0 .. seq \subseteq 0 .. LastSeq
    BY DepthStreamAssumption DEF Core, Fields
  <2> QED BY <1>1, <2>1, <2>2, <2>3, <2>4
<1> QED BY <1>2, <1>3

LEMMA SnapshotArrivesKeepsCore ==
  ASSUME Core, NEW r \in fetching, SnapshotArrives(r)
  PROVE  Core'
<1>1. /\ fetching' \subseteq fetching /\ seq' = seq /\ cursor' \in cursor .. seq
      /\ mirror.updateId \in Nat /\ cursor \in Nat /\ cursor' = cursor
      /\ bufferedDepth \in Seq(Payloads)
  BY SnapshotArrivesCases DEF Core, Fields, Books, FaithfulBooks, BookType
<1>2. CASE Skips
  BY <1>1, <1>2, SkipKeepsCore
<1>3. CASE running /\ Restart("error")
  BY <1>1, <1>3, RestartKeepsCore
<1>4. ASSUME running, "depth" \in opened, synchronizing, \A x \in fetching' : x[1] # gen,
             NEW n \in 0 .. LastSeq, DrainReconciliation(Candidate(n), n, bufferedDepth)
      PROVE  Core'
  <2>1. /\ Candidate(n) \in FaithfulBooks /\ Candidate(n).loaded /\ ~Candidate(n).bridged
        /\ Candidate(n).digest = NoDigest /\ Candidate(n).updateId = n
    BY CandidateShape
  <2>2. \/ Restart("error") \/ HandsOver(bufferedDepth) \/ KeepsWaiting(Candidate(n), n)
    BY <1>1, <1>4, <2>1, DrainOutcome
  <2>3. CASE Restart("error")
    BY <1>1, <1>4, <2>3, RestartKeepsCore
  <2>4. CASE HandsOver(bufferedDepth)
    <3>1. \A i \in 1 .. Len(bufferedDepth) : bufferedDepth[i].end \in mirror.updateId .. cursor'
      BY <1>1 DEF Core, Heads
    <3> QED BY <1>1, <1>4, <2>4, <3>1, HandOverKeepsCore
  <2>5. CASE KeepsWaiting(Candidate(n), n)
    BY <1>1, <1>4, <2>1, <2>5, WaitKeepsCore
  <2> QED BY <2>2, <2>3, <2>4, <2>5
<1> QED BY <1>2, <1>3, <1>4, SnapshotArrivesCases

LEMMA StepKeepsCore == Core /\ [Next]_vars => Core'
<1> SUFFICES ASSUME Core, [Next]_vars PROVE Core'
  OBVIOUS
<1>0. /\ seq' = seq /\ cursor' = cursor => cursor' \in cursor .. seq
  BY DEF Core, Fields
<1>1. CASE Start
  BY <1>1, StartKeepsCore
<1>2. CASE Stop
  BY <1>2, StopKeepsCore
<1>3. CASE RequestResync
  BY <1>0, <1>3, RestartKeepsCore DEF RequestResync, exchange
<1>4. CASE ReconnectTimerFires
  <2>1. CASE Connect("reconnecting") /\ reconnectTimer' = FALSE
    BY <1>4, <2>1, ConnectKeepsCore DEF ReconnectTimerFires
  <2>2. CASE ConnectThrows
    BY <1>4, <2>2, ConnectThrowsKeepsCore DEF ReconnectTimerFires
  <2> QED BY <1>4, <2>1, <2>2 DEF ReconnectTimerFires
<1>5. CASE HealthTick
  BY <1>0, <1>5, RestartKeepsCore DEF HealthTick, exchange
<1>6. ASSUME NEW g \in 1 .. gen, DepthOpen(g) PROVE Core'
  BY <1>6, DepthOpenKeepsCore
<1>7. ASSUME NEW g \in 1 .. gen, TradeOpen(g) PROVE Core'
  BY <1>7, TradeOpenKeepsCore
<1>8. ASSUME NEW g \in 1 .. gen, SocketClose(g) PROVE Core'
  <2>1. /\ fetching' \subseteq fetching /\ seq' = seq /\ cursor' \in cursor .. seq
    BY <1>0, <1>8 DEF SocketClose, exchange
  <2>2. CASE IsCurrentDepth(g) \/ IsCurrentTrade(g)
    BY <1>8, <2>1, <2>2, RestartKeepsCore DEF SocketClose, IsCurrentDepth, IsCurrentTrade
  <2>3. CASE ~(IsCurrentDepth(g) \/ IsCurrentTrade(g))
    BY <1>8, <2>1, <2>3, SkipKeepsCore DEF SocketClose, Skips
  <2> QED BY <2>2, <2>3
<1>9. ASSUME NEW g \in 1 .. gen, DepthMessage(g) PROVE Core'
  BY <1>9, DepthMessageKeepsCore
<1>10. ASSUME NEW r \in fetching, SnapshotArrives(r) PROVE Core'
  BY <1>10, SnapshotArrivesKeepsCore
<1>11. CASE Change
  BY <1>11, ChangeKeepsCore
<1>12. ASSUME NEW s \in Streams, Stall(s) PROVE Core'
  BY <1>12, StallKeepsCore
<1>13. CASE UNCHANGED vars
  <2>1. Skips /\ fetching' \subseteq fetching /\ seq' = seq /\ cursor' = cursor
    BY <1>13 DEF vars, Skips, exchange
  <2> QED BY <1>0, <2>1, SkipKeepsCore
<1> QED BY <1>1, <1>2, <1>3, <1>4, <1>5, <1>6, <1>7, <1>8, <1>9, <1>10, <1>11, <1>12, <1>13
        DEF Next

-----------------------------------------------------------------------------
(* The theorems. *)

(* The invariant the others rest on. *)
THEOREM FeedInvariant == Spec => []Core
BY InitCore, StepKeepsCore, PTL DEF Spec

(* A running feed always has something that will wake it, and never claims *)
(* to be live without a reconciled book and two open sockets behind it.    *)
THEOREM FeedSupervised == Spec => []Supervised
BY FeedInvariant, PTL DEF Core

(* The listener's book is the exchange's at the feed's own sequence        *)
(* number, from the handoff to the restart, for every history.             *)
THEOREM FeedTracksExchange == Spec => []ListenerTracksExchange
<1>1. Core => ListenerTracksExchange
  BY DEF Core, Books, ListenerTracksExchange, FaithfulBooks, Faithful
<1> QED BY <1>1, FeedInvariant, PTL

-----------------------------------------------------------------------------
(* The contract: what a step of the feed is to its owner. *)

OwnerStep == Contract!Next \/ UNCHANGED Contract!feedVars

LEMMA RestartIsDrop ==
  ASSUME running, NEW state \in {"syncing", "reconnecting", "error"}, Restart(state)
  PROVE  OwnerStep
<1>1. Contract!Drop(state)
  BY DEF Restart, DropConnection, ResetConnectionState, EmitStatus, listener, Contract!Drop,
         Contract!Status, Contract!BookLost
<1>2. state \in Contract!DropStates
  BY DEF Contract!DropStates
<1> QED BY <1>1, <1>2 DEF OwnerStep, Contract!Next

LEMMA HandOverIsHandOver ==
  ASSUME Core, running, "depth" \in opened, synchronizing, NEW q \in Seq(Payloads),
         \A i \in 1 .. Len(q) : q[i].end \in mirror.updateId .. cursor', cursor' \in Nat,
         HandsOver(q)
  PROVE  OwnerStep
<1> DEFINE n == mirror'.updateId
<1>1. Contract!Opening /\ ~live
  BY DEF Core, Fields, Supervised, LiveStatusTruthful, Phases, Connected, Contract!Opening
<1>2. mirror' \in FaithfulBooks /\ mirror'.loaded
  BY DEF HandsOver
<1>3. n \in 0 .. LastSeq
  BY <1>2 DEF FaithfulBooks, Faithful
<1>4. n >= mirror.updateId
  <2>1. PICK i \in 1 .. Len(q) : n = q[i].end
    BY DEF HandsOver
  <2>2. q[i].end \in mirror.updateId .. cursor' /\ mirror.updateId \in Nat
    BY DEF Core, Books, FaithfulBooks, BookType
  <2> QED BY <2>1, <2>2
<1>5. /\ UNCHANGED <<running, gen, reconnectTimer>> /\ reconciliationReady' = TRUE
      /\ \/ live' = TRUE /\ status' = [state |-> "live", session |-> gen]
         \/ UNCHANGED <<live, status>>
  BY DEF HandsOver, connection, MaybeBecomeLive, EmitStatus
<1>6. Contract!HandOver(n) \/ Contract!HandOverLive(n)
  BY <1>1, <1>4, <1>5 DEF Contract!HandOver, Contract!HandOverLive, Contract!Status
<1> QED BY <1>3, <1>6 DEF OwnerStep, Contract!Next

LEMMA QuietIsStutter ==
  ASSUME UNCHANGED <<connection, reconciliationReady, live, status, mirror>>
  PROVE  OwnerStep
BY DEF OwnerStep, connection, Contract!feedVars

LEMMA DeliverIsDeliver ==
  ASSUME Core, NEW u \in Payloads, "depth" \in opened, Delivers(u)
  PROVE  OwnerStep
<1>1. reconciliationReady
  BY DEF Core, Delivers, Phases, Connected
<1>2. u.end \in 0 .. LastSeq
  BY DEF Delivers, FaithfulBooks, Faithful
<1>3. Contract!Deliver(u.end)
  BY <1>1 DEF Delivers, connection, Contract!Deliver
<1> QED BY <1>2, <1>3 DEF OwnerStep, Contract!Next

LEMMA RefusalIsRefused ==
  ASSUME Core, NEW u \in Payloads, "depth" \in opened, Refuses(u)
  PROVE  OwnerStep
<1>1. reconciliationReady
  BY DEF Core, Refuses, Phases, Connected
<1>2. Contract!Refused(u.end)
  BY <1>1 DEF Refuses, DropConnection, ResetConnectionState, EmitStatus, Contract!Refused,
              Contract!Status
<1> QED BY <1>2 DEF Refuses, OwnerStep, Contract!Next

LEMMA MessageIsOwnerStep ==
  ASSUME Core, NEW g \in 1 .. gen, DepthMessage(g)
  PROVE  OwnerStep
<1>1. CASE Skips
  BY <1>1, QuietIsStutter DEF Skips, sync, listener
<1>2. ASSUME IsCurrentDepth(gen), "depth" \in opened, NEW u \in Payloads, HandleDepth(u),
             u.end \in cursor .. cursor', cursor' \in cursor .. seq
      PROVE  OwnerStep
  <2> DEFINE q == Append(bufferedDepth, u)
  <2>1. running
    BY <1>2 DEF IsCurrentDepth
  <2>2. /\ mirror.updateId \in Nat /\ cursor \in Nat /\ cursor' \in Nat
        /\ mirror.updateId <= cursor /\ cursor <= cursor'
        /\ bufferedDepth \in Seq(Payloads)
    BY <1>2 DEF Core, Books, Fields, Heads, FaithfulBooks, BookType
  <2>3. q \in Seq(Payloads) /\ \A i \in 1 .. Len(q) : q[i].end \in mirror.updateId .. cursor'
    BY <1>2, <2>2, QueueAhead
  <2> HIDE DEF q
  <2>4. CASE \E state \in {"syncing", "error"} : Restart(state)
    BY <2>1, <2>4, RestartIsDrop
  <2>5. CASE synchronizing /\ HandsOver(q)
    BY <1>2, <2>1, <2>2, <2>3, <2>5, HandOverIsHandOver
  <2>6. CASE KeepsWaiting(validator, reconciliationSnapshot) \/ Buffers(u) \/ Skips
    BY <2>6, QuietIsStutter DEF KeepsWaiting, Buffers, Skips, sync, listener
  <2>7. CASE Delivers(u)
    BY <1>2, <2>7, DeliverIsDeliver
  <2>8. CASE Refuses(u)
    BY <1>2, <2>8, RefusalIsRefused
  <2> QED BY <1>2, <2>4, <2>5, <2>6, <2>7, <2>8, HandleDepthOutcome DEF q
<1> QED BY <1>1, <1>2, DepthMessageCases

LEMMA SnapshotIsOwnerStep ==
  ASSUME Core, NEW r \in fetching, SnapshotArrives(r)
  PROVE  OwnerStep
<1>1. CASE Skips
  BY <1>1, QuietIsStutter DEF Skips, sync, listener
<1>2. CASE running /\ Restart("error")
  BY <1>2, RestartIsDrop
<1>3. ASSUME running, "depth" \in opened, synchronizing, cursor' = cursor,
             NEW n \in 0 .. LastSeq, DrainReconciliation(Candidate(n), n, bufferedDepth)
      PROVE  OwnerStep
  <2>1. /\ Candidate(n) \in FaithfulBooks /\ Candidate(n).loaded /\ ~Candidate(n).bridged
        /\ Candidate(n).digest = NoDigest
    BY CandidateShape
  <2>2. /\ bufferedDepth \in Seq(Payloads) /\ cursor' \in Nat
        /\ \A i \in 1 .. Len(bufferedDepth) :
             bufferedDepth[i].end \in mirror.updateId .. cursor'
    BY <1>3 DEF Core, Fields, Heads
  <2>3. Restart("error") \/ HandsOver(bufferedDepth) \/ KeepsWaiting(Candidate(n), n)
    BY <1>3, <2>1, <2>2, DrainOutcome
  <2>4. CASE Restart("error")
    BY <1>3, <2>4, RestartIsDrop
  <2>5. CASE HandsOver(bufferedDepth)
    BY <1>3, <2>2, <2>5, HandOverIsHandOver
  <2>6. CASE KeepsWaiting(Candidate(n), n)
    BY <2>6, QuietIsStutter DEF KeepsWaiting, listener
  <2> QED BY <2>3, <2>4, <2>5, <2>6
<1> QED BY <1>1, <1>2, <1>3, SnapshotArrivesCases

LEMMA EveryStepIsOwnerStep == Core /\ [Next]_vars => OwnerStep
<1> SUFFICES ASSUME Core, [Next]_vars PROVE OwnerStep
  OBVIOUS
<1> USE DEF exchange, listener
<1>1. CASE Start
  <2>1. CASE Connect("connecting") /\ UNCHANGED reconnectTimer
    <3>1. reconnectTimer = FALSE
      BY <1>1 DEF Core, Fields, Supervised, Start
    <3>2. Contract!Start
      BY <1>1, <2>1, <3>1 DEF Start, Connect, ResetConnectionState, EmitStatus, Contract!Start,
           Contract!Connect, Contract!Status, Contract!BookLost
    <3> QED BY <3>2 DEF OwnerStep, Contract!Next
  <2>2. CASE ConnectThrows
    <3>1. Contract!StartFails
      BY <1>1, <2>2 DEF Start, ConnectThrows, ResetConnectionState, EmitStatus,
           Contract!StartFails, Contract!ConnectFails, Contract!Status, Contract!BookLost
    <3> QED BY <3>1 DEF OwnerStep, Contract!Next
  <2> QED BY <1>1, <2>1, <2>2 DEF Start
<1>2. CASE Stop
  <2>1. Contract!Stop
    BY <1>2 DEF Stop, ResetConnectionState, Contract!Stop, Contract!BookLost
  <2> QED BY <2>1 DEF OwnerStep, Contract!Next
<1>3. CASE RequestResync
  BY <1>3, RestartIsDrop DEF RequestResync
<1>4. CASE ReconnectTimerFires
  <2>1. CASE Connect("reconnecting") /\ reconnectTimer' = FALSE
    <3>1. Contract!Reconnect
      BY <1>4, <2>1 DEF ReconnectTimerFires, Connect, ResetConnectionState, EmitStatus,
           Contract!Reconnect, Contract!Connect, Contract!Status, Contract!BookLost
    <3> QED BY <3>1 DEF OwnerStep, Contract!Next
  <2>2. CASE ConnectThrows
    <3>1. Contract!ReconnectFails
      BY <1>4, <2>2 DEF ReconnectTimerFires, ConnectThrows, ResetConnectionState, EmitStatus,
           Contract!ReconnectFails, Contract!ConnectFails, Contract!Status, Contract!BookLost
    <3> QED BY <3>1 DEF OwnerStep, Contract!Next
  <2> QED BY <1>4, <2>1, <2>2 DEF ReconnectTimerFires
<1>5. CASE HealthTick
  BY <1>5, RestartIsDrop DEF HealthTick
<1>6. ASSUME NEW g \in 1 .. gen, DepthOpen(g) PROVE OwnerStep
  <2>1. CASE ~IsCurrentDepth(g)
    BY <1>6, <2>1, QuietIsStutter DEF DepthOpen, connection
  <2>2. CASE IsCurrentDepth(g)
    <3>1. /\ g = gen /\ running /\ depthSocket = gen /\ gen # 0 /\ "depth" \notin opened
      BY <1>6, <2>2 DEF DepthOpen, IsCurrentDepth, Core, Fields
    <3>2. Connected /\ status.state \in {"connecting", "reconnecting"}
      BY <3>1 DEF Core, Fields, Supervised, Phases, Connected, None
    <3>3. Contract!Opened
      BY <1>6, <2>2, <3>1, <3>2 DEF DepthOpen, EmitStatus, Connected, Contract!Opened,
           Contract!Status
    <3> QED BY <3>3 DEF OwnerStep, Contract!Next
  <2> QED BY <2>1, <2>2
<1>7. ASSUME NEW g \in 1 .. gen, TradeOpen(g) PROVE OwnerStep
  <2>1. UNCHANGED <<running, gen, reconnectTimer, reconciliationReady, mirror>>
    BY <1>7 DEF TradeOpen
  <2>2. CASE UNCHANGED <<live, status>>
    BY <2>1, <2>2 DEF OwnerStep, Contract!feedVars
  <2>3. CASE ~UNCHANGED <<live, status>>
    <3>1. Contract!GoLive
      BY <1>7, <2>1, <2>3 DEF TradeOpen, MaybeBecomeLive, EmitStatus, Contract!GoLive,
           Contract!Status
    <3> QED BY <3>1 DEF OwnerStep, Contract!Next
  <2> QED BY <2>2, <2>3
<1>8. ASSUME NEW g \in 1 .. gen, SocketClose(g) PROVE OwnerStep
  <2>1. CASE IsCurrentDepth(g) \/ IsCurrentTrade(g)
    BY <1>8, <2>1, RestartIsDrop DEF SocketClose, IsCurrentDepth, IsCurrentTrade
  <2>2. CASE ~(IsCurrentDepth(g) \/ IsCurrentTrade(g))
    BY <1>8, <2>2, QuietIsStutter DEF SocketClose, sync
  <2> QED BY <2>1, <2>2
<1>9. ASSUME NEW g \in 1 .. gen, DepthMessage(g) PROVE OwnerStep
  BY <1>9, MessageIsOwnerStep
<1>10. ASSUME NEW r \in fetching, SnapshotArrives(r) PROVE OwnerStep
  BY <1>10, SnapshotIsOwnerStep
<1>11. CASE Change
  BY <1>11, QuietIsStutter DEF Change, sync
<1>12. ASSUME NEW s \in Streams, Stall(s) PROVE OwnerStep
  BY <1>12 DEF Stall, sync, OwnerStep, Contract!feedVars
<1>13. CASE UNCHANGED vars
  BY <1>13, QuietIsStutter DEF vars, sync
<1> QED BY <1>1, <1>2, <1>3, <1>4, <1>5, <1>6, <1>7, <1>8, <1>9, <1>10, <1>11, <1>12, <1>13
        DEF Next

(* The feed implements the contract its owner relies on: statuses under    *)
(* rising generations, one hand-over a connection, contiguous deliveries   *)
(* that never go back, whatever is lost, repeated, damaged or late.        *)
THEOREM FeedImplementsDepthFeed == Spec => ImplementsDepthFeed
<1>1. Init => Contract!Init
  BY DEF Init, EmptyBook, Contract!Init, Contract!Status
<1>2. Core /\ [Next]_vars => [Contract!Next]_Contract!feedVars
  BY EveryStepIsOwnerStep DEF OwnerStep
<1> QED BY <1>1, <1>2, FeedInvariant, PTL DEF Spec, ImplementsDepthFeed, Contract!Spec

-----------------------------------------------------------------------------
(* The capture.  projectRawCapture() drains the buffer with the events'    *)
(* end alone, drainReconciliation() stops at the first refusal: the two    *)
(* agree as long as nothing is refused.                                    *)

Replayed(from, c, q) == FoldLeft(LAMBDA book, u : DrainBuffered(from, book, u), c, q)

LEMMA DrainBufferedFaithful ==
  ASSUME NEW from \in 0 .. LastSeq, NEW c \in FaithfulBooks, NEW u \in Payloads
  PROVE  DrainBuffered(from, c, u) \in FaithfulBooks
BY PayloadOnFaithfulBook DEF DrainBuffered, FaithfulBooks

LEMMA ReplayPrefixes ==
  ASSUME NEW from \in 0 .. LastSeq, NEW q \in Seq(Payloads), NEW base \in FaithfulBooks
  PROVE  \E a \in [0 .. Len(q) -> FaithfulBooks] :
           /\ a[0] = base
           /\ \A k \in 1 .. Len(q) : a[k] = DrainBuffered(from, a[k - 1], q[k])
           /\ Replayed(from, base, q) = a[Len(q)]
<1> DEFINE n == Len(q)
           step == [k \in 1 .. n |-> [c \in FaithfulBooks |-> DrainBuffered(from, c, q[k])]]
           h == CHOOSE f : f = [s \in SUBSET (DOMAIN q) |->
                                  IF s = {} THEN base
                                  ELSE DrainBuffered(from, f[s \ {Max(s)}], q[Max(s)])]
<1>1. n \in Nat /\ DOMAIN q = 1 .. n /\ \A k \in 1 .. n : q[k] \in Payloads
  OBVIOUS
<1>2. step \in [1 .. n -> [FaithfulBooks -> FaithfulBooks]]
  BY <1>1, DrainBufferedFaithful
<1>3. PICK g \in [SUBSET (1 .. n) -> FaithfulBooks] :
        \A s \in SUBSET (1 .. n) :
          g[s] = IF s = {} THEN base ELSE step[Max(s)][g[s \ {Max(s)}]]
  <2> HIDE DEF n, step, h
  <2>1. Recursion(n, FaithfulBooks, base, step)
    BY <1>1, <1>2, FoldRecursion
  <2> QED BY <2>1 DEF Recursion
<1>4. \A s \in SUBSET (1 .. n) : s # {} => Max(s) \in 1 .. n
  <2> HIDE DEF n
  <2> QED BY <1>1, GreatestElement
<1>5. g = [s \in SUBSET (DOMAIN q) |->
             IF s = {} THEN base ELSE DrainBuffered(from, g[s \ {Max(s)}], q[Max(s)])]
  <2>1. ASSUME NEW s \in SUBSET (1 .. n)
        PROVE  g[s] = IF s = {} THEN base
                      ELSE DrainBuffered(from, g[s \ {Max(s)}], q[Max(s)])
    <3>1. s # {} => g[s \ {Max(s)}] \in FaithfulBooks
      BY <1>3
    <3> QED BY <1>3, <1>4, <3>1
  <2> HIDE DEF n
  <2> QED BY <1>1, <1>3, <2>1
<1>6. h = [s \in SUBSET (DOMAIN q) |->
             IF s = {} THEN base ELSE DrainBuffered(from, h[s \ {Max(s)}], q[Max(s)])]
  BY <1>5
<1>7. Replayed(from, base, q) = h[DOMAIN q]
  BY Zenon DEF Replayed, FoldLeft, MapThenFoldSet
<1> HIDE DEF h
<1> DEFINE a == [k \in 0 .. n |-> h[1 .. k]]
           T == {k \in 0 .. n : a[k] \in FaithfulBooks}
<1>8. a[0] = base /\ base \in FaithfulBooks
  <2>1. 1 .. 0 = {} /\ {} \in SUBSET (DOMAIN q) /\ 0 \in 0 .. n
    BY <1>1
  <2>2. h[{}] = base
    BY <1>6, <2>1
  <2> QED BY <2>1, <2>2
<1>9. ASSUME NEW k \in 1 .. n PROVE a[k] = DrainBuffered(from, a[k - 1], q[k])
  <2>1. k \in 0 .. n /\ k - 1 \in 0 .. n
    BY <1>1
  <2>2. /\ 1 .. k \in SUBSET (DOMAIN q) /\ 1 .. k # {}
        /\ Max(1 .. k) = k /\ (1 .. k) \ {k} = 1 .. (k - 1)
    <3> HIDE DEF n
    <3> QED BY <1>1, PrefixSplit
  <2>3. h[1 .. k] = DrainBuffered(from, h[1 .. (k - 1)], q[k])
    BY <1>6, <2>2
  <2> QED BY <2>1, <2>3
<1>10. ASSUME NEW k \in 1 .. n, k - 1 \in T PROVE k \in T
  <2>1. a[k - 1] \in FaithfulBooks /\ q[k] \in Payloads /\ k \in 0 .. n
    BY <1>1, <1>10
  <2>2. a[k] \in FaithfulBooks
    <3> HIDE DEF a
    <3> QED BY <1>9, <2>1, DrainBufferedFaithful
  <2> QED BY <2>1, <2>2
<1>11. 0 .. n \subseteq T
  <2>1. 0 \in T
    BY <1>1, <1>8
  <2> HIDE DEF T, n
  <2> QED BY <1>1, <1>10, <2>1, IntervalInduction
<1>12. a \in [0 .. n -> FaithfulBooks]
  <2>1. \A k \in 0 .. n : a[k] \in FaithfulBooks
    <3> HIDE DEF a
    <3> QED BY <1>11
  <2> QED BY <2>1
<1>13. Replayed(from, base, q) = a[n]
  BY <1>1, <1>7
<1> HIDE DEF a
<1> QED BY <1>8, <1>9, <1>12, <1>13

(* A drain that refuses nothing leaves what the replay computes. *)
LEMMA DrainReplays ==
  ASSUME NEW from \in 0 .. LastSeq, NEW q \in Seq(Payloads),
         NEW b \in FaithfulBooks, NEW c \in FaithfulBooks, SameBook(b, c),
         Drained(q, b, from).ok
  PROVE  /\ Replayed(from, c, q) \in FaithfulBooks
         /\ SameBook(Drained(q, b, from).book, Replayed(from, c, q))
<1> DEFINE base == [book |-> b, ok |-> TRUE, from |-> from]
           n == Len(q)
<1>1. base \in Drains /\ base.book = b /\ base.from = from
  BY DEF Drains
<1>2. n \in Nat /\ \A k \in 1 .. n : q[k] \in Payloads
  OBVIOUS
<1> HIDE DEF base
<1>3. PICK a \in [0 .. n -> Drains] :
           /\ a[0] = base
           /\ \A k \in 1 .. n : a[k] = DrainOne(a[k - 1], q[k])
           /\ FoldLeft(DrainOne, base, q) = a[n]
  BY <1>1, DrainPrefixes
<1>4. PICK z \in [0 .. n -> FaithfulBooks] :
           /\ z[0] = c
           /\ \A k \in 1 .. n : z[k] = DrainBuffered(from, z[k - 1], q[k])
           /\ Replayed(from, c, q) = z[n]
  BY ReplayPrefixes
<1> DEFINE Agrees(k) == a[k].from = from /\ (a[k].ok => SameBook(a[k].book, z[k]))
           T == {k \in 0 .. n : Agrees(k)}
<1>5. 0 \in T
  BY <1>1, <1>2, <1>3, <1>4
<1>6. ASSUME NEW k \in 1 .. n, k - 1 \in T PROVE k \in T
  <2> HIDE DEF n
  <2> DEFINE d == a[k - 1]
             e == a[k]
             x == z[k - 1]
             r == ApplyUpdate(d.book, q[k])
             w == ApplyUpdate(x, q[k])
  <2>1. d \in Drains /\ x \in FaithfulBooks /\ q[k] \in Payloads /\ k \in 0 .. n
    BY <1>2, <1>3, <1>4
  <2>2. d.from = from /\ (d.ok => SameBook(d.book, x))
    BY <1>6
  <2>3. /\ d.book \in BookType /\ Faithful(d.book) /\ x \in BookType /\ Faithful(x)
        /\ q[k] \in UpdateType /\ q[k].end \in Int /\ from \in Int
    <3> HIDE DEF d, x
    <3>1. d.book \in FaithfulBooks
      BY <2>1 DEF Drains
    <3>2. q[k] \in UpdateType
      BY <2>1, PayloadShape
    <3>3. q[k].end \in Int
      BY <3>2 DEF UpdateType
    <3> QED BY <2>1, <3>1, <3>2, <3>3, DepthStreamAssumption DEF FaithfulBooks
  <2>4. /\ e = DrainOne(d, q[k])
        /\ z[k] = IF q[k].end <= from THEN x ELSE w.book
    BY <1>3, <1>4 DEF DrainBuffered
  <2>5. e.from = from
    <3> HIDE DEF d, e
    <3> QED BY <2>1, <2>2, <2>4 DEF DrainOne, Drains
  <2>6. ASSUME e.ok PROVE SameBook(e.book, z[k])
    <3> HIDE DEF d, e, x
    <3>1. CASE ~d.ok
      BY <2>4, <2>6, <3>1 DEF DrainOne
    <3>2. CASE d.ok /\ q[k].end <= from
      BY <2>2, <2>4, <3>2 DEF DrainOne
    <3>3. CASE d.ok /\ q[k].end > from /\ r.status = "applied"
      <4>1. w.status = "applied" /\ SameBook(r.book, w.book)
        BY <2>2, <2>3, <3>3, SameBookTakesTheSame
      <4>2. e.book = r.book
        BY <2>1, <2>2, <2>3, <2>4, <3>3 DEF DrainOne, Drains
      <4> QED BY <2>3, <2>4, <3>3, <4>1, <4>2
    <3>4. CASE d.ok /\ q[k].end > from /\ r.status = "ignored"
      <4>1. e = d
        BY <2>4, <3>4 DEF DrainOne
      <4>2. SameBook(x, d.book)
        BY <2>2, <3>4 DEF SameBook
      <4>3. w.status # "applied"
        BY <2>3, <3>4, <4>2, SameBookTakesTheSame
      <4>4. w.book = x
        BY <2>1, <2>3, <4>3, PayloadOnFaithfulBook
      <4> QED BY <2>2, <2>3, <2>4, <3>4, <4>1, <4>4
    <3>5. CASE d.ok /\ q[k].end > from /\ r.status \notin {"applied", "ignored"}
      <4>1. e = [d EXCEPT !.book = r.book, !.ok = (r.status = "applied")]
        BY <2>2, <2>3, <2>4, <3>5 DEF DrainOne
      <4>2. e = [d EXCEPT !.book = r.book, !.ok = FALSE]
        BY <3>5, <4>1
      <4> HIDE DEF r
      <4>3. e.ok = FALSE
        BY <2>1, <4>2 DEF Drains
      <4> QED BY <2>6, <4>3
    <3> QED BY <2>3, <3>1, <3>2, <3>3, <3>4, <3>5
  <2>7. Agrees(k)
    BY <2>5, <2>6
  <2> QED BY <2>1, <2>7
<1>7. n \in T
  <2>1. n \in Nat
    BY <1>2
  <2> HIDE DEF T, n
  <2>2. 0 .. n \subseteq T
    BY <2>1, <1>5, <1>6, IntervalInduction
  <2> QED BY <2>1, <2>2
<1>8. a[n].ok => SameBook(a[n].book, z[n])
  BY <1>7
<1>9. Drained(q, b, from) = a[n] /\ z[n] \in FaithfulBooks
  BY <1>2, <1>3, <1>4 DEF Drained, base
<1> QED BY <1>4, <1>8, <1>9

(* Both books after the same payload. *)
LEMMA SameBookStaysTheSame ==
  ASSUME NEW b \in FaithfulBooks, NEW c \in FaithfulBooks, SameBook(b, c), NEW u \in Payloads
  PROVE  /\ ApplyUpdate(c, u).book \in FaithfulBooks
         /\ SameBook(ApplyUpdate(b, u).book, ApplyUpdate(c, u).book)
<1>1. /\ b \in BookType /\ Faithful(b) /\ c \in BookType /\ Faithful(c) /\ SameBook(c, b)
      /\ u \in UpdateType
  BY PayloadShape DEF FaithfulBooks, SameBook
<1>2. ApplyUpdate(c, u).book \in FaithfulBooks
  BY <1>1, PayloadOnFaithfulBook DEF FaithfulBooks
<1>3. CASE ApplyUpdate(b, u).status = "applied"
  BY <1>1, <1>2, <1>3, SameBookTakesTheSame
<1>4. CASE ApplyUpdate(b, u).status # "applied"
  <2>1. ApplyUpdate(c, u).status # "applied"
    BY <1>1, <1>4, SameBookTakesTheSame
  <2>2. ApplyUpdate(b, u).book = b /\ ApplyUpdate(c, u).book = c
    BY <1>1, <1>4, <2>1, PayloadOnFaithfulBook
  <2> QED BY <1>2, <2>2
<1> QED BY <1>3, <1>4

(* The projection of the capture. *)
Projections == [book : FaithfulBooks, active : Nat, waiting : Nat, pending : Seq(Payloads),
                broken : BOOLEAN]

LEMMA BrokenProjection ==
  /\ EmptyProjection \in Projections /\ Broken \in Projections
  /\ Broken.broken /\ EmptyProjection.active = 0 /\ EmptyProjection.waiting = 0
<1>1. ASSUME NEW broken \in BOOLEAN
      PROVE  /\ Projection(EmptyBook, NoConnection, broken) \in Projections
             /\ Projection(EmptyBook, NoConnection, broken).active = 0
             /\ Projection(EmptyBook, NoConnection, broken).waiting = 0
  BY EmptyBookFaithful DEF Projection, Projections, NoConnection
<1>2. Broken.broken
  BY DEF Broken, Projection
<1> QED BY <1>1, <1>2 DEF EmptyProjection, Broken

DepthProjected(p, conn, u, r) ==
  /\ r \in Projections
  /\ \/ r.broken
     \/ /\ ~p.broken /\ p.book.loaded /\ conn = p.active
        /\ r.book = ApplyUpdate(p.book, u).book
        /\ r.active = p.active /\ r.waiting = p.waiting /\ r.pending = p.pending
     \/ /\ ~p.broken /\ Waits(p, conn)
        /\ r.book = p.book /\ r.active = p.active
        /\ r.waiting = conn /\ r.pending = Append(Buffered(p, conn), u)

LEMMA ProjectDepthShape ==
  ASSUME NEW p \in Projections, NEW conn \in Nat, NEW u \in Payloads, NEW limit
  PROVE  DepthProjected(p, conn, u, ProjectDepth(p, conn, u, limit))
<1> DEFINE r == ProjectDepth(p, conn, u, limit)
           b == ApplyUpdate(p.book, u).book
           q == Append(Buffered(p, conn), u)
<1>1. /\ p.book \in FaithfulBooks /\ p.active \in Nat /\ p.waiting \in Nat
      /\ p.pending \in Seq(Payloads)
  BY DEF Projections
<1>2. b \in FaithfulBooks
  BY <1>1, PayloadOnFaithfulBook DEF FaithfulBooks
<1>3. q \in Seq(Payloads)
  BY <1>1 DEF Buffered
<1>4. CASE p.broken
  BY <1>4 DEF ProjectDepth, DepthProjected
<1>5. CASE ~p.broken /\ ~Waits(p, conn)
  <2> HIDE DEF r, b
  <2>1. r = [p EXCEPT !.book = b]
    BY <1>5 DEF ProjectDepth, r, b
  <2>2. r = [book |-> b, active |-> p.active, waiting |-> p.waiting, pending |-> p.pending,
             broken |-> p.broken]
    BY <2>1 DEF Projections
  <2>3. p.broken \in BOOLEAN
    BY DEF Projections
  <2>4. r \in Projections
    BY <1>1, <1>2, <2>2, <2>3 DEF Projections
  <2>5. r.book = b /\ r.active = p.active /\ r.waiting = p.waiting /\ r.pending = p.pending
    BY <2>2
  <2>6. p.book.loaded /\ conn = p.active
    BY <1>5 DEF Waits
  <2> QED BY <1>5, <2>4, <2>5, <2>6 DEF DepthProjected, r, b
<1>6. CASE ~p.broken /\ Waits(p, conn) /\ r = Broken
  BY <1>6, BrokenProjection DEF ProjectDepth, DepthProjected
<1>7. CASE ~p.broken /\ Waits(p, conn) /\ r # Broken
  <2> HIDE DEF r, q
  <2>1. r = [p EXCEPT !.waiting = conn, !.pending = q]
    BY <1>7 DEF ProjectDepth, r, q
  <2>2. r = [book |-> p.book, active |-> p.active, waiting |-> conn, pending |-> q,
             broken |-> p.broken]
    BY <2>1 DEF Projections
  <2>3. p.broken \in BOOLEAN
    BY DEF Projections
  <2>4. r \in Projections
    BY <1>1, <1>3, <2>2, <2>3 DEF Projections
  <2>5. r.book = p.book /\ r.active = p.active /\ r.waiting = conn /\ r.pending = q
    BY <2>2
  <2> QED BY <1>7, <2>4, <2>5 DEF DepthProjected, r, q
<1> QED BY <1>4, <1>5, <1>6, <1>7

LEMMA ProjectSnapshotShape ==
  ASSUME NEW p \in Projections, NEW conn \in Nat, NEW n \in 0 .. LastSeq
  PROVE  LET r == ProjectSnapshot(p, conn, StreamSnapshot[n]) IN
         /\ r \in Projections
         /\ \/ r.broken
            \/ /\ ~p.broken /\ r.active = conn /\ r.waiting = 0
               /\ r.book = Replayed(n, Candidate(n), Buffered(p, conn))
<1> DEFINE s == StreamSnapshot[n]
           r == ProjectSnapshot(p, conn, s)
           b == Replayed(s.lastUpdateId, LoadSnapshot(p.book, s), Buffered(p, conn))
<1>1. /\ SnapshotAcceptable(s) /\ s.lastUpdateId = n
      /\ LoadSnapshot(p.book, s) = Candidate(n) /\ Candidate(n) \in FaithfulBooks
  BY CandidateShape
<1>2. Buffered(p, conn) \in Seq(Payloads)
  BY DEF Buffered, Projections
<1>3. b = Replayed(n, Candidate(n), Buffered(p, conn))
  BY <1>1
<1>4. b \in FaithfulBooks
  <2> DEFINE q == Buffered(p, conn)
  <2> HIDE DEF b, q
  <2>1. PICK a \in [0 .. Len(q) -> FaithfulBooks] :
          Replayed(n, Candidate(n), q) = a[Len(q)]
    BY <1>1, <1>2, ReplayPrefixes DEF q
  <2>2. Len(q) \in 0 .. Len(q)
    BY <1>2 DEF q
  <2> QED BY <1>3, <2>1, <2>2 DEF q
<1>5. CASE p.broken
  BY <1>5, BrokenProjection DEF ProjectSnapshot
<1>6. CASE ~p.broken
  <2>1. r = [book |-> b, active |-> conn, waiting |-> 0, pending |-> <<>>, broken |-> FALSE]
    <3>1. r = IF p.broken \/ ~SnapshotAcceptable(s) THEN Broken ELSE Projection(b, conn, FALSE)
      BY Zenon DEF ProjectSnapshot, Replayed
    <3> HIDE DEF r, b
    <3> QED BY <1>1, <1>6, <3>1 DEF Projection, NoConnection
  <2> HIDE DEF r, b
  <2>2. r \in Projections
    BY <1>4, <2>1 DEF Projections
  <2>3. r.book = b /\ r.active = conn /\ r.waiting = 0
    BY <2>1
  <2> QED BY <1>3, <1>6, <2>2, <2>3 DEF r
<1> QED BY <1>5, <1>6

(* What a capture holds of the connection: the events buffered while its   *)
(* snapshot is awaited, then the book.                                     *)
Captured ==
  /\ replay \in Projections
  /\ ~replay.broken =>
       /\ replay.active <= gen /\ replay.waiting <= gen
       /\ synchronizing /\ reconciliationSnapshot = NoSnapshot =>
            replay.active # gen /\ Buffered(replay, gen) = bufferedDepth
       /\ reconciliationReady \/ reconciliationSnapshot # NoSnapshot =>
            /\ replay.active = gen /\ replay.book.loaded
            /\ SameBook(replay.book, validator)

Uncaptured ==
  UNCHANGED <<gen, synchronizing, reconciliationReady, reconciliationSnapshot,
              bufferedDepth, validator, replay>>

LEMMA UncapturedKeepsCaptured == Captured /\ Uncaptured => Captured'
BY DEF Captured, Uncaptured

LEMMA BrokenIsCaptured == replay' = Broken => Captured'
BY BrokenProjection DEF Captured

(* A new generation has captured nothing. *)
LEMMA ResetIsCaptured ==
  ASSUME gen \in Nat, gen' \in Nat, gen' > gen, reconciliationSnapshot' = NoSnapshot,
         reconciliationReady' = FALSE, bufferedDepth' = <<>>, replay' \in Projections,
         replay'.broken \/ (replay'.active <= gen /\ replay'.waiting <= gen)
  PROVE  Captured'
<1> DEFINE r == replay'
<1>1. r.active \in Nat /\ r.waiting \in Nat
  BY DEF Projections
<1>2. CASE r.broken
  BY <1>2 DEF Captured
<1>3. CASE ~r.broken
  <2> HIDE DEF r
  <2>1. /\ r.active <= gen' /\ r.waiting <= gen' /\ r.active # gen' /\ r.waiting # gen'
    BY <1>1, <1>3 DEF r
  <2>2. Buffered(r, gen') = <<>>
    BY <2>1 DEF Buffered
  <2> QED BY <2>1, <2>2 DEF Captured, r
<1> QED BY <1>2, <1>3

LEMMA RestartIsCaptured ==
  ASSUME Core, NEW state, DropConnection(state), replay' \in Projections,
         replay'.broken \/ (replay'.active <= gen /\ replay'.waiting <= gen)
  PROVE  Captured'
<1>1. gen \in Nat
  BY DEF Core, Fields
<1>2. gen' = gen + 1
  BY DEF DropConnection
<1>3. gen' \in Nat /\ gen' > gen
  BY <1>1, <1>2
<1>4. /\ reconciliationSnapshot' = NoSnapshot /\ reconciliationReady' = FALSE
      /\ bufferedDepth' = <<>>
  BY DEF DropConnection, ResetConnectionState
<1> QED BY <1>1, <1>3, <1>4, ResetIsCaptured

(* What the reconciliation leaves is what its drain computed. *)
LEMMA DrainLeaves ==
  ASSUME NEW q \in Seq(Payloads), NEW b \in FaithfulBooks, NEW from \in 0 .. LastSeq,
         b.loaded, b.digest = NoDigest, ~b.bridged, synchronizing,
         DrainReconciliation(b, from, q)
  PROVE  \/ Restart("error")
         \/ LET d == Drained(q, b, from) IN
            /\ d.ok /\ d.book \in FaithfulBooks /\ d.book.loaded
            /\ gen' = gen /\ SameBook(d.book, validator')
            /\ \/ reconciliationSnapshot' = from
               \/ synchronizing' = FALSE
<1> DEFINE d == Drained(q, b, from)
           v == Fingerprinted(d.book)
<1>1. /\ d.book \in FaithfulBooks /\ d.book.loaded /\ d.book.digest = NoDigest
  BY DrainResult
<1>2. \/ Restart("error")
      \/ /\ d.ok /\ gen' = gen
         /\ \/ validator' = v /\ synchronizing' = FALSE
            \/ validator' = d.book /\ reconciliationSnapshot' = from
  BY DEF DrainReconciliation, Drained, connection
<1> HIDE DEF d, v
<1>3. SameBook(d.book, v)
  BY <1>1, FingerprintedShape DEF FaithfulBooks, SameBook, v
<1>4. SameBook(d.book, d.book)
  BY DEF SameBook
<1>5. CASE Restart("error")
  BY <1>5
<1>6. CASE d.ok /\ gen' = gen /\ validator' = v /\ synchronizing' = FALSE
  BY <1>1, <1>3, <1>6 DEF d
<1>7. CASE d.ok /\ gen' = gen /\ validator' = d.book /\ reconciliationSnapshot' = from
  BY <1>1, <1>4, <1>7 DEF d
<1> QED BY <1>2, <1>5, <1>6, <1>7

(* One event through the replay of a book that is at from. *)
LEMMA ReplayOne ==
  ASSUME NEW from \in 0 .. LastSeq, NEW c \in FaithfulBooks, c.updateId = from,
         NEW u \in Payloads
  PROVE  Replayed(from, c, <<u>>) = ApplyUpdate(c, u).book
<1> DEFINE q == <<u>>
<1>1. q \in Seq(Payloads) /\ Len(q) = 1 /\ q[1] = u
  OBVIOUS
<1> HIDE DEF q
<1>2. PICK a \in [0 .. Len(q) -> FaithfulBooks] :
           /\ a[0] = c
           /\ \A k \in 1 .. Len(q) : a[k] = DrainBuffered(from, a[k - 1], q[k])
           /\ Replayed(from, c, q) = a[Len(q)]
  BY <1>1, ReplayPrefixes
<1>3. Replayed(from, c, q) = DrainBuffered(from, c, u)
  <2>1. 1 \in 1 .. Len(q) /\ 1 - 1 = 0
    BY <1>1
  <2>2. a[1] = DrainBuffered(from, a[1 - 1], q[1])
    BY <1>2, <2>1
  <2> QED BY <1>1, <1>2, <2>1, <2>2
<1>4. c \in BookType /\ Faithful(c) /\ c.updateId \in Int /\ u.end \in Int
  <2>1. u \in UpdateType
    BY PayloadShape
  <2> QED BY <2>1 DEF FaithfulBooks, BookType, UpdateType
<1>5. u.end <= from => ApplyUpdate(c, u).book = c
  BY <1>4, PayloadOnFaithfulBook
<1> QED BY <1>3, <1>5 DEF DrainBuffered, q

(* A payload that is recorded and handled. *)
LEMMA MessageIsCaptured ==
  ASSUME Core, Captured, IsCurrentDepth(gen), "depth" \in opened,
         NEW u \in Payloads, HandleDepth(u), EmitRawDepth(gen, u)
  PROVE  Captured'
<1> DEFINE r == ProjectDepth(replay, gen, u, MaxBufferedDepth)
<1>0. replay' = r
  BY DEF EmitRawDepth
<1>1. /\ gen \in Nat /\ running /\ Connected
      /\ synchronizing = ~reconciliationReady
      /\ bufferedDepth \in Seq(Payloads)
      /\ synchronizing \in BOOLEAN /\ reconciliationSnapshot \in {NoSnapshot} \cup 0 .. LastSeq
  BY DEF IsCurrentDepth, Core, Fields, Phases, Connected
<1>2. replay \in Projections /\ replay.book \in FaithfulBooks /\ replay.active \in Nat
      /\ replay.waiting \in Nat
  BY DEF Captured, Projections
<1>3. /\ r \in Projections
      /\ \/ r.broken
         \/ /\ ~replay.broken /\ replay.book.loaded /\ gen = replay.active
            /\ r.book = ApplyUpdate(replay.book, u).book
            /\ r.active = replay.active /\ r.waiting = replay.waiting
            /\ r.pending = replay.pending
         \/ /\ ~replay.broken /\ Waits(replay, gen)
            /\ r.book = replay.book /\ r.active = replay.active
            /\ r.waiting = gen /\ r.pending = Append(Buffered(replay, gen), u)
  <2>1. DepthProjected(replay, gen, u, r)
    BY <1>1, <1>2, ProjectDepthShape
  <2> HIDE DEF r
  <2> QED BY <2>1 DEF DepthProjected
<1> HIDE DEF r
<1>4. CASE r.broken
  BY <1>0, <1>3, <1>4 DEF Captured
<1>5. CASE ~r.broken
  <2>1. ~replay.broken /\ replay.active <= gen /\ replay.waiting <= gen
    BY <1>3, <1>5 DEF Captured
  <2>2. r.active <= gen /\ r.waiting <= gen
    BY <1>1, <1>3, <1>5, <2>1
  <2>3. ASSUME NEW state, DropConnection(state) PROVE Captured'
    BY <1>0, <1>3, <2>2, <2>3, RestartIsCaptured
  <2>4. CASE synchronizing /\ BufferFull
    BY <2>3, <2>4 DEF HandleDepth, Restart
  <2>5. CASE synchronizing /\ ~BufferFull /\ reconciliationSnapshot = NoSnapshot
    <3>1. replay.active # gen /\ Buffered(replay, gen) = bufferedDepth
      BY <2>1, <2>5 DEF Captured
    <3>2. /\ r.active = replay.active /\ r.waiting = gen
          /\ r.pending = Append(bufferedDepth, u)
      BY <1>3, <1>5, <3>1
    <3>3. /\ bufferedDepth' = Append(bufferedDepth, u) /\ gen' = gen
          /\ UNCHANGED <<synchronizing, reconciliationReady, reconciliationSnapshot>>
      BY <2>5 DEF HandleDepth, connection
    <3>4. Buffered(r, gen') = bufferedDepth'
      BY <3>2, <3>3 DEF Buffered
    <3>5. ~reconciliationReady' /\ reconciliationSnapshot' = NoSnapshot
      BY <1>1, <2>5, <3>3
    <3> QED BY <1>0, <1>3, <2>2, <3>1, <3>2, <3>3, <3>4, <3>5 DEF Captured
  <2>6. CASE reconciliationReady \/ reconciliationSnapshot # NoSnapshot
    <3> DEFINE w == ApplyUpdate(replay.book, u).book
    <3>1. replay.active = gen /\ replay.book.loaded /\ SameBook(replay.book, validator)
      BY <2>1, <2>6 DEF Captured
    <3>2. r.active = gen /\ r.book = w
      BY <1>3, <1>5, <3>1 DEF Waits
    <3>3. validator \in FaithfulBooks /\ validator.loaded /\ SameBook(validator, replay.book)
      BY <2>6, <3>1 DEF Core, Books, SameBook
    <3>4. w \in FaithfulBooks /\ SameBook(ApplyUpdate(validator, u).book, w)
      BY <1>2, <3>3, SameBookStaysTheSame
    <3>5. w.loaded
      <4>1. /\ replay.book \in BookType /\ Faithful(replay.book)
        BY <1>2 DEF FaithfulBooks
      <4> QED BY <3>1, <4>1, PayloadOnFaithfulBook
    <3> HIDE DEF w
    <3>6. ASSUME gen' = gen, SameBook(validator', w),
                 ~synchronizing' \/ reconciliationSnapshot' # NoSnapshot
          PROVE  Captured'
      <4>1. SameBook(w, validator')
        BY <3>6 DEF SameBook
      <4> QED BY <1>0, <1>3, <2>2, <3>2, <3>5, <3>6, <4>1 DEF Captured
    <3>7. CASE ~synchronizing
      <4>1. \/ DropConnection("syncing")
            \/ /\ validator' = ApplyUpdate(validator, u).book
               /\ gen' = gen /\ synchronizing' = synchronizing
        BY <3>7 DEF HandleDepth, EmitDepth, Restart, connection
      <4> QED BY <2>3, <3>4, <3>6, <3>7, <4>1
    <3>8. CASE synchronizing /\ ~BufferFull
      <4> DEFINE from == reconciliationSnapshot
                 q == <<u>>
                 d == Drained(q, validator, from)
      <4>1. /\ from \in 0 .. LastSeq /\ from # NoSnapshot /\ bufferedDepth = <<>>
            /\ ~validator.bridged /\ validator.digest = NoDigest
            /\ validator.updateId = from
        BY <1>1, <2>6, <3>8 DEF Core, Books
      <4>2. Append(bufferedDepth, u) = q /\ q \in Seq(Payloads)
        BY <4>1
      <4>3. DrainReconciliation(validator, from, q)
        BY <3>8, <4>1, <4>2 DEF HandleDepth
      <4> HIDE DEF q, d, from
      <4>4. \/ Restart("error")
            \/ /\ d.ok /\ d.book \in FaithfulBooks
               /\ gen' = gen /\ SameBook(d.book, validator')
               /\ reconciliationSnapshot' = from \/ synchronizing' = FALSE
        BY <3>3, <3>8, <4>1, <4>2, <4>3, DrainLeaves DEF d
      <4>5. CASE Restart("error")
        BY <2>3, <4>5 DEF Restart
      <4>6. CASE /\ d.ok /\ gen' = gen /\ SameBook(d.book, validator')
                 /\ reconciliationSnapshot' = from \/ synchronizing' = FALSE
        <5>1. SameBook(d.book, Replayed(from, replay.book, q))
          BY <1>2, <3>3, <4>1, <4>2, <4>6, DrainReplays DEF d
        <5>2. Replayed(from, replay.book, q) = w
          <6>1. replay.book.updateId = from
            BY <3>3, <4>1 DEF SameBook
          <6> QED BY <1>2, <4>1, <6>1, ReplayOne DEF w, q
        <5>3. SameBook(validator', w)
          BY <4>6, <5>1, <5>2 DEF SameBook
        <5> QED BY <3>6, <4>1, <4>6, <5>3
      <4> QED BY <4>4, <4>5, <4>6
    <3> QED BY <1>1, <2>4, <3>7, <3>8
  <2> QED BY <1>1, <2>4, <2>5, <2>6
<1> QED BY <1>4, <1>5

(* The snapshot that is recorded, loaded and drained. *)
LEMMA SnapshotIsCaptured ==
  ASSUME Core, Captured, running, synchronizing, reconciliationSnapshot = NoSnapshot,
         NEW n \in 0 .. LastSeq, DrainReconciliation(Candidate(n), n, bufferedDepth),
         replay' = ProjectSnapshot(replay, gen, StreamSnapshot[n])
  PROVE  Captured'
<1> DEFINE r == replay'
           c == Candidate(n)
           d == Drained(bufferedDepth, c, n)
<1>1. gen \in Nat /\ bufferedDepth \in Seq(Payloads) /\ n # NoSnapshot
  BY DepthStreamAssumption DEF Core, Fields, NoSnapshot
<1>2. /\ c \in FaithfulBooks /\ c.loaded /\ ~c.bridged /\ c.digest = NoDigest
  BY CandidateShape
<1>3. /\ r \in Projections
      /\ \/ r.broken
         \/ /\ ~replay.broken /\ r.active = gen /\ r.waiting = 0
            /\ r.book = Replayed(n, c, Buffered(replay, gen))
  BY <1>1, ProjectSnapshotShape DEF Captured
<1> HIDE DEF r, c, d
<1>4. \/ Restart("error")
      \/ /\ d.ok /\ d.book \in FaithfulBooks /\ d.book.loaded
         /\ gen' = gen /\ SameBook(d.book, validator')
         /\ reconciliationSnapshot' = n \/ synchronizing' = FALSE
  BY <1>1, <1>2, DrainLeaves DEF c, d
<1>5. CASE r.broken
  BY <1>3, <1>5 DEF Captured, r
<1>6. CASE Restart("error")
  BY <1>1, <1>3, <1>6, RestartIsCaptured DEF r, Restart
<1>7. CASE /\ ~r.broken
           /\ d.ok /\ d.book.loaded /\ gen' = gen /\ SameBook(d.book, validator')
           /\ reconciliationSnapshot' = n \/ synchronizing' = FALSE
  <2>1. Buffered(replay, gen) = bufferedDepth
    BY <1>3, <1>7 DEF Captured
  <2>2. r.active = gen /\ r.waiting = 0 /\ r.book = Replayed(n, c, bufferedDepth)
    BY <1>3, <1>7, <2>1
  <2>3. SameBook(c, c)
    BY DEF SameBook
  <2>4. SameBook(d.book, r.book)
    BY <1>1, <1>2, <1>7, <2>2, <2>3, DrainReplays DEF d
  <2>5. SameBook(r.book, validator') /\ r.book.loaded
    BY <1>7, <2>4 DEF SameBook
  <2> QED BY <1>1, <1>3, <1>7, <2>2, <2>5 DEF Captured, r
<1> QED BY <1>3, <1>4, <1>5, <1>6, <1>7

LEMMA InitCaptured == Init => Captured
<1> SUFFICES ASSUME Init PROVE Captured
  OBVIOUS
<1>1. EmptyProjection \in Projections /\ EmptyProjection.active = 0 /\ EmptyProjection.waiting = 0
  BY BrokenProjection
<1>2. replay = EmptyProjection /\ gen = 0 /\ synchronizing = FALSE /\ reconciliationReady = FALSE
      /\ reconciliationSnapshot = NoSnapshot
  BY DEF Init
<1> QED BY <1>1, <1>2 DEF Captured

(* The replay is only left alone by a handler that drops the connection. *)
LEMMA DroppedIsCaptured ==
  ASSUME Core, Captured, replay' = replay, gen' = gen + 1 \/ gen' = gen + 2,
         reconciliationSnapshot' = NoSnapshot, reconciliationReady' = FALSE,
         bufferedDepth' = <<>>
  PROVE  Captured'
<1>1. gen \in Nat
  BY DEF Core, Fields
<1>2. gen' \in Nat /\ gen' > gen
  BY <1>1
<1>3. replay' \in Projections
  BY DEF Captured
<1>4. replay'.broken \/ (replay'.active <= gen /\ replay'.waiting <= gen)
  BY DEF Captured
<1> QED BY <1>1, <1>2, <1>3, <1>4, ResetIsCaptured

LEMMA StepKeepsCaptured == Core /\ Captured /\ [Next]_vars => Captured'
<1> SUFFICES ASSUME Core, Captured, [Next]_vars PROVE Captured'
  OBVIOUS
<1>1. ASSUME NEW state, Restart(state), UNCHANGED replay PROVE Captured'
  BY <1>1, DroppedIsCaptured DEF Restart, DropConnection, ResetConnectionState
<1>2. ASSUME NEW state, Connect(state), UNCHANGED replay PROVE Captured'
  BY <1>2, DroppedIsCaptured DEF Connect, ResetConnectionState
<1>3. ASSUME ConnectThrows, UNCHANGED replay PROVE Captured'
  BY <1>3, DroppedIsCaptured DEF ConnectThrows, ResetConnectionState
<1>4. CASE Start
  BY <1>2, <1>3, <1>4 DEF Start
<1>5. CASE Stop
  BY <1>5, DroppedIsCaptured DEF Stop, ResetConnectionState
<1>6. CASE RequestResync \/ HealthTick
  BY <1>1, <1>6 DEF RequestResync, HealthTick
<1>7. CASE ReconnectTimerFires
  BY <1>2, <1>3, <1>7 DEF ReconnectTimerFires
<1>8. CASE Uncaptured
  BY <1>8, UncapturedKeepsCaptured
<1>9. ASSUME NEW g \in 1 .. gen, DepthOpen(g) PROVE Captured'
  BY <1>8, <1>9 DEF DepthOpen, Uncaptured
<1>10. ASSUME NEW g \in 1 .. gen, TradeOpen(g) PROVE Captured'
  BY <1>8, <1>10 DEF TradeOpen, Uncaptured
<1>11. ASSUME NEW g \in 1 .. gen, SocketClose(g) PROVE Captured'
  BY <1>1, <1>8, <1>11 DEF SocketClose, Uncaptured, connection, sync
<1>12. ASSUME Skips, UNCHANGED replay \/ EmitRawGarbage PROVE Captured'
  BY <1>8, <1>12, BrokenIsCaptured DEF Skips, Uncaptured, EmitRawGarbage, connection, sync
<1>13. ASSUME NEW g \in 1 .. gen, DepthMessage(g) PROVE Captured'
  BY <1>12, <1>13, DepthMessageCases, MessageIsCaptured
<1>14. ASSUME NEW r \in fetching, SnapshotArrives(r) PROVE Captured'
  <2>1. CASE Skips /\ UNCHANGED replay
    BY <1>12, <2>1
  <2>2. CASE Restart("error") /\ (UNCHANGED replay \/ EmitRawGarbage)
    BY <1>1, <2>2, BrokenIsCaptured DEF EmitRawGarbage
  <2>3. ASSUME running, synchronizing, reconciliationSnapshot = NoSnapshot,
               NEW n \in 0 .. LastSeq, DrainReconciliation(Candidate(n), n, bufferedDepth),
               replay' = ProjectSnapshot(replay, gen, StreamSnapshot[n])
        PROVE  Captured'
    BY <2>3, SnapshotIsCaptured
  <2> QED BY <1>14, <2>1, <2>2, <2>3, SnapshotArrivesCases
<1>15. CASE Change
  BY <1>8, <1>15 DEF Change, Uncaptured, connection, sync
<1>16. ASSUME NEW s \in Streams, Stall(s) PROVE Captured'
  BY <1>8, <1>16 DEF Stall, Uncaptured, sync
<1>17. CASE UNCHANGED vars
  BY <1>8, <1>17 DEF vars, Uncaptured, connection, sync
<1> QED BY <1>4, <1>5, <1>6, <1>7, <1>9, <1>10, <1>11, <1>13, <1>14, <1>15, <1>16, <1>17
        DEF Next

(* Whenever the feed has a reconciled book, the replay of everything it    *)
(* captured holds the same one, unless a payload did not parse or the      *)
(* pending depth overflowed.                                               *)
THEOREM FeedCaptureReplays == Spec => []CaptureReplaysTheBook
<1>1. Init => Core /\ Captured
  BY InitCore, InitCaptured
<1>2. Core /\ Captured /\ [Next]_vars => (Core /\ Captured)'
  BY StepKeepsCore, StepKeepsCaptured
<1>3. Captured => CaptureReplaysTheBook
  BY DEF Captured, CaptureReplaysTheBook, SameBook
<1> QED BY <1>1, <1>2, <1>3, PTL DEF Spec
=============================================================================
