------------------------ MODULE ReplaySessionsProofs ------------------------
(***************************************************************************)
(* Theorems about the replay sessions of server/replay/sessionManager.ts,  *)
(* their repository and the pages they read, for every capture, any number *)
(* of sessions, clients, limits and failures: a deletion that was answered *)
(* is final, no frame is delivered twice or out of order, and what a       *)
(* checkpoint counts is what its seek should deliver, up to its cursor.    *)
(***************************************************************************)
EXTENDS ReplaySessions, FiniteSetTheorems, WellFoundedInduction, TLAPS

-----------------------------------------------------------------------------
(* Induction over an interval, with the set of the numbers that a property *)
(* holds of in place of the property.                                      *)

LEMMA IntervalInduction ==
  ASSUME NEW n \in Nat, NEW T, 0 \in T, \A k \in 1 .. n : k - 1 \in T => k \in T
  PROVE  0 .. n \subseteq T
<1> DEFINE Left == (0 .. n) \ T
           Below(m) == {k \in 0 .. n : k < m}
           F == {Below(m) : m \in Left}
           R == StrictSubsetOrdering(Int)
<1> SUFFICES ASSUME Left # {} PROVE FALSE
  OBVIOUS
<1>1. F \subseteq FiniteSubsetsOf(Int) /\ F # {}
  <2>1. ASSUME NEW m \in Left PROVE IsFiniteSet(Below(m)) /\ Below(m) \in SUBSET Int
    <3>1. IsFiniteSet(0 .. n) /\ Below(m) \in SUBSET (0 .. n)
      BY FS_Interval
    <3> QED BY <3>1, FS_Subset
  <2> QED BY <2>1 DEF FiniteSubsetsOf
<1>2. IsWellFoundedOn(R, FiniteSubsetsOf(Int))
  BY FS_StrictSubsetOrderingWellFounded
<1>3. PICK x \in F : \A y \in F : <<y, x>> \notin R
  <2> HIDE DEF F, R
  <2> QED BY <1>1, <1>2, WFMin
<1>4. PICK m \in Left : x = Below(m)
  OBVIOUS
<1>5. m \in 1 .. n /\ m - 1 \in Left
  OBVIOUS
<1>6. Below(m - 1) \in F /\ m - 1 \in Below(m) /\ m - 1 \notin Below(m - 1)
  BY <1>5
<1>7. Below(m - 1) \subseteq Below(m) /\ <<Below(m - 1), Below(m)>> \in (SUBSET Int) \X (SUBSET Int)
  BY <1>5
<1>8. <<Below(m - 1), Below(m)>> \in R
  BY <1>6, <1>7 DEF StrictSubsetOrdering
<1> QED BY <1>3, <1>4, <1>6, <1>8

(* A loop over 1..n has a value after each of its rounds. *)
Rounds(n, V) == [1 .. n -> [V -> V]]
Runs(g, n, base, round) == g[0] = base /\ \A i \in 1 .. n : g[i] = round[i][g[i - 1]]

LEMMA LoopRuns ==
  ASSUME NEW n \in Nat, NEW V, NEW base \in V, NEW step \in Rounds(n, V)
  PROVE  \E g \in [0 .. n -> V] : Runs(g, n, base, step)
<1> USE DEF Rounds, Runs
<1> DEFINE T == {k \in 0 .. n : \E g \in [0 .. k -> V] : Runs(g, k, base, step)}
<1>1. 0 \in T
  <2>1. [i \in 0 .. 0 |-> base] \in [0 .. 0 -> V] /\ Runs([i \in 0 .. 0 |-> base], 0, base, step)
    OBVIOUS
  <2>2. \E g \in [0 .. 0 -> V] : Runs(g, 0, base, step)
    <3> HIDE DEF Runs
    <3> QED BY <2>1
  <2> QED BY <2>2
<1>2. ASSUME NEW k \in 1 .. n, k - 1 \in T PROVE k \in T
  <2>1. PICK g \in [0 .. (k - 1) -> V] : Runs(g, k - 1, base, step)
    BY <1>2
  <2> DEFINE h == [i \in 0 .. k |-> IF i = k THEN step[k][g[k - 1]] ELSE g[i]]
  <2>2. h \in [0 .. k -> V]
    OBVIOUS
  <2>3. \A i \in 0 .. (k - 1) : i \in 0 .. k /\ h[i] = g[i]
    OBVIOUS
  <2>4. h[k] = step[k][g[k - 1]]
    OBVIOUS
  <2> HIDE DEF h
  <2>5. Runs(h, k, base, step)
    <3>1. h[0] = base
      BY <2>1, <2>3
    <3>2. ASSUME NEW i \in 1 .. k PROVE h[i] = step[i][h[i - 1]]
      <4>1. CASE i = k
        BY <4>1, <2>3, <2>4
      <4>2. CASE i # k
        <5>1. i \in 1 .. (k - 1) /\ i \in 0 .. (k - 1) /\ i - 1 \in 0 .. (k - 1)
          BY <4>2
        <5> QED BY <5>1, <2>1, <2>3
      <4> QED BY <4>1, <4>2
    <3> QED BY <3>1, <3>2
  <2>6. \E x \in [0 .. k -> V] : Runs(x, k, base, step)
    <3> HIDE DEF Runs
    <3> QED BY <2>2, <2>5
  <2>7. k \in 0 .. n
    OBVIOUS
  <2> HIDE DEF Runs
  <2> QED BY <2>6, <2>7
<1>3. n \in T
  <2>1. n \in 0 .. n
    OBVIOUS
  <2> HIDE DEF T
  <2> QED BY <1>1, <1>2, <2>1, IntervalInduction
<1> QED BY <1>3

-----------------------------------------------------------------------------
(* Frames in the order of the capture. *)

Frames == Seq(1 .. Len(Records))
Increasing(s) == \A i, j \in DOMAIN s : i < j => s[i] < s[j]

LEMMA TheCapture ==
  /\ Len(Records) \in Nat /\ DOMAIN Records = 1 .. Len(Records)
  /\ \A i \in 1 .. Len(Records) :
       Records[i].at \in Nat /\ Records[i].stream \in {"snapshot", "depth", "trade"}
<1> DEFINE R == [stream : {"snapshot", "depth", "trade"}, at : Nat]
<1>1. Records \in Seq(R)
  BY SourceAssumption
<1>2. \A r \in R : r.at \in Nat /\ r.stream \in {"snapshot", "depth", "trade"}
  OBVIOUS
<1> HIDE DEF R
<1>3. Len(Records) \in Nat /\ DOMAIN Records = 1 .. Len(Records)
  BY <1>1
<1>4. \A i \in 1 .. Len(Records) : Records[i] \in R
  BY <1>1
<1> QED BY <1>2, <1>3, <1>4

LEMMA OneMore ==
  ASSUME NEW s \in Frames, NEW x \in 1 .. Len(Records), Increasing(s),
         \A k \in DOMAIN s : s[k] < x
  PROVE  /\ Append(s, x) \in Frames /\ Increasing(Append(s, x))
         /\ \A k \in DOMAIN Append(s, x) :
              (k \in DOMAIN s /\ Append(s, x)[k] = s[k]) \/ Append(s, x)[k] = x
<1> DEFINE t == Append(s, x)
<1>1. t \in Frames /\ Len(t) = Len(s) + 1 /\ Len(s) \in Nat
  BY DEF Frames
<1>2. DOMAIN t = 1 .. Len(t) /\ DOMAIN s = 1 .. Len(s)
  BY <1>1 DEF Frames
<1>3. /\ \A k \in DOMAIN s : k \in DOMAIN t /\ t[k] = s[k] /\ s[k] \in Int
      /\ t[Len(t)] = x /\ x \in Int
  BY <1>1, <1>2, TheCapture DEF Frames
<1> HIDE DEF t
<1>4. \A k \in DOMAIN t : k \in DOMAIN s \/ k = Len(t)
  BY <1>1, <1>2
<1>5. Increasing(t)
  <2> SUFFICES ASSUME NEW a \in DOMAIN t, NEW b \in DOMAIN t, a < b PROVE t[a] < t[b]
    BY DEF Increasing
  <2>1. a \in DOMAIN s
    BY <1>1, <1>2, <1>4
  <2> QED BY <1>3, <1>4, <2>1 DEF Increasing
<1> QED BY <1>1, <1>3, <1>4, <1>5 DEF t

LEMMA Prefix ==
  ASSUME NEW s \in Frames, NEW n \in 0 .. Len(s), Increasing(s)
  PROVE  /\ SubSeq(s, 1, n) \in Frames /\ Increasing(SubSeq(s, 1, n))
         /\ Len(SubSeq(s, 1, n)) = n /\ DOMAIN SubSeq(s, 1, n) = 1 .. n
         /\ \A k \in 1 .. n : k \in DOMAIN s /\ SubSeq(s, 1, n)[k] = s[k]
<1> DEFINE t == SubSeq(s, 1, n)
<1>1. t \in Frames /\ Len(t) = n /\ DOMAIN t = 1 .. n
  BY DEF Frames
<1>2. \A k \in 1 .. n : k \in DOMAIN s /\ t[k] = s[k]
  BY DEF Frames
<1> HIDE DEF t
<1>3. Increasing(t)
  BY <1>1, <1>2 DEF Increasing
<1> QED BY <1>1, <1>2, <1>3 DEF t

LEMMA Together ==
  ASSUME NEW s \in Frames, NEW t \in Frames, Increasing(s), Increasing(t),
         \A i \in DOMAIN s, j \in DOMAIN t : s[i] < t[j]
  PROVE  /\ s \o t \in Frames /\ Increasing(s \o t)
         /\ \A k \in DOMAIN (s \o t) : \/ k \in DOMAIN s /\ (s \o t)[k] = s[k]
                                      \/ \E j \in DOMAIN t : (s \o t)[k] = t[j]
<1> DEFINE u == s \o t
<1>1. /\ u \in Frames /\ Len(u) = Len(s) + Len(t)
      /\ Len(s) \in Nat /\ Len(t) \in Nat
  BY DEF Frames
<1>2. DOMAIN u = 1 .. Len(u) /\ DOMAIN s = 1 .. Len(s) /\ DOMAIN t = 1 .. Len(t)
  BY <1>1 DEF Frames
<1>3. /\ \A k \in DOMAIN s : u[k] = s[k]
      /\ \A k \in DOMAIN u \ DOMAIN s : k - Len(s) \in DOMAIN t /\ u[k] = t[k - Len(s)]
  BY <1>1, <1>2 DEF Frames
<1> HIDE DEF u
<1>4. Increasing(u)
  <2> SUFFICES ASSUME NEW a \in DOMAIN u, NEW b \in DOMAIN u, a < b PROVE u[a] < u[b]
    BY DEF Increasing
  <2>1. CASE a \in DOMAIN s /\ b \in DOMAIN s
    BY <1>3, <2>1 DEF Increasing
  <2>2. CASE a \in DOMAIN s /\ b \notin DOMAIN s
    BY <1>3, <2>2
  <2>3. CASE a \notin DOMAIN s
    <3>1. b \notin DOMAIN s
      BY <1>1, <1>2, <2>3
    <3>2. a - Len(s) < b - Len(s)
      BY <1>1, <1>2
    <3> QED BY <1>3, <2>3, <3>1, <3>2 DEF Increasing
  <2> QED BY <2>1, <2>2, <2>3
<1> QED BY <1>1, <1>3, <1>4 DEF u

-----------------------------------------------------------------------------
(* A page. *)

Scans == [frames : Frames, anchor : 0 .. Len(Records), pending : Frames, emitted : BOOLEAN,
          dropped : Int, stopped : BOOLEAN]

Between(s, low, high) == \A k \in DOMAIN s : low < s[k] /\ s[k] <= high

(* After record i.  A pre-roll that waits is behind every frame there is. *)
Scanned(q, scan, i) ==
  /\ scan \in Scans
  /\ Increasing(scan.frames) /\ Between(scan.frames, q.after, i)
  /\ Len(scan.frames) <= q.limit
  /\ Increasing(scan.pending) /\ Between(scan.pending, scan.anchor, i)
  /\ scan.anchor # 0 => CollectPreroll(q) /\ scan.anchor <= i
  /\ scan.anchor # 0 /\ ~scan.emitted =>
       \A k \in DOMAIN scan.frames : scan.frames[k] < scan.anchor

LEMMA DrainedScan ==
  ASSUME NEW q \in Queries(Nat \ {0}), NEW i \in 0 .. Len(Records), NEW scan, Scanned(q, scan, i)
  PROVE  LET d == DrainPreroll(q, scan)
         IN  /\ d \in Scans /\ Increasing(d.frames) /\ Between(d.frames, q.after, i)
             /\ Len(d.frames) <= q.limit
             /\ d.anchor = scan.anchor /\ d.pending = scan.pending /\ d.stopped = scan.stopped
             /\ d.anchor # 0 => d.emitted
<1> DEFINE d == DrainPreroll(q, scan)
           run == <<scan.anchor>> \o scan.pending
           room == q.limit - Len(scan.frames)
           take == IF Len(run) <= room THEN run ELSE SubSeq(run, 1, room)
<1>1. scan \in Scans /\ q.limit \in Nat \ {0} /\ q.after \in Nat
  BY TheCapture DEF Scanned, Queries
<1>2. CASE ~CollectPreroll(q) \/ scan.emitted \/ scan.anchor = 0
  <2>1. d = scan
    BY <1>2 DEF DrainPreroll
  <2> QED BY <1>1, <1>2, <2>1 DEF Scanned
<1>3. CASE CollectPreroll(q) /\ ~scan.emitted /\ scan.anchor # 0
  <2>1. /\ q.after = 0 /\ scan.anchor \in 1 .. i
        /\ scan.frames \in Frames /\ scan.pending \in Frames
        /\ \A k \in DOMAIN scan.frames : scan.frames[k] < scan.anchor
    BY <1>1, <1>3 DEF Scanned, CollectPreroll, Scans
  <2>2. /\ <<scan.anchor>> \in Frames /\ DOMAIN <<scan.anchor>> = 1 .. 1
        /\ <<scan.anchor>>[1] = scan.anchor /\ Increasing(<<scan.anchor>>)
    <3>1. scan.anchor \in 1 .. Len(Records)
      BY <2>1, TheCapture
    <3> QED BY <3>1 DEF Frames, Increasing
  <2>3. run \in Frames /\ Increasing(run) /\ Between(run, scan.anchor - 1, i)
    <3>1. \A a \in DOMAIN <<scan.anchor>>, b \in DOMAIN scan.pending :
            <<scan.anchor>>[a] < scan.pending[b]
      BY <2>1, <2>2 DEF Scanned, Between
    <3>2. /\ run \in Frames /\ Increasing(run)
          /\ \A k \in DOMAIN run : \/ k \in DOMAIN <<scan.anchor>> /\ run[k] = <<scan.anchor>>[k]
                                 \/ \E j \in DOMAIN scan.pending : run[k] = scan.pending[j]
      BY <2>1, <2>2, <3>1, Together DEF Scanned
    <3> HIDE DEF run
    <3>3. \A j \in DOMAIN scan.pending :
            scan.anchor - 1 < scan.pending[j] /\ scan.pending[j] <= i
      BY <2>1, TheCapture DEF Scanned, Between, Frames
    <3> QED BY <2>1, <2>2, <3>2, <3>3 DEF Between
  <2>4. room \in Nat /\ Len(run) \in Nat /\ Len(scan.frames) + room = q.limit
    <3>1. Len(scan.frames) \in Nat /\ Len(scan.frames) <= q.limit
      BY <2>1 DEF Scanned, Frames
    <3>2. Len(run) \in Nat
      <4> HIDE DEF run
      <4> QED BY <2>3 DEF Frames
    <3> QED BY <1>1, <3>1, <3>2
  <2>5. /\ take \in Frames /\ Increasing(take) /\ Between(take, scan.anchor - 1, i)
        /\ Len(take) \in Nat /\ Len(take) <= room
    <3> HIDE DEF run, room
    <3>1. CASE Len(run) <= room
      BY <2>3, <2>4, <3>1
    <3>2. CASE ~(Len(run) <= room)
      <4>1. room \in 0 .. Len(run)
        BY <2>4, <3>2
      <4> QED BY <2>3, <2>4, <3>2, <4>1, Prefix DEF Between
    <3> QED BY <3>1, <3>2
  <2> DEFINE all == scan.frames \o take
  <2>6. all \in Frames /\ Increasing(all) /\ Between(all, q.after, i) /\ Len(all) <= q.limit
    <3> HIDE DEF take, run, room
    <3>1. \A a \in DOMAIN scan.frames, b \in DOMAIN take : scan.frames[a] < take[b]
      <4>1. \A a \in DOMAIN scan.frames :
              scan.frames[a] \in Int /\ scan.frames[a] < scan.anchor
        BY <2>1, TheCapture DEF Frames
      <4>2. \A b \in DOMAIN take : take[b] \in Int /\ scan.anchor - 1 < take[b]
        BY <2>5, TheCapture DEF Between, Frames
      <4>3. scan.anchor \in Int
        BY <2>1
      <4> QED BY <4>1, <4>2, <4>3
    <3>2. /\ all \in Frames /\ Increasing(all)
          /\ \A k \in DOMAIN all : \/ k \in DOMAIN scan.frames /\ all[k] = scan.frames[k]
                                 \/ \E j \in DOMAIN take : all[k] = take[j]
      BY <2>1, <2>5, <3>1, Together DEF Scanned
    <3>3. Len(all) = Len(scan.frames) + Len(take) /\ Len(scan.frames) \in Nat
      BY <2>1, <2>5 DEF Frames
    <3> HIDE DEF all
    <3>4. \A j \in DOMAIN take : q.after < take[j] /\ take[j] <= i
      BY <2>1, <2>5, TheCapture DEF Between, Frames
    <3> QED BY <2>4, <2>5, <3>2, <3>3, <3>4 DEF Scanned, Between
  <2>7. d = [scan EXCEPT !.frames = @ \o take, !.emitted = TRUE,
                         !.dropped = @ + Len(run) - Len(take)]
    BY <1>3 DEF DrainPreroll
  <2> HIDE DEF take, run, room, d
  <2>8. d = [frames |-> all, anchor |-> scan.anchor, pending |-> scan.pending, emitted |-> TRUE,
             dropped |-> scan.dropped + Len(run) - Len(take), stopped |-> scan.stopped]
    BY <1>1, <2>7 DEF Scans
  <2> HIDE DEF all
  <2>9. scan.dropped + Len(run) - Len(take) \in Int
    BY <1>1, <2>4, <2>5 DEF Scans
  <2>10. /\ d \in Scans /\ d.frames = all /\ d.emitted
         /\ d.anchor = scan.anchor /\ d.pending = scan.pending /\ d.stopped = scan.stopped
    BY <1>1, <2>6, <2>8, <2>9 DEF Scans
  <2> QED BY <2>6, <2>10 DEF d
<1> QED BY <1>2, <1>3

LEMMA ScannedSoFar ==
  ASSUME NEW q, NEW i \in 1 .. Len(Records), NEW scan, Scanned(q, scan, i - 1)
  PROVE  Scanned(q, scan, i)
<1>1. \A s \in Frames : \A low : Between(s, low, i - 1) => Between(s, low, i)
  BY TheCapture DEF Between, Frames
<1> QED BY <1>1, TheCapture DEF Scanned, Scans

LEMMA RememberedScan ==
  ASSUME NEW q \in Queries(Nat \ {0}), NEW i \in 1 .. Len(Records), NEW scan,
         Scanned(q, scan, i - 1), i > q.after, Records[i].at < q.startAt
  PROVE  Scanned(q, RememberPreroll(q, scan, i), i)
<1> DEFINE r == RememberPreroll(q, scan, i)
<1>1. scan \in Scans /\ i \in Nat /\ Scanned(q, scan, i)
  BY ScannedSoFar, TheCapture DEF Scanned
<1>2. CASE r = scan
  BY <1>1, <1>2
<1>3. CASE CollectPreroll(q) /\ Records[i].stream = "snapshot"
  <2>1. r = [scan EXCEPT !.anchor = i, !.pending = <<>>, !.dropped = 0, !.emitted = FALSE]
    BY <1>3 DEF RememberPreroll
  <2> HIDE DEF r
  <2>2. r = [frames |-> scan.frames, anchor |-> i, pending |-> <<>>, emitted |-> FALSE,
             dropped |-> 0, stopped |-> scan.stopped]
    BY <1>1, <2>1 DEF Scans
  <2>3. <<>> \in Frames /\ i \in 0 .. Len(Records)
    BY TheCapture DEF Frames
  <2>4. /\ r \in Scans /\ r.frames = scan.frames /\ r.pending = <<>> /\ r.anchor = i /\ ~r.emitted
    BY <1>1, <2>2, <2>3 DEF Scans
  <2>5. \A k \in DOMAIN scan.frames : scan.frames[k] < i
    BY <1>1, TheCapture DEF Scanned, Scans, Between, Frames
  <2> QED BY <1>1, <1>3, <2>4, <2>5 DEF Scanned, Increasing, Between, r
<1>4. CASE CollectPreroll(q) /\ Records[i].stream = "depth" /\ scan.anchor # 0
  <2>1. CASE Len(scan.pending) >= MaxPreRoll
    <3>1. r = [scan EXCEPT !.dropped = @ + 1]
      BY <1>4, <2>1 DEF RememberPreroll
    <3> HIDE DEF r
    <3>2. r = [frames |-> scan.frames, anchor |-> scan.anchor, pending |-> scan.pending,
               emitted |-> scan.emitted, dropped |-> scan.dropped + 1, stopped |-> scan.stopped]
      BY <1>1, <3>1 DEF Scans
    <3>3. /\ r \in Scans /\ r.frames = scan.frames /\ r.pending = scan.pending
          /\ r.anchor = scan.anchor /\ r.emitted = scan.emitted
      BY <1>1, <3>2 DEF Scans
    <3> QED BY <1>1, <3>3 DEF Scanned, r
  <2>2. CASE ~(Len(scan.pending) >= MaxPreRoll)
    <3>1. r = [scan EXCEPT !.pending = Append(@, i)]
      BY <1>4, <2>2 DEF RememberPreroll
    <3>2. scan.pending \in Frames /\ \A k \in DOMAIN scan.pending : scan.pending[k] < i
      BY <1>1, TheCapture DEF Scanned, Scans, Between, Frames
    <3>3. scan.anchor < i
      BY <1>1, <1>4 DEF Scanned, Scans
    <3>4. /\ Append(scan.pending, i) \in Frames /\ Increasing(Append(scan.pending, i))
          /\ Between(Append(scan.pending, i), scan.anchor, i)
      BY <1>1, <3>2, <3>3, OneMore DEF Scanned, Between
    <3> HIDE DEF r
    <3>5. r = [frames |-> scan.frames, anchor |-> scan.anchor, pending |-> Append(scan.pending, i),
               emitted |-> scan.emitted, dropped |-> scan.dropped, stopped |-> scan.stopped]
      BY <1>1, <3>1 DEF Scans
    <3>6. /\ r \in Scans /\ r.frames = scan.frames /\ r.pending = Append(scan.pending, i)
          /\ r.anchor = scan.anchor /\ r.emitted = scan.emitted
      BY <1>1, <3>4, <3>5 DEF Scans
    <3> QED BY <1>1, <3>4, <3>6 DEF Scanned, r
  <2> QED BY <2>1, <2>2
<1>5. ~CollectPreroll(q) \/ (Records[i].stream # "snapshot" /\ ~(Records[i].stream = "depth" /\ scan.anchor # 0))
      => r = scan
  BY DEF RememberPreroll
<1> QED BY <1>2, <1>3, <1>4, <1>5

LEMMA VisitedScan ==
  ASSUME NEW q \in Queries(Nat \ {0}), NEW i \in 1 .. Len(Records), NEW scan,
         Scanned(q, scan, i - 1)
  PROVE  Scanned(q, Visit(q, scan, i), i)
<1> DEFINE v == Visit(q, scan, i)
           drained == DrainPreroll(q, scan)
           pushed == [drained EXCEPT !.frames = Append(@, i)]
           full == [pushed EXCEPT !.frames = SubSeq(@, 1, q.limit), !.stopped = TRUE]
           halted == IF WaitsForFuture(q) THEN [drained EXCEPT !.stopped = TRUE] ELSE scan
           grown == IF Len(pushed.frames) <= q.limit THEN pushed ELSE full
<1>0. v = IF scan.stopped \/ i <= q.after THEN scan
          ELSE IF Records[i].at < q.startAt THEN RememberPreroll(q, scan, i)
          ELSE IF Records[i].at > q.through THEN halted ELSE grown
  BY Zenon DEF Visit
<1> HIDE DEF v, halted, grown
<1>1. /\ Scanned(q, scan, i) /\ q.limit \in Nat \ {0} /\ q.after \in Nat /\ q.startAt \in Nat
      /\ i \in Nat /\ i \in 0 .. Len(Records) /\ i - 1 \in 0 .. Len(Records)
      /\ q.through \in Nat
  BY ScannedSoFar, TheCapture, SourceAssumption DEF Queries
<1>2. CASE scan.stopped \/ i <= q.after
  <2>1. v = scan
    BY <1>0, <1>2
  <2> QED BY <1>1, <2>1 DEF v
<1>3. CASE ~scan.stopped /\ i > q.after /\ Records[i].at < q.startAt
  <2>1. v = RememberPreroll(q, scan, i)
    BY <1>0, <1>1, <1>3
  <2> QED BY <1>3, <2>1, RememberedScan DEF v
<1>4. ASSUME i > q.after, ~(Records[i].at < q.startAt)
      PROVE  /\ drained \in Scans /\ Increasing(drained.frames) /\ Between(drained.frames, q.after, i)
             /\ Between(drained.frames, q.after, i - 1)
             /\ Increasing(drained.pending) /\ Between(drained.pending, drained.anchor, i)
             /\ drained.anchor # 0 => CollectPreroll(q) /\ drained.anchor <= i /\ drained.emitted
             /\ Len(drained.frames) <= q.limit
  <2>1. /\ drained \in Scans /\ Increasing(drained.frames) /\ Between(drained.frames, q.after, i - 1)
        /\ drained.anchor = scan.anchor /\ drained.pending = scan.pending
        /\ drained.anchor # 0 => drained.emitted
        /\ Len(drained.frames) <= q.limit
    BY <1>1, DrainedScan
  <2>2. Between(drained.frames, q.after, i)
    <3>1. drained.frames \in Frames
      BY <2>1 DEF Scans
    <3> HIDE DEF drained
    <3> QED BY <1>1, <2>1, <3>1, TheCapture DEF Between, Frames
  <2> HIDE DEF drained
  <2> QED BY <1>1, <2>1, <2>2 DEF Scanned
<1>5. CASE ~scan.stopped /\ i > q.after /\ ~(Records[i].at < q.startAt) /\ Records[i].at > q.through
  <2>1. CASE WaitsForFuture(q)
    <3>1. v = [drained EXCEPT !.stopped = TRUE]
      BY <1>0, <1>1, <1>5, <2>1 DEF halted
    <3> HIDE DEF v, drained
    <3>2. v = [frames |-> drained.frames, anchor |-> drained.anchor, pending |-> drained.pending,
               emitted |-> drained.emitted, dropped |-> drained.dropped, stopped |-> TRUE]
      BY <1>4, <1>5, <3>1 DEF Scans
    <3>3. /\ v \in Scans /\ v.frames = drained.frames /\ v.pending = drained.pending
          /\ v.anchor = drained.anchor /\ v.emitted = drained.emitted
      BY <1>4, <1>5, <3>2 DEF Scans
    <3>4. Scanned(q, v, i)
      BY <1>4, <1>5, <3>3 DEF Scanned
    <3> QED BY <3>4 DEF v
  <2>2. CASE ~WaitsForFuture(q)
    <3>1. v = scan
      BY <1>0, <1>1, <1>5, <2>2 DEF halted
    <3> QED BY <1>1, <3>1 DEF v
  <2> QED BY <2>1, <2>2
<1> HIDE DEF drained
<1>6. CASE ~scan.stopped /\ i > q.after /\ ~(Records[i].at < q.startAt) /\ ~(Records[i].at > q.through)
  <2>1. v = IF Len(pushed.frames) <= q.limit THEN pushed ELSE full
    BY <1>0, <1>1, <1>6 DEF grown
  <2>0. pushed = [drained EXCEPT !.frames = Append(@, i)]
    OBVIOUS
  <2> HIDE DEF pushed
  <2>2. pushed = [frames |-> Append(drained.frames, i), anchor |-> drained.anchor,
                  pending |-> drained.pending, emitted |-> drained.emitted,
                  dropped |-> drained.dropped, stopped |-> drained.stopped]
    BY <1>4, <1>6, <2>0 DEF Scans
  <2>3. drained.frames \in Frames /\ \A k \in DOMAIN drained.frames : drained.frames[k] < i
    BY <1>4, <1>6, <1>1, TheCapture DEF Scans, Between, Frames
  <2>4. /\ Append(drained.frames, i) \in Frames /\ Increasing(Append(drained.frames, i))
        /\ Between(Append(drained.frames, i), q.after, i)
    BY <1>1, <1>4, <1>6, <2>3, OneMore DEF Between
  <2>5. /\ pushed \in Scans /\ pushed.frames = Append(drained.frames, i)
        /\ pushed.pending = drained.pending /\ pushed.anchor = drained.anchor
        /\ pushed.emitted = drained.emitted
    BY <1>4, <1>6, <2>2, <2>4 DEF Scans
  <2>6. CASE Len(pushed.frames) <= q.limit
    <3>1. Scanned(q, v, i)
      BY <1>4, <1>6, <2>1, <2>4, <2>5, <2>6 DEF Scanned
    <3> QED BY <3>1 DEF v
  <2>7. CASE ~(Len(pushed.frames) <= q.limit)
    <3> DEFINE t == SubSeq(pushed.frames, 1, q.limit)
    <3>1. q.limit \in 0 .. Len(pushed.frames)
      <4>1. Len(pushed.frames) \in Nat
        BY <2>4, <2>5 DEF Frames
      <4> QED BY <1>1, <2>7, <4>1
    <3>2. t \in Frames /\ Increasing(t) /\ Between(t, q.after, i) /\ Len(t) <= q.limit
      <4>1. /\ t \in Frames /\ Increasing(t) /\ DOMAIN t = 1 .. q.limit /\ Len(t) = q.limit
            /\ \A k \in 1 .. q.limit : k \in DOMAIN pushed.frames /\ t[k] = pushed.frames[k]
        BY <2>4, <2>5, <3>1, Prefix
      <4> HIDE DEF t
      <4>2. Between(t, q.after, i)
        BY <2>4, <2>5, <4>1 DEF Between
      <4> QED BY <1>1, <4>1, <4>2
    <3> HIDE DEF t
    <3>3. v = [frames |-> t, anchor |-> pushed.anchor, pending |-> pushed.pending,
               emitted |-> pushed.emitted, dropped |-> pushed.dropped, stopped |-> TRUE]
      BY <2>1, <2>5, <2>7 DEF Scans, t
    <3>4. /\ v \in Scans /\ v.frames = t /\ v.pending = pushed.pending
          /\ v.anchor = pushed.anchor /\ v.emitted = pushed.emitted
      BY <2>5, <3>2, <3>3 DEF Scans
    <3>5. Scanned(q, v, i)
      BY <1>4, <1>6, <2>5, <3>2, <3>4 DEF Scanned
    <3> QED BY <3>5 DEF v
  <2> QED BY <2>6, <2>7
<1> QED BY <1>1, <1>2, <1>3, <1>5, <1>6

Loop(q, f) == f = [i \in 0 .. Len(Records) |-> IF i = 0 THEN Start ELSE Visit(q, f[i - 1], i)]

LEMMA StartScanned == ASSUME NEW q \in Queries(Nat \ {0}) PROVE Scanned(q, Start, 0)
<1>1. <<>> \in Frames /\ 0 \in 0 .. Len(Records)
  BY TheCapture DEF Frames
<1>2. /\ Start \in Scans /\ Start.frames = <<>> /\ Start.pending = <<>> /\ Start.anchor = 0
      /\ ~Start.emitted
  BY <1>1 DEF Start, Scans
<1>3. Len(<<>>) <= q.limit
  BY DEF Queries
<1> QED BY <1>2, <1>3 DEF Scanned, Increasing, Between

LEMMA LoopScans ==
  ASSUME NEW q \in Queries(Nat \ {0}), NEW f, Loop(q, f)
  PROVE  Scanned(q, f[Len(Records)], Len(Records))
<1> DEFINE n == Len(Records)
           T == {k \in 0 .. n : Scanned(q, f[k], k)}
<1>1. n \in Nat /\ n \in 0 .. n /\ 0 \in 0 .. n
  BY TheCapture
<1>2. f[0] = Start /\ \A k \in 1 .. n : f[k] = Visit(q, f[k - 1], k)
  <2>1. \A k \in 1 .. n : k \in 0 .. n /\ k # 0
    BY <1>1
  <2> QED BY <1>1, <2>1 DEF Loop
<1>3. 0 \in T
  BY <1>1, <1>2, StartScanned
<1>4. ASSUME NEW k \in 1 .. n, k - 1 \in T PROVE k \in T
  BY <1>1, <1>2, <1>4, VisitedScan
<1>5. 0 .. n \subseteq T
  <2> HIDE DEF T, n
  <2> QED BY <1>1, <1>3, <1>4, IntervalInduction
<1> QED BY <1>1, <1>5

LEMMA LoopEnds == ASSUME NEW q \in Queries(Nat \ {0}) PROVE \E f : Loop(q, f)
<1> DEFINE n == Len(Records)
           Body(s, i) == IF Scanned(q, s, i - 1) THEN Visit(q, s, i) ELSE s
           step == [i \in 1 .. n |-> [s \in Scans |-> Body(s, i)]]
<1>1. n \in Nat /\ Start \in Scans
  BY TheCapture, StartScanned DEF Scanned
<1>2. step \in [1 .. n -> [Scans -> Scans]]
  <2>1. ASSUME NEW i \in 1 .. n, NEW s \in Scans PROVE Body(s, i) \in Scans
    BY VisitedScan DEF Scanned
  <2> HIDE DEF Body
  <2> QED BY <2>1
<1>3. PICK g \in [0 .. n -> Scans] : g[0] = Start /\ \A i \in 1 .. n : g[i] = step[i][g[i - 1]]
  <2>1. step \in Rounds(n, Scans)
    BY <1>2 DEF Rounds
  <2> HIDE DEF step, n
  <2>2. PICK g \in [0 .. n -> Scans] : Runs(g, n, Start, step)
    BY <1>1, <2>1, LoopRuns
  <2> QED BY <2>2 DEF Runs
<1> DEFINE T == {k \in 0 .. n : Scanned(q, g[k], k)}
<1>4. ASSUME NEW k \in 1 .. n, k - 1 \in T
      PROVE  k \in T /\ g[k] = Visit(q, g[k - 1], k)
  <2>1. k - 1 \in 0 .. n /\ k \in 0 .. n /\ g[k - 1] \in Scans /\ Scanned(q, g[k - 1], k - 1)
    BY <1>1, <1>4
  <2>2. g[k] = Body(g[k - 1], k)
    <3> HIDE DEF Body
    <3> QED BY <1>3, <2>1
  <2>3. g[k] = Visit(q, g[k - 1], k)
    BY <2>1, <2>2
  <2> QED BY <2>1, <2>3, VisitedScan
<1>5. 0 .. n \subseteq T
  <2>1. 0 \in T
    BY <1>1, <1>3, StartScanned
  <2> HIDE DEF T, n, step
  <2> QED BY <1>1, <1>4, <2>1, IntervalInduction
<1>6. \A k \in 1 .. n : g[k] = Visit(q, g[k - 1], k)
  <2>1. \A k \in 1 .. n : k - 1 \in 0 .. n
    BY <1>1
  <2> HIDE DEF T, n, step
  <2> QED BY <1>4, <1>5, <2>1
<1>7. g = [i \in 0 .. n |-> IF i = 0 THEN Start ELSE Visit(q, g[i - 1], i)]
  <2>1. \A i \in 0 .. n : i = 0 \/ i \in 1 .. n
    BY <1>1
  <2> HIDE DEF n
  <2> QED BY <1>3, <1>6, <2>1
<1> QED BY <1>7 DEF Loop

(* A page goes on after its cursor, in the order of the capture. *)
LEMMA PageInOrder ==
  ASSUME NEW q \in Queries(Nat \ {0})
  PROVE  /\ Page(q).frames \in Frames /\ Increasing(Page(q).frames)
         /\ \A k \in DOMAIN Page(q).frames : q.after < Page(q).frames[k]
<1> DEFINE f == CHOOSE g : Loop(q, g)
           scanned == f[Len(Records)]
           ended == DrainPreroll(q, scanned)
<1>1. Loop(q, f)
  BY LoopEnds
<1>2. Page(q) = IF scanned.stopped THEN [frames |-> scanned.frames, hasMore |-> TRUE]
                ELSE [frames |-> ended.frames, hasMore |-> ended.dropped > 0]
  BY Zenon DEF Page, Loop
<1> HIDE DEF f
<1>3. Scanned(q, scanned, Len(Records)) /\ Len(Records) \in 0 .. Len(Records)
  BY <1>1, LoopScans, TheCapture
<1>4. /\ ended.frames \in Frames /\ Increasing(ended.frames)
      /\ Between(ended.frames, q.after, Len(Records))
  <2>1. ended \in Scans /\ Increasing(ended.frames) /\ Between(ended.frames, q.after, Len(Records))
    BY <1>3, DrainedScan
  <2> HIDE DEF ended
  <2> QED BY <2>1 DEF Scans
<1> HIDE DEF scanned, ended
<1>5. Page(q).frames = scanned.frames \/ Page(q).frames = ended.frames
  BY <1>2
<1> QED BY <1>3, <1>4, <1>5 DEF Scanned, Scans, Between

-----------------------------------------------------------------------------
(* What a page holds of the capture.                                       *)

(* The records before the watermark, and the pre-roll they make.           *)
Early(seek, n) == {i \in 1 .. n : \A j \in 1 .. i : Records[j].at < seek}
Newest(B) == {a \in B : /\ Records[a].stream = "snapshot"
                        /\ \A b \in B : b > a => Records[b].stream # "snapshot"}
Deltas(B) == {d \in B : Records[d].stream = "depth" /\ \E a \in Newest(B) : a < d}
PreRollOf(B) ==
  Newest(B) \cup {d \in Deltas(B) : Cardinality({e \in Deltas(B) : e <= d}) <= MaxPreRoll}

LEMMA PreRollIs == ASSUME NEW seek, NEW n PROVE PreRollWithin(seek, n) = PreRollOf(Early(seek, n))
BY Zenon DEF PreRollWithin, PreRollOf, Deltas, Newest, Early

LEMMA EarlyEnds ==
  ASSUME NEW seek \in Nat, NEW i \in 1 .. Len(Records), ~(Records[i].at < seek)
  PROVE  Early(seek, Len(Records)) = Early(seek, i - 1) /\ Early(seek, i) = Early(seek, i - 1)
<1>1. Len(Records) \in Nat /\ i \in Int
  BY TheCapture
<1>2. ASSUME NEW n \in i .. Len(Records) PROVE Early(seek, n) = Early(seek, i - 1)
  <2>1. \A k \in 1 .. n : k \in 1 .. (i - 1) \/ i \in 1 .. k
    BY <1>1
  <2>2. \A k \in 1 .. (i - 1) : k \in 1 .. n
    BY <1>1
  <2> QED BY <2>1, <2>2 DEF Early
<1> QED BY <1>1, <1>2

LEMMA EarlyGrows ==
  ASSUME NEW seek \in Nat, NEW i \in 1 .. Len(Records), Early(seek, i - 1) = 1 .. (i - 1),
         Records[i].at < seek
  PROVE  Early(seek, i) = 1 .. i
<1>1. \A k \in 1 .. i : k = i \/ k \in 1 .. (i - 1)
  BY TheCapture
<1>2. \A k \in 1 .. (i - 1) : Records[k].at < seek
  <2>1. \A k \in 1 .. (i - 1) : k \in 1 .. k
    OBVIOUS
  <2> QED BY <2>1 DEF Early
<1>3. \A k \in 1 .. i : Records[k].at < seek
  BY <1>1, <1>2
<1>4. \A k \in 1 .. i : \A j \in 1 .. k : j \in 1 .. i
  BY TheCapture
<1> QED BY <1>3, <1>4 DEF Early

LEMMA PreRollComesFirst ==
  ASSUME NEW seek \in Nat, NEW p \in PreRollFrames(seek), NEW l \in LiveFrames(seek)
  PROVE  p < l /\ p \in 1 .. Len(Records) /\ l \in 1 .. Len(Records)
<1>1. p \in Early(seek, Len(Records))
  BY PreRollIs DEF PreRollFrames, PreRollOf, Newest, Deltas
<1>2. p \in 1 .. Len(Records) /\ \A j \in 1 .. p : Records[j].at < seek
  BY <1>1 DEF Early
<1>3. l \in 1 .. Len(Records) /\ Records[l].at >= seek /\ Records[l].at \in Nat
  BY TheCapture, SourceAssumption DEF LiveFrames
<1> QED BY <1>2, <1>3, TheCapture

(* Frames in order are as many as they are elements. *)
LEMMA SizeOfFrames ==
  ASSUME NEW s \in Frames, Increasing(s)
  PROVE  IsFiniteSet(Range(s)) /\ Cardinality(Range(s)) = Len(s)
<1>1. Len(s) \in Nat /\ DOMAIN s = 1 .. Len(s)
  BY DEF Frames
<1>2. \A i, j \in DOMAIN s : s[i] = s[j] => i = j
  <2>1. \A i \in DOMAIN s : s[i] \in Int
    BY TheCapture DEF Frames
  <2> QED BY <1>1, <2>1 DEF Increasing
<1>3. s \in Bijection(1 .. Len(s), Range(s))
  <2>1. s \in [1 .. Len(s) -> Range(s)]
    BY <1>1 DEF Frames, Range
  <2>2. \A t \in Range(s) : \E k \in 1 .. Len(s) : s[k] = t
    BY <1>1 DEF Range
  <2> QED BY <1>1, <1>2, <2>1, <2>2 DEF Bijection, Injection, Surjection, IsInjective
<1>4. ExistsBijection(1 .. Len(s), Range(s))
  BY <1>3, Zenon DEF ExistsBijection
<1> QED BY <1>1, <1>4, FS_CountingElements, FS_NatBijection

(* The first of the deltas that a scan remembers. *)
Remembers(scan, B) ==
  /\ Newest(B) = IF scan.anchor = 0 THEN {} ELSE {scan.anchor}
  /\ scan.anchor # 0 =>
       /\ Range(scan.pending) \subseteq Deltas(B) /\ Len(scan.pending) <= MaxPreRoll
       /\ Len(scan.pending) < MaxPreRoll => Deltas(B) \subseteq Range(scan.pending)
       /\ Leads(Range(scan.pending), Deltas(B))

LEMMA RememberedIsPreRoll ==
  ASSUME NEW scan, NEW B \in SUBSET (1 .. Len(Records)), Remembers(scan, B),
         scan.pending \in Frames, Increasing(scan.pending)
  PROVE  PreRollOf(B) = IF scan.anchor = 0 THEN {} ELSE {scan.anchor} \cup Range(scan.pending)
<1>1. CASE scan.anchor = 0
  BY <1>1 DEF Remembers, PreRollOf, Deltas
<1>2. CASE scan.anchor # 0
  <2> DEFINE P == Range(scan.pending)
             D == Deltas(B)
             Upto(d) == {e \in D : e <= d}
  <2>1. /\ IsFiniteSet(P) /\ Cardinality(P) = Len(scan.pending) /\ Len(scan.pending) \in Nat
        /\ MaxPreRoll \in Nat
    BY SizeOfFrames, SourceAssumption DEF Frames
  <2>2. /\ P \subseteq D /\ Len(scan.pending) <= MaxPreRoll
        /\ Len(scan.pending) < MaxPreRoll => D \subseteq P
        /\ Leads(P, D)
    BY <1>2 DEF Remembers
  <2>3. D \subseteq 1 .. Len(Records) /\ Len(Records) \in Nat
    BY TheCapture DEF Deltas
  <2>4. \A d : IsFiniteSet(Upto(d))
    <3>1. IsFiniteSet(1 .. Len(Records))
      BY <2>3, FS_Interval
    <3>2. \A d : Upto(d) \subseteq 1 .. Len(Records)
      BY <2>3
    <3> HIDE DEF Upto
    <3> QED BY <3>1, <3>2, FS_Subset
  <2> HIDE DEF P, D
  <2>5. ASSUME NEW d \in P PROVE Cardinality(Upto(d)) <= MaxPreRoll
    <3>1. Upto(d) \subseteq P
      <4> SUFFICES ASSUME NEW e \in D, e <= d PROVE e \in P
        OBVIOUS
      <4>1. d \in P \cap D /\ e \in Int /\ d \in Int
        BY <2>2, <2>3, <2>5
      <4> QED BY <2>2, <4>1 DEF Leads
    <3>2. Cardinality(Upto(d)) <= Cardinality(P) /\ Cardinality(Upto(d)) \in Nat
      BY <2>1, <2>4, <3>1, FS_Subset, FS_CardinalityType
    <3> QED BY <2>1, <2>2, <3>2
  <2>6. ASSUME NEW d \in D, d \notin P PROVE ~(Cardinality(Upto(d)) <= MaxPreRoll)
    <3>1. Len(scan.pending) = MaxPreRoll
      BY <2>1, <2>2, <2>6
    <3>2. P \cup {d} \subseteq Upto(d)
      BY <2>2, <2>3, <2>6 DEF Leads
    <3>3. Cardinality(P \cup {d}) = MaxPreRoll + 1 /\ IsFiniteSet(P \cup {d})
      BY <2>1, <2>6, <3>1, FS_AddElement
    <3>4. Cardinality(P \cup {d}) <= Cardinality(Upto(d)) /\ Cardinality(Upto(d)) \in Nat
      BY <2>4, <3>2, FS_Subset, FS_CardinalityType
    <3> QED BY <2>1, <3>3, <3>4
  <2>7. {d \in D : Cardinality(Upto(d)) <= MaxPreRoll} = P
    BY <2>2, <2>5, <2>6
  <2>8. PreRollOf(B) = {scan.anchor} \cup {d \in D : Cardinality(Upto(d)) <= MaxPreRoll}
    BY <1>2 DEF PreRollOf, Remembers, D
  <2> QED BY <1>2, <2>7, <2>8 DEF P
<1> QED BY <1>1, <1>2

(* What a scan is after the record it remembers. *)
LEMMA RememberedIs ==
  ASSUME NEW q, NEW scan \in Scans, NEW i \in 1 .. Len(Records)
  PROVE  LET r == RememberPreroll(q, scan, i)
         IN  /\ r.frames = scan.frames /\ r.stopped = scan.stopped
             /\ CollectPreroll(q) /\ Records[i].stream = "snapshot" =>
                  r.anchor = i /\ r.pending = <<>> /\ ~r.emitted
             /\ CollectPreroll(q) /\ Records[i].stream # "snapshot" =>
                  /\ r.anchor = scan.anchor /\ r.emitted = scan.emitted
                  /\ r.pending = IF Records[i].stream = "depth" /\ scan.anchor # 0
                                    /\ Len(scan.pending) < MaxPreRoll
                                 THEN Append(scan.pending, i) ELSE scan.pending
             /\ ~CollectPreroll(q) => r.anchor = scan.anchor /\ r.emitted = scan.emitted
<1> DEFINE r == RememberPreroll(q, scan, i)
<1>0. MaxPreRoll \in Nat /\ Len(scan.pending) \in Nat
  BY SourceAssumption DEF Scans, Frames
<1>1. CASE CollectPreroll(q) /\ Records[i].stream = "snapshot"
  <2>1. r = [scan EXCEPT !.anchor = i, !.pending = <<>>, !.dropped = 0, !.emitted = FALSE]
    BY <1>1 DEF RememberPreroll
  <2> HIDE DEF r
  <2>2. r = [frames |-> scan.frames, anchor |-> i, pending |-> <<>>, emitted |-> FALSE,
             dropped |-> 0, stopped |-> scan.stopped]
    BY <2>1 DEF Scans
  <2> QED BY <1>1, <2>2 DEF r
<1>2. CASE CollectPreroll(q) /\ Records[i].stream = "depth" /\ scan.anchor # 0
  <2>1. CASE Len(scan.pending) >= MaxPreRoll
    <3>1. r = [scan EXCEPT !.dropped = @ + 1]
      BY <1>2, <2>1 DEF RememberPreroll
    <3> HIDE DEF r
    <3>2. r = [frames |-> scan.frames, anchor |-> scan.anchor, pending |-> scan.pending,
               emitted |-> scan.emitted, dropped |-> scan.dropped + 1, stopped |-> scan.stopped]
      BY <3>1 DEF Scans
    <3> QED BY <1>0, <1>2, <2>1, <3>2 DEF r
  <2>2. CASE ~(Len(scan.pending) >= MaxPreRoll)
    <3>1. r = [scan EXCEPT !.pending = Append(@, i)]
      BY <1>2, <2>2 DEF RememberPreroll
    <3> HIDE DEF r
    <3>2. r = [frames |-> scan.frames, anchor |-> scan.anchor, pending |-> Append(scan.pending, i),
               emitted |-> scan.emitted, dropped |-> scan.dropped, stopped |-> scan.stopped]
      BY <3>1 DEF Scans
    <3> QED BY <1>0, <1>2, <2>2, <3>2 DEF r
  <2> QED BY <2>1, <2>2
<1>3. CASE ~CollectPreroll(q) \/ (Records[i].stream # "snapshot"
                                 /\ ~(Records[i].stream = "depth" /\ scan.anchor # 0))
  <2>1. r = scan
    BY <1>3 DEF RememberPreroll
  <2> HIDE DEF r
  <2> QED BY <1>3, <2>1 DEF r
<1> QED BY <1>1, <1>2, <1>3

LEMMA RemembersNext ==
  ASSUME NEW q, CollectPreroll(q), NEW i \in 1 .. Len(Records), NEW scan \in Scans,
         NEW B \in SUBSET (1 .. (i - 1)), Remembers(scan, B),
         Between(scan.pending, scan.anchor, i - 1), scan.anchor < i
  PROVE  Remembers(RememberPreroll(q, scan, i), B \cup {i})
<1> DEFINE r == RememberPreroll(q, scan, i)
           C == B \cup {i}
<1>1. /\ i \in Nat /\ \A k \in C : k \in B \/ k = i
      /\ B \subseteq C /\ i \in C /\ i \notin B /\ \A k \in B : k < i /\ k \in Int
      /\ Records[i].stream \in {"snapshot", "depth", "trade"}
      /\ MaxPreRoll \in Nat /\ Len(scan.pending) \in Nat /\ Len(<<>>) = 0
      /\ scan.anchor \in Int /\ scan.pending \in Frames
      /\ DOMAIN scan.pending = 1 .. Len(scan.pending)
      /\ \A k \in DOMAIN scan.pending : scan.pending[k] \in Int
  <2>1. Len(Records) \in Nat /\ Records[i].stream \in {"snapshot", "depth", "trade"}
    BY TheCapture
  <2>2. i \in Nat /\ \A k \in B : k < i /\ k \in Int
    <3>1. i \in Nat
      BY <2>1
    <3>2. \A k \in B : k \in 1 .. (i - 1)
      OBVIOUS
    <3> QED BY <3>1, <3>2
  <2>3. /\ \A k \in C : k \in B \/ k = i
        /\ B \subseteq C /\ i \in C /\ i \notin B
    BY <2>2
  <2>4. scan.anchor \in Int /\ scan.pending \in Frames
    BY <2>1 DEF Scans, Frames
  <2>5. /\ DOMAIN scan.pending = 1 .. Len(scan.pending) /\ Len(scan.pending) \in Nat
        /\ \A k \in DOMAIN scan.pending : scan.pending[k] \in Int
    <3>1. scan.pending \in Seq(1 .. Len(Records))
      BY <2>4 DEF Frames
    <3> QED BY <2>1, <3>1
  <2>6. MaxPreRoll \in Nat /\ Len(<<>>) = 0
    BY SourceAssumption
  <2> QED BY <2>1, <2>2, <2>3, <2>4, <2>5, <2>6
<1>2. /\ Records[i].stream = "snapshot" => r.anchor = i /\ r.pending = <<>>
      /\ Records[i].stream # "snapshot" =>
           /\ r.anchor = scan.anchor
           /\ r.pending = IF Records[i].stream = "depth" /\ scan.anchor # 0
                             /\ Len(scan.pending) < MaxPreRoll
                          THEN Append(scan.pending, i) ELSE scan.pending
  BY RememberedIs
<1> HIDE DEF r, C
<1>3. CASE Records[i].stream = "snapshot"
  <2>1. Newest(C) = {i}
    <3>1. \A b \in C : ~(b > i)
      <4>1. \A b \in C : b = i \/ (b \in Int /\ b < i)
        BY <1>1
      <4> QED BY <1>1, <4>1
    <3>2. \A a \in C : a # i => i > a
      BY <1>1
    <3>3. i \in Newest(C)
      BY <1>1, <1>3, <3>1 DEF Newest
    <3>4. \A a \in Newest(C) : a = i
      BY <1>1, <1>3, <3>2 DEF Newest
    <3> QED BY <3>3, <3>4
  <2>2. Deltas(C) = {}
    <3>1. \A d \in C : ~(i < d)
      BY <1>1
    <3>2. \A d \in C : ~(\E a \in Newest(C) : a < d)
      BY <2>1, <3>1
    <3> QED BY <3>2 DEF Deltas
  <2>3. Range(r.pending) = {}
    BY <1>2, <1>3 DEF Range
  <2>4. Len(r.pending) = 0
    BY <1>1, <1>2, <1>3
  <2>5. Remembers(r, C)
    BY <1>1, <1>2, <1>3, <2>1, <2>2, <2>3, <2>4 DEF Remembers, Leads
  <2> QED BY <2>5 DEF r, C
<1>4. CASE Records[i].stream # "snapshot"
  <2>1. Newest(C) = Newest(B)
    BY <1>1, <1>4 DEF Newest
  <2>2. Newest(B) = IF scan.anchor = 0 THEN {} ELSE {scan.anchor}
    BY DEF Remembers
  <2>3. CASE scan.anchor = 0
    <3>1. Remembers(r, C)
      BY <1>2, <1>4, <2>1, <2>2, <2>3 DEF Remembers
    <3> QED BY <3>1 DEF r, C
  <2>4. CASE scan.anchor # 0
    <3>1. /\ Range(scan.pending) \subseteq Deltas(B) /\ Len(scan.pending) <= MaxPreRoll
          /\ Len(scan.pending) < MaxPreRoll => Deltas(B) \subseteq Range(scan.pending)
          /\ Leads(Range(scan.pending), Deltas(B))
      BY <2>4 DEF Remembers
    <3>2. Deltas(C) = IF Records[i].stream = "depth" THEN Deltas(B) \cup {i} ELSE Deltas(B)
      <4>1. scan.anchor \in Newest(B) /\ scan.anchor < i
        BY <2>2, <2>4
      <4> QED BY <1>1, <2>1, <4>1 DEF Deltas
    <3>3. \A d \in Deltas(B) : d \in Int /\ d < i
      BY <1>1 DEF Deltas
    <3>4. CASE Records[i].stream = "depth" /\ Len(scan.pending) < MaxPreRoll
      <4>1. r.pending = Append(scan.pending, i)
        BY <1>2, <1>4, <2>4, <3>4
      <4>2. Range(Append(scan.pending, i)) = Range(scan.pending) \cup {i}
        <5>1. /\ DOMAIN Append(scan.pending, i) = 1 .. (Len(scan.pending) + 1)
              /\ Append(scan.pending, i)[Len(scan.pending) + 1] = i
              /\ \A k \in DOMAIN scan.pending : Append(scan.pending, i)[k] = scan.pending[k]
          BY <1>1 DEF Frames
        <5>2. \A k \in 1 .. (Len(scan.pending) + 1) :
                k \in DOMAIN scan.pending \/ k = Len(scan.pending) + 1
          BY <1>1
        <5>3. \A k \in DOMAIN scan.pending : k \in 1 .. (Len(scan.pending) + 1)
          BY <1>1
        <5>4. Len(scan.pending) + 1 \in 1 .. (Len(scan.pending) + 1)
          BY <1>1
        <5> DEFINE t == Append(scan.pending, i)
        <5> HIDE DEF t
        <5>5. DOMAIN t = 1 .. (Len(scan.pending) + 1)
          BY <5>1 DEF t
        <5>6. \A x \in Range(t) : x \in Range(scan.pending) \/ x = i
          BY <5>1, <5>2, <5>5 DEF t, Range
        <5>7. i \in Range(t)
          BY <5>1, <5>4, <5>5 DEF t, Range
        <5>8. \A x \in Range(scan.pending) : x \in Range(t)
          BY <5>1, <5>3, <5>5 DEF t, Range
        <5> QED BY <5>6, <5>7, <5>8 DEF t
      <4>3. Len(Append(scan.pending, i)) = Len(scan.pending) + 1
        BY <1>1 DEF Frames
      <4>4. Range(scan.pending) = Deltas(B)
        BY <3>1, <3>4
      <4>5. Range(r.pending) = Deltas(C) /\ Len(r.pending) <= MaxPreRoll
        BY <1>1, <3>2, <3>4, <4>1, <4>2, <4>3, <4>4
      <4>6. r.anchor = scan.anchor
        BY <1>2, <1>4
      <4>7. Remembers(r, C)
        BY <2>1, <2>2, <2>4, <4>5, <4>6 DEF Remembers, Leads
      <4> QED BY <4>7 DEF r, C
    <3>5. CASE ~(Records[i].stream = "depth" /\ Len(scan.pending) < MaxPreRoll)
      <4>1. r.pending = scan.pending /\ r.anchor = scan.anchor
        BY <1>2, <1>4, <3>5
      <4>2. Leads(Range(scan.pending), Deltas(C))
        <5> SUFFICES ASSUME NEW p \in Range(scan.pending) \cap Deltas(C), NEW e \in Deltas(C), e < p
                     PROVE  e \in Range(scan.pending)
          BY DEF Leads
        <5>1. p \in Deltas(B) /\ e \in Deltas(B)
          BY <1>1, <3>1, <3>2, <3>3
        <5> QED BY <3>1, <5>1 DEF Leads
      <4>3. Range(scan.pending) \subseteq Deltas(C)
        BY <3>1, <3>2
      <4>4. Len(scan.pending) < MaxPreRoll => Deltas(C) \subseteq Range(scan.pending)
        BY <3>1, <3>2, <3>5
      <4>5. Remembers(r, C)
        BY <2>1, <2>2, <2>4, <3>1, <4>1, <4>2, <4>3, <4>4 DEF Remembers
      <4> QED BY <4>5 DEF r, C
    <3> QED BY <3>4, <3>5
  <2> QED BY <2>3, <2>4
<1> QED BY <1>3, <1>4

LEMMA RangeOfBoth ==
  ASSUME NEW s \in Frames, NEW t \in Frames
  PROVE  Range(s \o t) = Range(s) \cup Range(t)
<1> DEFINE u == s \o t
<1>1. /\ DOMAIN u = 1 .. (Len(s) + Len(t)) /\ Len(s) \in Nat /\ Len(t) \in Nat
      /\ DOMAIN s = 1 .. Len(s) /\ DOMAIN t = 1 .. Len(t)
      /\ \A k \in DOMAIN s : u[k] = s[k]
      /\ \A k \in DOMAIN t : u[Len(s) + k] = t[k]
  BY DEF Frames
<1> HIDE DEF u
<1>2. /\ \A k \in DOMAIN s : k \in DOMAIN u
      /\ \A k \in DOMAIN t : Len(s) + k \in DOMAIN u
      /\ \A k \in DOMAIN u : k \in DOMAIN s
                             \/ (k - Len(s) \in DOMAIN t /\ Len(s) + (k - Len(s)) = k)
  BY <1>1
<1>3. \A x \in Range(u) : x \in Range(s) \/ x \in Range(t)
  <2> SUFFICES ASSUME NEW k \in DOMAIN u PROVE u[k] \in Range(s) \/ u[k] \in Range(t)
    BY DEF Range
  <2>1. CASE k \in DOMAIN s
    BY <1>1, <2>1 DEF Range
  <2>2. CASE k - Len(s) \in DOMAIN t /\ Len(s) + (k - Len(s)) = k
    <3>1. u[k] = t[k - Len(s)]
      BY <1>1, <2>2
    <3> QED BY <2>2, <3>1 DEF Range
  <2> QED BY <1>2, <2>1, <2>2
<1>4. \A x \in Range(s) : x \in Range(u)
  BY <1>1, <1>2 DEF Range
<1>5. \A x \in Range(t) : x \in Range(u)
  <2> SUFFICES ASSUME NEW k \in DOMAIN t PROVE t[k] \in Range(u)
    BY DEF Range
  <2> QED BY <1>1, <1>2 DEF Range
<1> QED BY <1>3, <1>4, <1>5 DEF u

(* What a drain adds to a page: the pre-roll, from its first frame on.     *)
LEMMA DrainedAll ==
  ASSUME NEW q \in Queries(Nat \ {0}), NEW i \in 0 .. Len(Records), NEW scan,
         Scanned(q, scan, i), CollectPreroll(q), ~scan.emitted, scan.anchor # 0
  PROVE  LET d == DrainPreroll(q, scan)
             S == {scan.anchor} \cup Range(scan.pending)
         IN  /\ d.anchor # 0 /\ d.emitted
             /\ \E T \in SUBSET S : Range(d.frames) = Range(scan.frames) \cup T /\ Leads(T, S)
<1> DEFINE d == DrainPreroll(q, scan)
           run == <<scan.anchor>> \o scan.pending
           room == q.limit - Len(scan.frames)
           take == IF Len(run) <= room THEN run ELSE SubSeq(run, 1, room)
           S == {scan.anchor} \cup Range(scan.pending)
<1>1. /\ scan \in Scans /\ scan.pending \in Frames /\ scan.anchor \in 1 .. Len(Records)
      /\ room \in Nat /\ Increasing(scan.pending) /\ scan.frames \in Frames
      /\ Between(scan.pending, scan.anchor, i) /\ Len(scan.pending) \in Nat
  BY TheCapture DEF Scanned, Scans, Queries, Frames
<1>2. /\ run \in Frames /\ Len(run) = Len(scan.pending) + 1 /\ run[1] = scan.anchor
      /\ \A k \in 2 .. Len(run) : run[k] = scan.pending[k - 1]
  BY <1>1 DEF Frames
<1>3. DOMAIN run = 1 .. Len(run) /\ DOMAIN scan.pending = 1 .. Len(scan.pending)
  BY <1>1 DEF Frames
<1>4. /\ \A k \in DOMAIN run : run[k] \in S
      /\ \A x \in S : \E k \in DOMAIN run : run[k] = x
  <2>1. \A k \in DOMAIN run : k = 1 \/ (k \in 2 .. Len(run) /\ k - 1 \in DOMAIN scan.pending)
    BY <1>1, <1>2, <1>3
  <2>2. \A k \in DOMAIN scan.pending : k + 1 \in 2 .. Len(run) /\ (k + 1) - 1 = k
                                       /\ k + 1 \in DOMAIN run
    BY <1>1, <1>2, <1>3
  <2>3. 1 \in DOMAIN run
    BY <1>1, <1>2, <1>3
  <2>4. \A x : x \in S <=> x = scan.anchor \/ \E k \in DOMAIN scan.pending : scan.pending[k] = x
    BY DEF Range
  <2> HIDE DEF run, S
  <2>5. \A k \in DOMAIN run : run[k] \in S
    BY <1>2, <2>1, <2>4
  <2>6. ASSUME NEW x \in S PROVE \E k \in DOMAIN run : run[k] = x
    <3>1. CASE x = scan.anchor
      BY <1>2, <2>3, <3>1
    <3>2. ASSUME NEW k \in DOMAIN scan.pending, scan.pending[k] = x
          PROVE  \E m \in DOMAIN run : run[m] = x
      <4>1. run[k + 1] = scan.pending[(k + 1) - 1] /\ k + 1 \in DOMAIN run /\ (k + 1) - 1 = k
        BY <1>2, <2>2
      <4> QED BY <3>2, <4>1
    <3> QED BY <2>4, <3>1, <3>2
  <2> QED BY <2>5, <2>6
<1>5. Increasing(run)
  <2> HIDE DEF run
  <2> SUFFICES ASSUME NEW a \in DOMAIN run, NEW b \in DOMAIN run, a < b PROVE run[a] < run[b]
    BY DEF Increasing
  <2>1. b \in 2 .. Len(run) /\ b - 1 \in DOMAIN scan.pending /\ run[b] = scan.pending[b - 1]
    BY <1>1, <1>2, <1>3
  <2>2. CASE a = 1
    BY <1>1, <1>2, <2>1, <2>2 DEF Between
  <2>3. CASE a # 1
    <3>1. a \in 2 .. Len(run) /\ a - 1 \in DOMAIN scan.pending /\ a - 1 < b - 1
      BY <1>1, <1>2, <1>3, <2>3
    <3> QED BY <1>1, <1>2, <2>1, <3>1 DEF Increasing
  <2> QED BY <2>2, <2>3
<1>6. \E n \in 0 .. Len(run) : DOMAIN take = 1 .. n /\ \A k \in 1 .. n : take[k] = run[k]
  <2> HIDE DEF run
  <2>1. CASE Len(run) <= room
    <3>1. Len(run) \in Nat
      BY <1>1, <1>2
    <3>2. Len(run) \in 0 .. Len(run) /\ take = run
      BY <2>1, <3>1
    <3> HIDE DEF take
    <3>3. DOMAIN take = 1 .. Len(run) /\ \A k \in 1 .. Len(run) : take[k] = run[k]
      BY <1>3, <3>2, Zenon
    <3> QED BY <3>2, <3>3, Zenon
  <2>2. CASE ~(Len(run) <= room)
    <3>1. room \in 0 .. Len(run) /\ take = SubSeq(run, 1, room)
      BY <1>1, <1>2, <2>2
    <3> QED BY <1>2, <1>5, <3>1, Prefix
  <2> QED BY <2>1, <2>2
<1>7. d = [scan EXCEPT !.frames = @ \o take, !.emitted = TRUE,
                       !.dropped = @ + Len(run) - Len(take)]
  BY <1>1 DEF DrainPreroll
<1>8. take \in Frames
  <2> HIDE DEF run, room
  <2>1. take = run \/ (take = SubSeq(run, 1, room) /\ ~(Len(run) <= room))
    OBVIOUS
  <2>2. ~(Len(run) <= room) => room \in 0 .. Len(run)
    BY <1>1, <1>2
  <2> QED BY <1>2, <1>5, <2>1, <2>2, Prefix
<1> HIDE DEF d, take, run, S
<1>9. d.frames = scan.frames \o take /\ d.anchor = scan.anchor /\ d.emitted
  BY <1>1, <1>7, <1>8 DEF Scans
<1>10. \A x \in Range(take) : \E k \in DOMAIN take : take[k] = x
  BY DEF Range
<1>11. \A k \in DOMAIN take : take[k] \in Range(take)
  BY DEF Range
<1>12. PICK n \in 0 .. Len(run) : DOMAIN take = 1 .. n /\ \A k \in 1 .. n : take[k] = run[k]
  BY <1>6
<1>13. Range(take) \subseteq S
  BY <1>1, <1>2, <1>3, <1>4, <1>10, <1>12
<1>14. Leads(Range(take), S)
  <2> SUFFICES ASSUME NEW x \in Range(take) \cap S, NEW y \in S, y < x PROVE y \in Range(take)
    BY DEF Leads
  <2>1. PICK a \in DOMAIN take : take[a] = x
    BY <1>10
  <2>2. PICK b \in DOMAIN run : run[b] = y
    BY <1>4
  <2>3. a \in DOMAIN run /\ run[a] = x /\ x \in Int /\ y \in Int /\ a \in Int /\ b \in Int
    <3>1. \A k \in DOMAIN run : run[k] \in Int /\ k \in Int
      <4>1. run \in Frames /\ DOMAIN run = 1 .. Len(run)
        BY <1>2, <1>3
      <4> QED BY <4>1, TheCapture DEF Frames
    <3>2. n \in Int /\ n <= Len(run) /\ Len(run) \in Nat
      BY <1>1, <1>2, <1>12
    <3>3. a \in 1 .. n /\ a \in DOMAIN run /\ take[a] = run[a]
      BY <1>3, <1>12, <2>1, <3>2
    <3> QED BY <2>1, <2>2, <3>1, <3>3
  <2>4. ~(a <= b)
    BY <1>5, <2>1, <2>2, <2>3 DEF Increasing
  <2>5. b \in DOMAIN take
    BY <1>3, <1>12, <2>2, <2>3, <2>4
  <2> QED BY <1>11, <1>12, <2>2, <2>5
<1>15. Range(d.frames) = Range(scan.frames) \cup Range(take)
  BY <1>1, <1>8, <1>9, RangeOfBoth
<1>16. scan.anchor # 0
  OBVIOUS
<1> QED BY <1>9, <1>13, <1>14, <1>15, <1>16 DEF d, S

(* What a scan is after a record that is not before the watermark.         *)
LEMMA VisitedIs ==
  ASSUME NEW q \in Queries(Nat \ {0}), NEW i \in 1 .. Len(Records), NEW scan,
         Scanned(q, scan, i - 1), ~scan.stopped, i > q.after
  PROVE  LET v == Visit(q, scan, i)
             d == DrainPreroll(q, scan)
         IN  /\ Records[i].at < q.startAt => v = RememberPreroll(q, scan, i)
             /\ ~(Records[i].at < q.startAt) /\ Records[i].at > q.through =>
                  IF q.through < Until THEN v.frames = d.frames /\ v.stopped ELSE v = scan
             /\ ~(Records[i].at < q.startAt) /\ ~(Records[i].at > q.through) =>
                  \/ v.stopped /\ v.frames = d.frames
                  \/ /\ v.frames = Append(d.frames, i) /\ v.pending = d.pending
                     /\ v.anchor = d.anchor /\ v.emitted = d.emitted
<1> DEFINE v == Visit(q, scan, i)
           d == DrainPreroll(q, scan)
           pushed == [d EXCEPT !.frames = Append(@, i)]
           full == [pushed EXCEPT !.frames = SubSeq(@, 1, q.limit), !.stopped = TRUE]
           halted == IF WaitsForFuture(q) THEN [d EXCEPT !.stopped = TRUE] ELSE scan
           grown == IF Len(pushed.frames) <= q.limit THEN pushed ELSE full
<1>0. v = IF scan.stopped \/ i <= q.after THEN scan
          ELSE IF Records[i].at < q.startAt THEN RememberPreroll(q, scan, i)
          ELSE IF Records[i].at > q.through THEN halted ELSE grown
  BY Zenon DEF Visit
<1> HIDE DEF v, halted, grown
<1>1. /\ d \in Scans /\ Len(d.frames) <= q.limit /\ q.limit \in Nat \ {0} /\ q.after \in Nat
      /\ i \in Nat
  <2>1. i - 1 \in 0 .. Len(Records)
    BY TheCapture
  <2> QED BY <2>1, DrainedScan, TheCapture DEF Queries
<1>2. ~(i <= q.after)
  BY <1>1
<1>3. CASE Records[i].at < q.startAt
  BY <1>0, <1>2, <1>3 DEF v
<1> HIDE DEF d
<1>4. CASE ~(Records[i].at < q.startAt) /\ Records[i].at > q.through
  <2>1. v = halted
    BY <1>0, <1>2, <1>4
  <2>2. CASE q.through < Until
    <3>1. v = [d EXCEPT !.stopped = TRUE]
      BY <2>1, <2>2 DEF halted, WaitsForFuture
    <3>2. v.frames = d.frames /\ v.stopped
      BY <1>1, <3>1 DEF Scans
    <3> QED BY <1>4, <2>2, <3>2 DEF v, d
  <2>3. CASE ~(q.through < Until)
    BY <1>4, <2>1, <2>3 DEF halted, WaitsForFuture, v
  <2> QED BY <2>2, <2>3
<1>5. CASE ~(Records[i].at < q.startAt) /\ ~(Records[i].at > q.through)
  <2>1. v = IF Len(pushed.frames) <= q.limit THEN pushed ELSE full
    BY <1>0, <1>2, <1>5 DEF grown
  <2>0. pushed = [d EXCEPT !.frames = Append(@, i)]
    OBVIOUS
  <2> HIDE DEF pushed
  <2>2. pushed = [frames |-> Append(d.frames, i), anchor |-> d.anchor, pending |-> d.pending,
                  emitted |-> d.emitted, dropped |-> d.dropped, stopped |-> d.stopped]
    BY <1>1, <2>0 DEF Scans
  <2>3. CASE Len(pushed.frames) <= q.limit
    BY <1>5, <2>1, <2>2, <2>3 DEF v, d
  <2>4. CASE ~(Len(pushed.frames) <= q.limit)
    <3>1. d.frames \in Frames
      BY <1>1 DEF Scans
    <3>2. Len(Append(d.frames, i)) = Len(d.frames) + 1 /\ Len(d.frames) \in Nat
      BY <3>1 DEF Frames
    <3>3. Len(d.frames) = q.limit
      BY <1>1, <2>2, <2>4, <3>2
    <3>4. SubSeq(Append(d.frames, i), 1, q.limit) = d.frames
      BY <3>1, <3>3, <1>1 DEF Frames
    <3>5. v = [pushed EXCEPT !.frames = SubSeq(@, 1, q.limit), !.stopped = TRUE]
      BY <2>1, <2>4
    <3>6. v.frames = d.frames /\ v.stopped
      BY <2>2, <3>4, <3>5
    <3> QED BY <1>5, <3>6 DEF v, d
  <2> QED BY <2>3, <2>4
<1> QED BY <1>3, <1>4, <1>5

(* What a query is to find: the pre-roll if it opens a page after a seek,  *)
(* and the records of the range after its cursor, of the first i.          *)
LiveIn(q, i) == {j \in LiveFrames(q.startAt) : q.after < j /\ j <= i}
Opening(q) == IF CollectPreroll(q) THEN PreRollFrames(q.startAt) ELSE {}

Covered(q, frames, i) ==
  /\ Range(frames) \subseteq Opening(q) \cup LiveIn(q, i)
  /\ Leads(Range(frames), Opening(q)) /\ Leads(Range(frames), LiveIn(q, Len(Records)))

(* While the pre-roll is collected nothing is emitted: until a record of   *)
(* the range, or past records that lie behind it.                          *)
Collecting(q, scan, i) ==
  /\ CollectPreroll(q) /\ scan.frames = <<>> /\ ~scan.emitted /\ LiveIn(q, i) = {}
  /\ Remembers(scan, Early(q.startAt, i))
  /\ \/ Early(q.startAt, i) = 1 .. i
     \/ \E j \in 1 .. i : Records[j].at > Until

(* From then on every record of the range is delivered. *)
Delivering(q, scan, i) ==
  /\ scan.emitted \/ scan.anchor = 0
  /\ CollectPreroll(q) => \E j \in 1 .. i : Records[j].at >= q.startAt
  /\ LiveIn(q, i) \subseteq Range(scan.frames)

Covers(q, scan, i) ==
  /\ Covered(q, scan.frames, i)
  /\ scan.stopped \/ Collecting(q, scan, i) \/ Delivering(q, scan, i)

LEMMA StartCovers ==
  ASSUME NEW q \in Queries(Nat \ {0}) PROVE Covers(q, Start, 0)
<1>1. /\ Start.frames = <<>> /\ Start.pending = <<>> /\ Start.anchor = 0
      /\ ~Start.emitted /\ Range(<<>>) = {}
  BY DEF Start, Range
<1>2. LiveIn(q, 0) = {}
  BY TheCapture DEF LiveIn, LiveFrames
<1>3. Covered(q, Start.frames, 0)
  BY <1>1 DEF Covered, Leads
<1>4. CASE CollectPreroll(q)
  <2>1. Early(q.startAt, 0) = {} /\ 1 .. 0 = {}
    BY DEF Early
  <2>2. Newest({}) = {}
    BY DEF Newest
  <2> QED BY <1>1, <1>2, <1>3, <1>4, <2>1, <2>2 DEF Covers, Collecting, Remembers
<1>5. CASE ~CollectPreroll(q)
  BY <1>1, <1>2, <1>3, <1>5 DEF Covers, Delivering
<1> QED BY <1>4, <1>5

LEMMA OpeningIsEarly ==
  ASSUME NEW q \in Queries(Nat \ {0}), NEW p \in Opening(q), NEW i
  PROVE  p \notin LiveIn(q, i) /\ \A l \in LiveIn(q, i) : p < l
BY PreRollComesFirst DEF Opening, LiveIn, Queries

(* The scan drained: at a record not before the watermark, or at the end.  *)
LEMMA DrainCovers ==
  ASSUME NEW q \in Queries(Nat \ {0}), NEW i \in 0 .. Len(Records), NEW scan,
         Scanned(q, scan, i), Covers(q, scan, i), ~scan.stopped,
         Early(q.startAt, i) = Early(q.startAt, Len(Records))
  PROVE  LET d == DrainPreroll(q, scan)
         IN  /\ Covered(q, d.frames, i) /\ LiveIn(q, i) \subseteq Range(d.frames)
             /\ d.emitted \/ d.anchor = 0
<1> DEFINE d == DrainPreroll(q, scan)
<1>1. CASE scan.emitted \/ scan.anchor = 0 \/ ~CollectPreroll(q)
  <2>1. d = scan
    BY <1>1 DEF DrainPreroll
  <2>2. scan.emitted \/ scan.anchor = 0
    BY <1>1 DEF Scanned
  <2>3. Covered(q, scan.frames, i) /\ LiveIn(q, i) \subseteq Range(scan.frames)
    BY DEF Covers, Collecting, Delivering
  <2> QED BY <2>1, <2>2, <2>3
<1>2. CASE ~scan.emitted /\ scan.anchor # 0 /\ CollectPreroll(q)
  <2>1. /\ scan.frames = <<>> /\ LiveIn(q, i) = {} /\ Remembers(scan, Early(q.startAt, i))
    BY <1>2 DEF Covers, Collecting, Delivering
  <2> DEFINE S == {scan.anchor} \cup Range(scan.pending)
  <2>2. Range(d.frames) \subseteq S /\ Leads(Range(d.frames), S) /\ d.emitted
    <3>1. Range(scan.frames) = {}
      BY <2>1 DEF Range
    <3>2. /\ d.emitted
          /\ \E T \in SUBSET S : Range(d.frames) = Range(scan.frames) \cup T /\ Leads(T, S)
      BY <1>2, DrainedAll
    <3> HIDE DEF S, d
    <3> QED BY <3>1, <3>2
  <2>3. Opening(q) = S
    <3>1. Early(q.startAt, i) \in SUBSET (1 .. Len(Records))
      BY TheCapture DEF Early
    <3>2. scan.pending \in Frames /\ Increasing(scan.pending)
      BY DEF Scanned, Scans
    <3>3. PreRollOf(Early(q.startAt, i)) = S
      BY <1>2, <2>1, <3>1, <3>2, RememberedIsPreRoll
    <3> QED BY <1>2, <3>3, PreRollIs DEF Opening, PreRollFrames
  <2> HIDE DEF d, S
  <2>4. Leads(Range(d.frames), LiveIn(q, Len(Records)))
    <3>1. Range(d.frames) \cap LiveIn(q, Len(Records)) = {}
      BY <2>2, <2>3, OpeningIsEarly
    <3> QED BY <3>1 DEF Leads
  <2> QED BY <2>1, <2>2, <2>3, <2>4 DEF Covered, d
<1> QED BY <1>1, <1>2

LEMMA RangeOfAppend ==
  ASSUME NEW s \in Frames, NEW x
  PROVE  Range(Append(s, x)) = Range(s) \cup {x}
<1> DEFINE t == Append(s, x)
<1>1. /\ DOMAIN t = 1 .. (Len(s) + 1) /\ t[Len(s) + 1] = x /\ Len(s) \in Nat
      /\ \A k \in DOMAIN s : t[k] = s[k] /\ k \in DOMAIN t
      /\ DOMAIN s = 1 .. Len(s)
  BY DEF Frames
<1> HIDE DEF t
<1>2. \A k \in DOMAIN t : k \in DOMAIN s \/ k = Len(s) + 1
  BY <1>1
<1>3. Len(s) + 1 \in DOMAIN t
  BY <1>1
<1>4. \A y \in Range(t) : y \in Range(s) \/ y = x
  BY <1>1, <1>2 DEF Range
<1>5. x \in Range(t) /\ \A y \in Range(s) : y \in Range(t)
  BY <1>1, <1>3 DEF Range
<1> QED BY <1>4, <1>5 DEF t

LEMMA VisitCovers ==
  ASSUME SteadyClock, NEW q \in Queries(Nat \ {0}), NEW i \in 1 .. Len(Records), NEW scan,
         Scanned(q, scan, i - 1), Covers(q, scan, i - 1)
  PROVE  Covers(q, Visit(q, scan, i), i)
<1> DEFINE v == Visit(q, scan, i)
           d == DrainPreroll(q, scan)
<1>0. /\ i \in Nat /\ i - 1 \in 0 .. Len(Records) /\ q.after \in Nat /\ q.startAt \in Nat
      /\ q.startAt <= Until /\ q.through <= Until /\ q.through \in Nat /\ Until \in Nat
      /\ Records[i].at \in Nat /\ Len(Records) \in Nat /\ scan \in Scans
      /\ i \in DOMAIN Records /\ i \in 1 .. i
  BY TheCapture, SourceAssumption DEF Queries, Scanned
<1>1. /\ \A j \in 1 .. (i - 1) : j \in 1 .. i /\ j \in DOMAIN Records /\ j < i
                                 /\ Records[j].at \in Nat
      /\ \A j \in 1 .. i : j \in 1 .. (i - 1) \/ j = i
  BY <1>0, TheCapture
<1>2. \A j : j \in LiveIn(q, i) <=> j \in LiveIn(q, i - 1) \/ (j = i /\ i \in LiveIn(q, i))
  <2>1. \A j \in LiveFrames(q.startAt) : j \in Nat
    BY TheCapture DEF LiveFrames
  <2> QED BY <1>0, <2>1 DEF LiveIn
<1>3. ASSUME NEW frames, Covered(q, frames, i - 1) PROVE Covered(q, frames, i)
  BY <1>2, <1>3 DEF Covered
<1>4. Covered(q, scan.frames, i)
  BY <1>3 DEF Covers
<1>5. CASE scan.stopped
  <2>1. v = scan
    BY <1>5 DEF Visit
  <2> QED BY <1>4, <1>5, <2>1 DEF Covers
<1>6. CASE ~scan.stopped /\ i <= q.after
  <2>1. v = scan
    BY <1>6 DEF Visit
  <2>2. ~CollectPreroll(q) /\ LiveIn(q, i) = {}
    <3>1. \A j \in LiveFrames(q.startAt) : j \in Nat
      BY TheCapture DEF LiveFrames
    <3> QED BY <1>0, <1>6, <3>1 DEF CollectPreroll, LiveIn
  <2> QED BY <1>4, <1>6, <2>1, <2>2 DEF Covers, Collecting, Delivering
<1>7. CASE ~scan.stopped /\ i > q.after /\ Records[i].at < q.startAt
  <2>1. v = RememberPreroll(q, scan, i)
    BY <1>7, VisitedIs
  <2>2. i \notin LiveIn(q, i)
    BY <1>0, <1>7 DEF LiveIn, LiveFrames
  <2>3. LiveIn(q, i) = LiveIn(q, i - 1)
    BY <1>2, <2>2
  <2> HIDE DEF v
  <2>4. CASE Collecting(q, scan, i - 1)
    <3>1. Early(q.startAt, i - 1) = 1 .. (i - 1)
      <4>1. ASSUME NEW j \in 1 .. (i - 1), Records[j].at > Until PROVE FALSE
        BY <1>0, <1>1, <1>7, <4>1 DEF SteadyClock
      <4> QED BY <2>4, <4>1 DEF Collecting
    <3>2. Early(q.startAt, i) = 1 .. i
      BY <1>0, <1>7, <3>1, EarlyGrows
    <3>3. Remembers(v, 1 .. i)
      <4>1. Between(scan.pending, scan.anchor, i - 1) /\ scan.anchor < i
        BY <1>0 DEF Scanned, Scans
      <4>2. /\ 1 .. (i - 1) \in SUBSET (1 .. (i - 1))
            /\ 1 .. i = (1 .. (i - 1)) \cup {i}
        BY <1>0
      <4>3. Remembers(scan, 1 .. (i - 1)) /\ CollectPreroll(q)
        BY <2>4, <3>1 DEF Collecting
      <4> QED BY <1>0, <2>1, <4>1, <4>2, <4>3, RemembersNext
    <3>4. v.frames = scan.frames /\ ~v.emitted
      BY <1>0, <2>1, <2>4, RememberedIs DEF Collecting
    <3>5. Collecting(q, v, i)
      BY <2>3, <2>4, <3>2, <3>3, <3>4 DEF Collecting
    <3>6. Covered(q, v.frames, i)
      BY <1>4, <3>4
    <3> QED BY <3>5, <3>6 DEF Covers, v
  <2>5. CASE Delivering(q, scan, i - 1)
    <3>1. ~(CollectPreroll(q) /\ Records[i].stream = "snapshot")
      <4>1. ASSUME NEW j \in 1 .. (i - 1), Records[j].at >= q.startAt,
                   Records[i].stream = "snapshot"
            PROVE  FALSE
        <5>1. Records[j].at <= Records[i].at
          BY <1>0, <1>1, <4>1 DEF SteadyClock
        <5> QED BY <1>0, <1>1, <1>7, <4>1, <5>1
      <4> QED BY <2>5, <4>1 DEF Delivering
    <3>2. v.frames = scan.frames /\ v.anchor = scan.anchor /\ v.emitted = scan.emitted
      <4>1. CASE ~CollectPreroll(q)
        BY <1>0, <2>1, <4>1, RememberedIs
      <4>2. CASE CollectPreroll(q) /\ Records[i].stream # "snapshot"
        BY <1>0, <2>1, <4>2, RememberedIs
      <4> QED BY <3>1, <4>1, <4>2
    <3>3. Delivering(q, v, i)
      BY <1>1, <2>3, <2>5, <3>2 DEF Delivering
    <3>4. Covered(q, v.frames, i)
      BY <1>4, <3>2
    <3> QED BY <3>3, <3>4 DEF Covers, v
  <2> QED BY <1>7, <2>4, <2>5 DEF Covers
<1>8. CASE ~scan.stopped /\ i > q.after /\ ~(Records[i].at < q.startAt)
  <2>1. /\ Early(q.startAt, i - 1) = Early(q.startAt, Len(Records))
        /\ Early(q.startAt, i) = Early(q.startAt, i - 1)
    BY <1>0, <1>8, EarlyEnds
  <2>2. /\ Covered(q, d.frames, i - 1) /\ LiveIn(q, i - 1) \subseteq Range(d.frames)
        /\ d.emitted \/ d.anchor = 0
    BY <1>0, <1>8, <2>1, DrainCovers
  <2>3. d.frames \in Frames
    BY <1>0, DrainedScan DEF Scans
  <2>4. /\ Records[i].at > q.through =>
             IF q.through < Until THEN v.frames = d.frames /\ v.stopped ELSE v = scan
        /\ ~(Records[i].at > q.through) =>
             \/ v.stopped /\ v.frames = d.frames
             \/ /\ v.frames = Append(d.frames, i)
                /\ v.anchor = d.anchor /\ v.emitted = d.emitted
    BY <1>8, VisitedIs
  <2> HIDE DEF v, d
  <2>5. CASE v.frames = d.frames /\ v.stopped
    BY <1>3, <2>2, <2>5 DEF Covers, v
  <2>6. CASE Records[i].at > q.through /\ v = scan /\ ~(q.through < Until)
    <3>1. Records[i].at > Until
      BY <1>0, <2>6
    <3>2. LiveIn(q, i) = LiveIn(q, i - 1)
      <4>1. i \notin LiveIn(q, i)
        BY <1>0, <3>1 DEF LiveIn, LiveFrames
      <4> QED BY <1>2, <4>1
    <3>3. Collecting(q, scan, i - 1) => Collecting(q, scan, i)
      BY <1>0, <2>1, <3>1, <3>2 DEF Collecting
    <3>4. Delivering(q, scan, i - 1) => Delivering(q, scan, i)
      BY <1>1, <3>2 DEF Delivering
    <3> QED BY <1>4, <2>6, <3>3, <3>4 DEF Covers, v
  <2>7. CASE /\ ~(Records[i].at > q.through) /\ v.frames = Append(d.frames, i)
             /\ v.anchor = d.anchor /\ v.emitted = d.emitted
    <3>1. i \in LiveIn(q, i) /\ i \in LiveIn(q, Len(Records))
      BY <1>0, <1>8, <2>7 DEF LiveIn, LiveFrames
    <3>2. Range(v.frames) = Range(d.frames) \cup {i}
      BY <2>3, <2>7, RangeOfAppend
    <3>3. Covered(q, v.frames, i)
      <4>1. Range(v.frames) \subseteq Opening(q) \cup LiveIn(q, i)
        BY <1>2, <2>2, <3>1, <3>2 DEF Covered
      <4>2. Leads(Range(v.frames), Opening(q))
        <5>1. i \notin Opening(q)
          BY <3>1, OpeningIsEarly
        <5> QED BY <2>2, <3>2, <5>1 DEF Covered, Leads
      <4>3. Leads(Range(v.frames), LiveIn(q, Len(Records)))
        <5> SUFFICES ASSUME NEW k \in Range(v.frames) \cap LiveIn(q, Len(Records)),
                            NEW j \in LiveIn(q, Len(Records)), j < k
                     PROVE  j \in Range(v.frames)
          BY DEF Leads
        <5>1. CASE k \in Range(d.frames)
          BY <2>2, <3>2, <5>1 DEF Covered, Leads
        <5>2. CASE k = i
          <6>1. j \in Nat
            BY TheCapture DEF LiveIn, LiveFrames
          <6>2. j \in LiveIn(q, i - 1)
            BY <1>0, <5>2, <6>1 DEF LiveIn
          <6> QED BY <2>2, <3>2, <6>2
        <5> QED BY <3>2, <5>1, <5>2
      <4> QED BY <4>1, <4>2, <4>3 DEF Covered
    <3>4. Delivering(q, v, i)
      <4>1. LiveIn(q, i) \subseteq Range(v.frames)
        BY <1>2, <2>2, <3>2
      <4>2. Records[i].at >= q.startAt
        BY <1>0, <1>8
      <4> QED BY <1>0, <2>2, <2>7, <4>1, <4>2 DEF Delivering
    <3> QED BY <3>3, <3>4 DEF Covers, v
  <2> QED BY <2>4, <2>5, <2>6, <2>7
<1>9. i <= q.after \/ i > q.after
  BY <1>0
<1> QED BY <1>5, <1>6, <1>7, <1>8, <1>9

(* A page covers what its query asks for, up to its last frame.            *)
LEMMA PageCovers ==
  ASSUME SteadyClock, NEW q \in Queries(Nat \ {0})
  PROVE  Covered(q, Page(q).frames, Len(Records))
<1> DEFINE n == Len(Records)
           f == CHOOSE g : Loop(q, g)
           scanned == f[n]
           ended == DrainPreroll(q, scanned)
           T == {k \in 0 .. n : Scanned(q, f[k], k) /\ Covers(q, f[k], k)}
<1>1. Loop(q, f)
  BY LoopEnds
<1>2. Page(q) = IF scanned.stopped THEN [frames |-> scanned.frames, hasMore |-> TRUE]
                ELSE [frames |-> ended.frames, hasMore |-> ended.dropped > 0]
  BY Zenon DEF Page, Loop
<1> HIDE DEF f
<1>3. n \in Nat /\ n \in 0 .. n /\ 0 \in 0 .. n
  BY TheCapture
<1>4. f[0] = Start /\ \A k \in 1 .. n : f[k] = Visit(q, f[k - 1], k)
  <2>1. \A k \in 1 .. n : k \in 0 .. n /\ k # 0
    BY <1>3
  <2> QED BY <1>1, <1>3, <2>1 DEF Loop
<1>5. 0 \in T
  BY <1>3, <1>4, StartScanned, StartCovers
<1>6. ASSUME NEW k \in 1 .. n, k - 1 \in T PROVE k \in T
  BY <1>3, <1>4, <1>6, VisitedScan, VisitCovers
<1>7. 0 .. n \subseteq T
  <2> HIDE DEF T, n
  <2> QED BY <1>3, <1>5, <1>6, IntervalInduction
<1>8. Scanned(q, scanned, n) /\ Covers(q, scanned, n)
  BY <1>3, <1>7
<1>9. ~scanned.stopped => Covered(q, ended.frames, n)
  BY <1>3, <1>8, DrainCovers
<1> HIDE DEF scanned, ended
<1> QED BY <1>2, <1>8, <1>9 DEF Covers

-----------------------------------------------------------------------------
(* What a page holds whatever the clock does.                              *)

Olds(seek, i) == {k \in 1 .. i : Records[k].at < seek}

(* Gapless, for a query that goes on after a cursor.                       *)
Tight(q, frames) ==
  /\ \A x \in frames, j \in LiveIn(q, Len(Records)) : j < x => j \in frames
  /\ \A x \in frames \ LiveFrames(q.startAt) : PreRolled(x, frames, q.startAt)

Remembering(q, scan, i) == CollectPreroll(q) => Remembers(scan, Olds(q.startAt, i))

Unbroken(q, scan, i) ==
  /\ Tight(q, Range(scan.frames))
  /\ ~scan.stopped => LiveIn(q, i) \subseteq Range(scan.frames) /\ Remembering(q, scan, i)

LEMMA StillPreRolled ==
  ASSUME NEW d, NEW F, NEW G, NEW seek, F \subseteq G, PreRolled(d, F, seek)
  PROVE  PreRolled(d, G, seek)
BY DEF PreRolled

LEMMA RememberedFrames ==
  ASSUME NEW q, NEW scan \in Scans, NEW i
  PROVE  RememberPreroll(q, scan, i).frames = scan.frames
BY DEF RememberPreroll, Scans

LEMMA StartUnbroken ==
  ASSUME NEW q \in Queries(Nat \ {0}) PROVE Unbroken(q, Start, 0)
<1>1. Range(Start.frames) = {} /\ Start.anchor = 0
  BY DEF Start, Range
<1>2. LiveIn(q, 0) = {} /\ Olds(q.startAt, 0) = {} /\ Newest({}) = {}
  BY TheCapture DEF LiveIn, LiveFrames, Olds, Newest
<1> QED BY <1>1, <1>2 DEF Unbroken, Tight, Remembering, Remembers

(* The pre-roll that a drain adds is a run without a gap.                  *)
LEMMA RunPreRolled ==
  ASSUME NEW seek \in Nat, NEW i \in 0 .. Len(Records), NEW scan, scan.anchor # 0,
         Remembers(scan, Olds(seek, i)),
         NEW T \in SUBSET ({scan.anchor} \cup Range(scan.pending)),
         Leads(T, {scan.anchor} \cup Range(scan.pending)), NEW x \in T
  PROVE  PreRolled(x, T, seek) /\ x \in 1 .. i
<1> DEFINE B == Olds(seek, i)
           D == Deltas(B)
           P == Range(scan.pending)
           S == {scan.anchor} \cup P
<1>1. /\ Newest(B) = {scan.anchor} /\ P \subseteq D /\ Leads(P, D)
  BY DEF Remembers
<1>2. \A k : k \in B <=> k \in 1 .. i /\ Records[k].at < seek
  BY DEF Olds
<1>3. /\ scan.anchor \in B /\ Records[scan.anchor].stream = "snapshot"
      /\ \A b \in B : b > scan.anchor => Records[b].stream # "snapshot"
  BY <1>1 DEF Newest
<1>4. \A d : d \in D <=> d \in B /\ Records[d].stream = "depth" /\ scan.anchor < d
  BY <1>1 DEF Deltas
<1>5. \A k \in B : k \in Int
  BY <1>2, TheCapture
<1> HIDE DEF B, D, P
<1>6. CASE x = scan.anchor
  BY <1>2, <1>3, <1>6 DEF PreRolled
<1>7. CASE x \in P
  <2>1. x \in D /\ x \in B /\ Records[x].stream = "depth" /\ scan.anchor < x /\ x \in S
    BY <1>1, <1>4, <1>7
  <2>2. scan.anchor \in T
    BY <2>1 DEF Leads, P
  <2>3. ASSUME NEW k \in (scan.anchor + 1) .. (x - 1), Records[k].at < seek
        PROVE  Records[k].stream # "snapshot" /\ (Records[k].stream = "depth" => k \in T)
    <3>1. k \in Int /\ scan.anchor < k /\ k < x
      BY <1>3, <1>5, <2>1, <2>3
    <3>2. k \in 1 .. i
      BY <1>2, <1>3, <1>5, <2>1, <3>1, TheCapture
    <3>3. k \in B
      BY <1>2, <2>3, <3>2
    <3>4. Records[k].stream # "snapshot"
      BY <1>3, <1>5, <3>1, <3>3
    <3>5. ASSUME Records[k].stream = "depth" PROVE k \in T
      <4>1. k \in D
        BY <1>4, <3>1, <3>3, <3>5
      <4>2. k \in P
        BY <1>1, <1>7, <2>1, <3>1, <4>1 DEF Leads
      <4> QED BY <2>1, <3>1, <4>2 DEF Leads, P
    <3> QED BY <3>4, <3>5
  <2> QED BY <1>2, <1>3, <2>1, <2>2, <2>3 DEF PreRolled
<1> QED BY <1>6, <1>7 DEF P

LEMMA DrainUnbroken ==
  ASSUME NEW q \in Queries(Nat \ {0}), NEW i \in 0 .. Len(Records), NEW scan,
         Scanned(q, scan, i), Unbroken(q, scan, i), ~scan.stopped
  PROVE  LET d == DrainPreroll(q, scan)
         IN  /\ Tight(q, Range(d.frames)) /\ LiveIn(q, i) \subseteq Range(d.frames)
             /\ Remembering(q, d, i)
<1> DEFINE d == DrainPreroll(q, scan)
           F == Range(scan.frames)
           S == {scan.anchor} \cup Range(scan.pending)
<1>1. /\ Tight(q, F) /\ LiveIn(q, i) \subseteq F /\ Remembering(q, scan, i)
  BY DEF Unbroken
<1>2. d.anchor = scan.anchor /\ d.pending = scan.pending
  BY DrainedScan
<1>3. Remembering(q, d, i)
  <2> HIDE DEF d
  <2> QED BY <1>1, <1>2 DEF Remembering, Remembers
<1>4. CASE ~CollectPreroll(q) \/ scan.emitted \/ scan.anchor = 0
  <2>1. d = scan
    BY <1>4 DEF DrainPreroll
  <2> QED BY <1>1, <1>3, <2>1
<1>5. CASE CollectPreroll(q) /\ ~scan.emitted /\ scan.anchor # 0
  <2>1. PICK T \in SUBSET S : Range(d.frames) = F \cup T /\ Leads(T, S)
    BY <1>5, DrainedAll
  <2>2. q.startAt \in Nat /\ q.after = 0
    BY <1>5, SourceAssumption DEF Queries, CollectPreroll
  <2>3. Remembers(scan, Olds(q.startAt, i))
    BY <1>1, <1>5 DEF Remembering
  <2>4. ASSUME NEW x \in T PROVE PreRolled(x, T, q.startAt) /\ x \in 1 .. i
    BY <1>5, <2>1, <2>2, <2>3, <2>4, RunPreRolled
  <2> HIDE DEF d, F, S
  <2>5. ASSUME NEW x \in F \cup T, NEW j \in LiveIn(q, Len(Records)), j < x
        PROVE  j \in F \cup T
    <3>1. CASE x \in F
      BY <1>1, <2>5, <3>1 DEF Tight
    <3>2. CASE x \in T
      <4>1. x \in Int /\ x <= i
        BY <2>4, <3>2, TheCapture
      <4>2. j \in Int
        BY TheCapture DEF LiveIn, LiveFrames
      <4>3. j \in LiveIn(q, i)
        BY <2>5, <4>1, <4>2 DEF LiveIn
      <4> QED BY <1>1, <4>3
    <3> QED BY <2>5, <3>1, <3>2
  <2>6. ASSUME NEW x \in (F \cup T) \ LiveFrames(q.startAt)
        PROVE  PreRolled(x, F \cup T, q.startAt)
    <3>1. CASE x \in F
      <4>1. PreRolled(x, F, q.startAt)
        BY <1>1, <2>6, <3>1 DEF Tight
      <4> QED BY <4>1, StillPreRolled
    <3>2. CASE x \in T
      <4>1. PreRolled(x, T, q.startAt)
        BY <2>4, <3>2
      <4> QED BY <4>1, StillPreRolled
    <3> QED BY <2>6, <3>1, <3>2
  <2>7. Tight(q, F \cup T)
    BY <2>5, <2>6 DEF Tight
  <2> QED BY <1>1, <1>3, <2>1, <2>7 DEF d
<1> QED BY <1>4, <1>5

LEMMA VisitUnbroken ==
  ASSUME NEW q \in Queries(Nat \ {0}), NEW i \in 1 .. Len(Records), NEW scan,
         Scanned(q, scan, i - 1), Unbroken(q, scan, i - 1)
  PROVE  Unbroken(q, Visit(q, scan, i), i)
<1> DEFINE v == Visit(q, scan, i)
           d == DrainPreroll(q, scan)
<1>0. /\ i \in Nat /\ i - 1 \in 0 .. Len(Records) /\ q.after \in Nat /\ q.startAt \in Nat
      /\ q.through <= Until /\ q.through \in Nat /\ Until \in Nat
      /\ Records[i].at \in Nat /\ Len(Records) \in Nat /\ scan \in Scans
      /\ i \in DOMAIN Records /\ i \in 1 .. i
  BY TheCapture, SourceAssumption DEF Queries, Scanned
<1>1. \A j : j \in LiveIn(q, i) <=> j \in LiveIn(q, i - 1) \/ (j = i /\ i \in LiveIn(q, i))
  <2>1. \A j \in LiveFrames(q.startAt) : j \in Nat
    BY TheCapture DEF LiveFrames
  <2> QED BY <1>0, <2>1 DEF LiveIn
<1>2. Olds(q.startAt, i) = IF Records[i].at < q.startAt THEN Olds(q.startAt, i - 1) \cup {i}
                           ELSE Olds(q.startAt, i - 1)
  <2>1. \A k \in 1 .. i : k = i \/ k \in 1 .. (i - 1)
    BY <1>0
  <2>2. \A k \in 1 .. (i - 1) : k \in 1 .. i
    BY <1>0
  <2> QED BY <1>0, <2>1, <2>2 DEF Olds
<1>3. CASE scan.stopped
  <2>1. v = scan
    BY <1>3 DEF Visit
  <2> QED BY <1>3, <2>1 DEF Unbroken
<1>4. CASE ~scan.stopped /\ i <= q.after
  <2>1. v = scan
    BY <1>4 DEF Visit
  <2>2. ~CollectPreroll(q) /\ LiveIn(q, i) = {}
    <3>1. \A j \in LiveFrames(q.startAt) : j \in Nat
      BY TheCapture DEF LiveFrames
    <3> QED BY <1>0, <1>4, <3>1 DEF CollectPreroll, LiveIn
  <2> QED BY <2>1, <2>2 DEF Unbroken, Remembering
<1>5. CASE ~scan.stopped /\ i > q.after /\ Records[i].at < q.startAt
  <2>1. v = RememberPreroll(q, scan, i)
    BY <1>5, VisitedIs
  <2> HIDE DEF v
  <2>2. v.frames = scan.frames
    <3>1. RememberPreroll(q, scan, i).frames = scan.frames
      BY <1>0, RememberedFrames
    <3> QED BY <2>1, <3>1
  <2>3. LiveIn(q, i) = LiveIn(q, i - 1)
    <3>1. i \notin LiveIn(q, i)
      BY <1>0, <1>5 DEF LiveIn, LiveFrames
    <3> QED BY <1>1, <3>1
  <2>4. Remembering(q, v, i)
    <3> SUFFICES ASSUME CollectPreroll(q) PROVE Remembers(v, Olds(q.startAt, i))
      BY DEF Remembering
    <3>1. Between(scan.pending, scan.anchor, i - 1) /\ scan.anchor < i
      BY <1>0 DEF Scanned, Scans
    <3>2. /\ Remembers(scan, Olds(q.startAt, i - 1))
          /\ Olds(q.startAt, i - 1) \in SUBSET (1 .. (i - 1))
      BY <1>5 DEF Unbroken, Remembering, Olds
    <3>3. Remembers(v, Olds(q.startAt, i - 1) \cup {i})
      BY <1>0, <2>1, <3>1, <3>2, RemembersNext
    <3> QED BY <1>2, <1>5, <3>3
  <2>5. Unbroken(q, v, i)
    BY <1>5, <2>2, <2>3, <2>4 DEF Unbroken
  <2> QED BY <2>5 DEF v
<1>6. CASE ~scan.stopped /\ i > q.after /\ ~(Records[i].at < q.startAt)
  <2>1. /\ Tight(q, Range(d.frames)) /\ LiveIn(q, i - 1) \subseteq Range(d.frames)
        /\ Remembering(q, d, i - 1)
    BY <1>0, <1>6, DrainUnbroken
  <2>2. d.frames \in Frames
    BY <1>0, DrainedScan DEF Scans
  <2>3. /\ Records[i].at > q.through =>
             IF q.through < Until THEN v.frames = d.frames /\ v.stopped ELSE v = scan
        /\ ~(Records[i].at > q.through) =>
             \/ v.stopped /\ v.frames = d.frames
             \/ /\ v.frames = Append(d.frames, i) /\ v.pending = d.pending
                /\ v.anchor = d.anchor /\ v.emitted = d.emitted
    BY <1>6, VisitedIs
  <2> HIDE DEF v, d
  <2>4. Olds(q.startAt, i) = Olds(q.startAt, i - 1)
    BY <1>2, <1>6
  <2>5. CASE v.frames = d.frames /\ v.stopped
    BY <2>1, <2>5 DEF Unbroken, v
  <2>6. CASE Records[i].at > q.through /\ v = scan /\ ~(q.through < Until)
    <3>1. i \notin LiveIn(q, i)
      BY <1>0, <2>6 DEF LiveIn, LiveFrames
    <3>2. LiveIn(q, i) = LiveIn(q, i - 1)
      BY <1>1, <3>1
    <3>3. Unbroken(q, scan, i)
      BY <2>4, <3>2 DEF Unbroken, Remembering
    <3> QED BY <2>6, <3>3 DEF v
  <2>7. CASE /\ ~(Records[i].at > q.through) /\ v.frames = Append(d.frames, i)
             /\ v.pending = d.pending /\ v.anchor = d.anchor
    <3>1. i \in LiveIn(q, i) /\ i \in LiveFrames(q.startAt)
      <4>1. Records[i].at \in q.startAt .. Until
        BY <1>0, <1>6, <2>7
      <4>2. i \in LiveFrames(q.startAt)
        BY <1>0, <4>1 DEF LiveFrames
      <4> QED BY <1>0, <1>6, <4>2 DEF LiveIn
    <3>2. Range(v.frames) = Range(d.frames) \cup {i}
      BY <2>2, <2>7, RangeOfAppend
    <3>3. ASSUME NEW x \in Range(v.frames), NEW j \in LiveIn(q, Len(Records)), j < x
          PROVE  j \in Range(v.frames)
      <4>1. CASE x \in Range(d.frames)
        BY <2>1, <3>2, <3>3, <4>1 DEF Tight
      <4>2. CASE x = i
        <5>1. j \in Nat
          BY TheCapture DEF LiveIn, LiveFrames
        <5>2. j \in LiveIn(q, i - 1)
          BY <1>0, <3>3, <4>2, <5>1 DEF LiveIn
        <5> QED BY <2>1, <3>2, <5>2
      <4> QED BY <3>2, <3>3, <4>1, <4>2
    <3>4. ASSUME NEW x \in Range(v.frames) \ LiveFrames(q.startAt)
          PROVE  PreRolled(x, Range(v.frames), q.startAt)
      <4>1. x \in Range(d.frames) /\ Range(d.frames) \subseteq Range(v.frames)
        BY <3>1, <3>2, <3>4
      <4>2. PreRolled(x, Range(d.frames), q.startAt)
        BY <2>1, <3>4, <4>1 DEF Tight
      <4> QED BY <4>1, <4>2, StillPreRolled
    <3>5. Tight(q, Range(v.frames))
      BY <3>3, <3>4 DEF Tight
    <3>6. LiveIn(q, i) \subseteq Range(v.frames)
      BY <1>1, <2>1, <3>2
    <3>7. Remembering(q, v, i)
      BY <2>1, <2>4, <2>7 DEF Remembering, Remembers
    <3> QED BY <3>5, <3>6, <3>7 DEF Unbroken, v
  <2> QED BY <2>3, <2>5, <2>6, <2>7
<1>7. i <= q.after \/ i > q.after
  BY <1>0
<1> QED BY <1>3, <1>4, <1>5, <1>6, <1>7

LEMMA PageUnbroken ==
  ASSUME NEW q \in Queries(Nat \ {0})
  PROVE  Tight(q, Range(Page(q).frames))
<1> DEFINE n == Len(Records)
           f == CHOOSE g : Loop(q, g)
           scanned == f[n]
           ended == DrainPreroll(q, scanned)
           T == {k \in 0 .. n : Scanned(q, f[k], k) /\ Unbroken(q, f[k], k)}
<1>1. Loop(q, f)
  BY LoopEnds
<1>2. Page(q) = IF scanned.stopped THEN [frames |-> scanned.frames, hasMore |-> TRUE]
                ELSE [frames |-> ended.frames, hasMore |-> ended.dropped > 0]
  BY Zenon DEF Page, Loop
<1> HIDE DEF f
<1>3. n \in Nat /\ n \in 0 .. n /\ 0 \in 0 .. n
  BY TheCapture
<1>4. f[0] = Start /\ \A k \in 1 .. n : f[k] = Visit(q, f[k - 1], k)
  <2>1. \A k \in 1 .. n : k \in 0 .. n /\ k # 0
    BY <1>3
  <2> QED BY <1>1, <1>3, <2>1 DEF Loop
<1>5. 0 \in T
  BY <1>3, <1>4, StartScanned, StartUnbroken
<1>6. ASSUME NEW k \in 1 .. n, k - 1 \in T PROVE k \in T
  BY <1>3, <1>4, <1>6, VisitedScan, VisitUnbroken
<1>7. 0 .. n \subseteq T
  <2> HIDE DEF T, n
  <2> QED BY <1>3, <1>5, <1>6, IntervalInduction
<1>8. Scanned(q, scanned, n) /\ Unbroken(q, scanned, n)
  BY <1>3, <1>7
<1>9. ~scanned.stopped => Tight(q, Range(ended.frames))
  BY <1>3, <1>8, DrainUnbroken
<1> HIDE DEF scanned, ended
<1> QED BY <1>2, <1>8, <1>9 DEF Unbroken

(* What the pages of a session add up to goes on with the next page.       *)
LEMMA GaplessOn ==
  ASSUME NEW seek \in 0 .. Until, NEW rolled \in Frames, Increasing(rolled),
         Gapless(Range(rolled), seek), NEW q \in Queries(Nat \ {0}), q.startAt = seek,
         q.after = IF rolled = <<>> THEN 0 ELSE Last(rolled)
  PROVE  /\ Increasing(rolled \o Page(q).frames)
         /\ Gapless(Range(rolled \o Page(q).frames), seek)
<1> DEFINE page == Page(q).frames
           all == rolled \o page
           N == Len(Records)
           R == Range(rolled)
           P == Range(page)
<1>1. /\ page \in Frames /\ Increasing(page) /\ \A k \in DOMAIN page : q.after < page[k]
      /\ Tight(q, P) /\ seek \in Nat /\ q.after \in Nat /\ N \in Nat
  BY PageInOrder, PageUnbroken, TheCapture, SourceAssumption DEF Queries
<1> HIDE DEF page
<1>2. \A j \in LiveFrames(seek) : j \in 1 .. N
  BY TheCapture DEF LiveFrames
<1>3. /\ \A k \in DOMAIN rolled : rolled[k] \in Nat /\ rolled[k] <= q.after
      /\ \A k \in DOMAIN page : page[k] \in Nat
      /\ q.after # 0 => q.after \in R
  <2>1. CASE rolled = <<>>
    BY <1>1, <2>1, TheCapture DEF Frames
  <2>2. CASE rolled # <<>>
    <3>1. /\ Len(rolled) \in DOMAIN rolled /\ q.after = rolled[Len(rolled)]
          /\ \A k \in DOMAIN rolled : k <= Len(rolled) /\ k \in Nat /\ rolled[k] \in Nat
          /\ \A k \in DOMAIN page : page[k] \in Nat
      BY <1>1, <2>2, TheCapture DEF Frames, Last
    <3>2. \A k \in DOMAIN rolled : rolled[k] <= q.after
      BY <3>1 DEF Increasing
    <3> QED BY <3>1, <3>2 DEF Range
  <2> QED BY <2>1, <2>2
<1>4. Increasing(all)
  <2>1. \A i \in DOMAIN rolled, j \in DOMAIN page : rolled[i] < page[j]
    BY <1>1, <1>3
  <2> QED BY <1>1, <2>1, Together
<1>5. Range(all) = R \cup P
  BY <1>1, RangeOfBoth
<1>6. \A x \in R : x \in Nat /\ x <= q.after
  BY <1>3 DEF Range
<1> HIDE DEF all, R, P
<1>7. ASSUME NEW x \in R \cup P, NEW j \in LiveFrames(seek), j < x PROVE j \in R \cup P
  <2>1. CASE x \in R
    BY <1>7, <2>1 DEF Gapless, R
  <2>2. CASE x \in P /\ j > q.after
    <3>1. j \in LiveIn(q, N)
      BY <1>2, <2>2 DEF LiveIn
    <3> QED BY <1>1, <1>7, <2>2, <3>1 DEF Tight
  <2>3. CASE ~(j > q.after)
    <3>1. j \in Nat /\ j # 0 /\ j <= q.after
      BY <1>1, <1>2, <2>3
    <3>2. q.after \in R
      BY <1>1, <1>3, <3>1
    <3> QED BY <1>1, <3>1, <3>2 DEF Gapless, R
  <2> QED BY <1>7, <2>1, <2>2, <2>3
<1>8. ASSUME NEW x \in (R \cup P) \ LiveFrames(seek) PROVE PreRolled(x, R \cup P, seek)
  <2>1. CASE x \in R
    <3>1. PreRolled(x, R, seek)
      BY <1>8, <2>1 DEF Gapless, R
    <3> QED BY <3>1, StillPreRolled
  <2>2. CASE x \in P
    <3>1. PreRolled(x, P, seek)
      BY <1>1, <1>8, <2>2 DEF Tight
    <3> QED BY <3>1, StillPreRolled
  <2> QED BY <1>8, <2>1, <2>2
<1> QED BY <1>4, <1>5, <1>7, <1>8 DEF Gapless, all, page

-----------------------------------------------------------------------------
(* Which pre-roll it is, if the clock is steady.                           *)

SteadyFrames(frames, seek) ==
  /\ Increasing(frames)
  /\ Range(frames) \subseteq PreRollFrames(seek) \cup LiveFrames(seek)
  /\ Leads(Range(frames), PreRollFrames(seek)) /\ Leads(Range(frames), LiveFrames(seek))

LEMMA DeliversIs ==
  ASSUME NEW frames, NEW seek
  PROVE  Delivers(frames, seek) <=>
           /\ Increasing(frames) /\ Gapless(Range(frames), seek)
           /\ SteadyClock => SteadyFrames(frames, seek)
<1>1. Gapless(Range(frames), seek) => Leads(Range(frames), LiveFrames(seek))
  BY DEF Gapless, Leads
<1>2. Increasing(frames) <=> \A i, j \in DOMAIN frames : i < j => frames[i] < frames[j]
  BY DEF Increasing
<1> QED BY <1>1, <1>2 DEF Delivers, SteadyFrames

LEMMA SteadyOn ==
  ASSUME SteadyClock, NEW seek \in 0 .. Until, NEW rolled \in Frames, SteadyFrames(rolled, seek),
         NEW q \in Queries(Nat \ {0}), q.startAt = seek,
         q.after = IF rolled = <<>> THEN 0 ELSE Last(rolled)
  PROVE  SteadyFrames(rolled \o Page(q).frames, seek)
<1> DEFINE page == Page(q).frames
           all == rolled \o page
           N == Len(Records)
<1>1. /\ page \in Frames /\ Increasing(page) /\ \A k \in DOMAIN page : q.after < page[k]
      /\ Covered(q, page, N) /\ seek \in Nat /\ q.after \in Nat /\ N \in Nat
  BY PageInOrder, PageCovers, TheCapture, SourceAssumption DEF Queries
<1> HIDE DEF page
<1>2. /\ Increasing(rolled) /\ Range(rolled) \subseteq PreRollFrames(seek) \cup LiveFrames(seek)
      /\ Leads(Range(rolled), PreRollFrames(seek)) /\ Leads(Range(rolled), LiveFrames(seek))
  BY DEF SteadyFrames
<1>3. \A j \in LiveFrames(seek) : j \in 1 .. N
  BY TheCapture DEF LiveFrames
<1>4. CASE rolled = <<>>
  <2>1. all = page
    BY <1>1, <1>4 DEF Frames
  <2>2. Opening(q) = PreRollFrames(seek) \/ Opening(q) = {}
    BY DEF Opening
  <2>3. LiveIn(q, N) = LiveFrames(seek)
    <3>1. q.after = 0
      BY <1>4
    <3> QED BY <1>1, <1>3, <3>1 DEF LiveIn
  <2>4. Leads(Range(page), PreRollFrames(seek))
    <3>1. CASE Opening(q) = PreRollFrames(seek)
      BY <1>1, <3>1 DEF Covered
    <3>2. CASE Opening(q) = {}
      <4>1. Range(page) \subseteq LiveFrames(seek)
        BY <1>1, <2>3, <3>2 DEF Covered
      <4>2. \A p \in PreRollFrames(seek) : p \notin LiveFrames(seek)
        BY <1>1, PreRollComesFirst
      <4> QED BY <4>1, <4>2 DEF Leads
    <3> QED BY <2>2, <3>1, <3>2
  <2> HIDE DEF all
  <2> QED BY <1>1, <2>1, <2>2, <2>3, <2>4 DEF Covered, SteadyFrames, all, page
<1>5. CASE rolled # <<>>
  <2>1. /\ Len(rolled) \in DOMAIN rolled /\ q.after = rolled[Len(rolled)]
        /\ \A k \in DOMAIN rolled : k <= Len(rolled) /\ k \in Nat
        /\ q.after \in 1 .. N /\ \A k \in DOMAIN rolled : rolled[k] \in Nat
        /\ \A k \in DOMAIN page : page[k] \in Nat
    BY <1>1, <1>5, TheCapture DEF Frames, Last
  <2>2. \A k \in DOMAIN rolled : rolled[k] <= q.after
    BY <1>2, <2>1 DEF Increasing
  <2>3. \A i \in DOMAIN rolled, j \in DOMAIN page : rolled[i] < page[j]
    BY <1>1, <2>1, <2>2
  <2>4. Increasing(all)
    BY <1>1, <1>2, <2>3, Together
  <2>5. Range(all) = Range(rolled) \cup Range(page)
    BY <1>1, RangeOfBoth
  <2>6. /\ Range(page) \subseteq LiveIn(q, N) /\ Leads(Range(page), LiveIn(q, N))
    <3>1. Opening(q) = {}
      BY <1>1, <2>1 DEF Opening, CollectPreroll
    <3> QED BY <1>1, <3>1 DEF Covered
  <2>7. q.after \in Range(rolled) /\ \A x \in Range(page) : q.after < x
    BY <1>1, <2>1 DEF Range
  <2> HIDE DEF all
  <2>8. Range(page) \subseteq LiveFrames(seek) /\ Range(page) \cap PreRollFrames(seek) = {}
    <3>1. Range(page) \subseteq LiveFrames(seek)
      BY <2>6 DEF LiveIn
    <3>2. \A p \in PreRollFrames(seek) : p \notin LiveFrames(seek)
      BY <1>1, PreRollComesFirst
    <3> QED BY <3>1, <3>2
  <2>9. Leads(Range(all), PreRollFrames(seek))
    BY <1>2, <2>5, <2>8 DEF Leads
  <2>10. Leads(Range(all), LiveFrames(seek))
    <3> SUFFICES ASSUME NEW k \in Range(all) \cap LiveFrames(seek), NEW j \in LiveFrames(seek),
                        j < k
                 PROVE  j \in Range(all)
      BY DEF Leads
    <3>1. CASE k \in Range(rolled)
      BY <1>2, <2>5, <3>1 DEF Leads
    <3>2. CASE k \in Range(page) /\ j > q.after
      <4>1. j \in LiveIn(q, N)
        BY <1>3, <3>2 DEF LiveIn
      <4> QED BY <2>5, <2>6, <3>2, <4>1 DEF Leads
    <3>3. CASE ~(j > q.after)
      <4>1. j <= q.after /\ j \in Nat
        BY <1>1, <1>3, <3>3
      <4>2. q.after \notin PreRollFrames(seek)
        <5>1. \A p \in PreRollFrames(seek) : p < j /\ p \in Nat
          BY <1>1, PreRollComesFirst
        <5> QED BY <1>1, <4>1, <5>1
      <4>3. q.after \in LiveFrames(seek)
        BY <1>2, <2>7, <4>2
      <4>4. j \in Range(rolled)
        <5>1. CASE j = q.after
          BY <2>7, <5>1
        <5>2. CASE j < q.after
          BY <1>2, <2>7, <4>3, <5>2 DEF Leads
        <5> QED BY <1>1, <4>1, <5>1, <5>2
      <4> QED BY <2>5, <4>4
    <3> QED BY <2>5, <3>1, <3>2, <3>3
  <2>11. Range(all) \subseteq PreRollFrames(seek) \cup LiveFrames(seek)
    BY <1>2, <2>5, <2>8
  <2> QED BY <2>4, <2>9, <2>10, <2>11 DEF SteadyFrames, all, page
<1> QED BY <1>4, <1>5

(* What the pages of a session add up to goes on with the next page.       *)
LEMMA RolledOn ==
  ASSUME NEW seek \in 0 .. Until, NEW rolled \in Frames, Delivers(rolled, seek),
         NEW q \in Queries(Nat \ {0}), q.startAt = seek,
         q.after = IF rolled = <<>> THEN 0 ELSE Last(rolled)
  PROVE  Delivers(rolled \o Page(q).frames, seek)
<1>1. /\ Increasing(rolled) /\ Gapless(Range(rolled), seek)
      /\ SteadyClock => SteadyFrames(rolled, seek)
  BY DeliversIs
<1>2. /\ Increasing(rolled \o Page(q).frames)
      /\ Gapless(Range(rolled \o Page(q).frames), seek)
  BY <1>1, GaplessOn
<1>3. SteadyClock => SteadyFrames(rolled \o Page(q).frames, seek)
  BY <1>1, SteadyOn
<1> QED BY <1>2, <1>3, DeliversIs

LEMMA NothingRolled == ASSUME NEW seek PROVE Delivers(<<>>, seek)
BY DEF Delivers, Gapless, Leads, Range

-----------------------------------------------------------------------------
(* What the variables hold. *)

Times == 0 .. Until
Statuses == {"playing", "paused", "completed"}
Checkpoints ==
  {cp \in [seek : Times, rolled : Frames] : Delivers(cp.rolled, cp.seek)}
Objects == [status : Statuses, playhead : Times, anchor : Times, checkpoint : Checkpoints]
Snapshots == [status : Statuses, playhead : Times, checkpoint : Checkpoints]

Creations == [op : {"create"}, id : Sessions, stage : {"saving"}]
Deletions == [op : {"delete"}, id : Sessions, stage : {"saving"}, quiet : BOOLEAN]
Operations == [op : Locked, id : Sessions, arg : Nat, preRoll : BOOLEAN,
               stage : {"lock", "source", "saving"}, frames : Frames]
Requests == {NoRequest} \cup Creations \cup Deletions \cup Operations

Saves == [op : {"save"}, id : Sessions, by : Clients, session : Snapshots]
Removals == [op : {"remove"}, id : Sessions, by : Clients \cup {Nobody}]

IsMap(map, S) == map \in [DOMAIN map -> S]

Shape ==
  /\ phase \in {"down", "restoring", "up"} /\ created \subseteq Sessions /\ changed \in BOOLEAN
  /\ IsMap(objects, Objects) /\ IsMap(cache, Snapshots) /\ IsMap(disk, Snapshots)
  /\ present \subseteq DOMAIN objects
  /\ DOMAIN objects \cup DOMAIN cache \cup DOMAIN disk \cup todo \cup gone \subseteq created
  /\ locks \in [Sessions -> Seq(Clients)] /\ request \in [Clients -> Requests]
  /\ tail \in Seq(Saves \cup Removals)
  /\ received \in [Sessions -> Frames] /\ unsure \subseteq Sessions

-----------------------------------------------------------------------------
(* What the operators of the sessions return. *)

LEMMA WithEntry ==
  ASSUME NEW S, NEW map, IsMap(map, S), NEW id \in Sessions, NEW value \in S
  PROVE  /\ IsMap(With(map, id, value), S)
         /\ DOMAIN With(map, id, value) = DOMAIN map \cup {id}
         /\ With(map, id, value)[id] = value
         /\ \A k \in DOMAIN map : k # id => With(map, id, value)[k] = map[k]
BY DEF With, IsMap

LEMMA WithoutEntry ==
  ASSUME NEW S, NEW map, IsMap(map, S), NEW id \in Sessions
  PROVE  /\ IsMap(Without(map, id), S)
         /\ DOMAIN Without(map, id) = DOMAIN map \ {id}
         /\ \A k \in DOMAIN map : k # id => Without(map, id)[k] = map[k]
BY DEF Without, Restrict, IsMap

LEMMA NewEntry ==
  ASSUME NEW S, NEW map, IsMap(map, S), NEW id \in DOMAIN map, NEW value \in S
  PROVE  /\ IsMap([map EXCEPT ![id] = value], S)
         /\ DOMAIN [map EXCEPT ![id] = value] = DOMAIN map
         /\ [map EXCEPT ![id] = value][id] = value
         /\ \A k \in DOMAIN map : k # id => [map EXCEPT ![id] = value][k] = map[k]
BY DEF IsMap

(* What can be said of a request from its operation. *)
LEMMA RequestKinds ==
  ASSUME NEW r \in Requests
  PROVE  /\ r # NoRequest => r.id \in Sessions /\ r.stage \in {"lock", "source", "saving"}
         /\ r # NoRequest => r.op \in Locked \cup {"create", "delete"}
         /\ r = NoRequest => r.op = "none"
         /\ r.op \in Locked => r \in Operations /\ r # NoRequest
         /\ r.op = "create" => r \in Creations /\ r # NoRequest
         /\ r.op = "delete" => r \in Deletions /\ r # NoRequest
         /\ r # NoRequest /\ r.stage # "saving" => r.op \in Locked
BY DEF Requests, NoRequest, Creations, Deletions, Operations, Locked

LEMMA Staged ==
  ASSUME NEW r \in Operations, NEW s \in {"lock", "source", "saving"}
  PROVE  /\ [r EXCEPT !.stage = s] \in Operations
         /\ [r EXCEPT !.stage = s].stage = s
         /\ [r EXCEPT !.stage = s].op = r.op /\ [r EXCEPT !.stage = s].id = r.id
         /\ [r EXCEPT !.stage = s].arg = r.arg /\ [r EXCEPT !.stage = s].frames = r.frames
<1> DEFINE x == [r EXCEPT !.stage = s]
<1>1. x = [r EXCEPT !.stage = s]
  OBVIOUS
<1> HIDE DEF x
<1>2. x = [op |-> r.op, id |-> r.id, arg |-> r.arg, preRoll |-> r.preRoll, stage |-> s,
           frames |-> r.frames]
  BY <1>1 DEF Operations
<1>3. x \in Operations
  BY <1>2 DEF Operations
<1> QED BY <1>2, <1>3 DEF x

LEMMA Framed ==
  ASSUME NEW r \in Operations, NEW f \in Frames
  PROVE  /\ [r EXCEPT !.frames = f] \in Operations
         /\ [r EXCEPT !.frames = f].frames = f
         /\ [r EXCEPT !.frames = f].op = r.op /\ [r EXCEPT !.frames = f].id = r.id
         /\ [r EXCEPT !.frames = f].arg = r.arg /\ [r EXCEPT !.frames = f].stage = r.stage
<1> DEFINE x == [r EXCEPT !.frames = f]
<1>1. x = [r EXCEPT !.frames = f]
  OBVIOUS
<1> HIDE DEF x
<1>2. x = [op |-> r.op, id |-> r.id, arg |-> r.arg, preRoll |-> r.preRoll, stage |-> r.stage,
           frames |-> f]
  BY <1>1 DEF Operations
<1>3. x \in Operations
  BY <1>2 DEF Operations
<1> QED BY <1>2, <1>3 DEF x

LEMMA Creation ==
  ASSUME NEW id \in Sessions
  PROVE  [op |-> "create", id |-> id, stage |-> "saving"] \in Requests
BY DEF Requests, Creations

LEMMA Deletion ==
  ASSUME NEW id \in Sessions, NEW quiet \in BOOLEAN
  PROVE  [op |-> "delete", id |-> id, stage |-> "saving", quiet |-> quiet] \in Requests
BY DEF Requests, Deletions

LEMMA NewSessions ==
  ASSUME NEW autoplay \in BOOLEAN
  PROVE  /\ NewSession(autoplay) \in Objects
         /\ NewSession(autoplay).checkpoint.rolled = <<>>
<1>1. <<>> \in Frames /\ 0 \in Times
  BY SourceAssumption DEF Frames, Times
<1>2. InitialCheckpoint(0) \in Checkpoints /\ InitialCheckpoint(0).rolled = <<>>
  BY <1>1, NothingRolled DEF InitialCheckpoint, Checkpoints
<1> QED BY <1>1, <1>2 DEF NewSession, Objects, Statuses

LEMMA Snapshot ==
  ASSUME NEW session \in Objects
  PROVE  /\ PublicSnapshot(session) \in Snapshots
         /\ PublicSnapshot(session).checkpoint = session.checkpoint
BY DEF PublicSnapshot, Snapshots, Objects

LEMMA RestoredSession ==
  ASSUME NEW saved \in Snapshots
  PROVE  /\ Restored(saved) \in Objects
         /\ Restored(saved).checkpoint = saved.checkpoint
BY DEF Restored, Snapshots, Objects, Statuses

(* Assignments to some of the fields of a session. *)
LEMMA Moved ==
  ASSUME NEW session \in Objects, NEW time \in Times
  PROVE  /\ [session EXCEPT !.playhead = time] \in Objects
         /\ [session EXCEPT !.playhead = time].checkpoint = session.checkpoint
         /\ [session EXCEPT !.anchor = time] \in Objects
         /\ [session EXCEPT !.anchor = time].checkpoint = session.checkpoint
<1> DEFINE x == [session EXCEPT !.playhead = time]
           y == [session EXCEPT !.anchor = time]
<1>1. x = [session EXCEPT !.playhead = time] /\ y = [session EXCEPT !.anchor = time]
  OBVIOUS
<1> HIDE DEF x, y
<1>2. /\ x = [status |-> session.status, playhead |-> time, anchor |-> session.anchor,
              checkpoint |-> session.checkpoint]
      /\ y = [status |-> session.status, playhead |-> session.playhead, anchor |-> time,
              checkpoint |-> session.checkpoint]
  BY <1>1 DEF Objects
<1>3. /\ x \in Objects /\ x.checkpoint = session.checkpoint
      /\ y \in Objects /\ y.checkpoint = session.checkpoint
  BY <1>2 DEF Objects
<1> QED BY <1>3 DEF x, y

LEMMA Turned ==
  ASSUME NEW session \in Objects, NEW status \in Statuses, NEW time \in Times
  PROVE  /\ [session EXCEPT !.status = status, !.anchor = time] \in Objects
         /\ [session EXCEPT !.status = status, !.anchor = time].checkpoint = session.checkpoint
<1> DEFINE x == [session EXCEPT !.status = status]
           y == [x EXCEPT !.anchor = time]
<1>1. x = [session EXCEPT !.status = status] /\ y = [x EXCEPT !.anchor = time]
  OBVIOUS
<1> HIDE DEF x, y
<1>2. x = [status |-> status, playhead |-> session.playhead, anchor |-> session.anchor,
           checkpoint |-> session.checkpoint]
  BY <1>1 DEF Objects
<1>3. x \in Objects /\ x.checkpoint = session.checkpoint
  BY <1>2 DEF Objects
<1>4. y \in Objects /\ y.checkpoint = x.checkpoint
  BY <1>1, <1>3, Moved
<1> QED BY <1>3, <1>4 DEF x, y

LEMMA PausedSession ==
  ASSUME NEW session \in Objects
  PROVE  Paused(session) \in Objects /\ Paused(session).checkpoint = session.checkpoint
<1> DEFINE status == IF session.status = "completed" THEN session.status ELSE "paused"
<1>1. status \in Statuses /\ session.playhead \in Times
  BY DEF Objects, Statuses
<1>2. Paused(session) = [session EXCEPT !.status = status, !.anchor = session.playhead]
  BY DEF Paused
<1> HIDE DEF status
<1>3. \A s \in Statuses, t \in Times :
         /\ [session EXCEPT !.status = s, !.anchor = t] \in Objects
         /\ [session EXCEPT !.status = s, !.anchor = t].checkpoint = session.checkpoint
  BY Turned
<1>4. /\ [session EXCEPT !.status = status, !.anchor = session.playhead] \in Objects
      /\ [session EXCEPT !.status = status, !.anchor = session.playhead].checkpoint
           = session.checkpoint
  BY <1>1, <1>3
<1> QED BY <1>2, <1>4

LEMMA SeekedSession ==
  ASSUME NEW session \in Objects, NEW target \in SeekTargets
  PROVE  /\ Seeked(session, target) \in Objects
         /\ Seeked(session, target).checkpoint.rolled = <<>>
<1> DEFINE status == IF session.status = "completed" THEN "paused" ELSE session.status
           w == [session EXCEPT !.status = status]
           x == [w EXCEPT !.playhead = target]
           y == [x EXCEPT !.anchor = target]
           z == [y EXCEPT !.checkpoint = InitialCheckpoint(target)]
           cp == InitialCheckpoint(target)
<1>1. status \in Statuses /\ target \in Times /\ cp \in Checkpoints /\ cp.rolled = <<>>
  <2>1. status \in Statuses /\ target \in Times /\ <<>> \in Frames
    BY SessionsAssumption DEF Objects, Statuses, Times, Frames
  <2>2. cp \in Checkpoints /\ cp.rolled = <<>>
    BY <2>1, NothingRolled DEF InitialCheckpoint, Checkpoints
  <2> QED BY <2>1, <2>2
<1>2. Seeked(session, target) = z
  BY DEF Seeked
<1>3. /\ w = [session EXCEPT !.status = status] /\ x = [w EXCEPT !.playhead = target]
      /\ y = [x EXCEPT !.anchor = target] /\ z = [y EXCEPT !.checkpoint = cp]
  OBVIOUS
<1> HIDE DEF status, cp, w, x, y, z
<1>4. w = [status |-> status, playhead |-> session.playhead, anchor |-> session.anchor,
           checkpoint |-> session.checkpoint]
  BY <1>3 DEF Objects
<1>5. x = [status |-> status, playhead |-> target, anchor |-> session.anchor,
           checkpoint |-> session.checkpoint]
  BY <1>3, <1>4
<1>6. y = [status |-> status, playhead |-> target, anchor |-> target,
           checkpoint |-> session.checkpoint]
  BY <1>3, <1>5
<1>7. z = [status |-> status, playhead |-> target, anchor |-> target, checkpoint |-> cp]
  BY <1>3, <1>6
<1>8. z \in Objects /\ z.checkpoint = cp
  BY <1>1, <1>7 DEF Objects
<1> QED BY <1>1, <1>2, <1>8

(* The checkpoint counts all the frames of the page that was read. *)
LEMMA ReadSession ==
  ASSUME NEW session \in Objects, NEW limit \in Limits, NEW preRoll \in BOOLEAN
  PROVE  LET page == PageOf(session, limit, preRoll)
             after == AfterRead(session, page)
         IN  /\ page.frames \in Frames /\ Increasing(page.frames)
             /\ \A k \in DOMAIN page.frames : Cursor(session.checkpoint) < page.frames[k]
             /\ after \in Objects
             /\ after.checkpoint.rolled = session.checkpoint.rolled \o page.frames
<1> DEFINE page == PageOf(session, limit, preRoll)
           cp == session.checkpoint
           query == [after |-> Cursor(cp), startAt |-> cp.seek, through |-> session.playhead,
                     limit |-> limit, includePreRoll |-> preRoll /\ Cursor(cp) = 0]
<1>1. /\ cp \in Checkpoints /\ session.playhead \in Times /\ session.anchor \in Times
      /\ session.status \in Statuses /\ cp.seek \in Times /\ cp.rolled \in Frames
  BY DEF Objects, Checkpoints
<1>2. Cursor(cp) \in 0 .. Len(Records)
  <2>1. cp.rolled # <<>> => Last(cp.rolled) \in 1 .. Len(Records)
    BY <1>1 DEF Frames, Last
  <2> QED BY <2>1, TheCapture DEF Cursor
<1>3. query \in Queries(Limits) /\ query \in Queries(Nat \ {0}) /\ query.after = Cursor(cp)
  BY <1>1, <1>2, SessionsAssumption DEF Queries, Times
<1>4. page = Page(query)
  <2> DEFINE Answer(a) == a.query = query
  <2>1. \A a \in Pages : Answer(a) => a.page = Page(query)
    BY DEF Pages
  <2>2. \E a \in Pages : Answer(a)
    <3> DEFINE a == [query |-> query, page |-> Page(query)]
    <3> HIDE DEF query
    <3>1. a \in Pages /\ a.query = query
      BY <1>3 DEF Pages
    <3> QED BY <3>1
  <2>3. page = (CHOOSE a \in Pages : Answer(a)).page
    BY DEF PageOf
  <2> HIDE DEF Answer, page
  <2>4. (CHOOSE a \in Pages : Answer(a)) \in Pages /\ Answer(CHOOSE a \in Pages : Answer(a))
    BY <2>2
  <2> QED BY <2>1, <2>3, <2>4
<1> HIDE DEF query, page
<1>5. /\ page.frames \in Frames /\ Increasing(page.frames)
      /\ \A k \in DOMAIN page.frames : Cursor(cp) < page.frames[k]
  BY <1>3, <1>4, PageInOrder
<1> DEFINE new == AdvanceCheckpoint(cp, page.frames)
<1>6. new \in Checkpoints /\ new.rolled = cp.rolled \o page.frames
  <2>1. cp = [seek |-> cp.seek, rolled |-> cp.rolled]
    BY <1>1 DEF Checkpoints
  <2>2. cp.rolled \o page.frames \in Frames
    BY <1>1, <1>5 DEF Frames
  <2> DEFINE all == cp.rolled \o page.frames
  <2>3. new = [cp EXCEPT !.rolled = all]
    BY DEF AdvanceCheckpoint
  <2> HIDE DEF all, new, cp
  <2>4. new = [seek |-> cp.seek, rolled |-> all]
    BY <2>1, <2>3
  <2>5. all \in Frames /\ cp.seek \in Times
    BY <1>1, <2>2 DEF all
  <2>6. Delivers(all, cp.seek)
    <3>1. Delivers(cp.rolled, cp.seek)
      BY <1>1 DEF Checkpoints
    <3>2. /\ query.startAt = cp.seek
          /\ query.after = IF cp.rolled = <<>> THEN 0 ELSE Last(cp.rolled)
      BY <1>3 DEF query, Cursor
    <3> QED BY <1>1, <1>3, <1>4, <3>1, <3>2, RolledOn DEF all, Times
  <2>7. new.rolled = all /\ new.seek = cp.seek
    BY <2>4
  <2> QED BY <2>4, <2>5, <2>6, <2>7 DEF Checkpoints, all
<1> DEFINE advanced == [session EXCEPT !.checkpoint = AdvanceCheckpoint(@, page.frames)]
<1>7. advanced = [session EXCEPT !.checkpoint = new]
  OBVIOUS
<1> HIDE DEF new, advanced, cp
<1>8. advanced = [status |-> session.status, playhead |-> session.playhead,
                  anchor |-> session.anchor, checkpoint |-> new]
  BY <1>7 DEF Objects
<1>9. advanced \in Objects /\ advanced.checkpoint = new
  BY <1>1, <1>6, <1>8 DEF Objects
<1>10. /\ AfterRead(session, page) \in Objects
       /\ AfterRead(session, page).checkpoint = new
  <2>1. \/ AfterRead(session, page) = advanced
        \/ AfterRead(session, page) = [advanced EXCEPT !.status = "completed", !.anchor = Until]
    BY DEF AfterRead, advanced
  <2>2. "completed" \in Statuses /\ Until \in Times
    BY SourceAssumption DEF Statuses, Times
  <2> DEFINE turned == [advanced EXCEPT !.status = "completed", !.anchor = Until]
  <2>3. turned \in Objects /\ turned.checkpoint = new
    <3>1. advanced \in Objects
      BY <1>9
    <3>2. turned \in Objects /\ turned.checkpoint = advanced.checkpoint
      BY <2>2, <3>1, Turned, Zenon
    <3> QED BY <1>9, <3>2, Zenon
  <2> HIDE DEF turned
  <2> QED BY <1>9, <2>1, <2>3, Zenon DEF turned
<1> QED BY <1>5, <1>6, <1>10 DEF page, cp

-----------------------------------------------------------------------------
(* Who does what to a session. *)

Asks(c, id) == request[c] # NoRequest /\ request[c].id = id
At(c, stage) == request[c] # NoRequest /\ request[c].stage = stage
Does(c, op) == request[c].op = op

Waiting(id) == {c \in Clients : Asks(c, id) /\ At(c, "source")}
Reads(c, id) == Asks(c, id) /\ At(c, "saving") /\ Does(c, "read")
IsSave(i, id) == tail[i].id = id /\ tail[i].op = "save"
SaveQueued(id) == \E i \in DOMAIN tail : IsSave(i, id)

(* A process that is not up has neither requests nor operations.           *)
Phases ==
  /\ phase # "up" => /\ tail = <<>>
                     /\ \A c \in Clients : request[c] = NoRequest
                     /\ \A id \in Sessions : locks[id] = <<>>
  /\ phase = "down" => objects = Empty
  /\ phase = "restoring" => todo \subseteq DOMAIN cache \ present
  /\ phase # "restoring" => todo = {}

(* The lock: who is past it is the first in the chain, and nobody else is. *)
Chains ==
  /\ \A id \in Sessions :
       /\ \A i \in DOMAIN locks[id] : Asks(locks[id][i], id) /\ request[locks[id][i]].op \in Locked
       /\ \A i, j \in DOMAIN locks[id] : locks[id][i] = locks[id][j] => i = j
  /\ \A c \in Clients : request[c].op \in Locked =>
       /\ request[c].id \in DOMAIN objects
       /\ Does(c, "read") => request[c].arg \in Limits
       /\ Does(c, "seek") => request[c].arg \in SeekTargets
       /\ ~At(c, "saving") => request[c].frames = <<>>
       /\ \E i \in DOMAIN locks[request[c].id] :
            locks[request[c].id][i] = c /\ (~At(c, "lock") => i = 1)

(* Until its answer nobody knows of a new session.                         *)
Unknown ==
  \A c \in Clients : request[c] # NoRequest =>
    /\ request[c].id \in created
    /\ Does(c, "create") => \A d \in Clients \ {c} : ~Asks(d, request[c].id)

(* Every operation of the repository is awaited by one request, or by a    *)
(* cleanup.                                                                *)
Queued ==
  /\ \A i \in DOMAIN tail : tail[i].by # Nobody =>
       LET c == tail[i].by
       IN  /\ Asks(c, tail[i].id) /\ At(c, "saving")
           /\ IF tail[i].op = "save" THEN ~Does(c, "delete")
              ELSE ~Does(c, "create") /\ (request[c].op \in Locked => request[c].frames = <<>>)
  /\ \A i, j \in DOMAIN tail : tail[i].by = tail[j].by /\ tail[i].by # Nobody => i = j
  /\ \A i \in DOMAIN tail : tail[i].id \in created

Protocol == Phases /\ Chains /\ Unknown /\ Queued

-----------------------------------------------------------------------------
(* Where a deleted session can still be. *)

(* The file has nothing that the repository does not know of, or learns.   *)
Kept ==
  \A id \in present \ unsure : id \in DOMAIN disk => id \in DOMAIN cache \/ SaveQueued(id)

Deleted(c) ==
  LET id == request[c].id
  IN  /\ id \notin present /\ Waiting(id) = {}
      /\ \A i \in DOMAIN tail : tail[i].by = c =>
           /\ \A j \in DOMAIN tail : IsSave(j, id) => j < i
           /\ id \in DOMAIN disk \ unsure => id \in DOMAIN cache \/ SaveQueued(id)

Deleting == \A c \in Clients : request[c].op = "delete" /\ request[c].quiet => Deleted(c)

Gone ==
  \A id \in gone :
    /\ id \notin present \cup DOMAIN disk \cup DOMAIN cache \cup todo
    /\ ~SaveQueued(id) /\ Waiting(id) = {}

-----------------------------------------------------------------------------
(* What has been delivered. *)

Counts(checkpoint, s) ==
  Increasing(checkpoint.rolled) /\ \A i \in DOMAIN s : s[i] <= Cursor(checkpoint)

(* No copy of a session is behind what was sent of it.                     *)
Ahead ==
  /\ \A id \in Sessions : Increasing(received[id]) /\ (id \notin created => received[id] = <<>>)
  /\ \A id \in DOMAIN objects : Counts(objects[id].checkpoint, received[id])
  /\ \A id \in DOMAIN cache : Counts(cache[id].checkpoint, received[id])
  /\ \A id \in DOMAIN disk : Counts(disk[id].checkpoint, received[id])

(* A page that is being saved follows what was sent.                       *)
PageFollows ==
  \A c \in Clients : Does(c, "read") =>
    LET id == request[c].id
        sent == received[id] \o request[c].frames
    IN  Increasing(sent) /\ Counts(objects[id].checkpoint, sent)

(* What is being saved is the session.                                     *)
SavesTheSession ==
  \A i \in DOMAIN tail : tail[i].op = "save" =>
    /\ tail[i].id \in DOMAIN objects
    /\ tail[i].session.checkpoint = objects[tail[i].id].checkpoint

(* Nothing is lost while every save succeeds.                              *)
Exact ==
  /\ \A id \in DOMAIN objects \ unsure :
       /\ (\A c \in Clients : ~Reads(c, id)) => objects[id].checkpoint.rolled = received[id]
       /\ \A c \in Clients : Reads(c, id) =>
            objects[id].checkpoint.rolled = received[id] \o request[c].frames
  /\ \A id \in DOMAIN cache \ unsure :
       ~SaveQueued(id) => cache[id].checkpoint.rolled = received[id]
  /\ \A id \in DOMAIN disk \ unsure :
       ~SaveQueued(id) => disk[id].checkpoint.rolled = received[id]

DeliveredSoFar == Ahead /\ PageFollows /\ SavesTheSession /\ Exact

-----------------------------------------------------------------------------
(* One entry more, or one less, in a queue. *)

LEMMA Longer ==
  ASSUME NEW S, NEW s \in Seq(S), NEW x \in S
  PROVE  /\ Append(s, x) \in Seq(S) /\ Len(s) + 1 \in DOMAIN Append(s, x)
         /\ Append(s, x)[Len(s) + 1] = x /\ Len(s) + 1 \notin DOMAIN s
         /\ DOMAIN Append(s, x) = DOMAIN s \cup {Len(s) + 1}
         /\ \A i \in DOMAIN s : Append(s, x)[i] = s[i] /\ s[i] \in S /\ i < Len(s) + 1 /\ i \in Nat
OBVIOUS

LEMMA Shorter ==
  ASSUME NEW S, NEW s \in Seq(S), s # <<>>
  PROVE  /\ Tail(s) \in Seq(S) /\ Head(s) = s[1] /\ Head(s) \in S /\ 1 \in DOMAIN s
         /\ \A i \in DOMAIN Tail(s) :
              i \in Nat /\ i + 1 \in DOMAIN s /\ Tail(s)[i] = s[i + 1] /\ s[i + 1] \in S /\ i + 1 # 1
         /\ \A i \in DOMAIN s :
              i \in Nat /\ (i # 1 => i - 1 \in DOMAIN Tail(s) /\ Tail(s)[i - 1] = s[i] /\ i - 1 + 1 = i)
OBVIOUS

LEMMA Entries ==
  ASSUME NEW e \in Saves \cup Removals
  PROVE  /\ e.id \in Sessions /\ e.op \in {"save", "remove"} /\ e.by \in Clients \cup {Nobody}
         /\ e.op = "save" => e \in Saves /\ e.by \in Clients /\ e.session \in Snapshots
         /\ e.by # Nobody => e.by \in Clients
BY SessionsAssumption DEF Saves, Removals

-----------------------------------------------------------------------------
(* The protocol, one effect at a time. *)

(* A request is made, or answered, that never takes part in a chain.       *)
LEMMA ChainsApart ==
  ASSUME Shape, Chains, NEW c \in Clients, request[c].op \notin Locked,
         request'[c].op \notin Locked, locks' = locks,
         \A d \in Clients \ {c} : request'[d] = request[d],
         DOMAIN objects \subseteq DOMAIN objects'
  PROVE  Chains'
<1>1. \A k \in Sessions : \A i \in DOMAIN locks[k] : locks[k][i] \in Clients \ {c}
  BY DEF Shape, Chains
<1>2. ASSUME NEW d \in Clients, request'[d].op \in Locked
      PROVE  d # c /\ request'[d] = request[d]
  BY <1>2
<1> QED BY <1>1, <1>2 DEF Chains, Asks, At, Does

(* A request joins the chain of its session. *)
LEMMA ChainsJoined ==
  ASSUME Shape, Chains, NEW c \in Clients, NEW id \in DOMAIN objects, request[c] = NoRequest,
         NEW r \in Operations, r.id = id, r.stage = "lock", r.frames = <<>>,
         r.op = "read" => r.arg \in Limits, r.op = "seek" => r.arg \in SeekTargets,
         request' = [request EXCEPT ![c] = r], objects' = objects,
         locks' = [locks EXCEPT ![id] = Append(@, c)]
  PROVE  Chains'
<1>1. /\ id \in Sessions /\ locks[id] \in Seq(Clients) /\ r.op \in Locked /\ r # NoRequest
      /\ request[c].op \notin Locked
  BY DEF Shape, Operations, NoRequest, Locked
<1> DEFINE line == Append(locks[id], c)
           n == Len(locks[id]) + 1
<1>2. /\ n \in DOMAIN line /\ line[n] = c /\ DOMAIN line = DOMAIN locks[id] \cup {n}
      /\ \A i \in DOMAIN locks[id] : line[i] = locks[id][i] /\ line[i] \in Clients
  BY <1>1, Longer
<1>3. /\ locks'[id] = line
      /\ \A k \in Sessions \ {id} : locks'[k] = locks[k] /\ locks[k] \in Seq(Clients)
      /\ request'[c] = r /\ \A d \in Clients \ {c} : request'[d] = request[d]
  BY <1>1 DEF Shape
<1>4. \A k \in Sessions : \A i \in DOMAIN locks[k] : locks[k][i] # c /\ locks[k][i] \in Clients
  BY <1>1 DEF Chains, Shape
<1> HIDE DEF line, n
<1>5. ASSUME NEW k \in Sessions
      PROVE  /\ \A i \in DOMAIN locks'[k] :
                  /\ request'[locks'[k][i]] # NoRequest /\ request'[locks'[k][i]].id = k
                  /\ request'[locks'[k][i]].op \in Locked
             /\ \A i, j \in DOMAIN locks'[k] : locks'[k][i] = locks'[k][j] => i = j
  <2>1. CASE k = id
    BY <1>1, <1>2, <1>3, <1>4, <2>1 DEF Chains, Asks
  <2>2. CASE k # id
    BY <1>3, <1>4, <2>2 DEF Chains, Asks
  <2> QED BY <2>1, <2>2
<1>6. ASSUME NEW d \in Clients, request'[d].op \in Locked
      PROVE  /\ request'[d].id \in DOMAIN objects'
             /\ Does(d, "read")' => request'[d].arg \in Limits
             /\ Does(d, "seek")' => request'[d].arg \in SeekTargets
             /\ ~At(d, "saving")' => request'[d].frames = <<>>
             /\ \E i \in DOMAIN locks'[request'[d].id] :
                  locks'[request'[d].id][i] = d /\ (~At(d, "lock")' => i = 1)
  <2>1. CASE d = c
    BY <1>1, <1>2, <1>3, <2>1 DEF Does, At
  <2>2. CASE d # c
    <3>1. request'[d] = request[d] /\ request[d].id \in Sessions
      BY <1>3, <1>6, <2>2, RequestKinds DEF Shape
    <3>2. CASE request[d].id = id
      BY <1>2, <1>3, <1>6, <3>1, <3>2 DEF Chains, Does, At
    <3>3. CASE request[d].id # id
      BY <1>3, <1>6, <3>1, <3>3 DEF Chains, Does, At
    <3> QED BY <3>2, <3>3
  <2> QED BY <2>1, <2>2
<1> QED BY <1>5, <1>6 DEF Chains, Asks

(* The first in a chain goes on. *)
LEMMA ChainsOn ==
  ASSUME Shape, Chains, NEW c \in Clients, request[c].op \in Locked,
         Head(locks[request[c].id]) = c,
         NEW r \in Operations, r.id = request[c].id, r.op = request[c].op,
         r.arg = request[c].arg, r.stage # "saving" => r.frames = <<>>,
         request' = [request EXCEPT ![c] = r], locks' = locks,
         DOMAIN objects \subseteq DOMAIN objects'
  PROVE  Chains'
<1>1. r # NoRequest /\ request[c] # NoRequest /\ request[c].id \in Sessions
  BY RequestKinds DEF Operations, NoRequest, Shape, Locked
<1>2. request'[c] = r /\ \A d \in Clients \ {c} : request'[d] = request[d]
  BY DEF Shape
<1>3. locks[r.id][1] = c /\ 1 \in DOMAIN locks[r.id]
  <2>1. locks[r.id] # <<>> /\ locks[r.id] \in Seq(Clients)
    BY <1>1 DEF Chains, Shape
  <2> QED BY <2>1, Shorter
<1>4. \A k \in Sessions : \A i \in DOMAIN locks[k] : locks[k][i] \in Clients
  BY DEF Shape
<1> QED BY <1>1, <1>2, <1>3, <1>4 DEF Chains, Asks, At, Does

(* The first in a chain is answered, the next one gets the lock. *)
LEMMA ChainsReleased ==
  ASSUME Shape, Chains, NEW c \in Clients, request[c].op \in Locked,
         Head(locks[request[c].id]) = c, Release(c), DOMAIN objects \subseteq DOMAIN objects'
  PROVE  Chains'
<1> DEFINE id == request[c].id
           line == locks[id]
<1>1. /\ id \in Sessions /\ request[c] # NoRequest /\ locks' = [locks EXCEPT ![id] = Tail(@)]
      /\ line \in Seq(Clients)
  BY RequestKinds DEF Shape, Release
<1>2. line # <<>>
  BY <1>1 DEF Chains
<1>3. /\ line[1] = c /\ 1 \in DOMAIN line /\ Tail(line) \in Seq(Clients)
      /\ \A i \in DOMAIN Tail(line) :
           i + 1 \in DOMAIN line /\ Tail(line)[i] = line[i + 1] /\ line[i + 1] \in Clients /\ i + 1 # 1
           /\ i \in Nat
      /\ \A i \in DOMAIN line : i # 1 => i - 1 \in DOMAIN Tail(line) /\ Tail(line)[i - 1] = line[i]
  <2>1. line[1] = c
    BY <1>1, <1>2, Shorter DEF Chains
  <2> QED BY <1>1, <1>2, <2>1, Shorter
<1>4. /\ locks'[id] = Tail(line)
      /\ \A k \in Sessions \ {id} : locks'[k] = locks[k] /\ locks[k] \in Seq(Clients)
      /\ request'[c] = NoRequest /\ \A d \in Clients \ {c} : request'[d] = request[d]
  BY <1>1 DEF Shape, Release
<1>5. NoRequest.op \notin Locked
  BY DEF NoRequest, Locked
<1>6. /\ \A i \in DOMAIN line : i # 1 => line[i] # c
      /\ \A k \in Sessions \ {id} : \A i \in DOMAIN locks[k] :
           locks[k][i] # c /\ locks[k][i] \in Clients
  <2>1. \A k \in Sessions \ {id} : \A i \in DOMAIN locks[k] : locks[k][i] \in Clients
    BY <1>4
  <2> QED BY <1>1, <1>3, <2>1 DEF Chains, Asks
<1> HIDE DEF line
<1>7. ASSUME NEW k \in Sessions
      PROVE  /\ \A i \in DOMAIN locks'[k] :
                  /\ request'[locks'[k][i]] # NoRequest /\ request'[locks'[k][i]].id = k
                  /\ request'[locks'[k][i]].op \in Locked
             /\ \A i, j \in DOMAIN locks'[k] : locks'[k][i] = locks'[k][j] => i = j
  <2>1. CASE k = id
    <3>1. ASSUME NEW i \in DOMAIN Tail(line)
          PROVE  /\ request'[line[i + 1]] # NoRequest /\ request'[line[i + 1]].id = id
                 /\ request'[line[i + 1]].op \in Locked
      BY <1>1, <1>3, <1>4, <1>6 DEF Chains, Asks, line
    <3>2. ASSUME NEW i \in DOMAIN Tail(line), NEW j \in DOMAIN Tail(line),
                 Tail(line)[i] = Tail(line)[j]
          PROVE  i = j
      <4>1. i + 1 = j + 1
        BY <1>1, <1>3, <3>2 DEF Chains, line
      <4> QED BY <1>3, <4>1
    <3> DEFINE rest == Tail(line)
    <3>3. /\ locks'[k] = rest /\ \A i, j \in DOMAIN rest : rest[i] = rest[j] => i = j
          /\ \A i \in DOMAIN rest : rest[i] = line[i + 1]
      BY <1>3, <1>4, <2>1, <3>2
    <3>4. \A i \in DOMAIN rest : /\ request'[rest[i]] # NoRequest /\ request'[rest[i]].id = id
                                 /\ request'[rest[i]].op \in Locked
      BY <3>1, <3>3
    <3> HIDE DEF rest
    <3> QED BY <2>1, <3>3, <3>4
  <2>2. CASE k # id
    BY <1>4, <1>6, <2>2 DEF Chains, Asks
  <2> QED BY <2>1, <2>2
<1>8. ASSUME NEW d \in Clients, request'[d].op \in Locked
      PROVE  /\ request'[d].id \in DOMAIN objects'
             /\ Does(d, "read")' => request'[d].arg \in Limits
             /\ Does(d, "seek")' => request'[d].arg \in SeekTargets
             /\ ~At(d, "saving")' => request'[d].frames = <<>>
             /\ \E i \in DOMAIN locks'[request'[d].id] :
                  locks'[request'[d].id][i] = d /\ (~At(d, "lock")' => i = 1)
  <2>1. d # c /\ request'[d] = request[d] /\ request[d].id \in Sessions
    BY <1>4, <1>5, <1>8, RequestKinds DEF Shape
  <2>2. PICK i \in DOMAIN locks[request[d].id] :
          locks[request[d].id][i] = d /\ (~At(d, "lock") => i = 1)
    BY <1>8, <2>1 DEF Chains
  <2>3. CASE request[d].id = id
    <3>1. i \in DOMAIN line /\ line[i] = d
      BY <2>2, <2>3 DEF line
    <3>2. i # 1 /\ At(d, "lock")
      BY <1>3, <2>1, <2>2, <3>1
    <3>3. locks'[request'[d].id] = Tail(line)
      BY <1>4, <2>1, <2>3
    <3>4. i - 1 \in DOMAIN locks'[request'[d].id] /\ locks'[request'[d].id][i - 1] = d
      BY <1>3, <3>1, <3>2, <3>3
    <3> QED BY <1>8, <2>1, <3>2, <3>4 DEF Chains, Does, At
  <2>4. CASE request[d].id # id
    BY <1>4, <1>8, <2>1, <2>2, <2>4 DEF Chains, Does, At
  <2> QED BY <2>3, <2>4
<1> QED BY <1>7, <1>8 DEF Chains, Asks

(* Requests that only go on or are answered. *)
LEMMA UnknownKept ==
  ASSUME Unknown, created \subseteq created',
         \A c \in Clients : request'[c] # NoRequest =>
           /\ request[c] # NoRequest
           /\ request'[c].id = request[c].id /\ request'[c].op = request[c].op
  PROVE  Unknown'
BY DEF Unknown, Asks, Does

LEMMA UnknownNew ==
  ASSUME Shape, Unknown, created \subseteq created', NEW c \in Clients, NEW r,
         request' = [request EXCEPT ![c] = r], r.id \in created',
         r.op = "create" => \A d \in Clients : ~Asks(d, r.id),
         r.op # "create" => \A d \in Clients : Asks(d, r.id) => ~Does(d, "create")
  PROVE  Unknown'
<1>1. request'[c] = r /\ \A d \in Clients \ {c} : request'[d] = request[d]
  BY DEF Shape
<1> QED BY <1>1 DEF Unknown, Asks, Does

(* No operation begins or ends. *)
LEMMA QueuedSame ==
  ASSUME Shape, Queued, tail' = tail, created \subseteq created',
         \A d \in Clients : At(d, "saving") => request'[d] = request[d]
  PROVE  Queued'
<1>1. \A i \in DOMAIN tail : tail[i].by # Nobody => tail[i].by \in Clients
  <2>1. \A i \in DOMAIN tail : tail[i] \in Saves \cup Removals
    BY DEF Shape
  <2> QED BY <2>1, Entries
<1> QED BY <1>1 DEF Queued, Asks, At, Does

(* The entry's request waits for it now. *)
Awaits(c, e) ==
  /\ Asks(c, e.id) /\ At(c, "saving")
  /\ IF e.op = "save" THEN ~Does(c, "delete")
     ELSE ~Does(c, "create") /\ (request[c].op \in Locked => request[c].frames = <<>>)

LEMMA QueuedMore ==
  ASSUME Shape, Queued, created \subseteq created', NEW e \in Saves \cup Removals,
         tail' = Append(tail, e), e.id \in created',
         e.by # Nobody => ~At(e.by, "saving") /\ Awaits(e.by, e)',
         \A d \in Clients \ {e.by} : At(d, "saving") => request'[d] = request[d]
  PROVE  Queued'
<1>1. \A i \in DOMAIN tail : tail[i] \in Saves \cup Removals
  BY DEF Shape
<1>2. /\ Len(tail) + 1 \in DOMAIN tail' /\ tail'[Len(tail) + 1] = e
      /\ DOMAIN tail' = DOMAIN tail \cup {Len(tail) + 1}
      /\ \A i \in DOMAIN tail : tail'[i] = tail[i]
  BY Longer DEF Shape
<1>3. \A i \in DOMAIN tail : tail[i].by # Nobody => tail[i].by \in Clients \ {e.by}
  BY <1>1, Entries DEF Queued
<1>4. \A i \in DOMAIN tail : tail[i].by # Nobody => request'[tail[i].by] = request[tail[i].by]
  BY <1>3 DEF Queued
<1> QED BY <1>2, <1>3, <1>4 DEF Queued, Awaits, Asks, At, Does

(* The first operation is done. *)
LEMMA QueuedLess ==
  ASSUME Shape, Queued, created \subseteq created', tail # <<>>, tail' = Tail(tail),
         \A d \in Clients : d # Head(tail).by => request'[d] = request[d]
  PROVE  Queued'
<1>1. \A i \in DOMAIN tail : tail[i] \in Saves \cup Removals
  BY DEF Shape
<1>2. /\ Head(tail) = tail[1] /\ 1 \in DOMAIN tail
      /\ \A i \in DOMAIN tail' :
           i + 1 \in DOMAIN tail /\ tail'[i] = tail[i + 1] /\ i + 1 # 1 /\ i \in Nat
  BY Shorter DEF Shape
<1>3. \A i \in DOMAIN tail' : tail'[i].by # Nobody =>
        /\ tail'[i].by \in Clients /\ request'[tail'[i].by] = request[tail'[i].by]
  BY <1>1, <1>2, Entries DEF Queued
<1>4. ASSUME NEW i \in DOMAIN tail', NEW j \in DOMAIN tail', tail'[i].by = tail'[j].by,
             tail'[i].by # Nobody
      PROVE  i = j
  <2>1. i + 1 = j + 1
    BY <1>2, <1>4 DEF Queued
  <2> QED BY <1>2, <2>1
<1> QED BY <1>2, <1>3, <1>4 DEF Queued, Asks, At, Does

-----------------------------------------------------------------------------
(* Every step keeps the shape and the protocol. *)

LEMMA TurnKnown ==
  ASSUME Shape, Protocol, NEW c \in Clients, NEW stage \in {"lock", "source"}, Turn(c, stage)
  PROVE  /\ phase = "up" /\ request[c] \in Operations /\ request[c] # NoRequest
         /\ request[c].op \in Locked /\ request[c].stage = stage /\ request[c].frames = <<>>
         /\ request[c].id \in DOMAIN objects /\ request[c].id \in created
         /\ request[c].id \in Sessions /\ Head(locks[request[c].id]) = c
         /\ objects[request[c].id] \in Objects /\ At(c, stage) /\ ~At(c, "saving")
         /\ Does(c, "read") => request[c].arg \in Limits
         /\ Does(c, "seek") => request[c].arg \in SeekTargets
<1>1. /\ phase = "up" /\ request[c] \in Operations /\ request[c] # NoRequest
      /\ request[c].op \in Locked /\ request[c].stage = stage /\ request[c].id \in Sessions
      /\ Head(locks[request[c].id]) = c /\ At(c, stage) /\ ~At(c, "saving")
  BY RequestKinds DEF Turn, Shape, At
<1>2. /\ request[c].id \in DOMAIN objects /\ request[c].frames = <<>>
      /\ Does(c, "read") => request[c].arg \in Limits
      /\ Does(c, "seek") => request[c].arg \in SeekTargets
  BY <1>1 DEF Protocol, Chains
<1>3. request[c].id \in created /\ objects[request[c].id] \in Objects
  BY <1>2 DEF Shape, IsMap
<1> QED BY <1>1, <1>2, <1>3

(* An operation of a session goes on with its call of the repository. *)
LEMMA Submits ==
  ASSUME Shape, Protocol, NEW c \in Clients, NEW stage \in {"lock", "source"}, Turn(c, stage),
         NEW r \in Operations, r.stage = "saving", r.id = request[c].id, r.op = request[c].op,
         r.arg = request[c].arg,
         NEW e \in Saves \cup Removals, e.by = c, e.id = r.id, e.op = "remove" => r.frames = <<>>,
         request' = [request EXCEPT ![c] = r], tail' = Append(tail, e),
         IsMap(objects', Objects), DOMAIN objects' = DOMAIN objects, present' \subseteq present,
         received' \in [Sessions -> Frames], unsure' \subseteq Sessions,
         UNCHANGED <<phase, todo, created, locks, cache, disk, changed, gone>>
  PROVE  Shape' /\ Protocol'
<1>1. /\ phase = "up" /\ request[c].op \in Locked /\ request[c] # NoRequest
      /\ Head(locks[request[c].id]) = c /\ r.id \in created /\ ~At(c, "saving")
  BY TurnKnown
<1>2. r \in Requests /\ r # NoRequest /\ r.op \notin {"create", "delete"}
  BY DEF Requests, Operations, NoRequest, Locked
<1>3. request'[c] = r /\ \A d \in Clients \ {c} : request'[d] = request[d]
  BY DEF Shape
<1>4. Shape'
  <2>1. tail' \in Seq(Saves \cup Removals)
    BY Longer DEF Shape
  <2>2. request' \in [Clients -> Requests]
    BY <1>2 DEF Shape
  <2> QED BY <2>1, <2>2 DEF Shape, IsMap
<1>5. Chains'
  BY <1>1, ChainsOn DEF Protocol
<1>6. Unknown'
  BY <1>1, <1>3, UnknownKept DEF Protocol
<1>7. Queued'
  <2>1. e.by # Nobody => ~At(e.by, "saving") /\ Awaits(e.by, e)'
    BY <1>1, <1>2, <1>3, Entries DEF Awaits, Asks, At, Does
  <2>2. \A d \in Clients \ {e.by} : At(d, "saving") => request'[d] = request[d]
    BY <1>3
  <2>3. created \subseteq created' /\ e.id \in created'
    BY <1>1
  <2> QED BY <2>1, <2>2, <2>3, QueuedMore DEF Protocol
<1>8. Phases'
  BY <1>1 DEF Protocol, Phases
<1> QED BY <1>4, <1>5, <1>6, <1>7, <1>8 DEF Protocol

(* An operation goes on to the capture. *)
LEMMA Advances ==
  ASSUME Shape, Protocol, NEW c \in Clients, Turn(c, "lock"), Wait(c, "source"),
         IsMap(objects', Objects), DOMAIN objects' = DOMAIN objects,
         UNCHANGED <<phase, todo, created, locks, present, tail, cache, disk, changed, received,
                     unsure, gone>>
  PROVE  /\ Shape' /\ Protocol'
         /\ request'[c] # NoRequest /\ request'[c].id = request[c].id
         /\ request'[c].op = request[c].op /\ request'[c].stage = "source"
         /\ request'[c].frames = <<>> /\ \A d \in Clients \ {c} : request'[d] = request[d]
<1> DEFINE r == [request[c] EXCEPT !.stage = "source"]
<1>1. /\ phase = "up" /\ request[c].op \in Locked /\ request[c] # NoRequest
      /\ request[c] \in Operations /\ request[c].frames = <<>>
      /\ Head(locks[request[c].id]) = c /\ request[c].id \in created /\ ~At(c, "saving")
  BY TurnKnown
<1>2. /\ r \in Operations /\ r.stage = "source" /\ r.id = request[c].id /\ r.op = request[c].op
      /\ r.arg = request[c].arg /\ r.frames = <<>>
  BY <1>1, Staged
<1>3. request' = [request EXCEPT ![c] = r]
  BY DEF Wait
<1> HIDE DEF r
<1>4. r \in Requests /\ r # NoRequest
  BY <1>2 DEF Requests, Operations, NoRequest, Locked
<1>5. request'[c] = r /\ \A d \in Clients \ {c} : request'[d] = request[d]
  BY <1>3 DEF Shape
<1>6. Shape'
  <2>1. request' \in [Clients -> Requests]
    BY <1>3, <1>4 DEF Shape
  <2> QED BY <2>1 DEF Shape, IsMap
<1>7. Chains'
  BY <1>1, <1>2, <1>3, ChainsOn DEF Protocol
<1>8. Unknown'
  BY <1>1, <1>2, <1>5, UnknownKept DEF Protocol
<1>9. Queued'
  BY <1>1, <1>5, QueuedSame DEF Protocol
<1>10. Phases'
  BY <1>1 DEF Protocol, Phases
<1> QED BY <1>2, <1>4, <1>5, <1>6, <1>7, <1>8, <1>9, <1>10 DEF Protocol

LEMMA Released ==
  ASSUME Shape, NEW c \in Clients, Release(c)
  PROVE  /\ request' \in [Clients -> Requests] /\ request'[c] = NoRequest
         /\ \A d \in Clients \ {c} : request'[d] = request[d]
         /\ request[c].op \in Locked /\ locks[request[c].id] # <<>> =>
              locks' \in [Sessions -> Seq(Clients)]
         /\ request[c].op \notin Locked => locks' = locks
<1>1. NoRequest \in Requests
  BY DEF Requests
<1>2. ASSUME request[c].op \in Locked, locks[request[c].id] # <<>>
      PROVE  locks' \in [Sessions -> Seq(Clients)]
  <2>1. locks[request[c].id] \in Seq(Clients)
    BY <1>2, RequestKinds DEF Shape
  <2>2. Tail(locks[request[c].id]) \in Seq(Clients)
    BY <1>2, <2>1, Shorter
  <2> QED BY <1>2, <2>2 DEF Shape, Release
<1> QED BY <1>1, <1>2 DEF Shape, Release

(* An operation ends without a call of the repository. *)
LEMMA Answers ==
  ASSUME Shape, Protocol, NEW c \in Clients, NEW stage \in {"lock", "source"}, Turn(c, stage),
         Release(c),
         UNCHANGED <<phase, todo, created, objects, present, tail, cache, disk, changed, received,
                     unsure, gone>>
  PROVE  /\ Shape' /\ Protocol' /\ request'[c] = NoRequest
         /\ \A d \in Clients \ {c} : request'[d] = request[d]
<1>1. /\ phase = "up" /\ request[c].op \in Locked /\ request[c] # NoRequest
      /\ Head(locks[request[c].id]) = c /\ ~At(c, "saving") /\ request[c].id \in Sessions
  BY TurnKnown
<1>2. locks[request[c].id] # <<>>
  BY <1>1 DEF Protocol, Chains
<1>3. /\ request' \in [Clients -> Requests] /\ request'[c] = NoRequest
      /\ locks' \in [Sessions -> Seq(Clients)]
      /\ \A d \in Clients \ {c} : request'[d] = request[d]
  BY <1>1, <1>2, Released
<1>4. Shape'
  BY <1>3 DEF Shape, IsMap
<1>5. Chains'
  BY <1>1, ChainsReleased DEF Protocol
<1>6. Unknown'
  BY <1>3, UnknownKept DEF Protocol
<1>7. Queued'
  BY <1>1, <1>3, QueuedSame DEF Protocol
<1>8. Phases'
  BY <1>1 DEF Protocol, Phases
<1> QED BY <1>3, <1>4, <1>5, <1>6, <1>7, <1>8 DEF Protocol

(* The repository is done with an operation. *)
LEMMA Completes ==
  ASSUME Shape, Protocol, phase = "up", tail # <<>>, tail' = Tail(tail),
         IF Head(tail).by = Nobody THEN UNCHANGED <<request, locks>> ELSE Release(Head(tail).by),
         IsMap(cache', Snapshots), IsMap(disk', Snapshots),
         DOMAIN cache' \cup DOMAIN disk' \cup gone' \subseteq created,
         received' \in [Sessions -> Frames], unsure' \subseteq Sessions,
         UNCHANGED <<phase, todo, created, objects, present, changed>>
  PROVE  /\ Shape' /\ Protocol'
         /\ Head(tail).by # Nobody => Head(tail).by \in Clients /\ request'[Head(tail).by] = NoRequest
         /\ \A d \in Clients : d # Head(tail).by => request'[d] = request[d]
<1> DEFINE by == Head(tail).by
<1>1. /\ Head(tail) \in Saves \cup Removals /\ tail' \in Seq(Saves \cup Removals)
      /\ Head(tail) = tail[1] /\ 1 \in DOMAIN tail
  BY Shorter DEF Shape
<1>2. by # Nobody => by \in Clients
  BY <1>1, Entries
<1>3. by # Nobody => Asks(by, Head(tail).id) /\ At(by, "saving")
  BY <1>1 DEF Protocol, Queued
<1>4. ASSUME by # Nobody, request[by].op \in Locked
      PROVE  locks[request[by].id] # <<>> /\ Head(locks[request[by].id]) = by
  <2>1. request[by].id \in Sessions /\ ~At(by, "lock")
    BY <1>2, <1>3, <1>4, RequestKinds DEF Shape, At
  <2>2. 1 \in DOMAIN locks[request[by].id] /\ locks[request[by].id][1] = by
    BY <1>2, <1>4, <2>1 DEF Protocol, Chains
  <2>3. locks[request[by].id] \in Seq(Clients)
    BY <2>1 DEF Shape
  <2>4. locks[request[by].id] # <<>>
    BY <2>2
  <2> QED BY <2>2, <2>3, <2>4, Shorter
<1>5. /\ request' \in [Clients -> Requests] /\ locks' \in [Sessions -> Seq(Clients)]
      /\ by # Nobody => request'[by] = NoRequest
      /\ \A d \in Clients : d # by => request'[d] = request[d]
  <2>1. CASE by = Nobody
    BY <2>1 DEF Shape
  <2>2. CASE by # Nobody
    <3>1. Release(by)
      BY <2>2
    <3> HIDE DEF by
    <3>2. /\ request' \in [Clients -> Requests] /\ request'[by] = NoRequest
          /\ \A d \in Clients \ {by} : request'[d] = request[d]
          /\ request[by].op \in Locked => locks' \in [Sessions -> Seq(Clients)]
          /\ request[by].op \notin Locked => locks' = locks
      BY <1>2, <1>4, <2>2, <3>1, Released
    <3> QED BY <3>2 DEF Shape
  <2> QED BY <2>1, <2>2
<1>6. Shape'
  BY <1>1, <1>5 DEF Shape, IsMap
<1>7. Chains'
  <2>1. CASE by = Nobody
    BY <2>1 DEF Protocol, Chains, Asks, At, Does
  <2>2. CASE by # Nobody /\ request[by].op \in Locked
    BY <1>2, <1>4, <2>2, ChainsReleased DEF Protocol
  <2>3. CASE by # Nobody /\ request[by].op \notin Locked
    <3>1. request'[by].op \notin Locked /\ locks' = locks /\ \A d \in Clients \ {by} : request'[d] = request[d]
      BY <1>5, <2>3 DEF Release, NoRequest, Locked
    <3> QED BY <1>2, <2>3, <3>1, ChainsApart DEF Protocol
  <2> QED BY <2>1, <2>2, <2>3
<1>8. Unknown'
  BY <1>2, <1>5, UnknownKept DEF Protocol
<1>9. Queued'
  BY <1>5, QueuedLess DEF Protocol
<1>10. Phases'
  BY DEF Protocol, Phases
<1> QED BY <1>2, <1>5, <1>6, <1>7, <1>8, <1>9, <1>10 DEF Protocol

(* The request of c waits for the operation e now. *)
Submitted(c, e, frames) ==
  /\ e \in Saves \cup Removals /\ e.by = c /\ e.id = request[c].id /\ tail' = Append(tail, e)
  /\ request'[c] # NoRequest /\ request'[c].id = request[c].id
  /\ request'[c].op = request[c].op /\ request'[c].stage = "saving"
  /\ request'[c].frames = frames
  /\ \A d \in Clients \ {c} : request'[d] = request[d]

(* One session object has changed. *)
Changed(id, session) ==
  /\ objects'[id] = session /\ DOMAIN objects' = DOMAIN objects
  /\ \A k \in DOMAIN objects \ {id} : objects'[k] = objects[k]

LEMMA SaveEntry ==
  ASSUME NEW c \in Clients, NEW id \in Sessions, NEW session \in Objects
  PROVE  LET e == [op |-> "save", id |-> id, by |-> c, session |-> PublicSnapshot(session)]
         IN  /\ e \in Saves /\ e.op = "save" /\ e.id = id /\ e.by = c
             /\ e.session = PublicSnapshot(session)
BY Snapshot DEF Saves

LEMMA RemovalEntry ==
  ASSUME NEW by \in Clients \cup {Nobody}, NEW id \in Sessions
  PROVE  LET e == [op |-> "remove", id |-> id, by |-> by]
         IN  e \in Removals /\ e.op = "remove" /\ e.id = id /\ e.by = by
BY DEF Removals

LEMMA SaveSubmits ==
  ASSUME Shape, Protocol, NEW c \in Clients, NEW stage \in {"lock", "source"}, Turn(c, stage),
         NEW session \in Objects, Save(c, request[c].id, session),
         received' \in [Sessions -> Frames], unsure' \subseteq Sessions,
         UNCHANGED <<phase, todo, created, present, locks, cache, disk, changed, gone>>
  PROVE  /\ Shape' /\ Protocol' /\ Changed(request[c].id, session)
         /\ \E e \in Saves : /\ Submitted(c, e, <<>>) /\ e.op = "save"
                             /\ e.session.checkpoint = session.checkpoint
<1> DEFINE id == request[c].id
           r == [request[c] EXCEPT !.stage = "saving"]
<1>1. /\ request[c] \in Operations /\ request[c].frames = <<>>
      /\ id \in DOMAIN objects /\ id \in Sessions
  BY TurnKnown
<1>2. /\ r \in Operations /\ r.stage = "saving" /\ r.id = id /\ r.op = request[c].op
      /\ r.arg = request[c].arg /\ r.frames = <<>>
  BY <1>1, Staged
<1>3. request' = [request EXCEPT ![c] = r]
  BY DEF Save, Wait
<1>4. objects' = [objects EXCEPT ![id] = session]
  BY DEF Save
<1>5. Changed(id, session) /\ IsMap(objects', Objects)
  <2> HIDE DEF id
  <2> QED BY <1>1, <1>4, NewEntry DEF Shape, Changed
<1>6. PICK e \in Saves : /\ e.op = "save" /\ e.id = id /\ e.by = c /\ tail' = Append(tail, e)
                         /\ e.session.checkpoint = session.checkpoint
  <2>1. tail' = Append(tail, [op |-> "save", id |-> id, by |-> c,
                              session |-> PublicSnapshot(objects'[id])])
    BY DEF Save, Persist
  <2>2. objects'[id] = session
    BY <1>5 DEF Changed
  <2> HIDE DEF id
  <2> QED BY <1>1, <2>1, <2>2, SaveEntry, Snapshot
<1> HIDE DEF r
<1>7. r # NoRequest
  BY <1>2 DEF Operations, NoRequest, Locked
<1>8. request'[c] = r /\ \A d \in Clients \ {c} : request'[d] = request[d]
  BY <1>3 DEF Shape
<1>9. DOMAIN objects' = DOMAIN objects
  BY <1>5 DEF Changed
<1>10. Shape' /\ Protocol'
  BY <1>2, <1>3, <1>5, <1>6, <1>9, Submits
<1> QED BY <1>2, <1>5, <1>6, <1>7, <1>8, <1>10 DEF Submitted

LEMMA PlaybackStarts ==
  ASSUME Shape, Protocol, NEW c \in Clients, StartPlayback(c)
  PROVE  /\ Shape' /\ Protocol' /\ Turn(c, "lock") /\ request[c].id \in present
         /\ ~Does(c, "read")
         /\ \E session \in Objects :
              /\ Changed(request[c].id, session)
              /\ session.checkpoint = objects[request[c].id].checkpoint
              /\ \E e \in Saves : /\ Submitted(c, e, <<>>) /\ e.op = "save"
                                  /\ e.session.checkpoint = session.checkpoint
         /\ UNCHANGED <<phase, todo, created, present, locks, cache, disk, world, history>>
<1> DEFINE id == request[c].id
           session == objects[id]
<1>1. Turn(c, "lock") /\ id \in present /\ request[c].op \in {"pause", "resume", "speed"}
  BY DEF StartPlayback, Starts, Found
<1>2. session \in Objects
  BY <1>1, TurnKnown
<1>3. UNCHANGED <<phase, todo, created, present, locks, cache, disk, world, history>>
  BY SMTT(30) DEF StartPlayback
<1>4. PICK playhead \in Playheads(session) :
        LET moved == [session EXCEPT !.playhead = playhead]
        IN  CASE request[c].op = "pause" -> Save(c, id, Paused(moved))
              [] request[c].op = "speed" -> Save(c, id, [moved EXCEPT !.anchor = playhead])
              [] OTHER -> /\ moved.status # "completed"
                          /\ Save(c, id, [moved EXCEPT !.status = "playing",
                                                       !.anchor = playhead])
  BY DEF StartPlayback
<1>5. playhead \in Times
  <2>1. session.playhead \in Times /\ session.anchor \in Times
    BY <1>2 DEF Objects
  <2> HIDE DEF session
  <2> QED BY <2>1, SourceAssumption DEF Playheads, Times
<1> DEFINE moved == [session EXCEPT !.playhead = playhead]
<1>6. moved \in Objects /\ moved.checkpoint = session.checkpoint
  BY <1>2, <1>5, Moved
<1>7. /\ Paused(moved) \in Objects /\ Paused(moved).checkpoint = moved.checkpoint
      /\ [moved EXCEPT !.anchor = playhead] \in Objects
      /\ [moved EXCEPT !.anchor = playhead].checkpoint = moved.checkpoint
      /\ [moved EXCEPT !.status = "playing", !.anchor = playhead] \in Objects
      /\ [moved EXCEPT !.status = "playing", !.anchor = playhead].checkpoint = moved.checkpoint
  <2>1. "playing" \in Statuses
    BY DEF Statuses
  <2> HIDE DEF moved
  <2> QED BY <1>5, <1>6, <2>1, PausedSession, Moved, Turned, ZenonT(60)
<1> DEFINE p == Paused(moved)
           a == [moved EXCEPT !.anchor = playhead]
           r == [moved EXCEPT !.status = "playing", !.anchor = playhead]
<1>8. Save(c, id, p) \/ Save(c, id, a) \/ Save(c, id, r)
  BY <1>1, <1>4
<1>9. p \in Objects /\ a \in Objects /\ r \in Objects
  BY <1>7
<1>10. /\ p.checkpoint = session.checkpoint /\ a.checkpoint = session.checkpoint
       /\ r.checkpoint = session.checkpoint
  BY <1>6, <1>7
<1> HIDE DEF p, a, r
<1>11. \E s \in Objects : Save(c, id, s) /\ s.checkpoint = session.checkpoint
  BY <1>8, <1>9, <1>10
<1>12. PICK s \in Objects : Save(c, id, s) /\ s.checkpoint = session.checkpoint
  BY <1>11
<1>13. received' \in [Sessions -> Frames] /\ unsure' \subseteq Sessions
       /\ UNCHANGED <<phase, todo, created, present, locks, cache, disk, changed, gone>>
  BY <1>3 DEF world, history, Shape
<1>14. /\ Shape' /\ Protocol' /\ Changed(id, s)
       /\ \E e \in Saves : /\ Submitted(c, e, <<>>) /\ e.op = "save"
                           /\ e.session.checkpoint = s.checkpoint
  BY <1>1, <1>12, <1>13, SaveSubmits
<1> QED BY <1>1, <1>3, <1>12, <1>14 DEF Does

LEMMA SeekAnswered ==
  ASSUME Shape, Protocol, NEW c \in Clients, SeekAnswers(c)
  PROVE  /\ Shape' /\ Protocol' /\ Turn(c, "source") /\ Does(c, "seek")
         /\ \E session \in Objects :
              /\ Changed(request[c].id, session) /\ session.checkpoint.rolled = <<>>
              /\ \E e \in Saves : /\ Submitted(c, e, <<>>) /\ e.op = "save"
                                  /\ e.session.checkpoint = session.checkpoint
         /\ received' = [received EXCEPT ![request[c].id] = <<>>]
         /\ unsure' = unsure \ {request[c].id}
         /\ UNCHANGED <<phase, todo, created, present, locks, cache, disk, world, gone>>
<1> DEFINE id == request[c].id
           session == Seeked(objects[id], request[c].arg)
<1>1. Turn(c, "source") /\ Does(c, "seek")
  BY DEF SeekAnswers, Does
<1>2. session \in Objects /\ session.checkpoint.rolled = <<>>
  BY <1>1, TurnKnown, SeekedSession
<1>3. /\ Save(c, id, session) /\ received' = [received EXCEPT ![id] = <<>>]
      /\ unsure' = unsure \ {id}
      /\ UNCHANGED <<phase, todo, created, present, locks, cache, disk, world, gone>>
  BY DEF SeekAnswers
<1>4. /\ received' \in [Sessions -> Frames] /\ unsure' \subseteq Sessions
      /\ UNCHANGED <<phase, todo, created, present, locks, cache, disk, changed, gone>>
  <2>1. <<>> \in Frames
    BY DEF Frames
  <2> HIDE DEF id, session
  <2> QED BY <1>3, <2>1 DEF Shape, world
<1> HIDE DEF session
<1>5. /\ Shape' /\ Protocol' /\ Changed(id, session)
      /\ \E e \in Saves : /\ Submitted(c, e, <<>>) /\ e.op = "save"
                          /\ e.session.checkpoint = session.checkpoint
  BY <1>1, <1>2, <1>3, <1>4, SaveSubmits
<1> QED BY <1>1, <1>2, <1>3, <1>5

LEMMA ReadAnswered ==
  ASSUME Shape, Protocol, NEW c \in Clients, ReadAnswers(c)
  PROVE  /\ Shape' /\ Protocol' /\ Turn(c, "source") /\ Does(c, "read")
         /\ \E session \in Objects, frames \in Frames :
              /\ Changed(request[c].id, session) /\ Increasing(frames)
              /\ LET before == objects[request[c].id].checkpoint
                 IN  /\ \A k \in DOMAIN frames : Cursor(before) < frames[k]
                     /\ session.checkpoint.rolled = before.rolled \o frames
              /\ \E e \in Saves : /\ Submitted(c, e, frames) /\ e.op = "save"
                                  /\ e.session.checkpoint = session.checkpoint
         /\ UNCHANGED <<phase, todo, created, present, locks, cache, disk, world, history>>
<1> DEFINE id == request[c].id
           page == PageOf(objects[id], request[c].arg, request[c].preRoll)
           session == AfterRead(objects[id], page)
           frames == page.frames
           r == [request[c] EXCEPT !.stage = "saving"]
           s == [r EXCEPT !.frames = frames]
<1>1. Turn(c, "source") /\ Does(c, "read")
  BY DEF ReadAnswers, Does
<1>2. /\ request[c] \in Operations /\ id \in DOMAIN objects /\ id \in Sessions
      /\ objects[id] \in Objects /\ request[c].arg \in Limits
  BY <1>1, TurnKnown
<1>3. /\ frames \in Frames /\ Increasing(frames) /\ session \in Objects
      /\ \A k \in DOMAIN frames : Cursor(objects[id].checkpoint) < frames[k]
      /\ session.checkpoint.rolled = objects[id].checkpoint.rolled \o frames
  <2>1. request[c].preRoll \in BOOLEAN
    BY <1>2 DEF Operations
  <2> QED BY <1>2, <2>1, ReadSession
<1>4. /\ objects' = [objects EXCEPT ![id] = session] /\ Persist(c, id)
      /\ request' = [request EXCEPT ![c].stage = "saving", ![c].frames = frames]
      /\ UNCHANGED <<phase, todo, created, present, locks, cache, disk, world, history>>
  BY DEF ReadAnswers
<1>5. request' = [request EXCEPT ![c] = s]
  BY <1>4 DEF Shape
<1>6. /\ s \in Operations /\ s.stage = "saving" /\ s.id = id /\ s.op = request[c].op
      /\ s.arg = request[c].arg /\ s.frames = frames
  <2>1. /\ r \in Operations /\ r.stage = "saving" /\ r.id = id /\ r.op = request[c].op
        /\ r.arg = request[c].arg
    BY <1>2, Staged
  <2> HIDE DEF frames, r
  <2> QED BY <1>3, <2>1, Framed
<1> HIDE DEF s, session, frames
<1>7. Changed(id, session) /\ IsMap(objects', Objects)
  <2> HIDE DEF id
  <2> QED BY <1>2, <1>3, <1>4, NewEntry DEF Shape, Changed
<1>8. PICK e \in Saves : /\ e.op = "save" /\ e.id = id /\ e.by = c /\ tail' = Append(tail, e)
                         /\ e.session.checkpoint = session.checkpoint
  <2>1. tail' = Append(tail, [op |-> "save", id |-> id, by |-> c,
                              session |-> PublicSnapshot(objects'[id])])
    BY <1>4 DEF Persist
  <2>2. objects'[id] = session
    BY <1>7 DEF Changed
  <2> HIDE DEF id
  <2> QED BY <1>2, <1>3, <2>1, <2>2, SaveEntry, Snapshot
<1>9. s # NoRequest
  BY <1>6 DEF Operations, NoRequest, Locked
<1>10. request'[c] = s /\ \A d \in Clients \ {c} : request'[d] = request[d]
  BY <1>5 DEF Shape
<1>11. DOMAIN objects' = DOMAIN objects
  BY <1>7 DEF Changed
<1>12. /\ received' \in [Sessions -> Frames] /\ unsure' \subseteq Sessions
       /\ UNCHANGED <<phase, todo, created, present, locks, cache, disk, changed, gone>>
  BY <1>4 DEF Shape, world, history
<1>13. Shape' /\ Protocol'
  BY <1>1, <1>5, <1>6, <1>7, <1>8, <1>11, <1>12, Submits
<1>14. Submitted(c, e, frames)
  BY <1>6, <1>8, <1>9, <1>10 DEF Submitted
<1> QED BY <1>1, <1>3, <1>4, <1>7, <1>8, <1>13, <1>14

(* delete() of an expired session by the operation that found it. *)
Dropped(c) ==
  /\ Drop(c, request[c].id) /\ Wait(c, "saving")
  /\ UNCHANGED <<phase, todo, created, objects, locks, cache, disk, world, history>>

LEMMA DropSubmits ==
  ASSUME Shape, Protocol, NEW c \in Clients, Turn(c, "lock"), Dropped(c)
  PROVE  /\ Shape' /\ Protocol' /\ present' = present \ {request[c].id}
         /\ \E e \in Removals : Submitted(c, e, <<>>) /\ e.op = "remove"
<1> DEFINE id == request[c].id
           r == [request[c] EXCEPT !.stage = "saving"]
<1>1. /\ request[c] \in Operations /\ request[c].frames = <<>>
      /\ id \in DOMAIN objects /\ id \in Sessions
  BY TurnKnown
<1>2. /\ r \in Operations /\ r.stage = "saving" /\ r.id = id /\ r.op = request[c].op
      /\ r.arg = request[c].arg /\ r.frames = <<>>
  BY <1>1, Staged
<1>3. request' = [request EXCEPT ![c] = r]
  BY DEF Dropped, Wait
<1>4. PICK e \in Removals : e.op = "remove" /\ e.id = id /\ e.by = c /\ tail' = Append(tail, e)
  <2>1. tail' = Append(tail, [op |-> "remove", id |-> id, by |-> c])
    BY DEF Dropped, Drop
  <2> HIDE DEF id
  <2> QED BY <1>1, <2>1, RemovalEntry
<1> HIDE DEF r
<1>5. r # NoRequest
  BY <1>2 DEF Operations, NoRequest, Locked
<1>6. request'[c] = r /\ \A d \in Clients \ {c} : request'[d] = request[d]
  BY <1>3 DEF Shape
<1>7. /\ IsMap(objects', Objects) /\ DOMAIN objects' = DOMAIN objects /\ present' = present \ {id}
      /\ received' \in [Sessions -> Frames] /\ unsure' \subseteq Sessions
      /\ UNCHANGED <<phase, todo, created, locks, cache, disk, changed, gone>>
  BY DEF Shape, Dropped, Drop, world, history
<1>8. Shape' /\ Protocol'
  BY <1>2, <1>3, <1>4, <1>7, Submits
<1> QED BY <1>2, <1>4, <1>5, <1>6, <1>7, <1>8 DEF Submitted

LEMMA StartMissingIs ==
  ASSUME NEW c \in Clients, StartMissing(c)
  PROVE  /\ Turn(c, "lock")
         /\ \/ /\ Release(c)
               /\ UNCHANGED <<phase, todo, created, objects, present, tail, cache, disk, world,
                              history>>
            \/ Dropped(c)
BY DEF StartMissing, Dropped

(* No checkpoint has changed. *)
SameCheckpoints ==
  /\ DOMAIN objects' = DOMAIN objects
  /\ \A k \in DOMAIN objects : objects'[k].checkpoint = objects[k].checkpoint

LEMMA SourceAsked ==
  ASSUME Shape, Protocol, NEW c \in Clients, StartRead(c) \/ StartSeek(c)
  PROVE  /\ Shape' /\ Protocol' /\ Turn(c, "lock") /\ request[c].id \in present
         /\ SameCheckpoints
         /\ request'[c] # NoRequest /\ request'[c].id = request[c].id
         /\ request'[c].op = request[c].op /\ request'[c].stage = "source"
         /\ request'[c].frames = <<>> /\ \A d \in Clients \ {c} : request'[d] = request[d]
         /\ UNCHANGED <<phase, todo, created, present, locks, tail, cache, disk, world, history>>
<1> DEFINE id == request[c].id
<1>1. /\ Turn(c, "lock") /\ id \in present /\ Wait(c, "source")
      /\ UNCHANGED <<phase, todo, created, present, locks, tail, cache, disk, world, history>>
  BY DEF StartRead, StartSeek, Starts, Found
<1>2. IsMap(objects', Objects) /\ SameCheckpoints
  <2>1. CASE StartSeek(c)
    BY <2>1 DEF StartSeek, Shape, SameCheckpoints
  <2>2. CASE StartRead(c)
    <3>1. PICK playhead \in Playheads(objects[id]) : objects' = [objects EXCEPT ![id].playhead = playhead]
      BY <2>2 DEF StartRead
    <3>2. id \in DOMAIN objects /\ objects[id] \in Objects
      BY <1>1, TurnKnown
    <3>3. playhead \in Times
      <4>1. objects[id].playhead \in Times /\ objects[id].anchor \in Times
        BY <3>2 DEF Objects
      <4> HIDE DEF id
      <4> QED BY <4>1, SourceAssumption DEF Playheads, Times
    <3> DEFINE session == [objects[id] EXCEPT !.playhead = playhead]
    <3>4. session \in Objects /\ session.checkpoint = objects[id].checkpoint
      BY <3>2, <3>3, Moved
    <3>5. objects' = [objects EXCEPT ![id] = session]
      BY <3>1
    <3> HIDE DEF session, id
    <3>6. /\ IsMap(objects', Objects) /\ DOMAIN objects' = DOMAIN objects /\ objects'[id] = session
          /\ \A k \in DOMAIN objects : k # id => objects'[k] = objects[k]
      BY <3>2, <3>4, <3>5, NewEntry DEF Shape
    <3> QED BY <3>4, <3>6 DEF SameCheckpoints
  <2> QED BY <2>1, <2>2
<1>3. UNCHANGED <<phase, todo, created, locks, present, tail, cache, disk, changed, received,
                  unsure, gone>>
  BY <1>1 DEF world, history
<1>4. DOMAIN objects' = DOMAIN objects
  BY <1>2 DEF SameCheckpoints
<1> QED BY <1>1, <1>2, <1>3, <1>4, Advances

LEMMA AnsweredEarly ==
  ASSUME Shape, Protocol, NEW c \in Clients,
         \/ AnswerAtOnce(c) \/ SourceThrows(c)
         \/ /\ Turn(c, "lock") /\ Release(c)
            /\ UNCHANGED <<phase, todo, created, objects, present, tail, cache, disk, world,
                           history>>
  PROVE  /\ Shape' /\ Protocol' /\ request'[c] = NoRequest /\ request[c].op \in Locked
         /\ ~At(c, "saving") /\ \A d \in Clients \ {c} : request'[d] = request[d]
         /\ UNCHANGED <<phase, todo, created, objects, present, tail, cache, disk, changed,
                        received, unsure, gone>>
<1>1. PICK stage \in {"lock", "source"} : Turn(c, stage)
  BY DEF AnswerAtOnce, Starts, SourceThrows
<1>2. /\ Release(c)
      /\ UNCHANGED <<phase, todo, created, objects, present, tail, cache, disk, changed,
                     received, unsure, gone>>
  BY DEF AnswerAtOnce, SourceThrows, world, history
<1>3. request[c].op \in Locked /\ ~At(c, "saving")
  BY <1>1, TurnKnown
<1> QED BY <1>1, <1>2, <1>3, Answers

(* A request that was not there before. *)
Asked(c, r) ==
  /\ request[c] = NoRequest /\ request' = [request EXCEPT ![c] = r]
  /\ r # NoRequest /\ request'[c] = r /\ \A d \in Clients \ {c} : request'[d] = request[d]

(* A save is queued for a request that was not there before. *)
Saved(c, id, e) == e.op = "save" /\ e.id = id /\ e.by = c /\ tail' = Append(tail, e)

(* One session object is new. *)
Made(id, session) ==
  /\ objects'[id] = session /\ DOMAIN objects' = DOMAIN objects \cup {id}
  /\ \A k \in DOMAIN objects : objects'[k] = objects[k]

Creates(c, id) == \E autoplay \in BOOLEAN : Create(c, id, autoplay)

LEMMA CreateAsks ==
  ASSUME Shape, Protocol, NEW c \in Clients, NEW id \in Sessions, Creates(c, id)
  PROVE  /\ Shape' /\ Protocol' /\ phase = "up" /\ id \notin created
         /\ Asked(c, [op |-> "create", id |-> id, stage |-> "saving"])
         /\ created' = created \cup {id} /\ present' = present \cup {id}
         /\ \E session \in Objects :
              /\ Made(id, session) /\ session.checkpoint.rolled = <<>>
              /\ \E e \in Saves : Saved(c, id, e) /\ e.session.checkpoint = session.checkpoint
         /\ UNCHANGED <<phase, todo, locks, cache, disk, world, received, unsure, gone>>
<1>0. PICK autoplay \in BOOLEAN : Create(c, id, autoplay)
  BY DEF Creates
<1> DEFINE r == [op |-> "create", id |-> id, stage |-> "saving"]
           session == NewSession(autoplay)
<1>1. /\ phase = "up" /\ request[c] = NoRequest /\ id \notin created
      /\ created' = created \cup {id} /\ present' = present \cup {id}
      /\ request' = [request EXCEPT ![c] = r] /\ objects' = With(objects, id, session)
      /\ Persist(c, id)
      /\ UNCHANGED <<phase, todo, locks, cache, disk, world, history>>
  BY <1>0 DEF Create, Idle
<1>2. r \in Requests /\ r.op = "create" /\ r.id = id /\ r.stage = "saving"
  BY Creation
<1>3. r # NoRequest
  BY DEF NoRequest
<1> HIDE DEF r
<1>4. Asked(c, r)
  BY <1>1, <1>3 DEF Shape, Asked
<1>5. session \in Objects /\ session.checkpoint.rolled = <<>>
  BY NewSessions
<1> HIDE DEF session
<1>6. /\ IsMap(objects', Objects) /\ DOMAIN objects' = DOMAIN objects \cup {id}
      /\ objects'[id] = session /\ \A k \in DOMAIN objects : objects'[k] = objects[k]
  <2>1. id \notin DOMAIN objects
    BY <1>1 DEF Shape
  <2>2. /\ objects' = With(objects, id, session) /\ IsMap(objects, Objects)
        /\ session \in Objects
    BY <1>1, <1>5 DEF Shape
  <2>3. /\ IsMap(objects', Objects) /\ DOMAIN objects' = DOMAIN objects \cup {id}
        /\ objects'[id] = session
        /\ \A k \in DOMAIN objects : k # id => objects'[k] = objects[k]
    BY ONLY <2>2, WithEntry
  <2> QED BY <2>1, <2>3
<1>7. PICK e \in Saves : /\ e.op = "save" /\ e.id = id /\ e.by = c /\ tail' = Append(tail, e)
                         /\ e.session.checkpoint = session.checkpoint
  <2>1. tail' = Append(tail, [op |-> "save", id |-> id, by |-> c,
                              session |-> PublicSnapshot(session)])
    BY <1>1, <1>6 DEF Persist
  <2> QED BY <1>5, <2>1, SaveEntry, Snapshot
<1>8. \A d \in Clients : ~Asks(d, id)
  BY <1>1 DEF Protocol, Unknown, Asks
<1>9. Shape'
  <2>1. tail' \in Seq(Saves \cup Removals) /\ request' \in [Clients -> Requests]
    BY <1>1, <1>2, <1>7, Longer DEF Shape
  <2> QED BY <1>1, <1>6, <2>1 DEF Shape, world, history, IsMap
<1>10. Chains'
  <2>1. request[c].op \notin Locked /\ request'[c].op \notin Locked
    BY <1>1, <1>2, <1>4, RequestKinds DEF Asked, Shape, Locked, NoRequest
  <2> QED BY <1>1, <1>4, <1>6, <2>1, ChainsApart DEF Asked, Protocol
<1>11. Unknown'
  BY <1>1, <1>2, <1>8, UnknownNew DEF Protocol
<1>12. Queued'
  <2>1. e.by # Nobody => ~At(e.by, "saving") /\ Awaits(e.by, e)'
    BY <1>1, <1>2, <1>3, <1>4, <1>7 DEF Awaits, Asks, At, Does, Asked
  <2>2. \A d \in Clients \ {e.by} : At(d, "saving") => request'[d] = request[d]
    BY <1>4, <1>7 DEF Asked
  <2>3. created \subseteq created' /\ e.id \in created'
    BY <1>1, <1>7
  <2> QED BY <1>7, <2>1, <2>2, <2>3, QueuedMore DEF Protocol
<1>13. Phases'
  BY <1>1 DEF Protocol, Phases
<1> QED BY <1>1, <1>4, <1>5, <1>6, <1>7, <1>9, <1>10, <1>11, <1>12, <1>13 DEF Protocol, r, history, Made, Saved

LEMMA EnqueueAsks ==
  ASSUME Shape, Protocol, NEW c \in Clients, NEW id \in Sessions, NEW op \in Locked,
         NEW arg \in Nat, NEW preRoll \in BOOLEAN, op = "read" => arg \in Limits, op = "seek" => arg \in SeekTargets,
         Enqueue(c, id, op, arg, preRoll)
  PROVE  /\ Shape' /\ Protocol'
         /\ Asked(c, [op |-> op, id |-> id, arg |-> arg, preRoll |-> preRoll, stage |-> "lock",
                      frames |-> <<>>])
         /\ UNCHANGED <<phase, todo, created, objects, present, tail, cache, disk, world, history>>
<1> DEFINE r == [op |-> op, id |-> id, arg |-> arg, preRoll |-> preRoll, stage |-> "lock",
                 frames |-> <<>>]
<1>1. /\ phase = "up" /\ request[c] = NoRequest /\ Known(id) /\ (id \in present \/ locks[id] # <<>>)
      /\ request' = [request EXCEPT ![c] = r] /\ locks' = [locks EXCEPT ![id] = Append(@, c)]
      /\ UNCHANGED <<phase, todo, created, objects, present, tail, cache, disk, world, history>>
  BY DEF Enqueue, Idle
<1>2. /\ r \in Requests /\ r \in Operations /\ r.op = op /\ r.id = id /\ r.arg = arg
      /\ r.stage = "lock" /\ r.frames = <<>> /\ r # NoRequest
  <2>1. <<>> \in Frames
    BY DEF Frames
  <2> QED BY <2>1 DEF Operations, Requests, NoRequest, Locked
<1> HIDE DEF r
<1>3. Asked(c, r)
  BY <1>1, <1>2 DEF Shape, Asked
<1>4. id \in DOMAIN objects
  <2>1. CASE id \in present
    BY <2>1 DEF Shape
  <2>2. CASE locks[id] # <<>>
    <3>1. 1 \in DOMAIN locks[id] /\ locks[id][1] \in Clients
      BY <2>2, Shorter DEF Shape
    <3> QED BY <3>1 DEF Protocol, Chains, Asks
  <2> QED BY <1>1, <2>1, <2>2
<1>5. Shape'
  <2>1. /\ request' \in [Clients -> Requests]
        /\ locks' \in [Sessions -> Seq(Clients)]
    BY <1>1, <1>2, Longer DEF Shape
  <2> QED BY <1>1, <2>1 DEF Shape, world, history, IsMap
<1>6. Chains'
  BY <1>1, <1>2, <1>4, ChainsJoined DEF Protocol
<1>7. Unknown'
  <2>1. \A d \in Clients : Asks(d, id) => ~Does(d, "create")
    BY <1>1 DEF Known, Asks, Does
  <2>2. r.op # "create" /\ r.id \in created'
    BY <1>1, <1>2 DEF Locked, Known
  <2> QED BY <1>1, <1>2, <2>1, <2>2, UnknownNew DEF Protocol
<1>8. Queued'
  <2>1. \A d \in Clients : At(d, "saving") => request'[d] = request[d]
    BY <1>1, <1>3 DEF Asked, At
  <2> QED BY <1>1, <2>1, QueuedSame DEF Protocol
<1>9. Phases'
  BY <1>1 DEF Protocol, Phases
<1> QED BY <1>1, <1>3, <1>5, <1>6, <1>7, <1>8, <1>9 DEF Protocol, r

LEMMA DeleteAsks ==
  ASSUME Shape, Protocol, NEW c \in Clients, NEW id \in Sessions, Delete(c, id)
  PROVE  /\ Shape' /\ Protocol' /\ id \in present
         /\ Asked(c, [op |-> "delete", id |-> id, stage |-> "saving",
                      quiet |-> NothingUnderWay(id)])
         /\ \E e \in Removals : /\ e.op = "remove" /\ e.id = id /\ e.by = c
                                /\ tail' = Append(tail, e)
         /\ present' = present \ {id}
         /\ UNCHANGED <<phase, todo, created, objects, locks, cache, disk, world, history>>
<1> DEFINE quiet == NothingUnderWay(id)
           r == [op |-> "delete", id |-> id, stage |-> "saving", quiet |-> quiet]
<1>1. /\ phase = "up" /\ request[c] = NoRequest /\ Known(id) /\ id \in present
      /\ request' = [request EXCEPT ![c] = r] /\ Drop(c, id)
      /\ UNCHANGED <<phase, todo, created, objects, locks, cache, disk, world, history>>
  BY DEF Delete, Idle
<1>2. quiet \in BOOLEAN
  BY DEF NothingUnderWay
<1>3. r \in Requests /\ r.op = "delete" /\ r.id = id /\ r.stage = "saving" /\ r # NoRequest
  <2> HIDE DEF quiet
  <2>1. r \in Requests
    BY <1>2, Deletion
  <2> QED BY <2>1 DEF NoRequest
<1> HIDE DEF r, quiet
<1>4. Asked(c, r)
  BY <1>1, <1>3 DEF Shape, Asked
<1>5. PICK e \in Removals : e.op = "remove" /\ e.id = id /\ e.by = c /\ tail' = Append(tail, e)
  BY <1>1, RemovalEntry DEF Drop
<1>6. Shape'
  <2>1. tail' \in Seq(Saves \cup Removals) /\ request' \in [Clients -> Requests]
    BY <1>1, <1>3, <1>5, Longer DEF Shape
  <2> QED BY <1>1, <2>1 DEF Shape, world, history, IsMap, Drop
<1>7. Chains'
  <2>1. request[c].op \notin Locked /\ request'[c].op \notin Locked
    BY <1>1, <1>3, <1>4 DEF Asked, Locked, NoRequest
  <2> QED BY <1>1, <1>4, <2>1, ChainsApart DEF Asked, Protocol
<1>8. Unknown'
  <2>1. \A d \in Clients : Asks(d, id) => ~Does(d, "create")
    BY <1>1 DEF Known, Asks, Does
  <2>2. r.op # "create" /\ r.id \in created'
    BY <1>1, <1>3 DEF Known
  <2> QED BY <1>1, <1>3, <2>1, <2>2, UnknownNew DEF Protocol
<1>9. Queued'
  <2>1. e.by # Nobody => ~At(e.by, "saving") /\ Awaits(e.by, e)'
    <3>1. "delete" \notin Locked
      BY DEF Locked
    <3> QED BY <1>1, <1>3, <1>4, <1>5, <3>1 DEF Awaits, Asks, At, Does, Asked
  <2>2. \A d \in Clients \ {e.by} : At(d, "saving") => request'[d] = request[d]
    BY <1>4, <1>5 DEF Asked
  <2>3. created \subseteq created' /\ e.id \in created'
    BY <1>1, <1>5 DEF Known
  <2> QED BY <1>5, <2>1, <2>2, <2>3, QueuedMore DEF Protocol
<1>10. Phases'
  BY <1>1 DEF Protocol, Phases
<1>11. present' = present \ {id}
  BY <1>1 DEF Drop
<1> QED BY <1>1, <1>4, <1>5, <1>6, <1>7, <1>8, <1>9, <1>10, <1>11 DEF Protocol, r, quiet

LEMMA CleanupDrops ==
  ASSUME Shape, Protocol, NEW id \in Sessions, Cleanup(id)
  PROVE  /\ Shape' /\ Protocol' /\ id \in present
         /\ \E e \in Removals : /\ e.op = "remove" /\ e.id = id /\ e.by = Nobody
                                /\ tail' = Append(tail, e)
         /\ present' = present \ {id}
         /\ UNCHANGED <<phase, todo, created, objects, locks, request, cache, disk, world, history>>
<1>1. /\ phase = "up" /\ id \in present /\ Drop(Nobody, id)
      /\ UNCHANGED <<phase, todo, created, objects, locks, request, cache, disk, world, history>>
  BY DEF Cleanup
<1>2. PICK e \in Removals : e.op = "remove" /\ e.id = id /\ e.by = Nobody /\ tail' = Append(tail, e)
  BY <1>1, RemovalEntry DEF Drop
<1>3. Shape'
  <2>1. tail' \in Seq(Saves \cup Removals)
    BY <1>2, Longer DEF Shape
  <2> QED BY <1>1, <2>1 DEF Shape, world, history, IsMap, Drop
<1>4. Queued'
  <2>1. e.id \in created'
    BY <1>1, <1>2 DEF Shape
  <2>2. e \in Saves \cup Removals
    BY <1>2
  <2>3. created \subseteq created' /\ \A d \in Clients \ {e.by} : request'[d] = request[d]
    BY <1>1
  <2> QED BY <1>2, <2>1, <2>2, <2>3, QueuedMore DEF Protocol
<1>5. Chains' /\ Unknown'
  BY <1>1 DEF Protocol, Chains, Unknown, Asks, At, Does
<1>6. Phases'
  BY <1>1 DEF Protocol, Phases
<1>7. present' = present \ {id}
  BY <1>1 DEF Drop
<1> QED BY <1>1, <1>2, <1>3, <1>4, <1>5, <1>6, <1>7 DEF Protocol

(* What the repository's map becomes. *)
Maps(e, map) ==
  /\ IsMap(map, Snapshots) /\ \A k \in DOMAIN cache : k # e.id => map[k] = cache[k]
  /\ IF e.op = "save" THEN DOMAIN map = DOMAIN cache \cup {e.id} /\ map[e.id] = e.session
     ELSE DOMAIN map = DOMAIN cache \ {e.id}

LEMMA AppliedMaps ==
  ASSUME Shape, NEW e \in Saves \cup Removals
  PROVE  Maps(e, Applied(e))
<1>1. IsMap(cache, Snapshots) /\ e.id \in Sessions /\ e.op \in {"save", "remove"}
  BY Entries DEF Shape
<1>2. CASE e.op = "save"
  <2>1. e.session \in Snapshots /\ Applied(e) = With(cache, e.id, e.session)
    BY <1>2, Entries DEF Applied
  <2> DEFINE id == e.id
             saved == e.session
             map == With(cache, id, saved)
  <2>2. id \in Sessions /\ saved \in Snapshots
    BY <1>1, <2>1
  <2>3. /\ IsMap(map, Snapshots) /\ DOMAIN map = DOMAIN cache \cup {id}
        /\ map[id] = saved /\ \A k \in DOMAIN cache : k # id => map[k] = cache[k]
    <3> HIDE DEF id, saved
    <3> QED BY <1>1, <2>2, WithEntry
  <2> QED BY <1>2, <2>1, <2>3 DEF Maps
<1>3. CASE e.op = "remove"
  <2> DEFINE map == Without(cache, e.id)
  <2>1. Applied(e) = map
    BY <1>3 DEF Applied
  <2>2. /\ IsMap(map, Snapshots) /\ DOMAIN map = DOMAIN cache \ {e.id}
        /\ \A k \in DOMAIN cache : k # e.id => map[k] = cache[k]
    BY <1>1, WithoutEntry
  <2> QED BY <1>3, <2>1, <2>2 DEF Maps
<1> QED BY <1>1, <1>2, <1>3

(* The operation e is done, and its request is answered. *)
Done(e) ==
  /\ tail # <<>> /\ e = Head(tail) /\ e = tail[1] /\ 1 \in DOMAIN tail /\ tail' = Tail(tail)
  /\ e \in Saves \cup Removals /\ e.id \in created
  /\ e.by # Nobody => /\ e.by \in Clients /\ request[e.by] # NoRequest
                      /\ request[e.by].id = e.id /\ request[e.by].stage = "saving"
                      /\ request'[e.by] = NoRequest
  /\ \A d \in Clients : d # e.by => request'[d] = request[d]

LEMMA HeadIs ==
  ASSUME Shape, Protocol, tail # <<>>
  PROVE  /\ Head(tail) = tail[1] /\ 1 \in DOMAIN tail /\ Head(tail) \in Saves \cup Removals
         /\ Head(tail).id \in created
         /\ Head(tail).by # Nobody =>
              /\ Head(tail).by \in Clients /\ Asks(Head(tail).by, Head(tail).id)
              /\ At(Head(tail).by, "saving")
              /\ (request[Head(tail).by].op = "read" => request[Head(tail).by].frames \in Frames)
<1>1. Head(tail) = tail[1] /\ 1 \in DOMAIN tail /\ Head(tail) \in Saves \cup Removals
  BY Shorter DEF Shape
<1>2. /\ Head(tail).id \in created
      /\ Head(tail).by # Nobody => /\ Head(tail).by \in Clients
                                   /\ Asks(Head(tail).by, Head(tail).id)
                                   /\ At(Head(tail).by, "saving")
  BY <1>1, Entries DEF Protocol, Queued
<1>3. \A c \in Clients : request[c].op = "read" => request[c].frames \in Frames
  BY RequestKinds DEF Shape, Operations, Locked
<1> QED BY <1>1, <1>2, <1>3

LEMMA RepositoryRan ==
  ASSUME Shape, Protocol, RepositoryRuns
  PROVE  /\ Shape' /\ Protocol'
         /\ \E e \in Saves \cup Removals :
              /\ Done(e) /\ Maps(e, cache')
              /\ disk' = cache' \/ (e.op = "remove" /\ e.id \notin DOMAIN cache /\ disk' = disk)
              /\ \/ gone' = gone
                 \/ /\ gone' = gone \cup {e.id} /\ e.id \notin unsure
                    /\ e.by # Nobody /\ request[e.by].op = "delete" /\ request[e.by].quiet
              /\ IF e.by # Nobody /\ request[e.by].op = "read"
                 THEN received' = [received EXCEPT ![e.id] = @ \o request[e.by].frames]
                 ELSE received' = received
         /\ phase = "up"
         /\ UNCHANGED <<phase, todo, created, objects, present, world, unsure>>
<1> DEFINE e == Head(tail)
<1>1. /\ phase = "up" /\ tail # <<>> /\ cache' = Applied(e) /\ tail' = Tail(tail)
      /\ disk' = IF Vacuous(e) THEN disk ELSE cache'
      /\ IF e.by = Nobody THEN UNCHANGED <<request, locks, received, gone>>
         ELSE Succeeds(e.by) /\ Release(e.by)
      /\ UNCHANGED <<phase, todo, created, objects, present, world, unsure>>
  BY DEF RepositoryRuns
<1>2. /\ e = tail[1] /\ 1 \in DOMAIN tail /\ e \in Saves \cup Removals /\ e.id \in created
      /\ e.by # Nobody => /\ e.by \in Clients /\ Asks(e.by, e.id) /\ At(e.by, "saving")
                          /\ (request[e.by].op = "read" => request[e.by].frames \in Frames)
  BY <1>1, HeadIs
<1> HIDE DEF e
<1>3. Maps(e, cache')
  BY <1>1, <1>2, AppliedMaps
<1>4. /\ disk' = cache' \/ (e.op = "remove" /\ e.id \notin DOMAIN cache /\ disk' = disk)
      /\ IsMap(cache', Snapshots) /\ IsMap(disk', Snapshots)
      /\ DOMAIN cache' \cup DOMAIN disk' \subseteq created
  BY <1>1, <1>2, <1>3 DEF Vacuous, Maps, Shape
<1>5. /\ IF e.by # Nobody /\ request[e.by].op = "read"
         THEN received' = [received EXCEPT ![e.id] = @ \o request[e.by].frames]
         ELSE received' = received
      /\ \/ gone' = gone
         \/ /\ gone' = gone \cup {e.id} /\ e.id \notin unsure
            /\ e.by # Nobody /\ request[e.by].op = "delete" /\ request[e.by].quiet
  BY <1>1, <1>2 DEF Succeeds, Asks
<1>6. received' \in [Sessions -> Frames]
  <2>1. CASE e.by # Nobody /\ request[e.by].op = "read"
    <3>1. received[e.id] \in Frames /\ request[e.by].frames \in Frames /\ e.id \in Sessions
      BY <1>2, <2>1 DEF Shape
    <3>2. received[e.id] \o request[e.by].frames \in Frames
      BY <3>1 DEF Frames
    <3> QED BY <1>5, <2>1, <3>1, <3>2 DEF Shape
  <2>2. CASE ~(e.by # Nobody /\ request[e.by].op = "read")
    BY <1>5, <2>2 DEF Shape
  <2> QED BY <2>1, <2>2
<1>7. /\ gone' \subseteq created /\ unsure' \subseteq Sessions /\ changed' = changed
      /\ IF e.by = Nobody THEN UNCHANGED <<request, locks>> ELSE Release(e.by)
  BY <1>1, <1>2, <1>5 DEF Shape, world
<1>8. /\ Shape' /\ Protocol'
      /\ e.by # Nobody => e.by \in Clients /\ request'[e.by] = NoRequest
      /\ \A d \in Clients : d # e.by => request'[d] = request[d]
  BY <1>1, <1>4, <1>6, <1>7, Completes DEF e
<1>9. Done(e)
  BY <1>1, <1>2, <1>8 DEF Done, Asks, At, e
<1> QED BY <1>1, <1>2, <1>3, <1>4, <1>5, <1>8, <1>9

LEMMA RepositoryFailed ==
  ASSUME Shape, Protocol, RepositoryFails
  PROVE  /\ Shape' /\ Protocol'
         /\ \E e \in Saves \cup Removals :
              /\ Done(e) /\ (cache' = cache \/ Maps(e, cache'))
              /\ e.op = "remove" => Maps(e, cache')
              /\ unsure' = unsure \cup {e.id}
         /\ phase = "up"
         /\ UNCHANGED <<phase, todo, created, objects, present, disk, changed, received, gone>>
<1> DEFINE e == Head(tail)
<1>1. /\ phase = "up" /\ tail # <<>> /\ (cache' = cache \/ cache' = Applied(e))
      /\ e.op = "remove" => cache' = Applied(e)
      /\ tail' = Tail(tail)
      /\ IF e.by = Nobody THEN UNCHANGED <<request, locks>> ELSE Release(e.by)
      /\ unsure' = unsure \cup {e.id}
      /\ UNCHANGED <<phase, todo, created, objects, present, disk, changed, received, gone>>
  BY DEF RepositoryFails, Full
<1>2. /\ e = tail[1] /\ 1 \in DOMAIN tail /\ e \in Saves \cup Removals /\ e.id \in created
      /\ e.by # Nobody => e.by \in Clients /\ Asks(e.by, e.id) /\ At(e.by, "saving")
  BY <1>1, HeadIs
<1> HIDE DEF e
<1>3. Maps(e, Applied(e))
  BY <1>2, AppliedMaps
<1>4. /\ IsMap(cache', Snapshots) /\ IsMap(disk', Snapshots)
      /\ DOMAIN cache' \cup DOMAIN disk' \cup gone' \subseteq created
      /\ received' \in [Sessions -> Frames] /\ unsure' \subseteq Sessions
  BY <1>1, <1>2, <1>3 DEF Maps, Shape, IsMap
<1>5. /\ Shape' /\ Protocol'
      /\ e.by # Nobody => e.by \in Clients /\ request'[e.by] = NoRequest
      /\ \A d \in Clients : d # e.by => request'[d] = request[d]
  BY <1>1, <1>4, Completes DEF e
<1>6. Done(e)
  BY <1>1, <1>2, <1>5 DEF Done, Asks, At, e
<1> QED BY <1>1, <1>2, <1>3, <1>5, <1>6

(* A crash leaves the file only. *)
LEMMA Crashed ==
  ASSUME Shape, Protocol, Crash
  PROVE  Shape' /\ Protocol' /\ DOMAIN objects' = {} /\ DOMAIN cache' = {}
<1>1. /\ phase' = "down" /\ todo' = {} /\ objects' = Empty /\ present' = {} /\ cache' = Empty
      /\ tail' = <<>> /\ locks' = [id \in Sessions |-> <<>>]
      /\ request' = [c \in Clients |-> NoRequest]
      /\ unsure' = unsure \cup {request[c].id : c \in
           {d \in Clients : request[d] # NoRequest /\ request[d].stage = "saving"}}
      /\ UNCHANGED <<created, disk, expired, changed, received, gone>>
  BY DEF Crash
<1>2. IsMap(Empty, Objects) /\ IsMap(Empty, Snapshots) /\ DOMAIN Empty = {}
  BY DEF Empty, IsMap
<1>3. unsure' \subseteq Sessions
  BY <1>1, RequestKinds DEF Shape
<1>4. Shape'
  <2>1. NoRequest \in Requests
    BY DEF Requests
  <2>2. tail' \in Seq(Saves \cup Removals) /\ locks' \in [Sessions -> Seq(Clients)]
    BY <1>1
  <2> QED BY <1>1, <1>2, <1>3, <2>1, <2>2 DEF Shape, IsMap
<1>5. Protocol'
  <2>1. NoRequest.op = "none" /\ "none" \notin Locked
    BY DEF NoRequest, Locked
  <2>2. Phases'
    BY <1>1 DEF Phases
  <2>3. Chains'
    BY <1>1, <2>1 DEF Chains
  <2>4. Unknown' /\ Queued'
    BY <1>1 DEF Unknown, Queued
  <2> QED BY <2>2, <2>3, <2>4 DEF Protocol
<1> QED BY <1>1, <1>2, <1>4, <1>5

(* The rest of the protocol while there are neither requests nor operations. *)
LEMMA Unattended ==
  ASSUME Shape, Protocol, phase # "up", UNCHANGED <<created, locks, request, tail>>
  PROVE  Chains' /\ Unknown' /\ Queued' /\ tail = <<>> /\ \A c \in Clients : request[c] = NoRequest
<1>1. /\ tail = <<>> /\ \A c \in Clients : request[c] = NoRequest
      /\ \A id \in Sessions : locks[id] = <<>>
  BY DEF Protocol, Phases
<1>2. NoRequest.op \notin Locked
  BY DEF NoRequest, Locked
<1> QED BY <1>1, <1>2 DEF Chains, Unknown, Queued

LEMMA OpenReads ==
  ASSUME Shape, Protocol, Open
  PROVE  Shape' /\ Protocol' /\ DOMAIN objects = {}
<1>1. /\ phase = "down" /\ phase' = "restoring" /\ cache' = disk /\ todo' = DOMAIN disk
      /\ UNCHANGED <<created, objects, present, locks, request, tail, disk, world, history>>
  BY DEF Open
<1>2. DOMAIN objects = {}
  BY <1>1 DEF Protocol, Phases, Empty
<1>3. Shape'
  BY <1>1 DEF Shape, IsMap, world, history
<1>4. Phases'
  BY <1>1, <1>2 DEF Shape, Protocol, Phases
<1> QED BY <1>1, <1>2, <1>3, <1>4, Unattended DEF Protocol

(* A candidate of the restart is in the map again, from what was saved. *)
Again(id, session) ==
  /\ phase = "restoring" /\ id \in todo /\ id \in DOMAIN cache /\ id \notin present
  /\ session \in Objects /\ session.checkpoint = cache[id].checkpoint
  /\ DOMAIN objects' = DOMAIN objects \cup {id} /\ objects'[id] = session
  /\ \A k \in DOMAIN objects : k # id => objects'[k] = objects[k]
  /\ present' = present \cup {id} /\ IsMap(objects', Objects)

LEMMA VisitedKnown ==
  ASSUME Shape, Protocol, NEW id, Visited(id)
  PROVE  /\ phase = "restoring" /\ id \in todo /\ id \in DOMAIN cache /\ id \notin present
         /\ id \in created /\ id \in Sessions /\ cache[id] \in Snapshots
         /\ todo' = todo \ {id}
BY DEF Visited, Protocol, Phases, Shape, IsMap

LEMMA BackInTheMap ==
  ASSUME Shape, Protocol, NEW id \in Sessions, Visited(id),
         objects' = With(objects, id, Restored(cache[id])), present' = present \cup {id}
  PROVE  \E session \in Objects : Again(id, session) /\ Restored(cache[id]) = session
<1> DEFINE session == Restored(cache[id])
<1>1. session \in Objects /\ session.checkpoint = cache[id].checkpoint
  BY VisitedKnown, RestoredSession
<1> HIDE DEF session
<1>2. objects' = With(objects, id, session) /\ IsMap(objects, Objects)
  BY DEF Shape, session
<1>3. /\ IsMap(objects', Objects) /\ DOMAIN objects' = DOMAIN objects \cup {id}
      /\ objects'[id] = session /\ \A k \in DOMAIN objects : k # id => objects'[k] = objects[k]
  BY <1>1, <1>2, WithEntry
<1>4. Again(id, session)
  BY <1>1, <1>3, VisitedKnown DEF Again
<1> QED BY <1>1, <1>4 DEF session

LEMMA RestoreBrings ==
  ASSUME Shape, Protocol, NEW id \in Sessions, Restore(id)
  PROVE  /\ Shape' /\ Protocol' /\ \E session \in Objects : Again(id, session)
         /\ DOMAIN cache' = DOMAIN cache /\ cache'[id].checkpoint = cache[id].checkpoint
         /\ \A k \in DOMAIN cache : k # id => cache'[k] = cache[k]
         /\ disk' = cache' /\ todo' = todo \ {id}
         /\ UNCHANGED <<phase, created, locks, request, tail, world, history>>
<1> DEFINE session == Restored(cache[id])
           saved == PublicSnapshot(session)
<1>1. /\ Visited(id) /\ objects' = With(objects, id, session)
      /\ cache' = With(cache, id, saved) /\ disk' = cache' /\ present' = present \cup {id}
      /\ UNCHANGED <<phase, created, locks, request, tail, world, history>>
  BY DEF Restore
<1>2. Again(id, session)
  BY <1>1, BackInTheMap
<1>3. /\ id \in DOMAIN cache /\ id \in created /\ todo' = todo \ {id} /\ phase = "restoring"
  BY <1>1, VisitedKnown
<1>4. saved \in Snapshots /\ saved.checkpoint = cache[id].checkpoint
  BY <1>2, Snapshot DEF Again
<1> HIDE DEF session, saved
<1>5. /\ IsMap(cache', Snapshots) /\ DOMAIN cache' = DOMAIN cache \cup {id} /\ cache'[id] = saved
      /\ \A k \in DOMAIN cache : k # id => cache'[k] = cache[k]
  <2> DEFINE map == With(cache, id, saved)
  <2>1. IsMap(cache, Snapshots) /\ cache' = map
    BY <1>1 DEF Shape
  <2>2. /\ IsMap(map, Snapshots) /\ DOMAIN map = DOMAIN cache \cup {id} /\ map[id] = saved
        /\ \A k \in DOMAIN cache : k # id => map[k] = cache[k]
    BY <1>4, <2>1 DEF With, IsMap
  <2> HIDE DEF map
  <2> QED BY <2>1, <2>2
<1>6. Shape'
  BY <1>1, <1>2, <1>3, <1>5 DEF Shape, Again, world, history
<1>7. Phases'
  BY <1>1, <1>2, <1>3, <1>5 DEF Protocol, Phases, Again
<1> QED BY <1>1, <1>2, <1>3, <1>4, <1>5, <1>6, <1>7, Unattended DEF Protocol, Again

LEMMA RestoreLoses ==
  ASSUME Shape, Protocol, NEW id \in Sessions, RestoreUnsaved(id)
  PROVE  /\ Shape' /\ Protocol' /\ \E session \in Objects : Again(id, session)
         /\ DOMAIN cache' = DOMAIN cache \ {id}
         /\ \A k \in DOMAIN cache : k # id => cache'[k] = cache[k]
         /\ disk' \in {disk, cache'} /\ todo' = todo \ {id} /\ unsure' = unsure \cup {id}
         /\ UNCHANGED <<phase, created, locks, request, tail, expired, changed, received, gone>>
<1>1. /\ Visited(id) /\ objects' = With(objects, id, Restored(cache[id]))
      /\ cache' = Without(cache, id) /\ disk' \in {disk, cache'} /\ present' = present \cup {id}
      /\ unsure' = unsure \cup {id}
      /\ UNCHANGED <<phase, created, locks, request, tail, expired, changed, received, gone>>
  BY DEF RestoreUnsaved
<1>2. PICK session \in Objects : Again(id, session)
  BY <1>1, BackInTheMap
<1>3. /\ id \in DOMAIN cache /\ id \in created /\ todo' = todo \ {id} /\ phase = "restoring"
  BY <1>1, VisitedKnown
<1>4. /\ IsMap(cache', Snapshots) /\ DOMAIN cache' = DOMAIN cache \ {id}
      /\ \A k \in DOMAIN cache : k # id => cache'[k] = cache[k]
  <2>1. IsMap(cache, Snapshots) /\ cache' = Without(cache, id)
    BY <1>1 DEF Shape
  <2> QED BY <2>1, WithoutEntry
<1>5. Shape'
  BY <1>1, <1>2, <1>3, <1>4 DEF Shape, Again, IsMap
<1>6. Phases'
  BY <1>1, <1>2, <1>3, <1>4 DEF Protocol, Phases, Again
<1> QED BY <1>1, <1>2, <1>3, <1>4, <1>5, <1>6, Unattended DEF Protocol, Again

LEMMA DiscardForgets ==
  ASSUME Shape, Protocol, NEW id \in Sessions, Discard(id)
  PROVE  /\ Shape' /\ Protocol' /\ phase = "restoring" /\ id \notin present
         /\ DOMAIN cache' = DOMAIN cache \ {id}
         /\ \A k \in DOMAIN cache : k # id => cache'[k] = cache[k]
         /\ disk' \in {disk, cache'} /\ todo' = todo \ {id}
         /\ UNCHANGED <<phase, created, objects, present, locks, request, tail, world, history>>
<1>1. /\ Visited(id) /\ cache' = Without(cache, id) /\ disk' \in {disk, cache'}
      /\ UNCHANGED <<phase, created, objects, present, locks, request, tail, world, history>>
  BY DEF Discard
<1>2. /\ id \in DOMAIN cache /\ id \notin present /\ todo' = todo \ {id} /\ phase = "restoring"
  BY <1>1, VisitedKnown
<1>3. /\ IsMap(cache', Snapshots) /\ DOMAIN cache' = DOMAIN cache \ {id}
      /\ \A k \in DOMAIN cache : k # id => cache'[k] = cache[k]
  <2>1. IsMap(cache, Snapshots) /\ cache' = Without(cache, id)
    BY <1>1 DEF Shape
  <2> QED BY <2>1, WithoutEntry
<1>4. Shape'
  BY <1>1, <1>2, <1>3 DEF Shape, IsMap, world, history
<1>5. Phases'
  BY <1>1, <1>2, <1>3 DEF Protocol, Phases
<1> QED BY <1>1, <1>2, <1>3, <1>4, <1>5, Unattended DEF Protocol

(* Steps that touch nothing of this. *)
LEMMA WorldTurns ==
  ASSUME Shape, Protocol, Opened \/ SourceChanges \/ (\E id \in Sessions : Expires(id))
  PROVE  /\ Shape' /\ Protocol'
         /\ UNCHANGED <<todo, created, objects, present, locks, request, tail, cache, disk,
                        received, unsure, gone>>
<1>1. CASE Opened
  <2>1. /\ phase = "restoring" /\ todo = {} /\ phase' = "up"
        /\ UNCHANGED <<todo, created, memory, disk, world, history>>
    BY <1>1 DEF Opened
  <2> QED BY <2>1 DEF Shape, Protocol, Phases, Chains, Unknown, Queued, memory, world, history,
                      Asks, At, Does
<1>2. CASE SourceChanges \/ (\E id \in Sessions : Expires(id))
  <2>1. /\ UNCHANGED <<phase, todo, created, memory, disk, history>> /\ changed' \in BOOLEAN
    BY <1>2 DEF SourceChanges, Expires, Shape
  <2> QED BY <2>1 DEF Shape, Protocol, Phases, Chains, Unknown, Queued, memory, history,
                      Asks, At, Does
<1> QED BY <1>1, <1>2

-----------------------------------------------------------------------------
(* A deletion that was answered is final. *)

Deletes(c) == request[c].op = "delete" /\ request[c].quiet

LEMMA StillThere ==
  ASSUME Shape, Protocol, Deleting, Gone, NEW id,
         id \in present \/ Waiting(id) # {} \/ id \notin created
  PROVE  id \notin gone /\ \A c \in Clients : Deletes(c) => request[c].id # id
<1>1. \A c \in Clients : Deletes(c) => request[c] # NoRequest
  BY RequestKinds DEF Shape, Deletes
<1>2. id \notin gone
  BY DEF Gone, Shape
<1>3. \A c \in Clients : Deletes(c) => request[c].id # id
  BY <1>1 DEF Deleting, Deleted, Deletes, Protocol, Unknown
<1> QED BY <1>2, <1>3

(* Steps that neither bring a session back that was deleted nor touch the  *)
(* file: what they bring or save is one of the sessions that are busy.     *)
LEMMA Undisturbed ==
  ASSUME Shape, Protocol, Kept, Deleting, Gone, NEW busy,
         \A id \in busy : id \notin gone /\ \A c \in Clients : Deletes(c) => request[c].id # id,
         UNCHANGED <<todo, cache, disk, gone>>,
         present' \subseteq present \cup busy, unsure \subseteq unsure' \cup busy,
         \A id : id \in (present' \ present) \cup (unsure \ unsure') => SaveQueued(id)',
         \A id : id \notin busy => Waiting(id)' \subseteq Waiting(id),
         \A c \in Clients : Deletes(c)' => request'[c] = request[c] \/ Deleted(c)',
         \/ tail' = tail
         \/ \E e \in Saves \cup Removals :
              /\ tail' = Append(tail, e) /\ (e.op = "save" => e.id \in busy)
              /\ \A c \in Clients : Deletes(c) => e.by # c
  PROVE  Kept' /\ Deleting' /\ Gone'
<1>1. /\ \A id : SaveQueued(id) => SaveQueued(id)'
      /\ \A id : id \notin busy => \A i \in DOMAIN tail' : IsSave(i, id)' => i \in DOMAIN tail /\ IsSave(i, id)
      /\ DOMAIN tail \subseteq DOMAIN tail' /\ \A i \in DOMAIN tail : tail'[i] = tail[i]
      /\ \A c \in Clients : Deletes(c) =>
           \A i \in DOMAIN tail' : tail'[i].by = c => i \in DOMAIN tail
  <2>1. CASE tail' = tail
    BY <2>1 DEF SaveQueued, IsSave
  <2>2. CASE tail' # tail
    <3>1. PICK e \in Saves \cup Removals :
            /\ tail' = Append(tail, e) /\ (e.op = "save" => e.id \in busy)
            /\ \A c \in Clients : Deletes(c) => e.by # c
      BY <2>2
    <3>2. /\ DOMAIN tail' = DOMAIN tail \cup {Len(tail) + 1} /\ tail'[Len(tail) + 1] = e
          /\ \A i \in DOMAIN tail : tail'[i] = tail[i]
      BY <3>1, Longer DEF Shape
    <3> QED BY <3>1, <3>2 DEF SaveQueued, IsSave
  <2> QED BY <2>1, <2>2
<1>2. Kept'
  BY <1>1 DEF Kept
<1>3. ASSUME NEW c \in Clients, Deletes(c)', request'[c] = request[c]
      PROVE  Deleted(c)'
  <2>0. PICK id : id = request[c].id /\ id = request'[c].id
    BY <1>3
  <2>1. Deletes(c) /\ Deleted(c) /\ id \notin busy
    BY <1>3, <2>0 DEF Deletes, Deleting
  <2>2. id \notin present' /\ Waiting(id)' = {}
    BY <2>0, <2>1 DEF Deleted
  <2>3. ASSUME NEW i \in DOMAIN tail', tail'[i].by = c
        PROVE  /\ \A j \in DOMAIN tail' : IsSave(j, id)' => j < i
               /\ id \in DOMAIN disk' \ unsure' => id \in DOMAIN cache' \/ SaveQueued(id)'
    <3>1. i \in DOMAIN tail /\ tail[i].by = c
      BY <1>1, <2>1, <2>3
    <3> QED BY <1>1, <2>0, <2>1, <3>1 DEF Deleted
  <2> QED BY <2>0, <2>2, <2>3 DEF Deleted
<1>4. Gone'
  BY <1>1 DEF Gone, SaveQueued
<1> QED BY <1>2, <1>3, <1>4 DEF Deleting, Deletes

FinalSoFar == Kept /\ Deleting /\ Gone

LEMMA LockedDeletesNothing ==
  ASSUME Shape, NEW c \in Clients, request[c] = NoRequest \/ request[c].op \in Locked
  PROVE  ~Deletes(c)
BY DEF Deletes, Locked, NoRequest

(* Whose session is there, or waits for the capture, saves it. *)
LEMMA FinalSave ==
  ASSUME Shape, Protocol, FinalSoFar, NEW c \in Clients, NEW stage \in {"lock", "source"},
         Turn(c, stage), request[c].id \in present \/ stage = "source",
         NEW e \in Saves, NEW frames, Submitted(c, e, frames),
         unsure \subseteq unsure' \cup {request[c].id},
         UNCHANGED <<todo, present, cache, disk, gone>>
  PROVE  FinalSoFar'
<1>0. PICK id : id = request[c].id
  OBVIOUS
<1>1. /\ request[c] # NoRequest /\ request[c].op \in Locked /\ request[c].stage = stage
  BY TurnKnown
<1>2. id \notin gone /\ \A d \in Clients : Deletes(d) => request[d].id # id
  <2>1. id \in present \/ Waiting(id) # {}
    BY <1>0, <1>1 DEF Waiting, Asks, At
  <2> QED BY <1>0, <2>1, StillThere DEF FinalSoFar
<1>3. /\ e \in Saves \cup Removals /\ tail' = Append(tail, e) /\ e.id = id /\ e.by = c
      /\ request'[c] # NoRequest /\ request'[c].op = request[c].op /\ request'[c].stage = "saving"
      /\ \A d \in Clients \ {c} : request'[d] = request[d]
  BY <1>0 DEF Submitted
<1>4. SaveQueued(id)'
  <2>1. e.op = "save"
    BY DEF Saves
  <2>2. /\ Len(tail) + 1 \in DOMAIN tail' /\ tail'[Len(tail) + 1] = e
    BY <1>3, Longer DEF Shape
  <2> QED BY <1>3, <2>1, <2>2 DEF SaveQueued, IsSave
<1>5. \A k : Waiting(k)' \subseteq Waiting(k)
  BY <1>3 DEF Waiting, Asks, At
<1>6. \A d \in Clients : Deletes(d)' => request'[d] = request[d]
  BY <1>1, <1>3 DEF Deletes, Locked
<1>7. \A d \in Clients : Deletes(d) => e.by # d
  BY <1>1, <1>3, LockedDeletesNothing
<1>8. \A k : k \in (present' \ present) \cup (unsure \ unsure') => SaveQueued(k)'
  BY <1>0, <1>4
<1>9. Kept' /\ Deleting' /\ Gone'
  <2>1. \A k \in {id} : k \notin gone /\ \A d \in Clients : Deletes(d) => request[d].id # k
    BY <1>2
  <2>2. /\ \A k : k \notin {id} => Waiting(k)' \subseteq Waiting(k)
        /\ present' \subseteq present \cup {id} /\ unsure \subseteq unsure' \cup {id}
        /\ UNCHANGED <<todo, cache, disk, gone>>
    BY <1>0, <1>5
  <2>3. \E x \in Saves \cup Removals :
          /\ tail' = Append(tail, x) /\ (x.op = "save" => x.id \in {id})
          /\ \A d \in Clients : Deletes(d) => x.by # d
    BY <1>3, <1>7
  <2> QED BY <1>6, <1>8, <2>1, <2>2, <2>3, Undisturbed DEF FinalSoFar
<1> QED BY <1>9 DEF FinalSoFar

(* Requests that come, wait for the capture or are answered, and sessions *)
(* that are dropped.                                                       *)
LEMMA FinalQuiet ==
  ASSUME Shape, Protocol, FinalSoFar, NEW busy \in SUBSET present,
         UNCHANGED <<todo, cache, disk, unsure, gone>>, present' \subseteq present,
         \A id : id \notin busy => Waiting(id)' \subseteq Waiting(id),
         \A c \in Clients : Deletes(c)' => request'[c] = request[c] \/ Deleted(c)',
         \/ tail' = tail
         \/ \E e \in Removals : /\ tail' = Append(tail, e)
                                /\ \A c \in Clients : Deletes(c) => e.by # c
  PROVE  FinalSoFar'
<1>1. \A id \in busy : id \notin gone /\ \A c \in Clients : Deletes(c) => request[c].id # id
  BY StillThere DEF FinalSoFar
<1>2. \/ tail' = tail
      \/ \E e \in Saves \cup Removals :
           /\ tail' = Append(tail, e) /\ (e.op = "save" => e.id \in busy)
           /\ \A c \in Clients : Deletes(c) => e.by # c
  BY DEF Removals
<1>3. Kept' /\ Deleting' /\ Gone'
  BY <1>1, <1>2, Undisturbed DEF FinalSoFar
<1> QED BY <1>3 DEF FinalSoFar

LEMMA FinalServe ==
  ASSUME Shape, Protocol, FinalSoFar, NEW c \in Clients, Serve(c)
  PROVE  FinalSoFar'
<1>1. CASE StartPlayback(c)
  <2>1. /\ Turn(c, "lock") /\ request[c].id \in present /\ \E e \in Saves : Submitted(c, e, <<>>)
        /\ UNCHANGED <<todo, present, cache, disk, unsure, gone>>
    BY <1>1, PlaybackStarts DEF history
  <2> QED BY <2>1, FinalSave
<1>2. CASE SeekAnswers(c)
  <2>1. /\ Turn(c, "source") /\ \E e \in Saves : Submitted(c, e, <<>>)
        /\ unsure \subseteq unsure' \cup {request[c].id}
        /\ UNCHANGED <<todo, present, cache, disk, gone>>
    BY <1>2, SeekAnswered
  <2> QED BY <2>1, FinalSave
<1>3. CASE ReadAnswers(c)
  <2>1. /\ Turn(c, "source") /\ \E frames \in Frames : \E e \in Saves : Submitted(c, e, frames)
        /\ UNCHANGED <<todo, present, cache, disk, unsure, gone>>
    BY <1>3, ReadAnswered DEF history
  <2> QED BY <2>1, FinalSave
<1>4. CASE StartRead(c) \/ StartSeek(c)
  <2>1. /\ Turn(c, "lock") /\ request[c].id \in present /\ request'[c].op = request[c].op
        /\ request'[c].id = request[c].id /\ request'[c] # NoRequest
        /\ \A d \in Clients \ {c} : request'[d] = request[d]
        /\ UNCHANGED <<todo, present, tail, cache, disk, unsure, gone>>
    BY <1>4, SourceAsked DEF history
  <2>2. request[c].op \in Locked
    BY <2>1, TurnKnown
  <2>3. \A id : id \notin {request[c].id} => Waiting(id)' \subseteq Waiting(id)
    BY <2>1 DEF Waiting, Asks, At
  <2>4. \A d \in Clients : Deletes(d)' => request'[d] = request[d]
    BY <2>1, <2>2 DEF Deletes, Locked
  <2> QED BY <2>1, <2>3, <2>4, FinalQuiet
<1>5. CASE \/ AnswerAtOnce(c) \/ SourceThrows(c)
           \/ /\ Turn(c, "lock") /\ Release(c)
              /\ UNCHANGED <<phase, todo, created, objects, present, tail, cache, disk, world,
                             history>>
  <2>1. /\ request'[c] = NoRequest /\ \A d \in Clients \ {c} : request'[d] = request[d]
        /\ UNCHANGED <<todo, present, tail, cache, disk, unsure, gone>>
    BY <1>5, AnsweredEarly
  <2>2. \A id : Waiting(id)' \subseteq Waiting(id)
    BY <2>1 DEF Waiting, Asks, At
  <2>3. \A d \in Clients : Deletes(d)' => request'[d] = request[d]
    BY <2>1 DEF Deletes, NoRequest
  <2> QED BY <2>1, <2>2, <2>3, FinalQuiet
<1>6. CASE Turn(c, "lock") /\ Dropped(c)
  <2>1. PICK e \in Removals : Submitted(c, e, <<>>)
    BY <1>6, DropSubmits
  <2>2. /\ present' \subseteq present /\ UNCHANGED <<todo, cache, disk, unsure, gone>>
    BY <1>6, DropSubmits DEF Dropped, history
  <2>3. request[c].op \in Locked
    BY <1>6, TurnKnown
  <2>4. \A id : Waiting(id)' \subseteq Waiting(id)
    BY <2>1 DEF Submitted, Waiting, Asks, At
  <2>5. \A d \in Clients : Deletes(d)' => request'[d] = request[d]
    BY <2>1, <2>3 DEF Submitted, Deletes, Locked
  <2>6. \E x \in Removals : tail' = Append(tail, x) /\ \A d \in Clients : Deletes(d) => x.by # d
    BY <2>1, <2>3, LockedDeletesNothing DEF Submitted
  <2> QED BY <2>2, <2>4, <2>5, <2>6, FinalQuiet
<1> QED BY <1>1, <1>2, <1>3, <1>4, <1>5, <1>6, StartMissingIs DEF Serve

LEMMA FinalCreate ==
  ASSUME Shape, Protocol, FinalSoFar, NEW c \in Clients, NEW id \in Sessions,
         Creates(c, id)
  PROVE  FinalSoFar'
<1> DEFINE r == [op |-> "create", id |-> id, stage |-> "saving"]
<1>1. /\ id \notin created /\ Asked(c, r) /\ present' = present \cup {id}
      /\ UNCHANGED <<todo, cache, disk, unsure, gone>>
  BY CreateAsks DEF history
<1>20. PICK e \in Saves : Saved(c, id, e)
  BY CreateAsks
<1>2. e.op = "save" /\ e.id = id /\ e.by = c /\ tail' = Append(tail, e)
  BY <1>20 DEF Saved
<1>3. r.op = "create" /\ r.stage = "saving"
  OBVIOUS
<1> HIDE DEF r
<1>4. request[c] = NoRequest /\ request'[c] = r /\ \A d \in Clients \ {c} : request'[d] = request[d]
  BY <1>1 DEF Asked
<1>5. \A k \in {id} : k \notin gone /\ \A d \in Clients : Deletes(d) => request[d].id # k
  BY <1>1, StillThere DEF FinalSoFar
<1>6. SaveQueued(id)'
  <2>1. /\ Len(tail) + 1 \in DOMAIN tail' /\ tail'[Len(tail) + 1] = e
    BY <1>2, Longer DEF Shape
  <2> QED BY <1>2, <2>1 DEF SaveQueued, IsSave
<1>7. \A k : Waiting(k)' \subseteq Waiting(k)
  BY <1>3, <1>4 DEF Waiting, Asks, At
<1>8. \A d \in Clients : Deletes(d)' => request'[d] = request[d]
  BY <1>3, <1>4 DEF Deletes
<1>9. \E x \in Saves \cup Removals :
        /\ tail' = Append(tail, x) /\ (x.op = "save" => x.id \in {id})
        /\ \A d \in Clients : Deletes(d) => x.by # d
  BY <1>2, <1>4, LockedDeletesNothing
<1>10. \A k : k \in (present' \ present) \cup (unsure \ unsure') => SaveQueued(k)'
  BY <1>1, <1>6
<1>11. Kept' /\ Deleting' /\ Gone'
  <2>1. /\ \A k : k \notin {id} => Waiting(k)' \subseteq Waiting(k)
        /\ present' \subseteq present \cup {id} /\ unsure \subseteq unsure' \cup {id}
        /\ UNCHANGED <<todo, cache, disk, gone>>
    BY <1>1, <1>7
  <2>2. \A d \in Clients : Deletes(d)' => request'[d] = request[d] \/ Deleted(d)'
    BY <1>8
  <2> QED BY <1>5, <1>9, <1>10, <2>1, <2>2, Undisturbed DEF FinalSoFar
<1> QED BY <1>11 DEF FinalSoFar

LEMMA FinalEnqueue ==
  ASSUME Shape, Protocol, FinalSoFar, NEW c \in Clients, NEW id \in Sessions, NEW op \in Locked,
         NEW arg \in Nat, NEW preRoll \in BOOLEAN, op = "read" => arg \in Limits, op = "seek" => arg \in SeekTargets,
         Enqueue(c, id, op, arg, preRoll)
  PROVE  FinalSoFar'
<1> DEFINE r == [op |-> op, id |-> id, arg |-> arg, preRoll |-> preRoll, stage |-> "lock",
                 frames |-> <<>>]
<1>1. Asked(c, r) /\ UNCHANGED <<todo, present, tail, cache, disk, unsure, gone>>
  BY EnqueueAsks DEF history
<1>2. r.op \in Locked /\ r.stage = "lock"
  OBVIOUS
<1> HIDE DEF r
<1>3. request'[c] = r /\ \A d \in Clients \ {c} : request'[d] = request[d]
  BY <1>1 DEF Asked
<1>4. \A k : Waiting(k)' \subseteq Waiting(k)
  BY <1>2, <1>3 DEF Waiting, Asks, At
<1>5. \A d \in Clients : Deletes(d)' => request'[d] = request[d]
  BY <1>2, <1>3 DEF Deletes, Locked
<1> QED BY <1>1, <1>4, <1>5, FinalQuiet

(* A deletion that is asked for while nothing is under way waits for what  *)
(* was queued before it.                                                   *)
LEMMA FinalDelete ==
  ASSUME Shape, Protocol, FinalSoFar, NEW c \in Clients, NEW id \in Sessions, Delete(c, id)
  PROVE  FinalSoFar'
<1> DEFINE r == [op |-> "delete", id |-> id, stage |-> "saving", quiet |-> NothingUnderWay(id)]
<1>1. /\ id \in present /\ Asked(c, r) /\ present' = present \ {id}
      /\ UNCHANGED <<todo, cache, disk, unsure, gone>>
  BY DeleteAsks DEF history
<1>2. PICK e \in Removals : e.op = "remove" /\ e.id = id /\ e.by = c /\ tail' = Append(tail, e)
  BY DeleteAsks
<1>3. r.id = id /\ r.stage = "saving" /\ r.quiet = NothingUnderWay(id)
  OBVIOUS
<1> HIDE DEF r
<1>4. request[c] = NoRequest /\ request'[c] = r /\ \A d \in Clients \ {c} : request'[d] = request[d]
  BY <1>1 DEF Asked
<1>5. \A k : Waiting(k)' \subseteq Waiting(k)
  BY <1>3, <1>4 DEF Waiting, Asks, At
<1>6. Deletes(c)' => Deleted(c)'
  <2>1. SUFFICES ASSUME Deletes(c)' PROVE Deleted(c)'
    OBVIOUS
  <2>2. id \notin unsure /\ Waiting(id) = {}
    BY <1>3, <1>4, <2>1 DEF Deletes, NothingUnderWay, Waiting, Asks, At
  <2>3. id \in DOMAIN disk => id \in DOMAIN cache \/ SaveQueued(id)
    BY <1>1, <2>2 DEF FinalSoFar, Kept
  <2>4. /\ e \in Saves \cup Removals /\ tail \in Seq(Saves \cup Removals)
    BY DEF Shape
  <2>5. /\ DOMAIN tail' = DOMAIN tail \cup {Len(tail) + 1} /\ tail'[Len(tail) + 1] = e
        /\ \A i \in DOMAIN tail : tail'[i] = tail[i] /\ i < Len(tail) + 1
    BY <1>2, <2>4, Longer
  <2>6. SaveQueued(id) => SaveQueued(id)'
    BY <2>5 DEF SaveQueued, IsSave
  <2>7. ASSUME NEW i \in DOMAIN tail', tail'[i].by = c
        PROVE  i = Len(tail) + 1
    <3>1. i \in DOMAIN tail => tail[i].by # c
      BY <1>2, <1>4, SessionsAssumption DEF Protocol, Queued, Asks
    <3> QED BY <2>5, <2>7, <3>1
  <2>8. ASSUME NEW j \in DOMAIN tail', IsSave(j, id)'
        PROVE  j < Len(tail) + 1
    BY <1>2, <2>5, <2>8 DEF IsSave
  <2>9. /\ id \notin present' /\ Waiting(id)' = {}
        /\ (id \in DOMAIN disk' => id \in DOMAIN cache' \/ SaveQueued(id)')
    BY <1>1, <1>5, <2>2, <2>3, <2>6
  <2>10. request'[c].id = id
    BY <1>3, <1>4
  <2> QED BY <2>7, <2>8, <2>9, <2>10 DEF Deleted
<1>7. \A d \in Clients : Deletes(d)' => request'[d] = request[d] \/ Deleted(d)'
  BY <1>4, <1>6
<1>8. \E x \in Removals : tail' = Append(tail, x) /\ \A d \in Clients : Deletes(d) => x.by # d
  BY <1>2, <1>4, LockedDeletesNothing
<1>9. present' \subseteq present /\ {} \in SUBSET present
  BY <1>1
<1> QED BY <1>1, <1>5, <1>7, <1>8, <1>9, FinalQuiet

LEMMA FinalCleanup ==
  ASSUME Shape, Protocol, FinalSoFar, NEW id \in Sessions, Cleanup(id)
  PROVE  FinalSoFar'
<1>1. /\ present' \subseteq present /\ UNCHANGED <<todo, request, cache, disk, unsure, gone>>
  BY CleanupDrops DEF history
<1>2. \E e \in Removals : tail' = Append(tail, e) /\ \A d \in Clients : Deletes(d) => e.by # d
  BY CleanupDrops, SessionsAssumption
<1>3. \A k : Waiting(k)' \subseteq Waiting(k)
  BY <1>1 DEF Waiting, Asks, At
<1>4. {} \in SUBSET present /\ \A d \in Clients : Deletes(d)' => request'[d] = request[d]
  BY <1>1
<1> QED BY <1>1, <1>2, <1>3, <1>4, FinalQuiet

(* The operation at the head of the queue leaves it; the others move up.   *)
LEMMA FinalDone ==
  ASSUME Shape, Protocol, FinalSoFar, NEW e \in Saves \cup Removals, Done(e),
         present' = present, unsure \subseteq unsure',
         \A id \in DOMAIN disk' \ unsure' :
           (id \in DOMAIN disk => id \in DOMAIN cache \/ SaveQueued(id))
             => id \in DOMAIN cache' \/ SaveQueued(id)'
  PROVE  /\ Kept' /\ Deleting'
         /\ \A id : Waiting(id)' \subseteq Waiting(id) /\ (SaveQueued(id)' => SaveQueued(id))
<1>1. /\ e = tail[1] /\ tail # <<>> /\ 1 \in DOMAIN tail /\ tail' = Tail(tail)
      /\ (e.by # Nobody => e.by \in Clients /\ request'[e.by] = NoRequest)
      /\ \A d \in Clients : d # e.by => request'[d] = request[d]
  BY DEF Done
<1>2. \A i \in DOMAIN tail' : i + 1 \in DOMAIN tail /\ tail'[i] = tail[i + 1] /\ i \in Nat
  BY <1>1, Shorter DEF Shape
<1>3. \A id : SaveQueued(id)' => SaveQueued(id)
  BY <1>2 DEF SaveQueued, IsSave
<1>4. \A id : Waiting(id)' \subseteq Waiting(id)
  BY <1>1, SessionsAssumption DEF Waiting, Asks, At
<1>5. Kept'
  BY DEF FinalSoFar, Kept
<1>6. ASSUME NEW c \in Clients, Deletes(c)'
      PROVE  Deleted(c)'
  <2>1. c # e.by
    BY <1>1, <1>6, SessionsAssumption DEF Deletes, NoRequest
  <2>2. PICK id : id = request[c].id /\ id = request'[c].id
    BY <1>1, <2>1
  <2>3. Deletes(c) /\ Deleted(c)
    BY <1>1, <1>6, <2>1 DEF Deletes, FinalSoFar, Deleting
  <2>4. id \notin present' /\ Waiting(id)' = {}
    BY <1>4, <2>2, <2>3 DEF Deleted
  <2>5. ASSUME NEW i \in DOMAIN tail', tail'[i].by = c
        PROVE  /\ \A j \in DOMAIN tail' : IsSave(j, id)' => j < i
               /\ id \in DOMAIN disk' \ unsure' => id \in DOMAIN cache' \/ SaveQueued(id)'
    <3>1. i + 1 \in DOMAIN tail /\ tail[i + 1].by = c
      BY <1>2, <2>5
    <3>2. ASSUME NEW j \in DOMAIN tail', IsSave(j, id)'
          PROVE  j < i
      <4>1. j + 1 \in DOMAIN tail /\ IsSave(j + 1, id)
        BY <1>2, <3>2 DEF IsSave
      <4>2. j + 1 < i + 1
        BY <2>2, <2>3, <3>1, <4>1 DEF Deleted
      <4> QED BY <1>2, <4>2
    <3>3. id \in DOMAIN disk \ unsure => id \in DOMAIN cache \/ SaveQueued(id)
      BY <2>2, <2>3, <3>1 DEF Deleted
    <3> QED BY <3>2, <3>3
  <2> QED BY <2>2, <2>4, <2>5 DEF Deleted
<1> QED BY <1>3, <1>4, <1>5, <1>6 DEF Deleting, Deletes

(* A save that is not the head's is still queued. *)
LEMMA StillQueued ==
  ASSUME Shape, NEW e \in Saves \cup Removals, Done(e), NEW id, SaveQueued(id),
         e.op # "save" \/ e.id # id
  PROVE  SaveQueued(id)'
<1>1. PICK i \in DOMAIN tail : IsSave(i, id)
  BY DEF SaveQueued
<1>2. e = tail[1] /\ tail # <<>> /\ tail' = Tail(tail)
  BY DEF Done
<1>3. i # 1
  BY <1>1, <1>2 DEF IsSave
<1>4. i - 1 \in DOMAIN tail' /\ tail'[i - 1] = tail[i]
  BY <1>2, <1>3, Shorter DEF Shape
<1> QED BY <1>1, <1>4 DEF SaveQueued, IsSave

LEMMA FinalRuns ==
  ASSUME Shape, Protocol, FinalSoFar, RepositoryRuns
  PROVE  FinalSoFar'
<1>1. PICK e \in Saves \cup Removals :
        /\ Done(e) /\ Maps(e, cache')
        /\ disk' = cache' \/ (e.op = "remove" /\ e.id \notin DOMAIN cache /\ disk' = disk)
        /\ \/ gone' = gone
           \/ /\ gone' = gone \cup {e.id} /\ e.id \notin unsure
              /\ e.by # Nobody /\ Deletes(e.by)
  BY RepositoryRan DEF Deletes
<1>2. phase = "up" /\ UNCHANGED <<todo, present, unsure>>
  BY RepositoryRan
<1>3. e.op \in {"save", "remove"}
  BY Entries
<1>4. DOMAIN cache' = IF e.op = "save" THEN DOMAIN cache \cup {e.id} ELSE DOMAIN cache \ {e.id}
  BY <1>1 DEF Maps
<1>5. \A id \in DOMAIN disk' \ unsure' :
        (id \in DOMAIN disk => id \in DOMAIN cache \/ SaveQueued(id))
          => id \in DOMAIN cache' \/ SaveQueued(id)'
  BY <1>1, <1>4, StillQueued
<1>6. /\ Kept' /\ Deleting'
      /\ \A id : Waiting(id)' \subseteq Waiting(id) /\ (SaveQueued(id)' => SaveQueued(id))
  BY <1>1, <1>2, <1>5, FinalDone
<1>7. e = tail[1] /\ 1 \in DOMAIN tail /\ \A d \in Clients : d = e.by => request[d].id = e.id
  BY <1>1, SessionsAssumption DEF Done
<1>8. ASSUME NEW id \in gone
      PROVE  /\ id \notin present' \cup DOMAIN disk' \cup DOMAIN cache' \cup todo'
             /\ ~SaveQueued(id)' /\ Waiting(id)' = {}
  <2>1. /\ id \notin present \cup DOMAIN disk \cup DOMAIN cache \cup todo
        /\ ~SaveQueued(id) /\ Waiting(id) = {}
    BY DEF FinalSoFar, Gone
  <2>2. e.op = "save" => e.id # id
    BY <1>7, <2>1 DEF SaveQueued, IsSave
  <2> QED BY <1>1, <1>2, <1>4, <1>6, <2>1, <2>2
<1>9. ASSUME gone' # gone
      PROVE  LET id == e.id
             IN  /\ id \notin present' \cup DOMAIN disk' \cup DOMAIN cache' \cup todo'
                 /\ ~SaveQueued(id)' /\ Waiting(id)' = {}
  <2>1. /\ e.id \notin unsure /\ e.by # Nobody /\ Deletes(e.by) /\ e.by \in Clients
        /\ request[e.by].id = e.id
    BY <1>1, <1>7, <1>9, Entries
  <2>2. Deleted(e.by)
    BY <2>1 DEF FinalSoFar, Deleting, Deletes
  <2>3. /\ e.id \notin present /\ Waiting(e.id) = {}
        /\ \A j \in DOMAIN tail : IsSave(j, e.id) => j < 1
        /\ e.id \in DOMAIN disk => e.id \in DOMAIN cache \/ SaveQueued(e.id)
    BY <1>7, <2>1, <2>2 DEF Deleted
  <2>4. ~SaveQueued(e.id)
    BY <2>3 DEF SaveQueued, Shape
  <2>5. e.op = "remove"
    BY <1>3, <1>7, <2>4 DEF SaveQueued, IsSave
  <2>6. todo = {}
    BY <1>2 DEF Protocol, Phases
  <2> QED BY <1>1, <1>2, <1>4, <1>6, <2>3, <2>4, <2>5, <2>6
<1>10. Gone'
  BY <1>1, <1>8, <1>9 DEF Gone
<1> QED BY <1>6, <1>10 DEF FinalSoFar

LEMMA FinalFails ==
  ASSUME Shape, Protocol, FinalSoFar, RepositoryFails
  PROVE  FinalSoFar'
<1>1. PICK e \in Saves \cup Removals :
        /\ Done(e) /\ (cache' = cache \/ Maps(e, cache')) /\ unsure' = unsure \cup {e.id}
  BY RepositoryFailed
<1>2. UNCHANGED <<todo, present, disk, gone>>
  BY RepositoryFailed
<1>3. \/ cache' = cache
      \/ DOMAIN cache' = IF e.op = "save" THEN DOMAIN cache \cup {e.id} ELSE DOMAIN cache \ {e.id}
  BY <1>1 DEF Maps
<1>4. \A id \in DOMAIN disk' \ unsure' :
        (id \in DOMAIN disk => id \in DOMAIN cache \/ SaveQueued(id))
          => id \in DOMAIN cache' \/ SaveQueued(id)'
  BY <1>1, <1>2, <1>3, StillQueued
<1>5. /\ Kept' /\ Deleting'
      /\ \A id : Waiting(id)' \subseteq Waiting(id) /\ (SaveQueued(id)' => SaveQueued(id))
  BY <1>1, <1>2, <1>4, FinalDone
<1>6. e = tail[1] /\ 1 \in DOMAIN tail
  BY <1>1 DEF Done
<1>7. ASSUME NEW id \in gone
      PROVE  /\ id \notin present' \cup DOMAIN disk' \cup DOMAIN cache' \cup todo'
             /\ ~SaveQueued(id)' /\ Waiting(id)' = {}
  <2>1. /\ id \notin present \cup DOMAIN disk \cup DOMAIN cache \cup todo
        /\ ~SaveQueued(id) /\ Waiting(id) = {}
    BY DEF FinalSoFar, Gone
  <2>2. e.op = "save" => e.id # id
    BY <1>6, <2>1 DEF SaveQueued, IsSave
  <2> QED BY <1>2, <1>3, <1>5, <2>1, <2>2
<1> QED BY <1>2, <1>5, <1>7 DEF FinalSoFar, Gone

LEMMA FinalCrash ==
  ASSUME Shape, Protocol, FinalSoFar, Crash
  PROVE  FinalSoFar'
<1>1. /\ present' = {} /\ tail' = <<>> /\ todo' = {} /\ cache' = Empty
      /\ request' = [c \in Clients |-> NoRequest] /\ UNCHANGED <<disk, gone>>
  BY DEF Crash
<1>2. \A c \in Clients : request'[c] = NoRequest
  BY <1>1
<1>3. \A id : ~SaveQueued(id)' /\ Waiting(id)' = {}
  BY <1>1, <1>2 DEF SaveQueued, Waiting, Asks
<1>4. DOMAIN cache' = {}
  BY <1>1 DEF Empty
<1>5. Kept' /\ Gone'
  BY <1>1, <1>3, <1>4 DEF Kept, Gone, FinalSoFar
<1>6. Deleting'
  BY <1>2 DEF Deleting, NoRequest
<1> QED BY <1>5, <1>6 DEF FinalSoFar

(* While the process restarts no request is made: what is in the file is   *)
(* in the map, and what was deleted is in neither.                         *)
LEMMA FinalRestart ==
  ASSUME Shape, Protocol, FinalSoFar, phase # "up", UNCHANGED <<request, tail, gone>>,
         gone \cap (present' \cup DOMAIN disk' \cup DOMAIN cache' \cup todo') = {},
         \A id \in present' \ unsure' : id \in DOMAIN disk' => id \in DOMAIN cache'
  PROVE  FinalSoFar'
<1>1. tail = <<>> /\ \A c \in Clients : request[c] = NoRequest
  BY DEF Protocol, Phases
<1>2. \A id : ~SaveQueued(id)' /\ Waiting(id)' = {}
  BY <1>1 DEF SaveQueued, Waiting, Asks
<1>3. Kept'
  BY DEF Kept
<1>4. Deleting'
  BY <1>1 DEF Deleting, NoRequest
<1>5. Gone'
  BY <1>2 DEF Gone
<1> QED BY <1>3, <1>4, <1>5 DEF FinalSoFar

LEMMA FinalOpens ==
  ASSUME Shape, Protocol, FinalSoFar,
         \/ Open
         \/ \E id \in Sessions : Restore(id) \/ RestoreUnsaved(id) \/ Discard(id)
  PROVE  FinalSoFar'
<1>1. gone \cap (present \cup DOMAIN disk \cup DOMAIN cache \cup todo) = {}
  BY DEF FinalSoFar, Gone
<1>2. phase # "up" =>
        \A id \in present \ unsure : id \in DOMAIN disk => id \in DOMAIN cache
  BY DEF FinalSoFar, Kept, Protocol, Phases, SaveQueued
<1>3. CASE Open
  <2>1. /\ phase = "down" /\ cache' = disk /\ todo' = DOMAIN disk
        /\ UNCHANGED <<present, request, tail, disk, gone>>
    BY <1>3 DEF Open, history
  <2> QED BY <1>1, <2>1, FinalRestart
<1>4. ASSUME NEW id \in Sessions, Restore(id)
      PROVE  FinalSoFar'
  <2>1. \E session \in Objects : Again(id, session)
    BY <1>4, RestoreBrings
  <2>2. /\ phase = "restoring" /\ id \in todo /\ present' = present \cup {id}
    BY <2>1 DEF Again
  <2>3. /\ DOMAIN cache' = DOMAIN cache /\ disk' = cache' /\ todo' = todo \ {id}
        /\ UNCHANGED <<request, tail, unsure, gone>>
    BY <1>4, RestoreBrings DEF history
  <2> QED BY <1>1, <2>2, <2>3, FinalRestart
<1>5. ASSUME NEW id \in Sessions, RestoreUnsaved(id)
      PROVE  FinalSoFar'
  <2>1. \E session \in Objects : Again(id, session)
    BY <1>5, RestoreLoses
  <2>2. /\ phase = "restoring" /\ id \in todo /\ present' = present \cup {id}
    BY <2>1 DEF Again
  <2>3. /\ DOMAIN cache' = DOMAIN cache \ {id} /\ disk' \in {disk, cache'}
        /\ todo' = todo \ {id} /\ unsure' = unsure \cup {id} /\ UNCHANGED <<request, tail, gone>>
    BY <1>5, RestoreLoses
  <2>4. \A k \in present' \ unsure' : k \in DOMAIN disk' => k \in DOMAIN cache'
    BY <1>2, <2>2, <2>3
  <2>5. gone \cap (present' \cup DOMAIN disk' \cup DOMAIN cache' \cup todo') = {}
    BY <1>1, <2>2, <2>3
  <2> QED BY <2>2, <2>3, <2>4, <2>5, FinalRestart
<1>6. ASSUME NEW id \in Sessions, Discard(id)
      PROVE  FinalSoFar'
  <2>1. /\ phase = "restoring" /\ id \notin present /\ DOMAIN cache' = DOMAIN cache \ {id}
        /\ disk' \in {disk, cache'} /\ todo' = todo \ {id}
        /\ UNCHANGED <<present, request, tail, unsure, gone>>
    BY <1>6, DiscardForgets DEF history
  <2>2. \A k \in present' \ unsure' : k \in DOMAIN disk' => k \in DOMAIN cache'
    BY <1>2, <2>1
  <2>3. gone \cap (present' \cup DOMAIN disk' \cup DOMAIN cache' \cup todo') = {}
    BY <1>1, <2>1
  <2> QED BY <2>1, <2>2, <2>3, FinalRestart
<1> QED BY <1>3, <1>4, <1>5, <1>6

LEMMA FinalWorld ==
  ASSUME Shape, Protocol, FinalSoFar,
         Opened \/ SourceChanges \/ (\E id \in Sessions : Expires(id))
  PROVE  FinalSoFar'
<1>1. UNCHANGED <<todo, present, request, tail, cache, disk, unsure, gone>>
  BY WorldTurns
<1> QED BY <1>1 DEF FinalSoFar, Kept, Deleting, Deleted, Gone, SaveQueued, IsSave, Waiting, Asks, At

-----------------------------------------------------------------------------
(* Every step keeps all of it. *)

LEMMA Beginning ==
  ASSUME Init
  PROVE  Shape /\ Protocol /\ FinalSoFar
<1>1. /\ phase = "up" /\ todo = {} /\ created = {} /\ objects = Empty /\ present = {}
      /\ locks = [id \in Sessions |-> <<>>] /\ request = [c \in Clients |-> NoRequest]
      /\ tail = <<>> /\ cache = Empty /\ disk = Empty /\ changed = FALSE
      /\ received = [id \in Sessions |-> <<>>] /\ unsure = {} /\ gone = {}
  BY DEF Init
<1>2. DOMAIN Empty = {} /\ \A S : IsMap(Empty, S)
  BY DEF Empty, IsMap
<1>3. \A c \in Clients : request[c] = NoRequest /\ request[c].op = "none"
  BY <1>1 DEF NoRequest
<1>4. Shape
  <2>1. request \in [Clients -> Requests]
    BY <1>1 DEF Requests
  <2>2. locks \in [Sessions -> Seq(Clients)] /\ received \in [Sessions -> Frames]
    BY <1>1 DEF Frames
  <2>3. tail \in Seq(Saves \cup Removals)
    BY <1>1
  <2> QED BY <1>1, <1>2, <2>1, <2>2, <2>3 DEF Shape
<1>5. Protocol
  BY <1>1, <1>2, <1>3 DEF Protocol, Phases, Chains, Unknown, Queued, Locked
<1>6. FinalSoFar
  BY <1>1, <1>2, <1>3 DEF FinalSoFar, Kept, Deleting, Gone
<1> QED BY <1>4, <1>5, <1>6

LEMMA Standing ==
  ASSUME Shape, Protocol, FinalSoFar, UNCHANGED vars
  PROVE  Shape' /\ Protocol' /\ FinalSoFar'
<1>1. /\ UNCHANGED <<phase, todo, created, objects, present, locks, request, tail>>
      /\ UNCHANGED <<cache, disk, changed, received, unsure, gone>>
  BY DEF vars, memory, world, history
<1>2. Shape'
  BY <1>1 DEF Shape
<1>3. Protocol'
  BY <1>1 DEF Protocol, Phases, Chains, Unknown, Queued, Asks, At, Does
<1>4. FinalSoFar'
  BY <1>1 DEF FinalSoFar, Kept, Deleting, Deleted, Gone, SaveQueued, IsSave, Waiting, Asks, At
<1> QED BY <1>2, <1>3, <1>4

Enqueues(c, id, op, arg, preRoll) ==
  /\ op = "read" => arg \in Limits
  /\ op = "seek" => arg \in SeekTargets
  /\ Enqueue(c, id, op, arg, preRoll)

LEMMA CallIs ==
  ASSUME NEW c \in Clients, NEW id \in Sessions, Call(c, id)
  PROVE  \/ \E op \in Locked, arg \in Nat, preRoll \in BOOLEAN : Enqueues(c, id, op, arg, preRoll)
         \/ Delete(c, id) \/ Creates(c, id)
<1>1. CASE \E op \in {"pause", "resume", "speed"} : Enqueue(c, id, op, 0, FALSE)
  <2>1. PICK op \in {"pause", "resume", "speed"} : Enqueue(c, id, op, 0, FALSE)
    BY <1>1
  <2>2. op \in Locked /\ op # "read" /\ op # "seek" /\ 0 \in Nat
    BY DEF Locked
  <2> QED BY <2>1, <2>2 DEF Enqueues
<1>2. CASE \E target \in SeekTargets : Enqueue(c, id, "seek", target, FALSE)
  <2>1. PICK target \in SeekTargets : Enqueue(c, id, "seek", target, FALSE)
    BY <1>2
  <2>2. target \in Nat /\ "seek" \in Locked
    BY SessionsAssumption, SourceAssumption DEF Locked
  <2> QED BY <2>1, <2>2 DEF Enqueues
<1>3. CASE \E limit \in Limits, preRoll \in BOOLEAN : Enqueue(c, id, "read", limit, preRoll)
  <2>1. PICK limit \in Limits, preRoll \in BOOLEAN : Enqueue(c, id, "read", limit, preRoll)
    BY <1>3
  <2>2. limit \in Nat /\ "read" \in Locked
    BY SessionsAssumption DEF Locked
  <2> QED BY <2>1, <2>2 DEF Enqueues
<1> QED BY <1>1, <1>2, <1>3 DEF Call, Creates

LEMMA CallKeeps ==
  ASSUME Shape, Protocol, FinalSoFar, NEW c \in Clients, NEW id \in Sessions, Call(c, id)
  PROVE  Shape' /\ Protocol' /\ FinalSoFar'
<1>1. CASE \E op \in Locked, arg \in Nat, preRoll \in BOOLEAN :
              Enqueues(c, id, op, arg, preRoll)
  BY <1>1, EnqueueAsks, FinalEnqueue DEF Enqueues
<1>2. CASE Delete(c, id)
  BY <1>2, DeleteAsks, FinalDelete
<1>3. CASE Creates(c, id)
  BY <1>3, CreateAsks, FinalCreate
<1> QED BY <1>1, <1>2, <1>3, CallIs

LEMMA ServeKeeps ==
  ASSUME Shape, Protocol, FinalSoFar, NEW c \in Clients, Serve(c)
  PROVE  Shape' /\ Protocol' /\ FinalSoFar'
<1>1. Shape' /\ Protocol'
  <2>1. CASE StartMissing(c)
    BY <2>1, StartMissingIs, AnsweredEarly, DropSubmits
  <2>2. CASE AnswerAtOnce(c) \/ SourceThrows(c)
    BY <2>2, AnsweredEarly
  <2>3. CASE StartRead(c) \/ StartSeek(c)
    BY <2>3, SourceAsked
  <2> QED BY <2>1, <2>2, <2>3, PlaybackStarts, SeekAnswered, ReadAnswered DEF Serve
<1> QED BY <1>1, FinalServe

LEMMA StepKeeps ==
  ASSUME Shape, Protocol, FinalSoFar, [Next]_vars
  PROVE  Shape' /\ Protocol' /\ FinalSoFar'
<1>1. CASE \E c \in Clients, id \in Sessions : Call(c, id)
  BY <1>1, CallKeeps
<1>2. CASE \E c \in Clients : Serve(c)
  BY <1>2, ServeKeeps
<1>3. CASE RepositoryRuns
  BY <1>3, RepositoryRan, FinalRuns
<1>4. CASE RepositoryFails
  BY <1>4, RepositoryFailed, FinalFails
<1>5. CASE \E id \in Sessions : Cleanup(id)
  BY <1>5, CleanupDrops, FinalCleanup
<1>6. CASE Opened \/ SourceChanges \/ (\E id \in Sessions : Expires(id))
  BY <1>6, WorldTurns, FinalWorld
<1>7. CASE Open \/ \E id \in Sessions : Restore(id) \/ RestoreUnsaved(id) \/ Discard(id)
  BY <1>7, OpenReads, RestoreBrings, RestoreLoses, DiscardForgets, FinalOpens
<1>8. CASE Crash
  BY <1>8, Crashed, FinalCrash
<1>9. CASE UNCHANGED vars
  BY <1>9, Standing
<1> QED BY <1>1, <1>2, <1>3, <1>4, <1>5, <1>6, <1>7, <1>8, <1>9 DEF Next, Repository

(* Once the deletion of a session is answered, neither the map nor the     *)
(* file ever holds it again: delete() takes no lock, but its removal waits *)
(* behind every save that was queued before, and an operation that is      *)
(* still in the chain finds no session any more.                           *)
THEOREM DeletionsAreFinal == Spec => []DeletedStayGone
<1>1. Init => Shape /\ Protocol /\ FinalSoFar
  BY Beginning
<1>2. Shape /\ Protocol /\ FinalSoFar /\ [Next]_vars => Shape' /\ Protocol' /\ FinalSoFar'
  BY StepKeeps
<1>3. FinalSoFar => DeletedStayGone
  BY DEF FinalSoFar, Gone, DeletedStayGone
<1> QED BY <1>1, <1>2, <1>3, PTL DEF Spec

-----------------------------------------------------------------------------
(* What a checkpoint counts. *)

(* For any capture, and whatever the limits of the pages, the pauses, the  *)
(* speeds, the failed saves, the crashes and the restores, a checkpoint    *)
(* counts the live frames of its seek in capture order with none left out  *)
(* before the last, and else only snapshots from before the watermark and  *)
(* depth records that follow one without a gap.  For a capture whose clock *)
(* is steady, that is a part, from its start on, of the one pre-roll that  *)
(* the capture has.                                                        *)
THEOREM CheckpointsAreDeterministic == Spec => []SpeedInvariant
<1>1. Init => Shape /\ Protocol /\ FinalSoFar
  BY Beginning
<1>2. Shape /\ Protocol /\ FinalSoFar /\ [Next]_vars => Shape' /\ Protocol' /\ FinalSoFar'
  BY StepKeeps
<1>3. Shape => SpeedInvariant
  BY DEF Shape, IsMap, Objects, Checkpoints, SpeedInvariant
<1> QED BY <1>1, <1>2, <1>3, PTL DEF Spec

-----------------------------------------------------------------------------
(* What is delivered follows what was delivered. *)

LEMMA Latest ==
  ASSUME NEW cp \in Checkpoints, Increasing(cp.rolled)
  PROVE  /\ Cursor(cp) \in 0 .. Len(Records)
         /\ \A i \in DOMAIN cp.rolled : cp.rolled[i] <= Cursor(cp)
<1> DEFINE s == cp.rolled
<1>1. s \in Seq(1 .. Len(Records))
  BY DEF Checkpoints, Frames
<1>2. CASE s = <<>>
  BY <1>2, TheCapture DEF Cursor
<1>3. CASE s # <<>>
  <2>1. Cursor(cp) = s[Len(s)]
    BY <1>3 DEF Cursor, Last
  <2>2. Len(s) \in Nat /\ Len(s) \in DOMAIN s /\ \A i \in DOMAIN s : i <= Len(s) /\ s[i] \in Nat
    BY <1>1, <1>3
  <2>3. s[Len(s)] \in 1 .. Len(Records) /\ Increasing(s)
    BY <1>1, <2>2
  <2> HIDE DEF s
  <2>4. \A i \in DOMAIN s : s[i] <= s[Len(s)]
    <3> SUFFICES ASSUME NEW i \in DOMAIN s PROVE s[i] <= s[Len(s)]
      OBVIOUS
    <3>1. i = Len(s) \/ i < Len(s)
      BY <1>1, <2>2
    <3> QED BY <2>2, <2>3, <3>1, TheCapture DEF Increasing
  <2> QED BY <2>1, <2>3, <2>4, TheCapture DEF s
<1> QED BY <1>2, <1>3

(* A page read from the cursor on, joined to the checkpoint and to what    *)
(* was sent.                                                               *)
LEMMA ReadsOn ==
  ASSUME NEW cp \in Checkpoints, NEW new \in Checkpoints, NEW frames \in Frames,
         NEW sent \in Frames, Increasing(sent), Counts(cp, sent), Increasing(frames),
         \A k \in DOMAIN frames : Cursor(cp) < frames[k],
         new.rolled = cp.rolled \o frames
  PROVE  /\ Increasing(sent \o frames) /\ Counts(new, sent) /\ Counts(new, sent \o frames)
<1>1. /\ cp.rolled \in Frames /\ Increasing(cp.rolled)
      /\ \A i \in DOMAIN sent : sent[i] <= Cursor(cp)
  BY DEF Counts, Checkpoints
<1>2. /\ Cursor(cp) \in 0 .. Len(Records)
      /\ \A i \in DOMAIN cp.rolled : cp.rolled[i] <= Cursor(cp)
  BY <1>1, Latest
<1>3. /\ \A i \in DOMAIN sent : sent[i] \in Nat
      /\ \A i \in DOMAIN frames : frames[i] \in Nat
      /\ \A i \in DOMAIN cp.rolled : cp.rolled[i] \in Nat
  BY <1>1, TheCapture DEF Frames
<1>4. Increasing(new.rolled)
  <2>1. \A i \in DOMAIN cp.rolled, j \in DOMAIN frames : cp.rolled[i] < frames[j]
    BY <1>2, <1>3, TheCapture
  <2> QED BY <1>1, <2>1, Together
<1>5. /\ sent \o frames \in Frames /\ Increasing(sent \o frames)
      /\ \A k \in DOMAIN (sent \o frames) :
           \/ k \in DOMAIN sent /\ (sent \o frames)[k] = sent[k]
           \/ \E j \in DOMAIN frames : (sent \o frames)[k] = frames[j]
  <2>1. \A i \in DOMAIN sent, j \in DOMAIN frames : sent[i] < frames[j]
    BY <1>1, <1>2, <1>3, TheCapture
  <2> QED BY <2>1, Together
<1>6. /\ Cursor(new) \in 0 .. Len(Records)
      /\ \A i \in DOMAIN new.rolled : new.rolled[i] <= Cursor(new)
  BY <1>4, Latest
<1>7. /\ \A j \in DOMAIN frames : frames[j] <= Cursor(new)
      /\ Cursor(cp) <= Cursor(new)
  <2>1. ASSUME NEW j \in DOMAIN frames
        PROVE  frames[j] <= Cursor(new)
    <3>1. Len(cp.rolled) + j \in DOMAIN new.rolled /\ new.rolled[Len(cp.rolled) + j] = frames[j]
      BY <1>1 DEF Frames
    <3> QED BY <1>6, <3>1
  <2>2. Cursor(cp) <= Cursor(new)
    <3>1. CASE frames = <<>>
      <4>1. new.rolled = cp.rolled
        BY <1>1, <3>1 DEF Frames
      <4>2. Cursor(new) = Cursor(cp)
        BY <4>1 DEF Cursor
      <4> QED BY <1>2, <4>2, TheCapture
    <3>2. CASE frames # <<>>
      <4>1. 1 \in DOMAIN frames
        BY <3>2 DEF Frames
      <4>2. frames[1] <= Cursor(new) /\ Cursor(cp) < frames[1] /\ frames[1] \in Nat
        BY <1>3, <2>1, <4>1
      <4> QED BY <1>2, <1>6, <4>2, TheCapture
    <3> QED BY <3>1, <3>2
  <2> QED BY <2>1, <2>2
<1>8. \A i \in DOMAIN sent : sent[i] <= Cursor(new)
  BY <1>1, <1>2, <1>3, <1>6, <1>7, TheCapture
<1>9. \A k \in DOMAIN (sent \o frames) : (sent \o frames)[k] <= Cursor(new)
  BY <1>5, <1>7, <1>8
<1> QED BY <1>4, <1>5, <1>8, <1>9 DEF Counts

(* What the lock gives: one operation of a session at a time, and one save *)
(* of it in the queue.                                                     *)
LEMMA OneOwner ==
  ASSUME Shape, Protocol, NEW c \in Clients, NEW d \in Clients,
         request[c].op \in Locked, request[d].op \in Locked, request[c].id = request[d].id,
         ~At(c, "lock"), ~At(d, "lock")
  PROVE  c = d
<1>1. locks[request[c].id][1] = c
  BY DEF Protocol, Chains
<1>2. locks[request[d].id][1] = d
  BY DEF Protocol, Chains
<1> QED BY <1>1, <1>2

LEMMA Saving ==
  ASSUME Shape, Protocol, NEW id, NEW i \in DOMAIN tail, IsSave(i, id)
  PROVE  /\ tail[i].by \in Clients /\ Asks(tail[i].by, id) /\ At(tail[i].by, "saving")
         /\ ~At(tail[i].by, "lock") /\ ~At(tail[i].by, "source")
         /\ request[tail[i].by].op \in Locked \cup {"create"}
<1>1. tail[i] \in Saves \cup Removals /\ tail[i].id = id /\ tail[i].op = "save"
  BY DEF Shape, IsSave
<1>2. tail[i].by \in Clients /\ tail[i].by # Nobody
  BY <1>1, Entries, SessionsAssumption
<1>3. Asks(tail[i].by, id) /\ At(tail[i].by, "saving") /\ ~Does(tail[i].by, "delete")
  BY <1>1, <1>2 DEF Protocol, Queued
<1>4. request[tail[i].by].op \in Locked \cup {"create"}
  BY <1>2, <1>3, RequestKinds DEF Shape, Asks, Does
<1> QED BY <1>2, <1>3, <1>4 DEF At

(* Whoever is in front of the chain and not saving keeps others from it.   *)
LEMMA NobodySaves ==
  ASSUME Shape, Protocol, NEW c \in Clients, NEW stage \in {"lock", "source"}, Turn(c, stage)
  PROVE  ~SaveQueued(request[c].id) /\ \A d \in Clients : ~Reads(d, request[c].id)
<1>1. /\ request[c].op \in Locked /\ request[c] # NoRequest /\ request[c].id \in Sessions
      /\ Head(locks[request[c].id]) = c /\ ~At(c, "saving")
  BY TurnKnown
<1>2. PICK id : id = request[c].id
  OBVIOUS
<1>3. ASSUME NEW d \in Clients, Asks(d, id), At(d, "saving")
      PROVE  request[d].op \notin Locked \cup {"create"}
  <2>1. d # c /\ Asks(c, id)
    BY <1>1, <1>2, <1>3 DEF Asks
  <2>2. request[d].op # "create"
    BY <1>2, <1>3, <2>1 DEF Protocol, Unknown, Does, Asks
  <2>3. ASSUME request[d].op \in Locked
        PROVE  FALSE
    <3>1. \E i \in DOMAIN locks[id] : locks[id][i] = d /\ (~At(d, "lock") => i = 1)
      BY <1>3, <2>3 DEF Protocol, Chains, Asks
    <3>2. 1 \in DOMAIN locks[id] /\ locks[id][1] = d
      BY <1>3, <3>1 DEF At
    <3>3. Head(locks[id]) = locks[id][1]
      BY <1>1, <1>2, <3>2 DEF Shape
    <3> QED BY <1>1, <1>2, <2>1, <3>2, <3>3
  <2> QED BY <2>2, <2>3
<1>4. ~SaveQueued(id)
  BY <1>3, Saving DEF SaveQueued
<1>5. \A d \in Clients : ~Reads(d, id)
  BY <1>3 DEF Reads, Does, Locked
<1> QED BY <1>2, <1>4, <1>5

(* Nobody reads while another operation of the session is being saved.     *)
LEMMA OneSave ==
  ASSUME Shape, Protocol, NEW id, NEW i \in DOMAIN tail, IsSave(i, id), NEW d \in Clients,
         Reads(d, id)
  PROVE  d = tail[i].by
<1>1. PICK c : c = tail[i].by
  OBVIOUS
<1>2. /\ c \in Clients /\ Asks(c, id) /\ ~At(c, "lock") /\ request[c].op \in Locked \cup {"create"}
  BY <1>1, Saving
<1>3. request[d].op \in Locked /\ Asks(d, id) /\ ~At(d, "lock")
  BY DEF Reads, Does, At, Locked
<1>4. CASE request[c].op = "create"
  BY <1>1, <1>2, <1>3, <1>4 DEF Protocol, Unknown, Does, Asks
<1>5. CASE request[c].op \in Locked
  BY <1>1, <1>2, <1>3, <1>5, OneOwner DEF Asks
<1> QED BY <1>2, <1>4, <1>5

(* Steps that deliver nothing and move no checkpoint: what is new has read *)
(* nothing, and what is queued saves the session as it is.                 *)
LEMMA DeliveredSame ==
  ASSUME Shape, Protocol, DeliveredSoFar,
         UNCHANGED <<cache, disk, received, unsure>>, created \subseteq created',
         DOMAIN objects \subseteq DOMAIN objects',
         \A k \in DOMAIN objects : objects'[k].checkpoint = objects[k].checkpoint,
         \A k \in DOMAIN objects' \ DOMAIN objects :
           k \in Sessions \ created /\ objects'[k] \in Objects
             /\ objects'[k].checkpoint.rolled = <<>>,
         \A d \in Clients : Does(d, "read")' =>
           request'[d].id \in DOMAIN objects
             /\ (request'[d] = request[d] \/ request'[d].frames = <<>>),
         \A d \in Clients, k \in Sessions : Reads(d, k) => Reads(d, k)',
         \A d \in Clients, k \in Sessions : Reads(d, k)' =>
           \/ Reads(d, k) /\ request'[d] = request[d]
           \/ request'[d].frames = <<>> /\ \A c \in Clients : ~Reads(c, k),
         \/ tail' = tail
         \/ \E e \in Saves \cup Removals :
              /\ tail' = Append(tail, e)
              /\ e.op = "save" => /\ e.id \in DOMAIN objects'
                                  /\ e.session.checkpoint = objects'[e.id].checkpoint
  PROVE  DeliveredSoFar'
<1>1. /\ \A k \in Sessions : received[k] \in Frames /\ received[k] \o <<>> = received[k]
      /\ DOMAIN objects \subseteq Sessions
  BY DEF Shape, Frames
<1>2. /\ \A i \in DOMAIN tail : tail'[i] = tail[i] /\ i \in DOMAIN tail'
      /\ \A i \in DOMAIN tail' : i \in DOMAIN tail \/ tail'[i].op # "save"
           \/ /\ tail'[i].id \in DOMAIN objects'
              /\ tail'[i].session.checkpoint = objects'[tail'[i].id].checkpoint
  <2>1. CASE tail' = tail
    BY <2>1
  <2>2. CASE tail' # tail
    <3>1. PICK e \in Saves \cup Removals :
            /\ tail' = Append(tail, e)
            /\ e.op = "save" => /\ e.id \in DOMAIN objects'
                                /\ e.session.checkpoint = objects'[e.id].checkpoint
      BY <2>2
    <3>2. /\ DOMAIN tail' = DOMAIN tail \cup {Len(tail) + 1} /\ tail'[Len(tail) + 1] = e
          /\ \A i \in DOMAIN tail : tail'[i] = tail[i]
      BY <3>1, Longer DEF Shape
    <3> QED BY <3>1, <3>2
  <2> QED BY <2>1, <2>2
<1>3. Ahead'
  <2>1. \A k \in DOMAIN objects' \ DOMAIN objects :
          received[k] = <<>> /\ Counts(objects'[k].checkpoint, received[k])
    BY DEF DeliveredSoFar, Ahead, Counts, Increasing
  <2> QED BY <2>1 DEF DeliveredSoFar, Ahead
<1>4. PageFollows'
  <2> SUFFICES ASSUME NEW d \in Clients, Does(d, "read")'
               PROVE  LET id == request'[d].id
                          sent == received[id] \o request'[d].frames
                      IN  Increasing(sent) /\ Counts(objects'[id].checkpoint, sent)
    BY DEF PageFollows
  <2>1. PICK id : id = request'[d].id
    OBVIOUS
  <2>2. id \in DOMAIN objects /\ objects'[id].checkpoint = objects[id].checkpoint
    BY <2>1
  <2>3. CASE request'[d] = request[d]
    BY <2>1, <2>2, <2>3 DEF DeliveredSoFar, PageFollows, Does
  <2>4. CASE request'[d].frames = <<>>
    BY <1>1, <2>1, <2>2, <2>4 DEF DeliveredSoFar, Ahead
  <2> QED BY <2>3, <2>4
<1>5. SavesTheSession'
  BY <1>2 DEF DeliveredSoFar, SavesTheSession
<1>6. \A k : SaveQueued(k) => SaveQueued(k)'
  BY <1>2 DEF SaveQueued, IsSave
<1>7. ASSUME NEW id \in DOMAIN objects' \ unsure'
      PROVE  /\ (\A c \in Clients : ~Reads(c, id)') => objects'[id].checkpoint.rolled = received'[id]
             /\ \A c \in Clients : Reads(c, id)' =>
                  objects'[id].checkpoint.rolled = received'[id] \o request'[c].frames
  <2>1. CASE id \notin DOMAIN objects
    <3>1. objects'[id].checkpoint.rolled = received'[id]
      BY <2>1 DEF DeliveredSoFar, Ahead
    <3>2. \A c \in Clients : ~Reads(c, id)'
      BY <2>1 DEF Reads, Asks, At, Does
    <3> QED BY <3>1, <3>2
  <2>2. CASE id \in DOMAIN objects
    <3>1. id \in Sessions /\ objects'[id].checkpoint.rolled = objects[id].checkpoint.rolled
      BY <1>1, <2>2
    <3>2. /\ (\A c \in Clients : ~Reads(c, id)) => objects[id].checkpoint.rolled = received[id]
          /\ \A c \in Clients : Reads(c, id) =>
               objects[id].checkpoint.rolled = received[id] \o request[c].frames
      BY <1>7, <2>2 DEF DeliveredSoFar, Exact
    <3> QED BY <1>1, <3>1, <3>2
  <2> QED BY <2>1, <2>2
<1>8. Exact'
  BY <1>6, <1>7 DEF DeliveredSoFar, Exact
<1> QED BY <1>3, <1>4, <1>5, <1>8 DEF DeliveredSoFar

(* A save of the session as it is. *)
LEMMA DeliveredPlayback ==
  ASSUME Shape, Protocol, DeliveredSoFar, NEW c \in Clients, StartPlayback(c)
  PROVE  DeliveredSoFar'
<1>1. /\ Turn(c, "lock") /\ ~Does(c, "read")
      /\ UNCHANGED <<created, cache, disk, received, unsure>>
  BY PlaybackStarts DEF history
<1>2. PICK session \in Objects :
        /\ Changed(request[c].id, session)
        /\ session.checkpoint = objects[request[c].id].checkpoint
        /\ \E e \in Saves : /\ Submitted(c, e, <<>>) /\ e.op = "save"
                            /\ e.session.checkpoint = session.checkpoint
  BY PlaybackStarts
<1>3. PICK e \in Saves : /\ Submitted(c, e, <<>>) /\ e.op = "save"
                         /\ e.session.checkpoint = session.checkpoint
  BY <1>2
<1>4. /\ request[c] # NoRequest /\ request[c].id \in DOMAIN objects /\ ~At(c, "saving")
      /\ e.id = request[c].id /\ tail' = Append(tail, e) /\ e \in Saves \cup Removals
      /\ request'[c].op = request[c].op /\ \A d \in Clients \ {c} : request'[d] = request[d]
  BY <1>1, <1>3, TurnKnown DEF Submitted
<1>5. /\ DOMAIN objects' = DOMAIN objects
      /\ \A k \in DOMAIN objects : objects'[k].checkpoint = objects[k].checkpoint
      /\ e.session.checkpoint = objects'[e.id].checkpoint
  BY <1>2, <1>3, <1>4 DEF Changed
<1>6. \A d \in Clients : Does(d, "read")' =>
        request'[d].id \in DOMAIN objects /\ request'[d] = request[d]
  BY <1>1, <1>4 DEF Does, Protocol, Chains, Locked
<1>7. \A d \in Clients, k \in Sessions : Reads(d, k) => Reads(d, k)'
  BY <1>1, <1>4 DEF Reads, Asks, At, Does
<1>8. \A d \in Clients, k \in Sessions : Reads(d, k)' => Reads(d, k) /\ request'[d] = request[d]
  BY <1>1, <1>4 DEF Reads, Asks, At, Does
<1> QED BY <1>1, <1>4, <1>5, <1>6, <1>7, <1>8, DeliveredSame

(* A session waits for the capture, is answered early or is dropped.       *)
LEMMA DeliveredAsked ==
  ASSUME Shape, Protocol, DeliveredSoFar, NEW c \in Clients, StartRead(c) \/ StartSeek(c)
  PROVE  DeliveredSoFar'
<1>1. /\ Turn(c, "lock") /\ SameCheckpoints
      /\ request'[c] # NoRequest /\ request'[c].id = request[c].id
      /\ request'[c].stage = "source" /\ request'[c].frames = <<>>
      /\ \A d \in Clients \ {c} : request'[d] = request[d]
      /\ UNCHANGED <<created, tail, cache, disk, received, unsure>>
  BY SourceAsked DEF history
<1>2. request[c].id \in DOMAIN objects /\ ~At(c, "saving")
  BY <1>1, TurnKnown
<1>3. \A d \in Clients : Does(d, "read")' =>
        request'[d].id \in DOMAIN objects /\ (request'[d] = request[d] \/ request'[d].frames = <<>>)
  BY <1>1, <1>2 DEF Does, Protocol, Chains, Locked
<1>4. \A d \in Clients, k \in Sessions : Reads(d, k) => Reads(d, k)'
  BY <1>1, <1>2 DEF Reads, Asks, At, Does
<1>5. \A d \in Clients, k \in Sessions : Reads(d, k)' => Reads(d, k) /\ request'[d] = request[d]
  BY <1>1, <1>2 DEF Reads, Asks, At, Does
<1> QED BY <1>1, <1>3, <1>4, <1>5, DeliveredSame DEF SameCheckpoints

LEMMA DeliveredEarly ==
  ASSUME Shape, Protocol, DeliveredSoFar, NEW c \in Clients,
         \/ AnswerAtOnce(c) \/ SourceThrows(c)
         \/ /\ Turn(c, "lock") /\ Release(c)
            /\ UNCHANGED <<phase, todo, created, objects, present, tail, cache, disk, world,
                           history>>
  PROVE  DeliveredSoFar'
<1>1. /\ request'[c] = NoRequest /\ ~At(c, "saving")
      /\ \A d \in Clients \ {c} : request'[d] = request[d]
      /\ UNCHANGED <<created, objects, tail, cache, disk, received, unsure>>
  BY AnsweredEarly
<1>2. \A d \in Clients : Does(d, "read")' =>
        request'[d].id \in DOMAIN objects /\ request'[d] = request[d]
  BY <1>1 DEF Does, Protocol, Chains, Locked, NoRequest
<1>3. \A d \in Clients, k \in Sessions : Reads(d, k) => Reads(d, k)'
  BY <1>1 DEF Reads, Asks, At, Does
<1>4. \A d \in Clients, k \in Sessions : Reads(d, k)' => Reads(d, k) /\ request'[d] = request[d]
  BY <1>1 DEF Reads, Asks, At, Does
<1> QED BY <1>1, <1>2, <1>3, <1>4, DeliveredSame

LEMMA DeliveredDrop ==
  ASSUME Shape, Protocol, DeliveredSoFar, NEW c \in Clients, Turn(c, "lock"), Dropped(c)
  PROVE  DeliveredSoFar'
<1>1. PICK e \in Removals : Submitted(c, e, <<>>) /\ e.op = "remove"
  BY DropSubmits
<1>2. UNCHANGED <<created, objects, cache, disk, received, unsure>>
  BY DEF Dropped, history
<1>3. /\ request[c].id \in DOMAIN objects /\ ~At(c, "saving")
      /\ \A d \in Clients : ~Reads(d, request[c].id)
  BY TurnKnown, NobodySaves
<1>4. /\ e \in Saves \cup Removals /\ tail' = Append(tail, e)
      /\ request'[c].id = request[c].id /\ request'[c].frames = <<>>
      /\ \A d \in Clients \ {c} : request'[d] = request[d]
  BY <1>1 DEF Submitted
<1>5. \A d \in Clients : Does(d, "read")' =>
        request'[d].id \in DOMAIN objects /\ (request'[d] = request[d] \/ request'[d].frames = <<>>)
  BY <1>3, <1>4 DEF Does, Protocol, Chains, Locked
<1>6. \A d \in Clients, k \in Sessions : Reads(d, k) => Reads(d, k)'
  BY <1>3, <1>4 DEF Reads, Asks, At, Does
<1>7. \A d \in Clients, k \in Sessions : Reads(d, k)' =>
        \/ Reads(d, k) /\ request'[d] = request[d]
        \/ request'[d].frames = <<>> /\ \A b \in Clients : ~Reads(b, k)
  BY <1>3, <1>4 DEF Reads, Asks, At, Does
<1> QED BY <1>1, <1>2, <1>4, <1>5, <1>6, <1>7, DeliveredSame

(* A client calls, or the timer cleans up. *)
LEMMA DeliveredAsks ==
  ASSUME Shape, Protocol, DeliveredSoFar, NEW c \in Clients, NEW r, Asked(c, r),
         r.stage # "saving" \/ r.op # "read",
         r.op = "read" => r.id \in DOMAIN objects /\ r.frames = <<>>,
         UNCHANGED <<cache, disk, received, unsure>>, created \subseteq created',
         DOMAIN objects \subseteq DOMAIN objects',
         \A k \in DOMAIN objects : objects'[k].checkpoint = objects[k].checkpoint,
         \A k \in DOMAIN objects' \ DOMAIN objects :
           k \in Sessions \ created /\ objects'[k] \in Objects
             /\ objects'[k].checkpoint.rolled = <<>>,
         \/ tail' = tail
         \/ \E e \in Saves \cup Removals :
              /\ tail' = Append(tail, e)
              /\ e.op = "save" => /\ e.id \in DOMAIN objects'
                                  /\ e.session.checkpoint = objects'[e.id].checkpoint
  PROVE  DeliveredSoFar'
<1>1. /\ request[c] = NoRequest /\ request'[c] = r
      /\ \A d \in Clients \ {c} : request'[d] = request[d]
  BY DEF Asked
<1>2. \A d \in Clients : Does(d, "read")' =>
        request'[d].id \in DOMAIN objects /\ (request'[d] = request[d] \/ request'[d].frames = <<>>)
  BY <1>1 DEF Does, Protocol, Chains, Locked
<1>3. \A d \in Clients, k \in Sessions : Reads(d, k) => Reads(d, k)'
  BY <1>1 DEF Reads, Asks, At, Does
<1>4. \A d \in Clients, k \in Sessions : Reads(d, k)' => Reads(d, k) /\ request'[d] = request[d]
  BY <1>1 DEF Reads, Asks, At, Does
<1> QED BY <1>2, <1>3, <1>4, DeliveredSame

LEMMA DeliveredCreate ==
  ASSUME Shape, Protocol, DeliveredSoFar, NEW c \in Clients, NEW id \in Sessions, Creates(c, id)
  PROVE  DeliveredSoFar'
<1> DEFINE r == [op |-> "create", id |-> id, stage |-> "saving"]
<1>1. /\ id \notin created /\ Asked(c, r) /\ created' = created \cup {id}
      /\ UNCHANGED <<cache, disk, received, unsure>>
  BY CreateAsks
<1>2. PICK session \in Objects :
        /\ Made(id, session) /\ session.checkpoint.rolled = <<>>
        /\ \E e \in Saves : Saved(c, id, e) /\ e.session.checkpoint = session.checkpoint
  BY CreateAsks
<1>3. PICK e \in Saves : Saved(c, id, e) /\ e.session.checkpoint = session.checkpoint
  BY <1>2
<1>4. r.op # "read"
  OBVIOUS
<1> HIDE DEF r
<1>5. /\ DOMAIN objects' = DOMAIN objects \cup {id} /\ objects'[id] = session
      /\ \A k \in DOMAIN objects : objects'[k] = objects[k]
  BY <1>2 DEF Made
<1>6. e \in Saves \cup Removals /\ e.id = id /\ tail' = Append(tail, e)
  BY <1>3 DEF Saved
<1>7. \A k \in DOMAIN objects' \ DOMAIN objects :
        k \in Sessions \ created /\ objects'[k] \in Objects /\ objects'[k].checkpoint.rolled = <<>>
  BY <1>1, <1>2, <1>5
<1>8. \E x \in Saves \cup Removals :
        /\ tail' = Append(tail, x)
        /\ x.op = "save" => x.id \in DOMAIN objects'
                            /\ x.session.checkpoint = objects'[x.id].checkpoint
  BY <1>3, <1>5, <1>6
<1> QED BY <1>1, <1>4, <1>5, <1>7, <1>8, DeliveredAsks

LEMMA DeliveredEnqueue ==
  ASSUME Shape, Protocol, DeliveredSoFar, NEW c \in Clients, NEW id \in Sessions,
         NEW op \in Locked, NEW arg \in Nat, NEW preRoll \in BOOLEAN, op = "read" => arg \in Limits,
         op = "seek" => arg \in SeekTargets, Enqueue(c, id, op, arg, preRoll)
  PROVE  DeliveredSoFar'
<1> DEFINE r == [op |-> op, id |-> id, arg |-> arg, preRoll |-> preRoll, stage |-> "lock",
                 frames |-> <<>>]
<1>1. /\ Chains' /\ Asked(c, r)
      /\ UNCHANGED <<created, objects, tail, cache, disk, received, unsure>>
  BY EnqueueAsks DEF history, Protocol
<1>2. r.op \in Locked /\ r.stage = "lock" /\ r.frames = <<>>
  OBVIOUS
<1> HIDE DEF r
<1>3. r.id \in DOMAIN objects
  <2>1. request'[c] = r
    BY <1>1 DEF Asked
  <2> QED BY <1>1, <1>2, <2>1 DEF Chains
<1>4. DOMAIN objects' = DOMAIN objects /\ \A k \in DOMAIN objects : objects'[k] = objects[k]
  BY <1>1
<1> QED BY <1>1, <1>2, <1>3, <1>4, DeliveredAsks

LEMMA DeliveredDelete ==
  ASSUME Shape, Protocol, DeliveredSoFar, NEW c \in Clients, NEW id \in Sessions, Delete(c, id)
  PROVE  DeliveredSoFar'
<1> DEFINE r == [op |-> "delete", id |-> id, stage |-> "saving", quiet |-> NothingUnderWay(id)]
<1>1. Asked(c, r) /\ UNCHANGED <<created, objects, cache, disk, received, unsure>>
  BY DeleteAsks DEF history
<1>2. PICK e \in Removals : e.op = "remove" /\ e.id = id /\ e.by = c /\ tail' = Append(tail, e)
  BY DeleteAsks
<1>3. r.op # "read"
  OBVIOUS
<1> HIDE DEF r
<1>4. \E x \in Saves \cup Removals :
        /\ tail' = Append(tail, x)
        /\ x.op = "save" => x.id \in DOMAIN objects'
                            /\ x.session.checkpoint = objects'[x.id].checkpoint
  BY <1>2
<1>5. DOMAIN objects' = DOMAIN objects /\ \A k \in DOMAIN objects : objects'[k] = objects[k]
  BY <1>1
<1> QED BY <1>1, <1>3, <1>4, <1>5, DeliveredAsks

LEMMA DeliveredCleanup ==
  ASSUME Shape, Protocol, DeliveredSoFar, NEW id \in Sessions, Cleanup(id)
  PROVE  DeliveredSoFar'
<1>1. UNCHANGED <<created, objects, request, cache, disk, received, unsure>>
  BY CleanupDrops DEF history
<1>2. \E e \in Saves \cup Removals : tail' = Append(tail, e) /\ e.op # "save"
  BY CleanupDrops
<1>3. \A d \in Clients : Does(d, "read")' =>
        request'[d].id \in DOMAIN objects /\ request'[d] = request[d]
  BY <1>1 DEF Does, Protocol, Chains, Locked
<1>4. \A d \in Clients, k \in Sessions : Reads(d, k) => Reads(d, k)'
  BY <1>1 DEF Reads, Asks, At, Does
<1>5. \A d \in Clients, k \in Sessions : Reads(d, k)' => Reads(d, k) /\ request'[d] = request[d]
  BY <1>1 DEF Reads, Asks, At, Does
<1> QED BY <1>1, <1>2, <1>3, <1>4, <1>5, DeliveredSame

(* A save of what a request of the session's own has made of it: nothing   *)
(* of the session was queued before.                                       *)
LEMMA OwnSave ==
  ASSUME Shape, Protocol, DeliveredSoFar, NEW c \in Clients, NEW id, id = request[c].id,
         NEW stage \in {"lock", "source"}, Turn(c, stage), NEW session \in Objects,
         Changed(id, session), NEW e \in Saves, NEW frames, Submitted(c, e, frames),
         e.op = "save", e.session.checkpoint = session.checkpoint, UNCHANGED <<cache, disk>>
  PROVE  /\ id \in DOMAIN objects /\ id \in Sessions /\ id \in created
         /\ DOMAIN objects' = DOMAIN objects /\ objects'[id] = session
         /\ \A k \in DOMAIN objects : k # id => objects'[k] = objects[k]
         /\ SavesTheSession' /\ SaveQueued(id)'
         /\ \A k : k # id => (SaveQueued(k) <=> SaveQueued(k)')
         /\ \A d \in Clients \ {c} : request'[d] = request[d] /\ ~Reads(d, id)'
         /\ \A d \in Clients \ {c} : Does(d, "read") /\ request[d].id = id => request[d].frames = <<>>
         /\ \A d \in Clients, k \in Sessions : k # id => (Reads(d, k) <=> Reads(d, k)')
         /\ request'[c].id = id /\ request'[c].frames = frames /\ request'[c].op = request[c].op
         /\ \A d \in Clients : ~Reads(d, id)
<1>1. /\ request[c] # NoRequest /\ id \in DOMAIN objects /\ id \in Sessions /\ id \in created
      /\ request[c].op \in Locked /\ ~At(c, "saving")
  BY TurnKnown
<1>2. ~SaveQueued(id) /\ \A d \in Clients : ~Reads(d, id)
  BY NobodySaves
<1>3. /\ e \in Saves \cup Removals /\ e.id = id /\ tail' = Append(tail, e)
      /\ request'[c] # NoRequest /\ request'[c].id = id /\ request'[c].op = request[c].op
      /\ request'[c].frames = frames /\ \A d \in Clients \ {c} : request'[d] = request[d]
  BY DEF Submitted
<1>4. /\ DOMAIN tail' = DOMAIN tail \cup {Len(tail) + 1} /\ tail'[Len(tail) + 1] = e
      /\ \A i \in DOMAIN tail : tail'[i] = tail[i]
  BY <1>3, Longer DEF Shape
<1>5. /\ DOMAIN objects' = DOMAIN objects /\ objects'[id] = session
      /\ \A k \in DOMAIN objects : k # id => objects'[k] = objects[k]
  BY DEF Changed
<1>6. SavesTheSession'
  <2> SUFFICES ASSUME NEW i \in DOMAIN tail', tail'[i].op = "save"
               PROVE  /\ tail'[i].id \in DOMAIN objects'
                      /\ tail'[i].session.checkpoint = objects'[tail'[i].id].checkpoint
    BY DEF SavesTheSession
  <2>1. CASE i \in DOMAIN tail
    <3>1. /\ tail[i].id \in DOMAIN objects
          /\ tail[i].session.checkpoint = objects[tail[i].id].checkpoint
      BY <1>4, <2>1 DEF DeliveredSoFar, SavesTheSession
    <3>2. tail[i].id # id
      BY <1>2, <1>4, <2>1 DEF SaveQueued, IsSave
    <3> QED BY <1>4, <1>5, <2>1, <3>1, <3>2
  <2>2. CASE i \notin DOMAIN tail
    BY <1>1, <1>3, <1>4, <1>5, <2>2
  <2> QED BY <2>1, <2>2
<1>7. SaveQueued(id)' /\ \A k : k # id => (SaveQueued(k) <=> SaveQueued(k)')
  BY <1>3, <1>4 DEF SaveQueued, IsSave
<1>8. \A d \in Clients \ {c} : ~Reads(d, id)'
  BY <1>2, <1>3 DEF Reads, Asks, At, Does
<1>9. \A d \in Clients, k \in Sessions : k # id => (Reads(d, k) <=> Reads(d, k)')
  BY <1>1, <1>3 DEF Reads, Asks, At, Does
<1>10. \A d \in Clients : Does(d, "read") /\ request[d].id = id => request[d].frames = <<>>
  BY <1>1, <1>2 DEF Protocol, Chains, Does, Locked, Reads, Asks, At, NoRequest
<1> QED BY <1>1, <1>2, <1>3, <1>5, <1>6, <1>7, <1>8, <1>9, <1>10

LEMMA DeliveredSeek ==
  ASSUME Shape, Protocol, DeliveredSoFar, NEW c \in Clients, SeekAnswers(c)
  PROVE  DeliveredSoFar'
<1>0. PICK id : id = request[c].id
  OBVIOUS
<1>1. /\ Turn(c, "source") /\ Does(c, "seek")
      /\ received' = [received EXCEPT ![id] = <<>>] /\ unsure' = unsure \ {id}
      /\ UNCHANGED <<created, cache, disk>>
  BY <1>0, SeekAnswered
<1>2. PICK session \in Objects :
        /\ Changed(id, session) /\ session.checkpoint.rolled = <<>>
        /\ \E e \in Saves : /\ Submitted(c, e, <<>>) /\ e.op = "save"
                            /\ e.session.checkpoint = session.checkpoint
  BY <1>0, SeekAnswered
<1>3. PICK e \in Saves : /\ Submitted(c, e, <<>>) /\ e.op = "save"
                         /\ e.session.checkpoint = session.checkpoint
  BY <1>2
<1>4. /\ id \in DOMAIN objects /\ id \in Sessions /\ id \in created
      /\ DOMAIN objects' = DOMAIN objects /\ objects'[id] = session
      /\ \A k \in DOMAIN objects : k # id => objects'[k] = objects[k]
      /\ SavesTheSession' /\ SaveQueued(id)'
      /\ \A k : k # id => (SaveQueued(k) <=> SaveQueued(k)')
      /\ \A d \in Clients \ {c} : request'[d] = request[d] /\ ~Reads(d, id)'
      /\ \A d \in Clients \ {c} : Does(d, "read") /\ request[d].id = id => request[d].frames = <<>>
      /\ \A d \in Clients, k \in Sessions : k # id => (Reads(d, k) <=> Reads(d, k)')
      /\ request'[c].op = request[c].op
  BY <1>0, <1>1, <1>2, <1>3, OwnSave
<1>5. /\ received'[id] = <<>> /\ \A k \in Sessions : k # id => received'[k] = received[k]
      /\ DOMAIN objects \cup DOMAIN cache \cup DOMAIN disk \subseteq Sessions
  BY <1>1, <1>4 DEF Shape
<1>6. \A cp : Increasing(cp.rolled) => Counts(cp, <<>>)
  BY DEF Counts
<1>7. Increasing(<<>>)
  BY DEF Increasing
<1>8. Ahead'
  <2>1. \A k \in Sessions : /\ Increasing(received'[k])
                            /\ (k \notin created' => received'[k] = <<>>)
    BY <1>1, <1>5, <1>7 DEF DeliveredSoFar, Ahead
  <2>2. \A k \in DOMAIN objects' : Counts(objects'[k].checkpoint, received'[k])
    BY <1>2, <1>4, <1>5, <1>6, <1>7 DEF DeliveredSoFar, Ahead
  <2>3. /\ \A k \in DOMAIN cache : Counts(cache[k].checkpoint, received'[k])
        /\ \A k \in DOMAIN disk : Counts(disk[k].checkpoint, received'[k])
    <3>1. /\ \A k \in DOMAIN cache : Counts(cache[k].checkpoint, received[k])
          /\ \A k \in DOMAIN disk : Counts(disk[k].checkpoint, received[k])
      BY DEF DeliveredSoFar, Ahead
    <3>2. /\ \A k \in DOMAIN cache : Increasing(cache[k].checkpoint.rolled)
          /\ \A k \in DOMAIN disk : Increasing(disk[k].checkpoint.rolled)
      BY <3>1 DEF Counts
    <3> QED BY <1>5, <1>6, <3>1, <3>2
  <2> QED BY <1>1, <2>1, <2>2, <2>3 DEF Ahead
<1>9. PageFollows'
  <2> SUFFICES ASSUME NEW d \in Clients, Does(d, "read")'
               PROVE  LET k == request'[d].id
                          sent == received'[k] \o request'[d].frames
                      IN  Increasing(sent) /\ Counts(objects'[k].checkpoint, sent)
    BY DEF PageFollows
  <2>1. d # c /\ request'[d] = request[d] /\ Does(d, "read")
    BY <1>1, <1>4 DEF Does
  <2>2. PICK k : k = request[d].id
    OBVIOUS
  <2>3. k \in DOMAIN objects
    BY <2>1, <2>2 DEF Protocol, Chains, Does, Locked
  <2>4. CASE k # id
    BY <1>4, <1>5, <2>1, <2>2, <2>3, <2>4 DEF DeliveredSoFar, PageFollows
  <2>5. CASE k = id
    <3>1. request'[d].frames = <<>> /\ request'[d].id = id
      BY <1>4, <2>1, <2>2, <2>5
    <3>2. Counts(session.checkpoint, <<>>)
      BY <1>2, <1>6, <1>7
    <3>3. received'[id] \o request'[d].frames = <<>>
      <4>1. <<>> \o <<>> = <<>>
        OBVIOUS
      <4> QED BY <1>5, <3>1, <4>1
    <3> QED BY <1>4, <1>7, <3>1, <3>2, <3>3
  <2> QED BY <2>4, <2>5
<1>10. Exact'
  <2>1. ASSUME NEW k \in DOMAIN objects' \ unsure'
        PROVE  /\ (\A d \in Clients : ~Reads(d, k)') => objects'[k].checkpoint.rolled = received'[k]
               /\ \A d \in Clients : Reads(d, k)' =>
                    objects'[k].checkpoint.rolled = received'[k] \o request'[d].frames
    <3>1. CASE k = id
      <4>1. \A d \in Clients : ~Reads(d, id)'
        BY <1>1, <1>4 DEF Reads, Does
      <4> QED BY <1>2, <1>4, <1>5, <3>1, <4>1
    <3>2. CASE k # id
      <4>1. k \in DOMAIN objects \ unsure /\ k \in Sessions /\ received'[k] = received[k]
        BY <1>1, <1>4, <1>5, <2>1, <3>2
      <4>2. \A d \in Clients : Reads(d, k)' => d # c
        BY <1>1, <1>4 DEF Reads, Does
      <4> QED BY <1>4, <3>2, <4>1, <4>2, ZenonT(60) DEF DeliveredSoFar, Exact
    <3> QED BY <3>1, <3>2
  <2>2. /\ \A k \in DOMAIN cache \ unsure' : ~SaveQueued(k)' => cache[k].checkpoint.rolled = received'[k]
        /\ \A k \in DOMAIN disk \ unsure' : ~SaveQueued(k)' => disk[k].checkpoint.rolled = received'[k]
    BY <1>1, <1>4, <1>5 DEF DeliveredSoFar, Exact
  <2> QED BY <1>1, <2>1, <2>2 DEF Exact
<1> QED BY <1>4, <1>8, <1>9, <1>10 DEF DeliveredSoFar

LEMMA DeliveredRead ==
  ASSUME Shape, Protocol, DeliveredSoFar, NEW c \in Clients, ReadAnswers(c)
  PROVE  DeliveredSoFar'
<1>0. PICK id : id = request[c].id
  OBVIOUS
<1>1. /\ Turn(c, "source") /\ Does(c, "read")
      /\ UNCHANGED <<created, cache, disk, received, unsure>>
  BY ReadAnswered DEF history
<1>2. PICK session \in Objects, frames \in Frames :
        /\ Changed(id, session) /\ Increasing(frames)
        /\ LET before == objects[id].checkpoint
           IN  /\ \A k \in DOMAIN frames : Cursor(before) < frames[k]
               /\ session.checkpoint.rolled = before.rolled \o frames
        /\ \E e \in Saves : /\ Submitted(c, e, frames) /\ e.op = "save"
                            /\ e.session.checkpoint = session.checkpoint
  BY <1>0, ReadAnswered
<1>3. PICK e \in Saves : /\ Submitted(c, e, frames) /\ e.op = "save"
                         /\ e.session.checkpoint = session.checkpoint
  BY <1>2
<1>4. /\ id \in DOMAIN objects /\ id \in Sessions /\ id \in created
      /\ DOMAIN objects' = DOMAIN objects /\ objects'[id] = session
      /\ \A k \in DOMAIN objects : k # id => objects'[k] = objects[k]
      /\ SavesTheSession' /\ SaveQueued(id)'
      /\ \A k : k # id => (SaveQueued(k) <=> SaveQueued(k)')
      /\ \A d \in Clients \ {c} : request'[d] = request[d] /\ ~Reads(d, id)'
      /\ \A d \in Clients \ {c} : Does(d, "read") /\ request[d].id = id => request[d].frames = <<>>
      /\ \A d \in Clients, k \in Sessions : k # id => (Reads(d, k) <=> Reads(d, k)')
      /\ request'[c].id = id /\ request'[c].frames = frames
      /\ \A d \in Clients : ~Reads(d, id)
  BY <1>0, <1>1, <1>2, <1>3, OwnSave
<1> DEFINE cp == objects[id].checkpoint
           new == session.checkpoint
<1>5. /\ cp \in Checkpoints /\ new \in Checkpoints /\ received[id] \in Frames
      /\ received[id] \o <<>> = received[id]
      /\ DOMAIN objects \cup DOMAIN cache \cup DOMAIN disk \subseteq Sessions
  BY <1>4 DEF Shape, IsMap, Objects, Frames
<1>6. Increasing(received[id]) /\ Counts(cp, received[id])
  BY <1>4 DEF DeliveredSoFar, Ahead
<1>7. /\ Increasing(received[id] \o frames) /\ Counts(new, received[id])
      /\ Counts(new, received[id] \o frames)
  BY <1>2, <1>5, <1>6, ReadsOn
<1>8. Ahead'
  BY <1>1, <1>4, <1>7 DEF DeliveredSoFar, Ahead
<1>9. PageFollows'
  <2> SUFFICES ASSUME NEW d \in Clients, Does(d, "read")'
               PROVE  LET k == request'[d].id
                          sent == received'[k] \o request'[d].frames
                      IN  Increasing(sent) /\ Counts(objects'[k].checkpoint, sent)
    BY DEF PageFollows
  <2>1. CASE d = c
    BY <1>1, <1>4, <1>7, <2>1
  <2>2. CASE d # c
    <3>1. request'[d] = request[d] /\ Does(d, "read")
      BY <1>4, <2>2 DEF Does
    <3>2. PICK k : k = request[d].id
      OBVIOUS
    <3>3. k \in DOMAIN objects
      BY <3>1, <3>2 DEF Protocol, Chains, Does, Locked
    <3>4. CASE k # id
      BY <1>1, <1>4, <3>1, <3>2, <3>3, <3>4 DEF DeliveredSoFar, PageFollows
    <3>5. CASE k = id
      <4>1. request'[d].frames = <<>> /\ request'[d].id = id
        BY <1>4, <2>2, <3>1, <3>2, <3>5
      <4>2. received'[id] \o request'[d].frames = received[id]
        BY <1>1, <1>5, <4>1
      <4> QED BY <1>4, <1>6, <1>7, <4>1, <4>2
    <3> QED BY <3>4, <3>5
  <2> QED BY <2>1, <2>2
<1>10. Exact'
  <2>1. ASSUME NEW k \in DOMAIN objects' \ unsure'
        PROVE  /\ (\A d \in Clients : ~Reads(d, k)') => objects'[k].checkpoint.rolled = received'[k]
               /\ \A d \in Clients : Reads(d, k)' =>
                    objects'[k].checkpoint.rolled = received'[k] \o request'[d].frames
    <3>1. CASE k = id
      <4>1. cp.rolled = received[id]
        BY <1>1, <1>4, <2>1, <3>1 DEF DeliveredSoFar, Exact
      <4>2. objects'[id].checkpoint.rolled = received'[id] \o frames
        BY <1>1, <1>2, <1>4, <4>1
      <4>3. Reads(c, id)'
        <5>1. Asks(c, id)' /\ At(c, "saving")' /\ Does(c, "read")'
          BY <1>0, <1>1, <1>3 DEF Submitted, Asks, At, Does
        <5> QED BY <5>1 DEF Reads
      <4> QED BY <1>4, <3>1, <4>2, <4>3
    <3>2. CASE k # id
      <4>1. k \in DOMAIN objects \ unsure /\ k \in Sessions
        BY <1>1, <1>4, <1>5, <2>1
      <4>2. \A d \in Clients : Reads(d, k)' => d # c
        BY <1>4, <3>2 DEF Reads, Asks
      <4> QED BY <1>1, <1>4, <3>2, <4>1, <4>2, ZenonT(60) DEF DeliveredSoFar, Exact
    <3> QED BY <3>1, <3>2
  <2>2. /\ \A k \in DOMAIN cache \ unsure' : ~SaveQueued(k)' => cache[k].checkpoint.rolled = received'[k]
        /\ \A k \in DOMAIN disk \ unsure' : ~SaveQueued(k)' => disk[k].checkpoint.rolled = received'[k]
    BY <1>1, <1>4 DEF DeliveredSoFar, Exact
  <2> QED BY <1>1, <2>1, <2>2 DEF Exact
<1> QED BY <1>4, <1>8, <1>9, <1>10 DEF DeliveredSoFar

LEMMA DeliveredServe ==
  ASSUME Shape, Protocol, DeliveredSoFar, NEW c \in Clients, Serve(c)
  PROVE  DeliveredSoFar'
<1>1. CASE StartMissing(c)
  BY <1>1, StartMissingIs, DeliveredEarly, DeliveredDrop
<1>2. CASE AnswerAtOnce(c) \/ SourceThrows(c)
  BY <1>2, DeliveredEarly
<1>3. CASE StartRead(c) \/ StartSeek(c)
  BY <1>3, DeliveredAsked
<1> QED BY <1>1, <1>2, <1>3, DeliveredPlayback, DeliveredSeek, DeliveredRead DEF Serve

(* The head leaves the queue: the session of no other operation is         *)
(* touched, and only its own reader stops reading.                         *)
LEMMA DeliveredDone ==
  ASSUME Shape, Protocol, DeliveredSoFar, NEW e \in Saves \cup Removals, Done(e),
         UNCHANGED objects
  PROVE  /\ SavesTheSession'
         /\ \A k : k # e.id => (SaveQueued(k) => SaveQueued(k)')
         /\ \A d \in Clients, k \in Sessions : k # e.id => (Reads(d, k) <=> Reads(d, k)')
         /\ \A d \in Clients : Reads(d, e.id)' => d # e.by /\ Reads(d, e.id)
         /\ \A d \in Clients : d # e.by /\ Reads(d, e.id) => Reads(d, e.id)' /\ e.op = "remove"
         /\ \A d \in Clients : Does(d, "read")' =>
              d # e.by /\ request'[d] = request[d] /\ Does(d, "read")
<1>1. /\ e = tail[1] /\ tail # <<>> /\ 1 \in DOMAIN tail /\ tail' = Tail(tail)
      /\ (e.by # Nobody => /\ e.by \in Clients /\ request'[e.by] = NoRequest
                           /\ request[e.by].id = e.id)
      /\ \A d \in Clients : d # e.by => request'[d] = request[d]
  BY DEF Done
<1>2. \A i \in DOMAIN tail' : i + 1 \in DOMAIN tail /\ tail'[i] = tail[i + 1]
  BY <1>1, Shorter DEF Shape
<1>3. SavesTheSession'
  BY <1>2 DEF DeliveredSoFar, SavesTheSession
<1>4. \A k : k # e.id => (SaveQueued(k) => SaveQueued(k)')
  BY StillQueued
<1>5. \A d \in Clients : d = e.by => request'[d] = NoRequest /\ request[d].id = e.id
  BY <1>1, SessionsAssumption
<1>6. \A d \in Clients : Does(d, "read")' =>
        d # e.by /\ request'[d] = request[d] /\ Does(d, "read")
  BY <1>1, <1>5 DEF Does, NoRequest
<1>7. \A d \in Clients, k \in Sessions : k # e.id => (Reads(d, k) <=> Reads(d, k)')
  BY <1>1, <1>5 DEF Reads, Asks, At, Does
<1>8. \A d \in Clients : Reads(d, e.id)' => d # e.by /\ Reads(d, e.id)
  <2>1. PICK id : id = e.id
    OBVIOUS
  <2>2. \A d \in Clients : Reads(d, id)' => d # e.by /\ Reads(d, id)
    BY <1>1, <1>5 DEF Reads, Asks, At, Does
  <2> QED BY <2>1, <2>2
<1>9. ASSUME NEW d \in Clients, d # e.by, Reads(d, e.id)
      PROVE  Reads(d, e.id)' /\ e.op = "remove"
  <2>1. PICK id : id = e.id
    OBVIOUS
  <2>2. Reads(d, id)'
    BY <1>1, <1>9, <2>1 DEF Reads, Asks, At, Does
  <2>3. e.op # "save"
    BY <1>1, <1>9, <2>1, OneSave DEF IsSave
  <2> QED BY <2>1, <2>2, <2>3, Entries
<1> QED BY <1>3, <1>4, <1>6, <1>7, <1>8, <1>9

LEMMA DeliveredRuns ==
  ASSUME Shape, Protocol, DeliveredSoFar, RepositoryRuns
  PROVE  DeliveredSoFar'
<1>0. PICK e \in Saves \cup Removals :
        /\ Done(e) /\ Maps(e, cache')
        /\ disk' = cache' \/ (e.op = "remove" /\ e.id \notin DOMAIN cache /\ disk' = disk)
        /\ IF e.by # Nobody /\ request[e.by].op = "read"
           THEN received' = [received EXCEPT ![e.id] = @ \o request[e.by].frames]
           ELSE received' = received
  BY RepositoryRan
<1>1. UNCHANGED <<created, objects, unsure>>
  BY RepositoryRan
<1>2. PICK id : id = e.id
  OBVIOUS
<1>3. /\ e = tail[1] /\ 1 \in DOMAIN tail /\ e.op \in {"save", "remove"} /\ id \in created
      /\ id \in Sessions
      /\ e.by # Nobody => /\ e.by \in Clients /\ request[e.by] # NoRequest
                          /\ request[e.by].id = id /\ request[e.by].stage = "saving"
  BY <1>0, <1>2, Entries DEF Done
<1>4. /\ DOMAIN objects \cup DOMAIN cache \cup DOMAIN disk \subseteq Sessions
      /\ \A k \in Sessions : received[k] \in Frames /\ received[k] \o <<>> = received[k]
  BY DEF Shape, Frames
<1>5. /\ SavesTheSession'
      /\ \A k : k # id => (SaveQueued(k) => SaveQueued(k)')
      /\ \A d \in Clients, k \in Sessions : k # id => (Reads(d, k) <=> Reads(d, k)')
      /\ \A d \in Clients : Reads(d, id)' => d # e.by /\ Reads(d, id)
      /\ \A d \in Clients : d # e.by /\ Reads(d, id) => Reads(d, id)' /\ e.op = "remove"
      /\ \A d \in Clients : Does(d, "read")' =>
           d # e.by /\ request'[d] = request[d] /\ Does(d, "read")
  BY <1>0, <1>1, <1>2, DeliveredDone
<1>6. \A k \in Sessions : k # id => received'[k] = received[k]
  BY <1>0, <1>2 DEF Shape
(* What is sent now.                                                       *)
<1>7. PICK frames \in Frames :
        /\ received'[id] = received[id] \o frames
        /\ IF e.by # Nobody /\ request[e.by].op = "read"
           THEN Reads(e.by, id) /\ frames = request[e.by].frames ELSE frames = <<>>
  <2>1. CASE e.by # Nobody /\ request[e.by].op = "read"
    <3>1. Reads(e.by, id)
      BY <1>3, <2>1 DEF Reads, Asks, At, Does
    <3>2. request[e.by].frames \in Frames
      BY <1>3, <2>1, RequestKinds DEF Shape, Operations, Locked
    <3>3. received'[id] = received[id] \o request[e.by].frames
      BY <1>0, <1>2, <1>3, <2>1 DEF Shape
    <3> QED BY <2>1, <3>1, <3>2, <3>3
  <2>2. CASE ~(e.by # Nobody /\ request[e.by].op = "read")
    <3>1. received' = received
      BY <1>0, <2>2
    <3>2. <<>> \in Frames
      BY DEF Frames
    <3> QED BY <1>3, <1>4, <2>2, <3>1, <3>2
  <2> QED BY <2>1, <2>2
<1>8. e.op = "remove" => received'[id] = received[id]
  <2>1. e.op = "remove" /\ e.by # Nobody /\ request[e.by].op = "read" => request[e.by].frames = <<>>
    BY <1>3 DEF Protocol, Queued, Locked
  <2> QED BY <1>3, <1>4, <1>7, <2>1
<1>9. /\ Increasing(received'[id])
      /\ id \in DOMAIN objects => Counts(objects[id].checkpoint, received'[id])
  <2>1. CASE e.by # Nobody /\ request[e.by].op = "read"
    BY <1>3, <1>7, <2>1 DEF DeliveredSoFar, PageFollows, Does
  <2>2. CASE ~(e.by # Nobody /\ request[e.by].op = "read")
    BY <1>3, <1>4, <1>7, <2>2 DEF DeliveredSoFar, Ahead
  <2> QED BY <2>1, <2>2
<1>10. IF e.op = "save"
       THEN /\ DOMAIN cache' = DOMAIN cache \cup {id} /\ id \in DOMAIN objects
            /\ cache'[id].checkpoint = objects[id].checkpoint
       ELSE DOMAIN cache' = DOMAIN cache \ {id}
  BY <1>0, <1>2, <1>3 DEF Maps, DeliveredSoFar, SavesTheSession
<1>11. \A k \in DOMAIN cache : k # id => cache'[k] = cache[k]
  BY <1>0, <1>2 DEF Maps
<1>12. Ahead'
  <2>1. \A k \in Sessions : Increasing(received'[k]) /\ (k \notin created' => received'[k] = <<>>)
    BY <1>1, <1>3, <1>6, <1>9 DEF DeliveredSoFar, Ahead
  <2>2. \A k \in DOMAIN objects' : Counts(objects'[k].checkpoint, received'[k])
    BY <1>1, <1>4, <1>6, <1>9 DEF DeliveredSoFar, Ahead
  <2>3. \A k \in DOMAIN cache' : Counts(cache'[k].checkpoint, received'[k])
    BY <1>4, <1>6, <1>9, <1>10, <1>11 DEF DeliveredSoFar, Ahead
  <2>4. \A k \in DOMAIN disk' : Counts(disk'[k].checkpoint, received'[k])
    <3>1. CASE disk' = cache'
      BY <2>3, <3>1
    <3>2. CASE e.op = "remove" /\ disk' = disk
      BY <1>4, <1>6, <1>8, <3>2 DEF DeliveredSoFar, Ahead
    <3> QED BY <1>0, <3>1, <3>2
  <2> QED BY <2>1, <2>2, <2>3, <2>4 DEF Ahead
<1>13. PageFollows'
  <2> SUFFICES ASSUME NEW d \in Clients, Does(d, "read")'
               PROVE  LET k == request'[d].id
                          sent == received'[k] \o request'[d].frames
                      IN  Increasing(sent) /\ Counts(objects'[k].checkpoint, sent)
    BY DEF PageFollows
  <2>1. d # e.by /\ request'[d] = request[d] /\ Does(d, "read")
    BY <1>5
  <2>2. PICK k : k = request[d].id /\ k = request'[d].id
    BY <2>1
  <2>3. k \in DOMAIN objects
    BY <2>1, <2>2 DEF Protocol, Chains, Does, Locked
  <2>4. CASE received'[k] = received[k]
    BY <1>1, <2>1, <2>2, <2>4 DEF DeliveredSoFar, PageFollows
  <2>5. CASE received'[k] # received[k]
    <3>1. k = id /\ e.op = "save"
      BY <1>3, <1>4, <1>6, <1>8, <2>3, <2>5
    <3>2. ~Reads(d, id)
      BY <1>5, <2>1, <3>1
    <3>3. request'[d].frames = <<>>
      BY <2>1, <2>2, <3>1, <3>2 DEF Protocol, Chains, Does, Locked, Reads, Asks, At, NoRequest
    <3>4. received'[id] \o <<>> = received'[id]
      BY <1>3, <1>4, <1>7 DEF Frames
    <3> QED BY <1>1, <1>9, <2>2, <2>3, <3>1, <3>3, <3>4
  <2> QED BY <2>4, <2>5
<1>14. ASSUME NEW k \in DOMAIN objects' \ unsure'
       PROVE  /\ (\A d \in Clients : ~Reads(d, k)') => objects'[k].checkpoint.rolled = received'[k]
              /\ \A d \in Clients : Reads(d, k)' =>
                   objects'[k].checkpoint.rolled = received'[k] \o request'[d].frames
  <2>0. /\ k \in DOMAIN objects \ unsure /\ k \in Sessions
        /\ \A d \in Clients : Reads(d, k)' => request'[d] = request[d]
    BY <1>1, <1>4, <1>5, <1>14 DEF Reads
  <2>1. CASE k # id
    <3>1. \A d \in Clients : Reads(d, k) <=> Reads(d, k)'
      BY <1>5, <2>0, <2>1
    <3>2. /\ (\A d \in Clients : ~Reads(d, k)) => objects[k].checkpoint.rolled = received[k]
          /\ \A d \in Clients : Reads(d, k) =>
               objects[k].checkpoint.rolled = received[k] \o request[d].frames
      BY <2>0 DEF DeliveredSoFar, Exact
    <3>3. received'[k] = received[k] /\ objects'[k] = objects[k]
      BY <1>1, <1>6, <2>0, <2>1
    <3> QED BY <2>0, <3>1, <3>2, <3>3
  <2>2. CASE k = id /\ Reads(e.by, id) /\ e.by \in Clients
    <3>1. objects[id].checkpoint.rolled = received'[id]
      BY <1>7, <2>0, <2>2, SessionsAssumption DEF DeliveredSoFar, Exact, Reads, Does
    <3>2. \A d \in Clients : ~Reads(d, id)'
      <4>1. \A d \in Clients : Reads(d, id)' => d # e.by /\ Reads(d, id)
        BY <1>5
      <4>2. \A d \in Clients : Reads(d, id) => d = e.by
        BY <2>2, OneOwner DEF Reads, Asks, At, Does, Locked
      <4> QED BY <4>1, <4>2
    <3> QED BY <1>1, <2>2, <3>1, <3>2
  <2>3. CASE k = id /\ ~(Reads(e.by, id) /\ e.by \in Clients)
    <3>1. received'[id] = received[id]
      BY <1>3, <1>4, <1>7, <2>3
    <3>2. \A d \in Clients : Reads(d, id) <=> Reads(d, id)'
      BY <1>5, <2>3
    <3> QED BY <1>1, <2>0, <2>3, <3>1, <3>2 DEF DeliveredSoFar, Exact
  <2> QED BY <2>1, <2>2, <2>3
<1>15. \A k \in DOMAIN cache' \ unsure' :
         ~SaveQueued(k)' => cache'[k].checkpoint.rolled = received'[k]
  <2> SUFFICES ASSUME NEW k \in DOMAIN cache' \ unsure', ~SaveQueued(k)'
               PROVE  cache'[k].checkpoint.rolled = received'[k]
    OBVIOUS
  <2>1. CASE k # id
    <3>1. k \in DOMAIN cache \ unsure /\ cache'[k] = cache[k] /\ k \in Sessions /\ ~SaveQueued(k)
      BY <1>1, <1>3, <1>4, <1>5, <1>10, <1>11, <2>1
    <3> QED BY <1>6, <2>1, <3>1 DEF DeliveredSoFar, Exact
  <2>2. CASE k = id
    <3>1. e.op = "save" /\ id \in DOMAIN objects' \ unsure'
      BY <1>1, <1>3, <1>10, <2>2
    <3>2. \A d \in Clients : ~Reads(d, id)'
      BY <1>5, <3>1
    <3> QED BY <1>1, <1>10, <1>14, <2>2, <3>1, <3>2
  <2> QED BY <2>1, <2>2
<1>16. \A k \in DOMAIN disk' \ unsure' :
         ~SaveQueued(k)' => disk'[k].checkpoint.rolled = received'[k]
  <2>1. CASE disk' = cache'
    BY <1>15, <2>1
  <2>2. CASE e.op = "remove" /\ disk' = disk
    <3>1. \A k : SaveQueued(k) => SaveQueued(k)'
      BY <1>0, <1>2, <2>2, StillQueued
    <3>2. \A k \in Sessions : received'[k] = received[k]
      BY <1>6, <1>8, <2>2
    <3> QED BY <1>1, <1>4, <2>2, <3>1, <3>2 DEF DeliveredSoFar, Exact
  <2> QED BY <1>0, <2>1, <2>2
<1>17. Exact'
  BY <1>14, <1>15, <1>16 DEF Exact
<1> QED BY <1>5, <1>12, <1>13, <1>17 DEF DeliveredSoFar

LEMMA DeliveredFails ==
  ASSUME Shape, Protocol, DeliveredSoFar, RepositoryFails
  PROVE  DeliveredSoFar'
<1>0. PICK e \in Saves \cup Removals :
        /\ Done(e) /\ (cache' = cache \/ Maps(e, cache')) /\ unsure' = unsure \cup {e.id}
  BY RepositoryFailed
<1>1. UNCHANGED <<created, objects, disk, received>>
  BY RepositoryFailed
<1>2. PICK id : id = e.id
  OBVIOUS
<1>3. /\ e = tail[1] /\ 1 \in DOMAIN tail /\ e.op \in {"save", "remove"} /\ id \in Sessions
  BY <1>0, <1>2, Entries DEF Done
<1>4. /\ SavesTheSession'
      /\ \A k : k # id => (SaveQueued(k) => SaveQueued(k)')
      /\ \A d \in Clients, k \in Sessions : k # id => (Reads(d, k) <=> Reads(d, k)')
      /\ \A d \in Clients : Does(d, "read")' => request'[d] = request[d] /\ Does(d, "read")
  BY <1>0, <1>1, <1>2, DeliveredDone
<1>5. \/ cache' = cache
      \/ /\ \A k \in DOMAIN cache : k # id => cache'[k] = cache[k]
         /\ IF e.op = "save"
            THEN /\ DOMAIN cache' = DOMAIN cache \cup {id} /\ id \in DOMAIN objects
                 /\ cache'[id].checkpoint = objects[id].checkpoint
            ELSE DOMAIN cache' = DOMAIN cache \ {id}
  BY <1>0, <1>2, <1>3 DEF Maps, DeliveredSoFar, SavesTheSession
<1>6. Ahead'
  <2>1. \A k \in DOMAIN cache' : Counts(cache'[k].checkpoint, received'[k])
    BY <1>1, <1>3, <1>5 DEF DeliveredSoFar, Ahead
  <2> QED BY <1>1, <2>1 DEF DeliveredSoFar, Ahead
<1>7. PageFollows'
  BY <1>1, <1>4 DEF DeliveredSoFar, PageFollows, Does
<1>8. ASSUME NEW k \in DOMAIN objects' \ unsure'
      PROVE  /\ (\A d \in Clients : ~Reads(d, k)') => objects'[k].checkpoint.rolled = received'[k]
             /\ \A d \in Clients : Reads(d, k)' =>
                  objects'[k].checkpoint.rolled = received'[k] \o request'[d].frames
  <2>1. k \in DOMAIN objects \ unsure /\ k \in Sessions /\ k # id
    BY <1>0, <1>1, <1>2, <1>8 DEF Shape
  <2>2. \A d \in Clients : Reads(d, k) <=> Reads(d, k)'
    BY <1>4, <2>1
  <2>3. \A d \in Clients : Reads(d, k)' => request'[d] = request[d]
    BY <1>4 DEF Reads, Does
  <2>4. /\ (\A d \in Clients : ~Reads(d, k)) => objects[k].checkpoint.rolled = received[k]
        /\ \A d \in Clients : Reads(d, k) =>
             objects[k].checkpoint.rolled = received[k] \o request[d].frames
    BY <2>1 DEF DeliveredSoFar, Exact
  <2> QED BY <1>1, <2>2, <2>3, <2>4
<1>9. /\ \A k \in DOMAIN cache' \ unsure' : ~SaveQueued(k)' => cache'[k].checkpoint.rolled = received'[k]
      /\ \A k \in DOMAIN disk' \ unsure' : ~SaveQueued(k)' => disk'[k].checkpoint.rolled = received'[k]
  BY <1>0, <1>1, <1>2, <1>4, <1>5 DEF DeliveredSoFar, Exact
<1>10. Exact'
  BY <1>8, <1>9 DEF Exact
<1> QED BY <1>4, <1>6, <1>7, <1>10 DEF DeliveredSoFar

(* What a crash loses was not answered. *)
LEMMA DeliveredCrash ==
  ASSUME Shape, Protocol, DeliveredSoFar, Crash
  PROVE  DeliveredSoFar'
<1>1. /\ objects' = Empty /\ cache' = Empty /\ tail' = <<>>
      /\ request' = [c \in Clients |-> NoRequest] /\ UNCHANGED <<created, disk, received>>
      /\ unsure' = unsure \cup {request[c].id : c \in
           {d \in Clients : request[d] # NoRequest /\ request[d].stage = "saving"}}
  BY DEF Crash
<1>2. DOMAIN objects' = {} /\ DOMAIN cache' = {}
  BY <1>1 DEF Empty
<1>3. \A c \in Clients : request'[c] = NoRequest
  BY <1>1
<1>4. Ahead'
  BY <1>1, <1>2 DEF DeliveredSoFar, Ahead
<1>5. PageFollows'
  BY <1>3 DEF PageFollows, Does, NoRequest
<1>6. SavesTheSession'
  BY <1>1 DEF SavesTheSession
<1>7. \A k : SaveQueued(k) => k \in unsure'
  <2> SUFFICES ASSUME NEW k, NEW i \in DOMAIN tail, IsSave(i, k) PROVE k \in unsure'
    BY DEF SaveQueued
  <2>1. tail[i].by \in Clients /\ Asks(tail[i].by, k) /\ At(tail[i].by, "saving")
    BY Saving
  <2> QED BY <1>1, <2>1 DEF Asks, At
<1>8. \A k \in DOMAIN disk' \ unsure' : disk'[k].checkpoint.rolled = received'[k]
  BY <1>1, <1>7 DEF DeliveredSoFar, Exact
<1>9. Exact'
  BY <1>2, <1>8 DEF Exact
<1> QED BY <1>4, <1>5, <1>6, <1>9 DEF DeliveredSoFar

(* A restart brings back what the file holds. *)
LEMMA DeliveredRestart ==
  ASSUME Shape, Protocol, DeliveredSoFar, phase # "up",
         UNCHANGED <<created, request, tail, received>>, unsure \subseteq unsure',
         \A k \in DOMAIN objects' :
           \/ k \in DOMAIN objects /\ objects'[k].checkpoint = objects[k].checkpoint
           \/ k \in DOMAIN cache /\ objects'[k].checkpoint = cache[k].checkpoint,
         \A k \in DOMAIN cache' :
           \/ k \in DOMAIN cache /\ cache'[k].checkpoint = cache[k].checkpoint
           \/ k \in DOMAIN disk /\ cache'[k].checkpoint = disk[k].checkpoint,
         disk' \in {disk, cache'}
  PROVE  DeliveredSoFar'
<1>1. tail = <<>> /\ \A c \in Clients : request[c] = NoRequest
  BY DEF Protocol, Phases
<1>2. \A k : ~SaveQueued(k) /\ \A c \in Clients : ~Reads(c, k)
  BY <1>1 DEF SaveQueued, Reads, Asks
<1>3. \A c \in Clients : ~Does(c, "read")' /\ \A k : ~Reads(c, k)'
  BY <1>1 DEF Does, NoRequest, Reads, Asks
<1>4. /\ \A k \in DOMAIN objects : Counts(objects[k].checkpoint, received[k])
      /\ \A k \in DOMAIN cache : Counts(cache[k].checkpoint, received[k])
      /\ \A k \in DOMAIN disk : Counts(disk[k].checkpoint, received[k])
  BY DEF DeliveredSoFar, Ahead
<1>5. /\ \A k \in DOMAIN objects \ unsure : objects[k].checkpoint.rolled = received[k]
      /\ \A k \in DOMAIN cache \ unsure : cache[k].checkpoint.rolled = received[k]
      /\ \A k \in DOMAIN disk \ unsure : disk[k].checkpoint.rolled = received[k]
  BY <1>2 DEF DeliveredSoFar, Exact
<1>6. Ahead'
  <2>1. /\ \A k \in DOMAIN objects' : Counts(objects'[k].checkpoint, received[k])
        /\ \A k \in DOMAIN cache' : Counts(cache'[k].checkpoint, received[k])
    BY <1>4
  <2>2. \A k \in DOMAIN disk' : Counts(disk'[k].checkpoint, received[k])
    BY <1>4, <2>1
  <2> QED BY <2>1, <2>2 DEF DeliveredSoFar, Ahead
<1>7. PageFollows' /\ SavesTheSession'
  BY <1>1, <1>3 DEF PageFollows, SavesTheSession
<1>8. Exact'
  <2>1. /\ \A k \in DOMAIN objects' \ unsure' : objects'[k].checkpoint.rolled = received[k]
        /\ \A k \in DOMAIN cache' \ unsure' : cache'[k].checkpoint.rolled = received[k]
    BY <1>5
  <2>2. \A k \in DOMAIN disk' \ unsure' : disk'[k].checkpoint.rolled = received[k]
    BY <1>5, <2>1
  <2> QED BY <1>3, <2>1, <2>2 DEF Exact
<1> QED BY <1>6, <1>7, <1>8 DEF DeliveredSoFar

LEMMA DeliveredOpens ==
  ASSUME Shape, Protocol, DeliveredSoFar,
         \/ Open
         \/ \E id \in Sessions : Restore(id) \/ RestoreUnsaved(id) \/ Discard(id)
  PROVE  DeliveredSoFar'
<1>1. CASE Open
  <2>1. /\ phase = "down" /\ cache' = disk
        /\ UNCHANGED <<created, objects, request, tail, disk, received, unsure>>
    BY <1>1 DEF Open, history
  <2> QED BY <2>1, DeliveredRestart
<1>2. ASSUME NEW id \in Sessions, Restore(id)
      PROVE  DeliveredSoFar'
  <2>1. PICK session \in Objects : Again(id, session)
    BY <1>2, RestoreBrings
  <2>2. /\ phase = "restoring" /\ id \in DOMAIN cache
        /\ DOMAIN objects' = DOMAIN objects \cup {id}
        /\ objects'[id].checkpoint = cache[id].checkpoint
        /\ \A k \in DOMAIN objects : k # id => objects'[k] = objects[k]
    BY <2>1 DEF Again
  <2>3. /\ DOMAIN cache' = DOMAIN cache /\ cache'[id].checkpoint = cache[id].checkpoint
        /\ \A k \in DOMAIN cache : k # id => cache'[k] = cache[k]
        /\ disk' = cache' /\ UNCHANGED <<created, request, tail, received, unsure>>
    BY <1>2, RestoreBrings DEF history
  <2>4. \A k \in DOMAIN cache' : k \in DOMAIN cache /\ cache'[k].checkpoint = cache[k].checkpoint
    BY <2>3
  <2> QED BY <2>2, <2>3, <2>4, DeliveredRestart
<1>3. ASSUME NEW id \in Sessions, RestoreUnsaved(id)
      PROVE  DeliveredSoFar'
  <2>1. PICK session \in Objects : Again(id, session)
    BY <1>3, RestoreLoses
  <2>2. /\ phase = "restoring" /\ id \in DOMAIN cache
        /\ DOMAIN objects' = DOMAIN objects \cup {id}
        /\ objects'[id].checkpoint = cache[id].checkpoint
        /\ \A k \in DOMAIN objects : k # id => objects'[k] = objects[k]
    BY <2>1 DEF Again
  <2>3. /\ DOMAIN cache' = DOMAIN cache \ {id}
        /\ \A k \in DOMAIN cache : k # id => cache'[k] = cache[k]
        /\ disk' \in {disk, cache'} /\ unsure \subseteq unsure'
        /\ UNCHANGED <<created, request, tail, received>>
    BY <1>3, RestoreLoses
  <2>4. \A k \in DOMAIN cache' : k \in DOMAIN cache /\ cache'[k].checkpoint = cache[k].checkpoint
    BY <2>3
  <2> QED BY <2>2, <2>3, <2>4, DeliveredRestart
<1>4. ASSUME NEW id \in Sessions, Discard(id)
      PROVE  DeliveredSoFar'
  <2>1. /\ phase = "restoring" /\ DOMAIN cache' = DOMAIN cache \ {id}
        /\ \A k \in DOMAIN cache : k # id => cache'[k] = cache[k]
        /\ disk' \in {disk, cache'} /\ UNCHANGED <<created, objects, request, tail, received, unsure>>
    BY <1>4, DiscardForgets DEF history
  <2>2. \A k \in DOMAIN cache' : k \in DOMAIN cache /\ cache'[k].checkpoint = cache[k].checkpoint
    BY <2>1
  <2> QED BY <2>1, <2>2, DeliveredRestart
<1> QED BY <1>1, <1>2, <1>3, <1>4

LEMMA DeliveredStill ==
  ASSUME DeliveredSoFar,
         UNCHANGED <<created, objects, request, tail, cache, disk, received, unsure>>
  PROVE  DeliveredSoFar'
BY DEF DeliveredSoFar, Ahead, PageFollows, SavesTheSession, Exact, Reads, Asks, At, Does,
       SaveQueued, IsSave

LEMMA DeliveredCall ==
  ASSUME Shape, Protocol, DeliveredSoFar, NEW c \in Clients, NEW id \in Sessions, Call(c, id)
  PROVE  DeliveredSoFar'
<1>1. CASE \E op \in Locked, arg \in Nat, preRoll \in BOOLEAN :
              Enqueues(c, id, op, arg, preRoll)
  BY <1>1, DeliveredEnqueue DEF Enqueues
<1> QED BY <1>1, DeliveredDelete, DeliveredCreate, CallIs

LEMMA DeliveredStep ==
  ASSUME Shape, Protocol, DeliveredSoFar, [Next]_vars
  PROVE  DeliveredSoFar'
<1>1. CASE \E c \in Clients, id \in Sessions : Call(c, id)
  BY <1>1, DeliveredCall
<1>2. CASE \E c \in Clients : Serve(c)
  BY <1>2, DeliveredServe
<1>3. CASE RepositoryRuns \/ RepositoryFails
  BY <1>3, DeliveredRuns, DeliveredFails
<1>4. CASE \E id \in Sessions : Cleanup(id)
  BY <1>4, DeliveredCleanup
<1>5. CASE Opened \/ SourceChanges \/ (\E id \in Sessions : Expires(id))
  BY <1>5, WorldTurns, DeliveredStill
<1>6. CASE Open \/ \E id \in Sessions : Restore(id) \/ RestoreUnsaved(id) \/ Discard(id)
  BY <1>6, DeliveredOpens
<1>7. CASE Crash
  BY <1>7, DeliveredCrash
<1>8. CASE UNCHANGED vars
  <2>1. UNCHANGED <<created, objects, request, tail, cache, disk, received, unsure>>
    BY <1>8 DEF vars, memory, history
  <2> QED BY <2>1, DeliveredStill
<1> QED BY <1>1, <1>2, <1>3, <1>4, <1>5, <1>6, <1>7, <1>8 DEF Next, Repository

(* Since the last seek a session's frames reach its clients in capture     *)
(* order and none twice, whatever fails and whenever the process restarts: *)
(* a checkpoint moves over a page before the page is sent, every copy of   *)
(* it is at least as far as what was sent, and while no answer was lost it *)
(* is exactly as far.                                                      *)
THEOREM DeliveredOnce == Spec => []ReceivedOnce
<1>1. Init => DeliveredSoFar
  <2>1. ASSUME Init
        PROVE  DeliveredSoFar
    <3>1. /\ objects = Empty /\ cache = Empty /\ disk = Empty /\ tail = <<>>
          /\ request = [c \in Clients |-> NoRequest] /\ received = [id \in Sessions |-> <<>>]
      BY <2>1 DEF Init
    <3>2. DOMAIN Empty = {} /\ NoRequest.op # "read" /\ Increasing(<<>>)
      BY DEF Empty, NoRequest, Increasing
    <3>3. Ahead /\ SavesTheSession /\ Exact
      BY <3>1, <3>2 DEF Ahead, SavesTheSession, Exact
    <3>4. PageFollows
      BY <3>1, <3>2 DEF PageFollows, Does
    <3> QED BY <3>3, <3>4 DEF DeliveredSoFar
  <2> QED BY <2>1
<1>2. Init => Shape /\ Protocol /\ FinalSoFar
  BY Beginning
<1>3. Shape /\ Protocol /\ FinalSoFar /\ [Next]_vars => Shape' /\ Protocol' /\ FinalSoFar'
  BY StepKeeps
<1>4. Shape /\ Protocol /\ DeliveredSoFar /\ [Next]_vars => DeliveredSoFar'
  BY DeliveredStep
<1>5. Shape /\ DeliveredSoFar => ReceivedOnce
  <2> SUFFICES ASSUME Shape, DeliveredSoFar, NEW id \in Sessions
               PROVE  /\ \A i, j \in DOMAIN received[id] :
                           i < j => received[id][i] < received[id][j]
                      /\ id \in present \ unsure
                           /\ (\A c \in Clients : request[c] # NoRequest =>
                                 request[c].stage # "saving" \/ request[c].id # id)
                           => received[id] = objects[id].checkpoint.rolled
    BY DEF ReceivedOnce
  <2>1. Increasing(received[id])
    BY DEF DeliveredSoFar, Ahead
  <2>2. ASSUME id \in present \ unsure,
               \A c \in Clients : request[c] # NoRequest =>
                 request[c].stage # "saving" \/ request[c].id # id
        PROVE  received[id] = objects[id].checkpoint.rolled
    <3>1. id \in DOMAIN objects \ unsure /\ \A c \in Clients : ~Reads(c, id)
      BY <2>2 DEF Shape, Reads, Asks, At
    <3> QED BY <3>1 DEF DeliveredSoFar, Exact
  <2> QED BY <2>1, <2>2 DEF Increasing
<1> QED BY <1>1, <1>2, <1>3, <1>4, <1>5, PTL DEF Spec
=============================================================================
