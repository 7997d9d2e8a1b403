------------------------ MODULE HistoryRuntimeProofs ------------------------
(***************************************************************************)
(* BatchedWriter implements DurableQueue, and a flush() that returns has   *)
(* stored what came before it, for every limit, record set and number of   *)
(* callers.  Both follow from one inductive invariant: the stored records, *)
(* the batch in flight and the queue are, in this order, what was          *)
(* accepted, and whatever is pending has a timer or a drain behind it.     *)
(* The writer's count of bytes is the sum over its queue, within limits.   *)
(* HistoryRuntime takes only the writer's steps, so that all of it is true *)
(* of the runtime; how far its close() has come, with what the chain holds *)
(* and the writer's state, gives the rest.                                 *)
(***************************************************************************)
EXTENDS HistoryRuntime, SequenceTheorems, FiniteSetTheorems, WellFoundedInduction, TLAPS

(* Stored, in flight and queued records together are the accepted ones. *)
InOrder == (persisted \o batch) \o queue = accepted

(* One drain at a time, and it alone holds a batch. *)
OneDrain ==
  /\ drain = "appending" <=> batch # <<>>
  /\ timer => drain = "none" /\ ~failure
  /\ failure => drain = "none"

(* What is pending is on its way; close() and flush() wait for a drain. *)
PendingIsServed ==
  /\ drain = "none" /\ ~failure /\ queue # <<>> => timer
  /\ state = "closing" => drain # "none"
  /\ state = "closed" /\ ~failure => queue = <<>> /\ batch = <<>>
  /\ drain = "none" => flushing = {}
  /\ \A c \in flushing : mark[c] <= Len(accepted)

Inv == Shape /\ Bounded /\ InOrder /\ OneDrain /\ PendingIsServed

(* runDrain() cuts a batch off the queue: nothing is lost or reordered. *)
LEMMA Cut ==
  ASSUME NEW S, NEW q \in Seq(S), NEW n \in 1 .. Len(q)
  PROVE  /\ SubSeq(q, 1, n) \in Seq(S) /\ Len(SubSeq(q, 1, n)) = n
         /\ SubSeq(q, n + 1, Len(q)) \in Seq(S)
         /\ Len(SubSeq(q, n + 1, Len(q))) = Len(q) - n
         /\ SubSeq(q, 1, n) \o SubSeq(q, n + 1, Len(q)) = q
<1>0. Len(q) \in Nat /\ n \in Nat /\ n <= Len(q)
  BY LenProperties
<1>1. \A i \in 1 .. Len(q) : q[i] \in S
  BY ElementOfSeq
<1>2. SubSeq(q, 1, n) \in Seq(S) /\ Len(SubSeq(q, 1, n)) = n
  BY <1>0, <1>1, SubSeqProperties
<1>3. /\ SubSeq(q, n + 1, Len(q)) \in Seq(S)
      /\ Len(SubSeq(q, n + 1, Len(q))) = Len(q) - n
  BY <1>0, <1>1, SubSeqProperties
<1>4. SubSeq(q, 1, n) \o SubSeq(q, n + 1, Len(q)) = SubSeq(q, 1, Len(q))
  BY <1>0, ConcatAdjacentSubSeq
<1>5. SubSeq(q, 1, Len(q)) = q
  BY SubSeqFull
<1> QED BY <1>2, <1>3, <1>4, <1>5

(* A sequence in three parts: the first two are a prefix of the whole. *)
LEMMA PrefixOfParts ==
  ASSUME NEW S, NEW p \in Seq(S), NEW b \in Seq(S), NEW q \in Seq(S)
  PROVE  /\ p \o b = SubSeq((p \o b) \o q, 1, Len(p) + Len(b))
         /\ Len((p \o b) \o q) = Len(p) + Len(b) + Len(q)
<1> DEFINE pb == p \o b
           all == pb \o q
<1>1. pb \in Seq(S) /\ Len(pb) = Len(p) + Len(b)
  BY ConcatProperties
<1>2. /\ all \in Seq(S) /\ Len(all) = Len(pb) + Len(q)
      /\ \A i \in 1 .. Len(pb) + Len(q) :
           all[i] = IF i <= Len(pb) THEN pb[i] ELSE q[i - Len(pb)]
  BY <1>1, ConcatProperties
<1>3. Len(p) \in Nat /\ Len(b) \in Nat /\ Len(q) \in Nat
  BY LenProperties
<1> HIDE DEF pb, all
<1> DEFINE cut == SubSeq(all, 1, Len(pb))
<1>4. /\ cut \in Seq(S) /\ Len(cut) = Len(pb)
      /\ \A i \in 1 .. Len(pb) : cut[i] = all[i]
  <2>1. \A i \in 1 .. Len(pb) : all[i] \in S
    BY <1>1, <1>2, <1>3, ElementOfSeq
  <2> QED BY <2>1, <1>1, <1>3, SubSeqProperties
<1>5. \A i \in 1 .. Len(pb) : cut[i] = pb[i]
  BY <1>1, <1>2, <1>3, <1>4
<1> HIDE DEF cut
<1>6. cut = pb
  BY <1>1, <1>4, <1>5, SeqEqual
<1> QED BY <1>1, <1>2, <1>6 DEF pb, all, cut

-----------------------------------------------------------------------------
(* The end of a drain with nothing left, and the start of its next batch,  *)
(* from a state whose stored part is p, with b just stored.                *)
LEMMA ContinueKeepsInv ==
  ASSUME Shape, Bounded, OneDrain, PendingIsServed, Continue, drain # "none",
         UNCHANGED <<failure, accepted, mark>>,
         persisted' \in Seq(Records), persisted' \o queue = accepted
  PROVE  Inv'
<1>0. ~failure /\ ~timer
  BY DEF OneDrain
<1>1. CASE queue = <<>> /\ UNCHANGED <<queue, pendingBytes>> /\ Settle
  <2>1. persisted' = accepted
    BY <1>1, ConcatEmptySeq
  <2>2. Shape' /\ Bounded'
    <3>1. batch' = <<>> /\ Len(batch') = 0 /\ UNCHANGED <<queue, failure>>
      BY <1>1, EmptySeq DEF Settle
    <3>2. Bounded'
      BY <3>1, WriterAssumption DEF Bounded
    <3> QED BY <3>1, <3>2, <1>1, <1>0, EmptySeq DEF Shape, Settle
  <2>3. InOrder'
    <3>1. persisted' \o <<>> = persisted' /\ accepted \in Seq(Records)
      BY ConcatEmptySeq DEF Shape
    <3>2. batch' = <<>> /\ queue' = <<>> /\ accepted' = accepted
      BY <1>1 DEF Settle
    <3> QED BY <2>1, <3>1, <3>2 DEF InOrder
  <2>4. OneDrain'
    BY <1>1, <1>0 DEF OneDrain, Settle
  <2>5. PendingIsServed'
    BY <1>1, <1>0 DEF PendingIsServed, Settle, Shape
  <2> QED BY <2>2, <2>3, <2>4, <2>5 DEF Inv
<1>2. ASSUME NEW n \in 1 .. Len(queue), Take(n) PROVE Inv'
  <2> DEFINE front == SubSeq(queue, 1, n)
             rest == SubSeq(queue, n + 1, Len(queue))
  <2>0. queue \in Seq(Records) /\ Len(queue) \in Nat /\ n \in Nat /\ n >= 1 /\ n <= BatchRecords
    BY <1>2, LenProperties DEF Shape, Take, IsBatch
  <2>1. /\ front \in Seq(Records) /\ Len(front) = n
        /\ rest \in Seq(Records) /\ Len(rest) = Len(queue) - n
        /\ front \o rest = queue
    BY <2>0, Cut
  <2>2. batch' = front /\ queue' = rest /\ drain' = "appending"
        /\ UNCHANGED <<state, timer, flushing>>
    BY <1>2 DEF Take
  <2> HIDE DEF front, rest
  <2>3. front # <<>> /\ queue # <<>>
    BY <2>0, <2>1, EmptySeq
  <2>4. Shape' /\ Bounded'
    <3>1. Bounded'
      BY <2>0, <2>1, <2>2, WriterAssumption DEF Bounded
    <3> QED BY <3>1, <2>1, <2>2 DEF Shape
  <2>5. InOrder'
    <3>0. front \in Seq(Records) /\ rest \in Seq(Records)
      BY <2>1
    <3>1. (persisted' \o front) \o rest = persisted' \o (front \o rest)
      BY <3>0, ConcatAssociative
    <3> QED BY <3>1, <2>1, <2>2 DEF InOrder
  <2>6. OneDrain'
    BY <2>2, <2>3, <1>0 DEF OneDrain
  <2>7. PendingIsServed'
    BY <2>2, <2>3, <1>0 DEF PendingIsServed
  <2> QED BY <2>4, <2>5, <2>6, <2>7 DEF Inv
<1> QED BY <1>1, <1>2 DEF Continue

LEMMA InitInv == Init => Inv
<1> SUFFICES ASSUME Init PROVE Inv
  OBVIOUS
<1>1. <<>> \in Seq(Records) /\ Len(<<>>) = 0
  BY EmptySeq
<1>2. (<<>> \o <<>>) \o <<>> = <<>>
  BY <1>1, ConcatEmptySeq
<1>3. Bounded
  BY <1>1, WriterAssumption DEF Init, Bounded
<1>4. Shape
  BY <1>1 DEF Init, Shape
<1> QED BY <1>2, <1>3, <1>4 DEF Init, Inv, InOrder, OneDrain, PendingIsServed

(* Every action keeps Inv. *)
LEMMA StepInv == Inv /\ [Next]_vars => Inv'
<1> SUFFICES ASSUME Inv, [Next]_vars PROVE Inv'
  OBVIOUS
<1> USE DEF Inv
<1>0. /\ queue \in Seq(Records) /\ batch \in Seq(Records)
      /\ persisted \in Seq(Records) /\ accepted \in Seq(Records)
      /\ Len(queue) \in Nat /\ Len(batch) \in Nat /\ Len(accepted) \in Nat
  BY LenProperties DEF Shape
<1>1. ASSUME NEW r \in Records, Enqueue(r) PROVE Inv'
  <2>1. /\ queue' \in Seq(Records) /\ Len(queue') = Len(queue) + 1 /\ queue' # <<>>
        /\ accepted' \in Seq(Records) /\ Len(accepted') = Len(accepted) + 1
    BY <1>0, <1>1, AppendProperties DEF Enqueue
  <2>2. Shape' /\ Bounded'
    <3>1. Bounded'
      BY <2>1, <1>0, <1>1, WriterAssumption DEF Bounded, Enqueue, HasRoom
    <3>2. timer' \in BOOLEAN
      BY <1>1 DEF Enqueue, Immediate, Timed
    <3>3. drain' \in {"none", "opening", "appending"}
      BY <1>1 DEF Enqueue, Immediate, Timed, Joined, Shape
    <3> QED BY <3>1, <3>2, <3>3, <2>1, <1>1 DEF Shape, Enqueue
  <2>3. InOrder'
    <3>1. queue' = queue \o <<r>> /\ accepted' = accepted \o <<r>>
      BY <1>0, <1>1, AppendIsConcat DEF Enqueue
    <3>2. persisted \o batch \in Seq(Records) /\ <<r>> \in Seq(Records)
      BY <1>0, ConcatProperties
    <3>3. (persisted \o batch) \o (queue \o <<r>>) = ((persisted \o batch) \o queue) \o <<r>>
      BY <3>2, <1>0, ConcatAssociative
    <3> QED BY <3>1, <3>3, <1>1 DEF InOrder, Enqueue
  <2>4. OneDrain'
    BY <1>1 DEF OneDrain, Enqueue, Immediate, Timed, Joined, Shape
  <2>5. PendingIsServed'
    <3>1. drain' = "none" => timer'
      BY <1>1 DEF Enqueue, Immediate, Timed, Joined
    <3>2. drain' = "none" => drain = "none"
      BY <1>1 DEF Enqueue, Immediate, Timed, Joined, Shape
    <3>3. state' = "open" /\ flushing' = flushing /\ mark' = mark
      BY <1>1 DEF Enqueue
    <3>4. \A c \in flushing : mark[c] <= Len(accepted')
      <4>1. \A c \in flushing : mark[c] \in Nat /\ mark[c] <= Len(accepted)
        BY DEF Shape, PendingIsServed
      <4> QED BY <4>1, <2>1, <1>0
    <3> QED BY <3>1, <3>2, <3>3, <3>4 DEF PendingIsServed
  <2> QED BY <2>2, <2>3, <2>4, <2>5
<1>2. CASE TimerFires
  BY <1>2 DEF TimerFires, Joined, Shape, Bounded, InOrder, OneDrain, PendingIsServed
<1>3. ASSUME NEW c \in Callers, Flush(c) PROVE Inv'
  <2>1. Shape' /\ Bounded'
    <3>1. mark' \in [Callers -> Nat] /\ flushing' \subseteq Callers
      BY <1>0, <1>3 DEF Flush, Shape
    <3>2. drain' \in {"none", "opening", "appending"}
      BY <1>3 DEF Flush, Joined, Shape
    <3> QED BY <3>1, <3>2, <1>3 DEF Flush, Shape, Bounded
  <2>2. InOrder'
    BY <1>3 DEF Flush, InOrder
  <2>3. OneDrain' /\ drain' # "none"
    BY <1>3 DEF Flush, Joined, OneDrain
  <2>4. \A d \in flushing' : mark'[d] <= Len(accepted')
    BY <1>0, <1>3 DEF Flush, Shape, PendingIsServed
  <2>5. /\ UNCHANGED <<state, failure, queue, batch>>
    BY <1>3 DEF Flush
  <2> QED BY <2>1, <2>2, <2>3, <2>4, <2>5 DEF PendingIsServed
<1>4. CASE Close
  BY <1>4 DEF Close, Joined, Shape, Bounded, InOrder, OneDrain, PendingIsServed
<1>5. CASE StoreOpens
  <2>1. drain = "opening" /\ Continue /\ UNCHANGED <<failure, accepted, persisted, mark>>
    BY <1>5 DEF StoreOpens
  <2>2. batch = <<>>
    BY <2>1 DEF OneDrain
  <2>3. persisted' \o queue = accepted
    BY <2>1, <2>2, <1>0, ConcatEmptySeq DEF InOrder
  <2> QED BY <1>0, <2>1, <2>3, ContinueKeepsInv
<1>6. CASE AppendSucceeds
  <2>1. drain = "appending" /\ Continue /\ UNCHANGED <<failure, accepted, mark>>
        /\ persisted' = persisted \o batch
    BY <1>6 DEF AppendSucceeds
  <2>2. persisted' \in Seq(Records) /\ persisted' \o queue = accepted
    BY <2>1, <1>0, ConcatProperties DEF InOrder
  <2> QED BY <2>1, <2>2, ContinueKeepsInv
<1>7. CASE OpenFails
  <2>1. batch = <<>> /\ ~failure /\ ~timer /\ drain = "opening"
    BY <1>7 DEF OpenFails, OneDrain
  <2>2. /\ drain' = "none" /\ batch' = <<>> /\ flushing' = {} /\ failure' = TRUE
        /\ UNCHANGED <<queue, pendingBytes, accepted, persisted, mark>>
        /\ state' = IF state = "closing" THEN "closed" ELSE state
        /\ timer' = FALSE
    BY <1>7, <2>1 DEF OpenFails, Settle
  <2>3. Shape' /\ Bounded'
    <3>1. Bounded'
      BY <2>1, <2>2, <1>0, WriterAssumption DEF Bounded
    <3>2. batch' \in Seq(Records)
      BY <2>2, EmptySeq
    <3> QED BY <3>1, <3>2, <2>2 DEF Shape
  <2> QED BY <2>1, <2>2, <2>3 DEF InOrder, OneDrain, PendingIsServed, Shape
<1>8. CASE AppendFails
  <2>1. batch # <<>> /\ ~failure /\ ~timer /\ drain = "appending"
    BY <1>8 DEF AppendFails, OneDrain
  <2>2. /\ drain' = "none" /\ batch' = <<>> /\ flushing' = {} /\ failure' = TRUE
        /\ queue' = batch \o queue
        /\ UNCHANGED <<accepted, persisted, mark>>
        /\ state' = IF state = "closing" THEN "closed" ELSE state
        /\ timer' = FALSE
    BY <1>8, <2>1 DEF AppendFails, Settle
  <2>3. queue' \in Seq(Records) /\ Len(queue') = Len(batch) + Len(queue)
    BY <2>2, <1>0, ConcatProperties
  <2>4. Shape' /\ Bounded'
    <3>1. batch' = <<>> /\ batch' \in Seq(Records) /\ Len(batch') = 0
      BY <2>2, EmptySeq
    <3>2. Bounded'
      BY <3>1, <2>1, <2>2, <2>3, <1>0, WriterAssumption DEF Bounded
    <3> QED BY <3>1, <3>2, <2>2, <2>3 DEF Shape
  <2>5. InOrder'
    <3>1. persisted \o (batch \o queue) = (persisted \o batch) \o queue
      BY <1>0, ConcatAssociative
    <3>2. persisted \o <<>> = persisted
      BY <1>0, ConcatEmptySeq
    <3> QED BY <3>1, <3>2, <2>2 DEF InOrder
  <2> QED BY <2>1, <2>2, <2>4, <2>5 DEF OneDrain, PendingIsServed, Shape
<1>9. CASE UNCHANGED vars
  BY <1>9 DEF vars, Shape, Bounded, InOrder, OneDrain, PendingIsServed
<1> QED BY <1>1, <1>2, <1>3, <1>4, <1>5, <1>6, <1>7, <1>8, <1>9 DEF Next, StoreAnswers

(* In every state: bounded, in order, one drain, nothing unattended.       *)
THEOREM WriterInvariant == Spec => []Inv
<1> QED BY InitInv, StepInv, PTL DEF Spec

-----------------------------------------------------------------------------
(* Induction over an interval, with the set of the numbers that a property *)
(* holds of in place of the property.                                      *)
LEMMA IntervalInduction ==
  ASSUME NEW n \in Nat, NEW T, 0 \in T, \A k \in 1 .. n : k - 1 \in T => k \in T
  PROVE  0 .. n \subseteq T
<1> DEFINE Left == (0 .. n) \ T
           Below(m) == {k \in 0 .. n : k < m}
           F == {Below(m) : m \in Left}
           R == StrictSubsetOrdering(Int)
<1> SUFFICES ASSUME Left # {} PROVE FALSE
  OBVIOUS
<1>1. F \subseteq FiniteSubsetsOf(Int) /\ F # {}
  <2>1. ASSUME NEW m \in Left PROVE IsFiniteSet(Below(m)) /\ Below(m) \in SUBSET Int
    <3>1. IsFiniteSet(0 .. n) /\ Below(m) \in SUBSET (0 .. n)
      BY FS_Interval
    <3> QED BY <3>1, FS_Subset
  <2> QED BY <2>1 DEF FiniteSubsetsOf
<1>2. IsWellFoundedOn(R, FiniteSubsetsOf(Int))
  BY FS_StrictSubsetOrderingWellFounded
<1>3. PICK x \in F : \A y \in F : <<y, x>> \notin R
  <2> HIDE DEF F, R
  <2> QED BY <1>1, <1>2, WFMin
<1>4. PICK m \in Left : x = Below(m)
  OBVIOUS
<1>5. m \in 1 .. n /\ m - 1 \in Left
  OBVIOUS
<1>6. Below(m - 1) \in F /\ m - 1 \in Below(m) /\ m - 1 \notin Below(m - 1)
  BY <1>5
<1>7. Below(m - 1) \subseteq Below(m) /\ <<Below(m - 1), Below(m)>> \in (SUBSET Int) \X (SUBSET Int)
  BY <1>5
<1>8. <<Below(m - 1), Below(m)>> \in R
  BY <1>6, <1>7 DEF StrictSubsetOrdering
<1> QED BY <1>3, <1>4, <1>6, <1>8


-----------------------------------------------------------------------------
(* The bytes of a queue.  Bytes() is a recursive function of the number of *)
(* records it counts: there is one, and it adds up along the queue.        *)

Adds(f, q) ==
  f = [i \in 0 .. Len(q) |-> IF i = 0 THEN 0 ELSE f[i - 1] + Size[q[i]]]

LEMMA SizeOf ==
  ASSUME NEW q \in Seq(Records), NEW i \in 1 .. Len(q)
  PROVE  Size[q[i]] \in Nat \ {0}
BY WriterAssumption

LEMMA SumExists == ASSUME NEW q \in Seq(Records) PROVE \E f : Adds(f, q)
<1> DEFINE Upto(f, k) == f = [i \in 0 .. k |-> IF i = 0 THEN 0 ELSE f[i - 1] + Size[q[i]]]
           T == {k \in 0 .. Len(q) : \E f : Upto(f, k)}
<1>0. Len(q) \in Nat
  BY LenProperties
<1>1. 0 \in T
  <2>1. Upto([i \in 0 .. 0 |-> 0], 0)
    OBVIOUS
  <2>2. \E f : Upto(f, 0)
    <3> HIDE DEF Upto
    <3> QED BY <2>1
  <2> QED BY <1>0, <2>2
<1>2. ASSUME NEW k \in 1 .. Len(q), k - 1 \in T PROVE k \in T
  <2>1. PICK f : Upto(f, k - 1)
    BY <1>2
  <2> DEFINE g == [i \in 0 .. k |-> IF i = k THEN f[k - 1] + Size[q[k]] ELSE f[i]]
  <2>2. Upto(g, k)
    <3> SUFFICES ASSUME NEW i \in 0 .. k
                 PROVE  g[i] = IF i = 0 THEN 0 ELSE g[i - 1] + Size[q[i]]
      OBVIOUS
    <3>1. CASE i = k
      <4>1. g[i] = f[k - 1] + Size[q[k]] /\ i # 0
        BY <3>1
      <4>2. g[k - 1] = f[k - 1]
        OBVIOUS
      <4> QED BY <3>1, <4>1, <4>2
    <3>2. CASE i # k
      <4>1. i \in 0 .. (k - 1) /\ g[i] = f[i]
        BY <3>2
      <4>2. f[i] = IF i = 0 THEN 0 ELSE f[i - 1] + Size[q[i]]
        BY <2>1, <4>1
      <4>3. i # 0 => g[i - 1] = f[i - 1]
        BY <4>1
      <4> HIDE DEF g
      <4> QED BY <4>1, <4>2, <4>3
    <3> QED BY <3>1, <3>2
  <2>3. \E h : Upto(h, k)
    <3> HIDE DEF Upto, g
    <3> QED BY <2>2
  <2> QED BY <1>0, <2>3
<1>3. Len(q) \in T
  <2> HIDE DEF T
  <2> QED BY <1>0, <1>1, <1>2, IntervalInduction
<1> QED BY <1>3 DEF Adds

(* What Bytes() is, record by record. *)
LEMMA BytesStep ==
  ASSUME NEW q \in Seq(Records)
  PROVE  /\ Bytes(q, 0) = 0
         /\ \A i \in 1 .. Len(q) : Bytes(q, i) = Bytes(q, i - 1) + Size[q[i]]
<1> DEFINE f == CHOOSE g : Adds(g, q)
<1>1. Adds(f, q)
  BY SumExists
<1>2. \A n : Bytes(q, n) = f[n]
  BY Zenon DEF Bytes, Adds
<1>3. Len(q) \in Nat
  BY LenProperties
<1> HIDE DEF f
<1>4. f[0] = 0 /\ \A i \in 1 .. Len(q) : f[i] = f[i - 1] + Size[q[i]]
  BY <1>1, <1>3 DEF Adds
<1> QED BY <1>2, <1>4

LEMMA BytesCount ==
  ASSUME NEW q \in Seq(Records)
  PROVE  \A n \in 0 .. Len(q) : Bytes(q, n) \in Nat
<1> DEFINE T == {k \in 0 .. Len(q) : Bytes(q, k) \in Nat}
<1>0. Len(q) \in Nat
  BY LenProperties
<1>1. 0 \in T
  BY <1>0, BytesStep
<1>2. ASSUME NEW k \in 1 .. Len(q), k - 1 \in T PROVE k \in T
  BY <1>2, BytesStep, SizeOf
<1> HIDE DEF T
<1>3. 0 .. Len(q) \subseteq T
  BY <1>0, <1>1, <1>2, IntervalInduction
<1> QED BY <1>3 DEF T

LEMMA FirstBytes ==
  ASSUME NEW q \in Seq(Records), 1 \in 1 .. Len(q)
  PROVE  Bytes(q, 1) = Size[q[1]]
<1>1. \A i \in 1 .. Len(q) : Bytes(q, i) = Bytes(q, i - 1) + Size[q[i]]
  BY BytesStep
<1>2. \A i \in 1 .. Len(q) : i = 1 => i - 1 = 0
  OBVIOUS
<1>3. Bytes(q, 1) = Bytes(q, 0) + Size[q[1]]
  BY <1>1, <1>2
<1> QED BY <1>3, BytesStep, SizeOf

(* The bytes of two sequences, one behind the other. *)
LEMMA BytesOfBoth ==
  ASSUME NEW a \in Seq(Records), NEW b \in Seq(Records)
  PROVE  /\ Bytes(a \o b, Len(a)) = Bytes(a, Len(a))
         /\ Bytes(a \o b, Len(a) + Len(b)) = Bytes(a, Len(a)) + Bytes(b, Len(b))
<1> DEFINE c == a \o b
           S == {k \in 0 .. Len(a) : Bytes(c, k) = Bytes(a, k)}
           T == {k \in 0 .. Len(b) : Bytes(c, Len(a) + k) = Bytes(a, Len(a)) + Bytes(b, k)}
<1>0. Len(a) \in Nat /\ Len(b) \in Nat
  BY LenProperties
<1>1. /\ c \in Seq(Records) /\ Len(c) = Len(a) + Len(b)
      /\ \A i \in 1 .. Len(a) + Len(b) : c[i] = IF i <= Len(a) THEN a[i] ELSE b[i - Len(a)]
  BY ConcatProperties
<1> HIDE DEF c
<1>2. 0 \in S
  BY <1>0, <1>1, BytesStep
<1>3. ASSUME NEW k \in 1 .. Len(a), k - 1 \in S PROVE k \in S
  <2>1. k \in 1 .. Len(c) /\ c[k] = a[k]
    BY <1>0, <1>1
  <2>2. Bytes(c, k) = Bytes(c, k - 1) + Size[c[k]] /\ Bytes(a, k) = Bytes(a, k - 1) + Size[a[k]]
    BY <1>1, <2>1, BytesStep
  <2> QED BY <1>3, <2>1, <2>2
<1>4. 0 .. Len(a) \subseteq S
  <2> HIDE DEF S
  <2> QED BY <1>0, <1>2, <1>3, IntervalInduction
<1>5. Bytes(c, Len(a)) = Bytes(a, Len(a))
  BY <1>0, <1>4
<1>6. Bytes(a, Len(a)) \in Nat /\ \A k \in 0 .. Len(b) : Bytes(b, k) \in Nat
  BY <1>0, BytesCount
<1>7. 0 \in T
  BY <1>0, <1>5, <1>6, BytesStep
<1>8. ASSUME NEW k \in 1 .. Len(b), k - 1 \in T PROVE k \in T
  <2>1. /\ Len(a) + k \in 1 .. Len(c) /\ c[Len(a) + k] = b[k]
        /\ Len(a) + (k - 1) = (Len(a) + k) - 1
    <3>1. Len(a) + k \in 1 .. Len(a) + Len(b) /\ ~(Len(a) + k <= Len(a))
          /\ (Len(a) + k) - Len(a) = k
      BY <1>0
    <3> QED BY <1>0, <1>1, <3>1
  <2>2. /\ Bytes(c, Len(a) + k) = Bytes(c, (Len(a) + k) - 1) + Size[c[Len(a) + k]]
        /\ Bytes(b, k) = Bytes(b, k - 1) + Size[b[k]]
    BY <1>1, <2>1, BytesStep
  <2>3. Bytes(c, Len(a) + (k - 1)) = Bytes(a, Len(a)) + Bytes(b, k - 1)
    BY <1>8
  <2>4. Size[b[k]] \in Nat /\ Bytes(b, k - 1) \in Nat
    BY <1>0, <1>6, SizeOf
  <2>5. Bytes(c, Len(a) + k) = (Bytes(a, Len(a)) + Bytes(b, k - 1)) + Size[b[k]]
    BY <2>1, <2>2, <2>3
  <2>6. Bytes(c, Len(a) + k) = Bytes(a, Len(a)) + Bytes(b, k)
    BY <1>6, <2>2, <2>4, <2>5
  <2> QED BY <2>6
<1>9. Len(b) \in T
  <2> HIDE DEF T
  <2>1. 0 .. Len(b) \subseteq T
    BY <1>0, <1>7, <1>8, IntervalInduction
  <2> QED BY <1>0, <2>1
<1> QED BY <1>5, <1>9 DEF c

(* The counter is the true sum, a batch is within its limit, as every      *)
(* record is that enqueue() took, and only a failed batch that was given   *)
(* back exceeds the limit of the queue.                                    *)
Counted ==
  /\ pendingBytes = Bytes(queue, Len(queue))
  /\ Bytes(batch, Len(batch)) <= BatchBytes
  /\ pendingBytes <= IF failure THEN QueueBytes + BatchBytes ELSE QueueBytes
  /\ ~failure => \A i \in 1 .. Len(queue) : Size[queue[i]] <= BatchBytes

LEMMA Limits ==
  BatchBytes \in Nat \ {0} /\ QueueBytes \in Nat \ {0} /\ BatchBytes <= QueueBytes
BY WriterAssumption

LEMMA NoBytes == <<>> \in Seq(Records) /\ Len(<<>>) = 0 /\ Bytes(<<>>, Len(<<>>)) = 0
<1>1. <<>> \in Seq(Records) /\ Len(<<>>) = 0
  BY EmptySeq
<1> QED BY <1>1, BytesStep

LEMMA SettleCounts ==
  ASSUME Counted, UNCHANGED <<queue, pendingBytes>>, Settle, failure => failure',
         pendingBytes \in Nat
  PROVE  Counted'
<1>1. batch' = <<>> /\ Bytes(batch', Len(batch')) = 0
  BY NoBytes DEF Settle
<1>2. queue' = queue /\ pendingBytes' = pendingBytes /\ (~failure' => ~failure)
  OBVIOUS
<1>3. Bytes(batch', Len(batch')) <= BatchBytes
  BY <1>1, Limits
<1>4. pendingBytes' <= IF failure' THEN QueueBytes + BatchBytes ELSE QueueBytes
  BY <1>2, Limits DEF Counted
<1>5. pendingBytes' = Bytes(queue', Len(queue'))
  BY <1>2 DEF Counted
<1>6. ~failure' => \A i \in 1 .. Len(queue') : Size[queue'[i]] <= BatchBytes
  BY <1>2 DEF Counted
<1> QED BY <1>3, <1>4, <1>5, <1>6 DEF Counted

(* A batch is what IsBatch() allows, or a record that fits one alone.      *)
LEMMA TakeCounts ==
  ASSUME Shape, Counted, ~failure, NEW n \in 1 .. Len(queue), Take(n), failure' = failure
  PROVE  Counted'
<1> DEFINE front == SubSeq(queue, 1, n)
           rest == SubSeq(queue, n + 1, Len(queue))
<1>0. queue \in Seq(Records) /\ Len(queue) \in Nat /\ n \in Nat
  BY LenProperties DEF Shape
<1>1. /\ front \in Seq(Records) /\ Len(front) = n /\ rest \in Seq(Records)
      /\ Len(rest) = Len(queue) - n /\ front \o rest = queue
  BY <1>0, Cut
<1>2. /\ batch' = front /\ queue' = rest /\ IsBatch(n)
      /\ pendingBytes' = pendingBytes - Bytes(queue, n)
  BY DEF Take
<1> HIDE DEF front, rest
<1>3. Bytes(queue, n) = Bytes(front, n)
      /\ Bytes(queue, n + Len(rest)) = Bytes(front, n) + Bytes(rest, Len(rest))
  BY <1>1, BytesOfBoth
<1>4. n + Len(rest) = Len(queue)
  BY <1>0, <1>1
<1>5. Bytes(front, n) \in Nat /\ Bytes(rest, Len(rest)) \in Nat
  <2>1. n \in 0 .. Len(front) /\ Len(rest) \in 0 .. Len(rest)
    BY <1>0, <1>1
  <2> QED BY <2>1, <1>1, BytesCount
<1>6. pendingBytes' = Bytes(queue', Len(queue')) /\ pendingBytes' <= pendingBytes
  BY <1>2, <1>3, <1>4, <1>5 DEF Counted
<1>7. Bytes(front, n) <= BatchBytes
  <2>1. CASE n = 1
    <3>2. 1 \in 1 .. Len(queue)
      BY <2>1
    <3>1. Bytes(queue, 1) = Size[queue[1]]
      BY <1>0, <3>2, FirstBytes
    <3>3. Size[queue[1]] <= BatchBytes /\ Size[queue[1]] \in Nat
      BY <1>0, <3>2, SizeOf DEF Counted
    <3> QED BY <1>3, <2>1, <3>1, <3>3
  <2>2. CASE n # 1
    BY <1>2, <1>3, <2>2 DEF IsBatch
  <2> QED BY <2>1, <2>2
<1>8. \A i \in 1 .. Len(queue') : Size[queue'[i]] <= BatchBytes
  <2> SUFFICES ASSUME NEW i \in 1 .. Len(rest) PROVE Size[rest[i]] <= BatchBytes
    BY <1>2
  <2>1. n + i \in 1 .. Len(queue) /\ (front \o rest)[n + i] = rest[i]
    <3>1. n + i \in 1 .. Len(front) + Len(rest) /\ ~(n + i <= Len(front)) /\ (n + i) - Len(front) = i
      BY <1>0, <1>1
    <3>2. (front \o rest)[n + i] = rest[(n + i) - Len(front)]
      BY <1>1, <3>1, ConcatProperties
    <3> QED BY <1>0, <1>1, <3>1, <3>2
  <2> QED BY <1>1, <2>1 DEF Counted
<1>9. pendingBytes' <= IF failure' THEN QueueBytes + BatchBytes ELSE QueueBytes
  <2>1. pendingBytes \in Int /\ pendingBytes' \in Int
    BY <1>2, <1>3, <1>4, <1>5 DEF Counted
  <2> QED BY <1>6, <2>1, Limits DEF Counted
<1>10. Bytes(batch', Len(batch')) <= BatchBytes
  BY <1>1, <1>2, <1>7
<1> QED BY <1>6, <1>8, <1>9, <1>10 DEF Counted

LEMMA ContinueCounts ==
  ASSUME Shape, Counted, ~failure, Continue, failure' = failure, pendingBytes \in Nat
  PROVE  Counted'
BY SettleCounts, TakeCounts DEF Continue, Shape

LEMMA CountedStep ==
  ASSUME Inv, Counted, [Next]_vars
  PROVE  Counted'
<1>0. /\ Shape /\ queue \in Seq(Records) /\ batch \in Seq(Records) /\ failure \in BOOLEAN
      /\ Len(queue) \in Nat /\ Len(batch) \in Nat
  BY LenProperties DEF Inv, Shape
<1>1. pendingBytes \in Nat /\ Bytes(batch, Len(batch)) \in Nat
  <2>1. Len(queue) \in 0 .. Len(queue) /\ Len(batch) \in 0 .. Len(batch)
    BY <1>0
  <2> QED BY <1>0, <2>1, BytesCount DEF Counted
<1>2. CASE UNCHANGED <<queue, pendingBytes, batch, failure>>
  BY <1>2 DEF Counted
<1>3. ASSUME NEW r \in Records, Enqueue(r) PROVE Counted'
  <2>1. /\ queue' = queue \o <<r>> /\ <<r>> \in Seq(Records) /\ Len(<<r>>) = 1
        /\ pendingBytes' = pendingBytes + Size[r] /\ ~failure
        /\ UNCHANGED <<failure, batch>> /\ Size[r] <= BatchBytes
        /\ pendingBytes + Size[r] <= QueueBytes
    BY <1>0, <1>3, AppendIsConcat DEF Enqueue, HasRoom
  <2>2. Len(queue') = Len(queue) + 1 /\ queue'[Len(queue) + 1] = r
        /\ \A i \in 1 .. Len(queue) : queue'[i] = queue[i]
    BY <1>0, <1>3, AppendProperties DEF Enqueue
  <2>3. Bytes(<<r>>, 1) = Size[r]
    <3>1. 1 \in 1 .. Len(<<r>>) /\ <<r>>[1] = r
      BY <2>1
    <3> QED BY <2>1, <3>1, FirstBytes
  <2>4. Bytes(queue', Len(queue')) = pendingBytes'
    <3>1. Bytes(queue \o <<r>>, Len(queue) + Len(<<r>>))
            = Bytes(queue, Len(queue)) + Bytes(<<r>>, Len(<<r>>))
      BY <1>0, <2>1, BytesOfBoth
    <3> QED BY <2>1, <2>2, <2>3, <3>1 DEF Counted
  <2>5. \A i \in 1 .. Len(queue') : Size[queue'[i]] <= BatchBytes
    <3> SUFFICES ASSUME NEW i \in 1 .. Len(queue') PROVE Size[queue'[i]] <= BatchBytes
      OBVIOUS
    <3>1. i = Len(queue) + 1 \/ i \in 1 .. Len(queue)
      BY <1>0, <2>2
    <3> QED BY <2>1, <2>2, <3>1 DEF Counted
  <2> QED BY <2>1, <2>4, <2>5 DEF Counted
<1>4. CASE StoreOpens
  BY <1>0, <1>1, <1>4, ContinueCounts DEF StoreOpens, Inv, OneDrain
<1>5. CASE AppendSucceeds
  BY <1>0, <1>1, <1>5, ContinueCounts DEF AppendSucceeds, Inv, OneDrain
<1>6. CASE OpenFails
  BY <1>0, <1>1, <1>6, SettleCounts DEF OpenFails
<1>7. CASE AppendFails
  <2>1. /\ ~failure /\ failure' /\ queue' = batch \o queue /\ batch' = <<>>
        /\ pendingBytes' = pendingBytes + Bytes(batch, Len(batch))
    BY <1>7 DEF AppendFails, Settle, Inv, OneDrain
  <2>2. Len(queue') = Len(batch) + Len(queue)
        /\ Bytes(queue', Len(queue')) = Bytes(batch, Len(batch)) + Bytes(queue, Len(queue))
    <3>1. Len(batch \o queue) = Len(batch) + Len(queue)
      BY <1>0, ConcatProperties
    <3>2. Bytes(batch \o queue, Len(batch) + Len(queue))
            = Bytes(batch, Len(batch)) + Bytes(queue, Len(queue))
      BY <1>0, BytesOfBoth
    <3> QED BY <2>1, <3>1, <3>2
  <2>4. Bytes(batch', Len(batch')) <= BatchBytes
    BY <2>1, NoBytes, Limits
  <2>5. pendingBytes' = Bytes(queue', Len(queue')) /\ pendingBytes' <= QueueBytes + BatchBytes
    BY <1>1, <2>1, <2>2, Limits DEF Counted
  <2> QED BY <2>1, <2>4, <2>5 DEF Counted
<1>8. (\E r \in Records : Enqueue(r)) \/ StoreAnswers \/ UNCHANGED <<queue, pendingBytes, batch, failure>>
  BY DEF Next, TimerFires, Flush, Close, vars
<1> QED BY <1>2, <1>3, <1>4, <1>5, <1>6, <1>7, <1>8 DEF StoreAnswers

(* Records and bytes stay under the queue's limits plus the one batch that *)
(* a failure gives back, and pendingBytes is the true sum: the limit that  *)
(* enqueue() refuses by is the one it means.                               *)
THEOREM WriterCountsItsBytes == Spec => []TypeOK
<1>1. Init => Inv /\ Counted
  <2> SUFFICES ASSUME Init PROVE Counted
    BY InitInv
  <2>1. queue = <<>> /\ batch = <<>> /\ pendingBytes = 0 /\ ~failure /\ Len(queue) = 0
    BY NoBytes DEF Init
  <2>2. \A i \in 1 .. Len(queue) : Size[queue[i]] <= BatchBytes
    BY <2>1
  <2> QED BY <2>1, <2>2, NoBytes, Limits DEF Counted
<1>2. Inv /\ Counted /\ [Next]_vars => Inv' /\ Counted'
  BY StepInv, CountedStep
<1>3. Inv /\ Counted => TypeOK
  BY DEF Inv, Counted, TypeOK
<1> QED BY <1>1, <1>2, <1>3, PTL DEF Spec

-----------------------------------------------------------------------------
(* When a drain ends without a failure, the store holds all there is.      *)
LEMMA SettledMeansStored ==
  ASSUME Inv, StoreAnswers, drain' = "none", ~failure'
  PROVE  persisted' = accepted /\ accepted' = accepted /\ mark' = mark
<1> USE DEF Inv
<1>1. ~OpenFails /\ ~AppendFails
  BY DEF OpenFails, AppendFails
<1>2. (StoreOpens \/ AppendSucceeds) /\ Continue /\ accepted' = accepted /\ mark' = mark
  BY <1>1 DEF StoreAnswers, StoreOpens, AppendSucceeds
<1>3. queue = <<>>
  BY <1>2 DEF Continue, Take
<1>4. persisted \in Seq(Records) /\ batch \in Seq(Records) /\ persisted \o batch \in Seq(Records)
  BY ConcatProperties DEF Shape
<1>5. persisted \o batch = accepted
  BY <1>3, <1>4, ConcatEmptySeq DEF InOrder
<1>6. CASE AppendSucceeds
  BY <1>2, <1>5, <1>6 DEF AppendSucceeds
<1>7. CASE StoreOpens
  <2>1. batch = <<>> /\ persisted' = persisted
    BY <1>7 DEF StoreOpens, OneDrain
  <2> QED BY <2>1, <1>2, <1>4, <1>5, ConcatEmptySeq
<1> QED BY <1>2, <1>6, <1>7

(* A flush() that returns without an error has stored everything accepted  *)
(* before it was called.                                                   *)
THEOREM WriterFlushMeansPersisted == Spec => FlushMeansPersisted
<1> DEFINE Returned == \A c \in flushing \ flushing' : failure' \/ Len(persisted') >= mark[c]
<1>1. Inv /\ [Next]_vars => [Returned]_vars
  <2> SUFFICES ASSUME Inv, Next, NEW c \in flushing \ flushing', ~failure'
               PROVE  Len(persisted') >= mark[c]
    BY DEF vars
  <2>1. CASE StoreAnswers
    <3>1. drain' = "none"
      BY <2>1 DEF StoreAnswers, StoreOpens, AppendSucceeds, OpenFails, AppendFails,
                  Continue, Settle, Take
    <3>2. persisted' = accepted
      BY <2>1, <3>1, SettledMeansStored
    <3>3. mark[c] <= Len(accepted) /\ mark[c] \in Nat /\ Len(accepted) \in Nat
      BY LenProperties DEF Inv, PendingIsServed, Shape
    <3> QED BY <3>2, <3>3
  <2>2. CASE ~StoreAnswers
    BY <2>2 DEF Next, Enqueue, TimerFires, Flush, Close
  <2> QED BY <2>1, <2>2
<1> QED BY <1>1, WriterInvariant, PTL DEF Spec, FlushMeansPersisted

-----------------------------------------------------------------------------
(* Each step of the writer is a step of the contract, or none of it. *)
LEMMA StepRefines ==
  ASSUME Inv, [Next]_vars
  PROVE  [Contract!Next]_<<accepted, persisted, failure, state>>
<1> USE DEF Inv
<1>0. /\ queue \in Seq(Records) /\ batch \in Seq(Records)
      /\ persisted \in Seq(Records) /\ accepted \in Seq(Records)
      /\ Len(queue) \in Nat /\ Len(batch) \in Nat /\ Len(persisted) \in Nat
  BY LenProperties DEF Shape
<1>1. ASSUME NEW r \in Records, Enqueue(r)
      PROVE  Contract!Accept
  BY <1>1 DEF Enqueue, Contract!Accept
<1>2. CASE Close
  BY <1>2 DEF Close, Contract!Next, Contract!Close
<1>3. CASE TimerFires \/ (\E c \in Callers : Flush(c)) \/ UNCHANGED vars
  BY <1>3 DEF TimerFires, Flush, vars
<1>4. CASE StoreOpens
  <2>1. UNCHANGED <<accepted, persisted, failure>> /\ (state' = state \/ drain' = "none")
    BY <1>4 DEF StoreOpens, Continue, Settle, Take
  <2>2. CASE state' = state
    BY <2>1, <2>2
  <2>3. CASE state' # state
    <3>1. drain' = "none" /\ ~failure' /\ StoreAnswers
      BY <1>4, <2>1, <2>3 DEF StoreAnswers, StoreOpens, OneDrain
    <3>2. persisted' = accepted
      BY <3>1, SettledMeansStored
    <3>3. state = "closing" /\ state' = "closed"
      BY <1>4, <2>3 DEF StoreOpens, Continue, Settle, Take
    <3> QED BY <2>1, <3>2, <3>3 DEF Contract!Next, Contract!Closed
  <2> QED BY <2>2, <2>3
<1>5. CASE OpenFails \/ AppendFails
  <2>1. /\ ~failure /\ failure' = TRUE /\ UNCHANGED <<accepted, persisted>>
        /\ state' = state \/ (state = "closing" /\ state' = "closed")
    BY <1>5 DEF OpenFails, AppendFails, Settle, OneDrain
  <2> QED BY <2>1 DEF Contract!Next, Contract!Fail, Contract!MayClose
<1>6. CASE AppendSucceeds
  <2> DEFINE n == Len(persisted) + Len(batch)
  <2>1. /\ persisted' = persisted \o batch /\ UNCHANGED <<accepted, failure>>
        /\ ~failure /\ batch # <<>>
    BY <1>6 DEF AppendSucceeds, OneDrain
  <2>2. persisted' = SubSeq(accepted, 1, n) /\ Len(accepted) = n + Len(queue)
    BY <2>1, <1>0, PrefixOfParts DEF InOrder
  <2>3. n \in Len(persisted) + 1 .. Len(accepted)
    BY <2>1, <2>2, <1>0, EmptySeq
  <2>4. Contract!MayClose(n = Len(accepted))
    <3>1. CASE state' = state
      BY <3>1 DEF Contract!MayClose
    <3>2. CASE state' # state
      <4>1. state = "closing" /\ state' = "closed" /\ queue = <<>>
        BY <1>6, <3>2 DEF AppendSucceeds, Continue, Settle, Take
      <4>2. n = Len(accepted)
        BY <4>1, <2>2, <1>0, EmptySeq
      <4> QED BY <4>1, <4>2 DEF Contract!MayClose
    <3> QED BY <3>1, <3>2
  <2> HIDE DEF n
  <2> QED BY <2>1, <2>2, <2>3, <2>4 DEF Contract!Next, Contract!Store
<1> QED BY <1>1, <1>2, <1>3, <1>4, <1>5, <1>6 DEF Next, StoreAnswers, Contract!Next

(* The writer implements the durable queue: what the store holds is always *)
(* a prefix of what was accepted, failure is final, and close() leaves     *)
(* nothing behind without one.                                             *)
THEOREM WriterImplementsDurableQueue == Spec => ImplementsDurableQueue
<1>1. Init => Contract!Init
  BY DEF Init, Contract!Init
<1>2. Inv /\ [Next]_vars => [Contract!Next]_<<accepted, persisted, failure, state>>
  BY StepRefines
<1> QED BY <1>1, <1>2, WriterInvariant, PTL
    DEF Spec, ImplementsDurableQueue, Contract!Spec, Contract!queueVars

-----------------------------------------------------------------------------
(* The runtime. *)

(* Every step of the runtime is a step of the writer, or none of it. *)
LEMMA RuntimeStepIsWriterStep ==
  ASSUME [RuntimeNext]_allVars PROVE [Next]_vars
<1>1. ASSUME NEW r \in Records, Record(r) \/ RecordMetric(r) PROVE Next
  BY <1>1 DEF Record, RecordMetric, Next
<1>2. ASSUME Query \/ StartJob \/ CloseCalled PROVE [Next]_vars
  BY <1>2, RuntimeAssumption DEF Query, StartJob, CloseCalled, Next
<1>3. ASSUME WriterTimer \/ WriterSettles \/ CloseWriter PROVE Next
  BY <1>3 DEF WriterTimer, WriterSettles, CloseWriter, Next
<1>4. ASSUME MaintenanceTimer \/ JobEnds PROVE UNCHANGED vars
  BY <1>4 DEF MaintenanceTimer, JobEnds
<1>5. CASE UNCHANGED allVars
  BY <1>5 DEF allVars
<1> QED BY <1>1, <1>2, <1>3, <1>4, <1>5 DEF RuntimeNext

THEOREM RuntimeImplementsWriter == RuntimeSpec => Spec
<1>1. RuntimeInit => Init
  BY DEF RuntimeInit
<1>2. [RuntimeNext]_allVars => [Next]_vars
  BY RuntimeStepIsWriterStep
<1> QED BY <1>1, <1>2, PTL DEF RuntimeSpec, Spec

(* The runtime keeps the writer's two promises, whatever its jobs, queries *)
(* and close() interleave.                                                 *)
THEOREM RuntimeKeepsRecords == RuntimeSpec => ImplementsDurableQueue /\ FlushMeansPersisted
BY RuntimeImplementsWriter, WriterImplementsDurableQueue, WriterFlushMeansPersisted, PTL

(* How far close() has come: until it closes the writer the writer is      *)
(* open, so that jobs may still be queued; from then on nothing is         *)
(* accepted and the chain stays empty; once it has returned nothing is     *)
(* pending, though a late query may still drain, and even fail.            *)
Closing ==
  /\ jobs \in Nat /\ job \in {"idle", "flushing", "working"}
  /\ closing \in {"open", "flushing", "maintenance", "writer", "returned", "failed"}
  /\ job # "idle" => jobs > 0
  /\ closing \in {"open", "flushing", "maintenance"} => state = "open"
  /\ closing = "writer" => state = "closing" /\ jobs = 0
  /\ closing = "returned" => state = "closed" /\ jobs = 0 /\ queue = <<>> /\ batch = <<>>

RuntimeInv == Inv /\ Closing

LEMMA SettleKeepsClosing ==
  ASSUME RuntimeInv, Inv', WriterSettles
  PROVE  Closing'
<1>1. /\ state' = state \/ (state = "closing" /\ state' = "closed")
      /\ queue = <<>> /\ batch = <<>> => queue' = <<>> /\ batch' = <<>>
  <2>1. CASE StoreOpens \/ AppendSucceeds
    <3>1. CASE queue = <<>> /\ UNCHANGED <<queue, pendingBytes>> /\ Settle
      BY <3>1 DEF Settle
    <3>2. ASSUME NEW n \in 1 .. Len(queue), Take(n)
          PROVE  state' = state /\ queue # <<>>
      <4>1. queue # <<>>
        BY <3>2, EmptySeq
      <4> QED BY <3>2, <4>1 DEF Take
    <3> QED BY <2>1, <3>1, <3>2 DEF StoreOpens, AppendSucceeds, Continue
  <2>2. CASE OpenFails
    BY <2>2 DEF OpenFails, Settle
  <2>3. CASE AppendFails
    <3>1. batch # <<>>
      BY <2>3 DEF AppendFails, RuntimeInv, Inv, OneDrain
    <3> QED BY <2>3, <3>1 DEF AppendFails, Settle
  <2> QED BY <2>1, <2>2, <2>3 DEF WriterSettles, StoreAnswers
<1>2. /\ jobs' \in Nat /\ job' \in {"idle", "flushing", "working"}
      /\ job' # "idle" => jobs' > 0
      /\ jobs = 0 => jobs' = 0
  BY DEF WriterSettles, JobGoesOn, RuntimeInv, Closing
<1>3. \/ closing' = closing
      \/ closing = "flushing" /\ closing' \in {"failed", "maintenance"}
      \/ closing = "writer" /\ state' = "closed" /\ closing' = "failed"
      \/ closing = "writer" /\ state' = "closed" /\ closing' = "returned" /\ ~failure'
  BY DEF WriterSettles, CloseGoesOn
<1>4. closing = "writer" /\ closing' = "writer" => state' # "closed"
  BY DEF WriterSettles, CloseGoesOn
<1>5. state' = "closed" /\ ~failure' => queue' = <<>> /\ batch' = <<>>
  BY DEF Inv, PendingIsServed
<1> QED BY <1>1, <1>2, <1>3, <1>4, <1>5 DEF RuntimeInv, Closing

LEMMA RuntimeStep ==
  ASSUME RuntimeInv, [RuntimeNext]_allVars
  PROVE  RuntimeInv'
<1> USE DEF RuntimeInv
<1>0. Inv'
  BY RuntimeStepIsWriterStep, StepInv
<1> SUFFICES Closing'
  BY <1>0
<1>1. ASSUME NEW r \in Records, Record(r) \/ RecordMetric(r)
      PROVE  Closing'
  <2>1. state = "open" /\ state' = "open"
    BY <1>1 DEF Record, RecordMetric, Enqueue
  <2>2. UNCHANGED <<job, closing>> /\ (jobs' = jobs \/ jobs' = jobs + 1)
    BY <1>1 DEF Record, RecordMetric, EnqueueMaintenance, runtimeVars
  <2> QED BY <2>1, <2>2 DEF Closing
<1>2. CASE Query
  BY <1>2 DEF Query, Flush, runtimeVars, Closing
<1>3. CASE WriterTimer
  BY <1>3 DEF WriterTimer, TimerFires, runtimeVars, Closing
<1>4. CASE MaintenanceTimer
  BY <1>4 DEF MaintenanceTimer, EnqueueMaintenance, vars, Closing
<1>5. CASE StartJob
  <2>1. /\ UNCHANGED <<closing, state, queue, batch>> /\ jobs > 0
        /\ (jobs' = jobs - 1 /\ job' = job) \/ (job' = "flushing" /\ jobs' = jobs)
    BY <1>5 DEF StartJob, Flush, vars
  <2> QED BY <1>5, <2>1 DEF StartJob, Closing
<1>6. CASE JobEnds
  BY <1>6 DEF JobEnds, vars, Closing
<1>7. CASE WriterSettles
  BY <1>0, <1>7, SettleKeepsClosing
<1>8. CASE CloseCalled
  BY <1>8 DEF CloseCalled, Flush, vars, Closing
<1>9. CASE CloseWriter
  BY <1>9 DEF CloseWriter, Close, Closing
<1>10. CASE UNCHANGED allVars
  BY <1>10 DEF allVars, vars, runtimeVars, Closing
<1> QED BY <1>1, <1>2, <1>3, <1>4, <1>5, <1>6, <1>7, <1>8, <1>9, <1>10 DEF RuntimeNext

(* When a close() has returned, and ever after, no job works on the store  *)
(* or waits to, and all that was accepted is in it, for any number of      *)
(* jobs, queries and failures.  Of a close() that failed nothing is said.  *)
THEOREM RuntimeCloseIsFinal == RuntimeSpec => []CloseLeavesNoWriter
<1>1. RuntimeInit => RuntimeInv
  BY InitInv DEF RuntimeInit, Init, RuntimeInv, Closing
<1>2. RuntimeInv /\ [RuntimeNext]_allVars => RuntimeInv'
  BY RuntimeStep
<1>3. RuntimeInv => CloseLeavesNoWriter
  <2> SUFFICES ASSUME RuntimeInv, closing = "returned"
      PROVE  jobs = 0 /\ job = "idle" /\ persisted = accepted
    BY DEF CloseLeavesNoWriter
  <2>1. jobs = 0 /\ job = "idle" /\ queue = <<>> /\ batch = <<>>
    BY DEF RuntimeInv, Closing
  <2>2. persisted \in Seq(Records) /\ (persisted \o batch) \o queue = accepted
    BY DEF RuntimeInv, Inv, Shape, InOrder
  <2> QED BY <2>1, <2>2, ConcatEmptySeq
<1> QED BY <1>1, <1>2, <1>3, PTL DEF RuntimeSpec
=============================================================================
