------------------------- MODULE MarketStateProofs --------------------------
(***************************************************************************)
(* Theorems about what a market's session computes: its order book         *)
(* (BookTracking), its walls and alerts (Alerts) and its trade tape and    *)
(* trend (MarketTape).                                                     *)
(*                                                                         *)
(* The book, on any input: types, an uncrossed book, a current digest, and *)
(* that a rejected call changes nothing.  On the exchange's stream: the    *)
(* book equals the exchange's book at its own sequence number, for every   *)
(* tick set, every exchange history and every subset of the stream.        *)
(***************************************************************************)
EXTENDS BookTracking, Alerts, MarketTape, DepthStreamProofs

(* Levels that cross each other cross on every book.                       *)
LEMMA SelfCrossingCrosses ==
  ASSUME NEW b \in BookType, NEW u \in UpdateType, SelfCrossing(u),
         ValidLevels(u.bids, TRUE), ValidLevels(u.asks, TRUE)
  PROVE  Crossed(ApplyLevels(b.bids, u.bids), ApplyLevels(b.asks, u.asks))
<1>1. PICK bid \in u.bids, ask \in u.asks :
        bid.qty > 0 /\ ask.qty > 0 /\ bid.tick >= ask.tick
  BY DEF SelfCrossing
<1>2. /\ u.bids \in WireLevels /\ u.asks \in WireLevels
      /\ b.bids \in Sides /\ b.asks \in Sides
  BY DEF UpdateType, BookType
<1>3. bid.tick \in Ticks /\ ApplyLevels(b.bids, u.bids)[bid.tick] = bid.qty
  BY <1>2, ValidLevelsWritten
<1>4. ask.tick \in Ticks /\ ApplyLevels(b.asks, u.asks)[ask.tick] = ask.qty
  BY <1>2, ValidLevelsWritten
<1> QED BY <1>1, <1>3, <1>4 DEF Crossed

-----------------------------------------------------------------------------
(* Every field keeps its type whatever the inputs are. *)
THEOREM OrderBookTypeCorrect == Spec => []TypeOK
<1>1. Init => TypeOK
  BY DEF Init, TypeOK, EmptyBook, BookType, Sides, NoLevels, Outcome
<1>2. TypeOK /\ [Next]_vars => TypeOK'
  <2> SUFFICES ASSUME TypeOK, [Next]_vars PROVE TypeOK'
    OBVIOUS
  <2> USE DEF TypeOK, Outcome
  <2>1. CASE Replace
    BY <2>1 DEF Replace, EmptyBook, BookType, Sides, NoLevels
  <2>2. CASE TakeFingerprint
    <3>1. Fingerprint(book) \in {NoDigest} \cup (Nat \X Sides \X Sides)
      BY DEF Fingerprint, Digest, BookType
    <3>2. Fingerprinted(book) \in BookType
      BY <3>1 DEF Fingerprinted, BookType
    <3> QED BY <2>2, <3>2 DEF TakeFingerprint
  <2>3. ASSUME NEW s \in Snapshots, Load(s) PROVE TypeOK'
    <3>1. s \in SnapshotType
      BY InputsAssumption
    <3>2. LoadSnapshot(book, s) \in BookType
      <4>1. CASE SnapshotAcceptable(s)
        <5>1. ApplyLevels(NoLevels, s.bids) \in Sides /\ ApplyLevels(NoLevels, s.asks) \in Sides
          <6>1. NoLevels \in Sides
            BY DEF NoLevels, Sides
          <6>2. \A l \in s.bids \cup s.asks : l.qty \in Int /\ l.qty >= 1
            BY <3>1, <4>1 DEF SnapshotAcceptable, ValidLevels, SnapshotType, WireLevels
          <6>3. \A l \in s.bids \cup s.asks : l.qty >= 0
            BY <6>2
          <6> QED BY <6>1, <6>3, <3>1, ApplyLevelsType DEF SnapshotType
        <5> QED BY <5>1, <4>1, <3>1 DEF LoadSnapshot, SnapshotAcceptable, SnapshotType, BookType
      <4>2. CASE ~SnapshotAcceptable(s)
        BY <4>2 DEF LoadSnapshot
      <4> QED BY <4>1, <4>2
    <3> QED BY <2>3, <3>2 DEF Load
  <2>4. ASSUME NEW u \in Updates, Update(u) PROVE TypeOK'
    <3> DEFINE r == ApplyUpdate(book, u)
               bids == ApplyLevels(book.bids, u.bids)
               asks == ApplyLevels(book.asks, u.asks)
    <3>1. u \in UpdateType
      BY InputsAssumption
    <3>2. r.book \in BookType /\ r.status \in {"applied", "ignored", "gap", "unsynced", "invalid"}
      <4>1. CASE r.status # "applied"
        BY <4>1, <3>1, ApplyUpdateCases
      <4>2. CASE r.status = "applied"
        <5>1. /\ ValidLevels(u.bids, TRUE) /\ ValidLevels(u.asks, TRUE)
              /\ u.end > book.updateId
              /\ r.book = [book EXCEPT !.bids = bids, !.asks = asks, !.updateId = u.end,
                                       !.bridged = TRUE, !.digest = NoDigest]
          BY <4>2, <3>1, ApplyUpdateCases
        <5>2. bids \in Sides /\ asks \in Sides
          BY <5>1, <3>1, ApplyLevelsType DEF ValidLevels, UpdateType, BookType
        <5>3. u.end \in Nat
          BY <5>1, <3>1 DEF UpdateType, BookType
        <5> HIDE DEF r, bids, asks
        <5> QED BY <5>1, <5>2, <5>3, <4>2 DEF BookType
      <4> QED BY <4>1, <4>2
    <3>3. r.code \in {"none", "duplicate", "out_of_order", "sequence_gap",
                      "malformed", "crossed", "unsynced"}
      BY DEF ApplyUpdate, Rejected, CommitLevels, GapCode
    <3> QED BY <2>4, <3>2, <3>3 DEF Update
  <2>5. CASE UNCHANGED vars
    BY <2>5 DEF vars
  <2> QED BY <2>1, <2>2, <2>3, <2>4, <2>5 DEF Next
<1> QED BY <1>1, <1>2, PTL DEF Spec

(* No sequence of loads and updates, on any input, leaves a crossed book.  *)
THEOREM OrderBookNeverCrossed == Spec => []NeverCrossed
<1>1. Init => NeverCrossed
  BY OrderBookAssumption DEF Init, NeverCrossed, EmptyBook, Crossed, NoLevels
<1>2. TypeOK /\ NeverCrossed /\ [Next]_vars => NeverCrossed'
  <2> SUFFICES ASSUME TypeOK, NeverCrossed, [Next]_vars PROVE NeverCrossed'
    OBVIOUS
  <2> USE DEF NeverCrossed
  <2>1. CASE Replace
    BY <2>1, OrderBookAssumption DEF Replace, EmptyBook, Crossed, NoLevels
  <2>2. CASE TakeFingerprint
    BY <2>2 DEF TakeFingerprint, Fingerprinted, TypeOK, BookType
  <2>3. ASSUME NEW s \in Snapshots, Load(s) PROVE NeverCrossed'
    BY <2>3 DEF Load, LoadSnapshot, SnapshotAcceptable
  <2>4. ASSUME NEW u \in Updates, Update(u) PROVE NeverCrossed'
    <3> DEFINE r == ApplyUpdate(book, u)
    <3>1. r.book = book \/ ~Crossed(r.book.bids, r.book.asks)
      <4>1. u \in UpdateType /\ book \in BookType
        BY InputsAssumption DEF TypeOK
      <4>2. CASE r.status # "applied"
        BY <4>1, <4>2, ApplyUpdateCases
      <4>3. CASE r.status = "applied"
        <5> DEFINE bids == ApplyLevels(book.bids, u.bids)
                   asks == ApplyLevels(book.asks, u.asks)
        <5>1. /\ ~Crossed(bids, asks)
              /\ r.book = [book EXCEPT !.bids = bids, !.asks = asks, !.updateId = u.end,
                                       !.bridged = TRUE, !.digest = NoDigest]
          BY <4>1, <4>3, ApplyUpdateCases
        <5> HIDE DEF r, bids, asks
        <5>2. r.book.bids = bids /\ r.book.asks = asks
          BY <5>1, <4>1 DEF BookType
        <5> QED BY <5>1, <5>2
      <4> QED BY <4>2, <4>3
    <3>2. book' = r.book
      BY <2>4 DEF Update
    <3> QED BY <3>1, <3>2
  <2>5. CASE UNCHANGED vars
    BY <2>5 DEF vars
  <2> QED BY <2>1, <2>2, <2>3, <2>4, <2>5 DEF Next
<1> QED BY <1>1, <1>2, OrderBookTypeCorrect, PTL DEF Spec

(* A cached digest is never stale. *)
THEOREM OrderBookFingerprintCurrent == Spec => []FingerprintCurrent
<1>1. Init => FingerprintCurrent
  BY DEF Init, FingerprintCurrent, EmptyBook
<1>2. TypeOK /\ FingerprintCurrent /\ [Next]_vars => FingerprintCurrent'
  <2> SUFFICES ASSUME TypeOK, FingerprintCurrent, [Next]_vars PROVE FingerprintCurrent'
    OBVIOUS
  <2> USE DEF FingerprintCurrent
  <2>1. CASE Replace
    BY <2>1 DEF Replace, EmptyBook
  <2>2. CASE TakeFingerprint
    BY <2>2 DEF TakeFingerprint, Fingerprinted, Fingerprint, Digest, TypeOK, BookType
  <2>3. ASSUME NEW s \in Snapshots, Load(s) PROVE FingerprintCurrent'
    BY <2>3 DEF Load, LoadSnapshot
  <2>4. ASSUME NEW u \in Updates, Update(u) PROVE FingerprintCurrent'
    <3> DEFINE r == ApplyUpdate(book, u)
    <3>1. u \in UpdateType /\ book \in BookType
      BY InputsAssumption DEF TypeOK
    <3>2. r.book = book \/ r.book.digest = NoDigest
      <4>1. CASE r.status # "applied"
        BY <3>1, <4>1, ApplyUpdateCases
      <4>2. CASE r.status = "applied"
        <5> DEFINE bids == ApplyLevels(book.bids, u.bids)
                   asks == ApplyLevels(book.asks, u.asks)
        <5>1. r.book = [book EXCEPT !.bids = bids, !.asks = asks, !.updateId = u.end,
                                   !.bridged = TRUE, !.digest = NoDigest]
          BY <3>1, <4>2, ApplyUpdateCases
        <5> HIDE DEF r, bids, asks
        <5> QED BY <5>1, <3>1 DEF BookType
      <4> QED BY <4>1, <4>2
    <3>3. book' = r.book
      BY <2>4 DEF Update
    <3> HIDE DEF r
    <3> QED BY <3>2, <3>3
  <2>5. CASE UNCHANGED vars
    BY <2>5 DEF vars, Digest
  <2> QED BY <2>1, <2>2, <2>3, <2>4, <2>5 DEF Next
<1> QED BY <1>1, <1>2, OrderBookTypeCorrect, PTL DEF Spec

(* A call that fails changes nothing: applyUpdate()'s rollback included.   *)
THEOREM OrderBookRejectionKeepsBook == Spec => RejectionKeepsBook
<1> DEFINE Unchanged == outcome'.op \in {"load", "update"} /\ outcome'.status # "applied"
                     => book' = book
<1>1. TypeOK /\ [Next]_vars => [Unchanged]_vars
  <2> SUFFICES ASSUME TypeOK, [Next]_vars PROVE [Unchanged]_vars
    OBVIOUS
  <2>1. CASE Replace
    BY <2>1 DEF Replace, Outcome
  <2>2. CASE TakeFingerprint
    BY <2>2 DEF TakeFingerprint, Outcome
  <2>3. ASSUME NEW s \in Snapshots, Load(s) PROVE Unchanged
    BY <2>3 DEF Load, LoadSnapshot, Outcome
  <2>4. ASSUME NEW u \in Updates, Update(u) PROVE Unchanged
    <3>1. u \in UpdateType /\ book \in BookType
      BY InputsAssumption DEF TypeOK
    <3>2. ApplyUpdate(book, u).status = "applied" \/ ApplyUpdate(book, u).book = book
      BY <3>1, ApplyUpdateCases
    <3>3. book' = ApplyUpdate(book, u).book /\ outcome'.status = ApplyUpdate(book, u).status
      BY <2>4 DEF Update, Outcome
    <3> QED BY <3>2, <3>3
  <2>5. CASE UNCHANGED vars
    BY <2>5
  <2> QED BY <2>1, <2>2, <2>3, <2>4, <2>5 DEF Next
<1> QED BY <1>1, OrderBookTypeCorrect, PTL DEF Spec, RejectionKeepsBook

(* applyUpdate() never takes the sequence number of a book back: a call    *)
(* that changes the book leaves it bridged and further on.                 *)
THEOREM OrderBookUpdatesAdvance == Spec => UpdatesAdvance
<1> DEFINE Advance == outcome'.op = "update" => \/ book'.updateId > book.updateId /\ book'.bridged
                                                \/ book' = book
<1>1. TypeOK /\ [Next]_vars => [Advance]_vars
  <2> SUFFICES ASSUME TypeOK, [Next]_vars PROVE [Advance]_vars
    OBVIOUS
  <2>1. CASE Replace
    BY <2>1 DEF Replace, Outcome
  <2>2. CASE TakeFingerprint
    BY <2>2 DEF TakeFingerprint, Outcome
  <2>3. ASSUME NEW s \in Snapshots, Load(s) PROVE Advance
    BY <2>3 DEF Load, Outcome
  <2>4. ASSUME NEW u \in Updates, Update(u) PROVE Advance
    <3> DEFINE r == ApplyUpdate(book, u)
               bids == ApplyLevels(book.bids, u.bids)
               asks == ApplyLevels(book.asks, u.asks)
    <3>1. u \in UpdateType /\ book \in BookType
      BY InputsAssumption DEF TypeOK
    <3>2. book' = r.book
      BY <2>4 DEF Update
    <3>3. CASE r.book = book
      BY <3>2, <3>3
    <3>4. CASE r.book # book
      <4>1. /\ u.end > book.updateId
            /\ r.book = [book EXCEPT !.bids = bids, !.asks = asks, !.updateId = u.end,
                                     !.bridged = TRUE, !.digest = NoDigest]
        BY <3>1, <3>4, ApplyUpdateCases
      <4> HIDE DEF r, bids, asks
      <4>2. r.book.updateId = u.end /\ r.book.bridged
        BY <4>1, <3>1 DEF BookType
      <4> QED BY <3>2, <4>1, <4>2
    <3> QED BY <3>3, <3>4
  <2>5. CASE UNCHANGED vars
    BY <2>5
  <2> QED BY <2>1, <2>2, <2>3, <2>4, <2>5 DEF Next
<1> QED BY <1>1, OrderBookTypeCorrect, PTL DEF Spec, UpdatesAdvance

-----------------------------------------------------------------------------
(* Lost, repeated, reordered and damaged events never make a loaded book   *)
(* differ from the exchange's book at the book's own sequence number.      *)
THEOREM BookTracksExchange == Spec => []TracksExchange
<1>1. Init => TracksExchange
  BY DEF Init, TracksExchange, EmptyBook
<1>2. TypeOK /\ TracksExchange /\ [Next]_vars => TracksExchange'
  <2> SUFFICES ASSUME TypeOK, TracksExchange, [Next]_vars PROVE TracksExchange'
    OBVIOUS
  <2>1. CASE Replace
    BY <2>1 DEF Replace, EmptyBook, TracksExchange
  <2>2. CASE TakeFingerprint
    BY <2>2 DEF TakeFingerprint, Fingerprinted, TypeOK, BookType, TracksExchange
  <2>3. ASSUME NEW s \in Snapshots, Load(s) PROVE TracksExchange'
    <3>1. CASE ~SnapshotAcceptable(s)
      BY <2>3, <3>1 DEF Load, LoadSnapshot, TracksExchange
    <3>2. CASE SnapshotAcceptable(s)
      <4>1. PICK n \in 0 .. LastSeq : s = SnapshotAt(n)
        BY <3>2, GenuineInputsAssumption DEF StreamSnapshots
      <4>2. Truth[n].bids \in Sides /\ Truth[n].asks \in Sides
        BY DepthStreamAssumption
      <4>3. /\ book'.updateId = n
            /\ book'.bids = ApplyLevels(NoLevels, SnapshotLevels(Truth[n].bids))
            /\ book'.asks = ApplyLevels(NoLevels, SnapshotLevels(Truth[n].asks))
        BY <2>3, <3>2, <4>1 DEF Load, LoadSnapshot, SnapshotAt
      <4> QED BY <4>2, <4>3, SnapshotLevelsLoad DEF TracksExchange
    <3> QED BY <3>1, <3>2
  <2>4. ASSUME NEW u \in Updates, Update(u) PROVE TracksExchange'
    <3> DEFINE r == ApplyUpdate(book, u)
               bids == ApplyLevels(book.bids, u.bids)
               asks == ApplyLevels(book.asks, u.asks)
    <3>1. u \in UpdateType /\ book \in BookType /\ book' = r.book
      BY <2>4, InputsAssumption DEF TypeOK, Update
    <3>2. CASE r.book = book
      BY <3>1, <3>2 DEF TracksExchange
    <3>3. CASE r.book # book
      <4>1. /\ book.loaded /\ ~RangeMalformed(u) /\ u.end > book.updateId
            /\ IF book.bridged THEN ~ChainBroken(book, u) ELSE CanBridge(book, u)
            /\ ValidLevels(u.bids, TRUE) /\ ValidLevels(u.asks, TRUE)
            /\ ~Crossed(bids, asks)
            /\ r.book = [book EXCEPT !.bids = bids, !.asks = asks, !.updateId = u.end,
                                     !.bridged = TRUE, !.digest = NoDigest]
        BY <3>1, <3>3, ApplyUpdateCases
      <4>2. u \in StreamUpdates
        BY <3>1, <4>1, SelfCrossingCrosses, GenuineInputsAssumption DEF Damaged
      <4>3. u.prev = book.updateId \/ u.start <= book.updateId + 1
        <5>1. u.start \in Int /\ book.updateId \in Nat
          BY <3>1 DEF UpdateType, BookType
        <5> QED BY <4>1, <5>1 DEF ChainBroken, CanBridge
      <4>4. book.updateId \in 0 .. LastSeq /\ book.updateId < u.end
            /\ book.bids = Truth[book.updateId].bids
            /\ book.asks = Truth[book.updateId].asks
        BY <4>1 DEF TracksExchange
      <4>5. bids = Truth[u.end].bids /\ asks = Truth[u.end].asks /\ u.end \in 0 .. LastSeq
        BY <4>2, <4>3, <4>4, <3>1, GenuineEventTracks
      <4> HIDE DEF r, bids, asks
      <4>6. book'.bids = bids /\ book'.asks = asks /\ book'.updateId = u.end
        BY <3>1, <4>1 DEF BookType
      <4> QED BY <4>5, <4>6 DEF TracksExchange
    <3> QED BY <3>2, <3>3
  <2>5. CASE UNCHANGED vars
    BY <2>5 DEF vars, TracksExchange
  <2> QED BY <2>1, <2>2, <2>3, <2>4, <2>5 DEF Next
<1> QED BY <1>1, <1>2, OrderBookTypeCorrect, PTL DEF Spec

(* What a healthy stream meets: every intact event that continues a loaded *)
(* book is applied, unless the book has only its range to judge it by and  *)
(* it starts late, when it is always refused as a gap.                     *)
THEOREM BookAcceptsHealthyStream == Spec => []HealthyStreamAccepted
<1>1. TypeOK /\ TracksExchange => HealthyStreamAccepted
  <2> SUFFICES ASSUME TypeOK, TracksExchange,
                      NEW u \in Updates \cap StreamUpdates, Continues(book, u)
               PROVE  ApplyUpdate(book, u).status
                        = IF JudgedByRange(book, u) THEN "gap" ELSE "applied"
    BY DEF HealthyStreamAccepted
  <2> DEFINE bids == ApplyLevels(book.bids, u.bids)
             asks == ApplyLevels(book.asks, u.asks)
  <2>1. PICK from \in 0 .. LastSeq :
           /\ u.start \in 1 .. LastSeq /\ u.end \in u.start .. LastSeq
           /\ from < u.start
           /\ u.prev = NoPrev \/ u.prev = from
           /\ u.bids = FinalLevels(BidsAt, from, u.end)
           /\ u.asks = FinalLevels(AsksAt, from, u.end)
    BY StreamUpdateShape
  <2>2. u.end \in 0 .. LastSeq /\ u.end \in Int /\ u.start \in Int /\ book.updateId \in Nat
    BY <2>1, DepthStreamAssumption DEF TypeOK, BookType
  <2>3. ValidLevels(u.bids, TRUE) /\ ValidLevels(u.asks, TRUE)
    BY <2>1, <2>2, TruthTypes, FinalLevelsValid
  <2>4. ~RangeMalformed(u)
    BY <2>1, <2>2, DepthStreamAssumption DEF RangeMalformed
  <2>5. /\ book.loaded /\ ~(u.end <= book.updateId)
        /\ book.bridged => u.prev \in {NoPrev, book.updateId}
    BY <2>2 DEF Continues
  <2>6. CASE JudgedByRange(book, u)
    <3>1. (book.bridged /\ ChainBroken(book, u)) \/ (~book.bridged /\ ~CanBridge(book, u))
      BY <2>2, <2>6 DEF JudgedByRange, ChainBroken, CanBridge
    <3>2. ApplyUpdate(book, u) = Rejected(book, "gap", GapCode(book, u))
      BY <2>4, <2>5, <3>1 DEF ApplyUpdate, AlreadyApplied
    <3> QED BY <2>6, <3>2 DEF Rejected
  <2>7. CASE ~JudgedByRange(book, u)
    <3>1. ~(book.bridged /\ ChainBroken(book, u)) /\ ~(~book.bridged /\ ~CanBridge(book, u))
      BY <2>2, <2>5, <2>7 DEF JudgedByRange, ChainBroken, CanBridge
    <3>2. u.prev = book.updateId \/ u.start <= book.updateId + 1
      BY <2>2, <2>5, <2>7 DEF JudgedByRange
    <3>3. bids = Truth[u.end].bids /\ asks = Truth[u.end].asks
      BY <2>2, <2>5, <3>2, GenuineEventTracks DEF TracksExchange, TypeOK
    <3>4. ~Crossed(bids, asks)
      BY <2>2, <3>3, DepthStreamAssumption
    <3>5. ApplyUpdate(book, u) = CommitLevels(book, u)
      BY <2>3, <2>4, <2>5, <3>1 DEF ApplyUpdate, AlreadyApplied
    <3> QED BY <2>7, <3>4, <3>5 DEF CommitLevels
  <2> QED BY <2>6, <2>7
<1> QED BY <1>1, OrderBookTypeCorrect, BookTracksExchange, PTL

-----------------------------------------------------------------------------
(* The walls and alerts of the market. *)

(* Types: the rules in force, those of a save and those of the file are    *)
(* alert rules by their identifiers.                                       *)
AlertRules ==
  [kind : RuleKinds, wallState : WallStates, cooldown : MinCooldown .. MaxCooldown,
   enabled : BOOLEAN]
RuleMaps == UNION {[D -> AlertRules] : D \in SUBSET RuleIds}
Saves == [stage : {"mkdir", "writing"}, rules : RuleMaps, alone : BOOLEAN]
WallTransitions == [kind : WallStates, level : Levels]

RulesTyped ==
  /\ rules \in RuleMaps /\ saves \in Seq(Saves)
  /\ disk \in [readable : BOOLEAN, rules : RuleMaps]

(* What POST and PATCH leave is a rule whose cooldown is within bounds.    *)
LEMMA RuleOfType ==
  ASSUME NEW input \in Inputs
  PROVE  RuleOf(input) \in AlertRules
BY AlertsAssumption DEF RuleOf, Clamped, AlertRules

LEMMA PatchedType ==
  ASSUME NEW rule \in AlertRules, NEW patch \in Patches
  PROVE  Patched(rule, patch) \in AlertRules
<1> DEFINE p == Patched(rule, patch)
<1>1. DOMAIN rule = {"kind", "wallState", "cooldown", "enabled"}
  BY DEF AlertRules
<1>2. p["kind"] \in RuleKinds /\ p["wallState"] \in WallStates /\ p["enabled"] \in BOOLEAN
  BY <1>1, AlertsAssumption DEF Patched, AlertRules
<1>3. p["cooldown"] \in MinCooldown .. MaxCooldown
  BY <1>1, AlertsAssumption DEF Patched, Clamped, AlertRules
<1>4. DOMAIN p = {"kind", "wallState", "cooldown", "enabled"}
  BY <1>1 DEF Patched
<1>5. p = [f \in DOMAIN p |-> p[f]]
  BY DEF Patched
<1> HIDE DEF p
<1>6. p = [kind |-> p["kind"], wallState |-> p["wallState"], cooldown |-> p["cooldown"],
           enabled |-> p["enabled"]]
  BY <1>4, <1>5
<1> QED BY <1>2, <1>3, <1>6 DEF AlertRules, p

(* One element less, the others in their order.                            *)
LEMMA RemoveAtType ==
  ASSUME NEW T, NEW q \in Seq(T), NEW i \in DOMAIN q
  PROVE  /\ RemoveAt(q, i) \in Seq(T)
         /\ Len(RemoveAt(q, i)) = Len(q) - 1
         /\ \A j \in DOMAIN RemoveAt(q, i) :
              j \in DOMAIN q /\ j + 1 \in DOMAIN q
              /\ RemoveAt(q, i)[j] = IF j < i THEN q[j] ELSE q[j + 1]
<1> DEFINE l == SubSeq(q, 1, i - 1)
           r == SubSeq(q, i + 1, Len(q))
<1>1. i \in 1 .. Len(q) /\ Len(q) \in Nat
  OBVIOUS
<1>2. /\ l \in Seq(T) /\ Len(l) = i - 1
      /\ \A j \in 1 .. i - 1 : l[j] = q[j]
  BY <1>1
<1>3. /\ r \in Seq(T) /\ Len(r) = Len(q) - i
      /\ \A j \in 1 .. Len(q) - i : r[j] = q[j + i]
  BY <1>1
<1> HIDE DEF l, r
<1>4. l \o r \in Seq(T) /\ Len(l \o r) = Len(q) - 1
  BY <1>1, <1>2, <1>3
<1>5. ASSUME NEW j \in 1 .. Len(q) - 1
      PROVE  (l \o r)[j] = IF j < i THEN q[j] ELSE q[j + 1]
  BY <1>1, <1>2, <1>3
<1>6. RemoveAt(q, i) = l \o r
  BY DEF RemoveAt, l, r
<1>7. DOMAIN RemoveAt(q, i) = 1 .. Len(q) - 1
  BY <1>4, <1>6
<1> QED BY <1>1, <1>4, <1>5, <1>6, <1>7

LEMMA RulesStayTyped ==
  ASSUME RulesTyped, [AlertsNext]_alertsVars
  PROVE  RulesTyped'
<1> USE DEF RulesTyped
<1>0. \A m \in RuleMaps : DOMAIN m \subseteq RuleIds /\ \A r \in DOMAIN m : m[r] \in AlertRules
  BY DEF RuleMaps
<1>00. \A i \in DOMAIN saves : saves[i] \in Saves
  OBVIOUS
<1>01. \A c \in Saves :
        /\ c.stage \in {"mkdir", "writing"} /\ c.rules \in RuleMaps /\ c.alone \in BOOLEAN
        /\ [c EXCEPT !.alone = FALSE] \in Saves
        /\ \A m \in RuleMaps : [c EXCEPT !.rules = m] \in Saves
        /\ [c EXCEPT !.stage = "writing"] \in Saves
  BY DEF Saves
<1>1. CASE UNCHANGED <<rules, saves, disk>>
  BY <1>1
<1>2. ASSUME NEW r \in RuleIds, NEW input \in Inputs, CreateRule(r, input) PROVE RulesTyped'
  <2>1. RuleOf(input) \in AlertRules
    BY RuleOfType
  <2>2. rules' \in [DOMAIN rules \cup {r} -> AlertRules]
    BY <1>0, <1>2, <2>1 DEF CreateRule
  <2>3. DOMAIN rules \cup {r} \in SUBSET RuleIds
    BY <1>0
  <2>4. rules' \in RuleMaps
    BY <2>2, <2>3 DEF RuleMaps
  <2> QED BY <1>2, <2>4 DEF CreateRule
<1>3. ASSUME NEW r \in RuleIds, NEW patch \in Patches, UpdateRule(r, patch) PROVE RulesTyped'
  <2>1. ASSUME NEW m \in RuleMaps, r \in DOMAIN m
        PROVE  [m EXCEPT ![r] = Patched(@, patch)] \in RuleMaps
    <3>1. Patched(m[r], patch) \in AlertRules
      BY <1>0, <2>1, PatchedType
    <3>2. m \in [DOMAIN m -> AlertRules]
      BY DEF RuleMaps
    <3>3. [m EXCEPT ![r] = Patched(@, patch)] \in [DOMAIN m -> AlertRules]
      BY <2>1, <3>1, <3>2
    <3> QED BY <1>0, <3>3 DEF RuleMaps
  <2>2. rules' \in RuleMaps
    BY <1>3, <2>1 DEF UpdateRule
  <2>3. ASSUME NEW i \in DOMAIN saves
        PROVE  (IF saves[i].stage = "mkdir" /\ r \in DOMAIN saves[i].rules
                THEN [saves[i] EXCEPT !.rules[r] = Patched(@, patch)] ELSE saves[i]) \in Saves
    <3>1. saves[i] \in Saves /\ saves[i].rules \in RuleMaps
      BY <1>00, <1>01
    <3>2. CASE r \in DOMAIN saves[i].rules
      <4>1. [saves[i].rules EXCEPT ![r] = Patched(@, patch)] \in RuleMaps
        BY <2>1, <3>1, <3>2
      <4> QED BY <1>01, <3>1, <4>1
    <3> QED BY <3>1, <3>2
  <2>4. saves' \in Seq(Saves)
    <3>1. saves' \in [1 .. Len(saves) -> Saves]
      BY <1>3, <2>3 DEF UpdateRule
    <3> QED BY <3>1
  <2> QED BY <1>3, <2>2, <2>4 DEF UpdateRule
<1>4. ASSUME NEW r \in RuleIds, DeleteRule(r) PROVE RulesTyped'
  <2>1. rules' \in [DOMAIN rules \ {r} -> AlertRules]
    BY <1>0, <1>4 DEF DeleteRule
  <2> QED BY <1>0, <1>4, <2>1 DEF DeleteRule, RuleMaps
<1>5. CASE SaveFires
  <2>0. \A i \in 1 .. Len(saves) : [saves[i] EXCEPT !.alone = FALSE] \in Saves
    <3>1. \A i \in 1 .. Len(saves) : i \in DOMAIN saves
      OBVIOUS
    <3> QED BY <1>00, <1>01, <3>1
  <2>00. [stage |-> "mkdir", rules |-> rules, alone |-> saves = <<>>] \in Saves
    BY DEF Saves
  <2>1. saves' \in [1 .. Len(saves) + 1 -> Saves]
    <3>1. ASSUME NEW i \in 1 .. Len(saves) + 1
          PROVE  (IF i <= Len(saves) THEN [saves[i] EXCEPT !.alone = FALSE]
                  ELSE [stage |-> "mkdir", rules |-> rules, alone |-> saves = <<>>]) \in Saves
      BY <2>0, <2>00
    <3> QED BY <1>5, <3>1 DEF SaveFires
  <2>2. Len(saves) + 1 \in Nat
    OBVIOUS
  <2>3. saves' \in Seq(Saves)
    BY <2>1, <2>2
  <2> QED BY <1>5, <2>3 DEF SaveFires
<1>6. NoRules \in RuleMaps
  <2>1. NoRules \in [{} -> AlertRules]
    BY DEF NoRules
  <2> QED BY <2>1 DEF RuleMaps
<1>7. ASSUME NEW i \in DOMAIN saves, WriteBegins(i) PROVE RulesTyped'
  <2>1. saves' \in Seq(Saves)
    <3>1. [saves[i] EXCEPT !.stage = "writing"] \in Saves
      BY <1>00, <1>01
    <3> QED BY <1>7, <3>1 DEF WriteBegins
  <2> QED BY <1>6, <1>7, <2>1 DEF WriteBegins, Unreadable
<1>8. ASSUME NEW i \in DOMAIN saves, WriteEnds(i) PROVE RulesTyped'
  <2>1. saves' \in Seq(Saves)
    BY <1>8, RemoveAtType DEF WriteEnds
  <2>2. saves[i].rules \in RuleMaps
    BY <1>00, <1>01
  <2>3. disk' \in [readable : BOOLEAN, rules : RuleMaps]
    <3>1. Readable(saves[i].rules) \in [readable : BOOLEAN, rules : RuleMaps]
      BY <2>2 DEF Readable
    <3>2. Unreadable \in [readable : BOOLEAN, rules : RuleMaps]
      BY <1>6 DEF Unreadable
    <3> QED BY <1>8, <3>1, <3>2 DEF WriteEnds
  <2> QED BY <1>8, <2>1, <2>3 DEF WriteEnds
<1>9. ASSUME NEW i \in DOMAIN saves, SaveFails(i) PROVE RulesTyped'
  BY <1>9, RemoveAtType DEF SaveFails
<1>10. CASE Restart
  BY <1>6, <1>10 DEF Restart, Restored
<1>11. CASE HandleDepth \/ RestSnapshot \/ Tick \/ UNCHANGED alertsVars
  BY <1>1, <1>11 DEF HandleDepth, RestSnapshot, Tick, file, alertsVars
<1> QED BY <1>2, <1>3, <1>4, <1>5, <1>7, <1>8, <1>9, <1>10, <1>11 DEF AlertsNext

LEMMA RulesBeginTyped == ASSUME AlertsInit PROVE RulesTyped
<1>1. NoRules \in RuleMaps
  <2>1. NoRules \in [{} -> AlertRules]
    BY DEF NoRules
  <2> QED BY <2>1 DEF RuleMaps
<1>2. <<>> \in Seq(Saves)
  OBVIOUS
<1> QED BY <1>1, <1>2 DEF AlertsInit, Unreadable, RulesTyped

-----------------------------------------------------------------------------
(* What a rule's last alert leaves: it is among the recent ones for as     *)
(* long as its age is below the shortest cooldown.                         *)
Spaced ==
  /\ age \in [RuleIds -> Nat]
  /\ recent \in [1 .. MinCooldown -> SUBSET RuleIds]
  /\ \A i \in 1 .. MinCooldown : \A r \in recent[i] : age[r] <= i
  /\ AlertsAreSpaced

LEMMA SilenceIsSpaced ==
  ASSUME recent = Silence, age = [r \in RuleIds |-> MaxCooldown]
  PROVE  Spaced
<1>1. MinCooldown \in Nat /\ MaxCooldown \in Nat
  BY AlertsAssumption
<1>2. recent \in [1 .. MinCooldown -> SUBSET RuleIds]
      /\ \A i \in 1 .. MinCooldown : recent[i] = {}
  BY <1>1 DEF Silence
<1>3. AlertsAreSpaced
  <2>1. DOMAIN recent = 1 .. MinCooldown
    BY <1>2
  <2> QED BY <1>2, <2>1 DEF AlertsAreSpaced
<1> QED BY <1>1, <1>2, <1>3 DEF Spaced

(* The alerts of a tick push those of the tick MinCooldown ago out.        *)
LEMMA RecentShifts ==
  ASSUME recent \in [1 .. MinCooldown -> SUBSET RuleIds],
         NEW raised \in SUBSET RuleIds
  PROVE  LET later == SubSeq(<<raised>> \o recent, 1, MinCooldown) IN
         /\ later \in [1 .. MinCooldown -> SUBSET RuleIds]
         /\ later[1] = raised
         /\ \A i \in 2 .. MinCooldown : later[i] = recent[i - 1]
<1>1. MinCooldown \in Nat /\ MinCooldown >= 1
  BY AlertsAssumption
<1>2. recent \in Seq(SUBSET RuleIds) /\ Len(recent) = MinCooldown
  BY <1>1
<1>3. <<raised>> \in Seq(SUBSET RuleIds) /\ Len(<<raised>>) = 1 /\ <<raised>>[1] = raised
  OBVIOUS
<1> DEFINE longer == <<raised>> \o recent
<1>4. /\ longer \in Seq(SUBSET RuleIds) /\ Len(longer) = MinCooldown + 1
      /\ longer[1] = raised /\ \A i \in 2 .. MinCooldown : longer[i] = recent[i - 1]
  BY <1>1, <1>2, <1>3
<1> HIDE DEF longer
<1> DEFINE later == SubSeq(longer, 1, MinCooldown)
<1>5. later \in Seq(SUBSET RuleIds) /\ Len(later) = MinCooldown
      /\ \A i \in 1 .. MinCooldown : later[i] = longer[i]
  BY <1>1, <1>4
<1> HIDE DEF later
<1>6. later \in [1 .. MinCooldown -> SUBSET RuleIds] /\ later[1] = raised
      /\ \A i \in 2 .. MinCooldown : later[i] = recent[i - 1]
  BY <1>1, <1>4, <1>5
<1> QED BY <1>6 DEF later, longer

LEMMA AlertsStaySpaced ==
  ASSUME RulesTyped, Spaced, [AlertsNext]_alertsVars
  PROVE  Spaced'
<1>1. CASE UNCHANGED evaluation
  BY <1>1 DEF evaluation, Spaced, AlertsAreSpaced
<1>2. CASE Tick
  <2>1. PICK raised \in SUBSET (DOMAIN rules) :
          /\ \A r \in raised : CooledDown(r)
          /\ age' = NextAge(raised)
          /\ recent' = SubSeq(<<raised>> \o recent, 1, MinCooldown)
    BY <1>2 DEF Tick
  <2>2. raised \in SUBSET RuleIds
        /\ \A r \in raised : rules[r].cooldown \in Nat /\ rules[r].cooldown >= MinCooldown
    BY AlertsAssumption DEF RulesTyped, RuleMaps, AlertRules
  <2>3. \A r \in raised : age[r] >= MinCooldown
    BY <2>1, <2>2, AlertsAssumption DEF CooledDown, Spaced
  <2>4. MinCooldown \in Nat /\ MaxCooldown \in Nat /\ MinCooldown >= 1
        /\ MinCooldown <= MaxCooldown
    BY AlertsAssumption
  <2>5. /\ recent' \in [1 .. MinCooldown -> SUBSET RuleIds]
        /\ recent'[1] = raised
        /\ \A i \in 2 .. MinCooldown : recent'[i] = recent[i - 1]
    BY <2>1, <2>2, RecentShifts DEF Spaced
  <2>6. age' \in [RuleIds -> Nat]
        /\ \A r \in RuleIds : age'[r] <= age[r] + 1 /\ (r \in raised => age'[r] = 1)
    BY <2>1, <2>4 DEF NextAge, Spaced
  <2>7. ASSUME NEW i \in 1 .. MinCooldown, NEW r \in recent'[i] PROVE age'[r] <= i
    <3>1. CASE i = 1
      BY <2>2, <2>5, <2>6, <3>1
    <3>2. CASE i # 1
      <4>1. i \in 2 .. MinCooldown /\ i - 1 \in 1 .. MinCooldown /\ r \in recent[i - 1]
        BY <2>4, <2>5, <3>2
      <4>2. r \in RuleIds /\ age[r] <= i - 1 /\ age[r] \in Nat
        BY <4>1 DEF Spaced
      <4> QED BY <2>6, <4>1, <4>2
    <3> QED BY <3>1, <3>2
  <2>8. ASSUME NEW i \in 1 .. MinCooldown, NEW j \in 1 .. MinCooldown, i < j
        PROVE  recent'[i] \intersect recent'[j] = {}
    <3>1. j \in 2 .. MinCooldown /\ j - 1 \in 1 .. MinCooldown
      BY <2>4, <2>8
    <3>2. recent'[j] = recent[j - 1]
      BY <2>5, <3>1
    <3>3. CASE i = 1
      <4>1. \A r \in recent[j - 1] : age[r] <= j - 1 /\ age[r] \in Nat
        BY <3>1 DEF Spaced
      <4> QED BY <2>3, <2>4, <2>5, <3>1, <3>2, <3>3, <4>1
    <3>4. CASE i # 1
      <4>1. i \in 2 .. MinCooldown /\ i - 1 \in 1 .. MinCooldown /\ i - 1 # j - 1
        BY <2>4, <2>8, <3>4
      <4>2. DOMAIN recent = 1 .. MinCooldown
        BY DEF Spaced
      <4> QED BY <2>5, <3>1, <3>2, <4>1, <4>2 DEF Spaced, AlertsAreSpaced
    <3> QED BY <3>3, <3>4
  <2>9. AlertsAreSpaced'
    <3>1. DOMAIN recent' = 1 .. MinCooldown
      BY <2>5
    <3>2. \A i, j \in 1 .. MinCooldown : i # j => i < j \/ j < i
      BY <2>4
    <3> QED BY <2>8, <3>1, <3>2 DEF AlertsAreSpaced
  <2> QED BY <2>5, <2>6, <2>7, <2>9 DEF Spaced
<1>3. CASE Restart
  BY <1>3, SilenceIsSpaced, AlertsAssumption DEF Restart, Spaced, Silence, AlertsAreSpaced
<1> QED BY <1>1, <1>2, <1>3
        DEF AlertsNext, alertsVars, HandleDepth, RestSnapshot, CreateRule, UpdateRule,
            DeleteRule, SaveFires, WriteBegins, WriteEnds, SaveFails

(* Whatever is done to the rules in between, no rule alerts twice within   *)
(* the shortest cooldown.                                                  *)
THEOREM AlertsSpaced == AlertsSpec => []AlertsAreSpaced
<1>1. AlertsInit => RulesTyped /\ Spaced
  BY RulesBeginTyped, SilenceIsSpaced DEF AlertsInit
<1>2. RulesTyped /\ Spaced /\ [AlertsNext]_alertsVars => (RulesTyped /\ Spaced)'
  BY RulesStayTyped, AlertsStaySpaced
<1>3. Spaced => AlertsAreSpaced
  BY DEF Spaced
<1> QED BY <1>1, <1>2, <1>3, PTL DEF AlertsSpec

-----------------------------------------------------------------------------
(* A save that began alone and still is holds the rules in force, unless   *)
(* the timer of a later one runs.                                          *)
FileFollows ==
  /\ timer \in BOOLEAN /\ damaged \in BOOLEAN
  /\ \A i \in DOMAIN saves :
       saves[i].alone => Len(saves) = 1 /\ (~timer => saves[i].rules = rules)
  /\ RulesFileFollows

LEMMA FileStaysFollowing ==
  ASSUME RulesTyped, FileFollows, [AlertsNext]_alertsVars
  PROVE  FileFollows'
<1> USE DEF FileFollows
<1>0. saves \in Seq(Saves) /\ Len(saves) \in Nat /\ DOMAIN saves = 1 .. Len(saves)
  BY DEF RulesTyped
<1>1. CASE UNCHANGED <<rules, file>>
  BY <1>1 DEF file, RulesFileFollows
<1>2. ASSUME timer', damaged' \in BOOLEAN,
             DOMAIN saves' = DOMAIN saves, Len(saves') = Len(saves),
             \A i \in DOMAIN saves : saves'[i].alone = saves[i].alone
      PROVE  FileFollows'
  BY <1>2 DEF RulesFileFollows
<1>3. ASSUME NEW r \in RuleIds, NEW input \in Inputs, CreateRule(r, input) PROVE FileFollows'
  BY <1>2, <1>3 DEF CreateRule, SaveAlertRules
<1>4. ASSUME NEW r \in RuleIds, NEW patch \in Patches, UpdateRule(r, patch) PROVE FileFollows'
  <2>1. saves' = [i \in DOMAIN saves |->
          IF saves[i].stage = "mkdir" /\ r \in DOMAIN saves[i].rules
          THEN [saves[i] EXCEPT !.rules[r] = Patched(@, patch)] ELSE saves[i]]
    BY <1>4 DEF UpdateRule
  <2>2. DOMAIN saves' = DOMAIN saves /\ Len(saves') = Len(saves)
    BY <1>0, <2>1
  <2>3. ASSUME NEW i \in DOMAIN saves PROVE saves'[i].alone = saves[i].alone
    <3>1. saves[i] \in Saves
      BY <1>0
    <3>2. "alone" \in DOMAIN saves[i]
      BY <3>1 DEF Saves
    <3> QED BY <2>1, <3>2
  <2> QED BY <1>2, <1>4, <2>2, <2>3 DEF UpdateRule, SaveAlertRules
<1>5. ASSUME NEW r \in RuleIds, DeleteRule(r) PROVE FileFollows'
  BY <1>2, <1>5 DEF DeleteRule, SaveAlertRules
<1>6. CASE SaveFires
  <2>1. /\ timer' = FALSE /\ damaged' = damaged /\ rules' = rules
        /\ saves' = [i \in 1 .. Len(saves) + 1 |->
             IF i <= Len(saves) THEN [saves[i] EXCEPT !.alone = FALSE]
             ELSE [stage |-> "mkdir", rules |-> rules, alone |-> saves = <<>>]]
    BY <1>6 DEF SaveFires
  <2>2. DOMAIN saves' = 1 .. Len(saves) + 1 /\ Len(saves') = Len(saves) + 1 /\ saves' # <<>>
    BY <1>0, <2>1
  <2>3. ASSUME NEW i \in DOMAIN saves', saves'[i].alone
        PROVE  i = 1 /\ saves = <<>> /\ saves'[i].rules = rules
    <3>1. CASE i <= Len(saves)
      <4>1. i \in DOMAIN saves
        BY <1>0, <2>2, <3>1
      <4>2. saves[i] \in Saves
        BY <1>0, <4>1
      <4>3. saves'[i] = [saves[i] EXCEPT !.alone = FALSE] /\ "alone" \in DOMAIN saves[i]
        BY <2>1, <2>2, <3>1, <4>2 DEF Saves
      <4> QED BY <2>3, <4>3
    <3>2. CASE ~(i <= Len(saves))
      <4>1. saves'[i] = [stage |-> "mkdir", rules |-> rules, alone |-> saves = <<>>]
        BY <2>1, <2>2, <3>2
      <4>2. saves'[i].rules = rules
        BY <4>1
      <4>3. saves'[i].alone = (saves = <<>>)
        BY <4>1
      <4>4. saves = <<>>
        BY <2>3, <4>3
      <4> QED BY <1>0, <2>2, <4>2, <4>4
    <3> QED BY <3>1, <3>2
  <2>4. RulesFileFollows'
    BY <2>2 DEF RulesFileFollows
  <2>5. saves = <<>> => Len(saves') = 1
    BY <2>2
  <2> QED BY <2>1, <2>3, <2>4, <2>5
<1>7. ASSUME NEW i \in DOMAIN saves, WriteBegins(i) PROVE FileFollows'
  <2>1. /\ saves' = [saves EXCEPT ![i].stage = "writing"] /\ UNCHANGED <<rules, timer, damaged>>
    BY <1>7 DEF WriteBegins
  <2>2. DOMAIN saves' = DOMAIN saves /\ Len(saves') = Len(saves) /\ saves' # <<>>
    BY <1>0, <2>1
  <2>3. ASSUME NEW j \in DOMAIN saves
        PROVE  saves'[j].alone = saves[j].alone /\ saves'[j].rules = saves[j].rules
    <3>1. saves[j] \in Saves
      BY <1>0
    <3>2. "alone" \in DOMAIN saves[j] /\ "rules" \in DOMAIN saves[j]
      BY <3>1 DEF Saves
    <3> QED BY <2>1, <3>2
  <2> QED BY <2>1, <2>2, <2>3 DEF RulesFileFollows
<1>8. ASSUME NEW i \in DOMAIN saves, WriteEnds(i) \/ SaveFails(i) PROVE FileFollows'
  <2>1. saves' = RemoveAt(saves, i) /\ UNCHANGED <<rules, timer>> /\ damaged' \in BOOLEAN
        /\ (~damaged' => saves[i].alone /\ disk' = Readable(saves[i].rules))
    <3>0. saves[i] \in Saves
      BY <1>0
    <3>1. saves[i].alone \in BOOLEAN
      BY <3>0 DEF Saves
    <3> QED BY <1>8, <3>1 DEF WriteEnds, SaveFails
  <2>2. /\ Len(saves') = Len(saves) - 1
        /\ \A j \in DOMAIN saves' : \E k \in DOMAIN saves : saves'[j] = saves[k]
    <3>1. /\ Len(RemoveAt(saves, i)) = Len(saves) - 1
          /\ \A j \in DOMAIN RemoveAt(saves, i) :
               j \in DOMAIN saves /\ j + 1 \in DOMAIN saves
               /\ RemoveAt(saves, i)[j] = IF j < i THEN saves[j] ELSE saves[j + 1]
      BY <1>0, RemoveAtType
    <3> QED BY <2>1, <3>1
  <2>3. Len(saves) # 1 => \A k \in DOMAIN saves : ~saves[k].alone
    OBVIOUS
  <2>4. CASE Len(saves) = 1
    <3>1. ~damaged' /\ ~timer => disk' = Readable(rules)
      BY <2>1
    <3>2. Len(saves') = 0 /\ saves' \in Seq(Saves)
      BY <1>0, <2>1, <2>2, <2>4, RemoveAtType
    <3>3. DOMAIN saves' = {}
      BY <3>2
    <3> QED BY <2>1, <3>1, <3>3 DEF RulesFileFollows, Restored, Readable
  <2>5. CASE Len(saves) # 1
    <3>1. saves' # <<>>
      BY <1>0, <2>2, <2>5
    <3> QED BY <2>1, <2>2, <2>3, <2>5, <3>1 DEF RulesFileFollows
  <2> QED BY <2>4, <2>5
<1>9. CASE Restart
  <2>1. saves' = <<>> /\ rules' = Restored(disk) /\ disk' = disk /\ ~timer' /\ ~damaged'
        /\ timer' \in BOOLEAN /\ damaged' \in BOOLEAN
    BY <1>9 DEF Restart
  <2>2. DOMAIN saves' = {}
    BY <2>1
  <2> QED BY <2>1, <2>2 DEF RulesFileFollows
<1>10. CASE HandleDepth \/ RestSnapshot \/ Tick \/ UNCHANGED alertsVars
  BY <1>1, <1>10 DEF HandleDepth, RestSnapshot, Tick, alertsVars
<1> QED BY <1>3, <1>4, <1>5, <1>6, <1>7, <1>8, <1>9, <1>10 DEF AlertsNext

(* Once no save is due or under way, a restart brings back the rules in    *)
(* force, unless the last save failed or ran beside another.               *)
THEOREM RulesFileFollowsRules == AlertsSpec => []RulesFileFollows
<1>1. AlertsInit => RulesTyped /\ FileFollows
  <2> SUFFICES ASSUME AlertsInit PROVE RulesTyped /\ FileFollows
    OBVIOUS
  <2>1. DOMAIN saves = {}
    BY DEF AlertsInit
  <2> QED BY <2>1, RulesBeginTyped
          DEF AlertsInit, FileFollows, RulesFileFollows, Restored, Unreadable
<1>2. RulesTyped /\ FileFollows /\ [AlertsNext]_alertsVars => (RulesTyped /\ FileFollows)'
  BY RulesStayTyped, FileStaysFollowing
<1>3. FileFollows => RulesFileFollows
  BY DEF FileFollows
<1> QED BY <1>1, <1>2, <1>3, PTL DEF AlertsSpec

-----------------------------------------------------------------------------
(* The walls a frame's transitions tell of, one transition at a time.      *)
ToldOne(walls, t) ==
  IF t.kind = "appeared" THEN walls \cup {t.level} ELSE walls \ {t.level}

LEMMA ToldOneType ==
  ASSUME NEW w \in SUBSET Levels, NEW t \in WallTransitions
  PROVE  ToldOne(w, t) \in SUBSET Levels
BY DEF ToldOne, WallTransitions

LEMMA ToldStepByStep ==
  ASSUME NEW w \in SUBSET Levels, NEW q \in Seq(WallTransitions)
  PROVE  \E a \in [0 .. Len(q) -> SUBSET Levels] :
           /\ a[0] = w
           /\ \A k \in 1 .. Len(q) : a[k] = ToldOne(a[k - 1], q[k])
           /\ Told(w, q) = a[Len(q)]
<1> DEFINE n == Len(q)
           V == SUBSET Levels
           step == [k \in 1 .. n |-> [u \in V |-> ToldOne(u, q[k])]]
           h == CHOOSE f : f = [s \in SUBSET (DOMAIN q) |->
                                  IF s = {} THEN w ELSE ToldOne(f[s \ {Max(s)}], q[Max(s)])]
<1>1. n \in Nat /\ DOMAIN q = 1 .. n /\ \A k \in 1 .. n : q[k] \in WallTransitions
  OBVIOUS
<1>2. step \in [1 .. n -> [V -> V]] /\ w \in V
  BY <1>1, ToldOneType
<1>3. PICK g \in [SUBSET (1 .. n) -> V] :
        \A s \in SUBSET (1 .. n) :
          g[s] = IF s = {} THEN w ELSE step[Max(s)][g[s \ {Max(s)}]]
  <2> HIDE DEF n, step, h, V
  <2>1. Recursion(n, V, w, step)
    BY <1>1, <1>2, FoldRecursion
  <2> QED BY <2>1 DEF Recursion
<1>4. \A s \in SUBSET (1 .. n) : s # {} => Max(s) \in 1 .. n
  <2> HIDE DEF n
  <2> QED BY <1>1, GreatestElement
<1>5. g = [s \in SUBSET (DOMAIN q) |->
             IF s = {} THEN w ELSE ToldOne(g[s \ {Max(s)}], q[Max(s)])]
  <2>1. ASSUME NEW s \in SUBSET (1 .. n)
        PROVE  g[s] = IF s = {} THEN w ELSE ToldOne(g[s \ {Max(s)}], q[Max(s)])
    <3>1. s # {} => g[s \ {Max(s)}] \in V
      BY <1>3
    <3> QED BY <1>3, <1>4, <3>1
  <2> HIDE DEF n
  <2> QED BY <1>1, <1>3, <2>1
<1>6. h = [s \in SUBSET (DOMAIN q) |->
             IF s = {} THEN w ELSE ToldOne(h[s \ {Max(s)}], q[Max(s)])]
  BY <1>5
<1>7. Told(w, q) = h[DOMAIN q]
  BY Zenon DEF Told, FoldLeft, MapThenFoldSet, Max, ToldOne
<1> HIDE DEF h
<1> DEFINE a == [k \in 0 .. n |-> h[1 .. k]]
           T == {k \in 0 .. n : a[k] \in V}
<1>8. a[0] = w
  <2>1. 1 .. 0 = {} /\ {} \in SUBSET (DOMAIN q) /\ 0 \in 0 .. n
    BY <1>1
  <2>2. h[{}] = w
    BY <1>6, <2>1
  <2> QED BY <2>1, <2>2
<1>9. ASSUME NEW k \in 1 .. n PROVE a[k] = ToldOne(a[k - 1], q[k])
  <2>1. k \in 0 .. n /\ k - 1 \in 0 .. n
    BY <1>1
  <2>2. /\ 1 .. k \in SUBSET (DOMAIN q) /\ 1 .. k # {}
        /\ Max(1 .. k) = k /\ (1 .. k) \ {k} = 1 .. (k - 1)
    <3> HIDE DEF n
    <3> QED BY <1>1, PrefixSplit
  <2>3. h[1 .. k] = ToldOne(h[1 .. (k - 1)], q[k])
    BY <1>6, <2>2
  <2> QED BY <2>1, <2>3
<1>10. ASSUME NEW k \in 1 .. n, k - 1 \in T PROVE k \in T
  <2>1. a[k - 1] \in V /\ q[k] \in WallTransitions /\ k \in 0 .. n
    BY <1>1, <1>10
  <2>2. a[k] \in V
    <3> HIDE DEF a
    <3> QED BY <1>9, <2>1, ToldOneType
  <2> QED BY <2>1, <2>2
<1>11. 0 .. n \subseteq T
  <2>1. 0 \in T
    BY <1>1, <1>2, <1>8
  <2> HIDE DEF T, n
  <2> QED BY <1>1, <1>10, <2>1, IntervalInduction
<1>12. a \in [0 .. n -> V]
  <2>1. \A k \in 0 .. n : a[k] \in V
    <3> HIDE DEF a
    <3> QED BY <1>11
  <2> QED BY <2>1
<1>13. Told(w, q) = a[n]
  BY <1>1, <1>7
<1> HIDE DEF a
<1> QED BY <1>8, <1>9, <1>12, <1>13

(* The steps are determined, and a prefix takes the first of them.         *)
Steps(w, q, a) == a[0] = w /\ \A k \in 1 .. Len(q) : a[k] = ToldOne(a[k - 1], q[k])

LEMMA ToldPrefix ==
  ASSUME NEW w \in SUBSET Levels, NEW q \in Seq(WallTransitions),
         NEW a, Steps(w, q, a)
  PROVE  \A n \in 0 .. Len(q) : Told(w, SubSeq(q, 1, n)) = a[n]
<1> USE DEF Steps
<1> TAKE n \in 0 .. Len(q)
<1> DEFINE p == SubSeq(q, 1, n)
<1>1. p \in Seq(WallTransitions) /\ Len(p) = n /\ \A k \in 1 .. n : p[k] = q[k]
  OBVIOUS
<1> HIDE DEF p
<1>2. PICK b \in [0 .. n -> SUBSET Levels] :
        /\ b[0] = w
        /\ \A k \in 1 .. n : b[k] = ToldOne(b[k - 1], p[k])
        /\ Told(w, p) = b[n]
  BY <1>1, ToldStepByStep
<1> DEFINE T == {k \in 0 .. n : a[k] = b[k]}
<1>3. 0 \in T
  BY <1>2
<1>4. ASSUME NEW k \in 1 .. n, k - 1 \in T PROVE k \in T
  <2>1. k \in 1 .. Len(q) /\ k \in 0 .. n
    OBVIOUS
  <2> QED BY <1>1, <1>2, <1>4, <2>1
<1>5. n \in T
  <2> HIDE DEF T
  <2>1. 0 .. n \subseteq T
    <3>1. n \in Nat
      OBVIOUS
    <3> QED BY <1>3, <1>4, <3>1, IntervalInduction
  <2>2. n \in 0 .. n
    OBVIOUS
  <2> QED BY <2>1, <2>2
<1> QED BY <1>2, <1>5 DEF p

(* Every transition is news: a wall that was not known, or one that was.   *)
News(w, q) ==
  \A i \in DOMAIN q :
    q[i].kind = "appeared" <=> q[i].level \notin Told(w, SubSeq(q, 1, i - 1))

LEMMA ToldNothing == ASSUME NEW w \in SUBSET Levels PROVE Told(w, <<>>) = w /\ News(w, <<>>)
<1>1. <<>> \in Seq(WallTransitions) /\ Len(<<>>) = 0 /\ DOMAIN <<>> = {}
  OBVIOUS
<1>2. PICK a \in [0 .. Len(<<>>) -> SUBSET Levels] :
        a[0] = w /\ Told(w, <<>>) = a[Len(<<>>)]
  BY <1>1, ToldStepByStep
<1>3. News(w, <<>>)
  BY <1>1 DEF News
<1> QED BY <1>1, <1>2, <1>3

LEMMA ToldType ==
  ASSUME NEW w \in SUBSET Levels, NEW q \in Seq(WallTransitions)
  PROVE  Told(w, q) \in SUBSET Levels
<1>1. Len(q) \in 0 .. Len(q)
  OBVIOUS
<1>2. PICK a \in [0 .. Len(q) -> SUBSET Levels] : Told(w, q) = a[Len(q)]
  BY ToldStepByStep
<1> QED BY <1>1, <1>2

(* SetToSeq() writes a finite set down without a repetition.               *)
LEMMA TransitionsOfType ==
  ASSUME NEW kind \in WallStates, NEW levels \in SUBSET Levels
  PROVE  LET t == TransitionsOf(kind, levels) IN
         /\ t \in Seq(WallTransitions)
         /\ \A i \in DOMAIN t : t[i].kind = kind /\ t[i].level \in levels
         /\ \A i, j \in DOMAIN t : t[i].level = t[j].level => i = j
         /\ \A l \in levels : \E i \in DOMAIN t : t[i].level = l
<1> DEFINE Of(l) == [kind |-> kind, level |-> l]
           S == {Of(l) : l \in levels}
           n == Cardinality(S)
           t == TransitionsOf(kind, levels)
<1>1. IsFiniteSet(levels)
  <2>1. IsFiniteSet(Levels)
    BY AlertsAssumption
  <2> QED BY <2>1, FS_Subset
<1>2. IsFiniteSet(S)
  <2> DEFINE f == [l \in levels |-> Of(l)]
  <2>1. f \in Surjection(levels, S)
    BY DEF Surjection
  <2> HIDE DEF f, S
  <2> QED BY <1>1, <2>1, FS_Surjection
<1>3. n \in Nat /\ ExistsBijection(1 .. n, S)
  <2> HIDE DEF S
  <2> QED BY <1>2, FS_CardinalityType
<1>4. \E f \in [1 .. n -> S] : IsInjective(f)
  BY <1>3 DEF ExistsBijection, Bijection, Injection
<1>5. t = CHOOSE f \in [1 .. n -> S] : IsInjective(f)
  BY Zenon DEF TransitionsOf, Transition, SetToSeq, Cardinality,
               IsInjective
<1> HIDE DEF n, t, S
<1>6. t \in [1 .. n -> S] /\ IsInjective(t)
  BY <1>4, <1>5
<1>7. t \in Surjection(1 .. n, S)
  <2>1. t \in Injection(1 .. n, S)
    BY <1>6 DEF Injection
  <2>2. Cardinality(1 .. n) = n
    BY <1>3, FS_Interval
  <2> QED BY <1>2, <2>1, <2>2, FS_Injection DEF n
<1>8. /\ DOMAIN t = 1 .. n
      /\ \A i \in 1 .. n : t[i] \in S
      /\ \A i, j \in 1 .. n : t[i] = t[j] => i = j
      /\ \A s \in S : \E i \in 1 .. n : t[i] = s
  BY <1>6, <1>7 DEF IsInjective, Surjection
<1>9. \A s \in S : s.kind = kind /\ s.level \in levels /\ s = Of(s.level) /\ s \in WallTransitions
  BY DEF S, WallTransitions
<1>10. \A l \in levels : \E s \in S : s.level = l
  <2>1. \A l \in levels : Of(l) \in S /\ Of(l).level = l
    BY DEF S
  <2> QED BY <2>1
<1>11. t \in Seq(WallTransitions)
  <2>1. t \in [1 .. n -> WallTransitions]
    BY <1>6, <1>9
  <2> QED BY <1>3, <2>1
<1>12. \A i, j \in 1 .. n : t[i].level = t[j].level => i = j
  BY <1>8, <1>9
<1>13. \A l \in levels : \E i \in DOMAIN t : t[i].level = l
  BY <1>8, <1>10
<1> QED BY <1>8, <1>9, <1>11, <1>12, <1>13 DEF t

(* Transitions of one kind at the end of a list, about levels to which     *)
(* they are news.                                                          *)
Followed(q, kind, levels) == q \o TransitionsOf(kind, levels)

LEMMA NewsFollow ==
  ASSUME NEW w \in SUBSET Levels, NEW q \in Seq(WallTransitions),
         NEW kind \in WallStates, NEW levels \in SUBSET Levels, News(w, q),
         kind = "appeared" => levels \cap Told(w, q) = {},
         kind # "appeared" => levels \subseteq Told(w, q)
  PROVE  /\ Followed(q, kind, levels) \in Seq(WallTransitions)
         /\ News(w, Followed(q, kind, levels))
         /\ Told(w, Followed(q, kind, levels)) =
              IF kind = "appeared" THEN Told(w, q) \cup levels ELSE Told(w, q) \ levels
<1> DEFINE t == TransitionsOf(kind, levels)
           n == Len(q)
           m == Len(t)
           r == q \o t
<1>1. /\ t \in Seq(WallTransitions)
      /\ \A i \in DOMAIN t : t[i].kind = kind /\ t[i].level \in levels
      /\ \A i, j \in DOMAIN t : t[i].level = t[j].level => i = j
      /\ \A l \in levels : \E i \in DOMAIN t : t[i].level = l
  <2> HIDE DEF t
  <2> QED BY TransitionsOfType DEF t
<1> HIDE DEF t
<1>2. n \in Nat /\ m \in Nat /\ DOMAIN q = 1 .. n /\ DOMAIN t = 1 .. m
  BY <1>1
<1>3. /\ r \in Seq(WallTransitions) /\ Len(r) = n + m /\ DOMAIN r = 1 .. n + m
      /\ \A i \in 1 .. n : r[i] = q[i]
      /\ \A i \in n + 1 .. n + m : i - n \in 1 .. m /\ r[i] = t[i - n]
  BY <1>1
<1> HIDE DEF r
<1>4. PICK a \in [0 .. n -> SUBSET Levels] :
        /\ a[0] = w
        /\ \A k \in 1 .. n : a[k] = ToldOne(a[k - 1], q[k])
        /\ Told(w, q) = a[n]
  BY ToldStepByStep
<1> HIDE DEF n, m
<1> DEFINE Newest(k) == {t[i].level : i \in 1 .. (k - n)}
           b == [k \in 0 .. n + m |->
                   IF k <= n THEN a[k]
                   ELSE IF kind = "appeared" THEN a[n] \cup Newest(k) ELSE a[n] \ Newest(k)]
<1>5. ASSUME NEW k \in n .. n + m
      PROVE  b[k] = IF kind = "appeared" THEN a[n] \cup Newest(k) ELSE a[n] \ Newest(k)
  <2>1. CASE k = n
    <3>1. Newest(k) = {}
      BY <1>2, <2>1
    <3>2. k \in 0 .. n + m
      BY <1>2
    <3> HIDE DEF Newest
    <3> QED BY <1>2, <2>1, <3>1, <3>2
  <2>2. CASE k # n
    <3>1. k \in 0 .. n + m /\ ~(k <= n)
      BY <1>2, <2>2
    <3> HIDE DEF Newest
    <3> QED BY <3>1
  <2> QED BY <2>1, <2>2
<1>6. ASSUME NEW k \in n + 1 .. n + m
      PROVE  Newest(k) = Newest(k - 1) \cup {t[k - n].level} /\ k - n \in 1 .. m
             /\ k - 1 \in n .. n + m /\ k \in n .. n + m
  <2>1. 1 .. (k - n) = 1 .. ((k - 1) - n) \cup {k - n}
    BY <1>2
  <2> QED BY <1>2, <2>1
<1>7. ASSUME NEW k \in 1 .. n + m PROVE b[k] = ToldOne(b[k - 1], r[k])
  <2>1. CASE k <= n
    <3>1. k \in 1 .. n /\ k \in 0 .. n + m /\ k - 1 \in 0 .. n + m /\ k - 1 <= n
      BY <1>2, <2>1
    <3>2. b[k] = a[k] /\ b[k - 1] = a[k - 1]
      BY <2>1, <3>1
    <3> QED BY <1>3, <1>4, <3>1, <3>2
  <2>2. CASE ~(k <= n)
    <3>1. k \in n + 1 .. n + m
      BY <1>2, <2>2
    <3>2. r[k] = t[k - n] /\ t[k - n].kind = kind
      BY <1>1, <1>2, <1>3, <3>1
    <3>3. /\ b[k] = IF kind = "appeared" THEN a[n] \cup Newest(k) ELSE a[n] \ Newest(k)
          /\ b[k - 1] = IF kind = "appeared" THEN a[n] \cup Newest(k - 1) ELSE a[n] \ Newest(k - 1)
      <4> HIDE DEF b
      <4> QED BY <1>5, <1>6, <3>1
    <3>4. Newest(k) = Newest(k - 1) \cup {t[k - n].level}
      BY <1>6, <3>1
    <3> HIDE DEF b, Newest
    <3> QED BY <3>2, <3>3, <3>4 DEF ToldOne
  <2> QED BY <2>1, <2>2
<1>8. b[0] = w
  BY <1>2, <1>4
<1>9. \A k \in 0 .. n + m : Told(w, SubSeq(r, 1, k)) = b[k]
  <2> HIDE DEF b
  <2>1. \A i \in 1 .. Len(r) : b[i] = ToldOne(b[i - 1], r[i])
    BY <1>3, <1>7
  <2>2. r \in Seq(WallTransitions)
    BY <1>3
  <2>3. Steps(w, r, b)
    BY <1>8, <2>1 DEF Steps
  <2>4. \A k \in 0 .. Len(r) : Told(w, SubSeq(r, 1, k)) = b[k]
    BY <2>2, <2>3, ToldPrefix
  <2> QED BY <1>3, <2>4
<1>10. \A k \in 0 .. n : Told(w, SubSeq(q, 1, k)) = a[k] /\ b[k] = a[k]
  <2>1. Steps(w, q, a)
    BY <1>4 DEF Steps, n
  <2>2. \A k \in 0 .. n : Told(w, SubSeq(q, 1, k)) = a[k]
    BY <2>1, ToldPrefix DEF n
  <2> QED BY <1>2, <2>2
<1>11. News(w, r)
  <2> SUFFICES ASSUME NEW i \in 1 .. n + m
               PROVE  r[i].kind = "appeared" <=> r[i].level \notin b[i - 1]
    <3> HIDE DEF b
    <3>1. \A i \in 1 .. n + m : i - 1 \in 0 .. n + m
      BY <1>2
    <3> QED BY <1>3, <1>9, <3>1 DEF News
  <2>1. CASE i <= n
    <3>1. i \in 1 .. n /\ i - 1 \in 0 .. n
      BY <1>2, <2>1
    <3>2. i \in DOMAIN q
      BY <1>2, <3>1
    <3>3. q[i].kind = "appeared" <=> q[i].level \notin Told(w, SubSeq(q, 1, i - 1))
      BY <3>2 DEF News
    <3>4. Told(w, SubSeq(q, 1, i - 1)) = b[i - 1]
      <4> HIDE DEF b
      <4> QED BY <1>10, <3>1
    <3>5. r[i] = q[i]
      BY <1>3, <3>1
    <3> HIDE DEF b
    <3> QED BY <3>3, <3>4, <3>5
  <2>2. CASE ~(i <= n)
    <3>1. i \in n + 1 .. n + m
      BY <1>2, <2>2
    <3>2. r[i].kind = kind /\ r[i].level = t[i - n].level /\ i - n \in 1 .. m
          /\ r[i].level \in levels
      <4>1. r[i] = t[i - n] /\ i - n \in 1 .. m
        BY <1>3, <3>1
      <4>2. i - n \in DOMAIN t
        BY <1>2, <4>1
      <4> QED BY <1>1, <4>1, <4>2
    <3>3. t[i - n].level \notin Newest(i - 1)
      <4>1. \A j \in 1 .. ((i - 1) - n) : j \in 1 .. m /\ j # i - n
        BY <1>2, <3>1
      <4>2. \A j \in 1 .. m : t[j].level = t[i - n].level => j = i - n
        BY <1>1, <1>2, <3>2
      <4> QED BY <4>1, <4>2
    <3>4. b[i - 1] = IF kind = "appeared" THEN a[n] \cup Newest(i - 1) ELSE a[n] \ Newest(i - 1)
      <4> HIDE DEF b
      <4> QED BY <1>5, <1>6, <3>1
    <3> HIDE DEF b, Newest
    <3> QED BY <1>4, <3>2, <3>3, <3>4
  <2> QED BY <2>1, <2>2
<1>12. Told(w, r) = b[n + m]
  <2>1. SubSeq(r, 1, n + m) = r /\ n + m \in 0 .. n + m
    BY <1>2, <1>3
  <2> HIDE DEF b
  <2> QED BY <1>9, <2>1
<1>13. Newest(n + m) = levels
  <2>1. (n + m) - n = m
    BY <1>2
  <2> QED BY <1>1, <1>2, <2>1
<1>14. b[n + m] = IF kind = "appeared" THEN a[n] \cup levels ELSE a[n] \ levels
  <2>1. n + m \in n .. n + m
    BY <1>2
  <2>2. b[n + m] = IF kind = "appeared" THEN a[n] \cup Newest(n + m) ELSE a[n] \ Newest(n + m)
    <3> HIDE DEF b
    <3> QED BY <1>5, <2>1
  <2> HIDE DEF b, Newest
  <2> QED BY <1>13, <2>2
<1> HIDE DEF b, Newest
<1> QED BY <1>3, <1>4, <1>11, <1>12, <1>14 DEF r, t, Followed

-----------------------------------------------------------------------------
LEMMA GoneFollow ==
  ASSUME NEW w \in SUBSET Levels, NEW q \in Seq(WallTransitions),
         NEW levels \in SUBSET Levels, News(w, q), levels \subseteq Told(w, q)
  PROVE  /\ News(w, Followed(q, "disappeared", levels))
         /\ Told(w, Followed(q, "disappeared", levels)) = Told(w, q) \ levels
<1>1. PICK kind \in WallStates : kind = "disappeared" /\ kind # "appeared"
  BY DEF WallStates
<1>2. /\ News(w, Followed(q, kind, levels))
      /\ Told(w, Followed(q, kind, levels)) = Told(w, q) \ levels
  <2>1. /\ kind # "appeared" /\ (kind = "appeared" => levels \cap Told(w, q) = {})
        /\ (kind # "appeared" => levels \subseteq Told(w, q))
    BY <1>1
  <2>2. Told(w, Followed(q, kind, levels)) =
          IF kind = "appeared" THEN Told(w, q) \cup levels ELSE Told(w, q) \ levels
    BY <2>1, NewsFollow
  <2>3. News(w, Followed(q, kind, levels))
    BY <2>1, NewsFollow
  <2> QED BY <2>1, <2>2, <2>3
<1> QED BY <1>1, <1>2

WallsKnown ==
  /\ wallState \in [Levels -> {"none", "candidate", "confirmed"}]
  /\ pending \in Seq(WallTransitions) /\ heard \in SUBSET Levels /\ taken \in BOOLEAN
  /\ ~taken => Told(heard, pending) = Confirmed /\ News(heard, pending)

LEMMA UpdateKeepsWallsKnown ==
  ASSUME WallsKnown, NEW qualifying \in SUBSET Levels,
         NEW mature \in SUBSET qualifying, UpdateWalls(qualifying, mature),
         heard' = heard, taken' = taken
  PROVE  WallsKnown'
<1> DEFINE appeared == {l \in qualifying \intersect mature : wallState[l] = "candidate"}
           gone == Confirmed \ qualifying
           q == Followed(pending, "appeared", appeared)
           r == Followed(q, "disappeared", gone)
<1>1. /\ wallState' = [l \in Levels |->
           IF l \notin qualifying THEN "none"
           ELSE IF wallState[l] = "none" THEN "candidate"
           ELSE IF l \in appeared THEN "confirmed" ELSE wallState[l]]
      /\ pending' = r
  BY DEF UpdateWalls, Disappeared, Followed
<1>2. /\ appeared \in SUBSET Levels /\ gone \in SUBSET Levels
      /\ "appeared" \in WallStates /\ "disappeared" \in WallStates
      /\ appeared \cap Confirmed = {} /\ gone \subseteq Confirmed /\ appeared \cap gone = {}
  BY DEF Confirmed, WallStates
<1>3. Confirmed' = (Confirmed \cup appeared) \ gone
      /\ wallState' \in [Levels -> {"none", "candidate", "confirmed"}]
  BY <1>1 DEF Confirmed, WallsKnown
<1>4. /\ pending \in Seq(WallTransitions) /\ heard \in SUBSET Levels /\ taken \in BOOLEAN
      /\ ~taken => Told(heard, pending) = Confirmed /\ News(heard, pending)
  BY DEF WallsKnown
<1>5. r \in Seq(WallTransitions)
  <2> HIDE DEF appeared, gone
  <2>1. /\ TransitionsOf("appeared", appeared) \in Seq(WallTransitions)
        /\ TransitionsOf("disappeared", gone) \in Seq(WallTransitions)
    BY <1>2, TransitionsOfType
  <2> QED BY <1>4, <2>1 DEF Followed
<1> HIDE DEF appeared, gone
<1>6. CASE ~taken
  <2>1. /\ q \in Seq(WallTransitions) /\ News(heard, q)
        /\ Told(heard, q) = Confirmed \cup appeared
    <3>1. appeared \cap Told(heard, pending) = {}
      BY <1>2, <1>4, <1>6
    <3> QED BY <1>2, <1>4, <1>6, <3>1, NewsFollow
  <2> HIDE DEF q
  <2>2. /\ News(heard, r) /\ Told(heard, r) = (Confirmed \cup appeared) \ gone
    <3>1. gone \subseteq Told(heard, q) /\ "disappeared" # "appeared"
      BY <1>2, <2>1
    <3>2. heard \in SUBSET Levels /\ gone \in SUBSET Levels /\ q \in Seq(WallTransitions)
          /\ News(heard, q)
      BY <1>2, <1>4, <2>1
    <3>3. News(heard, r) /\ Told(heard, r) = Told(heard, q) \ gone
      BY <3>1, <3>2, GoneFollow
    <3> QED BY <2>1, <3>3
  <2> HIDE DEF r
  <2> QED BY <1>1, <1>3, <1>4, <1>5, <2>2 DEF WallsKnown, News
<1>7. CASE taken
  BY <1>1, <1>3, <1>4, <1>5, <1>7 DEF WallsKnown
<1> QED BY <1>6, <1>7, <1>4

LEMMA WallsStayKnown ==
  ASSUME WallsKnown, [AlertsNext]_alertsVars
  PROVE  WallsKnown'
<1>1. CASE UNCHANGED <<wallState, pending, heard, taken>>
  BY <1>1 DEF WallsKnown, Confirmed, News
<1>2. <<>> \in Seq(WallTransitions)
  OBVIOUS
<1>3. CASE HandleDepth
  <2>1. CASE UNCHANGED <<wallState, pending>>
    BY <1>1, <1>3, <2>1 DEF HandleDepth
  <2>2. ASSUME NEW qualifying \in SUBSET Levels, NEW mature \in SUBSET qualifying,
               UpdateWalls(qualifying, mature)
        PROVE  WallsKnown'
    BY <1>3, <2>2, UpdateKeepsWallsKnown DEF HandleDepth
  <2> QED BY <1>3, <2>1, <2>2 DEF HandleDepth
<1>4. CASE RestSnapshot
  <2>1. CASE pending = <<>>
    <3>1. taken' = taken /\ pending' = pending
      BY <1>4, <2>1 DEF RestSnapshot, WallsKnown
    <3> QED BY <1>1, <1>4, <3>1 DEF RestSnapshot
  <2>2. CASE pending # <<>>
    BY <1>2, <1>4, <2>2 DEF RestSnapshot, WallsKnown
  <2> QED BY <2>1, <2>2
<1>5. CASE Tick
  <2>1. PICK frame \in BOOLEAN : BuildFrame(frame) /\ wallState' = wallState /\ taken' = taken
    BY <1>5 DEF Tick
  <2>2. CASE ~frame
    BY <1>1, <2>1, <2>2 DEF BuildFrame
  <2>3. CASE frame
    <3>1. heard' = Told(heard, pending) /\ pending' = <<>>
      BY <2>1, <2>3 DEF BuildFrame
    <3>2. heard' \in SUBSET Levels
      BY <3>1, ToldType DEF WallsKnown
    <3>3. Told(heard, pending)' = heard' /\ News(heard, pending)'
      <4>1. Told(heard', <<>>) = heard' /\ News(heard', <<>>)
        BY <3>2, ToldNothing
      <4> QED BY <3>1, <4>1 DEF News
    <3>4. Confirmed' = Confirmed
      BY <2>1 DEF Confirmed
    <3> QED BY <1>2, <2>1, <3>1, <3>2, <3>3, <3>4 DEF WallsKnown
  <2> QED BY <2>1, <2>2, <2>3
<1>6. CASE Restart
  <2>1. Told({}, <<>>) = {} /\ News({}, <<>>)
    BY ToldNothing
  <2>2. Told(heard, pending)' = {} /\ News(heard, pending)' /\ Confirmed' = {}
    BY <1>6, <2>1 DEF Restart, News, Confirmed
  <2> QED BY <1>2, <1>6, <2>2 DEF Restart, WallsKnown
<1> QED BY <1>1, <1>3, <1>4, <1>5, <1>6
        DEF AlertsNext, alertsVars, insight, CreateRule, UpdateRule, DeleteRule, SaveFires,
            WriteBegins, WriteEnds, SaveFails

(* What the frames have told the rules, with what the next one will, is    *)
(* exactly the confirmed walls, each told of once, until a REST snapshot   *)
(* takes transitions away.                                                 *)
THEOREM AlertsHearOfEveryWall == AlertsSpec => []AlertsKnowTheWalls
<1>1. AlertsInit => WallsKnown
  <2> SUFFICES ASSUME AlertsInit PROVE WallsKnown
    OBVIOUS
  <2>1. Told({}, <<>>) = {} /\ News({}, <<>>) /\ <<>> \in Seq(WallTransitions)
    BY ToldNothing
  <2> QED BY <2>1 DEF AlertsInit, WallsKnown, Confirmed
<1>2. WallsKnown /\ [AlertsNext]_alertsVars => WallsKnown'
  BY WallsStayKnown
<1>3. WallsKnown => AlertsKnowTheWalls
  BY DEF WallsKnown, News, AlertsKnowTheWalls
<1> QED BY <1>1, <1>2, <1>3, PTL DEF AlertsSpec

-----------------------------------------------------------------------------
(* A direction becomes active with as many strong frames behind it as it   *)
(* was pending for, and loses as many weak ones as were counted.           *)
Detectors ==
  [active : Directions \cup {"neutral"}, pending : Directions \cup {"neutral"},
   count : Nat, exits : {0, 1}]

TrendFollowsFrames ==
  /\ DOMAIN engine = {"ring", "cvd", "detector"}
  /\ engine.detector \in Detectors
  /\ frames \in [strong : [Directions -> 0 .. Confirm], weak : [Directions -> 0 .. 2]]
  /\ engine.detector.active = "neutral" =>
       \A d \in Directions :
         engine.detector.pending = d => engine.detector.count <= frames.strong[d]
  /\ \A d \in Directions :
       engine.detector.active = d /\ engine.detector.exits = 1 => frames.weak[d] >= 1

Confirmation ==
  LET was == engine.detector.active
      is == engine'.detector.active
  IN was # is =>
       \/ was = "neutral" /\ frames'.strong[is] = Confirm
       \/ is = "neutral" /\ (frames'.weak[was] = 2 \/ frames' = NoFrames)

LEMMA FreshTrend ==
  ASSUME engine = FreshEngine, frames = NoFrames
  PROVE  TrendFollowsFrames
<1>1. Confirm \in Nat /\ 0 \in 0 .. Confirm
  BY TapeAssumption
<1>2. "neutral" \notin Directions
  BY DEF Directions
<1>3. DOMAIN engine = {"ring", "cvd", "detector"} /\ engine.detector = NeutralDetector
  BY DEF FreshEngine
<1>4. NeutralDetector \in Detectors /\ NeutralDetector.active = "neutral"
      /\ NeutralDetector.pending = "neutral" /\ NeutralDetector.exits = 0
  BY DEF NeutralDetector, Detectors
<1>5. frames \in [strong : [Directions -> 0 .. Confirm], weak : [Directions -> 0 .. 2]]
  BY <1>1 DEF NoFrames
<1> QED BY <1>2, <1>3, <1>4, <1>5 DEF TrendFollowsFrames

LEMMA FrameKeepsTrend ==
  ASSUME TrendFollowsFrames, NEW s \in Scores, NEW stale \in BOOLEAN,
         engine' = Compute(s, stale), frames' = FramesWith(s, stale)
  PROVE  TrendFollowsFrames' /\ Confirmation
<1> DEFINE was == engine.detector
           is == engine'.detector
<1>0. /\ Confirm \in Nat /\ Confirm >= 1
      /\ Directions = {"up", "down"} /\ "neutral" \notin Directions
  BY TapeAssumption DEF Directions
<1>1. /\ DOMAIN engine' = {"ring", "cvd", "detector"}
      /\ is = UpdateTrend(was, s, FeaturesValid(stale))
  BY DEF Compute, TrendFollowsFrames
<1>2. /\ was \in Detectors
      /\ was.active \in Directions \cup {"neutral"} /\ was.pending \in Directions \cup {"neutral"}
      /\ was.count \in Nat /\ was.exits \in {0, 1}
      /\ frames.strong \in [Directions -> 0 .. Confirm] /\ frames.weak \in [Directions -> 0 .. 2]
  BY DEF TrendFollowsFrames, Detectors
<1>3. /\ NeutralDetector \in Detectors /\ NeutralDetector.active = "neutral"
      /\ NeutralDetector.pending = "neutral" /\ NeutralDetector.exits = 0
      /\ NeutralDetector.count = 0
  BY DEF NeutralDetector, Detectors
<1> HIDE DEF was, is
<1>4. CASE ~FeaturesValid(stale)
  <2>1. is = NeutralDetector /\ frames' = NoFrames
    BY <1>1, <1>4 DEF UpdateTrend, FramesWith
  <2>2. frames' \in [strong : [Directions -> 0 .. Confirm], weak : [Directions -> 0 .. 2]]
    BY <1>0, <2>1 DEF NoFrames
  <2> QED BY <1>0, <1>1, <1>3, <2>1, <2>2 DEF TrendFollowsFrames, Confirmation, is, was
<1>5. CASE FeaturesValid(stale)
  <2>1. frames' =
          [strong |-> [d \in Directions |->
                         IF Strong(s, d) THEN Capped(frames.strong[d], Confirm) ELSE 0],
           weak |-> [d \in Directions |->
                       IF Weak(s, d) THEN Capped(frames.weak[d], 2) ELSE 0]]
    BY <1>5 DEF FramesWith
  <2>2. ASSUME NEW d \in Directions
        PROVE  /\ frames.strong[d] \in 0 .. Confirm /\ frames.weak[d] \in 0 .. 2
               /\ frames'.strong[d] =
                    IF Strong(s, d) THEN Capped(frames.strong[d], Confirm) ELSE 0
               /\ frames'.weak[d] = IF Weak(s, d) THEN Capped(frames.weak[d], 2) ELSE 0
    BY <1>2, <2>1
  <2>3. \A d \in Directions : frames'.strong[d] \in 0 .. Confirm /\ frames'.weak[d] \in 0 .. 2
    BY <1>0, <2>2 DEF Capped
  <2>4. frames' \in [strong : [Directions -> 0 .. Confirm], weak : [Directions -> 0 .. 2]]
    <3>1. /\ frames'.strong = [d \in Directions |-> frames'.strong[d]]
          /\ frames'.weak = [d \in Directions |-> frames'.weak[d]]
          /\ frames' = [strong |-> frames'.strong, weak |-> frames'.weak]
      BY <2>1
    <3>2. /\ frames'.strong \in [Directions -> 0 .. Confirm]
          /\ frames'.weak \in [Directions -> 0 .. 2]
      BY <2>3, <3>1
    <3> QED BY <3>1, <3>2
  <2>5. CASE was.active = "neutral"
    <3>1. is = Enter(was, s)
      BY <1>1, <1>5, <2>5 DEF UpdateTrend
    <3>2. CASE ~\E d \in Directions : Strong(s, d)
      <4>1. is = NeutralDetector
        BY <3>1, <3>2 DEF Enter
      <4> QED BY <1>0, <1>1, <1>3, <2>4, <2>5, <4>1 DEF TrendFollowsFrames, Confirmation, is, was
    <3>3. ASSUME NEW d \in Directions, Strong(s, d)
          PROVE  TrendFollowsFrames' /\ Confirmation
      <4>1. s.candidate = d
        BY <3>3 DEF Strong
      <4> DEFINE count == IF d = was.pending THEN was.count + 1 ELSE 1
      <4>2. is = IF count >= Confirm THEN [NeutralDetector EXCEPT !.active = d]
                 ELSE [NeutralDetector EXCEPT !.pending = d, !.count = count]
        BY <3>1, <3>3, <4>1 DEF Enter
      <4>3. frames'.strong[d] = Capped(frames.strong[d], Confirm)
            /\ frames.strong[d] \in 0 .. Confirm
        BY <2>2, <3>3
      <4>4. d = was.pending => was.count <= frames.strong[d]
        BY <2>5 DEF TrendFollowsFrames, was
      <4>5. count \in Nat /\ (count >= Confirm => frames'.strong[d] = Confirm)
            /\ (count < Confirm => count <= frames'.strong[d])
        BY <1>0, <1>2, <4>3, <4>4 DEF Capped
      <4> HIDE DEF count
      <4>6. CASE count >= Confirm
        <5>1. is \in Detectors /\ is.active = d /\ is.exits = 0
          BY <4>2, <4>6 DEF NeutralDetector, Detectors
        <5> QED BY <1>0, <1>1, <2>4, <2>5, <4>5, <4>6, <5>1
                DEF TrendFollowsFrames, Confirmation, is, was
      <4>7. CASE count < Confirm
        <5>0. ~(count >= Confirm)
          BY <1>0, <4>5, <4>7
        <5>1. is \in Detectors /\ is.active = "neutral" /\ is.pending = d /\ is.count = count
              /\ is.exits = 0
          BY <4>2, <4>5, <5>0 DEF NeutralDetector, Detectors
        <5> QED BY <1>0, <1>1, <2>4, <2>5, <4>5, <4>7, <5>1
                DEF TrendFollowsFrames, Confirmation, is, was
      <4> QED BY <1>0, <4>5, <4>6, <4>7
    <3> QED BY <3>2, <3>3
  <2>6. ASSUME NEW d \in Directions, was.active = d
        PROVE  TrendFollowsFrames' /\ Confirmation
    <3>0. d # "neutral"
      BY <1>0
    <3>1. is = Exit(was, s)
      BY <1>1, <1>5, <2>6, <3>0 DEF UpdateTrend
    <3>2. /\ frames.weak[d] \in 0 .. 2
          /\ frames'.weak[d] = IF Weak(s, d) THEN Capped(frames.weak[d], 2) ELSE 0
      BY <2>2
    <3>3. was.exits = 1 => frames.weak[d] >= 1
      BY <2>6 DEF TrendFollowsFrames, was
    <3>4. CASE ~Weak(s, d)
      <4>1. is = [was EXCEPT !.exits = 0]
        BY <2>6, <3>1, <3>4 DEF Exit
      <4>2. is \in Detectors /\ is.active = d /\ is.exits = 0
        BY <1>2, <2>6, <4>1 DEF Detectors
      <4> QED BY <1>0, <1>1, <2>4, <2>6, <3>0, <4>2 DEF TrendFollowsFrames, Confirmation, is, was
    <3>5. CASE Weak(s, d) /\ was.exits = 1
      <4>1. is = NeutralDetector
        BY <2>6, <3>1, <3>5 DEF Exit
      <4>2. frames'.weak[d] = 2
        BY <3>2, <3>3, <3>5 DEF Capped
      <4> QED BY <1>0, <1>1, <1>3, <2>4, <2>6, <4>1, <4>2
              DEF TrendFollowsFrames, Confirmation, is, was
    <3>6. CASE Weak(s, d) /\ was.exits = 0
      <4>1. is = [was EXCEPT !.exits = 1]
        BY <1>2, <2>6, <3>1, <3>6 DEF Exit
      <4>2. is \in Detectors /\ is.active = d /\ is.exits = 1
        BY <1>2, <2>6, <4>1 DEF Detectors
      <4>3. frames'.weak[d] >= 1
        BY <3>2, <3>6 DEF Capped
      <4> QED BY <1>0, <1>1, <2>4, <2>6, <3>0, <4>2, <4>3
              DEF TrendFollowsFrames, Confirmation, is, was
    <3> QED BY <1>2, <3>4, <3>5, <3>6
  <2> QED BY <1>2, <2>5, <2>6
<1> QED BY <1>4, <1>5

(* The steps of the tape: many are a reset.                                *)
Resets ==
  \E unshown \in SUBSET open :
    ResetDerivedState(unshown) /\ UNCHANGED <<now, metrics, accepted, frameSeconds>>

Frames == \E s \in Scores : \E stale \in BOOLEAN : EmitFrame(s, stale)
Trades == \E mark \in Marks : \E at \in 0 .. MaxTime : ProcessTrade(mark, at)
Retunes ==
  \E bucketMs \in BOOLEAN : \E thresholds \in BOOLEAN : UpdateSettings(bucketMs, thresholds)

LEMMA TapeSteps ==
  ASSUME [TapeNext]_tapeVars
  PROVE  UNCHANGED tapeVars \/ Clock \/ Resets \/ Trades \/ Frames \/ Retunes
<1>1. open \in SUBSET open /\ (IF session.valid THEN {} ELSE open) \in SUBSET open
  OBVIOUS
<1>2. ASSUME NEW source \in {"binance", "demo"}, SwitchTo(source) PROVE Resets
  BY <1>1, <1>2 DEF SwitchTo, Resets
<1>3. ASSUME NEW renewed \in BOOLEAN, InvalidateMarketData(renewed) PROVE Resets
  BY <1>1, <1>3 DEF InvalidateMarketData, Resets
<1>4. DemoSnapshot => Resets
  BY <1>1 DEF DemoSnapshot, Resets
<1>5. Shutdown => Resets
  BY <1>1 DEF Shutdown, Resets
<1> QED BY <1>2, <1>3, <1>4, <1>5 DEF TapeNext, Frames, Trades, Retunes

LEMMA TrendStaysConfirmed ==
  ASSUME TrendFollowsFrames, [TapeNext]_tapeVars
  PROVE  TrendFollowsFrames' /\ Confirmation
<1>1. CASE UNCHANGED <<engine, frames>>
  BY <1>1 DEF TrendFollowsFrames, Confirmation
<1>2. CASE engine' = FreshEngine /\ frames' = NoFrames
  <2>1. TrendFollowsFrames'
    <3>1. /\ Confirm \in Nat /\ "neutral" \notin Directions
          /\ DOMAIN engine' = {"ring", "cvd", "detector"} /\ engine'.detector = NeutralDetector
          /\ NeutralDetector \in Detectors /\ NeutralDetector.active = "neutral"
          /\ NeutralDetector.pending = "neutral" /\ NeutralDetector.exits = 0
      BY <1>2, TapeAssumption DEF FreshEngine, NeutralDetector, Detectors, Directions
    <3>2. frames' \in [strong : [Directions -> 0 .. Confirm], weak : [Directions -> 0 .. 2]]
      BY <1>2, <3>1 DEF NoFrames
    <3> QED BY <3>1, <3>2 DEF TrendFollowsFrames
  <2>2. engine'.detector.active = "neutral"
    BY <1>2 DEF FreshEngine, NeutralDetector
  <2> QED BY <1>2, <2>1, <2>2 DEF Confirmation
<1>3. ASSUME NEW unshown, ResetDerivedState(unshown) PROVE TrendFollowsFrames' /\ Confirmation
  BY <1>2, <1>3 DEF ResetDerivedState
<1>4. ASSUME NEW mark \in Marks, NEW at \in 0 .. MaxTime, ProcessTrade(mark, at)
      PROVE  TrendFollowsFrames' /\ Confirmation
  <2>1. PICK t : engine' = OnTrade(t) /\ frames' = frames
    BY <1>4 DEF ProcessTrade
  <2>2. DOMAIN engine' = DOMAIN engine /\ engine'.detector = engine.detector
    BY <2>1 DEF OnTrade
  <2> QED BY <2>1, <2>2 DEF TrendFollowsFrames, Confirmation
<1>5. ASSUME NEW s \in Scores, NEW stale \in BOOLEAN, EmitFrame(s, stale)
      PROVE  TrendFollowsFrames' /\ Confirmation
  BY <1>5, FrameKeepsTrend DEF EmitFrame
<1>6. ASSUME NEW bucketMs \in BOOLEAN, NEW thresholds \in BOOLEAN,
             UpdateSettings(bucketMs, thresholds)
      PROVE  TrendFollowsFrames' /\ Confirmation
  BY <1>1, <1>2, <1>6 DEF UpdateSettings
<1>7. Resets => TrendFollowsFrames' /\ Confirmation
  BY <1>3 DEF Resets
<1>8. CASE UNCHANGED tapeVars \/ Clock
  BY <1>1, <1>8 DEF tapeVars, Clock
<1> QED BY <1>4, <1>5, <1>6, <1>7, <1>8, TapeSteps DEF Trades, Frames, Retunes

(* A trend begins after Confirm frames in a row that favour it strongly    *)
(* and ends after two weak ones in a row, or with the data it rests on.    *)
THEOREM TrendsAreConfirmed == TapeSpec => TrendIsConfirmed
<1>1. TapeInit => TrendFollowsFrames
  BY FreshTrend DEF TapeInit
<1>2. TrendFollowsFrames /\ [TapeNext]_tapeVars => TrendFollowsFrames'
  BY TrendStaysConfirmed
<1>3. TrendFollowsFrames /\ [TapeNext]_tapeVars => [Confirmation]_tapeVars
  BY TrendStaysConfirmed
<1> QED BY <1>1, <1>2, <1>3, PTL DEF TapeSpec, TrendIsConfirmed, Confirmation

-----------------------------------------------------------------------------
(* Seconds go by in order.                                                 *)
LEMMA SecondsInOrder ==
  ASSUME NEW t \in Nat
  PROVE  Second(t) \in Nat /\ \A u \in Nat : t <= u => Second(t) <= Second(u)
<1>1. PerSecond \in Nat /\ PerSecond > 0
  BY TapeAssumption
<1>2. ASSUME NEW a \in Nat
      PROVE  /\ a \div PerSecond \in Int
             /\ PerSecond * (a \div PerSecond) <= a
             /\ a < PerSecond * (a \div PerSecond) + PerSecond
  BY <1>1, Z3
<1>3. t \div PerSecond >= 0
  BY <1>1, <1>2, Z3
<1>4. ASSUME NEW u \in Nat, t <= u PROVE t \div PerSecond <= u \div PerSecond
  <2> DEFINE a == t \div PerSecond
             b == u \div PerSecond
  <2>1. a \in Int /\ b \in Int /\ PerSecond * a <= t /\ u < PerSecond * b + PerSecond
    BY <1>2
  <2> HIDE DEF a, b
  <2>2. PerSecond * a < PerSecond * (b + 1)
    BY <1>1, <1>4, <2>1, Z3
  <2>3. a < b + 1
    BY <1>1, <2>1, <2>2, Z3
  <2>4. a <= b
    BY <2>1, <2>3
  <2> QED BY <2>4 DEF a, b
<1> QED BY <1>2, <1>3, <1>4 DEF Second

-----------------------------------------------------------------------------
TradeRecords == [id : Nat, mark : Marks, exchange : Nat, received : Nat]

(* Trades are numbered as they are taken, each for the session of the day; *)
(* the seconds that are over lie behind the clock.                         *)
TapeTyped ==
  /\ now \in Nat /\ lastEnd \in Nat /\ lastEnd <= Second(now)
  /\ DOMAIN session = {"number", "source", "valid", "closed"} /\ session.number \in Nat
  /\ IsFiniteSet(accepted) /\ accepted \subseteq [trade : TradeRecords, session : Nat]
  /\ \A a \in accepted : a.trade.id <= Cardinality(accepted) /\ a.session <= session.number
  /\ \A a, b \in accepted : a.trade.id = b.trade.id => a = b
  /\ DOMAIN engine = {"ring", "cvd", "detector"}

LEMMA TapeBegins == ASSUME TapeInit PROVE TapeTyped
<1>1. Second(0) \in Nat
  BY SecondsInOrder
<1>2. IsFiniteSet({}) /\ Cardinality({}) = 0
  BY FS_EmptySet
<1>3. DOMAIN engine = {"ring", "cvd", "detector"}
  BY DEF TapeInit, FreshEngine
<1> QED BY <1>1, <1>2, <1>3 DEF TapeInit, TapeTyped

(* What the next trade taken adds.                                         *)
LEMMA TradeTaken ==
  ASSUME TapeTyped, NEW mark \in Marks, NEW at \in 0 .. MaxTime, ProcessTrade(mark, at)
  PROVE  \E t \in TradeRecords :
           /\ t.id = Cardinality(accepted) + 1 /\ t.received = now
           /\ engine' = OnTrade(t) /\ open' = open \cup {t} /\ intervals' = intervals \cup {t}
           /\ accepted' = accepted \cup {[trade |-> t, session |-> session.number]}
           /\ IsFiniteSet(accepted') /\ Cardinality(accepted') = Cardinality(accepted) + 1
<1> DEFINE t == [id |-> Cardinality(accepted) + 1, mark |-> mark, exchange |-> at,
                 received |-> now]
           a == [trade |-> t, session |-> session.number]
<1>1. /\ engine' = OnTrade(t) /\ open' = open \cup {t} /\ intervals' = intervals \cup {t}
      /\ accepted' = accepted \cup {a}
  BY DEF ProcessTrade
<1>2. Cardinality(accepted) \in Nat
  BY FS_CardinalityType DEF TapeTyped
<1>3. t \in TradeRecords /\ t.id = Cardinality(accepted) + 1 /\ t.received = now
  BY <1>2, TapeAssumption DEF TradeRecords, TapeTyped
<1>4. a \notin accepted
  BY <1>2, <1>3 DEF TapeTyped
<1>5. IsFiniteSet(accepted') /\ Cardinality(accepted') = Cardinality(accepted) + 1
  <2> HIDE DEF a
  <2> QED BY <1>1, <1>4, FS_AddElement DEF TapeTyped
<1> HIDE DEF t
<1> QED BY <1>1, <1>3, <1>5

(* What every way to begin anew leaves.                                    *)
LEMMA ResetLeaves ==
  ASSUME NEW unshown, ResetDerivedState(unshown)
  PROVE  /\ open' = {} /\ intervals' = {} /\ lastEnd' = Second(now) /\ engine'.cvd = {}
         /\ DOMAIN engine' = {"ring", "cvd", "detector"}
         /\ dropped'.bubbles = dropped.bubbles \cup unshown
         /\ dropped'.seconds = dropped.seconds \cup intervals
         /\ dropped'.sum = dropped.sum \cup engine.cvd
BY DEF ResetDerivedState, FreshEngine, Drop

(* A reset may be of a later session, which has taken nothing yet.         *)
SessionFollows ==
  /\ DOMAIN session' = {"number", "source", "valid", "closed"} /\ session'.number \in Nat
  /\ session.number <= session'.number

LEMMA SessionsFollow ==
  ASSUME TapeTyped, [TapeNext]_tapeVars PROVE SessionFollows
<1>1. CASE UNCHANGED session
  BY <1>1 DEF TapeTyped, SessionFollows
<1>2. ASSUME NEW source \in {"binance", "demo"}, SwitchTo(source) PROVE SessionFollows
  BY <1>2 DEF SwitchTo, TapeTyped, SessionFollows
<1>3. ASSUME NEW renewed \in BOOLEAN, InvalidateMarketData(renewed) PROVE SessionFollows
  BY <1>3 DEF InvalidateMarketData, TapeTyped, SessionFollows
<1>4. CASE DemoSnapshot
  BY <1>4 DEF DemoSnapshot, TapeTyped, SessionFollows
<1>5. CASE Shutdown
  BY <1>5 DEF Shutdown, TapeTyped, SessionFollows
<1> QED BY <1>1, <1>2, <1>3, <1>4, <1>5
        DEF TapeNext, tapeVars, Clock, ProcessTrade, EmitFrame, UpdateSettings

LEMMA TapeStaysTyped ==
  ASSUME TapeTyped, [TapeNext]_tapeVars
  PROVE  TapeTyped'
<1>0. /\ Second(now) \in Nat /\ Cardinality(accepted) \in Nat /\ SessionFollows
      /\ now \in Nat /\ lastEnd \in Nat /\ session.number \in Nat
      /\ \A a \in accepted : a.trade.id \in Nat /\ a.session \in Nat
  BY SecondsInOrder, SessionsFollow, FS_CardinalityType DEF TapeTyped, TradeRecords
<1>1. CASE UNCHANGED tapeVars
  BY <1>1 DEF tapeVars, TapeTyped
<1>2. CASE Clock
  <2>1. Second(now) <= Second(now + 1) /\ Second(now + 1) \in Nat /\ now + 1 \in Nat
    BY <1>0, SecondsInOrder
  <2> QED BY <1>0, <1>2, <2>1 DEF Clock, TapeTyped
<1>3. ASSUME NEW unshown, ResetDerivedState(unshown), UNCHANGED <<now, accepted>>
      PROVE  TapeTyped'
  <2>1. lastEnd' = Second(now) /\ DOMAIN engine' = {"ring", "cvd", "detector"}
    BY <1>3, ResetLeaves
  <2>2. \A a \in accepted : a.session <= session'.number
    BY <1>0 DEF TapeTyped, SessionFollows
  <2> QED BY <1>0, <1>3, <2>1, <2>2 DEF TapeTyped, SessionFollows
<1>4. ASSUME NEW mark \in Marks, NEW at \in 0 .. MaxTime, ProcessTrade(mark, at)
      PROVE  TapeTyped'
  <2>1. PICK t \in TradeRecords :
          /\ t.id = Cardinality(accepted) + 1
          /\ engine' = OnTrade(t)
          /\ accepted' = accepted \cup {[trade |-> t, session |-> session.number]}
          /\ IsFiniteSet(accepted') /\ Cardinality(accepted') = Cardinality(accepted) + 1
    BY <1>4, TradeTaken
  <2>2. UNCHANGED <<now, session, lastEnd>>
    BY <1>4 DEF ProcessTrade
  <2>3. DOMAIN engine' = {"ring", "cvd", "detector"}
    BY <2>1 DEF OnTrade, TapeTyped
  <2>4. [trade |-> t, session |-> session.number] \in [trade : TradeRecords, session : Nat]
    BY DEF TapeTyped
  <2>5. \A a \in accepted : /\ a.trade.id \in Nat /\ a.trade.id <= Cardinality(accepted)
                            /\ a.session <= session.number
    BY DEF TapeTyped, TradeRecords
  <2>6. /\ \A a \in accepted' : a.trade.id <= Cardinality(accepted')
                                /\ a.session <= session.number
        /\ \A a, b \in accepted' : a.trade.id = b.trade.id => a = b
    BY <1>0, <2>1, <2>5 DEF TapeTyped
  <2> QED BY <2>1, <2>2, <2>3, <2>4, <2>6 DEF TapeTyped
<1>5. ASSUME NEW s \in Scores, NEW stale \in BOOLEAN, EmitFrame(s, stale)
      PROVE  TapeTyped'
  <2>1. UNCHANGED <<now, session, accepted>> /\ DOMAIN engine' = {"ring", "cvd", "detector"}
    BY <1>5 DEF EmitFrame, Compute, TapeTyped
  <2>2. lastEnd' \in {lastEnd, Second(now)}
    BY <1>5 DEF EmitFrame, PersistMetric
  <2> QED BY <1>0, <2>1, <2>2 DEF TapeTyped
<1>6. ASSUME NEW bucketMs \in BOOLEAN, NEW thresholds \in BOOLEAN,
             UpdateSettings(bucketMs, thresholds)
      PROVE  TapeTyped'
  <2>1. UNCHANGED <<now, session, accepted, lastEnd>>
    BY <1>6 DEF UpdateSettings
  <2>2. DOMAIN engine' = {"ring", "cvd", "detector"}
    BY <1>6 DEF UpdateSettings, FreshEngine, TapeTyped
  <2> QED BY <2>1, <2>2 DEF TapeTyped
<1>7. Resets => TapeTyped'
  BY <1>3 DEF Resets
<1> QED BY <1>1, <1>2, <1>4, <1>5, <1>6, <1>7, TapeSteps DEF Trades, Frames, Retunes

-----------------------------------------------------------------------------
(* The trades a session took, before and after a step.                     *)
AllTaken == {a.trade : a \in accepted}

LEMMA TakenTrades ==
  ASSUME TapeTyped
  PROVE  /\ \A n : Taken(n) \subseteq AllTaken
         /\ \A t \in AllTaken : t.id \in Nat /\ t.id <= Cardinality(accepted)
                                /\ t.received \in Nat /\ Second(t.received) \in Nat
         /\ \A n \in Nat : n > session.number => Taken(n) = {}
<1>1. \A n : Taken(n) \subseteq AllTaken
  BY DEF Taken, AllTaken
<1>2. \A t \in AllTaken : t.id \in Nat /\ t.id <= Cardinality(accepted) /\ t.received \in Nat
  BY DEF AllTaken, TapeTyped, TradeRecords
<1>3. \A n \in Nat : n > session.number => Taken(n) = {}
  BY DEF Taken, TapeTyped
<1> QED BY <1>1, <1>2, <1>3, SecondsInOrder

LEMMA TakenGrows ==
  ASSUME TapeTyped, NEW mark \in Marks, NEW at \in 0 .. MaxTime, ProcessTrade(mark, at)
  PROVE  \E t \in TradeRecords :
           /\ t.received = now
           /\ engine' = OnTrade(t) /\ open' = open \cup {t} /\ intervals' = intervals \cup {t}
           /\ \A n : Taken(n)' = IF n = session.number THEN Taken(n) \cup {t} ELSE Taken(n)
           /\ AllTaken' = AllTaken \cup {t} /\ t \notin AllTaken
<1>1. PICK t \in TradeRecords :
        /\ t.id = Cardinality(accepted) + 1 /\ t.received = now
        /\ engine' = OnTrade(t) /\ open' = open \cup {t} /\ intervals' = intervals \cup {t}
        /\ accepted' = accepted \cup {[trade |-> t, session |-> session.number]}
  BY TradeTaken
<1>2. Cardinality(accepted) \in Nat
  BY FS_CardinalityType DEF TapeTyped
<1>3. t \notin AllTaken
  BY <1>1, <1>2, TakenTrades
<1> DEFINE a == [trade |-> t, session |-> session.number]
<1>4. a.trade = t /\ a.session = session.number /\ accepted' = accepted \cup {a}
  BY <1>1
<1> HIDE DEF a
<1>5. ASSUME NEW n
      PROVE  Taken(n)' = IF n = session.number THEN Taken(n) \cup {t} ELSE Taken(n)
  <2>2. \A x : x \in Taken(n) <=> \E b \in accepted : b.session = n /\ x = b.trade
    BY DEF Taken
  <2>3. \A x : x \in Taken(n)' <=> \E b \in accepted' : b.session = n /\ x = b.trade
    BY DEF Taken
  <2>4. \A x : x \in Taken(n)' <=> x \in Taken(n) \/ (n = session.number /\ x = t)
    BY <1>4, <2>2, <2>3
  <2> QED BY <2>4
<1>6. AllTaken' = AllTaken \cup {t}
  BY <1>4 DEF AllTaken
<1> QED BY <1>1, <1>3, <1>5, <1>6

(* The bubbles of a set of trades: each trade in one of them.              *)
LEMMA BucketsPartition ==
  ASSUME NEW ts
  PROVE  /\ \A b \in TradeBuckets(ts) : b.session = session.number /\ b.trades \subseteq ts
         /\ \A b, c \in TradeBuckets(ts) : b = c \/ b.trades \cap c.trades = {}
         /\ \A t \in ts : \E b \in TradeBuckets(ts) : t \in b.trades
<1> DEFINE Bubble(key) == [session |-> session.number, source |-> session.source,
                           trades |-> {t \in ts : BucketKey(t) = key}]
<1>1. TradeBuckets(ts) = {Bubble(key) : key \in {BucketKey(t) : t \in ts}}
  BY DEF TradeBuckets
<1>2. \A key : Bubble(key).session = session.number
               /\ Bubble(key).trades = {t \in ts : BucketKey(t) = key}
  OBVIOUS
<1> HIDE DEF Bubble
<1>3. \A t \in ts : Bubble(BucketKey(t)) \in TradeBuckets(ts) /\ t \in Bubble(BucketKey(t)).trades
  BY <1>1, <1>2
<1> QED BY <1>1, <1>2, <1>3

(* The open trades that are published or dropped: the dropped ones are     *)
(* trades of the tape, as are all that were dropped before.                *)
DroppedAreTaken ==
  /\ dropped.bubbles \subseteq AllTaken /\ dropped.seconds \subseteq AllTaken
  /\ dropped.sum \subseteq AllTaken

LEMMA PublishingKeepsBubbles ==
  ASSUME TapeTyped, BubblesHoldEachTradeOnce, NEW ts \in SUBSET open, NEW ds \in SUBSET open,
         ts \cap ds = {}, open' = open \ (ts \cup ds),
         published' = published \cup TradeBuckets(ts),
         dropped'.bubbles = dropped.bubbles \cup ds,
         accepted' = accepted, open' = {} \/ session'.number = session.number
  PROVE  BubblesHoldEachTradeOnce'
<1>1. /\ \A b \in published : b.trades \subseteq Taken(b.session)
      /\ \A b, c \in published : b = c \/ b.trades \cap c.trades = {}
      /\ open \subseteq Taken(session.number)
      /\ \A a \in accepted : a.trade \in Bubbled \union open \union dropped.bubbles
      /\ Bubbled \cap open = {} /\ Bubbled \cap dropped.bubbles = {}
      /\ open \cap dropped.bubbles = {}
  BY DEF BubblesHoldEachTradeOnce
<1>2. /\ \A b \in TradeBuckets(ts) : b.session = session.number /\ b.trades \subseteq ts
      /\ \A b, c \in TradeBuckets(ts) : b = c \/ b.trades \cap c.trades = {}
      /\ \A t \in ts : \E b \in TradeBuckets(ts) : t \in b.trades
  BY BucketsPartition
<1>3. \A n : Taken(n)' = Taken(n)
  BY DEF Taken
<1>4. Bubbled' = Bubbled \cup ts
  BY <1>2 DEF Bubbled
<1>5. \A b \in published : b.trades \cap ts = {}
  BY <1>1 DEF Bubbled
<1>6. \A b \in published' : b.trades \subseteq Taken(b.session)
  BY <1>1, <1>2
<1>7. \A b, c \in published' : b = c \/ b.trades \cap c.trades = {}
  BY <1>1, <1>2, <1>5
<1>8. open' \subseteq Taken(session'.number)
  BY <1>1
<1>9. \A a \in accepted' : a.trade \in Bubbled' \union open' \union dropped'.bubbles
  BY <1>1, <1>4
<1>10. /\ Bubbled' \cap open' = {} /\ Bubbled' \cap dropped'.bubbles = {}
       /\ open' \cap dropped'.bubbles = {}
  BY <1>1, <1>4
<1> HIDE DEF Bubbled
<1> QED BY <1>3, <1>6, <1>7, <1>8, <1>9, <1>10 DEF BubblesHoldEachTradeOnce

LEMMA BubblesStay ==
  ASSUME TapeTyped, BubblesHoldEachTradeOnce, DroppedAreTaken, [TapeNext]_tapeVars
  PROVE  BubblesHoldEachTradeOnce'
<1>1. TradeBuckets({}) = {}
  BY DEF TradeBuckets
<1>2. CASE UNCHANGED <<open, published, accepted, session, dropped>>
  BY <1>2 DEF BubblesHoldEachTradeOnce, Taken, Bubbled
<1>3. CASE ResetDerivedState(open) /\ UNCHANGED <<published, accepted>>
  <2>1. open' = {} /\ dropped'.bubbles = dropped.bubbles \cup open
    BY <1>3, ResetLeaves
  <2> QED BY <1>1, <1>3, <2>1, PublishingKeepsBubbles
<1>4. ASSUME NEW mark \in Marks, NEW at \in 0 .. MaxTime, ProcessTrade(mark, at)
      PROVE  BubblesHoldEachTradeOnce'
  <2>1. UNCHANGED <<session, published, dropped>>
    BY <1>4 DEF ProcessTrade
  <2>2. PICK t \in TradeRecords :
          /\ open' = open \cup {t}
          /\ \A n : Taken(n)' = IF n = session.number THEN Taken(n) \cup {t} ELSE Taken(n)
          /\ AllTaken' = AllTaken \cup {t} /\ t \notin AllTaken
    BY <1>4, TakenGrows
  <2>3. /\ \A b \in published : b.trades \subseteq Taken(b.session)
        /\ \A b, c \in published : b = c \/ b.trades \cap c.trades = {}
        /\ open \subseteq Taken(session.number)
        /\ \A u \in AllTaken : u \in Bubbled \union open \union dropped.bubbles
        /\ Bubbled \cap open = {} /\ Bubbled \cap dropped.bubbles = {}
        /\ open \cap dropped.bubbles = {}
    BY DEF BubblesHoldEachTradeOnce, AllTaken
  <2>4. t \notin Bubbled /\ Bubbled' = Bubbled
    BY <2>1, <2>2, <2>3, TakenTrades DEF Bubbled
  <2>5. \A b \in published' : b.trades \subseteq Taken(b.session)'
    BY <2>1, <2>2, <2>3
  <2>6. Taken(session.number)' = Taken(session.number) \cup {t}
    BY <2>1, <2>2
  <2>7. \A a \in accepted' : a.trade \in Bubbled' \union open' \union dropped'.bubbles
    <3>1. \A a \in accepted' : a.trade \in AllTaken'
      BY DEF AllTaken
    <3> QED BY <2>1, <2>2, <2>3, <2>4, <3>1
  <2>8. /\ Bubbled' \cap open' = {} /\ Bubbled' \cap dropped'.bubbles = {}
        /\ open' \cap dropped'.bubbles = {}
    BY <2>1, <2>2, <2>3, <2>4 DEF DroppedAreTaken
  <2> QED BY <2>1, <2>2, <2>3, <2>5, <2>6, <2>7, <2>8 DEF BubblesHoldEachTradeOnce
<1>5. ASSUME NEW s \in Scores, NEW stale \in BOOLEAN, EmitFrame(s, stale)
      PROVE  BubblesHoldEachTradeOnce'
  <2>1. Completed(open) \in SUBSET open
    BY DEF Completed
  <2>2. {} \in SUBSET open /\ Completed(open) \cap {} = {}
        /\ dropped.bubbles \cup {} = dropped.bubbles
        /\ Completed(open) \cup {} = Completed(open)
    OBVIOUS
  <2> QED BY <1>5, <2>1, <2>2, PublishingKeepsBubbles DEF EmitFrame
<1>6. CASE Shutdown
  <2>1. open' = {} /\ accepted' = accepted
        /\ dropped'.bubbles = dropped.bubbles \cup (IF session.valid THEN {} ELSE open)
    BY <1>6, ResetLeaves DEF Shutdown
  <2>2. CASE session.valid
    BY <1>6, <2>1, <2>2, PublishingKeepsBubbles DEF Shutdown
  <2>3. CASE ~session.valid
    BY <1>3, <1>6, <2>3 DEF Shutdown
  <2> QED BY <2>2, <2>3
<1>7. ASSUME NEW bucketMs \in BOOLEAN, NEW thresholds \in BOOLEAN,
             UpdateSettings(bucketMs, thresholds)
      PROVE  BubblesHoldEachTradeOnce'
  <2> DEFINE ds == IF bucketMs THEN open ELSE {}
  <2>1. UNCHANGED <<session, published, accepted>> /\ open' = open \ ({} \cup ds)
        /\ dropped'.bubbles = dropped.bubbles \cup ds
    BY <1>7 DEF UpdateSettings, Drop
  <2>2. ds \in SUBSET open
    OBVIOUS
  <2> HIDE DEF ds
  <2> QED BY <1>1, <2>1, <2>2, PublishingKeepsBubbles
<1>8. ASSUME NEW source \in {"binance", "demo"}, SwitchTo(source)
      PROVE  BubblesHoldEachTradeOnce'
  BY <1>3, <1>8 DEF SwitchTo
<1>9. ASSUME NEW renewed \in BOOLEAN, InvalidateMarketData(renewed)
      PROVE  BubblesHoldEachTradeOnce'
  BY <1>3, <1>9 DEF InvalidateMarketData
<1>10. CASE DemoSnapshot
  BY <1>3, <1>10 DEF DemoSnapshot
<1>11. CASE UNCHANGED tapeVars \/ Clock
  BY <1>2, <1>11 DEF tapeVars, Clock
<1> QED BY <1>4, <1>5, <1>6, <1>7, <1>8, <1>9, <1>10, <1>11 DEF TapeNext
-----------------------------------------------------------------------------
(* What the gateway has yet to persist: the trades of the session in the   *)
(* seconds that are not over, all of them in the sum since it began.  No   *)
(* frame was built after the last second that is over.                     *)
Unpersisted ==
  /\ intervals = {t \in Taken(session.number) : Second(t.received) >= lastEnd}
                   \ dropped.seconds
  /\ engine.cvd \subseteq Taken(session.number) /\ intervals \ dropped.sum \subseteq engine.cvd
  /\ \A s \in frameSeconds : s \in Int /\ s <= lastEnd

(* The records are of seconds that are over, and a trade that missed its   *)
(* record did so in one of them.                                           *)
SecondsLieBehind ==
  /\ \A m \in metrics : m.second \in Int /\ m.second < lastEnd
  /\ \A a \in accepted :
       \/ a.trade \in Recorded \union intervals \union dropped.seconds
       \/ Second(a.trade.received) + 1 < lastEnd

LEMMA UnpersistedStays ==
  ASSUME TapeTyped, DroppedAreTaken, Unpersisted, [TapeNext]_tapeVars
  PROVE  Unpersisted'
<1>0. /\ Second(now) \in Nat /\ lastEnd \in Nat /\ now \in Nat /\ lastEnd <= Second(now)
      /\ \A n : Taken(n) \subseteq AllTaken
      /\ \A t \in AllTaken : Second(t.received) \in Nat
      /\ session.number \in Nat
  BY SecondsInOrder, TakenTrades DEF TapeTyped
<1>1. CASE UNCHANGED <<intervals, accepted, session, dropped, lastEnd, engine, frameSeconds>>
  BY <1>1 DEF Unpersisted, Taken
<1>2. ASSUME NEW unshown, ResetDerivedState(unshown), UNCHANGED <<accepted, frameSeconds>>
      PROVE  Unpersisted'
  <2>1. \A n : Taken(n)' = Taken(n)
    BY <1>2 DEF Taken
  <2>2. /\ intervals' = {} /\ lastEnd' = Second(now) /\ engine'.cvd = {}
        /\ dropped'.seconds = dropped.seconds \cup intervals
    BY <1>2, ResetLeaves
  <2>3. session'.number = session.number \/ Taken(session'.number) = {}
    BY <1>0, TakenTrades, SessionsFollow DEF SessionFollows
  <2>4. \A t \in Taken(session.number) :
          Second(t.received) >= Second(now) => t \in intervals \cup dropped.seconds
    BY <1>0 DEF Unpersisted
  <2>5. {t \in Taken(session'.number) : Second(t.received) >= Second(now)}
          \ (dropped.seconds \cup intervals) = {}
    BY <2>3, <2>4
  <2>6. \A s \in frameSeconds : s \in Int /\ s <= Second(now)
    BY <1>0 DEF Unpersisted
  <2> QED BY <1>2, <2>1, <2>2, <2>5, <2>6 DEF Unpersisted
<1>3. ASSUME NEW mark \in Marks, NEW at \in 0 .. MaxTime, ProcessTrade(mark, at)
      PROVE  Unpersisted'
  <2>1. UNCHANGED <<session, lastEnd, dropped, frameSeconds>> /\ DOMAIN engine = {"ring", "cvd", "detector"}
    BY <1>3 DEF ProcessTrade, TapeTyped
  <2>2. PICK t \in TradeRecords :
          /\ t.received = now
          /\ engine' = OnTrade(t) /\ intervals' = intervals \cup {t}
          /\ \A n : Taken(n)' = IF n = session.number THEN Taken(n) \cup {t} ELSE Taken(n)
          /\ t \notin AllTaken
    BY <1>3, TakenGrows
  <2>3. Taken(session.number)' = Taken(session.number) \cup {t}
    BY <2>1, <2>2
  <2>4. engine'.cvd = engine.cvd \cup {t}
    BY <2>1, <2>2 DEF OnTrade
  <2>5. Second(t.received) >= lastEnd
    BY <1>0, <2>2
  <2>6. t \notin dropped.seconds
    BY <2>2 DEF DroppedAreTaken
  <2> QED BY <2>1, <2>2, <2>3, <2>4, <2>5, <2>6 DEF Unpersisted
<1>4. ASSUME NEW s \in Scores, NEW stale \in BOOLEAN, EmitFrame(s, stale)
      PROVE  Unpersisted'
  <2>1. UNCHANGED <<session, accepted, dropped>> /\ engine'.cvd = engine.cvd
        /\ frameSeconds' = frameSeconds \cup {Second(now)}
    BY <1>4 DEF EmitFrame, Compute, TapeTyped
  <2>2. \/ UNCHANGED <<lastEnd, intervals>> /\ lastEnd = Second(now)
        \/ /\ Second(now) > lastEnd /\ lastEnd' = Second(now)
           /\ intervals' = {t \in intervals : Second(t.received) > Second(now) - 1}
    BY <1>0, <1>4 DEF EmitFrame, PersistMetric
  <2>3. \A n : Taken(n)' = Taken(n)
    BY <2>1 DEF Taken
  <2>4. \A t \in Taken(session.number) :
          Second(t.received) > Second(now) - 1 <=> Second(t.received) >= Second(now)
    BY <1>0
  <2>5. intervals' = {t \in Taken(session.number) : Second(t.received) >= lastEnd'}
                       \ dropped.seconds
    BY <1>0, <2>2, <2>4 DEF Unpersisted
  <2>6. \A q \in frameSeconds' : q \in Int /\ q <= lastEnd'
    BY <1>0, <2>1, <2>2 DEF Unpersisted
  <2>7. intervals' \subseteq intervals
    BY <2>2
  <2> QED BY <2>1, <2>3, <2>5, <2>6, <2>7 DEF Unpersisted
<1>5. ASSUME NEW bucketMs \in BOOLEAN, NEW thresholds \in BOOLEAN,
             UpdateSettings(bucketMs, thresholds)
      PROVE  Unpersisted'
  <2>1. UNCHANGED <<session, accepted, lastEnd, intervals, frameSeconds>>
        /\ dropped'.seconds = dropped.seconds
        /\ dropped'.sum = dropped.sum \cup (IF thresholds THEN engine.cvd ELSE {})
    BY <1>5 DEF UpdateSettings, Drop
  <2>2. \A n : Taken(n)' = Taken(n)
    BY <2>1 DEF Taken
  <2>3. engine'.cvd = IF thresholds THEN {} ELSE engine.cvd
    BY <1>5 DEF UpdateSettings, FreshEngine
  <2> QED BY <2>1, <2>2, <2>3 DEF Unpersisted
<1>6. Resets => Unpersisted'
  BY <1>2 DEF Resets
<1>7. CASE UNCHANGED tapeVars \/ Clock
  BY <1>1, <1>7 DEF tapeVars, Clock
<1> QED BY <1>3, <1>4, <1>5, <1>6, <1>7, TapeSteps DEF Trades, Frames, Retunes

LEMMA DroppedStayTaken ==
  ASSUME TapeTyped, BubblesHoldEachTradeOnce, Unpersisted, DroppedAreTaken,
         [TapeNext]_tapeVars
  PROVE  DroppedAreTaken'
<1>0. open \subseteq AllTaken /\ intervals \subseteq AllTaken /\ engine.cvd \subseteq AllTaken
  BY TakenTrades DEF BubblesHoldEachTradeOnce, Unpersisted
<1>1. CASE UNCHANGED <<dropped, accepted>>
  BY <1>1 DEF DroppedAreTaken, AllTaken
<1>2. ASSUME NEW unshown, unshown \subseteq open, ResetDerivedState(unshown), UNCHANGED accepted
      PROVE  DroppedAreTaken'
  <2>1. AllTaken' = AllTaken
    BY <1>2 DEF AllTaken
  <2> QED BY <1>0, <1>2, <2>1, ResetLeaves DEF DroppedAreTaken
<1>3. ASSUME NEW mark \in Marks, NEW at \in 0 .. MaxTime, ProcessTrade(mark, at)
      PROVE  DroppedAreTaken'
  <2>1. AllTaken \subseteq AllTaken'
    BY <1>3, TakenGrows
  <2> QED BY <1>3, <2>1 DEF ProcessTrade, DroppedAreTaken
<1>4. ASSUME NEW bucketMs \in BOOLEAN, NEW thresholds \in BOOLEAN,
             UpdateSettings(bucketMs, thresholds)
      PROVE  DroppedAreTaken'
  <2>1. AllTaken' = AllTaken
    BY <1>4 DEF UpdateSettings, AllTaken
  <2>2. /\ dropped'.bubbles \subseteq dropped.bubbles \cup open
        /\ dropped'.seconds = dropped.seconds
        /\ dropped'.sum \subseteq dropped.sum \cup engine.cvd
    BY <1>4 DEF UpdateSettings, Drop
  <2> QED BY <1>0, <2>1, <2>2 DEF DroppedAreTaken
<1>5. Resets => DroppedAreTaken'
  BY <1>2 DEF Resets
<1>6. CASE UNCHANGED tapeVars \/ Clock \/ Frames
  BY <1>1, <1>6 DEF tapeVars, Clock, Frames, EmitFrame
<1> QED BY <1>3, <1>4, <1>5, <1>6, TapeSteps DEF Trades, Retunes

(* The seconds as every step but a trade and a frame leaves them: those    *)
(* still to be recorded stay so or are dropped, all together.              *)
LEMMA SecondsKept ==
  ASSUME TapeTyped, DroppedAreTaken, Unpersisted, SecondsLieBehind, MetricsAreTheSecondsTrades,
         UNCHANGED <<metrics, accepted, frameSeconds>>, lastEnd' \in {lastEnd, Second(now)},
         NEW ds \in {{}, intervals}, intervals' = intervals \ ds,
         dropped'.seconds = dropped.seconds \cup ds, dropped.sum \subseteq dropped'.sum
  PROVE  SecondsLieBehind' /\ MetricsAreTheSecondsTrades'
<1>0. /\ Second(now) \in Nat /\ lastEnd \in Nat /\ lastEnd <= Second(now)
      /\ \A n : Taken(n) \subseteq AllTaken
      /\ \A t \in AllTaken : Second(t.received) \in Nat
  BY SecondsInOrder, TakenTrades DEF TapeTyped
<1>1. (\A n : Taken(n)' = Taken(n)) /\ Recorded' = Recorded
  BY DEF Taken, Recorded
<1>2. \A t \in ds : Second(t.received) >= lastEnd
  BY <1>0 DEF Unpersisted
<1>3. ASSUME NEW m \in metrics
      PROVE  {t \in Taken(m.session) : Second(t.received) = m.second} \ dropped'.seconds
             = {t \in Taken(m.session) : Second(t.received) = m.second} \ dropped.seconds
  BY <1>0, <1>2 DEF SecondsLieBehind
<1>4. intervals' \union dropped'.seconds = intervals \union dropped.seconds
      /\ intervals' \cap dropped'.seconds = {} /\ Recorded' \cap intervals' = {}
  BY <1>1 DEF MetricsAreTheSecondsTrades
<1>5. \A m \in metrics :
        /\ \A n \in metrics : n.second = m.second => n = m
        /\ m.facts = {t \in Taken(m.session) : Second(t.received) = m.second} \ dropped'.seconds
        /\ m.cvd \subseteq Taken(m.session) /\ m.facts \ dropped'.sum \subseteq m.cvd
  BY <1>3 DEF MetricsAreTheSecondsTrades
<1>6. \A a \in accepted :
        \/ a.trade \in Recorded' \union intervals' \union dropped'.seconds
        \/ /\ Second(a.trade.received) + 1 \notin frameSeconds
           /\ \A m \in metrics : m.second # Second(a.trade.received)
  BY <1>1, <1>4 DEF MetricsAreTheSecondsTrades
<1>7. MetricsAreTheSecondsTrades'
  <2> HIDE DEF Recorded
  <2> QED BY <1>1, <1>4, <1>5, <1>6 DEF MetricsAreTheSecondsTrades
<1>8. \A a \in accepted : a.trade \in AllTaken
  BY DEF AllTaken
<1>9. SecondsLieBehind'
  BY <1>0, <1>1, <1>4, <1>8 DEF SecondsLieBehind
<1> QED BY <1>7, <1>9

LEMMA TradesKeepSeconds ==
  ASSUME TapeTyped, DroppedAreTaken, Unpersisted, SecondsLieBehind, MetricsAreTheSecondsTrades,
         NEW mark \in Marks, NEW at \in 0 .. MaxTime, ProcessTrade(mark, at)
  PROVE  SecondsLieBehind' /\ MetricsAreTheSecondsTrades'
<1>0. /\ Second(now) \in Nat /\ lastEnd \in Nat /\ lastEnd <= Second(now)
      /\ \A n : Taken(n) \subseteq AllTaken
  BY SecondsInOrder, TakenTrades DEF TapeTyped
<1>1. UNCHANGED <<metrics, lastEnd, dropped, frameSeconds, session>> /\ Recorded' = Recorded
  BY DEF ProcessTrade, Recorded
<1>2. PICK t \in TradeRecords :
        /\ t.received = now /\ intervals' = intervals \cup {t}
        /\ \A n : Taken(n)' = IF n = session.number THEN Taken(n) \cup {t} ELSE Taken(n)
        /\ AllTaken' = AllTaken \cup {t} /\ t \notin AllTaken
  BY TakenGrows
<1>3. \A a \in accepted' : a \in accepted \/ a.trade = t
  <2>1. \A a \in accepted' : a.trade \in AllTaken \cup {t}
    BY <1>2 DEF AllTaken
  <2>2. PICK u : accepted' = accepted \cup {[trade |-> u, session |-> session.number]}
    BY DEF ProcessTrade
  <2>3. u = t
    <3>1. AllTaken' = AllTaken \cup {u}
      <4> DEFINE a == [trade |-> u, session |-> session.number]
      <4>1. a.trade = u /\ accepted' = accepted \cup {a}
        BY <2>2
      <4> HIDE DEF a
      <4> QED BY <4>1 DEF AllTaken
    <3> QED BY <1>2, <3>1
  <2> QED BY <2>2, <2>3
<1>4. \A m \in metrics : Second(t.received) # m.second
  BY <1>0, <1>2 DEF SecondsLieBehind
<1>5. ASSUME NEW m \in metrics
      PROVE  /\ {u \in Taken(m.session)' : Second(u.received) = m.second}
                = {u \in Taken(m.session) : Second(u.received) = m.second}
             /\ Taken(m.session) \subseteq Taken(m.session)'
  <2>1. Taken(m.session)' = Taken(m.session) \/ Taken(m.session)' = Taken(m.session) \cup {t}
    BY <1>2
  <2> QED BY <1>4, <2>1
<1>6. Recorded \subseteq AllTaken
  <2>1. \A m \in metrics : m.facts \subseteq AllTaken
    BY <1>0 DEF MetricsAreTheSecondsTrades
  <2> QED BY <2>1 DEF Recorded
<1>7. Recorded' \cap intervals' = {} /\ intervals' \cap dropped'.seconds = {}
  BY <1>1, <1>2, <1>6 DEF MetricsAreTheSecondsTrades, DroppedAreTaken
<1>8. \A m \in metrics' :
        /\ \A n \in metrics' : n.second = m.second => n = m
        /\ m.facts = {u \in Taken(m.session)' : Second(u.received) = m.second} \ dropped'.seconds
        /\ m.cvd \subseteq Taken(m.session)' /\ m.facts \ dropped'.sum \subseteq m.cvd
  BY <1>1, <1>5 DEF MetricsAreTheSecondsTrades
<1>9. \A a \in accepted' :
        \/ a.trade \in Recorded' \union intervals' \union dropped'.seconds
        \/ /\ Second(a.trade.received) + 1 \notin frameSeconds'
           /\ \A m \in metrics' : m.second # Second(a.trade.received)
  BY <1>1, <1>2, <1>3 DEF MetricsAreTheSecondsTrades
<1>10. SecondsLieBehind'
  BY <1>1, <1>2, <1>3 DEF SecondsLieBehind
<1> HIDE DEF Recorded
<1> QED BY <1>7, <1>8, <1>9, <1>10 DEF MetricsAreTheSecondsTrades

LEMMA FramesKeepSeconds ==
  ASSUME TapeTyped, DroppedAreTaken, Unpersisted, SecondsLieBehind, MetricsAreTheSecondsTrades,
         NEW s \in Scores, NEW stale \in BOOLEAN, EmitFrame(s, stale)
  PROVE  SecondsLieBehind' /\ MetricsAreTheSecondsTrades'
<1>0. /\ Second(now) \in Nat /\ lastEnd \in Nat /\ lastEnd <= Second(now)
      /\ \A n : Taken(n) \subseteq AllTaken
      /\ \A t \in AllTaken : Second(t.received) \in Nat
      /\ intervals \subseteq AllTaken
      /\ \A a \in accepted : a.trade \in AllTaken /\ Second(a.trade.received) \in Nat
  BY SecondsInOrder, TakenTrades DEF TapeTyped, Unpersisted, AllTaken
<1>1. UNCHANGED <<accepted, dropped, session>> /\ frameSeconds' = frameSeconds \cup {Second(now)}
      /\ \A n : Taken(n)' = Taken(n)
  BY DEF EmitFrame, Taken
<1>2. CASE ~(Second(now) > lastEnd)
  <2>1. UNCHANGED <<metrics, lastEnd, intervals>> /\ lastEnd = Second(now)
        /\ Recorded' = Recorded
    BY <1>0, <1>2 DEF EmitFrame, PersistMetric, Recorded
  <2>2. \A a \in accepted :
          \/ a.trade \in Recorded \union intervals \union dropped.seconds
          \/ Second(a.trade.received) + 1 \notin frameSeconds' 
             /\ \A m \in metrics : m.second # Second(a.trade.received)
    BY <1>0, <1>1, <2>1 DEF SecondsLieBehind, MetricsAreTheSecondsTrades
  <2>3. SecondsLieBehind'
    BY <1>1, <2>1 DEF SecondsLieBehind
  <2> HIDE DEF Recorded
  <2> QED BY <1>1, <2>1, <2>2, <2>3 DEF MetricsAreTheSecondsTrades
<1>3. CASE Second(now) > lastEnd
  <2> DEFINE end == Second(now)
             new == [session |-> session.number, second |-> end - 1,
                     facts |-> Facts(end - 1), cvd |-> engine.cvd]
  <2>1. /\ metrics' = metrics \cup {new} /\ lastEnd' = end
        /\ intervals' = {t \in intervals : Second(t.received) > end - 1}
    BY <1>3 DEF EmitFrame, PersistMetric
  <2>2. /\ new.session = session.number /\ new.second = end - 1
        /\ new.facts = Facts(end - 1) /\ new.cvd = engine.cvd
    OBVIOUS
  <2> HIDE DEF new
  <2>3. Recorded' = Recorded \cup new.facts
    BY <2>1 DEF Recorded
  <2>4. new.facts = {t \in intervals : Second(t.received) = end - 1}
    BY <2>2 DEF Facts
  <2>5. new.facts = {t \in Taken(session.number) : Second(t.received) = end - 1}
                      \ dropped.seconds
    BY <1>0, <1>3, <2>4 DEF Unpersisted
  <2>6. new.cvd \subseteq Taken(session.number) /\ new.facts \ dropped.sum \subseteq new.cvd
    BY <2>2, <2>4 DEF Unpersisted
  <2>7. \A m \in metrics : m.second < new.second /\ m.second \in Int /\ new.second \in Int
    BY <1>0, <1>3, <2>2 DEF SecondsLieBehind
  <2>8. \A m, n \in metrics' : n.second = m.second => n = m
    BY <2>1, <2>7 DEF MetricsAreTheSecondsTrades
  <2>9. ASSUME NEW m \in metrics'
        PROVE  /\ m.facts = {t \in Taken(m.session) : Second(t.received) = m.second}
                              \ dropped.seconds
               /\ m.cvd \subseteq Taken(m.session) /\ m.facts \ dropped.sum \subseteq m.cvd
    <3>1. CASE m \in metrics
      BY <3>1 DEF MetricsAreTheSecondsTrades
    <3>2. CASE m = new
      BY <2>2, <2>5, <2>6, <3>2
    <3> QED BY <2>1, <3>1, <3>2
  <2>10. ASSUME NEW a \in accepted
         PROVE  \/ a.trade \in Recorded' \union intervals' \union dropped.seconds
                \/ /\ Second(a.trade.received) + 1 \notin frameSeconds'
                   /\ \A m \in metrics' : m.second # Second(a.trade.received)
                   /\ Second(a.trade.received) + 1 < lastEnd'
    <3> DEFINE q == Second(a.trade.received)
    <3>0. q \in Nat
      BY <1>0
    <3>1. CASE a.trade \in Recorded \union dropped.seconds
      BY <2>3, <3>1
    <3>2. CASE a.trade \in intervals
      <4>1. q >= lastEnd
        BY <3>2 DEF Unpersisted
      <4> HIDE DEF q
      <4>2. CASE q = end - 1
        BY <2>3, <2>4, <3>2, <4>2 DEF q
      <4>3. CASE q > end - 1
        BY <2>1, <3>2, <4>3 DEF q
      <4>4. CASE q < end - 1
        <5>1. q + 1 \notin frameSeconds'
          BY <1>0, <1>1, <3>0, <4>1, <4>4 DEF Unpersisted
        <5>2. \A m \in metrics' : m.second # q
          BY <1>0, <2>1, <2>2, <3>0, <4>1, <4>4 DEF SecondsLieBehind
        <5> QED BY <1>0, <2>1, <3>0, <4>4, <5>1, <5>2 DEF q
      <4> QED BY <1>0, <3>0, <4>2, <4>3, <4>4
    <3>3. CASE a.trade \notin Recorded \union intervals \union dropped.seconds
      <4>1. q + 1 < lastEnd /\ q + 1 \notin frameSeconds /\ \A m \in metrics : m.second # q
        BY <3>3 DEF SecondsLieBehind, MetricsAreTheSecondsTrades
      <4> HIDE DEF q
      <4>2. q + 1 \notin frameSeconds' /\ q + 1 < lastEnd' /\ q # new.second
        BY <1>0, <1>1, <1>3, <2>1, <2>2, <3>0, <4>1
      <4> QED BY <2>1, <4>1, <4>2 DEF q
    <3> QED BY <3>1, <3>2, <3>3
  <2>11. Recorded' \cap intervals' = {} /\ intervals' \cap dropped.seconds = {}
    <3>1. \A t \in new.facts : Second(t.received) = end - 1
      BY <2>4
    <3>2. \A t \in intervals' : Second(t.received) > end - 1 /\ t \in intervals
      BY <2>1
    <3>3. end - 1 \in Int
      BY <1>0
    <3> QED BY <2>3, <3>1, <3>2, <3>3 DEF MetricsAreTheSecondsTrades
  <2>12. SecondsLieBehind'
    <3>1. \A m \in metrics' : m.second \in Int /\ m.second < lastEnd'
      BY <1>0, <1>3, <2>1, <2>2, <2>7
    <3> QED BY <1>1, <2>10, <3>1 DEF SecondsLieBehind
  <2> HIDE DEF Recorded
  <2> QED BY <1>1, <2>8, <2>9, <2>10, <2>11, <2>12 DEF MetricsAreTheSecondsTrades
<1> QED BY <1>0, <1>2, <1>3

LEMMA MetricsStay ==
  ASSUME TapeTyped, DroppedAreTaken, Unpersisted, SecondsLieBehind, MetricsAreTheSecondsTrades,
         [TapeNext]_tapeVars
  PROVE  SecondsLieBehind' /\ MetricsAreTheSecondsTrades'
<1>1. ASSUME NEW unshown, ResetDerivedState(unshown), UNCHANGED <<metrics, accepted, frameSeconds>>
      PROVE  SecondsLieBehind' /\ MetricsAreTheSecondsTrades'
  <2>1. /\ lastEnd' = Second(now) /\ intervals' = intervals \ intervals
        /\ dropped'.seconds = dropped.seconds \cup intervals
        /\ dropped.sum \subseteq dropped'.sum
    BY <1>1, ResetLeaves
  <2> QED BY <1>1, <2>1, SecondsKept
<1>2. ASSUME UNCHANGED <<metrics, accepted, frameSeconds, lastEnd, intervals>>,
             dropped'.seconds = dropped.seconds, dropped.sum \subseteq dropped'.sum
      PROVE  SecondsLieBehind' /\ MetricsAreTheSecondsTrades'
  <2>1. intervals' = intervals \ {} /\ dropped'.seconds = dropped.seconds \cup {}
    BY <1>2
  <2> QED BY <1>2, <2>1, SecondsKept
<1>3. ASSUME NEW bucketMs \in BOOLEAN, NEW thresholds \in BOOLEAN,
             UpdateSettings(bucketMs, thresholds)
      PROVE  SecondsLieBehind' /\ MetricsAreTheSecondsTrades'
  BY <1>2, <1>3 DEF UpdateSettings, Drop
<1>4. CASE UNCHANGED tapeVars \/ Clock
  BY <1>2, <1>4 DEF tapeVars, Clock
<1>5. Resets => SecondsLieBehind' /\ MetricsAreTheSecondsTrades'
  BY <1>1 DEF Resets
<1> QED BY <1>3, <1>4, <1>5, TapeSteps, TradesKeepSeconds, FramesKeepSeconds
        DEF Trades, Frames, Retunes

(* Every trade taken is in one bubble and in the facts of one second, but  *)
(* for those still waiting, those that went with the open buckets or the   *)
(* seconds when they were emptied, and those whose second was followed by  *)
(* one without a frame.                                                    *)
THEOREM TapeCountsTradesOnce == TapeSpec => []TradesCountOnce
<1> DEFINE Inv == /\ TapeTyped /\ BubblesHoldEachTradeOnce /\ DroppedAreTaken
                  /\ Unpersisted /\ SecondsLieBehind /\ MetricsAreTheSecondsTrades
<1>1. TapeInit => Inv
  <2>1. ASSUME TapeInit
        PROVE  BubblesHoldEachTradeOnce /\ Unpersisted /\ DroppedAreTaken
    <3>1. Taken(session.number) = {} /\ Bubbled = {} /\ engine.cvd = {}
      BY <2>1 DEF TapeInit, Taken, Bubbled, FreshEngine
    <3> QED BY <2>1, <3>1
            DEF TapeInit, BubblesHoldEachTradeOnce, Unpersisted, DroppedAreTaken
  <2>2. TapeInit => SecondsLieBehind /\ MetricsAreTheSecondsTrades
    BY DEF TapeInit, SecondsLieBehind, MetricsAreTheSecondsTrades, Recorded
  <2> QED BY <2>1, <2>2, TapeBegins
<1>2. Inv /\ [TapeNext]_tapeVars => Inv'
  BY TapeStaysTyped, BubblesStay, DroppedStayTaken, UnpersistedStays, MetricsStay
<1>3. Inv => TradesCountOnce
  BY DEF TradesCountOnce
<1> QED BY <1>1, <1>2, <1>3, PTL DEF TapeSpec
=============================================================================
