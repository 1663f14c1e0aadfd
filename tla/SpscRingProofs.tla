--------------------------- MODULE SpscRingProofs ---------------------------
(***************************************************************************)
(* SpscRing's safety for every capacity, every counter width and every set *)
(* of items.                                                               *)
(***************************************************************************)
EXTENDS SpscRing, DataLemmas

(* The remainders, read as slots.  The mask never leaves the slot array: `counter & mask`
   cannot panic. *)
LEMMA SlotInRange ==
  ASSUME NEW a \in Nat
  PROVE  Slot(a) \in Slots
  BY CapacityAssumption, Division DEF Slot, Slots

(* One lap later the same slot comes up again. *)
LEMMA SlotAfterLap ==
  ASSUME NEW a \in Nat
  PROVE  Slot(a + Capacity) = Slot(a)
  BY CapacityAssumption, RemainderAfterLap DEF Slot

(* The ring's slots are the Capacity slots counted from head. *)
LEMMA EverySlotReached ==
  ASSUME NEW s \in Slots, NEW h \in Nat
  PROVE  \E i \in 0 .. Capacity - 1 : Slot(h + i) = s
  BY CapacityAssumption, RemainderReached DEF Slot, Slots

(* Within one lap no two counters share a slot. *)
LEMMA SlotInjective ==
  ASSUME NEW a \in Nat, NEW b \in Nat, a < b, b - a < Capacity
  PROVE  Slot(a) # Slot(b)
  BY CapacityAssumption, RemaindersDiffer DEF Slot

(* So no two of the slots of a lap coincide. *)
LEMMA OffsetsDistinct ==
  ASSUME NEW h \in Nat, NEW i \in 0 .. Capacity - 1, NEW j \in 0 .. Capacity - 1,
         Slot(h + i) = Slot(h + j)
  PROVE  i = j
<1>1. CASE i < j
  BY <1>1, SlotInjective, CapacityAssumption
<1>2. CASE j < i
  BY <1>2, SlotInjective, CapacityAssumption
<1>3. QED
  BY <1>1, <1>2, CapacityAssumption

(* A slot is known from any way of writing its counter. *)
LEMMA SlotOf ==
  ASSUME NEW p \in Nat, NEW s \in Slots
  PROVE  Slot(Capacity * p + s) = s
  BY CapacityAssumption, RemainderOf DEF Slot, Slots

(* The modulus leaves room for more than one lap. *)
LEMMA ModulusType ==
  Modulus \in Nat /\ Modulus >= 2 * Capacity
<1>1. Laps * Capacity >= 2 * Capacity
  BY CapacityAssumption, LapsAssumption, SMT
<1>2. QED
  BY <1>1, CapacityAssumption, LapsAssumption DEF Modulus

(* A counter that wraps keeps addressing the same slot. *)
LEMMA SlotAfterWrap ==
  ASSUME NEW a \in Nat
  PROVE  Slot(a + Modulus) = Slot(a)
<1> DEFINE q == a \div Capacity
           r == Slot(a)
<1>1. a = Capacity * q + r /\ q \in Nat /\ r \in Slots
  BY Division, CapacityAssumption, LapsAssumption DEF Slot, Slots
<1> HIDE DEF q, r
<1>2. a + Modulus = Capacity * (q + Laps) + r /\ q + Laps \in Nat
  BY <1>1, CapacityAssumption, LapsAssumption DEF Modulus, Slots
<1>3. Slot(a + Modulus) = r
  BY <1>1, <1>2, SlotOf
<1>4. QED
  BY <1>3 DEF r

(* A wrapped distance is a distance: it locates the front counter's slot. *)
LEMMA SlotAtDistance ==
  ASSUME NEW a \in Counter, NEW b \in Counter
  PROVE  Slot(a) = Slot(b + Dist(a, b))
<1>1. CASE b <= a
  BY <1>1, ModulusType DEF Dist, Counter
<1>2. CASE ~(b <= a)
  <2>1. b + Dist(a, b) = a + Modulus
    BY <1>2, ModulusType DEF Dist, Counter
  <2>2. QED
    BY <2>1, ModulusType, SlotAfterWrap DEF Counter
<1>3. QED
  BY <1>1, <1>2

(* Counting on from an incremented counter. *)
LEMMA SlotAfterInc ==
  ASSUME NEW a \in Counter, NEW i \in Nat
  PROVE  Slot(Inc(a) + i) = Slot(a + (i + 1))
<1>1. CASE a + 1 = Modulus
  <2>1. a + (i + 1) = i + Modulus /\ Inc(a) + i = i
    BY <1>1, ModulusType DEF Inc, Counter
  <2>2. QED
    BY <2>1, SlotAfterWrap
<1>2. CASE a + 1 # Modulus
  BY <1>2, ModulusType DEF Inc, Counter
<1>3. QED
  BY <1>1, <1>2

(* How an increment changes a distance, as long as the counters stay within a
   lap of each other. *)
LEMMA IncDist ==
  ASSUME NEW a \in Counter, NEW b \in Counter
  PROVE  /\ Inc(a) \in Counter
         /\ Dist(a, b) \in 0 .. Modulus - 1
         /\ Dist(a, a) = 0
         /\ Dist(a, b) = 0 => a = b
         /\ Dist(a, b) < Modulus - 1 => Dist(Inc(a), b) = Dist(a, b) + 1
         /\ Dist(a, b) > 0 => Dist(a, Inc(b)) = Dist(a, b) - 1
  BY ModulusType, CapacityAssumption, LapsAssumption DEF Inc, Dist, Counter

-----------------------------------------------------------------------------
LEMMA InitIndInv == Init => IndInv
<1> SUFFICES ASSUME Init PROVE IndInv
  OBVIOUS
<1>1. 0 \in Counter /\ Dist(0, 0) = 0
  BY ModulusType, CapacityAssumption, LapsAssumption DEF Counter, Dist
<1>2. TypeOK
  BY <1>1 DEF Init, TypeOK, Verdict
<1>3. CountersOrdered /\ PointsInv /\ AnswersInv
  BY <1>1, CapacityAssumption, LapsAssumption DEF Init, CountersOrdered, PointsInv, AnswersInv, Queued
<1>4. ContentsInv
  BY <1>1, SlotInRange, CapacityAssumption, LapsAssumption DEF Init, ContentsInv, Queued
<1>5. QED
  BY <1>2, <1>3, <1>4 DEF IndInv

(* What every step starts from: the distances that bound the live window, and the
   slots it addresses. *)
LEMMA Window ==
  ASSUME IndInv
  PROVE  /\ Queued \in 0 .. Capacity
         /\ Dist(tail, cachedHead) \in Queued .. Capacity
         /\ Dist(cachedTail, head) \in 0 .. Queued
         /\ LenSeen = Queued
         /\ Slot(head) = Slot(head + 0) /\ Slot(tail) = Slot(head + Queued)
         /\ Slot(head) \in Slots /\ Slot(tail) \in Slots
         /\ head \in Nat /\ tail \in Nat
<1>1. head \in Counter /\ tail \in Counter /\ cachedHead \in Counter /\ cachedTail \in Counter
  BY DEF IndInv, TypeOK
<1>2. head \in Nat /\ tail \in Nat /\ head + 0 = head
  BY <1>1, ModulusType DEF Counter
<1>3. Queued \in Nat /\ Dist(tail, cachedHead) \in Nat /\ Dist(cachedTail, head) \in Nat
  BY <1>1, IncDist, ModulusType DEF Queued
<1>4. Queued \in 0 .. Capacity /\ LenSeen = Queued
  BY <1>3, CapacityAssumption, LapsAssumption DEF IndInv, CountersOrdered, LenSeen
<1>5. /\ Dist(tail, cachedHead) \in Queued .. Capacity
      /\ Dist(cachedTail, head) \in 0 .. Queued
  BY <1>3, <1>4, CapacityAssumption, LapsAssumption DEF IndInv, CountersOrdered
<1>6. Slot(tail) = Slot(head + Queued)
  BY <1>1, SlotAtDistance DEF Queued
<1>7. QED
  BY <1>2, <1>4, <1>5, <1>6, SlotInRange

(* What a step leaves alone keeps its part of the invariant.  The parts mention the
   two threads' program points only where they matter, so each action's lemma
   re-establishes the whole. *)
LEMMA PushStartStep ==
  ASSUME IndInv, NEW v \in Value, PushStart(v)
  PROVE  IndInv'
<1> USE DEF PushStart, consVars, IndInv
<1>1. TypeOK'
  BY DEF TypeOK
<1>2. Queued' = Queued /\ (Dropped' <=> Dropped) /\ (prod' = "publish" <=> prod = "publish")
  BY DEF Queued, Dropped
<1>3. CountersOrdered'
  BY <1>2 DEF CountersOrdered
<1>4. PointsInv'
  BY <1>2, Window, CapacityAssumption, LapsAssumption DEF PointsInv
<1>5. AnswersInv'
  BY <1>2 DEF AnswersInv
<1>6. ContentsInv'
  BY <1>2 DEF ContentsInv
<1>7. QED
  BY <1>1, <1>3, <1>4, <1>5, <1>6

LEMMA PushReloadStep ==
  ASSUME IndInv, PushReload
  PROVE  IndInv'
<1> USE DEF PushReload, consVars, IndInv
<1>1. TypeOK'
  BY DEF TypeOK, Verdict
<1>2. Queued' = Queued /\ ~Dropped /\ ~Dropped' /\ prod # "publish" /\ prod' # "publish"
  BY DEF Queued, Dropped
<1>3. Dist(tail', cachedHead') = Queued
  BY DEF Queued
<1>4. CountersOrdered'
  BY <1>2, <1>3, Window DEF CountersOrdered
<1>5. PointsInv'
  BY <1>2, <1>3, Window, CapacityAssumption, LapsAssumption DEF PointsInv, Queued
<1>6. AnswersInv'
  BY <1>2 DEF AnswersInv
<1>7. ContentsInv'
  BY <1>2 DEF ContentsInv
<1>8. QED
  BY <1>1, <1>4, <1>5, <1>6, <1>7

LEMMA PushWriteStep ==
  ASSUME IndInv, PushWrite
  PROVE  IndInv'
<1> USE DEF PushWrite, consVars, IndInv
<1>1. TypeOK'
  BY Window DEF TypeOK, PointsInv
<1>2. Queued' = Queued /\ ~Dropped /\ ~Dropped' /\ Queued < Capacity
  BY Window, CapacityAssumption, LapsAssumption DEF Queued, Dropped, PointsInv
<1>3. CountersOrdered'
  BY <1>2 DEF CountersOrdered
<1>4. PointsInv'
  BY <1>2 DEF PointsInv
<1>5. AnswersInv'
  BY <1>2 DEF AnswersInv
<1>6. ContentsInv'
  <2> SUFFICES ASSUME NEW i \in 0 .. Capacity - 1
               PROVE  LET held == slots'[Slot(head + i)] IN
                      IF i < Queued /\ ~(i = 0 /\ cons = "release") THEN held \in Value
                      ELSE IF i = Queued THEN held = pushing
                      ELSE held = NoValue
    BY <1>2 DEF ContentsInv
  <2>1. Slot(head + i) = Slot(tail) <=> i = Queued
    BY <1>2, Window, OffsetsDistinct, CapacityAssumption, LapsAssumption
  <2>2. slots \in [Slots -> Value \cup {NoValue}] /\ Slot(head + i) \in Slots
    BY Window, SlotInRange, CapacityAssumption, LapsAssumption DEF TypeOK
  <2>3. CASE i = Queued
    BY <2>1, <2>2, <2>3, Window
  <2>4. CASE i # Queued
    <3>1. slots'[Slot(head + i)] = slots[Slot(head + i)]
      BY <2>1, <2>2, <2>4, Window
    <3>2. QED
      BY <1>2, <2>4, <3>1 DEF ContentsInv
  <2>5. QED
    BY <2>3, <2>4
<1>7. QED
  BY <1>1, <1>3, <1>4, <1>5, <1>6

LEMMA PushPublishStep ==
  ASSUME IndInv, PushPublish
  PROVE  IndInv'
<1> USE DEF PushPublish, consVars, IndInv
<1>1. /\ tail \in Counter /\ head \in Counter
      /\ cachedHead \in Counter /\ cachedTail \in Counter
  BY DEF TypeOK
<1>2. Queued < Capacity /\ Dist(tail, cachedHead) < Capacity /\ ~Dropped /\ ~Dropped'
  BY Window, CapacityAssumption, LapsAssumption DEF PointsInv, Dropped
<1>3. /\ Queued' = Queued + 1 /\ tail' \in Counter
      /\ Dist(tail', cachedHead') = Dist(tail, cachedHead) + 1
  BY <1>1, <1>2, IncDist, ModulusType, Window, CapacityAssumption, LapsAssumption DEF Queued
<1>4. TypeOK'
  BY <1>3 DEF TypeOK, Verdict
<1>5. CountersOrdered'
  BY <1>2, <1>3, Window, CapacityAssumption, LapsAssumption DEF CountersOrdered
<1>6. PointsInv'
  BY <1>3, Window, CapacityAssumption, LapsAssumption DEF PointsInv
<1>7. AnswersInv'
  BY <1>3, Window, CapacityAssumption, LapsAssumption DEF AnswersInv
<1>8. ContentsInv'
  BY <1>2, <1>3, Window, CapacityAssumption, LapsAssumption DEF ContentsInv, PointsInv
<1>9. QED
  BY <1>4, <1>5, <1>6, <1>7, <1>8

LEMMA IsFullStep ==
  ASSUME IndInv, IsFull
  PROVE  IndInv'
<1> USE DEF IsFull, consVars, IndInv
<1>1. TypeOK'
  BY DEF TypeOK, Verdict
<1>2. Queued' = Queued /\ (Dropped' <=> Dropped)
  BY DEF Queued, Dropped
<1>3. CountersOrdered' /\ PointsInv' /\ ContentsInv'
  BY <1>2 DEF CountersOrdered, PointsInv, ContentsInv
<1>4. AnswersInv'
  BY <1>2, Window, CapacityAssumption, LapsAssumption DEF AnswersInv
<1>5. QED
  BY <1>1, <1>3, <1>4

LEMMA PopStartStep ==
  ASSUME IndInv, PopStart
  PROVE  IndInv'
<1> USE DEF PopStart, prodVars, IndInv
<1>1. TypeOK'
  BY DEF TypeOK
<1>2. Queued' = Queued /\ (Dropped' <=> Dropped)
  BY DEF Queued, Dropped
<1>3. CountersOrdered' /\ AnswersInv' /\ ContentsInv'
  BY <1>2 DEF CountersOrdered, AnswersInv, ContentsInv
<1>4. head # cachedTail => Dist(cachedTail, head) > 0
  BY IncDist, Window, CapacityAssumption, LapsAssumption DEF TypeOK
<1>5. PointsInv'
  BY <1>2, <1>4 DEF PointsInv
<1>6. QED
  BY <1>1, <1>3, <1>5

LEMMA PopReloadStep ==
  ASSUME IndInv, PopReload
  PROVE  IndInv'
<1> USE DEF PopReload, prodVars, IndInv
<1>1. TypeOK'
  BY DEF TypeOK, Verdict
<1>2. Queued' = Queued /\ ~Dropped /\ ~Dropped'
  BY DEF Queued, Dropped
<1>3. Dist(cachedTail', head') = Queued
  BY DEF Queued
<1>4. CountersOrdered'
  BY <1>2, <1>3, Window DEF CountersOrdered
<1>5. head # tail => Queued > 0
  BY IncDist, Window, CapacityAssumption, LapsAssumption DEF TypeOK, Queued
<1>6. PointsInv' /\ AnswersInv' /\ ContentsInv'
  BY <1>2, <1>3, <1>5 DEF PointsInv, AnswersInv, ContentsInv
<1>7. QED
  BY <1>1, <1>4, <1>6

LEMMA PopMoveStep ==
  ASSUME IndInv, PopMove
  PROVE  IndInv'
<1> USE DEF PopMove, prodVars, IndInv
<1>1. Queued' = Queued /\ ~Dropped /\ ~Dropped' /\ Queued > 0
  BY Window, CapacityAssumption, LapsAssumption DEF Queued, Dropped, PointsInv
<1>2. slots \in [Slots -> Value \cup {NoValue}] /\ slots[Slot(head)] \in Value
  <2>1. 0 \in 0 .. Capacity - 1
    BY CapacityAssumption, LapsAssumption
  <2>2. QED
    BY <1>1, <2>1, Window DEF TypeOK, ContentsInv
<1>3. TypeOK'
  BY <1>2, Window DEF TypeOK
<1>4. CountersOrdered' /\ AnswersInv'
  BY <1>1 DEF CountersOrdered, AnswersInv
<1>5. PointsInv'
  BY <1>1, <1>2 DEF PointsInv
<1>6. ContentsInv'
  <2> SUFFICES ASSUME NEW i \in 0 .. Capacity - 1
               PROVE  LET held == slots'[Slot(head + i)] IN
                      IF i < Queued /\ i # 0 THEN held \in Value
                      ELSE IF i = Queued /\ prod = "publish" THEN held = pushing
                      ELSE held = NoValue
    BY <1>1 DEF ContentsInv
  <2>1. Slot(head + i) = Slot(head) <=> i = 0
    <3>1. 0 \in 0 .. Capacity - 1 /\ head \in Nat /\ Slot(head) = Slot(head + 0)
      BY Window, CapacityAssumption, LapsAssumption
    <3>2. QED
      BY <3>1, OffsetsDistinct
  <2>2. Slot(head + i) \in Slots
    BY Window, SlotInRange, CapacityAssumption, LapsAssumption
  <2>3. CASE i = 0
    BY <1>1, <1>2, <2>1, <2>2, <2>3
  <2>4. CASE i # 0
    <3>1. slots'[Slot(head + i)] = slots[Slot(head + i)]
      BY <1>2, <2>1, <2>2, <2>4
    <3>2. QED
      BY <1>1, <2>4, <3>1 DEF ContentsInv
  <2>5. QED
    BY <2>3, <2>4
<1>7. QED
  BY <1>3, <1>4, <1>5, <1>6

LEMMA PopReleaseStep ==
  ASSUME IndInv, PopRelease
  PROVE  IndInv'
<1> USE DEF PopRelease, prodVars, IndInv
<1>1. /\ tail \in Counter /\ head \in Counter
      /\ cachedHead \in Counter /\ cachedTail \in Counter
  BY DEF TypeOK
<1>2. Queued > 0 /\ Dist(cachedTail, head) > 0 /\ ~Dropped /\ ~Dropped'
  BY Window, CapacityAssumption, LapsAssumption DEF PointsInv, Dropped
<1>3. /\ Queued' = Queued - 1 /\ head' \in Counter
      /\ Dist(cachedTail', head') = Dist(cachedTail, head) - 1
  BY <1>1, <1>2, IncDist DEF Queued
<1>4. TypeOK'
  BY <1>3 DEF TypeOK, Verdict
<1>5. CountersOrdered'
  BY <1>2, <1>3, Window, CapacityAssumption, LapsAssumption DEF CountersOrdered
<1>6. PointsInv'
  BY <1>3, Window, CapacityAssumption, LapsAssumption DEF PointsInv
<1>7. AnswersInv'
  BY <1>3, Window, CapacityAssumption, LapsAssumption DEF AnswersInv
<1>8. ContentsInv'
  <2> SUFFICES ASSUME NEW i \in 0 .. Capacity - 1
               PROVE  LET held == slots[Slot(head' + i)] IN
                      IF i < Queued - 1 THEN held \in Value
                      ELSE IF i = Queued - 1 /\ prod = "publish" THEN held = pushing
                      ELSE held = NoValue
    BY <1>2, <1>3 DEF ContentsInv
  <2>1. Slot(head' + i) = Slot(head + (i + 1))
    BY <1>1, SlotAfterInc, CapacityAssumption, LapsAssumption
  <2>2. CASE i + 1 < Capacity
    <3>1. i + 1 \in 0 .. Capacity - 1
      BY <2>2, CapacityAssumption, LapsAssumption
    <3>2. QED
      BY <1>2, <2>1, <3>1, Window, CapacityAssumption, LapsAssumption DEF ContentsInv
  <2>3. CASE i + 1 = Capacity
    <3>1. Slot(head' + i) = Slot(head + 0)
      BY <2>1, <2>3, SlotAfterLap, Window
    <3>2. slots[Slot(head + 0)] = NoValue
      <4>1. 0 \in 0 .. Capacity - 1
        BY CapacityAssumption, LapsAssumption
      <4>2. QED
        BY <1>2, <4>1 DEF ContentsInv
    <3>3. ~(i < Queued - 1) /\ ~(i = Queued - 1 /\ prod = "publish")
      BY <2>3, Window, CapacityAssumption, LapsAssumption DEF PointsInv
    <3>4. QED
      BY <3>1, <3>2, <3>3
  <2>4. QED
    BY <2>2, <2>3, CapacityAssumption, LapsAssumption
<1>9. QED
  BY <1>4, <1>5, <1>6, <1>7, <1>8

LEMMA IsEmptyStep ==
  ASSUME IndInv, IsEmpty
  PROVE  IndInv'
<1> USE DEF IsEmpty, prodVars, IndInv
<1>1. TypeOK'
  BY DEF TypeOK, Verdict
<1>2. Queued' = Queued /\ (Dropped' <=> Dropped)
  BY DEF Queued, Dropped
<1>3. CountersOrdered' /\ PointsInv' /\ ContentsInv'
  BY <1>2 DEF CountersOrdered, PointsInv, ContentsInv
<1>4. AnswersInv'
  BY <1>2, Window, CapacityAssumption, LapsAssumption DEF AnswersInv
<1>5. QED
  BY <1>1, <1>3, <1>4

LEMMA PeekStep ==
  ASSUME IndInv, Peek \/ PeekEnd
  PROVE  IndInv'
<1> USE DEF Peek, PeekEnd, prodVars, IndInv
<1>1. TypeOK'
  BY DEF TypeOK
<1>2. Queued' = Queued /\ ~Dropped /\ ~Dropped'
  BY DEF Queued, Dropped
<1>3. CountersOrdered' /\ AnswersInv' /\ ContentsInv'
  BY <1>2 DEF CountersOrdered, AnswersInv, ContentsInv
<1>4. head # tail => Queued > 0
  <2>1. head \in Counter /\ tail \in Counter /\ Queued \in Nat
    BY Window, CapacityAssumption, LapsAssumption DEF TypeOK
  <2>2. QED
    BY <2>1, IncDist DEF Queued
<1>5. PointsInv'
  BY <1>2, <1>4 DEF PointsInv
<1>6. QED
  BY <1>1, <1>3, <1>5

(* Dropping the last half frees exactly the queued items. *)
LEMMA DropStep ==
  ASSUME IndInv, DropProducer \/ DropConsumer
  PROVE  IndInv'
<1> USE DEF DropProducer, DropConsumer, DropRing, prodVars, consVars, IndInv
<1>1. Queued' = Queued /\ ~Dropped /\ head' = head /\ pushing' = pushing
  BY DEF Queued, Dropped
<1>2. /\ prod' = "publish" <=> prod = "publish"
      /\ cons' = "release" <=> cons = "release"
      /\ Dropped' => prod # "publish" /\ cons # "release"
  BY DEF Dropped
<1>3. TypeOK'
  BY DEF TypeOK
<1>4. CountersOrdered' /\ PointsInv' /\ AnswersInv'
  BY <1>1 DEF CountersOrdered, PointsInv, AnswersInv
<1>5. ContentsInv'
  <2>1. CASE ~Dropped'
    <3>1. slots' = slots
      BY <2>1 DEF Dropped
    <3>2. QED
      BY <1>1, <1>2, <2>1, <3>1 DEF ContentsInv
  <2>2. CASE Dropped'
    <3>1. slots' = [s \in Slots |-> IF s \in Live THEN NoValue ELSE slots[s]]
      BY <2>2 DEF Dropped
    <3>2. ASSUME NEW i \in 0 .. Capacity - 1
          PROVE  slots'[Slot(head + i)] = NoValue
      <4>1. Slot(head + i) \in Slots
        BY Window, SlotInRange, CapacityAssumption, LapsAssumption
      <4>2. i < Queued => Slot(head + i) \in Live
        BY <4>1, Window, CapacityAssumption, LapsAssumption DEF Live
      <4>3. ~(i < Queued) => slots[Slot(head + i)] = NoValue
        BY <1>1, <1>2, <2>2 DEF ContentsInv
      <4>4. QED
        BY <3>1, <4>1, <4>2, <4>3
    <3>3. QED
      BY <1>1, <1>2, <2>2, <3>2 DEF ContentsInv
  <2>3. QED
    BY <2>1, <2>2
<1>6. QED
  BY <1>3, <1>4, <1>5

LEMMA NextIndInv == IndInv /\ [Next]_vars => IndInv'
<1> SUFFICES ASSUME IndInv, [Next]_vars
             PROVE  IndInv'
  OBVIOUS
<1>1. CASE UNCHANGED vars
  BY <1>1 DEF vars, prodVars, consVars, IndInv, TypeOK, CountersOrdered, PointsInv,
     AnswersInv, ContentsInv, Queued, Dropped
<1>2. CASE ProducerStep
  BY <1>2, PushStartStep, PushReloadStep, PushWriteStep, PushPublishStep, IsFullStep,
     DropStep DEF ProducerStep
<1>3. CASE ConsumerStep
  BY <1>3, PopStartStep, PopReloadStep, PopMoveStep, PopReleaseStep, IsEmptyStep,
     PeekStep, DropStep DEF ConsumerStep
<1>4. QED
  BY <1>1, <1>2, <1>3 DEF Next

(* The inductive invariant holds of every ring. *)
THEOREM SpscIndInv == Spec => []IndInv
  BY InitIndInv, NextIndInv, PTL DEF Spec

(* The counters stay within a lap of each other and no cache runs ahead, so the
   clamp of Ring::len is dead code. *)
THEOREM SpscCounters == Spec => [](TypeOK /\ CountersOrdered)
<1>1. IndInv => TypeOK /\ CountersOrdered
  BY DEF IndInv
<1>2. QED
  BY <1>1, SpscIndInv, PTL

(* push writes only an empty slot; pop and peek read only an initialised one. *)
THEOREM SpscSlotOwnership == Spec => []SlotOwnership
<1>1. IndInv => SlotOwnership
  <2> SUFFICES ASSUME IndInv PROVE SlotOwnership
    OBVIOUS
  <2>1. prod = "write" => slots[Slot(tail)] = NoValue
    <3> SUFFICES ASSUME prod = "write" PROVE slots[Slot(tail)] = NoValue
      OBVIOUS
    <3>1. Queued \in 0 .. Capacity - 1
      BY Window, CapacityAssumption, LapsAssumption DEF IndInv, PointsInv
    <3>2. QED
      BY <3>1, Window DEF IndInv, ContentsInv
  <2>2. cons \in {"move", "peek"} => slots[Slot(head)] # NoValue
    <3> SUFFICES ASSUME cons \in {"move", "peek"} PROVE slots[Slot(head)] # NoValue
      OBVIOUS
    <3>1. Queued > 0 /\ 0 \in 0 .. Capacity - 1 /\ ~Dropped
      BY Window, CapacityAssumption, LapsAssumption DEF IndInv, PointsInv, Dropped
    <3>2. slots[Slot(head + 0)] \in Value
      BY <3>1 DEF IndInv, ContentsInv
    <3>3. QED
      BY <3>2, Window, SpscAssumption
  <2>3. QED
    BY <2>1, <2>2 DEF SlotOwnership
<1>2. QED
  BY <1>1, SpscIndInv, PTL

(* push, with its write to the slot, is never at the slot pop moves out of or peek
   reads. *)
THEOREM SpscNoSharedSlot == Spec => []NoSharedSlot
<1>1. IndInv => NoSharedSlot
  <2> SUFFICES ASSUME IndInv, prod \in {"write", "publish"},
                      cons \in {"move", "release", "peek"}
               PROVE  Slot(tail) # Slot(head)
    BY DEF NoSharedSlot
  <2>1. Queued \in 0 .. Capacity - 1 /\ Queued # 0 /\ 0 \in 0 .. Capacity - 1
    BY Window, CapacityAssumption, LapsAssumption DEF IndInv, PointsInv
  <2>2. head \in Nat /\ Slot(tail) = Slot(head + Queued) /\ Slot(head) = Slot(head + 0)
    BY Window
  <2>3. QED
    BY <2>1, <2>2, OffsetsDistinct
<1>2. QED
  BY <1>1, SpscIndInv, PTL

(* The live slots are exactly those between the counters, and once both halves are
   gone none is left. *)
THEOREM SpscNothingLeaks == Spec => []NothingLeaks
<1>1. IndInv => NothingLeaks
  <2> SUFFICES ASSUME IndInv, NEW s \in Slots
               PROVE  slots[s] # NoValue
                        <=> \/ ~Dropped /\ s \in Live /\ ~(cons = "release" /\ s = Slot(head))
                            \/ prod = "publish" /\ s = Slot(tail)
    BY DEF NothingLeaks
  <2>1. PICK i \in 0 .. Capacity - 1 : Slot(head + i) = s
    BY EverySlotReached, Window
  <2>2. s = Slot(head) <=> i = 0
    <3>1. 0 \in 0 .. Capacity - 1 /\ head \in Nat /\ Slot(head) = Slot(head + 0)
      BY Window, CapacityAssumption, LapsAssumption
    <3>2. QED
      BY <2>1, <3>1, OffsetsDistinct
  <2>3. s \in Live <=> i < Queued
    <3>1. ASSUME NEW j \in 0 .. Queued - 1, s = Slot(head + j)
          PROVE  j = i
      <4>1. j \in 0 .. Capacity - 1
        BY <3>1, Window, CapacityAssumption, LapsAssumption
      <4>2. QED
        BY <2>1, <3>1, <4>1, OffsetsDistinct, Window
    <3>2. QED
      BY <2>1, <3>1, Window, CapacityAssumption, LapsAssumption DEF Live
  <2>4. prod = "publish" => (s = Slot(tail) <=> i = Queued)
    <3> SUFFICES ASSUME prod = "publish" PROVE s = Slot(tail) <=> i = Queued
      OBVIOUS
    <3>1. Queued \in 0 .. Capacity - 1
      BY Window, CapacityAssumption, LapsAssumption DEF IndInv, PointsInv
    <3>2. QED
      BY <2>1, <3>1, Window, OffsetsDistinct
  <2>5. /\ prod = "publish" => ~Dropped /\ pushing \in Value
        /\ NoValue \notin Value
        /\ cons = "release" => Queued > 0
    BY Window, CapacityAssumption, LapsAssumption, SpscAssumption DEF Dropped, IndInv, PointsInv
  <2>6. LET held == slots[s] IN
        IF i < Queued /\ ~Dropped /\ ~(i = 0 /\ cons = "release") THEN held \in Value
        ELSE IF i = Queued /\ prod = "publish" THEN held = pushing
        ELSE held = NoValue
    BY <2>1 DEF IndInv, ContentsInv
  <2>7. QED
    BY <2>2, <2>3, <2>4, <2>5, <2>6, Window
<1>2. QED
  BY <1>1, SpscIndInv, PTL

(* After `!is_full()` the next push is accepted, after `!is_empty()` the next pop
   returns an item. *)
THEOREM SpscAnswersAreStable == Spec => AnswersAreStable
<1>1. IndInv /\ [Next]_vars
        => [/\ prod = "reload" /\ prod' = "idle" => room # "yes"
            /\ cons = "reload" /\ cons' = "idle" => items # "yes"]_vars
  <2> SUFFICES ASSUME IndInv, Next
               PROVE  /\ prod = "reload" /\ prod' = "idle" => room # "yes"
                      /\ cons = "reload" /\ cons' = "idle" => items # "yes"
    OBVIOUS
  <2>1. prod = "reload" /\ prod' = "idle" => Queued = Capacity
    BY DEF Next, ProducerStep, PushStart, PushReload, PushWrite, PushPublish, IsFull,
       DropProducer, ConsumerStep, PopStart, PopReload, PopMove, PopRelease, IsEmpty, Peek,
       PeekEnd, DropConsumer, prodVars, consVars, Queued
  <2>2. cons = "reload" /\ cons' = "idle" => head = tail
    BY DEF Next, ProducerStep, PushStart, PushReload, PushWrite, PushPublish, IsFull,
       DropProducer, ConsumerStep, PopStart, PopReload, PopMove, PopRelease, IsEmpty, Peek,
       PeekEnd, DropConsumer, prodVars, consVars
  <2>3. head = tail => Queued = 0
    BY IncDist DEF IndInv, TypeOK, Queued
  <2>4. QED
    BY <2>1, <2>2, <2>3, Window, CapacityAssumption, LapsAssumption DEF IndInv, AnswersInv
<1>2. QED
  BY <1>1, SpscIndInv, PTL DEF Spec, AnswersAreStable

-----------------------------------------------------------------------------
(* The refinement.  What the mapped queue is in every state: *)
WaitingAsSeq ==
  /\ ~Dropped => /\ Waiting \in Seq(Value)
                 /\ Len(Waiting) = Queued
                 /\ \A i \in 1 .. Queued :
                      Waiting[i] = IF i = 1 /\ cons = "release" THEN taken
                                   ELSE slots[Slot(head + (i - 1))]
  /\ Dropped => Waiting = <<>>

LEMMA WaitingIsSeq == IndInv => WaitingAsSeq
<1> SUFFICES ASSUME IndInv PROVE WaitingAsSeq
  OBVIOUS
<1> USE DEF WaitingAsSeq
<1>1. CASE ~Dropped
  <2>1. ASSUME NEW i \in 1 .. Queued
        PROVE  /\ (IF i = 1 /\ cons = "release" THEN taken ELSE slots[Slot(head + i - 1)]) \in Value
               /\ head + i - 1 = head + (i - 1)
    <3>1. i - 1 \in 0 .. Capacity - 1 /\ i - 1 < Queued /\ head + i - 1 = head + (i - 1)
      BY Window, CapacityAssumption, LapsAssumption
    <3>2. CASE i = 1 /\ cons = "release"
      BY <3>1, <3>2 DEF IndInv, PointsInv
    <3>3. CASE ~(i = 1 /\ cons = "release")
      <4>1. slots[Slot(head + (i - 1))] \in Value
        BY <1>1, <3>1, <3>3, Window, CapacityAssumption, LapsAssumption DEF IndInv, ContentsInv
      <4>2. QED
        BY <3>1, <3>3, <4>1
    <3>4. QED
      BY <3>2, <3>3
  <2>2. Queued \in Nat
    BY Window, CapacityAssumption, LapsAssumption
  <2> DEFINE w == [i \in 1 .. Queued |->
                     IF i = 1 /\ cons = "release" THEN taken ELSE slots[Slot(head + i - 1)]]
  <2>3. Waiting = w
    BY <1>1 DEF Waiting
  <2>4. w \in Seq(Value) /\ Len(w) = Queued
    BY <2>1, <2>2
  <2>5. \A i \in 1 .. Queued : w[i] = IF i = 1 /\ cons = "release" THEN taken
                                       ELSE slots[Slot(head + (i - 1))]
    BY <2>1
  <2>6. QED
    BY <1>1, <2>3, <2>4, <2>5
<1>2. CASE Dropped
  BY <1>2 DEF Waiting
<1>3. QED
  BY <1>1, <1>2

(* The initial ring is the empty queue. *)
LEMMA InitRefines == Init => Fifo!Init
<1> SUFFICES ASSUME Init PROVE Waiting = <<>> /\ popped = NoValue
  BY DEF Fifo!Init
<1>1. ~Dropped /\ Queued = 0 /\ popped = NoValue
  BY IncDist, ModulusType, CapacityAssumption, LapsAssumption DEF Init, Dropped, Queued, Counter
<1>2. Waiting \in Seq(Value) /\ Len(Waiting) = 0
  BY <1>1, InitIndInv, WaitingIsSeq DEF WaitingAsSeq
<1>3. QED
  BY <1>1, <1>2

LEMMA WaitingIsSeqNext == IndInv' => WaitingAsSeq'
  BY WaitingIsSeq, PTL

(* A step that moves neither counter and keeps every waiting item is invisible. *)
LEMMA StutterRefines ==
  ASSUME IndInv, IndInv', Queued' = Queued, ~Dropped, ~Dropped', popped' = popped,
         \A i \in 1 .. Queued : Waiting'[i] = Waiting[i]
  PROVE  UNCHANGED <<Waiting, popped>>
<1>1. Waiting \in Seq(Value) /\ Len(Waiting) = Queued
  BY WaitingIsSeq DEF WaitingAsSeq
<1>2. Waiting' \in Seq(Value) /\ Len(Waiting') = Queued
  BY WaitingIsSeqNext DEF WaitingAsSeq
<1>3. QED
  BY <1>1, <1>2, SeqEqual

(* The store of tail is where an item enters the queue, *)
LEMMA PublishRefines ==
  ASSUME IndInv, IndInv', PushPublish
  PROVE  Fifo!Put
<1> USE DEF PushPublish, consVars
<1>1. ~Dropped /\ ~Dropped' /\ Queued < Capacity /\ pushing \in Value
  BY Window, CapacityAssumption, LapsAssumption DEF IndInv, PointsInv, Dropped
<1>2. Queued \in Nat /\ Queued' = Queued + 1
  BY <1>1, IncDist, ModulusType, Window, CapacityAssumption, LapsAssumption DEF Queued, IndInv, TypeOK
<1>3. /\ Waiting \in Seq(Value) /\ Len(Waiting) = Queued
      /\ Waiting' \in Seq(Value) /\ Len(Waiting') = Queued + 1
  BY <1>1, <1>2, WaitingIsSeq, WaitingIsSeqNext DEF WaitingAsSeq
<1>4. ASSUME NEW i \in 1 .. Queued + 1
      PROVE  Waiting'[i] = Append(Waiting, pushing)[i]
  <2>1. Waiting'[i] = IF i = 1 /\ cons = "release" THEN taken
                      ELSE slots[Slot(head + (i - 1))]
    BY <1>1, <1>2, WaitingIsSeqNext DEF WaitingAsSeq
  <2>2. CASE i \in 1 .. Queued
    <3>1. Waiting[i] = IF i = 1 /\ cons = "release" THEN taken
                       ELSE slots[Slot(head + (i - 1))]
      BY <1>1, <2>2, WaitingIsSeq DEF WaitingAsSeq
    <3>2. QED
      BY <1>1, <1>2, <1>3, <2>1, <2>2, <3>1
  <2>3. CASE i = Queued + 1
    <3>1. i - 1 = Queued /\ ~(i = 1 /\ cons = "release") /\ Queued \in 0 .. Capacity - 1
      BY <1>1, <1>2, <2>3, Window, CapacityAssumption, LapsAssumption DEF IndInv, PointsInv
    <3>2. slots[Slot(head + Queued)] = pushing
      BY <1>1, <3>1 DEF IndInv, ContentsInv
    <3>3. Append(Waiting, pushing)[i] = pushing
      BY <1>1, <1>2, <1>3, <2>3
    <3>4. Waiting'[i] = slots[Slot(head + Queued)]
      BY <2>1, <3>1
    <3>5. QED
      BY <3>2, <3>3, <3>4
  <2>4. i \in 1 .. Queued \/ i = Queued + 1
    BY <1>2
  <2>5. QED
    BY <2>2, <2>3, <2>4
<1>5. Append(Waiting, pushing) \in Seq(Value) /\ Len(Append(Waiting, pushing)) = Queued + 1
  BY <1>1, <1>3
<1>6. Waiting' = Append(Waiting, pushing)
  BY <1>3, <1>4, <1>5, SeqEqual
<1>7. QED
  BY <1>1, <1>3, <1>6 DEF Fifo!Put

(* and the store of head is where the oldest leaves it. *)
LEMMA ReleaseRefines ==
  ASSUME IndInv, IndInv', PopRelease
  PROVE  Fifo!Take
<1> USE DEF PopRelease, prodVars
<1>1. ~Dropped /\ ~Dropped' /\ Queued > 0
  BY Window, CapacityAssumption, LapsAssumption DEF IndInv, PointsInv, Dropped
<1>2. /\ Queued \in 0 .. Capacity /\ Queued' = Queued - 1
      /\ head \in Counter /\ head' = Inc(head)
  BY <1>1, IncDist, Window DEF Queued, IndInv, TypeOK
<1>3. /\ Waiting \in Seq(Value) /\ Len(Waiting) = Queued
      /\ Waiting' \in Seq(Value) /\ Len(Waiting') = Queued - 1
  BY <1>1, <1>2, WaitingIsSeq, WaitingIsSeqNext DEF WaitingAsSeq
<1>4. ASSUME NEW i \in 1 .. Queued - 1
      PROVE  Waiting'[i] = Tail(Waiting)[i]
  <2>1. Waiting'[i] = slots[Slot(head' + (i - 1))]
    BY <1>1, <1>2, WaitingIsSeqNext DEF WaitingAsSeq
  <2>2. i + 1 \in 1 .. Queued /\ i + 1 # 1 /\ i - 1 \in Nat
    BY <1>2
  <2>3. Slot(head' + (i - 1)) = Slot(head + ((i + 1) - 1))
    BY <1>2, <2>2, SlotAfterInc
  <2>4. Waiting[i + 1] = slots[Slot(head + ((i + 1) - 1))]
    BY <1>1, <2>2, WaitingIsSeq DEF WaitingAsSeq
  <2>5. Tail(Waiting)[i] = Waiting[i + 1]
    BY <1>2, <1>3
  <2>6. QED
    BY <2>1, <2>3, <2>4, <2>5
<1>5. Tail(Waiting) \in Seq(Value) /\ Len(Tail(Waiting)) = Queued - 1 /\ Waiting # <<>>
  BY <1>1, <1>2, <1>3
<1>6. Waiting' = Tail(Waiting)
  BY <1>3, <1>4, <1>5, SeqEqual
<1>7. Head(Waiting) = taken
  <2>1. 1 \in 1 .. Queued
    BY <1>1, <1>2
  <2>2. Waiting[1] = taken
    BY <1>1, <2>1, WaitingIsSeq DEF WaitingAsSeq
  <2>3. QED
    BY <1>3, <2>2
<1>8. QED
  BY <1>5, <1>6, <1>7 DEF Fifo!Take

(* Moving the head item out of its slot is invisible: it is still on its way out. *)
LEMMA MoveRefines ==
  ASSUME IndInv, IndInv', PopMove
  PROVE  UNCHANGED <<Waiting, popped>>
<1> USE DEF PopMove, prodVars
<1>1. /\ ~Dropped /\ ~Dropped' /\ Queued' = Queued
      /\ slots \in [Slots -> Value \cup {NoValue}]
  BY DEF Dropped, Queued, IndInv, TypeOK
<1>2. ASSUME NEW i \in 1 .. Queued
      PROVE  Waiting'[i] = Waiting[i]
  <2>1. /\ Waiting'[i] = IF i = 1 THEN taken' ELSE slots'[Slot(head + (i - 1))]
        /\ Waiting[i] = slots[Slot(head + (i - 1))]
    BY <1>1, WaitingIsSeq, WaitingIsSeqNext DEF WaitingAsSeq
  <2>2. /\ i - 1 \in 0 .. Capacity - 1 /\ 0 \in 0 .. Capacity - 1 /\ head \in Nat
        /\ Slot(head) = Slot(head + 0) /\ Slot(head) \in Slots
    BY Window, CapacityAssumption, LapsAssumption
  <2>3. CASE i = 1
    BY <2>1, <2>2, <2>3
  <2>4. CASE i # 1
    <3>1. Slot(head + (i - 1)) # Slot(head) /\ Slot(head + (i - 1)) \in Slots
      BY <2>2, <2>4, OffsetsDistinct, SlotInRange
    <3>2. QED
      BY <1>1, <2>1, <2>2, <2>4, <3>1
  <2>5. QED
    BY <2>3, <2>4
<1>3. QED
  BY <1>1, <1>2, StutterRefines

(* Nor is the write of a slot nobody can see yet. *)
LEMMA WriteRefines ==
  ASSUME IndInv, IndInv', PushWrite
  PROVE  UNCHANGED <<Waiting, popped>>
<1> USE DEF PushWrite, consVars
<1>1. /\ ~Dropped /\ ~Dropped' /\ Queued' = Queued /\ Queued \in 0 .. Capacity - 1
      /\ slots \in [Slots -> Value \cup {NoValue}]
  BY Window, CapacityAssumption, LapsAssumption DEF Dropped, Queued, IndInv, TypeOK, PointsInv
<1>2. ASSUME NEW i \in 1 .. Queued
      PROVE  Waiting'[i] = Waiting[i]
  <2>1. /\ Waiting'[i] = IF i = 1 /\ cons = "release" THEN taken
                         ELSE slots'[Slot(head + (i - 1))]
        /\ Waiting[i] = IF i = 1 /\ cons = "release" THEN taken
                         ELSE slots[Slot(head + (i - 1))]
    BY <1>1, WaitingIsSeq, WaitingIsSeqNext DEF WaitingAsSeq
  <2>2. /\ i - 1 \in 0 .. Capacity - 1 /\ i - 1 # Queued /\ head \in Nat
        /\ Slot(tail) = Slot(head + Queued) /\ Slot(tail) \in Slots
    BY <1>1, Window, CapacityAssumption, LapsAssumption
  <2>3. Slot(head + (i - 1)) # Slot(tail) /\ Slot(head + (i - 1)) \in Slots
    BY <1>1, <2>2, OffsetsDistinct, SlotInRange
  <2>4. QED
    BY <1>1, <2>1, <2>3
<1>3. QED
  BY <1>1, <1>2, StutterRefines

(* Dropping the last half discards what is still queued, if anything is. *)
LEMMA DropRefines ==
  ASSUME IndInv, IndInv', DropProducer \/ DropConsumer
  PROVE  Fifo!Discard \/ UNCHANGED <<Waiting, popped>>
<1> USE DEF DropProducer, DropConsumer, prodVars, consVars
<1>1. ~Dropped /\ Queued' = Queued /\ popped' = popped
  BY DEF Dropped, Queued
<1>2. CASE Dropped'
  <2>1. Waiting' = <<>>
    BY <1>2, WaitingIsSeqNext DEF WaitingAsSeq
  <2>2. QED
    BY <1>1, <2>1 DEF Fifo!Discard
<1>3. CASE ~Dropped'
  <2>1. slots' = slots /\ (cons' = "release" <=> cons = "release") /\ taken' = taken
        /\ head' = head
    BY <1>3 DEF Dropped
  <2>2. \A i \in 1 .. Queued : Waiting'[i] = Waiting[i]
    BY <1>1, <1>3, <2>1, WaitingIsSeq, WaitingIsSeqNext DEF WaitingAsSeq
  <2>3. QED
    BY <1>1, <1>3, <2>2, StutterRefines
<1>4. QED
  BY <1>2, <1>3

(* The other accesses only look. *)
LookStep ==
  \/ \E v \in Value : PushStart(v)
  \/ PushReload \/ IsFull
  \/ PopStart \/ PopReload \/ IsEmpty \/ Peek \/ PeekEnd

LEMMA LookRefines ==
  ASSUME IndInv, IndInv', LookStep
  PROVE  UNCHANGED <<Waiting, popped>>
<1> USE DEF LookStep, PushStart, PushReload, IsFull, PopStart, PopReload, IsEmpty, Peek,
            PeekEnd, prodVars, consVars
<1>1. slots' = slots /\ head' = head /\ tail' = tail /\ popped' = popped /\ taken' = taken
  OBVIOUS
<1>2. cons' = "release" <=> cons = "release"
  OBVIOUS
<1>3. (Dropped' <=> Dropped)
  BY DEF Dropped
<1>4. Waiting' = Waiting
  BY <1>1, <1>2, <1>3 DEF Waiting, Queued
<1>5. QED
  BY <1>1, <1>4

LEMMA StepRefines ==
  IndInv /\ IndInv' /\ [Next]_vars => [Fifo!Next]_<<Waiting, popped>>
<1> SUFFICES ASSUME IndInv, IndInv', [Next]_vars
             PROVE  Fifo!Next \/ UNCHANGED <<Waiting, popped>>
  OBVIOUS
<1>1. CASE UNCHANGED vars
  BY <1>1 DEF vars, prodVars, consVars, Waiting, Queued, Dropped
<1>2. CASE ProducerStep
  BY <1>2, PublishRefines, WriteRefines, DropRefines, LookRefines
  DEF ProducerStep, LookStep, Fifo!Next
<1>3. CASE ConsumerStep
  BY <1>3, ReleaseRefines, MoveRefines, DropRefines, LookRefines
  DEF ConsumerStep, LookStep, Fifo!Next
<1>4. QED
  BY <1>1, <1>2, <1>3 DEF Next

(* The ring implements the bounded FIFO: nothing it was given is lost, duplicated,
   reordered or invented, whatever the two threads' interleaving. *)
THEOREM SpscImplementsFifo == Spec => ImplementsFifo
  BY SpscIndInv, InitRefines, StepRefines, PTL
  DEF Spec, ImplementsFifo, Fifo!Spec, Fifo!fifoVars
=============================================================================
