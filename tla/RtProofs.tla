------------------------------ MODULE RtProofs ------------------------------
(***************************************************************************)
(* The safety of daux-rt's other shared structures: MpscQueue for any      *)
(* number of producers and consumers, every capacity and every set of      *)
(* items; RtLog, which is built on it; and the triple buffer for every set *)
(* of fields and values.                                                   *)
(***************************************************************************)
EXTENDS RtLog, TripleBuffer, DataLemmas, FiniteSetTheorems

(* The remainders, read as slots.  The mask never leaves the slot array: `counter & mask`
   cannot panic. *)
LEMMA SlotInRange ==
  ASSUME NEW a \in Nat
  PROVE  Slot(a) \in Slots
  BY CapacityAssumption, Division DEF Slot, Slots

(* One lap later the same slot comes up again. *)
LEMMA SlotAfterLap ==
  ASSUME NEW a \in Nat
  PROVE  Slot(a + Capacity) = Slot(a)
  BY CapacityAssumption, RemainderAfterLap DEF Slot

(* The ring's slots are the Capacity slots counted from head. *)
LEMMA EverySlotReached ==
  ASSUME NEW s \in Slots, NEW h \in Nat
  PROVE  \E i \in 0 .. Capacity - 1 : Slot(h + i) = s
  BY CapacityAssumption, RemainderReached DEF Slot, Slots

(* Within one lap no two counters share a slot. *)
LEMMA SlotInjective ==
  ASSUME NEW a \in Nat, NEW b \in Nat, a < b, b - a < Capacity
  PROVE  Slot(a) # Slot(b)
  BY CapacityAssumption, RemaindersDiffer DEF Slot

(* A slot is known from any way of writing its counter. *)
LEMMA SlotOf ==
  ASSUME NEW p \in Nat, NEW s \in Slots
  PROVE  Slot(Capacity * p + s) = s
  BY CapacityAssumption, RemainderOf DEF Slot, Slots

(* The last lap of tickets: one ticket per slot. *)
InLap(n) == n \in tail - Capacity .. tail - 1

LEMMA Counters ==
  ASSUME IndInv
  PROVE  /\ tail \in Nat /\ head \in Nat /\ Capacity \in Nat /\ Capacity > 1
         /\ head <= tail /\ tail <= head + Capacity
         /\ Slot(tail) \in Slots /\ Slot(head) \in Slots
  BY CapacityAssumption, MpscCapacityAssumption, SlotInRange DEF IndInv, TypeOK, DispensersInv

(* An owner's ticket is in the last lap. *)
LEMMA OwnerInLap ==
  ASSUME IndInv, NEW t \in Threads, Owner(t)
  PROVE  /\ ticket[t] \in Nat /\ InLap(ticket[t])
         /\ Slot(ticket[t]) \in Slots
         /\ Slot(ticket[t]) = Slot(ticket[t] + Capacity)
<1>1. ticket[t] \in Nat
  BY DEF IndInv, TypeOK
<1>2. ASSUME t \in Producers PROVE InLap(ticket[t])
  <2>1. head <= ticket[t] /\ ticket[t] < tail
    BY <1>2 DEF IndInv, ProducersInv
  <2>2. QED
    BY <1>1, <2>1, Counters DEF InLap
<1>3. ASSUME t \in Consumers PROVE InLap(ticket[t])
  <2>1. tail <= ticket[t] + Capacity /\ ticket[t] < head
    BY <1>3 DEF IndInv, ConsumersInv
  <2>2. QED
    BY <1>1, <2>1, Counters DEF InLap
<1>4. QED
  BY <1>1, <1>2, <1>3, SlotInRange, SlotAfterLap DEF Threads

(* No two tickets of the last lap share a slot. *)
LEMMA LapSlots ==
  ASSUME IndInv, NEW m \in Int, NEW n \in Int, InLap(m), InLap(n), m # n
  PROVE  Slot(m + Capacity) # Slot(n + Capacity)
<1>1. m + Capacity \in Nat /\ n + Capacity \in Nat
  BY Counters DEF InLap
<1>2. CASE m < n
  BY <1>1, <1>2, Counters, SlotInjective DEF InLap
<1>3. CASE n < m
  BY <1>1, <1>3, Counters, SlotInjective DEF InLap
<1>4. QED
  BY <1>2, <1>3

LEMMA OwnerAlone ==
  ASSUME IndInv, NEW t \in Threads, Owner(t),
         NEW n \in Int, InLap(n), n # ticket[t]
  PROVE  Slot(n + Capacity) # Slot(ticket[t])
  BY OwnerInLap, LapSlots

(* Two owners never share a slot. *)
LEMMA OwnersApart ==
  ASSUME IndInv, NEW t \in Threads, NEW u \in Threads, t # u, Owner(t), Owner(u)
  PROVE  Slot(ticket[t]) # Slot(ticket[u])
<1>1. ticket[t] # ticket[u]
  BY DEF IndInv, OwnersInv
<1>2. QED
  BY <1>1, OwnerInLap, OwnerAlone

(* What the slot of a ticket of the last lap holds. *)
LEMMA SlotState ==
  ASSUME IndInv, NEW n \in Int, InLap(n)
  PROVE  LET s == Slot(n + Capacity) IN
         /\ s \in Slots
         /\ n >= 0 => Slot(n) = s
         /\ \/ \E p \in Producers : Owner(p) /\ ticket[p] = n /\ n >= head /\ sequence[s] = n
            \/ \E c \in Consumers : Owner(c) /\ ticket[c] = n /\ n < head /\ sequence[s] = n + 1
            \/ n >= head /\ sequence[s] = n + 1 /\ payload[s] = claims[n + 1]
            \/ n < head /\ sequence[s] = n + Capacity /\ payload[s] = NoValue
<1> DEFINE s == Slot(n + Capacity)
<1>1. n + Capacity \in Nat /\ s \in Slots
  BY Counters, SlotInRange DEF InLap
<1>2. n >= 0 => Slot(n) = s
  BY SlotAfterLap
<1>3. CASE \E t \in Threads : Owner(t) /\ ticket[t] = n
  <2>1. PICK t \in Threads : Owner(t) /\ ticket[t] = n
    BY <1>3
  <2>2. s = Slot(ticket[t]) /\ n \in Nat
    BY <2>1, OwnerInLap
  <2>3. CASE t \in Producers
    BY <2>1, <2>2, <2>3, <1>1, <1>2 DEF IndInv, ProducersInv
  <2>4. CASE t \in Consumers
    BY <2>1, <2>2, <2>4, <1>1, <1>2 DEF IndInv, ConsumersInv
  <2>5. QED
    BY <2>3, <2>4 DEF Threads
<1>4. CASE ~(\E t \in Threads : Owner(t) /\ ticket[t] = n)
  <2>1. IF n >= head THEN sequence[s] = n + 1 /\ payload[s] = claims[n + 1]
                     ELSE sequence[s] = n + Capacity /\ payload[s] = NoValue
    BY <1>4 DEF IndInv, UnownedInv, InLap
  <2>2. QED
    BY <2>1, <1>1, <1>2, Counters
<1>5. QED
  BY <1>3, <1>4

-----------------------------------------------------------------------------
LEMMA InitIndInv == Init => IndInv
<1> SUFFICES ASSUME Init PROVE IndInv
  OBVIOUS
<1> USE CapacityAssumption, MpscCapacityAssumption, MpscAssumption
<1>1. TypeOK
  BY DEF Init, TypeOK, Slots, Threads
<1>2. DispensersInv
  BY DEF Init, DispensersInv
<1>3. ProducersInv /\ ConsumersInv /\ OwnersInv
  BY DEF Init, ProducersInv, ConsumersInv, OwnersInv, Owner, Threads
<1>4. UnownedInv
  <2> SUFFICES ASSUME NEW n \in 0 - Capacity .. -1
               PROVE  sequence[Slot(n + Capacity)] = n + Capacity
                      /\ payload[Slot(n + Capacity)] = NoValue
    <3>1. ASSUME NEW n \in 0 - Capacity .. -1 PROVE ~(n >= 0)
      OBVIOUS
    <3>2. tail = 0 /\ head = 0 /\ 0 - 1 = -1
      BY DEF Init
    <3>3. QED
      BY <3>1, <3>2 DEF UnownedInv
  <2>1. n + Capacity \in Slots
    BY DEF Slots
  <2>2. Slot(n + Capacity) = n + Capacity
    BY <2>1, SlotOf, Capacity * 0 + (n + Capacity) = n + Capacity DEF Slots
  <2>3. QED
    BY <2>1, <2>2 DEF Init
<1>5. QED
  BY <1>1, <1>2, <1>3, <1>4 DEF IndInv

(* A step that moves one thread that owns no slot, and nothing else.  It covers every
   load, every failed compare-exchange and every refused call. *)
LEMMA QuietStep ==
  ASSUME IndInv, TypeOK', NEW t \in Threads,
         UNCHANGED <<queueVars, claims>>,
         \A u \in Threads : u # t => /\ pc'[u] = pc[u] /\ ticket'[u] = ticket[u]
                                     /\ item'[u] = item[u],
         ~Owner(t), ~Owner(t)',
         t \in Producers => /\ ticket'[t] <= tail
                            /\ pc'[t] # "idle" => item'[t] \in Value
                            /\ pc'[t] = "cas" /\ ticket'[t] = tail => sequence[Slot(tail)] = tail,
         t \in Consumers => /\ ticket'[t] <= head
                            /\ pc'[t] = "cas" /\ ticket'[t] = head
                                 => sequence[Slot(head)] = head + 1
  PROVE  IndInv'
<1>1. \A u \in Threads : /\ Owner(u)' <=> Owner(u)
                         /\ Owner(u) => ticket'[u] = ticket[u] /\ item'[u] = item[u]
  BY DEF Owner
<1>2. DispensersInv'
  BY DEF IndInv, DispensersInv, queueVars
<1>3. ProducersInv'
  <2> SUFFICES ASSUME NEW p \in Producers
               PROVE  /\ ticket'[p] <= tail
                      /\ pc'[p] # "idle" => item'[p] \in Value
                      /\ pc'[p] = "cas" /\ ticket'[p] = tail => sequence[Slot(tail)] = tail
                      /\ Owner(p)' => /\ head <= ticket'[p] /\ ticket'[p] < tail
                                      /\ item'[p] = claims[ticket'[p] + 1]
                                      /\ sequence[Slot(ticket'[p])] = ticket'[p]
                                      /\ payload[Slot(ticket'[p])] =
                                           (IF pc'[p] = "publish" THEN item'[p] ELSE NoValue)
    BY DEF ProducersInv, queueVars, Slot
  <2>1. CASE p = t
    BY <2>1, <1>1 DEF IndInv
  <2>2. CASE p # t
    BY <2>2, <1>1 DEF IndInv, ProducersInv, Threads
  <2>3. QED
    BY <2>1, <2>2
<1>4. ConsumersInv'
  <2> SUFFICES ASSUME NEW c \in Consumers
               PROVE  /\ ticket'[c] <= head
                      /\ pc'[c] = "cas" /\ ticket'[c] = head => sequence[Slot(head)] = head + 1
                      /\ Owner(c)' => /\ tail <= ticket'[c] + Capacity /\ ticket'[c] < head
                                      /\ sequence[Slot(ticket'[c])] = ticket'[c] + 1
                                      /\ pc'[c] = "move" => payload[Slot(ticket'[c])] = claims[ticket'[c] + 1]
                                      /\ pc'[c] = "release" => /\ payload[Slot(ticket'[c])] = NoValue
                                                               /\ item'[c] = claims[ticket'[c] + 1]
    BY DEF ConsumersInv, queueVars, Slot
  <2>1. CASE c = t
    BY <2>1, <1>1 DEF IndInv
  <2>2. CASE c # t
    BY <2>2, <1>1 DEF IndInv, ConsumersInv, Threads
  <2>3. QED
    BY <2>1, <2>2
<1>5. OwnersInv'
  BY <1>1 DEF IndInv, OwnersInv
<1>6. UnownedInv'
  BY <1>1 DEF IndInv, UnownedInv, queueVars
<1>7. QED
  BY <1>2, <1>3, <1>4, <1>5, <1>6 DEF IndInv

LEMMA PushQuiet ==
  ASSUME IndInv, NEW p \in Producers,
         \/ \E v \in Value : PushStart(p, v)
         \/ PushSequence(p) \/ PushLost(p) \/ PushTicket(p)
  PROVE  IndInv'
<1> USE DEF GoTo, Return
<1>1. p \in Threads /\ ticket[p] \in Nat /\ ticket[p] <= tail /\ tail \in Nat /\ p \notin Consumers
      /\ (pc[p] # "idle" => item[p] \in Value)
  BY Counters, MpscAssumption DEF IndInv, TypeOK, Threads, ProducersInv
<1>2. TypeOK
  BY DEF IndInv
<1>3. ASSUME NEW v \in Value, PushStart(p, v) PROVE IndInv'
  <2>1. TypeOK'
    BY <1>1, <1>2, <1>3 DEF TypeOK, PushStart, queueVars, ProducerPoint, Threads
  <2>2. ~Owner(p) /\ ~Owner(p)' /\ ticket'[p] = tail /\ item'[p] = v /\ pc'[p] = "sequence"
    BY <1>1, <1>2, <1>3 DEF PushStart, Owner, TypeOK
  <2>3. \A u \in Threads : u # p => pc'[u] = pc[u] /\ ticket'[u] = ticket[u] /\ item'[u] = item[u]
    BY <1>2, <1>3 DEF PushStart, TypeOK
  <2>4. UNCHANGED <<queueVars, claims>>
    BY <1>3 DEF PushStart
  <2>5. QED
    BY <1>1, <2>1, <2>2, <2>3, <2>4, QuietStep
<1>4. ASSUME PushSequence(p) PROVE IndInv'
  <2>1. TypeOK'
    BY <1>1, <1>2, <1>4 DEF TypeOK, PushSequence, queueVars, ProducerPoint, Threads
  <2>2. /\ ~Owner(p) /\ ~Owner(p)' /\ ticket' = ticket
        /\ pc'[p] # "idle" => item'[p] = item[p]
    BY <1>1, <1>2, <1>4 DEF PushSequence, Owner, TypeOK
  <2>3. \A u \in Threads : u # p => pc'[u] = pc[u] /\ ticket'[u] = ticket[u] /\ item'[u] = item[u]
    BY <1>2, <1>4 DEF PushSequence, TypeOK
  <2>4. UNCHANGED <<queueVars, claims>> /\ pc[p] = "sequence"
    BY <1>4 DEF PushSequence
  <2>5. sequence[Slot(ticket[p])] \in Nat
    BY <1>1, <1>2, SlotInRange DEF TypeOK
  <2>6. pc'[p] = "cas" => sequence[Slot(ticket[p])] = ticket[p]
    BY <1>1, <1>2, <1>4, <2>5 DEF PushSequence, TypeOK
  <2>7. QED
    BY <1>1, <2>1, <2>2, <2>3, <2>4, <2>6, QuietStep
<1>5. ASSUME PushLost(p) \/ PushTicket(p) PROVE IndInv'
  <2>a. /\ pc' = [pc EXCEPT ![p] = "sequence"] /\ ticket' = [ticket EXCEPT ![p] = tail]
        /\ UNCHANGED <<sequence, payload, tail, head, item, claims>>
    BY <1>5 DEF PushLost, PushTicket, queueVars
  <2>1. TypeOK'
    BY <1>1, <1>2, <2>a DEF TypeOK, ProducerPoint, Threads
  <2>2. /\ ~Owner(p) /\ ~Owner(p)' /\ ticket'[p] = tail /\ item' = item
        /\ pc'[p] = "sequence" /\ pc[p] # "idle"
    BY <1>1, <1>2, <1>5 DEF PushLost, PushTicket, Owner, TypeOK
  <2>3. \A u \in Threads : u # p => pc'[u] = pc[u] /\ ticket'[u] = ticket[u] /\ item'[u] = item[u]
    BY <1>2, <1>5 DEF PushLost, PushTicket, TypeOK
  <2>4. UNCHANGED <<queueVars, claims>>
    BY <1>5 DEF PushLost, PushTicket
  <2>5. QED
    BY <1>1, <2>1, <2>2, <2>3, <2>4, QuietStep
<1>6. QED
  BY <1>3, <1>4, <1>5

LEMMA PopQuiet ==
  ASSUME IndInv, NEW c \in Consumers,
         PopStart(c) \/ PopSequence(c) \/ PopLost(c) \/ PopTicket(c)
  PROVE  IndInv'
<1> USE DEF GoTo, Return
<1>1. c \in Threads /\ ticket[c] \in Nat /\ ticket[c] <= head /\ head \in Nat /\ c \notin Producers
  BY Counters, MpscAssumption DEF IndInv, TypeOK, Threads, ConsumersInv
<1>2. TypeOK
  BY DEF IndInv
<1>3. ASSUME PopSequence(c) PROVE IndInv'
  <2>1. TypeOK'
    BY <1>1, <1>2, <1>3 DEF TypeOK, PopSequence, queueVars, ConsumerPoint, Threads
  <2>2. ~Owner(c) /\ ~Owner(c)' /\ ticket' = ticket
    BY <1>1, <1>2, <1>3 DEF PopSequence, Owner, TypeOK
  <2>3. \A u \in Threads : u # c => pc'[u] = pc[u] /\ ticket'[u] = ticket[u] /\ item'[u] = item[u]
    BY <1>2, <1>3 DEF PopSequence, TypeOK
  <2>4. UNCHANGED <<queueVars, claims>>
    BY <1>3 DEF PopSequence
  <2>5. sequence[Slot(ticket[c])] \in Nat
    BY <1>1, <1>2, SlotInRange DEF TypeOK
  <2>6. pc'[c] = "cas" => sequence[Slot(ticket[c])] = ticket[c] + 1
    BY <1>1, <1>2, <1>3, <2>5 DEF PopSequence, TypeOK
  <2>7. QED
    BY <1>1, <2>1, <2>2, <2>3, <2>4, <2>6, QuietStep
<1>4. ASSUME PopStart(c) \/ PopLost(c) \/ PopTicket(c) PROVE IndInv'
  <2>1. TypeOK'
    BY <1>1, <1>2, <1>4 DEF TypeOK, PopStart, PopLost, PopTicket, queueVars, ConsumerPoint, Threads
  <2>2. ~Owner(c) /\ ~Owner(c)' /\ ticket'[c] = head /\ pc'[c] = "sequence"
    BY <1>1, <1>2, <1>4 DEF PopStart, PopLost, PopTicket, Owner, TypeOK
  <2>3. \A u \in Threads : u # c => pc'[u] = pc[u] /\ ticket'[u] = ticket[u] /\ item'[u] = item[u]
    BY <1>2, <1>4 DEF PopStart, PopLost, PopTicket, TypeOK
  <2>4. UNCHANGED <<queueVars, claims>>
    BY <1>4 DEF PopStart, PopLost, PopTicket
  <2>5. QED
    BY <1>1, <2>1, <2>2, <2>3, <2>4, QuietStep
<1>5. QED
  BY <1>3, <1>4

(* A step inside the slot its thread owns: the accesses to the payload, and the store
   of the sequence that gives the slot away. *)
LEMMA OwnSlotStep ==
  ASSUME IndInv, TypeOK', NEW t \in Threads, Owner(t),
         UNCHANGED <<tail, head, ticket, claims>>,
         \A s \in Slots : s # Slot(ticket[t]) => sequence'[s] = sequence[s] /\ payload'[s] = payload[s],
         \A u \in Threads : u # t => pc'[u] = pc[u] /\ item'[u] = item[u],
         t \in Producers =>
           \/ /\ pc'[t] = "publish" /\ item'[t] = item[t]
              /\ sequence'[Slot(ticket[t])] = ticket[t]
              /\ payload'[Slot(ticket[t])] = item[t]
           \/ /\ pc'[t] = "idle"
              /\ sequence'[Slot(ticket[t])] = ticket[t] + 1
              /\ payload'[Slot(ticket[t])] = claims[ticket[t] + 1],
         t \in Consumers =>
           \/ /\ pc'[t] = "release" /\ item'[t] = claims[ticket[t] + 1]
              /\ sequence'[Slot(ticket[t])] = ticket[t] + 1
              /\ payload'[Slot(ticket[t])] = NoValue
           \/ /\ pc'[t] = "idle"
              /\ sequence'[Slot(ticket[t])] = ticket[t] + Capacity
              /\ payload'[Slot(ticket[t])] = NoValue
  PROVE  IndInv'
<1> DEFINE n == ticket[t]
           own == Slot(n)
<1>1. /\ n \in Nat /\ InLap(n) /\ own \in Slots /\ own = Slot(n + Capacity)
      /\ Slot(n)' = own
  BY OwnerInLap DEF Slot
<1>2. \A u \in Threads : u # t => (Owner(u)' <=> Owner(u))
  BY DEF Owner
<1>3. \A u \in Threads : Owner(u)' => Owner(u)
  BY <1>2
<1>4. DispensersInv'
  BY DEF IndInv, DispensersInv
<1>5. ASSUME NEW s \in Slots, s = Slot(tail), sequence[s] = tail
      PROVE  s # own
  <2>1. CASE t \in Producers
    BY <2>1, <1>5, <1>1, Counters DEF IndInv, ProducersInv
  <2>2. CASE t \in Consumers
    <3>1. n # tail - Capacity \/ sequence[own] # tail
      BY <2>2, <1>1, Counters DEF IndInv, ConsumersInv
    <3>2. ASSUME s = own PROVE n = tail - Capacity
      <4>1. ~InLap(tail - Capacity) \/ n = tail - Capacity \/ Slot(tail - Capacity + Capacity) # own
        BY <1>1, OwnerAlone, Counters
      <4>2. InLap(tail - Capacity) /\ tail - Capacity + Capacity = tail
        BY Counters DEF InLap
      <4>3. QED
        BY <4>1, <4>2, <3>2, <1>5
    <3>3. QED
      BY <3>1, <3>2, <1>5
  <2>3. QED
    BY <2>1, <2>2 DEF Threads
<1>6. ASSUME NEW s \in Slots, s = Slot(head), sequence[s] = head + 1
      PROVE  s # own
  <2>1. CASE t \in Producers
    <3>1. sequence[own] = n /\ head <= n /\ n < head + Capacity
      BY <2>1, <1>1, Counters DEF IndInv, ProducersInv
    <3>2. s = own => n = head + 1
      BY <3>1, <1>6
    <3>3. n = head + 1 => own # s
      BY <1>1, <1>6, Counters, SlotInjective
    <3>4. QED
      BY <3>2, <3>3
  <2>2. CASE t \in Consumers
    BY <2>2, <1>6, <1>1, Counters DEF IndInv, ConsumersInv
  <2>3. QED
    BY <2>1, <2>2 DEF Threads
<1>7. ASSUME NEW u \in Threads, u # t, Owner(u)
      PROVE  /\ Slot(ticket[u]) \in Slots
             /\ sequence'[Slot(ticket[u])] = sequence[Slot(ticket[u])]
             /\ payload'[Slot(ticket[u])] = payload[Slot(ticket[u])]
  BY <1>7, OwnersApart, OwnerInLap
<1>8. ProducersInv'
  <2> SUFFICES ASSUME NEW p \in Producers
               PROVE  /\ ticket[p] <= tail
                      /\ pc'[p] # "idle" => item'[p] \in Value
                      /\ pc'[p] = "cas" /\ ticket[p] = tail => sequence'[Slot(tail)] = tail
                      /\ Owner(p)' => /\ head <= ticket[p] /\ ticket[p] < tail
                                      /\ item'[p] = claims[ticket[p] + 1]
                                      /\ sequence'[Slot(ticket[p])] = ticket[p]
                                      /\ payload'[Slot(ticket[p])] =
                                           (IF pc'[p] = "publish" THEN item'[p] ELSE NoValue)
    BY DEF ProducersInv, Slot
  <2>1. CASE p = t
    <3>1. head <= n /\ n < tail /\ item[p] = claims[n + 1] /\ item[p] \in Value
      BY <2>1 DEF IndInv, ProducersInv, Owner
    <3>2. QED
      BY <2>1, <3>1, <1>1, Counters DEF Owner
  <2>2. CASE p # t
    <3>1. pc'[p] = pc[p] /\ item'[p] = item[p] /\ p \in Threads
      BY <2>2 DEF Threads
    <3>2. pc[p] = "cas" /\ ticket[p] = tail => sequence'[Slot(tail)] = tail
      BY <1>5, Counters DEF IndInv, ProducersInv
    <3>3. ticket[p] <= tail /\ (pc'[p] # "idle" => item'[p] \in Value)
      BY <3>1 DEF IndInv, ProducersInv
    <3>4. ASSUME Owner(p)'
          PROVE  /\ head <= ticket[p] /\ ticket[p] < tail
                 /\ item'[p] = claims[ticket[p] + 1]
                 /\ sequence'[Slot(ticket[p])] = ticket[p]
                 /\ payload'[Slot(ticket[p])] =
                      (IF pc'[p] = "publish" THEN item'[p] ELSE NoValue)
      <4>1. Owner(p)
        BY <3>1, <3>4, <1>3
      <4>2. QED
        BY <2>2, <3>1, <4>1, <1>7 DEF IndInv, ProducersInv
    <3>5. QED
      BY <3>1, <3>2, <3>3, <3>4
  <2>3. QED
    BY <2>1, <2>2
<1>9. ConsumersInv'
  <2> SUFFICES ASSUME NEW c \in Consumers
               PROVE  /\ ticket[c] <= head
                      /\ pc'[c] = "cas" /\ ticket[c] = head => sequence'[Slot(head)] = head + 1
                      /\ Owner(c)' => /\ tail <= ticket[c] + Capacity /\ ticket[c] < head
                                      /\ sequence'[Slot(ticket[c])] = ticket[c] + 1
                                      /\ pc'[c] = "move" => payload'[Slot(ticket[c])] = claims[ticket[c] + 1]
                                      /\ pc'[c] = "release" => /\ payload'[Slot(ticket[c])] = NoValue
                                                               /\ item'[c] = claims[ticket[c] + 1]
    BY DEF ConsumersInv, Slot
  <2>1. CASE c = t
    <3>1. tail <= n + Capacity /\ n < head
      BY <2>1 DEF IndInv, ConsumersInv
    <3>2. QED
      BY <2>1, <3>1, <1>1, Counters DEF Owner
  <2>2. CASE c # t
    <3>1. pc'[c] = pc[c] /\ item'[c] = item[c] /\ c \in Threads
      BY <2>2 DEF Threads
    <3>2. pc[c] = "cas" /\ ticket[c] = head => sequence'[Slot(head)] = head + 1
      BY <1>6, Counters DEF IndInv, ConsumersInv
    <3>3. QED
      BY <2>2, <3>1, <3>2, <1>2, <1>7 DEF IndInv, ConsumersInv
  <2>3. QED
    BY <2>1, <2>2
<1>10. OwnersInv'
  BY <1>3 DEF IndInv, OwnersInv
<1>11. UnownedInv'
  <2> SUFFICES ASSUME NEW m \in tail - Capacity .. tail - 1,
                      \A u \in Threads : Owner(u)' => ticket[u] # m
               PROVE  LET s == Slot(m + Capacity) IN
                      IF m >= head THEN sequence'[s] = m + 1 /\ payload'[s] = claims[m + 1]
                                   ELSE sequence'[s] = m + Capacity /\ payload'[s] = NoValue
    BY DEF UnownedInv, Slot
  <2>1. m \in Int /\ InLap(m)
    BY DEF InLap
  <2>2. CASE m = n
    <3>1. ~Owner(t)'
      BY <2>2
    <3>2. CASE t \in Producers
      BY <2>2, <3>1, <3>2, <1>1 DEF IndInv, ProducersInv, Owner
    <3>3. CASE t \in Consumers
      BY <2>2, <3>1, <3>3, <1>1, Counters DEF IndInv, ConsumersInv, Owner
    <3>4. QED
      BY <3>2, <3>3 DEF Threads
  <2>3. CASE m # n
    <3>1. Slot(m + Capacity) \in Slots /\ Slot(m + Capacity) # own
      BY <2>1, <2>3, SlotState, OwnerAlone
    <3>2. \A u \in Threads : Owner(u) => ticket[u] # m
      BY <2>3, <1>2
    <3>3. QED
      BY <3>1, <3>2 DEF IndInv, UnownedInv
  <2>4. QED
    BY <2>2, <2>3
<1>12. QED
  BY <1>4, <1>8, <1>9, <1>10, <1>11 DEF IndInv

LEMMA PushInSlot ==
  ASSUME IndInv, NEW p \in Producers, PushWrite(p) \/ PushPublish(p)
  PROVE  IndInv'
<1> USE DEF GoTo, Return
<1>1. p \in Threads /\ p \notin Consumers /\ Owner(p) /\ TypeOK
  BY MpscAssumption DEF Owner, PushWrite, PushPublish, Threads, IndInv
<1>2. /\ ticket[p] \in Nat /\ Slot(ticket[p]) \in Slots
      /\ item[p] \in Value /\ item[p] = claims[ticket[p] + 1]
      /\ sequence[Slot(ticket[p])] = ticket[p]
      /\ pc[p] = "publish" => payload[Slot(ticket[p])] = item[p]
  BY <1>1, OwnerInLap DEF IndInv, ProducersInv, Owner
<1>3. ASSUME PushWrite(p) PROVE IndInv'
  <2>1. TypeOK'
    BY <1>1, <1>2, <1>3 DEF TypeOK, PushWrite, ProducerPoint, Threads
  <2>2. /\ UNCHANGED <<tail, head, ticket, claims>>
        /\ \A s \in Slots : s # Slot(ticket[p]) => sequence'[s] = sequence[s] /\ payload'[s] = payload[s]
        /\ \A u \in Threads : u # p => pc'[u] = pc[u] /\ item'[u] = item[u]
        /\ pc'[p] = "publish" /\ item'[p] = item[p]
        /\ sequence'[Slot(ticket[p])] = ticket[p]
        /\ payload'[Slot(ticket[p])] = item[p]
    BY <1>1, <1>2, <1>3 DEF TypeOK, PushWrite
  <2>3. QED
    BY <1>1, <2>1, <2>2, OwnSlotStep
<1>4. ASSUME PushPublish(p) PROVE IndInv'
  <2>1. TypeOK'
    BY <1>1, <1>2, <1>4 DEF TypeOK, PushPublish, ProducerPoint, Threads
  <2>2. /\ UNCHANGED <<tail, head, ticket, claims>>
        /\ \A s \in Slots : s # Slot(ticket[p]) => sequence'[s] = sequence[s] /\ payload'[s] = payload[s]
        /\ \A u \in Threads : u # p => pc'[u] = pc[u] /\ item'[u] = item[u]
        /\ pc'[p] = "idle"
        /\ sequence'[Slot(ticket[p])] = ticket[p] + 1
        /\ payload'[Slot(ticket[p])] = claims[ticket[p] + 1]
    BY <1>1, <1>2, <1>4 DEF TypeOK, PushPublish
  <2>3. QED
    BY <1>1, <2>1, <2>2, OwnSlotStep
<1>5. QED
  BY <1>3, <1>4

LEMMA PopInSlot ==
  ASSUME IndInv, NEW c \in Consumers, PopMove(c) \/ PopRelease(c)
  PROVE  IndInv'
<1> USE DEF GoTo, Return
<1>1. c \in Threads /\ c \notin Producers /\ Owner(c) /\ TypeOK
  BY MpscAssumption DEF Owner, PopMove, PopRelease, Threads, IndInv
<1>2. /\ ticket[c] \in Nat /\ Slot(ticket[c]) \in Slots /\ Capacity \in Nat
      /\ sequence[Slot(ticket[c])] = ticket[c] + 1
      /\ pc[c] = "move" => payload[Slot(ticket[c])] = claims[ticket[c] + 1]
      /\ pc[c] = "release" => payload[Slot(ticket[c])] = NoValue
  BY <1>1, OwnerInLap, Counters DEF IndInv, ConsumersInv
<1>3. ASSUME PopMove(c) PROVE IndInv'
  <2>1. TypeOK'
    BY <1>1, <1>2, <1>3 DEF TypeOK, PopMove, ConsumerPoint, Threads
  <2>2. /\ UNCHANGED <<tail, head, ticket, claims>>
        /\ \A s \in Slots : s # Slot(ticket[c]) => sequence'[s] = sequence[s] /\ payload'[s] = payload[s]
        /\ \A u \in Threads : u # c => pc'[u] = pc[u] /\ item'[u] = item[u]
        /\ pc'[c] = "release" /\ item'[c] = claims[ticket[c] + 1]
        /\ sequence'[Slot(ticket[c])] = ticket[c] + 1
        /\ payload'[Slot(ticket[c])] = NoValue
    BY <1>1, <1>2, <1>3 DEF TypeOK, PopMove
  <2>3. QED
    BY <1>1, <2>1, <2>2, OwnSlotStep
<1>4. ASSUME PopRelease(c) PROVE IndInv'
  <2>1. TypeOK'
    BY <1>1, <1>2, <1>4 DEF TypeOK, PopRelease, ConsumerPoint, Threads
  <2>2. /\ UNCHANGED <<tail, head, ticket, claims>>
        /\ \A s \in Slots : s # Slot(ticket[c]) => sequence'[s] = sequence[s] /\ payload'[s] = payload[s]
        /\ \A u \in Threads : u # c => pc'[u] = pc[u] /\ item'[u] = item[u]
        /\ pc'[c] = "idle"
        /\ sequence'[Slot(ticket[c])] = ticket[c] + Capacity
        /\ payload'[Slot(ticket[c])] = NoValue
    BY <1>1, <1>2, <1>4 DEF TypeOK, PopRelease
  <2>3. QED
    BY <1>1, <2>1, <2>2, OwnSlotStep
<1>5. QED
  BY <1>3, <1>4

(* A ready slot under the next ticket was drained a whole lap ago: there is room, and
   nobody is still in it. *)
LEMMA ReadyToPush ==
  ASSUME IndInv, sequence[Slot(tail)] = tail
  PROVE  /\ tail < head + Capacity
         /\ payload[Slot(tail)] = NoValue
         /\ \A t \in Threads : Owner(t) => ticket[t] # tail - Capacity
<1> DEFINE n == tail - Capacity
<1>1. n \in Int /\ InLap(n) /\ n + Capacity = tail /\ n <= head
  BY Counters DEF InLap
<1>2. n < head /\ payload[Slot(tail)] = NoValue
  BY <1>1, SlotState, Counters
<1>3. ASSUME NEW t \in Threads, Owner(t), ticket[t] = n PROVE FALSE
  <2>1. Slot(ticket[t]) = Slot(tail)
    BY <1>1, <1>3, OwnerInLap
  <2>2. CASE t \in Producers
    BY <1>2, <1>3, <2>1, <2>2, Counters DEF IndInv, ProducersInv
  <2>3. CASE t \in Consumers
    BY <1>1, <1>3, <2>1, <2>3, Counters DEF IndInv, ConsumersInv
  <2>4. QED
    BY <2>2, <2>3 DEF Threads
<1>4. QED
  BY <1>1, <1>2, <1>3, Counters

(* A published slot under the oldest ticket holds that ticket's item. *)
LEMMA ReadyToPop ==
  ASSUME IndInv, sequence[Slot(head)] = head + 1
  PROVE  /\ head < tail
         /\ payload[Slot(head)] = claims[head + 1]
         /\ \A t \in Threads : Owner(t) => ticket[t] # head
<1>1. head < tail
  <2>1. SUFFICES ASSUME head = tail PROVE FALSE
    BY Counters
  <2> DEFINE n == tail - Capacity
  <2>2. n \in Int /\ InLap(n) /\ n + Capacity = tail /\ n < head
    BY <2>1, Counters DEF InLap
  <2>3. QED
    BY <2>1, <2>2, SlotState, Counters
<1>2. head \in Int /\ InLap(head)
  BY <1>1, Counters DEF InLap
<1>3. ASSUME NEW t \in Threads, Owner(t), ticket[t] = head PROVE FALSE
  <2>1. CASE t \in Producers
    BY <1>3, <2>1, Counters DEF IndInv, ProducersInv
  <2>2. CASE t \in Consumers
    BY <1>3, <2>2, Counters DEF IndInv, ConsumersInv
  <2>3. QED
    BY <2>1, <2>2 DEF Threads
<1>4. payload[Slot(head)] = claims[head + 1]
  BY <1>2, <1>3, SlotState, Counters DEF Threads
<1>5. QED
  BY <1>1, <1>3, <1>4

LEMMA PushClaimStep ==
  ASSUME IndInv, NEW p \in Producers, PushClaim(p)
  PROVE  IndInv'
<1>1. /\ p \in Threads /\ p \notin Consumers /\ TypeOK /\ ~Owner(p)
      /\ ticket[p] = tail /\ tail' = tail + 1 /\ claims' = Append(claims, item[p])
      /\ pc' = [pc EXCEPT ![p] = "write"]
      /\ UNCHANGED <<sequence, payload, head, ticket, item>>
      /\ pc[p] = "cas" /\ item[p] \in Value
  BY MpscAssumption DEF PushClaim, GoTo, Owner, Threads, IndInv, ProducersInv
<1>2. /\ sequence[Slot(tail)] = tail /\ tail < head + Capacity
      /\ payload[Slot(tail)] = NoValue
      /\ \A t \in Threads : Owner(t) => ticket[t] # tail - Capacity
  BY <1>1, ReadyToPush DEF IndInv, ProducersInv
<1>3. /\ claims \in Seq(Value) /\ Len(claims) = tail
      /\ claims' \in Seq(Value) /\ Len(claims') = tail + 1
      /\ claims'[tail + 1] = item[p]
      /\ \A n \in 1 .. tail : claims'[n] = claims[n]
  <2>1. claims \in Seq(Value) /\ Len(claims) = tail /\ item[p] \in Value
        /\ claims' = Append(claims, item[p])
    BY <1>1 DEF IndInv, TypeOK, DispensersInv
  <2>2. claims' \in Seq(Value) /\ Len(claims') = tail + 1
    BY <2>1
  <2>3. claims'[tail + 1] = item[p]
    BY <2>1
  <2>4. ASSUME NEW n \in 1 .. tail PROVE claims'[n] = claims[n]
    BY <2>1
  <2>5. QED
    BY <2>1, <2>2, <2>3, <2>4
<1>4. TypeOK'
  BY <1>1, <1>3 DEF TypeOK, ProducerPoint, Threads
<1>5. DispensersInv'
  BY <1>1, <1>2, <1>3, Counters DEF DispensersInv
<1>6. \A u \in Threads : u # p => pc'[u] = pc[u] /\ (Owner(u)' <=> Owner(u))
  BY <1>1 DEF Owner, TypeOK
<1>7. pc'[p] = "write" /\ Owner(p)'
  BY <1>1 DEF Owner, TypeOK
<1>8. ProducersInv'
  <2> SUFFICES ASSUME NEW q \in Producers
               PROVE  /\ ticket[q] <= tail + 1
                      /\ pc'[q] # "idle" => item[q] \in Value
                      /\ ~(pc'[q] = "cas" /\ ticket[q] = tail + 1)
                      /\ Owner(q)' => /\ head <= ticket[q] /\ ticket[q] < tail + 1
                                      /\ item[q] = claims'[ticket[q] + 1]
                                      /\ sequence[Slot(ticket[q])] = ticket[q]
                                      /\ payload[Slot(ticket[q])] =
                                           (IF pc'[q] = "publish" THEN item[q] ELSE NoValue)
    BY <1>1 DEF ProducersInv, Slot
  <2>1. ticket[q] \in Nat /\ q \in Threads /\ ticket[q] <= tail
        /\ (pc[q] # "idle" => item[q] \in Value)
    BY DEF IndInv, TypeOK, Threads, ProducersInv
  <2>2. CASE q = p
    BY <2>1, <2>2, <1>1, <1>2, <1>3, <1>7, Counters
  <2>3. CASE q # p
    <3>1. Owner(q) => /\ head <= ticket[q] /\ ticket[q] < tail
                      /\ item[q] = claims[ticket[q] + 1]
                      /\ sequence[Slot(ticket[q])] = ticket[q]
                      /\ payload[Slot(ticket[q])] =
                           (IF pc[q] = "publish" THEN item[q] ELSE NoValue)
      BY DEF IndInv, ProducersInv
    <3>2. Owner(q) => claims'[ticket[q] + 1] = claims[ticket[q] + 1]
      BY <2>1, <3>1, <1>3, Counters
    <3>3. QED
      BY <2>1, <2>3, <3>1, <3>2, <1>6, Counters
  <2>4. QED
    BY <2>2, <2>3
<1>9. ConsumersInv'
  <2> SUFFICES ASSUME NEW c \in Consumers
               PROVE  /\ ticket[c] <= head
                      /\ pc'[c] = "cas" /\ ticket[c] = head => sequence[Slot(head)] = head + 1
                      /\ Owner(c)' => /\ tail + 1 <= ticket[c] + Capacity /\ ticket[c] < head
                                      /\ sequence[Slot(ticket[c])] = ticket[c] + 1
                                      /\ pc'[c] = "move" => payload[Slot(ticket[c])] = claims'[ticket[c] + 1]
                                      /\ pc'[c] = "release" => /\ payload[Slot(ticket[c])] = NoValue
                                                               /\ item[c] = claims'[ticket[c] + 1]
    BY <1>1 DEF ConsumersInv, Slot
  <2>1. c # p /\ c \in Threads /\ ticket[c] \in Nat /\ ticket[c] <= head
        /\ (pc[c] = "cas" /\ ticket[c] = head => sequence[Slot(head)] = head + 1)
    BY <1>1 DEF IndInv, TypeOK, Threads, ConsumersInv
  <2>2. Owner(c) => /\ tail <= ticket[c] + Capacity /\ ticket[c] < head
                    /\ sequence[Slot(ticket[c])] = ticket[c] + 1
                    /\ pc[c] = "move" => payload[Slot(ticket[c])] = claims[ticket[c] + 1]
                    /\ pc[c] = "release" => /\ payload[Slot(ticket[c])] = NoValue
                                            /\ item[c] = claims[ticket[c] + 1]
    BY DEF IndInv, ConsumersInv
  <2>3. Owner(c) => ticket[c] # tail - Capacity
    BY <2>1, <1>2
  <2>4. Owner(c) => /\ tail + 1 <= ticket[c] + Capacity
                    /\ claims'[ticket[c] + 1] = claims[ticket[c] + 1]
    BY <2>1, <2>2, <2>3, <1>3, Counters
  <2>5. QED
    BY <2>1, <2>2, <2>4, <1>6
<1>10. OwnersInv'
  <2> SUFFICES ASSUME NEW t \in Threads, NEW u \in Threads,
                      Owner(t)', Owner(u)', ticket[t] = ticket[u], t # u
               PROVE  FALSE
    BY <1>1 DEF OwnersInv
  <2>1. ASSUME NEW r \in Threads, r # p, Owner(r)' PROVE ticket[r] # tail
    <3>1. ticket[r] \in Nat /\ InLap(ticket[r])
      BY <2>1, <1>6, OwnerInLap
    <3>2. QED
      BY <3>1, Counters DEF InLap
  <2>2. t # p /\ u # p
    BY <2>1, <1>1
  <2>3. QED
    BY <2>2, <1>6 DEF IndInv, OwnersInv
<1>11. UnownedInv'
  <2> SUFFICES ASSUME NEW n \in tail + 1 - Capacity .. tail,
                      \A t \in Threads : Owner(t)' => ticket[t] # n
               PROVE  LET s == Slot(n + Capacity) IN
                      IF n >= head THEN sequence[s] = n + 1 /\ payload[s] = claims'[n + 1]
                                   ELSE sequence[s] = n + Capacity /\ payload[s] = NoValue
    <3>1. tail' - Capacity = tail + 1 - Capacity /\ tail' - 1 = tail
      <4>1. tail' = tail + 1 /\ tail \in Nat /\ Capacity \in Nat
        BY <1>1, Counters
      <4>2. QED
        BY <4>1
    <3>2. \A n \in tail + 1 - Capacity .. tail :
            (\A t \in Threads : Owner(t)' => ticket[t] # n) =>
              IF n >= head THEN /\ sequence[Slot(n + Capacity)] = n + 1
                                /\ payload[Slot(n + Capacity)] = claims'[n + 1]
                           ELSE /\ sequence[Slot(n + Capacity)] = n + Capacity
                                /\ payload[Slot(n + Capacity)] = NoValue
      OBVIOUS
    <3>3. QED
      BY <1>1, <3>1, <3>2 DEF UnownedInv, Slot
  <2>1. n # tail
    BY <1>1, <1>7
  <2>2. n \in tail - Capacity .. tail - 1
    BY <2>1, Counters
  <2>3. \A t \in Threads : Owner(t) => ticket[t] # n
    BY <1>1, <1>6
  <2>4. LET s == Slot(n + Capacity) IN
        IF n >= head THEN sequence[s] = n + 1 /\ payload[s] = claims[n + 1]
                     ELSE sequence[s] = n + Capacity /\ payload[s] = NoValue
    BY <2>2, <2>3 DEF IndInv, UnownedInv
  <2>5. n >= head => claims'[n + 1] = claims[n + 1]
    BY <2>2, <1>3, Counters
  <2>6. QED
    BY <2>4, <2>5
<1>12. QED
  BY <1>4, <1>5, <1>8, <1>9, <1>10, <1>11 DEF IndInv

LEMMA PopClaimStep ==
  ASSUME IndInv, NEW c \in Consumers, PopClaim(c)
  PROVE  IndInv'
<1>1. /\ c \in Threads /\ c \notin Producers /\ TypeOK /\ ~Owner(c)
      /\ ticket[c] = head /\ head' = head + 1
      /\ pc' = [pc EXCEPT ![c] = "move"]
      /\ UNCHANGED <<sequence, payload, tail, ticket, item, claims>>
      /\ pc[c] = "cas"
  BY MpscAssumption DEF PopClaim, GoTo, Owner, Threads, IndInv
<1>2. /\ sequence[Slot(head)] = head + 1 /\ head < tail
      /\ payload[Slot(head)] = claims[head + 1]
      /\ \A t \in Threads : Owner(t) => ticket[t] # head
  BY <1>1, ReadyToPop DEF IndInv, ConsumersInv
<1>3. TypeOK'
  BY <1>1 DEF TypeOK, ConsumerPoint, Threads
<1>4. DispensersInv'
  BY <1>1, <1>2, Counters DEF IndInv, DispensersInv
<1>5. \A u \in Threads : u # c => pc'[u] = pc[u] /\ (Owner(u)' <=> Owner(u))
  BY <1>1 DEF Owner, TypeOK
<1>6. pc'[c] = "move" /\ Owner(c)'
  BY <1>1 DEF Owner, TypeOK
<1>7. ProducersInv'
  <2> SUFFICES ASSUME NEW p \in Producers
               PROVE  /\ ticket[p] <= tail
                      /\ pc'[p] # "idle" => item[p] \in Value
                      /\ pc'[p] = "cas" /\ ticket[p] = tail => sequence[Slot(tail)] = tail
                      /\ Owner(p)' => /\ head + 1 <= ticket[p] /\ ticket[p] < tail
                                      /\ item[p] = claims[ticket[p] + 1]
                                      /\ sequence[Slot(ticket[p])] = ticket[p]
                                      /\ payload[Slot(ticket[p])] =
                                           (IF pc'[p] = "publish" THEN item[p] ELSE NoValue)
    BY <1>1 DEF ProducersInv, Slot
  <2>1. p # c /\ p \in Threads /\ ticket[p] \in Nat
    BY <1>1 DEF TypeOK, Threads
  <2>2. Owner(p) => head <= ticket[p] /\ ticket[p] # head
    BY <2>1, <1>2 DEF IndInv, ProducersInv
  <2>3. Owner(p) => head + 1 <= ticket[p]
    BY <2>1, <2>2, Counters
  <2>4. QED
    BY <2>1, <2>3, <1>5 DEF IndInv, ProducersInv
<1>8. ConsumersInv'
  <2> SUFFICES ASSUME NEW d \in Consumers
               PROVE  /\ ticket[d] <= head + 1
                      /\ ~(pc'[d] = "cas" /\ ticket[d] = head + 1)
                      /\ Owner(d)' => /\ tail <= ticket[d] + Capacity /\ ticket[d] < head + 1
                                      /\ sequence[Slot(ticket[d])] = ticket[d] + 1
                                      /\ pc'[d] = "move" => payload[Slot(ticket[d])] = claims[ticket[d] + 1]
                                      /\ pc'[d] = "release" => /\ payload[Slot(ticket[d])] = NoValue
                                                               /\ item[d] = claims[ticket[d] + 1]
    BY <1>1 DEF ConsumersInv, Slot
  <2>1. ticket[d] \in Nat /\ d \in Threads /\ ticket[d] <= head
    BY DEF IndInv, TypeOK, Threads, ConsumersInv
  <2>2. CASE d = c
    BY <2>1, <2>2, <1>1, <1>2, <1>6, Counters
  <2>3. CASE d # c
    <3>1. Owner(d) => /\ tail <= ticket[d] + Capacity /\ ticket[d] < head
                      /\ sequence[Slot(ticket[d])] = ticket[d] + 1
                      /\ pc[d] = "move" => payload[Slot(ticket[d])] = claims[ticket[d] + 1]
                      /\ pc[d] = "release" => /\ payload[Slot(ticket[d])] = NoValue
                                              /\ item[d] = claims[ticket[d] + 1]
      BY DEF IndInv, ConsumersInv
    <3>2. QED
      BY <2>1, <2>3, <3>1, <1>5, Counters
  <2>4. QED
    BY <2>2, <2>3
<1>9. OwnersInv'
  <2> SUFFICES ASSUME NEW t \in Threads, NEW u \in Threads,
                      Owner(t)', Owner(u)', ticket[t] = ticket[u], t # u
               PROVE  FALSE
    BY <1>1 DEF OwnersInv
  <2>1. t # c /\ u # c
    BY <1>1, <1>2, <1>5
  <2>2. QED
    BY <2>1, <1>5 DEF IndInv, OwnersInv
<1>10. UnownedInv'
  <2> SUFFICES ASSUME NEW n \in tail - Capacity .. tail - 1,
                      \A t \in Threads : Owner(t)' => ticket[t] # n
               PROVE  LET s == Slot(n + Capacity) IN
                      IF n >= head + 1 THEN sequence[s] = n + 1 /\ payload[s] = claims[n + 1]
                                       ELSE sequence[s] = n + Capacity /\ payload[s] = NoValue
    BY <1>1 DEF UnownedInv, Slot
  <2>1. n # head
    BY <1>1, <1>6
  <2>2. \A t \in Threads : Owner(t) => ticket[t] # n
    BY <1>1, <1>5
  <2>3. LET s == Slot(n + Capacity) IN
        IF n >= head THEN sequence[s] = n + 1 /\ payload[s] = claims[n + 1]
                     ELSE sequence[s] = n + Capacity /\ payload[s] = NoValue
    BY <2>2 DEF IndInv, UnownedInv
  <2>4. n >= head <=> n >= head + 1
    BY <2>1, Counters
  <2>5. QED
    BY <2>3, <2>4
<1>11. QED
  BY <1>3, <1>4, <1>7, <1>8, <1>9, <1>10 DEF IndInv

-----------------------------------------------------------------------------
LEMMA NextIndInv == IndInv /\ [Next]_vars => IndInv'
<1> SUFFICES ASSUME IndInv, [Next]_vars PROVE IndInv'
  OBVIOUS
<1>1. CASE UNCHANGED vars
  BY <1>1 DEF vars, queueVars, IndInv, TypeOK, DispensersInv, ProducersInv, ConsumersInv,
              OwnersInv, UnownedInv, Owner
<1>2. ASSUME NEW p \in Producers, PushStep(p) PROVE IndInv'
  BY <1>2, PushQuiet, PushClaimStep, PushInSlot DEF PushStep
<1>3. ASSUME NEW c \in Consumers, PopStep(c) PROVE IndInv'
  BY <1>3, PopQuiet, PopClaimStep, PopInSlot DEF PopStep
<1>4. QED
  BY <1>1, <1>2, <1>3 DEF Next

(* The invariant the whole queue rests on: tickets, sequence numbers and payloads
   agree, for any number of threads. *)
THEOREM MpscIndInv == Spec => []IndInv
<1>1. Init => IndInv
  BY InitIndInv
<1>2. IndInv /\ [Next]_vars => IndInv'
  BY NextIndInv
<1>3. QED
  BY <1>1, <1>2, PTL DEF Spec

(* No two threads are ever inside one slot (try_push, pop). *)
THEOREM MpscSlotExclusive == Spec => []SlotExclusive
<1>1. IndInv => SlotExclusive
  BY OwnersApart DEF SlotExclusive
<1>2. QED
  BY <1>1, MpscIndInv, PTL

(* Every ticket is served for the item it was claimed for: no live item is
   overwritten, none is read twice, and items leave in claim order. *)
THEOREM MpscItemsKept == Spec => []ItemsKept
<1>1. IndInv => ItemsKept
  <2> SUFFICES ASSUME IndInv PROVE ItemsKept
    OBVIOUS
  <2>1. ASSUME NEW p \in Producers, pc[p] = "write"
        PROVE  payload[Slot(ticket[p])] = NoValue
    BY <2>1 DEF IndInv, ProducersInv, Owner
  <2>2. ASSUME NEW c \in Consumers
        PROVE  /\ pc[c] = "move" => payload[Slot(ticket[c])] = claims[ticket[c] + 1]
               /\ pc[c] = "release" => item[c] = claims[ticket[c] + 1]
    BY DEF IndInv, ConsumersInv, Owner
  <2>3. QED
    BY <2>1, <2>2 DEF ItemsKept
<1>2. QED
  BY <1>1, MpscIndInv, PTL

(* Every slot is the slot of one ticket of the last lap. *)
LEMMA SlotHasTicket ==
  ASSUME IndInv, NEW s \in Slots
  PROVE  \E n \in Int : InLap(n) /\ s = Slot(n + Capacity)
<1>1. PICK i \in 0 .. Capacity - 1 : Slot(tail + i) = s
  BY EverySlotReached, Counters
<1> DEFINE n == tail + i - Capacity
<1>2. n \in Int /\ InLap(n) /\ n + Capacity = tail + i
  BY Counters DEF InLap
<1>3. QED
  BY <1>1, <1>2

(* drain_in_place frees exactly what is left in the queue. *)
THEOREM MpscDrainFreesAll == Spec => []DrainFreesAll
<1>1. IndInv => DrainFreesAll
  <2> SUFFICES ASSUME IndInv, \A t \in Threads : pc[t] = "idle"
               PROVE  DroppedByDrain = {s \in Slots : payload[s] # NoValue}
    BY DEF DrainFreesAll
  <2>1. \A t \in Threads : ~Owner(t)
    BY DEF Owner
  <2>2. ASSUME NEW s \in Slots, NEW m \in Int, head <= m, m <= tail - 1, s = Slot(m)
        PROVE  payload[s] # NoValue
    <3>1. InLap(m) /\ m \in Nat /\ m + 1 \in 1 .. Len(claims)
      BY <2>2, Counters DEF InLap, IndInv, DispensersInv
    <3>2. payload[s] = claims[m + 1]
      <4>1. s = Slot(m + Capacity) /\ m >= head /\ ~(m < head)
        BY <3>1, <2>2, SlotAfterLap, Counters
      <4>2. QED
        BY <3>1, <4>1, <2>1, <2>2, SlotState DEF Threads
    <3>3. claims[m + 1] \in Value
      BY <3>1 DEF IndInv, TypeOK
    <3>4. QED
      BY <3>2, <3>3, MpscAssumption
  <2>3. ASSUME NEW s \in Slots, payload[s] # NoValue
        PROVE  \E m \in head .. tail - 1 : s = Slot(m) /\ sequence[s] = m + 1
    <3>1. PICK n \in Int : InLap(n) /\ s = Slot(n + Capacity)
      BY SlotHasTicket
    <3>2. n >= head /\ sequence[s] = n + 1
      BY <3>1, <2>1, <2>3, SlotState DEF Threads
    <3>3. n \in head .. tail - 1 /\ n >= 0
      BY <3>1, <3>2, Counters DEF InLap
    <3>4. s = Slot(n)
      BY <3>1, <3>3, SlotState
    <3>5. QED
      BY <3>2, <3>3, <3>4
  <2>4. ASSUME NEW s \in DroppedByDrain PROVE s \in Slots /\ payload[s] # NoValue
    <3>1. s \in Slots /\ \E m \in head .. tail - 1 : s = Slot(m) /\ sequence[s] = m + 1
      BY DEF DroppedByDrain
    <3>2. PICK m \in head .. tail - 1 : s = Slot(m)
      BY <3>1
    <3>3. m \in Int /\ head <= m /\ m <= tail - 1
      BY <3>2, Counters
    <3>4. QED
      BY <3>1, <3>2, <3>3, <2>2
  <2>5. \A s \in Slots : payload[s] # NoValue => s \in DroppedByDrain
    BY <2>3 DEF DroppedByDrain
  <2>6. QED
    BY <2>4, <2>5
<1>2. QED
  BY <1>1, MpscIndInv, PTL

(* A slot never falls behind its last ticket, so only the two newest tickets can find
   it lagging. *)
LEMMA SequenceFloor ==
  ASSUME IndInv, NEW k \in Nat
  PROVE  /\ sequence[Slot(k)] \in Nat
         /\ k < tail => sequence[Slot(k)] >= k
         /\ k < head => sequence[Slot(k)] >= k + 1
<1>1. Slot(k) \in Slots /\ sequence[Slot(k)] \in Nat
  BY SlotInRange DEF IndInv, TypeOK
<1>2. PICK n \in Int : InLap(n) /\ Slot(k) = Slot(n + Capacity)
  BY <1>1, SlotHasTicket
<1>3. k < tail => k <= n
  <2>1. SUFFICES ASSUME k < tail, n < k PROVE FALSE
    BY <1>2
  <2>2. InLap(k) /\ k \in Int /\ k # n
    BY <2>1, <1>2, Counters DEF InLap
  <2>3. Slot(k + Capacity) = Slot(k)
    BY SlotAfterLap
  <2>4. QED
    BY <1>2, <2>2, <2>3, LapSlots
<1>4. \/ n >= head /\ sequence[Slot(k)] = n
      \/ sequence[Slot(k)] = n + 1
      \/ sequence[Slot(k)] = n + Capacity
  BY <1>2, SlotState
<1>5. QED
  BY <1>1, <1>2, <1>3, <1>4, Counters

LEMMA FullStep ==
  ASSUME IndInv, NEW p \in Producers, Next, pc[p] = "sequence", pc'[p] = "idle"
  PROVE  \/ tail = head + Capacity
         \/ \E c \in Consumers : Owner(c) /\ ticket[c] = tail - Capacity
<1>1. p \in Threads /\ ticket[p] \in Nat /\ ticket[p] <= tail /\ tail \in Nat /\ TypeOK
  BY Counters DEF IndInv, TypeOK, Threads, ProducersInv
<1>2. PushSequence(p)
  <2>1. ASSUME NEW t \in Threads, t # p, NEW point, GoTo(t, point) PROVE FALSE
    BY <1>1, <2>1 DEF GoTo, TypeOK
  <2>2. ASSUME NEW q \in Producers, PushStep(q), q # p PROVE FALSE
    <3>1. \E point : GoTo(q, point)
      BY <2>2 DEF PushStep, PushStart, PushSequence, PushClaim, PushLost, PushTicket,
                  PushWrite, PushPublish, Return
    <3>2. QED
      BY <3>1, <2>1, <2>2 DEF Threads
  <2>3. ASSUME NEW c \in Consumers, PopStep(c) PROVE FALSE
    <3>1. \E point : GoTo(c, point)
      BY <2>3 DEF PopStep, PopStart, PopSequence, PopClaim, PopLost, PopTicket,
                  PopMove, PopRelease, Return
    <3>2. c # p
      BY MpscAssumption
    <3>3. QED
      BY <3>1, <3>2, <2>1 DEF Threads
  <2>4. PushStep(p)
    BY <2>2, <2>3 DEF Next
  <2>5. QED
    BY <2>4 DEF PushStep, PushStart, PushClaim, PushLost, PushTicket, PushWrite, PushPublish
<1>3. sequence[Slot(ticket[p])] < ticket[p]
  <2>1. sequence[Slot(ticket[p])] \in Nat
    BY <1>1, SequenceFloor
  <2>2. ~GoTo(p, "cas") /\ ~GoTo(p, "ticket")
    BY <1>1 DEF GoTo, TypeOK
  <2>3. sequence[Slot(ticket[p])] - ticket[p] < 0
    BY <1>2, <2>2 DEF PushSequence
  <2>4. QED
    BY <1>1, <2>1, <2>3
<1>4. ticket[p] = tail
  BY <1>1, <1>3, SequenceFloor
<1> DEFINE n == tail - Capacity
<1>5. n \in Int /\ InLap(n) /\ n + Capacity = tail /\ n <= head
  BY Counters DEF InLap
<1>6. CASE n = head
  BY <1>5, <1>6, Counters
<1>7. CASE n < head
  <2>1. sequence[Slot(tail)] # n + Capacity
    BY <1>1, <1>3, <1>4, <1>5, SequenceFloor
  <2>2. QED
    BY <1>5, <1>7, <2>1, SlotState, Counters
<1>8. QED
  BY <1>5, <1>6, <1>7, Counters

LEMMA NoneStep ==
  ASSUME IndInv, NEW c \in Consumers, Next, pc[c] = "sequence", pc'[c] = "idle"
  PROVE  \/ tail = head
         \/ \E p \in Producers : Owner(p) /\ ticket[p] = head
<1>1. c \in Threads /\ ticket[c] \in Nat /\ ticket[c] <= head /\ head \in Nat /\ TypeOK
  BY Counters DEF IndInv, TypeOK, Threads, ConsumersInv
<1>2. PopSequence(c)
  <2>1. ASSUME NEW t \in Threads, t # c, NEW point, GoTo(t, point) PROVE FALSE
    BY <1>1, <2>1 DEF GoTo, TypeOK
  <2>2. ASSUME NEW p \in Producers, PushStep(p) PROVE FALSE
    <3>1. \E point : GoTo(p, point)
      BY <2>2 DEF PushStep, PushStart, PushSequence, PushClaim, PushLost, PushTicket,
                  PushWrite, PushPublish, Return
    <3>2. p # c
      BY MpscAssumption
    <3>3. QED
      BY <3>1, <3>2, <2>1 DEF Threads
  <2>3. ASSUME NEW d \in Consumers, PopStep(d), d # c PROVE FALSE
    <3>1. \E point : GoTo(d, point)
      BY <2>3 DEF PopStep, PopStart, PopSequence, PopClaim, PopLost, PopTicket,
                  PopMove, PopRelease, Return
    <3>2. QED
      BY <3>1, <2>1, <2>3 DEF Threads
  <2>4. PopStep(c)
    BY <2>2, <2>3 DEF Next
  <2>5. QED
    BY <2>4 DEF PopStep, PopStart, PopClaim, PopLost, PopTicket, PopMove, PopRelease
<1>3. sequence[Slot(ticket[c])] < ticket[c] + 1
  <2>1. sequence[Slot(ticket[c])] \in Nat
    BY <1>1, SequenceFloor
  <2>2. ~GoTo(c, "cas") /\ ~GoTo(c, "ticket")
    BY <1>1 DEF GoTo, TypeOK
  <2>3. sequence[Slot(ticket[c])] - (ticket[c] + 1) < 0
    BY <1>2, <2>2 DEF PopSequence
  <2>4. QED
    BY <1>1, <2>1, <2>3
<1>4. ticket[c] = head
  BY <1>1, <1>3, SequenceFloor
<1>5. CASE head < tail
  <2>1. head \in Int /\ InLap(head) /\ head >= 0
    BY <1>5, Counters DEF InLap
  <2>2. sequence[Slot(head)] # head + 1
    BY <1>1, <1>3, <1>4, SequenceFloor
  <2>3. QED
    BY <2>1, <2>2, SlotState, Counters
<1>6. QED
  BY <1>5, Counters

(* try_push refuses only when the queue is full or the slot it needs is being drained. *)
THEOREM MpscFullIsTrue == Spec => FullIsTrue
<1>1. IndInv /\ [Next]_vars =>
        [\A p \in Producers :
           pc[p] = "sequence" /\ pc'[p] = "idle"
             => \/ tail = head + Capacity
                \/ \E c \in Consumers : Owner(c) /\ ticket[c] = tail - Capacity]_vars
  BY FullStep
<1>2. QED
  BY <1>1, MpscIndInv, PTL DEF Spec, FullIsTrue

(* pop answers None only when nothing is queued or the oldest claim is unpublished. *)
THEOREM MpscNoneIsTrue == Spec => NoneIsTrue
<1>1. IndInv /\ [Next]_vars =>
        [\A c \in Consumers :
           pc[c] = "sequence" /\ pc'[c] = "idle"
             => \/ tail = head
                \/ \E p \in Producers : Owner(p) /\ ticket[p] = head]_vars
  BY NoneStep
<1>2. QED
  BY <1>1, MpscIndInv, PTL DEF Spec, NoneIsTrue

(* The rest of a sequence, from one element on: an element appended to the one is appended
   to the other, *)
LEMMA RestGrows ==
  ASSUME NEW X, NEW s \in Seq(X), NEW v \in X, NEW h \in 0 .. Len(s)
  PROVE  SubSeq(Append(s, v), h + 1, Len(s) + 1) = Append(SubSeq(s, h + 1, Len(s)), v)
<1> DEFINE n == Len(s)
           t == Append(s, v)
           r == SubSeq(s, h + 1, Len(s))
           u == SubSeq(t, h + 1, Len(t))
<1>1. /\ n \in Nat /\ h \in Nat /\ h <= n /\ t \in Seq(X) /\ Len(t) = n + 1
      /\ \A i \in 1 .. n : t[i] = s[i]
      /\ t[n + 1] = v
  BY LenProperties, AppendProperties
<1>2. r \in Seq(X) /\ Len(r) = n - h /\ \A i \in 1 .. n - h : r[i] = s[h + i]
  BY EndOf
<1>3. u \in Seq(X) /\ Len(u) = n + 1 - h /\ \A i \in 1 .. n + 1 - h : u[i] = t[h + i]
  <2>1. h \in 0 .. Len(t) /\ t \in Seq(X) /\ Len(t) = n + 1
    BY <1>1
  <2> HIDE DEF t, n
  <2>2. /\ u \in Seq(X) /\ Len(u) = Len(t) - h
        /\ \A i \in 1 .. Len(t) - h : u[i] = t[h + i]
    BY <2>1, EndOf
  <2> HIDE DEF u
  <2>3. QED
    BY <1>1, <2>1, <2>2
<1>4. u = SubSeq(t, h + 1, n + 1)
  BY <1>1
<1> HIDE DEF n, t, r, u
<1>5. /\ Append(r, v) \in Seq(X) /\ Len(Append(r, v)) = n - h + 1
      /\ \A i \in 1 .. n - h : Append(r, v)[i] = r[i]
      /\ Append(r, v)[n - h + 1] = v
  BY <1>2, AppendProperties
<1>6. ASSUME NEW i \in 1 .. n + 1 - h PROVE u[i] = Append(r, v)[i]
  <2>1. CASE i = n - h + 1
    <3>1. h + i = n + 1
      BY <1>1, <2>1
    <3>2. QED
      BY <1>1, <1>3, <1>5, <2>1, <3>1
  <2>2. CASE i # n - h + 1
    <3>1. i \in 1 .. n - h /\ h + i \in 1 .. n
      BY <1>1, <2>2
    <3>2. QED
      BY <1>1, <1>2, <1>3, <1>5, <3>1
  <2>3. QED
    BY <2>1, <2>2
<1>7. Len(u) = Len(Append(r, v)) /\ Len(u) = n + 1 - h
  BY <1>1, <1>3, <1>5
<1>8. u = Append(r, v)
  BY <1>3, <1>5, <1>6, <1>7, SeqEqual
<1>9. QED
  BY <1>4, <1>8 DEF r, t, n

(* and what lies behind its first element is the rest from the next one on. *)
LEMMA RestShrinks ==
  ASSUME NEW X, NEW s \in Seq(X), NEW h \in 0 .. Len(s) - 1
  PROVE  /\ SubSeq(s, h + 1, Len(s)) # <<>>
         /\ Head(SubSeq(s, h + 1, Len(s))) = s[h + 1]
         /\ Tail(SubSeq(s, h + 1, Len(s))) = SubSeq(s, h + 1 + 1, Len(s))
<1> DEFINE n == Len(s)
           m == h + 1
           r == SubSeq(s, h + 1, Len(s))
           u == SubSeq(s, m + 1, Len(s))
<1>1. n \in Nat /\ h \in Nat /\ h < n /\ m = h + 1
  BY LenProperties
<1>2. r \in Seq(X) /\ Len(r) = n - h /\ \A i \in 1 .. n - h : r[i] = s[h + i]
  <2>1. h \in 0 .. Len(s)
    BY <1>1
  <2>2. QED
    BY <2>1, EndOf
<1>3. u \in Seq(X) /\ Len(u) = n - m /\ \A i \in 1 .. n - m : u[i] = s[m + i]
  <2>1. m \in 0 .. Len(s)
    BY <1>1
  <2> HIDE DEF m
  <2>2. QED
    BY <2>1, EndOf
<1> HIDE DEF n, m, r, u
<1>4. r # <<>> /\ Head(r) = s[h + 1]
  BY <1>1, <1>2
<1>5. /\ Tail(r) \in Seq(X) /\ Len(Tail(r)) = n - m
      /\ \A i \in 1 .. n - m : Tail(r)[i] = r[i + 1]
  BY <1>1, <1>2, <1>4, HeadTailProperties
<1>6. ASSUME NEW i \in 1 .. n - m PROVE Tail(r)[i] = u[i]
  <2>1. i + 1 \in 1 .. n - h /\ h + (i + 1) = m + i
    BY <1>1
  <2>2. QED
    BY <1>2, <1>3, <1>5, <2>1
<1>7. Tail(r) = u
  BY <1>3, <1>5, <1>6, SeqEqual
<1>8. QED
  BY <1>4, <1>7 DEF r, u, m

(* The queue as a caller sees it is empty at first. *)
LEMMA InitFifo == Init => Fifo!Init
<1> SUFFICES ASSUME Init PROVE Fifo!Init
  OBVIOUS
<1>1. Waiting = <<>>
  BY SubSeqEmpty DEF Init, Waiting
<1>2. QED
  BY <1>1 DEF Init, Fifo!Init, LastTaken

(* The producer's compare-exchange puts an item behind those that wait, and there is room, *)
LEMMA PushClaimPuts ==
  ASSUME IndInv, NEW p \in Producers, PushClaim(p)
  PROVE  Fifo!Put
<1>1. /\ tail \in Nat /\ head \in 0 .. tail /\ claims \in Seq(Value) /\ Len(claims) = tail
      /\ item[p] \in Value
  BY Counters DEF IndInv, TypeOK, DispensersInv, ProducersInv, PushClaim
<1>2. tail' = tail + 1 /\ head' = head /\ claims' = Append(claims, item[p])
  BY DEF PushClaim
<1>3. tail < head + Capacity
  <2>1. tail' <= head' + Capacity
    BY PushClaimStep DEF IndInv, DispensersInv
  <2>2. QED
    BY <1>1, <1>2, <2>1, Counters
<1>4. Waiting' = Append(Waiting, item[p])
  BY <1>1, <1>2, RestGrows DEF Waiting
<1>5. Len(Waiting) < Capacity
  <2>1. Len(SubSeq(claims, head + 1, Len(claims))) = Len(claims) - head
    BY <1>1, EndOf
  <2>2. QED
    BY <1>1, <1>3, <2>1, Counters DEF Waiting
<1>6. LastTaken' = LastTaken
  <2>1. CASE head = 0
    BY <1>2, <2>1 DEF LastTaken
  <2>2. CASE head # 0
    <3>1. head \in 1 .. Len(claims)
      BY <1>1, <2>2
    <3>2. claims'[head] = claims[head]
      BY <1>1, <1>2, <3>1, AppendProperties
    <3>3. QED
      BY <1>2, <2>2, <3>2 DEF LastTaken
  <2>3. QED
    BY <2>1, <2>2
<1>7. QED
  BY <1>1, <1>4, <1>5, <1>6 DEF Fifo!Put

(* and the consumer's takes the oldest, of which there is one. *)
LEMMA PopClaimTakes ==
  ASSUME IndInv, NEW c \in Consumers, PopClaim(c)
  PROVE  Fifo!Take
<1>1. tail \in Nat /\ head \in Nat /\ claims \in Seq(Value) /\ Len(claims) = tail
  BY Counters DEF IndInv, TypeOK, DispensersInv
<1>2. tail' = tail /\ head' = head + 1 /\ claims' = claims
  BY DEF PopClaim
<1>3. head \in 0 .. Len(claims) - 1
  <2>1. head' <= tail'
    BY PopClaimStep DEF IndInv, DispensersInv
  <2>2. QED
    BY <1>1, <1>2, <2>1
<1>4. /\ Waiting # <<>> /\ Head(Waiting) = claims[head + 1]
      /\ Tail(Waiting) = SubSeq(claims, head + 1 + 1, tail)
  BY <1>1, <1>3, RestShrinks DEF Waiting
<1>5. Waiting' = Tail(Waiting)
  BY <1>2, <1>4 DEF Waiting
<1>6. LastTaken' = Head(Waiting)
  BY <1>1, <1>2, <1>4 DEF LastTaken
<1>7. QED
  BY <1>4, <1>5, <1>6 DEF Fifo!Take

(* No other step shows. *)
LEMMA QueueStepRefines ==
  ASSUME IndInv, [Next]_vars
  PROVE  [Fifo!Next]_Fifo!fifoVars
<1>1. ASSUME UNCHANGED <<tail, head, claims>> PROVE UNCHANGED Fifo!fifoVars
  BY <1>1 DEF Fifo!fifoVars, Waiting, LastTaken
<1>2. CASE UNCHANGED vars
  BY <1>1, <1>2 DEF vars, queueVars
<1>3. ASSUME NEW p \in Producers, PushStep(p) PROVE [Fifo!Next]_Fifo!fifoVars
  <2>1. CASE PushClaim(p)
    BY <2>1, PushClaimPuts DEF Fifo!Next
  <2>2. CASE ~PushClaim(p)
    <3>1. UNCHANGED <<tail, head, claims>>
      BY <1>3, <2>2 DEF PushStep, PushStart, PushSequence, PushLost, PushTicket, PushWrite,
                        PushPublish, queueVars
    <3>2. QED
      BY <1>1, <3>1
  <2>3. QED
    BY <2>1, <2>2
<1>4. ASSUME NEW c \in Consumers, PopStep(c) PROVE [Fifo!Next]_Fifo!fifoVars
  <2>1. CASE PopClaim(c)
    BY <2>1, PopClaimTakes DEF Fifo!Next
  <2>2. CASE ~PopClaim(c)
    <3>1. UNCHANGED <<tail, head, claims>>
      BY <1>4, <2>2 DEF PopStep, PopStart, PopSequence, PopLost, PopTicket, PopMove,
                        PopRelease, queueVars
    <3>2. QED
      BY <1>1, <3>1
  <2>3. QED
    BY <2>1, <2>2
<1>5. QED
  BY <1>2, <1>3, <1>4 DEF Next

(* The queue implements the bounded FIFO: whatever its threads are in the middle of, the
   tickets alone say what is queued, in which order, and that there is room for it
   (try_push, pop). *)
THEOREM MpscTicketsAreFifo == Spec => TicketsAreFifo
<1>1. IndInv /\ [Next]_vars => [Fifo!Next]_Fifo!fifoVars
  BY QueueStepRefines
<1>2. QED
  BY <1>1, InitFifo, MpscIndInv, PTL DEF Spec, TicketsAreFifo, Fifo!Spec

-----------------------------------------------------------------------------
(* The real-time log is the queue with counters beside it: whatever it does to the queue,
   the queue alone could have done, so all of the above holds of it too. *)
LEMMA LogStepIsQueueStep ==
  [LogNext]_logVars => [Next]_vars
<1> SUFFICES ASSUME [LogNext]_logVars PROVE [Next]_vars
  OBVIOUS
<1>1. ASSUME NEW p \in Producers, WithinPush(p, PushStep(p)) PROVE Next
  BY <1>1 DEF WithinPush, Next
<1>2. ASSUME NEW c \in Consumers, WithinPop(c, PopStep(c)) PROVE Next
  BY <1>2 DEF WithinPop, Next
<1>3. ASSUME NEW p \in Producers, CountDropped(p) PROVE UNCHANGED vars
  BY <1>3 DEF CountDropped
<1>4. CASE TakeDropped
  BY <1>4 DEF TakeDropped
<1>5. CASE UNCHANGED logVars
  BY <1>5 DEF logVars
<1>6. QED
  BY <1>1, <1>2, <1>3, <1>4, <1>5 DEF LogNext

(* RtLogQueue never uses its MpscQueue in a way the queue's own contract does not allow. *)
THEOREM LogImplementsQueue == LogSpec => Spec
<1>1. LogInit => Init
  BY DEF LogInit
<1>2. [LogNext]_logVars => [Next]_vars
  BY LogStepIsQueueStep
<1>3. QED
  BY <1>1, <1>2, PTL DEF LogSpec, Spec

(* Where a record can be between its call and its end: in a slot, in the hands of its
   producer, which has not written it yet, or of a consumer, which has moved it out. *)
Full == {s \in Slots : payload[s] # NoValue}

InHand ==
  {p \in Producers : pc[p] \in {"ticket", "sequence", "cas", "write"}}
    \cup {c \in Consumers : pc[c] = "release"}

LogInv ==
  /\ IsFiniteSet(InHand) /\ IsFiniteSet(refused)
  /\ {dropped, pushes, delivered, reported} \subseteq Nat
  /\ pushes = delivered + Cardinality(Full) + Cardinality(InHand) + dropped + reported
                + Cardinality(refused)

LEMMA FullIsFinite ==
  IsFiniteSet(Full) /\ Cardinality(Full) \in Nat
<1>1. IsFiniteSet(Slots)
  BY CapacityAssumption, FS_Interval DEF Slots
<1>2. Full \in SUBSET Slots
  BY DEF Full
<1>3. IsFiniteSet(Full)
  BY <1>1, <1>2, FS_Subset
<1>4. QED
  BY <1>3, FS_CardinalityType

(* How a thread's move between two points changes who has a record in hand. *)
LEMMA HandMoves ==
  ASSUME IndInv, NEW t \in Threads, NEW point, pc' = [pc EXCEPT ![t] = point]
  PROVE  LET had == t \in InHand
             has == \/ t \in Producers /\ point \in {"ticket", "sequence", "cas", "write"}
                    \/ t \in Consumers /\ point = "release"
         IN  InHand' = IF has THEN InHand \cup {t} ELSE InHand \ {t}
<1>1. pc \in [Threads -> {"idle"} \cup ProducerPoint \cup ConsumerPoint]
  BY DEF IndInv, TypeOK
<1>2. pc'[t] = point /\ \A u \in Threads : u # t => pc'[u] = pc[u]
  BY <1>1
<1>3. Producers \subseteq Threads /\ Consumers \subseteq Threads
  BY DEF Threads
<1>4. QED
  BY <1>2, <1>3 DEF InHand

LEMMA HandCounted ==
  ASSUME IsFiniteSet(InHand), NEW t
  PROVE  /\ Cardinality(InHand) \in Nat
         /\ IsFiniteSet(InHand \cup {t}) /\ IsFiniteSet(InHand \ {t})
         /\ t \notin InHand => Cardinality(InHand \cup {t}) = Cardinality(InHand) + 1
         /\ t \in InHand => /\ Cardinality(InHand \ {t}) = Cardinality(InHand) - 1
                            /\ InHand \cup {t} = InHand
         /\ t \notin InHand => InHand \ {t} = InHand
  BY FS_CardinalityType, FS_AddElement, FS_RemoveElement

(* A call of try_push from its start to its end. *)
LEMMA PushAccounted ==
  ASSUME IndInv, LogInv, NEW p \in Producers, WithinPush(p, PushStep(p))
  PROVE  LogInv'
<1>1. /\ p \notin refused /\ PushStep(p) /\ p \in Threads /\ p \notin Consumers
      /\ pushes' = pushes + IF pc[p] = "idle" THEN 1 ELSE 0
      /\ refused' = IF pc[p] = "sequence" /\ pc'[p] = "idle" THEN refused \cup {p} ELSE refused
      /\ dropped' = dropped /\ delivered' = delivered /\ reported' = reported
  BY MpscAssumption DEF WithinPush, Threads
<1>2. /\ IsFiniteSet(InHand) /\ IsFiniteSet(refused) /\ Cardinality(refused) \in Nat
      /\ dropped \in Nat /\ pushes \in Nat /\ delivered \in Nat /\ reported \in Nat
      /\ pushes = delivered + Cardinality(Full) + Cardinality(InHand) + dropped + reported
                    + Cardinality(refused)
  BY FS_CardinalityType DEF LogInv
<1>3. /\ Cardinality(InHand) \in Nat
      /\ IsFiniteSet(InHand \cup {p}) /\ IsFiniteSet(InHand \ {p})
      /\ p \notin InHand => Cardinality(InHand \cup {p}) = Cardinality(InHand) + 1
      /\ p \in InHand => /\ Cardinality(InHand \ {p}) = Cardinality(InHand) - 1
                         /\ InHand \cup {p} = InHand
      /\ p \notin InHand => InHand \ {p} = InHand
  BY <1>2, HandCounted
<1>4. p \in InHand <=> pc[p] \in {"ticket", "sequence", "cas", "write"}
  BY <1>1 DEF InHand
<1>5. pc \in [Threads -> {"idle"} \cup ProducerPoint \cup ConsumerPoint]
  BY DEF IndInv, TypeOK
<1>6. Cardinality(Full) \in Nat /\ IsFiniteSet(Full)
  BY FullIsFinite
<1> DEFINE Moves(point) == pc' = [pc EXCEPT ![p] = point]
<1>7. ASSUME NEW point, Moves(point)
      PROVE  /\ pc'[p] = point
             /\ InHand' = IF point \in {"ticket", "sequence", "cas", "write"}
                            THEN InHand \cup {p} ELSE InHand \ {p}
  BY <1>1, <1>5, <1>7, HandMoves
<1>8. /\ payload' = payload => Full' = Full
      /\ pc[p] = "idle" => pushes' = pushes + 1
      /\ pc[p] # "idle" => pushes' = pushes
      /\ ~(pc[p] = "sequence" /\ pc'[p] = "idle") => refused' = refused
      /\ pc[p] = "sequence" /\ pc'[p] = "idle" => refused' = refused \cup {p}
  <2>1. payload' = payload => Full' = Full
    BY DEF Full
  <2>2. pc[p] # "idle" => pushes' = pushes
    BY <1>1, <1>2
  <2>3. QED
    BY <1>1, <2>1, <2>2
<1>9. CASE \E v \in Value : PushStart(p, v)
  <2>1. pc[p] = "idle" /\ Moves("sequence") /\ payload' = payload
    BY <1>9 DEF PushStart, GoTo, queueVars
  <2>2. InHand' = InHand \cup {p} /\ pushes' = pushes + 1 /\ refused' = refused /\ Full' = Full
    BY <1>7, <1>8, <2>1
  <2>3. QED
    BY <1>1, <1>2, <1>3, <1>4, <1>6, <2>1, <2>2 DEF LogInv
<1>10. CASE PushSequence(p)
  <2>1. pc[p] = "sequence" /\ payload' = payload
    BY <1>10 DEF PushSequence, queueVars
  <2>2. Moves("cas") \/ Moves("ticket") \/ Moves("idle")
    BY <1>10 DEF PushSequence, GoTo, Return
  <2>3. Full' = Full /\ pushes' = pushes
    BY <1>8, <2>1
  <2>4. CASE Moves("cas") \/ Moves("ticket")
    <3>1. InHand' = InHand /\ refused' = refused
      BY <1>3, <1>4, <1>7, <1>8, <2>1, <2>4
    <3>2. QED
      BY <1>1, <1>2, <2>3, <3>1 DEF LogInv
  <2>5. CASE Moves("idle")
    <3>1. InHand' = InHand \ {p} /\ refused' = refused \cup {p}
      BY <1>7, <1>8, <2>1, <2>5
    <3>2. IsFiniteSet(refused') /\ Cardinality(refused') = Cardinality(refused) + 1
      BY <1>1, <1>2, <3>1, FS_AddElement
    <3>3. IsFiniteSet(InHand') /\ Cardinality(InHand') = Cardinality(InHand) - 1
      BY <1>3, <1>4, <2>1, <3>1
    <3>4. QED
      BY <1>1, <1>2, <1>3, <1>6, <2>3, <3>2, <3>3 DEF LogInv
  <2>6. QED
    BY <2>2, <2>4, <2>5
<1>11. CASE PushClaim(p) \/ PushLost(p) \/ PushTicket(p)
  <2>1. /\ pc[p] \in {"ticket", "cas"} /\ payload' = payload
        /\ Moves("write") \/ Moves("sequence")
    BY <1>11 DEF PushClaim, PushLost, PushTicket, GoTo, queueVars
  <2>2. /\ pc'[p] # "idle" \/ pc[p] # "sequence"
        /\ InHand' = InHand
    BY <1>3, <1>4, <1>7, <2>1
  <2>3. Full' = Full /\ pushes' = pushes /\ refused' = refused
    BY <1>8, <2>1, <2>2
  <2>4. QED
    BY <1>1, <1>2, <2>2, <2>3 DEF LogInv
<1>12. CASE PushWrite(p)
  <2> DEFINE s == Slot(ticket[p])
  <2>1. /\ pc[p] = "write" /\ Moves("publish")
        /\ payload' = [payload EXCEPT ![s] = item[p]]
    BY <1>12 DEF PushWrite, GoTo
  <2>2. s \in Slots /\ payload[s] = NoValue /\ item[p] \in Value
    <3>1. Owner(p)
      BY <2>1 DEF Owner
    <3>2. s \in Slots
      BY <1>1, <3>1, OwnerInLap
    <3>3. QED
      BY <2>1, <3>1, <3>2 DEF IndInv, ProducersInv
  <2>3. item[p] # NoValue /\ payload \in [Slots -> Value \cup {NoValue}]
    BY <2>2, MpscAssumption DEF IndInv, TypeOK
  <2> HIDE DEF s
  <2>4. Full' = Full \cup {s} /\ s \notin Full
    BY <2>1, <2>2, <2>3 DEF Full
  <2>5. Cardinality(Full') = Cardinality(Full) + 1
    BY <1>6, <2>4, FS_AddElement
  <2>6. InHand' = InHand \ {p} /\ pushes' = pushes /\ refused' = refused
    BY <1>7, <1>8, <2>1
  <2>7. IsFiniteSet(InHand') /\ Cardinality(InHand') = Cardinality(InHand) - 1
    BY <1>3, <1>4, <2>1, <2>6
  <2>8. QED
    BY <1>1, <1>2, <1>3, <1>6, <2>5, <2>6, <2>7 DEF LogInv
<1>13. CASE PushPublish(p)
  <2>1. pc[p] = "publish" /\ Moves("idle") /\ payload' = payload
    BY <1>13 DEF PushPublish, Return, GoTo
  <2>2. /\ pc'[p] # "idle" \/ pc[p] # "sequence"
        /\ InHand' = InHand
    BY <1>3, <1>4, <1>7, <2>1
  <2>3. Full' = Full /\ pushes' = pushes /\ refused' = refused
    BY <1>8, <2>1, <2>2
  <2>4. QED
    BY <1>1, <1>2, <2>2, <2>3 DEF LogInv
<1>14. QED
  BY <1>1, <1>9, <1>10, <1>11, <1>12, <1>13 DEF PushStep

(* A call of pop. *)
LEMMA PopAccounted ==
  ASSUME IndInv, LogInv, NEW c \in Consumers, WithinPop(c, PopStep(c))
  PROVE  LogInv'
<1>1. /\ PopStep(c) /\ c \in Threads /\ c \notin Producers
      /\ delivered' = delivered + IF pc[c] = "release" THEN 1 ELSE 0
      /\ refused' = refused /\ pushes' = pushes /\ dropped' = dropped /\ reported' = reported
  BY MpscAssumption DEF WithinPop, Threads
<1>2. /\ IsFiniteSet(InHand) /\ IsFiniteSet(refused) /\ Cardinality(refused) \in Nat
      /\ dropped \in Nat /\ pushes \in Nat /\ delivered \in Nat /\ reported \in Nat
      /\ pushes = delivered + Cardinality(Full) + Cardinality(InHand) + dropped + reported
                    + Cardinality(refused)
  BY FS_CardinalityType DEF LogInv
<1>3. /\ Cardinality(InHand) \in Nat
      /\ IsFiniteSet(InHand \cup {c}) /\ IsFiniteSet(InHand \ {c})
      /\ c \notin InHand => Cardinality(InHand \cup {c}) = Cardinality(InHand) + 1
      /\ c \in InHand => /\ Cardinality(InHand \ {c}) = Cardinality(InHand) - 1
                         /\ InHand \cup {c} = InHand
      /\ c \notin InHand => InHand \ {c} = InHand
  BY <1>2, HandCounted
<1>4. c \in InHand <=> pc[c] = "release"
  BY <1>1 DEF InHand
<1>5. pc \in [Threads -> {"idle"} \cup ProducerPoint \cup ConsumerPoint]
  BY DEF IndInv, TypeOK
<1>6. Cardinality(Full) \in Nat /\ IsFiniteSet(Full)
  BY FullIsFinite
<1> DEFINE Moves(point) == pc' = [pc EXCEPT ![c] = point]
<1>7. ASSUME NEW point, Moves(point)
      PROVE  /\ pc'[c] = point
             /\ InHand' = IF point = "release" THEN InHand \cup {c} ELSE InHand \ {c}
  BY <1>1, <1>5, <1>7, HandMoves
<1>8. /\ payload' = payload => Full' = Full
      /\ pc[c] = "release" => delivered' = delivered + 1
      /\ pc[c] # "release" => delivered' = delivered
  <2>1. payload' = payload => Full' = Full
    BY DEF Full
  <2>2. pc[c] # "release" => delivered' = delivered
    BY <1>1, <1>2
  <2>3. QED
    BY <1>1, <2>1, <2>2
<1>9. CASE PopStart(c) \/ PopSequence(c) \/ PopClaim(c) \/ PopLost(c) \/ PopTicket(c)
  <2>1. /\ pc[c] # "release" /\ payload' = payload
        /\ Moves("sequence") \/ Moves("cas") \/ Moves("ticket") \/ Moves("idle") \/ Moves("move")
    BY <1>9 DEF PopStart, PopSequence, PopClaim, PopLost, PopTicket, GoTo, Return, queueVars
  <2>2. InHand' = InHand
    BY <1>3, <1>4, <1>7, <2>1
  <2>3. Full' = Full /\ delivered' = delivered
    BY <1>8, <2>1
  <2>4. QED
    BY <1>1, <1>2, <2>2, <2>3 DEF LogInv
<1>10. CASE PopMove(c)
  <2> DEFINE s == Slot(ticket[c])
  <2>1. /\ pc[c] = "move" /\ Moves("release")
        /\ payload' = [payload EXCEPT ![s] = NoValue]
    BY <1>10 DEF PopMove, GoTo
  <2>2. s \in Slots /\ payload[s] \in Value
    <3>1. Owner(c)
      BY <2>1 DEF Owner
    <3>2. s \in Slots
      BY <1>1, <3>1, OwnerInLap
    <3>3. payload[s] = claims[ticket[c] + 1] /\ ticket[c] < head
      BY <2>1, <3>1 DEF IndInv, ConsumersInv
    <3>4. ticket[c] + 1 \in 1 .. Len(claims) /\ claims \in Seq(Value)
      <4>1. ticket[c] \in Nat /\ tail \in Nat /\ head \in Nat /\ head <= tail /\ Len(claims) = tail
        BY <1>1 DEF IndInv, TypeOK, DispensersInv
      <4>2. QED
        BY <3>3, <4>1 DEF IndInv, TypeOK
    <3>5. QED
      BY <3>2, <3>3, <3>4, ElementOfSeq
  <2>3. payload[s] # NoValue /\ payload \in [Slots -> Value \cup {NoValue}]
    BY <2>2, MpscAssumption DEF IndInv, TypeOK
  <2> HIDE DEF s
  <2>4. Full' = Full \ {s} /\ s \in Full
    BY <2>1, <2>2, <2>3 DEF Full
  <2>5. Cardinality(Full') = Cardinality(Full) - 1
    BY <1>6, <2>4, FS_RemoveElement
  <2>6. InHand' = InHand \cup {c} /\ delivered' = delivered
    BY <1>7, <1>8, <2>1
  <2>7. IsFiniteSet(InHand') /\ Cardinality(InHand') = Cardinality(InHand) + 1
    BY <1>3, <1>4, <2>1, <2>6
  <2>8. QED
    BY <1>1, <1>2, <1>3, <1>6, <2>5, <2>6, <2>7 DEF LogInv
<1>11. CASE PopRelease(c)
  <2>1. pc[c] = "release" /\ Moves("idle") /\ payload' = payload
    BY <1>11 DEF PopRelease, Return, GoTo
  <2>2. Full' = Full /\ InHand' = InHand \ {c} /\ delivered' = delivered + 1
    <3>1. InHand' = IF "idle" = "release" THEN InHand \cup {c} ELSE InHand \ {c}
      BY <1>7, <2>1
    <3>2. QED
      BY <1>8, <2>1, <3>1
  <2>3. IsFiniteSet(InHand') /\ Cardinality(InHand') = Cardinality(InHand) - 1
    BY <1>3, <1>4, <2>1, <2>2
  <2>4. QED
    BY <1>1, <1>2, <1>3, <1>6, <2>2, <2>3 DEF LogInv
<1>12. QED
  BY <1>1, <1>9, <1>10, <1>11 DEF PopStep

LEMMA CountsAccounted ==
  ASSUME LogInv,
         (\E p \in Producers : CountDropped(p)) \/ TakeDropped \/ UNCHANGED logVars
  PROVE  LogInv'
<1>1. /\ IsFiniteSet(InHand) /\ IsFiniteSet(refused)
      /\ Cardinality(refused) \in Nat /\ Cardinality(InHand) \in Nat /\ Cardinality(Full) \in Nat
      /\ dropped \in Nat /\ pushes \in Nat /\ delivered \in Nat /\ reported \in Nat
      /\ pushes = delivered + Cardinality(Full) + Cardinality(InHand) + dropped + reported
                    + Cardinality(refused)
  BY FS_CardinalityType, FullIsFinite DEF LogInv
<1>2. pc' = pc /\ payload' = payload
  BY DEF CountDropped, TakeDropped, logVars, vars, queueVars
<1>3. Full' = Full /\ InHand' = InHand
  BY <1>2 DEF Full, InHand
<1>4. CASE \E p \in Producers : CountDropped(p)
  <2>1. PICK p \in Producers : CountDropped(p)
    BY <1>4
  <2>2. /\ p \in refused /\ refused' = refused \ {p} /\ dropped' = dropped + 1
        /\ pushes' = pushes /\ delivered' = delivered /\ reported' = reported
    BY <2>1 DEF CountDropped
  <2>3. IsFiniteSet(refused') /\ Cardinality(refused') = Cardinality(refused) - 1
    BY <1>1, <2>2, FS_RemoveElement
  <2>4. QED
    BY <1>1, <1>3, <2>2, <2>3 DEF LogInv
<1>5. CASE TakeDropped
  <2>1. /\ reported' = reported + dropped /\ dropped' = 0
        /\ refused' = refused /\ pushes' = pushes /\ delivered' = delivered
    BY <1>5 DEF TakeDropped
  <2>2. QED
    BY <1>1, <1>3, <2>1 DEF LogInv
<1>6. CASE UNCHANGED logVars
  BY <1>1, <1>3, <1>6 DEF LogInv, logVars, countVars
<1>7. QED
  BY <1>4, <1>5, <1>6

(* No record of the real-time log disappears: whatever is not handed out or queued was
   counted as lost, exactly once, although the count is a step behind the refusal and the
   report swaps the counter at any moment. *)
THEOREM LogAccountsRecords == LogSpec => []RecordsAccounted
<1>1. LogInit => LogInv
  <2> SUFFICES ASSUME LogInit PROVE LogInv
    OBVIOUS
  <2>1. Full = {}
    BY DEF LogInit, Init, Full
  <2>2. InHand = {}
    BY DEF LogInit, Init, InHand, Threads
  <2>3. QED
    BY <2>1, <2>2, FS_EmptySet DEF LogInit, LogInv
<1>2. IndInv /\ LogInv /\ [LogNext]_logVars => LogInv'
  BY PushAccounted, PopAccounted, CountsAccounted DEF LogNext
<1>3. LogInv => RecordsAccounted
  <2> SUFFICES ASSUME LogInv, \A t \in Threads : pc[t] = "idle", refused = {}
               PROVE  pushes = delivered + Cardinality({s \in Slots : payload[s] # NoValue})
                                 + dropped + reported
    BY DEF RecordsAccounted
  <2>1. InHand = {}
    BY DEF InHand, Threads
  <2>2. Cardinality(InHand) = 0 /\ Cardinality(refused) = 0
    BY <2>1, FS_EmptySet
  <2>3. Cardinality(Full) \in Nat
    BY FullIsFinite
  <2>4. QED
    BY <2>2, <2>3 DEF LogInv, Full
<1>4. Spec => []IndInv
  BY MpscIndInv
<1>5. QED
  BY <1>1, <1>2, <1>3, <1>4, LogImplementsQueue, PTL DEF LogSpec

-----------------------------------------------------------------------------
(* The triple buffer: never torn, never back in time, never waiting on agreement. *)
LEMMA InitialIsSnapshot == InitialSnapshot \in Snapshot
  BY TripleAssumption DEF InitialSnapshot, Snapshot

LEMMA InitBuffer == BufferInit => BufferInv
<1> SUFFICES ASSUME BufferInit PROVE BufferInv
  OBVIOUS
<1>1. BufferTypeOK
  <2>1. slots \in [SlotIndex -> Snapshot] /\ staging \in Snapshot
    BY InitialIsSnapshot DEF BufferInit
  <2>2. latest \in Snapshot /\ shown \in Snapshot /\ copied \in SUBSET Field
    BY InitialIsSnapshot DEF BufferInit
  <2>3. middle \in SlotIndex /\ writeIndex \in SlotIndex /\ readIndex \in SlotIndex
    BY DEF BufferInit, SlotIndex
  <2>4. QED
    BY <2>1, <2>2, <2>3 DEF BufferInit, BufferTypeOK
<1>2. SlotsPartitioned /\ NoTearing /\ NewestIsReachable /\ CopyInv /\ DirtyInv
  BY DEF BufferInit, SlotsPartitioned, NoTearing, NewestIsReachable, CopyInv, DirtyInv, SlotIndex
<1>3. QED
  BY <1>1, <1>2 DEF BufferInv

(* Copying a field changes the writer's own slot and no other. *)
LEMMA CopyFieldStep ==
  ASSUME BufferInv, NEW f \in Field, CopyField(f)
  PROVE  BufferInv'
<1> USE DEF CopyField, readerVars, history, BufferInv
<1>1. /\ slots' \in [SlotIndex -> Snapshot]
      /\ slots'[writeIndex] \in Snapshot /\ slots'[writeIndex][f] = staging[f]
      /\ \A g \in Field \ {f} : slots'[writeIndex][g] = slots[writeIndex][g]
      /\ \A i \in SlotIndex : i # writeIndex => slots'[i] = slots[i]
  BY DEF BufferTypeOK, Snapshot
<1>2. BufferTypeOK'
  BY <1>1 DEF BufferTypeOK
<1>3. SlotsPartitioned' /\ DirtyInv'
  BY DEF SlotsPartitioned, DirtyInv
<1>4. NoTearing' /\ NewestIsReachable'
  BY <1>1 DEF BufferTypeOK, SlotsPartitioned, NoTearing, NewestIsReachable
<1>5. CopyInv'
  BY <1>1 DEF BufferTypeOK, CopyInv
<1>6. QED
  BY <1>2, <1>3, <1>4, <1>5

(* A finished copy is the staged snapshot. *)
LEMMA CopiedWhole ==
  ASSUME BufferInv, Publish
  PROVE  slots[writeIndex] = staging
  BY DEF BufferInv, Publish, BufferTypeOK, CopyInv, Snapshot

(* So publishing hands over a whole one. *)
LEMMA PublishStep ==
  ASSUME BufferInv, Publish
  PROVE  BufferInv'
<1> USE DEF Publish, readerVars, BufferInv
<1>1. slots[writeIndex] = staging
  BY CopiedWhole
<1>2. BufferTypeOK'
  BY DEF BufferTypeOK
<1>3. SlotsPartitioned' /\ NoTearing' /\ CopyInv' /\ DirtyInv'
  BY DEF SlotsPartitioned, NoTearing, CopyInv, DirtyInv
<1>4. NewestIsReachable'
  BY <1>1 DEF NewestIsReachable
<1>5. QED
  BY <1>2, <1>3, <1>4

(* The reader's swap returns its slot and takes the newest. *)
LEMMA ReadSwapStep ==
  ASSUME BufferInv, ReadSwap
  PROVE  BufferInv'
<1> USE DEF ReadSwap, writerVars, BufferInv
<1>1. BufferTypeOK'
  BY DEF BufferTypeOK
<1>2. SlotsPartitioned' /\ CopyInv' /\ DirtyInv' /\ NewestIsReachable'
  BY DEF SlotsPartitioned, CopyInv, DirtyInv, NewestIsReachable
<1>3. NoTearing'
  BY DEF NoTearing, NewestIsReachable, DirtyInv
<1>4. QED
  BY <1>1, <1>2, <1>3

(* The remaining steps move a thread without touching the three slots' owners. *)
LocalStep ==
  \/ \E s \in Snapshot : Write(s)
  \/ DropWriter
  \/ ReadIfUpdated \/ ReadStart \/ ReadEnd \/ DropReader
  \/ UNCHANGED bufferVars

LEMMA LocalStepInv ==
  ASSUME BufferInv, LocalStep
  PROVE  BufferInv'
<1> USE DEF LocalStep, Write, DropWriter, ReadIfUpdated, ReadStart, ReadEnd, DropReader,
            bufferVars, sharedVars, writerVars, readerVars, history, BufferInv
<1>1. BufferTypeOK'
  BY DEF BufferTypeOK
<1>2. SlotsPartitioned' /\ NoTearing' /\ NewestIsReachable'
  BY DEF SlotsPartitioned, NoTearing, NewestIsReachable
<1>3. CopyInv'
  BY DEF CopyInv
<1>4. DirtyInv'
  BY DEF DirtyInv
<1>5. QED
  BY <1>1, <1>2, <1>3, <1>4

LEMMA NextBuffer == BufferInv /\ [BufferNext]_bufferVars => BufferInv'
  BY CopyFieldStep, PublishStep, ReadSwapStep, LocalStepInv
  DEF BufferNext, WriterStep, ReaderStep, LocalStep

-----------------------------------------------------------------------------
(* The inductive invariant holds of every triple buffer. *)
THEOREM TripleIndInv == BufferSpec => []BufferInv
  BY InitBuffer, NextBuffer, PTL DEF BufferSpec

(* No swap ever gives one slot to both threads. *)
THEOREM TripleSlotsPartitioned == BufferSpec => []SlotsPartitioned
<1>1. BufferInv => SlotsPartitioned
  BY DEF BufferInv
<1>2. QED
  BY <1>1, TripleIndInv, PTL

(* What is borrowed is one whole publication for as long as it is borrowed. *)
THEOREM TripleNoTearing == BufferSpec => []NoTearing
<1>1. BufferInv => NoTearing
  BY DEF BufferInv
<1>2. QED
  BY <1>1, TripleIndInv, PTL

(* The newest publication is always either shown or there to take. *)
THEOREM TripleNewestIsReachable == BufferSpec => []NewestIsReachable
<1>1. BufferInv => NewestIsReachable
  BY DEF BufferInv
<1>2. QED
  BY <1>1, TripleIndInv, PTL

(* has_update never promises an update that the read does not deliver. *)
THEOREM TripleUpdateIsTaken == BufferSpec => UpdateIsTaken
<1>1. BufferInv /\ [BufferNext]_bufferVars
        => [reader = "read" /\ reader' # reader => reader' = "swap"]_bufferVars
  BY DEF BufferInv, DirtyInv, BufferNext, WriterStep, ReaderStep, Write, CopyField, Publish,
     DropWriter, ReadIfUpdated, ReadStart, ReadSwap, ReadEnd, DropReader, readerVars
<1>2. QED
  BY <1>1, TripleIndInv, PTL DEF BufferSpec, UpdateIsTaken

(* The three slots and the word behave as one atomic register. *)
THEOREM TripleImplementsRegister == BufferSpec => ImplementsRegister
<1>1. BufferInit => Register!Init
  BY DEF BufferInit, Register!Init, Newest, SlotIndex
<1>2. BufferInv /\ [BufferNext]_bufferVars => [Register!Next]_<<Newest, slots[readIndex]>>
  <2> SUFFICES ASSUME BufferInv, [BufferNext]_bufferVars
               PROVE  Register!Next \/ UNCHANGED <<Newest, slots[readIndex]>>
    OBVIOUS
  <2> USE DEF BufferInv, SlotsPartitioned, Newest
  <2>1. CASE Publish
    <3>1. slots[writeIndex] = staging
      BY <2>1, CopiedWhole DEF Publish
    <3>2. Newest' = staging /\ slots'[readIndex'] = slots[readIndex]
      BY <2>1, <3>1 DEF Publish, readerVars
    <3>3. QED
      BY <3>2 DEF BufferTypeOK, Register!Next, Register!Publish
  <2>2. CASE ReadSwap
    BY <2>2 DEF ReadSwap, DirtyInv, Register!Next, Register!Observe
  <2>3. CASE \E f \in Field : CopyField(f)
    BY <2>3 DEF CopyField, BufferTypeOK, readerVars
  <2>4. CASE LocalStep
    BY <2>4 DEF LocalStep, Write, DropWriter, ReadIfUpdated, ReadStart, ReadEnd,
       DropReader, bufferVars, sharedVars, readerVars
  <2>5. QED
    BY <2>1, <2>2, <2>3, <2>4 DEF BufferNext, WriterStep, ReaderStep, LocalStep
<1>3. QED
  BY <1>1, <1>2, TripleIndInv, PTL
  DEF BufferSpec, ImplementsRegister, Register!Spec, Register!registerVars
=============================================================================
