----------------------------- MODULE MpscQueue -----------------------------
(***************************************************************************)
(* The bounded lock-free queue of daux-rt/src/mpsc.rs: a slot array whose  *)
(* sequence numbers are the whole protocol, and two ticket dispensers.     *)
(* Every load, weak compare-exchange, payload access and sequence store is *)
(* a step of its own.                                                      *)
(*                                                                         *)
(* Tickets are not wrapped here: the compare-exchange of a thread that is  *)
(* suspended for exactly 2^64 (2^32) claims is left out.  MaxTickets stops *)
(* the producers of a finite instance.                                     *)
(***************************************************************************)
EXTENDS RingSlots, Sequences

CONSTANTS
  Producers,    \* threads that call try_push
  Consumers,    \* threads that call pop: the contract says one, the code allows more
  Value,        \* the items
  NoValue,      \* a slot without a live item, a thread without an item in hand
  MaxTickets    \* bound: no push starts once this many tickets are claimed

(* with_capacity: `capacity.max(2)`. *)
ASSUME MpscCapacityAssumption == Capacity > 1
ASSUME MpscAssumption ==
  /\ NoValue \notin Value
  /\ Producers \cap Consumers = {}
  /\ MaxTickets \in Nat

Threads == Producers \cup Consumers

VARIABLES
  sequence,   \* Slot.sequence
  payload,    \* Slot.value
  tail,       \* MpscQueue.tail, the producers' ticket dispenser
  head,       \* MpscQueue.head, the consumers' ticket dispenser
  pc,         \* where each thread is
  ticket,     \* each thread's local ticket
  item,       \* the value a producer brings, or a consumer has moved out
  claims      \* history: the item each ticket was claimed for

queueVars == <<sequence, payload, tail, head>>
vars == <<queueVars, pc, ticket, item, claims>>

ProducerPoint == {"ticket", "sequence", "cas", "write", "publish"}
ConsumerPoint == {"ticket", "sequence", "cas", "move", "release"}

TypeOK ==
  /\ sequence \in [Slots -> Nat]
  /\ payload \in [Slots -> Value \cup {NoValue}]
  /\ tail \in Nat /\ head \in Nat
  /\ pc \in [Threads -> {"idle"} \cup ProducerPoint \cup ConsumerPoint]
  /\ \A p \in Producers : pc[p] \in {"idle"} \cup ProducerPoint
  /\ \A c \in Consumers : pc[c] \in {"idle"} \cup ConsumerPoint
  /\ ticket \in [Threads -> Nat]
  /\ item \in [Threads -> Value \cup {NoValue}]
  /\ claims \in Seq(Value)

Init ==
  /\ sequence = [s \in Slots |-> s]
  /\ payload = [s \in Slots |-> NoValue]
  /\ tail = 0 /\ head = 0
  /\ pc = [t \in Threads |-> "idle"]
  /\ ticket = [t \in Threads |-> 0]
  /\ item = [t \in Threads |-> NoValue]
  /\ claims = <<>>

-----------------------------------------------------------------------------
GoTo(t, point) == pc' = [pc EXCEPT ![t] = point]

(* The call ends: what it held has been moved into the queue or to the caller. *)
Return(t) == GoTo(t, "idle") /\ item' = [item EXCEPT ![t] = NoValue]

-----------------------------------------------------------------------------
(* Mutants: slips a change to this code could make.  No specification uses them;
   each is what one property of the runs is there to refuse. *)

(* try_push gives up on any sequence but the expected one. *)
PushSequenceGivesUp(p) ==
  /\ pc[p] = "sequence"
  /\ IF sequence[Slot(ticket[p])] = ticket[p] THEN GoTo(p, "cas") /\ UNCHANGED item
                                              ELSE Return(p)
  /\ UNCHANGED <<queueVars, ticket, claims>>

(* try_push publishes with the claim, before the item is in the slot. *)
PushClaimPublishes(p) ==
  /\ pc[p] = "cas" /\ tail = ticket[p]
  /\ tail' = tail + 1
  /\ claims' = Append(claims, item[p])
  /\ sequence' = [sequence EXCEPT ![Slot(ticket[p])] = ticket[p] + 1]
  /\ GoTo(p, "write")
  /\ UNCHANGED <<payload, head, ticket, item>>

(* try_push stores the ticket itself back. *)
PushPublishUnmoved(p) ==
  /\ pc[p] = "publish"
  /\ sequence' = [sequence EXCEPT ![Slot(ticket[p])] = ticket[p]]
  /\ Return(p)
  /\ UNCHANGED <<payload, tail, head, ticket, claims>>

(* pop answers None on any sequence but the expected one. *)
PopSequenceGivesUp(c) ==
  /\ pc[c] = "sequence"
  /\ IF sequence[Slot(ticket[c])] = ticket[c] + 1 THEN GoTo(c, "cas") /\ UNCHANGED item
                                                  ELSE Return(c)
  /\ UNCHANGED <<queueVars, ticket, claims>>

-----------------------------------------------------------------------------

(* try_push: the call, and the first load of tail. *)
PushStart(p, v) ==
  /\ pc[p] = "idle" /\ tail < MaxTickets
  /\ item' = [item EXCEPT ![p] = v]
  /\ ticket' = [ticket EXCEPT ![p] = tail]
  /\ GoTo(p, "sequence")
  /\ UNCHANGED <<queueVars, claims>>

(* The acquire load of the slot's sequence; its lag behind the ticket decides. *)
PushSequence(p) ==
  /\ pc[p] = "sequence"
  /\ LET lag == sequence[Slot(ticket[p])] - ticket[p] IN
     \/ lag = 0 /\ GoTo(p, "cas") /\ UNCHANGED item
     \/ lag > 0 /\ GoTo(p, "ticket") /\ UNCHANGED item
     \/ lag < 0 /\ Return(p)
  /\ UNCHANGED <<queueVars, ticket, claims>>

(* compare_exchange_weak on tail: it claims the ticket ... *)
PushClaim(p) ==
  /\ pc[p] = "cas" /\ tail = ticket[p]
  /\ tail' = tail + 1
  /\ claims' = Append(claims, item[p])
  /\ GoTo(p, "write")
  /\ UNCHANGED <<sequence, payload, head, ticket, item>>

(* ... or fails, spuriously too, and loads what it observed. *)
PushLost(p) ==
  /\ pc[p] = "cas"
  /\ ticket' = [ticket EXCEPT ![p] = tail]
  /\ GoTo(p, "sequence")
  /\ UNCHANGED <<queueVars, item, claims>>

(* Another producer claimed this ticket: load tail again. *)
PushTicket(p) ==
  /\ pc[p] = "ticket"
  /\ ticket' = [ticket EXCEPT ![p] = tail]
  /\ GoTo(p, "sequence")
  /\ UNCHANGED <<queueVars, item, claims>>

PushWrite(p) ==
  /\ pc[p] = "write"
  /\ payload' = [payload EXCEPT ![Slot(ticket[p])] = item[p]]
  /\ GoTo(p, "publish")
  /\ UNCHANGED <<sequence, tail, head, ticket, item, claims>>

(* The release store of the sequence. *)
PushPublish(p) ==
  /\ pc[p] = "publish"
  /\ sequence' = [sequence EXCEPT ![Slot(ticket[p])] = ticket[p] + 1]
  /\ Return(p)
  /\ UNCHANGED <<payload, tail, head, ticket, claims>>

(* pop *)
PopStart(c) ==
  /\ pc[c] = "idle"
  /\ ticket' = [ticket EXCEPT ![c] = head]
  /\ GoTo(c, "sequence")
  /\ UNCHANGED <<queueVars, item, claims>>

PopSequence(c) ==
  /\ pc[c] = "sequence"
  /\ LET lag == sequence[Slot(ticket[c])] - (ticket[c] + 1) IN
     \/ lag = 0 /\ GoTo(c, "cas") /\ UNCHANGED item
     \/ lag > 0 /\ GoTo(c, "ticket") /\ UNCHANGED item
     \/ lag < 0 /\ Return(c)
  /\ UNCHANGED <<queueVars, ticket, claims>>

PopClaim(c) ==
  /\ pc[c] = "cas" /\ head = ticket[c]
  /\ head' = head + 1
  /\ GoTo(c, "move")
  /\ UNCHANGED <<sequence, payload, tail, ticket, item, claims>>

PopLost(c) ==
  /\ pc[c] = "cas"
  /\ ticket' = [ticket EXCEPT ![c] = head]
  /\ GoTo(c, "sequence")
  /\ UNCHANGED <<queueVars, item, claims>>

PopTicket(c) ==
  /\ pc[c] = "ticket"
  /\ ticket' = [ticket EXCEPT ![c] = head]
  /\ GoTo(c, "sequence")
  /\ UNCHANGED <<queueVars, item, claims>>

PopMove(c) ==
  /\ pc[c] = "move"
  /\ item' = [item EXCEPT ![c] = payload[Slot(ticket[c])]]
  /\ payload' = [payload EXCEPT ![Slot(ticket[c])] = NoValue]
  /\ GoTo(c, "release")
  /\ UNCHANGED <<sequence, tail, head, ticket, claims>>

(* The release store that hands the slot to the producers one lap ahead. *)
PopRelease(c) ==
  /\ pc[c] = "release"
  /\ sequence' = [sequence EXCEPT ![Slot(ticket[c])] = ticket[c] + Capacity]
  /\ Return(c)
  /\ UNCHANGED <<payload, tail, head, ticket, claims>>

PushStep(p) ==
  \/ \E v \in Value : PushStart(p, v)
  \/ PushSequence(p) \/ PushClaim(p) \/ PushLost(p) \/ PushTicket(p)
  \/ PushWrite(p) \/ PushPublish(p)

PopStep(c) ==
  \/ PopStart(c)
  \/ PopSequence(c) \/ PopClaim(c) \/ PopLost(c) \/ PopTicket(c)
  \/ PopMove(c) \/ PopRelease(c)

Next ==
  \/ \E p \in Producers : PushStep(p)
  \/ \E c \in Consumers : PopStep(c)

Spec == Init /\ [][Next]_vars

(* Every thread inside a call runs on, a weak compare-exchange that keeps being tried
   on an unchanged counter succeeds in the end, and the consumers keep polling.
   Nothing is assumed of producers that are not inside a call. *)
FairSpec ==
  /\ Spec
  /\ \A p \in Producers :
       /\ WF_vars(PushSequence(p) \/ PushLost(p) \/ PushTicket(p)
                    \/ PushWrite(p) \/ PushPublish(p))
       /\ SF_vars(PushClaim(p))
  /\ \A c \in Consumers :
       /\ WF_vars(PopStep(c))
       /\ SF_vars(PopClaim(c))

-----------------------------------------------------------------------------
(* A thread owns its ticket's slot from winning the compare-exchange until it stores
   the sequence. *)
Owner(t) == pc[t] \in {"write", "publish", "move", "release"}

(* No two threads ever own one slot: the sequence numbers and the two dispensers
   never let a producer of the next lap in before the consumer is out. *)
SlotExclusive ==
  \A t, u \in Threads :
    t # u /\ Owner(t) /\ Owner(u) => Slot(ticket[t]) # Slot(ticket[u])

(* A ticket is served for the item it was claimed for: a producer never overwrites a
   live item, a consumer never reads an empty slot, and what it moves out for ticket
   n is what the n-th claim brought, so items leave in claim order, each once. *)
ItemsKept ==
  /\ \A p \in Producers : pc[p] = "write" => payload[Slot(ticket[p])] = NoValue
  /\ \A c \in Consumers :
       /\ pc[c] = "move" => payload[Slot(ticket[c])] = claims[ticket[c] + 1]
       /\ pc[c] = "release" => item[c] = claims[ticket[c] + 1]

(* Mutant: drain_in_place looks for slots that are ready to be written. *)
DroppedByDrainReady ==
  {s \in Slots : \E n \in head .. tail - 1 : s = Slot(n) /\ sequence[s] = n}

(* drain_in_place, which runs when no thread is inside the queue, drops the slots of
   head..tail whose sequence says they were published ... *)
DroppedByDrain ==
  {s \in Slots : \E n \in head .. tail - 1 : s = Slot(n) /\ sequence[s] = n + 1}

(* ... and these are exactly the slots with a live item: no leak and no double drop. *)
DrainFreesAll ==
  (\A t \in Threads : pc[t] = "idle") =>
    DroppedByDrain = {s \in Slots : payload[s] # NoValue}

(* try_push gives up only when the item one lap behind its ticket has not left its
   slot: it is still queued, or a consumer is in the middle of moving it out. *)
FullIsTrue ==
  [][\A p \in Producers :
       pc[p] = "sequence" /\ pc'[p] = "idle"
         => \/ tail = head + Capacity
            \/ \E c \in Consumers : Owner(c) /\ ticket[c] = tail - Capacity]_vars

(* pop answers None only when nothing is queued, or when the oldest ticket is claimed
   by a producer that has not published it yet. *)
NoneIsTrue ==
  [][\A c \in Consumers :
       pc[c] = "sequence" /\ pc'[c] = "idle"
         => \/ tail = head
            \/ \E p \in Producers : Owner(p) /\ ticket[p] = head]_vars

(* In the order of their claims, the items no consumer has claimed yet, and the one that
   was claimed by a consumer last. *)
Waiting   == SubSeq(claims, head + 1, tail)
LastTaken == IF head = 0 THEN NoValue ELSE claims[head]

Fifo == INSTANCE BoundedFifo WITH queue <- Waiting, delivered <- LastTaken

(* The two compare-exchanges alone are the queue: whatever else the threads are in the
   middle of, items are accepted and handed out in one order, never more than Capacity of
   them waiting.  What a producer claims first is so handed out first. *)
TicketsAreFifo == Fifo!Spec

(* Nothing that was accepted is stuck: every claimed ticket is drained in the end,
   although a claim can stall every later one until its producer publishes. *)
EveryClaimDrained == \A n \in 1 .. MaxTickets : tail >= n ~> head >= n

-----------------------------------------------------------------------------
(* The inductive invariant.  The dispensers never grant more than Capacity tickets
   beyond the drained ones, and each grant is recorded. *)
DispensersInv ==
  /\ head <= tail /\ tail <= head + Capacity
  /\ Len(claims) = tail

(* What each thread's point in its call says of its ticket and of its slot: a claimed
   slot still carries the sequence that was claimed, and one that a compare-exchange
   may still claim is ready. *)
ProducersInv ==
  \A p \in Producers :
    /\ ticket[p] <= tail
    /\ pc[p] # "idle" => item[p] \in Value
    /\ pc[p] = "cas" /\ ticket[p] = tail => sequence[Slot(tail)] = tail
    /\ Owner(p) => /\ head <= ticket[p] /\ ticket[p] < tail
                   /\ item[p] = claims[ticket[p] + 1]
                   /\ sequence[Slot(ticket[p])] = ticket[p]
                   /\ payload[Slot(ticket[p])] =
                        (IF pc[p] = "publish" THEN item[p] ELSE NoValue)

ConsumersInv ==
  \A c \in Consumers :
    /\ ticket[c] <= head
    /\ pc[c] = "cas" /\ ticket[c] = head => sequence[Slot(head)] = head + 1
    /\ Owner(c) => /\ tail <= ticket[c] + Capacity /\ ticket[c] < head
                   /\ sequence[Slot(ticket[c])] = ticket[c] + 1
                   /\ pc[c] = "move" => payload[Slot(ticket[c])] = claims[ticket[c] + 1]
                   /\ pc[c] = "release" => /\ payload[Slot(ticket[c])] = NoValue
                                           /\ item[c] = claims[ticket[c] + 1]

(* One ticket, one owner. *)
OwnersInv ==
  \A t, u \in Threads : Owner(t) /\ Owner(u) /\ ticket[t] = ticket[u] => t = u

(* A slot nobody owns is published if its last ticket is still queued, and ready for
   the next lap if it was drained. *)
UnownedInv ==
  \A n \in tail - Capacity .. tail - 1 :
    LET s == Slot(n + Capacity) IN
    (\A t \in Threads : Owner(t) => ticket[t] # n) =>
      IF n >= head THEN sequence[s] = n + 1 /\ payload[s] = claims[n + 1]
                   ELSE sequence[s] = n + Capacity /\ payload[s] = NoValue

(* What try_push and pop keep true after every atomic access; the run checks it, the
   proofs rest on it. *)
IndInv ==
  /\ TypeOK
  /\ DispensersInv
  /\ ProducersInv
  /\ ConsumersInv
  /\ OwnersInv
  /\ UnownedInv
=============================================================================
