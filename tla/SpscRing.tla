------------------------------ MODULE SpscRing ------------------------------
(***************************************************************************)
(* The wait-free single-producer / single-consumer ring of                 *)
(* daux-rt/src/spsc.rs, one action per memory access that the other thread *)
(* can observe.                                                            *)
(*                                                                         *)
(* A slot holds NoValue when it owns no live value: never written, or      *)
(* moved out by `pop`.                                                     *)
(***************************************************************************)
EXTENDS RingSlots

CONSTANTS
  Value,      \* the items
  NoValue,    \* a slot without a live item
  Laps        \* the counters wrap after Laps * Capacity increments

(* checked_next_power_of_two makes the capacity divide the counters' modulus (2^64
   or 2^32 in a build) and be at most half of it. *)
ASSUME LapsAssumption == Laps \in Nat /\ Laps > 1
ASSUME SpscAssumption == NoValue \notin Value

(* The free-running counters, wrapping_add(1) and wrapping_sub: the state space is
   finite without any bound on the number of calls. *)
Modulus    == Laps * Capacity
Counter    == 0 .. Modulus - 1
Inc(a)     == IF a + 1 = Modulus THEN 0 ELSE a + 1
Dist(a, b) == IF b <= a THEN a - b ELSE a - b + Modulus

VARIABLES
  slots,        \* Ring.slots
  head, tail,   \* Ring.head, Ring.tail
  cachedHead,   \* Producer.cached_head
  cachedTail,   \* Consumer.cached_tail
  prod,         \* where the producer's thread is
  pushing,      \* the value `push` was called with
  room,         \* what the producer's last is_full told it, until its next push
  cons,         \* where the consumer's thread is
  taken,        \* the value `pop` moved out and has not returned yet
  popped,       \* the value the last successful `pop` returned
  items         \* what the consumer's last is_empty told it, until its next pop

prodVars == <<tail, cachedHead, prod, pushing, room>>
consVars == <<head, cachedTail, cons, taken, popped, items>>
vars     == <<slots, prodVars, consVars>>

Verdict == {"unknown", "yes", "no"}

TypeOK ==
  /\ slots \in [Slots -> Value \cup {NoValue}]
  /\ head \in Counter /\ tail \in Counter
  /\ cachedHead \in Counter /\ cachedTail \in Counter
  /\ prod \in {"idle", "reload", "write", "publish", "dropped"}
  /\ cons \in {"idle", "reload", "move", "release", "peek", "dropped"}
  /\ pushing \in Value \cup {NoValue}
  /\ taken \in Value \cup {NoValue}
  /\ popped \in Value \cup {NoValue}
  /\ room \in Verdict /\ items \in Verdict

Init ==
  /\ slots = [s \in Slots |-> NoValue]
  /\ head = 0 /\ tail = 0
  /\ cachedHead = 0 /\ cachedTail = 0
  /\ prod = "idle" /\ pushing = NoValue /\ room = "unknown"
  /\ cons = "idle" /\ taken = NoValue /\ popped = NoValue /\ items = "unknown"

-----------------------------------------------------------------------------
(* Ring::len as each half sees it: one counter is the caller's own and cannot
   move under it, so only the other one is a racing load.  The clamp is for a
   difference above the capacity. *)
Queued == Dist(tail, head)
LenSeen == IF Queued > Capacity THEN 0 ELSE Queued

-----------------------------------------------------------------------------
(* Mutants: slips a change to this code could make.  No specification uses them;
   each is what one property of the runs is there to refuse. *)

(* push: the ring counts as full one item too late. *)
PushStartLate(v) ==
  /\ prod = "idle"
  /\ pushing' = v
  /\ prod' = IF Dist(tail, cachedHead) > Capacity THEN "reload" ELSE "write"
  /\ UNCHANGED <<slots, tail, cachedHead, room, consVars>>

(* is_full: true only one item too late. *)
IsFullLate ==
  /\ prod = "idle"
  /\ room' = IF LenSeen > Capacity THEN "no" ELSE "yes"
  /\ UNCHANGED <<slots, tail, cachedHead, prod, pushing, consVars>>

(* pop: everything known to be queued is released with the first item. *)
PopReleaseAll ==
  /\ cons = "release"
  /\ head' = cachedTail
  /\ popped' = taken /\ taken' = NoValue
  /\ cons' = "idle" /\ items' = "unknown"
  /\ UNCHANGED <<slots, cachedTail, prodVars>>

(* Ring has no Drop: MaybeUninit drops nothing by itself. *)
DropRingLeaks == UNCHANGED slots

-----------------------------------------------------------------------------

(* Producer::push *)
PushStart(v) ==
  /\ prod = "idle"
  /\ pushing' = v
  /\ prod' = IF Dist(tail, cachedHead) = Capacity THEN "reload" ELSE "write"
  /\ UNCHANGED <<slots, tail, cachedHead, room, consVars>>

(* The acquire load of head, taken only when the ring looks full; Err(Full)
   hands the value back. *)
PushReload ==
  /\ prod = "reload"
  /\ cachedHead' = head
  /\ IF Dist(tail, head) = Capacity
       THEN prod' = "idle" /\ pushing' = NoValue /\ room' = "unknown"
       ELSE prod' = "write" /\ UNCHANGED <<pushing, room>>
  /\ UNCHANGED <<slots, tail, consVars>>

PushWrite ==
  /\ prod = "write"
  /\ slots' = [slots EXCEPT ![Slot(tail)] = pushing]
  /\ prod' = "publish"
  /\ UNCHANGED <<tail, cachedHead, pushing, room, consVars>>

(* The release store of tail. *)
PushPublish ==
  /\ prod = "publish"
  /\ tail' = Inc(tail)
  /\ prod' = "idle" /\ pushing' = NoValue /\ room' = "unknown"
  /\ UNCHANGED <<slots, cachedHead, consVars>>

(* Producer::is_full; "yes" is room for another item. *)
IsFull ==
  /\ prod = "idle"
  /\ room' = IF LenSeen = Capacity THEN "no" ELSE "yes"
  /\ UNCHANGED <<slots, tail, cachedHead, prod, pushing, consVars>>

(* Consumer::pop *)
PopStart ==
  /\ cons = "idle"
  /\ cons' = IF head = cachedTail THEN "reload" ELSE "move"
  /\ UNCHANGED <<slots, head, cachedTail, taken, popped, items, prodVars>>

PopReload ==
  /\ cons = "reload"
  /\ cachedTail' = tail
  /\ IF head = tail
       THEN cons' = "idle" /\ items' = "unknown"
       ELSE cons' = "move" /\ UNCHANGED items
  /\ UNCHANGED <<slots, head, taken, popped, prodVars>>

PopMove ==
  /\ cons = "move"
  /\ taken' = slots[Slot(head)]
  /\ slots' = [slots EXCEPT ![Slot(head)] = NoValue]
  /\ cons' = "release"
  /\ UNCHANGED <<head, cachedTail, popped, items, prodVars>>

PopRelease ==
  /\ cons = "release"
  /\ head' = Inc(head)
  /\ popped' = taken /\ taken' = NoValue
  /\ cons' = "idle" /\ items' = "unknown"
  /\ UNCHANGED <<slots, cachedTail, prodVars>>

(* Consumer::is_empty; "yes" is an item to pop. *)
IsEmpty ==
  /\ cons = "idle"
  /\ items' = IF LenSeen = 0 THEN "no" ELSE "yes"
  /\ UNCHANGED <<slots, head, cachedTail, cons, taken, popped, prodVars>>

(* Consumer::peek: the borrow of the head slot lives until PeekEnd. *)
Peek ==
  /\ cons = "idle"
  /\ head # tail
  /\ cons' = "peek"
  /\ UNCHANGED <<slots, head, cachedTail, taken, popped, items, prodVars>>

PeekEnd ==
  /\ cons = "peek"
  /\ cons' = "idle"
  /\ UNCHANGED <<slots, head, cachedTail, taken, popped, items, prodVars>>

(* The slots `head..tail` that Ring::drop walks. *)
Live == {s \in Slots : \E i \in 0 .. Queued - 1 : s = Slot(head + i)}

(* The last Arc to go drops the ring, and with it every queued item. *)
DropRing == slots' = [s \in Slots |-> IF s \in Live THEN NoValue ELSE slots[s]]

DropProducer ==
  /\ prod = "idle"
  /\ prod' = "dropped"
  /\ IF cons = "dropped" THEN DropRing ELSE UNCHANGED slots
  /\ UNCHANGED <<tail, cachedHead, pushing, room, consVars>>

DropConsumer ==
  /\ cons = "idle"
  /\ cons' = "dropped"
  /\ IF prod = "dropped" THEN DropRing ELSE UNCHANGED slots
  /\ UNCHANGED <<head, cachedTail, taken, popped, items, prodVars>>

ProducerStep ==
  \/ \E v \in Value : PushStart(v)
  \/ PushReload \/ PushWrite \/ PushPublish
  \/ IsFull
  \/ DropProducer

ConsumerStep ==
  \/ PopStart \/ PopReload \/ PopMove \/ PopRelease
  \/ Peek \/ PeekEnd
  \/ IsEmpty
  \/ DropConsumer

Next == ProducerStep \/ ConsumerStep

Spec == Init /\ [][Next]_vars

-----------------------------------------------------------------------------
Dropped == prod = "dropped" /\ cons = "dropped"

(* Ring::len's clamp is dead code for the two halves: no interleaving makes the
   difference of the counters, as either half loads them, exceed the capacity,
   and neither cache is ever ahead of the truth or more than a lap behind it. *)
CountersOrdered ==
  /\ Queued <= Capacity
  /\ Queued <= Dist(tail, cachedHead) /\ Dist(tail, cachedHead) <= Capacity
  /\ Dist(cachedTail, head) <= Queued

(* The slot `push` is about to write holds no live value (a live one would be
   overwritten without being dropped), and the slot `pop` is about to move out
   of, or that a `peek` borrows, holds one (reading it is not a read of
   uninitialised memory). *)
SlotOwnership ==
  /\ prod = "write" => slots[Slot(tail)] = NoValue
  /\ cons \in {"move", "peek"} => slots[Slot(head)] # NoValue

(* push writes its slot, and pop moves out of and peek reads theirs, with plain
   accesses: however stale the caches they decide by, and however often the counters
   have wrapped, the two threads are never at the same slot at the same time. *)
NoSharedSlot ==
  prod \in {"write", "publish"} /\ cons \in {"move", "release", "peek"}
    => Slot(tail) # Slot(head)

(* Ring::drop frees every item that was queued and no slot it frees is empty
   (a double drop): after both halves are gone nothing is left, and before, the
   live slots are exactly those between the counters. *)
NothingLeaks ==
  \A s \in Slots :
    slots[s] # NoValue
      <=> \/ ~Dropped /\ s \in Live /\ ~(cons = "release" /\ s = Slot(head))
          \/ prod = "publish" /\ s = Slot(tail)

(* What a caller may rely on: `!is_full()` promises that its next push is accepted
   and `!is_empty()` that its next pop returns an item, whatever the other thread
   does in between. *)
AnswersAreStable ==
  [][/\ prod = "reload" /\ prod' = "idle" => room # "yes"
     /\ cons = "reload" /\ cons' = "idle" => items # "yes"]_vars

-----------------------------------------------------------------------------
(* The inductive invariant behind these, in parts.  What each program point has
   established: *)
PointsInv ==
  /\ prod \in {"write", "publish"} => Dist(tail, cachedHead) < Capacity
  /\ prod \in {"reload", "write", "publish"} => pushing \in Value
  /\ cons \in {"move", "release"} => Dist(cachedTail, head) > 0
  /\ cons = "peek" => Queued > 0
  /\ cons = "release" => taken \in Value

(* what an answer still promises: *)
AnswersInv ==
  /\ room = "yes" => Queued < Capacity
  /\ items = "yes" => Queued > 0

(* and what every slot holds, counted from head: queued items, then the one being
   written, then nothing. *)
ContentsInv ==
  \A i \in 0 .. Capacity - 1 :
    LET held == slots[Slot(head + i)] IN
    IF i < Queued /\ ~Dropped /\ ~(i = 0 /\ cons = "release") THEN held \in Value
    ELSE IF i = Queued /\ prod = "publish" THEN held = pushing
    ELSE held = NoValue

(* What push, pop and the drops keep true after every atomic access. *)
IndInv == TypeOK /\ CountersOrdered /\ PointsInv /\ AnswersInv /\ ContentsInv

-----------------------------------------------------------------------------
(* The refinement: the queue is what lies between the counters; an item that
   `pop` has moved out but not released still counts as its head. *)
Waiting ==
  IF Dropped THEN <<>>
  ELSE [i \in 1 .. Queued |->
          IF i = 1 /\ cons = "release" THEN taken ELSE slots[Slot(head + i - 1)]]

Fifo == INSTANCE BoundedFifo WITH queue <- Waiting, delivered <- popped

(* The ring is a bounded FIFO: nothing lost, duplicated, reordered or invented. *)
ImplementsFifo == Fifo!Spec
=============================================================================
