---------------------------- MODULE BoundedFifo ----------------------------
(***************************************************************************)
(* What a bounded queue between threads promises: values come out exactly  *)
(* once, in the order they went in, and never more than Capacity of them   *)
(* are waiting.  SpscRing is shown to implement it, and so are the tickets *)
(* of MpscQueue.                                                           *)
(***************************************************************************)
EXTENDS Naturals, Sequences

CONSTANTS
  Value,      \* what may be queued
  Capacity,   \* how many values may wait
  NoValue     \* stands for "nothing was delivered yet"

VARIABLES
  queue,      \* the waiting values, oldest first
  delivered   \* the value that left it last

fifoVars == <<queue, delivered>>

Init == queue = <<>> /\ delivered = NoValue

(* A value is accepted at the back. *)
Put ==
  /\ Len(queue) < Capacity
  /\ \E v \in Value : queue' = Append(queue, v)
  /\ UNCHANGED delivered

(* The oldest value is delivered. *)
Take ==
  /\ queue # <<>>
  /\ queue' = Tail(queue)
  /\ delivered' = Head(queue)

(* Both ends are gone: what was still waiting is dropped. *)
Discard ==
  /\ queue # <<>>
  /\ queue' = <<>>
  /\ UNCHANGED delivered

Next == Put \/ Take \/ Discard

Spec == Init /\ [][Next]_fifoVars
=============================================================================
