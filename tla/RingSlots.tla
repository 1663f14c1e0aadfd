----------------------------- MODULE RingSlots -----------------------------
(***************************************************************************)
(* How daux-rt's two queues turn a free-running counter into a slot.       *)
(***************************************************************************)
EXTENDS Integers

CONSTANT Capacity   \* number of slots

(* Both `with_capacity` functions round the request up to a power of two, at least
   one.  Only that it is positive matters to what follows. *)
ASSUME CapacityAssumption == Capacity \in Nat \ {0}

(* `counter & mask`. *)
Slot(a) == a % Capacity
Slots   == 0 .. Capacity - 1
=============================================================================
