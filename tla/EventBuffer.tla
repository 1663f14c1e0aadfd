---------------------------- MODULE EventBuffer ----------------------------
(***************************************************************************)
(* daux-events/src/buffer.rs: EventBuffer, the bounded list of a block's   *)
(* events.  A record is stored beside its insertion number, its payload in *)
(* a byte arena that never moves; the sort moves records only.             *)
(*                                                                         *)
(* An event is [time, id, len]: len bytes of payload, each of which shows  *)
(* the id of the event it belongs to.                                      *)
(***************************************************************************)
EXTENDS Integers, Sequences, Functions

CONSTANTS
  MaxEvents,   \* max_events
  MaxBytes     \* max_bytes

(* with_capacity, and what clear leaves. *)
Empty == [slots |-> <<>>, bytes |-> <<>>]

Accepts(b, e) ==
  /\ Len(b.slots) < MaxEvents
  /\ e.len <= MaxBytes - Len(b.bytes)

(* try_push with intern: a refusal leaves the buffer as it was. *)
TryPush(b, e) ==
  IF Accepts(b, e)
  THEN [slots |-> Append(b.slots, [seq |-> Len(b.slots), time |-> e.time, id |-> e.id,
                                   offset |-> Len(b.bytes), len |-> e.len]),
        bytes |-> b.bytes \o [k \in 1 .. e.len |-> e.id]]
  ELSE b

(* The sort's key: the time, then the insertion number. *)
Before(s, t) == s.time < t.time \/ (s.time = t.time /\ s.seq <= t.seq)

Ordered(b) == \A i, j \in DOMAIN b.slots : i < j => Before(b.slots[i], b.slots[j])

(* The records in another arrangement. *)
Arranged(b, p) == [b EXCEPT !.slots = [i \in DOMAIN b.slots |-> b.slots[p[i]]]]

(* sort_unstable_by_key: any arrangement that the key allows. *)
Sorted(b) ==
  {c \in {Arranged(b, p) : p \in Bijection(DOMAIN b.slots, DOMAIN b.slots)} : Ordered(c)}

(* get for every index: the events, with the payload the arena has for them. *)
Read(b) ==
  [i \in DOMAIN b.slots |->
     LET s == b.slots[i]
     IN [time |-> s.time, id |-> s.id, payload |-> SubSeq(b.bytes, s.offset + 1, s.offset + s.len)]]
=============================================================================
