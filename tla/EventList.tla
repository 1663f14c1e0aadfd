----------------------------- MODULE EventList -----------------------------
(***************************************************************************)
(* daux-runtime/src/events.rs: EventList, the host's list behind           *)
(* DauxEventListV1.  One arena of words takes each record with its payload *)
(* behind it; a table of offsets is what the sort moves.                   *)
(*                                                                         *)
(* Events are those of EventBuffer.  A record takes one word, its payload  *)
(* a word for each unit of len.  The words in use are the arena: what an   *)
(* earlier block left beyond them is not kept.                             *)
(***************************************************************************)
EXTENDS Integers, Sequences, SequencesExt

CONSTANTS
  MaxEvents,     \* the capacity of offsets
  MaxWords       \* words.len()

Empty == [words |-> <<>>, offsets |-> <<>>]

Accepts(l, e) ==
  /\ Len(l.offsets) < MaxEvents
  /\ Len(l.words) + 1 + e.len <= MaxWords

(* write_record, for a well-formed event: push_typed, and push_from_module once it has
   checked the record; the count of refused records is left out. *)
TryPush(l, e) ==
  IF Accepts(l, e)
  THEN [l EXCEPT !.offsets = Append(@, Len(l.words)),
                 !.words = Append(@, e) \o [k \in 1 .. e.len |-> e.id]]
  ELSE l

(* The time of the record at an offset. *)
TimeAt(l, start) == l.words[start + 1].time

(* One pass of the insertion sort: looking from the end, an offset is put behind the first
   that is not later than it. *)
Inserted(l, done, start) ==
  LET places == {i \in 1 .. Len(done) + 1 : i = 1 \/ TimeAt(l, done[i - 1]) <= TimeAt(l, start)}
  IN InsertAt(done, Max(places), start)

(* sort_by_time: a pass for each offset, in the order of the table. *)
SortByTime(l) ==
  LET passes[n \in 0 .. Len(l.offsets)] ==
        IF n = 0 THEN <<>> ELSE Inserted(l, passes[n - 1], l.offsets[n])
  IN [l EXCEPT !.offsets = passes[Len(l.offsets)]]

(* header and sysex for every index. *)
Read(l) ==
  [i \in DOMAIN l.offsets |->
     LET at == l.offsets[i]
         e  == l.words[at + 1]
     IN [time |-> e.time, id |-> e.id, payload |-> SubSeq(l.words, at + 2, at + 1 + e.len)]]
=============================================================================
