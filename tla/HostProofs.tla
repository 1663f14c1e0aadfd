----------------------------- MODULE HostProofs -----------------------------
(* The proofs of the two modules on the host's side.  The reference host: for any number
   of instances, blocks and events, a plug-in's event lists give back what was pushed, in
   the order of the contract, and no task is lost, repeated or overtaken.  The scanner: for
   any bundles, builds and deaths, who is barred and what the cache answers. *)
EXTENDS Scanner, TestHost, DataLemmas

-----------------------------------------------------------------------------
(* The reference host: what its lists hold. *)
Event  == [time : Nat, id : Nat, len : Nat]
Slots  == [seq : Nat, time : Nat, id : Nat, offset : Nat, len : Nat]
Filled == [slots : Seq(Slots), bytes : Seq(Nat)]
Words  == [words : Seq(Event \cup Nat), offsets : Seq(Nat)]

(* The k-th event was given the number k. *)
Numbered(events) == \A k \in 1 .. Len(events) : events[k].id = k

(* A record of the buffer, and its payload in the arena. *)
Stored(b, s, events) ==
  /\ s.id \in 1 .. Len(events) /\ s.seq + 1 = s.id
  /\ s.time = events[s.id].time /\ s.len = events[s.id].len
  /\ s.offset + s.len <= Len(b.bytes)
  /\ \A j \in 1 .. s.len : b.bytes[s.offset + j] = s.id

BufferHolds(b, events) ==
  /\ b \in Filled /\ Len(b.slots) = Len(events)
  /\ \A i \in 1 .. Len(events) : Stored(b, b.slots[i], events)
  /\ \A k \in 1 .. Len(events) : \E i \in 1 .. Len(events) : b.slots[i].id = k
  /\ \A i, j \in 1 .. Len(events) : b.slots[i].id = b.slots[j].id => i = j

(* A record of the list, with its payload behind it. *)
Written(l, o, k, events) ==
  /\ o + 1 \in 1 .. Len(l.words) /\ l.words[o + 1] = events[k]
  /\ o + 1 + events[k].len <= Len(l.words)
  /\ \A j \in 1 .. events[k].len : l.words[o + 1 + j] = k

At(l, i) == l.words[l.offsets[i] + 1].id

ListHolds(l, events) ==
  /\ l \in Words /\ Len(l.offsets) = Len(events)
  /\ \A i \in 1 .. Len(events) :
       At(l, i) \in 1 .. Len(events) /\ Written(l, l.offsets[i], At(l, i), events)
  /\ \A k \in 1 .. Len(events) : \E i \in 1 .. Len(events) : At(l, i) = k
  /\ \A i, j \in 1 .. Len(events) : At(l, i) = At(l, j) => i = j

Holds(kind, l, events) ==
  /\ events \in Seq(Event) /\ Len(events) <= EventCapacity /\ Numbered(events)
  /\ kind = "native" => BufferHolds(l, events)
  /\ kind = "loaded" => ListHolds(l, events)

(* A list nobody sorted. *)
Unmoved(l) == \A i \in 1 .. Len(l.offsets) : At(l, i) = i

(* The next event takes the next number; those before it stay where they were. *)
LEMMA AppendedEvents ==
  ASSUME NEW events \in Seq(Event), Numbered(events), NEW e \in Event, e.id = Len(events) + 1
  PROVE  /\ Append(events, e) \in Seq(Event) /\ Numbered(Append(events, e))
         /\ Len(events) \in Nat /\ Len(Append(events, e)) = Len(events) + 1
         /\ Append(events, e)[Len(events) + 1] = e
         /\ \A k \in 1 .. Len(events) : Append(events, e)[k] = events[k]
<1>1. /\ Append(events, e) \in Seq(Event) /\ Len(events) \in Nat
      /\ Len(Append(events, e)) = Len(events) + 1
      /\ Append(events, e)[Len(events) + 1] = e
      /\ \A k \in 1 .. Len(events) : Append(events, e)[k] = events[k]
  BY AppendProperties, LenProperties
<1>2. Numbered(Append(events, e))
  <2> DEFINE n == Len(events)  s == Append(events, e)
  <2>1. /\ Len(s) = n + 1 /\ n \in Nat /\ s[n + 1] = e /\ e.id = n + 1
        /\ \A k \in 1 .. n : s[k] = events[k] /\ events[k].id = k
    BY <1>1 DEF Numbered
  <2> HIDE DEF n, s
  <2>2. \A k \in 1 .. Len(s) : s[k].id = k
    <3> TAKE k \in 1 .. Len(s)
    <3>1. CASE k = n + 1
      BY <2>1, <3>1
    <3>2. CASE k # n + 1
      BY <2>1, <3>2
    <3> QED BY <3>1, <3>2
  <2> QED BY <2>2 DEF s, Numbered
<1> QED BY <1>1, <1>2

(* A run of one value behind a sequence. *)
LEMMA RunBehind ==
  ASSUME NEW X, NEW a \in Seq(X), NEW len \in Nat, NEW v \in X
  PROVE  /\ a \o [k \in 1 .. len |-> v] \in Seq(X) /\ Len(a) \in Nat
         /\ Len(a \o [k \in 1 .. len |-> v]) = Len(a) + len
         /\ \A i \in 1 .. Len(a) : (a \o [k \in 1 .. len |-> v])[i] = a[i]
         /\ \A j \in 1 .. len : (a \o [k \in 1 .. len |-> v])[Len(a) + j] = v
<1> DEFINE run == [k \in 1 .. len |-> v]
<1>1. run \in Seq(X) /\ Len(run) = len /\ \A j \in 1 .. len : run[j] = v
  OBVIOUS
<1> HIDE DEF run
<1>2. /\ a \o run \in Seq(X)
      /\ Len(a) \in Nat /\ Len(run) \in Nat /\ Len(a \o run) = Len(a) + Len(run)
      /\ \A i \in 1 .. Len(a) : (a \o run)[i] = a[i]
      /\ \A i \in 1 .. Len(run) : (a \o run)[Len(a) + i] = run[i]
  <2>1. run \in Seq(X)
    BY <1>1
  <2> QED BY <2>1, InARow
<1>3. /\ a \o run \in Seq(X) /\ Len(a) \in Nat /\ Len(a \o run) = Len(a) + len
      /\ \A i \in 1 .. Len(a) : (a \o run)[i] = a[i]
      /\ \A j \in 1 .. len : (a \o run)[Len(a) + j] = v
  BY <1>1, <1>2
<1> QED BY <1>3 DEF run

(* Pushing into a buffer. *)
LEMMA BufferPush ==
  ASSUME NEW events \in Seq(Event), Numbered(events), NEW e \in Event, e.id = Len(events) + 1,
         NEW b, BufferHolds(b, events), Buffer!Accepts(b, e)
  PROVE  /\ BufferHolds(Buffer!TryPush(b, e), Append(events, e)) /\ Len(events) < EventCapacity
<1> DEFINE n == Len(events)  m == Len(b.bytes)  run == [k \in 1 .. e.len |-> e.id]
           slot == [seq |-> Len(b.slots), time |-> e.time, id |-> e.id, offset |-> Len(b.bytes),
                    len |-> e.len]
           slots == Append(b.slots, slot)  bytes == b.bytes \o run
           c == [slots |-> slots, bytes |-> bytes]  more == Append(events, e)
<1>1. Buffer!TryPush(b, e) = c /\ Len(b.slots) < EventCapacity
  BY DEF Buffer!TryPush, Buffer!Accepts
<1>2. /\ b.slots \in Seq(Slots) /\ b.bytes \in Seq(Nat) /\ Len(b.slots) = n
      /\ e.time \in Nat /\ e.id \in Nat /\ e.len \in Nat /\ e.id = n + 1 /\ n \in Nat /\ m \in Nat
  BY LenProperties DEF BufferHolds, Filled, Event
<1>3. /\ more \in Seq(Event) /\ Len(more) = n + 1 /\ more[n + 1] = e
      /\ \A k \in 1 .. n : more[k] = events[k]
  BY AppendedEvents
<1>4. slot \in Slots /\ slot.seq = n /\ slot.time = e.time /\ slot.id = n + 1 /\ slot.offset = m
      /\ slot.len = e.len
  BY <1>2 DEF Slots
<1> HIDE DEF slot
<1>5. /\ slots \in Seq(Slots) /\ Len(slots) = n + 1 /\ slots[n + 1] = slot
      /\ \A i \in 1 .. n : slots[i] = b.slots[i]
  BY <1>2, <1>4, AppendProperties
<1>6. /\ bytes \in Seq(Nat) /\ Len(bytes) = m + e.len
      /\ \A i \in 1 .. m : bytes[i] = b.bytes[i]
      /\ \A j \in 1 .. e.len : bytes[m + j] = n + 1
  <2>1. b.bytes \in Seq(Nat) /\ e.len \in Nat /\ e.id \in Nat /\ e.id = n + 1
    BY <1>2
  <2> DEFINE a == b.bytes  len == e.len  v == e.id
  <2>2. a \in Seq(Nat) /\ len \in Nat /\ v \in Nat
    BY <2>1
  <2> HIDE DEF n, a, len, v
  <2>3. /\ a \o [k \in 1 .. len |-> v] \in Seq(Nat)
        /\ Len(a \o [k \in 1 .. len |-> v]) = Len(a) + len
        /\ \A i \in 1 .. Len(a) : (a \o [k \in 1 .. len |-> v])[i] = a[i]
        /\ \A j \in 1 .. len : (a \o [k \in 1 .. len |-> v])[Len(a) + j] = v
    BY <2>2, RunBehind
  <2> QED BY <2>1, <2>3 DEF a, len, v
<1>7. c \in Filled /\ c.slots = slots /\ c.bytes = bytes
  BY <1>5, <1>6 DEF Filled
<1> HIDE DEF slots, bytes, run, c, more, n, m
<1>8. ASSUME NEW i \in 1 .. n + 1 PROVE Stored(c, slots[i], more)
  <2>1. CASE i = n + 1
    <3>1. slots[i] = slot
      BY <1>5, <2>1
    <3>2. /\ slot.id \in 1 .. n + 1 /\ slot.seq + 1 = slot.id
          /\ slot.time = more[slot.id].time /\ slot.len = more[slot.id].len
      BY <1>2, <1>3, <1>4
    <3>3. slot.offset + slot.len <= Len(bytes)
      BY <1>2, <1>4, <1>6
    <3>4. \A k \in 1 .. slot.len : bytes[slot.offset + k] = slot.id
      BY <1>4, <1>6
    <3> QED BY <1>3, <1>7, <3>1, <3>2, <3>3, <3>4 DEF Stored
  <2>2. CASE i # n + 1
    <3> DEFINE s == b.slots[i]
    <3>1. i \in 1 .. n /\ slots[i] = s /\ s \in Slots
      BY <1>2, <1>5, <2>2, ElementOfSeq
    <3>2. Stored(b, s, events)
      BY <3>1 DEF BufferHolds, n
    <3>3. /\ s.id \in 1 .. n /\ s.seq + 1 = s.id /\ s.offset \in Nat /\ s.len \in Nat
          /\ s.time = events[s.id].time /\ s.len = events[s.id].len
          /\ s.offset + s.len <= m
          /\ \A j \in 1 .. s.len : b.bytes[s.offset + j] = s.id
      BY <3>1, <3>2 DEF Stored, n, m, Slots
    <3> HIDE DEF s
    <3>4. more[s.id] = events[s.id] /\ s.id \in 1 .. n + 1 /\ s.offset + s.len <= m + e.len
      BY <1>2, <1>3, <3>3
    <3>5. \A j \in 1 .. s.len : bytes[s.offset + j] = s.id
      <4> TAKE j \in 1 .. s.len
      <4>1. s.offset + j \in 1 .. m
        BY <1>2, <3>3
      <4> QED BY <1>6, <3>3, <4>1
    <3> QED BY <1>3, <1>6, <1>7, <3>1, <3>3, <3>4, <3>5 DEF Stored
  <2> QED BY <2>1, <2>2
<1>9. \A i \in 1 .. n : slots[i].id \in 1 .. n /\ slots[i].id = b.slots[i].id
  BY <1>5 DEF BufferHolds, Stored, n
<1>10. slots[n + 1].id = n + 1
  BY <1>4, <1>5
<1>11. ASSUME NEW k \in 1 .. n + 1 PROVE \E i \in 1 .. n + 1 : slots[i].id = k
  <2>1. CASE k = n + 1
    <3>1. n + 1 \in 1 .. n + 1
      BY <1>2
    <3> WITNESS n + 1 \in 1 .. n + 1
    <3> QED BY <1>10, <2>1
  <2>2. CASE k # n + 1
    <3>1. k \in 1 .. n
      BY <1>2, <2>2
    <3>2. PICK i \in 1 .. n : b.slots[i].id = k
      BY <3>1 DEF BufferHolds, n
    <3>3. i \in 1 .. n + 1
      BY <1>2
    <3>4. slots[i].id = k
      BY <1>9, <3>2
    <3> QED BY <3>3, <3>4, Zenon
  <2> QED BY <2>1, <2>2
<1>12. ASSUME NEW i \in 1 .. n + 1, NEW j \in 1 .. n + 1, slots[i].id = slots[j].id PROVE i = j
  <2>1. CASE i \in 1 .. n /\ j \in 1 .. n
    BY <1>9, <1>12, <2>1 DEF BufferHolds, n
  <2>2. CASE i = n + 1 /\ j # n + 1
    <3>1. j \in 1 .. n
      BY <1>2, <2>2
    <3> QED BY <1>2, <1>9, <1>10, <1>12, <2>2, <3>1
  <2>3. CASE i # n + 1 /\ j = n + 1
    <3>1. i \in 1 .. n
      BY <1>2, <2>3
    <3> QED BY <1>2, <1>9, <1>10, <1>12, <2>3, <3>1
  <2> QED BY <1>2, <2>1, <2>2, <2>3
<1>13. BufferHolds(c, more)
  BY <1>3, <1>5, <1>7, <1>8, <1>11, <1>12 DEF BufferHolds
<1> QED BY <1>1, <1>2, <1>13 DEF more, n

(* The sort of a buffer keeps what it holds, and puts it in order. *)
LEMMA BufferSort ==
  ASSUME NEW events \in Seq(Event), NEW b, BufferHolds(b, events), NEW c \in Buffer!Sorted(b)
  PROVE  /\ BufferHolds(c, events)
         /\ \A i, j \in 1 .. Len(events) : i < j => Buffer!Before(c.slots[i], c.slots[j])
<1> DEFINE n == Len(events)
<1>1. /\ b.slots \in Seq(Slots) /\ b.bytes \in Seq(Nat) /\ Len(b.slots) = n /\ n \in Nat
      /\ DOMAIN b.slots = 1 .. n /\ b = [slots |-> b.slots, bytes |-> b.bytes]
  BY LenProperties DEF BufferHolds, Filled
<1>2. PICK p \in Buffer!Bijection(1 .. n, 1 .. n) :
        c = [b EXCEPT !.slots = [i \in 1 .. n |-> b.slots[p[i]]]] /\ Buffer!Ordered(c)
  <2> DEFINE B == Buffer!Bijection(DOMAIN b.slots, DOMAIN b.slots)
  <2>1. Buffer!Sorted(b) = {d \in {Buffer!Arranged(b, q) : q \in B} : Buffer!Ordered(d)}
    BY DEF Buffer!Sorted
  <2> HIDE DEF B
  <2>2. c \in {Buffer!Arranged(b, q) : q \in B} /\ Buffer!Ordered(c)
    BY <2>1
  <2>3. PICK q \in B : c = Buffer!Arranged(b, q) /\ Buffer!Ordered(c)
    BY <2>2
  <2> USE DEF B
  <2> QED BY <1>1, <2>3 DEF Buffer!Arranged
<1>3. /\ \A i \in 1 .. n : p[i] \in 1 .. n
      /\ \A i, j \in 1 .. n : p[i] = p[j] => i = j
      /\ \A k \in 1 .. n : \E i \in 1 .. n : p[i] = k
  BY DEF Buffer!Bijection, Buffer!Injection, Buffer!Surjection, Buffer!IsInjective
<1> DEFINE s == [i \in 1 .. n |-> b.slots[p[i]]]
<1>4. \A i \in 1 .. n : s[i] = b.slots[p[i]] /\ b.slots[p[i]] \in Slots
  BY <1>1, <1>3, ElementOfSeq
<1>5. s \in Seq(Slots) /\ Len(s) = n
  BY <1>1, <1>4
<1>6. c.slots = s /\ c.bytes = b.bytes /\ c = [slots |-> s, bytes |-> b.bytes]
  BY <1>1, <1>2
<1>7. \A i, j \in 1 .. n : i < j => Buffer!Before(s[i], s[j])
  BY <1>2, <1>6 DEF Buffer!Ordered
<1> HIDE DEF s
<1>8. c \in Filled
  BY <1>1, <1>5, <1>6 DEF Filled
<1>9. ASSUME NEW i \in 1 .. n PROVE Stored(c, s[i], events)
  <2>1. Stored(b, b.slots[p[i]], events)
    BY <1>3 DEF BufferHolds
  <2> QED BY <1>4, <1>6, <2>1 DEF Stored
<1>10. ASSUME NEW k \in 1 .. n PROVE \E i \in 1 .. n : s[i].id = k
  <2>1. PICK j \in 1 .. n : b.slots[j].id = k
    BY DEF BufferHolds
  <2>2. PICK i \in 1 .. n : p[i] = j
    BY <1>3
  <2> QED BY <1>4, <2>1, <2>2
<1>11. ASSUME NEW i \in 1 .. n, NEW j \in 1 .. n, s[i].id = s[j].id PROVE i = j
  <2>1. p[i] \in 1 .. n /\ p[j] \in 1 .. n /\ b.slots[p[i]].id = b.slots[p[j]].id
    BY <1>3, <1>4, <1>11
  <2>2. p[i] = p[j]
    BY <2>1 DEF BufferHolds
  <2> QED BY <1>3, <2>2
<1>12. BufferHolds(c, events)
  BY <1>5, <1>6, <1>8, <1>9, <1>10, <1>11 DEF BufferHolds
<1> QED BY <1>6, <1>7, <1>12

(* How an event shows in what is read. *)
Showing(e) == [time |-> e.time, id |-> e.id, payload |-> [k \in 1 .. e.len |-> e.id]]

(* A list of which each element shows an event, and each event is shown. *)
LEMMA ShowsEach ==
  ASSUME NEW events \in Seq(Event), NEW seen, NEW n \in Nat, n = Len(events),
         seen \in Seq({Showing(e) : e \in Event}), Len(seen) = n,
         \A i \in 1 .. n : \E k \in 1 .. n : seen[i] = Showing(events[k]),
         \A k \in 1 .. n : \E i \in 1 .. n : seen[i] = Showing(events[k])
  PROVE  Shows(seen, events)
<1>1. DOMAIN seen = 1 .. n /\ DOMAIN events = 1 .. n
  BY LenProperties
<1>2. Range(seen) = {seen[i] : i \in 1 .. n} /\ Range(events) = {events[k] : k \in 1 .. n}
  BY <1>1 DEF Range
<1>3. Range(seen) = {Showing(e) : e \in Range(events)}
  <2>1. \A x : x \in Range(seen) => x \in {Showing(e) : e \in Range(events)}
    BY <1>2
  <2>2. \A x : x \in {Showing(e) : e \in Range(events)} => x \in Range(seen)
    BY <1>2
  <2> QED BY <2>1, <2>2
<1> QED BY <1>3 DEF Shows, Showing

(* What a buffer shows. *)
LEMMA BufferReads ==
  ASSUME NEW events \in Seq(Event), Numbered(events), NEW b, BufferHolds(b, events)
  PROVE  /\ Shows(Buffer!Read(b), events) /\ DOMAIN Buffer!Read(b) = 1 .. Len(events)
         /\ \A i \in 1 .. Len(events) : /\ Buffer!Read(b)[i].time = b.slots[i].time
                                        /\ Buffer!Read(b)[i].id = b.slots[i].id
<1> DEFINE n == Len(events)  seen == Buffer!Read(b)
<1>1. n \in Nat /\ b.slots \in Seq(Slots) /\ b.bytes \in Seq(Nat) /\ DOMAIN b.slots = 1 .. n
  BY LenProperties DEF BufferHolds, Filled
<1> DEFINE Seen(i) == [time |-> b.slots[i].time, id |-> b.slots[i].id,
                       payload |-> SubSeq(b.bytes, b.slots[i].offset + 1,
                                          b.slots[i].offset + b.slots[i].len)]
<1>2. seen = [i \in 1 .. n |-> Seen(i)]
  BY <1>1 DEF Buffer!Read
<1>3. ASSUME NEW i \in 1 .. n
      PROVE  /\ Seen(i) = Showing(events[b.slots[i].id]) /\ b.slots[i].id \in 1 .. n
             /\ events[b.slots[i].id] \in Event
  <2> DEFINE s == b.slots[i]  e == events[s.id]  bytes == b.bytes
  <2>1. s \in Slots /\ Stored(b, s, events)
    BY <1>1, ElementOfSeq DEF BufferHolds
  <2>2. /\ s.id \in 1 .. n /\ s.time = e.time /\ s.len = e.len /\ s.offset \in Nat /\ s.len \in Nat
        /\ s.offset + s.len <= Len(bytes) /\ \A j \in 1 .. s.len : bytes[s.offset + j] = s.id
    BY <2>1 DEF Stored, Slots
  <2>3. e \in Event /\ e.id = s.id
    BY <2>2, ElementOfSeq DEF Numbered
  <2>4. Seen(i) = [time |-> e.time, id |-> e.id,
                   payload |-> SubSeq(bytes, s.offset + 1, s.offset + s.len)]
    BY <2>2, <2>3
  <2> DEFINE o == s.offset  len == s.len  id == s.id
  <2>5. /\ o \in Nat /\ len \in Nat /\ \A j \in 1 .. len : bytes[o + j] = id
        /\ e.len = len /\ e.id = id
    BY <2>2, <2>3
  <2>6. Showing(e) = [time |-> e.time, id |-> e.id, payload |-> [k \in 1 .. e.len |-> e.id]]
    BY DEF Showing
  <2> HIDE DEF o, len, id, bytes, e
  <2>7. SubSeq(bytes, o + 1, o + len) = [k \in 1 .. len |-> id]
    <3>1. bytes \in Seq(Nat) /\ o + len <= Len(bytes)
      BY <1>1, <2>2 DEF bytes, o, len
    <3> DEFINE m == o + 1  q == o + len
    <3>2. o \in Nat /\ len \in Nat /\ \A j \in 1 .. len : bytes[o + j] = id
      BY <2>5
    <3>3. m = o + 1 /\ q = o + len
      OBVIOUS
    <3> HIDE DEF m, q
    <3> DEFINE t == SubSeq(bytes, m, q)
    <3>4. /\ Len(bytes) \in Nat /\ m \in 1 .. Len(bytes) + 1 /\ q \in m - 1 .. Len(bytes)
          /\ m \in Int /\ q \in Int
      BY <3>1, <3>2, <3>3, LenProperties
    <3>5. t \in Seq(Nat) /\ Len(t) = q - m + 1 /\ \A j \in 1 .. q - m + 1 : t[j] = bytes[m + j - 1]
      BY <3>1, <3>4, SubSeqProperties
    <3>6. q - m + 1 = len /\ \A j \in 1 .. len : m + j - 1 = o + j
      BY <3>2, <3>3
    <3> HIDE DEF t
    <3>7. t \in Seq(Nat) /\ Len(t) = len /\ \A j \in 1 .. len : t[j] = id
      BY <3>5, <3>6, <3>2
    <3>8. t = [j \in 1 .. len |-> id]
      BY <3>2, <3>7
    <3> QED BY <3>3, <3>8 DEF t
  <2>8. Seen(i) = Showing(e)
    <3> HIDE DEF Seen
    <3>1. Seen(i) = [time |-> e.time, id |-> e.id, payload |-> SubSeq(bytes, o + 1, o + len)]
      BY <2>4 DEF o, len
    <3> QED BY <2>5, <2>6, <2>7, <3>1
  <2> QED BY <2>2, <2>3, <2>8 DEF e
<1> HIDE DEF Seen, seen
<1>4. seen \in Seq({Showing(e) : e \in Event}) /\ Len(seen) = n /\ DOMAIN seen = 1 .. n
  BY <1>1, <1>2, <1>3
<1>5. \A i \in 1 .. n : \E k \in 1 .. n : seen[i] = Showing(events[k])
  BY <1>2, <1>3
<1>6. \A k \in 1 .. n : \E i \in 1 .. n : seen[i] = Showing(events[k])
  <2> TAKE k \in 1 .. n
  <2>1. PICK i \in 1 .. n : b.slots[i].id = k
    BY DEF BufferHolds
  <2> QED BY <1>2, <1>3, <2>1
<1>7. Shows(seen, events)
  <2> HIDE DEF n
  <2>1. n = Len(events)
    BY DEF n
  <2> QED BY <1>1, <1>4, <1>5, <1>6, <2>1, ShowsEach
<1>8. \A i \in 1 .. n : seen[i].time = b.slots[i].time /\ seen[i].id = b.slots[i].id
  BY <1>2 DEF Seen
<1> QED BY <1>4, <1>7, <1>8 DEF seen

(* Pushing into a list; one that nobody sorted stays so. *)
LEMMA ListPush ==
  ASSUME NEW events \in Seq(Event), Numbered(events), NEW e \in Event, e.id = Len(events) + 1,
         NEW l, ListHolds(l, events), List!Accepts(l, e)
  PROVE  /\ ListHolds(List!TryPush(l, e), Append(events, e)) /\ Len(events) < EventCapacity
         /\ Unmoved(l) => Unmoved(List!TryPush(l, e))
<1> DEFINE n == Len(events)  w == Len(l.words)  X == Event \cup Nat
           len == e.len  v == e.id
           offsets == Append(l.offsets, w)
           words == Append(l.words, e) \o [k \in 1 .. len |-> v]
           c == [words |-> words, offsets |-> offsets]  more == Append(events, e)
<1>1. /\ l.words \in Seq(X) /\ l.offsets \in Seq(Nat) /\ Len(l.offsets) = n
      /\ len \in Nat /\ v \in Nat /\ v = n + 1 /\ n \in Nat /\ w \in Nat /\ e \in X
      /\ l = [words |-> l.words, offsets |-> l.offsets]
  BY LenProperties DEF ListHolds, Words, Event
<1>2. List!TryPush(l, e) = c /\ n < EventCapacity
  BY <1>1 DEF List!TryPush, List!Accepts
<1>3. /\ more \in Seq(Event) /\ Len(more) = n + 1 /\ more[n + 1] = e
      /\ \A k \in 1 .. n : more[k] = events[k]
  BY AppendedEvents
<1>4. /\ offsets \in Seq(Nat) /\ Len(offsets) = n + 1 /\ offsets[n + 1] = w
      /\ \A i \in 1 .. n : offsets[i] = l.offsets[i] /\ offsets[i] \in Nat
  BY <1>1, AppendProperties, ElementOfSeq
<1>5. /\ words \in Seq(X) /\ Len(words) = w + 1 + len
      /\ \A i \in 1 .. w : words[i] = l.words[i]
      /\ words[w + 1] = e
      /\ \A j \in 1 .. len : words[w + 1 + j] = n + 1
  <2> DEFINE a == Append(l.words, e)
  <2>1. /\ a \in Seq(X) /\ Len(a) = w + 1 /\ a[w + 1] = e
        /\ \A i \in 1 .. w : a[i] = l.words[i]
    BY <1>1, AppendProperties
  <2> HIDE DEF n, a, len, v, w, X
  <2>2. v \in X
    BY <1>1 DEF X
  <2>3. /\ a \o [k \in 1 .. len |-> v] \in Seq(X)
        /\ Len(a \o [k \in 1 .. len |-> v]) = Len(a) + len
        /\ \A i \in 1 .. Len(a) : (a \o [k \in 1 .. len |-> v])[i] = a[i]
        /\ \A j \in 1 .. len : (a \o [k \in 1 .. len |-> v])[Len(a) + j] = v
    <3>1. a \in Seq(X) /\ len \in Nat /\ v \in X
      BY <1>1, <2>1, <2>2
    <3> QED BY <3>1, RunBehind
  <2>4. words = a \o [k \in 1 .. len |-> v]
    BY DEF a
  <2> HIDE DEF words
  <2>5. w + 1 \in 1 .. w + 1 /\ \A i \in 1 .. w : i \in 1 .. w + 1
    BY <1>1
  <2> QED BY <1>1, <2>1, <2>3, <2>4, <2>5
<1>6. c \in Words /\ c.words = words /\ c.offsets = offsets
  BY <1>4, <1>5 DEF Words
<1> HIDE DEF offsets, words, c, more, n, w, len, v, X
<1>7. ASSUME NEW i \in 1 .. n
      PROVE  /\ At(l, i) \in 1 .. n /\ At(c, i) = At(l, i)
             /\ Written(c, offsets[i], At(l, i), more)
  <2> DEFINE o == l.offsets[i]  k == At(l, i)
  <2>1. k \in 1 .. n /\ Written(l, o, k, events)
    BY DEF ListHolds, n
  <2>2. o \in Nat /\ offsets[i] = o
    BY <1>4
  <2>3. k = l.words[o + 1].id
    BY DEF At
  <2> HIDE DEF o, k
  <2> DEFINE f == events[k]
  <2>4. f \in Event /\ more[k] = f
    BY <1>3, <2>1, ElementOfSeq DEF n
  <2>5. /\ o + 1 \in 1 .. w /\ l.words[o + 1] = f /\ f.len \in Nat
        /\ o + 1 + f.len <= w /\ \A j \in 1 .. f.len : l.words[o + 1 + j] = k
    BY <2>1, <2>4 DEF Written, w, Event
  <2> HIDE DEF f
  <2> DEFINE g == f.len
  <2>6. g \in Nat /\ o + 1 \in 1 .. w /\ o + 1 + g <= w
    BY <2>5
  <2> HIDE DEF g
  <2>7. o + 1 \in 1 .. Len(words) /\ words[o + 1] = f /\ o + 1 + f.len <= Len(words)
    <3>1. w \in Nat /\ len \in Nat /\ Len(words) = w + 1 + len
      BY <1>1, <1>5
    <3>2. o + 1 \in 1 .. Len(words) /\ o + 1 + g <= Len(words)
      BY <2>2, <2>6, <3>1
    <3> QED BY <1>5, <2>5, <2>6, <3>2 DEF g
  <2>8. \A j \in 1 .. f.len : words[o + 1 + j] = k
    <3> SUFFICES ASSUME NEW j \in 1 .. g PROVE words[o + 1 + j] = k
      BY DEF g
    <3>1. o + 1 + j \in 1 .. w
      <4>1. w \in Nat
        BY <1>1
      <4> QED BY <2>2, <2>6, <4>1
    <3>2. l.words[o + 1 + j] = k
      BY <2>5 DEF g
    <3> QED BY <1>5, <3>1, <3>2
  <2>9. Written(c, o, k, more)
    BY <1>6, <2>4, <2>7, <2>8 DEF Written
  <2>10. At(c, i) = words[o + 1].id
    BY <1>6, <2>2 DEF At
  <2> QED BY <2>1, <2>2, <2>3, <2>5, <2>7, <2>9, <2>10 DEF k
<1>8. At(c, n + 1) = n + 1 /\ Written(c, offsets[n + 1], n + 1, more)
  <2>1. At(c, n + 1) = words[w + 1].id
    BY <1>4, <1>6 DEF At
  <2>2. words[w + 1].id = n + 1
    BY <1>1, <1>5 DEF v
  <2>3. w + 1 \in 1 .. Len(words) /\ w + 1 + len <= Len(words)
    BY <1>1, <1>5
  <2> QED BY <1>3, <1>4, <1>5, <1>6, <2>1, <2>2, <2>3 DEF Written, len
<1>9. ASSUME NEW i \in 1 .. n + 1
      PROVE  At(c, i) \in 1 .. n + 1 /\ Written(c, offsets[i], At(c, i), more)
  <2>1. CASE i = n + 1
    BY <1>1, <1>8, <2>1
  <2>2. CASE i # n + 1
    <3>1. i \in 1 .. n
      BY <1>1, <2>2
    <3>2. At(c, i) \in 1 .. n /\ Written(c, offsets[i], At(c, i), more)
      BY <1>7, <3>1
    <3> QED BY <1>1, <3>2
  <2> QED BY <2>1, <2>2
<1>10. ASSUME NEW k \in 1 .. n + 1 PROVE \E i \in 1 .. n + 1 : At(c, i) = k
  <2>1. CASE k = n + 1
    BY <1>8, <2>1
  <2>2. CASE k # n + 1
    <3>1. k \in 1 .. n
      BY <1>1, <2>2
    <3>2. PICK i \in 1 .. n : At(l, i) = k
      BY <3>1 DEF ListHolds, n
    <3>3. i \in 1 .. n + 1 /\ At(c, i) = k
      BY <1>1, <1>7, <3>2
    <3> QED BY <3>3
  <2> QED BY <2>1, <2>2
<1>11. ASSUME NEW i \in 1 .. n + 1, NEW j \in 1 .. n + 1, At(c, i) = At(c, j) PROVE i = j
  <2>1. CASE i \in 1 .. n /\ j \in 1 .. n
    BY <1>7, <1>11, <2>1 DEF ListHolds, n
  <2>2. CASE i = n + 1 /\ j # n + 1
    <3>1. j \in 1 .. n
      BY <1>1, <2>2
    <3>2. At(c, j) \in 1 .. n /\ At(c, i) = n + 1
      BY <1>7, <1>8, <2>2, <3>1
    <3> QED BY <1>1, <1>11, <3>2
  <2>3. CASE i # n + 1 /\ j = n + 1
    <3>1. i \in 1 .. n
      BY <1>1, <2>3
    <3>2. At(c, i) \in 1 .. n /\ At(c, j) = n + 1
      BY <1>7, <1>8, <2>3, <3>1
    <3> QED BY <1>1, <1>11, <3>2
  <2> QED BY <1>1, <2>1, <2>2, <2>3
<1>12. ListHolds(c, more)
  BY <1>3, <1>4, <1>6, <1>9, <1>10, <1>11 DEF ListHolds
<1>13. ASSUME Unmoved(l) PROVE Unmoved(c)
  <2>1. ASSUME NEW i \in 1 .. n + 1 PROVE At(c, i) = i
    <3>1. CASE i = n + 1
      BY <1>8, <3>1
    <3>2. CASE i # n + 1
      <4>1. i \in 1 .. n
        BY <1>1, <3>2
      <4> QED BY <1>1, <1>7, <1>13, <4>1 DEF Unmoved
    <3> QED BY <3>1, <3>2
  <2> QED BY <1>4, <1>6, <2>1 DEF Unmoved
<1> QED BY <1>2, <1>12, <1>13 DEF more, n

(* What a list shows. *)
LEMMA ListReads ==
  ASSUME NEW events \in Seq(Event), Numbered(events), NEW l, ListHolds(l, events)
  PROVE  /\ Shows(List!Read(l), events) /\ DOMAIN List!Read(l) = 1 .. Len(events)
         /\ \A i \in 1 .. Len(events) :
              /\ List!Read(l)[i].time = l.words[l.offsets[i] + 1].time
              /\ List!Read(l)[i].id = At(l, i)
<1> DEFINE n == Len(events)  seen == List!Read(l)  X == Event \cup Nat  words == l.words
<1>1. n \in Nat /\ l.offsets \in Seq(Nat) /\ words \in Seq(X) /\ DOMAIN l.offsets = 1 .. n
  BY LenProperties DEF ListHolds, Words
<1> DEFINE Seen(i) == [time |-> words[l.offsets[i] + 1].time, id |-> words[l.offsets[i] + 1].id,
                       payload |-> SubSeq(words, l.offsets[i] + 2,
                                          l.offsets[i] + 1 + words[l.offsets[i] + 1].len)]
<1>2. seen = [i \in 1 .. n |-> Seen(i)]
  BY <1>1 DEF List!Read
<1>3. ASSUME NEW i \in 1 .. n
      PROVE  /\ Seen(i) = Showing(events[At(l, i)]) /\ At(l, i) \in 1 .. n
             /\ events[At(l, i)] \in Event
  <2> DEFINE o == l.offsets[i]  k == At(l, i)  e == events[k]  len == e.len
  <2>1. o \in Nat /\ k \in 1 .. n /\ Written(l, o, k, events)
    BY <1>1, ElementOfSeq DEF ListHolds
  <2>2. e \in Event /\ e.id = k
    BY <2>1, ElementOfSeq DEF Numbered
  <2>3. /\ words[o + 1] = e /\ len \in Nat /\ (o + 1) + len <= Len(words)
        /\ \A j \in 1 .. len : words[(o + 1) + j] = k
    BY <2>1, <2>2 DEF Written, Event
  <2>4. Seen(i) = [time |-> e.time, id |-> e.id, payload |-> SubSeq(words, o + 2, o + 1 + len)]
    BY <2>3
  <2>5. Showing(e) = [time |-> e.time, id |-> e.id, payload |-> [j \in 1 .. len |-> k]]
    BY <2>2 DEF Showing
  <2> HIDE DEF Seen, o, k, e, len, words, X, n
  <2>6. SubSeq(words, (o + 1) + 1, (o + 1) + len) = [j \in 1 .. len |-> k]
    <3>1. o + 1 \in Nat
      BY <2>1
    <3> DEFINE start == o + 1
    <3>2. start \in Nat /\ start + len <= Len(words) /\ \A j \in 1 .. len : words[start + j] = k
      BY <2>3, <3>1
    <3> HIDE DEF start
    <3>3. words \in Seq(X) /\ len \in Nat
      BY <1>1, <2>3
    <3> DEFINE m == start + 1  q == start + len
    <3>4. m = start + 1 /\ q = start + len
      OBVIOUS
    <3> HIDE DEF m, q
    <3> DEFINE t == SubSeq(words, m, q)
    <3>5. /\ Len(words) \in Nat /\ m \in 1 .. Len(words) + 1 /\ q \in m - 1 .. Len(words)
          /\ m \in Int /\ q \in Int
      BY <3>2, <3>3, <3>4, LenProperties
    <3>6. t \in Seq(X) /\ Len(t) = q - m + 1 /\ \A j \in 1 .. q - m + 1 : t[j] = words[m + j - 1]
      BY <3>3, <3>5, SubSeqProperties
    <3>7. q - m + 1 = len /\ \A j \in 1 .. len : m + j - 1 = start + j
      BY <3>2, <3>3, <3>4
    <3> HIDE DEF t
    <3>8. t \in Seq(X) /\ Len(t) = len /\ \A j \in 1 .. len : t[j] = k
      BY <3>6, <3>7, <3>2
    <3>9. t = [j \in 1 .. len |-> k]
      BY <3>3, <3>8
    <3> QED BY <3>4, <3>9 DEF t, start
  <2>7. (o + 1) + 1 = o + 2 /\ (o + 1) + len = o + 1 + len
    BY <2>1, <2>3
  <2>8. Seen(i) = Showing(e)
    BY <2>4, <2>5, <2>6, <2>7
  <2> QED BY <2>1, <2>2, <2>8 DEF e, k
<1> HIDE DEF seen
<1>4. \A i \in 1 .. n : /\ seen[i].time = words[l.offsets[i] + 1].time
                        /\ seen[i].id = At(l, i)
  BY <1>2 DEF At
<1> HIDE DEF Seen
<1>5. seen \in Seq({Showing(e) : e \in Event}) /\ Len(seen) = n /\ DOMAIN seen = 1 .. n
  BY <1>1, <1>2, <1>3
<1>6. \A i \in 1 .. n : \E k \in 1 .. n : seen[i] = Showing(events[k])
  BY <1>2, <1>3
<1>7. \A k \in 1 .. n : \E i \in 1 .. n : seen[i] = Showing(events[k])
  <2> TAKE k \in 1 .. n
  <2>1. PICK i \in 1 .. n : At(l, i) = k
    BY DEF ListHolds
  <2> QED BY <1>2, <1>3, <2>1
<1>8. Shows(seen, events)
  <2> HIDE DEF n
  <2>1. n = Len(events)
    BY DEF n
  <2> QED BY <1>1, <1>5, <1>6, <1>7, <2>1, ShowsEach
<1> QED BY <1>4, <1>5, <1>8 DEF seen

(* Where the elements go when one is inserted. *)
Spread(r, s, n, p, o) ==
  /\ Len(r) = n + 1
  /\ \A i \in 1 .. p - 1 : r[i] = s[i]
  /\ r[p] = o
  /\ \A i \in p .. n : r[i + 1] = s[i]

(* Inserting at p puts the element there and moves those behind it one place on. *)
LEMMA InsertionAt ==
  ASSUME NEW X, NEW s \in Seq(X), NEW n \in Nat, Len(s) = n, NEW o \in X, NEW p \in 1 .. n + 1
  PROVE  List!InsertAt(s, p, o) \in Seq(X) /\ Spread(List!InsertAt(s, p, o), s, n, p, o)
<1> DEFINE m == p - 1  a == SubSeq(s, 1, m)  c == SubSeq(s, m + 1, Len(s))
           b == <<o>>  f == a \o b  g == f \o c
<1>1. m \in 0 .. Len(s) /\ m \in Nat /\ m + 1 = p /\ m <= n
  OBVIOUS
<1>2. List!InsertAt(s, p, o) = g
  BY <1>1 DEF List!InsertAt
<1> HIDE DEF m
<1>3. /\ a \in Seq(X) /\ Len(a) = m /\ \A i \in 1 .. m : a[i] = s[i]
      /\ c \in Seq(X) /\ Len(c) = n - m /\ \A i \in 1 .. n - m : c[i] = s[m + i]
  <2>1. m \in 0 .. Len(s)
    BY <1>1
  <2> QED BY <2>1, EndOf
<1>4. b \in Seq(X) /\ Len(b) = 1 /\ b[1] = o
  OBVIOUS
<1> HIDE DEF a, b, c
<1>5. /\ f \in Seq(X) /\ Len(f) = m + 1 /\ \A i \in 1 .. m : f[i] = s[i]
      /\ f[m + 1] = o
  <2>1. a \in Seq(X) /\ b \in Seq(X)
    BY <1>3, <1>4
  <2>2. /\ a \o b \in Seq(X) /\ Len(a \o b) = Len(a) + Len(b)
        /\ \A i \in 1 .. Len(a) : (a \o b)[i] = a[i]
        /\ \A i \in 1 .. Len(b) : (a \o b)[Len(a) + i] = b[i]
    BY <2>1, InARow
  <2>3. 1 \in 1 .. Len(b)
    BY <1>4
  <2>4. f = a \o b
    OBVIOUS
  <2> HIDE DEF f
  <2> QED BY <1>3, <1>4, <2>2, <2>3, <2>4
<1> HIDE DEF f
<1>6. /\ g \in Seq(X) /\ Len(g) = m + 1 + (n - m) /\ \A i \in 1 .. m + 1 : g[i] = f[i]
      /\ \A i \in 1 .. n - m : g[m + 1 + i] = c[i]
  <2>1. f \in Seq(X) /\ c \in Seq(X)
    BY <1>3, <1>5
  <2>2. /\ f \o c \in Seq(X) /\ Len(f \o c) = Len(f) + Len(c)
        /\ \A i \in 1 .. Len(f) : (f \o c)[i] = f[i]
        /\ \A i \in 1 .. Len(c) : (f \o c)[Len(f) + i] = c[i]
    BY <2>1, InARow
  <2>3. g = f \o c
    OBVIOUS
  <2> HIDE DEF g
  <2> QED BY <1>3, <1>5, <2>2, <2>3
<1> HIDE DEF g
<1>7. ASSUME NEW i \in p .. n PROVE g[i + 1] = s[i]
  <2> DEFINE k == i - m
  <2>1. k \in 1 .. n - m /\ m + 1 + k = i + 1 /\ m + k = i
    BY <1>1
  <2> HIDE DEF k
  <2>2. g[m + 1 + k] = c[k] /\ c[k] = s[m + k]
    BY <1>3, <1>6, <2>1
  <2> QED BY <2>1, <2>2
<1>8. \A i \in 1 .. p - 1 : g[i] = s[i]
  <2> TAKE i \in 1 .. p - 1
  <2>1. i \in 1 .. m /\ i \in 1 .. m + 1
    BY <1>1
  <2> QED BY <1>5, <1>6, <2>1
<1>9. g[p] = o
  <2>1. m + 1 \in 1 .. m + 1
    BY <1>1
  <2> QED BY <1>1, <1>5, <1>6, <2>1
<1>10. Len(g) = n + 1
  BY <1>1, <1>6
<1> QED BY <1>2, <1>6, <1>7, <1>8, <1>9, <1>10 DEF Spread

(* The order of the list's sort: by time, and among equal times as they were pushed. *)
IdAt(l, o) == l.words[o + 1].id

Ahead(l, o, q) ==
  \/ List!TimeAt(l, o) < List!TimeAt(l, q)
  \/ List!TimeAt(l, o) = List!TimeAt(l, q) /\ IdAt(l, o) < IdAt(l, q)

(* What the first n passes of the sort leave. *)
Passed(l, n, s) ==
  /\ s \in Seq(Nat) /\ Len(s) = n
  /\ \A i \in 1 .. n : \E k \in 1 .. n : s[i] = l.offsets[k]
  /\ \A k \in 1 .. n : \E i \in 1 .. n : s[i] = l.offsets[k]
  /\ \A i, j \in 1 .. n : i < j => Ahead(l, s[i], s[j])

(* In a list nobody sorted, the k-th offset leads to the k-th event. *)
LEMMA KeysOf ==
  ASSUME NEW events \in Seq(Event), Numbered(events), NEW l, ListHolds(l, events), Unmoved(l)
  PROVE  \A k \in 1 .. Len(events) :
           /\ l.offsets[k] \in Nat /\ List!TimeAt(l, l.offsets[k]) \in Nat
           /\ IdAt(l, l.offsets[k]) = k
<1> TAKE k \in 1 .. Len(events)
<1>1. l.offsets \in Seq(Nat) /\ Len(l.offsets) = Len(events) /\ At(l, k) = k
  BY DEF ListHolds, Words, Unmoved
<1>2. Written(l, l.offsets[k], k, events)
  BY <1>1 DEF ListHolds
<1>3. events[k] \in Event
  BY ElementOfSeq
<1> QED BY <1>1, <1>2, <1>3, ElementOfSeq DEF Written, At, IdAt, List!TimeAt, Event

(* One pass. *)
LEMMA PassInserts ==
  ASSUME NEW events \in Seq(Event), Numbered(events), NEW l, ListHolds(l, events), Unmoved(l),
         NEW n \in Nat, n + 1 <= Len(events), NEW s, Passed(l, n, s)
  PROVE  Passed(l, n + 1, List!Inserted(l, s, l.offsets[n + 1]))
<1> DEFINE o == l.offsets[n + 1]  T(q) == List!TimeAt(l, q)
           places == {i \in 1 .. Len(s) + 1 : i = 1 \/ T(s[i - 1]) <= T(o)}
           p == List!Max(places)  r == List!InsertAt(s, p, o)
<1>1. List!Inserted(l, s, o) = r
  BY DEF List!Inserted
<1>2. s \in Seq(Nat) /\ Len(s) = n /\ \A i, j \in 1 .. n : i < j => Ahead(l, s[i], s[j])
  BY DEF Passed
<1>3. \A k \in 1 .. n + 1 : /\ l.offsets[k] \in Nat /\ T(l.offsets[k]) \in Nat
                            /\ IdAt(l, l.offsets[k]) = k
  <2>1. Len(events) \in Nat
    BY LenProperties
  <2>2. \A k \in 1 .. n + 1 : k \in 1 .. Len(events)
    BY <2>1
  <2> QED BY <2>2, KeysOf
<1>4. o \in Nat /\ T(o) \in Nat /\ IdAt(l, o) = n + 1
  BY <1>3
<1> HIDE DEF T, o
<1>5. \A i \in 1 .. n : s[i] \in Nat /\ T(s[i]) \in Nat /\ IdAt(l, s[i]) \in 1 .. n
  <2> TAKE i \in 1 .. n
  <2>1. PICK k \in 1 .. n : s[i] = l.offsets[k]
    BY DEF Passed
  <2>2. k \in 1 .. n + 1
    OBVIOUS
  <2> QED BY <1>3, <2>1, <2>2
<1>6. p \in 1 .. n + 1 /\ p \in places /\ \A k \in places : p >= k
  <2>1. places \in SUBSET (1 .. n + 1) /\ places # {}
    <3>1. 1 \in places
      BY <1>2
    <3>2. places \subseteq 1 .. n + 1
      BY <1>2
    <3> QED BY <3>1, <3>2
  <2> HIDE DEF places
  <2>2. p = Max(places)
    BY DEF List!Max, Max
  <2>3. n + 1 \in Nat
    OBVIOUS
  <2>4. Max(places) \in places /\ \A k \in places : Max(places) >= k
    BY <2>1, <2>3, LastOf
  <2> QED BY <2>1, <2>2, <2>4
<1> HIDE DEF p
<1>7. \A i \in 1 .. n : i + 1 \in places <=> T(s[i]) <= T(o)
  <2> TAKE i \in 1 .. n
  <2>1. i + 1 \in 1 .. Len(s) + 1 /\ i + 1 # 1 /\ (i + 1) - 1 = i
    BY <1>2
  <2> QED BY <2>1
<1>8. p # 1 => p - 1 \in 1 .. n /\ T(s[p - 1]) <= T(o)
  BY <1>6
<1>9. \A i \in 1 .. n : i >= p => ~(T(s[i]) <= T(o))
  <2> TAKE i \in 1 .. n
  <2> HAVE i >= p
  <2>1. ~(p >= i + 1)
    BY <1>6
  <2> QED BY <1>6, <1>7, <2>1
<1> HIDE DEF places
<1>10. /\ r \in Seq(Nat) /\ Len(r) = n + 1
       /\ \A i \in 1 .. p - 1 : r[i] = s[i]
       /\ r[p] = o
       /\ \A i \in p .. n : r[i + 1] = s[i]
  <2>1. s \in Seq(Nat) /\ o \in Nat /\ Len(s) = n /\ p \in 1 .. n + 1
    BY <1>2, <1>4, <1>6
  <2>2. List!InsertAt(s, p, o) \in Seq(Nat) /\ Spread(List!InsertAt(s, p, o), s, n, p, o)
    BY <2>1, InsertionAt
  <2> HIDE DEF r
  <2>3. r \in Seq(Nat) /\ Spread(r, s, n, p, o)
    BY <2>2 DEF r
  <2> QED BY <2>3 DEF Spread
<1> HIDE DEF r
<1>11. \A i \in 1 .. p - 1 : i \in 1 .. n /\ Ahead(l, s[i], o)
  <2> TAKE i \in 1 .. p - 1
  <2>1. i \in 1 .. n /\ p # 1 /\ p - 1 \in 1 .. n
    BY <1>6
  <2>2. T(s[i]) <= T(s[p - 1])
    <3>1. CASE i = p - 1
      BY <1>5, <2>1, <3>1
    <3>2. CASE i # p - 1
      <4>1. i < p - 1
        BY <1>6, <3>2
      <4>2. Ahead(l, s[i], s[p - 1])
        BY <1>2, <2>1, <4>1
      <4>3. T(s[i]) \in Nat /\ T(s[p - 1]) \in Nat
        BY <1>5, <2>1
      <4> QED BY <4>2, <4>3 DEF Ahead, T
    <3> QED BY <3>1, <3>2
  <2>3. T(s[p - 1]) <= T(o)
    BY <1>8, <2>1
  <2>4. T(s[i]) \in Nat /\ T(s[p - 1]) \in Nat /\ T(o) \in Nat /\ IdAt(l, s[i]) \in 1 .. n
    BY <1>4, <1>5, <2>1
  <2>5. T(s[i]) <= T(o) /\ IdAt(l, s[i]) < IdAt(l, o)
    BY <1>4, <2>2, <2>3, <2>4
  <2> QED BY <2>1, <2>4, <2>5, <1>4 DEF Ahead, T
<1>12. \A i \in 1 .. n : i >= p => Ahead(l, o, s[i])
  <2> TAKE i \in 1 .. n
  <2> HAVE i >= p
  <2>1. T(o) \in Nat /\ T(s[i]) \in Nat /\ ~(T(s[i]) <= T(o))
    BY <1>4, <1>5, <1>9
  <2>2. T(o) < T(s[i])
    BY <2>1
  <2> QED BY <2>2 DEF Ahead, T
<1> DEFINE From(i) == IF i < p THEN i ELSE i - 1
<1>13. \A i \in 1 .. n + 1 : i # p => From(i) \in 1 .. n /\ r[i] = s[From(i)]
  <2> TAKE i \in 1 .. n + 1
  <2> HAVE i # p
  <2>1. CASE i < p
    <3>1. i \in 1 .. p - 1 /\ i \in 1 .. n
      BY <1>6, <2>1
    <3> QED BY <1>10, <2>1, <3>1
  <2>2. CASE ~(i < p)
    <3>1. i - 1 \in p .. n /\ (i - 1) + 1 = i /\ i - 1 \in 1 .. n
      BY <1>6, <2>2
    <3>2. r[(i - 1) + 1] = s[i - 1]
      BY <1>10, <3>1
    <3> QED BY <2>2, <3>1, <3>2
  <2> QED BY <2>1, <2>2
<1>14. ASSUME NEW i \in 1 .. n + 1, NEW j \in 1 .. n + 1, i < j PROVE Ahead(l, r[i], r[j])
  <2>1. CASE i = p
    <3>1. j # p /\ From(j) = j - 1 /\ j - 1 >= p
      BY <1>6, <1>14, <2>1
    <3>2. From(j) \in 1 .. n /\ r[j] = s[From(j)]
      BY <1>13, <3>1
    <3> QED BY <1>10, <1>12, <2>1, <3>1, <3>2
  <2>2. CASE j = p
    <3>1. i # p /\ From(i) = i /\ i \in 1 .. p - 1
      BY <1>6, <1>14, <2>2
    <3>2. From(i) \in 1 .. n /\ r[i] = s[From(i)]
      BY <1>13, <3>1
    <3> QED BY <1>10, <1>11, <2>2, <3>1, <3>2
  <2>3. CASE i # p /\ j # p
    <3>1. /\ From(i) \in 1 .. n /\ r[i] = s[From(i)]
          /\ From(j) \in 1 .. n /\ r[j] = s[From(j)]
      BY <1>13, <2>3
    <3>2. From(i) < From(j)
      BY <1>6, <1>14, <2>3
    <3> HIDE DEF From
    <3> QED BY <1>2, <3>1, <3>2
  <2> QED BY <2>1, <2>2, <2>3
<1>15. ASSUME NEW i \in 1 .. n + 1 PROVE \E k \in 1 .. n + 1 : r[i] = l.offsets[k]
  <2>1. CASE i = p
    <3>1. n + 1 \in 1 .. n + 1 /\ r[i] = l.offsets[n + 1]
      BY <1>10, <2>1 DEF o
    <3> QED BY <3>1
  <2>2. CASE i # p
    <3>1. From(i) \in 1 .. n /\ r[i] = s[From(i)]
      BY <1>13, <2>2
    <3> HIDE DEF From
    <3>2. PICK k \in 1 .. n : s[From(i)] = l.offsets[k]
      BY <3>1 DEF Passed
    <3>3. k \in 1 .. n + 1
      OBVIOUS
    <3> QED BY <3>1, <3>2, <3>3
  <2> QED BY <2>1, <2>2
<1>16. ASSUME NEW k \in 1 .. n + 1 PROVE \E i \in 1 .. n + 1 : r[i] = l.offsets[k]
  <2>1. CASE k = n + 1
    BY <1>6, <1>10, <2>1 DEF o
  <2>2. CASE k # n + 1
    <3>1. k \in 1 .. n
      BY <2>2
    <3>2. PICK j \in 1 .. n : s[j] = l.offsets[k]
      BY <3>1 DEF Passed
    <3>3. CASE j < p
      <4>1. j \in 1 .. p - 1 /\ j \in 1 .. n + 1
        BY <1>6, <3>3
      <4>2. r[j] = l.offsets[k]
        BY <1>10, <3>2, <4>1
      <4> QED BY <4>1, <4>2
    <3>4. CASE ~(j < p)
      <4>1. j \in p .. n /\ j + 1 \in 1 .. n + 1
        BY <1>6, <3>4
      <4>2. r[j + 1] = l.offsets[k]
        BY <1>10, <3>2, <4>1
      <4> QED BY <4>1, <4>2
    <3> QED BY <3>3, <3>4
  <2> QED BY <2>1, <2>2
<1>17. Passed(l, n + 1, r)
  BY <1>10, <1>14, <1>15, <1>16 DEF Passed
<1> QED BY <1>1, <1>17 DEF o

(* The passes of the sort, up to the n-th. *)
Passes(l, n, f) ==
  f = [k \in 0 .. n |-> IF k = 0 THEN <<>> ELSE List!Inserted(l, f[k - 1], l.offsets[k])]

(* Any number of passes can be made: the recursive function has a value. *)
LEMMA PassesExist ==
  ASSUME NEW l, NEW n \in Nat
  PROVE  \E f : Passes(l, n, f)
<1> DEFINE S == {k \in Nat : \E f : Passes(l, k, f)}
<1>1. 0 \in S
  <2> DEFINE f == [k \in 0 .. 0 |-> <<>>]
  <2>1. f = [k \in 0 .. 0 |-> IF k = 0 THEN <<>> ELSE List!Inserted(l, f[k - 1], l.offsets[k])]
    OBVIOUS
  <2> HIDE DEF f
  <2> QED BY <2>1 DEF Passes
<1>2. ASSUME NEW k \in Nat, k \in S PROVE k + 1 \in S
  <2>1. PICK f : Passes(l, k, f)
    BY <1>2
  <2> DEFINE new == List!Inserted(l, f[k], l.offsets[k + 1])
             g == [i \in 0 .. k + 1 |-> IF i = k + 1 THEN new ELSE f[i]]
             h == [i \in 0 .. k + 1 |->
                     IF i = 0 THEN <<>> ELSE List!Inserted(l, g[i - 1], l.offsets[i])]
  <2>2. ASSUME NEW i \in 0 .. k + 1 PROVE g[i] = h[i]
    <3>1. CASE i = k + 1
      <4>1. i # 0 /\ i - 1 = k /\ k \in 0 .. k + 1 /\ k # k + 1
        BY <3>1
      <4>2. g[k] = f[k] /\ g[i] = new
        BY <3>1, <4>1
      <4>3. h[i] = List!Inserted(l, g[i - 1], l.offsets[i])
        BY <4>1
      <4> HIDE DEF g, h
      <4> QED BY <3>1, <4>1, <4>2, <4>3
    <3>2. CASE i # k + 1
      <4>1. i \in 0 .. k /\ g[i] = f[i]
        BY <3>2
      <4>2. f[i] = IF i = 0 THEN <<>> ELSE List!Inserted(l, f[i - 1], l.offsets[i])
        BY <2>1, <4>1 DEF Passes
      <4>3. i # 0 => i - 1 \in 0 .. k + 1 /\ i - 1 # k + 1
        BY <4>1
      <4>4. i # 0 => g[i - 1] = f[i - 1]
        BY <4>3
      <4>5. h[i] = IF i = 0 THEN <<>> ELSE List!Inserted(l, g[i - 1], l.offsets[i])
        OBVIOUS
      <4> HIDE DEF g, h
      <4> QED BY <4>1, <4>2, <4>4, <4>5
    <3> QED BY <3>1, <3>2
  <2>3. DOMAIN g = 0 .. k + 1 /\ DOMAIN h = 0 .. k + 1
    OBVIOUS
  <2>4. g = h
    <3>1. g = [i \in 0 .. k + 1 |-> g[i]] /\ h = [i \in 0 .. k + 1 |-> h[i]]
      OBVIOUS
    <3> HIDE DEF g, h
    <3> QED BY <2>2, <3>1
  <2>5. Passes(l, k + 1, g)
    <3>1. h = [i \in 0 .. k + 1 |->
                 IF i = 0 THEN <<>> ELSE List!Inserted(l, g[i - 1], l.offsets[i])]
      OBVIOUS
    <3> HIDE DEF g, h
    <3> QED BY <2>4, <3>1 DEF Passes
  <2> QED BY <2>5
<1>3. Nat \subseteq S
  <2> HIDE DEF S
  <2> QED BY <1>1, <1>2, SetInduction
<1> QED BY <1>3

(* The passes of a list nobody sorted. *)
LEMMA PassesLeave ==
  ASSUME NEW events \in Seq(Event), Numbered(events), NEW l, ListHolds(l, events), Unmoved(l),
         NEW f, Passes(l, Len(events), f)
  PROVE  Passed(l, Len(events), f[Len(events)])
<1> DEFINE m == Len(events)
           S == {n \in Nat : n <= m => Passed(l, n, f[n])}
<1>1. m \in Nat
  BY LenProperties
<1>2. ASSUME NEW n \in 0 .. m
      PROVE  f[n] = IF n = 0 THEN <<>> ELSE List!Inserted(l, f[n - 1], l.offsets[n])
  <2> HIDE DEF m
  <2>1. Passes(l, m, f)
    BY DEF m
  <2> QED BY <2>1 DEF Passes
<1>3. 0 \in S
  <2>1. f[0] = <<>>
    BY <1>1, <1>2
  <2>2. Passed(l, 0, <<>>)
    <3>1. 1 .. 0 = {} /\ <<>> \in Seq(Nat) /\ Len(<<>>) = 0
      OBVIOUS
    <3> QED BY <3>1 DEF Passed
  <2> QED BY <2>1, <2>2
<1>4. ASSUME NEW n \in Nat, n \in S PROVE n + 1 \in S
  <2>1. SUFFICES ASSUME n + 1 <= m PROVE Passed(l, n + 1, f[n + 1])
    OBVIOUS
  <2>2. n + 1 \in 0 .. m /\ n + 1 # 0 /\ (n + 1) - 1 = n /\ n <= m
    BY <1>1, <2>1
  <2>3. f[n + 1] = List!Inserted(l, f[n], l.offsets[n + 1])
    BY <1>2, <2>2
  <2>4. Passed(l, n, f[n])
    BY <1>4, <2>2
  <2>5. Passed(l, n + 1, List!Inserted(l, f[n], l.offsets[n + 1]))
    BY <2>1, <2>4, PassInserts
  <2> QED BY <2>3, <2>5
<1>5. Nat \subseteq S
  <2> HIDE DEF S
  <2> QED BY <1>3, <1>4, SetInduction
<1> QED BY <1>1, <1>5

(* The sort of a list keeps what it holds, and puts it in order. *)
LEMMA ListSort ==
  ASSUME NEW events \in Seq(Event), Numbered(events), NEW l, ListHolds(l, events), Unmoved(l)
  PROVE  /\ ListHolds(List!SortByTime(l), events)
         /\ \A i, j \in 1 .. Len(events) :
              i < j => Ahead(List!SortByTime(l), List!SortByTime(l).offsets[i],
                             List!SortByTime(l).offsets[j])
<1> DEFINE n == Len(events)  f == CHOOSE g : Passes(l, n, g)  s == f[n]
           c == [words |-> l.words, offsets |-> s]
<1>1. /\ n \in Nat /\ l \in Words /\ Len(l.offsets) = n
      /\ l = [words |-> l.words, offsets |-> l.offsets]
  BY LenProperties DEF ListHolds, Words
<1>2. List!SortByTime(l) = [l EXCEPT !.offsets = s]
  BY <1>1 DEF List!SortByTime, Passes
<1>3. List!SortByTime(l) = c
  BY <1>1, <1>2
<1>4. Passes(l, n, f)
  <2> HIDE DEF n
  <2>1. \E g : Passes(l, n, g)
    BY <1>1, PassesExist
  <2> QED BY <2>1
<1> HIDE DEF f
<1>5. Passed(l, n, s)
  BY <1>4, PassesLeave
<1> HIDE DEF s
<1>6. c \in Words /\ c.words = l.words /\ c.offsets = s /\ Len(s) = n
  BY <1>1, <1>5 DEF Words, Passed
<1> HIDE DEF c
<1>7. ASSUME NEW i \in 1 .. n, NEW k \in 1 .. n, s[i] = l.offsets[k]
      PROVE  At(c, i) = k /\ Written(c, s[i], k, events)
  <2>1. At(l, k) = k
    BY <1>1 DEF Unmoved
  <2>2. Written(l, l.offsets[k], k, events)
    BY <2>1 DEF ListHolds
  <2> QED BY <1>6, <1>7, <2>1, <2>2 DEF At, Written
<1>8. ASSUME NEW i \in 1 .. n
      PROVE  At(c, i) \in 1 .. n /\ Written(c, s[i], At(c, i), events) /\ IdAt(c, s[i]) = At(c, i)
  <2>1. PICK k \in 1 .. n : s[i] = l.offsets[k]
    BY <1>5 DEF Passed
  <2> QED BY <1>6, <1>7, <2>1 DEF IdAt, At
<1>9. ASSUME NEW k \in 1 .. n PROVE \E i \in 1 .. n : At(c, i) = k
  <2>1. PICK i \in 1 .. n : s[i] = l.offsets[k]
    BY <1>5 DEF Passed
  <2> QED BY <1>7, <2>1
<1>10. ASSUME NEW i \in 1 .. n, NEW j \in 1 .. n, i < j PROVE Ahead(c, s[i], s[j])
  <2>1. Ahead(l, s[i], s[j])
    BY <1>5, <1>10 DEF Passed
  <2> QED BY <1>6, <2>1 DEF Ahead, IdAt, List!TimeAt
<1>11. ASSUME NEW i \in 1 .. n, NEW j \in 1 .. n, At(c, i) = At(c, j) PROVE i = j
  <2>1. ASSUME NEW x \in 1 .. n, NEW y \in 1 .. n, x < y, At(c, x) = At(c, y) PROVE FALSE
    <3>1. Ahead(c, s[x], s[y])
      BY <1>10, <2>1
    <3>2. At(c, x) \in 1 .. n /\ IdAt(c, s[x]) = At(c, x) /\ IdAt(c, s[y]) = At(c, x)
      BY <1>8, <2>1
    <3>3. List!TimeAt(c, s[x]) = List!TimeAt(c, s[y])
      <4>1. /\ Written(c, s[x], At(c, x), events) /\ Written(c, s[y], At(c, x), events)
        BY <1>8, <2>1
      <4> QED BY <4>1 DEF Written, List!TimeAt
    <3>4. List!TimeAt(c, s[x]) \in Nat
      <4>1. Written(c, s[x], At(c, x), events) /\ events[At(c, x)] \in Event
        BY <1>8, ElementOfSeq
      <4> QED BY <4>1 DEF Written, List!TimeAt, Event
    <3> QED BY <3>1, <3>2, <3>3, <3>4 DEF Ahead
  <2> QED BY <1>11, <2>1
<1>12. ListHolds(c, events)
  BY <1>6, <1>8, <1>9, <1>11 DEF ListHolds
<1>13. \A i, j \in 1 .. n : i < j => Ahead(c, c.offsets[i], c.offsets[j])
  BY <1>6, <1>10
<1> QED BY <1>3, <1>12, <1>13

Kinds == {"native", "loaded"}
Lists == Filled \cup Words

(* A list whose sort is done. *)
InSequence(kind, l) ==
  /\ kind = "native" =>
       \A i, j \in 1 .. Len(l.slots) : i < j => Buffer!Before(l.slots[i], l.slots[j])
  /\ kind = "loaded" =>
       \A i, j \in 1 .. Len(l.offsets) : i < j => Ahead(l, l.offsets[i], l.offsets[j])

(* The empty lists hold the empty history. *)
LEMMA EmptyHolds ==
  ASSUME NEW kind \in Kinds
  PROVE  /\ EmptyList(kind) \in Lists /\ Holds(kind, EmptyList(kind), <<>>)
         /\ kind = "loaded" => Unmoved(EmptyList(kind))
         /\ InSequence(kind, EmptyList(kind))
<1>1. /\ <<>> \in Seq(Event) /\ <<>> \in Seq(Nat) /\ <<>> \in Seq(Slots)
      /\ <<>> \in Seq(Event \cup Nat) /\ Len(<<>>) = 0 /\ 1 .. 0 = {}
  OBVIOUS
<1>2. Numbered(<<>>) /\ Len(<<>>) <= EventCapacity
  BY <1>1, TestHostAssumption DEF Numbered
<1>3. CASE kind = "native"
  <2>1. EmptyList(kind) = [slots |-> <<>>, bytes |-> <<>>]
    BY <1>3 DEF EmptyList, Buffer!Empty
  <2> DEFINE b == [slots |-> <<>>, bytes |-> <<>>]
  <2>2. b \in Filled /\ b.slots = <<>>
    BY <1>1 DEF Filled
  <2> HIDE DEF b
  <2>3. BufferHolds(b, <<>>)
    BY <1>1, <2>2 DEF BufferHolds
  <2>4. InSequence(kind, b)
    BY <1>1, <1>3, <2>2 DEF InSequence
  <2> QED BY <1>1, <1>2, <1>3, <2>1, <2>2, <2>3, <2>4 DEF Holds, Lists, b
<1>4. CASE kind = "loaded"
  <2>1. EmptyList(kind) = [words |-> <<>>, offsets |-> <<>>]
    BY <1>4 DEF EmptyList, List!Empty
  <2> DEFINE l == [words |-> <<>>, offsets |-> <<>>]
  <2>2. l \in Words /\ l.offsets = <<>>
    BY <1>1 DEF Words
  <2> HIDE DEF l
  <2>3. ListHolds(l, <<>>) /\ Unmoved(l)
    BY <1>1, <2>2 DEF ListHolds, Unmoved
  <2>4. InSequence(kind, l)
    BY <1>1, <1>4, <2>2 DEF InSequence
  <2> QED BY <1>1, <1>2, <1>4, <2>1, <2>2, <2>3, <2>4 DEF Holds, Lists, l
<1> QED BY <1>3, <1>4 DEF Kinds

(* A push that is accepted keeps both kinds of list true to their history, one event
   longer. *)
LEMMA PushHolds ==
  ASSUME NEW kind \in Kinds, NEW events, NEW l \in Lists, Holds(kind, l, events),
         NEW e \in Event, e.id = Len(events) + 1,
         NEW more, more = IF Accepts(kind, l, e) THEN Append(events, e) ELSE events
  PROVE  /\ Push(kind, l, e) \in Lists /\ Holds(kind, Push(kind, l, e), more)
         /\ (kind = "loaded" /\ Unmoved(l)) => Unmoved(Push(kind, l, e))
<1>1. events \in Seq(Event) /\ Numbered(events) /\ Len(events) \in Nat /\ EventCapacity \in Nat
  BY LenProperties, TestHostAssumption DEF Holds
<1>2. CASE kind = "native"
  <2>1. /\ Push(kind, l, e) = Buffer!TryPush(l, e) /\ BufferHolds(l, events)
        /\ Accepts(kind, l, e) = Buffer!Accepts(l, e)
    BY <1>2 DEF Push, Holds, Accepts
  <2>2. CASE Buffer!Accepts(l, e)
    <3>1. BufferHolds(Buffer!TryPush(l, e), Append(events, e)) /\ Len(events) < EventCapacity
      BY <1>1, <2>1, <2>2, BufferPush
    <3>2. more = Append(events, e) /\ more \in Seq(Event) /\ Numbered(more)
          /\ Len(more) = Len(events) + 1
      BY <1>1, <2>1, <2>2, AppendedEvents
    <3>3. Len(more) <= EventCapacity
      BY <1>1, <3>1, <3>2
    <3>4. Buffer!TryPush(l, e) \in Lists
      BY <3>1 DEF BufferHolds, Lists
    <3> QED BY <1>2, <2>1, <3>1, <3>2, <3>3, <3>4 DEF Holds
  <2>3. CASE ~Buffer!Accepts(l, e)
    BY <1>2, <2>1, <2>3 DEF Buffer!TryPush
  <2> QED BY <2>2, <2>3
<1>3. CASE kind = "loaded"
  <2>1. /\ Push(kind, l, e) = List!TryPush(l, e) /\ ListHolds(l, events)
        /\ Accepts(kind, l, e) = List!Accepts(l, e)
    BY <1>3 DEF Push, Holds, Accepts
  <2>2. CASE List!Accepts(l, e)
    <3>1. /\ ListHolds(List!TryPush(l, e), Append(events, e)) /\ Len(events) < EventCapacity
          /\ Unmoved(l) => Unmoved(List!TryPush(l, e))
      BY <1>1, <2>1, <2>2, ListPush
    <3>2. more = Append(events, e) /\ more \in Seq(Event) /\ Numbered(more)
          /\ Len(more) = Len(events) + 1
      BY <1>1, <2>1, <2>2, AppendedEvents
    <3>3. Len(more) <= EventCapacity
      BY <1>1, <3>1, <3>2
    <3>4. List!TryPush(l, e) \in Lists
      BY <3>1 DEF ListHolds, Lists
    <3> QED BY <1>3, <2>1, <3>1, <3>2, <3>3, <3>4 DEF Holds
  <2>3. CASE ~List!Accepts(l, e)
    BY <1>3, <2>1, <2>3 DEF List!TryPush
  <2> QED BY <2>2, <2>3
<1> QED BY <1>2, <1>3 DEF Kinds

(* Sorting keeps a list true to its history and puts it in sequence. *)
LEMMA SortHolds ==
  ASSUME NEW kind \in Kinds, NEW events, NEW l, Holds(kind, l, events),
         kind = "loaded" => Unmoved(l), NEW c \in Sorts(kind, l)
  PROVE  c \in Lists /\ Holds(kind, c, events) /\ InSequence(kind, c)
<1>1. events \in Seq(Event) /\ Numbered(events)
  BY DEF Holds
<1>2. CASE kind = "native"
  <2>1. BufferHolds(l, events) /\ c \in Buffer!Sorted(l)
    BY <1>2 DEF Holds, Sorts
  <2>2. /\ BufferHolds(c, events)
        /\ \A i, j \in 1 .. Len(events) : i < j => Buffer!Before(c.slots[i], c.slots[j])
    BY <1>1, <2>1, BufferSort
  <2>3. Holds(kind, c, events) /\ c \in Lists
    BY <1>2, <2>2 DEF Holds, Lists, BufferHolds
  <2>4. InSequence(kind, c)
    BY <1>2, <2>2 DEF InSequence, BufferHolds
  <2> QED BY <2>3, <2>4
<1>3. CASE kind = "loaded"
  <2>1. ListHolds(l, events) /\ c = List!SortByTime(l)
    BY <1>3 DEF Holds, Sorts
  <2>2. /\ ListHolds(c, events)
        /\ \A i, j \in 1 .. Len(events) : i < j => Ahead(c, c.offsets[i], c.offsets[j])
    BY <1>1, <1>3, <2>1, ListSort
  <2>3. Holds(kind, c, events) /\ c \in Lists
    BY <1>3, <2>2 DEF Holds, Lists, ListHolds
  <2>4. InSequence(kind, c)
    BY <1>3, <2>2 DEF InSequence, ListHolds
  <2> QED BY <2>3, <2>4
<1> QED BY <1>2, <1>3 DEF Kinds

(* What is read from a list true to its history shows that history, in the list's order. *)
LEMMA ReadsBack ==
  ASSUME NEW kind \in Kinds, NEW events, NEW l, Holds(kind, l, events)
  PROVE  /\ Shows(Read(kind, l), events) /\ Len(Read(kind, l)) <= EventCapacity
         /\ InSequence(kind, l) => InOrder(Read(kind, l), Earlier)
         /\ (kind = "loaded" /\ Unmoved(l)) => InOrder(Read(kind, l), LAMBDA e, f : e.id < f.id)
<1> DEFINE n == Len(events)  seen == Read(kind, l)
<1>1. events \in Seq(Event) /\ Numbered(events) /\ n <= EventCapacity
  BY DEF Holds
<1>2. Shows(seen, events) => Len(seen) = n
  BY DEF Shows
<1>3. CASE kind = "native"
  <2>1. BufferHolds(l, events) /\ seen = Buffer!Read(l)
    BY <1>3 DEF Holds, Read
  <2>2. /\ Shows(seen, events) /\ DOMAIN seen = 1 .. n
        /\ \A i \in 1 .. n : seen[i].time = l.slots[i].time /\ seen[i].id = l.slots[i].id
    BY <1>1, <2>1, BufferReads
  <2> HIDE DEF seen
  <2>3. ASSUME InSequence(kind, l), NEW i \in 1 .. n, NEW j \in 1 .. n, i < j
        PROVE  Earlier(seen[i], seen[j])
    <3> DEFINE s == l.slots[i]  t == l.slots[j]
    <3>1. Buffer!Before(s, t)
      BY <1>3, <2>1, <2>3 DEF InSequence, BufferHolds
    <3>2. Stored(l, s, events) /\ Stored(l, t, events) /\ s \in Slots /\ t \in Slots
      BY <2>1, ElementOfSeq DEF BufferHolds, Filled
    <3>3. s.id # t.id
      <4>1. l.slots[i].id = l.slots[j].id => i = j
        BY <2>1 DEF BufferHolds
      <4>2. i # j
        BY <2>3
      <4> QED BY <4>1, <4>2
    <3>4. /\ seen[i].time = s.time /\ seen[i].id = s.id
          /\ seen[j].time = t.time /\ seen[j].id = t.id
      BY <2>2
    <3>5. /\ s.time \in Nat /\ t.time \in Nat /\ s.seq \in Nat /\ t.seq \in Nat
          /\ s.seq + 1 = s.id /\ t.seq + 1 = t.id
      BY <3>2 DEF Stored, Slots
    <3>6. s.time < t.time \/ (s.time = t.time /\ s.seq <= t.seq)
      BY <3>1 DEF Buffer!Before
    <3> HIDE DEF s, t
    <3>7. s.time < t.time \/ (s.time = t.time /\ s.id < t.id)
      BY <3>3, <3>5, <3>6
    <3> QED BY <3>4, <3>7 DEF Earlier
  <2>4. InSequence(kind, l) => InOrder(seen, Earlier)
    BY <2>2, <2>3 DEF InOrder
  <2> QED BY <1>1, <1>2, <1>3, <2>2, <2>4 DEF seen
<1>4. CASE kind = "loaded"
  <2>1. ListHolds(l, events) /\ seen = List!Read(l)
    BY <1>4 DEF Holds, Read
  <2>2. /\ Shows(seen, events) /\ DOMAIN seen = 1 .. n
        /\ \A i \in 1 .. n : /\ seen[i].time = l.words[l.offsets[i] + 1].time
                             /\ seen[i].id = At(l, i)
    BY <1>1, <2>1, ListReads
  <2> HIDE DEF seen
  <2>3. ASSUME InSequence(kind, l), NEW i \in 1 .. n, NEW j \in 1 .. n, i < j
        PROVE  Earlier(seen[i], seen[j])
    <3>1. Ahead(l, l.offsets[i], l.offsets[j])
      BY <1>4, <2>1, <2>3 DEF InSequence, ListHolds
    <3> QED BY <2>2, <3>1 DEF Earlier, Ahead, At, IdAt, List!TimeAt
  <2>4. InSequence(kind, l) => InOrder(seen, Earlier)
    BY <2>2, <2>3 DEF InOrder
  <2>5. ASSUME Unmoved(l), NEW i \in 1 .. n, NEW j \in 1 .. n, i < j
        PROVE  seen[i].id < seen[j].id
    <3>1. Len(l.offsets) = n
      BY <2>1 DEF ListHolds
    <3>2. At(l, i) = i /\ At(l, j) = j
      BY <2>5, <3>1 DEF Unmoved
    <3> QED BY <2>2, <2>5, <3>2
  <2>6. Unmoved(l) => InOrder(seen, LAMBDA e, f : e.id < f.id)
    BY <2>2, <2>5 DEF InOrder
  <2> QED BY <1>1, <1>2, <1>4, <2>2, <2>4, <2>6 DEF seen
<1> QED BY <1>3, <1>4 DEF Kinds

-----------------------------------------------------------------------------
(* An instance whose lists hold what their histories say. *)
Instance ==
  [kind : Kinds, life : {"running", "stopped", "poisoned", "gone"}, shape : Nat,
   input : Lists, output : Lists, accepted : Seq(Event), pushed : Seq(Event)]

Sound(x) ==
  /\ x \in Instance
  /\ Holds(x.kind, x.input, x.accepted) /\ Holds(x.kind, x.output, x.pushed)
  /\ x.kind = "loaded" => Unmoved(x.input)

Calling(i) == at.stage = "process" /\ at.who = i

(* Where the host's thread is. *)
Places == [stage : {"idle", "process", "take", "work"}, who : Nat, hand : Seq(Nat), pushes : Nat]

PlaceInv ==
  /\ at \in Places /\ at.who \in 0 .. Len(instances)
  /\ at.stage # "idle" => at.who # 0
  /\ at.stage \in {"idle", "process"} => at.hand = <<>>

ListsInv ==
  /\ instances \in Seq(Instance) /\ Len(instances) <= MaxInstances
  /\ \A i \in 1 .. Len(instances) : Sound(instances[i])

(* The lists whose sort the host relies on: the output between blocks, and in a block the
   input of a native instance; the output of a loaded one is still as it was pushed. *)
OrderInv ==
  \A i \in 1 .. Len(instances) :
    LET x == instances[i] IN
    /\ Calling(i) \/ InSequence(x.kind, x.output)
    /\ Calling(i) => IF x.kind = "native" THEN InSequence(x.kind, x.input) ELSE Unmoved(x.output)

(* The line of the tasks: those that ran, those in hand and those queued. *)
Line == ran \o at.hand \o worker

Ascending(s) == \A i, j \in 1 .. Len(s) : i < j => s[i] < s[j]

Accounted(s, n, gone) ==
  /\ Range(s) \cup gone = 1 .. n /\ Range(s) \cap gone = {}
  /\ Ascending(s)

LineInv ==
  /\ tasks \in Nat /\ worker \in Seq(1 .. tasks) /\ Len(worker) <= WorkerCapacity
  /\ ran \in Seq(Nat)
  /\ Accounted(Line, tasks, spent)

HostInv == PlaceInv /\ ListsInv /\ OrderInv /\ LineInv

HostSets == /\ NoteTimes \subseteq Nat /\ Times \subseteq Nat /\ Shapes \subseteq Nat
            /\ WorkerCapacity \in Nat /\ EventCapacity \in Nat /\ MaxInstances \in Nat

(* What the assumption on the constants gives the proofs. *)
LEMMA HostConstants == HostSets
BY TestHostAssumption DEF HostSets

(* An instance field by field. *)
Made(kind, life, shape, input, output, accepted, pushed) ==
  [kind |-> kind, life |-> life, shape |-> shape, input |-> input, output |-> output,
   accepted |-> accepted, pushed |-> pushed]

(* A sound instance is the record of its fields, each of its type. *)
LEMMA FieldsOf ==
  ASSUME NEW x, Sound(x)
  PROVE  /\ x = Made(x.kind, x.life, x.shape, x.input, x.output, x.accepted, x.pushed)
         /\ x.kind \in Kinds /\ x.life \in {"running", "stopped", "poisoned", "gone"}
         /\ x.shape \in Nat /\ x.input \in Lists /\ x.output \in Lists
         /\ x.accepted \in Seq(Event) /\ x.pushed \in Seq(Event)
BY DEF Sound, Instance, Made

(* A record whose lists hold their histories is a sound instance. *)
LEMMA MadeSound ==
  ASSUME NEW kind \in Kinds, NEW life \in {"running", "stopped", "poisoned", "gone"},
         NEW shape \in Nat, NEW input \in Lists, NEW output \in Lists,
         NEW accepted, NEW pushed, Holds(kind, input, accepted), Holds(kind, output, pushed),
         kind = "loaded" => Unmoved(input)
  PROVE  /\ Sound(Made(kind, life, shape, input, output, accepted, pushed))
         /\ Made(kind, life, shape, input, output, accepted, pushed).kind = kind
         /\ Made(kind, life, shape, input, output, accepted, pushed).input = input
         /\ Made(kind, life, shape, input, output, accepted, pushed).output = output
<1>1. accepted \in Seq(Event) /\ pushed \in Seq(Event)
  BY DEF Holds
<1>2. Made(kind, life, shape, input, output, accepted, pushed) \in Instance
  BY <1>1 DEF Made, Instance
<1> QED BY <1>2 DEF Made, Sound

(* One instance changes, or one comes. *)
LEMMA OneChanges ==
  ASSUME ListsInv, NEW i \in 1 .. Len(instances), NEW y, Sound(y),
         instances' = [instances EXCEPT ![i] = y]
  PROVE  /\ ListsInv' /\ Len(instances') = Len(instances) /\ instances'[i] = y
         /\ \A j \in 1 .. Len(instances) : j # i => instances'[j] = instances[j]
<1> DEFINE n == Len(instances)  s == [instances EXCEPT ![i] = y]
<1>1. instances \in Seq(Instance) /\ n \in Nat /\ y \in Instance /\ DOMAIN instances = 1 .. n
  BY LenProperties DEF ListsInv, Sound
<1>2. /\ s \in Seq(Instance) /\ Len(s) = n /\ s[i] = y
      /\ \A j \in 1 .. n : j # i => s[j] = instances[j]
  BY <1>1, ExceptSeq
<1> HIDE DEF s
<1>3. instances' = s
  BY DEF s
<1>4. \A j \in 1 .. n : Sound(s[j])
  BY <1>2 DEF ListsInv
<1>5. ListsInv'
  <2>1. Len(instances') = n /\ n <= MaxInstances
    BY <1>2, <1>3 DEF ListsInv
  <2>2. \A j \in 1 .. n : Sound(instances'[j])
    BY <1>3, <1>4
  <2> QED BY <1>2, <1>3, <2>1, <2>2 DEF ListsInv
<1> QED BY <1>2, <1>3, <1>5

(* A new instance behind the others leaves them sound. *)
LEMMA OneComes ==
  ASSUME ListsInv, Len(instances) < MaxInstances, NEW y, Sound(y),
         instances' = Append(instances, y)
  PROVE  /\ ListsInv' /\ Len(instances') = Len(instances) + 1 /\ Len(instances) \in Nat
         /\ instances'[Len(instances) + 1] = y
         /\ \A j \in 1 .. Len(instances) : instances'[j] = instances[j]
<1> DEFINE n == Len(instances)  s == Append(instances, y)
<1>1. instances \in Seq(Instance) /\ n \in Nat /\ y \in Instance /\ n < MaxInstances
  BY LenProperties DEF ListsInv, Sound
<1>2. /\ s \in Seq(Instance) /\ Len(s) = n + 1 /\ s[n + 1] = y
      /\ \A j \in 1 .. n : s[j] = instances[j]
  BY <1>1, AppendProperties
<1> HIDE DEF s
<1>3. instances' = s
  BY DEF s
<1>4. \A j \in 1 .. n + 1 : Sound(s[j])
  <2> TAKE j \in 1 .. n + 1
  <2>1. CASE j = n + 1
    BY <1>2, <2>1
  <2>2. CASE j # n + 1
    <3>1. j \in 1 .. n
      BY <1>1, <2>2
    <3> QED BY <1>2, <3>1 DEF ListsInv
  <2> QED BY <2>1, <2>2
<1>5. ListsInv'
  <2>1. Len(instances') = n + 1 /\ n + 1 <= MaxInstances
    BY <1>1, <1>2, <1>3, HostConstants DEF HostSets
  <2>2. \A j \in 1 .. n + 1 : Sound(instances'[j])
    BY <1>3, <1>4
  <2> QED BY <1>2, <1>3, <2>1, <2>2 DEF ListsInv
<1> QED BY <1>1, <1>2, <1>3, <1>5

BlockInv == PlaceInv /\ ListsInv /\ OrderInv

(* The instances are numbered from one, and those alive are some of them. *)
LEMMA IdsAre ==
  ASSUME ListsInv
  PROVE  /\ Ids = 1 .. Len(instances) /\ Len(instances) \in Nat
         /\ \A i \in Ids : Sound(instances[i])
         /\ Alive \subseteq Ids
BY LenProperties DEF ListsInv, Ids, Alive

(* Between blocks, an instance changes and its output is in order. *)
LEMMA IdleChange ==
  ASSUME BlockInv, at = Idle, at' = at, NEW i \in 1 .. Len(instances), NEW y, Sound(y),
         InSequence(y.kind, y.output), instances' = [instances EXCEPT ![i] = y]
  PROVE  BlockInv'
<1>1. /\ ListsInv' /\ Len(instances') = Len(instances) /\ instances'[i] = y
      /\ \A j \in 1 .. Len(instances) : j # i => instances'[j] = instances[j]
  BY OneChanges DEF BlockInv
<1>2. at.stage = "idle" /\ at'.stage = "idle"
  BY DEF Idle
<1>3. PlaceInv'
  BY <1>1 DEF BlockInv, PlaceInv, Places
<1>4. \A j \in 1 .. Len(instances') : InSequence(instances'[j].kind, instances'[j].output)
  <2> TAKE j \in 1 .. Len(instances')
  <2>1. CASE j = i
    BY <1>1, <2>1
  <2>2. CASE j # i
    <3>1. InSequence(instances[j].kind, instances[j].output)
      BY <1>1, <1>2 DEF BlockInv, OrderInv, Calling
    <3> QED BY <1>1, <2>2, <3>1
  <2> QED BY <2>1, <2>2
<1>5. \A j \in 1 .. Len(instances') : ~Calling(j)'
  BY <1>2 DEF Calling
<1>6. OrderInv'
  BY <1>4, <1>5 DEF OrderInv
<1> QED BY <1>1, <1>3, <1>6 DEF BlockInv

(* The host's thread moves outside a block, and no instance changes. *)
LEMMA HostMoves ==
  ASSUME BlockInv, at.stage # "process", instances' = instances, at'.stage # "process",
         at' \in Places, at'.who \in 0 .. Len(instances),
         at'.stage # "idle" => at'.who # 0, at'.stage = "idle" => at'.hand = <<>>
  PROVE  BlockInv'
<1>1. \A j : ~Calling(j) /\ ~Calling(j)'
  BY DEF Calling
<1>2. PlaceInv'
  BY DEF PlaceInv
<1>3. ListsInv'
  BY DEF BlockInv, ListsInv
<1>4. OrderInv'
  <2>1. \A j \in 1 .. Len(instances) : InSequence(instances[j].kind, instances[j].output)
    BY <1>1 DEF BlockInv, OrderInv
  <2>2. \A j \in 1 .. Len(instances') : InSequence(instances'[j].kind, instances'[j].output)
    BY <2>1
  <2> QED BY <1>1, <2>2 DEF OrderInv
<1> QED BY <1>2, <1>3, <1>4 DEF BlockInv

(* A new instance comes with empty lists. *)
LEMMA InstallStep ==
  ASSUME BlockInv, NEW kind \in Kinds, InstallPlugin(kind)
  PROVE  BlockInv'
<1> DEFINE y == NewInstance(kind)
<1>1. y = Made(kind, "running", 0, EmptyList(kind), EmptyList(kind), <<>>, <<>>)
  BY DEF NewInstance, Made
<1>2. /\ EmptyList(kind) \in Lists /\ Holds(kind, EmptyList(kind), <<>>)
      /\ kind = "loaded" => Unmoved(EmptyList(kind))
      /\ InSequence(kind, EmptyList(kind))
  BY EmptyHolds
<1>3. Sound(y) /\ y.kind = kind /\ y.output = EmptyList(kind)
  BY <1>1, <1>2, MadeSound
<1> HIDE DEF y
<1>4. /\ ListsInv' /\ Len(instances') = Len(instances) + 1 /\ Len(instances) \in Nat
      /\ instances'[Len(instances) + 1] = y
      /\ \A j \in 1 .. Len(instances) : instances'[j] = instances[j]
  BY <1>3, OneComes DEF BlockInv, InstallPlugin, y
<1>5. at = Idle /\ at' = at /\ at.stage = "idle"
  BY DEF InstallPlugin, Idle
<1>6. PlaceInv'
  BY <1>4, <1>5 DEF BlockInv, PlaceInv, Places
<1>7. \A j \in 1 .. Len(instances') : InSequence(instances'[j].kind, instances'[j].output)
  <2> TAKE j \in 1 .. Len(instances')
  <2>1. CASE j = Len(instances) + 1
    BY <1>2, <1>3, <1>4, <2>1
  <2>2. CASE j # Len(instances) + 1
    <3>1. j \in 1 .. Len(instances)
      BY <1>4, <2>2
    <3>2. InSequence(instances[j].kind, instances[j].output)
      BY <1>5, <3>1 DEF BlockInv, OrderInv, Calling
    <3> QED BY <1>4, <3>1, <3>2
  <2> QED BY <2>1, <2>2
<1>8. \A j \in 1 .. Len(instances') : ~Calling(j)'
  BY <1>5 DEF Calling
<1>9. OrderInv'
  BY <1>7, <1>8 DEF OrderInv
<1> QED BY <1>4, <1>6, <1>9 DEF BlockInv

(* The slot of an unloaded instance keeps its kind, with empty lists. *)
LEMMA UnloadStep ==
  ASSUME BlockInv, NEW i, Unload(i)
  PROVE  BlockInv'
<1>1. i \in 1 .. Len(instances) /\ Sound(instances[i])
  BY IdsAre DEF BlockInv, Unload
<1> DEFINE kind == instances[i].kind  y == [NewInstance(kind) EXCEPT !.life = "gone"]
<1>2. kind \in Kinds
  BY <1>1, FieldsOf
<1> HIDE DEF kind
<1>3. y = Made(kind, "gone", 0, EmptyList(kind), EmptyList(kind), <<>>, <<>>)
  BY DEF NewInstance, Made
<1>4. /\ EmptyList(kind) \in Lists /\ Holds(kind, EmptyList(kind), <<>>)
      /\ kind = "loaded" => Unmoved(EmptyList(kind))
      /\ InSequence(kind, EmptyList(kind))
  BY <1>2, EmptyHolds
<1> HIDE DEF y
<1>5. Sound(y) /\ y.kind = kind /\ y.output = EmptyList(kind)
  BY <1>2, <1>3, <1>4, MadeSound
<1>6. instances' = [instances EXCEPT ![i] = y] /\ at = Idle /\ at' = at
  BY <1>1 DEF Unload, kind, y
<1> QED BY <1>1, <1>4, <1>5, <1>6, IdleChange

(* An event queued, or refused. *)
LEMMA QueuedSound ==
  ASSUME NEW x, Sound(x), NEW time \in Nat
  PROVE  /\ Sound(Queued(x, time)) /\ Queued(x, time).kind = x.kind
         /\ Queued(x, time).output = x.output
<1> DEFINE e == [time |-> time, id |-> Len(x.accepted) + 1, len |-> 0]
           input == Push(x.kind, x.input, e)
           accepted == IF Accepts(x.kind, x.input, e) THEN Append(x.accepted, e) ELSE x.accepted
           y == Made(x.kind, x.life, x.shape, input, x.output, accepted, x.pushed)
<1>1. /\ x = Made(x.kind, x.life, x.shape, x.input, x.output, x.accepted, x.pushed)
      /\ x.kind \in Kinds /\ x.life \in {"running", "stopped", "poisoned", "gone"}
      /\ x.shape \in Nat /\ x.input \in Lists /\ x.output \in Lists
      /\ x.accepted \in Seq(Event) /\ x.pushed \in Seq(Event)
  BY FieldsOf
<1>2. Queued(x, time) = y
  <2> HIDE DEF e
  <2>1. Queued(x, time) = [x EXCEPT !.input = Push(x.kind, @, e),
               !.accepted = IF Accepts(x.kind, x.input, e) THEN Append(@, e) ELSE @]
    BY DEF Queued, e
  <2> QED BY <1>1, <2>1 DEF Made
<1>3. e \in Event /\ e.id = Len(x.accepted) + 1
  BY <1>1, LenProperties DEF Event
<1> HIDE DEF e
<1>4. /\ Holds(x.kind, x.input, x.accepted) /\ Holds(x.kind, x.output, x.pushed)
      /\ x.kind = "loaded" => Unmoved(x.input)
  BY DEF Sound
<1>5. accepted = IF Accepts(x.kind, x.input, e) THEN Append(x.accepted, e) ELSE x.accepted
  OBVIOUS
<1>6. /\ input \in Lists /\ Holds(x.kind, input, accepted)
      /\ (x.kind = "loaded" /\ Unmoved(x.input)) => Unmoved(input)
  <2> HIDE DEF accepted
  <2> QED BY <1>1, <1>3, <1>4, <1>5, PushHolds
<1> HIDE DEF input, accepted
<1>7. /\ Sound(y) /\ y.kind = x.kind /\ y.output = x.output
  BY <1>1, <1>4, <1>6, MadeSound
<1> QED BY <1>2, <1>7

(* A parameter or a note is queued between blocks. *)
LEMMA QueueStep ==
  ASSUME BlockInv, NEW i \in Alive, NEW time \in Nat, at = Idle, at' = at,
         instances' = [instances EXCEPT ![i] = Queued(@, time)]
  PROVE  BlockInv'
<1> DEFINE y == Queued(instances[i], time)
<1>1. i \in 1 .. Len(instances) /\ Sound(instances[i])
  BY IdsAre DEF BlockInv
<1>2. Sound(y) /\ y.kind = instances[i].kind /\ y.output = instances[i].output
  BY <1>1, QueuedSound
<1>3. instances' = [instances EXCEPT ![i] = y]
  BY <1>1
<1>4. InSequence(instances[i].kind, instances[i].output)
  BY <1>1 DEF BlockInv, OrderInv, Calling, Idle
<1> HIDE DEF y
<1>5. InSequence(y.kind, y.output)
  BY <1>2, <1>4
<1> QED BY <1>1, <1>2, <1>3, <1>5, IdleChange

(* A block goes to the plug-in. *)
LEMMA CallStarts ==
  ASSUME BlockInv, at = Idle, NEW i \in 1 .. Len(instances), Calls(i), NEW y, Sound(y),
         IF y.kind = "native" THEN InSequence(y.kind, y.input) ELSE Unmoved(y.output),
         instances' = [instances EXCEPT ![i] = y]
  PROVE  BlockInv'
<1>1. /\ ListsInv' /\ Len(instances') = Len(instances) /\ instances'[i] = y
      /\ \A j \in 1 .. Len(instances) : j # i => instances'[j] = instances[j]
  BY OneChanges DEF BlockInv
<1>2. at.stage = "idle" /\ at' = [stage |-> "process", who |-> i, hand |-> <<>>, pushes |-> 0]
  BY DEF Idle, Calls
<1>3. PlaceInv'
  <2>1. i \in Nat /\ i # 0 /\ <<>> \in Seq(Nat)
    BY IdsAre DEF BlockInv
  <2> QED BY <1>1, <1>2, <2>1 DEF PlaceInv, Places
<1>4. ASSUME NEW j \in 1 .. Len(instances')
      PROVE  /\ Calling(j)' \/ InSequence(instances'[j].kind, instances'[j].output)
             /\ Calling(j)' => IF instances'[j].kind = "native"
                               THEN InSequence(instances'[j].kind, instances'[j].input)
                               ELSE Unmoved(instances'[j].output)
  <2>1. CASE j = i
    <3>1. Calling(j)'
      BY <1>2, <2>1 DEF Calling
    <3> QED BY <1>1, <2>1, <3>1
  <2>2. CASE j # i
    <3>1. InSequence(instances[j].kind, instances[j].output)
      BY <1>1, <1>2 DEF BlockInv, OrderInv, Calling
    <3>2. ~Calling(j)'
      BY <1>2, <2>2 DEF Calling
    <3> QED BY <1>1, <2>2, <3>1, <3>2
  <2> QED BY <2>1, <2>2
<1>5. OrderInv'
  BY <1>4 DEF OrderInv
<1> QED BY <1>1, <1>3, <1>5 DEF BlockInv

(* A block of a native instance starts: the input is sorted, the output emptied. *)
LEMMA ProcessNativeStep ==
  ASSUME BlockInv, NEW i, ProcessNative(i)
  PROVE  BlockInv'
<1> DEFINE x == instances[i]
<1>1. i \in 1 .. Len(instances) /\ Sound(x) /\ at = Idle /\ x.kind = "native" /\ Calls(i)
  BY IdsAre DEF BlockInv, ProcessNative
<1>2. PICK input \in Sorts("native", x.input) :
        instances' = [instances EXCEPT ![i].input = input, ![i].output = EmptyList("native"),
                                       ![i].pushed = <<>>]
  BY DEF ProcessNative
<1>3. /\ x = Made(x.kind, x.life, x.shape, x.input, x.output, x.accepted, x.pushed)
      /\ x.life \in {"running", "stopped", "poisoned", "gone"} /\ x.shape \in Nat
  BY <1>1, FieldsOf
<1>4. Holds("native", x.input, x.accepted)
  BY <1>1 DEF Sound
<1>5. input \in Lists /\ Holds("native", input, x.accepted) /\ InSequence("native", input)
  <2>1. "native" \in Kinds
    BY DEF Kinds
  <2> HIDE DEF x
  <2>2. "native" = "loaded" => Unmoved(x.input)
    OBVIOUS
  <2> QED BY <1>2, <1>4, <2>1, <2>2, SortHolds
<1>6. EmptyList("native") \in Lists /\ Holds("native", EmptyList("native"), <<>>)
  BY EmptyHolds DEF Kinds
<1> DEFINE y == Made("native", x.life, x.shape, input, EmptyList("native"), x.accepted, <<>>)
<1>7. Sound(y) /\ y.kind = "native" /\ y.input = input
  <2>1. "native" \in Kinds
    BY DEF Kinds
  <2> HIDE DEF x
  <2>2. "native" = "loaded" => Unmoved(input)
    OBVIOUS
  <2> QED BY <1>3, <1>5, <1>6, <2>1, <2>2, MadeSound
<1>8. instances' = [instances EXCEPT ![i] = y]
  <2>1. [x EXCEPT !.input = input, !.output = EmptyList("native"), !.pushed = <<>>] = y
    <3> DEFINE z == Made(x.kind, x.life, x.shape, x.input, x.output, x.accepted, x.pushed)
    <3>1. [z EXCEPT !.input = input]
          = Made(x.kind, x.life, x.shape, input, x.output, x.accepted, x.pushed)
      BY DEF Made
    <3>2. [Made(x.kind, x.life, x.shape, input, x.output, x.accepted, x.pushed)
              EXCEPT !.output = EmptyList("native")]
          = Made(x.kind, x.life, x.shape, input, EmptyList("native"), x.accepted, x.pushed)
      BY DEF Made
    <3>3. [Made(x.kind, x.life, x.shape, input, EmptyList("native"), x.accepted, x.pushed)
              EXCEPT !.pushed = <<>>]
          = Made(x.kind, x.life, x.shape, input, EmptyList("native"), x.accepted, <<>>)
      BY DEF Made
    <3>4. [z EXCEPT !.input = input, !.output = EmptyList("native"), !.pushed = <<>>] = y
      BY <1>1, <3>1, <3>2, <3>3
    <3> QED BY <1>3, <3>4
  <2>2. instances' = [instances EXCEPT ![i] =
           [x EXCEPT !.input = input, !.output = EmptyList("native"), !.pushed = <<>>]]
    BY <1>2
  <2> QED BY <2>1, <2>2
<1> HIDE DEF y
<1>9. IF y.kind = "native" THEN InSequence(y.kind, y.input) ELSE Unmoved(y.output)
  BY <1>5, <1>7
<1> QED BY <1>1, <1>7, <1>8, <1>9, CallStarts

(* A block rebuilt, or not. *)
LEMMA ReshapedSound ==
  ASSUME NEW x, Sound(x), x.kind = "loaded", NEW shape \in Shapes, InSequence(x.kind, x.output)
  PROVE  LET y == Reshape(x, shape)
         IN /\ Sound(y) /\ y.kind = "loaded" /\ InSequence("loaded", y.output)
            /\ y = Made("loaded", x.life, y.shape, x.input, y.output, x.accepted, y.pushed)
            /\ y.shape \in Nat /\ y.output \in Lists /\ Holds("loaded", y.output, y.pushed)
<1>1. /\ x = Made(x.kind, x.life, x.shape, x.input, x.output, x.accepted, x.pushed)
      /\ x.life \in {"running", "stopped", "poisoned", "gone"} /\ x.shape \in Nat
      /\ x.input \in Lists /\ x.output \in Lists
  BY FieldsOf
<1>2. /\ Holds("loaded", x.input, x.accepted) /\ Holds("loaded", x.output, x.pushed)
      /\ Unmoved(x.input)
  BY DEF Sound
<1>3. shape \in Nat
  BY HostConstants DEF HostSets
<1>4. "loaded" \in Kinds
  BY DEF Kinds
<1>5. /\ List!Empty \in Lists /\ Holds("loaded", List!Empty, <<>>)
      /\ InSequence("loaded", List!Empty)
  <2>1. EmptyList("loaded") = List!Empty
    BY DEF EmptyList
  <2> QED BY <1>4, <2>1, EmptyHolds
<1>6. CASE x.shape = shape
  <2>1. Reshape(x, shape) = x
    BY <1>6 DEF Reshape
  <2> QED BY <1>1, <1>2, <2>1
<1>7. CASE x.shape # shape
  <2> DEFINE y == Made("loaded", x.life, shape, x.input, List!Empty, x.accepted, <<>>)
  <2>1. Reshape(x, shape) = y
    <3> DEFINE z == Made(x.kind, x.life, x.shape, x.input, x.output, x.accepted, x.pushed)
    <3>1. Reshape(x, shape) = [x EXCEPT !.shape = shape, !.output = List!Empty, !.pushed = <<>>]
      BY <1>7 DEF Reshape
    <3>2. [z EXCEPT !.shape = shape]
          = Made(x.kind, x.life, shape, x.input, x.output, x.accepted, x.pushed)
      BY DEF Made
    <3>3. [Made(x.kind, x.life, shape, x.input, x.output, x.accepted, x.pushed)
              EXCEPT !.output = List!Empty]
          = Made(x.kind, x.life, shape, x.input, List!Empty, x.accepted, x.pushed)
      BY DEF Made
    <3>4. [Made(x.kind, x.life, shape, x.input, List!Empty, x.accepted, x.pushed)
              EXCEPT !.pushed = <<>>]
          = Made(x.kind, x.life, shape, x.input, List!Empty, x.accepted, <<>>)
      BY DEF Made
    <3>5. [z EXCEPT !.shape = shape, !.output = List!Empty, !.pushed = <<>>] = y
      BY <3>2, <3>3, <3>4
    <3> QED BY <1>1, <3>1, <3>5
  <2>2. Sound(y) /\ y.kind = "loaded" /\ y.output = List!Empty
    BY <1>1, <1>2, <1>3, <1>4, <1>5, MadeSound
  <2>3. y.shape = shape /\ y.pushed = <<>>
    BY DEF Made
  <2>4. y = Made("loaded", x.life, y.shape, x.input, y.output, x.accepted, y.pushed)
    BY <2>2, <2>3
  <2> HIDE DEF y
  <2> QED BY <1>3, <1>5, <2>1, <2>2, <2>3, <2>4
<1> QED BY <1>6, <1>7

(* A block of a loaded instance starts: the output is emptied for the guest. *)
LEMMA ProcessLoadedStep ==
  ASSUME BlockInv, NEW i, NEW shape \in Shapes, ProcessLoaded(i, shape)
  PROVE  BlockInv'
<1> DEFINE x == instances[i]  r == Reshape(x, shape)
           y == Made("loaded", x.life, r.shape, x.input, List!Empty, x.accepted, <<>>)
<1>1. /\ i \in 1 .. Len(instances) /\ Sound(x) /\ at = Idle /\ x.kind = "loaded" /\ Calls(i)
      /\ instances' = [instances EXCEPT ![i] = [r EXCEPT !.output = List!Empty, !.pushed = <<>>]]
  BY IdsAre DEF BlockInv, ProcessLoaded
<1>2. InSequence(x.kind, x.output)
  BY <1>1 DEF BlockInv, OrderInv, Calling, Idle
<1>3. /\ r = Made("loaded", x.life, r.shape, x.input, r.output, x.accepted, r.pushed)
      /\ r.shape \in Nat
  <2> HIDE DEF x
  <2> QED BY <1>1, <1>2, ReshapedSound
<1>4. /\ x.life \in {"running", "stopped", "poisoned", "gone"} /\ x.input \in Lists
      /\ Holds("loaded", x.input, x.accepted) /\ Unmoved(x.input)
  BY <1>1, FieldsOf DEF Sound
<1>5. "loaded" \in Kinds /\ EmptyList("loaded") = List!Empty
  BY DEF Kinds, EmptyList
<1>6. /\ List!Empty \in Lists /\ Holds("loaded", List!Empty, <<>>) /\ Unmoved(List!Empty)
  BY <1>5, EmptyHolds
<1> HIDE DEF x, r
<1>7. Sound(y) /\ y.kind = "loaded" /\ y.output = List!Empty
  BY <1>3, <1>4, <1>5, <1>6, MadeSound
<1>8. [r EXCEPT !.output = List!Empty, !.pushed = <<>>] = y
  <2> DEFINE z == Made("loaded", x.life, r.shape, x.input, r.output, x.accepted, r.pushed)
  <2>1. [z EXCEPT !.output = List!Empty]
        = Made("loaded", x.life, r.shape, x.input, List!Empty, x.accepted, r.pushed)
    BY DEF Made
  <2>2. [Made("loaded", x.life, r.shape, x.input, List!Empty, x.accepted, r.pushed)
            EXCEPT !.pushed = <<>>]
        = Made("loaded", x.life, r.shape, x.input, List!Empty, x.accepted, <<>>)
    BY DEF Made
  <2>3. [z EXCEPT !.output = List!Empty, !.pushed = <<>>] = y
    BY <2>1, <2>2
  <2> QED BY <1>3, <2>3
<1> HIDE DEF y
<1>9. IF y.kind = "native" THEN InSequence(y.kind, y.input) ELSE Unmoved(y.output)
  BY <1>6, <1>7
<1>10. instances' = [instances EXCEPT ![i] = y]
  BY <1>1, <1>8
<1> QED BY <1>1, <1>7, <1>9, <1>10, CallStarts

(* The runtime refuses a block: the input is emptied, the output too where it is rebuilt. *)
LEMMA ProcessRefusedStep ==
  ASSUME BlockInv, NEW i, NEW shape \in Shapes, ProcessRefused(i, shape)
  PROVE  BlockInv'
<1> DEFINE x == instances[i]  r == Reshape(x, shape)
           y == Made("loaded", x.life, r.shape, List!Empty, r.output, <<>>, r.pushed)
<1>1. /\ i \in 1 .. Len(instances) /\ Sound(x) /\ at = Idle /\ at' = at /\ x.kind = "loaded"
      /\ instances' = [instances EXCEPT ![i] = [r EXCEPT !.input = List!Empty, !.accepted = <<>>]]
  BY IdsAre DEF BlockInv, ProcessRefused
<1>2. InSequence(x.kind, x.output)
  BY <1>1 DEF BlockInv, OrderInv, Calling, Idle
<1>3. /\ r = Made("loaded", x.life, r.shape, x.input, r.output, x.accepted, r.pushed)
      /\ r.shape \in Nat /\ r.output \in Lists /\ Holds("loaded", r.output, r.pushed)
      /\ InSequence("loaded", r.output)
  <2> HIDE DEF x
  <2> QED BY <1>1, <1>2, ReshapedSound
<1>4. x.life \in {"running", "stopped", "poisoned", "gone"}
  BY <1>1, FieldsOf
<1>5. "loaded" \in Kinds /\ EmptyList("loaded") = List!Empty
  BY DEF Kinds, EmptyList
<1>6. /\ List!Empty \in Lists /\ Holds("loaded", List!Empty, <<>>) /\ Unmoved(List!Empty)
  BY <1>5, EmptyHolds
<1> HIDE DEF x, r
<1>7. Sound(y) /\ y.kind = "loaded" /\ y.output = r.output
  BY <1>3, <1>4, <1>5, <1>6, MadeSound
<1>8. [r EXCEPT !.input = List!Empty, !.accepted = <<>>] = y
  <2> DEFINE z == Made("loaded", x.life, r.shape, x.input, r.output, x.accepted, r.pushed)
  <2>1. [z EXCEPT !.input = List!Empty]
        = Made("loaded", x.life, r.shape, List!Empty, r.output, x.accepted, r.pushed)
    BY DEF Made
  <2>2. [Made("loaded", x.life, r.shape, List!Empty, r.output, x.accepted, r.pushed)
            EXCEPT !.accepted = <<>>]
        = Made("loaded", x.life, r.shape, List!Empty, r.output, <<>>, r.pushed)
    BY DEF Made
  <2>3. [z EXCEPT !.input = List!Empty, !.accepted = <<>>] = y
    BY <2>1, <2>2
  <2> QED BY <1>3, <2>3
<1> HIDE DEF y
<1>9. instances' = [instances EXCEPT ![i] = y] /\ InSequence(y.kind, y.output)
  BY <1>1, <1>3, <1>7, <1>8
<1> QED BY <1>1, <1>7, <1>9, IdleChange

(* A reset that fails changes an instance's life and neither of its lists. *)
LEMMA ResetFailsStep ==
  ASSUME BlockInv, NEW i, NEW life \in {"stopped", "poisoned"}, ResetFails(i, life)
  PROVE  BlockInv'
<1> DEFINE x == instances[i]
           y == Made(x.kind, life, x.shape, x.input, x.output, x.accepted, x.pushed)
<1>1. /\ i \in 1 .. Len(instances) /\ Sound(x) /\ at = Idle /\ at' = at
      /\ instances' = [instances EXCEPT ![i].life = life]
  BY IdsAre DEF BlockInv, ResetFails
<1>2. InSequence(x.kind, x.output)
  BY <1>1 DEF BlockInv, OrderInv, Calling, Idle
<1>3. /\ x = Made(x.kind, x.life, x.shape, x.input, x.output, x.accepted, x.pushed)
      /\ x.kind \in Kinds /\ x.shape \in Nat /\ x.input \in Lists /\ x.output \in Lists
      /\ Holds(x.kind, x.input, x.accepted) /\ Holds(x.kind, x.output, x.pushed)
      /\ x.kind = "loaded" => Unmoved(x.input)
  BY <1>1, FieldsOf DEF Sound
<1>4. instances' = [instances EXCEPT ![i] = [x EXCEPT !.life = life]]
  BY <1>1
<1>5. [x EXCEPT !.life = life] = y
  <2> DEFINE z == Made(x.kind, x.life, x.shape, x.input, x.output, x.accepted, x.pushed)
  <2>1. [z EXCEPT !.life = life] = y
    BY DEF Made
  <2> HIDE DEF x
  <2> QED BY <1>3, <2>1
<1> HIDE DEF x
<1>6. life \in {"running", "stopped", "poisoned", "gone"}
  OBVIOUS
<1>7. Sound(y) /\ y.kind = x.kind /\ y.output = x.output
  BY <1>3, <1>6, MadeSound
<1> HIDE DEF y
<1>8. instances' = [instances EXCEPT ![i] = y] /\ InSequence(y.kind, y.output)
  BY <1>2, <1>4, <1>5, <1>7
<1> QED BY <1>1, <1>7, <1>8, IdleChange

(* In a block, the instance it is with changes. *)
LEMMA CalledIs ==
  ASSUME BlockInv, at.stage = "process"
  PROVE  /\ at.who \in 1 .. Len(instances) /\ Sound(instances[at.who]) /\ Calling(at.who)
         /\ IF instances[at.who].kind = "native"
            THEN InSequence(instances[at.who].kind, instances[at.who].input)
            ELSE Unmoved(instances[at.who].output)
         /\ at.hand = <<>>
         /\ \A j \in 1 .. Len(instances) :
              j # at.who => InSequence(instances[j].kind, instances[j].output)
<1>1. at.who \in 0 .. Len(instances) /\ at.who # 0 /\ Len(instances) \in Nat /\ at.hand = <<>>
  BY IdsAre DEF BlockInv, PlaceInv
<1>2. at.who \in 1 .. Len(instances)
  BY <1>1
<1>3. Calling(at.who) /\ \A j : j # at.who => ~Calling(j)
  BY DEF Calling
<1> QED BY <1>1, <1>2, <1>3 DEF BlockInv, ListsInv, OrderInv

(* The plug-in pushes an event in its block: only its own output grows. *)
LEMMA PluginPushesStep ==
  ASSUME BlockInv, NEW time \in Times, NEW len \in {0, 1}, PluginPushes(time, len)
  PROVE  BlockInv'
<1> DEFINE i == at.who  x == instances[i]
           e == [time |-> time, id |-> Len(x.pushed) + 1, len |-> len]
           output == Push(x.kind, x.output, e)
           pushed == IF Accepts(x.kind, x.output, e) THEN Append(x.pushed, e) ELSE x.pushed
           y == Made(x.kind, x.life, x.shape, x.input, output, x.accepted, pushed)
<1>1. /\ at.stage = "process"
      /\ instances' = [instances EXCEPT ![i].output = Push(x.kind, @, e),
           ![i].pushed = IF Accepts(x.kind, x.output, e) THEN Append(@, e) ELSE @]
      /\ at' = [at EXCEPT !.pushes = @ + 1]
  BY DEF PluginPushes
<1>2. /\ i \in 1 .. Len(instances) /\ Sound(x)
      /\ IF x.kind = "native" THEN InSequence(x.kind, x.input) ELSE Unmoved(x.output)
      /\ \A j \in 1 .. Len(instances) : j # i => InSequence(instances[j].kind, instances[j].output)
  BY <1>1, CalledIs
<1>3. /\ x = Made(x.kind, x.life, x.shape, x.input, x.output, x.accepted, x.pushed)
      /\ x.kind \in Kinds /\ x.life \in {"running", "stopped", "poisoned", "gone"}
      /\ x.shape \in Nat /\ x.input \in Lists /\ x.output \in Lists /\ x.pushed \in Seq(Event)
      /\ Holds(x.kind, x.input, x.accepted) /\ Holds(x.kind, x.output, x.pushed)
      /\ x.kind = "loaded" => Unmoved(x.input)
  BY <1>2, FieldsOf DEF Sound
<1>4. instances' = [instances EXCEPT ![i] = y]
  <2> HIDE DEF e
  <2> DEFINE z == Made(x.kind, x.life, x.shape, x.input, x.output, x.accepted, x.pushed)
  <2>1. [z EXCEPT !.output = output]
        = Made(x.kind, x.life, x.shape, x.input, output, x.accepted, x.pushed)
    BY DEF Made
  <2>2. [Made(x.kind, x.life, x.shape, x.input, output, x.accepted, x.pushed)
           EXCEPT !.pushed = pushed] = y
    BY DEF Made
  <2>3. instances' = [instances EXCEPT ![i] = [x EXCEPT !.output = output, !.pushed = pushed]]
    BY <1>1
  <2> HIDE DEF output, pushed, x, i
  <2>4. [x EXCEPT !.output = output, !.pushed = pushed] = y
    BY <1>3, <2>1, <2>2
  <2> HIDE DEF y
  <2> QED BY <2>3, <2>4
<1>5. e \in Event /\ e.id = Len(x.pushed) + 1
  <2>1. time \in Nat /\ len \in Nat
    BY HostConstants DEF HostSets
  <2> HIDE DEF x
  <2> QED BY <1>3, <2>1, LenProperties DEF Event
<1> HIDE DEF e
<1>6. pushed = IF Accepts(x.kind, x.output, e) THEN Append(x.pushed, e) ELSE x.pushed
  OBVIOUS
<1> HIDE DEF pushed, x
<1>7. /\ output \in Lists /\ Holds(x.kind, output, pushed)
      /\ (x.kind = "loaded" /\ Unmoved(x.output)) => Unmoved(output)
  BY <1>3, <1>5, <1>6, PushHolds
<1> HIDE DEF output
<1>8. Sound(y) /\ y.kind = x.kind /\ y.input = x.input /\ y.output = output
  BY <1>3, <1>7, MadeSound
<1> HIDE DEF y
<1>9. IF y.kind = "native" THEN InSequence(y.kind, y.input) ELSE Unmoved(y.output)
  BY <1>2, <1>3, <1>7, <1>8 DEF Kinds
<1>10. /\ ListsInv' /\ Len(instances') = Len(instances) /\ instances'[i] = y
       /\ \A j \in 1 .. Len(instances) : j # i => instances'[j] = instances[j]
  BY <1>2, <1>4, <1>8, OneChanges DEF BlockInv
<1>11. at'.stage = "process" /\ at'.who = i /\ PlaceInv'
  <2>1. at \in Places /\ at.who \in 0 .. Len(instances) /\ at.who # 0 /\ at.hand = <<>>
    BY <1>1 DEF BlockInv, PlaceInv
  <2>2. /\ at' \in Places /\ at'.stage = at.stage /\ at'.who = at.who /\ at'.hand = at.hand
    BY <1>1, <2>1 DEF Places
  <2> QED BY <1>1, <1>10, <2>1, <2>2 DEF PlaceInv
<1>12. ASSUME NEW j \in 1 .. Len(instances')
       PROVE  /\ Calling(j)' \/ InSequence(instances'[j].kind, instances'[j].output)
              /\ Calling(j)' => IF instances'[j].kind = "native"
                                THEN InSequence(instances'[j].kind, instances'[j].input)
                                ELSE Unmoved(instances'[j].output)
  <2>1. CASE j = i
    <3>1. Calling(j)'
      BY <1>11, <2>1 DEF Calling
    <3> QED BY <1>9, <1>10, <2>1, <3>1
  <2>2. CASE j # i
    <3>1. ~Calling(j)'
      BY <1>11, <2>2 DEF Calling
    <3> QED BY <1>2, <1>10, <2>2, <3>1
  <2> QED BY <2>1, <2>2
<1>13. OrderInv'
  BY <1>12 DEF OrderInv
<1> QED BY <1>10, <1>11, <1>13 DEF BlockInv

(* The block ends: the output is in sequence and the input empty. *)
LEMMA ProcessReturnsStep ==
  ASSUME BlockInv, ProcessReturns
  PROVE  BlockInv'
<1> DEFINE i == at.who  x == instances[i]
<1>1. PICK output \in Sorts(x.kind, x.output) :
        /\ at.stage = "process" /\ at' = Idle
        /\ instances' = [instances EXCEPT ![i].output = output, ![i].input = EmptyList(x.kind),
                                          ![i].accepted = <<>>]
  BY DEF ProcessReturns
<1>2. /\ i \in 1 .. Len(instances) /\ Sound(x)
      /\ IF x.kind = "native" THEN InSequence(x.kind, x.input) ELSE Unmoved(x.output)
      /\ \A j \in 1 .. Len(instances) : j # i => InSequence(instances[j].kind, instances[j].output)
  BY <1>1, CalledIs
<1>3. /\ x = Made(x.kind, x.life, x.shape, x.input, x.output, x.accepted, x.pushed)
      /\ x.kind \in Kinds /\ x.life \in {"running", "stopped", "poisoned", "gone"}
      /\ x.shape \in Nat /\ Holds(x.kind, x.output, x.pushed)
  BY <1>2, FieldsOf DEF Sound
<1> DEFINE y == Made(x.kind, x.life, x.shape, EmptyList(x.kind), output, <<>>, x.pushed)
<1>4. instances' = [instances EXCEPT ![i] = y]
  <2> DEFINE z == Made(x.kind, x.life, x.shape, x.input, x.output, x.accepted, x.pushed)
  <2>1. [z EXCEPT !.output = output]
        = Made(x.kind, x.life, x.shape, x.input, output, x.accepted, x.pushed)
    BY DEF Made
  <2>2. [Made(x.kind, x.life, x.shape, x.input, output, x.accepted, x.pushed)
           EXCEPT !.input = EmptyList(x.kind)]
        = Made(x.kind, x.life, x.shape, EmptyList(x.kind), output, x.accepted, x.pushed)
    BY DEF Made
  <2>3. [Made(x.kind, x.life, x.shape, EmptyList(x.kind), output, x.accepted, x.pushed)
           EXCEPT !.accepted = <<>>] = y
    BY DEF Made
  <2>4. instances' = [instances EXCEPT ![i] =
           [x EXCEPT !.output = output, !.input = EmptyList(x.kind), !.accepted = <<>>]]
    BY <1>1
  <2> HIDE DEF x, i
  <2>5. [x EXCEPT !.output = output, !.input = EmptyList(x.kind), !.accepted = <<>>] = y
    BY <1>3, <2>1, <2>2, <2>3
  <2> HIDE DEF y
  <2> QED BY <2>4, <2>5
<1> HIDE DEF x
<1>5. output \in Lists /\ Holds(x.kind, output, x.pushed) /\ InSequence(x.kind, output)
  <2>1. x.kind = "loaded" => Unmoved(x.output)
    BY <1>2
  <2> QED BY <1>1, <1>3, <2>1, SortHolds
<1>6. /\ EmptyList(x.kind) \in Lists /\ Holds(x.kind, EmptyList(x.kind), <<>>)
      /\ x.kind = "loaded" => Unmoved(EmptyList(x.kind))
  BY <1>3, EmptyHolds
<1>7. Sound(y) /\ y.kind = x.kind /\ y.output = output
  BY <1>3, <1>5, <1>6, MadeSound
<1> HIDE DEF y
<1>8. /\ ListsInv' /\ Len(instances') = Len(instances) /\ instances'[i] = y
      /\ \A j \in 1 .. Len(instances) : j # i => instances'[j] = instances[j]
  BY <1>2, <1>4, <1>7, OneChanges DEF BlockInv
<1>9. \A j \in 1 .. Len(instances') : InSequence(instances'[j].kind, instances'[j].output)
  BY <1>2, <1>5, <1>7, <1>8
<1>10. at' = [stage |-> "idle", who |-> 0, hand |-> <<>>, pushes |-> 0]
  BY <1>1 DEF Idle
<1>11. PlaceInv'
  <2>1. <<>> \in Seq(Nat) /\ Len(instances) \in Nat
    BY IdsAre DEF BlockInv
  <2> QED BY <1>8, <1>10, <2>1 DEF PlaceInv, Places
<1>12. \A j \in 1 .. Len(instances') : ~Calling(j)'
  BY <1>10 DEF Calling
<1>13. OrderInv'
  BY <1>9, <1>12 DEF OrderInv
<1> QED BY <1>8, <1>11, <1>13 DEF BlockInv

-----------------------------------------------------------------------------
(* The line of the host's tasks.  Sequences of numbers joined, and what they have. *)
LEMMA JoinAppends ==
  ASSUME NEW s \in Seq(Nat), NEW t \in Seq(Nat), NEW x \in Nat
  PROVE  /\ s \o Append(t, x) = Append(s \o t, x)
         /\ Append(s, x) = s \o <<x>>
<1>1. <<x>> \in Seq(Nat) /\ s \o t \in Seq(Nat)
  OBVIOUS
<1>2. /\ Append(t, x) = t \o <<x>> /\ Append(s, x) = s \o <<x>>
      /\ Append(s \o t, x) = (s \o t) \o <<x>>
  BY <1>1, AppendIsConcat
<1>3. (s \o t) \o <<x>> = s \o (t \o <<x>>)
  BY <1>1, ConcatAssociative
<1> QED BY <1>2, <1>3

(* Moving the head of the second sequence behind the first keeps their concatenation. *)
LEMMA HeadMoves ==
  ASSUME NEW s \in Seq(Nat), NEW t \in Seq(Nat), t # <<>>
  PROVE  /\ Head(t) \in Nat /\ Tail(t) \in Seq(Nat) /\ Append(s, Head(t)) \in Seq(Nat)
         /\ Append(s, Head(t)) \o Tail(t) = s \o t
<1> DEFINE h == Head(t)  r == Tail(t)  one == <<h>>
<1>1. /\ h \in Nat /\ r \in Seq(Nat) /\ Len(r) = Len(t) - 1 /\ Len(t) \in Nat \ {0}
      /\ \A i \in 1 .. Len(r) : r[i] = t[i + 1]
  BY HeadTailProperties, EmptySeq
<1>2. h = t[1]
  OBVIOUS
<1>3. one \in Seq(Nat) /\ Len(one) = 1 /\ one[1] = h
  BY <1>1
<1> HIDE DEF h, r, one
<1>4. one \o r = t
  <2>1. Len(t) = Len(one) + Len(r)
    BY <1>1, <1>3
  <2>2. \A i \in 1 .. Len(one) : t[i] = one[i]
    BY <1>2, <1>3
  <2>3. \A i \in 1 .. Len(r) : t[Len(one) + i] = r[i]
    <3> TAKE i \in 1 .. Len(r)
    <3>1. Len(one) + i = i + 1
      BY <1>3
    <3> QED BY <1>1, <3>1
  <2> QED BY <1>1, <1>3, <2>1, <2>2, <2>3, JoinIs
<1>5. Append(s, h) = s \o one
  BY <1>1, JoinAppends DEF one
<1>6. (s \o one) \o r = s \o (one \o r)
  <2>1. one \in Seq(Nat) /\ r \in Seq(Nat)
    BY <1>1, <1>3
  <2> QED BY <2>1, ConcatAssociative
<1>7. Append(s, h) \in Seq(Nat)
  BY <1>1, AppendProperties
<1> QED BY <1>1, <1>4, <1>5, <1>6, <1>7 DEF h, r

(* Ascending is the order the property states, and a range is what its places hold. *)
LEMMA InOrderIs ==
  ASSUME NEW s \in Seq(Nat)
  PROVE  /\ InOrder(s, <) <=> Ascending(s)
         /\ \A x : x \in Range(s) <=> \E i \in 1 .. Len(s) : s[i] = x
<1>1. DOMAIN s = 1 .. Len(s)
  BY LenProperties
<1> QED BY <1>1 DEF InOrder, Ascending, Range

(* A number larger than all before it may be appended to an ascending sequence. *)
LEMMA AppendGrows ==
  ASSUME NEW s \in Seq(Nat), Ascending(s), NEW x \in Nat, \A y \in Range(s) : y < x
  PROVE  /\ Append(s, x) \in Seq(Nat) /\ Ascending(Append(s, x))
         /\ Range(Append(s, x)) = Range(s) \cup {x}
<1> DEFINE t == Append(s, x)  n == Len(s)
<1>1. /\ n \in Nat /\ t \in Seq(Nat) /\ Len(t) = n + 1 /\ t[n + 1] = x
      /\ \A i \in 1 .. n : t[i] = s[i]
  BY LenProperties, AppendProperties
<1> HIDE DEF t
<1>2. \A i \in 1 .. n : s[i] < x
  BY InOrderIs
<1>3. ASSUME NEW i \in 1 .. n + 1, NEW j \in 1 .. n + 1, i < j PROVE t[i] < t[j]
  <2>1. i \in 1 .. n
    BY <1>1, <1>3
  <2>2. CASE j = n + 1
    BY <1>1, <1>2, <2>1, <2>2
  <2>3. CASE j # n + 1
    <3>1. j \in 1 .. n
      BY <1>1, <2>3
    <3> QED BY <1>1, <1>3, <2>1, <3>1 DEF Ascending
  <2> QED BY <2>2, <2>3
<1>4. ASSUME NEW y, y \in Range(t) PROVE y \in Range(s) \cup {x}
  <2>1. PICK i \in 1 .. n + 1 : t[i] = y
    BY <1>1, <1>4, InOrderIs
  <2>2. CASE i = n + 1
    BY <1>1, <2>1, <2>2
  <2>3. CASE i # n + 1
    <3>1. i \in 1 .. n
      BY <1>1, <2>3
    <3>2. s[i] = y
      BY <1>1, <2>1, <3>1
    <3> QED BY <3>1, <3>2, InOrderIs
  <2> QED BY <2>2, <2>3
<1>5. ASSUME NEW y, y \in Range(s) \cup {x} PROVE y \in Range(t)
  <2>1. CASE y = x
    <3>1. n + 1 \in 1 .. Len(t) /\ t[n + 1] = y
      BY <1>1, <2>1
    <3> QED BY <1>1, <3>1, InOrderIs
  <2>2. CASE y \in Range(s)
    <3>1. PICK i \in 1 .. n : s[i] = y
      BY <2>2, InOrderIs
    <3>2. i \in 1 .. Len(t) /\ t[i] = y
      BY <1>1, <3>1
    <3> QED BY <1>1, <3>2, InOrderIs
  <2> QED BY <1>5, <2>1, <2>2
<1>6. Ascending(t)
  BY <1>1, <1>3 DEF Ascending
<1> QED BY <1>1, <1>4, <1>5, <1>6 DEF t

(* The end of a line leaves, and the rest stays in order. *)
LEMMA EndLeaves ==
  ASSUME NEW s \in Seq(Nat), NEW t \in Seq(Nat), Ascending(s \o t)
  PROVE  /\ Ascending(s) /\ Range(s \o t) = Range(s) \cup Range(t)
         /\ Range(s) \cap Range(t) = {}
<1> DEFINE u == s \o t  n == Len(s)  m == Len(t)
<1>1. /\ u \in Seq(Nat) /\ n \in Nat /\ m \in Nat /\ Len(u) = n + m
      /\ \A i \in 1 .. n : u[i] = s[i]
      /\ \A i \in 1 .. m : u[n + i] = t[i]
  <2>1. /\ s \o t \in Seq(Nat) /\ Len(s) \in Nat /\ Len(t) \in Nat
        /\ Len(s \o t) = Len(s) + Len(t)
        /\ \A i \in 1 .. Len(s) : (s \o t)[i] = s[i]
        /\ \A i \in 1 .. Len(t) : (s \o t)[Len(s) + i] = t[i]
    BY InARow
  <2> QED BY <2>1
<1>2. Ascending(u)
  OBVIOUS
<1> HIDE DEF u
<1>3. \A i, j \in 1 .. n + m : i < j => u[i] < u[j]
  BY <1>1, <1>2 DEF Ascending
<1> HIDE DEF n, m
<1>4. \A i, j \in 1 .. n : i < j => s[i] < s[j]
  <2> TAKE i, j \in 1 .. n
  <2> HAVE i < j
  <2>1. i \in 1 .. n + m /\ j \in 1 .. n + m
    BY <1>1
  <2>2. u[i] < u[j]
    BY <1>3, <2>1
  <2> QED BY <1>1, <2>2
<1>5. \A i \in 1 .. n : \A j \in 1 .. m : s[i] < t[j]
  <2> TAKE i \in 1 .. n
  <2> TAKE j \in 1 .. m
  <2>1. i \in 1 .. n + m /\ n + j \in 1 .. n + m /\ i < n + j
    BY <1>1
  <2>2. u[i] < u[n + j]
    BY <1>3, <2>1
  <2> QED BY <1>1, <2>2
<1>6. /\ \A x : x \in Range(s) <=> \E i \in 1 .. n : s[i] = x
      /\ \A x : x \in Range(t) <=> \E i \in 1 .. m : t[i] = x
      /\ \A x : x \in Range(u) <=> \E i \in 1 .. n + m : u[i] = x
  <2>1. \A x : x \in Range(s) <=> \E i \in 1 .. Len(s) : s[i] = x
    BY InOrderIs
  <2>2. \A x : x \in Range(t) <=> \E i \in 1 .. Len(t) : t[i] = x
    BY InOrderIs
  <2>3. \A x : x \in Range(u) <=> \E i \in 1 .. Len(u) : u[i] = x
    BY <1>1, InOrderIs
  <2>4. Len(u) = n + m /\ Len(s) = n /\ Len(t) = m
    BY <1>1 DEF n, m
  <2> QED BY <2>1, <2>2, <2>3, <2>4
<1>7. ASSUME NEW x, x \in Range(u) PROVE x \in Range(s) \cup Range(t)
  <2>1. PICK i \in 1 .. n + m : u[i] = x
    BY <1>6, <1>7
  <2>2. CASE i <= n
    <3>1. i \in 1 .. n /\ s[i] = x
      BY <1>1, <2>1, <2>2
    <3> QED BY <1>6, <3>1
  <2>3. CASE ~(i <= n)
    <3> DEFINE j == i - n
    <3>1. j \in 1 .. m /\ n + j = i
      BY <1>1, <2>3
    <3> HIDE DEF j
    <3>2. t[j] = x
      BY <1>1, <2>1, <3>1
    <3> QED BY <1>6, <3>1, <3>2
  <2> QED BY <2>2, <2>3
<1>8. ASSUME NEW x, x \in Range(s) \cup Range(t) PROVE x \in Range(u)
  <2>1. CASE x \in Range(s)
    <3>1. PICK i \in 1 .. n : s[i] = x
      BY <1>6, <2>1
    <3>2. i \in 1 .. n + m /\ u[i] = x
      BY <1>1, <3>1
    <3> QED BY <1>6, <3>2
  <2>2. CASE x \in Range(t)
    <3>1. PICK i \in 1 .. m : t[i] = x
      BY <1>6, <2>2
    <3>2. n + i \in 1 .. n + m /\ u[n + i] = x
      BY <1>1, <3>1
    <3> QED BY <1>6, <3>2
  <2> QED BY <1>8, <2>1, <2>2
<1>9. ASSUME NEW x, x \in Range(s), x \in Range(t) PROVE FALSE
  <2>1. PICK i \in 1 .. n : s[i] = x
    BY <1>6, <1>9
  <2>2. PICK j \in 1 .. m : t[j] = x
    BY <1>6, <1>9
  <2>3. x < x /\ x \in Nat
    <3>1. s[i] \in Nat
      BY ElementOfSeq DEF n
    <3> QED BY <1>5, <2>1, <2>2, <3>1
  <2> QED BY <2>3
<1>10. Ascending(s)
  BY <1>4 DEF Ascending, n
<1> QED BY <1>7, <1>8, <1>9, <1>10 DEF u

(* The parts of the line are sequences of numbers. *)
LEMMA LineTypes ==
  ASSUME PlaceInv, LineInv
  PROVE  /\ ran \in Seq(Nat) /\ at.hand \in Seq(Nat) /\ worker \in Seq(Nat)
         /\ ran \o at.hand \in Seq(Nat) /\ Line \in Seq(Nat) /\ Line = (ran \o at.hand) \o worker
         /\ Len(worker) \in Nat /\ WorkerCapacity \in Nat
<1>1. 1 .. tasks \subseteq Nat
  BY DEF LineInv
<1>2. ran \in Seq(Nat) /\ at.hand \in Seq(Nat) /\ worker \in Seq(Nat)
  BY <1>1 DEF LineInv, PlaceInv, Places
<1>3. ran \o at.hand \in Seq(Nat)
  BY <1>2
<1>4. (ran \o at.hand) \o worker \in Seq(Nat)
  BY <1>2, <1>3
<1>5. WorkerCapacity \in Nat
  BY HostConstants DEF HostSets
<1> QED BY <1>2, <1>3, <1>4, <1>5, LenProperties DEF Line

(* A step that touches neither hand nor queue leaves the line alone. *)
LEMMA LineStays ==
  ASSUME LineInv, at'.hand = at.hand, UNCHANGED taskVars
  PROVE  LineInv'
<1>1. tasks' = tasks /\ worker' = worker /\ ran' = ran /\ spent' = spent
  BY DEF taskVars
<1>2. Line' = Line
  BY <1>1 DEF Line
<1>3. Accounted(Line', tasks', spent')
  BY <1>1, <1>2 DEF LineInv
<1> QED BY <1>1, <1>3 DEF LineInv

(* A task accepted takes the next number, at the end of the line. *)
LEMMA ScheduleLine ==
  ASSUME PlaceInv, LineInv, NEW i, Schedule(i)
  PROVE  LineInv'
<1> DEFINE t == tasks + 1
<1>1. /\ worker' = Append(worker, t) /\ tasks' = t /\ at' = at /\ ran' = ran /\ spent' = spent
      /\ Len(worker) < WorkerCapacity
  BY DEF Schedule
<1>2. /\ tasks \in Nat /\ worker \in Seq(1 .. tasks) /\ Accounted(Line, tasks, spent)
      /\ ran \in Seq(Nat) /\ t \in Nat
  BY DEF LineInv
<1>3. Line' = Append(Line, t)
  <2>1. ran \o at.hand \in Seq(Nat) /\ worker \in Seq(Nat)
    BY LineTypes
  <2>2. (ran \o at.hand) \o Append(worker, t) = Append((ran \o at.hand) \o worker, t)
    BY <1>2, <2>1, JoinAppends
  <2> QED BY <1>1, <2>2 DEF Line
<1>4. /\ Ascending(Line) /\ Range(Line) \cup spent = 1 .. tasks /\ Range(Line) \cap spent = {}
      /\ Line \in Seq(Nat)
  BY <1>2, LineTypes DEF Accounted
<1> DEFINE u == Append(Line, t)
<1>5. Ascending(u) /\ Range(u) = Range(Line) \cup {t}
  <2>1. \A y \in Range(Line) : y < t
    BY <1>2, <1>4
  <2> HIDE DEF t
  <2> QED BY <1>2, <1>4, <2>1, AppendGrows
<1>6. Range(u) \cup spent = 1 .. t
  <2>1. 1 .. t = (1 .. tasks) \cup {t}
    BY <1>2
  <2> QED BY <1>4, <1>5, <2>1
<1>7. Range(u) \cap spent = {}
  <2>1. t \notin spent
    BY <1>2, <1>4
  <2> QED BY <1>4, <1>5, <2>1
<1> HIDE DEF u
<1>8. Accounted(u, t, spent)
  BY <1>5, <1>6, <1>7 DEF Accounted
<1>9. Append(worker, t) \in Seq(1 .. t) /\ Len(Append(worker, t)) <= WorkerCapacity
  <2>1. worker \in Seq(1 .. t) /\ t \in 1 .. t
    <3>1. 1 .. tasks \subseteq 1 .. t
      BY <1>2
    <3> QED BY <1>2, <3>1
  <2>2. Append(worker, t) \in Seq(1 .. t) /\ Len(Append(worker, t)) = Len(worker) + 1
    BY <2>1, AppendProperties
  <2>3. Len(worker) \in Nat /\ WorkerCapacity \in Nat
    BY LineTypes
  <2> QED BY <1>1, <2>2, <2>3
<1>10. Accounted(Line', tasks', spent')
  BY <1>1, <1>3, <1>8 DEF u
<1> QED BY <1>1, <1>2, <1>9, <1>10 DEF LineInv

(* Taking a task moves it from the queue to the hand, without overtaking. *)
LEMMA TakeTaskLine ==
  ASSUME PlaceInv, LineInv, TakeTask
  PROVE  LineInv' /\ at'.hand \in Seq(Nat)
<1> DEFINE h == Head(worker)  r == Tail(worker)  front == ran \o at.hand
<1>1. /\ worker # <<>> /\ at' = [at EXCEPT !.hand = Append(@, h)] /\ worker' = r
      /\ tasks' = tasks /\ ran' = ran /\ spent' = spent
  BY DEF TakeTask
<1>2. at'.hand = Append(at.hand, h)
  BY <1>1 DEF PlaceInv, Places
<1>3. /\ worker \in Seq(Nat) /\ front \in Seq(Nat) /\ ran \in Seq(Nat) /\ at.hand \in Seq(Nat)
      /\ Line = front \o worker /\ Len(worker) \in Nat /\ WorkerCapacity \in Nat
  BY LineTypes
<1>4. h \in Nat /\ Append(front, h) \o r = front \o worker
  <2> HIDE DEF front
  <2> QED BY <1>1, <1>3, HeadMoves
<1>5. ran \o Append(at.hand, h) = Append(front, h)
  BY <1>3, <1>4, JoinAppends
<1>6. Line' = Line
  BY <1>1, <1>2, <1>3, <1>4, <1>5 DEF Line
<1>7. r \in Seq(1 .. tasks) /\ Len(r) <= WorkerCapacity
  <2>1. worker \in Seq(1 .. tasks) /\ Len(worker) <= WorkerCapacity
    BY DEF LineInv
  <2>2. r \in Seq(1 .. tasks) /\ Len(r) = Len(worker) - 1
    BY <1>1, <2>1, HeadTailProperties
  <2> QED BY <1>3, <2>1, <2>2
<1>8. Append(at.hand, h) \in Seq(Nat)
  BY <1>3, <1>4, AppendProperties
<1>9. Accounted(Line', tasks', spent')
  BY <1>1, <1>6 DEF LineInv
<1> QED BY <1>1, <1>2, <1>7, <1>8, <1>9 DEF LineInv

(* Tasks taken for a plug-in that is told of none are spent together. *)
LEMMA SpendLine ==
  ASSUME PlaceInv, LineInv, PumpWithoutWork
  PROVE  LineInv'
<1>1. /\ worker = <<>> /\ spent' = spent \cup Range(at.hand) /\ at'.hand = <<>>
      /\ worker' = worker /\ tasks' = tasks /\ ran' = ran
  BY DEF PumpWithoutWork, TakenAll, Idle
<1>2. /\ ran \in Seq(Nat) /\ at.hand \in Seq(Nat) /\ ran \o at.hand \in Seq(Nat)
      /\ Line = (ran \o at.hand) \o worker
  BY LineTypes
<1>3. Line = ran \o at.hand
  BY <1>1, <1>2, ConcatEmptySeq
<1>4. Line' = ran
  <2>1. Line' = (ran \o <<>>) \o <<>>
    BY <1>1 DEF Line
  <2>2. ran \o <<>> = ran
    BY <1>2, ConcatEmptySeq
  <2> QED BY <2>1, <2>2
<1>5. /\ Range(Line) \cup spent = 1 .. tasks /\ Range(Line) \cap spent = {} /\ Ascending(Line)
  BY DEF LineInv, Accounted
<1>6. /\ Ascending(ran) /\ Range(Line) = Range(ran) \cup Range(at.hand)
      /\ Range(ran) \cap Range(at.hand) = {}
  <2>1. Ascending(ran \o at.hand)
    BY <1>3, <1>5
  <2>2. /\ Ascending(ran) /\ Range(ran \o at.hand) = Range(ran) \cup Range(at.hand)
        /\ Range(ran) \cap Range(at.hand) = {}
    BY <1>2, <2>1, EndLeaves
  <2> QED BY <1>3, <2>2
<1> DEFINE gone == spent \cup Range(at.hand)
<1>7. Range(ran) \cup gone = 1 .. tasks /\ Range(ran) \cap gone = {}
  BY <1>5, <1>6
<1>8. Accounted(ran, tasks, gone)
  BY <1>6, <1>7 DEF Accounted
<1>9. Accounted(Line', tasks', spent')
  BY <1>1, <1>4, <1>8
<1> QED BY <1>1, <1>9 DEF LineInv

(* Running a task moves it from the hand to those that ran. *)
LEMMA OnWorkerLine ==
  ASSUME PlaceInv, LineInv, OnWorker
  PROVE  LineInv' /\ at'.hand \in Seq(Nat)
<1> DEFINE h == Head(at.hand)  r == Tail(at.hand)
<1>1. /\ at.hand # <<>> /\ at' = [at EXCEPT !.hand = r] /\ ran' = Append(ran, h)
      /\ tasks' = tasks /\ worker' = worker /\ spent' = spent
  BY DEF OnWorker
<1>2. at'.hand = r
  BY <1>1 DEF PlaceInv, Places
<1>3. ran \in Seq(Nat) /\ at.hand \in Seq(Nat)
  BY LineTypes
<1>4. /\ r \in Seq(Nat) /\ Append(ran, h) \in Seq(Nat)
      /\ Append(ran, h) \o r = ran \o at.hand
  BY <1>1, <1>3, HeadMoves
<1>5. Line' = Line
  BY <1>1, <1>2, <1>4 DEF Line
<1>6. Accounted(Line', tasks', spent')
  BY <1>1, <1>5 DEF LineInv
<1> QED BY <1>1, <1>2, <1>4, <1>6 DEF LineInv

(* A host with no instance and no task. *)
LEMMA HostInitInv == HostInit => HostInv
<1> SUFFICES ASSUME HostInit PROVE HostInv
  OBVIOUS
<1>1. /\ instances = <<>> /\ worker = <<>> /\ tasks = 0 /\ ran = <<>> /\ spent = {}
      /\ at = [stage |-> "idle", who |-> 0, hand |-> <<>>, pushes |-> 0]
  BY DEF HostInit, Idle
<1>2. /\ <<>> \in Seq(Instance) /\ <<>> \in Seq(Nat) /\ <<>> \in Seq(1 .. 0) /\ Len(<<>>) = 0
      /\ 1 .. 0 = {}
  OBVIOUS
<1>3. PlaceInv
  BY <1>1, <1>2 DEF PlaceInv, Places
<1>4. ListsInv
  BY <1>1, <1>2, HostConstants DEF ListsInv, HostSets
<1>5. OrderInv
  BY <1>1, <1>2 DEF OrderInv
<1>6. Accounted(<<>>, 0, {})
  <2>1. \A x : x \notin Range(<<>>)
    BY <1>2, InOrderIs
  <2>2. Ascending(<<>>)
    BY <1>2 DEF Ascending
  <2> QED BY <1>2, <2>1, <2>2 DEF Accounted
<1>7. Line = <<>>
  <2>1. Line = (<<>> \o <<>>) \o <<>>
    BY <1>1 DEF Line
  <2>2. <<>> \o <<>> = <<>>
    BY <1>2, ConcatEmptySeq
  <2> QED BY <2>1, <2>2
<1>8. LineInv
  BY <1>1, <1>2, <1>6, <1>7, HostConstants DEF LineInv, HostSets
<1> QED BY <1>3, <1>4, <1>5, <1>8 DEF HostInv

(* A step that leaves the tasks alone, and takes the host's hands as empty as they were. *)
LEMMA EmptyHands ==
  ASSUME BlockInv, LineInv, BlockInv', at.stage \in {"idle", "process"},
         at'.stage \in {"idle", "process"}, UNCHANGED taskVars
  PROVE  LineInv'
<1>1. at.hand = <<>> /\ at'.hand = <<>>
  BY DEF BlockInv, PlaceInv
<1> QED BY <1>1, LineStays

(* Every call of the host's caller keeps the invariant. *)
LEMMA CallKeeps ==
  ASSUME BlockInv, LineInv, NEW i, Call(i)
  PROVE  BlockInv' /\ LineInv'
<1>1. ASSUME at = Idle, at' = at, UNCHANGED taskVars, BlockInv' PROVE BlockInv' /\ LineInv'
  BY <1>1, LineStays
<1>2. CASE Unload(i)
  <2>1. at = Idle /\ at' = at /\ UNCHANGED taskVars
    BY <1>2 DEF Unload
  <2> QED BY <1>1, <1>2, <2>1, UnloadStep
<1>3. CASE SetParam(i)
  <2>1. /\ at = Idle /\ at' = at /\ UNCHANGED taskVars /\ i \in Alive
        /\ instances' = [instances EXCEPT ![i] = Queued(@, 0)]
    BY <1>3 DEF SetParam
  <2>2. BlockInv'
    BY <2>1, QueueStep
  <2> QED BY <1>1, <2>1, <2>2
<1>4. ASSUME NEW time \in NoteTimes, SendNote(i, time) PROVE BlockInv' /\ LineInv'
  <2>1. /\ at = Idle /\ at' = at /\ UNCHANGED taskVars /\ i \in Alive
        /\ instances' = [instances EXCEPT ![i] = Queued(@, time)]
    BY <1>4 DEF SendNote
  <2>2. time \in Nat
    BY HostConstants DEF HostSets
  <2>3. BlockInv'
    BY <2>1, <2>2, QueueStep
  <2> QED BY <1>1, <2>1, <2>3
<1>5. CASE ProcessNative(i)
  <2>1. BlockInv'
    BY <1>5, ProcessNativeStep
  <2>2. at.stage = "idle" /\ at'.stage = "process" /\ UNCHANGED taskVars
    BY <1>5 DEF ProcessNative, Calls, Idle
  <2> QED BY <2>1, <2>2, EmptyHands
<1>6. ASSUME NEW shape \in Shapes, ProcessLoaded(i, shape) PROVE BlockInv' /\ LineInv'
  <2>1. BlockInv'
    BY <1>6, ProcessLoadedStep
  <2>2. at.stage = "idle" /\ at'.stage = "process" /\ UNCHANGED taskVars
    BY <1>6 DEF ProcessLoaded, Calls, Idle
  <2> QED BY <2>1, <2>2, EmptyHands
<1>7. ASSUME NEW shape \in Shapes, ProcessRefused(i, shape) PROVE BlockInv' /\ LineInv'
  <2>1. BlockInv'
    BY <1>7, ProcessRefusedStep
  <2>2. at = Idle /\ at' = at /\ UNCHANGED taskVars
    BY <1>7 DEF ProcessRefused
  <2> QED BY <1>1, <2>1, <2>2
<1>8. ASSUME NEW life \in {"stopped", "poisoned"}, ResetFails(i, life) PROVE BlockInv' /\ LineInv'
  <2>1. BlockInv'
    BY <1>8, ResetFailsStep
  <2>2. at = Idle /\ at' = at /\ UNCHANGED taskVars
    BY <1>8 DEF ResetFails
  <2> QED BY <1>1, <2>1, <2>2
<1>9. CASE StartPump(i)
  <2>1. /\ at = Idle /\ i \in 1 .. Len(instances) /\ instances' = instances /\ UNCHANGED taskVars
        /\ at' = [stage |-> "take", who |-> i, hand |-> <<>>, pushes |-> 0]
    BY <1>9, IdsAre DEF BlockInv, StartPump, Idle
  <2>2. i \in Nat /\ i # 0 /\ <<>> \in Seq(Nat) /\ i \in 0 .. Len(instances)
    BY <2>1, IdsAre DEF BlockInv
  <2>3. at' \in Places /\ at'.who = i /\ at'.stage = "take" /\ at'.hand = <<>>
    BY <2>1, <2>2 DEF Places
  <2>4. at.stage = "idle" /\ at.hand = <<>>
    BY <2>1 DEF Idle
  <2>5. BlockInv'
    BY <2>1, <2>2, <2>3, <2>4, HostMoves
  <2> QED BY <2>1, <2>3, <2>4, <2>5, LineStays
<1> QED BY <1>2, <1>3, <1>4, <1>5, <1>6, <1>7, <1>8, <1>9 DEF Call

(* The invariant is inductive. *)
LEMMA HostKeeps == HostInv /\ [HostNext]_hostVars => HostInv'
<1> SUFFICES ASSUME HostInv, [HostNext]_hostVars PROVE HostInv'
  OBVIOUS
<1>1. BlockInv /\ PlaceInv /\ LineInv
  BY DEF HostInv, BlockInv
<1>2. SUFFICES BlockInv' /\ LineInv'
  BY DEF HostInv, BlockInv
<1>3. at \in Places /\ at.who \in 0 .. Len(instances) /\ (at.stage # "idle" => at.who # 0)
  BY <1>1 DEF PlaceInv
<1>4. /\ <<>> \in Seq(Nat) /\ Idle = [stage |-> "idle", who |-> 0, hand |-> <<>>, pushes |-> 0]
      /\ Idle \in Places /\ Idle.who \in 0 .. Len(instances) /\ Idle.stage = "idle"
      /\ Idle.hand = <<>>
  <2>1. Len(instances) \in Nat /\ <<>> \in Seq(Nat)
    BY <1>1, IdsAre DEF BlockInv
  <2> QED BY <2>1 DEF Idle, Places
<1>5. ASSUME NEW kind \in {"native", "loaded"}, InstallPlugin(kind) PROVE BlockInv' /\ LineInv'
  <2>1. BlockInv'
    BY <1>1, <1>5, InstallStep DEF Kinds
  <2>2. at' = at /\ UNCHANGED taskVars
    BY <1>5 DEF InstallPlugin
  <2> QED BY <1>1, <2>1, <2>2, LineStays
<1>6. ASSUME NEW i \in Ids, Call(i) PROVE BlockInv' /\ LineInv'
  BY <1>1, <1>6, CallKeeps
<1>7. ASSUME NEW i \in Ids, Schedule(i) PROVE BlockInv' /\ LineInv'
  <2>1. instances' = instances /\ at' = at
    BY <1>7 DEF Schedule
  <2>2. BlockInv'
    <3>1. PlaceInv' /\ ListsInv'
      BY <1>1, <2>1 DEF BlockInv, PlaceInv, ListsInv
    <3>2. \A i_1 : Calling(i_1)' <=> Calling(i_1)
      BY <2>1 DEF Calling
    <3>3. OrderInv'
      BY <1>1, <2>1, <3>2 DEF BlockInv, OrderInv
    <3> QED BY <3>1, <3>3 DEF BlockInv
  <2> QED BY <1>1, <1>7, <2>2, ScheduleLine
<1>8. ASSUME NEW time \in Times, NEW len \in {0, 1}, PluginPushes(time, len)
      PROVE  BlockInv' /\ LineInv'
  <2>1. BlockInv'
    BY <1>1, <1>8, PluginPushesStep
  <2>2. at' = [at EXCEPT !.pushes = @ + 1] /\ UNCHANGED taskVars
    BY <1>8 DEF PluginPushes
  <2>3. at'.hand = at.hand
    BY <1>3, <2>2 DEF Places
  <2> QED BY <1>1, <2>1, <2>2, <2>3, LineStays
<1>9. CASE ProcessReturns
  <2>1. BlockInv'
    BY <1>1, <1>9, ProcessReturnsStep
  <2>2. at.stage = "process" /\ at'.stage = "idle" /\ UNCHANGED taskVars
    BY <1>4, <1>9 DEF ProcessReturns
  <2> QED BY <1>1, <2>1, <2>2, EmptyHands
<1>10. CASE TakeTask
  <2>1. LineInv' /\ at'.hand \in Seq(Nat)
    BY <1>1, <1>10, TakeTaskLine
  <2>2. /\ at.stage = "take" /\ instances' = instances
        /\ at' = [at EXCEPT !.hand = Append(@, Head(worker))]
    BY <1>10 DEF TakeTask
  <2>3. /\ at'.stage = "take" /\ at'.who = at.who
        /\ at' \in Places
    BY <1>3, <2>1, <2>2 DEF Places
  <2>4. BlockInv'
    BY <1>1, <1>3, <2>2, <2>3, HostMoves
  <2> QED BY <2>1, <2>4
<1>11. CASE PumpWithoutWork
  <2>1. at.stage = "take" /\ instances' = instances /\ at' = Idle
    BY <1>11 DEF PumpWithoutWork, TakenAll
  <2>2. BlockInv'
    BY <1>1, <1>4, <2>1, HostMoves
  <2> QED BY <1>1, <1>11, <2>2, SpendLine
<1>12. CASE PumpNative
  <2>1. /\ at.stage = "take" /\ instances' = instances /\ UNCHANGED taskVars
        /\ at' = [at EXCEPT !.stage = "work"]
    BY <1>12 DEF PumpNative, TakenAll
  <2>2. at'.stage = "work" /\ at'.who = at.who /\ at'.hand = at.hand /\ at' \in Places
    BY <1>3, <2>1 DEF Places
  <2>3. BlockInv'
    BY <1>1, <1>3, <2>1, <2>2, HostMoves
  <2> QED BY <1>1, <2>1, <2>2, <2>3, LineStays
<1>13. CASE OnWorker
  <2>1. LineInv' /\ at'.hand \in Seq(Nat)
    BY <1>1, <1>13, OnWorkerLine
  <2>2. at.stage = "work" /\ instances' = instances /\ at' = [at EXCEPT !.hand = Tail(@)]
    BY <1>13 DEF OnWorker
  <2>3. at'.stage = "work" /\ at'.who = at.who /\ at' \in Places
    BY <1>3, <2>1, <2>2 DEF Places
  <2>4. BlockInv'
    BY <1>1, <1>3, <2>2, <2>3, HostMoves
  <2> QED BY <2>1, <2>4
<1>14. CASE OnMainThread
  <2>1. at.stage = "work" /\ at.hand = <<>> /\ instances' = instances /\ at' = Idle
        /\ UNCHANGED taskVars
    BY <1>14 DEF OnMainThread
  <2>2. BlockInv'
    BY <1>1, <1>4, <2>1, HostMoves
  <2>3. at'.hand = at.hand
    BY <1>4, <2>1
  <2> QED BY <1>1, <2>1, <2>2, <2>3, LineStays
<1>15. CASE UNCHANGED hostVars
  <2>1. instances' = instances /\ at' = at /\ UNCHANGED taskVars
    BY <1>15 DEF hostVars
  <2>2. PlaceInv' /\ ListsInv'
    BY <1>1, <2>1 DEF BlockInv, PlaceInv, ListsInv
  <2>3. \A i_1 : Calling(i_1)' <=> Calling(i_1)
    BY <2>1 DEF Calling
  <2>4. OrderInv'
    BY <1>1, <2>1, <2>3 DEF BlockInv, OrderInv
  <2>5. LineInv'
    BY <1>1, <2>1, LineStays
  <2> QED BY <2>2, <2>4, <2>5 DEF BlockInv
<1> QED BY <1>5, <1>6, <1>7, <1>8, <1>9, <1>10, <1>11, <1>12, <1>13, <1>14, <1>15 DEF HostNext

(* The reference host keeps its inductive invariant, for any capacities, instances, events
   and tasks. *)
THEOREM HostIndInv == HostSpec => []HostInv
<1>1. HostInit => HostInv
  BY HostInitInv
<1>2. HostInv /\ [HostNext]_hostVars => HostInv'
  BY HostKeeps
<1> QED BY <1>1, <1>2, PTL DEF HostSpec

(* The lists give back what their histories say. *)
LEMMA InvGivesBack == HostInv => ListsGiveBack
<1> SUFFICES ASSUME HostInv PROVE ListsGiveBack
  OBVIOUS
<1>1. /\ BlockInv /\ Alive \subseteq 1 .. Len(instances)
      /\ \A i \in 1 .. Len(instances) : Sound(instances[i])
  BY IdsAre DEF HostInv, BlockInv
<1>2. ASSUME at.stage = "process"
      PROVE  LET x == instances[at.who]  seen == Read(x.kind, x.input)
             IN /\ Shows(seen, x.accepted)
                /\ IF x.kind = "native" THEN InOrder(seen, Earlier)
                   ELSE InOrder(seen, LAMBDA e, f : e.id < f.id)
  <2> DEFINE x == instances[at.who]
  <2>1. Sound(x) /\ (x.kind = "native" => InSequence(x.kind, x.input))
    BY <1>1, <1>2, CalledIs
  <2> HIDE DEF x
  <2>2. /\ x.kind \in Kinds /\ Holds(x.kind, x.input, x.accepted)
        /\ x.kind = "loaded" => Unmoved(x.input)
    BY <2>1, FieldsOf DEF Sound
  <2>3. /\ Shows(Read(x.kind, x.input), x.accepted)
        /\ InSequence(x.kind, x.input) => InOrder(Read(x.kind, x.input), Earlier)
        /\ (x.kind = "loaded" /\ Unmoved(x.input)) =>
             InOrder(Read(x.kind, x.input), LAMBDA e, f : e.id < f.id)
    BY <2>2, ReadsBack
  <2>4. x.kind # "native" => x.kind = "loaded"
    BY <2>2 DEF Kinds
  <2>5. IF x.kind = "native" THEN InOrder(Read(x.kind, x.input), Earlier)
        ELSE InOrder(Read(x.kind, x.input), LAMBDA e, f : e.id < f.id)
    BY <2>1, <2>2, <2>3, <2>4
  <2> QED BY <2>3, <2>5 DEF x
<1>3. ASSUME NEW i \in Alive, ~Calling(i)
      PROVE  LET seen == Read(instances[i].kind, instances[i].output)
             IN Shows(seen, instances[i].pushed) /\ InOrder(seen, Earlier)
  <2> DEFINE x == instances[i]
  <2>1. i \in 1 .. Len(instances) /\ Sound(x)
    BY <1>1
  <2>2. InSequence(x.kind, x.output)
    BY <1>1, <1>3, <2>1 DEF BlockInv, OrderInv
  <2> HIDE DEF x
  <2>3. x.kind \in Kinds /\ Holds(x.kind, x.output, x.pushed)
    BY <2>1, FieldsOf DEF Sound
  <2>4. /\ Shows(Read(x.kind, x.output), x.pushed)
        /\ InSequence(x.kind, x.output) => InOrder(Read(x.kind, x.output), Earlier)
    BY <2>3, ReadsBack
  <2> QED BY <2>2, <2>4 DEF x
<1>4. InputsArrive
  BY <1>2 DEF InputsArrive
<1>5. OutputsReadBack
  BY <1>3 DEF OutputsReadBack, Calling
<1> QED BY <1>4, <1>5 DEF ListsGiveBack

(* Both lists of events give back what they accepted, each event once and with the payload
   it came with, in the order their readers rely on (buffer.rs try_push and sort, events.rs
   write_record and sort_by_time, instance.rs process and reshape). *)
THEOREM HostListsGiveBack == HostSpec => []ListsGiveBack
BY HostIndInv, InvGivesBack, PTL

(* The line of tasks accounts for every one. *)
LEMMA InvAccounts == HostInv => TasksAccounted
<1> SUFFICES ASSUME HostInv PROVE TasksAccounted
  OBVIOUS
<1>1. PlaceInv /\ ListsInv /\ LineInv
  BY DEF HostInv
<1>2. Ids = 1 .. Len(instances) /\ Len(instances) \in Nat /\ \A i \in Ids : Sound(instances[i])
  BY <1>1, IdsAre
<1>3. ASSUME NEW i \in Ids
      PROVE  /\ instances[i].life \in {"running", "stopped", "poisoned", "gone"}
             /\ \A l \in {instances[i].input, instances[i].output} :
                  Len(Read(instances[i].kind, l)) <= EventCapacity
  <2> DEFINE x == instances[i]
  <2>1. Sound(x)
    BY <1>2
  <2> HIDE DEF x
  <2>2. /\ x.kind \in Kinds /\ x.life \in {"running", "stopped", "poisoned", "gone"}
        /\ Holds(x.kind, x.input, x.accepted) /\ Holds(x.kind, x.output, x.pushed)
    BY <2>1, FieldsOf DEF Sound
  <2>3. /\ Len(Read(x.kind, x.input)) <= EventCapacity
        /\ Len(Read(x.kind, x.output)) <= EventCapacity
    BY <2>2, ReadsBack
  <2> QED BY <2>2, <2>3 DEF x
<1>4. HostTypeOK
  <2>1. Len(instances) <= MaxInstances
    BY <1>1 DEF ListsInv
  <2>2. worker \in Seq(1 .. tasks) /\ Len(worker) <= WorkerCapacity
    BY <1>1 DEF LineInv
  <2>3. /\ at.stage \in {"idle", "process", "take", "work"} /\ at.who \in {0} \cup Ids
        /\ at.stage \in {"idle", "process"} => at.hand = <<>>
    BY <1>1, <1>2 DEF PlaceInv, Places
  <2> QED BY <1>3, <2>1, <2>2, <2>3 DEF HostTypeOK
<1>5. Line \in Seq(Nat)
  BY <1>1, LineTypes
<1>6. Range(Line) \cup spent = 1 .. tasks /\ Range(Line) \cap spent = {} /\ InOrder(Line, <)
  BY <1>1, <1>5, InOrderIs DEF LineInv, Accounted
<1> QED BY <1>4, <1>6 DEF TasksAccounted, Line

(* Every accepted task is in one place, and those still to be run come in the order they
   were accepted; the host's lists and its queue keep to their capacities (services.rs
   take_worker_tasks, host.rs run_callbacks). *)
THEOREM HostTasksAccounted == HostSpec => []TasksAccounted
BY HostIndInv, InvAccounts, PTL

-----------------------------------------------------------------------------
(* The scanner's inductive invariant and what follows from it, for any bundles, any
   number of builds of each and any behaviour of them, and any number of deaths. *)

(* An entry is a bundle and one of its builds. *)
LEMMA EntryIsPair ==
  /\ \A e \in Entry : e = <<e[1], e[2]>> /\ e[1] \in Bundles /\ e[2] \in 1 .. Builds[e[1]]
  /\ \A b \in Bundles : \A v \in 1 .. Builds[b] : <<b, v>> \in Entry
BY DEF Entry

(* Nothing was read, nothing is remembered. *)
LEMMA InitInv == Init => IndInv
<1> SUFFICES ASSUME Init PROVE IndInv
  OBVIOUS
<1> USE ScannerAssumption DEF Init, Fresh, NoCache, NoRecord, Nothing
<1>1. TypeOK
  <2>1. version \in [Bundles -> Nat] /\ \A b \in Bundles : version[b] \in 1 .. Builds[b]
    OBVIOUS
  <2>2. cache \in [Bundles -> Record] /\ cacheFile \in [Bundles -> Record] /\ found \in [Bundles -> Nat]
    BY DEF Record
  <2>3. outcome \in Answer
    BY DEF Answer
  <2>4. meddling \in 0 .. MaxMeddling
    OBVIOUS
  <2>5. QED
    BY <2>1, <2>2, <2>3, <2>4, Zenon DEF TypeOK
<1>2. MemoryInv /\ JournalInv
  BY DEF MemoryInv, JournalInv
<1>3. StruckInv
  BY DEF StruckInv
<1>4. CacheInv
  BY DEF CacheInv, Honest
<1>5. QED
  BY <1>1, <1>2, <1>3, <1>4 DEF IndInv

USE DEF vars, machine, files, call, quar, cached, history

(* The steps of Next, one case each. *)
LEMMA NextCases ==
  ASSUME TypeOK, [Next]_vars
  PROVE  \/ \E b \in Bundles : Ship(b) \/ Install(b) \/ Skip(b) \/ Hit(b) \/ Begin(b)
         \/ \E m \in {"scan", "path", "inspect"}, list \in SUBSET Bundles : Start(m, list)
         \/ \E S \in SUBSET Bundles : Forget(S)
         \/ Boot \/ Truncate \/ Write \/ Consume \/ Probe \/ Kill \/ End \/ Finish \/ Save
         \/ Rename \/ SaveCache \/ Unjam \/ Die \/ UNCHANGED vars
<1>1. present \in SUBSET Bundles
  BY DEF TypeOK
<1>2. FullScan => \E m \in {"scan", "path", "inspect"}, list \in SUBSET Bundles : Start(m, list)
  BY <1>1 DEF FullScan
<1>3. PathScan => \E m \in {"scan", "path", "inspect"}, list \in SUBSET Bundles : Start(m, list)
  BY <1>1 DEF PathScan
<1>4. Inspect => \E m \in {"scan", "path", "inspect"}, list \in SUBSET Bundles : Start(m, list)
  <2> SUFFICES ASSUME NEW b \in present, Start("inspect", {b})
               PROVE \E m \in {"scan", "path", "inspect"}, list \in SUBSET Bundles : Start(m, list)
    BY DEF Inspect
  <2>1. {b} \in SUBSET Bundles
    BY <1>1
  <2>2. QED
    BY <2>1
<1>5. \A b \in Bundles : {b} \in SUBSET Bundles
  OBVIOUS
<1>6. (\E b \in Bundles : Forget({b})) \/ Forget(Bundles) => \E S \in SUBSET Bundles : Forget(S)
  BY <1>5
<1>7. QED
  BY <1>2, <1>3, <1>4, <1>6 DEF Next, ScannerStep

(* Every step keeps the types. *)
LEMMA TypeStep == IndInv /\ [Next]_vars => TypeOK'
<1> SUFFICES ASSUME IndInv, [Next]_vars PROVE TypeOK'
  OBVIOUS
<1> USE ScannerAssumption, EntryIsPair DEF TypeOK, Record, Answer, NoRecord, NoCache, Nothing
<1> TypeOK
  BY DEF IndInv
<1>1. ASSUME NEW b \in Bundles, Ship(b) PROVE TypeOK'
  BY <1>1 DEF Ship
<1>2. ASSUME NEW b \in Bundles, Install(b) PROVE TypeOK'
  BY <1>2 DEF Install
<1>3. CASE Boot
  BY <1>3 DEF Boot
<1>4. CASE Truncate
  BY <1>4 DEF Truncate
<1>5. CASE Write
  BY <1>5 DEF Write
<1>6. CASE Consume
  BY <1>6 DEF Consume
<1>7. ASSUME NEW m \in {"scan", "path", "inspect"}, NEW list \in SUBSET Bundles, Start(m, list)
      PROVE TypeOK'
  BY <1>7 DEF Start
<1>8. ASSUME NEW b \in Bundles, Skip(b) PROVE TypeOK'
  BY <1>8 DEF Skip
<1>9. ASSUME NEW b \in Bundles, Hit(b) PROVE TypeOK'
  BY <1>9 DEF Hit
<1>10. ASSUME NEW b \in Bundles, Begin(b) PROVE TypeOK'
  BY <1>10 DEF Begin
<1>11. CASE Probe
  <2>1. job \in Entry /\ version[job[1]] \in Nat
    BY <1>11 DEF Probe, IndInv, JournalInv
  <2>2. outcome' \in Answer
    BY <1>11, <2>1 DEF Probe, Answers
  <2>3. jammed' \in BOOLEAN
    BY <1>11, Zenon DEF Probe, Answers
  <2>4. QED
    BY <1>11, <2>2, <2>3 DEF Probe
<1>12. CASE Unjam
  BY <1>12 DEF Unjam
<1>13. CASE End
  <2>1. job \in Entry /\ job[1] \in Bundles /\ job[2] \in Nat /\ outcome[2] \in Nat
    BY <1>13 DEF End, IndInv, JournalInv
  <2>2. cache' \in [Bundles -> Record]
    <3>1. [fp |-> job[2], from |-> outcome[2]] \in Record
      BY <2>1
    <3>2. QED
      BY <1>13, <2>1, <3>1 DEF End
  <2>5. found' \in [Bundles -> Nat] /\ dirty' \in BOOLEAN
    BY <1>13, <2>1 DEF End
  <2>3. /\ entries' \subseteq Entry /\ writer' \in {"boot", "timeout", "user"}
        /\ struck' \subseteq Entry /\ torn' \subseteq Entry /\ masked' \subseteq Entry
    BY <1>13, <2>1 DEF End
  <2>4. QED
    BY <1>13, <2>2, <2>3, <2>5 DEF End
<1>14. CASE Finish
  BY <1>14 DEF Finish, Retained
<1>15. CASE SaveCache
  BY <1>15 DEF SaveCache
<1>16. CASE Save
  BY <1>16 DEF Save
<1>17. CASE Rename
  BY <1>17 DEF Rename
<1>18. ASSUME NEW S \in SUBSET Bundles, Forget(S) PROVE TypeOK'
  BY <1>18 DEF Forget
<1>19. CASE Kill
  BY <1>19 DEF Kill, Dies
<1>20. CASE Die
  <2>1. struck' \subseteq Entry /\ torn' \subseteq Entry
    BY <1>20 DEF Die, Dies
  <2>2. meddling' \in 0 .. MaxMeddling
    BY <1>20 DEF Die
  <2>3. cache' \in [Bundles -> Record] /\ found' \in [Bundles -> Nat]
    BY <1>20 DEF Die, Dies
  <2>4. QED
    BY <1>20, <2>1, <2>2, <2>3 DEF Die, Dies
<1>21. CASE UNCHANGED vars
  BY <1>21
<1>22. QED
  BY <1>1, <1>2, <1>3, <1>4, <1>5, <1>6, <1>7, <1>8, <1>9, <1>10, <1>11, <1>12, <1>13, <1>14,
     <1>15, <1>16, <1>17, <1>18, <1>19, <1>20, <1>21, NextCases

(* Every step keeps what memory and files say of each other. *)
LEMMA MemoryStep == IndInv /\ TypeOK' /\ [Next]_vars => MemoryInv'
<1> SUFFICES ASSUME IndInv, TypeOK', [Next]_vars PROVE MemoryInv'
  OBVIOUS
<1> USE ScannerAssumption, EntryIsPair DEF IndInv, TypeOK, MemoryInv, Fresh
<1> IndInv
  OBVIOUS
<1>1. ASSUME NEW b \in Bundles, Ship(b) PROVE MemoryInv'
  BY <1>1 DEF Ship
<1>2. ASSUME NEW b \in Bundles, Install(b) PROVE MemoryInv'
  BY <1>2 DEF Install
<1>3. CASE Boot
  BY <1>3 DEF Boot
<1>4. CASE Truncate
  BY <1>4 DEF Truncate
<1>5. CASE Write
  BY <1>5 DEF Write
<1>6. CASE Consume
  BY <1>6 DEF Consume
<1>7. ASSUME NEW m \in {"scan", "path", "inspect"}, NEW list \in SUBSET Bundles, Start(m, list)
      PROVE MemoryInv'
  BY <1>7 DEF Start
<1>8. ASSUME NEW b \in Bundles, Skip(b) PROVE MemoryInv'
  BY <1>8 DEF Skip
<1>9. ASSUME NEW b \in Bundles, Hit(b) PROVE MemoryInv'
  BY <1>9 DEF Hit, Cached
<1>10. ASSUME NEW b \in Bundles, Begin(b) PROVE MemoryInv'
  BY <1>10 DEF Begin, Cached
<1>11. CASE Probe
  BY <1>11 DEF Probe, Answers
<1>12. CASE Unjam
  BY <1>12 DEF Unjam
<1>13. CASE End
  BY <1>13 DEF End
<1>14. CASE Finish
  BY <1>14 DEF Finish
<1>15. CASE SaveCache
  BY <1>15 DEF SaveCache
<1>16. CASE Save
  BY <1>16 DEF Save
<1>17. CASE Rename
  BY <1>17 DEF Rename
<1>18. ASSUME NEW S \in SUBSET Bundles, Forget(S) PROVE MemoryInv'
  BY <1>18 DEF Forget
<1>19. CASE Kill
  BY <1>19 DEF Kill, Dies
<1>20. CASE Die
  BY <1>20 DEF Die, Dies
<1>21. CASE UNCHANGED vars
  BY <1>21
<1>22. QED
  BY <1>1, <1>2, <1>3, <1>4, <1>5, <1>6, <1>7, <1>8, <1>9, <1>10, <1>11, <1>12, <1>13, <1>14,
     <1>15, <1>16, <1>17, <1>18, <1>19, <1>20, <1>21, NextCases

(* The journal names the probe in progress, or a build already struck. *)
LEMMA JournalStep == IndInv /\ TypeOK' /\ [Next]_vars => JournalInv'
<1> SUFFICES ASSUME IndInv, TypeOK', [Next]_vars PROVE JournalInv'
  OBVIOUS
<1> USE ScannerAssumption, EntryIsPair DEF IndInv, TypeOK, MemoryInv, JournalInv
<1> IndInv
  OBVIOUS
<1>1. ASSUME NEW b \in Bundles, Ship(b) PROVE JournalInv'
  BY <1>1 DEF Ship
<1>2. ASSUME NEW b \in Bundles, Install(b) PROVE JournalInv'
  BY <1>2 DEF Install
<1>3. CASE Boot
  BY <1>3 DEF Boot
<1>4. CASE Truncate
  BY <1>4 DEF Truncate
<1>5. CASE Write
  BY <1>5 DEF Write
<1>6. CASE Consume
  BY <1>6 DEF Consume
<1>7. ASSUME NEW m \in {"scan", "path", "inspect"}, NEW list \in SUBSET Bundles, Start(m, list)
      PROVE JournalInv'
  BY <1>7 DEF Start
<1>8. ASSUME NEW b \in Bundles, Skip(b) PROVE JournalInv'
  BY <1>8 DEF Skip
<1>9. ASSUME NEW b \in Bundles, Hit(b) PROVE JournalInv'
  BY <1>9 DEF Hit, Cached
<1>10. ASSUME NEW b \in Bundles, Begin(b) PROVE JournalInv'
  BY <1>10 DEF Begin, Cached
<1>11. CASE Probe
  BY <1>11 DEF Probe, Answers
<1>12. CASE Unjam
  BY <1>12 DEF Unjam
<1>13. CASE End
  BY <1>13 DEF End
<1>14. CASE Finish
  BY <1>14 DEF Finish
<1>15. CASE SaveCache
  BY <1>15 DEF SaveCache
<1>16. CASE Save
  BY <1>16 DEF Save
<1>17. CASE Rename
  BY <1>17 DEF Rename
<1>18. ASSUME NEW S \in SUBSET Bundles, Forget(S) PROVE JournalInv'
  BY <1>18 DEF Forget
<1>19. CASE Kill
  BY <1>19 DEF Kill, Dies
<1>20. CASE Die
  BY <1>20 DEF Die, Dies
<1>21. CASE UNCHANGED vars
  BY <1>21
<1>22. QED
  BY <1>1, <1>2, <1>3, <1>4, <1>5, <1>6, <1>7, <1>8, <1>9, <1>10, <1>11, <1>12, <1>13, <1>14,
     <1>15, <1>16, <1>17, <1>18, <1>19, <1>20, <1>21, NextCases

(* No step forgets a struck build but into torn and masked. *)
LEMMA StruckStep == IndInv /\ TypeOK' /\ [Next]_vars => StruckInv'
<1> SUFFICES ASSUME IndInv, TypeOK', [Next]_vars PROVE StruckInv'
  OBVIOUS
<1> USE ScannerAssumption, EntryIsPair DEF IndInv, TypeOK, MemoryInv, JournalInv, StruckInv
<1> IndInv
  OBVIOUS
<1>1. ASSUME NEW b \in Bundles, Ship(b) PROVE StruckInv'
  BY <1>1 DEF Ship
<1>2. ASSUME NEW b \in Bundles, Install(b) PROVE StruckInv'
  BY <1>2 DEF Install
<1>3. CASE Boot
  BY <1>3 DEF Boot
<1>4. CASE Truncate
  BY <1>4 DEF Truncate
<1>5. CASE Write
  BY <1>5 DEF Write
<1>6. CASE Consume
  BY <1>6 DEF Consume
<1>7. ASSUME NEW m \in {"scan", "path", "inspect"}, NEW list \in SUBSET Bundles, Start(m, list)
      PROVE StruckInv'
  BY <1>7 DEF Start
<1>8. ASSUME NEW b \in Bundles, Skip(b) PROVE StruckInv'
  BY <1>8 DEF Skip
<1>9. ASSUME NEW b \in Bundles, Hit(b) PROVE StruckInv'
  BY <1>9 DEF Hit, Cached
<1>10. ASSUME NEW b \in Bundles, Begin(b) PROVE StruckInv'
  BY <1>10 DEF Begin, Cached
<1>11. CASE Probe
  BY <1>11 DEF Probe, Answers
<1>12. CASE Unjam
  BY <1>12 DEF Unjam
<1>13. CASE End
  BY <1>13 DEF End
<1>14. CASE Finish
  BY <1>14 DEF Finish
<1>15. CASE SaveCache
  BY <1>15 DEF SaveCache
<1>16. CASE Save
  BY <1>16 DEF Save
<1>17. CASE Rename
  BY <1>17 DEF Rename
<1>18. ASSUME NEW S \in SUBSET Bundles, Forget(S) PROVE StruckInv'
  BY <1>18 DEF Forget
<1>19. CASE Kill
  BY <1>19 DEF Kill, Dies
<1>20. CASE Die
  <2>1. entries' \cup quarFile' \subseteq struck'
    BY <1>20 DEF Die, Dies
  <2>2. pc' = "down" /\ quarFile' = quarFile /\ journal' = journal /\ masked' = masked
    BY <1>20 DEF Die, Dies
  <2>3. job \in {journal, NoEntry}
    BY DEF Fresh
  <2>4. SUFFICES ASSUME NEW e \in struck', e \notin torn', e \notin masked, e \notin quarFile, e # journal
                 PROVE FALSE
    BY <2>1, <2>2
  <2>5. e \in struck /\ e \notin torn
    BY <1>20, <2>3, <2>4 DEF Die, Dies
  <2>6. CASE pc \in {"truncate", "write"}
    <3>1. e \notin entries
      BY <1>20, <2>4, <2>6 DEF Die, Dies
    <3>2. CASE pc = "truncate"
      BY <2>4, <2>5, <3>1, <3>2
    <3>3. CASE pc = "write"
      BY <2>4, <2>5, <3>1, <3>3
    <3>4. QED
      BY <2>6, <3>2, <3>3
  <2>7. CASE pc \notin {"truncate", "write"}
    BY <1>20, <2>4, <2>5, <2>7 DEF Die, Dies
  <2>8. QED
    BY <2>6, <2>7
<1>21. CASE UNCHANGED vars
  BY <1>21
<1>22. QED
  BY <1>1, <1>2, <1>3, <1>4, <1>5, <1>6, <1>7, <1>8, <1>9, <1>10, <1>11, <1>12, <1>13, <1>14,
     <1>15, <1>16, <1>17, <1>18, <1>19, <1>20, <1>21, NextCases

(* A record's descriptors are never older than the fingerprint it is kept under. *)
LEMMA CacheStep == IndInv /\ TypeOK' /\ [Next]_vars => CacheInv'
<1> SUFFICES ASSUME IndInv, TypeOK', [Next]_vars PROVE CacheInv'
  OBVIOUS
<1> USE ScannerAssumption, EntryIsPair DEF IndInv, TypeOK, MemoryInv, JournalInv, CacheInv, Honest
<1> IndInv
  OBVIOUS
<1>1. ASSUME NEW b \in Bundles, Ship(b) PROVE CacheInv'
  <2>1. \A c \in Bundles : version[c] <= version'[c]
    BY <1>1 DEF Ship
  <2>2. \A c \in Bundles : Honest(cache, c)' /\ Honest(cacheFile, c)'
    BY <1>1, <2>1 DEF Ship, Record
  <2>3. pc \in {"probe", "end"} => job[1] \in Bundles /\ job[2] \in Nat
    OBVIOUS
  <2>4. QED
    BY <1>1, <2>1, <2>2, <2>3 DEF Ship, Answer
<1>2. ASSUME NEW b \in Bundles, Install(b) PROVE CacheInv'
  BY <1>2 DEF Install
<1>3. CASE Boot
  BY <1>3 DEF Boot
<1>4. CASE Truncate
  BY <1>4 DEF Truncate
<1>5. CASE Write
  BY <1>5 DEF Write
<1>6. CASE Consume
  BY <1>6 DEF Consume
<1>7. ASSUME NEW m \in {"scan", "path", "inspect"}, NEW list \in SUBSET Bundles, Start(m, list)
      PROVE CacheInv'
  BY <1>7 DEF Start
<1>8. ASSUME NEW b \in Bundles, Skip(b) PROVE CacheInv'
  BY <1>8 DEF Skip
<1>9. ASSUME NEW b \in Bundles, Hit(b) PROVE CacheInv'
  BY <1>9 DEF Hit, Cached
<1>10. ASSUME NEW b \in Bundles, Begin(b) PROVE CacheInv'
  BY <1>10 DEF Begin, Cached
<1>11. CASE Probe
  BY <1>11 DEF Probe, Answers
<1>12. CASE Unjam
  BY <1>12 DEF Unjam
<1>13. CASE End
  BY <1>13 DEF End
<1>14. CASE Finish
  BY <1>14 DEF Finish, Retained, NoRecord
<1>15. CASE SaveCache
  BY <1>15 DEF SaveCache
<1>16. CASE Save
  BY <1>16 DEF Save, NoCache, NoRecord
<1>17. CASE Rename
  BY <1>17 DEF Rename
<1>18. ASSUME NEW S \in SUBSET Bundles, Forget(S) PROVE CacheInv'
  BY <1>18 DEF Forget
<1>19. CASE Kill
  BY <1>19 DEF Kill, Dies, NoCache, NoRecord
<1>20. CASE Die
  BY <1>20 DEF Die, Dies, NoCache, NoRecord
<1>21. CASE UNCHANGED vars
  BY <1>21
<1>22. QED
  BY <1>1, <1>2, <1>3, <1>4, <1>5, <1>6, <1>7, <1>8, <1>9, <1>10, <1>11, <1>12, <1>13, <1>14,
     <1>15, <1>16, <1>17, <1>18, <1>19, <1>20, <1>21, NextCases

-----------------------------------------------------------------------------
(* What the two files and the memory hold at each point of a scan, a death or a
   start fits together. *)
THEOREM ScannerIndInv == Spec => []IndInv
<1>1. IndInv /\ [Next]_vars => IndInv'
  BY TypeStep, MemoryStep, JournalStep, StruckStep, CacheStep DEF IndInv
<1>2. QED
  BY <1>1, InitInv, PTL DEF Spec

(* Only what was being probed when a process ended, or hung, is quarantined. *)
THEOREM ScannerOnlyStruckAreBarred == Spec => []OnlyStruckAreBarred
<1>1. IndInv => OnlyStruckAreBarred
  BY DEF IndInv, StruckInv, OnlyStruckAreBarred
<1>2. QED
  BY <1>1, ScannerIndInv, PTL

(* The one step that opens a probe. *)
LEMMA ProbesBegin ==
  ASSUME IndInv, [Next]_vars, pc = "walk", pc' = "probe"
  PROVE  \E b \in Bundles : Begin(b)
<1>1. TypeOK
  BY DEF IndInv
<1>2. QED
  BY <1>1, NextCases
  DEF Ship, Install, Boot, Truncate, Write, Consume, Start, Skip, Hit, Probe, Unjam, End, Finish,
      SaveCache, Save, Rename, Forget, Kill, Die, Dies

(* A build that killed or hung is skipped until the user asks or the build changes,
   but for the two ways the list forgets. *)
THEOREM ScannerBarredIsSkipped == Spec => BarredIsSkipped
<1>1. ASSUME IndInv, [Next]_vars, pc = "walk", pc' = "probe"
      PROVE  job' \notin struck \ (torn \cup masked)
  <2>1. PICK b \in Bundles : Begin(b)
    BY <1>1, ProbesBegin
  <2>2. job' \notin entries
    BY <2>1 DEF Begin
  <2>3. QED
    BY <1>1, <2>2 DEF IndInv, StruckInv
<1>2. IndInv /\ [Next]_vars
        => [pc = "walk" /\ pc' = "probe" => job' \notin struck \ (torn \cup masked)]_vars
  BY <1>1
<1>3. QED
  BY <1>2, ScannerIndInv, PTL DEF Spec, BarredIsSkipped

(* A report never shows, out of the cache, a build other than the one installed. *)
THEOREM ScannerHitsAreFresh == Spec => HitsAreFresh
<1>1. ASSUME IndInv, [Next]_vars, pc = "walk", NEW b \in Bundles
      PROVE  found'[b] \in {found[b], version[b], 0}
  <2>1. ASSUME NEW c \in Bundles, Hit(c) PROVE found'[b] \in {found[b], version[b], 0}
    <3>1. cache[c].fp = version[c] /\ cache[c].from = version[c]
      BY <1>1, <2>1 DEF Hit, Cached, IndInv, TypeOK, CacheInv, Honest, Record
    <3>2. QED
      BY <1>1, <2>1, <3>1 DEF Hit, IndInv, TypeOK
  <2>2. CASE Kill \/ Die
    BY <2>2 DEF Kill, Die, Dies, Nothing
  <2>3. CASE found' = found
    BY <2>3
  <2>4. TypeOK
    BY <1>1 DEF IndInv
  <2>5. QED
    BY <1>1, <2>1, <2>2, <2>3, <2>4, NextCases
    DEF Ship, Install, Boot, Truncate, Write, Consume, Start, Skip, Begin, Probe, Unjam, End, Finish,
        SaveCache, Save, Rename, Forget
<1>2. IndInv /\ [Next]_vars
        => [pc = "walk" => \A b \in Bundles : found'[b] \in {found[b], version[b], 0}]_vars
  BY <1>1
<1>3. QED
  BY <1>2, ScannerIndInv, PTL DEF Spec, HitsAreFresh
=============================================================================
