----------------------------- MODULE IpcProofs -----------------------------
(***************************************************************************)
(* What two processes hand each other: the control stream, for every       *)
(* capacity, frame length, chunk and number of frames; and the shared      *)
(* audio regions, for every set of regions, fields and values, with stores *)
(* that arrive in any order and either side dying anywhere.                *)
(***************************************************************************)
EXTENDS ControlChannel, DataPlane, DataLemmas

Byte == Nat \X Nat

Points == {"idle", "abandoned?", "push", "poll", "open?", "gone?", "dropping", "dropped"}

Types ==
  /\ open \in BOOLEAN
  /\ queue \in [End -> Seq(Seq(Byte))]
  /\ pending \in [End -> Seq(Byte)]
  /\ inbox \in [End -> Seq(Byte)]
  /\ poison \in [End -> {"none", "closed", "truncated", "protocol"}]
  /\ pc \in [End -> Points]
  /\ draft \in [End -> [kind : Kind, upto : 0 .. FrameBytes]]
  /\ written \in [End -> Seq(Kind)]
  /\ part \in [End -> 1 .. FrameBytes]
  /\ answers \in [End -> Seq(Kind)]

(* The limits of the two buffers. *)
Bounded(e) ==
  /\ Len(queue[e]) <= Capacity
  /\ \A i \in DOMAIN queue[e] : queue[e][i] # <<>>
  /\ Len(inbox[e]) < FrameBytes + MaxRecvChunk

(* A segment in the writer's hands is one more run of bytes of the frame under way. *)
DraftFits(e) ==
  /\ written[e] = <<>> => part[e] = FrameBytes
  /\ pc[e] \in {"abandoned?", "push"} =>
       /\ draft[e].upto >= 1
       /\ MidFrame(e) => draft[e].upto > part[e]

(* An end that failed is in no call, and the link is closed. *)
Stops(e) ==
  /\ pc[e] \in {"abandoned?", "push", "poll", "open?", "gone?"} => poison[e] = "none"
  /\ poison[e] # "none" => ~open

(* The n-th byte of what an end writes, and a run of them. *)
ByteAt(n) == <<(n \div FrameBytes) + 1, (n % FrameBytes) + 1>>
Stream(from, upto) == [i \in 1 .. upto - from |-> ByteAt(from + i - 1)]

(* The bytes between what was consumed and what was written are the ones under way. *)
Carried(e) ==
  /\ BytesConsumed(e) <= BytesWritten(Peer(e))
  /\ InTransit(e) = Stream(BytesConsumed(e), BytesWritten(Peer(e)))

EndInv(e) == Bounded(e) /\ DraftFits(e) /\ Stops(e) /\ Carried(e) /\ AnswersInOrder(e)

ChannelInv == Types /\ \A e \in End : EndInv(e)

-----------------------------------------------------------------------------
(* Streams of bytes. *)
LEMMA PeerIsOther ==
  ASSUME NEW e \in End
  PROVE  Peer(e) \in End /\ Peer(e) # e /\ Peer(Peer(e)) = e /\ End = {e, Peer(e)}
  BY DEF End, Peer

LEMMA SizesKnown ==
  /\ Capacity \in Nat \ {0} /\ FrameBytes \in Nat \ {0}
  /\ HeaderBytes \in Nat \ {0} /\ MaxRecvChunk \in Nat \ {0}
  BY ChannelAssumption

LEMMA ByteType ==
  ASSUME NEW n \in Nat PROVE ByteAt(n) \in Byte
<1>1. n % FrameBytes \in Nat /\ n \div FrameBytes \in Nat
  BY SizesKnown, Division
<1>2. QED
  BY <1>1 DEF ByteAt, Byte

(* The bytes of frame f + 1. *)
LEMMA ByteOfFrame ==
  ASSUME NEW f \in Nat, NEW r \in 0 .. FrameBytes - 1
  PROVE  ByteAt(f * FrameBytes + r) = <<f + 1, r + 1>>
<1> DEFINE n == f * FrameBytes + r
           q == n \div FrameBytes
           m == n % FrameBytes
<1>1. n \in Nat /\ f * FrameBytes = FrameBytes * f
  BY SizesKnown
<1>2. n = FrameBytes * f + r
  BY <1>1, SizesKnown
<1> HIDE DEF n
<1>3. n = FrameBytes * q + m /\ m \in 0 .. FrameBytes - 1 /\ q \in Nat
  BY <1>1, Division, SizesKnown
<1> HIDE DEF q, m
<1>4. FrameBytes * q + m = FrameBytes * f + r
  BY <1>2, <1>3
<1>5. q = f /\ m = r
  BY <1>3, <1>4, DivisionUnique, SizesKnown
<1>6. QED
  BY <1>5 DEF ByteAt, n, q, m

LEMMA StreamIsSeq ==
  ASSUME NEW a \in Nat, NEW b \in Nat, a <= b
  PROVE  /\ Stream(a, b) \in Seq(Byte)
         /\ Len(Stream(a, b)) = b - a
         /\ \A i \in 1 .. b - a : Stream(a, b)[i] = ByteAt(a + i - 1)
<1>1. \A i \in 1 .. b - a : ByteAt(a + i - 1) \in Byte
  BY ByteType
<1>2. b - a \in Nat
  OBVIOUS
<1>3. QED
  BY <1>1, <1>2 DEF Stream

(* A run of the stream is known by its length and its bytes. *)
LEMMA IsStream ==
  ASSUME NEW a \in Nat, NEW b \in Nat, a <= b,
         NEW s \in Seq(Byte), Len(s) = b - a,
         \A i \in 1 .. b - a : s[i] = ByteAt(a + i - 1)
  PROVE  s = Stream(a, b)
<1> DEFINE t == Stream(a, b)
<1>1. t \in Seq(Byte) /\ Len(t) = b - a /\ \A i \in 1 .. b - a : t[i] = ByteAt(a + i - 1)
  BY StreamIsSeq
<1> HIDE DEF t
<1>2. Len(s) = Len(t) /\ \A i \in 1 .. Len(s) : s[i] = t[i]
  BY <1>1
<1>3. s = t
  BY <1>1, <1>2, SeqEqual
<1>4. QED
  BY <1>3 DEF t

LEMMA StreamJoin ==
  ASSUME NEW a \in Nat, NEW b \in Nat, NEW c \in Nat, a <= b, b <= c
  PROVE  Stream(a, b) \o Stream(b, c) = Stream(a, c)
<1> DEFINE s == Stream(a, b)
           t == Stream(b, c)
           u == s \o t
<1>1. s \in Seq(Byte) /\ Len(s) = b - a /\ \A i \in 1 .. b - a : s[i] = ByteAt(a + i - 1)
  BY StreamIsSeq
<1>2. t \in Seq(Byte) /\ Len(t) = c - b /\ \A i \in 1 .. c - b : t[i] = ByteAt(b + i - 1)
  BY StreamIsSeq
<1> HIDE DEF s, t
<1>3. /\ u \in Seq(Byte) /\ Len(u) = Len(s) + Len(t)
      /\ \A i \in 1 .. Len(s) : u[i] = s[i]
      /\ \A i \in 1 .. Len(t) : u[Len(s) + i] = t[i]
  <2>1. s \in Seq(Byte) /\ t \in Seq(Byte)
    BY <1>1, <1>2
  <2>2. QED
    BY <2>1, InARow
<1> HIDE DEF u
<1>4. Len(u) = c - a
  BY <1>1, <1>2, <1>3
<1>5. ASSUME NEW i \in 1 .. c - a
      PROVE  u[i] = ByteAt(a + i - 1)
  <2>1. CASE i <= b - a
    BY <1>1, <1>3, <2>1
  <2>2. CASE i > b - a
    <3> DEFINE k == i - (b - a)
    <3>1. k \in 1 .. c - b /\ b + k - 1 = a + i - 1 /\ (b - a) + k = i
      BY <2>2
    <3> HIDE DEF k
    <3>2. u[(b - a) + k] = t[k] /\ t[k] = ByteAt(b + k - 1)
      BY <1>1, <1>2, <1>3, <3>1
    <3>3. QED
      BY <3>1, <3>2
  <2>3. QED
    BY <2>1, <2>2
<1>6. a <= c
  OBVIOUS
<1>7. u = Stream(a, c)
  BY <1>3, <1>4, <1>5, <1>6, IsStream
<1>8. QED
  BY <1>7 DEF s, t, u

(* What is left of a run when its first n bytes are taken off. *)
LEMMA StreamRest ==
  ASSUME NEW a \in Nat, NEW b \in Nat, a <= b,
         NEW x \in Seq(Byte), NEW y \in Seq(Byte), x \o y = Stream(a, b),
         NEW n \in 0 .. Len(x)
  PROVE  a + n <= b /\ SubSeq(x, n + 1, Len(x)) \o y = Stream(a + n, b)
<1> DEFINE z == SubSeq(x, n + 1, Len(x))
           u == x \o y
           w == z \o y
           m == Len(x) - n
<1>1. /\ Len(u) = b - a
      /\ \A i \in 1 .. b - a : u[i] = ByteAt(a + i - 1)
  <2>1. u = Stream(a, b)
    OBVIOUS
  <2> HIDE DEF u
  <2>2. QED
    BY <2>1, StreamIsSeq
<1>2. /\ Len(x) \in Nat /\ Len(y) \in Nat /\ Len(u) = Len(x) + Len(y)
      /\ \A i \in 1 .. Len(x) : u[i] = x[i]
      /\ \A i \in 1 .. Len(y) : u[Len(x) + i] = y[i]
  BY InARow
<1>3. /\ n \in Nat /\ n <= Len(x) /\ z \in Seq(Byte) /\ Len(z) = m
      /\ \A i \in 1 .. m : z[i] = x[n + i]
  BY EndOf
<1> HIDE DEF z
<1>4. /\ w \in Seq(Byte) /\ Len(w) = Len(z) + Len(y)
      /\ \A i \in 1 .. Len(z) : w[i] = z[i]
      /\ \A i \in 1 .. Len(y) : w[Len(z) + i] = y[i]
  <2>1. z \in Seq(Byte)
    BY <1>3
  <2>2. QED
    BY <2>1, InARow
<1>5. m \in Nat /\ m + n = Len(x) /\ m + Len(y) = b - (a + n) /\ a + n \in Nat /\ a + n <= b
  BY <1>1, <1>2, <1>3
<1> HIDE DEF u, w, m
<1>6. ASSUME NEW i \in 1 .. b - (a + n)
      PROVE  w[i] = ByteAt((a + n) + i - 1)
  <2>1. n + i \in 1 .. b - a /\ a + (n + i) - 1 = (a + n) + i - 1
    BY <1>3, <1>5
  <2>2. u[n + i] = ByteAt((a + n) + i - 1)
    BY <1>1, <2>1
  <2>3. CASE i <= m
    <3>1. i \in 1 .. m /\ n + i \in 1 .. Len(x)
      BY <1>3, <1>5, <2>3
    <3>2. w[i] = u[n + i]
      BY <1>2, <1>3, <1>4, <3>1
    <3>3. QED
      BY <2>2, <3>2
  <2>4. CASE i > m
    <3> DEFINE k == i - m
    <3>1. k \in 1 .. Len(y) /\ i = m + k /\ n + i = Len(x) + k
      <4>1. m \in Nat /\ n \in Nat /\ Len(y) \in Nat /\ Len(x) \in Nat
        BY <1>2, <1>3, <1>5
      <4>2. m + n = Len(x) /\ m + Len(y) = b - (a + n)
        BY <1>5
      <4> DEFINE p == Len(x)
                 l == Len(y)
      <4>3. m \in Nat /\ n \in Nat /\ p \in Nat /\ l \in Nat /\ m + n = p
        BY <4>1, <4>2
      <4>4. i \in Int /\ m < i /\ i <= m + l
        BY <2>4, <4>1, <4>2
      <4> HIDE DEF p, l
      <4>5. k \in 1 .. l /\ i = m + k /\ n + i = p + k
        BY <4>3, <4>4
      <4>6. QED
        BY <4>5 DEF p, l
    <3> HIDE DEF k
    <3>2. w[i] = u[n + i]
      BY <1>2, <1>3, <1>4, <3>1
    <3>3. QED
      BY <2>2, <3>2
  <2>5. QED
    BY <1>5, <2>3, <2>4
<1>7. Len(w) = b - (a + n)
  BY <1>3, <1>4, <1>5
<1>8. w = Stream(a + n, b)
  BY <1>4, <1>5, <1>6, <1>7, IsStream
<1>9. QED
  BY <1>5, <1>8 DEF w, z

-----------------------------------------------------------------------------
(* What a step that moves no byte keeps. *)
Still == UNCHANGED <<queue, pending, inbox, written, part, answers>>

LEMMA StillKeepsBytes ==
  ASSUME NEW e \in End, Bounded(e), Carried(e), Still
  PROVE  Bounded(e)' /\ Carried(e)'
<1>1. /\ queue' = queue /\ pending' = pending /\ inbox' = inbox
      /\ written' = written /\ part' = part /\ answers' = answers
  BY DEF Still
<1>2. Bounded(e)'
  BY <1>1 DEF Bounded
<1>3. /\ InTransit(e)' = InTransit(e) /\ BytesConsumed(e)' = BytesConsumed(e)
      /\ BytesWritten(Peer(e))' = BytesWritten(Peer(e))
  BY <1>1 DEF InTransit, BytesConsumed, BytesWritten
<1>4. Carried(e)'
  BY <1>3 DEF Carried
<1>5. QED
  BY <1>2, <1>4

(* A failure that comes with no answer leaves the answers in order. *)
LEMMA StillKeepsAnswers ==
  ASSUME NEW e \in End, AnswersInOrder(e), Still,
         poison[e] = "none" \/ poison'[e] = poison[e]
  PROVE  AnswersInOrder(e)'
<1>1. written' = written /\ answers' = answers
  BY DEF Still
<1>2. ASSUME NEW i \in DOMAIN answers[e], Fatal(answers[e][i])
      PROVE  poison'[e] = "protocol"
  BY <1>2 DEF AnswersInOrder
<1>3. QED
  BY <1>1, <1>2 DEF AnswersInOrder

(* So such a step is left with the types, the segment in hand and the failures. *)
LEMMA StillStep ==
  ASSUME ChannelInv, Still, Types',
         \A e \in End : poison[e] = "none" \/ poison'[e] = poison[e],
         \A e \in End : DraftFits(e)' /\ Stops(e)'
  PROVE  ChannelInv'
<1>1. ASSUME NEW e \in End
      PROVE  EndInv(e)'
  <2>1. Bounded(e) /\ Carried(e) /\ AnswersInOrder(e)
    BY DEF ChannelInv, EndInv
  <2>2. Bounded(e)' /\ Carried(e)'
    BY <2>1, StillKeepsBytes
  <2>3. AnswersInOrder(e)'
    BY <2>1, StillKeepsAnswers
  <2>4. QED
    BY <2>2, <2>3 DEF EndInv
<1>2. QED
  BY <1>1 DEF ChannelInv

(* ... and when it takes up no segment, with where the ends are. *)
LEMMA StillDraft ==
  ASSUME ChannelInv, Still,
         \A e \in End : pc'[e] \in {"abandoned?", "push"} =>
           pc[e] \in {"abandoned?", "push"} /\ draft'[e] = draft[e]
  PROVE  \A e \in End : DraftFits(e)'
<1>1. written' = written /\ part' = part
  BY DEF Still
<1>2. QED
  BY <1>1 DEF ChannelInv, EndInv, DraftFits, MidFrame

LEMMA SendKeeps ==
  ASSUME ChannelInv, NEW e \in End, NEW kind \in Kind, NEW upto \in 1 .. FrameBytes,
         Send(e, kind, upto)
  PROVE  ChannelInv'
<1>1. /\ Still /\ open' = open /\ poison' = poison
      /\ pc[e] = "idle" /\ poison[e] = "none"
      /\ pc' = [pc EXCEPT ![e] = "abandoned?"]
      /\ draft' = [draft EXCEPT ![e] = [kind |-> kind, upto |-> upto]]
      /\ MidFrame(e) => upto > part[e]
  BY DEF Send, GoTo, Still, linkVars, readVars
<1>2. Types'
  <2>1. [kind |-> kind, upto |-> upto] \in [kind : Kind, upto : 0 .. FrameBytes]
    BY SizesKnown
  <2>2. QED
    BY <1>1, <2>1 DEF ChannelInv, Types, Still, Points
<1>3. ASSUME NEW d \in End PROVE DraftFits(d)' /\ Stops(d)'
  <2>1. DraftFits(d) /\ Stops(d) /\ Types /\ written' = written /\ part' = part
    BY <1>1 DEF ChannelInv, EndInv, Still
  <2>2. CASE d = e
    <3>1. pc'[d] = "abandoned?" /\ draft'[d].upto = upto
      BY <1>1, <2>1, <2>2 DEF Types
    <3>2. QED
      BY <1>1, <2>1, <2>2, <3>1 DEF DraftFits, Stops, MidFrame
  <2>3. CASE d # e
    <3>1. pc'[d] = pc[d] /\ draft'[d] = draft[d]
      BY <1>1, <2>1, <2>3 DEF Types
    <3>2. QED
      BY <1>1, <2>1, <3>1 DEF DraftFits, Stops, MidFrame
  <2>4. QED
    BY <2>2, <2>3
<1>4. QED
  BY <1>1, <1>2, <1>3, StillStep

(* The steps that only move a thread, put down a segment or close the link. *)
LEMMA MoveKeeps ==
  ASSUME ChannelInv, NEW e \in End, Still, NEW point \in Points,
         pc' = [pc EXCEPT ![e] = point],
         draft' = draft \/ draft' = [draft EXCEPT ![e] = NoDraft],
         open' \in BOOLEAN, open' => open,
         poison' = poison \/ /\ poison[e] = "none" /\ ~open' /\ point = "idle"
                             /\ \E failure \in {"closed", "truncated", "protocol"} :
                                  poison' = [poison EXCEPT ![e] = failure],
         point = "push" => pc[e] = "abandoned?" /\ draft' = draft,
         point # "abandoned?",
         point \in {"poll", "open?", "gone?"} => poison[e] = "none" /\ poison' = poison
  PROVE  ChannelInv'
<1>1. Types
  BY DEF ChannelInv
<1>2. NoDraft \in [kind : Kind, upto : 0 .. FrameBytes]
  BY SizesKnown DEF NoDraft, Kind
<1>3. pc' \in [End -> Points]
  BY <1>1 DEF Types
<1>4. draft' \in [End -> [kind : Kind, upto : 0 .. FrameBytes]]
  BY <1>1, <1>2 DEF Types
<1>5. poison' \in [End -> {"none", "closed", "truncated", "protocol"}]
  BY <1>1 DEF Types
<1>6. Types'
  BY <1>1, <1>3, <1>4, <1>5 DEF Types, Still
<1>7. pc'[e] = point /\ \A d \in End \ {e} :
        pc'[d] = pc[d] /\ draft'[d] = draft[d] /\ poison'[d] = poison[d]
  BY <1>1 DEF Types
<1>8. \A d \in End : poison[d] = "none" \/ poison'[d] = poison[d]
  BY <1>7
<1>9. \A d \in End : DraftFits(d)'
  BY <1>7, StillDraft
<1>10. ASSUME NEW d \in End PROVE Stops(d)'
  <2>1. Stops(d) /\ (pc[d] = "abandoned?" => poison[d] = "none")
    BY DEF ChannelInv, EndInv, Stops
  <2>2. CASE d = e
    <3>1. poison'[d] # "none" => ~open'
      BY <1>1, <1>7, <2>1, <2>2 DEF Stops, Types
    <3>2. pc'[d] \in {"abandoned?", "push", "poll", "open?", "gone?"} => poison'[d] = "none"
      BY <1>7, <2>1, <2>2
    <3>3. QED
      BY <3>1, <3>2 DEF Stops
  <2>3. CASE d # e
    BY <1>7, <2>1, <2>3 DEF Stops
  <2>4. QED
    BY <2>2, <2>3
<1>11. QED
  BY <1>6, <1>8, <1>9, <1>10, StillStep

LEMMA QuietStepsKeep ==
  ASSUME ChannelInv, NEW e \in End,
         \/ SendAbandoned(e) \/ SendFull(e) \/ RefuseHeader(e) \/ PollStart(e)
         \/ RecvOpen(e) \/ RecvGone(e) \/ Close(e) \/ Drop(e)
  PROVE  ChannelInv'
<1> USE DEF Still, GoTo, SendEnds, linkVars, readVars, sendVars, Points
<1>1. /\ open \in BOOLEAN
      /\ pc[e] \in {"abandoned?", "push", "poll", "open?", "gone?"} => poison[e] = "none"
      /\ pc \in [End -> Points]
  BY DEF ChannelInv, EndInv, Stops, Types
<1>2. CASE SendAbandoned(e)
  <2>1. \/ pc' = [pc EXCEPT ![e] = "idle"] /\ draft' = [draft EXCEPT ![e] = NoDraft]
        \/ pc' = [pc EXCEPT ![e] = "push"] /\ draft' = draft
    BY <1>2 DEF SendAbandoned
  <2>2. Still /\ open' = open /\ poison' = poison /\ pc[e] = "abandoned?"
    BY <1>2 DEF SendAbandoned
  <2>3. CASE pc' = [pc EXCEPT ![e] = "idle"] /\ draft' = [draft EXCEPT ![e] = NoDraft]
    BY <1>1, <2>2, <2>3, MoveKeeps
  <2>4. CASE pc' = [pc EXCEPT ![e] = "push"] /\ draft' = draft
    BY <1>1, <2>2, <2>4, MoveKeeps
  <2>5. QED
    BY <2>1, <2>3, <2>4
<1>3. CASE SendFull(e)
  <2>1. /\ Still /\ open' = open /\ poison' = poison
        /\ pc' = [pc EXCEPT ![e] = "idle"] /\ draft' = [draft EXCEPT ![e] = NoDraft]
    BY <1>3 DEF SendFull
  <2>2. QED
    BY <1>1, <2>1, MoveKeeps
<1>4. CASE RefuseHeader(e)
  <2>1. /\ Still /\ draft' = draft /\ pc[e] = "poll" /\ open' = FALSE
        /\ poison' = [poison EXCEPT ![e] = "protocol"] /\ pc' = [pc EXCEPT ![e] = "idle"]
    BY <1>4 DEF RefuseHeader, Poison
  <2>2. QED
    BY <1>1, <2>1, MoveKeeps
<1>5. CASE PollStart(e)
  <2>1. /\ Still /\ draft' = draft /\ open' = open /\ poison' = poison /\ poison[e] = "none"
        /\ pc' = [pc EXCEPT ![e] = "poll"]
    BY <1>5 DEF PollStart
  <2>2. QED
    BY <1>1, <2>1, MoveKeeps
<1>6. ASSUME ReportClosed(e), Still, draft' = draft, pc[e] \in {"open?", "gone?"}
      PROVE  ChannelInv'
  <2>1. \E failure \in {"closed", "truncated", "protocol"} :
           poison' = [poison EXCEPT ![e] = failure]
    BY <1>6 DEF ReportClosed, Poison
  <2>2. open' = FALSE /\ pc' = [pc EXCEPT ![e] = "idle"]
    BY <1>6 DEF ReportClosed, Poison
  <2>3. QED
    BY <1>1, <1>6, <2>1, <2>2, MoveKeeps
<1>7. CASE RecvOpen(e)
  <2>1. Still /\ draft' = draft /\ pc[e] = "open?"
    BY <1>7 DEF RecvOpen
  <2>2. \/ open' = open /\ poison' = poison /\ pc' = [pc EXCEPT ![e] = "gone?"]
        \/ ReportClosed(e)
    BY <1>7 DEF RecvOpen
  <2>3. CASE open' = open /\ poison' = poison /\ pc' = [pc EXCEPT ![e] = "gone?"]
    BY <1>1, <2>1, <2>3, MoveKeeps
  <2>4. QED
    BY <1>6, <2>1, <2>2, <2>3
<1>8. CASE RecvGone(e)
  <2>1. Still /\ draft' = draft /\ pc[e] = "gone?"
    BY <1>8 DEF RecvGone
  <2>2. \/ open' = open /\ poison' = poison /\ pc' = [pc EXCEPT ![e] = "idle"]
        \/ ReportClosed(e)
    BY <1>8 DEF RecvGone
  <2>3. CASE open' = open /\ poison' = poison /\ pc' = [pc EXCEPT ![e] = "idle"]
    BY <1>1, <2>1, <2>3, MoveKeeps
  <2>4. QED
    BY <1>6, <2>1, <2>2, <2>3
<1>9. CASE Close(e)
  <2>1. /\ Still /\ draft' = draft /\ open' = FALSE /\ poison' = poison
        /\ pc[e] = "idle" /\ pc' = pc
    BY <1>9 DEF Close
  <2>2. pc' = [pc EXCEPT ![e] = "idle"]
    BY <1>1, <2>1
  <2>3. QED
    BY <1>1, <2>1, <2>2, MoveKeeps
<1>10. CASE Drop(e)
  <2>1. Still /\ draft' = draft /\ open' = open /\ poison' = poison
    BY <1>10 DEF Drop
  <2>2. \/ pc' = [pc EXCEPT ![e] = "dropping"] \/ pc' = [pc EXCEPT ![e] = "dropped"]
    BY <1>10 DEF Drop
  <2>3. CASE pc' = [pc EXCEPT ![e] = "dropping"]
    BY <1>1, <2>1, <2>3, MoveKeeps
  <2>4. CASE pc' = [pc EXCEPT ![e] = "dropped"]
    BY <1>1, <2>1, <2>4, MoveKeeps
  <2>5. QED
    BY <2>2, <2>3, <2>4
<1>11. QED
  BY <1>2, <1>3, <1>4, <1>5, <1>7, <1>8, <1>9, <1>10

-----------------------------------------------------------------------------
(* A run of one frame's bytes is a run of the stream. *)
LEMMA FrameRun ==
  ASSUME NEW f \in Nat, NEW from \in 1 .. FrameBytes, NEW upto \in from .. FrameBytes
  PROVE  /\ f * FrameBytes + from - 1 \in Nat /\ f * FrameBytes + upto \in Nat
         /\ f * FrameBytes + from - 1 < f * FrameBytes + upto
         /\ Bytes(f + 1, from, upto) = Stream(f * FrameBytes + from - 1, f * FrameBytes + upto)
         /\ Bytes(f + 1, from, upto) \in Seq(Byte)
         /\ Bytes(f + 1, from, upto) # <<>>
<1> DEFINE g == f * FrameBytes
           a == g + from - 1
           b == g + upto
           s == Bytes(f + 1, from, upto)
<1>1. FrameBytes \in Nat /\ g \in Nat
  BY SizesKnown
<1>2. \A r \in 0 .. FrameBytes - 1 : ByteAt(g + r) = <<f + 1, r + 1>>
  BY ByteOfFrame
<1> HIDE DEF g
<1>3. a \in Nat /\ b \in Nat /\ a < b /\ a <= b /\ b - a = upto - from + 1
  BY <1>1
<1>4. ASSUME NEW i \in 1 .. b - a
      PROVE  s[i] = ByteAt(a + i - 1) /\ s[i] \in Byte
  <2> DEFINE r == from + i - 2
  <2>1. r \in 0 .. FrameBytes - 1 /\ a + i - 1 = g + r /\ r + 1 = from + i - 1 /\ g + r \in Nat
    BY <1>1, <1>3
  <2>2. s[i] = <<f + 1, from + i - 1>>
    BY <1>3 DEF Bytes
  <2> HIDE DEF r, s, a
  <2>3. ByteAt(a + i - 1) = <<f + 1, from + i - 1>>
    BY <1>2, <2>1
  <2>4. ByteAt(a + i - 1) \in Byte
    BY <2>1, ByteType
  <2>5. QED
    BY <2>2, <2>3, <2>4
<1>5. s \in Seq(Byte) /\ Len(s) = b - a
  <2>1. s = [k \in 1 .. b - a |-> <<f + 1, from + k - 1>>]
    BY <1>3 DEF Bytes
  <2>2. b - a \in Nat
    BY <1>3
  <2> HIDE DEF a, b, s
  <2>3. \A k \in 1 .. b - a : <<f + 1, from + k - 1>> \in Byte
    BY <1>4, <2>1
  <2>4. QED
    BY <2>1, <2>2, <2>3
<1>6. s # <<>>
  BY <1>3, <1>5
<1> HIDE DEF s
<1>7. s = Stream(a, b)
  <2> HIDE DEF a, b
  <2> QED
    BY <1>3, <1>4, <1>5, IsStream
<1>8. QED
  BY <1>3, <1>5, <1>6, <1>7 DEF a, b, g, s

(* SendPush appends the next run of its frame, and the history follows. *)
LEMMA PushAppends ==
  ASSUME ChannelInv, NEW e \in End, SendPush(e)
  PROVE  \E s \in Seq(Byte) :
           /\ s # <<>>
           /\ queue' = [queue EXCEPT ![e] = Append(@, s)]
           /\ BytesWritten(e) \in Nat /\ BytesWritten(e)' \in Nat
           /\ BytesWritten(e) <= BytesWritten(e)'
           /\ s = Stream(BytesWritten(e), BytesWritten(e)')
           /\ written'[e] # <<>> /\ written' \in [End -> Seq(Kind)] /\ part' \in [End -> 1 .. FrameBytes]
           /\ \A i \in 1 .. Len(written[e]) : i <= Len(written'[e]) /\ written'[e][i] = written[e][i]
           /\ \A d \in End \ {e} : written'[d] = written[d] /\ part'[d] = part[d]
<1> DEFINE n == Len(written[e])
           upto == draft[e].upto
           F == FrameBytes
<1>1. /\ written \in [End -> Seq(Kind)] /\ part \in [End -> 1 .. F] /\ queue \in [End -> Seq(Seq(Byte))]
      /\ written[e] \in Seq(Kind) /\ n \in Nat /\ part[e] \in 1 .. F
      /\ draft[e] \in [kind : Kind, upto : 0 .. F]
      /\ F \in Nat \ {0}
  BY SizesKnown DEF ChannelInv, Types
<1>2. /\ upto \in 1 .. F /\ (MidFrame(e) => upto > part[e])
      /\ draft[e].kind \in Kind
      /\ written[e] = <<>> => part[e] = F
  <2>1. DraftFits(e) /\ pc[e] = "push"
    BY DEF ChannelInv, EndInv, SendPush
  <2>2. upto \in 0 .. F /\ draft[e].kind \in Kind
    BY <1>1
  <2>3. QED
    BY <2>1, <2>2 DEF DraftFits
<1>3. part' = [part EXCEPT ![e] = upto] /\ part'[e] = upto /\ part' \in [End -> 1 .. F]
  BY <1>1, <1>2 DEF SendPush
<1>4. CASE MidFrame(e)
  <2> DEFINE f == n - 1
  <2>1. part[e] < F /\ n # 0 /\ f \in Nat /\ f + 1 = n
    BY <1>1, <1>2, <1>4 DEF MidFrame
  <2>2. /\ queue' = [queue EXCEPT ![e] = Append(@, Bytes(n, part[e] + 1, upto))]
        /\ written' = written
    BY <1>1, <1>4 DEF SendPush
  <2>3. BytesWritten(e) = f * F + part[e] /\ BytesWritten(e)' = f * F + upto
    BY <1>3, <2>2 DEF BytesWritten
  <2>4. part[e] + 1 \in 1 .. F /\ upto \in part[e] + 1 .. F
    BY <1>1, <1>2, <1>4, <2>1
  <2> DEFINE g == f * F
             from == part[e] + 1
             s == Bytes(f + 1, from, upto)
  <2> HIDE DEF f
  <2>5. /\ g + from - 1 \in Nat /\ g + upto \in Nat /\ g + from - 1 < g + upto
        /\ s = Stream(g + from - 1, g + upto)
        /\ s \in Seq(Byte) /\ s # <<>>
    <3> HIDE DEF from, upto
    <3> QED
      BY <2>1, <2>4, FrameRun DEF from, upto
  <2>6. g \in Int
    BY <1>1, <2>1
  <2> HIDE DEF g, s
  <2>7. g + from - 1 = g + part[e]
    BY <1>1, <2>6
  <2>8. BytesWritten(e) = g + from - 1 /\ BytesWritten(e)' = g + upto
    BY <2>3, <2>7 DEF g
  <2>9. queue' = [queue EXCEPT ![e] = Append(@, s)]
    BY <2>1, <2>2 DEF s
  <2>10. written'[e] # <<>> /\ \A d \in End \ {e} : part'[d] = part[d]
    BY <1>1, <1>3, <2>1, <2>2
  <2>11. \A i \in 1 .. Len(written[e]) : i <= Len(written'[e]) /\ written'[e][i] = written[e][i]
    BY <1>1, <2>2
  <2>12. /\ BytesWritten(e) \in Nat /\ BytesWritten(e)' \in Nat
         /\ BytesWritten(e) <= BytesWritten(e)'
         /\ s = Stream(BytesWritten(e), BytesWritten(e)')
    <3>1. g + from - 1 <= g + upto
      BY <2>5
    <3>2. QED
      BY <2>5, <2>8, <3>1
  <2>13. QED
    BY <1>1, <1>3, <2>2, <2>5, <2>9, <2>10, <2>11, <2>12
<1>5. CASE ~MidFrame(e)
  <2>1. part[e] = F
    BY <1>1, <1>5 DEF MidFrame
  <2>2. /\ queue' = [queue EXCEPT ![e] = Append(@, Bytes(n + 1, 1, upto))]
        /\ written' = [written EXCEPT ![e] = Append(@, draft[e].kind)]
    BY <1>1, <1>5 DEF SendPush
  <2>3. /\ written'[e] = Append(written[e], draft[e].kind) /\ Len(written'[e]) = n + 1
        /\ written' \in [End -> Seq(Kind)]
        /\ \A d \in End \ {e} : written'[d] = written[d]
    BY <1>1, <1>2, <2>2
  <2>4. BytesWritten(e) = n * F /\ BytesWritten(e)' = n * F + upto
    <3>1. BytesWritten(e) = (n - 1) * F + F
      BY <2>1 DEF BytesWritten
    <3>2. BytesWritten(e)' = ((n + 1) - 1) * F + upto
      BY <1>3, <2>3 DEF BytesWritten
    <3>3. (n - 1) * F + F = n * F
      BY <1>1
    <3>4. (n + 1) - 1 = n
      BY <1>1
    <3>5. QED
      BY <3>1, <3>2, <3>3, <3>4
  <2> DEFINE g == n * F
             s == Bytes(n + 1, 1, upto)
  <2>5. 1 \in 1 .. F /\ upto \in 1 .. F
    BY <1>1, <1>2
  <2>6. /\ g + 1 - 1 \in Nat /\ g + upto \in Nat /\ g + 1 - 1 < g + upto
        /\ s = Stream(g + 1 - 1, g + upto)
        /\ s \in Seq(Byte) /\ s # <<>>
    <3> HIDE DEF upto, n
    <3> QED
      BY <1>1, <2>5, FrameRun
  <2>7. g \in Int
    BY <1>1
  <2> HIDE DEF g, s
  <2>8. g + 1 - 1 = g
    BY <2>7
  <2>9. queue' = [queue EXCEPT ![e] = Append(@, s)]
    BY <2>2 DEF s
  <2>10. written'[e] # <<>> /\ \A d \in End \ {e} : part'[d] = part[d]
    <3>1. Len(written'[e]) # 0
      BY <1>1, <2>3
    <3>2. QED
      BY <1>1, <1>3, <3>1
  <2>11. \A i \in 1 .. Len(written[e]) : i <= Len(written'[e]) /\ written'[e][i] = written[e][i]
    BY <1>1, <1>2, <2>3
  <2>12. /\ BytesWritten(e) \in Nat /\ BytesWritten(e)' \in Nat
         /\ BytesWritten(e) <= BytesWritten(e)'
         /\ s = Stream(BytesWritten(e), BytesWritten(e)')
    <3>1. BytesWritten(e) = g /\ BytesWritten(e)' = g + upto
      BY <2>4 DEF g
    <3>2. g \in Nat /\ g + upto \in Nat /\ g <= g + upto /\ s = Stream(g, g + upto)
      BY <2>6, <2>8
    <3>3. QED
      BY <3>1, <3>2
  <2>13. QED
    BY <1>3, <2>3, <2>6, <2>9, <2>10, <2>11, <2>12
<1>6. QED
  BY <1>4, <1>5

LEMMA PushKeeps ==
  ASSUME ChannelInv, NEW e \in End, SendPush(e)
  PROVE  ChannelInv'
<1> DEFINE p == Peer(e)
<1>1. PICK s \in Seq(Byte) :
           /\ s # <<>>
           /\ queue' = [queue EXCEPT ![e] = Append(@, s)]
           /\ BytesWritten(e) \in Nat /\ BytesWritten(e)' \in Nat
           /\ BytesWritten(e) <= BytesWritten(e)'
           /\ s = Stream(BytesWritten(e), BytesWritten(e)')
           /\ written'[e] # <<>> /\ written' \in [End -> Seq(Kind)] /\ part' \in [End -> 1 .. FrameBytes]
           /\ \A i \in 1 .. Len(written[e]) : i <= Len(written'[e]) /\ written'[e][i] = written[e][i]
           /\ \A d \in End \ {e} : written'[d] = written[d] /\ part'[d] = part[d]
  BY PushAppends
<1>2. /\ open' = open /\ pending' = pending /\ inbox' = inbox /\ poison' = poison /\ answers' = answers
      /\ Len(queue[e]) < Capacity
      /\ pc' = [pc EXCEPT ![e] = "idle"] /\ draft' = [draft EXCEPT ![e] = NoDraft]
  BY DEF SendPush, SendEnds, GoTo, readVars
<1>3. Types
  BY DEF ChannelInv
<1>4. p \in End /\ p # e /\ Peer(p) = e /\ End = {e, p}
  BY PeerIsOther
<1> HIDE DEF p
<1>5. /\ queue[e] \in Seq(Seq(Byte)) /\ queue'[e] = Append(queue[e], s) /\ queue'[p] = queue[p]
      /\ pc'[e] = "idle" /\ pc'[p] = pc[p] /\ draft'[p] = draft[p]
  BY <1>1, <1>2, <1>3, <1>4 DEF Types
<1>6. Types'
  <2>1. NoDraft \in [kind : Kind, upto : 0 .. FrameBytes]
    BY SizesKnown DEF NoDraft, Kind
  <2>2. queue' \in [End -> Seq(Seq(Byte))]
    <3>1. Append(queue[e], s) \in Seq(Seq(Byte))
      BY <1>5
    <3>2. QED
      BY <1>1, <1>3, <3>1 DEF Types
  <2>3. pc' \in [End -> Points] /\ draft' \in [End -> [kind : Kind, upto : 0 .. FrameBytes]]
    BY <1>2, <1>3, <2>1 DEF Types, Points
  <2>4. QED
    BY <1>1, <1>2, <1>3, <2>2, <2>3 DEF Types
<1>7. /\ Bounded(e) /\ Bounded(p) /\ DraftFits(p) /\ Stops(e) /\ Stops(p)
      /\ Carried(e) /\ Carried(p) /\ AnswersInOrder(e) /\ AnswersInOrder(p)
  BY <1>4 DEF ChannelInv, EndInv
<1>8. Bounded(e)' /\ Bounded(p)'
  <2>1. Len(queue'[e]) <= Capacity
    <3>1. Len(queue'[e]) = Len(queue[e]) + 1 /\ Len(queue[e]) \in Nat
      BY <1>5
    <3>2. QED
      BY <1>2, <3>1, SizesKnown
  <2>2. \A i \in DOMAIN queue'[e] : queue'[e][i] # <<>>
    BY <1>1, <1>5, <1>7 DEF Bounded
  <2>3. QED
    BY <1>2, <1>5, <1>7, <2>1, <2>2 DEF Bounded
<1>9. DraftFits(e)' /\ DraftFits(p)'
  <2>1. written'[p] = written[p] /\ part'[p] = part[p]
    BY <1>1, <1>4
  <2>2. DraftFits(p)'
    BY <1>5, <1>7, <2>1 DEF DraftFits, MidFrame
  <2>3. QED
    BY <1>1, <1>5, <2>2 DEF DraftFits
<1>10. Stops(e)' /\ Stops(p)'
  BY <1>2, <1>5, <1>7 DEF Stops
<1>11. Carried(e)'
  <2>1. queue'[Peer(e)] = queue[Peer(e)] /\ BytesWritten(Peer(e))' = BytesWritten(Peer(e))
    BY <1>1, <1>4, <1>5 DEF BytesWritten, p
  <2>2. InTransit(e)' = InTransit(e) /\ BytesConsumed(e)' = BytesConsumed(e)
    BY <1>2, <2>1 DEF InTransit, BytesConsumed
  <2>3. QED
    BY <1>7, <2>1, <2>2 DEF Carried
<1>12. Carried(p)'
  <2> DEFINE a == BytesConsumed(p)
             b == BytesWritten(e)
             c == BytesWritten(e)'
             x == inbox[p] \o pending[p]
             y == FlattenSeq(queue[e])
  <2>1. a <= b /\ x \o y = Stream(a, b)
    BY <1>4, <1>7 DEF Carried, InTransit
  <2>2. /\ BytesConsumed(p)' = a
        /\ InTransit(p)' = x \o FlattenSeq(queue'[e])
    BY <1>2, <1>4 DEF BytesConsumed, InTransit
  <2>3. FlattenSeq(queue'[e]) = y \o s
    BY <1>5, FlattenAppend
  <2>4. x \in Seq(Byte) /\ y \in Seq(Byte)
    <3>1. inbox[p] \in Seq(Byte) /\ pending[p] \in Seq(Byte)
      BY <1>3, <1>4 DEF Types
    <3>2. QED
      BY <1>5, <3>1, FlattenType
  <2>5. a \in Nat
    <3>1. Len(answers[p]) \in Nat
      BY <1>3, <1>4 DEF Types
    <3>2. QED
      BY <3>1, SizesKnown DEF BytesConsumed
  <2>6. b \in Nat /\ c \in Nat /\ b <= c /\ s = Stream(b, c)
    BY <1>1
  <2> HIDE DEF a, b, c, x, y
  <2>7. x \o (y \o s) = (x \o y) \o s
    BY <2>4
  <2>8. (x \o y) \o s = Stream(a, c)
    BY <2>1, <2>5, <2>6, StreamJoin
  <2>9. a <= c
    BY <2>1, <2>5, <2>6
  <2>10. BytesConsumed(p)' <= c /\ InTransit(p)' = Stream(BytesConsumed(p)', c)
    BY <2>2, <2>3, <2>7, <2>8, <2>9
  <2>11. QED
    BY <1>4, <2>10 DEF Carried, c
<1>13. AnswersInOrder(e)'
  <2>1. written'[Peer(e)] = written[Peer(e)]
    BY <1>1, <1>4 DEF p
  <2>2. QED
    BY <1>2, <1>7, <2>1 DEF AnswersInOrder
<1>14. AnswersInOrder(p)'
  <2>1. ASSUME NEW i \in DOMAIN answers[p]
        PROVE  /\ i <= Len(written'[e])
               /\ answers[p][i] = written'[e][i]
               /\ Fatal(answers[p][i]) => i = Len(answers[p]) /\ poison[p] = "protocol"
    <3>1. /\ i <= Len(written[e]) /\ answers[p][i] = written[e][i]
          /\ Fatal(answers[p][i]) => i = Len(answers[p]) /\ poison[p] = "protocol"
      BY <1>4, <1>7 DEF AnswersInOrder
    <3>2. i \in Nat /\ i >= 1 /\ Len(written[e]) \in Nat
      <4>1. answers[p] \in Seq(Kind) /\ written[e] \in Seq(Kind)
        BY <1>3, <1>4 DEF Types
      <4>2. QED
        BY <4>1
    <3>3. i \in 1 .. Len(written[e])
      BY <3>1, <3>2
    <3>4. QED
      BY <1>1, <3>1, <3>3
  <2>2. QED
    BY <1>2, <1>4, <2>1 DEF AnswersInOrder
<1>15. QED
  BY <1>4, <1>6, <1>8, <1>9, <1>10, <1>11, <1>12, <1>13, <1>14 DEF ChannelInv, EndInv

-----------------------------------------------------------------------------
(* The receiving steps move bytes from one of the reader's buffers to the next. *)
LEMMA DrainMoves ==
  ASSUME NEW e \in End, Types, NEW segment \in Seq(Byte), Drain(e, segment),
         Len(inbox[e]) < FrameBytes
  PROVE  /\ inbox' \in [End -> Seq(Byte)] /\ pending' \in [End -> Seq(Byte)]
         /\ Len(inbox'[e]) < FrameBytes + MaxRecvChunk
         /\ inbox'[e] \o pending'[e] = inbox[e] \o segment
         /\ \A d \in End \ {e} : inbox'[d] = inbox[d] /\ pending'[d] = pending[d]
<1> DEFINE n == IF Len(segment) < MaxRecvChunk THEN Len(segment) ELSE MaxRecvChunk
           u == SubSeq(segment, 1, n)
           v == SubSeq(segment, n + 1, Len(segment))
<1>1. n \in 0 .. Len(segment) /\ n <= MaxRecvChunk /\ n \in Nat
  <2>1. Len(segment) \in Nat
    OBVIOUS
  <2>2. QED
    BY <2>1, SizesKnown
<1>2. inbox' = [inbox EXCEPT ![e] = @ \o u] /\ pending' = [pending EXCEPT ![e] = v]
  BY DEF Drain
<1> HIDE DEF n
<1>3. u \in Seq(Byte) /\ Len(u) = n /\ v \in Seq(Byte)
  BY <1>1, EndOf
<1>4. u \o v = segment
  BY <1>1, CutAndJoin
<1> HIDE DEF u, v
<1>5. inbox \in [End -> Seq(Byte)] /\ pending \in [End -> Seq(Byte)] /\ inbox[e] \in Seq(Byte)
  BY DEF Types
<1>6. /\ inbox[e] \o u \in Seq(Byte)
      /\ Len(inbox[e] \o u) = Len(inbox[e]) + n /\ Len(inbox[e]) \in Nat
  BY <1>3, <1>5, InARow
<1>7. inbox' \in [End -> Seq(Byte)] /\ pending' \in [End -> Seq(Byte)]
  BY <1>2, <1>3, <1>5, <1>6
<1>8. inbox'[e] = inbox[e] \o u /\ pending'[e] = v
  BY <1>2, <1>5
<1>9. Len(inbox'[e]) < FrameBytes + MaxRecvChunk
  BY <1>1, <1>6, <1>8, SizesKnown
<1>10. (inbox[e] \o u) \o v = inbox[e] \o (u \o v)
  BY <1>3, <1>5
<1>11. QED
  BY <1>2, <1>4, <1>5, <1>7, <1>8, <1>9, <1>10

(* A step that only rearranges one reader's buffers. *)
LEMMA MovedBytesKeep ==
  ASSUME ChannelInv, NEW e \in End, Types',
         Len(inbox'[e]) < FrameBytes + MaxRecvChunk, InTransit(e)' = InTransit(e),
         \A d \in End \ {e} : inbox'[d] = inbox[d] /\ pending'[d] = pending[d],
         queue'[e] = queue[e],
         Len(queue'[Peer(e)]) <= Capacity,
         \A i \in DOMAIN queue'[Peer(e)] : queue'[Peer(e)][i] # <<>>,
         open' = open, poison' = poison, answers' = answers, draft' = draft,
         written' = written, part' = part, pc' = pc
  PROVE  ChannelInv'
<1> DEFINE p == Peer(e)
<1>1. p \in End /\ p # e /\ Peer(p) = e /\ End = {e, p}
  BY PeerIsOther
<1>2. /\ Bounded(e) /\ Bounded(p) /\ DraftFits(e) /\ DraftFits(p) /\ Stops(e) /\ Stops(p)
      /\ Carried(e) /\ Carried(p) /\ AnswersInOrder(e) /\ AnswersInOrder(p)
  BY <1>1 DEF ChannelInv, EndInv
<1>3. Bounded(e)' /\ Bounded(p)'
  BY <1>1, <1>2 DEF Bounded
<1>4. DraftFits(e)' /\ DraftFits(p)'
  BY <1>2 DEF DraftFits, MidFrame
<1>5. Stops(e)' /\ Stops(p)'
  BY <1>2 DEF Stops
<1>6. /\ BytesWritten(Peer(e))' = BytesWritten(Peer(e)) /\ BytesConsumed(e)' = BytesConsumed(e)
      /\ BytesWritten(Peer(p))' = BytesWritten(Peer(p)) /\ BytesConsumed(p)' = BytesConsumed(p)
  BY DEF BytesWritten, BytesConsumed
<1>7. InTransit(p)' = InTransit(p)
  BY <1>1 DEF InTransit
<1>8. Carried(e)' /\ Carried(p)'
  BY <1>2, <1>6, <1>7 DEF Carried
<1>9. AnswersInOrder(e)' /\ AnswersInOrder(p)'
  BY <1>2 DEF AnswersInOrder
<1>10. QED
  BY <1>1, <1>3, <1>4, <1>5, <1>8, <1>9 DEF ChannelInv, EndInv

LEMMA RecvPendingKeeps ==
  ASSUME ChannelInv, NEW e \in End, RecvPending(e)
  PROVE  ChannelInv'
<1>1. /\ Drain(e, pending[e]) /\ Len(inbox[e]) < FrameBytes
      /\ open' = open /\ queue' = queue /\ poison' = poison /\ answers' = answers
      /\ draft' = draft /\ written' = written /\ part' = part /\ pc' = pc
  <2>1. NeedsMore(e) /\ Types
    BY DEF RecvPending, ChannelInv
  <2>2. inbox[e] \in Seq(Byte)
    BY <2>1 DEF Types
  <2>3. Len(inbox[e]) \in Nat /\ FrameBytes \in Nat
    BY <2>2, SizesKnown
  <2>4. Len(inbox[e]) < FrameBytes
    BY <2>1, <2>3 DEF NeedsMore, WholeFrame
  <2>5. QED
    BY <2>4 DEF RecvPending, linkVars, sendVars
<1>2. Types /\ pending[e] \in Seq(Byte) /\ inbox[e] \in Seq(Byte)
  BY DEF ChannelInv, Types
<1>3. /\ inbox' \in [End -> Seq(Byte)] /\ pending' \in [End -> Seq(Byte)]
      /\ Len(inbox'[e]) < FrameBytes + MaxRecvChunk
      /\ inbox'[e] \o pending'[e] = inbox[e] \o pending[e]
      /\ \A d \in End \ {e} : inbox'[d] = inbox[d] /\ pending'[d] = pending[d]
  BY <1>1, <1>2, DrainMoves
<1>4. Types'
  BY <1>1, <1>2, <1>3 DEF Types
<1>5. InTransit(e)' = InTransit(e)
  BY <1>1, <1>3 DEF InTransit
<1>6. /\ Len(queue[Peer(e)]) <= Capacity
      /\ \A i \in DOMAIN queue[Peer(e)] : queue[Peer(e)][i] # <<>>
  BY PeerIsOther DEF ChannelInv, EndInv, Bounded
<1>7. QED
  BY <1>1, <1>3, <1>4, <1>5, <1>6, MovedBytesKeep

LEMMA RecvPopKeeps ==
  ASSUME ChannelInv, NEW e \in End, RecvPop(e)
  PROVE  ChannelInv'
<1> DEFINE p == Peer(e)
           q == queue[p]
<1>1. /\ Types /\ p \in End /\ p # e
      /\ q \in Seq(Seq(Byte)) /\ pending[e] = <<>> /\ inbox[e] \in Seq(Byte)
      /\ queue \in [End -> Seq(Seq(Byte))]
      /\ pc[e] = "poll" /\ poison[e] = "none"
  BY PeerIsOther DEF ChannelInv, Types, EndInv, Stops, RecvPop, NeedsMore
<1>2. /\ open' = open /\ poison' = poison /\ answers' = answers
      /\ draft' = draft /\ written' = written /\ part' = part
      /\ Len(inbox[e]) < FrameBytes
  <2>1. Len(inbox[e]) \in Nat /\ FrameBytes \in Nat /\ NeedsMore(e)
    BY <1>1, SizesKnown DEF RecvPop
  <2>2. Len(inbox[e]) < FrameBytes
    BY <2>1 DEF NeedsMore, WholeFrame
  <2>3. QED
    BY <2>2 DEF RecvPop, sendVars
<1>3. Len(q) <= Capacity /\ \A i \in DOMAIN q : q[i] # <<>>
  BY <1>1 DEF ChannelInv, EndInv, Bounded
<1>4. CASE q # <<>>
  <2> DEFINE h == Head(q)
             t == Tail(q)
  <2>1. Drain(e, h) /\ queue' = [queue EXCEPT ![p] = t] /\ pc' = pc
    BY <1>4 DEF RecvPop
  <2>2. /\ h \in Seq(Byte) /\ t \in Seq(Seq(Byte))
        /\ FlattenSeq(q) = h \o FlattenSeq(t)
    BY <1>1, <1>4, FlattenHead
  <2>3. Len(t) <= Capacity /\ \A i \in DOMAIN t : t[i] # <<>>
    <3>1. Len(t) = Len(q) - 1 /\ Len(q) \in Nat /\ DOMAIN t = 1 .. Len(q) - 1
      BY <1>1, <1>4
    <3>2. \A i \in 1 .. Len(q) - 1 : t[i] = q[i + 1] /\ i + 1 \in DOMAIN q
      BY <1>1, <1>4
    <3> HIDE DEF t, q
    <3>3. QED
      BY <1>3, <3>1, <3>2, SizesKnown
  <2>4. queue'[p] = t /\ queue'[e] = queue[e] /\ queue' \in [End -> Seq(Seq(Byte))]
    BY <1>1, <2>1, <2>2
  <2> HIDE DEF h, t
  <2>5. /\ inbox' \in [End -> Seq(Byte)] /\ pending' \in [End -> Seq(Byte)]
        /\ Len(inbox'[e]) < FrameBytes + MaxRecvChunk
        /\ inbox'[e] \o pending'[e] = inbox[e] \o h
        /\ \A d \in End \ {e} : inbox'[d] = inbox[d] /\ pending'[d] = pending[d]
    BY <1>1, <1>2, <2>1, <2>2, DrainMoves
  <2>6. Types'
    BY <1>1, <1>2, <2>1, <2>4, <2>5 DEF Types
  <2>7. InTransit(e)' = InTransit(e)
    <3> DEFINE y == FlattenSeq(t)
    <3>1. InTransit(e)' = (inbox[e] \o h) \o y
      BY <2>4, <2>5 DEF InTransit
    <3>2. InTransit(e) = (inbox[e] \o <<>>) \o (h \o y)
      BY <1>1, <2>2 DEF InTransit
    <3>3. y \in Seq(Byte)
      BY <2>2, FlattenType
    <3> DEFINE x == inbox[e]
    <3>4. x \in Seq(Byte) /\ h \in Seq(Byte)
      BY <1>1, <2>2
    <3> HIDE DEF x, y, q
    <3>5. x \o <<>> = x
      BY <3>4
    <3>6. (x \o h) \o y = x \o (h \o y)
      BY <3>3, <3>4
    <3>7. QED
      BY <3>1, <3>2, <3>5, <3>6 DEF x
  <2> HIDE DEF q
  <2>8. QED
    BY <1>2, <2>1, <2>3, <2>4, <2>5, <2>6, <2>7, MovedBytesKeep
<1>5. CASE q = <<>>
  <2>1. /\ Still /\ pc' = [pc EXCEPT ![e] = "open?"]
    BY <1>2, <1>5 DEF RecvPop, GoTo, Still
  <2>2. open' \in BOOLEAN /\ "open?" \in Points
    BY <1>1, <1>2 DEF Types, Points
  <2>3. QED
    BY <1>1, <1>2, <2>1, <2>2, MoveKeeps
<1>6. QED
  BY <1>4, <1>5

(* TakeFrame leaves the reader on a frame boundary, whatever was in the frame. *)
LEMMA TakeFrameKeeps ==
  ASSUME ChannelInv, NEW e \in End, TakeFrame(e)
  PROVE  ChannelInv'
<1> DEFINE p == Peer(e)
           F == FrameBytes
           x == inbox[e]
           y == pending[e] \o FlattenSeq(queue[p])
           n == Len(answers[e])
           a == BytesConsumed(e)
           b == BytesWritten(p)
           k == FrontKind(e)
<1>1. /\ Types /\ p \in End /\ p # e /\ Peer(p) = e /\ End = {e, p}
      /\ F \in Nat \ {0}
      /\ pc[e] = "poll" /\ poison[e] = "none"
      /\ queue' = queue /\ pending' = pending
      /\ draft' = draft /\ written' = written /\ part' = part
      /\ pc' = [pc EXCEPT ![e] = "idle"]
      /\ inbox' = [inbox EXCEPT ![e] = SubSeq(x, F + 1, Len(x))]
      /\ answers' = [answers EXCEPT ![e] = Append(@, k)]
  BY PeerIsOther, SizesKnown DEF ChannelInv, EndInv, Stops, TakeFrame, GoTo, sendVars
<1>2. /\ IF Fatal(k) THEN poison' = [poison EXCEPT ![e] = "protocol"] /\ open' = FALSE
                     ELSE poison' = poison /\ open' = open
  BY DEF TakeFrame, Poison
<1>3. /\ x \in Seq(Byte) /\ pending[e] \in Seq(Byte) /\ queue[p] \in Seq(Seq(Byte))
      /\ answers[e] \in Seq(Kind) /\ written[p] \in Seq(Kind) /\ part[p] \in 1 .. F
      /\ n \in Nat /\ Len(written[p]) \in Nat /\ Len(x) \in Nat
  BY <1>1 DEF Types
<1>4. Len(x) >= F /\ F \in 0 .. Len(x)
  BY <1>1, <1>3 DEF TakeFrame, WholeFrame
<1>5. y \in Seq(Byte)
  BY <1>3, FlattenType
<1>6. a \in Nat /\ a = n * F
  BY <1>1, <1>3 DEF BytesConsumed
<1>7. a <= b /\ x \o y = Stream(a, b)
  <2>1. Carried(e)
    BY DEF ChannelInv, EndInv
  <2>2. a <= b /\ InTransit(e) = Stream(a, b)
    BY <2>1 DEF Carried
  <2>3. FlattenSeq(queue[p]) \in Seq(Byte)
    BY <1>3, FlattenType
  <2>4. InTransit(e) = x \o y
    <3> DEFINE v == pending[e]
               w == FlattenSeq(queue[p])
    <3>1. InTransit(e) = (x \o v) \o w
      BY DEF InTransit
    <3>2. x \in Seq(Byte) /\ v \in Seq(Byte) /\ w \in Seq(Byte)
      BY <1>3, <2>3
    <3>3. y = v \o w
      OBVIOUS
    <3> HIDE DEF x, v, w, y
    <3>4. (x \o v) \o w = x \o (v \o w)
      BY <3>2
    <3>5. QED
      BY <3>1, <3>3, <3>4
  <2>5. QED
    BY <2>2, <2>4
<1>8. b \in Nat
  <2>1. (Len(written[p]) - 1) * F \in Int
    BY <1>1, <1>3
  <2>2. b \in Int
    BY <1>1, <1>3, <2>1 DEF BytesWritten
  <2>3. QED
    BY <1>6, <1>7, <2>2
<1> HIDE DEF y, a, b
<1>9. a + F <= b /\ SubSeq(x, F + 1, Len(x)) \o y = Stream(a + F, b)
  <2>1. x \in Seq(Byte) /\ F \in 0 .. Len(x) /\ a \in Nat /\ a <= b /\ x \o y = Stream(a, b)
    BY <1>3, <1>4, <1>6, <1>7
  <2> HIDE DEF x, F
  <2>2. QED
    BY <1>5, <1>8, <2>1, StreamRest
(* the frame at the front is the next one its writer wrote *)
<1>10. n + 1 <= Len(written[p])
  <2>1. n * F + F <= (Len(written[p]) - 1) * F + part[p]
    BY <1>6, <1>9 DEF b, BytesWritten
  <2>2. part[p] <= F
    BY <1>1, <1>3
  <2>3. n * F + F = (n + 1) * F /\ (Len(written[p]) - 1) * F + F = Len(written[p]) * F
    BY <1>1, <1>3
  <2> DEFINE m == Len(written[p])
             g == (m - 1) * F
  <2>4. g \in Int /\ g + F = m * F /\ m \in Nat
    BY <1>1, <1>3, <2>3
  <2>5. (n + 1) * F <= g + part[p]
    BY <2>1, <2>3
  <2>6. (n + 1) * F <= m * F
    <3> DEFINE l == (n + 1) * F
               r == m * F
    <3>1. l \in Int /\ r \in Int /\ part[p] \in Int /\ F \in Int
      BY <1>1, <1>3
    <3> HIDE DEF l, r, g, F
    <3>2. l <= r
      BY <2>2, <2>4, <2>5, <3>1 DEF l, r
    <3>3. QED
      BY <3>2 DEF l, r
  <2> HIDE DEF m, g, n, F
  <2>7. ASSUME m < n + 1 PROVE FALSE
    <3> DEFINE d == n + 1 - m
    <3>1. d \in Nat /\ d >= 1 /\ n + 1 = m + d
      BY <1>3, <2>4, <2>7
    <3> HIDE DEF d
    <3>2. (m + d) * F = m * F + d * F
      BY <1>1, <2>4, <3>1
    <3>3. d * F >= F
      BY <1>1, <3>1
    <3>4. m * F \in Nat /\ d * F \in Nat
      BY <1>1, <2>4, <3>1
    <3>5. QED
      BY <1>1, <2>6, <3>1, <3>2, <3>3, <3>4
  <2>8. QED
    BY <1>3, <2>4, <2>7 DEF m
<1>11. k = written[p][n + 1]
  <2>1. (x \o y)[1] = ByteAt(a)
    <3> DEFINE u == x \o y
    <3>1. a + F <= b
      BY <1>9
    <3>2. 1 \in 1 .. b - a /\ a + 1 - 1 = a
      BY <1>1, <1>6, <1>8, <3>1
    <3>3. u = Stream(a, b)
      BY <1>7
    <3> HIDE DEF u
    <3>4. u[1] = ByteAt(a + 1 - 1)
      BY <1>6, <1>7, <1>8, <3>2, <3>3, StreamIsSeq
    <3>5. QED
      BY <3>2, <3>4 DEF u
  <2>2. (x \o y)[1] = x[1]
    BY <1>1, <1>3, <1>4, <1>5
  <2>3. ByteAt(a) = <<n + 1, 1>>
    <3>1. 0 \in 0 .. F - 1 /\ n * F + 0 = a
      BY <1>1, <1>6
    <3>2. ByteAt(n * F + 0) = <<n + 1, 0 + 1>>
      BY <1>3, <3>1, ByteOfFrame
    <3>3. QED
      BY <3>1, <3>2
  <2>4. Head(x) = x[1]
    BY <1>1, <1>3, <1>4
  <2>5. Head(inbox[e])[1] = n + 1
    <3>1. Head(x) = <<n + 1, 1>>
      BY <2>1, <2>2, <2>3, <2>4
    <3>2. QED
      BY <3>1
  <2>6. QED
    BY <2>5 DEF FrontKind
<1>12. k \in Kind
  BY <1>3, <1>10, <1>11
<1> HIDE DEF k
<1>13. /\ answers'[e] = Append(answers[e], k) /\ answers'[p] = answers[p]
       /\ answers' \in [End -> Seq(Kind)] /\ Len(answers'[e]) = n + 1
  BY <1>1, <1>3, <1>12 DEF Types
<1>14. SubSeq(x, F + 1, Len(x)) \in Seq(Byte) /\ Len(SubSeq(x, F + 1, Len(x))) = Len(x) - F
  BY <1>3, <1>4, EndOf
<1>15. /\ inbox'[e] = SubSeq(x, F + 1, Len(x)) /\ inbox'[p] = inbox[p]
       /\ inbox' \in [End -> Seq(Byte)] /\ Len(inbox'[e]) < F + MaxRecvChunk
  <2>1. inbox'[e] = SubSeq(x, F + 1, Len(x)) /\ inbox'[p] = inbox[p] /\ inbox' \in [End -> Seq(Byte)]
    BY <1>1, <1>14 DEF Types
  <2>2. Len(x) < F + MaxRecvChunk
    BY DEF ChannelInv, EndInv, Bounded
  <2>3. Len(x) - F < F + MaxRecvChunk
    BY <1>1, <1>3, <2>2, SizesKnown
  <2>4. QED
    BY <1>14, <2>1, <2>3
<1>16. /\ poison' \in [End -> {"none", "closed", "truncated", "protocol"}] /\ open' \in BOOLEAN
       /\ pc' \in [End -> Points] /\ pc'[e] = "idle" /\ pc'[p] = pc[p]
       /\ poison'[p] = poison[p]
       /\ Fatal(k) => poison'[e] = "protocol" /\ ~open'
       /\ ~Fatal(k) => poison'[e] = "none"
       /\ open' => open
  BY <1>1, <1>2 DEF Types, Points
<1>17. Types'
  BY <1>1, <1>13, <1>15, <1>16 DEF Types
<1>18. /\ Bounded(e) /\ Bounded(p) /\ DraftFits(e) /\ DraftFits(p) /\ Stops(e) /\ Stops(p)
       /\ Carried(p) /\ AnswersInOrder(e) /\ AnswersInOrder(p)
  BY <1>1 DEF ChannelInv, EndInv
<1>19. Bounded(e)' /\ Bounded(p)'
  BY <1>1, <1>15, <1>18 DEF Bounded
<1>20. DraftFits(e)' /\ DraftFits(p)'
  BY <1>1, <1>16, <1>18 DEF DraftFits, MidFrame
<1>21. Stops(e)' /\ Stops(p)'
  BY <1>16, <1>18 DEF Stops
<1>22. Carried(p)'
  <2>1. /\ InTransit(p)' = InTransit(p) /\ BytesConsumed(p)' = BytesConsumed(p)
        /\ BytesWritten(Peer(p))' = BytesWritten(Peer(p))
    BY <1>1, <1>13, <1>15 DEF InTransit, BytesConsumed, BytesWritten
  <2>2. QED
    BY <1>18, <2>1 DEF Carried
<1>23. Carried(e)'
  <2>1. BytesConsumed(e)' = a + F
    <3>1. BytesConsumed(e)' = (n + 1) * F
      BY <1>13 DEF BytesConsumed
    <3>2. QED
      BY <1>1, <1>3, <1>6, <3>1
  <2>2. BytesWritten(p)' = b
    BY <1>1 DEF BytesWritten, b
  <2>3. InTransit(e)' = Stream(a + F, b)
    <3> DEFINE z == SubSeq(x, F + 1, Len(x))
    <3>1. z \in Seq(Byte) /\ FlattenSeq(queue[p]) \in Seq(Byte)
      BY <1>3, <1>14, FlattenType
    <3>2. InTransit(e)' = (z \o pending[e]) \o FlattenSeq(queue[p])
      BY <1>1, <1>15 DEF InTransit
    <3> HIDE DEF z
    <3>3. (z \o pending[e]) \o FlattenSeq(queue[p]) = z \o y
      <4> DEFINE v == pending[e]
                 w == FlattenSeq(queue[p])
      <4>1. v \in Seq(Byte) /\ w \in Seq(Byte) /\ y = v \o w
        BY <1>3, <3>1 DEF y
      <4> HIDE DEF v, w
      <4>2. (z \o v) \o w = z \o (v \o w)
        BY <3>1, <4>1
      <4>3. QED
        BY <4>1, <4>2 DEF v, w
    <3>4. QED
      BY <1>9, <3>2, <3>3 DEF z
  <2>4. QED
    BY <1>9, <2>1, <2>2, <2>3 DEF Carried
<1>24. AnswersInOrder(p)'
  BY <1>1, <1>13, <1>16, <1>18 DEF AnswersInOrder
<1>25. AnswersInOrder(e)'
  <2>1. ASSUME NEW i \in DOMAIN answers'[e]
        PROVE  /\ i <= Len(written[p])
               /\ answers'[e][i] = written[p][i]
               /\ Fatal(answers'[e][i]) => i = n + 1 /\ poison'[e] = "protocol"
    <3>1. i \in 1 .. n + 1
      BY <1>3, <1>12, <1>13
    <3>2. CASE i = n + 1
      <4>1. answers'[e][i] = k
        BY <1>3, <1>13, <3>2
      <4>2. QED
        BY <1>10, <1>11, <1>16, <3>2, <4>1 DEF k
    <3>3. CASE i # n + 1
      <4>1. i \in DOMAIN answers[e] /\ answers'[e][i] = answers[e][i]
        BY <1>3, <1>13, <3>1, <3>3
      <4>2. /\ i <= Len(written[p]) /\ answers[e][i] = written[p][i]
            /\ Fatal(answers[e][i]) => poison[e] = "protocol"
        BY <1>18, <4>1 DEF AnswersInOrder
      <4>3. QED
        BY <1>1, <4>1, <4>2
    <3>4. QED
      BY <3>2, <3>3
  <2>2. QED
    BY <1>1, <1>13, <2>1 DEF AnswersInOrder
<1>26. QED
  BY <1>1, <1>17, <1>19, <1>20, <1>21, <1>22, <1>23, <1>24, <1>25 DEF ChannelInv, EndInv

-----------------------------------------------------------------------------
LEMMA InitEstablishes ==
  Init => ChannelInv
<1> SUFFICES ASSUME Init PROVE ChannelInv
  OBVIOUS
<1>1. Types
  BY SizesKnown DEF Init, Types, Points, NoDraft, Kind
<1>2. ASSUME NEW e \in End PROVE EndInv(e)
  <2>1. Peer(e) \in End
    BY PeerIsOther
  <2>2. /\ queue[e] = <<>> /\ queue[Peer(e)] = <<>> /\ inbox[e] = <<>> /\ pending[e] = <<>>
        /\ written[e] = <<>> /\ written[Peer(e)] = <<>> /\ answers[e] = <<>>
        /\ part[e] = FrameBytes /\ part[Peer(e)] = FrameBytes
        /\ poison[e] = "none" /\ pc[e] = "idle"
    BY <2>1 DEF Init
  <2>3. Bounded(e) /\ DraftFits(e) /\ Stops(e) /\ AnswersInOrder(e)
    BY <2>2, SizesKnown DEF Bounded, DraftFits, Stops, AnswersInOrder
  <2>4. BytesConsumed(e) = 0 /\ BytesWritten(Peer(e)) = 0
    BY <2>2, SizesKnown DEF BytesConsumed, BytesWritten
  <2>5. FlattenSeq(queue[Peer(e)]) = <<>>
    BY <2>2 DEF FlattenSeq
  <2>6. InTransit(e) = <<>>
    BY <2>2, <2>5 DEF InTransit
  <2>7. Stream(0, 0) = <<>>
    <3>1. Stream(0, 0) \in Seq(Byte) /\ Len(Stream(0, 0)) = 0
      BY StreamIsSeq
    <3>2. QED
      BY <3>1
  <2>8. Carried(e)
    BY <2>4, <2>6, <2>7 DEF Carried
  <2>9. QED
    BY <2>3, <2>8 DEF EndInv
<1>3. QED
  BY <1>1, <1>2 DEF ChannelInv

LEMMA NextPreserves ==
  ChannelInv /\ [Next]_vars => ChannelInv'
<1> SUFFICES ASSUME ChannelInv, [Next]_vars PROVE ChannelInv'
  OBVIOUS
<1>1. ASSUME NEW e \in End, EndStep(e)
      PROVE  ChannelInv'
  <2>1. CASE \E kind \in Kind, upto \in 1 .. FrameBytes : Send(e, kind, upto)
    BY <2>1, SendKeeps
  <2>2. CASE SendStep(e)
    BY <2>2, QuietStepsKeep, PushKeeps DEF SendStep
  <2>3. CASE PollStep(e)
    BY <2>3, QuietStepsKeep, TakeFrameKeeps, RecvPendingKeeps, RecvPopKeeps DEF PollStep
  <2>4. CASE PollStart(e) \/ Close(e) \/ Drop(e)
    BY <2>4, QuietStepsKeep
  <2>5. QED
    BY <1>1, <2>1, <2>2, <2>3, <2>4 DEF EndStep
<1>2. CASE UNCHANGED vars
  <2>1. /\ open' = open /\ queue' = queue /\ pending' = pending /\ inbox' = inbox
        /\ poison' = poison /\ pc' = pc /\ draft' = draft /\ written' = written
        /\ part' = part /\ answers' = answers
    BY <1>2 DEF vars, linkVars, readVars, sendVars
  <2>2. Still /\ Types'
    BY <2>1 DEF ChannelInv, Types, Still
  <2>3. \A e \in End : DraftFits(e)'
    BY <2>1, <2>2, StillDraft
  <2>4. \A e \in End : Stops(e)'
    BY <2>1 DEF ChannelInv, EndInv, Stops
  <2>5. QED
    BY <2>1, <2>2, <2>3, <2>4, StillStep
<1>3. QED
  BY <1>1, <1>2 DEF Next

(* What the invariant says is what the runs check. *)
LEMMA InvGivesStream ==
  ChannelInv => StreamIntact
<1> SUFFICES ASSUME ChannelInv PROVE StreamIntact
  OBVIOUS
<1>1. ASSUME NEW e \in End PROVE BytesInOrder(e) /\ AnswersInOrder(e)
  <2>1. Carried(e) /\ AnswersInOrder(e)
    BY DEF ChannelInv, EndInv
  <2>2. BytesInOrder(e)
    BY <2>1 DEF Carried, BytesInOrder, Stream, ByteAt
  <2>3. QED
    BY <2>1, <2>2
<1>2. TypeOK
  <2>1. ASSUME NEW e \in End
        PROVE  part[e] \in 0 .. FrameBytes
    BY SizesKnown DEF ChannelInv, Types
  <2>2. QED
    BY <2>1 DEF TypeOK, ChannelInv, Types, EndInv, Bounded, Points
<1>3. QED
  BY <1>1, <1>2 DEF StreamIntact

(* No byte of the control stream is lost, repeated, reordered or invented, and poll's
   i-th answer is to the peer's i-th frame: for every capacity of the queues, length of a
   frame, split of the writes and of the reads, and wherever either end stops. *)
THEOREM StreamStaysIntact == Spec => []StreamIntact
<1>1. Init => ChannelInv
  BY InitEstablishes
<1>2. ChannelInv /\ [Next]_vars => ChannelInv'
  BY NextPreserves
<1>3. ChannelInv => StreamIntact
  BY InvGivesStream
<1>4. QED
  BY <1>1, <1>2, <1>3, PTL DEF Spec

(* Which steps an end that failed can still take. *)
LEMMA PoisonedEndIsStill ==
  ASSUME ChannelInv, NEW d \in End, EndStep(d), NEW e \in End, poison[e] # "none"
  PROVE  ~open' /\ poison'[e] = poison[e] /\ answers'[e] = answers[e]
         /\ inbox'[e] = inbox[e] /\ written'[e] = written[e]
<1>1. /\ ~open /\ Types
      /\ d = e => pc[d] \notin {"abandoned?", "push", "poll", "open?", "gone?"}
  BY DEF ChannelInv, EndInv, Stops
<1>2. ~(\E kind \in Kind, upto \in 1 .. FrameBytes : Send(d, kind, upto))
  BY <1>1 DEF Send
<1>3. CASE SendAbandoned(d) \/ SendFull(d) \/ PollStart(d)
  BY <1>1, <1>3 DEF SendAbandoned, SendFull, PollStart, linkVars, readVars, sendVars
<1>4. CASE Close(d) \/ Drop(d)
  BY <1>1, <1>4 DEF Close, Drop, linkVars, readVars, sendVars
<1>5. CASE SendPush(d)
  BY <1>1, <1>5 DEF SendPush, readVars, Types
<1>6. CASE RefuseHeader(d)
  BY <1>1, <1>6 DEF RefuseHeader, Poison, sendVars, Types
<1>7. CASE TakeFrame(d)
  BY <1>1, <1>7 DEF TakeFrame, Poison, sendVars, Types
<1>8. CASE RecvPending(d)
  BY <1>1, <1>8 DEF RecvPending, NeedsMore, Drain, linkVars, sendVars, Types
<1>9. CASE RecvPop(d)
  BY <1>1, <1>9 DEF RecvPop, NeedsMore, Drain, sendVars, Types
<1>10. CASE RecvOpen(d) \/ RecvGone(d)
  BY <1>1, <1>10 DEF RecvOpen, RecvGone, ReportClosed, Poison, sendVars, Types
<1>11. QED
  BY <1>2, <1>3, <1>4, <1>5, <1>6, <1>7, <1>8, <1>9, <1>10 DEF EndStep, SendStep, PollStep

(* A failed end never answers, reads or writes again, and the link never reopens, whatever
   its peer does and whoever closes what in between. *)
THEOREM PoisonStaysFinal == Spec => PoisonIsFinal
<1>1. ChannelInv /\ [Next]_vars =>
        [\A e \in End : poison[e] # "none" =>
           ~open' /\ UNCHANGED <<poison[e], answers[e], inbox[e], written[e]>>]_vars
  BY PoisonedEndIsStill DEF Next
<1>2. Init => ChannelInv
  BY InitEstablishes
<1>3. ChannelInv /\ [Next]_vars => ChannelInv'
  BY NextPreserves
<1>4. QED
  BY <1>1, <1>2, <1>3, PTL DEF Spec, PoisonIsFinal

-----------------------------------------------------------------------------
(* The audio regions of the data plane: never shared, never torn. *)
LEMMA Peers ==
  \A e \in Endpoint : Other(e) \in Endpoint /\ Other(e) # e
                      /\ \A d \in Endpoint : d # e => d = Other(e)
  BY DEF Endpoint, Other

LEMMA SeesTyped ==
  ASSUME PlaneTypeOK, NEW e \in Endpoint, NEW r \in Region, NEW c \in Cell
  PROVE  Sees(e, r, c) \in Val
  BY DEF PlaneTypeOK, Sees

LEMMA InitPlane == PlaneInit => PlaneInv
<1> SUFFICES ASSUME PlaneInit PROVE PlaneInv
  OBVIOUS
<1>1. PlaneTypeOK
  BY DataPlaneAssumption DEF PlaneInit, PlaneTypeOK, Endpoint
<1>2. HoldersOwn /\ HoldingEnds /\ NoLateStores /\ SequenceWrittenInPublish /\ TagStored
  BY DEF PlaneInit, HoldersOwn, HoldingEnds, NoLateStores, SequenceWrittenInPublish, TagStored,
         Endpoint
<1>3. OwnedRegionIsWhole
  BY DEF PlaneInit, OwnedRegionIsWhole, Sees
<1>4. QED
  BY <1>1, <1>2, <1>3 DEF PlaneInv

(* A store reaches the memory where its owner already saw it. *)
LEMMA ReachStep ==
  ASSUME PlaneInv, NEW e \in Endpoint, NEW r \in Region, NEW c \in Cell, Reach(e, r, c)
  PROVE  PlaneInv'
<1> USE DEF Reach, PlaneInv, threads, history
<1>1. owner[r] = e
  BY DEF NoLateStores
<1>2. /\ mem' = [mem EXCEPT ![r][c] = buffered[e][r][c]]
      /\ buffered' = [buffered EXCEPT ![e][r][c] = NoWrite]
      /\ buffered[e][r][c] \in Val /\ UNCHANGED <<owner, threads, history>>
  BY DEF PlaneTypeOK
<1>3. PlaneTypeOK'
  <2>1. mem' \in [Region -> [Cell -> Val]]
    BY <1>2 DEF PlaneTypeOK
  <2>2. buffered' \in [Endpoint -> [Region -> [Cell -> Val \cup {NoWrite}]]]
    BY <1>2 DEF PlaneTypeOK
  <2> HIDE DEF Reach, PlaneInv
  <2>3. PlaneTypeOK
    BY DEF PlaneInv
  <2>4. QED
    BY <1>2, <2>1, <2>2, <2>3 DEF PlaneTypeOK
<1>4. \A d \in Endpoint, q \in Region, b \in Cell :
        buffered'[d][q][b] = IF d = e /\ q = r /\ b = c THEN NoWrite ELSE buffered[d][q][b]
  <2>1. buffered \in [Endpoint -> [Region -> [Cell -> Val \cup {NoWrite}]]]
    BY DEF PlaneTypeOK
  <2> HIDE DEF Reach, PlaneInv
  <2>2. QED
    BY <1>2, <2>1
<1>5. \A q \in Region, b \in Cell :
        mem'[q][b] = IF q = r /\ b = c THEN buffered[e][r][c] ELSE mem[q][b]
  BY <1>2 DEF PlaneTypeOK
<1>6. NoLateStores'
  BY <1>2, <1>4 DEF NoLateStores
<1>7. HoldersOwn' /\ HoldingEnds' /\ SequenceWrittenInPublish'
  BY <1>2 DEF HoldersOwn, HoldingEnds, SequenceWrittenInPublish
<1>8. ASSUME NEW d \in Endpoint, NEW q \in Region, NEW b \in Cell, owner[q] = d
      PROVE  Sees(d, q, b)' = Sees(d, q, b)
  <2>1. CASE d = e /\ q = r /\ b = c
    BY <1>2, <1>4, <1>5, <2>1 DEF Sees
  <2>2. CASE ~(d = e /\ q = r /\ b = c)
    <3>1. buffered'[d][q][b] = buffered[d][q][b]
      BY <1>4, <2>2
    <3>2. mem'[q][b] = mem[q][b]
      BY <1>1, <1>5, <1>8, <2>2
    <3>3. QED
      BY <3>1, <3>2 DEF Sees
  <2>3. QED
    BY <2>1, <2>2
<1>9. OwnedRegionIsWhole'
  BY <1>2, <1>8 DEF OwnedRegionIsWhole
<1>10. TagStored'
  <2>1. ASSUME NEW d \in Endpoint, stage'[d] = "hand"
        PROVE  (Sees(d, at[d], Sequence) = tag[d])'
    <3>1. at[d] \in Region /\ owner[at[d]] = d /\ Sequence \in Cell
      BY <1>2, <2>1 DEF PlaneTypeOK, HoldersOwn, Cell
    <3>2. QED
      BY <1>2, <1>8, <2>1, <3>1 DEF TagStored
  <2>2. QED
    BY <2>1 DEF TagStored
<1>11. QED
  BY <1>3, <1>6, <1>7, <1>9, <1>10

(* A store of the owner changes what it sees only where it counts as stored. *)
LEMMA StoreStep ==
  ASSUME PlaneInv, NEW e \in Endpoint, NEW r \in Region, NEW c \in Cell, NEW v \in Val,
         owner[r] = e, Store(e, r, c, v), UNCHANGED published
  PROVE  /\ buffered' \in [Endpoint -> [Region -> [Cell -> Val \cup {NoWrite}]]]
         /\ stored' \in [Region -> SUBSET Cell]
         /\ NoLateStores' /\ OwnedRegionIsWhole'
<1> USE DEF Store, PlaneInv
<1>1. /\ buffered' \in [Endpoint -> [Region -> [Cell -> Val \cup {NoWrite}]]]
      /\ stored' \in [Region -> SUBSET Cell]
  BY DEF PlaneTypeOK
<1>2. \A d \in Endpoint, q \in Region, b \in Cell :
        buffered'[d][q][b] = IF d = e /\ q = r /\ b = c THEN v ELSE buffered[d][q][b]
  BY DEF PlaneTypeOK
<1>3. \A q \in Region : stored'[q] = IF q = r THEN stored[q] \cup {c} ELSE stored[q]
  BY DEF PlaneTypeOK
<1>4. NoLateStores'
  BY <1>2 DEF NoLateStores
<1>5. ASSUME NEW d \in Endpoint, NEW q \in Region, NEW b \in Cell,
             owner[q] = d, b \notin stored'[q]
      PROVE  Sees(d, q, b)' = published[q][b]
  <2>1. b \notin stored[q] /\ ~(q = r /\ b = c)
    BY <1>3, <1>5
  <2>2. Sees(d, q, b) = published[q][b]
    BY <1>5, <2>1 DEF OwnedRegionIsWhole
  <2>3. buffered'[d][q][b] = buffered[d][q][b] /\ mem' = mem
    BY <1>2, <2>1
  <2>4. QED
    BY <2>2, <2>3 DEF Sees
<1>6. OwnedRegionIsWhole'
  BY <1>5 DEF OwnedRegionIsWhole
<1>7. QED
  BY <1>1, <1>4, <1>6

(* It is what its endpoint sees from then on, and nothing else changes. *)
LEMMA StoreSeen ==
  ASSUME PlaneTypeOK, NEW e \in Endpoint, NEW r \in Region, NEW c \in Cell, NEW v \in Val,
         Store(e, r, c, v)
  PROVE  /\ Sees(e, r, c)' = v
         /\ \A d \in Endpoint, q \in Region, b \in Cell :
              ~(d = e /\ q = r /\ b = c) => Sees(d, q, b)' = Sees(d, q, b)
<1> USE DEF Store
<1>1. \A d \in Endpoint, q \in Region, b \in Cell :
        buffered'[d][q][b] = IF d = e /\ q = r /\ b = c THEN v ELSE buffered[d][q][b]
  <2>1. buffered \in [Endpoint -> [Region -> [Cell -> Val \cup {NoWrite}]]]
    BY DEF PlaneTypeOK
  <2>2. buffered' = [buffered EXCEPT ![e][r][c] = v]
    OBVIOUS
  <2> HIDE DEF Store
  <2>3. QED
    BY <2>1, <2>2
<1>2. v # NoWrite /\ mem' = mem
  BY DataPlaneAssumption
<1> HIDE DEF Store
<1>3. Sees(e, r, c)' = v
  BY <1>1, <1>2 DEF Sees
<1>4. ASSUME NEW d \in Endpoint, NEW q \in Region, NEW b \in Cell, ~(d = e /\ q = r /\ b = c)
      PROVE  Sees(d, q, b)' = Sees(d, q, b)
  <2>1. buffered'[d][q][b] = buffered[d][q][b]
    BY <1>1, <1>4
  <2>2. QED
    BY <1>2, <2>1 DEF Sees
<1>5. QED
  BY <1>3, <1>4

LEMMA TouchStep ==
  ASSUME PlaneInv, NEW e \in Endpoint, NEW r \in Region, NEW f \in Field, NEW v \in Val,
         Touch(e, r, f, v)
  PROVE  PlaneInv'
<1> USE DEF Touch, PlaneInv, threads
<1>1. owner[r] = e /\ f \in Cell /\ f # Sequence
  BY DataPlaneAssumption DEF HoldersOwn, Cell
<1>2. /\ buffered' \in [Endpoint -> [Region -> [Cell -> Val \cup {NoWrite}]]]
      /\ stored' \in [Region -> SUBSET Cell]
      /\ NoLateStores' /\ OwnedRegionIsWhole'
  BY <1>1, StoreStep
<1>3. PlaneTypeOK'
  BY <1>2 DEF PlaneTypeOK, Store
<1>4. HoldersOwn' /\ HoldingEnds'
  BY DEF HoldersOwn, HoldingEnds, Store
<1>5. SequenceWrittenInPublish'
  BY <1>1 DEF SequenceWrittenInPublish, Store, PlaneTypeOK
<1>6. TagStored'
  <2>1. ASSUME NEW d \in Endpoint, stage'[d] = "hand"
        PROVE  (Sees(d, at[d], Sequence) = tag[d])'
    <3>1. at[d] \in Region /\ Sequence \in Cell /\ Store(e, r, f, v)
      BY DEF PlaneTypeOK, Cell
    <3>2. Sees(d, at[d], Sequence)' = Sees(d, at[d], Sequence)
      BY <1>1, <3>1, StoreSeen
    <3>3. QED
      BY <2>1, <3>2 DEF TagStored
  <2>2. QED
    BY <2>1 DEF TagStored
<1>7. QED
  BY <1>2, <1>3, <1>4, <1>5, <1>6

LEMMA AcquireStep ==
  ASSUME PlaneInv, NEW e \in Endpoint, NEW r \in Region, Acquire(e, r)
  PROVE  PlaneInv'
<1> USE DEF Acquire, Idle, PlaneInv, memory, history
<1>1. PlaneTypeOK'
  BY DEF PlaneTypeOK
<1>2. HoldersOwn' /\ HoldingEnds'
  BY DEF PlaneTypeOK, HoldersOwn, HoldingEnds
<1>3. NoLateStores' /\ OwnedRegionIsWhole'
  BY DEF NoLateStores, OwnedRegionIsWhole, Sees
<1>4. SequenceWrittenInPublish'
  BY DEF PlaneTypeOK, SequenceWrittenInPublish
<1>5. TagStored'
  BY DEF PlaneTypeOK, TagStored, Sees
<1>6. QED
  BY <1>1, <1>2, <1>3, <1>4, <1>5

LEMMA AcquireLoadStep ==
  ASSUME PlaneInv, NEW e \in Endpoint, AcquireLoad(e)
  PROVE  PlaneInv'
<1> USE DEF AcquireLoad, PlaneInv, memory
<1>1. at[e] \in Region /\ Sees(e, at[e], Sequence) \in Val
  BY SeesTyped DEF PlaneTypeOK, Cell
<1>2. PlaneTypeOK'
  BY <1>1 DEF PlaneTypeOK
<1>3. HoldersOwn' /\ HoldingEnds'
  BY DEF PlaneTypeOK, HoldersOwn, HoldingEnds
<1>4. NoLateStores' /\ OwnedRegionIsWhole'
  BY DEF NoLateStores, OwnedRegionIsWhole, Sees
<1>5. SequenceWrittenInPublish'
  BY DEF PlaneTypeOK, SequenceWrittenInPublish
<1>6. TagStored'
  BY DEF PlaneTypeOK, TagStored, Sees
<1>7. QED
  BY <1>2, <1>3, <1>4, <1>5, <1>6

LEMMA PublishStep ==
  ASSUME PlaneInv, NEW e \in Endpoint, NEW r \in Region, NEW s \in Val, Publish(e, r, s)
  PROVE  PlaneInv'
<1> USE DEF Publish, Idle, PlaneInv, memory, history
<1>1. PlaneTypeOK'
  BY DEF PlaneTypeOK
<1>2. HoldersOwn' /\ HoldingEnds'
  BY DEF PlaneTypeOK, HoldersOwn, HoldingEnds
<1>3. NoLateStores' /\ OwnedRegionIsWhole'
  BY DEF NoLateStores, OwnedRegionIsWhole, Sees
<1>4. SequenceWrittenInPublish'
  BY DEF PlaneTypeOK, SequenceWrittenInPublish
<1>5. TagStored'
  BY DEF PlaneTypeOK, TagStored, Sees
<1>6. QED
  BY <1>1, <1>2, <1>3, <1>4, <1>5

LEMMA PublishStoreStep ==
  ASSUME PlaneInv, NEW e \in Endpoint, PublishStore(e)
  PROVE  PlaneInv'
<1> USE DEF PublishStore, PlaneInv
<1>1. owner[at[e]] = e /\ at[e] \in Region /\ tag[e] \in Val /\ Sequence \in Cell
  BY DEF HoldersOwn, PlaneTypeOK, Cell
<1>2. /\ buffered' \in [Endpoint -> [Region -> [Cell -> Val \cup {NoWrite}]]]
      /\ stored' \in [Region -> SUBSET Cell]
      /\ NoLateStores' /\ OwnedRegionIsWhole'
  BY <1>1, StoreStep
<1>3. PlaneTypeOK'
  BY <1>2 DEF PlaneTypeOK, Store
<1>4. HoldersOwn' /\ HoldingEnds'
  BY DEF PlaneTypeOK, HoldersOwn, HoldingEnds, Store
<1>5. SequenceWrittenInPublish'
  BY <1>1 DEF PlaneTypeOK, SequenceWrittenInPublish, Store
<1>6. TagStored'
  <2>1. Sees(e, at[e], Sequence)' = tag[e]
    BY <1>1, StoreSeen
  <2>2. ASSUME NEW d \in Endpoint, d # e, stage'[d] = "hand"
        PROVE  (Sees(d, at[d], Sequence) = tag[d])'
    <3>1. at[d] \in Region /\ stage[d] = "hand"
      BY <2>2 DEF PlaneTypeOK
    <3>2. Sees(d, at[d], Sequence)' = Sees(d, at[d], Sequence)
      BY <1>1, <2>2, <3>1, StoreSeen
    <3>3. QED
      BY <3>1, <3>2 DEF TagStored
  <2>3. QED
    BY <2>1, <2>2 DEF TagStored
<1>7. QED
  BY <1>2, <1>3, <1>4, <1>5, <1>6

(* The region changes hands with nothing of the giver's left on its way, so what the
   giver saw is what is in the memory and all the taker sees. *)
LEMMA PublishHandStep ==
  ASSUME PlaneInv, NEW e \in Endpoint, PublishHand(e)
  PROVE  PlaneInv'
<1> USE DEF PublishHand, PlaneInv
<1> DEFINE r == at[e]
<1>1. r \in Region /\ owner[r] = e /\ Other(e) \in Endpoint /\ Other(e) # e
  BY Peers DEF HoldersOwn, PlaneTypeOK
<1>2. [c \in Cell |-> IF c = Sequence THEN tag[e] ELSE Sees(e, r, c)] \in [Cell -> Val]
  BY <1>1, SeesTyped DEF PlaneTypeOK
<1>3. PlaneTypeOK'
  BY <1>1, <1>2 DEF PlaneTypeOK
<1>4. \A q \in Region : owner'[q] = IF q = r THEN Other(e) ELSE owner[q]
  BY <1>1 DEF PlaneTypeOK
<1>5. HoldersOwn'
  <2>1. \A d \in Endpoint : stage[d] # "idle" => owner[at[d]] = d
    BY DEF HoldersOwn
  <2>2. ASSUME NEW d \in Endpoint, stage'[d] # "idle" PROVE owner'[at'[d]] = d
    <3>1. d # e /\ stage[d] # "idle" /\ at'[d] = at[d] /\ at[d] \in Region
      BY <2>2 DEF PlaneTypeOK
    <3>2. at[d] # r
      BY <1>1, <2>1, <3>1
    <3>3. QED
      BY <1>4, <2>1, <3>1, <3>2
  <2>3. r \notin holding[e]
    BY DEF HoldingEnds
  <2>4. ASSUME NEW d \in Endpoint, NEW q \in holding'[d] PROVE owner'[q] = d
    <3>1. q \in holding[d] /\ q \in Region /\ owner[q] = d
      BY <2>4 DEF PlaneTypeOK, HoldersOwn
    <3>2. q # r
      BY <1>1, <2>3, <3>1
    <3>3. QED
      BY <1>4, <3>1, <3>2
  <2>5. QED
    BY <2>2, <2>4 DEF HoldersOwn
<1>6. HoldingEnds'
  BY DEF PlaneTypeOK, HoldingEnds
<1>7. NoLateStores'
  <2>1. ASSUME NEW d \in Endpoint, NEW q \in Region, NEW c \in Cell, owner'[q] # d
        PROVE  buffered[d][q][c] = NoWrite
    <3>1. CASE d = e
      BY <3>1 DEF Drained
    <3>2. CASE d # e
      BY <1>1, <1>4, <2>1, <3>2, Peers DEF NoLateStores
    <3>3. QED
      BY <3>1, <3>2
  <2>2. QED
    BY <2>1 DEF NoLateStores
<1>8. OwnedRegionIsWhole'
  <2>1. ASSUME NEW d \in Endpoint, NEW q \in Region, NEW c \in Cell,
               owner'[q] = d, c \notin stored'[q]
        PROVE  Sees(d, q, c)' = published'[q][c]
    <3>1. CASE q = r
      <4>1. buffered[d][q][c] = NoWrite /\ buffered[e][q][c] = NoWrite
        BY <1>1, <1>4, <2>1, <3>1 DEF NoLateStores, Drained
      <4>2. published'[q][c] = Sees(e, q, c)
        BY <1>1, <3>1 DEF PlaneTypeOK, TagStored
      <4>3. QED
        BY <4>1, <4>2 DEF Sees
    <3>2. CASE q # r
      <4>1. owner[q] = d /\ c \notin stored[q] /\ published'[q] = published[q]
        BY <1>4, <2>1, <3>2 DEF PlaneTypeOK
      <4>2. QED
        BY <4>1 DEF OwnedRegionIsWhole, Sees
    <3>3. QED
      BY <3>1, <3>2
  <2>2. QED
    BY <2>1 DEF OwnedRegionIsWhole
<1>9. SequenceWrittenInPublish'
  <2>1. ASSUME NEW q \in Region, Sequence \in stored'[q]
        PROVE  stage'[owner'[q]] = "hand" /\ at'[owner'[q]] = q
    <3>1. q # r /\ Sequence \in stored[q]
      BY <1>1, <2>1 DEF PlaneTypeOK
    <3>2. stage[owner[q]] = "hand" /\ at[owner[q]] = q /\ owner'[q] = owner[q]
      BY <1>4, <3>1 DEF SequenceWrittenInPublish
    <3>3. owner[q] # e
      BY <3>1, <3>2
    <3>4. QED
      BY <3>2, <3>3 DEF PlaneTypeOK
  <2>2. QED
    BY <2>1 DEF SequenceWrittenInPublish
<1>10. TagStored'
  BY DEF PlaneTypeOK, TagStored, Sees
<1>11. QED
  BY <1>3, <1>5, <1>6, <1>7, <1>8, <1>9, <1>10

LEMMA DieStep ==
  ASSUME PlaneInv, NEW e \in Endpoint, Die(e)
  PROVE  PlaneInv'
<1> USE DEF Die, PlaneInv, memory, history
<1>1. PlaneTypeOK'
  BY DEF PlaneTypeOK
<1>2. HoldersOwn' /\ HoldingEnds' /\ SequenceWrittenInPublish'
  BY DEF HoldersOwn, HoldingEnds, SequenceWrittenInPublish
<1>3. NoLateStores' /\ OwnedRegionIsWhole' /\ TagStored'
  BY DEF NoLateStores, OwnedRegionIsWhole, TagStored, Sees
<1>4. QED
  BY <1>1, <1>2, <1>3

LEMMA NextPlane == PlaneInv /\ [PlaneNext]_planeVars => PlaneInv'
<1> SUFFICES ASSUME PlaneInv, [PlaneNext]_planeVars PROVE PlaneInv'
  OBVIOUS
<1>1. CASE PlaneNext
  BY <1>1, ReachStep, TouchStep, AcquireStep, AcquireLoadStep, PublishStep, PublishStoreStep,
     PublishHandStep, DieStep
  DEF PlaneNext
<1>2. CASE UNCHANGED planeVars
  <2>1. PlaneTypeOK'
    BY <1>2 DEF PlaneInv, PlaneTypeOK, planeVars, memory, threads, history
  <2>2. HoldersOwn' /\ HoldingEnds' /\ SequenceWrittenInPublish'
    BY <1>2 DEF PlaneInv, HoldersOwn, HoldingEnds, SequenceWrittenInPublish,
                planeVars, memory, threads, history
  <2>3. NoLateStores' /\ OwnedRegionIsWhole' /\ TagStored'
    BY <1>2 DEF PlaneInv, NoLateStores, OwnedRegionIsWhole, TagStored, Sees,
                planeVars, memory, threads, history
  <2>4. QED
    BY <2>1, <2>2, <2>3 DEF PlaneInv
<1>3. QED
  BY <1>1, <1>2

-----------------------------------------------------------------------------
(* Ownership, and with it every store on its way, stays with one side at a time. *)
THEOREM DataPlaneIndInv == PlaneSpec => []PlaneInv
  BY InitPlane, NextPlane, PTL DEF PlaneSpec

(* The two sides never hold a region at once (dataplane.rs, "Exactly one side owns it
   at a time"). *)
THEOREM DataPlaneNoSharedRegion == PlaneSpec => []NoSharedRegion
<1>1. PlaneInv => NoSharedRegion
  <2> SUFFICES ASSUME PlaneInv, NEW r \in holding["host"], r \in holding["sandbox"] PROVE FALSE
    BY DEF NoSharedRegion
  <2>1. owner[r] = "host" /\ owner[r] = "sandbox"
    BY DEF PlaneInv, HoldersOwn, Endpoint
  <2>2. QED
    BY <2>1
<1>2. QED
  BY <1>1, DataPlaneIndInv, PTL

(* An owner reads the last publish whole (the Release store of publish). *)
THEOREM DataPlaneOwnedRegionIsWhole == PlaneSpec => []OwnedRegionIsWhole
<1>1. PlaneInv => OwnedRegionIsWhole
  BY DEF PlaneInv
<1>2. QED
  BY <1>1, DataPlaneIndInv, PTL

(* acquire returns the sequence of the last publish. *)
THEOREM DataPlaneAcquireReturnsPublished == PlaneSpec => AcquireReturnsPublished
<1>1. PlaneInv /\ [PlaneNext]_planeVars =>
        [\A e \in Endpoint : AcquireLoad(e) => answer'[e] = published[at[e]][Sequence]]_planeVars
  <2> SUFFICES ASSUME PlaneInv, NEW e \in Endpoint, AcquireLoad(e)
               PROVE  answer'[e] = published[at[e]][Sequence]
    OBVIOUS
  <2> USE DEF PlaneInv
  <2>1. at[e] \in Region /\ Sequence \in Cell /\ owner[at[e]] = e
    BY DEF AcquireLoad, PlaneTypeOK, HoldersOwn, Cell
  <2>2. Sequence \notin stored[at[e]]
    BY <2>1 DEF AcquireLoad, SequenceWrittenInPublish
  <2>3. Sees(e, at[e], Sequence) = published[at[e]][Sequence]
    BY <2>1, <2>2 DEF OwnedRegionIsWhole
  <2>4. QED
    BY <2>3 DEF AcquireLoad, PlaneTypeOK
<1>2. QED
  BY <1>1, DataPlaneIndInv, PTL DEF PlaneSpec, AcquireReturnsPublished
=============================================================================
