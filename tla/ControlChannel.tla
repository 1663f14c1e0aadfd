--------------------------- MODULE ControlChannel ---------------------------
(***************************************************************************)
(* The sandbox control plane: daux-ipc/src/channel.rs framing messages     *)
(* over the LoopbackTransport of daux-ipc/src/loopback.rs.                 *)
(*                                                                         *)
(* Two ends, each owned by one thread.  They share two bounded queues of   *)
(* segments (SpscRing; its proof that it implements BoundedFifo is why a   *)
(* push and a pop are one step here), the `open` flag and the reference    *)
(* counts of the queues.  Every access to one of these is a step.          *)
(*                                                                         *)
(* A byte is <<frame, position>>: its frame's index in what its end wrote  *)
(* and its place in the frame.  What a frame holds is its kind.            *)
(***************************************************************************)
EXTENDS Integers, SequencesExt

CONSTANTS
  Capacity,       \* segments a queue holds
  FrameBytes,     \* length of a frame
  HeaderBytes,    \* length of its header: where peek_frame_len learns the length
  MaxRecvChunk,   \* LoopbackTransport.max_recv_chunk
  MaxFrames       \* bound: how many frames each end writes

End == {"host", "sandbox"}
Peer(e) == IF e = "host" THEN "sandbox" ELSE "host"

ASSUME ChannelAssumption ==
  /\ {Capacity, FrameBytes, HeaderBytes, MaxRecvChunk} \subseteq Nat \ {0}
  /\ HeaderBytes < FrameBytes
  /\ MaxFrames \in [End -> Nat]

(* What the reader makes of a frame: a message; a payload this build cannot read
   (unknown kind, impossible value), one with a field beyond the reader's limits, one
   that fails its checksum; a header that is not one. *)
Kind == {"message", "unreadable", "overlimit", "corrupt", "foreign"}

(* ProtocolError::is_fatal_to_stream over the errors ControlMessage::decode returns. *)
Fatal(kind) == kind \in {"overlimit", "corrupt", "foreign"}

VARIABLES
  open,       \* LoopbackTransport.open, one flag for both ends
  queue,      \* per end: the segments it pushed and the peer has not popped
  pending,    \* per end: LoopbackTransport.pending from cursor on
  inbox,      \* per end: ControlChannel.inbox
  poison,     \* per end: ControlChannel.poison
  pc,         \* per end: where its thread is
  draft,      \* per end: the segment in its hands
  written,    \* history, per end: the kinds of the frames it wrote a byte of
  part,       \* history, per end: how many bytes of the last of these
  answers     \* history, per end: what poll made of each frame it consumed

linkVars == <<open, queue>>
readVars == <<pending, inbox, poison, answers>>
sendVars == <<draft, written, part>>
vars == <<linkVars, readVars, sendVars, pc>>

NoDraft == [kind |-> "message", upto |-> 0]

(* Where each end can be, that the loopback queue never holds more segments than its
   capacity, nor an empty one, and that the reassembly buffer stays within one frame and
   one receive (the doc of buffered_bytes), whatever the peer sends. *)
TypeOK ==
  /\ open \in BOOLEAN
  /\ \A e \in End :
       /\ Len(queue[e]) <= Capacity
       /\ \A i \in DOMAIN queue[e] : queue[e][i] # <<>>
       /\ poison[e] \in {"none", "closed", "truncated", "protocol"}
       /\ pc[e] \in {"idle", "abandoned?", "push", "poll", "open?", "gone?", "dropping", "dropped"}
       /\ part[e] \in 0 .. FrameBytes
       /\ written[e] \in Seq(Kind)
       /\ Len(inbox[e]) < FrameBytes + MaxRecvChunk

Init ==
  /\ open = TRUE
  /\ queue = [e \in End |-> <<>>] /\ pending = [e \in End |-> <<>>]
  /\ inbox = [e \in End |-> <<>>] /\ poison = [e \in End |-> "none"]
  /\ pc = [e \in End |-> "idle"]
  /\ draft = [e \in End |-> NoDraft]
  /\ written = [e \in End |-> <<>>] /\ part = [e \in End |-> FrameBytes]
  /\ answers = [e \in End |-> <<>>]

-----------------------------------------------------------------------------
GoTo(e, point) == pc' = [pc EXCEPT ![e] = point]

(* send returns. *)
SendEnds(e) == GoTo(e, "idle") /\ draft' = [draft EXCEPT ![e] = NoDraft]

(* An end that is being dropped lets go of its Producer first, then of its Consumer
   (the order of LoopbackTransport's fields); is_abandoned is what the peer sees. *)
ProducerGone(e) == pc[e] \in {"dropping", "dropped"}
ConsumerGone(e) == pc[e] = "dropped"

MidFrame(e) == part[e] < FrameBytes

(* ControlChannel::send, of a whole frame, or LoopbackTransport::send of the rest or of
   the first bytes of one: what a peer does that dies in the middle of a write.  An
   unencodable message and a closed link change nothing, so only the attempt that finds
   the flag set is a step. *)
Send(e, kind, upto) ==
  /\ pc[e] = "idle" /\ poison[e] = "none"
  /\ open
  /\ IF MidFrame(e) THEN upto > part[e] /\ kind = Last(written[e])
                    ELSE Len(written[e]) < MaxFrames[e]
  /\ draft' = [draft EXCEPT ![e] = [kind |-> kind, upto |-> upto]]
  /\ GoTo(e, "abandoned?")
  /\ UNCHANGED <<linkVars, readVars, written, part>>

(* is_open's second look: is the reader still there? *)
SendAbandoned(e) ==
  /\ pc[e] = "abandoned?"
  /\ IF ConsumerGone(Peer(e)) THEN SendEnds(e) ELSE GoTo(e, "push") /\ UNCHANGED draft
  /\ UNCHANGED <<linkVars, readVars, written, part>>

Bytes(frame, from, upto) == [k \in 1 .. upto - from + 1 |-> <<frame, from + k - 1>>]

SendPush(e) ==
  /\ pc[e] = "push"
  /\ Len(queue[e]) < Capacity
  /\ LET frame == IF MidFrame(e) THEN Len(written[e]) ELSE Len(written[e]) + 1
         from  == IF MidFrame(e) THEN part[e] + 1 ELSE 1
     IN /\ queue' = [queue EXCEPT ![e] = Append(@, Bytes(frame, from, draft[e].upto))]
        /\ written' = [written EXCEPT ![e] = IF MidFrame(e) THEN @ ELSE Append(@, draft[e].kind)]
        /\ part' = [part EXCEPT ![e] = draft[e].upto]
  /\ SendEnds(e)
  /\ UNCHANGED <<open, readVars>>

(* Err(Full): backpressure. *)
SendFull(e) ==
  /\ pc[e] = "push"
  /\ Len(queue[e]) = Capacity
  /\ SendEnds(e)
  /\ UNCHANGED <<linkVars, readVars, written, part>>

-----------------------------------------------------------------------------
(* Mutants: poll works on after a failure; *)
PollStartAnyway(e) ==
  /\ pc[e] = "idle"
  /\ GoTo(e, "poll")
  /\ UNCHANGED <<linkVars, readVars, sendVars>>

(* a buffer of exactly one frame is not one; *)
WholeFrameLate(e) == Len(inbox[e]) > FrameBytes

(* a frame that fails its checksum is answered and passed over. *)
TakeFrameForgiving(e) ==
  /\ pc[e] = "poll" /\ Len(inbox[e]) >= FrameBytes
  /\ inbox' = [inbox EXCEPT ![e] = SubSeq(@, FrameBytes + 1, Len(@))]
  /\ answers' = [answers EXCEPT ![e] = Append(@, written[Peer(e)][Head(inbox[e])[1]])]
  /\ GoTo(e, "idle")
  /\ UNCHANGED <<open, queue, pending, poison, sendVars>>

(* ControlChannel::poll; a poisoned channel answers its failure and does nothing. *)
PollStart(e) ==
  /\ pc[e] = "idle" /\ poison[e] = "none"
  /\ GoTo(e, "poll")
  /\ UNCHANGED <<linkVars, readVars, sendVars>>

FrontKind(e) == written[Peer(e)][Head(inbox[e])[1]]
BadHeader(e) == Len(inbox[e]) >= HeaderBytes /\ FrontKind(e) = "foreign"
WholeFrame(e) == Len(inbox[e]) >= FrameBytes

(* poisoned: remember the failure and close the transport. *)
Poison(e, failure) == poison' = [poison EXCEPT ![e] = failure] /\ open' = FALSE

(* take_buffered_frame fails in peek_frame_len: nothing is consumed. *)
RefuseHeader(e) ==
  /\ pc[e] = "poll" /\ BadHeader(e)
  /\ Poison(e, "protocol")
  /\ GoTo(e, "idle")
  /\ UNCHANGED <<queue, pending, inbox, answers, sendVars>>

(* take_buffered_frame finds a whole frame, and consumes it whatever is in it. *)
TakeFrame(e) ==
  /\ pc[e] = "poll" /\ ~BadHeader(e) /\ WholeFrame(e)
  /\ inbox' = [inbox EXCEPT ![e] = SubSeq(@, FrameBytes + 1, Len(@))]
  /\ answers' = [answers EXCEPT ![e] = Append(@, FrontKind(e))]
  /\ IF Fatal(FrontKind(e)) THEN Poison(e, "protocol") ELSE UNCHANGED <<open, poison>>
  /\ GoTo(e, "idle")
  /\ UNCHANGED <<queue, pending, sendVars>>

(* drain_pending *)
Drain(e, segment) ==
  LET end == IF Len(segment) < MaxRecvChunk THEN Len(segment) ELSE MaxRecvChunk IN
  /\ inbox' = [inbox EXCEPT ![e] = @ \o SubSeq(segment, 1, end)]
  /\ pending' = [pending EXCEPT ![e] = SubSeq(segment, end + 1, Len(segment))]

NeedsMore(e) == pc[e] = "poll" /\ ~BadHeader(e) /\ ~WholeFrame(e)

(* try_recv with a segment under way *)
RecvPending(e) ==
  /\ NeedsMore(e) /\ pending[e] # <<>>
  /\ Drain(e, pending[e])
  /\ UNCHANGED <<linkVars, poison, answers, sendVars, pc>>

(* ... with none: pop the next one, *)
RecvPop(e) ==
  /\ NeedsMore(e) /\ pending[e] = <<>>
  /\ IF queue[Peer(e)] # <<>>
       THEN /\ Drain(e, Head(queue[Peer(e)]))
            /\ queue' = [queue EXCEPT ![Peer(e)] = Tail(@)]
            /\ UNCHANGED pc
       ELSE GoTo(e, "open?") /\ UNCHANGED <<inbox, pending, queue>>
  /\ UNCHANGED <<open, poison, answers, sendVars>>

(* closed_mid_frame *)
ReportClosed(e) == Poison(e, IF inbox[e] = <<>> THEN "closed" ELSE "truncated") /\ GoTo(e, "idle")

(* ... or there was none: peer_gone's two looks, after the pop.  WouldBlock makes poll
   answer Ok(None). *)
RecvOpen(e) ==
  /\ pc[e] = "open?"
  /\ IF open THEN GoTo(e, "gone?") /\ UNCHANGED <<open, poison>>
             ELSE ReportClosed(e)
  /\ UNCHANGED <<queue, pending, inbox, answers, sendVars>>

(* Mutant: try_recv does not ask for an abandoned queue. *)
RecvGoneUnasked(e) ==
  /\ pc[e] = "gone?"
  /\ GoTo(e, "idle")
  /\ UNCHANGED <<linkVars, readVars, sendVars>>

RecvGone(e) ==
  /\ pc[e] = "gone?"
  /\ IF ProducerGone(Peer(e)) THEN ReportClosed(e)
                              ELSE GoTo(e, "idle") /\ UNCHANGED <<open, poison>>
  /\ UNCHANGED <<queue, pending, inbox, answers, sendVars>>

-----------------------------------------------------------------------------
Close(e) ==
  /\ pc[e] = "idle"
  /\ open' = FALSE
  /\ UNCHANGED <<queue, readVars, sendVars, pc>>

Drop(e) ==
  /\ \/ pc[e] = "idle" /\ GoTo(e, "dropping")
     \/ pc[e] = "dropping" /\ GoTo(e, "dropped")
  /\ UNCHANGED <<linkVars, readVars, sendVars>>

SendStep(e) == SendAbandoned(e) \/ SendPush(e) \/ SendFull(e)

PollStep(e) ==
  \/ RefuseHeader(e) \/ TakeFrame(e)
  \/ RecvPending(e) \/ RecvPop(e) \/ RecvOpen(e) \/ RecvGone(e)

EndStep(e) ==
  \/ \E kind \in Kind, upto \in 1 .. FrameBytes : Send(e, kind, upto)
  \/ SendStep(e)
  \/ PollStart(e) \/ PollStep(e)
  \/ Close(e) \/ Drop(e)

Next == \E e \in End : EndStep(e)

Spec == Init /\ [][Next]_vars

(* Each end finishes the calls it is in and keeps polling; nothing makes it send, close
   or go away. *)
FairSpec ==
  /\ Spec
  /\ \A e \in End : /\ WF_vars(SendStep(e) \/ PollStep(e))
                    /\ SF_vars(PollStart(e))

-----------------------------------------------------------------------------
(* The bytes an end has not turned into frames yet, over the three buffers they are in. *)
InTransit(e) == inbox[e] \o pending[e] \o FlattenSeq(queue[Peer(e)])

BytesWritten(e) == (Len(written[e]) - 1) * FrameBytes + part[e]
BytesConsumed(e) == Len(answers[e]) * FrameBytes

(* The transport's contract, across every split: bytes arrive in order, exactly once,
   with nothing inserted, and whatever frame the reader consumed, good or bad, it is left
   on a frame boundary. *)
BytesInOrder(e) ==
  LET rest == BytesWritten(Peer(e)) - BytesConsumed(e) IN
  InTransit(e) = [i \in 1 .. rest |->
                    LET at == BytesConsumed(e) + i - 1
                    IN  <<(at \div FrameBytes) + 1, (at % FrameBytes) + 1>>]

(* poll never answers out of order, skips or invents: its i-th answer is to the peer's
   i-th frame, and a frame that is fatal to the stream is the last one it looks at. *)
AnswersInOrder(e) ==
  \A i \in DOMAIN answers[e] :
    /\ i <= Len(written[Peer(e)])
    /\ answers[e][i] = written[Peer(e)][i]
    /\ Fatal(answers[e][i]) => i = Len(answers[e]) /\ poison[e] = "protocol"

(* What a peer writes is what the reader is answered and has still to read: the bytes
   and the frames of the stream, each in order and once, and the reader's buffer stays
   within a frame and a chunk however long the writer takes over a frame. *)
StreamIntact == TypeOK /\ \A e \in End : BytesInOrder(e) /\ AnswersInOrder(e)

(* The first failure is final: the link it closed stays closed, and the end that failed
   changes no more, although its peer goes on. *)
PoisonIsFinal ==
  [][\A e \in End : poison[e] # "none" =>
       ~open' /\ UNCHANGED <<poison[e], answers[e], inbox[e], written[e]>>]_vars

(* A peer that goes away is noticed: no poll loop waits for it for ever. *)
DeathIsNoticed ==
  \A e \in End : ProducerGone(e) ~> poison[Peer(e)] # "none" \/ ProducerGone(Peer(e))

(* Every frame that was written whole is answered, unless the reading end fails or goes. *)
FramesAreAnswered ==
  \A e \in End : \A n \in 1 .. MaxFrames[e] :
    BytesWritten(e) >= n * FrameBytes
      ~> Len(answers[Peer(e)]) >= n \/ poison[Peer(e)] # "none" \/ ProducerGone(Peer(e))

-----------------------------------------------------------------------------
(* transport.rs:28-29 promises "After the peer closes, the bytes it wrote beforehand are
   still delivered; only once they run out does a receive report Closed".  Of an end
   that did not close the link itself: when it reports the close, nothing is left. *)
LastBytesDelivered ==
  [][\A e \in End :
       pc[e] = "gone?" /\ poison[e] # poison'[e] => InTransit(e) = inbox[e]]_vars
=============================================================================
