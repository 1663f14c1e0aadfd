-------------------------- MODULE MCControlChannel --------------------------
(* The sandbox writes three frames of any kind, whole or in pieces; the host only
   reads, closes or goes away.  Frames of three bytes arrive at most two at a time
   through a queue of one segment, so every frame is split and the queue fills up. *)
EXTENDS ControlChannel

MCMaxFrames == [host |-> 0, sandbox |-> 3]
=============================================================================
