----------------------------- MODULE MCTestHost -----------------------------
(* Two events, or one unit of payload, fill a list, and a third push is refused; two
   channel counts let a block be rebuilt with events queued. The worker's queue holds
   two tasks, so that a third is refused, or comes while the others are in hand. *)
EXTENDS TestHost
=============================================================================
