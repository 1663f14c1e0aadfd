----------------------------- MODULE MCSpscRing -----------------------------
(* Two slots, counters that wrap after three laps. *)
EXTENDS SpscRing
=============================================================================
