--------------------------- MODULE MCHostedPlugin ---------------------------
(* Three block sizes, so that an activation can be smaller than the last one, than
   the default configuration, or than a block the host asks for. Two threads, and two
   of each Arc, which are dropped on either of them. *)
EXTENDS ModuleLifetime
=============================================================================
