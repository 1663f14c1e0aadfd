--------------------------- MODULE MCTripleBuffer ---------------------------
(* Two fields, so that a torn snapshot exists; two values, so that a stale one does. *)
EXTENDS TripleBuffer
=============================================================================
