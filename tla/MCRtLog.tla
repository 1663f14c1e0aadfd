------------------------------ MODULE MCRtLog ------------------------------
(* Four calls over two slots: with none refused they carry each slot through two laps,
   and with the queue full both producers are refused, or one of them again after a
   report or once a consumer has made room. *)
EXTENDS RtLog
=============================================================================
