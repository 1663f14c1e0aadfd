--------------------------- MODULE MCClapInstance ---------------------------
(* Two parameters, so that one can move between the reading of two; a default block size
   below the largest; a lock_main that yields once before it gives up. *)
EXTENDS ClapInstance
Params2 == <<"gain", "mix">>
=============================================================================
