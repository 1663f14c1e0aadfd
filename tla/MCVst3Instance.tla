--------------------------- MODULE MCVst3Instance ---------------------------
(* Parameters share the flag and the event list and nothing else, so one shows what two
   stores of it can do in any order; an event list that one event fills; blocks as long
   as the smaller activation allows and longer; a second reference of the host. *)
EXTENDS Vst3Instance
Params1 == <<"gain">>
Interchangeable == Permutations(Values)
=============================================================================
