---------------------------- MODULE MCDataPlane ----------------------------
(* One region with a header and a plane, whose two contents and the counter's change
   hands in every order; either side may die anywhere. *)
EXTENDS DataPlane, TLC

MCSymmetry == Permutations(Field)
=============================================================================
