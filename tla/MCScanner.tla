------------------------------ MODULE MCScanner ------------------------------
(* A bundle with two builds of any kind, in a directory of its own, beside a sound
   one. *)
EXTENDS Scanner, TLC

CONSTANTS Vendor, Neighbour

TwoBuilds == Vendor :> 2 @@ Neighbour :> 1
OneRoot   == {{Vendor}}
AnyBuilds == {n \in [Entry -> Behaviour] : n[<<Neighbour, 1>>] = "sound"}
=============================================================================
