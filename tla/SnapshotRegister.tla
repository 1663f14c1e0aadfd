-------------------------- MODULE SnapshotRegister --------------------------
(***************************************************************************)
(* What a lossy snapshot channel promises: it is one register.  A          *)
(* publication replaces it whole; an observation takes whatever it holds   *)
(* at that instant, so what the reader shows never goes back to an older   *)
(* publication and never mixes two.                                        *)
(***************************************************************************)
CONSTANTS Snapshot, InitialSnapshot

VARIABLES
  latest,   \* what was published last
  shown     \* what the reader shows

registerVars == <<latest, shown>>

Init == latest = InitialSnapshot /\ shown = InitialSnapshot

Publish ==
  /\ latest' \in Snapshot
  /\ UNCHANGED shown

Observe ==
  /\ shown' = latest
  /\ UNCHANGED latest

Next == Publish \/ Observe

Spec == Init /\ [][Next]_registerVars
=============================================================================
