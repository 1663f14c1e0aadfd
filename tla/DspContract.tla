---------------------------- MODULE DspContract ----------------------------
(***************************************************************************)
(* What daux-core's DauxProcessor and DauxController promise the author of *)
(* a plug-in: which of their methods may be entered when, and with how     *)
(* many frames.  The panic of any of them is the author's last act before  *)
(* the plug-in is dropped.                                                 *)
(***************************************************************************)
EXTENDS Integers

CONSTANT Sizes    \* the block sizes a configuration can ask for

VARIABLES
  dsp,     \* what the author's code has been asked to be
  sized,   \* the block size of the preparation it can rely on, 0 for none
  call     \* the last of its methods entered, and for how many frames

contractVars == <<dsp, sized, call>>

Init == dsp = "absent" /\ sized = 0 /\ call = <<"none", 0>>

Construct ==
  /\ dsp = "absent"
  /\ dsp' = "stopped" /\ call' = <<"construct", 0>> /\ UNCHANGED sized

(* A controller method, or a question to the processor. *)
Consult ==
  /\ dsp \in {"stopped", "running"}
  /\ dsp' \in {dsp, "broken"} /\ call' = <<"consult", 0>> /\ UNCHANGED sized

(* A preparation that fails leaves nothing to rely on. *)
Prepare(n) ==
  /\ dsp = "stopped"
  /\ dsp' \in {"stopped", "broken"} /\ call' = <<"prepare", n>> /\ sized' \in {n, 0}

Activate ==
  /\ dsp = "stopped" /\ sized # 0
  /\ dsp' \in {"running", "stopped", "broken"}
  /\ call' = <<"activate", 0>> /\ UNCHANGED sized

Process(f) ==
  /\ dsp = "running" /\ f <= sized
  /\ dsp' \in {"running", "broken"} /\ call' = <<"process", f>> /\ UNCHANGED sized

Deactivate ==
  /\ dsp = "running"
  /\ dsp' \in {"stopped", "broken"} /\ call' = <<"deactivate", 0>> /\ UNCHANGED sized

(* Only while disarmed: what PluginInstance enforces.  The trait's own diagram has reset
   "at any point between activate and deactivate", where only daux-host's native
   instances, which have no PluginInstance, call it. *)
Reset ==
  /\ dsp = "stopped" /\ sized # 0
  /\ dsp' \in {"stopped", "broken"} /\ call' = <<"reset", 0>> /\ UNCHANGED sized

Drop ==
  /\ dsp \in {"stopped", "broken"}
  /\ dsp' = "dropped" /\ call' = <<"drop", 0>> /\ UNCHANGED sized

Next ==
  \/ Construct \/ Consult \/ Activate \/ Deactivate \/ Reset \/ Drop
  \/ \E n \in Sizes : Prepare(n)
  \/ \E f \in Sizes \cup {0} : Process(f)

Spec == Init /\ [][Next]_contractVars
=============================================================================
