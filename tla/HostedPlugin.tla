---------------------------- MODULE HostedPlugin ----------------------------
(***************************************************************************)
(* An .axt instance and the host that loaded it: either daux-runtime's     *)
(* LoadedPlugin (plugin.rs), which keeps a lifecycle of its own beside the *)
(* plug-in's and calls through the ABI, or a foreign host, which calls the *)
(* entries in any order.                                                   *)
(*                                                                         *)
(* A call LoadedPlugin refuses on its own changes nothing on either side   *)
(* and is not a step.                                                      *)
(***************************************************************************)
EXTENDS AxtInstance

VARIABLE host    \* LoadedPlugin's state, config (0 for None) and poisoned,
                 \* and whether its Drop has begun

vars == <<axtVars, host>>

HostStates == {"Foreign", "None", "Created", "Inactive", "Active", "Processing", "Destroying", "Gone"}

TypeOK ==
  /\ AxtTypeOK
  /\ host \in [state : HostStates, config : Sizes \cup {0}, poisoned : BOOLEAN, dropping : BOOLEAN]

Init ==
  /\ AxtInit
  /\ \E s \in {"None", "Foreign"} :
       host = [state |-> s, config |-> 0, poisoned |-> FALSE, dropping |-> FALSE]

-----------------------------------------------------------------------------
(* LoadedFactory::create_plugin, in two ABI calls. *)
HostCreate ==
  /\ host.state = "None"
  /\ Create
  /\ host' = [host EXCEPT !.state = "Created"]

(* An instance whose init fails is destroyed at once. *)
HostInit ==
  /\ host.state = "Created"
  /\ InitEntry
  /\ host' = IF reply' = "ok" THEN [host EXCEPT !.state = "Inactive"]
                              ELSE [host EXCEPT !.dropping = TRUE, !.state = "Inactive"]

(* usable() and expect(): the host's own guards. *)
Usable == ~host.poisoned /\ ~host.dropping
Expects(s) == Usable /\ host.state = s

(* Mutant: the host moves on unless the plug-in panicked. *)
RecordedAnyway(moved) ==
  IF reply' = "panic" THEN [host EXCEPT !.poisoned = TRUE] ELSE moved

(* record(): only a status of DAUX_ERR_PANIC poisons the host's side. *)
Recorded(moved) ==
  CASE reply' = "ok"    -> moved
    [] reply' = "panic" -> [host EXCEPT !.poisoned = TRUE]
    [] OTHER            -> host

HostActivate(n) ==
  /\ Expects("Inactive")
  /\ ActivateEntry(n)
  /\ host' = Recorded([host EXCEPT !.state = "Active", !.config = n])

HostStart ==
  /\ Expects("Active")
  /\ StartEntry
  /\ host' = Recorded([host EXCEPT !.state = "Processing"])

(* deactivate and stop_processing return nothing, so the host moves on. *)
HostDeactivate ==
  /\ Expects("Active")
  /\ DeactivateEntry
  /\ host' = [host EXCEPT !.state = "Inactive", !.config = 0]

HostStop ==
  /\ Expects("Processing")
  /\ StopEntry
  /\ host' = [host EXCEPT !.state = "Active"]

(* Refused by the host only while processing. *)
HostReset ==
  /\ Usable /\ host.state \in {"Inactive", "Active"}
  /\ ResetEntry
  /\ UNCHANGED host

(* HostBlock::check refuses an empty block. *)
HostProcess(f) ==
  /\ Expects("Processing") /\ f \in 1 .. host.config
  /\ ProcessEntry(f)
  /\ UNCHANGED host

(* on_main_thread, latency, tail and the extension tables. *)
HostConsult ==
  /\ Usable /\ host.state \in Initialised
  /\ ConsultEntry
  /\ UNCHANGED host

(* Drop walks the instance back, poisoned or not. *)
DropStop ==
  /\ host.state = "Processing"
  /\ StopEntry
  /\ host' = [host EXCEPT !.dropping = TRUE, !.state = "Active"]

DropDeactivate ==
  /\ host.state = "Active"
  /\ DeactivateEntry
  /\ host' = [host EXCEPT !.dropping = TRUE, !.state = "Inactive"]

DropDestroy ==
  /\ host.state = "Inactive"
  /\ DestroyEntry
  /\ host' = [host EXCEPT !.dropping = TRUE, !.state = "Destroying"]

DropFields ==
  /\ host.state = "Destroying"
  /\ DestroyFields
  /\ host' = [host EXCEPT !.state = "Gone"]

Foreign == host.state = "Foreign" /\ AxtNext /\ UNCHANGED host

Next ==
  \/ HostCreate \/ HostInit \/ HostStart \/ HostDeactivate \/ HostStop \/ HostReset
  \/ HostConsult \/ DropStop \/ DropDeactivate \/ DropDestroy \/ DropFields \/ Foreign
  \/ \E n \in Sizes : HostActivate(n) \/ HostProcess(n)

Spec == Init /\ [][Next]_vars

-----------------------------------------------------------------------------
(* Where the plug-in is when the host believes it to be in a state. *)
Believed ==
  [s \in HostStates \ {"Foreign"} |->
     CASE s = "None" -> "Absent" [] s = "Destroying" -> "Dropping"
       [] s = "Gone" -> "Destroyed" [] OTHER -> s]

(* The two lifecycles are kept on either side of an ABI half of whose entries report
   nothing, and still agree on the state and on the block size, unless a panic
   separated them (plugin.rs state and config against PluginInstance's). *)
HostAgrees ==
  host.state # "Foreign" =>
    /\ inst # "Poisoned" => inst = Believed[host.state]
    /\ host.state \in {"Active", "Processing"} /\ inst # "Poisoned" =>
         host.config = config /\ host.config = axtConfig
    /\ host.poisoned => inst \in {"Poisoned", "Dropping", "Destroyed"}

(* A panic the host does not hear of from the call that panicked it never hears of:
   no later entry says more than "refused", so record() cannot catch up and
   is_poisoned() stays false. *)
PanicsAreHeardAtOnceOrNever ==
  [][inst = "Poisoned" => host'.poisoned = host.poisoned]_vars

(* What the entries of the ABI and LoadedPlugin's calls keep true between them: each
   side's lifecycle, the buffers, and that the two sides agree. *)
IndInv == TypeOK /\ LifecycleMatchesDsp /\ ViewsDieWithTheCall /\ HostAgrees
=============================================================================
