---------------------------- MODULE AxtInstance ----------------------------
(***************************************************************************)
(* The plug-in's side of one .axt instance: the ABI entries of             *)
(* daux-format-axt/src/instance.rs over the lifecycle that                 *)
(* daux-plugin-api/src/instance.rs enforces.  Next is any order of calls a *)
(* host can make, the illegal ones included; abi-v1 section 15 makes calls *)
(* on one instance exclusive, so an entry is one step.  Every method of the*)
(* author it enters can succeed, fail if it returns a Result, or panic.    *)
(***************************************************************************)
EXTENDS Integers

CONSTANTS
  MaxSize,       \* the largest block size a configuration asks for
  DefaultSize    \* ProcessConfig::default().max_block_size

ASSUME SizeAssumption == MaxSize \in Nat \ {0} /\ DefaultSize \in 1 .. MaxSize

Sizes  == 1 .. MaxSize
Frames == 0 .. MaxSize + 1    \* up to one more than any activation allows

VARIABLES
  inst,         \* PluginInstance.state; around it: Absent, Dropping, Destroyed
  config,       \* PluginInstance.config.max_block_size, 0 for None
  axtConfig,    \* AxtInstance.config.max_block_size
  views,        \* AxtInstance.audio holds views of a host's block
  dsp, sized, call,   \* the author's code, as DspContract has it
  reply         \* what the last entry returned

abiVars == <<inst, config, axtConfig, views>>
dspVars == <<dsp, sized, call>>
axtVars == <<abiVars, dspVars, reply>>

Initialised == {"Inactive", "Active", "Processing"}
Live        == {"Created", "Poisoned"} \cup Initialised

Method == {"none", "construct", "consult", "prepare", "activate", "process",
           "deactivate", "reset", "drop"}
Call   == Method \X Frames

AxtTypeOK ==
  /\ inst \in Live \cup {"Absent", "Dropping", "Destroyed"}
  /\ config \in Sizes \cup {0} /\ axtConfig \in Sizes /\ views \in BOOLEAN
  /\ dsp \in {"absent", "stopped", "running", "broken", "dropped"}
  /\ sized \in Sizes \cup {0}
  /\ call \in Call
  /\ reply \in {"none", "ok", "continue", "error", "refused", "panic"}

AxtInit ==
  /\ inst = "Absent" /\ config = 0 /\ axtConfig = DefaultSize /\ views = FALSE
  /\ dsp = "absent" /\ sized = 0 /\ call = <<"none", 0>>
  /\ reply = "none"

-----------------------------------------------------------------------------
(* What an entry of each return type says when it is refused because the
   instance is poisoned, and when it has just caught a panic.  An entry that
   returns nothing reports nothing. *)
WhenPoisoned(type) ==
  CASE type = "status" -> "refused" [] type = "process" -> "error" [] type = "void" -> "none"
WhenPanicked(type) ==
  CASE type = "status" -> "panic" [] type = "process" -> "error" [] type = "void" -> "none"

(* Mutant: with_instance catches the panic and lets the instance live on. *)
PanickedForgiven(type, method) ==
  /\ dsp' = "broken" /\ call' = method
  /\ reply' = WhenPanicked(type)
  /\ UNCHANGED <<inst, config, axtConfig, sized>>

(* PluginInstance refuses the state, with no method of the author entered; an
   entry without a status swallows the refusal. *)
Refused(type) ==
  /\ reply' = WhenPoisoned(type)
  /\ UNCHANGED <<abiVars, dspVars>>

(* with_instance: a poisoned instance is refused, whatever the entry. *)
RefusedPoisoned(type) == inst = "Poisoned" /\ Refused(type)

(* with_instance: the panic of the method entered is caught and poisons. *)
Panicked(type, method) ==
  /\ inst' = "Poisoned" /\ dsp' = "broken" /\ call' = method
  /\ reply' = WhenPanicked(type)
  /\ UNCHANGED <<config, axtConfig, sized>>

(* A method of the author returns an error, or has nothing to change. *)
Entered(method, answer) ==
  /\ call' = method /\ reply' = answer
  /\ UNCHANGED <<abiVars, dsp, sized>>

(* factory create_plugin: the author's constructor, then set_host. *)
Create ==
  /\ inst = "Absent"
  /\ inst' = "Created" /\ dsp' = "stopped" /\ call' = <<"construct", 0>> /\ reply' = "ok"
  /\ UNCHANGED <<config, axtConfig, views, sized>>

InitEntry ==
  \/ RefusedPoisoned("status")
  \/ inst \in Initialised /\ Refused("status")
  \/ /\ inst = "Created"
     /\ inst' = "Inactive" /\ reply' = "ok"
     /\ UNCHANGED <<config, axtConfig, views, dspVars>>

(* bus_layout is asked before the lifecycle is looked at, so an activation out of
   order still enters the author's code.  Size 0 stands for a configuration that
   ProcessConfig::validate rejects. *)
ActivateEntry(n) ==
  \/ RefusedPoisoned("status")
  \/ inst = "Created" /\ Refused("status")
  \/ inst \in Initialised /\ Panicked("status", <<"consult", 0>>) /\ UNCHANGED views
  \/ inst \in {"Active", "Processing"} /\ Entered(<<"consult", 0>>, "refused")
  \/ inst = "Inactive" /\ n = 0 /\ Entered(<<"consult", 0>>, "error")
  \/ /\ inst = "Inactive" /\ n # 0
     /\ \/ /\ inst' = "Active" /\ config' = n /\ axtConfig' = n /\ views' = FALSE
           /\ sized' = n /\ call' = <<"prepare", n>> /\ reply' = "ok"
           /\ UNCHANGED dsp
        \/ /\ sized' = 0 /\ call' = <<"prepare", n>> /\ reply' = "error"
           /\ UNCHANGED <<abiVars, dsp>>
        \/ /\ inst' = "Poisoned" /\ dsp' = "broken" /\ sized' = 0
           /\ call' = <<"prepare", n>> /\ reply' = "panic"
           /\ UNCHANGED <<config, axtConfig, views>>

DeactivateEntry ==
  \/ inst \in Live \ {"Active"} /\ Refused("void")
  \/ /\ inst = "Active"
     /\ inst' = "Inactive" /\ config' = 0 /\ reply' = "none"
     /\ UNCHANGED <<axtConfig, views, dspVars>>

StartEntry ==
  \/ inst \in Live \ {"Active"} /\ Refused("status")
  \/ /\ inst = "Active"
     /\ \/ /\ inst' = "Processing" /\ dsp' = "running" /\ call' = <<"activate", 0>> /\ reply' = "ok"
           /\ UNCHANGED <<config, axtConfig, views, sized>>
        \/ Entered(<<"activate", 0>>, "error")
        \/ Panicked("status", <<"activate", 0>>) /\ UNCHANGED views

StopEntry ==
  \/ inst \in Live \ {"Processing"} /\ Refused("void")
  \/ /\ inst = "Processing"
     /\ \/ /\ inst' = "Active" /\ dsp' = "stopped" /\ call' = <<"deactivate", 0>> /\ reply' = "none"
           /\ UNCHANGED <<config, axtConfig, views, sized>>
        \/ Panicked("void", <<"deactivate", 0>>) /\ UNCHANGED views

(* Mutant: reset in any initialised state. *)
ResetEntryAnywhere ==
  \/ inst \in Live \ Initialised /\ Refused("void")
  \/ /\ inst \in Initialised
     /\ \/ Entered(<<"reset", 0>>, "none")
        \/ Panicked("void", <<"reset", 0>>) /\ UNCHANGED views

ResetEntry ==
  \/ inst \in Live \ {"Active"} /\ Refused("void")
  \/ /\ inst = "Active"
     /\ \/ Entered(<<"reset", 0>>, "none")
        \/ Panicked("void", <<"reset", 0>>) /\ UNCHANGED views

(* The gates of AxtInstance::process, in order: the poison, an empty block, the
   limit of the last activation, a block whose buses cannot be viewed; then those
   of PluginInstance::may_process.  audio.clear() is skipped by an unwind. *)
ProcessEntry(f) ==
  \/ RefusedPoisoned("process")
  \/ /\ inst \in Live \ {"Poisoned"} /\ f = 0
     /\ reply' = "continue" /\ UNCHANGED <<abiVars, dspVars>>
  \/ /\ inst \in Live \ {"Poisoned"} /\ f > axtConfig
     /\ Refused("process")
  \/ /\ inst \in Live \ {"Poisoned"} /\ f \in 1 .. axtConfig
     /\ reply' = "error" /\ views' = FALSE
     /\ UNCHANGED <<inst, config, axtConfig, dspVars>>
  \/ /\ inst = "Processing" /\ f \in 1 .. axtConfig /\ f <= config
     /\ \/ /\ call' = <<"process", f>> /\ reply' \in {"continue", "error"} /\ views' = FALSE
           /\ UNCHANGED <<inst, config, axtConfig, dsp, sized>>
        \/ Panicked("process", <<"process", f>>) /\ views' = TRUE

(* latency, tail, on_main_thread, and the extension tables over the controller. *)
ConsultEntry ==
  \/ inst \in {"Created", "Poisoned"} /\ Refused("void")
  \/ inst \in Initialised /\ Entered(<<"consult", 0>>, "none")
  \/ inst \in Initialised /\ Panicked("void", <<"consult", 0>>) /\ UNCHANGED views

(* destroy drops the box: PluginInstance::drop first performs a missing stop, then
   the author's own value is dropped, also when that stop panicked. *)
DestroyEntry ==
  /\ inst \in Live
  /\ inst' = "Dropping" /\ reply' = "none"
  /\ IF inst = "Processing"
       THEN dsp' \in {"stopped", "broken"} /\ call' = <<"deactivate", 0>>
       ELSE UNCHANGED <<dsp, call>>
  /\ UNCHANGED <<config, axtConfig, views, sized>>

DestroyFields ==
  /\ inst = "Dropping"
  /\ inst' = "Destroyed" /\ dsp' = "dropped" /\ call' = <<"drop", 0>> /\ views' = FALSE
  /\ UNCHANGED <<config, axtConfig, sized, reply>>

AxtNext ==
  \/ Create \/ InitEntry \/ DeactivateEntry \/ StartEntry \/ StopEntry \/ ResetEntry
  \/ ConsultEntry \/ DestroyEntry \/ DestroyFields
  \/ \E n \in Sizes \cup {0} : ActivateEntry(n)
  \/ \E f \in Frames : ProcessEntry(f)

-----------------------------------------------------------------------------
(* The lifecycle state of the wrapper is the state of the author's code: it is
   armed exactly while Processing, prepared for at least what both block limits
   allow while Active or Processing, and broken once Poisoned. *)
LifecycleMatchesDsp ==
  /\ inst = "Absent" <=> dsp = "absent"
  /\ inst = "Destroyed" <=> dsp = "dropped"
  /\ inst \in {"Created", "Inactive", "Active"} => dsp = "stopped"
  /\ inst = "Processing" => dsp = "running"
  /\ inst = "Poisoned" => dsp = "broken"
  /\ inst = "Dropping" => dsp \in {"stopped", "broken"}
  /\ inst \in {"Active", "Processing"} => config = sized /\ axtConfig = sized /\ sized # 0
  /\ inst \in {"Absent", "Created", "Inactive"} => config = 0

(* No view of a host's buffers outlives the process call that built it, unless the
   author's code panicked in that call; then no later call can read it
   (audio.rs: "no view outlives the process call that built it"). *)
ViewsDieWithTheCall == views => inst \in {"Poisoned", "Dropping"}

Contract == INSTANCE DspContract

(* Whatever a host calls, in whatever order, the author's code is entered only as
   DauxProcessor promises: prepared before it is armed, processing only while armed
   and never more frames than prepared, reset only while disarmed, never entered
   again after a panic, and disarmed before it is dropped. *)
ImplementsContract == Contract!Spec
=============================================================================
