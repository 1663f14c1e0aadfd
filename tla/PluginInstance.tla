--------------------------- MODULE PluginInstance ---------------------------
(***************************************************************************)
(* daux-plugin-api/src/instance.rs: the lifecycle every format adapter     *)
(* drives a plug-in through, one method at a time.  A method is two steps, *)
(* Enter (the state is looked at and the author's code entered) and Return *)
(* (the state is moved), so that an adapter with several threads can be    *)
(* caught between them.  Whoever catches a panic decides what becomes of   *)
(* the instance; this module only breaks the author's code.                *)
(***************************************************************************)
EXTENDS Integers

CONSTANT MaxSize    \* the largest block size a configuration asks for

ASSUME MaxSizeAssumption == MaxSize \in Nat \ {0}

Sizes  == 1 .. MaxSize
Frames == 0 .. MaxSize + 1    \* up to one more than any activation allows

VARIABLES
  inst,      \* PluginInstance.state; around it: Absent, Dropping, Destroyed
  config,    \* PluginInstance.config.max_block_size, 0 for None
  dsp, sized, call    \* the author's code, as DspContract has it

stateVars  == <<inst, config>>
authorVars == <<dsp, sized, call>>
instanceVars == <<stateVars, authorVars>>

Initialised == {"Inactive", "Active", "Processing"}
Live        == {"Created", "Poisoned"} \cup Initialised

Methods  == {"init", "activate", "deactivate", "start", "stop", "reset", "process", "consult"}
Outcomes == {"ok", "error", "panic"}

(* The author's method each of them enters; init and deactivate enter none. *)
Author == [activate |-> "prepare", start |-> "activate", stop |-> "deactivate",
           reset |-> "reset", process |-> "process", consult |-> "consult"]

Calls == ({"none", "construct", "drop"} \cup {Author[m] : m \in DOMAIN Author}) \X Frames

InstanceTypeOK ==
  /\ inst \in Live \cup {"Absent", "Dropping", "Destroyed"}
  /\ config \in Sizes \cup {0}
  /\ dsp \in {"absent", "stopped", "running", "broken", "dropped"}
  /\ sized \in Sizes \cup {0}
  /\ call \in Calls

InstanceInit ==
  /\ inst = "Absent" /\ config = 0
  /\ dsp = "absent" /\ sized = 0 /\ call = <<"none", 0>>

(* The author's constructor, then set_host. *)
Construct ==
  /\ inst = "Absent"
  /\ inst' = "Created" /\ dsp' = "stopped" /\ call' = <<"construct", 0>>
  /\ UNCHANGED <<config, sized>>

(* The state each method asks for.  Size 0 stands for a configuration that
   ProcessConfig::validate rejects. *)
Ready(m, n) ==
  CASE m = "init"                -> inst = "Created"
    [] m = "activate"            -> inst = "Inactive" /\ n # 0
    [] m \in {"deactivate", "start", "reset"} -> inst = "Active"
    [] m = "stop"                -> inst = "Processing"
    [] m = "process"             -> inst = "Processing" /\ n <= config
    [] m = "consult"             -> inst \in Initialised

(* What the author's method can do: only these return a Result, and only a method that
   enters the author's code can panic. *)
Possible(m) ==
  {"ok"} \cup (IF m \in {"activate", "start", "consult"} THEN {"error"} ELSE {})
         \cup (IF m \in DOMAIN Author THEN {"panic"} ELSE {})

Enter(m, n, outcome) ==
  /\ Ready(m, n) /\ outcome \in Possible(m)
  /\ dsp' = CASE outcome = "panic"              -> "broken"
              [] outcome = "ok" /\ m = "start"  -> "running"
              [] outcome = "ok" /\ m = "stop"   -> "stopped"
              [] OTHER                          -> dsp
  /\ sized' = IF m = "activate" THEN IF outcome = "ok" THEN n ELSE 0 ELSE sized
  /\ call' = IF m \in DOMAIN Author THEN <<Author[m], n>> ELSE call
  /\ UNCHANGED stateVars

(* The assignments after the author's method succeeded. *)
Return(m, n) ==
  /\ inst' = CASE m \in {"init", "deactivate"} -> "Inactive"
               [] m \in {"activate", "stop"}   -> "Active"
               [] m = "start"                  -> "Processing"
               [] OTHER                        -> inst
  /\ config' = CASE m = "activate" -> n [] m = "deactivate" -> 0 [] OTHER -> config
  /\ UNCHANGED authorVars

(* Its owner drops it: PluginInstance::drop performs a missing stop, *)
DropInstance ==
  /\ inst \in Live
  /\ inst' = "Dropping"
  /\ IF inst = "Processing"
       THEN dsp' \in {"stopped", "broken"} /\ call' = <<"deactivate", 0>>
       ELSE UNCHANGED <<dsp, call>>
  /\ UNCHANGED <<config, sized>>

(* and the author's own value is dropped, also when that stop panicked. *)
DropAuthor ==
  /\ inst = "Dropping"
  /\ inst' = "Destroyed" /\ dsp' = "dropped" /\ call' = <<"drop", 0>>
  /\ UNCHANGED <<config, sized>>

Contract == INSTANCE DspContract
=============================================================================
