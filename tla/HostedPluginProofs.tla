------------------------- MODULE HostedPluginProofs -------------------------
(***************************************************************************)
(* The plug-in author's contract holds under every host, and the runtime's *)
(* view of the instance is the plug-in's, for every largest block size.    *)
(* What keeps a hosted plug-in's code loaded is counted right, for any     *)
(* number of threads (the second part, about ModuleLifetime).              *)
(***************************************************************************)
EXTENDS ModuleLifetime, FiniteSetTheorems, SequenceTheorems, TLAPS

AxtInv == AxtTypeOK /\ LifecycleMatchesDsp /\ ViewsDieWithTheCall

USE DEF Initialised, Live

(* The replies an entry can give. *)
LEMMA Replies ==
  /\ WhenPoisoned("status") = "refused" /\ WhenPanicked("status") = "panic"
  /\ WhenPoisoned("process") = "error" /\ WhenPanicked("process") = "error"
  /\ WhenPoisoned("void") = "none" /\ WhenPanicked("void") = "none"
  BY DEF WhenPoisoned, WhenPanicked

(* Every call the entries make on the author's code. *)
LEMMA Calls ==
  /\ <<"none", 0>> \in Call /\ <<"construct", 0>> \in Call /\ <<"consult", 0>> \in Call
  /\ <<"activate", 0>> \in Call /\ <<"deactivate", 0>> \in Call /\ <<"reset", 0>> \in Call
  /\ <<"drop", 0>> \in Call
  /\ \A f \in Frames : <<"prepare", f>> \in Call /\ <<"process", f>> \in Call
<1>1. 0 \in Frames
  BY SizeAssumption DEF Frames
<1>2. \A m \in Method, f \in Frames : <<m, f>> \in Call
  BY DEF Call
<1>3. QED
  BY <1>1, <1>2 DEF Method

(* A refusal touches nothing but the reply. *)
LEMMA RefusedStep ==
  ASSUME AxtInv, NEW type \in {"status", "process", "void"}, Refused(type)
  PROVE  AxtInv' /\ UNCHANGED <<abiVars, dspVars>>
  BY Replies DEF AxtInv, AxtTypeOK, LifecycleMatchesDsp, ViewsDieWithTheCall,
                 Refused, abiVars, dspVars

(* A method of the author that answers without a change of state. *)
LEMMA EnteredStep ==
  ASSUME AxtInv, NEW method \in Call, NEW answer \in {"none", "error", "refused"},
         Entered(method, answer)
  PROVE  AxtInv'
  BY DEF AxtInv, AxtTypeOK, LifecycleMatchesDsp, ViewsDieWithTheCall, Entered, abiVars

(* A caught panic leaves a poisoned instance around a broken plug-in. *)
LEMMA PanickedStep ==
  ASSUME AxtInv, NEW type \in {"status", "process", "void"}, NEW method \in Call,
         inst \in Initialised, Panicked(type, method), views' \in BOOLEAN
  PROVE  AxtInv'
<1> USE DEF Panicked
<1>1. AxtTypeOK'
  BY Replies DEF AxtInv, AxtTypeOK
<1>2. LifecycleMatchesDsp'
  BY DEF AxtInv, LifecycleMatchesDsp
<1>3. ViewsDieWithTheCall'
  BY DEF ViewsDieWithTheCall
<1>4. QED
  BY <1>1, <1>2, <1>3 DEF AxtInv

LEMMA AxtInitInv == AxtInit => AxtInv
<1> SUFFICES ASSUME AxtInit PROVE AxtInv
  OBVIOUS
<1>1. axtConfig \in Sizes
  BY SizeAssumption DEF AxtInit, Sizes
<1>2. AxtTypeOK
  BY <1>1, Calls DEF AxtInit, AxtTypeOK
<1>3. LifecycleMatchesDsp /\ ViewsDieWithTheCall
  BY DEF AxtInit, LifecycleMatchesDsp, ViewsDieWithTheCall
<1>4. QED
  BY <1>2, <1>3 DEF AxtInv

LEMMA CreateStep == ASSUME AxtInv, Create PROVE AxtInv'
  BY Calls DEF AxtInv, AxtTypeOK, LifecycleMatchesDsp, ViewsDieWithTheCall, Create

LEMMA InitEntryStep == ASSUME AxtInv, InitEntry PROVE AxtInv'
<1>1. CASE Refused("status")
  BY <1>1, RefusedStep
<1>2. CASE inst = "Created" /\ inst' = "Inactive" /\ reply' = "ok"
           /\ UNCHANGED <<config, axtConfig, views, dspVars>>
  BY <1>2 DEF AxtInv, AxtTypeOK, LifecycleMatchesDsp, ViewsDieWithTheCall, dspVars
<1>3. QED
  BY <1>1, <1>2 DEF InitEntry, RefusedPoisoned

LEMMA ActivateEntryStep ==
  ASSUME AxtInv, NEW n \in Sizes \cup {0}, ActivateEntry(n) PROVE AxtInv'
<1>0. n \in Frames
  BY SizeAssumption DEF Sizes, Frames
<1>1. CASE Refused("status")
  BY <1>1, RefusedStep
<1>2. CASE inst \in Initialised /\ Panicked("status", <<"consult", 0>>) /\ UNCHANGED views
  BY <1>2, Calls, PanickedStep DEF AxtInv, AxtTypeOK
<1>3. CASE \/ Entered(<<"consult", 0>>, "refused")
           \/ Entered(<<"consult", 0>>, "error")
  BY <1>3, Calls, EnteredStep
<1>4. ASSUME inst = "Inactive", n # 0,
             inst' = "Active", config' = n, axtConfig' = n, views' = FALSE,
             sized' = n, call' = <<"prepare", n>>, reply' = "ok", UNCHANGED dsp
      PROVE  AxtInv'
  BY <1>0, <1>4, Calls DEF AxtInv, AxtTypeOK, LifecycleMatchesDsp, ViewsDieWithTheCall
<1>5. ASSUME inst = "Inactive", n # 0,
             sized' = 0, call' = <<"prepare", n>>, reply' = "error", UNCHANGED <<abiVars, dsp>>
      PROVE  AxtInv'
  BY <1>0, <1>5, Calls DEF AxtInv, AxtTypeOK, LifecycleMatchesDsp, ViewsDieWithTheCall, abiVars
<1>6. ASSUME inst = "Inactive", n # 0,
             inst' = "Poisoned", dsp' = "broken", sized' = 0, call' = <<"prepare", n>>,
             reply' = "panic", UNCHANGED <<config, axtConfig, views>>
      PROVE  AxtInv'
  BY <1>0, <1>6, Calls DEF AxtInv, AxtTypeOK, LifecycleMatchesDsp, ViewsDieWithTheCall
<1>7. QED
  BY <1>1, <1>2, <1>3, <1>4, <1>5, <1>6 DEF ActivateEntry, RefusedPoisoned

LEMMA DeactivateEntryStep == ASSUME AxtInv, DeactivateEntry PROVE AxtInv'
<1>1. CASE Refused("void")
  BY <1>1, RefusedStep
<1>2. CASE inst = "Active" /\ inst' = "Inactive" /\ config' = 0 /\ reply' = "none"
           /\ UNCHANGED <<axtConfig, views, dspVars>>
  BY <1>2 DEF AxtInv, AxtTypeOK, LifecycleMatchesDsp, ViewsDieWithTheCall, dspVars
<1>3. QED
  BY <1>1, <1>2 DEF DeactivateEntry

LEMMA StartEntryStep == ASSUME AxtInv, StartEntry PROVE AxtInv'
<1>1. CASE Refused("status")
  BY <1>1, RefusedStep
<1>2. CASE inst = "Active" /\ inst' = "Processing" /\ dsp' = "running"
           /\ call' = <<"activate", 0>> /\ reply' = "ok"
           /\ UNCHANGED <<config, axtConfig, views, sized>>
  BY <1>2, Calls DEF AxtInv, AxtTypeOK, LifecycleMatchesDsp, ViewsDieWithTheCall
<1>3. CASE Entered(<<"activate", 0>>, "error")
  BY <1>3, Calls, EnteredStep
<1>4. CASE inst = "Active" /\ Panicked("status", <<"activate", 0>>) /\ UNCHANGED views
  BY <1>4, Calls, PanickedStep DEF AxtInv, AxtTypeOK
<1>5. QED
  BY <1>1, <1>2, <1>3, <1>4 DEF StartEntry

LEMMA StopEntryStep == ASSUME AxtInv, StopEntry PROVE AxtInv'
<1>1. CASE Refused("void")
  BY <1>1, RefusedStep
<1>2. CASE inst = "Processing" /\ inst' = "Active" /\ dsp' = "stopped"
           /\ call' = <<"deactivate", 0>> /\ reply' = "none"
           /\ UNCHANGED <<config, axtConfig, views, sized>>
  BY <1>2, Calls DEF AxtInv, AxtTypeOK, LifecycleMatchesDsp, ViewsDieWithTheCall
<1>3. CASE inst = "Processing" /\ Panicked("void", <<"deactivate", 0>>) /\ UNCHANGED views
  BY <1>3, Calls, PanickedStep DEF AxtInv, AxtTypeOK
<1>4. QED
  BY <1>1, <1>2, <1>3 DEF StopEntry

LEMMA ResetEntryStep == ASSUME AxtInv, ResetEntry PROVE AxtInv'
<1>1. CASE Refused("void")
  BY <1>1, RefusedStep
<1>2. CASE Entered(<<"reset", 0>>, "none")
  BY <1>2, Calls, EnteredStep
<1>3. CASE inst = "Active" /\ Panicked("void", <<"reset", 0>>) /\ UNCHANGED views
  BY <1>3, Calls, PanickedStep DEF AxtInv, AxtTypeOK
<1>4. QED
  BY <1>1, <1>2, <1>3 DEF ResetEntry

LEMMA ProcessEntryStep ==
  ASSUME AxtInv, NEW f \in Frames, ProcessEntry(f) PROVE AxtInv'
<1>1. CASE Refused("process")
  BY <1>1, RefusedStep
<1>2. CASE reply' = "continue" /\ UNCHANGED <<abiVars, dspVars>>
  BY <1>2 DEF AxtInv, AxtTypeOK, LifecycleMatchesDsp, ViewsDieWithTheCall, abiVars, dspVars
<1>3. CASE reply' = "error" /\ views' = FALSE /\ UNCHANGED <<inst, config, axtConfig, dspVars>>
  BY <1>3 DEF AxtInv, AxtTypeOK, LifecycleMatchesDsp, ViewsDieWithTheCall, dspVars
<1>4. CASE call' = <<"process", f>> /\ reply' \in {"continue", "error"} /\ views' = FALSE
           /\ UNCHANGED <<inst, config, axtConfig, dsp, sized>>
  BY <1>4, Calls DEF AxtInv, AxtTypeOK, LifecycleMatchesDsp, ViewsDieWithTheCall
<1>5. CASE inst = "Processing" /\ Panicked("process", <<"process", f>>) /\ views' = TRUE
  BY <1>5, Calls, PanickedStep
<1>6. QED
  BY <1>1, <1>2, <1>3, <1>4, <1>5 DEF ProcessEntry, RefusedPoisoned

LEMMA ConsultEntryStep == ASSUME AxtInv, ConsultEntry PROVE AxtInv'
<1>1. CASE Refused("void")
  BY <1>1, RefusedStep
<1>2. CASE Entered(<<"consult", 0>>, "none")
  BY <1>2, Calls, EnteredStep
<1>3. CASE inst \in Initialised /\ Panicked("void", <<"consult", 0>>) /\ UNCHANGED views
  BY <1>3, Calls, PanickedStep DEF AxtInv, AxtTypeOK
<1>4. QED
  BY <1>1, <1>2, <1>3 DEF ConsultEntry

LEMMA DestroyEntryStep == ASSUME AxtInv, DestroyEntry PROVE AxtInv'
<1>1. AxtTypeOK'
  BY Calls DEF AxtInv, AxtTypeOK, DestroyEntry
<1>2. LifecycleMatchesDsp' /\ ViewsDieWithTheCall'
  BY DEF AxtInv, LifecycleMatchesDsp, ViewsDieWithTheCall, DestroyEntry
<1>3. QED
  BY <1>1, <1>2 DEF AxtInv

LEMMA DestroyFieldsStep == ASSUME AxtInv, DestroyFields PROVE AxtInv'
  BY Calls DEF AxtInv, AxtTypeOK, LifecycleMatchesDsp, ViewsDieWithTheCall, DestroyFields

LEMMA AxtNextInv == AxtInv /\ AxtNext => AxtInv'
  BY CreateStep, InitEntryStep, ActivateEntryStep, DeactivateEntryStep, StartEntryStep,
     StopEntryStep, ResetEntryStep, ProcessEntryStep, ConsultEntryStep, DestroyEntryStep,
     DestroyFieldsStep
  DEF AxtNext

-----------------------------------------------------------------------------
(* A record of the host stays one when a field is set. *)
HostType == [state : HostStates, config : Sizes \cup {0}, poisoned : BOOLEAN, dropping : BOOLEAN]

(* Every step of the runtime is one of the plug-in's entries. *)
LEMMA HostStepsAreEntries == TypeOK /\ Next => AxtNext
<1> SUFFICES ASSUME TypeOK, Next PROVE AxtNext
  OBVIOUS
<1>1. ASSUME NEW n \in Sizes, HostActivate(n) PROVE AxtNext
  BY <1>1 DEF HostActivate, AxtNext
<1>2. ASSUME NEW f \in Sizes, HostProcess(f) PROVE AxtNext
  <2>1. f \in Frames
    BY SizeAssumption DEF Sizes, Frames
  <2>2. QED
    BY <1>2, <2>1 DEF HostProcess, AxtNext
<1>3. CASE HostCreate \/ HostInit \/ HostStart \/ HostDeactivate \/ HostStop
  BY <1>3 DEF HostCreate, HostInit, HostStart, HostDeactivate, HostStop, AxtNext
<1>4. CASE HostReset \/ HostConsult \/ Foreign
  BY <1>4 DEF HostReset, HostConsult, Foreign, AxtNext
<1>5. CASE DropStop \/ DropDeactivate \/ DropDestroy \/ DropFields
  BY <1>5 DEF DropStop, DropDeactivate, DropDestroy, DropFields, AxtNext
<1>6. QED
  BY <1>1, <1>2, <1>3, <1>4, <1>5 DEF Next

LEMMA BelievedTable ==
  /\ Believed["None"] = "Absent" /\ Believed["Destroying"] = "Dropping"
  /\ Believed["Gone"] = "Destroyed" /\ Believed["Created"] = "Created"
  /\ Believed["Inactive"] = "Inactive" /\ Believed["Active"] = "Active"
  /\ Believed["Processing"] = "Processing"
  BY DEF Believed, HostStates

LEMMA InitIndInv == Init => IndInv
<1> SUFFICES ASSUME Init PROVE IndInv
  OBVIOUS
<1>1. AxtInv
  BY AxtInitInv DEF Init
<1>2. host \in HostType /\ host.state \in {"None", "Foreign"} /\ ~host.poisoned
  BY DEF Init, HostType, HostStates
<1>3. HostAgrees
  <2>1. inst = "Absent"
    BY DEF Init, AxtInit
  <2>2. QED
    BY <1>2, <2>1, BelievedTable DEF HostAgrees
<1>4. QED
  BY <1>1, <1>2, <1>3 DEF IndInv, AxtInv, TypeOK, HostType

(* The runtime's steps, each with what the entry it calls does to the plug-in. *)
HostGoal == host' \in HostType /\ HostAgrees'

LEMMA HostCreateStep == ASSUME IndInv, HostCreate PROVE HostGoal
  BY BelievedTable DEF IndInv, TypeOK, HostType, HostStates, HostAgrees, HostGoal, HostCreate, Create

LEMMA HostInitStep == ASSUME IndInv, HostInit PROVE HostGoal
<1>1. inst = "Created" \/ inst = "Poisoned"
  BY BelievedTable DEF IndInv, TypeOK, HostAgrees, HostInit
<1>2. CASE inst = "Created"
  <2>1. inst' = "Inactive" /\ reply' = "ok" /\ UNCHANGED <<config, axtConfig>>
    BY <1>2 DEF HostInit, InitEntry, RefusedPoisoned
  <2>2. host' = [host EXCEPT !.state = "Inactive"] /\ host.state = "Created"
    BY <2>1 DEF HostInit
  <2>3. QED
    BY <1>2, <2>1, <2>2, BelievedTable DEF IndInv, TypeOK, HostType, HostStates, HostAgrees, HostGoal
<1>3. CASE inst = "Poisoned"
  <2>1. inst' = "Poisoned" /\ host.state = "Created"
    BY <1>3 DEF HostInit, InitEntry, RefusedPoisoned, Refused, abiVars
  <2>2. host' \in HostType /\ host'.state = "Inactive"
    BY DEF HostInit, IndInv, TypeOK, HostType, HostStates
  <2>3. QED
    BY <2>1, <2>2 DEF HostAgrees, HostGoal
<1>4. QED
  BY <1>1, <1>2, <1>3

LEMMA HostActivateStep ==
  ASSUME IndInv, NEW n \in Sizes, HostActivate(n) PROVE HostGoal
<1> DEFINE active == [host EXCEPT !.state = "Active", !.config = n]
<1>1. host.state = "Inactive" /\ ~host.poisoned /\ host \in HostType /\ n # 0
  BY SizeAssumption DEF HostActivate, Expects, Usable, IndInv, TypeOK, HostType, Sizes
<1>2. inst = "Inactive" \/ inst = "Poisoned"
  BY <1>1, BelievedTable DEF IndInv, HostAgrees
<1>3. \/ inst' = "Active" /\ config' = n /\ axtConfig' = n /\ reply' = "ok"
      \/ inst' = inst /\ reply' \in {"refused", "error"}
      \/ inst' = "Poisoned" /\ reply' = "panic"
  BY <1>1, <1>2, Replies
  DEF HostActivate, ActivateEntry, RefusedPoisoned, Refused, Panicked, Entered, abiVars
<1>4. active \in HostType /\ active.state = "Active" /\ active.config = n /\ ~active.poisoned
  BY <1>1 DEF HostType, HostStates
<1>5. CASE inst' = "Active" /\ config' = n /\ axtConfig' = n /\ reply' = "ok"
  <2>1. host' = active
    BY <1>5 DEF HostActivate, Recorded
  <2>2. QED
    BY <1>4, <1>5, <2>1, BelievedTable DEF HostAgrees, HostGoal
<1>6. CASE inst' = inst /\ reply' \in {"refused", "error"}
  <2>1. host' = host
    BY <1>6 DEF HostActivate, Recorded
  <2>2. QED
    BY <1>1, <1>2, <1>6, <2>1, BelievedTable DEF HostAgrees, HostGoal
<1>7. CASE inst' = "Poisoned" /\ reply' = "panic"
  <2>1. host' = [host EXCEPT !.poisoned = TRUE]
    BY <1>7 DEF HostActivate, Recorded
  <2>2. host' \in HostType
    BY <1>1, <2>1 DEF HostType
  <2>3. QED
    BY <1>7, <2>2 DEF HostAgrees, HostGoal
<1>8. QED
  BY <1>3, <1>5, <1>6, <1>7

LEMMA HostStartStep == ASSUME IndInv, HostStart PROVE HostGoal
<1> DEFINE processing == [host EXCEPT !.state = "Processing"]
<1>1. host.state = "Active" /\ ~host.poisoned /\ host \in HostType
  BY DEF HostStart, Expects, Usable, IndInv, TypeOK, HostType
<1>2. /\ inst = "Active" \/ inst = "Poisoned"
      /\ inst = "Active" => host.config = config /\ host.config = axtConfig
  BY <1>1, BelievedTable DEF IndInv, HostAgrees
<1>3. \/ inst = "Active" /\ inst' = "Processing" /\ reply' = "ok" /\ UNCHANGED <<config, axtConfig>>
      \/ inst' = inst /\ reply' \in {"refused", "error"} /\ UNCHANGED <<config, axtConfig>>
      \/ inst' = "Poisoned" /\ reply' = "panic"
  BY <1>1, <1>2, Replies
  DEF HostStart, StartEntry, Refused, Panicked, Entered, abiVars
<1>4. /\ processing \in HostType /\ processing.state = "Processing"
      /\ processing.config = host.config /\ ~processing.poisoned
  BY <1>1 DEF HostType, HostStates
<1>5. CASE inst = "Active" /\ inst' = "Processing" /\ reply' = "ok" /\ UNCHANGED <<config, axtConfig>>
  <2>1. host' = processing
    BY <1>5 DEF HostStart, Recorded
  <2>2. QED
    BY <1>2, <1>4, <1>5, <2>1, BelievedTable DEF HostAgrees, HostGoal
<1>6. CASE inst' = inst /\ reply' \in {"refused", "error"} /\ UNCHANGED <<config, axtConfig>>
  <2>1. host' = host
    BY <1>6 DEF HostStart, Recorded
  <2>2. QED
    BY <1>1, <1>2, <1>6, <2>1, BelievedTable DEF HostAgrees, HostGoal
<1>7. CASE inst' = "Poisoned" /\ reply' = "panic"
  <2>1. host' = [host EXCEPT !.poisoned = TRUE]
    BY <1>7 DEF HostStart, Recorded
  <2>2. host' \in HostType
    BY <1>1, <2>1 DEF HostType
  <2>3. QED
    BY <1>7, <2>2 DEF HostAgrees, HostGoal
<1>8. QED
  BY <1>3, <1>5, <1>6, <1>7

(* deactivate and stop land, or the instance is poisoned. *)
LEMMA DeactivateLands ==
  ASSUME IndInv, host.state = "Active", DeactivateEntry
  PROVE  inst' = "Inactive" \/ inst' = "Poisoned"
<1>1. inst = "Active" \/ inst = "Poisoned"
  BY BelievedTable DEF IndInv, HostAgrees
<1>2. QED
  BY <1>1 DEF DeactivateEntry, Refused, abiVars

LEMMA StopLands ==
  ASSUME IndInv, host.state = "Processing", StopEntry
  PROVE  \/ inst' = "Poisoned"
         \/ inst' = "Active" /\ host.config = config' /\ host.config = axtConfig'
<1>1. \/ inst = "Poisoned"
      \/ inst = "Processing" /\ host.config = config /\ host.config = axtConfig
  BY BelievedTable DEF IndInv, HostAgrees
<1>2. QED
  BY <1>1 DEF StopEntry, Refused, Panicked, abiVars

(* The host's record after it believes to be inactive or active again. *)
LEMMA BackToInactive ==
  ASSUME host' \in HostType, host'.state = "Inactive", host'.poisoned => inst' = "Poisoned",
         inst' = "Inactive" \/ inst' = "Poisoned"
  PROVE  HostGoal
  BY BelievedTable DEF HostAgrees, HostGoal

LEMMA BackToActive ==
  ASSUME host' \in HostType, host'.state = "Active", host'.poisoned => inst' = "Poisoned",
         \/ inst' = "Poisoned"
         \/ inst' = "Active" /\ host'.config = config' /\ host'.config = axtConfig'
  PROVE  HostGoal
  BY BelievedTable DEF HostAgrees, HostGoal

(* A host that knows of the poison stays with a poisoned instance. *)
LEMMA PoisonStays ==
  ASSUME IndInv, host.state \in Initialised, host.poisoned,
         DeactivateEntry \/ StopEntry
  PROVE  inst' = "Poisoned"
<1>1. inst = "Poisoned"
  BY BelievedTable DEF IndInv, HostAgrees
<1>2. QED
  BY <1>1 DEF DeactivateEntry, StopEntry, Refused, abiVars

LEMMA HostDeactivateStep == ASSUME IndInv, HostDeactivate \/ DropDeactivate PROVE HostGoal
<1>1. host.state = "Active" /\ DeactivateEntry
  BY DEF HostDeactivate, DropDeactivate, Expects
<1>2. host' \in HostType /\ host'.state = "Inactive" /\ host'.poisoned = host.poisoned
  BY DEF HostDeactivate, DropDeactivate, IndInv, TypeOK, HostType, HostStates
<1>3. QED
  BY <1>1, <1>2, DeactivateLands, PoisonStays, BackToInactive

LEMMA HostStopStep == ASSUME IndInv, HostStop \/ DropStop PROVE HostGoal
<1>1. host.state = "Processing" /\ StopEntry
  BY DEF HostStop, DropStop, Expects
<1>2. /\ host' \in HostType /\ host'.state = "Active" /\ host'.poisoned = host.poisoned
      /\ host'.config = host.config
  BY DEF HostStop, DropStop, IndInv, TypeOK, HostType, HostStates
<1>3. QED
  BY <1>1, <1>2, StopLands, PoisonStays, BackToActive

(* reset, process and the consultations leave the lifecycle or poison it. *)
LEMMA HostKeepsStep ==
  ASSUME IndInv, UNCHANGED host, host.state \in Initialised,
         inst' = "Poisoned" \/ UNCHANGED <<inst, config, axtConfig>>
  PROVE  HostGoal
  BY DEF IndInv, TypeOK, HostType, HostAgrees, HostGoal

LEMMA HostResetStep == ASSUME IndInv, HostReset PROVE HostGoal
<1>1. inst' = "Poisoned" \/ UNCHANGED <<inst, config, axtConfig>>
  BY DEF HostReset, ResetEntry, Refused, Entered, Panicked, abiVars
<1>2. QED
  BY <1>1, HostKeepsStep DEF HostReset

LEMMA HostConsultStep == ASSUME IndInv, HostConsult PROVE HostGoal
<1>1. inst' = "Poisoned" \/ UNCHANGED <<inst, config, axtConfig>>
  BY DEF HostConsult, ConsultEntry, Refused, Entered, Panicked, abiVars
<1>2. QED
  BY <1>1, HostKeepsStep DEF HostConsult

LEMMA HostProcessStep == ASSUME IndInv, NEW f \in Sizes, HostProcess(f) PROVE HostGoal
<1>1. inst' = "Poisoned" \/ UNCHANGED <<inst, config, axtConfig>>
  BY DEF HostProcess, ProcessEntry, RefusedPoisoned, Refused, Panicked, abiVars
<1>2. QED
  BY <1>1, HostKeepsStep DEF HostProcess, Expects

LEMMA DropDestroyStep == ASSUME IndInv, DropDestroy PROVE HostGoal
<1>1. host' \in HostType /\ host'.state = "Destroying"
  BY DEF DropDestroy, IndInv, TypeOK, HostType, HostStates
<1>2. inst' = "Dropping"
  BY DEF DropDestroy, DestroyEntry
<1>3. QED
  BY <1>1, <1>2, BelievedTable DEF HostAgrees, HostGoal

LEMMA DropFieldsStep == ASSUME IndInv, DropFields PROVE HostGoal
<1>1. host' \in HostType /\ host'.state = "Gone"
  BY DEF DropFields, IndInv, TypeOK, HostType, HostStates
<1>2. inst' = "Destroyed"
  BY DEF DropFields, DestroyFields
<1>3. QED
  BY <1>1, <1>2, BelievedTable DEF HostAgrees, HostGoal

LEMMA ForeignStep == ASSUME IndInv, Foreign PROVE HostGoal
  BY DEF Foreign, IndInv, TypeOK, HostType, HostAgrees, HostGoal

LEMMA NextIndInv == IndInv /\ [Next]_vars => IndInv'
<1> SUFFICES ASSUME IndInv, [Next]_vars PROVE IndInv'
  OBVIOUS
<1>1. CASE Next
  <2>1. AxtInv'
    BY <1>1, HostStepsAreEntries, AxtNextInv DEF IndInv, AxtInv, TypeOK
  <2>2. HostGoal
    BY <1>1, HostCreateStep, HostInitStep, HostActivateStep, HostStartStep, HostDeactivateStep,
       HostStopStep, HostResetStep, HostConsultStep, HostProcessStep, DropDestroyStep,
       DropFieldsStep, ForeignStep
    DEF Next
  <2>3. QED
    BY <2>1, <2>2 DEF IndInv, AxtInv, TypeOK, HostType, HostGoal
<1>2. CASE UNCHANGED vars
  <2>1. AxtInv'
    BY <1>2 DEF IndInv, AxtInv, TypeOK, AxtTypeOK, LifecycleMatchesDsp, ViewsDieWithTheCall,
                vars, axtVars, abiVars, dspVars
  <2>2. HostGoal
    BY <1>2 DEF IndInv, TypeOK, HostType, HostAgrees, HostGoal, vars, axtVars, abiVars
  <2>3. QED
    BY <2>1, <2>2 DEF IndInv, AxtInv, TypeOK, HostType, HostGoal
<1>3. QED
  BY <1>1, <1>2

-----------------------------------------------------------------------------
(* The lifecycle wrapper's state is the state of the author's code, whatever the
   host calls (InstanceState against DauxProcessor). *)
THEOREM HostedIndInv == Spec => []IndInv
  BY InitIndInv, NextIndInv, PTL DEF Spec

(* LoadedPlugin's state and configuration are the plug-in's, or a panic separated
   them (plugin.rs against instance.rs). *)
THEOREM HostedAgrees == Spec => []HostAgrees
<1>1. IndInv => HostAgrees
  BY DEF IndInv
<1>2. QED
  BY <1>1, HostedIndInv, PTL

(* No view of a host's buffers is left behind but by a panic (audio.rs clear). *)
THEOREM HostedViewsDieWithTheCall == Spec => []ViewsDieWithTheCall
<1>1. IndInv => ViewsDieWithTheCall
  BY DEF IndInv
<1>2. QED
  BY <1>1, HostedIndInv, PTL

(* What a poisoned instance answers is never DAUX_ERR_PANIC. *)
LEMMA PoisonedSaysNothing ==
  ASSUME IndInv, Next, inst = "Poisoned"
  PROVE  host'.poisoned = host.poisoned
<1> USE DEF IndInv, TypeOK, HostType
<1>1. ASSUME NEW n \in Sizes, HostActivate(n) PROVE UNCHANGED host
  <2>1. reply' = "refused"
    BY <1>1, Replies DEF HostActivate, ActivateEntry, RefusedPoisoned, Refused
  <2>2. QED
    BY <1>1, <2>1 DEF HostActivate, Recorded
<1>2. ASSUME HostStart PROVE UNCHANGED host
  <2>1. reply' = "refused"
    BY <1>2, Replies DEF HostStart, StartEntry, Refused
  <2>2. QED
    BY <1>2, <2>1 DEF HostStart, Recorded
<1>3. CASE HostCreate \/ HostInit \/ HostDeactivate \/ HostStop
  BY <1>3 DEF HostCreate, HostInit, HostDeactivate, HostStop
<1>4. CASE HostReset \/ HostConsult \/ Foreign \/ \E f \in Sizes : HostProcess(f)
  BY <1>4 DEF HostReset, HostConsult, Foreign, HostProcess
<1>5. CASE DropStop \/ DropDeactivate \/ DropDestroy \/ DropFields
  BY <1>5 DEF DropStop, DropDeactivate, DropDestroy, DropFields
<1>6. QED
  BY <1>1, <1>2, <1>3, <1>4, <1>5 DEF Next

(* A panic the host did not hear of at once it never hears of (plugin.rs record). *)
THEOREM HostedPanicsAreHeardAtOnceOrNever == Spec => PanicsAreHeardAtOnceOrNever
<1>1. IndInv /\ [Next]_vars => [inst = "Poisoned" => host'.poisoned = host.poisoned]_vars
  BY PoisonedSaysNothing
<1>2. QED
  BY <1>1, HostedIndInv, PTL DEF Spec, PanicsAreHeardAtOnceOrNever

-----------------------------------------------------------------------------
(* Each entry enters the author's code as the contract allows, or not at all. *)
LEMMA ContractInit == Init => Contract!Init
  BY DEF Init, AxtInit, Contract!Init

LEMMA NoCallStep ==
  ASSUME UNCHANGED dspVars
  PROVE  UNCHANGED Contract!contractVars
  BY DEF dspVars, Contract!contractVars

(* A panic or an answer without effect, of a method that may be entered at all. *)
LEMMA ConsultAllowed ==
  ASSUME LifecycleMatchesDsp, inst \in Initialised, call' = <<"consult", 0>>,
         dsp' \in {dsp, "broken"}, UNCHANGED sized
  PROVE  Contract!Next
  BY DEF LifecycleMatchesDsp, Contract!Next, Contract!Consult

LEMMA ActivateEntryAllowed ==
  ASSUME IndInv, NEW n \in Sizes \cup {0}, ActivateEntry(n)
  PROVE  [Contract!Next]_(Contract!contractVars)
<1>1. CASE Refused("status")
  BY <1>1, NoCallStep DEF Refused
<1>2. CASE inst \in Initialised /\ Panicked("status", <<"consult", 0>>)
  BY <1>2, ConsultAllowed DEF IndInv, Panicked
<1>3. CASE inst \in Initialised /\ \E a \in {"refused", "error"} : Entered(<<"consult", 0>>, a)
  BY <1>3, ConsultAllowed DEF IndInv, Entered
<1>4. CASE /\ inst = "Inactive" /\ n # 0 /\ call' = <<"prepare", n>>
           /\ dsp' \in {dsp, "broken"} /\ sized' \in {n, 0}
  BY <1>4 DEF IndInv, LifecycleMatchesDsp, Contract!Next, Contract!Prepare
<1>5. QED
  BY <1>1, <1>2, <1>3, <1>4 DEF ActivateEntry, RefusedPoisoned

LEMMA StartEntryAllowed ==
  ASSUME IndInv, StartEntry PROVE [Contract!Next]_(Contract!contractVars)
<1>1. CASE Refused("status")
  BY <1>1, NoCallStep DEF Refused
<1>2. CASE inst = "Active" /\ call' = <<"activate", 0>> /\ UNCHANGED sized
           /\ dsp' \in {"running", dsp, "broken"}
  BY <1>2 DEF IndInv, LifecycleMatchesDsp, Contract!Next, Contract!Activate
<1>3. QED
  BY <1>1, <1>2 DEF StartEntry, Entered, Panicked

LEMMA StopEntryAllowed ==
  ASSUME IndInv, StopEntry PROVE [Contract!Next]_(Contract!contractVars)
<1>1. CASE Refused("void")
  BY <1>1, NoCallStep DEF Refused
<1>2. CASE inst = "Processing" /\ call' = <<"deactivate", 0>> /\ UNCHANGED sized
           /\ dsp' \in {"stopped", "broken"}
  BY <1>2 DEF IndInv, LifecycleMatchesDsp, Contract!Next, Contract!Deactivate
<1>3. QED
  BY <1>1, <1>2 DEF StopEntry, Panicked

LEMMA ResetEntryAllowed ==
  ASSUME IndInv, ResetEntry PROVE [Contract!Next]_(Contract!contractVars)
<1>1. CASE Refused("void")
  BY <1>1, NoCallStep DEF Refused
<1>2. CASE inst = "Active" /\ call' = <<"reset", 0>> /\ UNCHANGED sized
           /\ dsp' \in {dsp, "broken"}
  BY <1>2 DEF IndInv, LifecycleMatchesDsp, Contract!Next, Contract!Reset
<1>3. QED
  BY <1>1, <1>2 DEF ResetEntry, Entered, Panicked

(* The length gate: what passes the limit of the activation fits the preparation. *)
LEMMA ProcessEntryAllowed ==
  ASSUME IndInv, NEW f \in Frames, ProcessEntry(f)
  PROVE  [Contract!Next]_(Contract!contractVars)
<1>1. CASE UNCHANGED dspVars
  BY <1>1, NoCallStep
<1>2. CASE /\ inst = "Processing" /\ f \in 1 .. axtConfig /\ call' = <<"process", f>>
           /\ UNCHANGED sized /\ dsp' \in {dsp, "broken"}
  <2>1. f <= sized /\ dsp = "running"
    BY <1>2 DEF IndInv, TypeOK, AxtTypeOK, Sizes, LifecycleMatchesDsp
  <2>2. f \in Sizes
    BY <1>2, SizeAssumption DEF IndInv, TypeOK, AxtTypeOK, Sizes
  <2>3. Contract!Process(f)
    BY <1>2, <2>1 DEF Contract!Process
  <2>4. QED
    BY <2>2, <2>3 DEF Contract!Next
<1>3. QED
  BY <1>1, <1>2 DEF ProcessEntry, RefusedPoisoned, Refused, Panicked

LEMMA ConsultEntryAllowed ==
  ASSUME IndInv, ConsultEntry PROVE [Contract!Next]_(Contract!contractVars)
<1>1. CASE Refused("void")
  BY <1>1, NoCallStep DEF Refused
<1>2. CASE /\ inst \in Initialised /\ call' = <<"consult", 0>>
           /\ dsp' \in {dsp, "broken"} /\ UNCHANGED sized
  BY <1>2, ConsultAllowed DEF IndInv
<1>3. QED
  BY <1>1, <1>2 DEF ConsultEntry, Entered, Panicked

LEMMA DestroyEntryAllowed ==
  ASSUME IndInv, DestroyEntry PROVE [Contract!Next]_(Contract!contractVars)
<1>1. CASE inst = "Processing"
  BY <1>1 DEF IndInv, LifecycleMatchesDsp, DestroyEntry, Contract!Next, Contract!Deactivate
<1>2. CASE inst # "Processing"
  BY <1>2 DEF DestroyEntry, Contract!contractVars
<1>3. QED
  BY <1>1, <1>2

LEMMA EntriesAllowed == IndInv /\ AxtNext => [Contract!Next]_(Contract!contractVars)
<1> SUFFICES ASSUME IndInv, AxtNext PROVE [Contract!Next]_(Contract!contractVars)
  OBVIOUS
<1>1. CASE Create
  BY <1>1 DEF IndInv, LifecycleMatchesDsp, Create, Contract!Next, Contract!Construct
<1>2. CASE InitEntry \/ DeactivateEntry
  <2>1. UNCHANGED dspVars
    BY <1>2 DEF InitEntry, DeactivateEntry, RefusedPoisoned, Refused
  <2>2. QED
    BY <2>1, NoCallStep
<1>3. CASE DestroyFields
  BY <1>3 DEF IndInv, LifecycleMatchesDsp, DestroyFields, Contract!Next, Contract!Drop
<1>4. QED
  BY <1>1, <1>2, <1>3, ActivateEntryAllowed, StartEntryAllowed, StopEntryAllowed,
     ResetEntryAllowed, ProcessEntryAllowed, ConsultEntryAllowed, DestroyEntryAllowed
  DEF AxtNext

(* The author's code is entered only as DauxProcessor promises, under LoadedPlugin
   and under a host that calls the entries in any order. *)
THEOREM HostedImplementsContract == Spec => ImplementsContract
<1>1. IndInv /\ [Next]_vars => [Contract!Next]_(Contract!contractVars)
  <2> SUFFICES ASSUME IndInv, [Next]_vars PROVE [Contract!Next]_(Contract!contractVars)
    OBVIOUS
  <2>1. CASE Next
    BY <2>1, HostStepsAreEntries, EntriesAllowed DEF IndInv
  <2>2. CASE UNCHANGED vars
    BY <2>2, NoCallStep DEF vars, axtVars
  <2>3. QED
    BY <2>1, <2>2
<1>2. QED
  BY <1>1, ContractInit, HostedIndInv, PTL DEF Spec, ImplementsContract, Contract!Spec

-----------------------------------------------------------------------------
(* The drops are told apart by their length and their first step. *)
LEMMA DropsDiffer ==
  /\ Len(Resting) = 0
  /\ Len(ToCreate) = 1 /\ Head(ToCreate) = "create"
  /\ Len(ToPlugin) = 1 /\ Head(ToPlugin) = "plugin"
  /\ Len(ToFactory) = 1 /\ Head(ToFactory) = "factory"
  /\ Len(ToModule) = 1 /\ Head(ToModule) = "module"
  /\ Len(ToUnmap) = 1 /\ Head(ToUnmap) = "unmap"
  /\ Len(ToBridge) = 1 /\ Head(ToBridge) = "bridge"
  /\ Len(ToModuleBridge) = 2 /\ Head(ToModuleBridge) = "module"
  /\ Len(ToUnmapBridge) = 2 /\ Head(ToUnmapBridge) = "unmap"
  /\ Len(ToDestroy) = 3 /\ Head(ToDestroy) = "destroy"
  BY DEF Resting, ToCreate, ToPlugin, ToFactory, ToModule, ToUnmap, ToBridge, ToModuleBridge,
         ToUnmapBridge, ToDestroy

LEMMA DropsApart ==
  /\ Resting # ToCreate /\ Resting # ToPlugin /\ Resting # ToFactory /\ Resting # ToModule
     /\ Resting # ToUnmap /\ Resting # ToBridge /\ Resting # ToModuleBridge /\ Resting #
     ToUnmapBridge /\ Resting # ToDestroy
  /\ ToCreate # ToPlugin /\ ToCreate # ToFactory /\ ToCreate # ToModule /\ ToCreate #
     ToUnmap /\ ToCreate # ToBridge /\ ToCreate # ToModuleBridge /\ ToCreate # ToUnmapBridge
     /\ ToCreate # ToDestroy
  /\ ToPlugin # ToFactory /\ ToPlugin # ToModule /\ ToPlugin # ToUnmap /\ ToPlugin #
     ToBridge /\ ToPlugin # ToModuleBridge /\ ToPlugin # ToUnmapBridge /\ ToPlugin #
     ToDestroy
  /\ ToFactory # ToModule /\ ToFactory # ToUnmap /\ ToFactory # ToBridge /\ ToFactory #
     ToModuleBridge /\ ToFactory # ToUnmapBridge /\ ToFactory # ToDestroy
  /\ ToModule # ToUnmap /\ ToModule # ToBridge /\ ToModule # ToModuleBridge /\ ToModule #
     ToUnmapBridge /\ ToModule # ToDestroy
  /\ ToUnmap # ToBridge /\ ToUnmap # ToModuleBridge /\ ToUnmap # ToUnmapBridge /\ ToUnmap #
     ToDestroy
  /\ ToBridge # ToModuleBridge /\ ToBridge # ToUnmapBridge /\ ToBridge # ToDestroy
  /\ ToModuleBridge # ToUnmapBridge /\ ToModuleBridge # ToDestroy
  /\ ToUnmapBridge # ToDestroy
<1>1. Resting # ToCreate /\ Resting # ToPlugin /\ Resting # ToFactory /\ Resting # ToModule
      /\ Resting # ToUnmap /\ Resting # ToBridge /\ Resting # ToModuleBridge /\ Resting #
      ToUnmapBridge /\ Resting # ToDestroy
  BY DropsDiffer
<1>2. ToCreate # ToPlugin /\ ToCreate # ToFactory /\ ToCreate # ToModule /\ ToCreate #
      ToUnmap /\ ToCreate # ToBridge /\ ToCreate # ToModuleBridge /\ ToCreate #
      ToUnmapBridge /\ ToCreate # ToDestroy
  BY DropsDiffer
<1>3. ToPlugin # ToFactory /\ ToPlugin # ToModule /\ ToPlugin # ToUnmap /\ ToPlugin #
      ToBridge /\ ToPlugin # ToModuleBridge /\ ToPlugin # ToUnmapBridge /\ ToPlugin #
      ToDestroy
  BY DropsDiffer
<1>4. ToFactory # ToModule /\ ToFactory # ToUnmap /\ ToFactory # ToBridge /\ ToFactory #
      ToModuleBridge /\ ToFactory # ToUnmapBridge /\ ToFactory # ToDestroy
  BY DropsDiffer
<1>5. ToModule # ToUnmap /\ ToModule # ToBridge /\ ToModule # ToModuleBridge /\ ToModule #
      ToUnmapBridge /\ ToModule # ToDestroy
  BY DropsDiffer
<1>6. ToUnmap # ToBridge /\ ToUnmap # ToModuleBridge /\ ToUnmap # ToUnmapBridge /\ ToUnmap #
      ToDestroy
  BY DropsDiffer
<1>7. ToBridge # ToModuleBridge /\ ToBridge # ToUnmapBridge /\ ToBridge # ToDestroy
  BY DropsDiffer
<1>8. ToModuleBridge # ToUnmapBridge /\ ToModuleBridge # ToDestroy
  BY DropsDiffer
<1>9. ToUnmapBridge # ToDestroy
  BY DropsDiffer
<1>10. QED
  BY <1>1, <1>2, <1>3, <1>4, <1>5, <1>6, <1>7, <1>8, <1>9

(* A count moves with the one thread that does. *)
LEMMA OneChanges ==
  ASSUME NEW d \in [Threads -> Drops], NEW e \in [Threads -> Drops], NEW t \in Threads,
         \A u \in Threads : u # t => e[u] = d[u],
         NEW these
  PROVE  Count(e, these) =
           Count(d, these) + (IF e[t] \in these THEN 1 ELSE 0) - (IF d[t] \in these THEN 1 ELSE 0)
<1> DEFINE D == {u \in Threads : d[u] \in these}
           E == {u \in Threads : e[u] \in these}
<1>1. IsFiniteSet(D) /\ IsFiniteSet(E)
  BY FS_Subset, ModuleLifetimeAssumption
<1>2. Cardinality(D) \in Nat /\ Cardinality(E) \in Nat
  BY <1>1, FS_CardinalityType
<1>3. E = IF e[t] \in these THEN D \cup {t} ELSE D \ {t}
  OBVIOUS
<1>4. t \in D <=> d[t] \in these
  OBVIOUS
<1>5. Cardinality(D \cup {t}) = IF t \in D THEN Cardinality(D) ELSE Cardinality(D) + 1
  BY <1>1, FS_AddElement
<1>6. Cardinality(D \ {t}) = IF t \in D THEN Cardinality(D) - 1 ELSE Cardinality(D)
  BY <1>1, FS_RemoveElement
<1>7. Cardinality(E) = Cardinality(D) + (IF e[t] \in these THEN 1 ELSE 0)
                                      - (IF d[t] \in these THEN 1 ELSE 0)
  <2> HIDE DEF D, E
  <2>1. CASE e[t] \in these
    BY <1>2, <1>3, <1>4, <1>5, <2>1
  <2>2. CASE e[t] \notin these
    BY <1>2, <1>3, <1>4, <1>6, <2>2
  <2>3. QED
    BY <2>1, <2>2
<1>8. QED
  BY <1>7 DEF Count

(* A count is a number, and positive where a thread is counted. *)
LEMMA Counts ==
  ASSUME NEW d \in [Threads -> Drops], NEW these
  PROVE  /\ Count(d, these) \in Nat
         /\ \A t \in Threads : d[t] \in these => Count(d, these) > 0
<1> DEFINE D == {u \in Threads : d[u] \in these}
<1>1. IsFiniteSet(D)
  BY FS_Subset, ModuleLifetimeAssumption
<1>2. Cardinality(D) \in Nat
  BY <1>1, FS_CardinalityType
<1>3. \A t \in Threads : t \in D => Cardinality(D) # 0
  BY <1>1, FS_EmptySet
<1>4. QED
  BY <1>2, <1>3 DEF Count

(* What the steps of a thread find before it. *)
LEMMA Heads ==
  ASSUME doing \in [Threads -> Drops], NEW t \in Threads
  PROVE  /\ Rests(t) <=> doing[t] = Resting
         /\ Is(t, "create") <=> doing[t] = ToCreate
         /\ Is(t, "plugin") <=> doing[t] = ToPlugin
         /\ Is(t, "factory") <=> doing[t] = ToFactory
         /\ Is(t, "destroy") <=> doing[t] = ToDestroy
         /\ Is(t, "module") <=> doing[t] \in {ToModule, ToModuleBridge}
         /\ Is(t, "unmap") <=> doing[t] \in {ToUnmap, ToUnmapBridge}
         /\ Is(t, "bridge") <=> doing[t] = ToBridge
<1>1. Rests(t) <=> doing[t] = Resting
  BY DEF Rests, Resting
<1>2. \A step : Is(t, step) <=> doing[t] # Resting /\ Head(doing[t]) = step
  BY <1>1 DEF Is
<1>3. doing[t] \in Drops
  OBVIOUS
<1>4. QED
  BY <1>1, <1>2, <1>3, DropsDiffer DEF Drops

LEMMA Starts ==
  ASSUME doing \in [Threads -> Drops], NEW t \in Threads, Rests(t), NEW s \in Drops, Goes(t, s)
  PROVE  doing' = [doing EXCEPT ![t] = s]
<1>1. s \o <<>> = s
  BY DEF Drops, Resting, ToCreate, ToPlugin, ToFactory, ToModule, ToUnmap, ToBridge,
         ToModuleBridge, ToUnmapBridge, ToDestroy
<1>2. QED
  BY <1>1 DEF Goes

LEMMA Last ==
  ASSUME doing \in [Threads -> Drops], NEW t \in Threads, NEW s \in Drops, Goes(t, s),
         doing[t] \in {ToCreate, ToPlugin, ToFactory, ToModule, ToUnmap, ToBridge}
  PROVE  doing' = [doing EXCEPT ![t] = s]
<1>1. ~Rests(t)
  BY DropsDiffer DEF Rests, Resting
<1>a. \A x : Tail(<<x>>) = <<>>
  OBVIOUS
<1>b. Tail(doing[t]) = <<>>
  BY <1>a DEF ToCreate, ToPlugin, ToFactory, ToModule, ToUnmap, ToBridge
<1>2. s \o <<>> = s
  BY DEF Drops, Resting, ToCreate, ToPlugin, ToFactory, ToModule, ToUnmap, ToBridge,
         ToModuleBridge, ToUnmapBridge, ToDestroy
<1>3. QED
  BY <1>1, <1>b, <1>2 DEF Goes

LEMMA PairIsConcat == ASSUME NEW x, NEW y PROVE <<x>> \o <<y>> = <<x, y>>
<1> DEFINE S == {x, y}
           s == <<x>> \o <<y>>
           r == <<x, y>>
<1>1. s \in Seq(S) /\ Len(s) = 2 /\ s[1] = x /\ s[2] = y
  OBVIOUS
<1>2. r \in Seq(S) /\ Len(r) = 2 /\ r[1] = x /\ r[2] = y
  OBVIOUS
<1>3. \A i \in 1 .. Len(s) : s[i] = r[i]
  <2> HIDE DEF s, r
  <2> QED
    BY <1>1, <1>2
<1>4. s = r
  <2> HIDE DEF s, r, S
  <2> QED
    BY <1>1, <1>2, <1>3, SeqEqual
<1>5. QED
  BY <1>4

LEMMA Goon ==
  ASSUME doing \in [Threads -> Drops], NEW t \in Threads
  PROVE  /\ doing[t] = ToDestroy /\ Goes(t, <<>>) => doing' = [doing EXCEPT ![t] = ToModuleBridge]
         /\ doing[t] = ToModuleBridge /\ Goes(t, <<>>) => doing' = [doing EXCEPT ![t] = ToBridge]
         /\ doing[t] = ToModuleBridge /\ Goes(t, <<"unmap">>) => doing' = [doing EXCEPT ![t] = ToUnmapBridge]
         /\ doing[t] = ToUnmapBridge /\ Goes(t, <<>>) => doing' = [doing EXCEPT ![t] = ToBridge]
<1>1. Tail(ToDestroy) = ToModuleBridge /\ Tail(ToModuleBridge) = ToBridge /\ Tail(ToUnmapBridge) = ToBridge
  BY DEF ToDestroy, ToModuleBridge, ToUnmapBridge, ToBridge
<1>2. <<>> \o ToModuleBridge = ToModuleBridge
  BY DEF ToModuleBridge
<1>5. <<>> \o ToBridge = ToBridge
  BY DEF ToBridge
<1>6. <<"unmap">> \o ToBridge = ToUnmapBridge
  BY PairIsConcat DEF ToUnmapBridge, ToBridge
<1>3. ToDestroy # <<>> /\ ToModuleBridge # <<>> /\ ToUnmapBridge # <<>>
  BY DEF ToDestroy, ToModuleBridge, ToUnmapBridge
<1>4. QED
  BY <1>1, <1>2, <1>3, <1>5, <1>6 DEF Goes, Rests

LEMMA InDrops ==
  /\ Resting \in Drops /\ ToCreate \in Drops /\ ToPlugin \in Drops /\ ToFactory \in Drops
  /\ ToDestroy \in Drops /\ ToModuleBridge \in Drops /\ ToUnmapBridge \in Drops
  /\ ToBridge \in Drops /\ ToModule \in Drops /\ ToUnmap \in Drops
  BY DEF Drops

InFactory(s) == IF s = ToFactory THEN 1 ELSE 0
InModule(s)  == IF s \in CountsModule THEN 1 ELSE 0

(* One thread moves from one drop to another, and the tallies of both Arcs with it. *)
Moves(t, from, to) ==
  /\ doing' \in [Threads -> Drops]
  /\ doing[t] = from /\ doing'[t] = to
  /\ \A u \in Threads : u # t => doing'[u] = doing[u]
  /\ Count(doing, {ToFactory}) \in Nat /\ Count(doing, CountsModule) \in Nat
  /\ from = ToFactory => Count(doing, {ToFactory}) > 0
  /\ from \in CountsModule => Count(doing, CountsModule) > 0
  /\ Count(doing', {ToFactory}) = Count(doing, {ToFactory}) + InFactory(to) - InFactory(from)
  /\ Count(doing', CountsModule) = Count(doing, CountsModule) + InModule(to) - InModule(from)

LEMMA MovesOne ==
  ASSUME doing \in [Threads -> Drops], doing' \in [Threads -> Drops], NEW t \in Threads,
         \A u \in Threads : u # t => doing'[u] = doing[u]
  PROVE  Moves(t, doing[t], doing'[t])
<1>1. Count(doing', {ToFactory}) = Count(doing, {ToFactory})
          + (IF doing'[t] \in {ToFactory} THEN 1 ELSE 0) - (IF doing[t] \in {ToFactory} THEN 1 ELSE 0)
  BY OneChanges
<1>2. Count(doing', CountsModule) = Count(doing, CountsModule)
          + (IF doing'[t] \in CountsModule THEN 1 ELSE 0) - (IF doing[t] \in CountsModule THEN 1 ELSE 0)
  BY OneChanges
<1>3. Count(doing, {ToFactory}) \in Nat /\ (doing[t] = ToFactory => Count(doing, {ToFactory}) > 0)
  BY Counts
<1>4. Count(doing, CountsModule) \in Nat /\ (doing[t] \in CountsModule => Count(doing, CountsModule) > 0)
  BY Counts
<1>5. QED
  BY <1>1, <1>2, <1>3, <1>4 DEF Moves, InFactory, InModule

LEMMA Move ==
  ASSUME LifeType, NEW t \in Threads, NEW from, NEW to \in Drops,
         doing[t] = from, doing' = [doing EXCEPT ![t] = to]
  PROVE  Moves(t, from, to)
<1>1. doing \in [Threads -> Drops]
  BY DEF LifeType
<1>2. /\ doing' \in [Threads -> Drops] /\ doing'[t] = to
      /\ \A u \in Threads : u # t => doing'[u] = doing[u]
  BY <1>1
<1>3. QED
  BY <1>1, <1>2, MovesOne

(* Three parts of the invariant that a step leaves alone if it moves none of the threads
   they speak of, and what it changes of the counts keeps their signs. *)
LEMMA FactoryKept ==
  ASSUME FactoryInv, NEW t \in Threads, NEW from, NEW to, Moves(t, from, to),
         from # ToDestroy, to \notin {ToDestroy, ToModuleBridge, ToUnmapBridge, ToBridge},
         factory'.inside = factory.inside, factory'.bridge = factory.bridge,
         factory'.refs = factory.refs
  PROVE  FactoryInv'
<1>1. \A u \in Threads : doing'[u] = ToDestroy <=> doing[u] = ToDestroy
  BY DEF Moves
<1>2. \A u \in Threads : doing'[u] \in {ToModuleBridge, ToUnmapBridge, ToBridge} =>
                           doing[u] = doing'[u]
  BY DEF Moves
<1>3. QED
  BY <1>1, <1>2 DEF FactoryInv

LEMMA ModuleKept ==
  ASSUME ModuleInv, NEW t \in Threads, NEW from, NEW to, Moves(t, from, to),
         to \notin {ToUnmap, ToUnmapBridge}, moduleRefs \in Nat, moduleRefs' \in Nat,
         moduleRefs' > 0 => moduleRefs > 0, mapped' = mapped
  PROVE  ModuleInv'
<1>1. \A u \in Threads : doing'[u] \in {ToUnmap, ToUnmapBridge} => doing[u] = doing'[u]
  BY DEF Moves
<1>2. QED
  BY <1>1 DEF ModuleInv

LEMMA HeldKept ==
  ASSUME HeldInv, NEW t \in Threads, NEW from, NEW to, Moves(t, from, to),
         from \notin {ToCreate, ToPlugin}, to \notin {ToCreate, ToPlugin},
         host' = host, held' = held,
         ~held /\ host.state \notin {"Foreign", "None", "Gone"} => factory'.handles > 0
  PROVE  HeldInv'
<1>1. \A u \in Threads : doing'[u] \in {ToCreate, ToPlugin} <=> doing[u] \in {ToCreate, ToPlugin}
  BY DEF Moves
<1>2. \A u \in Threads : doing'[u] \in {ToCreate, ToPlugin} => doing'[u] = doing[u]
  BY DEF Moves
<1>3. QED
  BY <1>1, <1>2, ModuleLifetimeAssumption DEF HeldInv

(* What a caller has borrowed counts. *)
LEMMA BorrowedCounts ==
  ASSUME LifeInv
  PROVE  /\ Count(doing, {ToFactory}) \in Nat /\ Count(doing, CountsModule) \in Nat
         /\ Borrowed => moduleRefs > 0
         /\ factory.handles > 0 => factory.refs > 0
<1>1. Count(doing, {ToFactory}) \in Nat /\ Count(doing, CountsModule) \in Nat
  BY Counts DEF LifeInv, LifeType
<1>2. factory.handles > 0 \/ held => factory.refs > 0
  BY <1>1 DEF LifeInv, LifeType, Counted
<1>3. arcs > 0 \/ factory.refs > 0 => moduleRefs > 0
  BY <1>1 DEF LifeInv, LifeType, Counted
<1>4. QED
  BY <1>1, <1>2, <1>3 DEF Borrowed, Usual

LEMMA CloneModuleStep == ASSUME LifeInv, NEW t \in Threads, CloneModule(t) PROVE LifeInv'
<1> USE DEF LifeInv, CloneModule
<1>1. UNCHANGED <<host, mapped, factory, held, doing>>
  BY DEF vars
<1>2. LifeType'
  BY <1>1, ModuleLifetimeAssumption DEF LifeType
<1>3. Counted'
  BY <1>1, BorrowedCounts DEF Counted, LifeType
<1>4. FactoryInv' /\ HeldInv'
  BY <1>1 DEF FactoryInv, HeldInv
<1>5. ModuleInv'
  BY <1>1, BorrowedCounts DEF ModuleInv, LifeType
<1>6. QED
  BY <1>2, <1>3, <1>4, <1>5

LEMMA DropModuleStep == ASSUME LifeInv, NEW t \in Threads, DropModule(t) PROVE LifeInv'
<1> USE DEF LifeInv, DropModule
<1>1. Moves(t, Resting, ToModule)
  <2>1. doing[t] = Resting /\ doing' = [doing EXCEPT ![t] = ToModule]
    BY Heads, Starts, InDrops DEF LifeType, ToModule
  <2>2. QED
    BY <2>1, Move, InDrops
<1>2. UNCHANGED <<host, mapped, moduleRefs, factory, held>>
  BY DEF vars
<1>3. LifeType'
  BY <1>1, <1>2, ModuleLifetimeAssumption DEF LifeType, Moves
<1>4. Counted'
  BY <1>1, <1>2, DropsApart DEF Counted, LifeType, Moves, InFactory, InModule, CountsModule
<1>5. FactoryInv'
  BY <1>1, <1>2, DropsApart, FactoryKept
<1>6. ModuleInv'
  BY <1>1, <1>2, DropsApart, ModuleKept DEF LifeType
<1>7. HeldInv'
  BY <1>1, <1>2, DropsApart, HeldKept DEF HeldInv
<1>8. QED
  BY <1>3, <1>4, <1>5, <1>6, <1>7

LEMMA CreateFactoryStep == ASSUME LifeInv, CreateFactory PROVE LifeInv'
<1> USE DEF LifeInv, CreateFactory
<1>1. UNCHANGED <<host, mapped, moduleRefs, held, doing>>
  BY DEF vars
<1>2. factory.refs = 0 /\ factory.handles = 0 /\ ~held
  BY BorrowedCounts DEF FactoryInv, LifeType, Counted
<1>3. factory'.inside = "live" /\ factory'.bridge /\ factory'.refs = 1 /\ factory'.handles = 1
  OBVIOUS
<1>4. LifeType'
  BY <1>1, ModuleLifetimeAssumption DEF LifeType
<1>5. Counted'
  BY <1>1, <1>2, <1>3, BorrowedCounts DEF Counted, LifeType
<1>6. FactoryInv'
  BY <1>1, <1>3 DEF FactoryInv
<1>7. ModuleInv'
  BY <1>1 DEF ModuleInv
<1>8. HeldInv'
  BY <1>1, <1>2 DEF HeldInv, LifeType
<1>9. QED
  BY <1>4, <1>5, <1>6, <1>7, <1>8

LEMMA RefuseFactoryStep ==
  ASSUME LifeInv, NEW made \in BOOLEAN, RefuseFactory(made)
  PROVE  LifeInv'
<1> USE DEF LifeInv, RefuseFactory
<1>1. Moves(MainThread, Resting, ToModule)
  <2>1. doing[MainThread] = Resting /\ doing' = [doing EXCEPT ![MainThread] = ToModule]
    BY Heads, Starts, InDrops, ModuleLifetimeAssumption DEF LifeType, ToModule
  <2>2. QED
    BY <2>1, Move, InDrops, ModuleLifetimeAssumption
<1>2. UNCHANGED <<host, mapped, moduleRefs, held>>
  BY DEF vars
<1>3. /\ factory' \in [inside : {"none", "live", "destroyed"}, bridge : BOOLEAN,
                       refs : Nat, handles : 0 .. MaxArcs]
      /\ factory'.inside # "live" /\ factory'.refs = factory.refs
      /\ factory'.handles = factory.handles
  BY DEF LifeType
<1>4. LifeType'
  BY <1>1, <1>2, <1>3, ModuleLifetimeAssumption DEF LifeType, Moves
<1>5. Counted'
  BY <1>1, <1>2, <1>3, DropsApart DEF Counted, LifeType, Moves, InFactory, InModule, CountsModule
<1>6. FactoryInv'
  <2>1. factory'.refs = 0
    BY <1>3 DEF FactoryInv, LifeType
  <2>2. \A u \in Threads : doing'[u] \notin {ToDestroy, ToModuleBridge, ToUnmapBridge, ToBridge}
    BY <1>1, DropsApart DEF FactoryInv, Moves
  <2>3. QED
    BY <1>3, <2>1, <2>2 DEF FactoryInv
<1>7. ModuleInv'
  BY <1>1, <1>2, DropsApart, ModuleKept, ModuleLifetimeAssumption DEF LifeType
<1>8. HeldInv'
  BY <1>1, <1>2, <1>3, DropsApart, HeldKept, ModuleLifetimeAssumption DEF HeldInv
<1>9. QED
  BY <1>4, <1>5, <1>6, <1>7, <1>8

LEMMA CloneFactoryStep == ASSUME LifeInv, NEW t \in Threads, CloneFactory(t) PROVE LifeInv'
<1> USE DEF LifeInv, CloneFactory
<1>1. UNCHANGED <<host, mapped, moduleRefs, arcs, held, doing>>
  BY DEF vars
<1>2. /\ factory'.inside = factory.inside /\ factory'.bridge = factory.bridge
      /\ factory'.refs = factory.refs + 1 /\ factory'.handles = factory.handles + 1
      /\ factory.refs > 0
  BY BorrowedCounts, ModuleLifetimeAssumption DEF LifeType
<1>3. LifeType'
  <2>1. factory' \in [inside : {"none", "live", "destroyed"}, bridge : BOOLEAN,
                      refs : Nat, handles : 0 .. MaxArcs]
    <3>1. factory.handles + 1 \in 0 .. MaxArcs /\ factory.refs + 1 \in Nat
      BY ModuleLifetimeAssumption DEF LifeType
    <3>2. factory' = [factory EXCEPT !.handles = factory.handles + 1, !.refs = factory.refs + 1]
      BY DEF LifeType
    <3>3. QED
      BY <3>1, <3>2 DEF LifeType
  <2>2. QED
    BY <1>1, <2>1 DEF LifeType
<1>4. Counted'
  BY <1>1, <1>2, BorrowedCounts DEF Counted, LifeType
<1>5. FactoryInv'
  BY <1>1, <1>2 DEF FactoryInv, LifeType
<1>6. ModuleInv'
  BY <1>1 DEF ModuleInv
<1>7. HeldInv'
  BY <1>1, <1>2 DEF HeldInv, LifeType
<1>8. QED
  BY <1>3, <1>4, <1>5, <1>6, <1>7

LEMMA DropFactoryStep == ASSUME LifeInv, NEW t \in Threads, DropFactory(t) PROVE LifeInv'
<1> USE DEF LifeInv, DropFactory
<1>1. Moves(t, Resting, ToFactory)
  <2>1. doing[t] = Resting /\ doing' = [doing EXCEPT ![t] = ToFactory]
    BY Heads, Starts, InDrops DEF LifeType, ToFactory
  <2>2. QED
    BY <2>1, Move, InDrops
<1>2. UNCHANGED <<host, mapped, moduleRefs, arcs, held>>
  BY DEF vars
<1>3. /\ factory'.inside = factory.inside /\ factory'.bridge = factory.bridge
      /\ factory'.refs = factory.refs /\ factory'.handles = factory.handles - 1
      /\ factory.handles > 0
  BY ModuleLifetimeAssumption DEF LifeType
<1>4. LifeType'
  <2>1. factory' \in [inside : {"none", "live", "destroyed"}, bridge : BOOLEAN,
                      refs : Nat, handles : 0 .. MaxArcs]
    BY <1>3, ModuleLifetimeAssumption DEF LifeType
  <2>2. QED
    BY <1>1, <1>2, <2>1 DEF LifeType, Moves
<1>5. Counted'
  BY <1>1, <1>2, <1>3, DropsApart DEF Counted, LifeType, Moves, InFactory, InModule, CountsModule
<1>6. FactoryInv'
  BY <1>1, <1>3, DropsApart, FactoryKept
<1>7. ModuleInv'
  BY <1>1, <1>2, DropsApart, ModuleKept DEF LifeType
<1>8. HeldInv'
  <2>1. ~held /\ host.state \notin {"Foreign", "None", "Gone"} => Creating
    BY Heads, DropsApart, ModuleLifetimeAssumption DEF HeldInv, LifeType, Creating
  <2>2. ~held /\ host.state \notin {"Foreign", "None", "Gone"} => factory'.handles > 0
    BY <1>3, <2>1 DEF LifeType
  <2>3. QED
    BY <1>1, <1>2, <2>2, DropsApart, HeldKept
<1>9. QED
  BY <1>4, <1>5, <1>6, <1>7, <1>8

LEMMA CreatePluginStep == ASSUME TypeOK, LifeInv, CreatePlugin PROVE LifeInv'
<1> USE DEF LifeInv, CreatePlugin
<1>1. Moves(MainThread, Resting, ToCreate)
  <2>1. /\ doing[MainThread] = Resting
        /\ doing' = [doing EXCEPT ![MainThread] = ToCreate]
    BY Heads, Starts, InDrops, ModuleLifetimeAssumption DEF LifeType, ToCreate
  <2>2. QED
    BY <2>1, Move, InDrops, ModuleLifetimeAssumption
<1>2. host.state = "None" /\ host'.state = "Created" /\ UNCHANGED <<mapped, moduleRefs, arcs, factory, held>>
  BY DEF HostCreate, TypeOK
<1>3. LifeType'
  BY <1>1, <1>2, ModuleLifetimeAssumption DEF LifeType, Moves
<1>4. Counted'
  BY <1>1, <1>2, DropsApart DEF Counted, LifeType, Moves, InFactory, InModule, CountsModule
<1>5. FactoryInv'
  BY <1>1, <1>2, DropsApart, FactoryKept, ModuleLifetimeAssumption
<1>6. ModuleInv'
  BY <1>1, <1>2, DropsApart, ModuleKept, ModuleLifetimeAssumption DEF LifeType
<1>7. HeldInv'
  <2>1. ~held /\ \A u \in Threads : doing[u] # ToCreate /\ doing[u] # ToPlugin
    BY <1>2, ModuleLifetimeAssumption DEF HeldInv
  <2>2. \A u \in Threads : doing'[u] # ToPlugin /\ (doing'[u] = ToCreate => u = MainThread)
    BY <1>1, <2>1, DropsApart DEF Moves
  <2>3. doing'[MainThread] = ToCreate
    BY <1>1 DEF Moves
  <2>4. factory.handles > 0
    OBVIOUS
  <2>5. QED
    BY <1>2, <2>1, <2>2, <2>3, <2>4 DEF HeldInv
<1>8. QED
  BY <1>3, <1>4, <1>5, <1>6, <1>7

LEMMA InitPluginStep == ASSUME TypeOK, LifeInv, InitPlugin PROVE LifeInv'
<1> USE DEF LifeInv, InitPlugin
<1>1. MainThread \in Threads /\ doing[MainThread] = ToCreate
  BY Heads, ModuleLifetimeAssumption DEF LifeType
<1>2. host.state = "Created" /\ host'.state = "Inactive" /\ UNCHANGED <<mapped, moduleRefs, arcs>>
  BY DEF HostInit, TypeOK
<1>3. ~held /\ factory.handles > 0 /\ factory.refs > 0
  BY <1>2, BorrowedCounts DEF HeldInv
<1>4. \A u \in Threads : u # MainThread => doing[u] # ToCreate /\ doing[u] # ToPlugin
  BY <1>2 DEF HeldInv
<1>5. ASSUME held', factory'.inside = factory.inside, factory'.bridge = factory.bridge,
             factory'.refs = factory.refs + 1, factory'.handles = factory.handles,
             factory' \in [inside : {"none", "live", "destroyed"}, bridge : BOOLEAN,
                           refs : Nat, handles : 0 .. MaxArcs],
             held' \in BOOLEAN
      PROVE  LifeInv'
  <2>1. Moves(MainThread, ToCreate, Resting)
    <3>1. doing' = [doing EXCEPT ![MainThread] = Resting]
      BY <1>1, <1>5, Last, InDrops DEF LifeType, Resting
    <3>2. QED
      BY <1>1, <3>1, Move, InDrops
  <2>2. LifeType'
    BY <1>2, <1>5, <2>1 DEF LifeType, Moves
  <2>3. Counted'
    BY <1>2, <1>3, <1>5, <2>1, DropsApart
       DEF Counted, LifeType, Moves, InFactory, InModule, CountsModule
  <2>4. FactoryInv'
    <3>1. \A u \in Threads : doing'[u] \in {ToDestroy, ToModuleBridge, ToUnmapBridge, ToBridge}
                               => doing'[u] = doing[u]
      BY <2>1, DropsApart DEF Moves
    <3>2. QED
      BY <1>3, <1>5, <3>1 DEF FactoryInv, LifeType
  <2>5. ModuleInv'
    BY <1>1, <1>2, <2>1, DropsApart, ModuleKept DEF LifeType
  <2>6. HeldInv'
    <3>1. \A u \in Threads : doing'[u] # ToPlugin /\ doing'[u] # ToCreate
      BY <1>4, <2>1, DropsApart DEF Moves
    <3>2. QED
      BY <1>2, <1>5, <3>1, ModuleLifetimeAssumption DEF HeldInv
  <2>7. QED
    BY <2>2, <2>3, <2>4, <2>5, <2>6
<1>6. ASSUME ~held', held' = held, factory' = factory
      PROVE  LifeInv'
  <2>1. Moves(MainThread, ToCreate, ToPlugin)
    <3>1. doing' = [doing EXCEPT ![MainThread] = ToPlugin]
      BY <1>1, <1>6, Last, InDrops DEF LifeType, ToPlugin
    <3>2. QED
      BY <1>1, <3>1, Move, InDrops
  <2>2. LifeType'
    BY <1>2, <1>6, <2>1 DEF LifeType, Moves
  <2>3. Counted'
    BY <1>2, <1>3, <1>6, <2>1, DropsApart
       DEF Counted, LifeType, Moves, InFactory, InModule, CountsModule
  <2>4. FactoryInv'
    BY <1>1, <1>6, <2>1, DropsApart, FactoryKept
  <2>5. ModuleInv'
    BY <1>1, <1>2, <2>1, DropsApart, ModuleKept DEF LifeType
  <2>6. HeldInv'
    <3>1. doing'[MainThread] = ToPlugin
      BY <2>1 DEF Moves
    <3>2. \A u \in Threads : doing'[u] # ToCreate /\ (doing'[u] = ToPlugin => u = MainThread)
      BY <1>4, <2>1, DropsApart DEF Moves
    <3>3. QED
      BY <1>2, <1>3, <1>6, <3>1, <3>2, ModuleLifetimeAssumption DEF HeldInv
  <2>7. QED
    BY <2>2, <2>3, <2>4, <2>5, <2>6
<1>7. CASE reply' = "ok"
  <2>1. factory' = [factory EXCEPT !.refs = factory.refs + 1] /\ held' = TRUE
    BY <1>7
  <2>2. factory.refs + 1 \in Nat
    BY DEF LifeType
  <2>3. QED
    BY <1>5, <2>1, <2>2 DEF LifeType
<1>8. CASE reply' # "ok"
  BY <1>3, <1>6, <1>8
<1>9. QED
  BY <1>7, <1>8

(* What a caller of a plug-in does leaves it in its hands. *)
LEMMA UsedStates ==
  ASSUME TypeOK, UsePlugin, host.state \in {"Inactive", "Active", "Processing", "Destroying"}
  PROVE  host'.state \in {"Inactive", "Active", "Processing", "Destroying"}
<1>1. CASE HostStart
  BY <1>1 DEF HostStart, Expects, Recorded, TypeOK
<1>2. CASE HostDeactivate
  BY <1>2 DEF HostDeactivate, TypeOK
<1>3. CASE HostStop
  BY <1>3 DEF HostStop, TypeOK
<1>4. CASE HostReset \/ HostConsult \/ \E n \in Sizes : HostProcess(n)
  BY <1>4 DEF HostReset, HostConsult, HostProcess
<1>5. ASSUME NEW n \in Sizes, HostActivate(n)
      PROVE  host'.state \in {"Inactive", "Active", "Processing", "Destroying"}
  BY <1>5 DEF HostActivate, Expects, Recorded, TypeOK
<1>6. QED
  BY <1>1, <1>2, <1>3, <1>4, <1>5 DEF UsePlugin

LEMMA UsePluginStep == ASSUME TypeOK, LifeInv, UsePlugin PROVE LifeInv'
<1> USE DEF LifeInv
<1>1. UNCHANGED <<mapped, moduleRefs, arcs, factory, held, doing>>
  BY DEF UsePlugin, lifeVars
<1>2. LifeType' /\ FactoryInv' /\ ModuleInv'
  BY <1>1 DEF LifeType, FactoryInv, ModuleInv
<1>3. Counted'
  BY <1>1 DEF Counted, Count
<1>4. HeldInv'
  <2>1. held /\ host.state \in {"Inactive", "Active", "Processing", "Destroying"}
    BY DEF UsePlugin, Usual, HeldInv
  <2>2. host'.state \in {"Inactive", "Active", "Processing", "Destroying"}
    BY <2>1, UsedStates
  <2>3. \A u \in Threads : doing[u] # ToPlugin /\ doing[u] # ToCreate
    BY <2>1, Heads DEF UsePlugin, Usual, HeldInv, LifeType
  <2>4. QED
    BY <1>1, <2>1, <2>2, <2>3, ModuleLifetimeAssumption DEF HeldInv
<1>5. QED
  BY <1>2, <1>3, <1>4

LEMMA DropPluginStep == ASSUME LifeInv, NEW t \in Threads, DropPlugin(t) PROVE LifeInv'
<1> USE DEF LifeInv, DropPlugin
<1>1. Moves(t, Resting, ToPlugin)
  <2>1. doing[t] = Resting /\ doing' = [doing EXCEPT ![t] = ToPlugin]
    BY Heads, Starts, InDrops DEF LifeType, ToPlugin
  <2>2. QED
    BY <2>1, Move, InDrops
<1>2. UNCHANGED <<host, mapped, moduleRefs, arcs, factory, held>>
  BY DEF vars
<1>3. LifeType'
  BY <1>1, <1>2 DEF LifeType, Moves
<1>4. Counted'
  BY <1>1, <1>2, DropsApart DEF Counted, LifeType, Moves, InFactory, InModule, CountsModule
<1>5. FactoryInv'
  BY <1>1, <1>2, DropsApart, FactoryKept
<1>6. ModuleInv'
  BY <1>1, <1>2, DropsApart, ModuleKept DEF LifeType
<1>7. HeldInv'
  <2>1. held /\ host.state \in {"Inactive", "Active", "Processing", "Destroying"}
    BY DEF Usual, HeldInv
  <2>2. \A u \in Threads : doing[u] # ToPlugin /\ doing[u] # ToCreate
    BY <2>1, Heads DEF Usual, HeldInv, LifeType
  <2>3. \A u \in Threads : doing'[u] # ToCreate /\ (doing'[u] = ToPlugin => u = t)
    BY <1>1, <2>2, DropsApart DEF Moves
  <2>4. QED
    BY <1>2, <2>1, <2>3, ModuleLifetimeAssumption DEF HeldInv
<1>8. QED
  BY <1>3, <1>4, <1>5, <1>6, <1>7

LEMMA ReleasePluginStep ==
  ASSUME TypeOK, LifeInv, NEW t \in Threads, ReleasePlugin(t)
  PROVE  LifeInv'
<1> USE DEF LifeInv, ReleasePlugin
<1>1. doing[t] = ToPlugin /\ UNCHANGED <<mapped, moduleRefs, arcs, factory>>
  BY Heads DEF LifeType
<1>2. /\ host.state \in {"Inactive", "Active", "Processing", "Destroying"}
      /\ held \/ (t = MainThread /\ host.state \in {"Inactive", "Destroying"} /\ factory.handles > 0)
      /\ \A u \in Threads : doing[u] # ToCreate /\ (doing[u] = ToPlugin => u = t)
  BY <1>1 DEF HeldInv
<1>3. ASSUME DropStop \/ DropDeactivate \/ DropDestroy, UNCHANGED <<held, doing>>
      PROVE  LifeInv'
  <2>1. LifeType' /\ FactoryInv' /\ ModuleInv'
    BY <1>1, <1>3 DEF LifeType, FactoryInv, ModuleInv
  <2>2. Counted'
    BY <1>1, <1>3 DEF Counted, Count
  <2>3. /\ host'.state \in {"Inactive", "Active", "Destroying"}
        /\ host.state = "Inactive" => host'.state = "Destroying"
        /\ host.state # "Destroying"
    BY <1>3 DEF DropStop, DropDeactivate, DropDestroy, TypeOK
  <2>4. HeldInv'
    BY <1>1, <1>2, <1>3, <2>3, DropsApart, ModuleLifetimeAssumption DEF HeldInv
  <2>5. QED
    BY <2>1, <2>2, <2>4
<1>4. ASSUME DropFields, held' = FALSE, Goes(t, IF held THEN <<"factory">> ELSE <<>>)
      PROVE  LifeInv'
  <2> DEFINE to == IF held THEN ToFactory ELSE Resting
  <2>1. Moves(t, ToPlugin, to)
    <3>1. to \in Drops /\ Goes(t, to)
      BY <1>4, InDrops DEF ToFactory, Resting
    <3>2. doing' = [doing EXCEPT ![t] = to]
      BY <1>1, <3>1, Last DEF LifeType
    <3>3. QED
      BY <1>1, <3>1, <3>2, Move
  <2>2. LifeType'
    BY <1>1, <1>4, <2>1 DEF LifeType, Moves
  <2>3. Counted'
    <3>1. CASE held
      BY <1>1, <1>4, <2>1, <3>1, DropsApart
         DEF Counted, LifeType, Moves, InFactory, InModule, CountsModule
    <3>2. CASE ~held
      BY <1>1, <1>4, <2>1, <3>2, DropsApart
         DEF Counted, LifeType, Moves, InFactory, InModule, CountsModule
    <3>3. QED
      BY <3>1, <3>2
  <2>4. FactoryInv'
    BY <1>1, <2>1, DropsApart, FactoryKept
  <2>5. ModuleInv'
    BY <1>1, <2>1, DropsApart, ModuleKept DEF LifeType
  <2>6. HeldInv'
    <3>1. host'.state = "Gone"
      BY <1>4 DEF DropFields, TypeOK
    <3>2. \A u \in Threads : doing'[u] # ToPlugin /\ doing'[u] # ToCreate
      BY <1>2, <2>1, DropsApart DEF Moves
    <3>3. QED
      BY <1>4, <3>1, <3>2 DEF HeldInv
  <2>7. QED
    BY <2>2, <2>3, <2>4, <2>5, <2>6
<1>5. QED
  BY <1>3, <1>4

LEMMA ReleaseFactoryStep == ASSUME LifeInv, NEW t \in Threads, ReleaseFactory(t) PROVE LifeInv'
<1> USE DEF LifeInv, ReleaseFactory
<1> DEFINE to == IF factory.refs = 1 THEN ToDestroy ELSE Resting
<1>1. doing[t] = ToFactory /\ UNCHANGED <<host, mapped, moduleRefs, arcs, held>>
  BY Heads DEF LifeType, vars
<1>2. Moves(t, ToFactory, to)
  <2>1. to \in Drops /\ Goes(t, to)
    BY InDrops DEF ToDestroy, Resting
  <2>2. doing' = [doing EXCEPT ![t] = to]
    BY <1>1, <2>1, Last DEF LifeType
  <2>3. QED
    BY <1>1, <2>1, <2>2, Move
<1>3. factory.refs > 0 /\ factory.inside = "live"
  BY <1>1, <1>2 DEF Counted, LifeType, Moves, FactoryInv
<1>4. /\ factory'.inside = factory.inside /\ factory'.bridge = factory.bridge
      /\ factory'.refs = factory.refs - 1 /\ factory'.handles = factory.handles
  BY DEF LifeType
<1>5. LifeType'
  <2>1. factory.refs - 1 \in Nat
    BY <1>3 DEF LifeType
  <2>2. factory' = [factory EXCEPT !.refs = factory.refs - 1]
    OBVIOUS
  <2>3. factory' \in [inside : {"none", "live", "destroyed"}, bridge : BOOLEAN,
                      refs : Nat, handles : 0 .. MaxArcs]
    BY <2>1, <2>2 DEF LifeType
  <2>4. QED
    BY <1>1, <1>2, <2>3 DEF LifeType, Moves
<1>6. \A u \in Threads : doing[u] \notin {ToDestroy, ToModuleBridge, ToUnmapBridge, ToBridge}
  BY <1>3 DEF FactoryInv
<1>7. Counted' /\ FactoryInv'
  <2>1. CASE factory.refs = 1
    <3>1. Counted'
      BY <1>1, <1>2, <1>4, <2>1, DropsApart
         DEF Counted, LifeType, Moves, InFactory, InModule, CountsModule
    <3>2. /\ doing'[t] = ToDestroy
          /\ \A u \in Threads : u # t =>
               doing'[u] \notin {ToDestroy, ToModuleBridge, ToUnmapBridge, ToBridge}
      BY <1>2, <1>6, <2>1 DEF Moves
    <3>3. factory'.refs = 0 /\ factory'.inside = "live" /\ factory'.bridge
      BY <1>3, <1>4, <2>1 DEF FactoryInv
    <3>4. FactoryInv'
      BY <3>2, <3>3, DropsApart DEF FactoryInv
    <3>5. QED
      BY <3>1, <3>4
  <2>2. CASE factory.refs # 1
    <3>1. factory'.refs > 0 /\ factory.refs - 1 > 0
      BY <1>3, <1>4, <2>2 DEF LifeType
    <3>2. Counted'
      BY <1>1, <1>2, <1>3, <1>4, <2>2, <3>1, DropsApart
         DEF Counted, LifeType, Moves, InFactory, InModule, CountsModule
    <3>3. \A u \in Threads : doing'[u] \notin {ToDestroy, ToModuleBridge, ToUnmapBridge, ToBridge}
      BY <1>2, <1>6, <2>2, DropsApart DEF Moves
    <3>4. FactoryInv'
      BY <1>3, <1>4, <3>1, <3>3 DEF FactoryInv
    <3>5. QED
      BY <3>2, <3>4
  <2>3. QED
    BY <2>1, <2>2
<1>8. ModuleInv'
  BY <1>1, <1>2, DropsApart, ModuleKept DEF LifeType
<1>9. HeldInv'
  <2>1. to \notin {ToCreate, ToPlugin}
    BY DropsApart
  <2>2. ~held /\ host.state \notin {"Foreign", "None", "Gone"} => factory'.handles > 0
    BY <1>4 DEF HeldInv
  <2>3. QED
    BY <1>1, <1>2, <2>1, <2>2, DropsApart, HeldKept
<1>10. QED
  BY <1>5, <1>7, <1>8, <1>9

LEMMA DestroyFactoryStep == ASSUME LifeInv, NEW t \in Threads, DestroyFactory(t) PROVE LifeInv'
<1> USE DEF LifeInv, DestroyFactory
<1>1. doing[t] = ToDestroy /\ UNCHANGED <<host, mapped, moduleRefs, arcs, held>>
  BY Heads DEF LifeType, vars
<1>2. Moves(t, ToDestroy, ToModuleBridge)
  BY <1>1, Goon, Move, InDrops DEF LifeType
<1>3. /\ factory' \in [inside : {"none", "live", "destroyed"}, bridge : BOOLEAN,
                       refs : Nat, handles : 0 .. MaxArcs]
      /\ factory'.inside = "destroyed" /\ factory'.refs = factory.refs
      /\ factory'.handles = factory.handles
  BY DEF LifeType
<1>4. LifeType'
  BY <1>1, <1>2, <1>3 DEF LifeType, Moves
<1>5. Counted'
  BY <1>1, <1>2, <1>3, DropsApart DEF Counted, LifeType, Moves, InFactory, InModule, CountsModule
<1>6. FactoryInv'
  <2>1. \A u \in Threads : doing'[u] # ToDestroy
    BY <1>1, <1>2, DropsApart DEF Moves, FactoryInv
  <2>2. factory'.refs = 0
    BY <1>1, <1>3 DEF FactoryInv
  <2>3. QED
    BY <1>3, <2>1, <2>2 DEF FactoryInv
<1>7. ModuleInv'
  BY <1>1, <1>2, DropsApart, ModuleKept DEF LifeType
<1>8. HeldInv'
  BY <1>1, <1>2, <1>3, DropsApart, HeldKept DEF HeldInv
<1>9. QED
  BY <1>4, <1>5, <1>6, <1>7, <1>8

(* A count of the module is given back, the last one before the image is unmapped. *)
LEMMA ModuleGiven ==
  ASSUME LifeInv, NEW t \in Threads, NEW from, NEW to, Moves(t, from, to),
         \/ from = ToModule /\ to = IF moduleRefs = 1 THEN ToUnmap ELSE Resting
         \/ from = ToModuleBridge /\ to = IF moduleRefs = 1 THEN ToUnmapBridge ELSE ToBridge,
         moduleRefs' = moduleRefs - 1, UNCHANGED <<host, mapped, arcs, factory, held>>
  PROVE  LifeInv'
<1> USE DEF LifeInv
<1>1. /\ from \in CountsModule /\ from \notin {ToFactory, ToDestroy, ToCreate, ToPlugin}
      /\ to \notin CountsModule /\ to \notin {ToFactory, ToDestroy, ToCreate, ToPlugin}
      /\ to \in {ToUnmapBridge, ToBridge} <=> from = ToModuleBridge
      /\ to # ToModuleBridge
  BY DropsApart DEF CountsModule
<1>2. moduleRefs > 0 /\ moduleRefs - 1 \in Nat
  BY <1>1 DEF Moves, Counted, LifeType
<1>3. LifeType'
  BY <1>2 DEF LifeType, Moves
<1>4. Counted'
  BY <1>1, <1>2 DEF Counted, LifeType, Moves, InFactory, InModule
<1>5. FactoryInv'
  <2>1. \A u \in Threads : doing'[u] = ToDestroy <=> doing[u] = ToDestroy
    BY <1>1 DEF Moves
  <2>2. \A u \in Threads : doing'[u] \in {ToModuleBridge, ToUnmapBridge, ToBridge} =>
                             doing[u] \in {ToModuleBridge, ToUnmapBridge, ToBridge}
    BY <1>1 DEF Moves
  <2>3. QED
    BY <2>1, <2>2 DEF FactoryInv
<1>6. ModuleInv'
  <2>1. moduleRefs' > 0 => mapped'
    BY <1>2 DEF ModuleInv, LifeType
  <2>2. ASSUME NEW u \in Threads, doing'[u] \in {ToUnmap, ToUnmapBridge} PROVE moduleRefs' = 0
    <3>1. CASE u = t
      <4>1. to \in {ToUnmap, ToUnmapBridge}
        BY <2>2, <3>1 DEF Moves
      <4>2. moduleRefs = 1
        BY <4>1, DropsApart
      <4>3. QED
        BY <4>2
    <3>2. CASE u # t
      BY <1>2, <2>2, <3>2 DEF Moves, ModuleInv
    <3>3. QED
      BY <3>1, <3>2
  <2>3. QED
    BY <2>1, <2>2 DEF ModuleInv
<1>7. HeldInv'
  BY <1>1, HeldKept DEF HeldInv
<1>8. QED
  BY <1>3, <1>4, <1>5, <1>6, <1>7

LEMMA ReleaseModuleStep == ASSUME LifeInv, NEW t \in Threads, ReleaseModule(t) PROVE LifeInv'
<1> USE DEF LifeInv, ReleaseModule
<1>1. doing[t] \in {ToModule, ToModuleBridge} /\ UNCHANGED <<host, mapped, arcs, factory, held>>
  BY Heads DEF LifeType, vars
<1>2. CASE doing[t] = ToModule
  <2> DEFINE next == IF moduleRefs = 1 THEN ToUnmap ELSE Resting
  <2>1. next \in Drops /\ Goes(t, next)
    BY InDrops DEF ToUnmap, Resting
  <2>2. doing' = [doing EXCEPT ![t] = next]
    BY <1>2, <2>1, Last DEF LifeType
  <2>3. Moves(t, ToModule, next)
    BY <1>2, <2>1, <2>2, Move
  <2>4. QED
    BY <1>1, <2>3, ModuleGiven, DropsApart
<1>3. CASE doing[t] = ToModuleBridge
  <2> DEFINE next == IF moduleRefs = 1 THEN ToUnmapBridge ELSE ToBridge
  <2>1. next \in Drops
    BY InDrops
  <2>2. doing' = [doing EXCEPT ![t] = next]
    BY <1>3, Goon DEF LifeType
  <2>3. Moves(t, ToModuleBridge, next)
    BY <1>3, <2>1, <2>2, Move
  <2>4. QED
    BY <1>1, <2>3, ModuleGiven, DropsApart
<1>4. QED
  BY <1>1, <1>2, <1>3

LEMMA UnmapStep == ASSUME LifeInv, NEW t \in Threads, Unmap(t) PROVE LifeInv'
<1> USE DEF LifeInv, Unmap
<1> DEFINE to == IF doing[t] = ToUnmap THEN Resting ELSE ToBridge
<1>1. doing[t] \in {ToUnmap, ToUnmapBridge} /\ UNCHANGED <<host, moduleRefs, arcs, factory, held>>
  BY Heads DEF LifeType, vars
<1>2. Moves(t, doing[t], to)
  <2>1. to \in Drops
    BY InDrops
  <2>2. doing' = [doing EXCEPT ![t] = to]
    <3>1. CASE doing[t] = ToUnmap
      BY <2>1, <3>1, Last DEF LifeType, Resting
    <3>2. CASE doing[t] = ToUnmapBridge
      BY <3>2, Goon, DropsApart DEF LifeType
    <3>3. QED
      BY <1>1, <3>1, <3>2
  <2>3. QED
    BY <2>1, <2>2, Move
<1>3. /\ doing[t] \notin CountsModule /\ doing[t] \notin {ToFactory, ToDestroy, ToCreate, ToPlugin}
      /\ to \notin CountsModule /\ to \notin {ToFactory, ToDestroy, ToCreate, ToPlugin, ToUnmap,
                                                ToUnmapBridge, ToModuleBridge}
      /\ to = ToBridge => doing[t] = ToUnmapBridge
  BY <1>1, DropsApart DEF CountsModule
<1>4. LifeType'
  BY <1>1, <1>2 DEF LifeType, Moves
<1>5. Counted'
  BY <1>1, <1>2, <1>3 DEF Counted, LifeType, Moves, InFactory, InModule
<1>6. FactoryInv'
  <2>1. \A u \in Threads : doing'[u] = ToDestroy <=> doing[u] = ToDestroy
    BY <1>2, <1>3 DEF Moves
  <2>2. \A u \in Threads : doing'[u] \in {ToModuleBridge, ToUnmapBridge, ToBridge} =>
                             doing[u] \in {ToModuleBridge, ToUnmapBridge, ToBridge}
    BY <1>2, <1>3 DEF Moves
  <2>3. QED
    BY <1>1, <2>1, <2>2 DEF FactoryInv
<1>7. ModuleInv'
  BY <1>1 DEF ModuleInv, LifeType
<1>8. HeldInv'
  BY <1>1, <1>2, <1>3, HeldKept DEF HeldInv
<1>9. QED
  BY <1>4, <1>5, <1>6, <1>7, <1>8

LEMMA DropBridgeStep == ASSUME LifeInv, NEW t \in Threads, DropBridge(t) PROVE LifeInv'
<1> USE DEF LifeInv, DropBridge
<1>1. doing[t] = ToBridge /\ UNCHANGED <<host, mapped, moduleRefs, arcs, held>>
  BY Heads DEF LifeType, vars
<1>2. Moves(t, ToBridge, Resting)
  <2>1. doing' = [doing EXCEPT ![t] = Resting]
    BY <1>1, Last, InDrops DEF LifeType, Resting
  <2>2. QED
    BY <1>1, <2>1, Move, InDrops
<1>3. factory.inside = "destroyed" /\ factory.refs = 0
  BY <1>1 DEF FactoryInv, LifeType
<1>4. /\ factory' \in [inside : {"none", "live", "destroyed"}, bridge : BOOLEAN,
                       refs : Nat, handles : 0 .. MaxArcs]
      /\ factory'.inside = "destroyed" /\ factory'.refs = factory.refs
      /\ factory'.handles = factory.handles
  BY <1>3 DEF LifeType
<1>5. LifeType'
  BY <1>1, <1>2, <1>4 DEF LifeType, Moves
<1>6. Counted'
  BY <1>1, <1>2, <1>4, DropsApart DEF Counted, LifeType, Moves, InFactory, InModule, CountsModule
<1>7. FactoryInv'
  <2>1. \A u \in Threads : doing'[u] # ToDestroy
    BY <1>2, <1>3, DropsApart DEF Moves, FactoryInv
  <2>2. QED
    BY <1>3, <1>4, <2>1 DEF FactoryInv
<1>8. ModuleInv'
  BY <1>1, <1>2, DropsApart, ModuleKept DEF LifeType
<1>9. HeldInv'
  BY <1>1, <1>2, <1>4, DropsApart, HeldKept DEF HeldInv
<1>10. QED
  BY <1>5, <1>6, <1>7, <1>8, <1>9

LEMMA LifeInitInv == LifeInit => LifeInv
<1> SUFFICES ASSUME LifeInit PROVE LifeInv
  OBVIOUS
<1>1. doing \in [Threads -> Drops] /\ \A t \in Threads : doing[t] = Resting
  BY InDrops DEF LifeInit, Resting
<1>2. LifeType
  <2>1. 0 \in 0 .. MaxArcs /\ 1 \in 0 .. MaxArcs
    BY ModuleLifetimeAssumption
  <2>2. /\ mapped = TRUE /\ moduleRefs = 1 /\ arcs = 1 /\ held = FALSE
        /\ factory = [inside |-> "none", bridge |-> FALSE, refs |-> 0, handles |-> 0]
    BY DEF LifeInit
  <2>3. QED
    BY <1>1, <2>1, <2>2 DEF LifeType
<1>3. Count(doing, {ToFactory}) = 0 /\ Count(doing, CountsModule) = 0
  <2>1. /\ {t \in Threads : doing[t] \in {ToFactory}} = {}
        /\ {t \in Threads : doing[t] \in CountsModule} = {}
    BY <1>1, DropsApart DEF CountsModule
  <2>2. QED
    BY <2>1, FS_EmptySet DEF Count
<1>4. Counted
  BY <1>3 DEF LifeInit, Counted
<1>5. FactoryInv /\ ModuleInv
  BY <1>1, DropsApart DEF LifeInit, FactoryInv, ModuleInv
<1>6. HeldInv
  <2>1. host.state \in {"None", "Foreign"}
    BY DEF LifeInit, Init
  <2>2. QED
    BY <1>1, <2>1, DropsApart DEF LifeInit, HeldInv
<1>7. QED
  BY <1>2, <1>4, <1>5, <1>6 DEF LifeInv

LEMMA DropStep == ASSUME TypeOK, LifeInv, NEW t \in Threads, Drop(t) PROVE LifeInv'
  BY ReleasePluginStep, ReleaseFactoryStep, DestroyFactoryStep, ReleaseModuleStep, UnmapStep,
     DropBridgeStep DEF Drop

LEMMA LifeNextInv == TypeOK /\ LifeInv /\ [LifeNext]_allVars => LifeInv'
<1> SUFFICES ASSUME TypeOK, LifeInv, [LifeNext]_allVars PROVE LifeInv'
  OBVIOUS
<1>1. ASSUME NEW made \in BOOLEAN, RefuseFactory(made) PROVE LifeInv'
  BY <1>1, RefuseFactoryStep
<1>2. ASSUME NEW t \in Threads,
             \/ CloneModule(t) \/ DropModule(t) \/ CloneFactory(t) \/ DropFactory(t)
             \/ DropPlugin(t) \/ Drop(t)
      PROVE  LifeInv'
  BY <1>2, CloneModuleStep, DropModuleStep, CloneFactoryStep, DropFactoryStep, DropPluginStep,
     DropStep
<1>3. ASSUME UNCHANGED lifeVars, UNCHANGED host PROVE LifeInv'
  <2>1. UNCHANGED <<mapped, moduleRefs, arcs, factory, held, doing>>
    BY <1>3 DEF lifeVars
  <2>2. LifeType' /\ FactoryInv' /\ ModuleInv' /\ HeldInv'
    BY <1>3, <2>1 DEF LifeInv, LifeType, FactoryInv, ModuleInv, HeldInv
  <2>3. Counted'
    BY <2>1 DEF LifeInv, Counted, Count
  <2>4. QED
    BY <2>2, <2>3 DEF LifeInv
<1>4. Foreign /\ UNCHANGED lifeVars => LifeInv'
  BY <1>3 DEF Foreign
<1>5. UNCHANGED allVars => LifeInv'
  BY <1>3 DEF allVars, vars
<1>6. QED
  BY <1>1, <1>2, <1>4, <1>5, CreateFactoryStep, CreatePluginStep, InitPluginStep, UsePluginStep
     DEF LifeNext

(* Sharing and dropping add nothing to what an instance goes through. *)
LEMMA LifeStepsAreHostSteps == LifeNext => [Next]_vars
<1> SUFFICES ASSUME LifeNext PROVE [Next]_vars
  OBVIOUS
<1>1. CASE CreatePlugin \/ InitPlugin \/ UsePlugin \/ (Foreign /\ UNCHANGED lifeVars)
  BY <1>1 DEF CreatePlugin, InitPlugin, UsePlugin, Next
<1>2. CASE CreateFactory \/ \E made \in BOOLEAN : RefuseFactory(made)
  BY <1>2 DEF CreateFactory, RefuseFactory
<1>3. ASSUME NEW t \in Threads,
             CloneModule(t) \/ DropModule(t) \/ CloneFactory(t) \/ DropFactory(t) \/ DropPlugin(t)
      PROVE  [Next]_vars
  BY <1>3 DEF CloneModule, DropModule, CloneFactory, DropFactory, DropPlugin
<1>4. ASSUME NEW t \in Threads, Drop(t) PROVE [Next]_vars
  BY <1>4 DEF Drop, ReleasePlugin, ReleaseFactory, DestroyFactory, ReleaseModule, Unmap,
              DropBridge, Next
<1>5. QED
  BY <1>1, <1>2, <1>3, <1>4 DEF LifeNext

(* Who holds what adds nothing to what an instance goes through: LoadedPlugin, created and
   dropped under the counts of its factory and module, behaves as it does alone. *)
THEOREM LifeImplementsHosted == LifeSpec => Spec
<1>1. LifeInit => Init
  BY DEF LifeInit
<1>2. [LifeNext]_allVars => [Next]_vars
  BY LifeStepsAreHostSteps DEF allVars
<1>3. QED
  BY <1>1, <1>2, PTL DEF LifeSpec, Spec

(* Each strong count is the number of its holders, on whichever thread the last one goes
   (Arc of AxtModule and of FactoryInner). *)
THEOREM LifeIndInv == LifeSpec => []LifeInv
<1>1. LifeInit => LifeInv
  BY LifeInitInv
<1>2. LifeSpec => []IndInv
  BY LifeImplementsHosted, HostedIndInv, PTL
<1>3. IndInv => TypeOK
  BY DEF IndInv
<1>4. QED
  BY <1>1, <1>2, <1>3, LifeNextInv, PTL DEF LifeSpec

LEMMA DropsAreSequences ==
  \A s \in Drops :
    s \in Seq({"create", "plugin", "factory", "destroy", "module", "unmap", "bridge"})
<1> DEFINE Steps == {"create", "plugin", "factory", "destroy", "module", "unmap", "bridge"}
<1>1. <<>> \in Seq(Steps)
  OBVIOUS
<1>2. \A x \in Steps : <<x>> \in Seq(Steps)
  OBVIOUS
<1>3. \A x, y \in Steps : <<x, y>> \in Seq(Steps)
  OBVIOUS
<1>4. \A x, y, z \in Steps : <<x, y, z>> \in Seq(Steps)
  OBVIOUS
<1>5. /\ Resting \in Seq(Steps) /\ ToCreate \in Seq(Steps) /\ ToPlugin \in Seq(Steps)
      /\ ToFactory \in Seq(Steps) /\ ToBridge \in Seq(Steps) /\ ToModule \in Seq(Steps)
      /\ ToUnmap \in Seq(Steps)
  BY <1>1, <1>2 DEF Resting, ToCreate, ToPlugin, ToFactory, ToBridge, ToModule, ToUnmap
<1>6. /\ ToModuleBridge \in Seq(Steps) /\ ToUnmapBridge \in Seq(Steps)
      /\ ToDestroy \in Seq(Steps)
  BY <1>3, <1>4 DEF ToModuleBridge, ToUnmapBridge, ToDestroy
<1>7. QED
  BY <1>5, <1>6 DEF Drops

LEMMA CountedIsThere == TypeOK /\ LifeInv => WhatIsHeldIsThere
<1> SUFFICES ASSUME TypeOK, LifeInv PROVE WhatIsHeldIsThere
  OBVIOUS
<1> USE DEF LifeInv
<1>1. LifeTypeOK
  BY DropsAreSequences DEF LifeTypeOK, LifeType
<1>2. /\ Count(doing, {ToFactory}) \in Nat /\ Count(doing, CountsModule) \in Nat
      /\ \A t \in Threads : doing[t] \in CountsModule => Count(doing, CountsModule) > 0
  BY Counts DEF LifeType
<1>3. arcs > 0 => mapped
  BY <1>2 DEF Counted, ModuleInv, LifeType
<1>4. factory.handles > 0 => factory.inside = "live"
  BY <1>2 DEF Counted, FactoryInv, LifeType
<1>5. host.state \notin {"Foreign", "None", "Gone"} => factory.inside = "live"
  <2>1. held => factory.refs > 0
    BY <1>2 DEF Counted, LifeType
  <2>2. QED
    BY <1>4, <2>1 DEF HeldInv, FactoryInv
<1>6. factory.inside = "live" => mapped /\ factory.bridge
  <2>1. factory.inside = "live" =>
          factory.bridge /\ (factory.refs > 0 \/ Count(doing, CountsModule) > 0)
    BY <1>2 DEF FactoryInv, CountsModule
  <2>2. factory.refs > 0 \/ Count(doing, CountsModule) > 0 => moduleRefs > 0
    BY <1>2 DEF Counted, LifeType
  <2>3. QED
    BY <2>1, <2>2 DEF ModuleInv
<1>7. QED
  BY <1>1, <1>3, <1>4, <1>5, <1>6 DEF WhatIsHeldIsThere

(* Whatever a caller holds of a module, its factory or its plug-in is there to be called
   until its drop, for any number of threads and handles (factory.rs, module.rs). *)
THEOREM LifeWhatIsHeldIsThere == LifeSpec => []WhatIsHeldIsThere
<1>1. LifeSpec => []IndInv
  BY LifeImplementsHosted, HostedIndInv, PTL
<1>2. IndInv => TypeOK
  BY DEF IndInv
<1>3. QED
  BY <1>1, <1>2, LifeIndInv, CountedIsThere, PTL
=============================================================================
