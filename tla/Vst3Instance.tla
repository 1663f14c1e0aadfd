---------------------------- MODULE Vst3Instance ----------------------------
(***************************************************************************)
(* One VST3 object and its host: daux-format-vst3/src/component.rs, with   *)
(* the panic guard of guard.rs, the view of view.rs, the parameter mirror  *)
(* of params.rs and the state functions of stream.rs, over the lifecycle   *)
(* of PluginInstance.  The host makes one IComponent or IAudioProcessor    *)
(* call at a time; while one of them, process, runs on the audio thread    *)
(* the UI thread goes on calling the controller and the view, and the      *)
(* editor moves parameters.                                                *)
(*                                                                         *)
(* A call that a poisoned object refuses, or that returns at once for      *)
(* another reason, changes nothing and is not a step.                      *)
(***************************************************************************)
EXTENDS PluginInstance, Sequences, SequencesExt

CONSTANTS
  DefaultSize,     \* the block size of fallback_config
  Params,          \* the entries of the ParamTable, none of them read-only
  Values,          \* what a parameter can be set to
  EventCapacity,   \* EVENT_CAPACITY
  BlockSizes,      \* the lengths of the host's blocks
  MaxHeld          \* bound: references the host holds at a time

ASSUME Vst3Assumption ==
  /\ DefaultSize \in 1 .. MaxSize
  /\ Params \in Seq(STRING) /\ Values # {}
  /\ BlockSizes \subseteq Frames
  /\ EventCapacity \in Nat /\ MaxHeld \in Nat \ {0}

VARIABLES
  poison,       \* the component's Poison
  initialised, active, processing, setup,    \* Dsp's own copies of the lifecycle
  at,           \* the call under way: idle, between two steps of it, in a method of the
                \* author that will end ok, with an error or in a panic; aborted
  doing,        \* its entry and argument
  script,       \* what it has still to do
  mirror,       \* the values of the ParamTable, empty until it is built
  pending,      \* pending_params
  params,       \* the plug-in's own values
  events,       \* Dsp.input_events: the parameter changes in it
  sent,         \* Dsp.output_events: those in it
  ui,           \* a controller or editor call of the UI thread between its two stores
  echo,         \* edits the host was told of and has not sent with a block
  refs,         \* Vst3Component.ref_count
  held,         \* the host's references among them
  view,         \* none, made, attached
  viewPoison,   \* the view's Poison
  editor,       \* Ui.editor: none, made, opened, closed, broken by a panic
  torn          \* history: parameters a failed call, a controller state, a full event list
                \* or a host without output changes has left with a mirror that may not be
                \* what the plug-in holds

dspVars   == <<initialised, active, processing, setup>>
callVars  == <<at, doing, script>>
paramVars == <<mirror, pending, params, torn>>
blockVars == <<events, sent>>
uiVars    == <<ui, echo>>
viewVars  == <<view, viewPoison, editor>>
refVars   == <<refs, held>>
vars == <<instanceVars, poison, dspVars, callVars, paramVars, blockVars, uiVars, viewVars,
          refVars>>

Ids     == ToSet(Params)
State   == UNION {[ids -> Values] : ids \in SUBSET Ids}
Nothing == <<"none", 0>>
UiIdle  == <<"idle">>

(* The value of one parameter, and values laid over others. *)
Just(p, v) == [q \in {p} |-> v]
Over(s, t) == [p \in DOMAIN s \cup DOMAIN t |-> IF p \in DOMAIN s THEN s[p] ELSE t[p]]

(* The entries.  consult stands for get_state, which asks the author and changes nothing
   here; the values it saves are the mirror's. *)
Entries ==
  {<<e, 0>> : e \in {"initialize", "terminate", "consult"}}
    \cup {<<e, b>> : e \in {"set_active", "set_processing"}, b \in BOOLEAN}
    \cup {<<"setup_processing", n>> : n \in Sizes} \cup {<<"set_state", s>> : s \in State}
Blocks == {<<"process", f, lanes>> : f \in BlockSizes, lanes \in State}

Init ==
  /\ InstanceInit
  /\ poison = FALSE
  /\ initialised = FALSE /\ active = FALSE /\ processing = FALSE /\ setup = DefaultSize
  /\ at = "idle" /\ doing = Nothing /\ script = <<>>
  /\ mirror = <<>> /\ pending = FALSE /\ params \in [Ids -> Values] /\ torn = {}
  /\ events = <<>> /\ sent = <<>>
  /\ ui = UiIdle /\ echo = <<>>
  /\ refs = 0 /\ held = 0
  /\ view = "none" /\ viewPoison = FALSE /\ editor = "none"

Create ==
  /\ Construct
  /\ refs' = 1 /\ held' = 1
  /\ UNCHANGED <<poison, dspVars, callVars, paramVars, blockVars, uiVars, viewVars>>

-----------------------------------------------------------------------------
(* IPluginBase, IComponent, IAudioProcessor. *)

Each(kind, ids) == [i \in DOMAIN ids |-> <<kind, ids[i]>>]
InState(s)      == SetToSeq(DOMAIN s)    \* the order tells only which one a full list loses

(* Mutant: the flag is forgotten. *)
DisarmHalf ==
  (IF processing THEN <<<<"stop", 0>>>> ELSE <<>>)
    \o (IF active THEN <<<<"deactivate", 0>>, <<"active", FALSE>>>> ELSE <<>>)

(* What terminate and setActive(false) do for a host that forgot the steps before. *)
Disarm ==
  (IF processing THEN <<<<"stop", 0>>, <<"processing", FALSE>>>> ELSE <<>>)
    \o (IF active THEN <<<<"deactivate", 0>>, <<"active", FALSE>>>> ELSE <<>>)

Body(e) ==
  CASE e[1] = "initialize" ->
         IF initialised THEN <<>>
         ELSE <<<<"init", 0>>, <<"ask", 0>>, <<"build", 0>>, <<"ask", 0>>,
                <<"create_editor", 0>>, <<"ask", 0>>, <<"initialised", TRUE>>>>
    [] e[1] = "terminate" -> Disarm \o <<<<"drop_editor", 0>>>>
    [] e[1] = "consult" -> IF initialised THEN <<<<"consult", 0>>>> ELSE <<>>
    [] e = <<"set_active", TRUE>> ->
         IF ~initialised \/ active THEN <<>>
         ELSE <<<<"activate", setup>>, <<"active", TRUE>>, <<"ask", 0>>, <<"apply", 0>>,
                <<"ask", 0>>>>
    [] e = <<"set_active", FALSE>> -> IF initialised THEN Disarm ELSE <<>>
    [] e = <<"set_processing", TRUE>> ->
         IF ~active \/ processing THEN <<>>
         ELSE <<<<"start", 0>>, <<"processing", TRUE>>>>
    [] e = <<"set_processing", FALSE>> ->
         IF processing THEN <<<<"stop", 0>>, <<"processing", FALSE>>>> ELSE <<>>
    [] e[1] = "setup_processing" -> IF processing THEN <<>> ELSE <<<<"setup", e[2]>>>>
    [] e[1] = "set_state" ->
         IF initialised THEN <<<<"apply_params", 0>>, <<"load_state", 0>>, <<"refresh", 0>>>>
                        ELSE <<>>
    [] e[1] = "process" ->
         IF ~processing \/ e[2] > setup THEN <<>>
         ELSE <<<<"swap", 0>>>> \o Each("lane", InState(e[3])) \o <<<<"process", e[2]>>>>

(* The poison gate, and the checks at the top. *)
Enters(e) ==
  /\ inst \in Live /\ held > 0 /\ ~poison /\ at = "idle"
  /\ Body(e) # <<>>
  /\ at' = "between" /\ doing' = e /\ script' = Body(e)

Call(e) ==
  /\ Enters(e) /\ ui = UiIdle
  /\ UNCHANGED <<instanceVars, poison, dspVars, paramVars, blockVars, uiVars, viewVars,
                 refVars>>

(* A block carries the host's automation, in it every edit it was told of. *)
CallProcess(e) ==
  /\ Enters(e) /\ \A p \in DOMAIN echo : p \in DOMAIN e[3] /\ e[3][p] = echo[p]
  /\ events' = <<>> /\ sent' = <<>> /\ echo' = <<>>
  /\ UNCHANGED <<instanceVars, poison, dspVars, paramVars, ui, viewVars, refVars>>

Step == script[1]

(* The method of PluginInstance a step is, if it is one. *)
Method == IF Step[1] \in {"ask", "create_editor", "load_state"} THEN "consult" ELSE Step[1]
IsMethod == script # <<>> /\ Method \in Methods

(* Whether the body goes on when this step failed. *)
GoesOn == Step[1] \in {"ask", "create_editor", "stop", "deactivate"}
After(succeeded) == script' = IF succeeded \/ GoesOn THEN Tail(script) ELSE <<>>

(* A block the instance refuses takes the events collected for it along. *)
RefuseMethod ==
  /\ at = "between" /\ IsMethod /\ ~Ready(Method, Step[2])
  /\ After(FALSE)
  /\ torn' = IF Step[1] = "process" THEN torn \cup {events[i][1] : i \in DOMAIN events}
                                    ELSE torn
  /\ UNCHANGED <<instanceVars, poison, dspVars, at, doing, mirror, pending, params, blockVars,
                 uiVars, viewVars, refVars>>

(* The values a plug-in holds once it has applied a block's events in their order: of
   each parameter the last one counts. *)
EventsOf(p) == {i \in DOMAIN events : events[i][1] = p}
Applied ==
  [p \in Ids |-> IF EventsOf(p) = {} THEN params[p] ELSE events[Max(EventsOf(p))][2]]

(* One parameter the author's code moves of its own accord, or none. *)
Moves == {<<>>} \cup {Just(p, v) : p \in Ids, v \in Values}

(* A process tells of what it moved in its output events; a load_state, which may fail
   after it moved something, does not. *)
EnterMethod ==
  /\ at = "between" /\ IsMethod
  /\ \E o \in Outcomes : Enter(Method, Step[2], o) /\ at' = o
  /\ \E moved \in IF Step[1] \in {"process", "load_state"} THEN Moves ELSE {<<>>} :
       /\ params' = Over(moved, IF Step[1] = "process" THEN Applied ELSE params)
       /\ sent' = IF Step[1] = "process" THEN moved ELSE sent
  /\ UNCHANGED <<poison, dspVars, doing, script, mirror, pending, torn, events, uiVars,
                 viewVars, refVars>>

ReturnMethod ==
  /\ at = "ok" /\ at' = "between"
  /\ Return(Method, Step[2])
  /\ script' = IF Step[1] = "process" THEN Each("emit", InState(sent)) ELSE Tail(script)
  /\ editor' \in IF Step[1] = "create_editor" THEN {"made", "none"} ELSE {editor}
  /\ UNCHANGED <<poison, dspVars, doing, paramVars, blockVars, uiVars, view, viewPoison,
                 refVars>>

ReturnError ==
  /\ at = "error" /\ at' = "between"
  /\ After(FALSE)
  /\ torn' = IF Step[1] = "load_state" THEN torn \cup {p \in Ids : params[p] # mirror[p]}
                                       ELSE torn
  /\ UNCHANGED <<instanceVars, poison, dspVars, doing, mirror, pending, params, blockVars,
                 uiVars, viewVars, refVars>>

(* Mutant: call_or answers the error code and leaves the object as it is. *)
CatchPanicForgiving ==
  /\ at = "panic" /\ at' = "between"
  /\ script' = <<>>
  /\ UNCHANGED <<instanceVars, poison, dspVars, doing, paramVars, blockVars, uiVars, viewVars,
                 refVars>>

(* Poison::call_or: the flag is all that changes, the instance stays in its state. *)
CatchPanic ==
  /\ at = "panic" /\ at' = "between"
  /\ poison' = TRUE /\ script' = <<>>
  /\ UNCHANGED <<instanceVars, dspVars, doing, paramVars, blockVars, uiVars, viewVars,
                 refVars>>

Doing(kind) == at = "between" /\ script # <<>> /\ Step[1] = kind

SetFlag ==
  /\ \/ Doing("initialised") /\ initialised' = Step[2] /\ UNCHANGED <<active, processing>>
     \/ Doing("active") /\ active' = Step[2] /\ UNCHANGED <<initialised, processing>>
     \/ Doing("processing") /\ processing' = Step[2] /\ UNCHANGED <<initialised, active>>
  /\ After(TRUE)
  /\ UNCHANGED <<instanceVars, poison, setup, at, doing, paramVars, blockVars, uiVars,
                 viewVars, refVars>>

(* setup_processing asks for processing, not for active. *)
Setup ==
  /\ Doing("setup")
  /\ setup' = Step[2] /\ After(TRUE)
  /\ UNCHANGED <<instanceVars, poison, initialised, active, processing, at, doing, paramVars,
                 blockVars, uiVars, viewVars, refVars>>

DropEditor ==
  /\ Doing("drop_editor")
  /\ editor' = IF view = "none" THEN "none" ELSE editor
  /\ After(TRUE)
  /\ UNCHANGED <<instanceVars, poison, dspVars, at, doing, paramVars, blockVars, uiVars, view,
                 viewPoison, refVars>>

-----------------------------------------------------------------------------
(* The mirror and the plug-in's parameters, while no block is under way. *)

(* ParamTable::build, and refresh_from after a load. *)
Refresh ==
  /\ Doing("build") \/ Doing("refresh")
  /\ mirror' = params /\ torn' = {}
  /\ After(TRUE)
  /\ UNCHANGED <<instanceVars, poison, dspVars, at, doing, pending, params, blockVars, uiVars,
                 viewVars, refVars>>

(* apply_to, in setActive(true). *)
Apply ==
  /\ Doing("apply")
  /\ params' = mirror /\ torn' = {} /\ pending' = FALSE
  /\ After(TRUE)
  /\ UNCHANGED <<instanceVars, poison, dspVars, at, doing, mirror, blockVars, uiVars, viewVars,
                 refVars>>

(* apply_params, in setState. *)
ApplyParams ==
  /\ Doing("apply_params")
  /\ LET s == doing[2] IN
     mirror' = Over(s, mirror) /\ params' = Over(s, params) /\ torn' = torn \ DOMAIN s
  /\ After(TRUE)
  /\ UNCHANGED <<instanceVars, poison, dspVars, at, doing, pending, blockVars, uiVars,
                 viewVars, refVars>>

-----------------------------------------------------------------------------
(* A block. *)

(* input_events.try_push: a full list loses the event. *)
Push(p, v) ==
  IF Len(events) < EventCapacity
    THEN events' = Append(events, <<p, v>>) /\ torn' = torn \ {p}
    ELSE torn' = torn \cup {p} /\ UNCHANGED events

SwapPending ==
  /\ Doing("swap")
  /\ pending' = FALSE
  /\ script' = (IF pending THEN Each("read", Params) ELSE <<>>) \o Tail(script)
  /\ UNCHANGED <<instanceVars, poison, dspVars, at, doing, mirror, params, torn, blockVars,
                 uiVars, viewVars, refVars>>

(* One entry of the mirror becomes an event of the block. *)
ReadMirror ==
  /\ Doing("read")
  /\ Push(Step[2], mirror[Step[2]])
  /\ After(TRUE)
  /\ UNCHANGED <<instanceVars, poison, dspVars, at, doing, mirror, pending, params, sent,
                 uiVars, viewVars, refVars>>

(* drain_queue: one lane, of which the last point counts. *)
DrainLane ==
  /\ Doing("lane")
  /\ LET p == Step[2]
         v == doing[3][p]
     IN Push(p, v) /\ mirror' = [mirror EXCEPT ![p] = v]
  /\ After(TRUE)
  /\ UNCHANGED <<instanceVars, poison, dspVars, at, doing, pending, params, sent, uiVars,
                 viewVars, refVars>>

(* emit_output_parameters, for a host that takes output changes, *)
Emit ==
  /\ Doing("emit")
  /\ LET p == Step[2] IN mirror' = [mirror EXCEPT ![p] = sent[p]] /\ torn' = torn \ {p}
  /\ After(TRUE)
  /\ UNCHANGED <<instanceVars, poison, dspVars, at, doing, pending, params, blockVars, uiVars,
                 viewVars, refVars>>

(* and for one that does not: it looks before the first of them, and returns. *)
EmitNothing ==
  /\ Doing("emit") /\ script = Each("emit", InState(sent))
  /\ script' = <<>>
  /\ torn' = torn \cup {p \in DOMAIN sent : mirror[p] # sent[p]}
  /\ UNCHANGED <<instanceVars, poison, dspVars, at, doing, mirror, pending, params, blockVars,
                 uiVars, viewVars, refVars>>

(* Mutant: the flag is taken down when the block is done. *)
EndClears ==
  /\ at = "between" /\ script = <<>>
  /\ at' = "idle" /\ doing' = Nothing /\ events' = <<>> /\ sent' = <<>>
  /\ pending' = (pending /\ doing[1] # "process")
  /\ UNCHANGED <<instanceVars, poison, dspVars, script, mirror, params, torn, uiVars, viewVars,
                 refVars>>

End ==
  /\ at = "between" /\ script = <<>>
  /\ at' = "idle" /\ doing' = Nothing /\ events' = <<>> /\ sent' = <<>>
  /\ UNCHANGED <<instanceVars, poison, dspVars, script, paramVars, uiVars, viewVars, refVars>>

CallStep ==
  \/ RefuseMethod \/ EnterMethod \/ ReturnMethod \/ ReturnError \/ CatchPanic
  \/ SetFlag \/ Setup \/ DropEditor \/ Refresh \/ Apply \/ ApplyParams
  \/ SwapPending \/ ReadMirror \/ DrainLane \/ Emit \/ EmitNothing \/ End

-----------------------------------------------------------------------------
(* The UI thread, between two calls of its own or beside a block. *)

UiFree ==
  /\ inst \in Live /\ ui = UiIdle
  /\ at = "idle" \/ (at # "aborted" /\ doing[1] = "process")
Controller == UiFree /\ held > 0 /\ ~poison

(* setParamNormalized: the value, *)
SetMirror ==
  /\ Controller
  /\ \E p \in DOMAIN mirror, v \in Values : mirror' = [mirror EXCEPT ![p] = v]
  /\ ui' = <<"set">>
  /\ UNCHANGED <<instanceVars, poison, dspVars, callVars, pending, params, torn, blockVars,
                 echo, viewVars, refVars>>

(* and the flag. *)
RaisePending ==
  /\ ui = <<"set">>
  /\ pending' = TRUE /\ ui' = UiIdle
  /\ UNCHANGED <<instanceVars, poison, dspVars, callVars, mirror, params, torn, blockVars,
                 echo, viewVars, refVars>>

(* setComponentState: mirror_params, and no flag. *)
SetComponentState ==
  /\ Controller /\ mirror # <<>>
  /\ \E s \in State :
       /\ mirror' = Over(s, mirror)
       /\ torn' = torn \cup {p \in DOMAIN s : mirror[p] # s[p]}
  /\ UNCHANGED <<instanceVars, poison, dspVars, callVars, pending, params, blockVars, uiVars,
                 viewVars, refVars>>

(* A control the user moves in an open editor: the author stores the value, *)
EditorMoves ==
  /\ UiFree /\ view = "attached" /\ ~viewPoison
  /\ \E p \in Ids, v \in Values : params' = [params EXCEPT ![p] = v] /\ ui' = <<"moved", p, v>>
  /\ UNCHANGED <<instanceVars, poison, dspVars, callVars, mirror, pending, torn, blockVars,
                 echo, viewVars, refVars>>

(* and tells HostParams::changed, which tells the host's performEdit. *)
EditorReports ==
  /\ ui[1] = "moved"
  /\ mirror' = [mirror EXCEPT ![ui[2]] = ui[3]]
  /\ echo' = Over(Just(ui[2], ui[3]), echo)
  /\ ui' = UiIdle
  /\ UNCHANGED <<instanceVars, poison, dspVars, callVars, pending, params, torn, blockVars,
                 viewVars, refVars>>

-----------------------------------------------------------------------------
(* The view. *)

(* Mutant: the view borrows the component. *)
CreateViewBorrows ==
  /\ Controller /\ editor # "none" /\ view = "none"
  /\ view' = "made" /\ viewPoison' = FALSE
  /\ UNCHANGED <<instanceVars, poison, dspVars, callVars, paramVars, blockVars, uiVars, editor,
                 refVars>>

CreateView ==
  /\ Controller /\ editor # "none" /\ view = "none"
  /\ \/ view' = "made" /\ viewPoison' = FALSE /\ refs' = refs + 1 /\ UNCHANGED poison
     \/ poison' = TRUE /\ UNCHANGED <<view, viewPoison, refs>>   \* descriptor() panics
  /\ UNCHANGED <<instanceVars, dspVars, callVars, paramVars, blockVars, uiVars, editor, held>>

(* A panic in open breaks the editor and poisons this view; the component goes on. *)
Attached ==
  /\ UiFree /\ view = "made" /\ ~viewPoison
  /\ \/ view' = "attached" /\ editor' = "opened" /\ UNCHANGED viewPoison
     \/ viewPoison' = TRUE /\ editor' = "broken" /\ UNCHANGED view
  /\ UNCHANGED <<instanceVars, poison, dspVars, callVars, paramVars, blockVars, uiVars,
                 refVars>>

(* Input, a new size, or close: a view whose close panicked still counts as attached. *)
Removed ==
  /\ UiFree /\ view = "attached" /\ ~viewPoison
  /\ \/ view' = "made" /\ editor' = "closed" /\ UNCHANGED viewPoison
     \/ viewPoison' = TRUE /\ editor' = "broken" /\ UNCHANGED view
  /\ UNCHANGED <<instanceVars, poison, dspVars, callVars, paramVars, blockVars, uiVars,
                 refVars>>

-----------------------------------------------------------------------------
(* References. *)

Query ==
  /\ UiFree /\ held \in 1 .. MaxHeld - 1
  /\ held' = held + 1 /\ refs' = refs + 1
  /\ UNCHANGED <<instanceVars, poison, dspVars, callVars, paramVars, blockVars, uiVars,
                 viewVars>>

(* dismiss: the last reference drops the box, outside any catch_unwind, so that a panic of
   the stop PluginInstance::drop performs ends the process. *)
Dismiss ==
  /\ refs' = refs - 1
  /\ IF refs > 1
       THEN UNCHANGED <<instanceVars, at>>
       ELSE /\ DropInstance
            /\ at' = IF inst = "Processing" /\ dsp' = "broken" THEN "aborted" ELSE at

Release ==
  /\ UiFree /\ at = "idle" /\ held > 0
  /\ held' = held - 1 /\ Dismiss
  /\ UNCHANGED <<poison, dspVars, doing, script, paramVars, blockVars, uiVars, viewVars>>

(* The view's last release closes what is still attached, poisoned or not and outside any
   catch_unwind, and gives the component back. *)
ReleaseView ==
  /\ UiFree /\ (refs = 1 => at = "idle") /\ view # "none"
  /\ \/ /\ Dismiss
        /\ view' = "none" /\ viewPoison' = FALSE
        /\ editor' = IF view = "attached" THEN "closed" ELSE editor
     \/ /\ view = "attached" /\ at' = "aborted"   \* close panics
        /\ UNCHANGED <<instanceVars, viewVars, refs>>
  /\ UNCHANGED <<poison, dspVars, doing, script, paramVars, blockVars, uiVars, held>>

DropBox ==
  /\ at # "aborted" /\ DropAuthor
  /\ editor' = "none"
  /\ UNCHANGED <<poison, dspVars, callVars, paramVars, blockVars, uiVars, view, viewPoison,
                 refVars>>

Next ==
  \/ Create \/ CallStep
  \/ \E e \in Entries : Call(e)
  \/ \E e \in Blocks : CallProcess(e)
  \/ SetMirror \/ RaisePending \/ SetComponentState \/ EditorMoves \/ EditorReports
  \/ CreateView \/ Attached \/ Removed \/ Query \/ Release \/ ReleaseView \/ DropBox

Spec == Init /\ [][Next]_vars

-----------------------------------------------------------------------------
TypeOK ==
  /\ InstanceTypeOK
  /\ {poison, initialised, active, processing, pending, viewPoison} \subseteq BOOLEAN
  /\ setup \in Sizes
  /\ at \in {"idle", "between", "aborted"} \cup Outcomes
  /\ doing \in Entries \cup Blocks \cup {Nothing}
  /\ mirror \in [Ids -> Values] \cup {<<>>} /\ params \in [Ids -> Values] /\ torn \subseteq Ids
  /\ Len(events) <= EventCapacity /\ ToSet(events) \subseteq Ids \X Values
  /\ sent \in State /\ echo \in State
  /\ ui \in {UiIdle, <<"set">>} \cup ({"moved"} \X Ids \X Values)
  /\ held \in 0 .. MaxHeld /\ refs \in 0 .. MaxHeld + 1
  /\ view \in {"none", "made", "attached"}
  /\ editor \in {"none", "made", "opened", "closed", "broken"}

Settled ==
  at = "idle" /\ ui = UiIdle /\ ~pending /\ echo = <<>> /\ ~poison /\ mirror # <<>>

(* set_param_normalized, drain_queue: "a UI opened mid-playback shows what the automation
   lane says", and get_state saves it.  Once no change is under way between the threads,
   the mirror shows what the plug-in holds, except for the parameters that one of the
   listed calls has torn. *)
MirrorMeetsPlugin == Settled => \A p \in Ids \ torn : mirror[p] = params[p]

(* Dsp keeps flags beside the instance's own state, set by other statements and on other
   paths.  Between two calls of a healthy object they agree: no start or stop that the
   instance refuses is taken for done, none it made is forgotten. *)
FlagsAgree ==
  /\ TypeOK
  /\ at = "idle" /\ inst \in Live /\ ~poison =>
       /\ active <=> inst \in {"Active", "Processing"}
       /\ processing <=> inst = "Processing"
       /\ initialised <=> inst \in Initialised

(* vst3.rs lets the host release in any order.  An editor that was opened has a view that
   will close it, and whatever a view calls into, component and editor, outlives it. *)
ViewsAreServed ==
  /\ editor = "opened" => view = "attached"
  /\ view # "none" => inst \in Live /\ editor # "none"

(* guard.rs: a plug-in that broke is never entered again.  The author's code sees its
   contract, under any order of calls, up to the last release of a poisoned object, whose
   drop performs the stop that is missing on code that has panicked. *)
ContractKept ==
  [][\/ [Contract!Next]_authorVars
     \/ poison /\ inst' \in {"Dropping", "Destroyed"}]_vars
=============================================================================
