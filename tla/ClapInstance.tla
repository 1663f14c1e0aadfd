---------------------------- MODULE ClapInstance ----------------------------
(***************************************************************************)
(* One CLAP instance and the two host threads that call it at the same     *)
(* time: daux-format-clap/src/plugin.rs over the instance lock of lock.rs  *)
(* and the lifecycle of PluginInstance.  The main thread waits for the     *)
(* lock and gives up, the audio thread only tries.  A body runs the        *)
(* methods of its script one after the other; each may panic, which        *)
(* run_locked catches.                                                     *)
(*                                                                         *)
(* A host calls in any order, each entry from the threads CLAP gives it;   *)
(* destroy is its last call, made when no other is in flight.  A call that *)
(* is refused at once, because the lock is taken or because its thread is  *)
(* already inside an instance, changes nothing and is not a step.          *)
(***************************************************************************)
EXTENDS PluginInstance, Sequences, SequencesExt

CONSTANTS
  DefaultSize,   \* ProcessConfig::default().max_block_size
  MaxYields,     \* MAX_YIELDS of lock.rs
  Params,        \* ClapInstance's param_refs, as positions
  Values         \* what a parameter can be set to

ASSUME ClapAssumption ==
  /\ DefaultSize \in 1 .. MaxSize
  /\ MaxYields \in Nat \ {0}
  /\ Params \in Seq(STRING) /\ Values # {}

VARIABLES
  locked,       \* InstanceLock.locked
  inside,       \* the INSIDE flag of each thread
  at,           \* where each thread is in its call: idle, waiting for the lock, holding it
                \* before its body, between two steps of the body, or in a method of the
                \* author that will end ok, with an error or in a panic; in destroy also
                \* closing the editor, and dropping
  doing,        \* the entry each thread is in, and its argument
  script,       \* what its body has still to do
  yields,       \* the rounds the lock_main under way has yielded
  clapConfig,   \* Inner.config.max_block_size
  editor,       \* Inner.editor: none, made, opened, closed
  editorOpen,   \* Inner.editor_open
  params,       \* the values of the parameters
  blob          \* what the main thread has read of the parameters, or written to them,
                \* for the state it is saving or loading

lockVars   == <<locked, inside>>
threadVars == <<at, doing, script, yields>>
editorVars == <<editor, editorOpen>>
dataVars   == <<clapConfig, params, blob>>
vars       == <<instanceVars, lockVars, threadVars, editorVars, dataVars>>

Thread == {"main", "audio"}
Ids    == ToSet(Params)
State  == UNION {[ids -> Values] : ids \in SUBSET Ids}   \* a state can miss parameters
Nothing == <<"none", 0>>

(* The entries that wait for the lock, all of the main thread, and those that only try.
   consult is any entry whose body asks the author's code and changes nothing of the
   adapter: the queries of parameters, latency, tail and ports, on_main_thread, and those
   that size and scale an editor. *)
Waiting ==
  {<<e, 0>> : e \in {"init", "deactivate", "consult", "save", "destroy", "gui_create",
                      "gui_destroy", "gui_set_parent"}}
    \cup {<<"activate", n>> : n \in Sizes \cup {0}} \cup {<<"load", s>> : s \in State}
Flush == {<<"flush", s>> : s \in State}
Trying ==
  [main  |-> Flush,
   audio |-> {<<e, 0>> : e \in {"start", "stop", "reset", "consult"}}
               \cup {<<"process", f>> : f \in Frames} \cup Flush]

Init ==
  /\ InstanceInit
  /\ locked = FALSE /\ inside = [t \in Thread |-> FALSE]
  /\ at = [t \in Thread |-> "idle"] /\ doing = [t \in Thread |-> Nothing]
  /\ script = [t \in Thread |-> <<>>] /\ yields = 0
  /\ clapConfig = DefaultSize
  /\ editor = "none" /\ editorOpen = FALSE
  /\ params \in [Ids -> Values] /\ blob = <<>>

Create ==
  /\ Construct
  /\ UNCHANGED <<lockVars, threadVars, editorVars, dataVars>>

-----------------------------------------------------------------------------
(* The lock. *)

Acquired(t) ==
  /\ locked' = TRUE /\ inside' = [inside EXCEPT ![t] = TRUE]
  /\ at' = [at EXCEPT ![t] = "holding"]

(* The guard's drop. *)
Released(t) ==
  /\ locked' = FALSE /\ inside' = [inside EXCEPT ![t] = FALSE]
  /\ at' = [at EXCEPT ![t] = "idle"] /\ doing' = [doing EXCEPT ![t] = Nothing]

(* A call on a thread that is in no other instance's call: lock_main starts to wait.
   Which entry waits shows only once it has the lock. *)
CallWaiting ==
  /\ inst \in Live /\ at["main"] = "idle" /\ ~inside["main"]
  /\ at' = [at EXCEPT !["main"] = "waiting"]
  /\ UNCHANGED <<instanceVars, lockVars, doing, script, yields, editorVars, dataVars>>

(* Mutant: try_lock's answer is not looked at. *)
CallTryingAnyway(t, e) ==
  /\ inst \in Live /\ at[t] = "idle" /\ ~inside[t]
  /\ doing["main"][1] # "destroy"
  /\ Acquired(t) /\ doing' = [doing EXCEPT ![t] = e]
  /\ UNCHANGED <<instanceVars, script, yields, editorVars, dataVars>>

(* Mutant: a flush only moves atomics and so goes without the lock. *)
CallTryingFlushes(t, e) ==
  /\ inst \in Live /\ at[t] = "idle" /\ ~inside[t] /\ (locked => e[1] = "flush")
  /\ doing["main"][1] # "destroy"
  /\ Acquired(t) /\ doing' = [doing EXCEPT ![t] = e]
  /\ UNCHANGED <<instanceVars, script, yields, editorVars, dataVars>>

(* try_lock takes the lock now or never. *)
CallTrying(t, e) ==
  /\ inst \in Live /\ at[t] = "idle" /\ ~inside[t] /\ ~locked
  /\ doing["main"][1] # "destroy"
  /\ Acquired(t) /\ doing' = [doing EXCEPT ![t] = e]
  /\ UNCHANGED <<instanceVars, script, yields, editorVars, dataVars>>

(* A round of compare-exchanges: one of them succeeds, *)
LockMain(e) ==
  /\ at["main"] = "waiting" /\ ~locked
  /\ Acquired("main") /\ doing' = [doing EXCEPT !["main"] = e] /\ yields' = 0
  /\ UNCHANGED <<instanceVars, script, editorVars, dataVars>>

(* Mutant: lock_main never gives up. *)
YieldMainForever ==
  /\ at["main"] = "waiting" /\ locked
  /\ yields' = (yields + 1) % MaxYields
  /\ UNCHANGED <<instanceVars, lockVars, at, doing, script, editorVars, dataVars>>

(* or none does, and the thread yields, or gives up after MaxYields rounds. *)
YieldMain ==
  /\ at["main"] = "waiting" /\ locked
  /\ IF yields + 1 >= MaxYields
       THEN at' = [at EXCEPT !["main"] = "idle"] /\ yields' = 0
       ELSE yields' = yields + 1 /\ UNCHANGED at
  /\ UNCHANGED <<instanceVars, lockVars, doing, script, editorVars, dataVars>>

(* The flag is the thread's, so a call of another instance that the main thread enters or
   leaves moves it too. *)
ElsewhereStep ==
  /\ at["main"] = "idle" /\ inside' = [inside EXCEPT !["main"] = ~@]
  /\ UNCHANGED <<instanceVars, locked, threadVars, editorVars, dataVars>>
-----------------------------------------------------------------------------
(* The bodies. *)

Each(kind) == [i \in DOMAIN Params |-> <<kind, Params[i]>>]
Ask        == <<<<"consult", 0>>>>

(* Mutant: deactivate trusts the host to have stopped. *)
DisarmTrusting == <<<<"deactivate", 0>>>>

(* plugin_deactivate performs a stop the host forgot. *)
Disarm == <<<<"stop", 0>>, <<"deactivate", 0>>>>

(* What the body of an entry does, one step after the other; empty when it returns at
   once.  state_save and state_load move every parameter and then ask the controller. *)
Body(e) ==
  CASE e[1] = "init"        -> <<<<"init", 0>>>> \o Ask
    [] e[1] = "activate"    -> <<e>>
    [] e[1] = "deactivate"  -> Disarm
    [] e[1] \in {"start", "stop"} -> <<e>>
    [] e[1] = "reset"       -> IF inst = "Processing"
                                 THEN <<<<"stop", 0>>, <<"reset", 0>>, <<"start", 0>>>>
                                 ELSE <<<<"reset", 0>>>>
    [] e[1] = "process"     -> IF e[2] > clapConfig THEN <<>> ELSE <<e>>
    [] e[1] = "consult"     -> Ask
    [] e[1] = "flush"       -> Ask \o Each("write")
    [] e[1] = "load"        -> Ask \o Each("write") \o Ask
    [] e[1] = "save"        -> Ask \o Each("read") \o Ask
    [] e[1] = "gui_create"  -> IF editor = "none" THEN Ask ELSE <<>>
    [] e[1] = "gui_set_parent" -> IF editorOpen \/ editor = "none" THEN <<>> ELSE Ask
    [] e[1] = "gui_destroy" -> IF editor = "none" THEN <<<<"forget", 0>>>>
                                 ELSE <<<<"consult", 0>>, <<"forget", 0>>>>

(* run_locked: a poisoned instance is refused. *)
Begin(t) ==
  /\ at[t] = "holding" /\ doing[t][1] # "destroy"
  /\ script' = [script EXCEPT ![t] = IF inst = "Poisoned" THEN <<>> ELSE Body(doing[t])]
  /\ at' = [at EXCEPT ![t] = "between"]
  /\ blob' = IF t = "main" THEN <<>> ELSE blob
  /\ UNCHANGED <<instanceVars, lockVars, doing, yields, editorVars, clapConfig, params>>

(* These two ignore what a method of theirs answers; the others return. *)
GoesOn(t) == doing[t][1] \in {"deactivate", "reset"}
After(t, succeeded) ==
  [script EXCEPT ![t] = IF succeeded \/ GoesOn(t) THEN Tail(@) ELSE <<>>]

Next1(t) == script[t][1]
IsMethod(t) == script[t] # <<>> /\ Next1(t)[1] \in Methods

RefuseMethod(t) ==
  /\ at[t] = "between" /\ IsMethod(t) /\ ~Ready(Next1(t)[1], Next1(t)[2])
  /\ script' = After(t, FALSE)
  /\ UNCHANGED <<instanceVars, lockVars, at, doing, yields, editorVars, dataVars>>

(* A parameter moves in process only as automation the author applies. *)
Automation(m) ==
  params' \in IF m = "process"
                THEN {params} \cup {[params EXCEPT ![p] = v] : p \in Ids, v \in Values}
                ELSE {params}

(* close returns nothing. *)
EnterMethod(t) ==
  /\ at[t] = "between" /\ IsMethod(t)
  /\ \E o \in Outcomes :
       /\ o = "error" => doing[t][1] # "gui_destroy"
       /\ Enter(Next1(t)[1], Next1(t)[2], o)
       /\ at' = [at EXCEPT ![t] = o]
  /\ Automation(Next1(t)[1])
  /\ UNCHANGED <<lockVars, doing, script, yields, editorVars, clapConfig, blob>>

ReturnMethod(t) ==
  /\ at[t] = "ok"
  /\ Return(Next1(t)[1], Next1(t)[2])
  /\ at' = [at EXCEPT ![t] = "between"] /\ script' = After(t, TRUE)
  /\ clapConfig' = IF doing[t][1] = "activate" THEN doing[t][2] ELSE clapConfig
  /\ editor' \in CASE doing[t][1] = "gui_create"     -> {"made", "none"}
                   [] doing[t][1] = "gui_set_parent" -> {"opened"}
                   [] doing[t][1] = "gui_destroy"    -> {"closed"}
                   [] OTHER                          -> {editor}
  /\ editorOpen' = (editorOpen \/ doing[t][1] = "gui_set_parent")
  /\ UNCHANGED <<lockVars, doing, yields, params, blob>>

ReturnError(t) ==
  /\ at[t] = "error"
  /\ at' = [at EXCEPT ![t] = "between"] /\ script' = After(t, FALSE)
  /\ UNCHANGED <<instanceVars, lockVars, doing, yields, editorVars, dataVars>>

(* Mutant: run_locked catches the panic and leaves the instance as it is. *)
CatchPanicForgiving(t) ==
  /\ at[t] = "panic"
  /\ at' = [at EXCEPT ![t] = "between"] /\ script' = [script EXCEPT ![t] = <<>>]
  /\ UNCHANGED <<instanceVars, lockVars, doing, yields, editorVars, dataVars>>

(* run_locked: the panic poisons.  An editor that panicked while it opened may be
   attached to its window; one that panicked in close has been asked. *)
CatchPanic(t) ==
  /\ at[t] = "panic"
  /\ inst' = "Poisoned"
  /\ at' = [at EXCEPT ![t] = "between"] /\ script' = [script EXCEPT ![t] = <<>>]
  /\ editor' = CASE doing[t][1] = "gui_set_parent" -> "opened"
                 [] doing[t][1] = "gui_destroy"    -> "closed"
                 [] OTHER                          -> editor
  /\ UNCHANGED <<config, authorVars, lockVars, doing, yields, editorOpen, dataVars>>

Doing(t, kind) == at[t] = "between" /\ script[t] # <<>> /\ Next1(t)[1] = kind

Put(p, v) == [q \in DOMAIN blob \cup {p} |-> IF q = p THEN v ELSE blob[q]]

ReadParam(t) ==
  /\ Doing(t, "read")
  /\ LET p == Next1(t)[2] IN blob' = Put(p, params[p])
  /\ script' = After(t, TRUE)
  /\ UNCHANGED <<instanceVars, lockVars, at, doing, yields, editorVars, clapConfig, params>>

(* A parameter the state, or the list of events, does not name is left alone. *)
WriteParam(t) ==
  /\ Doing(t, "write")
  /\ LET p == Next1(t)[2]
         s == doing[t][2]
     IN IF p \in DOMAIN s
          THEN /\ params' = [params EXCEPT ![p] = s[p]]
               /\ blob' = IF t = "main" THEN Put(p, s[p]) ELSE blob
          ELSE UNCHANGED <<params, blob>>
  /\ script' = After(t, TRUE)
  /\ UNCHANGED <<instanceVars, lockVars, at, doing, yields, editorVars, clapConfig>>

ForgetEditor(t) ==
  /\ Doing(t, "forget")
  /\ editor' = "none" /\ editorOpen' = FALSE /\ script' = After(t, TRUE)
  /\ UNCHANGED <<instanceVars, lockVars, at, doing, yields, dataVars>>

End(t) ==
  /\ at[t] = "between" /\ script[t] = <<>>
  /\ Released(t)
  /\ blob' = IF t = "main" THEN <<>> ELSE blob
  /\ UNCHANGED <<instanceVars, script, yields, editorVars, clapConfig, params>>

-----------------------------------------------------------------------------
(* destroy: the editor is closed under the lock, poisoned or not; a panic of its close
   is caught and leaves the editor to the drop of the box. *)

(* Mutant: as every other entry, only of an instance that is not poisoned. *)
DestroyCloseHealthy ==
  /\ at["main"] = "holding" /\ doing["main"][1] = "destroy"
  /\ editor' = IF editor = "none" \/ inst = "Poisoned" THEN editor ELSE "closed"
  /\ at' = [at EXCEPT !["main"] = "closing"]
  /\ UNCHANGED <<instanceVars, lockVars, doing, script, yields, editorOpen, dataVars>>

DestroyClose ==
  /\ at["main"] = "holding" /\ doing["main"][1] = "destroy"
  /\ editor' = IF editor = "none" THEN "none" ELSE "closed"
  /\ at' = [at EXCEPT !["main"] = "closing"]
  /\ UNCHANGED <<instanceVars, lockVars, doing, script, yields, editorOpen, dataVars>>

DestroyForget ==
  /\ at["main"] = "closing"
  /\ \/ editor' = "none" /\ editorOpen' = FALSE
     \/ editor = "closed" /\ UNCHANGED editorVars
  /\ locked' = FALSE /\ inside' = [inside EXCEPT !["main"] = FALSE]
  /\ at' = [at EXCEPT !["main"] = "dropping"]
  /\ UNCHANGED <<instanceVars, doing, script, yields, dataVars>>

(* A destroy from within another instance's call gets no lock and closes no editor. *)
DestroyNested ==
  /\ inst \in Live /\ at["main"] = "idle" /\ inside["main"] /\ at["audio"] = "idle"
  /\ at' = [at EXCEPT !["main"] = "dropping"]
  /\ doing' = [doing EXCEPT !["main"] = <<"destroy", 0>>]
  /\ UNCHANGED <<instanceVars, lockVars, script, yields, editorVars, dataVars>>

(* The fields of the box, the instance first. *)
DestroyDrop ==
  /\ at["main"] = "dropping"
  /\ \/ DropInstance /\ UNCHANGED editorVars
     \/ DropAuthor /\ editor' = "none" /\ editorOpen' = FALSE
  /\ UNCHANGED <<lockVars, threadVars, dataVars>>

-----------------------------------------------------------------------------
(* A control the user moves in an open editor, between two calls of its thread. *)
EditorSets ==
  /\ editor = "opened" /\ at["main"] = "idle" /\ inst \in Live
  /\ \E p \in Ids, v \in Values : params' = [params EXCEPT ![p] = v]
  /\ UNCHANGED <<instanceVars, lockVars, threadVars, editorVars, clapConfig, blob>>

BodyStep(t) ==
  \/ Begin(t) \/ RefuseMethod(t) \/ EnterMethod(t) \/ ReturnMethod(t) \/ ReturnError(t)
  \/ CatchPanic(t) \/ ReadParam(t) \/ WriteParam(t) \/ ForgetEditor(t) \/ End(t)

(* What the main thread does once it is in a call. *)
MainStep ==
  \/ YieldMain \/ BodyStep("main") \/ DestroyClose \/ DestroyForget
  \/ \E e \in Waiting : LockMain(e)

Next ==
  \/ Create \/ MainStep \/ BodyStep("audio") \/ DestroyNested \/ DestroyDrop \/ EditorSets
  \/ ElsewhereStep \/ CallWaiting
  \/ \E t \in Thread : \E e \in Trying[t] : CallTrying(t, e)

Spec == Init /\ [][Next]_vars

(* The main thread is scheduled, and the author's main-thread methods return.  Nothing is
   assumed of the audio thread, which may be stuck in process for ever. *)
FairSpec == Spec /\ WF_vars(MainStep)
-----------------------------------------------------------------------------
Places == {"idle", "waiting", "holding", "between", "closing", "dropping"} \cup Outcomes

TypeOK ==
  /\ InstanceTypeOK
  /\ locked \in BOOLEAN /\ inside \in [Thread -> BOOLEAN]
  /\ at \in [Thread -> Places]
  /\ doing["main"] \in Waiting \cup Trying["main"] \cup {Nothing}
  /\ doing["audio"] \in Trying["audio"] \cup {Nothing}
  /\ yields \in 0 .. MaxYields /\ clapConfig \in Sizes
  /\ editor \in {"none", "made", "opened", "closed"} /\ editorOpen \in BOOLEAN
  /\ params \in [Ids -> Values] /\ blob \in State

(* A thread that holds the lock. *)
Holds(t) == at[t] \notin {"idle", "waiting", "dropping"}

(* lock.rs: "two live `&mut` to one plug-in is undefined behaviour".  At most one thread is
   in a body, and the lock is taken exactly while one is, so that neither a panic nor a
   call given up leaves it taken. *)
MutualExclusion ==
  /\ ~(Holds("main") /\ Holds("audio"))
  /\ locked <=> \E t \in Thread : Holds(t)

(* A project is saved as of one moment and loaded as a whole: what state_save has read of
   the parameters is still what they are when it has read the last one, and what
   state_load has written is still there when it asks the controller, whatever the audio
   thread processes or flushes meanwhile. *)
StateMovesWhole ==
  doing["main"][1] \in {"save", "load"} => \A p \in DOMAIN blob : blob[p] = params[p]

(* plugin_deactivate: a host that forgot stop_processing is not left with an instance
   stuck in Processing.  A deactivate that got the lock ends with an instance that the
   next activate can prepare, or a poisoned or never initialised one, whatever the audio
   thread tried meanwhile. *)
DeactivateLands ==
  [][doing["main"][1] = "deactivate" /\ Holds("main") /\ at'["main"] = "idle"
       => inst \in {"Created", "Inactive", "Poisoned"}]_vars

(* plugin_destroy: "an editor dropped with its window still attached is a classic way to
   take a DAW down".  No opened editor is dropped before close was called on it, poisoned
   or not, unless the host destroys the instance from within a call of another one. *)
EditorClosedFirst ==
  [][editor = "opened" /\ editor' = "none" => inside["main"] /\ at["main"] = "dropping"]_vars

(* The author's code is entered only as its contract allows, although two threads call:
   never re-prepared while a start is under way, never processing more than prepared,
   never again after a panic. *)
ImplementsContract == Contract!Spec

(* lock.rs: a call of the main thread returns, even when the audio thread never leaves
   process. *)
MainCallsReturn ==
  at["main"] \notin {"idle", "dropping"} ~> at["main"] \in {"idle", "dropping"}
=============================================================================
