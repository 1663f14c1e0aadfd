--------------------------- MODULE ModuleLifetime ---------------------------
(***************************************************************************)
(* daux-runtime: who keeps the code of a hosted plug-in loaded.  AxtModule *)
(* (module.rs) is shared by an Arc, FactoryInner (factory.rs) holds one    *)
(* and the host bridge, and is shared by an Arc itself, and LoadedPlugin   *)
(* (HostedPlugin) holds one of those.                                      *)
(*                                                                         *)
(* Values may be dropped on any thread, so the last count of an Arc may be *)
(* given back anywhere, with other drops and calls in between.  A thread   *)
(* has what it is still to drop in doing; creating happens on the main     *)
(* thread.  A foreign host has a loader of its own.                        *)
(***************************************************************************)
EXTENDS HostedPlugin, Sequences, FiniteSets

CONSTANTS
  Threads, MainThread,
  MaxArcs       \* bound: Arcs of the module, and handles of the factory, held at a time

ASSUME ModuleLifetimeAssumption ==
  MainThread \in Threads /\ IsFiniteSet(Threads) /\ MaxArcs \in Nat \ {0}

VARIABLES
  mapped,       \* the library is in memory
  moduleRefs,   \* strong count of Arc<AxtModule>
  arcs,         \* those of them a caller holds
  factory,      \* what the module has, the bridge, the strong count, the callers' handles
  held,         \* there is a LoadedPlugin, with its Arc<FactoryInner>
  doing         \* per thread: the drops it is in, the innermost first

lifeVars == <<mapped, moduleRefs, arcs, factory, held, doing>>
allVars  == <<vars, lifeVars>>

LifeTypeOK ==
  /\ TypeOK
  /\ mapped \in BOOLEAN /\ moduleRefs \in Nat /\ arcs \in 0 .. MaxArcs /\ held \in BOOLEAN
  /\ factory \in [inside : {"none", "live", "destroyed"}, bridge : BOOLEAN,
                  refs : Nat, handles : 0 .. MaxArcs]
  /\ \A t \in Threads : doing[t] \in
       Seq({"create", "plugin", "factory", "destroy", "module", "unmap", "bridge"})

(* AxtModule::open has succeeded. *)
LifeInit ==
  /\ Init
  /\ mapped = TRUE /\ moduleRefs = 1 /\ arcs = 1 /\ held = FALSE
  /\ factory = [inside |-> "none", bridge |-> FALSE, refs |-> 0, handles |-> 0]
  /\ doing = [t \in Threads |-> <<>>]

Rests(t)      == doing[t] = <<>>
Is(t, step)   == ~Rests(t) /\ Head(doing[t]) = step
Goes(t, left) == doing' = [doing EXCEPT ![t] = left \o IF Rests(t) THEN <<>> ELSE Tail(@)]

(* The plug-in is held, and no thread is dropping it. *)
Usual == held /\ \A t \in Threads : ~Is(t, "plugin")

(* A caller has a borrow of the module: of its Arc, of the factory, or of the plug-in. *)
Borrowed == arcs > 0 \/ factory.handles > 0 \/ Usual

(* create_plugin has a borrow of the factory, until it returns. *)
Creating == ~Rests(MainThread) /\ ~held /\ host.state \in {"Created", "Inactive", "Destroying"}

-----------------------------------------------------------------------------
(* Arc::clone of what module() returns. *)
CloneModule(t) ==
  /\ Rests(t) /\ Borrowed /\ arcs < MaxArcs
  /\ arcs' = arcs + 1 /\ moduleRefs' = moduleRefs + 1
  /\ UNCHANGED <<vars, mapped, factory, held, doing>>

DropModule(t) ==
  /\ Rests(t) /\ arcs > 0
  /\ arcs' = arcs - 1
  /\ Goes(t, <<"module">>)
  /\ UNCHANGED <<vars, mapped, moduleRefs, factory, held>>

(* LoadedFactory::create takes one Arc and the bridge. *)
CreateFactory ==
  /\ Rests(MainThread) /\ arcs > 0 /\ factory.inside = "none"
  /\ arcs' = arcs - 1
  /\ factory' = [inside |-> "live", bridge |-> TRUE, refs |-> 1, handles |-> 1]
  /\ UNCHANGED <<vars, mapped, moduleRefs, held, doing>>

(* Mutant: an unusable table is refused and its factory forgotten. *)
RefuseFactoryLeaking(made) ==
  /\ Rests(MainThread) /\ arcs > 0 /\ factory.inside = "none"
  /\ arcs' = arcs - 1
  /\ factory' = [factory EXCEPT !.inside = IF made THEN "live" ELSE "none"]
  /\ Goes(MainThread, <<"module">>)
  /\ UNCHANGED <<vars, mapped, moduleRefs, held>>

(* It fails. A factory behind an unusable table was made and is destroyed; the bridge,
   which is the later parameter, is dropped before the Arc. *)
RefuseFactory(made) ==
  /\ Rests(MainThread) /\ arcs > 0 /\ factory.inside = "none"
  /\ arcs' = arcs - 1
  /\ factory' = [factory EXCEPT !.inside = IF made THEN "destroyed" ELSE "none"]
  /\ Goes(MainThread, <<"module">>)
  /\ UNCHANGED <<vars, mapped, moduleRefs, held>>

CloneFactory(t) ==
  /\ Rests(t) /\ factory.handles \in 1 .. MaxArcs - 1
  /\ factory' = [factory EXCEPT !.handles = @ + 1, !.refs = @ + 1]
  /\ UNCHANGED <<vars, mapped, moduleRefs, arcs, held, doing>>

DropFactory(t) ==
  /\ Rests(t) /\ factory.handles > IF Creating THEN 1 ELSE 0
  /\ factory' = [factory EXCEPT !.handles = @ - 1]
  /\ Goes(t, <<"factory">>)
  /\ UNCHANGED <<vars, mapped, moduleRefs, arcs, held>>

(* create_plugin calls into the module. *)
CreatePlugin ==
  /\ Rests(MainThread) /\ factory.handles > 0
  /\ HostCreate
  /\ Goes(MainThread, <<"create">>)
  /\ UNCHANGED <<mapped, moduleRefs, arcs, factory, held>>

(* Mutant: a plug-in borrows its factory and does not share it. *)
InitPluginUncounted ==
  /\ Is(MainThread, "create")
  /\ HostInit
  /\ held' = (reply' = "ok") /\ UNCHANGED factory
  /\ Goes(MainThread, IF held' THEN <<>> ELSE <<"plugin">>)
  /\ UNCHANGED <<mapped, moduleRefs, arcs>>

(* It calls init. A plug-in that is ready takes an Arc of the factory, one that is not is
   destroyed before create_plugin returns. *)
InitPlugin ==
  /\ Is(MainThread, "create")
  /\ HostInit
  /\ IF reply' = "ok" THEN held' = TRUE /\ factory' = [factory EXCEPT !.refs = @ + 1]
                      ELSE UNCHANGED <<held, factory>>
  /\ Goes(MainThread, IF held' THEN <<>> ELSE <<"plugin">>)
  /\ UNCHANGED <<mapped, moduleRefs, arcs>>

(* What a caller does with the plug-in it holds, on whichever thread. *)
UsePlugin ==
  /\ Usual
  /\ \/ HostStart \/ HostDeactivate \/ HostStop \/ HostReset \/ HostConsult
     \/ \E n \in Sizes : HostActivate(n) \/ HostProcess(n)
  /\ UNCHANGED lifeVars

DropPlugin(t) ==
  /\ Rests(t) /\ Usual
  /\ Goes(t, <<"plugin">>)
  /\ UNCHANGED <<vars, mapped, moduleRefs, arcs, factory, held>>

-----------------------------------------------------------------------------
(* LoadedPlugin::drop, call by call; then its Arc of the factory goes. *)
ReleasePlugin(t) ==
  /\ Is(t, "plugin")
  /\ \/ (DropStop \/ DropDeactivate \/ DropDestroy) /\ UNCHANGED <<held, doing>>
     \/ /\ DropFields
        /\ held' = FALSE
        /\ Goes(t, IF held THEN <<"factory">> ELSE <<>>)
  /\ UNCHANGED <<mapped, moduleRefs, arcs, factory>>

(* One count of an Arc<FactoryInner> is given back. The last one runs FactoryInner::drop
   and drops the fields in their order, module before host. *)
ReleaseFactory(t) ==
  /\ Is(t, "factory")
  /\ factory' = [factory EXCEPT !.refs = @ - 1]
  /\ Goes(t, IF factory.refs = 1 THEN <<"destroy", "module", "bridge">> ELSE <<>>)
  /\ UNCHANGED <<vars, mapped, moduleRefs, arcs, held>>

DestroyFactory(t) ==
  /\ Is(t, "destroy")
  /\ factory' = [factory EXCEPT !.inside = "destroyed"]
  /\ Goes(t, <<>>)
  /\ UNCHANGED <<vars, mapped, moduleRefs, arcs, held>>

(* One count of the Arc<AxtModule>; the last one unmaps the image. *)
ReleaseModule(t) ==
  /\ Is(t, "module")
  /\ moduleRefs' = moduleRefs - 1
  /\ Goes(t, IF moduleRefs = 1 THEN <<"unmap">> ELSE <<>>)
  /\ UNCHANGED <<vars, mapped, arcs, factory, held>>

Unmap(t) ==
  /\ Is(t, "unmap")
  /\ mapped' = FALSE
  /\ Goes(t, <<>>)
  /\ UNCHANGED <<vars, moduleRefs, arcs, factory, held>>

DropBridge(t) ==
  /\ Is(t, "bridge")
  /\ factory' = [factory EXCEPT !.bridge = FALSE]
  /\ Goes(t, <<>>)
  /\ UNCHANGED <<vars, mapped, moduleRefs, arcs, held>>

Drop(t) ==
  \/ ReleasePlugin(t) \/ ReleaseFactory(t) \/ DestroyFactory(t)
  \/ ReleaseModule(t) \/ Unmap(t) \/ DropBridge(t)

LifeNext ==
  \/ CreateFactory \/ CreatePlugin \/ InitPlugin \/ UsePlugin
  \/ \E made \in BOOLEAN : RefuseFactory(made)
  \/ \E t \in Threads :
       \/ CloneModule(t) \/ DropModule(t) \/ CloneFactory(t) \/ DropFactory(t)
       \/ DropPlugin(t) \/ Drop(t)
  \/ Foreign /\ UNCHANGED lifeVars

(* A drop that has begun goes on. *)
LifeSpec == LifeInit /\ [][LifeNext]_allVars /\ \A t \in Threads : WF_allVars(Drop(t))

-----------------------------------------------------------------------------
(* Whatever a caller still holds is there to be called, in whatever order and on
   whichever threads the rest is dropped: the module that an Arc names is mapped; the
   factory of a handle, and of an instance at any point of its life up to the end of its
   destroy, exists in it, with the bridge it was given (abi-v1 16.1, which factory.rs:54
   has "by construction"). *)
WhatIsHeldIsThere ==
  /\ LifeTypeOK
  /\ arcs > 0 => mapped
  /\ factory.handles > 0 => factory.inside = "live"
  /\ host.state \notin {"Foreign", "None", "Gone"} => factory.inside = "live"
  /\ factory.inside = "live" => mapped /\ factory.bridge

(* When callers have let go of everything, on as many threads as they like, the plug-in
   and the factory are destroyed, the library is unmapped and the bridge is gone in the
   end. *)
AllGone ==
  /\ host.state \in {"Foreign", "None", "Gone"} /\ factory.inside # "live"
  /\ ~mapped /\ ~factory.bridge
LettingGoUnloads == ~Borrowed ~> AllGone

-----------------------------------------------------------------------------
(* Why: what a thread can have before it, *)
Resting        == <<>>
ToCreate       == <<"create">>
ToPlugin       == <<"plugin">>
ToFactory      == <<"factory">>
ToDestroy      == <<"destroy", "module", "bridge">>
ToModuleBridge == <<"module", "bridge">>
ToUnmapBridge  == <<"unmap", "bridge">>
ToBridge       == <<"bridge">>
ToModule       == <<"module">>
ToUnmap        == <<"unmap">>

Drops == {Resting, ToCreate, ToPlugin, ToFactory, ToDestroy, ToModuleBridge, ToUnmapBridge,
          ToBridge, ToModule, ToUnmap}

CountsModule == {ToDestroy, ToModuleBridge, ToModule}

(* how many threads have one of these before them, *)
Count(d, these) == Cardinality({t \in Threads : d[t] \in these})

LifeType ==
  /\ mapped \in BOOLEAN /\ moduleRefs \in Nat /\ arcs \in 0 .. MaxArcs /\ held \in BOOLEAN
  /\ factory \in [inside : {"none", "live", "destroyed"}, bridge : BOOLEAN,
                  refs : Nat, handles : 0 .. MaxArcs]
  /\ doing \in [Threads -> Drops]

(* each strong count is the number of its holders, those that are giving theirs back
   among them, *)
Counted ==
  /\ factory.refs = factory.handles + Count(doing, {ToFactory}) + IF held THEN 1 ELSE 0
  /\ moduleRefs = arcs + Count(doing, CountsModule) + IF factory.refs > 0 THEN 1 ELSE 0

(* the factory lives until the thread that gave back the last count has destroyed it, and
   the bridge longer, *)
FactoryInv ==
  /\ factory.refs > 0 => factory.inside = "live"
  /\ factory.inside = "live" =>
       factory.bridge /\ (factory.refs > 0 \/ \E t \in Threads : doing[t] = ToDestroy)
  /\ \A t \in Threads :
       /\ doing[t] = ToDestroy => factory.refs = 0 /\ factory.inside = "live"
       /\ doing[t] \in {ToModuleBridge, ToUnmapBridge, ToBridge} => factory.inside = "destroyed"
  /\ \A t, u \in Threads : doing[t] = ToDestroy /\ doing[u] = ToDestroy => t = u

(* the module is mapped until the last of its counts is gone, *)
ModuleInv ==
  /\ moduleRefs > 0 => mapped
  /\ \A t \in Threads : doing[t] \in {ToUnmap, ToUnmapBridge} => moduleRefs = 0

(* and a plug-in is held, dropped by one thread, or in the hands of create_plugin, which
   borrows the factory. *)
HeldInv ==
  /\ held => host.state \in {"Inactive", "Active", "Processing", "Destroying"}
  /\ ~held /\ host.state \notin {"Foreign", "None", "Gone"} =>
       /\ factory.handles > 0 /\ host.state \in {"Created", "Inactive", "Destroying"}
       /\ doing[MainThread] = IF host.state = "Created" THEN ToCreate ELSE ToPlugin
  /\ \A t \in Threads :
       /\ doing[t] = ToCreate => t = MainThread /\ host.state = "Created"
       /\ doing[t] = ToPlugin =>
            /\ host.state \in {"Inactive", "Active", "Processing", "Destroying"}
            /\ held \/ t = MainThread
  /\ \A t, u \in Threads : doing[t] = ToPlugin /\ doing[u] = ToPlugin => t = u

LifeInv == LifeType /\ Counted /\ FactoryInv /\ ModuleInv /\ HeldInv
=============================================================================
