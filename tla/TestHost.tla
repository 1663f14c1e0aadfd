------------------------------ MODULE TestHost ------------------------------
(***************************************************************************)
(* daux-host: TestHost (host.rs), its instances (instance.rs) and the      *)
(* worker tasks it records (services.rs).  A native instance is called     *)
(* directly and queues events in an EventBuffer; a loaded one goes through *)
(* daux-runtime and queues them in the EventList of its HostBlock, which   *)
(* is rebuilt when a block comes with another number of channels.          *)
(*                                                                         *)
(* All calls of the host come from one thread.  The plug-ins schedule      *)
(* tasks at any moment, from threads of their own, and push events while a *)
(* block is with them.  A call that is refused and changes nothing is not  *)
(* a step; steady_time and the plug-ins' parameters are left out.          *)
(***************************************************************************)
EXTENDS Integers, Sequences, SequencesExt

CONSTANTS
  EventCapacity,    \* EVENT_CAPACITY
  EventBytes,       \* EVENT_BYTES, in units of payload
  EventWords,       \* EVENT_BYTES, in words of an EventList
  WorkerCapacity,   \* WORKER_CAPACITY
  NoteTimes,        \* the offsets the caller queues a note at
  Times,            \* the offsets a plug-in pushes an event at
  Shapes,           \* the channel counts the caller's storage may have
  MaxInstances,     \* bound: instances ever installed
  MaxPushes,        \* bound: events a plug-in pushes in a block
  MaxTasks          \* bound: tasks scheduled in a run

ASSUME TestHostAssumption ==
  /\ WorkerCapacity \in Nat \ {0}
  /\ {NoteTimes, Times, Shapes} \subseteq SUBSET Nat /\ 0 \notin Shapes
  /\ {EventCapacity, EventBytes, EventWords, MaxInstances, MaxPushes, MaxTasks} \subseteq Nat

Buffer == INSTANCE EventBuffer WITH MaxEvents <- EventCapacity, MaxBytes <- EventBytes
List   == INSTANCE EventList WITH MaxEvents <- EventCapacity, MaxWords <- EventWords

VARIABLES
  instances,   \* the host's slots, by instance id
  worker,      \* HarnessHost.worker
  at,          \* where the host's thread is, for whom, with which tasks in hand,
               \* and after how many pushes of the plug-in it called
  tasks,       \* history: the tasks scheduled with success, which are 1 .. tasks
  ran,         \* history: the tasks on_worker was entered with
  spent        \* history: the tasks taken from the queue and not run

taskVars == <<worker, tasks, ran, spent>>
hostVars == <<instances, at, taskVars>>

Ids   == DOMAIN instances
Alive == {i \in Ids : instances[i].life # "gone"}
Idle  == [stage |-> "idle", who |-> 0, hand |-> <<>>, pushes |-> 0]

HostInit ==
  /\ instances = <<>>
  /\ worker = <<>> /\ at = Idle
  /\ tasks = 0 /\ ran = <<>> /\ spent = {}

-----------------------------------------------------------------------------
(* The two kinds of event list behind one interface. *)
EmptyList(kind)     == IF kind = "native" THEN Buffer!Empty ELSE List!Empty
Accepts(kind, l, e) == IF kind = "native" THEN Buffer!Accepts(l, e) ELSE List!Accepts(l, e)
Push(kind, l, e)    == IF kind = "native" THEN Buffer!TryPush(l, e) ELSE List!TryPush(l, e)
Sorts(kind, l)      == IF kind = "native" THEN Buffer!Sorted(l) ELSE {List!SortByTime(l)}
Read(kind, l)       == IF kind = "native" THEN Buffer!Read(l) ELSE List!Read(l)

NewInstance(kind) ==
  [kind |-> kind, life |-> "running", shape |-> 0,
   input |-> EmptyList(kind), output |-> EmptyList(kind),
   accepted |-> <<>>,   \* history: what the caller was told is queued
   pushed |-> <<>>]     \* history: what the plug-in was told is stored in its block

(* install_plugin and load_plugin; a plug-in that refuses to start leaves nothing behind. *)
InstallPlugin(kind) ==
  /\ at = Idle /\ Len(instances) < MaxInstances
  /\ instances' = Append(instances, NewInstance(kind))
  /\ UNCHANGED <<at, taskVars>>

(* unload: the slot stays, and its id with it. *)
Unload(i) ==
  /\ at = Idle /\ i \in Alive
  /\ instances' = [instances EXCEPT ![i] = [NewInstance(@.kind) EXCEPT !.life = "gone"]]
  /\ UNCHANGED <<at, taskVars>>

-----------------------------------------------------------------------------
(* An instance with an event queued, or refused. *)
Queued(x, time) ==
  LET e == [time |-> time, id |-> Len(x.accepted) + 1, len |-> 0]
  IN [x EXCEPT !.input = Push(x.kind, @, e),
               !.accepted = IF Accepts(x.kind, x.input, e) THEN Append(@, e) ELSE @]

(* try_set_param; the parameters of a poisoned plug-in cannot be asked for. *)
SetParam(i) ==
  /\ at = Idle /\ i \in Alive /\ instances[i].life # "poisoned"
  /\ instances' = [instances EXCEPT ![i] = Queued(@, 0)]
  /\ UNCHANGED <<at, taskVars>>

(* try_send_note *)
SendNote(i, time) ==
  /\ at = Idle /\ i \in Alive
  /\ instances' = [instances EXCEPT ![i] = Queued(@, time)]
  /\ UNCHANGED <<at, taskVars>>

-----------------------------------------------------------------------------
Calls(i) == at' = [Idle EXCEPT !.stage = "process", !.who = i]

(* NativeInstance::process: the input is sorted, and the block goes to the plug-in. *)
ProcessNative(i) ==
  /\ at = Idle /\ i \in Alive /\ instances[i].kind = "native"
  /\ \E input \in Sorts("native", instances[i].input) :
       instances' = [instances EXCEPT ![i].input = input, ![i].output = EmptyList("native"),
                                      ![i].pushed = <<>>]
  /\ Calls(i)
  /\ UNCHANGED taskVars

(* Mutant: the rebuilt block starts with an empty queue. *)
ReshapeAfresh(x, shape) ==
  IF x.shape = shape THEN x
  ELSE [x EXCEPT !.shape = shape, !.input = List!Empty, !.output = List!Empty, !.pushed = <<>>]

(* reshape: a rebuilt block keeps the queue and starts with no output. *)
Reshape(x, shape) ==
  IF x.shape = shape THEN x
  ELSE [x EXCEPT !.shape = shape, !.output = List!Empty, !.pushed = <<>>]

(* LoadedInstance::process, where the runtime calls the plug-in: its input goes to it as
   it was queued. *)
ProcessLoaded(i, shape) ==
  /\ at = Idle /\ i \in Alive /\ instances[i].kind = "loaded" /\ instances[i].life = "running"
  /\ instances' = [instances EXCEPT ![i] =
       [Reshape(@, shape) EXCEPT !.output = List!Empty, !.pushed = <<>>]]
  /\ Calls(i)
  /\ UNCHANGED taskVars

(* The same, where the runtime refuses to call the plug-in: the input is lost, and the
   output stays what it was. *)
ProcessRefused(i, shape) ==
  /\ at = Idle /\ i \in Alive /\ instances[i].kind = "loaded" /\ instances[i].life # "running"
  /\ instances' = [instances EXCEPT ![i] =
       [Reshape(@, shape) EXCEPT !.input = List!Empty, !.accepted = <<>>]]
  /\ UNCHANGED <<at, taskVars>>

(* The plug-in pushes an event, with a payload or without. *)
PluginPushes(time, len) ==
  /\ at.stage = "process" /\ at.pushes < MaxPushes
  /\ LET x == instances[at.who]
         e == [time |-> time, id |-> Len(x.pushed) + 1, len |-> len]
     IN instances' = [instances EXCEPT
          ![at.who].output = Push(x.kind, @, e),
          ![at.who].pushed = IF Accepts(x.kind, x.output, e) THEN Append(@, e) ELSE @]
  /\ at' = [at EXCEPT !.pushes = @ + 1]
  /\ UNCHANGED taskVars

(* Its process returns: the output is sorted, the input cleared. *)
ProcessReturns ==
  /\ at.stage = "process"
  /\ LET x == instances[at.who] IN
     \E output \in Sorts(x.kind, x.output) :
       instances' = [instances EXCEPT ![at.who].output = output,
                                      ![at.who].input = EmptyList(x.kind), ![at.who].accepted = <<>>]
  /\ at' = Idle
  /\ UNCHANGED taskVars

(* LoadedInstance::reset stops, resets and starts the plug-in; where the start fails or
   panics the plug-in stays stopped, and the next reset fails at stop_processing. A
   native reset and one that works leave what is modelled as it was. *)
ResetFails(i, life) ==
  /\ at = Idle /\ i \in Alive /\ instances[i].kind = "loaded" /\ instances[i].life = "running"
  /\ instances' = [instances EXCEPT ![i].life = life]
  /\ UNCHANGED <<at, taskVars>>

-----------------------------------------------------------------------------
(* schedule, from any thread of a plug-in: refused when the queue is full. *)
Schedule(i) ==
  /\ i \in Alive /\ tasks < MaxTasks
  /\ Len(worker) < WorkerCapacity
  /\ worker' = Append(worker, tasks + 1) /\ tasks' = tasks + 1
  /\ UNCHANGED <<instances, at, ran, spent>>

(* run_callbacks is called, with a handle that may be stale. *)
StartPump(i) ==
  /\ at = Idle /\ i \in Ids
  /\ at' = [Idle EXCEPT !.stage = "take", !.who = i]
  /\ UNCHANGED <<instances, taskVars>>

(* take_worker_tasks pops until the queue is empty, whoever scheduled the tasks. *)
TakeTask ==
  /\ at.stage = "take" /\ worker # <<>>
  /\ at' = [at EXCEPT !.hand = Append(@, Head(worker))]
  /\ worker' = Tail(worker)
  /\ UNCHANGED <<instances, tasks, ran, spent>>

TakenAll == at.stage = "take" /\ worker = <<>>

(* get_mut refuses a stale handle, and a loaded plug-in is told of no task: those that
   have been taken go. *)
PumpWithoutWork ==
  /\ TakenAll
  /\ instances[at.who].kind = "loaded" \/ at.who \notin Alive
  /\ spent' = spent \cup Range(at.hand)
  /\ at' = Idle
  /\ UNCHANGED <<instances, worker, tasks, ran>>

PumpNative ==
  /\ TakenAll
  /\ instances[at.who].kind = "native" /\ at.who \in Alive
  /\ at' = [at EXCEPT !.stage = "work"]
  /\ UNCHANGED <<instances, taskVars>>

(* Mutant: the list of tasks is run from its end. *)
OnWorkerBackwards ==
  /\ at.stage = "work" /\ at.hand # <<>>
  /\ ran' = Append(ran, Last(at.hand))
  /\ at' = [at EXCEPT !.hand = Front(@)]
  /\ UNCHANGED <<instances, worker, tasks, spent>>

OnWorker ==
  /\ at.stage = "work" /\ at.hand # <<>>
  /\ ran' = Append(ran, Head(at.hand))
  /\ at' = [at EXCEPT !.hand = Tail(@)]
  /\ UNCHANGED <<instances, worker, tasks, spent>>

(* on_main_thread, whether or not anything was asked or run. *)
OnMainThread ==
  /\ at.stage = "work" /\ at.hand = <<>>
  /\ at' = Idle
  /\ UNCHANGED <<instances, taskVars>>

-----------------------------------------------------------------------------
Call(i) ==
  \/ Unload(i) \/ SetParam(i)
  \/ \E time \in NoteTimes : SendNote(i, time)
  \/ ProcessNative(i)
  \/ \E shape \in Shapes : ProcessLoaded(i, shape) \/ ProcessRefused(i, shape)
  \/ \E life \in {"stopped", "poisoned"} : ResetFails(i, life)
  \/ StartPump(i)

HostNext ==
  \/ \E kind \in {"native", "loaded"} : InstallPlugin(kind)
  \/ \E i \in Ids : Call(i) \/ Schedule(i)
  \/ \E time \in Times, len \in {0, 1} : PluginPushes(time, len)
  \/ ProcessReturns \/ TakeTask \/ PumpWithoutWork \/ PumpNative \/ OnWorker \/ OnMainThread

HostSpec == HostInit /\ [][HostNext]_hostVars

-----------------------------------------------------------------------------
(* The queue of tasks and the lists of events keep to their capacities. *)
HostTypeOK ==
  /\ Len(instances) <= MaxInstances
  /\ \A i \in Ids :
       /\ instances[i].life \in {"running", "stopped", "poisoned", "gone"}
       /\ \A l \in {instances[i].input, instances[i].output} :
            Len(Read(instances[i].kind, l)) <= EventCapacity
  /\ worker \in Seq(1 .. tasks) /\ Len(worker) <= WorkerCapacity
  /\ at.stage \in {"idle", "process", "take", "work"} /\ at.who \in {0} \cup Ids
  /\ at.stage \in {"idle", "process"} => at.hand = <<>>

Earlier(e, f) == e.time < f.time \/ (e.time = f.time /\ e.id < f.id)

InOrder(s, Before(_, _)) == \A j, k \in DOMAIN s : j < k => Before(s[j], s[k])

(* What a list shows of the events it accepted: each of them once, with its payload. *)
Shows(seen, events) ==
  /\ Len(seen) = Len(events)
  /\ Range(seen) = {[time |-> e.time, id |-> e.id, payload |-> [k \in 1 .. e.len |-> e.id]] :
                      e \in Range(events)}

(* A block brings a plug-in what the caller was told is queued since the block before, in
   time order and, where times are equal, in the caller's order for a native one; in the
   caller's order for a loaded one (instance.rs process and reshape). *)
InputsArrive ==
  at.stage = "process" =>
    LET x    == instances[at.who]
        seen == Read(x.kind, x.input)
    IN /\ Shows(seen, x.accepted)
       /\ IF x.kind = "native" THEN InOrder(seen, Earlier)
          ELSE InOrder(seen, LAMBDA e, f : e.id < f.id)

(* What output_events shows after a block is what the plug-in was told is stored, in time
   order and among equal times as pushed. *)
OutputsReadBack ==
  \A i \in Alive :
    \/ at.stage = "process" /\ at.who = i
    \/ LET seen == Read(instances[i].kind, instances[i].output)
       IN Shows(seen, instances[i].pushed) /\ InOrder(seen, Earlier)

(* Both lists give back what they accepted, each event once and with the payload it came
   with, although they refuse others for two reasons, their sorts move records and not
   payloads, and a block is rebuilt with events in its queue (buffer.rs, events.rs). *)
ListsGiveBack == InputsArrive /\ OutputsReadBack

(* Every task that was accepted is in one place: run, spent with a call that could not
   run it, in the host's hands, or queued; those still to be run come in the order they
   were accepted, after those that have been (services.rs take_worker_tasks, host.rs
   run_callbacks). *)
TasksAccounted ==
  /\ HostTypeOK
  /\ LET line == ran \o at.hand \o worker
     IN /\ Range(line) \cup spent = 1 .. tasks
        /\ Range(line) \cap spent = {}
        /\ InOrder(line, <)
=============================================================================
