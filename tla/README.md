# A TLA+ development of dauxplugin

dauxplugin is a Rust framework for audio plug-ins: the plug-in side (an author's
`DauxProcessor`, wrapped and exported through a C ABI or as CLAP or VST3), the host side
(finding bundles, loading them, driving instances), and the lock-free and cross-process
machinery both sides stand on. This directory models the parts of it whose correctness
depends on *order*: of two threads' memory accesses, of two processes' messages, of the
calls a host makes, of a crash and the next start.

## 1. The system

| Part (crate) | State it keeps | Operations | Meets |
| --- | --- | --- | --- |
| SPSC ring (`daux-rt/spsc.rs`) | `head`, `tail`, each side's cached copy of the other's, the slots | push, pop, peek, len/is_empty/is_full, drop of either half | used by the loopback transport |
| Triple buffer (`daux-rt/triple.rs`) | three slots, the hand-off word (index and DIRTY) | write, publish, read, read_if_updated | shared by two threads |
| MPSC queue (`daux-rt/mpsc.rs`) | two dispensers, a sequence number per slot | try_push, pop, drain of `Drop` | under `RtLogQueue` |
| Real-time log (`daux-rt/log.rs`) | the queue, the count of refused records | try_push, pop, take_dropped | threads that must not block, and one that prints |
| Control channel (`daux-ipc/channel.rs`, `loopback.rs`, framing and errors of `daux-protocol`) | inbox, poison; queue of segments, pending rest, `open` | send, poll, close, drop | two rings of segments, one per direction |
| Audio data plane (`daux-ipc/dataplane.rs`, `region.rs`) | per region an owner word, a sequence, header and planes | acquire, publish, death of a process | shared memory |
| Instance (`daux-plugin-api/instance.rs`) inside the ABI (`daux-format-axt/instance.rs`, `panic.rs`, `factory.rs`) | lifecycle state, two block limits, views of the host's buffers, the poison | the entries of `DauxPluginApiV1` | calls the author's code, which may fail or panic |
| Hosted plug-in (`daux-runtime/plugin.rs`, `factory.rs`) | a lifecycle and configuration of its own, `poisoned` | create, activate, start, process, stop, deactivate, reset, consult, drop | calls the entries above |
| Scanner (`daux-scan`) | journal, quarantine and cache on disk, their copies in memory | start, scan, scan_path, inspect, forget, clear, save | probes modules that may fail, hang or kill the process |
| CLAP instance (`daux-format-clap/plugin.rs`, `lock.rs`) | the lock and each thread's INSIDE flag, the instance, configuration, editor, parameter values | the entries of `clap_plugin` and its extensions that change state | two threads of a CLAP host; the author's code |
| VST3 object (`daux-format-vst3/component.rs`, `guard.rs`, `params.rs`, `stream.rs`, `view.rs`) | `Dsp`'s flags beside the instance, the parameter mirror and `pending`, the view, the references, two poisons | IComponent, IAudioProcessor, IEditController, IPlugView, queryInterface and release | a VST3 host's audio and UI threads; the author's code |
| Reference host (`daux-host/host.rs`, `instance.rs`, `services.rs`) | slots of instances, queued events, the worker's queue | install, unload, set_param, send_note, process, reset, run_callbacks; schedule | calls an author's plug-in directly or through the runtime; plug-ins ask it from their own threads |
| Event lists (`daux-events/buffer.rs`, `daux-runtime/events.rs`) | records, an arena of payloads, insertion numbers or offsets | try_push, sort_by_time, get, clear | one per direction in each instance of the host |
| Module lifetime (`daux-runtime/module.rs`, `factory.rs`, `host.rs`) | the Arcs between image, factory, plug-ins, bridge | open, create, create_plugin, clone and drop of each | dropped on any thread |
| Liveness policy, GUI backends, parameter arithmetic, state container and migration, MIDI, DSP, bundle, CLI, macros | | | not modelled, see section 8 |

What is hard, by kind: two threads over one slot (the three lock-free structures); values
that are read once and used later (cached counters, fingerprints, the pipe found empty);
frames cut anywhere; a peer that dies in the middle of anything; stores that become visible
in another order than they were made; two lifecycles kept on two sides of an interface half
of whose calls report nothing; one instance called from two threads, one of which may not wait;
a host that releases objects in any order; values kept twice, in a mirror and in the plug-in;
panics unwinding through code that expected to finish; a process that is killed by the code it
examines and must remember by which. `PROJECT.json` lists these hazards at their lines, each
with the properties that are about it.

What makes each part correct, in a line:

* ring, queue: no slot is ever in two hands; every item leaves once, in order; what a caller
  is told of room and items is so; nothing leaks when the structure is dropped.
* triple buffer: the reader sees one whole publication, the newest one, and never goes back.
* log: every record is handed out, still queued, or counted once as lost.
* channel: bytes arrive once and in order over any splitting; the i-th answer is about the
  i-th frame; the first failure is final; a peer that goes away is noticed.
* data plane: whoever sees a region as its own sees everything published in it, and no
  region is touched by two processes.
* instance and host: the author's code is driven as its trait promises, whatever a host
  calls; both sides agree on the state unless a panic parted them.
* CLAP instance: one thread in a body at a time; a project is saved as of one moment; teardown
  closes what is open and lands where it can be activated again; the main thread never hangs.
* VST3 object: the mirror ends up showing what the plug-in holds; the flags agree with the
  instance; nothing a view calls is dropped before it; broken code is not entered again.
* reference host and event lists: a block brings what was queued, once, in order and with its own
  payload; what a plug-in pushed reads back; a refusal changes nothing; every accepted task is run
  or accounted for.
* module lifetime: what is held can be called; when nothing is held, all of it goes, once and in
  order.

## 2. Modules

| Module | Models | Notes |
| --- | --- | --- |
| `BoundedFifo` | abstract | what a ring, and the tickets of the MPSC queue, promise: a bounded queue and what left it last |
| `RingSlots` | index masking | shared by the two rings |
| `DataLemmas` | lemmas only | remainders, adjacent intervals, induction over a set, concatenation of a sequence of sequences, a finite set as a sequence |
| `SpscRing`, `SpscRingProofs`, `MCSpscRing` | `spsc.rs` | one action per atomic access; counters of width `Laps * Capacity` wrap |
| `SnapshotRegister` | abstract | what a triple buffer promises: one register of snapshots |
| `TripleBuffer`, `MCTripleBuffer` | `triple.rs` | the plain copy is one action per field, so that a torn read would show |
| `MpscQueue` | `mpsc.rs` | any number of producers and consumers, a compare-exchange that may fail |
| `RtLog`, `MCRtLog` | `log.rs` | EXTENDS `MpscQueue`: each step is a step of the queue and what the log adds to it, so that one run checks both |
| `RtProofs` | proofs | of `MpscQueue`, `RtLog` and `TripleBuffer` |
| `ControlChannel`, `MCControlChannel` | `channel.rs`, `loopback.rs` | composes two segment queues; their rings are one step each because `SpscRing` implements `BoundedFifo` |
| `DspContract` | abstract | what `DauxProcessor` promises its author |
| `AxtInstance` | `PluginInstance` and the ABI entries | each of the author's methods succeeds, fails or panics |
| `PluginInstance` | `daux-plugin-api/instance.rs` for the adapters | each method of the author is two steps, entered and left, so that other threads move in between |
| `ClapInstance`, `ClapInstanceProofs`, `MCClapInstance` | `plugin.rs` and `lock.rs` of the CLAP adapter | an entry is a script of methods and parameter accesses, run under the lock |
| `Vst3Instance`, `Vst3InstanceProofs`, `MCVst3Instance` | the VST3 object and its view | the same, with the UI thread beside a block |
| `HostedPlugin`, `HostedPluginProofs` | `LoadedPlugin` over `AxtInstance`, or a foreign host | every host action contains the entry it calls |
| `ModuleLifetime`, `MCHostedPlugin` | `module.rs`, `factory.rs`, the `Drop` of `plugin.rs` | EXTENDS `HostedPlugin`: its steps, called by threads that hold Arcs of the factory and the module |
| `DataPlane`, `MCDataPlane` | `dataplane.rs` | stores wait in `buffered` and reach the memory in any order a Release allows |
| `IpcProofs` | proofs | of `ControlChannel` and `DataPlane` |
| `HostProofs` | proofs | of `Scanner`, and of `TestHost` with its two lists |
| `EventBuffer` | `daux-events/buffer.rs` | operators on a list and its byte arena; the unstable sort is any arrangement its key allows |
| `EventList` | `daux-runtime/events.rs` | operators on the arena of words and the table of offsets |
| `TestHost`, `MCTestHost` | `daux-host` | INSTANCEs both lists and treats them as one interface |

Names follow the source: variables carry the names of fields, actions those of methods, with
a suffix for the step of the method they are (`PushStart`, `PushReload`, `PushWrite`,
`PushPublish` are the four accesses of `Producer::push`). A variable marked *history* in a
module decides nothing; it remembers what a property asks about.

### How state and actions correspond to the code

* **SpscRing.** `head` and `tail` are the two atomics, `cachedHead` and `cachedTail` the
  `Cell`s beside them. `prod` and `cons` are the points in the calls between two accesses.
  `room` and `items` are what is_full and is_empty last told their caller. `Live` is the set
  of slots `Ring::drop` walks over.
* **TripleBuffer.** `middle` and `dirty` are the hand-off word; `writeIndex` and `readIndex`
  each side's own slot; `copied` the fields of the next copy made so far.
* **MpscQueue.** `head` and `tail` are the dispensers, `sequence` the slots' atomics,
  `ticket` each thread's local. `claims` is the history of what was claimed, in order.
* **RtLog.** The queue's variables, and `dropped`. `refused` holds the producers between the
  queue's refusal and the `fetch_add`; `pushes`, `delivered` and `reported` are history.
* **ControlChannel.** A byte is a pair of its frame's index and its place in it, so that
  order, loss and duplication show, while the contents of a frame are reduced to the kinds
  the reader tells apart. `poll` is PollStart, then takes from the inbox or the transport
  (`Drain`, `RecvPop`, `RecvOpen`, `RecvGone`), one action per shared access.
* **HostedPlugin / AxtInstance.** `inst` is `PluginInstance`'s state, extended by the moments
  before `create` and inside `destroy`; `config` and `axtConfig` are the two block limits
  kept by two different files; `views` says whether borrowed pointers to a host's buffers are
  still in the instance. `reply` is what the last entry returned; a `void` entry returns
  nothing the host could record.
* **PluginInstance.** `inst` is the lifecycle state, `config` the block limit it keeps; `dsp`,
  `sized` and `call` are what the author's code has been through, as `DspContract` has it.
  `Ready` is the table of calls the wrapper accepts; `Enter` and `Return` are the two ends of a
  method. How a panic is caught is the adapter's business and modelled there.
* **ClapInstance.** `at[t]` says where thread `t` is in its call and `doing[t]` in which entry;
  `script[t]` is what the entry's body has still to do. `CallTrying` and `LockMain` are the two
  ways to take the lock, `Begin` the gate of `run_locked`, `CatchPanic` its `catch_unwind`,
  `Released` the guard's drop. `ElsewhereStep` is the same thread in another instance, which
  moves the thread-local `INSIDE`. `destroy` has actions of its own, since it may run without
  the lock. `blob` is what save has read so far, or load written.
* **Vst3Instance.** One IComponent or IAudioProcessor call at a time (`doing`, `script`), with the
  UI thread's calls beside a block. `initialised`, `active`, `processing` and `setup` are `Dsp`'s
  copies of the lifecycle. `mirror` is the `ParamTable`, `params` the plug-in's own values,
  `events` and `sent` the block's two event lists, `echo` the edits a host has still to send
  back. `ui` is the point between the two stores of a controller or editor call. `torn` is the
  history of the parameters that a failed load, a controller state, a full event list, a refused
  block or a host without output changes left with a mirror that need not be right; section 6
  describes each. Whether a host takes output changes is decided where the code looks, block by
  block: `Emit` and `EmitNothing` are both possible.
* **TestHost.** An event carries its place among the accepted ones, so that order and loss show;
  its `len` units of payload show which event they belong to. `instances[i]` has the kind, the
  lists and whether the plug-in runs, is stopped, poisoned or gone; a `HostBlock` is its `shape`.
  A block is ProcessNative or ProcessLoaded, then a PluginPushes for each event, then
  ProcessReturns; a plug-in that does not run has ProcessRefused instead. `run_callbacks` is
  StartPump, one TakeTask per pop, PumpNative or PumpWithoutWork, one OnWorker per task, and
  OnMainThread; `at` is the point in either call. Schedule comes from a plug-in's threads at any
  of these points.
* **ModuleLifetime.** `moduleRefs` and `factory.refs` are the strong counts, `arcs` and
  `factory.handles` the parts of them that callers hold; `held` is the `LoadedPlugin`.
  `doing[t]` is what thread `t` is still to do, the innermost first: give back the plug-in (with
  HostedPlugin's DropStop, DropDeactivate, DropDestroy and DropFields), the factory's count,
  destroy the factory, give back the module's count, unmap, free the bridge. HostedPlugin's
  own calls are UsePlugin, by whoever holds the plug-in.

## 3. Runs

| Run | Instance | States | What it shows |
| --- | --- | --- | --- |
| `spsc_ring` | capacity 2, two values, wrap after 3 laps | 29,448 | no slot in two hands, no leak, answers as stable as they can be; implements `BoundedFifo` |
| `triple_buffer` | two fields, two values | 33,792 | no torn snapshot; implements `SnapshotRegister` |
| `rt_log` | 2 producers, 2 consumers, capacity 2, one value, 4 tickets, 4 pushes | 67,541 | of the queue: items kept, the drain frees all, Full and None are justified; of the log: every record is accounted for; and every claimed ticket is drained |
| `control_channel` | frames of 3 bytes, header 2, chunks of 2, queue of 1, 3 frames | 75,005 | order of bytes and answers, poison, and that frames and deaths are noticed |
| `hosted_plugin` | block sizes 1 to 3, default 2, 2 threads, 2 Arcs of the module and of the factory | 90,415 | the author's contract under either host, both sides' agreement, nothing held goes, and everything goes when nothing is held |
| `data_plane` | 1 region, 2 fields, 2 values | 34,944 (symmetry) | ownership and visibility |
| `scanner` | 2 bundles, one with two builds of any behaviour, 1 meddling | 392,164 | the journal, the quarantine and the cache over crashes |
| `clap` | 2 parameters of 2 values, block sizes 1 and 2, 2 rounds of the lock | 197,948 | two threads over one instance whose methods fail or panic: exclusion, whole states, teardown, the contract, and that the main thread returns |
| `vst3` | 1 parameter of 2 values, block sizes 1 and 2, 1 event, 2 references | 990,087 (symmetry) | mirror, flags, views and the contract, with releases in any order |
| `test_host` | 1 instance of either kind, lists of 2 events and 1 unit of payload, 3 pushes per block, 2 channel counts, worker queue of 2, 4 tasks | 48,810 | blocks bring what was queued and outputs read back, over full lists, sorts and a rebuilt block; tasks, with plug-ins scheduling while the host pumps |
| `last_bytes`, `scan_retry` | as `control_channel` and `scanner` | | violated: see section 6 |

Why the bounds are enough for what is asked:

* Capacity 2 is the least where a ring has a head slot that is not its tail slot, and both
  become full; six values of the counters make them wrap with items queued. The proofs cover
  every capacity and modulus.
* Four tickets over two slots carry every slot of the queue through two laps, which is where
  a producer can meet the consumer of the lap before. `MaxTickets` caps the dispensers, and
  `MaxPushes` the calls: four of them either take the four tickets, or are refused, for both
  producers at once, or for one of them before and after a report was taken or room was made.
  One value is enough, since `claims` is compared position by position and each position is
  also counted; the proofs cover any number of values, threads and tickets.
* A frame is longer than a receive chunk, the queue shorter than a frame, and the header
  longer than one byte, so every frame is split, every receive may end inside a header, and
  the writer meets a full queue. The sandbox writes and the host reads: the directions share
  nothing but the `open` flag, and closing or going away is possible for both ends.
* Three block sizes let an activation be smaller than the one before, smaller than the
  default, and let a block exceed either limit.
* Two parameters are the least that can be torn apart in a CLAP state. Two rounds of the lock
  let the main thread yield and then give up; `MAX_YIELDS` itself is a constant. A block may
  be empty, within and beyond what was prepared.
* One VST3 parameter meets every way a mirror can part from a plug-in, since no action relates
  two parameters but the limit on events; with a limit of one event, an automation lane after
  a resend is the one that is lost. `MaxHeld` caps the host's references: two let it keep one
  while the other goes, in any order with the view's. The values are interchangeable.
* Three pushes at two offsets, with and without payload, into a list of two events and one unit
  let a push be refused for either limit, be accepted after a refusal, and be sorted past another
  with the same time. The caller queues at two offsets as well. `MaxInstances` is one: the
  host's calls on one instance touch no other's lists, and a task may already be scheduled by
  an instance that is gone when the pump is called. `MaxTasks` of four over a queue of two lets
  one be refused, and two be scheduled while two are in the pump's hands.
* Two threads and two Arcs of each kind: the last count of each may be given back by either
  thread between the other's steps. `MaxArcs` caps clones.

Deadlock checking is off where the system may rest for good: both halves dropped, all frames
written and both ends gone, an instance destroyed, a process dead, the tickets used up. It
is on for the scanner and the reference host.

## 4. Fairness

Safety properties assume none. The liveness properties do:

* `EveryClaimDrained` (`LogFairSpec`, in `rt_log`): a thread inside a call goes on (it is not
  blocked by anything), a weak compare-exchange that is tried again and again succeeds in the
  end, and the consumer keeps polling (the consumer's loop is what the queue is for). Nothing
  makes a producer start.
* `DeathIsNoticed`, `FramesAreAnswered`: each end finishes the send or poll it is in, and
  polls again and again. `SF` on the start of a poll, because closing can disable it only for
  good. Nothing makes an end send or close.
* `MainCallsReturn`: the main thread is scheduled, and the author's main-thread methods return.
  Nothing is assumed of the audio thread, which may stay inside `process` for ever: it is the
  limit on yields that lets the main thread go.
* `LettingGoUnloads`: a drop that has begun goes on, for which the author's `stop_processing`,
  `deactivate` and `destroy` have to return. Nothing makes a caller drop anything: the property
  starts where nobody holds anything.

## 5. Proofs

Proved with TLAPS for every value of the constants that the named assumptions allow:

| Module | Theorems | Assumptions |
| --- | --- | --- |
| `SpscRingProofs` | `IndInv`, counters, `SlotOwnership`, `NoSharedSlot`, `NothingLeaks`, `AnswersAreStable`, `ImplementsFifo` | capacity at least 1, counters of at least two laps |
| `RtProofs`, queue | `IndInv`, `SlotExclusive`, `ItemsKept`, `DrainFreesAll`, `FullIsTrue`, `NoneIsTrue`, `TicketsAreFifo` | capacity at least 2 (`with_capacity` rounds up to it) |
| `RtProofs`, log | that the log implements the queue, `RecordsAccounted` | as the queue; any number of threads |
| `RtProofs`, triple buffer | `BufferInv`, partition of slots, `NoTearing`, `NewestIsReachable`, `UpdateIsTaken`, `ImplementsRegister` | the initial value is a value |
| `IpcProofs`, channel | `StreamIntact`, `PoisonIsFinal` | a frame, a read and a queue hold at least one byte or segment |
| `HostedPluginProofs` | `IndInv`, `HostAgrees`, `ViewsDieWithTheCall`, `PanicsAreHeardAtOnceOrNever`, `ImplementsContract`; of `ModuleLifetime` that it implements `HostedPlugin`, `LifeInv` and `WhatIsHeldIsThere` | the default size is a size; the threads are finitely many and the main thread is one of them |
| `IpcProofs`, data plane | `PlaneInv`, `NoSharedRegion`, `OwnedRegionIsWhole`, `AcquireReturnsPublished` | the markers are distinct |
| `HostProofs`, scanner | `IndInv`, `OnlyStruckAreBarred`, `BarredIsSkipped`, `HitsAreFresh` | builds are positive numbers |
| `HostProofs`, reference host | `HostInv`, `ListsGiveBack`, `TasksAccounted` with the types | capacities, shapes of blocks and times are natural numbers, the worker's queue holds at least one task |
| `ClapInstanceProofs` | `MutualExclusion`, `ImplementsContract`, `StateMovesWhole`, `DeactivateLands`, `EditorClosedFirst` | the parameters form a sequence |
| `Vst3InstanceProofs` | `FlagsAgree` with the types, `ViewsAreServed`, `ContractKept`, `MirrorMeetsPlugin` | the default size is a size, the parameters form a sequence of names, there is a value, the host may hold a reference |

Each goes through an inductive invariant (`IndInv`; for CLAP and VST3 in parts, each theorem using
those it needs), which was checked with TLC before it was proved and which is needed because the
property says nothing of the points in between. `SlotOwnership`,
`SlotExclusive`, the partition of the slots of the triple buffer and `NewestIsReachable` are
proved and not repeated in the runs, and neither are `UpdateIsTaken`, `TicketsAreFifo` and
`PanicsAreHeardAtOnceOrNever`:

* *ring*: the caches lie between the counters (`CountersOrdered`), what each program point
  has established (`PointsInv`), what an answer still promises (`AnswersInv`), and what each
  slot holds counted from `head` (`ContentsInv`). The refinement maps the queue to the slots
  between the counters; the abstract step is `PushPublish` or `PopRelease`, all else stutters.
* *triple buffer*: the three indices differ, and only the reader clears DIRTY, so that
  neither the bit nor the slot goes away between its load and its swap.
* *queue*: dispensers at most a lap apart, one owner per ticket (`OwnersInv`), and what the
  sequence of a slot nobody owns must be (`UnownedInv`). The heart of it is that two tickets
  within a lap have different slots (`RemaindersDiffer` of `DataLemmas`). The refinement
  (`TicketsAreFifo`) maps the FIFO to the claims between the dispensers: a won compare-exchange
  puts or takes, and nothing else shows, although an item may be put before it is written and
  taken before it is read. What the taker then gets is `ItemsKept`.
* *log*: every step is one of the queue or leaves it alone (`LogImplementsQueue`), so that the
  queue's invariant holds of the log. `LogInv` then counts at every point what `RecordsAccounted`
  counts only between calls: the slots that hold a record, the threads that have one in hand,
  the refusals not yet counted. Each step moves one record from one of these sets to the next,
  and because the queue gives no two threads the same slot, each set changes by one element.
* *control channel*: `ChannelInv` says of each direction that what lies in the transport's queue,
  in the segment under way and in the reader's inbox, joined from the inbox on, is the run of the
  stream from the first byte not yet consumed to the last one written (`Carried`), whatever the
  cuts. A step moves bytes across one of the joints (`CutAndJoin`), appends the next run, or
  consumes a whole frame, and the two ends of the run move accordingly.
  `AnswersInOrder` follows because a frame is consumed only whole and from its first byte.
  `PoisonIsFinal` rests on `Stops`: an end that failed is in no call and its link is closed.
* *hosted plug-in*: the wrapper's state determines the author's (`LifecycleMatchesDsp`), and
  every host action is an entry of the ABI (`HostStepsAreEntries`), so that the contract is
  shown once for the entries and holds for both hosts.
* *module lifetime*: each strong count is the number of its holders, those that are about to
  give theirs back among them (`Counted`), so that a thread that gives back the last one knows
  that nobody holds another. What a thread has still to drop is one of ten sequences (`Drops`),
  and a step of one thread changes the tallies by what it leaves and what it enters (`Moves`,
  over `OneChanges`). `LifeSpec` implements `Spec` of `HostedPlugin` (`LifeImplementsHosted`),
  so that the theorems about that module hold of a plug-in that is shared and dropped as well.
* *data plane*: a region whose owner word has been handed over has no store of the giver on
  its way; the two views of owner can never both say "mine".
* *scanner*: what files and memory hold at each point (`MemoryInv`, `JournalInv`), that every
  struck build is in what the next start reads or in `torn` or `masked` (`StruckInv`), and
  that a record's descriptors were never read from an older build than its fingerprint names
  (`CacheInv`). With the last, a hit on the present fingerprint can only show the present
  build, even though a build may be replaced between the fingerprint and the probe.
* *CLAP instance*: `LockInv` says where each thread can be, and that the lock is taken exactly
  while one of them is in a call. Every entry takes it in one of two steps (`AcquiredKeeps`) and
  gives it back in one (`ReleasedKeeps`); whatever a body does in between, panics included,
  leaves its thread in the body (`BodyKeeps`). On it stands `CallInv`: what a thread is doing,
  and the steps its script can hold (`StepsOf`). Then `LifeInv`: outside the author's methods
  the state of the instance says what the author's code has been through (`Steady`), and at the
  end of one that succeeded it is exactly one step behind (`Entered`), which gives the contract.
  `DataInv`, `LandInv` and `EditorInv` say how far a save or load, a deactivate and an editor
  have come; each rests on `BodyAlone`, that whoever is in a body is alone in the instance.

* *VST3 object*: no entry keeps a record of how far it has come, so `CallInv` recovers it from
  what is left: the script of a call is the end of the longest body its entry can have
  (`Remains`, `Whole`), or the rest of a block that collects, runs and tells. From the place in it
  follows which step is next (`Spots`), and `FlagInv` says what the three flags and the state of
  the instance must be there (`StandsAt`): each method that moves the state is followed by the
  flag that says so, and an error in between leaves the call only where the two agree. A panic
  need not restore anything, because a poisoned object is entered no more. `LifeInv` adds what the
  author's code has been through, as for CLAP, which gives the contract, the drop of the last
  reference included (`DropAllowed`). `RefInv` counts the references, one of them the view's, and
  `BuiltInv` says what `ViewsAreServed` and the types rest on: an editor is made after the mirror,
  by the one call that then sets `initialised`, so that no second call can replace an editor a
  view has. `MirrorInv` follows each parameter through a block: the mirror shows what the plug-in
  holds once the events collected so far have reached it (`Reached`), unless the change waits to
  be sent (`Due`), a step still to come of the block brings it (`Upcoming`), or a method is under
  way that may move it (`Moving`). It needs a second part, that what a block is about to tell is
  still what the plug-in holds unless the editor has moved it since: between the author's
  `process` and the loop that empties its output events the UI thread may come at any step.

* *reference host*: a list says nothing of the order in which it was filled, so the invariant
  keeps beside each list the history of what it accepted. `ListsInv` says of a buffer that its
  records are the history's events, each once, with the insertion number and the run of bytes
  each was given (`BufferHolds`), and of an event list that its offsets lead to them (`ListHolds`);
  a push makes both one longer (`PushHolds`). Order is a part of its own, `OrderInv`, because it
  holds only between a sort and the next push: in a block a native plug-in's input is in sequence
  and its output is not. Both lists are in sequence after their sort (`SortHolds`). For the buffer
  that is any arrangement the key allows. For the event list it goes by induction over the passes of
  the insertion sort (`PassesLeave`): the offsets passed so far are ahead of one another by time and
  number, and the next one is inserted behind the last that is not later. The
  input of a loaded plug-in, which nobody sorts, is still as it was pushed (`Unmoved`). `LineInv` joins the tasks that ran, those in
  hand and those queued to one line, which ascends and which, with `spent`, is every number given
  so far; each action moves a task over one of the joints, appends the next number, or cuts the hand
  off where nothing is left behind it.

Only model-checked:

* the liveness properties (`EveryClaimDrained`, `DeathIsNoticed`, `FramesAreAnswered`,
  `SoundBundlesAreFound`, `MainCallsReturn`, `LettingGoUnloads`): fairness is outside what the
  provers do.

Every other property of a passing run is stated by a theorem. Induction over data is done where a
set of numbers carries it (`SetInduction` of `DataLemmas`): what `FlattenSeq` and the last of some
positions are, and what the passes of an insertion sort leave.

In `ControlChannel`, `Vst3Instance`, `TestHost` and `ModuleLifetime` the type invariant is the
first conjunct of a property that is checked: `StreamIntact`, `FlagsAgree`, `TasksAccounted`,
`WhatIsHeldIsThere`.

## 6. Where code and documentation part

Shown by runs whose one property TLC finds violated:

1. `last_bytes`. `LoopbackTransport::try_recv` finds the pipe empty and then asks whether the
   peer is gone; what the peer wrote between the two is lost to a `Closed`, although the
   transport promises that bytes written before a close are still delivered
   (`transport.rs:28-29`).
2. `scan_retry`. The quarantine is extended by path and asked by path and fingerprint. A new
   build of a path that was quarantined before, and that kills the process again, is never
   listed: it takes the host down at every scan, where the documentation promises "one crash,
   once" (`isolation.rs:12`). `masked` collects these builds, so that the other properties
   are stated, and proved, around them.

Met while modelling, and not the subject of a run.

Channel, scanner, ring, runtime:

* `LimitExceeded` is fatal to the stream (`error.rs:215`), also when a field of a payload raised
  it whose frame is already consumed; `poll` documents that such a payload does not poison the
  channel (`channel.rs:211-212`).
* A module that hangs inside the loader keeps the loader's lock, as `isolation.rs:279-281` says.
  Every later probe of the process then times out, and each sound bundle is quarantined on disk
  as if it were at fault (`scanner.rs:446`).
* `write_quarantine` uses `std::fs::write`, which truncates first: a death between the two
  loses the whole list, and every module on it is tried once more (`torn`). The cache is
  written beside its destination and renamed; the quarantine, which matters more, is not.
* Any death during a probe accuses the bundle being probed, also when the user ended the
  process. `OnlyStruckAreBarred` therefore speaks of what was being probed, not of guilt.
* `scanner.rs:125` says of `with_cache` that nothing is read until the first scan; the
  journal and the quarantine are read, and written, at construction.
* `Producer::is_full` is documented as "never a false positive: only the consumer can free
  space" (`spsc.rs:209-210`). The freeing consumer is what makes it one: only a negative
  answer is stable, which is what `AnswersAreStable` states.
* `LoadedPlugin::reset` refuses only while processing. An inactive instance refuses it inside
  a void entry, so the host is told `Ok` and nothing is cleared (`plugin.rs:201-218`,
  `daux-plugin-api/src/instance.rs:413-427`). The diagram of `DauxProcessor` allows reset
  between activate and deactivate, `PluginInstance` only while not armed.
* A panic in `process` or in a void entry poisons the plug-in, and the host is never told
  later (`PanicsAreHeardAtOnceOrNever`): its `is_poisoned` stays false.
* `daux-format-axt/src/audio.rs:62-64` says that no view outlives the process call that built
  it. An unwinding call leaves them in place; the poison is what keeps them from being read
  (`ViewsDieWithTheCall`).
* `daux-format-axt/src/instance.rs:9-15` says that after a panic not even `destroy`'s drop
  reaches plug-in code; `destroy` drops the author's value (lines 292-302).
* `MpscQueue::len` reads two dispensers one after the other and can clamp to 0 on a queue
  that was never empty (`mpsc.rs:195-204`).
* The dropped count of `RtLogQueue` belongs to no particular drain (`log.rs:241-272`): a reader
  can drain a queue and take a count while a refused record is still to be counted, which is why
  `RecordsAccounted` speaks of quiet moments.
* The last Arc of a factory or of the module may be given back on an audio thread, so that
  `destroy_factory` and the unmapping run there; `abi-v1` marks the former [main-thread].

* `create_plugin` leaves an instance whose table it cannot use, and counts it in no Arc. The factory
  is destroyed while that instance exists, although its destructor says that reaching it proves
  the last instance gone (`factory.rs:94-95`). The model leaves such instances out.
* `LivenessPolicy::enforce_ordering` casts the floor of two heartbeats with `secs as u64`, which
  wraps for an interval above half the largest `Duration`; the comment beside it calls the cast
  saturating (`liveness.rs:133-143`).

Reference host, state:

* A loaded plug-in is given its input events in the order the caller queued them, where
  `abi-v1.md:612` requires them sorted by time. The native path of the same host sorts, with a
  comment that says why (`daux-host/src/instance.rs:159-161`). `ListsGiveBack` asks of a loaded
  plug-in for the caller's order only.
* `run_callbacks` calls `on_main_thread` of whatever instance it is given, and gives a native one
  every task that any instance scheduled, where its doc says that "a plug-in that never asks is
  never called" (`host.rs:572-574`).
* `try_set_param` writes a native plug-in's parameter before it queues the event, and keeps the write
  when the list is full: a plug-in that reads both does not get "the same value twice"
  (`host.rs:297-298`).
* `run_callbacks` takes the tasks before it looks at the handle. A stale handle, or a poisoned
  plug-in, loses them (`spent`); a loaded plug-in is told of none of them, as the ABI has it.
* `LoadedInstance::reset` stops the plug-in and starts it again. When the start fails, each later
  `reset` fails at the stop, and blocks are answered without the plug-in.
* Events queued for such an instance are cleared with the block that was refused, and
  `output_events` still shows what the last good block produced (`ProcessRefused`).
* `can_migrate_from` says nothing of a latched error: a chain built with a mistake refuses every
  document, those of the current version included.

CLAP:

* `INSIDE` belongs to the thread and not to the instance. A `destroy` made from within another
  instance's call gets no lock, so an opened editor is dropped unclosed, which the comment at
  `plugin.rs:328-333` sets out to exclude; other main-thread calls made there are refused
  silently. `EditorClosedFirst` names the exception.
* `params_flush` on the audio thread only tries the lock. Its changes are dropped when the main
  thread holds it, although "they have to be applied here" (`plugin.rs:1102`).
* `stop_processing` and `reset` are lost in the same way. `reset` stops and restarts; when the
  restart fails the instance is left `Active` and the host is not told.
* A load that fails has already moved the parameters. A panic of the editor poisons the whole
  instance, audio included.

VST3:

* The last release of a poisoned object that was processing runs `PluginInstance::drop`, which
  enters the author's `deactivate` on code that has panicked, outside any `catch_unwind`;
  `guard.rs:12-14` says that a broken plug-in "must never be re-entered". `ContractKept` names
  the exception.
* A panic of the editor poisons the view only. A new view enters the same editor again, and the
  release of a view whose `close` panicked calls `close` again.
* `setComponentState` writes the mirror and does not raise `pending`. When the plug-in has moved
  its parameters by other means the two differ, and the next `setParamNormalized` sends every
  value of the mirror to it. A `load_state` that fails part-way leaves them apart as well.
* `setupProcessing` on an active object changes the limit and prepares nothing again. A block
  beyond what was prepared is refused by the instance after `pending` was taken down, and the
  events collected for it are lost.
* Beyond `EVENT_CAPACITY` an event is lost although the mirror has moved; `getState` saves the
  mirror's values.
* `emit_output_parameters` stores a plug-in's own move in the mirror inside the loop that fills the
  host's lanes, and returns before it when the host passes no `output_parameter_changes`, or one
  without a vtable (`component.rs:1485-1494`). VST3 allows null, and `tests.rs:1189` tolerates it.
  The mirror then keeps the old value, nothing is pending and nobody is told: a UI and a saved
  state show what the plug-in no longer holds, and the next `setParamNormalized` of any parameter
  sends it the old value back.
* `torn` collects the parameters of these four cases: the controller state and the failed load,
  the block refused after `setupProcessing`, the full list, and the host without output changes.
  `MirrorMeetsPlugin` says nothing of a parameter while it is in `torn`; what these calls lose
  is therefore found by reading, and not by a run.
* `component.rs:696` says that the host services come before anything else; `init`, the
  parameters and the bus layout run first. `terminate` leaves `initialised` up.
* A host callback that calls back into the object meets `&mut` references that are still in use.

## 7. Limits of the models

* Memory order is modelled where two processes share plain memory (`DataPlane`). In the
  lock-free structures every access is a step and plain accesses are bracketed by steps, so
  an overlap would show (`NoSharedSlot`, `NoTearing`, `SlotExclusive`); that the Acquire and
  Release pairs order the plain accesses as the steps do is assumed.
* The VST3 model assumes an author who applies all events of a block in their order, and a host
  that sends every edit it was told of back with the next block and makes one IComponent or
  IAudioProcessor call at a time. Handler references, bus arrangements and overflow of the
  output events are left out; empty blocks are covered by the CLAP run.
* The plug-ins of `TestHost` take every event they are given and may push events of two sizes; the
  worker runs inside `run_callbacks`. The other recorders of `services.rs`, the values of
  parameters, state, latency, tail and the sample counter `steady_time` are left out, and so is a
  second instance. `EventList`'s words beyond those in use, where an earlier block may have left
  something, are not kept.
* `ModuleLifetime` takes the Arcs for correct: a count goes up and down in one step. A borrow is
  any value that is still held. What `open` checks before it succeeds is left out, and so is an
  instance that `create_plugin` leaves behind.
* The CLAP model leaves out `render_set` and the showing and hiding of editors. A waiting main
  thread shows which entry it waits for once it has the lock.
* The positions of the MPSC queue are natural numbers. A thread that sleeps for 2^64
  operations between its load and its compare-exchange is outside the model.
* `DataPlane` leaves out the byte offsets of `RegionLayout`; `Scanner` leaves out damaged
  files, paths that are not UTF-8, the cap on cache records, foreign formats (never probed),
  writes that fail, the identity error `cross_check` finds after the record is stored, the probe
  made inline when no thread can be had, and a second scanner on the same files, which the code
  does not exclude.
* The scanner's fingerprints are build numbers: a build that comes back with an old
  fingerprint, and collisions, are outside. A sound build answers within the timeout unless
  the loader's lock is held, and the probe always gets its thread.

## 8. Not modelled, and the plan

Not modelled, for what they are: DSP kernels, sample and MIDI conversion, transport and
parameter arithmetic (floating point and codecs: nothing is ordered, and TLC has no reals); GUI
backends, windows and platform pipes (operating system; `ControlChannel` states what a pipe
promises); manifests, the bundle layout, the procedural macros and the command line (text in,
text out); ABI declarations, the default host services and re-exports (no behaviour of their own);
examples and the test harness (users of the rest). These are most of the lines of the
repository, and what is modelled is the part of it where order, failure and two actors matter.

Planned, in this order. The number of runs is kept small; a new question takes the place of a
run or a property that asks less:

1. `LivenessPolicy`: the pair of durations at their width, and a peer that answers or hangs.
2. `MigrationChain` of `daux-state`: steps in any order, a latched error, gaps.
3. Gestures of `ParamBinding`; two scanners that share a journal.
4. `RegionLayout`'s offsets, against a reference layout.
