----------------------------- MODULE DataPlane -----------------------------
(***************************************************************************)
(* The shared audio regions of daux-ipc/src/dataplane.rs: acquire and      *)
(* publish, one action per atomic access, by a host and a sandbox that     *)
(* either can lose at any point.                                           *)
(*                                                                         *)
(* Plain and Relaxed stores reach the other process in any order and at    *)
(* any time (buffered); a Release store reaches it after every store that  *)
(* came before.  A caller touches a region's contents only as the contract *)
(* of SharedRegion allows: between an acquire that returned and its        *)
(* publish.                                                                *)
(***************************************************************************)
CONSTANTS
  Region,     \* one per audio bus pair
  Field,      \* what a caller writes in a region: header, planes, events
  Sequence,   \* the cell of the block counter
  Val,        \* what a field or the counter can hold
  Zero,       \* what the constructor leaves in all of them
  NoWrite     \* a cell without a store on its way

ASSUME DataPlaneAssumption == Zero \in Val /\ NoWrite \notin Val /\ Sequence \notin Field

Endpoint == {"host", "sandbox"}
Other(e) == IF e = "host" THEN "sandbox" ELSE "host"
Cell     == Field \cup {Sequence}

VARIABLES
  owner,       \* RegionSlot.owner
  mem,         \* the cells as the memory has them
  buffered,    \* per endpoint, the stores that have not reached the memory
  alive,       \* the endpoints that still run
  stage, at, tag, \* per endpoint: where in acquire or publish, of which region,
               \* with which sequence
  holding,     \* per endpoint, the regions its caller may touch
  published,   \* the cells as the last publish of the region meant them: the counter
               \* it was called with, and what its caller saw in the fields
  stored,      \* the cells stored to since that publish
  answer       \* per endpoint, the sequence its last acquire returned

memory    == <<owner, mem, buffered>>
threads   == <<alive, stage, at, tag, holding>>
history   == <<published, stored, answer>>
planeVars == <<memory, threads, history>>

PlaneTypeOK ==
  /\ owner \in [Region -> Endpoint]
  /\ mem \in [Region -> [Cell -> Val]]
  /\ buffered \in [Endpoint -> [Region -> [Cell -> Val \cup {NoWrite}]]]
  /\ alive \in SUBSET Endpoint
  /\ stage \in [Endpoint -> {"idle", "load", "store", "hand"}]
  /\ at \in [Endpoint -> Region] /\ tag \in [Endpoint -> Val]
  /\ holding \in [Endpoint -> SUBSET Region]
  /\ published \in [Region -> [Cell -> Val]]
  /\ stored \in [Region -> SUBSET Cell]
  /\ answer \in [Endpoint -> Val]

(* pair_with_layouts: zero-filled regions, all of them the host's. *)
PlaneInit ==
  /\ owner = [r \in Region |-> "host"]
  /\ mem = [r \in Region |-> [c \in Cell |-> Zero]]
  /\ buffered = [e \in Endpoint |-> [r \in Region |-> [c \in Cell |-> NoWrite]]]
  /\ alive = Endpoint
  /\ stage = [e \in Endpoint |-> "idle"] /\ tag = [e \in Endpoint |-> Zero]
  /\ at \in [Endpoint -> Region]
  /\ holding = [e \in Endpoint |-> {}]
  /\ published = mem
  /\ stored = [r \in Region |-> {}]
  /\ answer = [e \in Endpoint |-> Zero]

-----------------------------------------------------------------------------
(* What an endpoint reads: its own stores before the memory. *)
Sees(e, r, c) == IF buffered[e][r][c] # NoWrite THEN buffered[e][r][c] ELSE mem[r][c]

(* A plain or Relaxed store. *)
Store(e, r, c, v) ==
  /\ buffered' = [buffered EXCEPT ![e][r][c] = v]
  /\ stored' = [stored EXCEPT ![r] = @ \cup {c}]
  /\ UNCHANGED <<owner, mem>>

(* Nothing of e's is on its way: what a Release store waits for. *)
Drained(e) == \A r \in Region, c \in Cell : buffered[e][r][c] = NoWrite

(* Any store reaches the memory, also when its process has died since. *)
Reach(e, r, c) ==
  /\ buffered[e][r][c] # NoWrite
  /\ mem' = [mem EXCEPT ![r][c] = buffered[e][r][c]]
  /\ buffered' = [buffered EXCEPT ![e][r][c] = NoWrite]
  /\ UNCHANGED <<owner, threads, history>>

Idle(e) == e \in alive /\ stage[e] = "idle"

(* Mutants: acquire and publish do not look at the owner, *)
AcquireUnchecked(e, r) ==
  /\ Idle(e)
  /\ stage' = [stage EXCEPT ![e] = "load"] /\ at' = [at EXCEPT ![e] = r]
  /\ UNCHANGED <<memory, alive, tag, holding, history>>

(* publish forgets the counter, *)
PublishStoreForgotten(e) ==
  /\ e \in alive /\ stage[e] = "store"
  /\ stage' = [stage EXCEPT ![e] = "hand"]
  /\ UNCHANGED <<memory, alive, at, tag, holding, history>>

(* or hands the region over with a Relaxed store. *)
PublishHandRelaxed(e) ==
  /\ e \in alive /\ stage[e] = "hand"
  /\ owner' = [owner EXCEPT ![at[e]] = Other(e)]
  /\ published' = [published EXCEPT ![at[e]] =
                     [c \in Cell |-> IF c = Sequence THEN tag[e] ELSE Sees(e, at[e], c)]]
  /\ stored' = [stored EXCEPT ![at[e]] = {}]
  /\ stage' = [stage EXCEPT ![e] = "idle"]
  /\ UNCHANGED <<mem, buffered, alive, at, tag, holding, answer>>

(* DataPlane::acquire.  The Acquire load of the owner; WouldBlock changes nothing
   and is not a step. *)
Acquire(e, r) ==
  /\ Idle(e) /\ owner[r] = e
  /\ stage' = [stage EXCEPT ![e] = "load"] /\ at' = [at EXCEPT ![e] = r]
  /\ UNCHANGED <<memory, alive, tag, holding, history>>

(* The Relaxed load of the sequence; the region is the caller's to touch. *)
AcquireLoad(e) ==
  /\ e \in alive /\ stage[e] = "load"
  /\ answer' = [answer EXCEPT ![e] = Sees(e, at[e], Sequence)]
  /\ holding' = [holding EXCEPT ![e] = @ \cup {at[e]}]
  /\ stage' = [stage EXCEPT ![e] = "idle"]
  /\ UNCHANGED <<memory, alive, at, tag, published, stored>>

(* The caller writes a field of a region it holds. *)
Touch(e, r, f, v) ==
  /\ Idle(e) /\ r \in holding[e]
  /\ Store(e, r, f, v)
  /\ UNCHANGED <<threads, published, answer>>

(* DataPlane::publish.  The ownership check; InvalidState changes nothing and is not
   a step.  A caller that publishes must not touch the region again. *)
Publish(e, r, s) ==
  /\ Idle(e) /\ owner[r] = e
  /\ holding' = [holding EXCEPT ![e] = @ \ {r}]
  /\ stage' = [stage EXCEPT ![e] = "store"]
  /\ at' = [at EXCEPT ![e] = r] /\ tag' = [tag EXCEPT ![e] = s]
  /\ UNCHANGED <<memory, alive, history>>

(* The Relaxed store of the sequence. *)
PublishStore(e) ==
  /\ e \in alive /\ stage[e] = "store"
  /\ Store(e, at[e], Sequence, tag[e])
  /\ stage' = [stage EXCEPT ![e] = "hand"]
  /\ UNCHANGED <<alive, at, tag, holding, published, answer>>

(* The Release store of the owner. *)
PublishHand(e) ==
  /\ e \in alive /\ stage[e] = "hand"
  /\ Drained(e)
  /\ owner' = [owner EXCEPT ![at[e]] = Other(e)]
  /\ published' = [published EXCEPT ![at[e]] =
                     [c \in Cell |-> IF c = Sequence THEN tag[e] ELSE Sees(e, at[e], c)]]
  /\ stored' = [stored EXCEPT ![at[e]] = {}]
  /\ stage' = [stage EXCEPT ![e] = "idle"]
  /\ UNCHANGED <<mem, buffered, alive, at, tag, holding, answer>>

(* An endpoint is dropped or its process dies, between any two accesses; the regions
   outlive it. *)
Die(e) ==
  /\ e \in alive
  /\ alive' = alive \ {e}
  /\ UNCHANGED <<memory, stage, at, tag, holding, history>>

PlaneNext ==
  \E e \in Endpoint :
    \/ AcquireLoad(e) \/ PublishStore(e) \/ PublishHand(e) \/ Die(e)
    \/ \E r \in Region :
         \/ Acquire(e, r)
         \/ \E c \in Cell : Reach(e, r, c)
         \/ \E f \in Field, v \in Val : Touch(e, r, f, v)
         \/ \E s \in Val : Publish(e, r, s)

PlaneSpec == PlaneInit /\ [][PlaneNext]_planeVars

-----------------------------------------------------------------------------
(* Exactly one side may touch a region, at any time between any two accesses, dead
   or alive (dataplane.rs: "Exactly one side owns it at a time"). *)
NoSharedRegion == holding["host"] \cap holding["sandbox"] = {}

(* The owner of a region reads in it what the last publish meant, in every cell it
   has not written itself since: no cell of an older block, none of the peer's next. *)
OwnedRegionIsWhole ==
  \A e \in Endpoint, r \in Region, c \in Cell :
    owner[r] = e /\ c \notin stored[r] => Sees(e, r, c) = published[r][c]

(* A store of the side that gave a region away never lands in it late, also when
   that side died in the middle of its next publish. *)
NoLateStores ==
  \A e \in Endpoint, r \in Region, c \in Cell : owner[r] # e => buffered[e][r][c] = NoWrite

(* acquire returns "the sequence number the peer published with", though the counter
   is stored and loaded Relaxed and its publish may have been the peer's last act. *)
AcquireReturnsPublished ==
  [][\A e \in Endpoint : AcquireLoad(e) => answer'[e] = published[at[e]][Sequence]]_planeVars

(* Where a thread inside acquire or publish is, its region is its own. *)
HoldersOwn ==
  /\ \A e \in Endpoint : stage[e] # "idle" => owner[at[e]] = e
  /\ \A e \in Endpoint : \A r \in holding[e] : owner[r] = e

(* A publish has ended its caller's access before it gives the region away. *)
HoldingEnds == \A e \in Endpoint : stage[e] \in {"store", "hand"} => at[e] \notin holding[e]

(* The counter is stored to only inside a publish. *)
SequenceWrittenInPublish ==
  \A r \in Region :
    Sequence \in stored[r] => stage[owner[r]] = "hand" /\ at[owner[r]] = r

(* About to give the region away, the counter is as the caller asked for it. *)
TagStored == \A e \in Endpoint : stage[e] = "hand" => Sees(e, at[e], Sequence) = tag[e]

(* What acquire, publish and the stores on their way keep true, whoever dies. *)
PlaneInv ==
  /\ PlaneTypeOK /\ HoldersOwn /\ HoldingEnds /\ NoLateStores /\ OwnedRegionIsWhole
  /\ SequenceWrittenInPublish /\ TagStored
=============================================================================
