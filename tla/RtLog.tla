------------------------------- MODULE RtLog -------------------------------
(***************************************************************************)
(* daux-rt/src/log.rs: RtLogQueue, the MPSC queue of log records with a    *)
(* relaxed counter of the refused ones beside it.  A refused push counts   *)
(* in a step of its own, after the queue's answer; whoever reports the     *)
(* loss swaps the counter to zero at any moment.                           *)
(***************************************************************************)
EXTENDS MpscQueue, FiniteSets

CONSTANT MaxPushes    \* bound: calls of try_push in a run

ASSUME RtLogAssumption == MaxPushes \in Nat

VARIABLES
  dropped,     \* RtLogQueue.dropped
  refused,     \* the producers between the queue's refusal and the fetch_add
  pushes,      \* history: calls of try_push
  delivered,   \* history: records that pop handed out
  reported     \* history: the losses that take_dropped answered

countVars == <<dropped, refused, pushes, delivered, reported>>
logVars   == <<vars, countVars>>

LogInit ==
  /\ Init
  /\ dropped = 0 /\ refused = {} /\ pushes = 0 /\ delivered = 0 /\ reported = 0

(* Mutant: the record is counted as dropped when the queue is seen full, which a producer
   that lost its ticket and tries again may find not to be so. *)
WithinPushCountsLost(p, step) ==
  /\ p \notin refused /\ step
  /\ pushes' = pushes + IF pc[p] = "idle" THEN 1 ELSE 0
  /\ pushes' <= MaxPushes
  /\ refused' = IF pc[p] = "sequence" /\ pc'[p] # "cas" THEN refused \cup {p} ELSE refused
  /\ UNCHANGED <<dropped, delivered, reported>>

(* try_push while it is in the queue's: a call that ends without a ticket was refused. *)
WithinPush(p, step) ==
  /\ p \notin refused /\ step
  /\ pushes' = pushes + IF pc[p] = "idle" THEN 1 ELSE 0
  /\ pushes' <= MaxPushes
  /\ refused' = IF pc[p] = "sequence" /\ pc'[p] = "idle" THEN refused \cup {p} ELSE refused
  /\ UNCHANGED <<dropped, delivered, reported>>

(* dropped.fetch_add(1, Relaxed) *)
CountDropped(p) ==
  /\ p \in refused
  /\ dropped' = dropped + 1 /\ refused' = refused \ {p}
  /\ UNCHANGED <<vars, pushes, delivered, reported>>

WithinPop(c, step) ==
  /\ step
  /\ delivered' = delivered + IF pc[c] = "release" THEN 1 ELSE 0
  /\ UNCHANGED <<dropped, refused, pushes, reported>>

(* dropped.swap(0, Relaxed) *)
TakeDropped ==
  /\ dropped > 0
  /\ reported' = reported + dropped /\ dropped' = 0
  /\ UNCHANGED <<vars, refused, pushes, delivered>>

LogNext ==
  \/ \E p \in Producers : WithinPush(p, PushStep(p)) \/ CountDropped(p)
  \/ \E c \in Consumers : WithinPop(c, PopStep(c))
  \/ TakeDropped

LogSpec == LogInit /\ [][LogNext]_logVars

(* As of the queue alone: a thread inside a call runs on, a compare-exchange that keeps
   being tried on an unchanged counter succeeds, and the consumers keep polling. *)
LogFairSpec ==
  /\ LogSpec
  /\ \A p \in Producers :
       /\ WF_logVars(WithinPush(p, PushSequence(p) \/ PushLost(p) \/ PushTicket(p)
                                     \/ PushWrite(p) \/ PushPublish(p)))
       /\ SF_logVars(WithinPush(p, PushClaim(p)))
  /\ \A c \in Consumers :
       /\ WF_logVars(WithinPop(c, PopStep(c)))
       /\ SF_logVars(WithinPop(c, PopClaim(c)))
-----------------------------------------------------------------------------
(* RtLogQueue: "Overflow is counted, never blocked on", "so the consumer can report N
   messages lost".  While no call is under way, every record was handed out, is queued, or
   is counted once as lost, in the counter or in a report taken from it. *)
RecordsAccounted ==
  (\A t \in Threads : pc[t] = "idle") /\ refused = {} =>
    pushes = delivered + Cardinality({s \in Slots : payload[s] # NoValue}) + dropped + reported
=============================================================================
