---------------------------- MODULE TripleBuffer ----------------------------
(***************************************************************************)
(* The audio -> UI snapshot channel of daux-rt/src/triple.rs: three slots  *)
(* and one atomic word naming the hand-off slot.  A snapshot has several   *)
(* fields and is copied into a slot one field at a time, so a reader that  *)
(* shared a slot with the writer would see a torn one.                     *)
(***************************************************************************)
EXTENDS Integers

CONSTANTS
  Field,      \* the parts of a snapshot that are copied separately
  FieldValue, \* what a field may hold
  Initial     \* every field's value in the snapshot `new` is given

ASSUME TripleAssumption == Initial \in FieldValue

Snapshot == [Field -> FieldValue]
InitialSnapshot == [f \in Field |-> Initial]
SlotIndex == 0 .. 2

VARIABLES
  slots,        \* TripleShared.slots
  middle,       \* TripleShared.shared & INDEX_MASK
  dirty,        \* TripleShared.shared & DIRTY
  staging,      \* TripleWriter.staging
  writeIndex,   \* TripleWriter.write_index
  writer,       \* where the writer's thread is
  copied,       \* the fields clone_from has copied so far
  readIndex,    \* TripleReader.read_index
  reader,       \* where the reader's thread is
  latest,       \* history: the snapshot published last
  shown         \* history: the snapshot published last when the reader last took one

sharedVars == <<slots, middle, dirty>>
writerVars == <<staging, writeIndex, writer, copied>>
readerVars == <<readIndex, reader>>
history    == <<latest, shown>>
bufferVars == <<sharedVars, writerVars, readerVars, history>>

BufferTypeOK ==
  /\ slots \in [SlotIndex -> Snapshot]
  /\ middle \in SlotIndex /\ dirty \in BOOLEAN
  /\ staging \in Snapshot /\ writeIndex \in SlotIndex
  /\ writer \in {"idle", "copy", "dropped"} /\ copied \in SUBSET Field
  /\ readIndex \in SlotIndex
  /\ reader \in {"idle", "read", "swap", "borrowed", "dropped"}
  /\ latest \in Snapshot /\ shown \in Snapshot

BufferInit ==
  /\ slots = [i \in SlotIndex |-> InitialSnapshot]
  /\ middle = 1 /\ dirty = FALSE
  /\ staging = InitialSnapshot /\ writeIndex = 0
  /\ writer = "idle" /\ copied = {}
  /\ readIndex = 2 /\ reader = "idle"
  /\ latest = InitialSnapshot /\ shown = InitialSnapshot

-----------------------------------------------------------------------------
(* Mutants: slips a change to this code could make.  No specification uses them;
   each is what one property of the runs is there to refuse. *)

(* publish keeps writing to the slot it has handed over. *)
PublishKeepsSlot ==
  /\ writer = "copy" /\ copied = Field
  /\ middle' = writeIndex /\ dirty' = TRUE
  /\ writer' = "idle" /\ copied' = {}
  /\ latest' = staging
  /\ UNCHANGED <<slots, staging, writeIndex, readerVars, shown>>

(* read gives its old slot back and goes on reading it. *)
ReadSwapKeepsSlot ==
  /\ reader = "swap"
  /\ middle' = readIndex /\ dirty' = FALSE
  /\ reader' = "borrowed"
  /\ shown' = latest
  /\ UNCHANGED <<slots, readIndex, writerVars, latest>>

-----------------------------------------------------------------------------

(* TripleWriter::write, and `with`, whose closure may leave any value. *)
Write(s) ==
  /\ writer = "idle"
  /\ staging' = s
  /\ writer' = "copy" /\ copied' = {}
  /\ UNCHANGED <<sharedVars, writeIndex, readerVars, history>>

(* clone_from, one field. *)
CopyField(f) ==
  /\ writer = "copy" /\ f \notin copied
  /\ slots' = [slots EXCEPT ![writeIndex][f] = staging[f]]
  /\ copied' = copied \cup {f}
  /\ UNCHANGED <<middle, dirty, staging, writeIndex, writer, readerVars, history>>

(* The AcqRel swap of the shared word. *)
Publish ==
  /\ writer = "copy" /\ copied = Field
  /\ middle' = writeIndex /\ dirty' = TRUE
  /\ writeIndex' = middle
  /\ writer' = "idle" /\ copied' = {}
  /\ latest' = staging
  /\ UNCHANGED <<slots, staging, readerVars, shown>>

DropWriter ==
  /\ writer = "idle"
  /\ writer' = "dropped"
  /\ UNCHANGED <<sharedVars, staging, writeIndex, copied, readerVars, history>>

(* has_update, the first half of read_if_updated: with no update the caller keeps
   what it has and nothing is borrowed. *)
ReadIfUpdated ==
  /\ reader = "idle" /\ dirty
  /\ reader' = "read"
  /\ UNCHANGED <<sharedVars, writerVars, readIndex, history>>

(* read's load of the shared word. *)
ReadStart ==
  /\ reader \in {"idle", "read"}
  /\ reader' = IF dirty THEN "swap" ELSE "borrowed"
  /\ UNCHANGED <<sharedVars, writerVars, readIndex, history>>

(* read's swap: the old slot goes back, the hand-off slot is taken. *)
ReadSwap ==
  /\ reader = "swap"
  /\ middle' = readIndex /\ dirty' = FALSE
  /\ readIndex' = middle
  /\ reader' = "borrowed"
  /\ shown' = latest
  /\ UNCHANGED <<slots, writerVars, latest>>

(* The borrow ends with the next call. *)
ReadEnd ==
  /\ reader = "borrowed"
  /\ reader' = "idle"
  /\ UNCHANGED <<sharedVars, writerVars, readIndex, history>>

DropReader ==
  /\ reader = "idle"
  /\ reader' = "dropped"
  /\ UNCHANGED <<sharedVars, writerVars, readIndex, history>>

WriterStep ==
  \/ \E s \in Snapshot : Write(s)
  \/ \E f \in Field : CopyField(f)
  \/ Publish
  \/ DropWriter

ReaderStep == ReadIfUpdated \/ ReadStart \/ ReadSwap \/ ReadEnd \/ DropReader

BufferNext == WriterStep \/ ReaderStep

BufferSpec == BufferInit /\ [][BufferNext]_bufferVars

-----------------------------------------------------------------------------
(* The writer, the reader and the hand-off word always name three different
   slots, so no swap can give one slot to both threads. *)
SlotsPartitioned ==
  /\ writeIndex # readIndex
  /\ middle # writeIndex
  /\ middle # readIndex

(* What the reader borrows is one whole publication and stays so for as long as
   the borrow lives, however far the writer has got with the next copies. *)
NoTearing == slots[readIndex] = shown

(* Nothing newer is ever hidden from the reader: a clean word means that it already
   shows the latest publication, a dirty one that the latest is there to take. *)
NewestIsReachable ==
  IF dirty THEN slots[middle] = latest ELSE shown = latest

(* read_if_updated is told the truth: once has_update answered TRUE, the read that
   follows takes a publication, and never falls back to the old slot. *)
UpdateIsTaken ==
  [][reader = "read" /\ reader' # reader => reader' = "swap"]_bufferVars

(* The inductive invariant behind these needs two more facts: how far the copy has
   got, and that only the reader clears the DIRTY bit, so that neither the bit nor
   the slot can be taken away between the reader's load and its swap. *)
CopyInv == writer = "copy" => \A f \in copied : slots[writeIndex][f] = staging[f]
DirtyInv == reader \in {"read", "swap"} => dirty

(* What write, publish and read keep true after every field copied and every swap. *)
BufferInv ==
  /\ BufferTypeOK
  /\ SlotsPartitioned
  /\ NoTearing
  /\ NewestIsReachable
  /\ CopyInv
  /\ DirtyInv

(* The refinement, over the code's own state: the newest publication is in the
   hand-off slot while that is dirty and in the reader's slot otherwise. *)
Newest == IF dirty THEN slots[middle] ELSE slots[readIndex]

Register == INSTANCE SnapshotRegister WITH latest <- Newest, shown <- slots[readIndex]

(* The three slots are one atomic register: a publication replaces it whole, and
   what the reader borrows is what the register held at the moment of its swap. *)
ImplementsRegister == Register!Spec
=============================================================================
