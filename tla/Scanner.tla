------------------------------ MODULE Scanner ------------------------------
(***************************************************************************)
(* A scanner made by Scanner::with_cache (daux-scan): it runs code it did  *)
(* not write to learn what a bundle holds, and must survive it.  Before a  *)
(* probe the bundle goes into a journal on disk, after it the journal is   *)
(* removed; a journal found at the next start names the bundle that took   *)
(* the process down, which goes to the quarantine.  The process dies in a  *)
(* module that kills it, or anywhere for a reason of its own, and is       *)
(* started again on the three files it left.                               *)
(*                                                                         *)
(* A bundle's fingerprint is its version: no build comes back with one     *)
(* that was seen before at its path.                                       *)
(***************************************************************************)
EXTENDS Integers

CONSTANTS
  Bundles,       \* paths
  Roots,         \* what lies under the directories scan_path is called with
  Builds,        \* bound: how many builds each bundle will have
  Natures,       \* the ways the builds can behave, functions from Entry
  MaxMeddling,   \* bound: deaths without a guilty module and changes by the user
  NoEntry

Entry     == UNION {{b} \X (1 .. Builds[b]) : b \in Bundles}
Behaviour == {"sound", "fails", "kills", "hangs", "jams"}

ASSUME ScannerAssumption ==
  /\ Roots \subseteq SUBSET Bundles
  /\ Builds \in [Bundles -> Nat \ {0}] /\ MaxMeddling \in Nat
  /\ Natures \subseteq [Entry -> Behaviour]
  /\ NoEntry \notin Entry

VARIABLES
  present, version, nature,      \* the bundles installed, their build, what each build does
  journal, quarFile, cacheFile,  \* .inflight, .quarantine and the cache file
  pc, mode, todo, listed,        \* the call in progress, its walk, and what the walk found
  job, outcome,                  \* the probe in progress and its answer
  entries, writer,               \* Quarantine.entries, and who is writing them out
  forgiven,                      \* the bundles the user is taking out of the quarantine
  cache, loaded, dirty,          \* ScanCache.records, whether they were read, dirty
  jammed,                        \* an abandoned probe holds the dynamic loader's lock
  found,                         \* the report: the build whose descriptors it shows
  meddling,
  struck, torn, masked           \* history, see below

machine == <<present, version, nature>>
files   == <<journal, quarFile, cacheFile>>
call    == <<pc, mode, todo, listed, job, outcome>>
quar    == <<entries, writer, forgiven>>
cached  == <<cache, loaded, dirty>>
history == <<struck, torn, masked>>
vars    == <<machine, files, call, quar, cached, jammed, found, meddling, history>>

(* A cache record: the fingerprint it is kept under and the build its descriptors
   were read from; 0 and 0 where there is none. *)
Record   == [fp : Nat, from : Nat]
NoRecord == [fp |-> 0, from |-> 0]
NoCache  == [b \in Bundles |-> NoRecord]
Nothing  == [b \in Bundles |-> 0]

Answer == {"ok", "none", "error", "timeout"} \X Nat

TypeOK ==
  /\ present \subseteq Bundles /\ nature \in Natures
  /\ version \in [Bundles -> Nat] /\ \A b \in Bundles : version[b] \in 1 .. Builds[b]
  /\ journal \in Entry \cup {NoEntry} /\ quarFile \subseteq Entry
  /\ cacheFile \in [Bundles -> Record]
  /\ pc \in {"down", "truncate", "write", "consume", "idle", "walk", "probe", "end", "save", "rename"}
  /\ mode \in {"scan", "path", "inspect"} /\ todo \subseteq Bundles /\ listed \subseteq Bundles
  /\ job \in Entry \cup {NoEntry} /\ outcome \in Answer
  /\ entries \subseteq Entry /\ writer \in {"boot", "timeout", "user"} /\ forgiven \subseteq Bundles
  /\ cache \in [Bundles -> Record] /\ loaded \in BOOLEAN /\ dirty \in BOOLEAN
  /\ jammed \in BOOLEAN /\ found \in [Bundles -> Nat]
  /\ meddling \in 0 .. MaxMeddling
  /\ struck \subseteq Entry /\ torn \subseteq Entry /\ masked \subseteq Entry

(* What a process holds before it has run anything. *)
Fresh ==
  /\ mode = "inspect" /\ todo = {} /\ listed = {} /\ job = NoEntry /\ outcome = <<"none", 0>>
  /\ entries = {} /\ writer = "boot" /\ forgiven = {}
  /\ cache = NoCache /\ loaded = FALSE /\ dirty = FALSE
  /\ jammed = FALSE /\ found = Nothing

Init ==
  /\ present \in SUBSET Bundles /\ version = [b \in Bundles |-> 1] /\ nature \in Natures
  /\ journal = NoEntry /\ quarFile = {} /\ cacheFile = NoCache
  /\ pc = "down" /\ Fresh
  /\ meddling = 0 /\ struck = {} /\ torn = {} /\ masked = {}

-----------------------------------------------------------------------------
(* The vendor ships a build, the user installs or removes a bundle; at any time. *)
Ship(b) ==
  /\ version[b] < Builds[b]
  /\ version' = [version EXCEPT ![b] = @ + 1]
  /\ UNCHANGED <<present, nature, files, call, quar, cached, jammed, found, meddling, history>>

Install(b) ==
  /\ present' = IF b \in present THEN present \ {b} ELSE present \cup {b}
  /\ UNCHANGED <<version, nature, files, call, quar, cached, jammed, found, meddling, history>>

-----------------------------------------------------------------------------
(* Mutants: the leftover journal is not promoted; what it promoted is not written. *)
BootUnpromoted ==
  /\ pc = "down"
  /\ entries' = quarFile /\ writer' = "boot"
  /\ pc' = IF journal = NoEntry THEN "idle" ELSE "consume"
  /\ UNCHANGED <<machine, files, mode, todo, listed, job, outcome, forgiven, cached, jammed,
                 found, meddling, history>>

BootUnwritten ==
  /\ pc = "down"
  /\ entries' = quarFile \cup ({journal} \ {NoEntry}) /\ writer' = "boot"
  /\ pc' = IF journal = NoEntry THEN "idle" ELSE "consume"
  /\ UNCHANGED <<machine, files, mode, todo, listed, job, outcome, forgiven, cached, jammed,
                 found, meddling, history>>

(* A path already in the list is not added again, under whatever fingerprint. *)
Listed(b)  == \E e \in entries : e[1] = b
InFile(b)  == \E e \in quarFile : e[1] = b

(* Quarantine::beside reads both files and promotes what the journal names. *)
Boot ==
  /\ pc = "down"
  /\ IF journal = NoEntry
       THEN entries' = quarFile /\ pc' = "idle" /\ UNCHANGED masked
       ELSE /\ entries' = IF InFile(journal[1]) THEN quarFile ELSE quarFile \cup {journal}
            /\ masked' = (masked \ entries') \cup ({journal} \ entries')
            /\ pc' = "truncate"
  /\ writer' = "boot"
  /\ UNCHANGED <<machine, files, mode, todo, listed, job, outcome, forgiven, cached, jammed,
                 found, meddling, struck, torn>>

(* write_quarantine: std::fs::write empties the file and then fills it; an empty
   list removes it. *)
Truncate ==
  /\ pc = "truncate"
  /\ quarFile' = {} /\ pc' = "write"
  /\ struck' = {e \in struck : e[1] \notin forgiven}
  /\ masked' = {e \in masked : e[1] \notin forgiven}
  /\ UNCHANGED <<machine, journal, cacheFile, mode, todo, listed, job, outcome, quar, cached,
                 jammed, found, meddling, torn>>

Write ==
  /\ pc = "write"
  /\ quarFile' = entries
  /\ pc' = CASE writer = "boot" -> "consume" [] writer = "timeout" -> "walk" [] writer = "user" -> "idle"
  /\ forgiven' = {} /\ writer' = "boot"
  /\ UNCHANGED <<machine, journal, cacheFile, mode, todo, listed, job, outcome, entries, cached,
                 jammed, found, meddling, history>>

(* beside removes the journal it has consumed. *)
Consume ==
  /\ pc = "consume"
  /\ journal' = NoEntry /\ pc' = "idle"
  /\ UNCHANGED <<machine, quarFile, cacheFile, mode, todo, listed, job, outcome, quar, cached,
                 jammed, found, meddling, history>>

-----------------------------------------------------------------------------
(* Scanner::scan, scan_path and inspect: the bundles the walk will come by, in any
   order, those a full scan remembers having seen, and the cache, read the first time
   it is needed. *)
Start(m, list) ==
  /\ pc = "idle"
  /\ pc' = "walk" /\ mode' = m /\ todo' = list
  /\ listed' = IF m = "scan" THEN list ELSE {}
  /\ cache' = IF loaded THEN cache ELSE cacheFile
  /\ loaded' = TRUE
  /\ found' = Nothing
  /\ UNCHANGED <<machine, files, job, outcome, quar, dirty, jammed, meddling, history>>

FullScan == Start("scan", present)
PathScan == \E root \in Roots : Start("path", root \cap present)
Inspect  == \E b \in present : Start("inspect", {b})

(* inspect: a bundle that is gone or quarantined at this fingerprint is a failure of
   the report. *)
Skip(b) ==
  /\ pc = "walk" /\ b \in todo
  /\ b \notin present \/ <<b, version[b]>> \in entries
  /\ todo' = todo \ {b}
  /\ UNCHANGED <<machine, files, pc, mode, listed, job, outcome, quar, cached, jammed, found,
                 meddling, history>>

(* Mutant: a record is believed under any fingerprint. *)
CachedAnyway(b) == cache[b] # NoRecord

(* ScanCache::lookup. *)
Cached(b) == cache[b].fp = version[b]

Hit(b) ==
  /\ pc = "walk" /\ b \in todo \cap present /\ <<b, version[b]>> \notin entries
  /\ Cached(b)
  /\ todo' = todo \ {b}
  /\ found' = [found EXCEPT ![b] = cache[b].from]
  /\ UNCHANGED <<machine, files, pc, mode, listed, job, outcome, quar, cached, jammed, meddling,
                 history>>

(* Quarantine::begin, with the fingerprint read just before. *)
Begin(b) ==
  /\ pc = "walk" /\ b \in todo \cap present /\ <<b, version[b]>> \notin entries
  /\ ~Cached(b)
  /\ journal' = <<b, version[b]>> /\ job' = <<b, version[b]>>
  /\ todo' = todo \ {b} /\ pc' = "probe"
  /\ UNCHANGED <<machine, quarFile, cacheFile, mode, listed, outcome, quar, cached, jammed, found,
                 meddling, history>>

(* probe_isolated on the build that is there when the loader opens it.  A module
   that hangs inside the loader keeps its lock when its thread is abandoned, and no
   later module of this process loads. *)
Build    == <<job[1], version[job[1]]>>
Jams     == nature[Build] = "jams"
Answers  ==
  \/ /\ job[1] \in present /\ nature[Build] = "sound" /\ ~jammed
     /\ outcome' = <<"ok", version[job[1]]>> /\ UNCHANGED jammed
  \/ /\ job[1] \notin present \/ nature[Build] = "fails"
     /\ outcome' = <<"error", 0>> /\ UNCHANGED jammed
  \/ /\ job[1] \in present /\ (jammed \/ nature[Build] \in {"hangs", "jams"})
     /\ outcome' = <<"timeout", 0>> /\ jammed' = (jammed \/ Jams)

Probe ==
  /\ pc = "probe"
  /\ Answers
  /\ pc' = "end"
  /\ UNCHANGED <<machine, files, mode, todo, listed, job, quar, cached, found, meddling, history>>

(* An abandoned probe comes back after all, to a receiver that is gone. *)
Unjam ==
  /\ jammed /\ jammed' = FALSE
  /\ UNCHANGED <<machine, files, call, quar, cached, found, meddling, history>>

(* Mutant: the journal stays after an error. *)
EndOnAnswer ==
  /\ pc = "end"
  /\ journal' = IF outcome[1] = "ok" THEN NoEntry ELSE journal
  /\ pc' = "walk" /\ job' = NoEntry /\ outcome' = <<"none", 0>>
  /\ UNCHANGED <<machine, quarFile, cacheFile, mode, todo, listed, quar, cached, jammed, found,
                 meddling, history>>

(* Quarantine::end, and what probe_bundle does with the answer. *)
End ==
  /\ pc = "end"
  /\ journal' = NoEntry /\ job' = NoEntry /\ outcome' = <<"none", 0>>
  /\ \/ /\ outcome[1] = "ok"
        /\ cache' = [cache EXCEPT ![job[1]] = [fp |-> job[2], from |-> outcome[2]]]
        /\ dirty' = TRUE
        /\ found' = [found EXCEPT ![job[1]] = outcome[2]]
        /\ pc' = "walk" /\ UNCHANGED <<entries, writer, history>>
     \/ /\ outcome[1] = "error"
        /\ pc' = "walk" /\ UNCHANGED <<entries, writer, history, cache, dirty, found>>
     \/ /\ outcome[1] = "timeout"
        /\ struck' = struck \cup {job} /\ torn' = torn \ {job}
        /\ IF Listed(job[1])
             THEN masked' = masked \cup {job} /\ pc' = "walk" /\ UNCHANGED <<entries, writer>>
             ELSE entries' = entries \cup {job} /\ writer' = "timeout" /\ pc' = "truncate"
                  /\ masked' = masked \ {job}
        /\ UNCHANGED <<cache, dirty, found>>
  /\ UNCHANGED <<machine, quarFile, cacheFile, mode, todo, listed, forgiven, loaded, jammed,
                 meddling>>

(* ScanCache::retain_seen: what a full scan did not come by is forgotten. *)
Retained == [b \in Bundles |-> IF b \in listed THEN cache[b] ELSE NoRecord]

(* The end of a call: a full scan prunes the cache, and a scan of either kind saves. *)
Finish ==
  /\ pc = "walk" /\ todo = {}
  /\ cache' = IF mode = "scan" THEN Retained ELSE cache
  /\ dirty' = (dirty \/ cache' # cache)
  /\ pc' = IF mode # "inspect" /\ dirty' THEN "save" ELSE "idle"
  /\ mode' = "inspect" /\ listed' = {}
  /\ UNCHANGED <<machine, files, todo, job, outcome, quar, loaded, jammed, found, meddling, history>>

(* Scanner::save_cache. *)
SaveCache ==
  /\ pc = "idle" /\ dirty
  /\ pc' = "save"
  /\ UNCHANGED <<machine, files, mode, todo, listed, job, outcome, quar, cached, jammed, found,
                 meddling, history>>

(* ScanCache::save: the old file goes, and the staging file takes its name. *)
Save ==
  /\ pc = "save"
  /\ cacheFile' = NoCache /\ pc' = "rename"
  /\ UNCHANGED <<machine, journal, quarFile, mode, todo, listed, job, outcome, quar, cached, jammed,
                 found, meddling, history>>

Rename ==
  /\ pc = "rename"
  /\ cacheFile' = cache /\ dirty' = FALSE /\ pc' = "idle"
  /\ UNCHANGED <<machine, journal, quarFile, mode, todo, listed, job, outcome, quar, cache, loaded,
                 jammed, found, meddling, history>>

(* Scanner::forget and clear_quarantine. *)
Forget(pardoned) ==
  /\ pc = "idle" /\ meddling < MaxMeddling
  /\ meddling' = meddling + 1
  /\ \E b \in pardoned : Listed(b)
  /\ entries' = {e \in entries : e[1] \notin pardoned}
  /\ forgiven' = pardoned /\ writer' = "user" /\ pc' = "truncate"
  /\ UNCHANGED <<machine, files, mode, todo, listed, job, outcome, cached, jammed, found, history>>

-----------------------------------------------------------------------------
(* The process ends, with all it held in memory.  The build it was probing is struck;
   what write_quarantine was writing and no file holds is torn. *)
Dies ==
  /\ pc' = "down"
  /\ mode' = "inspect" /\ todo' = {} /\ listed' = {} /\ job' = NoEntry /\ outcome' = <<"none", 0>>
  /\ entries' = {} /\ writer' = "boot" /\ forgiven' = {}
  /\ cache' = NoCache /\ loaded' = FALSE /\ dirty' = FALSE
  /\ jammed' = FALSE /\ found' = Nothing
  /\ struck' = IF job = NoEntry THEN struck ELSE struck \cup {job}
  /\ torn' = (torn \ {job}) \cup
       IF pc \in {"truncate", "write"} THEN entries \ (quarFile \cup {journal}) ELSE {}
  /\ UNCHANGED <<machine, files, masked>>

Kill ==
  /\ pc = "probe" /\ job[1] \in present /\ nature[Build] = "kills" /\ ~jammed
  /\ Dies /\ UNCHANGED meddling

Die ==
  /\ pc # "down" /\ meddling < MaxMeddling
  /\ meddling' = meddling + 1
  /\ Dies

-----------------------------------------------------------------------------
(* What a started scanner does by itself. *)
ScannerStep ==
  \/ Boot \/ Truncate \/ Write \/ Consume \/ Probe \/ Kill \/ End \/ Finish \/ Save \/ Rename
  \/ \E b \in Bundles : Skip(b) \/ Hit(b) \/ Begin(b)

Next ==
  \/ ScannerStep \/ FullScan \/ PathScan \/ Inspect \/ SaveCache \/ Unjam \/ Die
  \/ \E b \in Bundles : Ship(b) \/ Install(b) \/ Forget({b})
  \/ Forget(Bundles)

Spec == Init /\ [][Next]_vars

(* A host that is started again after it died and keeps scanning, among whatever
   else it calls. *)
FairSpec == Spec /\ WF_vars(ScannerStep) /\ SF_vars(FullScan)
-----------------------------------------------------------------------------
(* A build that took the process down, or hung, is "not tried again until it changes
   or the user asks" (isolation.rs:20) -- unless write_quarantine was cut off, which
   loses the whole list, or the path was already listed under another build, which
   keeps this one out of the list. *)
BarredIsSkipped ==
  [][pc = "walk" /\ pc' = "probe" => job' \notin struck \ (torn \cup masked)]_vars

(* Nothing is quarantined but what was being probed when the process ended, or hung:
   a panic, an error, or a process killed between two probes bars nobody. *)
OnlyStruckAreBarred == entries \cup quarFile \subseteq struck

(* What a report takes from the cache is what a probe of the build that is there
   would show: "a cache is never allowed to make a scan produce something a fresh
   scan could not" (cache.rs:285-286), even if a build was replaced while it was
   probed under the fingerprint of the one before. *)
HitsAreFresh ==
  [][pc = "walk" => \A b \in Bundles : found'[b] \in {found[b], version[b], 0}]_vars

(* A sound bundle that is there and was not struck, unless a bundle the list cannot
   hold takes every scan down. *)
Findable(b) ==
  /\ b \in present /\ nature[<<b, version[b]>>] = "sound" /\ <<b, version[b]>> \notin struck
  /\ masked = {}

(* "One bad plug-in never stops the other three hundred and ninety-nine from being
   found" (isolation.rs:5-6): a bundle that stays findable is in the reports again
   and again, although scans die of its neighbours. *)
SoundBundlesAreFound ==
  \A b \in Bundles : <>[]Findable(b) => []<>(found[b] = version[b])

(* Violated: a build that hangs or kills is tried again at every scan when its path
   is listed under an older build -- beside and quarantine compare paths only, where
   is_quarantined compares fingerprints too. *)
NotTriedAgain == [][pc = "walk" /\ pc' = "probe" => job' \notin struck]_vars

-----------------------------------------------------------------------------
(* The inductive invariant: what the files and the memory hold at each point. *)
MemoryInv ==
  /\ pc = "down" => Fresh
  /\ pc \in {"consume", "idle", "walk", "probe", "end", "save", "rename"} => quarFile = entries
  /\ forgiven # {} => pc \in {"truncate", "write"} /\ writer = "user"
  /\ \A e \in entries : e[1] \notin forgiven
  /\ pc = "truncate" => {e \in quarFile : e[1] \notin forgiven} \subseteq entries

JournalInv ==
  /\ IF pc \in {"probe", "end"} THEN job # NoEntry /\ journal = job ELSE job = NoEntry
  /\ pc \in {"idle", "walk", "save", "rename"} => journal = NoEntry
  /\ pc \in {"truncate", "write"} /\ writer # "boot" => journal = NoEntry
  /\ pc \notin {"probe", "end"} /\ journal # NoEntry => journal \in struck

(* Every struck build is remembered by what the next start reads, or is among the
   two kinds the code forgets. *)
StruckInv ==
  /\ entries \cup quarFile \subseteq struck
  /\ struck \subseteq torn \cup masked \cup
       (IF pc = "down" THEN quarFile \cup {journal} ELSE
        IF pc = "truncate" THEN entries \cup quarFile ELSE entries)

Honest(record, b) ==
  /\ record[b].fp <= record[b].from /\ record[b].from <= version[b]
  /\ record[b].fp = 0 => record[b].from = 0

CacheInv ==
  /\ \A b \in Bundles : Honest(cache, b) /\ Honest(cacheFile, b)
  /\ pc \in {"probe", "end"} => job[2] <= version[job[1]]
  /\ pc = "end" /\ outcome[1] = "ok" => job[2] <= outcome[2] /\ outcome[2] <= version[job[1]]

(* What every step of the scanner, and every death, leaves in the files and in memory. *)
IndInv == TypeOK /\ MemoryInv /\ JournalInv /\ StruckInv /\ CacheInv
=============================================================================
