------------------------- MODULE ClapInstanceProofs -------------------------
(***************************************************************************)
(* The CLAP adapter's two threads, proved for every size, number of rounds *)
(* of the lock, list of parameters and set of values: the lock excludes,   *)
(* what a thread is in says what it can do next, and the instance and the  *)
(* author's code stay in step; from these the contract, the saved states,  *)
(* the landing of a deactivate and the teardown of the editor.             *)
(***************************************************************************)
EXTENDS ClapInstance, TLAPS

(* Where each thread is, and that the lock is what says so.  Only the main thread waits,
   and only it destroys. *)
LockInv ==
  /\ locked \in BOOLEAN /\ inside \in [Thread -> BOOLEAN]
  /\ at \in [Thread -> Places]
  /\ at["audio"] \notin {"waiting", "closing", "dropping"}
  /\ MutualExclusion

(* A thread that starts to hold a free lock is the only one that does. *)
LEMMA AcquiredKeeps ==
  ASSUME LockInv, NEW t \in Thread, ~locked, Acquired(t)
  PROVE  LockInv'
<1>1. at' \in [Thread -> Places] /\ at'[t] = "holding"
  BY DEF LockInv, Acquired, Places, Thread
<1>2. \A u \in Thread : u # t => at'[u] = at[u] /\ ~Holds(u)
  BY DEF LockInv, Acquired, MutualExclusion, Thread
<1>3. locked' = TRUE /\ inside' \in [Thread -> BOOLEAN]
  BY DEF LockInv, Acquired, Thread
<1> QED
  BY <1>1, <1>2, <1>3 DEF LockInv, MutualExclusion, Holds, Thread

(* A holder that moves within its call changes nothing of the lock. *)
LEMMA HolderKeeps ==
  ASSUME LockInv, NEW t \in Thread, Holds(t), UNCHANGED lockVars,
         NEW place \in Places \ {"idle", "waiting", "closing", "dropping"},
         at' = [at EXCEPT ![t] = place]
  PROVE  LockInv'
<1>1. at' \in [Thread -> Places] /\ at'[t] = place
  BY DEF LockInv, Thread
<1>2. \A u \in Thread : u # t => at'[u] = at[u] /\ ~Holds(u)
  BY DEF LockInv, MutualExclusion, Thread
<1> QED
  BY <1>1, <1>2 DEF LockInv, MutualExclusion, Holds, Thread, lockVars

(* The guard's drop gives the lock back for both. *)
LEMMA ReleasedKeeps ==
  ASSUME LockInv, NEW t \in Thread, Holds(t),
         NEW place \in {"idle", "dropping"}, place = "dropping" => t = "main",
         at' = [at EXCEPT ![t] = place],
         locked' = FALSE, inside' = [inside EXCEPT ![t] = FALSE]
  PROVE  LockInv'
<1>1. at' \in [Thread -> Places] /\ at'[t] = place
  BY DEF LockInv, Places, Thread
<1>2. \A u \in Thread : u # t => at'[u] = at[u] /\ ~Holds(u)
  BY DEF LockInv, MutualExclusion, Thread
<1>3. inside' \in [Thread -> BOOLEAN]
  BY DEF LockInv, Thread
<1> QED
  BY <1>1, <1>2, <1>3 DEF LockInv, MutualExclusion, Holds, Thread

LEMMA BodyKeeps ==
  ASSUME LockInv, NEW t \in Thread, BodyStep(t)
  PROVE  LockInv'
<1>1. CASE Begin(t)
  <2>1. Holds(t) /\ at' = [at EXCEPT ![t] = "between"] /\ UNCHANGED lockVars
    BY <1>1 DEF Begin, Holds
  <2> QED BY <2>1, HolderKeeps DEF Places
<1>2. CASE RefuseMethod(t) \/ ReadParam(t) \/ WriteParam(t) \/ ForgetEditor(t)
  <2>1. UNCHANGED <<lockVars, at>>
    BY <1>2 DEF RefuseMethod, ReadParam, WriteParam, ForgetEditor
  <2> QED BY <2>1 DEF LockInv, MutualExclusion, Holds, lockVars
<1>3. CASE EnterMethod(t)
  <2>1. Holds(t) /\ UNCHANGED lockVars
    BY <1>3 DEF EnterMethod, Holds
  <2>2. PICK o \in Outcomes : at' = [at EXCEPT ![t] = o]
    BY <1>3 DEF EnterMethod
  <2> QED BY <2>1, <2>2, HolderKeeps DEF Places, Outcomes
<1>4. CASE ReturnMethod(t) \/ ReturnError(t) \/ CatchPanic(t)
  <2>1. Holds(t) /\ at' = [at EXCEPT ![t] = "between"] /\ UNCHANGED lockVars
    BY <1>4 DEF ReturnMethod, ReturnError, CatchPanic, Holds
  <2> QED BY <2>1, HolderKeeps DEF Places
<1>5. CASE End(t)
  <2>1. Holds(t) /\ at' = [at EXCEPT ![t] = "idle"]
        /\ locked' = FALSE /\ inside' = [inside EXCEPT ![t] = FALSE]
    BY <1>5 DEF End, Released, Holds
  <2> QED BY <2>1, ReleasedKeeps
<1> QED BY <1>1, <1>2, <1>3, <1>4, <1>5 DEF BodyStep

LEMMA InitLock == Init => LockInv
BY DEF Init, LockInv, MutualExclusion, Holds, Places, Thread

LEMMA NextLock == LockInv /\ [Next]_vars => LockInv'
<1> SUFFICES ASSUME LockInv, [Next]_vars PROVE LockInv'
  OBVIOUS
<1>1. CASE Create \/ DestroyDrop \/ EditorSets
  <2>1. UNCHANGED <<lockVars, at>>
    BY <1>1 DEF Create, DestroyDrop, EditorSets, threadVars
  <2> QED BY <2>1 DEF LockInv, MutualExclusion, Holds, lockVars
<1>2. CASE BodyStep("main") \/ BodyStep("audio")
  BY <1>2, BodyKeeps DEF Thread
<1>3. ASSUME NEW e \in Waiting, LockMain(e) PROVE LockInv'
  BY <1>3, AcquiredKeeps DEF LockMain, Thread
<1>4. ASSUME NEW t \in Thread, NEW e \in Trying[t], CallTrying(t, e) PROVE LockInv'
  BY <1>4, AcquiredKeeps DEF CallTrying
<1>5. CASE YieldMain \/ CallWaiting \/ DestroyNested
  <2>1. /\ UNCHANGED lockVars /\ ~Holds("main")
        /\ \E place \in {"idle", "waiting", "dropping"} : at' = [at EXCEPT !["main"] = place]
    <3>1. CASE YieldMain
      BY <3>1 DEF YieldMain, LockInv, Holds, Thread
    <3>2. CASE CallWaiting \/ DestroyNested
      BY <3>2 DEF CallWaiting, DestroyNested, Holds
    <3> QED BY <1>5, <3>1, <3>2
  <2> QED BY <2>1 DEF LockInv, MutualExclusion, Holds, lockVars, Thread, Places
<1>6. CASE DestroyClose
  <2>1. Holds("main") /\ UNCHANGED lockVars /\ at' = [at EXCEPT !["main"] = "closing"]
    BY <1>6 DEF DestroyClose, Holds
  <2> QED BY <2>1 DEF LockInv, MutualExclusion, Holds, lockVars, Thread, Places
<1>7. CASE DestroyForget
  <2>1. Holds("main")
    BY <1>7 DEF DestroyForget, Holds
  <2> QED BY <1>7, <2>1, ReleasedKeeps DEF DestroyForget, Thread
<1>8. CASE ElsewhereStep
  BY <1>8 DEF ElsewhereStep, threadVars, LockInv, MutualExclusion, Holds, Thread
<1>9. CASE UNCHANGED vars
  BY <1>9 DEF vars, lockVars, threadVars, LockInv, MutualExclusion, Holds
<1> QED
  BY <1>1, <1>2, <1>3, <1>4, <1>5, <1>6, <1>7, <1>8, <1>9 DEF Next, MainStep

(* lock.rs promises that a plug-in is never reached through two `&mut` at once, and its
   guard that the lock is given back on every way out of a call: whatever the host calls
   from its two threads, whatever panics and however long either thread takes, at most one
   of them is in a body and the lock is taken exactly while one is. *)
THEOREM Exclusive == Spec => []MutualExclusion
<1>1. LockInv => MutualExclusion
  BY DEF LockInv
<1> QED BY InitLock, NextLock, <1>1, PTL DEF Spec

-----------------------------------------------------------------------------
(* Which entries a thread can be in, and the steps the body of each is made of. *)
Entries(t) == IF t = "main" THEN Waiting \cup Trying["main"] ELSE Trying["audio"]

StepsOf(e) ==
  {<<"consult", 0>>}
    \cup (IF e[1] = "init" THEN {<<"init", 0>>} ELSE {})
    \cup (IF e[1] = "activate" THEN {"activate"} \X (Sizes \cup {0}) ELSE {})
    \cup (IF e[1] \in {"deactivate", "start", "stop", "reset"}
            THEN {"deactivate", "start", "stop", "reset"} \X {0} ELSE {})
    \cup (IF e[1] = "process" THEN {"process"} \X Frames ELSE {})
    \cup (IF e[1] = "save" THEN {"read"} \X Ids ELSE {})
    \cup (IF e[1] \in {"load", "flush"} THEN {"write"} \X Ids ELSE {})
    \cup (IF e[1] = "gui_destroy" THEN {<<"forget", 0>>} ELSE {})

InBody(t) == at[t] \in {"between"} \cup Outcomes

(* What a thread is doing: an entry of its own exactly while it is in a call, a script
   exactly while it is in a body, a method of the author only when the script has one. *)
ThreadInv(t) ==
  /\ doing[t] \in Entries(t) \cup {Nothing}
  /\ doing[t] = Nothing <=> at[t] \in {"idle", "waiting"}
  /\ at[t] \in {"closing", "dropping"} => doing[t][1] = "destroy"
  /\ InBody(t) => doing[t][1] # "destroy"
  /\ script[t] \in Seq(StepsOf(doing[t]))
  /\ ~InBody(t) => script[t] = <<>>
  /\ at[t] \in Outcomes => IsMethod(t) /\ at[t] \in Possible(Next1(t)[1])
  /\ at[t] = "error" => doing[t][1] # "gui_destroy"

(* The audio thread stays out of an instance that is being dropped. *)
CallInv ==
  /\ DOMAIN doing = Thread /\ DOMAIN script = Thread
  /\ \A t \in Thread : ThreadInv(t)
  /\ at["main"] = "dropping" => at["audio"] = "idle"

-----------------------------------------------------------------------------
(* The instance and the author's code.  Outside the author's methods the state of the one
   says what the other has been through; *)
Steady ==
  /\ inst = "Absent" => dsp = "absent"
  /\ inst \in {"Created", "Inactive", "Active"} => dsp = "stopped"
  /\ inst = "Processing" => dsp = "running"
  /\ inst = "Poisoned" => dsp = "broken"
  /\ inst = "Dropping" => dsp \in {"stopped", "broken"}
  /\ inst \in {"Active", "Processing"} => config \in Sizes /\ sized = config

(* at the end of one that succeeded the instance is a step behind. *)
Entered(m, n) ==
  /\ Ready(m, n)
  /\ dsp = IF m = "start" \/ (inst = "Processing" /\ m # "stop") THEN "running" ELSE "stopped"
  /\ m = "activate" => sized = n
  /\ inst \in {"Active", "Processing"} => config \in Sizes /\ sized = config

LifeInv ==
  /\ inst \in Live \cup {"Absent", "Dropping", "Destroyed"}
  /\ inst = "Absent" => \A t \in Thread : at[t] = "idle"
  /\ inst \in {"Dropping", "Destroyed"} => at["main"] = "dropping"
  /\ \/ Steady
     \/ \E t \in Thread : at[t] \in {"ok", "panic"}
  /\ \A t \in Thread : at[t] = "ok" => Entered(Next1(t)[1], Next1(t)[2])
  /\ \A t \in Thread : at[t] = "panic" => dsp = "broken"

-----------------------------------------------------------------------------
(* Where a state under way stands, and how far a deactivate and the editor's teardown
   have come. *)
DataInv ==
  /\ params \in [Ids -> Values] /\ DOMAIN blob \subseteq Ids
  /\ ~InBody("main") => blob = <<>>
  /\ StateMovesWhole

LandInv ==
  doing["main"][1] = "deactivate" /\ InBody("main") =>
    \/ script["main"] = Disarm
    \/ script["main"] = <<<<"deactivate", 0>>>> /\ inst # "Processing"
    \/ script["main"] = <<>> /\ inst \notin {"Active", "Processing"}

Forget == <<<<"forget", 0>>>>
AskForget == <<<<"consult", 0>>, <<"forget", 0>>>>

(* How far the body of the main thread has come with an editor it makes or gives up. *)
EditorScript ==
  /\ InBody("main") /\ doing["main"][1] = "gui_create" =>
       \/ script["main"] = Ask /\ editor = "none"
       \/ script["main"] = <<>>
  /\ InBody("main") /\ doing["main"][1] = "gui_destroy" =>
       \/ script["main"] = AskForget
       \/ script["main"] = Forget /\ editor # "opened"
       \/ script["main"] = <<>>

EditorInv ==
  /\ at["main"] = "closing" => editor # "opened"
  /\ at["main"] = "dropping" /\ editor = "opened" => inside["main"]
  /\ EditorScript

-----------------------------------------------------------------------------
LEMMA EachSteps ==
  ASSUME NEW kind
  PROVE  Each(kind) \in Seq({kind} \X Ids)
<1>1. Len(Params) \in Nat /\ DOMAIN Params = 1 .. Len(Params)
  BY ClapAssumption
<1>2. \A i \in DOMAIN Params : <<kind, Params[i]>> \in {kind} \X Ids
  BY DEF Ids, ToSet
<1> QED BY <1>1, <1>2 DEF Each

(* What the entries of each thread carry. *)
LEMMA EntryShape ==
  ASSUME NEW t \in Thread, NEW e \in Entries(t)
  PROVE  /\ e # Nothing
         /\ e[1] \in {"init", "activate", "deactivate", "consult", "save", "load", "destroy",
                      "gui_create", "gui_destroy", "gui_set_parent", "flush", "start", "stop",
                      "reset", "process"}
         /\ e[1] = "activate" => e \in {"activate"} \X (Sizes \cup {0})
         /\ e[1] = "process" => e \in {"process"} \X Frames
         /\ e[1] \in {"load", "flush"} => e[2] \in State
         /\ e[1] \in {"start", "stop"} => e \in {<<"start", 0>>, <<"stop", 0>>}
         /\ t = "main" => e[1] \notin {"start", "stop", "reset", "process"}
         /\ t = "audio" => e[1] \in {"start", "stop", "reset", "process", "consult", "flush"}
<1>1. CASE t = "main"
  BY <1>1 DEF Entries, Waiting, Trying, Flush, Nothing
<1>2. CASE t = "audio"
  BY <1>2 DEF Entries, Waiting, Trying, Flush, Nothing
<1> QED BY <1>1, <1>2 DEF Thread

LEMMA StepShape ==
  ASSUME NEW e, NEW s \in StepsOf(e)
  PROVE  /\ s[1] = "activate" => s[2] \in Sizes \cup {0}
         /\ s[1] \in {"init", "deactivate", "start", "stop", "reset", "consult"} => s[2] = 0
         /\ s[1] = "process" => s[2] \in Frames /\ e[1] = "process"
         /\ s[1] = "read" => s[2] \in Ids /\ e[1] = "save"
         /\ s[1] = "write" => s[2] \in Ids /\ e[1] \in {"load", "flush"}
         /\ s[1] = "forget" => e[1] = "gui_destroy"
<1>1. \/ s = <<"consult", 0>>
      \/ e[1] = "init" /\ s = <<"init", 0>>
      \/ e[1] = "activate" /\ s \in {"activate"} \X (Sizes \cup {0})
      \/ s \in {"deactivate", "start", "stop", "reset"} \X {0}
      \/ e[1] = "process" /\ s \in {"process"} \X Frames
      \/ e[1] = "save" /\ s \in {"read"} \X Ids
      \/ e[1] \in {"load", "flush"} /\ s \in {"write"} \X Ids
      \/ e[1] = "gui_destroy" /\ s = <<"forget", 0>>
  BY DEF StepsOf
<1> QED BY <1>1

LEMMA SeqMonotone ==
  ASSUME NEW S, NEW T, T \subseteq S, NEW s \in Seq(T)
  PROVE  s \in Seq(S)
OBVIOUS

LEMMA BodyShape ==
  ASSUME NEW t \in Thread, NEW e \in Entries(t), e[1] # "destroy"
  PROVE  Body(e) \in Seq(StepsOf(e))
<1> DEFINE S == StepsOf(e)
<1>1. <<"consult", 0>> \in S /\ Ask \in Seq(S)
  BY DEF StepsOf, Ask
<1>2. CASE e[1] \in {"init", "consult", "gui_create", "gui_set_parent"}
  <2>1. e[1] = "init" => <<<<"init", 0>>>> \in Seq(S)
    BY DEF StepsOf
  <2>2. e[1] = "init" => <<<<"init", 0>>>> \o Ask \in Seq(S)
    BY <1>1, <2>1
  <2> QED BY <1>1, <1>2, <2>2 DEF Body
<1>3. CASE e[1] \in {"activate", "process"}
  <2>1. e \in S
    BY <1>3, EntryShape DEF StepsOf
  <2> QED BY <1>3, <2>1 DEF Body
<1>4. CASE e[1] \in {"deactivate", "start", "stop", "reset"}
  <2>1. e[1] \in {"start", "stop"} => e \in S
    BY EntryShape DEF StepsOf
  <2>2. \A m \in {"deactivate", "start", "stop", "reset"} : <<m, 0>> \in S
    BY <1>4 DEF StepsOf
  <2> QED BY <1>4, <2>1, <2>2 DEF Body, Disarm
<1>5. CASE e[1] \in {"flush", "load"}
  <2>1. Each("write") \in Seq(S)
    <3>1. {"write"} \X Ids \subseteq S
      BY <1>5 DEF StepsOf
    <3> QED BY <3>1, EachSteps, SeqMonotone
  <2>2. Ask \o Each("write") \in Seq(S) /\ (Ask \o Each("write")) \o Ask \in Seq(S)
    BY <1>1, <2>1
  <2> QED BY <1>5, <2>2 DEF Body
<1>6. CASE e[1] = "save"
  <2>1. Each("read") \in Seq(S)
    <3>1. {"read"} \X Ids \subseteq S
      BY <1>6 DEF StepsOf
    <3> QED BY <3>1, EachSteps, SeqMonotone
  <2>2. (Ask \o Each("read")) \o Ask \in Seq(S)
    BY <1>1, <2>1
  <2> QED BY <1>6, <2>2 DEF Body
<1>7. CASE e[1] = "gui_destroy"
  <2>1. <<"forget", 0>> \in S
    BY <1>7 DEF StepsOf
  <2> QED BY <1>1, <1>7, <2>1 DEF Body
<1> QED BY EntryShape, <1>2, <1>3, <1>4, <1>5, <1>6, <1>7

(* A thread that does not move keeps its part, and what the body of one thread does leaves
   the other where it is. *)
LEMMA UnmovedKeeps ==
  ASSUME NEW u \in Thread, ThreadInv(u),
         at'[u] = at[u], doing'[u] = doing[u], script'[u] = script[u]
  PROVE  ThreadInv(u)'
BY DEF ThreadInv, InBody, IsMethod, Next1

LEMMA OthersStay ==
  ASSUME LockInv, CallInv, NEW t \in Thread, BodyStep(t), NEW u \in Thread, u # t
  PROVE  at'[u] = at[u] /\ doing'[u] = doing[u] /\ script'[u] = script[u]
<1>1. DOMAIN at = Thread /\ DOMAIN doing = Thread /\ DOMAIN script = Thread
  BY DEF LockInv, CallInv
<1>2. CASE Begin(t) \/ RefuseMethod(t) \/ EnterMethod(t)
  BY <1>1, <1>2 DEF Begin, RefuseMethod, EnterMethod, After
<1>3. CASE ReturnMethod(t) \/ ReturnError(t) \/ CatchPanic(t)
  BY <1>1, <1>3 DEF ReturnMethod, ReturnError, CatchPanic, After
<1>4. CASE ReadParam(t) \/ WriteParam(t) \/ ForgetEditor(t) \/ End(t)
  BY <1>1, <1>4 DEF ReadParam, WriteParam, ForgetEditor, End, Released, After
<1> QED BY <1>2, <1>3, <1>4 DEF BodyStep

(* What is left of a script. *)
LEMMA AfterShape ==
  ASSUME CallInv, NEW t \in Thread, script[t] # <<>>, NEW b \in BOOLEAN
  PROVE  /\ After(t, b)[t] \in Seq(StepsOf(doing[t])) /\ DOMAIN After(t, b) = Thread
         /\ After(t, b)[t] \in {Tail(script[t]), <<>>}
<1>1. script[t] \in Seq(StepsOf(doing[t])) /\ DOMAIN script = Thread
  BY DEF CallInv, ThreadInv
<1>2. Tail(script[t]) \in Seq(StepsOf(doing[t])) /\ <<>> \in Seq(StepsOf(doing[t]))
  BY <1>1
<1> QED BY <1>1, <1>2 DEF After

LEMMA BodyThread ==
  ASSUME LockInv, CallInv, NEW t \in Thread, BodyStep(t)
  PROVE  /\ ThreadInv(t)' /\ DOMAIN doing' = Thread /\ DOMAIN script' = Thread
         /\ at'["main"] = "dropping" => at["main"] = "dropping"
<1>1. /\ DOMAIN at = Thread /\ DOMAIN doing = Thread /\ DOMAIN script = Thread
      /\ ThreadInv(t)
  BY DEF LockInv, CallInv
<1>2. CASE Begin(t)
  <2>1. doing[t] \in Entries(t) /\ doing[t][1] # "destroy"
    BY <1>1, <1>2 DEF Begin, ThreadInv
  <2>2. script'[t] \in Seq(StepsOf(doing[t])) /\ at'[t] = "between" /\ doing' = doing
    BY <1>1, <1>2, <2>1, BodyShape DEF Begin
  <2> QED BY <1>1, <1>2, <2>1, <2>2 DEF Begin, ThreadInv, InBody, Outcomes
<1>3. CASE RefuseMethod(t)
  BY <1>1, <1>3, AfterShape DEF RefuseMethod, IsMethod, ThreadInv, InBody, Outcomes
<1>4. CASE EnterMethod(t)
  <2>1. PICK o \in Outcomes :
          /\ o = "error" => doing[t][1] # "gui_destroy"
          /\ o \in Possible(Next1(t)[1]) /\ at' = [at EXCEPT ![t] = o]
    BY <1>4 DEF EnterMethod, Enter
  <2>2. at[t] = "between" /\ IsMethod(t) /\ at'[t] = o /\ UNCHANGED <<doing, script>>
    BY <1>1, <1>4, <2>1 DEF EnterMethod
  <2>3. IsMethod(t)' /\ Next1(t)' = Next1(t)
    BY <2>2 DEF IsMethod, Next1
  <2> QED BY <1>1, <2>1, <2>2, <2>3 DEF ThreadInv, InBody, Outcomes
<1>5. CASE ReturnMethod(t) \/ ReturnError(t)
  <2>1. IsMethod(t) /\ at[t] \in Outcomes /\ at'[t] = "between" /\ UNCHANGED doing
    BY <1>1, <1>5 DEF ReturnMethod, ReturnError, ThreadInv, Outcomes
  <2>2. script' \in {After(t, TRUE), After(t, FALSE)}
    BY <1>5 DEF ReturnMethod, ReturnError
  <2>3. script'[t] \in Seq(StepsOf(doing[t])) /\ DOMAIN script' = Thread
    BY <2>1, <2>2, AfterShape DEF IsMethod
  <2>4. at'["main"] = "dropping" => at["main"] = "dropping"
    BY <1>1, <1>5 DEF ReturnMethod, ReturnError, Thread
  <2> QED BY <1>1, <2>1, <2>3, <2>4 DEF ThreadInv, InBody, Outcomes
<1>6. CASE CatchPanic(t)
  BY <1>1, <1>6 DEF CatchPanic, ThreadInv, InBody, Outcomes
<1>7. CASE ReadParam(t) \/ WriteParam(t) \/ ForgetEditor(t)
  <2>1. /\ at[t] = "between" /\ script[t] # <<>> /\ UNCHANGED <<at, doing>>
        /\ script' = After(t, TRUE)
    BY <1>7 DEF ReadParam, WriteParam, ForgetEditor, Doing
  <2> QED BY <1>1, <2>1, AfterShape DEF ThreadInv, InBody, Outcomes
<1>8. CASE End(t)
  <2>1. at'[t] = "idle" /\ doing'[t] = Nothing /\ script'[t] = <<>> /\ UNCHANGED script
    BY <1>1, <1>8 DEF End, Released
  <2>2. DOMAIN doing' = Thread /\ (at'["main"] = "dropping" => at["main"] = "dropping")
    BY <1>1, <1>8 DEF End, Released, Thread
  <2> QED BY <1>1, <2>1, <2>2 DEF ThreadInv, InBody, Outcomes
<1> QED BY <1>2, <1>3, <1>4, <1>5, <1>6, <1>7, <1>8 DEF BodyStep

LEMMA BodyHolds ==
  ASSUME CallInv, NEW t \in Thread, BodyStep(t)
  PROVE  Holds(t) /\ doing[t] \in Entries(t)
<1>1. Holds(t)
  <2>1. CASE Begin(t) \/ RefuseMethod(t) \/ EnterMethod(t) \/ ReturnMethod(t)
    BY <2>1 DEF Begin, RefuseMethod, EnterMethod, ReturnMethod, Holds
  <2>2. CASE ReturnError(t) \/ CatchPanic(t) \/ ReadParam(t) \/ WriteParam(t)
    BY <2>2 DEF ReturnError, CatchPanic, ReadParam, WriteParam, Doing, Holds
  <2>3. CASE ForgetEditor(t) \/ End(t)
    BY <2>3 DEF ForgetEditor, End, Doing, Holds
  <2> QED BY <2>1, <2>2, <2>3 DEF BodyStep
<1> QED BY <1>1 DEF CallInv, ThreadInv, Holds

LEMMA InitCall == Init => CallInv
<1> SUFFICES ASSUME Init PROVE CallInv
  OBVIOUS
<1>1. \A t \in Thread : at[t] = "idle" /\ doing[t] = Nothing /\ script[t] = <<>>
  BY DEF Init
<1>2. \A t \in Thread : ThreadInv(t)
  <2>1. <<>> \in Seq(StepsOf(Nothing))
    OBVIOUS
  <2> QED BY <1>1, <2>1 DEF ThreadInv, InBody, Outcomes
<1>3. DOMAIN doing = Thread /\ DOMAIN script = Thread
  BY DEF Init
<1> QED BY <1>1, <1>2, <1>3 DEF CallInv, Thread

LEMMA NextCall == LockInv /\ CallInv /\ [Next]_vars => CallInv'
<1> SUFFICES ASSUME LockInv, CallInv, [Next]_vars PROVE CallInv'
  OBVIOUS
<1>1. /\ DOMAIN at = Thread /\ DOMAIN doing = Thread /\ DOMAIN script = Thread
      /\ ThreadInv("main") /\ ThreadInv("audio")
      /\ "main" \in Thread /\ "audio" \in Thread /\ \A u \in Thread : u \in {"main", "audio"}
  BY DEF LockInv, CallInv, Thread
<1>2. ASSUME NEW t \in Thread, BodyStep(t) PROVE CallInv'
  <2>1. \A u \in Thread : ThreadInv(u)'
    BY <1>1, <1>2, OthersStay, UnmovedKeeps, BodyThread
  <2>2. at'["main"] = "dropping" => at'["audio"] = "idle"
    <3>1. at'["main"] = "dropping" => at["main"] = "dropping" /\ at["audio"] = "idle"
      BY <1>2, BodyThread DEF CallInv
    <3>2. at'["main"] = "dropping" => t = "main"
      BY <1>1, <1>2, <3>1, BodyHolds DEF Holds
    <3> QED BY <1>1, <1>2, <3>1, <3>2, OthersStay
  <2> QED BY <1>2, <2>1, <2>2, BodyThread DEF CallInv
<1>3. CASE Create \/ DestroyDrop \/ EditorSets \/ ElsewhereStep \/ UNCHANGED vars
  <2>1. UNCHANGED threadVars
    BY <1>3 DEF Create, DestroyDrop, EditorSets, ElsewhereStep, vars
  <2>2. \A u \in Thread : ThreadInv(u)'
    BY <1>1, <2>1, UnmovedKeeps DEF threadVars
  <2> QED BY <2>1, <2>2 DEF CallInv, threadVars
<1>4. ASSUME NEW t \in Thread, NEW e \in Trying[t], CallTrying(t, e) PROVE CallInv'
  <2>1. e \in Entries(t)
    BY <1>1 DEF Entries
  <2>2. e # Nothing /\ e[1] # "destroy"
    BY <1>1, <1>4 DEF Trying, Flush, Nothing
  <2>3. at[t] = "idle" /\ at'[t] = "holding" /\ doing'[t] = e /\ script'[t] = script[t]
    BY <1>1, <1>4 DEF CallTrying, Acquired
  <2>4. ThreadInv(t)'
    <3>1. script[t] = <<>>
      BY <2>3 DEF CallInv, ThreadInv, InBody, Outcomes
    <3>2. <<>> \in Seq(StepsOf(e))
      OBVIOUS
    <3> QED BY <2>1, <2>2, <2>3, <3>1, <3>2 DEF ThreadInv, InBody, Outcomes
  <2>5. \A u \in Thread : u # t => at'[u] = at[u] /\ doing'[u] = doing[u] /\ script'[u] = script[u]
    BY <1>1, <1>4 DEF CallTrying, Acquired
  <2>6. at'["main"] # "dropping"
    BY <1>1, <1>4, <2>3, <2>5 DEF CallTrying, ThreadInv
  <2>7. DOMAIN doing' = Thread /\ DOMAIN script' = Thread
    BY <1>1, <1>4 DEF CallTrying
  <2> QED BY <1>1, <2>4, <2>5, <2>6, <2>7, UnmovedKeeps DEF CallInv
<1>5. ASSUME NEW e \in Waiting, LockMain(e) PROVE CallInv'
  <2>1. e \in Entries("main") /\ e # Nothing
    BY <1>1, EntryShape DEF Entries
  <2>2. at["main"] = "waiting" /\ at'["main"] = "holding" /\ doing'["main"] = e /\ UNCHANGED script
    BY <1>1, <1>5 DEF LockMain, Acquired
  <2>3. ThreadInv("main")'
    <3>1. script["main"] = <<>> /\ <<>> \in Seq(StepsOf(e))
      BY <1>1, <2>2 DEF ThreadInv, InBody, Outcomes
    <3> QED BY <2>1, <2>2, <3>1 DEF ThreadInv, InBody, Outcomes
  <2>4. at'["audio"] = at["audio"] /\ doing'["audio"] = doing["audio"] /\ DOMAIN doing' = Thread
    BY <1>1, <1>5 DEF LockMain, Acquired
  <2>5. ThreadInv("audio")'
    BY <1>1, <2>2, <2>4, UnmovedKeeps
  <2> QED BY <1>1, <2>2, <2>3, <2>4, <2>5 DEF CallInv
<1>6. CASE YieldMain \/ CallWaiting \/ DestroyClose
  <2>1. /\ at'["audio"] = at["audio"] /\ at'["main"] # "dropping" /\ UNCHANGED <<doing, script>>
    BY <1>1, <1>6 DEF YieldMain, CallWaiting, DestroyClose
  <2>2. ThreadInv("main")'
    BY <1>1, <1>6 DEF YieldMain, CallWaiting, DestroyClose, ThreadInv, InBody, Outcomes, Nothing
  <2> QED BY <1>1, <2>1, <2>2, UnmovedKeeps DEF CallInv
<1>7. CASE DestroyForget
  <2>1. at["audio"] = "idle"
    BY <1>1, <1>7 DEF DestroyForget, LockInv, MutualExclusion, Holds
  <2>2. at'["audio"] = at["audio"] /\ at'["main"] = "dropping" /\ UNCHANGED <<doing, script>>
    BY <1>1, <1>7 DEF DestroyForget
  <2>3. ThreadInv("main")'
    BY <1>1, <1>7, <2>2 DEF DestroyForget, ThreadInv, InBody, Outcomes
  <2> QED BY <1>1, <2>1, <2>2, <2>3, UnmovedKeeps DEF CallInv
<1>8. CASE DestroyNested
  <2>1. /\ at["audio"] = "idle" /\ at'["audio"] = at["audio"] /\ at["main"] = "idle"
        /\ at'["main"] = "dropping" /\ doing'["main"] = <<"destroy", 0>>
        /\ doing'["audio"] = doing["audio"] /\ DOMAIN doing' = Thread /\ UNCHANGED script
    BY <1>1, <1>8 DEF DestroyNested
  <2>2. <<"destroy", 0>> \in Entries("main") /\ <<"destroy", 0>> # Nothing
    BY DEF Entries, Waiting, Nothing
  <2>3. ThreadInv("main")'
    <3>1. script["main"] = <<>> /\ <<>> \in Seq(StepsOf(<<"destroy", 0>>))
      BY <1>1, <2>1 DEF ThreadInv, InBody, Outcomes
    <3> QED BY <2>1, <2>2, <3>1 DEF ThreadInv, InBody, Outcomes
  <2> QED BY <1>1, <2>1, <2>3, UnmovedKeeps DEF CallInv
<1> QED
  BY <1>1, <1>2, <1>3, <1>4, <1>5, <1>6, <1>7, <1>8 DEF Next, MainStep

-----------------------------------------------------------------------------
(* Whoever is in a body is the only one in a call of an instance that is there. *)
LEMMA BodyAlone ==
  ASSUME LockInv, CallInv, LifeInv, NEW t \in Thread, BodyStep(t)
  PROVE  /\ inst \in Live
         /\ \A u \in Thread : u # t => at[u] \in {"idle", "waiting"} /\ at'[u] = at[u]
<1>1. Holds(t)
  BY BodyHolds
<1>2. \A u \in Thread : u # t => at[u] \in {"idle", "waiting"}
  <2>1. \A u \in Thread : u # t => at[u] \in {"idle", "waiting", "dropping"}
    BY <1>1 DEF LockInv, MutualExclusion, Holds, Thread
  <2>2. at["main"] # "dropping"
    BY <1>1 DEF CallInv, Holds, Thread
  <2> QED BY <2>1, <2>2 DEF LockInv, Thread
<1>3. inst \in Live
  BY <1>1, <1>2 DEF LifeInv, Holds, Thread
<1> QED BY <1>2, <1>3, OthersStay

(* A step that leaves the instance and the author's code alone, and enters or leaves none
   of the author's methods. *)
LEMMA AsideKeeps ==
  ASSUME LifeInv, inst \in Live, UNCHANGED instanceVars,
         \A u \in Thread : \/ at'[u] = at[u] /\ script'[u] = script[u]
                           \/ {at[u], at'[u]} \cap {"ok", "panic"} = {}
  PROVE  LifeInv'
<1>1. UNCHANGED <<inst, config, dsp, sized>>
  BY DEF instanceVars, stateVars, authorVars
<1>2. inst' \notin {"Absent", "Dropping", "Destroyed"} /\ inst' \in Live
  BY <1>1 DEF Live, Initialised
<1>3. Steady => Steady'
  BY <1>1 DEF Steady
<1>4. (\E u \in Thread : at[u] \in {"ok", "panic"}) => \E u \in Thread : at'[u] \in {"ok", "panic"}
  OBVIOUS
<1>5. ASSUME NEW u \in Thread, at'[u] = "ok" PROVE Entered(Next1(u)[1], Next1(u)[2])'
  <2>1. at[u] = "ok" /\ script'[u] = script[u]
    BY <1>5
  <2> QED BY <1>1, <2>1 DEF LifeInv, Entered, Ready, Next1
<1>6. \A u \in Thread : at'[u] = "panic" => dsp' = "broken"
  BY <1>1 DEF LifeInv
<1> QED BY <1>2, <1>3, <1>4, <1>5, <1>6 DEF LifeInv

(* A step after which no thread is in a method, and the two sides agree. *)
LEMMA SteadyKeeps ==
  ASSUME inst' \in Live, Steady', \A u \in Thread : at'[u] \notin {"ok", "panic"}
  PROVE  LifeInv'
BY DEF LifeInv, Live, Initialised

LEMMA BodyLife ==
  ASSUME LockInv, CallInv, LifeInv, NEW t \in Thread, BodyStep(t)
  PROVE  LifeInv'
<1>1. /\ inst \in Live /\ ThreadInv(t) /\ DOMAIN at = Thread
      /\ \A u \in Thread : u # t => at[u] \in {"idle", "waiting"} /\ at'[u] = at[u]
  BY BodyAlone DEF CallInv, LockInv
<1>2. at[t] \notin {"ok", "panic"} => Steady
  BY <1>1 DEF LifeInv
<1> DEFINE m == Next1(t)[1]  n == Next1(t)[2]
<1>3. CASE Begin(t) \/ RefuseMethod(t) \/ ReadParam(t) \/ WriteParam(t)
  <2>1. /\ UNCHANGED instanceVars /\ at[t] \notin {"ok", "panic"} /\ at'[t] \notin {"ok", "panic"}
    BY <1>1, <1>3 DEF Begin, RefuseMethod, ReadParam, WriteParam, Doing
  <2> QED BY <1>1, <2>1, AsideKeeps
<1>4. CASE ForgetEditor(t) \/ End(t) \/ ReturnError(t)
  <2>1. /\ UNCHANGED instanceVars /\ at[t] \notin {"ok", "panic"} /\ at'[t] \notin {"ok", "panic"}
    BY <1>1, <1>4 DEF ForgetEditor, End, Released, ReturnError, Doing
  <2> QED BY <1>1, <2>1, AsideKeeps
<1>5. CASE EnterMethod(t)
  <2>1. PICK o \in Outcomes : Enter(m, n, o) /\ at' = [at EXCEPT ![t] = o]
    BY <1>5 DEF EnterMethod
  <2>2. /\ Steady /\ at'[t] = o /\ UNCHANGED <<inst, config, script>>
        /\ m \in Methods /\ Next1(t)' = Next1(t)
    BY <1>1, <1>2, <1>5, <2>1 DEF EnterMethod, Enter, stateVars, IsMethod, Next1
  <2>3. Ready(m, n) /\ o \in Possible(m)
    BY <2>1 DEF Enter
  <2>4. CASE o = "ok"
    <3>1. /\ dsp' = IF m = "start" THEN "running" ELSE IF m = "stop" THEN "stopped" ELSE dsp
          /\ sized' = IF m = "activate" THEN n ELSE sized
      BY <2>1, <2>4 DEF Enter
    <3>2. Entered(m, n)'
      BY <2>2, <2>3, <3>1 DEF Entered, Ready, Steady, Methods, Initialised
    <3> QED BY <1>1, <2>2, <2>4, <3>2 DEF LifeInv, Live, Initialised
  <2>5. CASE o = "error"
    <3>1. m \in {"activate", "start", "consult"}
      BY <2>3, <2>5 DEF Possible
    <3>2. dsp' = dsp /\ sized' = IF m = "activate" THEN 0 ELSE sized
      BY <2>1, <2>5 DEF Enter
    <3>3. Steady'
      BY <2>2, <2>3, <3>1, <3>2 DEF Steady, Ready
    <3> QED BY <1>1, <2>2, <2>5, <3>3, SteadyKeeps
  <2>6. CASE o = "panic"
    <3>1. dsp' = "broken"
      BY <2>1, <2>6 DEF Enter
    <3> QED BY <1>1, <2>2, <2>6, <3>1 DEF LifeInv, Live, Initialised
  <2> QED BY <2>4, <2>5, <2>6 DEF Outcomes
<1>6. CASE ReturnMethod(t)
  <2>1. at[t] = "ok" /\ at'[t] = "between" /\ Return(m, n) /\ Entered(m, n)
    BY <1>1, <1>6 DEF ReturnMethod, LifeInv
  <2>2. m \in Methods /\ (m = "activate" => n \in Sizes)
    <3>1. IsMethod(t) /\ script[t] \in Seq(StepsOf(doing[t]))
      BY <1>1, <2>1 DEF ThreadInv, Outcomes
    <3>2. Next1(t) \in StepsOf(doing[t]) /\ m \in Methods
      BY <3>1 DEF IsMethod, Next1
    <3> QED BY <2>1, <3>2, StepShape DEF Entered, Ready
  <2>3. UNCHANGED <<dsp, sized>>
    BY <2>1 DEF Return, authorVars
  <2>4. inst' \in Live /\ Steady'
    BY <1>1, <2>1, <2>2, <2>3 DEF Return, Entered, Ready, Steady, Methods, Live, Initialised
  <2> QED BY <1>1, <2>1, <2>4, SteadyKeeps
<1>7. CASE CatchPanic(t)
  <2>1. at'[t] = "between" /\ inst' = "Poisoned" /\ dsp' = "broken"
    BY <1>1, <1>7 DEF CatchPanic, LifeInv, authorVars
  <2>2. Steady'
    BY <2>1 DEF Steady
  <2> QED BY <1>1, <2>1, <2>2, SteadyKeeps DEF Live
<1> QED BY <1>3, <1>4, <1>5, <1>6, <1>7 DEF BodyStep

LEMMA InitLife == Init => LifeInv
BY DEF Init, InstanceInit, LifeInv, Steady, Thread

LEMMA NextLife == LockInv /\ CallInv /\ LifeInv /\ [Next]_vars => LifeInv'
<1> SUFFICES ASSUME LockInv, CallInv, LifeInv, [Next]_vars PROVE LifeInv'
  OBVIOUS
<1>1. /\ DOMAIN at = Thread /\ "main" \in Thread /\ "audio" \in Thread
      /\ \A u \in Thread : u \in {"main", "audio"}
  BY DEF LockInv, Thread
<1>2. CASE Create
  <2>1. /\ inst = "Absent" /\ inst' = "Created" /\ dsp' = "stopped" /\ UNCHANGED at
    BY <1>2 DEF Create, Construct, threadVars
  <2>2. \A u \in Thread : at'[u] = "idle"
    BY <2>1 DEF LifeInv
  <2>3. inst' \in Live /\ Steady'
    BY <2>1 DEF Steady, Live
  <2> QED BY <2>2, <2>3, SteadyKeeps
<1>3. CASE DestroyDrop
  <2>1. UNCHANGED <<at, script>> /\ at["main"] = "dropping" /\ at["audio"] = "idle"
    BY <1>3 DEF DestroyDrop, threadVars, CallInv
  <2>2. Steady
    BY <1>1, <2>1 DEF LifeInv
  <2>3. inst' \in {"Dropping", "Destroyed"} /\ Steady'
    <3>1. CASE DropInstance
      BY <2>2, <3>1 DEF DropInstance, Steady, Live, Initialised
    <3>2. CASE DropAuthor
      BY <3>2 DEF DropAuthor, Steady
    <3> QED BY <1>3, <3>1, <3>2 DEF DestroyDrop
  <2> QED BY <1>1, <2>1, <2>3 DEF LifeInv
<1>4. CASE BodyStep("main") \/ BodyStep("audio")
  BY <1>1, <1>4, BodyLife
<1>5. ASSUME NEW t \in Thread, NEW e \in Trying[t], CallTrying(t, e) PROVE LifeInv'
  <2>1. inst \in Live /\ UNCHANGED <<instanceVars, script>>
    BY <1>5 DEF CallTrying
  <2>2. at[t] = "idle" /\ at'[t] = "holding" /\ \A u \in Thread : u # t => at'[u] = at[u]
    BY <1>1, <1>5 DEF CallTrying, Acquired
  <2> QED BY <2>1, <2>2, AsideKeeps
<1>6. ASSUME NEW e \in Waiting, LockMain(e) PROVE LifeInv'
  <2>1. UNCHANGED <<instanceVars, script>>
    BY <1>6 DEF LockMain
  <2>2. at["main"] = "waiting" /\ at'["main"] = "holding" /\ at'["audio"] = at["audio"]
    BY <1>1, <1>6 DEF LockMain, Acquired
  <2>3. inst \in Live
    BY <1>1, <2>2 DEF LifeInv
  <2> QED BY <1>1, <2>1, <2>2, <2>3, AsideKeeps
<1>7. CASE YieldMain \/ CallWaiting \/ DestroyClose \/ DestroyForget \/ DestroyNested
  <2>1. UNCHANGED <<instanceVars, script>>
    BY <1>7 DEF YieldMain, CallWaiting, DestroyClose, DestroyForget, DestroyNested
  <2>2. at["main"] \in {"waiting", "holding", "closing"} \/ inst \in Live
    BY <1>7 DEF YieldMain, CallWaiting, DestroyClose, DestroyForget, DestroyNested
  <2>3. inst \in Live
    BY <1>1, <2>2 DEF LifeInv
  <2>4. /\ {at["main"], at'["main"]} \cap {"ok", "panic"} = {} /\ at'["audio"] = at["audio"]
    BY <1>1, <1>7 DEF YieldMain, CallWaiting, DestroyClose, DestroyForget, DestroyNested
  <2> QED BY <1>1, <2>1, <2>3, <2>4, AsideKeeps
<1>8. CASE EditorSets \/ ElsewhereStep \/ UNCHANGED vars
  <2>1. UNCHANGED <<inst, config, dsp, sized, at, script>>
    BY <1>8 DEF EditorSets, ElsewhereStep, vars, threadVars, instanceVars, stateVars, authorVars
  <2> QED BY <2>1 DEF LifeInv, Steady, Entered, Ready, Next1
<1> QED
  BY <1>2, <1>3, <1>4, <1>5, <1>6, <1>7, <1>8 DEF Next, MainStep

-----------------------------------------------------------------------------
(* A method entered in a state that agrees is one the contract allows. *)
LEMMA EnterAllowed ==
  ASSUME Steady, NEW m \in Methods, NEW n, NEW o \in Outcomes, Enter(m, n, o),
         m = "activate" => n \in Sizes \cup {0},
         m = "process" => n \in Frames,
         m \notin {"activate", "process"} => n = 0
  PROVE  [Contract!Next]_authorVars
<1>1. Ready(m, n) /\ o \in Possible(m)
  BY DEF Enter
<1>2. /\ dsp' = IF o = "panic" THEN "broken"
                ELSE IF o = "ok" /\ m = "start" THEN "running"
                ELSE IF o = "ok" /\ m = "stop" THEN "stopped" ELSE dsp
      /\ m # "activate" => sized' = sized
      /\ m = "activate" => sized' \in {n, 0}
      /\ call' = IF m \in DOMAIN Author THEN <<Author[m], n>> ELSE call
  BY DEF Enter, Outcomes
<1>3. /\ m = "consult" => dsp \in {"stopped", "running"}
      /\ m \in {"activate", "start", "reset"} => dsp = "stopped"
      /\ m \in {"stop", "process"} => dsp = "running"
      /\ m \in {"start", "reset", "process"} => sized = config /\ config \in Sizes
  BY <1>1 DEF Ready, Steady, Initialised
<1>4. CASE m \in {"init", "deactivate"}
  <2>1. o = "ok" /\ m \notin DOMAIN Author
    BY <1>1, <1>4 DEF Possible, Author
  <2> QED BY <1>2, <1>4, <2>1 DEF authorVars
<1>5. CASE m = "consult"
  <2>1. Contract!Consult
    BY <1>2, <1>3, <1>5 DEF Contract!Consult, Author
  <2> QED BY <2>1 DEF Contract!Next
<1>6. CASE m = "activate"
  <2>1. n \in Sizes
    BY <1>1, <1>6 DEF Ready
  <2>2. Contract!Prepare(n)
    BY <1>2, <1>3, <1>6, <2>1 DEF Contract!Prepare, Author
  <2> QED BY <2>1, <2>2 DEF Contract!Next
<1>7. CASE m = "start"
  <2>1. Contract!Activate
    BY <1>2, <1>3, <1>7, MaxSizeAssumption DEF Contract!Activate, Author, Sizes
  <2> QED BY <2>1 DEF Contract!Next
<1>8. CASE m = "stop"
  <2>1. Contract!Deactivate
    BY <1>1, <1>2, <1>3, <1>8 DEF Contract!Deactivate, Author, Possible
  <2> QED BY <2>1 DEF Contract!Next
<1>9. CASE m = "reset"
  <2>1. Contract!Reset
    BY <1>2, <1>3, <1>9, MaxSizeAssumption DEF Contract!Reset, Author, Sizes
  <2> QED BY <2>1 DEF Contract!Next
<1>10. CASE m = "process"
  <2>1. n <= sized /\ n \in Sizes \cup {0}
    BY <1>1, <1>3, <1>10, MaxSizeAssumption DEF Ready, Sizes, Frames
  <2>2. Contract!Process(n)
    BY <1>2, <1>3, <1>10, <2>1 DEF Contract!Process, Author
  <2> QED BY <2>1, <2>2 DEF Contract!Next
<1> QED BY <1>4, <1>5, <1>6, <1>7, <1>8, <1>9, <1>10 DEF Methods

LEMMA NextContract ==
  LockInv /\ CallInv /\ LifeInv /\ [Next]_vars => [Contract!Next]_(Contract!contractVars)
<1> SUFFICES ASSUME LockInv, CallInv, LifeInv, [Next]_vars
             PROVE  [Contract!Next]_authorVars
  BY DEF authorVars, Contract!contractVars
<1>1. CASE Create
  <2>1. Construct /\ dsp = "absent"
    BY <1>1 DEF Create, Construct, LifeInv, Steady
  <2>2. Contract!Construct
    BY <2>1 DEF Construct, Contract!Construct
  <2> QED BY <2>2 DEF Contract!Next
<1>2. CASE DestroyDrop
  <2>1. Steady
    BY <1>2 DEF DestroyDrop, CallInv, LifeInv, Thread
  <2>2. CASE DropInstance /\ inst = "Processing"
    <3>1. Contract!Deactivate
      BY <2>1, <2>2 DEF DropInstance, Steady, Contract!Deactivate
    <3> QED BY <3>1 DEF Contract!Next
  <2>3. CASE DropInstance /\ inst # "Processing"
    BY <2>3 DEF DropInstance, authorVars
  <2>4. CASE DropAuthor
    <3>1. Contract!Drop
      BY <2>1, <2>4 DEF DropAuthor, Steady, Contract!Drop
    <3> QED BY <3>1 DEF Contract!Next
  <2> QED BY <1>2, <2>2, <2>3, <2>4 DEF DestroyDrop
<1>3. ASSUME NEW t \in Thread, BodyStep(t) PROVE [Contract!Next]_authorVars
  <2>1. CASE EnterMethod(t)
    <3>1. PICK o \in Outcomes : Enter(Next1(t)[1], Next1(t)[2], o)
      BY <2>1 DEF EnterMethod
    <3>2. Steady
      BY <1>3, <2>1, BodyAlone DEF EnterMethod, LifeInv
    <3>3. IsMethod(t) /\ script[t] \in Seq(StepsOf(doing[t]))
      BY <2>1 DEF EnterMethod, CallInv, ThreadInv
    <3>4. Next1(t) \in StepsOf(doing[t]) /\ Next1(t)[1] \in Methods
      BY <3>3 DEF IsMethod, Next1
    <3> QED BY <3>1, <3>2, <3>4, StepShape, EnterAllowed DEF Methods
  <2>2. CASE Begin(t) \/ RefuseMethod(t) \/ ReturnError(t) \/ CatchPanic(t) \/ ReadParam(t)
    BY <2>2 DEF Begin, RefuseMethod, ReturnError, CatchPanic, ReadParam, instanceVars
  <2>3. CASE WriteParam(t) \/ ForgetEditor(t) \/ End(t)
    BY <2>3 DEF WriteParam, ForgetEditor, End, instanceVars
  <2>4. CASE ReturnMethod(t)
    BY <2>4 DEF ReturnMethod, Return
  <2> QED BY <1>3, <2>1, <2>2, <2>3, <2>4 DEF BodyStep
<1>4. ASSUME NEW t \in Thread, NEW e \in Trying[t], CallTrying(t, e)
      PROVE  [Contract!Next]_authorVars
  BY <1>4 DEF CallTrying, instanceVars
<1>5. ASSUME NEW e \in Waiting, LockMain(e) PROVE [Contract!Next]_authorVars
  BY <1>5 DEF LockMain, instanceVars
<1>6. CASE YieldMain \/ CallWaiting \/ DestroyClose \/ DestroyForget \/ DestroyNested
  BY <1>6 DEF YieldMain, CallWaiting, DestroyClose, DestroyForget, DestroyNested, instanceVars
<1>7. CASE EditorSets \/ ElsewhereStep \/ UNCHANGED vars
  BY <1>7 DEF EditorSets, ElsewhereStep, vars, instanceVars
<1> QED
  BY <1>1, <1>2, <1>3, <1>4, <1>5, <1>6, <1>7 DEF Next, MainStep, Thread

(* The lock, the calls and the lifecycle together are inductive. *)
LEMMA CallsInductive == Spec => [](LockInv /\ CallInv /\ LifeInv)
BY InitLock, NextLock, InitCall, NextCall, InitLife, NextLife, PTL DEF Spec

(* The author's code of a CLAP plug-in sees the contract of DauxProcessor whatever the
   host's two threads call: it is prepared only while stopped, never processes more frames
   than the preparation under way allows, is stopped once for every start, also where reset and
   deactivate meet, and after a panic is only dropped. *)
THEOREM ClapImplementsContract == Spec => ImplementsContract
<1>1. Init => Contract!Init
  BY DEF Init, InstanceInit, Contract!Init
<1> QED
  BY <1>1, CallsInductive, NextContract, PTL DEF Spec, ImplementsContract, Contract!Spec

-----------------------------------------------------------------------------
(* The state under way.  Only the thread in a body reads and writes parameters for a
   state, and nobody moves one while the main thread is in a save or a load. *)
LEMMA BodyData ==
  ASSUME LockInv, CallInv, LifeInv, DataInv, NEW t \in Thread, BodyStep(t)
  PROVE  DataInv'
<1>1. /\ DOMAIN at = Thread /\ DOMAIN doing = Thread /\ ThreadInv(t) /\ doing[t] \in Entries(t)
      /\ params \in [Ids -> Values] /\ t \in {"main", "audio"}
      /\ t = "audio" => ~InBody("main") /\ doing["main"] = Nothing
      /\ t = "audio" => at'["main"] = at["main"] /\ doing'["main"] = doing["main"]
  <2>1. t = "audio" => at["main"] \in {"idle", "waiting"} /\ at'["main"] = at["main"]
                       /\ doing'["main"] = doing["main"]
    BY BodyAlone, OthersStay DEF Thread
  <2>2. t = "audio" => doing["main"] = Nothing
    BY <2>1 DEF CallInv, ThreadInv, Thread
  <2> QED BY <2>1, <2>2, BodyHolds DEF LockInv, CallInv, DataInv, Thread, InBody, Outcomes
<1>2. script[t] # <<>> => Next1(t) \in StepsOf(doing[t])
  BY <1>1 DEF ThreadInv, Next1
<1>3. t = "audio" => UNCHANGED blob
  <2>1. CASE Begin(t) \/ RefuseMethod(t) \/ EnterMethod(t) \/ ReturnMethod(t) \/ ReturnError(t)
    BY <1>1, <2>1 DEF Begin, RefuseMethod, EnterMethod, ReturnMethod, ReturnError, dataVars
  <2>2. CASE CatchPanic(t) \/ WriteParam(t) \/ ForgetEditor(t) \/ End(t)
    BY <1>1, <2>2 DEF CatchPanic, WriteParam, ForgetEditor, End, dataVars
  <2>3. CASE ReadParam(t)
    <3>1. doing[t][1] = "save"
      BY <1>2, <2>3, StepShape DEF ReadParam, Doing
    <3> QED BY <1>1, <3>1, EntryShape
  <2> QED BY <2>1, <2>2, <2>3 DEF BodyStep
<1>4. params' \in [Ids -> Values]
  <2>1. CASE EnterMethod(t)
    BY <1>1, <2>1 DEF EnterMethod, Automation
  <2>2. CASE WriteParam(t)
    <3>1. doing[t][2] \in State
      BY <1>1, <1>2, <2>2, StepShape, EntryShape DEF WriteParam, Doing
    <3>2. \A p \in DOMAIN doing[t][2] : doing[t][2][p] \in Values
      BY <3>1 DEF State
    <3> QED BY <1>1, <2>2, <3>2 DEF WriteParam
  <2>3. CASE Begin(t) \/ RefuseMethod(t) \/ ReturnMethod(t) \/ ReturnError(t) \/ CatchPanic(t)
    BY <1>1, <2>3 DEF Begin, RefuseMethod, ReturnMethod, ReturnError, CatchPanic, dataVars
  <2>4. CASE ReadParam(t) \/ ForgetEditor(t) \/ End(t)
    BY <1>1, <2>4 DEF ReadParam, ForgetEditor, End, dataVars
  <2> QED BY <2>1, <2>2, <2>3, <2>4 DEF BodyStep
<1>5. CASE t = "audio"
  <2>1. ~InBody("main")' /\ doing'["main"] = Nothing /\ UNCHANGED blob
    BY <1>1, <1>3, <1>5 DEF InBody
  <2> QED BY <1>1, <1>4, <1>5, <2>1 DEF DataInv, StateMovesWhole, Nothing
<1>6. CASE t = "main"
  <2> USE <1>6
  <2>1. CASE Begin(t)
    <3>1. blob' = <<>>
      BY <2>1 DEF Begin
    <3>2. DOMAIN blob' = {}
      BY <3>1
    <3> QED BY <1>4, <3>1, <3>2 DEF DataInv, StateMovesWhole
  <2>2. CASE End(t)
    <3>1. blob' = <<>>
      BY <2>2 DEF End
    <3>2. DOMAIN blob' = {}
      BY <3>1
    <3> QED BY <1>4, <3>1, <3>2 DEF DataInv, StateMovesWhole
  <2>3. CASE RefuseMethod(t) \/ ReturnMethod(t) \/ ReturnError(t) \/ CatchPanic(t) \/ ForgetEditor(t)
    <3>1. UNCHANGED <<doing, params, blob>> /\ at'["main"] = "between"
      BY <1>1, <2>3 DEF RefuseMethod, ReturnMethod, ReturnError, CatchPanic, ForgetEditor,
                        dataVars, Doing
    <3> QED BY <1>4, <3>1 DEF DataInv, StateMovesWhole, InBody
  <2>4. CASE EnterMethod(t)
    <3>1. Next1(t)[1] # "process"
      <4>1. Next1(t)[1] = "process" => doing[t][1] = "process"
        BY <1>2, <2>4, StepShape DEF EnterMethod, IsMethod
      <4> QED BY <1>1, <4>1, EntryShape
    <3>2. UNCHANGED <<doing, params, blob>> /\ InBody("main")'
      BY <1>1, <2>4, <3>1 DEF EnterMethod, Automation, InBody
    <3> QED BY <1>4, <3>2 DEF DataInv, StateMovesWhole
  <2>5. CASE ReadParam(t)
    <3>1. PICK p \in Ids : blob' = Put(p, params[p])
      BY <1>2, <2>5, StepShape DEF ReadParam, Doing
    <3>2. UNCHANGED <<doing, params>> /\ at'["main"] = "between"
      BY <2>5 DEF ReadParam, Doing
    <3> QED BY <1>4, <3>1, <3>2 DEF DataInv, StateMovesWhole, Put, InBody
  <2>6. CASE WriteParam(t)
    <3>1. UNCHANGED <<at, doing>> /\ InBody("main")
      BY <2>6 DEF WriteParam, Doing, InBody
    <3>2. Next1(t)[2] \in Ids
      BY <1>2, <2>6, StepShape DEF WriteParam, Doing
    <3>3. CASE UNCHANGED <<params, blob>>
      BY <1>4, <3>1, <3>3 DEF DataInv, StateMovesWhole, InBody
    <3>4. CASE /\ params' = [params EXCEPT ![Next1(t)[2]] = doing[t][2][Next1(t)[2]]]
               /\ blob' = Put(Next1(t)[2], doing[t][2][Next1(t)[2]])
      <4>1. /\ DOMAIN blob' = DOMAIN blob \cup {Next1(t)[2]}
            /\ \A q \in DOMAIN blob' :
                 blob'[q] = IF q = Next1(t)[2] THEN doing[t][2][Next1(t)[2]] ELSE blob[q]
        BY <3>4 DEF Put
      <4>2. \A q : q # Next1(t)[2] => params'[q] = params[q] \/ q \notin Ids
        BY <1>1, <3>4
      <4>3. doing[t][2][Next1(t)[2]] = params'[Next1(t)[2]]
        BY <1>1, <3>2, <3>4
      <4> QED BY <1>1, <1>4, <3>1, <3>2, <3>4, <4>1, <4>2, <4>3 DEF DataInv, StateMovesWhole, InBody
    <3> QED BY <2>6, <3>3, <3>4 DEF WriteParam
  <2> QED BY <2>1, <2>2, <2>3, <2>4, <2>5, <2>6 DEF BodyStep
<1> QED BY <1>1, <1>5, <1>6

LEMMA InitData == Init => DataInv
<1>1. DOMAIN << >> = {}
  OBVIOUS
<1> QED BY <1>1 DEF Init, DataInv, StateMovesWhole, Nothing

(* A step of a main thread that is not in a body, or of a call that begins. *)
LEMMA AsideData ==
  ASSUME DataInv, UNCHANGED <<params, blob>>,
         InBody("main") => UNCHANGED <<at["main"], doing["main"]>>
  PROVE  DataInv'
<1>1. CASE InBody("main")
  BY <1>1 DEF DataInv, StateMovesWhole, InBody
<1>2. CASE ~InBody("main")
  <2>1. blob' = <<>> /\ DOMAIN blob' = {}
    BY <1>2 DEF DataInv
  <2> QED BY <2>1 DEF DataInv, StateMovesWhole
<1> QED BY <1>1, <1>2

LEMMA NextData == LockInv /\ CallInv /\ LifeInv /\ DataInv /\ [Next]_vars => DataInv'
<1> SUFFICES ASSUME LockInv, CallInv, LifeInv, DataInv, [Next]_vars PROVE DataInv'
  OBVIOUS
<1>1. /\ DOMAIN at = Thread /\ DOMAIN doing = Thread /\ "main" \in Thread
  BY DEF LockInv, CallInv, Thread
<1>2. CASE BodyStep("main") \/ BodyStep("audio")
  BY <1>2, BodyData DEF Thread
<1>3. CASE EditorSets
  <2>1. at["main"] = "idle" /\ UNCHANGED <<at, doing, blob>>
    BY <1>3 DEF EditorSets, threadVars
  <2>2. blob = <<>> /\ DOMAIN blob = {}
    BY <2>1 DEF DataInv, InBody, Outcomes
  <2>3. params' \in [Ids -> Values]
    BY <1>3 DEF EditorSets, DataInv
  <2> QED BY <2>1, <2>2, <2>3 DEF DataInv, StateMovesWhole
<1>4. ASSUME NEW t \in Thread, NEW e \in Trying[t], CallTrying(t, e) PROVE DataInv'
  <2>1. UNCHANGED <<params, blob>> /\ at[t] = "idle"
    BY <1>4 DEF CallTrying, dataVars
  <2>2. t # "main" => at'["main"] = at["main"] /\ doing'["main"] = doing["main"]
    BY <1>1, <1>4 DEF CallTrying, Acquired
  <2> QED BY <2>1, <2>2, AsideData DEF InBody, Outcomes
<1>5. ASSUME NEW e \in Waiting, LockMain(e) PROVE DataInv'
  BY <1>5, AsideData DEF LockMain, dataVars, InBody, Outcomes
<1>6. CASE YieldMain \/ CallWaiting \/ DestroyClose \/ DestroyForget \/ DestroyNested
  BY <1>6, AsideData DEF YieldMain, CallWaiting, DestroyClose, DestroyForget, DestroyNested,
                         dataVars, InBody, Outcomes
<1>7. CASE Create \/ DestroyDrop \/ ElsewhereStep \/ UNCHANGED vars
  BY <1>7, AsideData DEF Create, DestroyDrop, ElsewhereStep, vars, dataVars, threadVars
<1> QED
  BY <1>2, <1>3, <1>4, <1>5, <1>6, <1>7 DEF Next, MainStep

(* A project saved while the audio thread processes and flushes is one state of the
   parameters and not a mixture of two, and one that is loaded is in place as a whole when
   the controller is asked to read it. *)
THEOREM StatesMoveWhole == Spec => []StateMovesWhole
<1>1. DataInv => StateMovesWhole
  BY DEF DataInv
<1> QED BY <1>1, CallsInductive, InitData, NextData, PTL DEF Spec

-----------------------------------------------------------------------------
(* The main thread's part of a step: it is out of its body afterwards, or has not moved, or
   moves within it. *)
LEMMA MainAside ==
  ASSUME LockInv, CallInv, LifeInv, [Next]_vars, ~BodyStep("main")
  PROVE  \/ ~InBody("main")'
         \/ /\ InBody("main") /\ UNCHANGED <<inst, editor, at["main"], doing["main"], script["main"]>>
<1>1. /\ DOMAIN at = Thread /\ DOMAIN doing = Thread /\ DOMAIN script = Thread
      /\ "main" \in Thread /\ "audio" \in Thread
  BY DEF LockInv, CallInv, Thread
<1>2. CASE BodyStep("audio")
  <2>1. at'["main"] \in {"idle", "waiting"}
    BY <1>1, <1>2, BodyAlone
  <2> QED BY <2>1 DEF InBody, Outcomes
<1>3. CASE EditorSets \/ DestroyDrop \/ Create
  <2>1. at["main"] \in {"idle", "dropping"} /\ at'["main"] = at["main"]
    BY <1>1, <1>3 DEF EditorSets, DestroyDrop, Create, Construct, threadVars, LifeInv
  <2> QED BY <2>1 DEF InBody, Outcomes
<1>4. ASSUME NEW t \in Thread, NEW e \in Trying[t], CallTrying(t, e)
      PROVE  \/ ~InBody("main")'
             \/ /\ InBody("main")
                /\ UNCHANGED <<inst, editor, at["main"], doing["main"], script["main"]>>
  <2>1. UNCHANGED <<inst, editor, script>>
    BY <1>4 DEF CallTrying, instanceVars, stateVars, editorVars
  <2>2. t = "main" => at'["main"] = "holding"
    BY <1>1, <1>4 DEF CallTrying, Acquired
  <2>3. t # "main" => UNCHANGED <<at["main"], doing["main"]>>
    BY <1>1, <1>4 DEF CallTrying, Acquired
  <2> QED BY <2>1, <2>2, <2>3 DEF InBody, Outcomes
<1>5. ASSUME NEW e \in Waiting, LockMain(e) PROVE ~InBody("main")'
  BY <1>1, <1>5 DEF LockMain, Acquired, InBody, Outcomes
<1>6. CASE YieldMain \/ CallWaiting \/ DestroyClose \/ DestroyForget \/ DestroyNested
  BY <1>1, <1>6 DEF YieldMain, CallWaiting, DestroyClose, DestroyForget, DestroyNested, InBody,
                    Outcomes
<1>7. CASE ElsewhereStep \/ UNCHANGED vars
  BY <1>7 DEF ElsewhereStep, vars, threadVars, instanceVars, stateVars, editorVars, InBody
<1> QED
  BY <1>2, <1>3, <1>4, <1>5, <1>6, <1>7 DEF Next, MainStep

(* A deactivate stops what is processing before it deactivates what is active. *)
LEMMA BodyLand ==
  ASSUME LockInv, CallInv, LifeInv, LandInv, BodyStep("main"), doing'["main"][1] = "deactivate"
  PROVE  InBody("main")' =>
    \/ script'["main"] = Disarm
    \/ script'["main"] = <<<<"deactivate", 0>>>> /\ inst' # "Processing"
    \/ script'["main"] = <<>> /\ inst' \notin {"Active", "Processing"}
<1> DEFINE t == "main"  S == script["main"]
<1>1. /\ DOMAIN at = Thread /\ DOMAIN doing = Thread /\ DOMAIN script = Thread
      /\ t \in Thread /\ ThreadInv(t)
  BY DEF LockInv, CallInv, Thread
<1>2. /\ Disarm # <<>> /\ Disarm[1] = <<"stop", 0>> /\ Tail(Disarm) = <<<<"deactivate", 0>>>>
      /\ Tail(<<<<"deactivate", 0>>>>) = <<>> /\ <<<<"deactivate", 0>>>>[1] = <<"deactivate", 0>>
      /\ <<"stop", 0>> # <<"deactivate", 0>> /\ Disarm # <<<<"deactivate", 0>>>>
  BY DEF Disarm
<1>3. CASE End(t)
  BY <1>1, <1>3 DEF End, Released, InBody, Outcomes
<1>4. doing["main"][1] = "deactivate" \/ End(t)
  <2>1. CASE Begin(t) \/ RefuseMethod(t) \/ EnterMethod(t) \/ ReturnMethod(t) \/ ReturnError(t)
    BY <2>1 DEF Begin, RefuseMethod, EnterMethod, ReturnMethod, ReturnError
  <2>2. CASE CatchPanic(t) \/ ReadParam(t) \/ WriteParam(t) \/ ForgetEditor(t)
    BY <2>2 DEF CatchPanic, ReadParam, WriteParam, ForgetEditor
  <2> QED BY <2>1, <2>2 DEF BodyStep
<1> SUFFICES ASSUME doing["main"][1] = "deactivate", ~End(t)
             PROVE  \/ script'["main"] = Disarm
                    \/ script'["main"] = <<<<"deactivate", 0>>>> /\ inst' # "Processing"
                    \/ script'["main"] = <<>> /\ inst' \notin {"Active", "Processing"}
  BY <1>3, <1>4
<1>5. CASE Begin(t)
  <2>1. /\ script'["main"] = IF inst = "Poisoned" THEN <<>> ELSE Body(doing["main"])
        /\ inst' = inst
    BY <1>1, <1>5 DEF Begin, instanceVars, stateVars
  <2>2. Body(doing["main"]) = Disarm
    BY DEF Body
  <2> QED BY <2>1, <2>2
<1>6. InBody(t) \/ Begin(t)
  <2>1. CASE RefuseMethod(t) \/ EnterMethod(t) \/ ReturnMethod(t) \/ ReturnError(t)
    BY <2>1 DEF RefuseMethod, EnterMethod, ReturnMethod, ReturnError, InBody, Outcomes
  <2>2. CASE CatchPanic(t) \/ ReadParam(t) \/ WriteParam(t) \/ ForgetEditor(t)
    BY <2>2 DEF CatchPanic, ReadParam, WriteParam, ForgetEditor, Doing, InBody, Outcomes
  <2> QED BY <2>1, <2>2 DEF BodyStep
<1>7. CASE InBody(t)
  <2>1. \/ S = Disarm
        \/ S = <<<<"deactivate", 0>>>> /\ inst # "Processing"
        \/ S = <<>> /\ inst \notin {"Active", "Processing"}
    BY <1>7 DEF LandInv
  <2>2. S # <<>> => /\ Next1(t) = IF S = Disarm THEN <<"stop", 0>> ELSE <<"deactivate", 0>>
                    /\ Tail(S) = IF S = Disarm THEN <<<<"deactivate", 0>>>> ELSE <<>>
    BY <1>2, <2>1 DEF Next1
  <2>3. \A b \in BOOLEAN : After(t, b)["main"] = Tail(S)
    BY <1>1 DEF After, GoesOn
  <2>4. CASE RefuseMethod(t)
    <3>1. /\ S # <<>> /\ ~Ready(Next1(t)[1], Next1(t)[2]) /\ inst' = inst
          /\ script'["main"] = Tail(S)
      BY <2>3, <2>4 DEF RefuseMethod, IsMethod, instanceVars, stateVars
    <3>2. /\ ~Ready("stop", 0) => inst # "Processing"
          /\ ~Ready("deactivate", 0) => inst # "Active"
      BY DEF Ready
    <3>3. CASE S = Disarm
      BY <2>2, <3>1, <3>2, <3>3
    <3>4. CASE S # Disarm
      BY <1>2, <2>1, <2>2, <3>1, <3>2, <3>4
    <3> QED BY <3>3, <3>4
  <2>5. CASE EnterMethod(t)
    BY <2>1, <2>5 DEF EnterMethod, Enter, stateVars
  <2>6. CASE ReturnMethod(t)
    <3>1. /\ S # <<>> /\ Return(Next1(t)[1], Next1(t)[2]) /\ Ready(Next1(t)[1], Next1(t)[2])
          /\ script'["main"] = Tail(S)
      BY <1>1, <2>3, <2>6 DEF ReturnMethod, LifeInv, Entered, ThreadInv, IsMethod, Outcomes
    <3>2. /\ Return("stop", 0) => inst' = "Active"
          /\ Return("deactivate", 0) => inst' = "Inactive"
      BY DEF Return
    <3>3. CASE S = Disarm
      BY <2>2, <3>1, <3>2, <3>3
    <3>4. CASE S # Disarm
      BY <1>2, <2>1, <2>2, <3>1, <3>2, <3>4
    <3> QED BY <3>3, <3>4
  <2>7. CASE ReturnError(t)
    <3>1. S # <<>> /\ "error" \in Possible(Next1(t)[1])
      BY <1>1, <2>7 DEF ReturnError, ThreadInv, IsMethod, Outcomes
    <3> QED BY <2>1, <2>2, <3>1 DEF Possible
  <2>8. CASE CatchPanic(t)
    BY <1>1, <2>8 DEF CatchPanic
  <2>9. CASE ReadParam(t) \/ WriteParam(t) \/ ForgetEditor(t)
    <3>1. S # <<>> /\ Next1(t)[1] \in {"read", "write", "forget"}
      BY <2>9 DEF ReadParam, WriteParam, ForgetEditor, Doing
    <3> QED BY <2>2, <3>1
  <2> QED BY <1>6, <1>5, <2>4, <2>5, <2>6, <2>7, <2>8, <2>9 DEF BodyStep
<1> QED BY <1>5, <1>6, <1>7

LEMMA NextLand == LockInv /\ CallInv /\ LifeInv /\ LandInv /\ [Next]_vars => LandInv'
<1>1. ASSUME LockInv, CallInv, LifeInv, LandInv, BodyStep("main") PROVE LandInv'
  BY <1>1, BodyLand DEF LandInv, Disarm
<1>2. ASSUME LockInv, CallInv, LifeInv, LandInv, [Next]_vars, ~BodyStep("main") PROVE LandInv'
  BY <1>2, MainAside DEF LandInv, InBody, Disarm
<1> QED BY <1>1, <1>2

LEMMA InitLand == Init => LandInv
BY DEF Init, LandInv, InBody, Outcomes, Thread

(* A deactivate that got the lock from a host that forgot to stop, however it ends and
   whatever fails or panics on the way, leaves an instance that is neither active nor
   processing, so that the next activate finds it where activate is allowed. *)
THEOREM DeactivatesLand == Spec => DeactivateLands
<1>1. ASSUME LockInv, CallInv, LifeInv, LandInv, [Next]_vars
      PROVE  [doing["main"][1] = "deactivate" /\ Holds("main") /\ at'["main"] = "idle"
                => inst \in {"Created", "Inactive", "Poisoned"}]_vars
  <2> SUFFICES ASSUME doing["main"][1] = "deactivate", Holds("main"), at'["main"] = "idle"
               PROVE  inst \in {"Created", "Inactive", "Poisoned"}
    OBVIOUS
  <2>1. inst \in Live
    BY <1>1 DEF LifeInv, Holds, Thread
  <2>2. BodyStep("main")
    <3>1. CASE BodyStep("audio")
      BY <1>1, <3>1, BodyAlone DEF Thread, Holds
    <3>2. ASSUME NEW t \in Thread, NEW e \in Trying[t], CallTrying(t, e) PROVE FALSE
      <4>1. at[t] = "idle" /\ at' = [at EXCEPT ![t] = "holding"]
        BY <3>2 DEF CallTrying, Acquired
      <4> QED BY <1>1, <4>1 DEF Holds, Thread, LockInv
    <3>3. ASSUME NEW e \in Waiting, LockMain(e) PROVE FALSE
      BY <3>3 DEF LockMain, Holds
    <3>4. CASE YieldMain \/ CallWaiting \/ DestroyNested \/ EditorSets \/ ElsewhereStep \/ DestroyDrop
      BY <3>4 DEF YieldMain, CallWaiting, DestroyNested, EditorSets, ElsewhereStep, DestroyDrop, Holds
    <3>5. CASE DestroyClose \/ DestroyForget
      BY <1>1, <3>5 DEF DestroyClose, DestroyForget, LockInv, Thread
    <3>6. CASE Create \/ UNCHANGED vars
      BY <3>6 DEF Create, vars, threadVars, Holds
    <3> QED BY <1>1, <3>1, <3>2, <3>3, <3>4, <3>5, <3>6 DEF Next, MainStep
  <2>3. InBody("main") /\ script["main"] = <<>>
    <3>1. CASE Begin("main") \/ EnterMethod("main") \/ ReturnMethod("main") \/ ReturnError("main")
               \/ CatchPanic("main")
      <4>1. PICK place \in {"between"} \cup Outcomes : at' = [at EXCEPT !["main"] = place]
        BY <3>1 DEF Begin, EnterMethod, ReturnMethod, ReturnError, CatchPanic
      <4> QED BY <1>1, <4>1 DEF LockInv, Thread, Outcomes
    <3>2. CASE RefuseMethod("main") \/ ReadParam("main") \/ WriteParam("main") \/ ForgetEditor("main")
      BY <3>2 DEF RefuseMethod, ReadParam, WriteParam, ForgetEditor, Holds
    <3>3. CASE End("main")
      BY <3>3 DEF End, InBody
    <3> QED BY <2>2, <3>1, <3>2, <3>3 DEF BodyStep
  <2> QED BY <1>1, <2>1, <2>3 DEF LandInv, Disarm, Live, Initialised
<1> QED
  BY <1>1, CallsInductive, InitLand, NextLand, PTL DEF Spec, DeactivateLands

-----------------------------------------------------------------------------
(* The editor belongs to the main thread: no body of the audio thread touches it. *)
LEMMA AudioKeepsEditor ==
  ASSUME LockInv, CallInv, BodyStep("audio")
  PROVE  UNCHANGED editor
<1>1. doing["audio"][1] \in {"start", "stop", "reset", "process", "consult", "flush"}
  BY BodyHolds, EntryShape DEF Thread
<1>2. CASE ReturnMethod("audio")
  BY <1>1, <1>2 DEF ReturnMethod
<1>3. CASE CatchPanic("audio")
  BY <1>1, <1>3 DEF CatchPanic
<1>4. CASE ForgetEditor("audio")
  <2>1. Next1("audio") \in StepsOf(doing["audio"])
    BY <1>4 DEF ForgetEditor, Doing, Next1, CallInv, ThreadInv, Thread
  <2> QED BY <1>1, <1>4, <2>1, StepShape DEF ForgetEditor, Doing
<1>5. CASE Begin("audio") \/ RefuseMethod("audio") \/ EnterMethod("audio") \/ ReturnError("audio")
  BY <1>5 DEF Begin, RefuseMethod, EnterMethod, ReturnError, editorVars
<1>6. CASE ReadParam("audio") \/ WriteParam("audio") \/ End("audio")
  BY <1>6 DEF ReadParam, WriteParam, End, editorVars
<1> QED BY <1>2, <1>3, <1>4, <1>5, <1>6 DEF BodyStep

LEMMA BodyEditor ==
  ASSUME LockInv, CallInv, EditorScript, BodyStep("main")
  PROVE  EditorScript' /\ at'["main"] \notin {"closing", "dropping"}
<1> DEFINE t == "main"  S == script["main"]
<1>1. /\ DOMAIN at = Thread /\ DOMAIN doing = Thread /\ DOMAIN script = Thread
      /\ t \in Thread /\ ThreadInv(t)
  BY DEF LockInv, CallInv, Thread
<1>2. /\ Ask # <<>> /\ Ask[1] = <<"consult", 0>> /\ Tail(Ask) = <<>>
      /\ AskForget # <<>> /\ AskForget[1] = <<"consult", 0>> /\ Tail(AskForget) = Forget
      /\ Tail(Forget) = <<>> /\ Forget[1] = <<"forget", 0>>
  BY DEF Ask, AskForget, Forget
<1>3. CASE Begin(t)
  <2>1. /\ at'[t] = "between" /\ UNCHANGED <<doing, editor>>
        /\ script'[t] = IF inst = "Poisoned" THEN <<>> ELSE Body(doing[t])
    BY <1>1, <1>3 DEF Begin, editorVars
  <2>2. doing[t][1] = "gui_create" => Body(doing[t]) = IF editor = "none" THEN Ask ELSE <<>>
    BY DEF Body
  <2>3. doing[t][1] = "gui_destroy" =>
          Body(doing[t]) = IF editor = "none" THEN Forget ELSE AskForget
    BY DEF Body, Forget, AskForget
  <2> QED BY <2>1, <2>2, <2>3 DEF EditorScript
<1>4. CASE End(t)
  BY <1>1, <1>4 DEF End, Released, EditorScript, InBody, Outcomes
<1>5. CASE EnterMethod(t)
  <2>1. UNCHANGED <<doing, script, editor>> /\ InBody(t) /\ InBody(t)'
    BY <1>1, <1>5 DEF EnterMethod, editorVars, InBody
  <2> QED BY <2>1 DEF EditorScript, InBody, Outcomes
<1>6. CASE CatchPanic(t)
  BY <1>1, <1>6 DEF CatchPanic, EditorScript
<1>7. CASE RefuseMethod(t) \/ ReturnError(t)
  <2>1. /\ at'[t] = "between" /\ UNCHANGED <<doing, editor>> /\ script' = After(t, FALSE)
    BY <1>1, <1>7 DEF RefuseMethod, ReturnError, editorVars
  <2>2. doing[t][1] \in {"gui_create", "gui_destroy"} => script'[t] = <<>>
    BY <1>1, <2>1 DEF After, GoesOn
  <2> QED BY <2>1, <2>2 DEF EditorScript
<1>8. CASE ReturnMethod(t)
  <2>1. /\ at'[t] = "between" /\ UNCHANGED doing /\ script'[t] = Tail(S) /\ S # <<>> /\ InBody(t)
        /\ Next1(t)[1] \in Methods /\ (doing[t][1] = "gui_destroy" => editor' = "closed")
    BY <1>1, <1>8 DEF ReturnMethod, After, ThreadInv, IsMethod, InBody, Outcomes
  <2>2. S # Forget
    BY <1>2, <2>1 DEF Next1, Methods
  <2> QED BY <1>2, <2>1, <2>2 DEF EditorScript
<1>9. CASE ReadParam(t) \/ WriteParam(t) \/ ForgetEditor(t)
  <2>1. /\ UNCHANGED <<at, doing>> /\ script'[t] = Tail(S) /\ S # <<>> /\ at[t] = "between"
        /\ Next1(t)[1] \in {"read", "write", "forget"}
    BY <1>1, <1>9 DEF ReadParam, WriteParam, ForgetEditor, Doing, After
  <2>2. S # Ask /\ S # AskForget
    BY <1>2, <2>1 DEF Next1
  <2> QED BY <1>2, <2>1, <2>2 DEF EditorScript, InBody
<1> QED BY <1>3, <1>4, <1>5, <1>6, <1>7, <1>8, <1>9 DEF BodyStep

LEMMA NextEditor == LockInv /\ CallInv /\ LifeInv /\ EditorInv /\ [Next]_vars => EditorInv'
<1> SUFFICES ASSUME LockInv, CallInv, LifeInv, EditorInv, [Next]_vars PROVE EditorInv'
  OBVIOUS
<1>1. /\ DOMAIN at = Thread /\ DOMAIN inside = Thread /\ "main" \in Thread /\ "audio" \in Thread
  BY DEF LockInv, Thread
<1>2. EditorScript'
  <2>1. EditorScript
    BY DEF EditorInv
  <2>2. CASE BodyStep("main")
    BY <2>1, <2>2, BodyEditor
  <2>3. CASE ~BodyStep("main")
    BY <2>1, <2>3, MainAside DEF EditorScript, InBody, Ask
  <2> QED BY <2>2, <2>3
<1>3. /\ at'["main"] = "closing" => editor' # "opened"
      /\ at'["main"] = "dropping" /\ editor' = "opened" => inside'["main"]
  <2>1. CASE BodyStep("main")
    BY <2>1, BodyEditor DEF EditorInv
  <2>2. CASE BodyStep("audio")
    BY <1>1, <2>2, BodyAlone
  <2>3. ASSUME NEW t \in Thread, NEW e \in Trying[t], CallTrying(t, e)
        PROVE  /\ at'["main"] = "closing" => editor' # "opened"
               /\ at'["main"] = "dropping" /\ editor' = "opened" => inside'["main"]
    <3>1. at'[t] = "holding" /\ UNCHANGED editor
      BY <1>1, <2>3 DEF CallTrying, Acquired, editorVars
    <3>2. t # "main" => at'["main"] = at["main"] /\ inside'["main"] = inside["main"]
      BY <1>1, <2>3 DEF CallTrying, Acquired
    <3> QED BY <3>1, <3>2 DEF EditorInv
  <2>4. ASSUME NEW e \in Waiting, LockMain(e)
        PROVE  at'["main"] = "holding"
    BY <1>1, <2>4 DEF LockMain, Acquired
  <2>5. CASE DestroyClose \/ DestroyForget
    BY <1>1, <2>5 DEF DestroyClose, DestroyForget, editorVars
  <2>6. CASE YieldMain \/ CallWaiting \/ DestroyNested
    BY <1>1, <2>6 DEF YieldMain, CallWaiting, DestroyNested, editorVars, lockVars
  <2>7. CASE Create \/ DestroyDrop \/ EditorSets \/ UNCHANGED vars
    BY <2>7 DEF Create, DestroyDrop, EditorSets, vars, editorVars, lockVars, threadVars, EditorInv
  <2>8. CASE ElsewhereStep
    BY <2>8 DEF ElsewhereStep, threadVars
  <2> QED
    BY <2>1, <2>2, <2>3, <2>4, <2>5, <2>6, <2>7, <2>8 DEF Next, MainStep
<1> QED BY <1>2, <1>3 DEF EditorInv

LEMMA InitEditor == Init => EditorInv
BY DEF Init, EditorInv, EditorScript, InBody, Outcomes, Thread

(* An editor whose window is attached is closed before it is dropped, in gui_destroy, in
   destroy, and after a panic as much as without one.  The exception is the destroy that a
   host makes from within a call of another instance, which gets no lock. *)
THEOREM EditorsCloseFirst == Spec => EditorClosedFirst
<1>1. ASSUME LockInv, CallInv, LifeInv, EditorInv, [Next]_vars
      PROVE  [editor = "opened" /\ editor' = "none" => inside["main"] /\ at["main"] = "dropping"]_vars
  <2> SUFFICES ASSUME editor = "opened", editor' = "none"
               PROVE  inside["main"] /\ at["main"] = "dropping"
    OBVIOUS
  <2>1. CASE BodyStep("main")
    <3>1. CASE ReturnMethod("main")
      <4>1. doing["main"][1] = "gui_create"
        BY <3>1 DEF ReturnMethod
      <4>2. InBody("main") /\ script["main"] # <<>>
        BY <3>1, <1>1 DEF ReturnMethod, InBody, Outcomes, CallInv, ThreadInv, IsMethod, Thread
      <4> QED BY <1>1, <4>1, <4>2 DEF EditorInv, EditorScript
    <3>2. CASE ForgetEditor("main")
      <4>1. /\ InBody("main") /\ script["main"] # <<>> /\ Next1("main")[1] = "forget"
            /\ script["main"] \in Seq(StepsOf(doing["main"]))
        BY <1>1, <3>2 DEF ForgetEditor, Doing, InBody, CallInv, ThreadInv, Thread
      <4>2. doing["main"][1] = "gui_destroy"
        BY <4>1, StepShape DEF Next1
      <4>3. AskForget[1] = <<"consult", 0>> /\ Ask[1] = <<"consult", 0>>
        BY DEF AskForget, Ask
      <4> QED BY <1>1, <4>1, <4>2, <4>3 DEF EditorInv, EditorScript, Next1
    <3>3. CASE CatchPanic("main")
      BY <3>3 DEF CatchPanic
    <3>4. CASE Begin("main") \/ RefuseMethod("main") \/ EnterMethod("main") \/ ReturnError("main")
      BY <3>4 DEF Begin, RefuseMethod, EnterMethod, ReturnError, editorVars
    <3>5. CASE ReadParam("main") \/ WriteParam("main") \/ End("main")
      BY <3>5 DEF ReadParam, WriteParam, End, editorVars
    <3> QED BY <2>1, <3>1, <3>2, <3>3, <3>4, <3>5 DEF BodyStep
  <2>2. CASE BodyStep("audio")
    BY <1>1, <2>2, AudioKeepsEditor
  <2>3. CASE DestroyDrop
    BY <1>1, <2>3 DEF DestroyDrop, EditorInv
  <2>4. CASE DestroyClose \/ DestroyForget
    BY <1>1, <2>4 DEF DestroyClose, DestroyForget, EditorInv
  <2>5. CASE YieldMain \/ CallWaiting \/ DestroyNested \/ EditorSets \/ ElsewhereStep \/ Create
    BY <2>5 DEF YieldMain, CallWaiting, DestroyNested, EditorSets, ElsewhereStep, Create, editorVars
  <2>6. ASSUME NEW t \in Thread, NEW e \in Trying[t], CallTrying(t, e) PROVE FALSE
    BY <2>6 DEF CallTrying, editorVars
  <2>7. ASSUME NEW e \in Waiting, LockMain(e) PROVE FALSE
    BY <2>7 DEF LockMain, editorVars
  <2>8. CASE UNCHANGED vars
    BY <2>8 DEF vars, editorVars
  <2> QED
    BY <1>1, <2>1, <2>2, <2>3, <2>4, <2>5, <2>6, <2>7, <2>8 DEF Next, MainStep
<1> QED
  BY <1>1, CallsInductive, InitEditor, NextEditor, PTL DEF Spec, EditorClosedFirst
=============================================================================
