------------------------- MODULE Vst3InstanceProofs -------------------------
(***************************************************************************)
(* The VST3 object, proved for every size, list of parameters, set of      *)
(* values, capacity of the event list and number of references: where a    *)
(* call stands, that its flags and the instance's state move in step, that *)
(* a view is served for as long as it lives, that the author's code sees   *)
(* its contract, and that the parameter mirror shows what the plug-in      *)
(* holds.                                                                  *)
(***************************************************************************)
EXTENDS Vst3Instance, DataLemmas

InCall == at \in {"between"} \cup Outcomes

(* A step of a script, and the longest body each entry can have, n being the block size
   set up: what a call has still to do is the end of it. *)
Kinds ==
  {"init", "ask", "build", "create_editor", "initialised", "stop", "processing", "deactivate",
   "active", "drop_editor", "consult", "activate", "apply", "start", "setup", "apply_params",
   "load_state", "refresh"}
FlagKinds  == {"initialised", "active", "processing"}
ParamKinds == {"read", "lane", "emit"}
OtherKinds == (Kinds \ FlagKinds) \cup {"swap", "process"}
Steps == (OtherKinds \X Nat) \cup (FlagKinds \X BOOLEAN) \cup (ParamKinds \X Ids)

Ask == <<"ask", 0>>

Whole(e, n) ==
  CASE e[1] = "initialize" ->
         <<<<"init", 0>>, Ask, <<"build", 0>>, Ask, <<"create_editor", 0>>, Ask,
           <<"initialised", TRUE>>>>
    [] e[1] = "terminate" ->
         <<<<"stop", 0>>, <<"processing", FALSE>>, <<"deactivate", 0>>, <<"active", FALSE>>,
           <<"drop_editor", 0>>>>
    [] e[1] = "consult" -> <<<<"consult", 0>>>>
    [] e = <<"set_active", TRUE>> ->
         <<<<"activate", n>>, <<"active", TRUE>>, Ask, <<"apply", 0>>, Ask>>
    [] e = <<"set_active", FALSE>> ->
         <<<<"stop", 0>>, <<"processing", FALSE>>, <<"deactivate", 0>>, <<"active", FALSE>>>>
    [] e = <<"set_processing", TRUE>> -> <<<<"start", 0>>, <<"processing", TRUE>>>>
    [] e = <<"set_processing", FALSE>> -> <<<<"stop", 0>>, <<"processing", FALSE>>>>
    [] e[1] = "setup_processing" -> <<<<"setup", e[2]>>>>
    [] e[1] = "set_state" -> <<<<"apply_params", 0>>, <<"load_state", 0>>, <<"refresh", 0>>>>

Remains(s, whole) ==
  /\ Len(s) <= Len(whole)
  /\ \A i \in 1 .. Len(s) : s[i] = whole[Len(whole) - Len(s) + i]

Shape(e) ==
  \/ e = <<"initialize", 0>> \/ e = <<"terminate", 0>> \/ e = <<"consult", 0>>
  \/ e = <<"set_active", TRUE>> \/ e = <<"set_active", FALSE>>
  \/ e = <<"set_processing", TRUE>> \/ e = <<"set_processing", FALSE>>
  \/ e[1] = "setup_processing" /\ e = <<"setup_processing", e[2]>> /\ e[2] \in Sizes
  \/ e[1] = "set_state" /\ e = <<"set_state", e[2]>> /\ e[2] \in State

(* What a call does: a flag tells two entries apart. *)
Verb(e) ==
  IF e[1] = "set_active" THEN IF e[2] = TRUE THEN "arm" ELSE "disarm"
  ELSE IF e[1] = "set_processing" THEN IF e[2] = TRUE THEN "run" ELSE "halt"
  ELSE e[1]

(* What a step of some kind, the first of k, tells of the entry it is a step of. *)
Spot(verb, k, kind, v, n) ==
  /\ kind \in Kinds
  /\ kind = "init" => verb = "initialize" /\ k = 7
  /\ kind = "ask" =>
       \/ verb = "initialize" /\ k \in {6, 4, 2}
       \/ verb = "arm" /\ k \in {3, 1}
  /\ kind = "build" => verb = "initialize" /\ k = 5
  /\ kind = "create_editor" => verb = "initialize" /\ k = 3
  /\ kind = "initialised" => verb = "initialize" /\ k = 1 /\ v
  /\ kind = "stop" =>
       \/ verb = "terminate" /\ k = 5
       \/ verb = "disarm" /\ k = 4
       \/ verb = "halt" /\ k = 2
  /\ kind = "processing" =>
       \/ verb = "terminate" /\ k = 4 /\ ~v
       \/ verb = "disarm" /\ k = 3 /\ ~v
       \/ verb = "halt" /\ k = 1 /\ ~v
       \/ verb = "run" /\ k = 1 /\ v
  /\ kind = "deactivate" =>
       \/ verb = "terminate" /\ k = 3
       \/ verb = "disarm" /\ k = 2
  /\ kind = "active" =>
       \/ verb = "terminate" /\ k = 2 /\ ~v
       \/ verb = "disarm" /\ k = 1 /\ ~v
       \/ verb = "arm" /\ k = 4 /\ v
  /\ kind = "drop_editor" => verb = "terminate" /\ k = 1
  /\ kind = "consult" => verb = "consult" /\ k = 1
  /\ kind = "activate" => verb = "arm" /\ k = 5 /\ v = n
  /\ kind = "apply" => verb = "arm" /\ k = 2
  /\ kind = "start" => verb = "run" /\ k = 2
  /\ kind = "setup" => verb = "setup_processing" /\ k = 1 /\ v \in Sizes
  /\ kind = "apply_params" => verb = "set_state" /\ k = 3
  /\ kind = "load_state" => verb = "set_state" /\ k = 2
  /\ kind = "refresh" => verb = "set_state" /\ k = 1
  /\ kind \notin {"initialised", "processing", "active", "activate", "setup"} => v = 0

LEMMA VerbSelf ==
  ASSUME NEW e, e[1] \notin {"set_active", "set_processing"}
  PROVE  Verb(e) = e[1]
BY DEF Verb

LEMMA VerbArm == ASSUME NEW e, e = <<"set_active", TRUE>> PROVE Verb(e) = "arm"
<1>1. e[1] = "set_active" /\ e[2] = TRUE
  OBVIOUS
<1> QED BY <1>1 DEF Verb

LEMMA VerbDisarm == ASSUME NEW e, e = <<"set_active", FALSE>> PROVE Verb(e) = "disarm"
<1>1. e[1] = "set_active" /\ e[2] = FALSE
  OBVIOUS
<1> QED BY <1>1 DEF Verb

LEMMA VerbRun == ASSUME NEW e, e = <<"set_processing", TRUE>> PROVE Verb(e) = "run"
<1>1. e[1] = "set_processing" /\ e[2] = TRUE
  OBVIOUS
<1> QED BY <1>1 DEF Verb

LEMMA VerbHalt == ASSUME NEW e, e = <<"set_processing", FALSE>> PROVE Verb(e) = "halt"
<1>1. e[1] = "set_processing" /\ e[2] = FALSE
  OBVIOUS
<1> QED BY <1>1 DEF Verb

LEMMA EntryShape ==
  ASSUME NEW e \in Entries
  PROVE  Shape(e)
<1>1. CASE e \in {<<f, 0>> : f \in {"initialize", "terminate", "consult"}}
  <2>1. PICK f \in {"initialize", "terminate", "consult"} : e = <<f, 0>>
    BY <1>1
  <2> QED BY <2>1 DEF Shape
<1>2. CASE e \in {<<f, b>> : f \in {"set_active", "set_processing"}, b \in BOOLEAN}
  <2>1. PICK f \in {"set_active", "set_processing"}, b \in BOOLEAN : e = <<f, b>>
    BY <1>2
  <2> QED BY <2>1 DEF Shape
<1>3. CASE e \in {<<"setup_processing", n>> : n \in Sizes}
  <2>1. PICK n \in Sizes : e = <<"setup_processing", n>>
    BY <1>3
  <2> QED BY <2>1 DEF Shape
<1>4. CASE e \in {<<"set_state", s>> : s \in State}
  <2>1. PICK s \in State : e = <<"set_state", s>>
    BY <1>4
  <2> QED BY <2>1 DEF Shape
<1> QED BY <1>1, <1>2, <1>3, <1>4 DEF Entries

LEMMA BlockShape ==
  ASSUME NEW e \in Blocks
  PROVE  /\ e = <<"process", e[2], e[3]>> /\ e[2] \in Frames
         /\ \E ids \in SUBSET Ids : e[3] \in [ids -> Values]
BY Vst3Assumption DEF Blocks, State

(* An entry is known by the first component, and a block is none of them. *)
LEMMA EntryOrBlock == Entries \cap Blocks = {} /\ Nothing \notin Entries \cup Blocks
BY DEF Entries, Blocks, Nothing

LEMMA Spots ==
  ASSUME NEW e \in Entries, NEW n, NEW s \in Seq(Steps), s # <<>>, Remains(s, Whole(e, n))
  PROVE  Spot(Verb(e), Len(s), s[1][1], s[1][2], n)
<1>1. Shape(e)
  BY EntryShape
<1> DEFINE w == Whole(e, n)  k == Len(s)  l == Len(w)  x == s[1]
           kind == x[1]  v == x[2]  verb == Verb(e)
<1>2. k \in Nat /\ k >= 1
  BY EmptySeq, LenProperties
<1>3. x = w[l - k + 1] /\ k <= l
  <2>1. 1 \in 1 .. Len(s)
    BY <1>2
  <2> QED BY <2>1 DEF Remains
<1> HIDE DEF x
<1>4. CASE e = <<"initialize", 0>>
  <2>1. w = <<<<"init", 0>>, Ask, <<"build", 0>>, Ask,
              <<"create_editor", 0>>, Ask, <<"initialised", TRUE>>>>
    BY <1>4 DEF Whole
  <2> HIDE DEF w
  <2>2. l = 7
    BY <2>1
  <2>3. /\ w[1][1] = "init" /\ w[1][2] = 0 /\ w[2][1] = "ask" /\ w[2][2] = 0
        /\ w[3][1] = "build" /\ w[3][2] = 0 /\ w[4][1] = "ask" /\ w[4][2] = 0
        /\ w[5][1] = "create_editor" /\ w[5][2] = 0 /\ w[6][1] = "ask" /\ w[6][2] = 0
        /\ w[7][1] = "initialised" /\ w[7][2]
    BY <2>1 DEF Ask
  <2> HIDE DEF k, l
  <2>4. \/ (k = 7 /\ x = w[1]) \/ (k = 6 /\ x = w[2]) \/ (k = 5 /\ x = w[3])
        \/ (k = 4 /\ x = w[4]) \/ (k = 3 /\ x = w[5]) \/ (k = 2 /\ x = w[6])
        \/ (k = 1 /\ x = w[7])
    BY <1>2, <1>3, <2>2
  <2>5. \/ (k = 7 /\ kind = "init" /\ v = 0) \/ (k = 6 /\ kind = "ask" /\ v = 0)
        \/ (k = 5 /\ kind = "build" /\ v = 0) \/ (k = 4 /\ kind = "ask" /\ v = 0)
        \/ (k = 3 /\ kind = "create_editor" /\ v = 0) \/ (k = 2 /\ kind = "ask" /\ v = 0)
        \/ (k = 1 /\ kind = "initialised" /\ v)
    BY <2>3, <2>4, Zenon
  <2>6. verb = "initialize"
    BY <1>4, VerbSelf
  <2> HIDE DEF kind, v, verb
  <2>7. Spot(verb, k, kind, v, n)
    BY <2>5, <2>6 DEF Spot, Kinds
  <2> QED BY <2>7 DEF k, x, kind, v, verb
<1>5. CASE e = <<"terminate", 0>>
  <2>1. w = <<<<"stop", 0>>, <<"processing", FALSE>>, <<"deactivate", 0>>, <<"active", FALSE>>,
              <<"drop_editor", 0>>>>
    BY <1>5 DEF Whole
  <2> HIDE DEF w
  <2>2. l = 5
    BY <2>1
  <2>3. /\ w[1][1] = "stop" /\ w[1][2] = 0 /\ w[2][1] = "processing" /\ ~w[2][2]
        /\ w[3][1] = "deactivate" /\ w[3][2] = 0 /\ w[4][1] = "active" /\ ~w[4][2]
        /\ w[5][1] = "drop_editor" /\ w[5][2] = 0
    BY <2>1 DEF Ask
  <2> HIDE DEF k, l
  <2>4. \/ (k = 5 /\ x = w[1]) \/ (k = 4 /\ x = w[2]) \/ (k = 3 /\ x = w[3])
        \/ (k = 2 /\ x = w[4]) \/ (k = 1 /\ x = w[5])
    BY <1>2, <1>3, <2>2
  <2>5. \/ (k = 5 /\ kind = "stop" /\ v = 0) \/ (k = 4 /\ kind = "processing" /\ ~v)
        \/ (k = 3 /\ kind = "deactivate" /\ v = 0) \/ (k = 2 /\ kind = "active" /\ ~v)
        \/ (k = 1 /\ kind = "drop_editor" /\ v = 0)
    BY <2>3, <2>4, Zenon
  <2>6. verb = "terminate"
    BY <1>5, VerbSelf
  <2> HIDE DEF kind, v, verb
  <2>7. Spot(verb, k, kind, v, n)
    BY <2>5, <2>6 DEF Spot, Kinds
  <2> QED BY <2>7 DEF k, x, kind, v, verb
<1>6. CASE e = <<"consult", 0>>
  <2>1. w = <<<<"consult", 0>>>>
    BY <1>6 DEF Whole
  <2> HIDE DEF w
  <2>2. l = 1
    BY <2>1
  <2>3. /\ w[1][1] = "consult" /\ w[1][2] = 0
    BY <2>1 DEF Ask
  <2> HIDE DEF k, l
  <2>4. k = 1 /\ x = w[1]
    BY <1>2, <1>3, <2>2
  <2>5. kind = "consult" /\ v = 0
    BY <2>3, <2>4
  <2>6. verb = "consult"
    BY <1>6, VerbSelf
  <2> HIDE DEF kind, v, verb
  <2>7. Spot(verb, k, kind, v, n)
    BY <2>4, <2>5, <2>6 DEF Spot, Kinds
  <2> QED BY <2>7 DEF k, x, kind, v, verb
<1>7. CASE e = <<"set_active", TRUE>>
  <2>1. w = <<<<"activate", n>>, <<"active", TRUE>>, Ask, <<"apply", 0>>, Ask>>
    BY <1>7 DEF Whole
  <2> HIDE DEF w
  <2>2. l = 5
    BY <2>1
  <2>3. /\ w[1][1] = "activate" /\ w[1][2] = n /\ w[2][1] = "active" /\ w[2][2]
        /\ w[3][1] = "ask" /\ w[3][2] = 0 /\ w[4][1] = "apply" /\ w[4][2] = 0
        /\ w[5][1] = "ask" /\ w[5][2] = 0
    BY <2>1 DEF Ask
  <2> HIDE DEF k, l
  <2>4. \/ (k = 5 /\ x = w[1]) \/ (k = 4 /\ x = w[2]) \/ (k = 3 /\ x = w[3])
        \/ (k = 2 /\ x = w[4]) \/ (k = 1 /\ x = w[5])
    BY <1>2, <1>3, <2>2
  <2>5. \/ (k = 5 /\ kind = "activate" /\ v = n) \/ (k = 4 /\ kind = "active" /\ v)
        \/ (k = 3 /\ kind = "ask" /\ v = 0) \/ (k = 2 /\ kind = "apply" /\ v = 0)
        \/ (k = 1 /\ kind = "ask" /\ v = 0)
    BY <2>3, <2>4, Zenon
  <2>6. verb = "arm"
    BY <1>7, VerbArm
  <2> HIDE DEF kind, v, verb
  <2>7. Spot(verb, k, kind, v, n)
    BY <2>5, <2>6 DEF Spot, Kinds
  <2> QED BY <2>7 DEF k, x, kind, v, verb
<1>8. CASE e = <<"set_active", FALSE>>
  <2>1. w = <<<<"stop", 0>>, <<"processing", FALSE>>, <<"deactivate", 0>>, <<"active", FALSE>>>>
    BY <1>8 DEF Whole
  <2> HIDE DEF w
  <2>2. l = 4
    BY <2>1
  <2>3. /\ w[1][1] = "stop" /\ w[1][2] = 0 /\ w[2][1] = "processing" /\ ~w[2][2]
        /\ w[3][1] = "deactivate" /\ w[3][2] = 0 /\ w[4][1] = "active" /\ ~w[4][2]
    BY <2>1 DEF Ask
  <2> HIDE DEF k, l
  <2>4. \/ (k = 4 /\ x = w[1]) \/ (k = 3 /\ x = w[2]) \/ (k = 2 /\ x = w[3])
        \/ (k = 1 /\ x = w[4])
    BY <1>2, <1>3, <2>2
  <2>5. \/ (k = 4 /\ kind = "stop" /\ v = 0) \/ (k = 3 /\ kind = "processing" /\ ~v)
        \/ (k = 2 /\ kind = "deactivate" /\ v = 0) \/ (k = 1 /\ kind = "active" /\ ~v)
    BY <2>3, <2>4, Zenon
  <2>6. verb = "disarm"
    BY <1>8, VerbDisarm
  <2> HIDE DEF kind, v, verb
  <2>7. Spot(verb, k, kind, v, n)
    BY <2>5, <2>6 DEF Spot, Kinds
  <2> QED BY <2>7 DEF k, x, kind, v, verb
<1>9. CASE e = <<"set_processing", TRUE>>
  <2>1. w = <<<<"start", 0>>, <<"processing", TRUE>>>>
    BY <1>9 DEF Whole
  <2> HIDE DEF w
  <2>2. l = 2
    BY <2>1
  <2>3. /\ w[1][1] = "start" /\ w[1][2] = 0 /\ w[2][1] = "processing" /\ w[2][2]
    BY <2>1 DEF Ask
  <2> HIDE DEF k, l
  <2>4. \/ (k = 2 /\ x = w[1]) \/ (k = 1 /\ x = w[2])
    BY <1>2, <1>3, <2>2
  <2>5. \/ (k = 2 /\ kind = "start" /\ v = 0) \/ (k = 1 /\ kind = "processing" /\ v)
    BY <2>3, <2>4, Zenon
  <2>6. verb = "run"
    BY <1>9, VerbRun
  <2> HIDE DEF kind, v, verb
  <2>7. Spot(verb, k, kind, v, n)
    BY <2>5, <2>6 DEF Spot, Kinds
  <2> QED BY <2>7 DEF k, x, kind, v, verb
<1>10. CASE e = <<"set_processing", FALSE>>
  <2>1. w = <<<<"stop", 0>>, <<"processing", FALSE>>>>
    BY <1>10 DEF Whole
  <2> HIDE DEF w
  <2>2. l = 2
    BY <2>1
  <2>3. /\ w[1][1] = "stop" /\ w[1][2] = 0 /\ w[2][1] = "processing" /\ ~w[2][2]
    BY <2>1 DEF Ask
  <2> HIDE DEF k, l
  <2>4. \/ (k = 2 /\ x = w[1]) \/ (k = 1 /\ x = w[2])
    BY <1>2, <1>3, <2>2
  <2>5. \/ (k = 2 /\ kind = "stop" /\ v = 0) \/ (k = 1 /\ kind = "processing" /\ ~v)
    BY <2>3, <2>4, Zenon
  <2>6. verb = "halt"
    BY <1>10, VerbHalt
  <2> HIDE DEF kind, v, verb
  <2>7. Spot(verb, k, kind, v, n)
    BY <2>5, <2>6 DEF Spot, Kinds
  <2> QED BY <2>7 DEF k, x, kind, v, verb
<1>11. CASE e[1] = "setup_processing" /\ e = <<"setup_processing", e[2]>> /\ e[2] \in Sizes
  <2>1. w = <<<<"setup", e[2]>>>>
    BY <1>11 DEF Whole
  <2> HIDE DEF w
  <2>2. l = 1
    BY <2>1
  <2>3. /\ w[1][1] = "setup" /\ w[1][2] = e[2]
    BY <2>1 DEF Ask
  <2> HIDE DEF k, l
  <2>4. k = 1 /\ x = w[1]
    BY <1>2, <1>3, <2>2
  <2>5. kind = "setup" /\ v \in Sizes
    BY <1>11, <2>3, <2>4
  <2>6. verb = "setup_processing"
    BY <1>11, VerbSelf
  <2> HIDE DEF kind, v, verb
  <2>7. Spot(verb, k, kind, v, n)
    BY <2>4, <2>5, <2>6 DEF Spot, Kinds
  <2> QED BY <2>7 DEF k, x, kind, v, verb
<1>12. CASE e[1] = "set_state" /\ e = <<"set_state", e[2]>>
  <2>1. w = <<<<"apply_params", 0>>, <<"load_state", 0>>, <<"refresh", 0>>>>
    BY <1>12 DEF Whole
  <2> HIDE DEF w
  <2>2. l = 3
    BY <2>1
  <2>3. /\ w[1][1] = "apply_params" /\ w[1][2] = 0 /\ w[2][1] = "load_state" /\ w[2][2] = 0
        /\ w[3][1] = "refresh" /\ w[3][2] = 0
    BY <2>1 DEF Ask
  <2> HIDE DEF k, l
  <2>4. \/ (k = 3 /\ x = w[1]) \/ (k = 2 /\ x = w[2]) \/ (k = 1 /\ x = w[3])
    BY <1>2, <1>3, <2>2
  <2>5. \/ (k = 3 /\ kind = "apply_params" /\ v = 0) \/ (k = 2 /\ kind = "load_state" /\ v = 0)
        \/ (k = 1 /\ kind = "refresh" /\ v = 0)
    BY <2>3, <2>4, Zenon
  <2>6. verb = "set_state"
    BY <1>12, VerbSelf
  <2> HIDE DEF kind, v, verb
  <2>7. Spot(verb, k, kind, v, n)
    BY <2>5, <2>6 DEF Spot, Kinds
  <2> QED BY <2>7 DEF k, x, kind, v, verb
<1> QED
  BY <1>1, <1>4, <1>5, <1>6, <1>7, <1>8, <1>9, <1>10, <1>11, <1>12 DEF Shape

(* Doing the next step leaves the end of the same body. *)
LEMMA RemainsTail ==
  ASSUME NEW s \in Seq(Steps), s # <<>>, NEW w, Len(w) \in Nat, Remains(s, w)
  PROVE  Tail(s) \in Seq(Steps) /\ Remains(Tail(s), w) /\ Remains(<<>>, w)
<1>1. /\ Tail(s) \in Seq(Steps) /\ Len(s) \in Nat /\ Len(s) >= 1 /\ Len(Tail(s)) = Len(s) - 1
      /\ \A i \in 1 .. Len(s) - 1 : Tail(s)[i] = s[i + 1]
  BY EmptySeq, HeadTailProperties
<1>2. ASSUME NEW i \in 1 .. Len(Tail(s))
      PROVE  Tail(s)[i] = w[Len(w) - Len(Tail(s)) + i]
  <2>1. i + 1 \in 1 .. Len(s) /\ Len(w) - Len(s) + (i + 1) = Len(w) - Len(Tail(s)) + i
    BY <1>1
  <2>2. s[i + 1] = w[Len(w) - Len(s) + (i + 1)]
    BY <2>1 DEF Remains
  <2> QED BY <1>1, <2>1, <2>2
<1>3. Len(<<>>) = 0
  OBVIOUS
<1> QED BY <1>1, <1>2, <1>3 DEF Remains

-----------------------------------------------------------------------------
(* Where a call stands. *)

(* A block first collects its events, then runs, then tells what the plug-in moved. *)
Collects(s, e) ==
  /\ s # <<>> /\ s[Len(s)] = <<"process", e[2]>>
  /\ \A i \in 1 .. Len(s) - 1 :
       \/ i = 1 /\ s[i] = <<"swap", 0>>
       \/ s[i] \in {"read"} \X Ids
       \/ s[i] \in {"lane"} \X DOMAIN e[3]

Tells(s, told) == \A i \in 1 .. Len(s) : s[i] \in {"emit"} \X DOMAIN told

CallInv ==
  /\ at \in {"idle", "between", "aborted"} \cup Outcomes
  /\ script \in Seq(Steps) /\ sent \in State
  /\ at = "idle" => doing = Nothing /\ script = <<>>
  /\ InCall => doing \in Entries \cup Blocks
  /\ InCall /\ doing \in Entries => Remains(script, Whole(doing, setup))
  /\ InCall /\ doing \in Blocks =>
       \/ at = "between" /\ Collects(script, doing) /\ sent = <<>>
       \/ at = "between" /\ Tells(script, sent)
       \/ at \in Outcomes /\ script = <<<<"process", doing[2]>>>>
  /\ at \in Outcomes => IsMethod /\ at \in Possible(Method)

-----------------------------------------------------------------------------
(* What the flags of Dsp and the instance's state say at each step of a call: a method
   that moves the state is followed by the flag that says so. *)
FlagsMeet ==
  /\ initialised <=> inst \in Initialised
  /\ active <=> inst \in {"Active", "Processing"}
  /\ processing <=> inst = "Processing"

Stands(state, flags) ==
  /\ inst = state
  /\ initialised <=> "initialised" \in flags
  /\ active <=> "active" \in flags
  /\ processing <=> "processing" \in flags

Disarming(k) ==
  /\ k = 4 => Stands("Processing", {"initialised", "active", "processing"})
  /\ k = 3 => Stands("Active", {"initialised", "active", "processing"})
  /\ k = 2 => Stands("Active", {"initialised", "active"})
  /\ k = 1 => Stands("Inactive", {"initialised", "active"})
  /\ k = 0 => FlagsMeet

StandsAt(verb, k) ==
  /\ verb = "initialize" /\ k = 7 => Stands("Created", {})
  /\ verb = "initialize" /\ k # 7 => Stands("Inactive", {})
  /\ verb = "terminate" => Disarming(k - 1)
  /\ verb = "disarm" => Disarming(k)
  /\ verb = "arm" /\ k = 5 => Stands("Inactive", {"initialised"})
  /\ verb = "arm" /\ k = 4 => Stands("Active", {"initialised"})
  /\ verb = "arm" /\ k < 4 => Stands("Active", {"initialised", "active"})
  /\ verb = "run" /\ k = 2 => Stands("Active", {"initialised", "active"})
  /\ verb = "run" /\ k = 1 => Stands("Processing", {"initialised", "active"})
  /\ verb = "halt" /\ k = 2 => Stands("Processing", {"initialised", "active", "processing"})
  /\ verb = "halt" /\ k = 1 => Stands("Active", {"initialised", "active", "processing"})
  /\ verb = "process" => Stands("Processing", {"initialised", "active", "processing"})
  /\ verb \in {"consult", "set_state"} => FlagsMeet /\ initialised
  /\ verb = "setup_processing" => FlagsMeet

FlagInv ==
  /\ setup \in Sizes /\ initialised \in BOOLEAN /\ active \in BOOLEAN
  /\ processing \in BOOLEAN /\ poison \in BOOLEAN
  /\ inst \in Initialised \cup {"Created", "Absent", "Dropping", "Destroyed"}
  /\ inst = "Absent" => Stands("Absent", {}) /\ at = "idle" /\ ~poison
  /\ inst \notin Live => at \in {"idle", "aborted"}
  /\ at = "idle" /\ inst \in Live => FlagsMeet \/ poison
  /\ InCall /\ script = <<>> =>
       poison \/ (FlagsMeet /\ (Verb(doing) = "initialize" => initialised))
  /\ InCall /\ script # <<>> =>
       StandsAt(Verb(doing), Len(script)) /\ (poison => Verb(doing) = "process")

(* The references: the host's, and one the view holds. *)
RefInv ==
  /\ view \in {"none", "made", "attached"}
  /\ held \in 0 .. MaxHeld /\ refs = held + (IF view = "none" THEN 0 ELSE 1)
  /\ inst \in Live <=> refs > 0

Inv == CallInv /\ FlagInv /\ RefInv

-----------------------------------------------------------------------------
(* States and lists of parameters. *)
LEMMA StateShape ==
  ASSUME NEW s \in State
  PROVE  DOMAIN s \in SUBSET Ids /\ s \in [DOMAIN s -> Values]
BY DEF State

LEMMA EmptyState == <<>> \in State /\ DOMAIN <<>> = {}
<1>1. <<>> \in [{} -> Values] /\ {} \in SUBSET Ids
  OBVIOUS
<1> QED BY <1>1 DEF State

LEMMA OneState ==
  ASSUME NEW p \in Ids, NEW v \in Values
  PROVE  Just(p, v) \in State /\ DOMAIN Just(p, v) = {p} /\ Just(p, v)[p] = v
<1>1. Just(p, v) = [x \in {p} |-> v]
  BY DEF Just
<1>2. Just(p, v) \in [{p} -> Values] /\ {p} \in SUBSET Ids
  BY <1>1
<1> QED BY <1>1, <1>2 DEF State

LEMMA MovesAreStates ==
  ASSUME NEW moved \in Moves
  PROVE  moved \in State
<1>1. CASE moved = <<>>
  BY <1>1, EmptyState
<1>2. CASE \E p \in Ids, v \in Values : moved = Just(p, v)
  BY <1>2, OneState
<1> QED BY <1>1, <1>2 DEF Moves

(* Values laid over others. *)
LEMMA Overlaid ==
  ASSUME NEW s \in State, NEW D \in SUBSET Ids, NEW f \in [D -> Values]
  PROVE  /\ Over(s, f) \in [DOMAIN s \cup D -> Values] /\ Over(s, f) \in State
         /\ \A p \in DOMAIN s : Over(s, f)[p] = s[p]
         /\ \A p \in D \ DOMAIN s : Over(s, f)[p] = f[p]
<1>1. DOMAIN s \in SUBSET Ids /\ s \in [DOMAIN s -> Values]
  BY StateShape
<1>2. Over(s, f) = [x \in DOMAIN s \cup D |-> IF x \in DOMAIN s THEN s[x] ELSE f[x]]
  BY DEF Over
<1>3. Over(s, f) \in [DOMAIN s \cup D -> Values] /\ DOMAIN s \cup D \in SUBSET Ids
  BY <1>1, <1>2
<1> QED BY <1>1, <1>2, <1>3 DEF State

LEMMA LaidOver ==
  ASSUME NEW s, NEW t, NEW p \in DOMAIN s
  PROVE  Over(s, t)[p] = s[p]
BY DEF Over

LEMMA LaidUnder ==
  ASSUME NEW s, NEW t, NEW p \in DOMAIN t \ DOMAIN s
  PROVE  Over(s, t)[p] = t[p]
BY DEF Over

LEMMA ParamsListed ==
  Params \in Seq(Ids) /\ \A p \in Ids : \E i \in 1 .. Len(Params) : Params[i] = p
<1>1. Params \in Seq(STRING)
  BY Vst3Assumption
<1>2. \A i \in 1 .. Len(Params) : Params[i] \in Ids
  BY <1>1 DEF Ids, ToSet
<1> QED BY <1>1, <1>2 DEF Ids, ToSet

LEMMA StateListed ==
  ASSUME NEW s \in State
  PROVE  /\ InState(s) \in Seq(DOMAIN s) /\ InState(s) \in Seq(Ids)
         /\ \A p \in DOMAIN s : \E i \in 1 .. Len(InState(s)) : InState(s)[i] = p
<1> DEFINE D == DOMAIN s
<1>1. D \in SUBSET Ids
  BY StateShape
<1>2. D \in SUBSET ToSet(Params) /\ Params \in Seq(Ids)
  BY <1>1, ParamsListed DEF Ids
<1> HIDE DEF D
<1>3. IsFiniteSet(D)
  BY <1>2, ListedFinite
<1>4. SetToSeq(D) \in Seq(D) /\ \A p \in D : \E i \in 1 .. Len(SetToSeq(D)) : SetToSeq(D)[i] = p
  BY <1>3, SetAsSeq
<1>5. SetToSeq(D) \in Seq(Ids)
  BY <1>1, <1>4
<1> QED BY <1>4, <1>5 DEF InState, D

LEMMA EachListed ==
  ASSUME NEW kind \in ParamKinds, NEW ids \in Seq(Ids)
  PROVE  /\ Each(kind, ids) \in Seq(Steps) /\ Len(Each(kind, ids)) = Len(ids)
         /\ \A i \in 1 .. Len(ids) : Each(kind, ids)[i] = <<kind, ids[i]>>
<1>1. Len(ids) \in Nat /\ DOMAIN ids = 1 .. Len(ids) /\ \A i \in 1 .. Len(ids) : ids[i] \in Ids
  BY ElementOfSeq, LenProperties
<1>2. \A i \in 1 .. Len(ids) : <<kind, ids[i]>> \in Steps
  BY <1>1 DEF Steps
<1> DEFINE n == Len(ids)
           f == [i \in 1 .. n |-> <<kind, ids[i]>>]
<1>3. Each(kind, ids) = f
  BY <1>1 DEF Each
<1>4. f \in Seq(Steps) /\ Len(f) = n /\ \A i \in 1 .. n : f[i] = <<kind, ids[i]>>
  <2> DEFINE g(i) == <<kind, ids[i]>>
  <2>1. n \in Nat /\ \A i \in 1 .. n : g(i) \in Steps
    BY <1>1, <1>2
  <2> HIDE DEF g, n
  <2>2. [i \in 1 .. n |-> g(i)] \in Seq(Steps) /\ Len([i \in 1 .. n |-> g(i)]) = n
    BY <2>1
  <2> QED BY <2>2 DEF g
<1> QED BY <1>3, <1>4

-----------------------------------------------------------------------------
(* The body a call begins with, and where it then stands. *)
Stop       == <<"stop", 0>>
Stopped    == <<"processing", FALSE>>
Deactivate == <<"deactivate", 0>>
Idle       == <<"active", FALSE>>
Drop       == <<"drop_editor", 0>>

LEMMA ZeroStep ==
  ASSUME NEW name \in OtherKinds, NEW n \in Nat
  PROVE  <<name, n>> \in Steps
BY DEF Steps

LEMMA FlagStep ==
  ASSUME NEW name \in FlagKinds, NEW b \in BOOLEAN
  PROVE  <<name, b>> \in Steps
BY DEF Steps

LEMMA StepsAre ==
  /\ Stop \in Steps /\ Stopped \in Steps /\ Deactivate \in Steps /\ Idle \in Steps
  /\ Drop \in Steps
BY ZeroStep, FlagStep, Zenon
   DEF Stop, Stopped, Deactivate, Idle, Drop, OtherKinds, FlagKinds, Kinds

LEMMA TwoAndTwo ==
  ASSUME NEW a \in Steps, NEW b \in Steps, NEW c \in Steps, NEW d \in Steps
  PROVE  <<a, b>> \o <<c, d>> = <<a, b, c, d>>
<1> DEFINE s == <<a, b>>  t == <<c, d>>  u == <<a, b, c, d>>
<1>1. /\ s \in Seq(Steps) /\ Len(s) = 2 /\ t \in Seq(Steps) /\ Len(t) = 2
      /\ u \in Seq(Steps) /\ Len(u) = 4
      /\ u[1] = s[1] /\ u[2] = s[2] /\ u[3] = t[1] /\ u[4] = t[2]
  OBVIOUS
<1> HIDE DEF s, t, u
<1>2. s \o t = u
  <2>1. /\ \A i \in 1 .. Len(s) : u[i] = s[i]
        /\ \A i \in 1 .. Len(t) : u[Len(s) + i] = t[i]
    BY <1>1
  <2>2. Len(u) = Len(s) + Len(t)
    BY <1>1
  <2> QED BY <1>1, <2>1, <2>2, JoinIs
<1> QED BY <1>2 DEF s, t, u

LEMMA FourAndOne ==
  ASSUME NEW a \in Steps, NEW b \in Steps, NEW c \in Steps, NEW d \in Steps,
         NEW f \in Steps
  PROVE  <<a, b, c, d>> \o <<f>> = <<a, b, c, d, f>>
<1> DEFINE s == <<a, b, c, d>>  t == <<f>>  u == <<a, b, c, d, f>>
<1>1. /\ s \in Seq(Steps) /\ Len(s) = 4 /\ t \in Seq(Steps) /\ Len(t) = 1
      /\ u \in Seq(Steps) /\ Len(u) = 5
      /\ u[1] = s[1] /\ u[2] = s[2] /\ u[3] = s[3] /\ u[4] = s[4] /\ u[5] = t[1]
  OBVIOUS
<1> HIDE DEF s, t, u
<1>2. s \o t = u
  <2>1. /\ \A i \in 1 .. Len(s) : u[i] = s[i]
        /\ \A i \in 1 .. Len(t) : u[Len(s) + i] = t[i]
    BY <1>1
  <2>2. Len(u) = Len(s) + Len(t)
    BY <1>1
  <2> QED BY <1>1, <2>1, <2>2, JoinIs
<1> QED BY <1>2 DEF s, t, u

LEMMA TwoAndOne ==
  ASSUME NEW a \in Steps, NEW b \in Steps, NEW c \in Steps
  PROVE  <<a, b>> \o <<c>> = <<a, b, c>>
<1> DEFINE s == <<a, b>>  t == <<c>>  u == <<a, b, c>>
<1>1. /\ s \in Seq(Steps) /\ Len(s) = 2 /\ t \in Seq(Steps) /\ Len(t) = 1
      /\ u \in Seq(Steps) /\ Len(u) = 3
      /\ u[1] = s[1] /\ u[2] = s[2] /\ u[3] = t[1]
  OBVIOUS
<1> HIDE DEF s, t, u
<1>2. s \o t = u
  <2>1. /\ \A i \in 1 .. Len(s) : u[i] = s[i]
        /\ \A i \in 1 .. Len(t) : u[Len(s) + i] = t[i]
    BY <1>1
  <2>2. Len(u) = Len(s) + Len(t)
    BY <1>1
  <2> QED BY <1>1, <2>1, <2>2, JoinIs
<1> QED BY <1>2 DEF s, t, u

LEMMA NoneAndOne ==
  ASSUME NEW f \in Steps
  PROVE  <<>> \o <<f>> = <<f>>
OBVIOUS

LEMMA DisarmShape ==
  ASSUME FlagInv, FlagsMeet
  PROVE  \/ inst = "Processing" /\ Disarm = <<Stop, Stopped, Deactivate, Idle>>
         \/ inst = "Active" /\ Disarm = <<Deactivate, Idle>>
         \/ inst \notin {"Active", "Processing"} /\ Disarm = <<>>
<1>1. CASE inst = "Processing"
  <2>1. processing /\ active
    BY <1>1 DEF FlagsMeet
  <2>2. Disarm = <<Stop, Stopped>> \o <<Deactivate, Idle>>
    BY <2>1 DEF Disarm, Stop, Stopped, Deactivate, Idle
  <2>3. <<Stop, Stopped>> \o <<Deactivate, Idle>> = <<Stop, Stopped, Deactivate, Idle>>
    BY TwoAndTwo, StepsAre
  <2> QED BY <1>1, <2>2, <2>3
<1>2. CASE inst = "Active"
  <2>1. ~processing /\ active
    BY <1>2 DEF FlagsMeet
  <2>2. Disarm = <<>> \o <<Deactivate, Idle>>
    BY <2>1 DEF Disarm, Deactivate, Idle
  <2>3. <<>> \o <<Deactivate, Idle>> = <<Deactivate, Idle>>
    OBVIOUS
  <2> QED BY <1>2, <2>2, <2>3
<1>3. CASE inst \notin {"Active", "Processing"}
  <2>1. ~processing /\ ~active
    BY <1>3 DEF FlagsMeet
  <2>2. Disarm = <<>> \o <<>>
    BY <2>1 DEF Disarm
  <2>3. <<>> \o <<>> = <<>>
    OBVIOUS
  <2> QED BY <1>3, <2>2, <2>3
<1> QED BY <1>1, <1>2, <1>3

(* The five steps of a terminate, the last three, or the last. *)
LEMMA EndsRemain ==
  /\ LET w == <<Stop, Stopped, Deactivate, Idle, Drop>> IN
       /\ w \in Seq(Steps) /\ Remains(w, w)
       /\ <<Deactivate, Idle, Drop>> \in Seq(Steps) /\ Remains(<<Deactivate, Idle, Drop>>, w)
       /\ <<Drop>> \in Seq(Steps) /\ Remains(<<Drop>>, w)
  /\ LET w == <<Stop, Stopped, Deactivate, Idle>> IN
       /\ w \in Seq(Steps) /\ Remains(w, w)
       /\ <<Deactivate, Idle>> \in Seq(Steps) /\ Remains(<<Deactivate, Idle>>, w)
<1>1. /\ <<Stop, Stopped, Deactivate, Idle, Drop>> \in Seq(Steps)
      /\ <<Deactivate, Idle, Drop>> \in Seq(Steps) /\ <<Drop>> \in Seq(Steps)
      /\ <<Stop, Stopped, Deactivate, Idle>> \in Seq(Steps)
      /\ <<Deactivate, Idle>> \in Seq(Steps)
  BY StepsAre
<1>2. LET w == <<Stop, Stopped, Deactivate, Idle, Drop>>
      IN  Remains(w, w) /\ Remains(<<Deactivate, Idle, Drop>>, w) /\ Remains(<<Drop>>, w)
  BY DEF Remains
<1>3. LET w == <<Stop, Stopped, Deactivate, Idle>>
      IN  Remains(w, w) /\ Remains(<<Deactivate, Idle>>, w)
  BY DEF Remains
<1> QED BY <1>1, <1>2, <1>3

LEMMA WholeRemains ==
  ASSUME NEW w \in Seq(Steps)
  PROVE  Remains(w, w)
BY DEF Remains

LEMMA BodyShape ==
  ASSUME FlagInv, FlagsMeet, inst \in Live, NEW e \in Entries, Body(e) # <<>>
  PROVE  /\ Body(e) \in Seq(Steps) /\ Remains(Body(e), Whole(e, setup))
         /\ StandsAt(Verb(e), Len(Body(e)))
<1>1. Shape(e)
  BY EntryShape
<1>2. /\ setup \in Nat /\ inst \in Initialised \cup {"Created"}
      /\ initialised \in BOOLEAN /\ active \in BOOLEAN /\ processing \in BOOLEAN
  BY DEF FlagInv, Live, Sizes
<1> DEFINE b == Body(e)  verb == Verb(e)
<1>3. CASE e = <<"initialize", 0>>
  <2>1. ~initialised
        /\ b = <<<<"init", 0>>, <<"ask", 0>>, <<"build", 0>>,
                <<"ask", 0>>, <<"create_editor", 0>>, <<"ask", 0>>, <<"initialised", TRUE>>>>
    BY <1>3 DEF Body
  <2>2. b = Whole(e, setup)
    BY <1>3, <2>1 DEF Whole, Ask
  <2> HIDE DEF b, verb
  <2>3. b \in Seq(Steps)
    <3>1. /\ <<"init", 0>> \in Steps
          /\ <<"ask", 0>> \in Steps
          /\ <<"build", 0>> \in Steps
          /\ <<"create_editor", 0>> \in Steps
          /\ <<"initialised", TRUE>> \in Steps
      BY ZeroStep, FlagStep, Zenon DEF OtherKinds, FlagKinds, Kinds
    <3> QED BY <2>1, <3>1
  <2>4. Len(b) = 7
    BY <2>1
  <2>5. Stands("Created", {})
    BY <1>2, <2>1 DEF FlagsMeet, Stands, Initialised
  <2>6. verb = "initialize"
    BY <1>3, VerbSelf DEF verb
  <2>7. StandsAt(verb, 7)
    BY <2>5, <2>6 DEF StandsAt
  <2> QED BY <2>2, <2>3, <2>4, <2>7, WholeRemains DEF b, verb
<1>4. CASE e = <<"consult", 0>>
  <2>1. initialised /\ b = <<<<"consult", 0>>>>
    BY <1>4 DEF Body
  <2>2. b = Whole(e, setup)
    BY <1>4, <2>1 DEF Whole, Ask
  <2> HIDE DEF b, verb
  <2>3. b \in Seq(Steps)
    <3>1. <<"consult", 0>> \in Steps
      BY ZeroStep, FlagStep, Zenon DEF OtherKinds, FlagKinds, Kinds
    <3> QED BY <2>1, <3>1
  <2>4. Len(b) = 1
    BY <2>1
  <2>5. FlagsMeet /\ initialised
    BY <1>2, <2>1 DEF FlagsMeet, Stands, Initialised
  <2>6. verb = "consult"
    BY <1>4, VerbSelf DEF verb
  <2>7. StandsAt(verb, 1)
    BY <2>5, <2>6 DEF StandsAt
  <2> QED BY <2>2, <2>3, <2>4, <2>7, WholeRemains DEF b, verb
<1>5. CASE e = <<"set_active", TRUE>>
  <2>1. initialised /\ ~active
        /\ b = <<<<"activate", setup>>, <<"active", TRUE>>, <<"ask", 0>>,
                <<"apply", 0>>, <<"ask", 0>>>>
    BY <1>5 DEF Body
  <2>2. b = Whole(e, setup)
    BY <1>5, <2>1 DEF Whole, Ask
  <2> HIDE DEF b, verb
  <2>3. b \in Seq(Steps)
    <3>1. /\ <<"activate", setup>> \in Steps
          /\ <<"active", TRUE>> \in Steps
          /\ <<"ask", 0>> \in Steps
          /\ <<"apply", 0>> \in Steps
      BY <1>2, ZeroStep, FlagStep, Zenon DEF OtherKinds, FlagKinds, Kinds
    <3> QED BY <2>1, <3>1
  <2>4. Len(b) = 5
    BY <2>1
  <2>5. Stands("Inactive", {"initialised"})
    BY <1>2, <2>1 DEF FlagsMeet, Stands, Initialised
  <2>6. verb = "arm"
    BY <1>5, VerbArm DEF verb
  <2>7. StandsAt(verb, 5)
    BY <2>5, <2>6 DEF StandsAt
  <2> QED BY <2>2, <2>3, <2>4, <2>7, WholeRemains DEF b, verb
<1>6. CASE e = <<"set_processing", TRUE>>
  <2>1. active /\ ~processing /\ b = <<<<"start", 0>>, <<"processing", TRUE>>>>
    BY <1>6 DEF Body
  <2>2. b = Whole(e, setup)
    BY <1>6, <2>1 DEF Whole, Ask
  <2> HIDE DEF b, verb
  <2>3. b \in Seq(Steps)
    <3>1. <<"start", 0>> \in Steps /\ <<"processing", TRUE>> \in Steps
      BY ZeroStep, FlagStep, Zenon DEF OtherKinds, FlagKinds, Kinds
    <3> QED BY <2>1, <3>1
  <2>4. Len(b) = 2
    BY <2>1
  <2>5. Stands("Active", {"initialised", "active"})
    BY <1>2, <2>1 DEF FlagsMeet, Stands, Initialised
  <2>6. verb = "run"
    BY <1>6, VerbRun DEF verb
  <2>7. StandsAt(verb, 2)
    BY <2>5, <2>6 DEF StandsAt
  <2> QED BY <2>2, <2>3, <2>4, <2>7, WholeRemains DEF b, verb
<1>7. CASE e = <<"set_processing", FALSE>>
  <2>1. processing /\ b = <<<<"stop", 0>>, <<"processing", FALSE>>>>
    BY <1>7 DEF Body
  <2>2. b = Whole(e, setup)
    BY <1>7, <2>1 DEF Whole, Ask
  <2> HIDE DEF b, verb
  <2>3. b \in Seq(Steps)
    <3>1. <<"stop", 0>> \in Steps /\ <<"processing", FALSE>> \in Steps
      BY ZeroStep, FlagStep, Zenon DEF OtherKinds, FlagKinds, Kinds
    <3> QED BY <2>1, <3>1
  <2>4. Len(b) = 2
    BY <2>1
  <2>5. Stands("Processing", {"initialised", "active", "processing"})
    BY <1>2, <2>1 DEF FlagsMeet, Stands, Initialised
  <2>6. verb = "halt"
    BY <1>7, VerbHalt DEF verb
  <2>7. StandsAt(verb, 2)
    BY <2>5, <2>6 DEF StandsAt
  <2> QED BY <2>2, <2>3, <2>4, <2>7, WholeRemains DEF b, verb
<1>8. CASE e = <<"setup_processing", e[2]>> /\ e[2] \in Sizes
  <2>1. ~processing /\ b = <<<<"setup", e[2]>>>>
    BY <1>8 DEF Body
  <2>2. b = Whole(e, setup)
    BY <1>8, <2>1 DEF Whole, Ask
  <2> HIDE DEF b, verb
  <2>3. b \in Seq(Steps)
    <3>1. e[2] \in Nat
      BY <1>8 DEF Sizes
    <3>2. <<"setup", e[2]>> \in Steps
      BY <3>1, ZeroStep, Zenon DEF OtherKinds, FlagKinds, Kinds
    <3> QED BY <2>1, <3>2
  <2>4. Len(b) = 1
    BY <2>1
  <2>5. FlagsMeet
    BY <1>2, <2>1 DEF FlagsMeet, Stands, Initialised
  <2>6. verb = "setup_processing"
    BY <1>8, VerbSelf DEF verb
  <2>7. StandsAt(verb, 1)
    BY <2>5, <2>6 DEF StandsAt
  <2> QED BY <2>2, <2>3, <2>4, <2>7, WholeRemains DEF b, verb
<1>9. CASE e = <<"set_state", e[2]>>
  <2>1. initialised
        /\ b = <<<<"apply_params", 0>>, <<"load_state", 0>>, <<"refresh", 0>>>>
    BY <1>9 DEF Body
  <2>2. b = Whole(e, setup)
    BY <1>9, <2>1 DEF Whole, Ask
  <2> HIDE DEF b, verb
  <2>3. b \in Seq(Steps)
    <3>1. /\ <<"apply_params", 0>> \in Steps
          /\ <<"load_state", 0>> \in Steps
          /\ <<"refresh", 0>> \in Steps
      BY ZeroStep, FlagStep, Zenon DEF OtherKinds, FlagKinds, Kinds
    <3> QED BY <2>1, <3>1
  <2>4. Len(b) = 3
    BY <2>1
  <2>5. FlagsMeet /\ initialised
    BY <1>2, <2>1 DEF FlagsMeet, Stands, Initialised
  <2>6. verb = "set_state"
    BY <1>9, VerbSelf DEF verb
  <2>7. StandsAt(verb, 3)
    BY <2>5, <2>6 DEF StandsAt
  <2> QED BY <2>2, <2>3, <2>4, <2>7, WholeRemains DEF b, verb
<1>10. CASE e = <<"terminate", 0>>
  <2>1. b = Disarm \o <<Drop>>
    BY <1>10 DEF Body, Drop
  <2>2. Whole(e, setup) = <<Stop, Stopped, Deactivate, Idle, Drop>>
    BY <1>10 DEF Whole, Stop, Stopped, Deactivate, Idle, Drop
  <2> HIDE DEF b, verb
  <2>3. \/ inst = "Processing" /\ b = <<Stop, Stopped, Deactivate, Idle, Drop>>
        \/ inst = "Active" /\ b = <<Deactivate, Idle, Drop>>
        \/ inst \notin {"Active", "Processing"} /\ b = <<Drop>>
    <3>1. CASE inst = "Processing" /\ Disarm = <<Stop, Stopped, Deactivate, Idle>>
      BY <2>1, <3>1, StepsAre, FourAndOne
    <3>2. CASE inst = "Active" /\ Disarm = <<Deactivate, Idle>>
      BY <2>1, <3>2, StepsAre, TwoAndOne
    <3>3. CASE inst \notin {"Active", "Processing"} /\ Disarm = <<>>
      BY <2>1, <3>3, StepsAre, NoneAndOne
    <3> QED BY <3>1, <3>2, <3>3, DisarmShape
  <2>4. b \in Seq(Steps) /\ Remains(b, Whole(e, setup))
    BY <2>2, <2>3, EndsRemain
  <2>5. \/ inst = "Processing" /\ Len(b) = 5
        \/ inst = "Active" /\ Len(b) = 3
        \/ inst \notin {"Active", "Processing"} /\ Len(b) = 1
    BY <2>3
  <2>6. Disarming(Len(b) - 1)
    BY <1>2, <2>5 DEF Disarming, FlagsMeet, Stands, Initialised
  <2>7. StandsAt(verb, Len(b))
    <3>1. verb = "terminate"
      BY <1>10, VerbSelf DEF verb
    <3> QED BY <2>6, <3>1 DEF StandsAt
  <2> QED BY <2>4, <2>7 DEF b, verb
<1>11. CASE e = <<"set_active", FALSE>>
  <2>1. initialised /\ b = Disarm
    BY <1>11 DEF Body
  <2>2. Whole(e, setup) = <<Stop, Stopped, Deactivate, Idle>>
    BY <1>11 DEF Whole, Stop, Stopped, Deactivate, Idle
  <2>3. b # <<>>
    OBVIOUS
  <2> HIDE DEF b, verb
  <2>4. \/ inst = "Processing" /\ b = <<Stop, Stopped, Deactivate, Idle>>
        \/ inst = "Active" /\ b = <<Deactivate, Idle>>
    BY <2>1, <2>3, DisarmShape
  <2>5. b \in Seq(Steps) /\ Remains(b, Whole(e, setup))
    BY <2>2, <2>4, EndsRemain
  <2>6. \/ inst = "Processing" /\ Len(b) = 4
        \/ inst = "Active" /\ Len(b) = 2
    BY <2>4
  <2>7. Disarming(Len(b))
    BY <1>2, <2>6 DEF Disarming, FlagsMeet, Stands, Initialised
  <2>8. StandsAt(verb, Len(b))
    <3>1. verb = "disarm"
      BY <1>11, VerbDisarm DEF verb
    <3> QED BY <2>7, <3>1 DEF StandsAt
  <2> QED BY <2>5, <2>8 DEF b, verb
<1> QED
  BY <1>1, <1>3, <1>4, <1>5, <1>6, <1>7, <1>8, <1>9, <1>10, <1>11 DEF Shape

-----------------------------------------------------------------------------
(* What a call has still to do, from one of its steps to the next. *)
LEMMA WholeLen ==
  ASSUME NEW e \in Entries, NEW n
  PROVE  Len(Whole(e, n)) \in Nat
<1>1. Shape(e)
  BY EntryShape
<1>2. CASE e[1] = "initialize" \/ e[1] = "terminate" \/ e[1] = "consult"
  BY <1>2 DEF Whole
<1>3. CASE e[1] = "setup_processing" \/ e[1] = "set_state"
  <2>1. e # <<"set_active", TRUE>> /\ e # <<"set_active", FALSE>>
        /\ e # <<"set_processing", TRUE>> /\ e # <<"set_processing", FALSE>>
    <3>1. ASSUME NEW name, NEW b, e = <<name, b>> PROVE e[1] = name
      BY <3>1
    <3>2. e[1] # "set_active" /\ e[1] # "set_processing"
      BY <1>3
    <3> HIDE <1>3
    <3> QED BY <3>1, <3>2, Zenon
  <2> QED BY <1>3, <2>1 DEF Whole
<1>4. CASE e = <<"set_active", TRUE>>
  BY <1>4 DEF Whole
<1>5. CASE e = <<"set_active", FALSE>>
  BY <1>5 DEF Whole
<1>6. CASE e = <<"set_processing", TRUE>>
  BY <1>6 DEF Whole
<1>7. CASE e = <<"set_processing", FALSE>>
  BY <1>7 DEF Whole
<1> QED BY <1>1, <1>2, <1>3, <1>4, <1>5, <1>6, <1>7 DEF Shape

LEMMA CollectsTail ==
  ASSUME NEW s \in Seq(Steps), NEW e, Collects(s, e)
  PROVE  \/ /\ Len(s) > 1 /\ Collects(Tail(s), e)
            /\ \/ s[1] = <<"swap", 0>>
               \/ s[1] \in {"read"} \X Ids
               \/ s[1] \in {"lane"} \X DOMAIN e[3]
         \/ Len(s) = 1 /\ s[1] = <<"process", e[2]>> /\ s = <<<<"process", e[2]>>>>
<1>1. /\ s # <<>> /\ Len(s) \in Nat /\ Len(s) >= 1 /\ s[Len(s)] = <<"process", e[2]>>
      /\ Tail(s) \in Seq(Steps) /\ Len(Tail(s)) = Len(s) - 1
      /\ \A i \in 1 .. Len(s) - 1 : Tail(s)[i] = s[i + 1]
  BY EmptySeq, HeadTailProperties DEF Collects
<1>2. CASE Len(s) = 1
  <2>1. s[1] = <<"process", e[2]>> /\ s = <<s[1]>>
    BY <1>1, <1>2
  <2> QED BY <1>2, <2>1
<1>3. CASE Len(s) > 1
  <2>1. \/ s[1] = <<"swap", 0>>
        \/ s[1] \in {"read"} \X Ids
        \/ s[1] \in {"lane"} \X DOMAIN e[3]
    <3>1. 1 \in 1 .. Len(s) - 1
      BY <1>1, <1>3
    <3> QED BY <3>1 DEF Collects
  <2>2. Tail(s) # <<>> /\ Tail(s)[Len(Tail(s))] = <<"process", e[2]>>
    BY <1>1, <1>3
  <2>3. ASSUME NEW i \in 1 .. Len(Tail(s)) - 1
        PROVE  \/ Tail(s)[i] \in {"read"} \X Ids
               \/ Tail(s)[i] \in {"lane"} \X DOMAIN e[3]
    <3>1. i + 1 \in 1 .. Len(s) - 1 /\ i + 1 # 1 /\ Tail(s)[i] = s[i + 1]
      BY <1>1
    <3> QED BY <3>1 DEF Collects
  <2> QED BY <1>3, <2>1, <2>2, <2>3 DEF Collects
<1> QED BY <1>1, <1>2, <1>3

LEMMA TellsTail ==
  ASSUME NEW s \in Seq(Steps), NEW told, Tells(s, told), s # <<>>
  PROVE  Tells(Tail(s), told) /\ s[1] \in {"emit"} \X DOMAIN told
<1>1. /\ Len(s) \in Nat /\ Len(s) >= 1 /\ Len(Tail(s)) = Len(s) - 1
      /\ \A i \in 1 .. Len(s) - 1 : Tail(s)[i] = s[i + 1]
  BY EmptySeq, HeadTailProperties
<1>2. \A i \in 1 .. Len(s) - 1 : i + 1 \in 1 .. Len(s)
  BY <1>1
<1>3. 1 \in 1 .. Len(s)
  BY <1>1
<1> QED BY <1>1, <1>2, <1>3 DEF Tells

LEMMA TellsNothing ==
  ASSUME NEW told
  PROVE  Tells(<<>>, told)
BY DEF Tells

(* The step a call is at: one of its entry's, or one of a block. *)
BlockAt ==
  \/ /\ at = "between" /\ Collects(script, doing) /\ sent = <<>> /\ Len(script) > 1
     /\ \/ Step = <<"swap", 0>>
        \/ Step \in {"read"} \X Ids
        \/ Step \in {"lane"} \X DOMAIN doing[3]
  \/ at = "between" /\ Collects(script, doing) /\ sent = <<>>
     /\ script = <<<<"process", doing[2]>>>>
  \/ at = "between" /\ Tells(script, sent) /\ Step \in {"emit"} \X DOMAIN sent
  \/ at \in Outcomes /\ script = <<<<"process", doing[2]>>>>

LEMMA StepIs ==
  ASSUME CallInv, InCall, script # <<>>
  PROVE  /\ \/ doing \in Entries /\ Spot(Verb(doing), Len(script), Step[1], Step[2], setup)
            \/ doing \in Blocks /\ BlockAt
         /\ Len(script) \in Nat /\ Len(script) >= 1 /\ Len(Tail(script)) = Len(script) - 1
         /\ Tail(script) \in Seq(Steps)
<1>1. script \in Seq(Steps) /\ doing \in Entries \cup Blocks
  BY DEF CallInv
<1>2. /\ Len(script) \in Nat /\ Len(script) >= 1 /\ Len(Tail(script)) = Len(script) - 1
      /\ Tail(script) \in Seq(Steps)
  BY <1>1, EmptySeq, HeadTailProperties
<1>3. CASE doing \in Entries
  <2>1. Remains(script, Whole(doing, setup))
    BY <1>3 DEF CallInv
  <2>2. Spot(Verb(doing), Len(script), script[1][1], script[1][2], setup)
    BY <1>1, <1>3, <2>1, Spots
  <2> QED BY <1>2, <1>3, <2>2 DEF Step
<1>4. CASE doing \in Blocks
  <2>1. CASE at = "between" /\ Collects(script, doing) /\ sent = <<>>
    BY <1>1, <1>2, <1>4, <2>1, CollectsTail DEF BlockAt, Step
  <2>2. CASE at = "between" /\ Tells(script, sent)
    BY <1>1, <1>2, <1>4, <2>2, TellsTail DEF BlockAt, Step
  <2>3. CASE at \in Outcomes /\ script = <<<<"process", doing[2]>>>>
    BY <1>2, <1>4, <2>3 DEF BlockAt
  <2> QED BY <1>4, <2>1, <2>2, <2>3 DEF CallInv
<1> QED BY <1>1, <1>3, <1>4

LEMMA ShortKeeps ==
  ASSUME CallInv, InCall, at' = "between", doing' = doing, script' = <<>>, sent' = sent
  PROVE  CallInv'
<1>1. doing \in Entries \cup Blocks /\ sent \in State
  BY DEF CallInv
<1>2. doing \in Entries => Remains(<<>>, Whole(doing, setup'))
  <2>1. ASSUME NEW e \in Entries, NEW n PROVE Remains(<<>>, Whole(e, n))
    BY WholeLen DEF Remains
  <2> QED BY <2>1
<1>3. Tells(<<>>, sent)
  BY TellsNothing
<1>4. <<>> \in Seq(Steps)
  OBVIOUS
<1> QED BY <1>1, <1>2, <1>3, <1>4 DEF CallInv, InCall, Outcomes

LEMMA TailKeeps ==
  ASSUME CallInv, InCall, at' = "between", doing' = doing, sent' = sent, setup' = setup,
         script # <<>>, script' = Tail(script), doing \in Blocks => Step[1] # "process"
  PROVE  CallInv'
<1>1. /\ script \in Seq(Steps) /\ doing \in Entries \cup Blocks /\ sent \in State
      /\ Tail(script) \in Seq(Steps)
  BY StepIs DEF CallInv
<1>2. CASE doing \in Entries
  <2>1. Remains(script, Whole(doing, setup)) /\ Len(Whole(doing, setup)) \in Nat
    BY <1>2, WholeLen DEF CallInv
  <2>2. Remains(Tail(script), Whole(doing, setup))
    BY <1>1, <2>1, RemainsTail
  <2> QED BY <1>1, <1>2, <2>2, EntryOrBlock DEF CallInv, InCall, Outcomes
<1>3. CASE doing \in Blocks
  <2>1. \/ at = "between" /\ Collects(script, doing) /\ sent = <<>>
        \/ at = "between" /\ Tells(script, sent)
    <3>1. ~(script = <<<<"process", doing[2]>>>>)
      BY <1>3 DEF Step
    <3> QED BY <1>3, <3>1 DEF CallInv
  <2>2. CASE at = "between" /\ Collects(script, doing) /\ sent = <<>>
    <3>1. Collects(Tail(script), doing)
      BY <1>1, <1>3, <2>2, CollectsTail DEF Step
    <3> QED BY <1>1, <1>3, <2>2, <3>1, EntryOrBlock DEF CallInv, InCall, Outcomes
  <2>3. CASE at = "between" /\ Tells(script, sent)
    <3>1. Tells(Tail(script), sent)
      BY <1>1, <2>3, TellsTail
    <3> QED BY <1>1, <1>3, <3>1, EntryOrBlock DEF CallInv, InCall, Outcomes
  <2> QED BY <2>1, <2>2, <2>3
<1> QED BY <1>1, <1>2, <1>3

LEMMA AsideCall ==
  ASSUME CallInv, UNCHANGED <<callVars, sent, setup>>
  PROVE  CallInv'
<1>1. UNCHANGED <<at, doing, script, sent, setup>>
  BY DEF callVars
<1> QED BY <1>1 DEF CallInv, InCall, IsMethod, Method, Step

LEMMA InitCall == Init => CallInv
<1>1. <<>> \in Seq(Steps)
  OBVIOUS
<1> QED BY <1>1, EmptyState DEF Init, CallInv, InCall, Outcomes

LEMMA EntryBegins ==
  ASSUME CallInv, FlagInv, NEW e \in Entries, Call(e)
  PROVE  CallInv'
<1>1. inst \in Live /\ at = "idle" /\ ~poison /\ Body(e) # <<>>
      /\ at' = "between" /\ doing' = e /\ script' = Body(e) /\ sent' = sent /\ setup' = setup
  BY DEF Call, Enters, blockVars, dspVars
<1>2. FlagsMeet
  BY <1>1 DEF FlagInv
<1>3. Body(e) \in Seq(Steps) /\ Remains(Body(e), Whole(e, setup))
  BY <1>1, <1>2, BodyShape
<1> HIDE DEF Call
<1> QED BY <1>1, <1>3, EntryOrBlock DEF CallInv, InCall, Outcomes

LEMMA StepsInARow ==
  ASSUME NEW s \in Seq(Steps), NEW t \in Seq(Steps)
  PROVE  /\ s \o t \in Seq(Steps) /\ Len(s \o t) = Len(s) + Len(t)
         /\ \A i \in 1 .. Len(s) : (s \o t)[i] = s[i]
         /\ \A i \in 1 .. Len(t) : (s \o t)[Len(s) + i] = t[i]
BY InARow

(* A block: the lanes of its automation, and the call itself. *)
LEMMA BlockBody ==
  ASSUME NEW e \in Blocks, Body(e) # <<>>, setup \in Nat
  PROVE  /\ processing /\ e[2] <= setup
         /\ Body(e) \in Seq(Steps) /\ Collects(Body(e), e)
         /\ Body(e) = <<<<"swap", 0>>>> \o Each("lane", InState(e[3])) \o <<<<"process", e[2]>>>>
         /\ Len(Body(e)) = Len(InState(e[3])) + 2
         /\ \A i \in 1 .. Len(InState(e[3])) : Body(e)[i + 1] = <<"lane", InState(e[3])[i]>>
<1>1. e = <<"process", e[2], e[3]>> /\ e[2] \in Nat /\ e[3] \in State
  <2>1. /\ e = <<"process", e[2], e[3]>> /\ e[2] \in Frames
        /\ \E ids \in SUBSET Ids : e[3] \in [ids -> Values]
    BY BlockShape
  <2> QED BY <2>1, MaxSizeAssumption DEF Frames, State
<1>2. e[1] = "process" /\ Len(e) = 3
  BY <1>1
<1> DEFINE b == Body(e)  l == Each("lane", InState(e[3]))  ids == InState(e[3])
           first == <<<<"swap", 0>>>>  last == <<<<"process", e[2]>>>>
<1>3. processing /\ ~(e[2] > setup) /\ b = first \o l \o last
  <2>1. e # <<"set_active", TRUE>> /\ e # <<"set_active", FALSE>>
        /\ e # <<"set_processing", TRUE>> /\ e # <<"set_processing", FALSE>>
    <3>1. ASSUME NEW name, NEW v, e = <<name, v>> PROVE FALSE
      BY <1>1, <1>2, <3>1
    <3> QED BY <3>1, Zenon
  <2> QED BY <1>2, <2>1 DEF Body
<1>4. /\ ids \in Seq(Ids) /\ ids \in Seq(DOMAIN e[3]) /\ l \in Seq(Steps) /\ Len(l) = Len(ids)
      /\ \A i \in 1 .. Len(ids) : l[i] = <<"lane", ids[i]>>
  <2>1. "lane" \in ParamKinds /\ ids \in Seq(Ids) /\ ids \in Seq(DOMAIN e[3])
    BY <1>1, StateListed DEF ParamKinds
  <2> QED BY <2>1, EachListed
<1>5. <<"swap", 0>> \in Steps /\ <<"process", e[2]>> \in Steps
  BY <1>1, ZeroStep DEF OtherKinds
<1>6. /\ first \in Seq(Steps) /\ last \in Seq(Steps) /\ Len(first) = 1 /\ Len(last) = 1
      /\ first[1] = <<"swap", 0>> /\ last[1] = <<"process", e[2]>>
  BY <1>5
<1> HIDE DEF b, l, ids, first, last
<1>7. /\ b \in Seq(Steps) /\ Len(b) = Len(ids) + 2 /\ Len(ids) \in Nat
      /\ b[1] = <<"swap", 0>> /\ b[Len(b)] = <<"process", e[2]>>
      /\ \A i \in 1 .. Len(ids) : b[i + 1] = <<"lane", ids[i]>>
  <2> DEFINE f == first \o l
  <2> DEFINE n == Len(ids)
  <2>1. n \in Nat /\ Len(l) = n /\ \A i \in 1 .. n : l[i] = <<"lane", ids[i]>>
    BY <1>4, LenProperties
  <2>2. b = f \o last
    BY <1>3
  <2> HIDE DEF n
  <2>3. /\ f \in Seq(Steps) /\ Len(f) = Len(first) + Len(l)
        /\ \A i \in 1 .. Len(first) : f[i] = first[i]
        /\ \A i \in 1 .. Len(l) : f[Len(first) + i] = l[i]
    <3>1. first \in Seq(Steps) /\ l \in Seq(Steps)
      BY <1>4, <1>6
    <3> QED BY <3>1, StepsInARow, Zenon
  <2> HIDE DEF f
  <2>4. /\ b \in Seq(Steps) /\ Len(b) = Len(f) + Len(last)
        /\ \A i \in 1 .. Len(f) : b[i] = f[i]
        /\ \A i \in 1 .. Len(last) : b[Len(f) + i] = last[i]
    <3>1. f \in Seq(Steps) /\ last \in Seq(Steps)
      BY <1>6, <2>3
    <3> QED BY <2>2, <3>1, StepsInARow, Zenon
  <2>5. Len(f) = n + 1 /\ f[1] = <<"swap", 0>> /\ \A i \in 1 .. n : f[i + 1] = l[i]
    <3>1. Len(f) = n + 1
      BY <1>6, <2>1, <2>3
    <3>2. f[1] = first[1]
      BY <1>6, <2>3
    <3>3. ASSUME NEW i \in 1 .. n PROVE f[i + 1] = l[i]
      <4>1. f[1 + i] = l[i] /\ 1 + i = i + 1
        BY <1>6, <2>1, <2>3
      <4> QED BY <4>1
    <3> QED BY <1>6, <3>1, <3>2, <3>3
  <2>6. Len(b) = n + 2 /\ b[1] = <<"swap", 0>> /\ b[n + 2] = <<"process", e[2]>>
    BY <1>6, <2>1, <2>4, <2>5
  <2>7. ASSUME NEW i \in 1 .. n PROVE b[i + 1] = <<"lane", ids[i]>>
    <3>1. i + 1 \in 1 .. n + 1 /\ f[i + 1] = l[i]
      BY <2>1, <2>5
    <3>2. b[i + 1] = f[i + 1]
      BY <2>4, <2>5, <3>1
    <3> QED BY <2>1, <3>1, <3>2
  <2> QED BY <2>1, <2>4, <2>6, <2>7 DEF n
<1>8. Collects(b, e)
  <2>1. b # <<>>
    BY <1>7
  <2>2. ASSUME NEW i \in 1 .. Len(b) - 1
        PROVE  \/ i = 1 /\ b[i] = <<"swap", 0>>
               \/ b[i] \in {"read"} \X Ids
               \/ b[i] \in {"lane"} \X DOMAIN e[3]
    <3>1. CASE i = 1
      BY <1>7, <3>1
    <3>2. CASE i # 1
      <4>1. i - 1 \in 1 .. Len(ids) /\ (i - 1) + 1 = i
        BY <1>7, <3>2
      <4>2. b[i] = <<"lane", ids[i - 1]>> /\ ids[i - 1] \in DOMAIN e[3]
        BY <1>4, <1>7, <4>1, ElementOfSeq
      <4> QED BY <4>2
    <3> QED BY <3>1, <3>2
  <2> QED BY <1>7, <2>1, <2>2 DEF Collects
<1>9. e[2] <= setup
  BY <1>1, <1>3
<1>10. processing /\ e[2] <= setup /\ b \in Seq(Steps) /\ Collects(b, e)
  BY <1>3, <1>7, <1>8, <1>9
<1>11. Body(e) = <<<<"swap", 0>>>> \o Each("lane", InState(e[3])) \o <<<<"process", e[2]>>>>
  BY <1>3 DEF b, l, ids, first, last
<1>12. Len(b) = Len(ids) + 2 /\ \A i \in 1 .. Len(ids) : b[i + 1] = <<"lane", ids[i]>>
  BY <1>7
<1> QED BY <1>10, <1>11, <1>12 DEF b, ids

LEMMA BlockBegins ==
  ASSUME CallInv, FlagInv, NEW e \in Blocks, CallProcess(e)
  PROVE  CallInv'
<1>1. /\ Body(e) # <<>> /\ setup \in Nat
      /\ at' = "between" /\ doing' = e /\ script' = Body(e) /\ sent' = <<>>
  BY DEF CallProcess, Enters, FlagInv, Sizes
<1>2. Body(e) \in Seq(Steps) /\ Collects(Body(e), e)
  BY <1>1, BlockBody
<1> HIDE DEF CallProcess
<1> QED BY <1>1, <1>2, EntryOrBlock, EmptyState DEF CallInv, InCall, Outcomes

(* The steps of a call that end it, or go on with what is left. *)
LEMMA PlainSteps ==
  ASSUME CallInv,
         \/ RefuseMethod \/ ReturnError \/ CatchPanic \/ SetFlag \/ Setup \/ DropEditor
         \/ Refresh \/ Apply \/ ApplyParams \/ ReadMirror \/ DrainLane \/ Emit
         \/ EmitNothing
  PROVE  CallInv'
<1>1. CASE RefuseMethod \/ ReturnError
  <2>1. /\ InCall /\ at' = "between" /\ doing' = doing /\ sent' = sent /\ setup' = setup
        /\ After(FALSE) /\ script # <<>>
    BY <1>1 DEF RefuseMethod, ReturnError, InCall, IsMethod, blockVars, dspVars, CallInv, Outcomes
  <2>2. script' = <<>> \/ (script' = Tail(script) /\ Step[1] # "process")
    BY <2>1 DEF After, GoesOn
  <2> QED BY <2>1, <2>2, ShortKeeps, TailKeeps
<1>2. CASE CatchPanic \/ EmitNothing
  <2>1. InCall /\ at' = "between" /\ doing' = doing /\ sent' = sent /\ script' = <<>>
    BY <1>2 DEF CatchPanic, EmitNothing, Doing, InCall, blockVars, Outcomes
  <2> QED BY <2>1, ShortKeeps
<1>3. CASE SetFlag \/ DropEditor \/ Refresh \/ Apply \/ ApplyParams
  <2>1. /\ at = "between" /\ at' = "between" /\ doing' = doing /\ sent' = sent /\ setup' = setup
        /\ script # <<>> /\ After(TRUE)
    BY <1>3 DEF SetFlag, DropEditor, Refresh, Apply, ApplyParams, Doing, blockVars, dspVars
  <2>2. Step[1] \in {"initialised", "active", "processing", "drop_editor", "build", "refresh",
                     "apply", "apply_params"}
    BY <1>3 DEF SetFlag, DropEditor, Refresh, Apply, ApplyParams, Doing
  <2>3. InCall /\ script' = Tail(script) /\ Step[1] # "process"
    BY <2>1, <2>2 DEF InCall, After
  <2> QED BY <2>1, <2>3, TailKeeps
<1>4. CASE ReadMirror \/ DrainLane \/ Emit
  <2>1. /\ at = "between" /\ at' = "between" /\ doing' = doing /\ sent' = sent /\ setup' = setup
        /\ script # <<>> /\ After(TRUE) /\ Step[1] \in {"read", "lane", "emit"}
    BY <1>4 DEF ReadMirror, DrainLane, Emit, Doing, blockVars, dspVars
  <2>2. InCall /\ script' = Tail(script) /\ Step[1] # "process"
    BY <2>1 DEF InCall, After
  <2> QED BY <2>1, <2>2, TailKeeps
<1>5. CASE Setup
  <2>1. /\ at = "between" /\ at' = "between" /\ doing' = doing /\ sent' = sent
        /\ script # <<>> /\ script' = Tail(script) /\ Step[1] = "setup" /\ InCall
    BY <1>5 DEF Setup, Doing, blockVars, InCall, After
  <2>2. Len(script) = 1
    BY <2>1, StepIs DEF Spot, BlockAt, Outcomes, Step
  <2>3. script' = <<>>
    BY <2>1, <2>2, StepIs, EmptySeq
  <2> QED BY <2>1, <2>3, ShortKeeps
<1> QED BY <1>1, <1>2, <1>3, <1>4, <1>5

LEMMA EnterCall ==
  ASSUME CallInv, EnterMethod
  PROVE  CallInv'
<1>1. /\ at = "between" /\ script # <<>> /\ Method \in Methods
      /\ doing' = doing /\ script' = script /\ setup' = setup
  BY DEF EnterMethod, IsMethod, dspVars
<1>2. at' \in Outcomes /\ at' \in Possible(Method)
  BY DEF EnterMethod, Enter
<1>3. sent' \in State
  <2>1. PICK moved \in Moves \cup {<<>>} : sent' = IF Step[1] = "process" THEN moved ELSE sent
    BY DEF EnterMethod
  <2>2. moved \in State
    BY MovesAreStates, EmptyState
  <2> QED BY <2>1, <2>2 DEF CallInv
<1>4. InCall /\ InCall' /\ IsMethod' /\ Method' = Method /\ script \in Seq(Steps)
  BY <1>1, <1>2 DEF InCall, IsMethod, Method, Step, CallInv
<1>5. doing \in Blocks => script = <<<<"process", doing[2]>>>>
  <2>1. ASSUME doing \in Blocks, ~(script = <<<<"process", doing[2]>>>>) PROVE FALSE
    <3>1. BlockAt
      BY <1>1, <1>4, <2>1, StepIs, EntryOrBlock
    <3>2. Step[1] \in {"swap", "read", "lane", "emit"}
      BY <2>1, <3>1 DEF BlockAt
    <3>3. Method \notin Methods
      BY <3>2 DEF Method, Methods
    <3> QED BY <1>1, <3>3
  <2> QED BY <2>1
<1>6. doing \in Entries \cup Blocks /\ (doing \in Entries => Remains(script, Whole(doing, setup)))
  BY <1>4 DEF CallInv
<1> HIDE DEF EnterMethod
<1> QED BY <1>1, <1>2, <1>3, <1>4, <1>5, <1>6 DEF CallInv, Outcomes

LEMMA EachTells ==
  ASSUME NEW told \in State
  PROVE  Each("emit", InState(told)) \in Seq(Steps) /\ Tells(Each("emit", InState(told)), told)
<1> DEFINE ids == InState(told)  s == Each("emit", ids)
<1>1. /\ ids \in Seq(DOMAIN told) /\ ids \in Seq(Ids) /\ "emit" \in ParamKinds
  BY StateListed DEF ParamKinds
<1> HIDE DEF ids
<1>2. s \in Seq(Steps) /\ Len(s) = Len(ids) /\ \A i \in 1 .. Len(ids) : s[i] = <<"emit", ids[i]>>
  BY <1>1, EachListed
<1>3. \A i \in 1 .. Len(ids) : ids[i] \in DOMAIN told
  BY <1>1, ElementOfSeq
<1> HIDE DEF s
<1>4. ASSUME NEW i \in 1 .. Len(s) PROVE s[i] \in {"emit"} \X DOMAIN told
  <2>1. i \in 1 .. Len(ids) /\ s[i] = <<"emit", ids[i]>>
    BY <1>2
  <2> QED BY <1>3, <2>1
<1>5. s \in Seq(Steps) /\ Tells(s, told)
  BY <1>2, <1>4 DEF Tells
<1> QED BY <1>5 DEF s, ids

LEMMA ReturnCall ==
  ASSUME CallInv, ReturnMethod
  PROVE  CallInv'
<1>1. /\ at = "ok" /\ at' = "between" /\ doing' = doing /\ sent' = sent /\ setup' = setup
      /\ script' = IF Step[1] = "process" THEN Each("emit", InState(sent)) ELSE Tail(script)
  BY DEF ReturnMethod, blockVars, dspVars
<1>2. InCall /\ script # <<>> /\ sent \in State /\ doing \in Entries \cup Blocks
  BY <1>1 DEF CallInv, InCall, Outcomes, IsMethod
<1>3. CASE Step[1] = "process"
  <2>1. doing \in Blocks
    BY <1>2, <1>3, StepIs DEF Spot, Kinds
  <2>2. script' \in Seq(Steps) /\ Tells(script', sent)
    BY <1>1, <1>2, <1>3, EachTells
  <2> QED BY <1>1, <1>2, <2>1, <2>2, EntryOrBlock DEF CallInv, InCall, Outcomes
<1>4. CASE Step[1] # "process"
  BY <1>1, <1>2, <1>4, TailKeeps
<1> QED BY <1>3, <1>4

(* The flag makes every parameter an event before the lanes. *)
LEMMA SwapCall ==
  ASSUME CallInv, SwapPending
  PROVE  /\ CallInv' /\ doing \in Blocks /\ Collects(script, doing)
         /\ Collects(Tail(script), doing) /\ script \in Seq(Steps)
<1>1. /\ at = "between" /\ at' = "between" /\ script # <<>> /\ Step[1] = "swap" /\ doing' = doing
      /\ sent' = sent /\ InCall
      /\ script' = (IF pending THEN Each("read", Params) ELSE <<>>) \o Tail(script)
  BY DEF SwapPending, Doing, InCall, blockVars
<1>2. /\ doing \in Blocks /\ Collects(script, doing) /\ sent = <<>> /\ script \in Seq(Steps)
      /\ Len(script) > 1
  <2>1. doing \in Blocks /\ BlockAt /\ script \in Seq(Steps)
    BY <1>1, StepIs DEF Spot, Kinds, CallInv
  <2> QED BY <1>1, <2>1 DEF BlockAt, Step, Outcomes
<1>3. Collects(Tail(script), doing) /\ Tail(script) \in Seq(Steps)
  <2>1. Collects(Tail(script), doing)
    BY <1>2, CollectsTail
  <2> QED BY <1>1, <2>1, StepIs
<1> DEFINE r == IF pending THEN Each("read", Params) ELSE <<>>
           t == Tail(script)
<1>4. r \in Seq(Steps) /\ \A i \in 1 .. Len(r) : r[i] \in {"read"} \X Ids
  <2>1. CASE pending
    <3>1. "read" \in ParamKinds /\ Params \in Seq(Ids)
      BY ParamsListed DEF ParamKinds
    <3>2. /\ r \in Seq(Steps) /\ Len(r) = Len(Params)
          /\ \A i \in 1 .. Len(Params) : r[i] = <<"read", Params[i]>>
      BY <2>1, <3>1, EachListed
    <3>3. \A i \in 1 .. Len(Params) : Params[i] \in Ids
      BY <3>1, ElementOfSeq
    <3> HIDE DEF r
    <3>4. ASSUME NEW i \in 1 .. Len(r) PROVE r[i] \in {"read"} \X Ids
      <4>1. i \in 1 .. Len(Params) /\ r[i] = <<"read", Params[i]>>
        BY <3>2
      <4> QED BY <3>3, <4>1
    <3> QED BY <3>2, <3>4
  <2>2. CASE ~pending
    BY <2>2
  <2> QED BY <2>1, <2>2
<1>5. script' = r \o t
  BY <1>1
<1> HIDE DEF r, t
<1>6. /\ r \o t \in Seq(Steps) /\ Len(r \o t) = Len(r) + Len(t)
      /\ Len(r) \in Nat /\ Len(t) \in Nat
      /\ \A i \in 1 .. Len(r) : (r \o t)[i] = r[i]
      /\ \A i \in 1 .. Len(t) : (r \o t)[Len(r) + i] = t[i]
  <2>1. r \in Seq(Steps) /\ t \in Seq(Steps)
    BY <1>3, <1>4 DEF t
  <2>2. Len(r) \in Nat /\ Len(t) \in Nat
    BY <2>1, LenProperties
  <2> QED BY <2>1, <2>2, StepsInARow, Zenon
<1>7. Collects(r \o t, doing)
  <2> DEFINE s == r \o t  m == Len(r)  n == Len(t)
  <2>1. /\ m \in Nat /\ n \in Nat /\ n >= 1 /\ Len(s) = m + n /\ t[n] = <<"process", doing[2]>>
        /\ \A i \in 1 .. m : s[i] = r[i]
        /\ \A i \in 1 .. n : s[m + i] = t[i]
        /\ s \in Seq(Steps)
    <3>1. t \in Seq(Steps) /\ t # <<>> /\ t[Len(t)] = <<"process", doing[2]>>
      BY <1>3 DEF Collects, t
    <3>2. Len(t) >= 1
      BY <3>1, EmptySeq, LenProperties
    <3> QED BY <1>6, <3>1, <3>2
  <2>2. \A i \in 1 .. n - 1 : \/ i = 1 /\ t[i] = <<"swap", 0>>
                              \/ t[i] \in {"read"} \X Ids
                              \/ t[i] \in {"lane"} \X DOMAIN doing[3]
    BY <1>3 DEF Collects, t
  <2>3. \A i \in 1 .. n - 1 : t[i] # <<"swap", 0>>
    <3>1. ASSUME NEW i \in 1 .. Len(t) - 1 PROVE t[i] # <<"swap", 0>>
      <4>1. /\ i + 1 \in 1 .. Len(script) - 1 /\ i + 1 # 1 /\ t[i] = script[i + 1]
        BY <1>1, <1>2, HeadTailProperties DEF t
      <4>2. script[i + 1] \in {"read"} \X Ids \/ script[i + 1] \in {"lane"} \X DOMAIN doing[3]
        BY <1>2, <4>1 DEF Collects
      <4> QED BY <4>1, <4>2
    <3> QED BY <3>1
  <2> HIDE DEF s, m, n
  <2>4. s # <<>> /\ s[Len(s)] = <<"process", doing[2]>>
    BY <2>1, EmptySeq
  <2>5. ASSUME NEW i \in 1 .. Len(s) - 1
        PROVE  s[i] \in {"read"} \X Ids \/ s[i] \in {"lane"} \X DOMAIN doing[3]
    <3>1. CASE i <= m
      <4>1. i \in 1 .. m
        BY <2>1, <3>1
      <4> QED BY <1>4, <2>1, <4>1 DEF m
    <3>2. CASE i > m
      <4> DEFINE j == i - m
      <4>1. j \in 1 .. n - 1 /\ j \in 1 .. n /\ i = m + j
        BY <2>1, <3>2
      <4> HIDE DEF j
      <4>2. s[i] = t[j]
        BY <2>1, <4>1
      <4> QED BY <2>2, <2>3, <4>1, <4>2
    <3> QED BY <2>1, <3>1, <3>2
  <2>6. Collects(s, doing)
    BY <2>4, <2>5 DEF Collects
  <2> QED BY <2>6 DEF s
<1> HIDE DEF SwapPending
<1>8. CallInv'
  BY <1>1, <1>2, <1>5, <1>6, <1>7, EntryOrBlock, EmptyState DEF CallInv, InCall, Outcomes
<1> QED BY <1>2, <1>3, <1>8

LEMMA EndCall ==
  ASSUME CallInv, End
  PROVE  CallInv'
<1>1. at' = "idle" /\ doing' = Nothing /\ sent' = <<>> /\ script' = <<>>
  BY DEF End
<1>2. <<>> \in Seq(Steps)
  OBVIOUS
<1> QED BY <1>1, <1>2, EmptyState DEF CallInv, InCall, Outcomes

LEMMA NextCall ==
  ASSUME CallInv, FlagInv, [Next]_vars
  PROVE  CallInv'
<1>1. CASE CallStep
  <2>1. CASE \/ RefuseMethod \/ ReturnError \/ CatchPanic \/ SetFlag \/ Setup \/ DropEditor
             \/ Refresh \/ Apply \/ ApplyParams \/ ReadMirror \/ DrainLane \/ Emit
             \/ EmitNothing
    BY <2>1, PlainSteps
  <2>2. CASE EnterMethod \/ ReturnMethod \/ SwapPending \/ End
    BY <2>2, EnterCall, ReturnCall, SwapCall, EndCall
  <2> QED BY <1>1, <2>1, <2>2 DEF CallStep
<1>2. CASE \E e \in Entries : Call(e)
  BY <1>2, EntryBegins
<1>3. CASE \E e \in Blocks : CallProcess(e)
  BY <1>3, BlockBegins
<1>4. CASE \/ Create \/ SetMirror \/ RaisePending \/ SetComponentState \/ EditorMoves
           \/ EditorReports
  <2>1. UNCHANGED <<callVars, sent, setup>>
    BY <1>4 DEF Create, SetMirror, RaisePending, SetComponentState, EditorMoves,
       EditorReports, blockVars, dspVars
  <2> QED BY <2>1, AsideCall
<1>5. CASE CreateView \/ Attached \/ Removed \/ Query \/ DropBox \/ UNCHANGED vars
  <2>1. UNCHANGED <<callVars, sent, setup>>
    BY <1>5 DEF CreateView, Attached, Removed, Query, DropBox, vars, blockVars, dspVars
  <2> QED BY <2>1, AsideCall
<1>6. CASE Release \/ ReleaseView
  <2>1. /\ UNCHANGED <<doing, script, sent, setup>>
        /\ at' = at \/ at' = "aborted"
    BY <1>6 DEF Release, ReleaseView, Dismiss, blockVars, dspVars
  <2>2. CASE at' = at
    BY <2>1, <2>2, AsideCall DEF callVars
  <2>3. CASE at' = "aborted"
    BY <2>1, <2>3 DEF CallInv, InCall, Outcomes
  <2> QED BY <2>1, <2>2, <2>3
<1> QED BY <1>1, <1>2, <1>3, <1>4, <1>5, <1>6 DEF Next

-----------------------------------------------------------------------------
(* The flags and the state, from one step of an entry to the next. *)
StandsNext(verb, k) ==
  /\ k # 0 => StandsAt(verb, k)
  /\ k = 0 => FlagsMeet /\ (verb = "initialize" => initialised)

Quiet ==
  {"ask", "build", "create_editor", "drop_editor", "consult", "apply", "setup",
   "apply_params", "load_state", "refresh"}

LEMMA QuietStep ==
  ASSUME NEW verb, NEW k \in Nat, k >= 1, NEW kind \in Quiet, NEW v, NEW n,
         StandsAt(verb, k), Spot(verb, k, kind, v, n)
  PROVE  StandsNext(verb, k - 1)
BY DEF StandsNext, StandsAt, Disarming, Stands, FlagsMeet, Spot, Quiet, Initialised

LEMMA QuietStepPrimed ==
  ASSUME NEW verb, NEW k \in Nat, k >= 1, NEW kind \in Quiet, NEW v, NEW n,
         StandsAt(verb, k), Spot(verb, k, kind, v, n),
         UNCHANGED <<inst, initialised, active, processing>>
  PROVE  StandsNext(verb, k - 1)'
<1>1. StandsNext(verb, k - 1)
  BY QuietStep
<1> QED BY <1>1 DEF StandsNext, StandsAt, Disarming, Stands, FlagsMeet

LEMMA MoveStep ==
  ASSUME NEW verb, NEW k \in Nat, k >= 1, NEW v, NEW n,
         NEW kind \in {"init", "activate", "deactivate", "start", "stop"},
         StandsAt(verb, k), Spot(verb, k, kind, v, n),
         UNCHANGED <<initialised, active, processing>>,
         inst' = CASE kind \in {"init", "deactivate"} -> "Inactive"
                   [] kind \in {"activate", "stop"} -> "Active"
                   [] kind = "start" -> "Processing"
  PROVE  StandsNext(verb, k - 1)'
<1>1. CASE kind = "init"
  BY <1>1 DEF StandsNext, StandsAt, Disarming, Stands, FlagsMeet, Spot, Initialised
<1>2. CASE kind = "activate"
  BY <1>2 DEF StandsNext, StandsAt, Disarming, Stands, FlagsMeet, Spot, Initialised
<1>3. CASE kind = "deactivate"
  BY <1>3 DEF StandsNext, StandsAt, Disarming, Stands, FlagsMeet, Spot, Initialised
<1>4. CASE kind = "start"
  BY <1>4 DEF StandsNext, StandsAt, Disarming, Stands, FlagsMeet, Spot, Initialised
<1>5. CASE kind = "stop"
  BY <1>5 DEF StandsNext, StandsAt, Disarming, Stands, FlagsMeet, Spot, Initialised
<1> QED BY <1>1, <1>2, <1>3, <1>4, <1>5

LEMMA FlagRises ==
  ASSUME NEW verb, NEW k \in Nat, k >= 1, NEW v, NEW n,
         NEW kind \in {"initialised", "active", "processing"},
         StandsAt(verb, k), Spot(verb, k, kind, v, n), inst' = inst,
         initialised' <=> IF kind = "initialised" THEN v ELSE initialised,
         active' <=> IF kind = "active" THEN v ELSE active,
         processing' <=> IF kind = "processing" THEN v ELSE processing
  PROVE  StandsNext(verb, k - 1)'
<1>1. CASE kind = "initialised"
  BY <1>1 DEF StandsNext, StandsAt, Disarming, Stands, FlagsMeet, Spot, Initialised
<1>2. CASE kind = "active"
  BY <1>2 DEF StandsNext, StandsAt, Disarming, Stands, FlagsMeet, Spot, Initialised
<1>3. CASE kind = "processing"
  BY <1>3 DEF StandsNext, StandsAt, Disarming, Stands, FlagsMeet, Spot, Initialised
<1> QED BY <1>1, <1>2, <1>3

(* A method whose turn it is finds the instance ready for it. *)
LEMMA ReadyAt ==
  ASSUME NEW verb, NEW k \in Nat, k >= 1, NEW kind, NEW v, NEW n \in Sizes,
         StandsAt(verb, k), Spot(verb, k, kind, v, n)
  PROVE  /\ kind = "init" => Ready("init", v)
         /\ kind = "activate" => Ready("activate", v) /\ v = n
         /\ kind = "deactivate" => Ready("deactivate", v)
         /\ kind = "start" => Ready("start", v)
         /\ kind = "stop" => Ready("stop", v)
         /\ kind \in {"ask", "create_editor", "load_state", "consult"} => Ready("consult", v)
<1>1. CASE kind = "init"
  BY <1>1 DEF StandsAt, Disarming, Stands, FlagsMeet, Spot, Initialised, Ready
<1>2. CASE kind = "activate"
  BY <1>2 DEF StandsAt, Disarming, Stands, FlagsMeet, Spot, Initialised, Ready, Sizes
<1>3. CASE kind = "deactivate"
  BY <1>3 DEF StandsAt, Disarming, Stands, FlagsMeet, Spot, Initialised, Ready
<1>4. CASE kind = "start"
  BY <1>4 DEF StandsAt, Disarming, Stands, FlagsMeet, Spot, Initialised, Ready
<1>5. CASE kind = "stop"
  BY <1>5 DEF StandsAt, Disarming, Stands, FlagsMeet, Spot, Initialised, Ready
<1>6. CASE kind \in {"ask", "create_editor", "load_state", "consult"}
  BY <1>6 DEF StandsAt, Disarming, Stands, FlagsMeet, Spot, Initialised, Ready
<1> QED BY <1>1, <1>2, <1>3, <1>4, <1>5, <1>6

LEMMA BlockVerb ==
  ASSUME NEW e \in Blocks
  PROVE  Verb(e) = "process"
<1>1. e = <<"process", e[2], e[3]>>
  BY BlockShape
<1>2. e[1] = "process"
  BY <1>1
<1> QED BY <1>2, VerbSelf

LEMMA EntryVerb ==
  ASSUME NEW e \in Entries
  PROVE  Verb(e) # "process"
<1>1. Shape(e)
  BY EntryShape
<1>2. CASE \/ e = <<"initialize", 0>> \/ e = <<"terminate", 0>> \/ e = <<"consult", 0>>
           \/ e[1] = "setup_processing" \/ e[1] = "set_state"
  <2>1. e[1] \in {"initialize", "terminate", "consult", "setup_processing", "set_state"}
    BY <1>2
  <2> QED BY <2>1, VerbSelf
<1>3. CASE e = <<"set_active", TRUE>>
  BY <1>3, VerbArm
<1>4. CASE e = <<"set_active", FALSE>>
  BY <1>4, VerbDisarm
<1>5. CASE e = <<"set_processing", TRUE>>
  BY <1>5, VerbRun
<1>6. CASE e = <<"set_processing", FALSE>>
  BY <1>6, VerbHalt
<1> QED BY <1>1, <1>2, <1>3, <1>4, <1>5, <1>6 DEF Shape

FlagTypes ==
  /\ setup \in Sizes /\ initialised \in BOOLEAN /\ active \in BOOLEAN
  /\ processing \in BOOLEAN /\ poison \in BOOLEAN
  /\ inst \in Initialised \cup {"Created", "Absent", "Dropping", "Destroyed"}

(* In a call the instance is there, and the step stands where it should. *)
LEMMA InCallFlags ==
  ASSUME FlagInv, InCall
  PROVE  /\ inst \in Initialised \cup {"Created"} /\ inst \in Live
         /\ script = <<>> => poison \/ StandsNext(Verb(doing), 0)
         /\ script # <<>> =>
              StandsAt(Verb(doing), Len(script)) /\ (poison => Verb(doing) = "process")
<1>1. inst \in Initialised \cup {"Created"} /\ inst \in Live
  BY DEF FlagInv, InCall, Outcomes, Live
<1> QED BY <1>1 DEF FlagInv, StandsNext

LEMMA GoesOnFlags ==
  ASSUME CallInv, FlagInv, InCall, script # <<>>, FlagTypes',
         inst' \in Initialised \cup {"Created"},
         at' = "between", doing' = doing, script' = Tail(script), poison' = poison,
         NEW verb, verb = Verb(doing), NEW k, k = Len(script), StandsNext(verb, k - 1)'
  PROVE  FlagInv'
<1>1. Verb(doing') = verb /\ Len(script') = k - 1 /\ k \in Nat /\ k >= 1 /\ script' \in Seq(Steps)
  BY StepIs
<1>2. script' = <<>> <=> k - 1 = 0
  BY <1>1, EmptySeq, LenProperties
<1>3. inst' \in Live /\ poison' => verb = "process"
  BY InCallFlags
<1>4. script' # <<>> => StandsAt(verb, k - 1)'
  BY <1>1, <1>2 DEF StandsNext
<1>5. script' = <<>> => FlagsMeet' /\ (verb = "initialize" => initialised')
  BY <1>1, <1>2 DEF StandsNext
<1>6. script' # <<>> => StandsAt(Verb(doing), Len(script))'
  BY <1>1, <1>4
<1> QED BY <1>1, <1>3, <1>5, <1>6 DEF FlagInv, FlagTypes, InCall, Live, Initialised, Outcomes

(* A call that ends here: healthy with its flags in place, or not. *)
LEMMA EndsFlags ==
  ASSUME FlagInv, InCall, FlagTypes', inst' \in Initialised \cup {"Created"}, at' = "between",
         doing' = doing, script' = <<>>, poison' \/ StandsNext(Verb(doing), 0)'
  PROVE  FlagInv'
<1>1. inst' \in Live
  BY DEF Live
<1> QED BY <1>1 DEF FlagInv, FlagTypes, InCall, Live, Initialised, Outcomes, StandsNext

(* A step that leaves the flags, the state and the call alone. *)
LEMMA AsideFlags ==
  ASSUME FlagInv, UNCHANGED <<inst, initialised, active, processing, setup, callVars>>,
         \/ poison' = poison
         \/ poison' = TRUE /\ inst \in Live /\ (at = "idle" \/ doing[1] = "process")
  PROVE  FlagInv'
<1>1. UNCHANGED <<at, doing, script>>
  BY DEF callVars
<1>2. doing[1] = "process" => Verb(doing) = "process"
  BY VerbSelf
<1>3. FlagsMeet' = FlagsMeet /\ InCall' = InCall
  BY <1>1 DEF FlagsMeet, InCall
<1>4. StandsAt(Verb(doing), Len(script))' = StandsAt(Verb(doing), Len(script))
  BY <1>1 DEF StandsAt, Disarming, Stands, FlagsMeet
<1>5. Stands("Absent", {})' = Stands("Absent", {})
  BY DEF Stands
<1>6. CASE poison' = poison
  BY <1>1, <1>3, <1>4, <1>5, <1>6 DEF FlagInv
<1>7. CASE poison' = TRUE /\ inst \in Live /\ (at = "idle" \/ doing[1] = "process")
  <2>1. inst' \in Initialised \cup {"Created"} /\ inst' # "Absent" /\ inst' \in Live
    BY <1>7 DEF FlagInv, Live, Initialised
  <2>2. InCall => Verb(doing) = "process"
    BY <1>2, <1>7 DEF InCall, Outcomes
  <2> QED BY <1>1, <1>2, <1>3, <1>4, <1>7, <2>1, <2>2 DEF FlagInv
<1> QED BY <1>6, <1>7

LEMMA InitFlags == Init => FlagInv
BY Vst3Assumption DEF Init, InstanceInit, FlagInv, Sizes, Stands, InCall, Outcomes, Live,
   Initialised

LEMMA CreateFlags ==
  ASSUME CallInv, FlagInv, Create
  PROVE  FlagInv'
<1>1. /\ inst = "Absent" /\ inst' = "Created" /\ poison' = poison
      /\ UNCHANGED <<setup, initialised, active, processing, at, doing, script>>
  BY DEF Create, Construct, dspVars, callVars
<1>2. at = "idle" /\ Stands("Absent", {}) /\ FlagTypes
  BY <1>1 DEF FlagInv, FlagTypes
<1> QED
  BY <1>1, <1>2 DEF FlagInv, FlagTypes, InCall, Outcomes, Stands, FlagsMeet, Live, Initialised

LEMMA EntryFlags ==
  ASSUME CallInv, FlagInv, NEW e \in Entries, Call(e)
  PROVE  FlagInv'
<1>1. /\ inst \in Live /\ at = "idle" /\ ~poison /\ Body(e) # <<>>
      /\ at' = "between" /\ doing' = e /\ script' = Body(e)
      /\ UNCHANGED <<setup, initialised, active, processing, inst, poison>>
  BY DEF Call, Enters, instanceVars, stateVars, dspVars
<1>2. FlagsMeet /\ FlagTypes /\ inst \in Initialised \cup {"Created"}
  BY <1>1 DEF FlagInv, FlagTypes, Live, Initialised
<1>3. StandsAt(Verb(e), Len(Body(e)))
  BY <1>1, <1>2, BodyShape
<1> HIDE DEF Call
<1>4. StandsAt(Verb(doing), Len(script))'
  <2>1. PICK vb, k : vb = Verb(e) /\ k = Len(Body(e))
    OBVIOUS
  <2>2. StandsAt(vb, k)
    BY <1>3, <2>1
  <2>3. Verb(doing)' = vb /\ Len(script)' = k
    BY <1>1, <2>1
  <2> QED BY <1>1, <2>2, <2>3 DEF StandsAt, Disarming, Stands, FlagsMeet
<1> QED BY <1>1, <1>2, <1>4 DEF FlagInv, FlagTypes, InCall, Outcomes, Live, Initialised

LEMMA BlockFlags ==
  ASSUME CallInv, FlagInv, NEW e \in Blocks, CallProcess(e)
  PROVE  FlagInv'
<1>1. /\ inst \in Live /\ at = "idle" /\ ~poison /\ Body(e) # <<>> /\ setup \in Nat
      /\ at' = "between" /\ doing' = e /\ script' = Body(e)
      /\ UNCHANGED <<setup, initialised, active, processing, inst, poison>>
  BY DEF CallProcess, Enters, instanceVars, stateVars, dspVars, FlagInv, Sizes
<1>2. FlagsMeet /\ FlagTypes /\ processing /\ Verb(e) = "process"
  BY <1>1, BlockBody, BlockVerb DEF FlagInv, FlagTypes
<1> HIDE DEF CallProcess
<1>3. Stands("Processing", {"initialised", "active", "processing"})'
  BY <1>1, <1>2 DEF Stands, FlagsMeet, Initialised
<1>4. StandsAt(Verb(doing), Len(script))'
  <2>1. Verb(doing)' = "process"
    BY <1>1, <1>2
  <2> QED BY <1>3, <2>1 DEF StandsAt
<1> QED BY <1>1, <1>2, <1>4 DEF FlagInv, FlagTypes, InCall, Outcomes, Live, Initialised

(* In a block the state and the flags stay where they are. *)
LEMMA InBlockFlags ==
  ASSUME CallInv, FlagInv, InCall, doing \in Blocks, script # <<>>,
         UNCHANGED <<inst, initialised, active, processing, setup, poison, doing>>,
         at' \in {"between"} \cup Outcomes
  PROVE  FlagInv'
<1>1. Verb(doing) = "process" /\ Verb(doing)' = "process" /\ InCall'
  BY BlockVerb DEF InCall
<1>2. Stands("Processing", {"initialised", "active", "processing"}) /\ inst \in Live
  BY <1>1, InCallFlags DEF StandsAt
<1>3. Stands("Processing", {"initialised", "active", "processing"})'
  BY <1>2 DEF Stands
<1>4. StandsAt(Verb(doing), Len(script))'
  BY <1>1, <1>3 DEF StandsAt
<1>5. FlagsMeet'
  BY <1>3 DEF Stands, FlagsMeet, Initialised
<1> QED BY <1>1, <1>2, <1>4, <1>5 DEF FlagInv, InCall, Outcomes, Live, Initialised

(* Of one of the plug-in's methods only process finds the instance not ready. *)
LEMMA RefusesBlocks ==
  ASSUME CallInv, FlagInv, InCall, IsMethod, ~Ready(Method, Step[2])
  PROVE  doing \in Blocks /\ Step[1] = "process"
<1>1. script # <<>> /\ Method \in Methods
  BY DEF IsMethod
<1>2. doing \in Entries => FALSE
  <2> SUFFICES ASSUME doing \in Entries PROVE FALSE
    OBVIOUS
  <2> DEFINE k == Len(script)  verb == Verb(doing)  kind == Step[1]  v == Step[2]
  <2>1. /\ Spot(verb, k, kind, v, setup) /\ k \in Nat /\ k >= 1
        /\ StandsAt(verb, k) /\ setup \in Sizes
    BY <1>1, StepIs, InCallFlags, EntryOrBlock DEF FlagInv
  <2>2. /\ Method = IF kind \in {"ask", "create_editor", "load_state"} THEN "consult" ELSE kind
        /\ ~Ready(Method, v) /\ Method \in Methods
    BY <1>1 DEF Method
  <2> HIDE DEF k, verb, kind, v
  <2>3. kind \in Kinds
    BY <2>1 DEF Spot
  <2>4. kind \in {"init", "activate", "deactivate", "start", "stop", "ask", "create_editor",
                  "load_state", "consult"}
    BY <2>2, <2>3 DEF Kinds, Methods
  <2> QED BY <2>1, <2>2, <2>4, ReadyAt
<1>3. doing \in Blocks /\ BlockAt
  BY <1>1, <1>2, StepIs
<1>4. Step[1] = "process"
  BY <1>1, <1>3 DEF BlockAt, Step, Method, Methods
<1> QED BY <1>3, <1>4

LEMMA RefuseFlags ==
  ASSUME CallInv, FlagInv, RefuseMethod
  PROVE  FlagInv'
<1>1. /\ InCall /\ IsMethod /\ ~Ready(Method, Step[2]) /\ script # <<>> /\ at' = "between"
      /\ UNCHANGED <<inst, initialised, active, processing, setup, poison, doing>>
      /\ After(FALSE)
  BY DEF RefuseMethod, InCall, IsMethod, instanceVars, stateVars, dspVars
<1>2. doing \in Blocks /\ Step[1] = "process"
  BY <1>1, RefusesBlocks
<1> QED BY <1>1, <1>2, InBlockFlags

LEMMA EnterFlags ==
  ASSUME CallInv, FlagInv, EnterMethod
  PROVE  FlagInv'
<1>1. /\ at = "between" /\ script # <<>> /\ at' \in Outcomes
      /\ UNCHANGED <<inst, initialised, active, processing, setup, poison, doing, script>>
  BY DEF EnterMethod, Enter, IsMethod, stateVars, dspVars
<1>2. InCall /\ InCall'
  BY <1>1 DEF InCall
<1>3. FlagTypes /\ inst \in Live /\ inst \in Initialised \cup {"Created"}
      /\ StandsAt(Verb(doing), Len(script)) /\ (poison => Verb(doing) = "process")
  BY <1>1, <1>2, InCallFlags DEF FlagInv, FlagTypes
<1>4. StandsAt(Verb(doing), Len(script))'
  BY <1>1, <1>3 DEF StandsAt, Disarming, Stands, FlagsMeet
<1> HIDE DEF EnterMethod
<1> QED BY <1>1, <1>2, <1>3, <1>4 DEF FlagInv, FlagTypes, Live, Initialised, Outcomes

LEMMA ReturnFlags ==
  ASSUME CallInv, FlagInv, ReturnMethod
  PROVE  FlagInv'
<1>1. /\ InCall /\ script # <<>> /\ Method \in Methods /\ at = "ok"
      /\ at' = "between" /\ UNCHANGED <<initialised, active, processing, setup, poison, doing>>
      /\ Return(Method, Step[2])
      /\ Step[1] # "process" => script' = Tail(script)
  BY DEF ReturnMethod, CallInv, InCall, Outcomes, IsMethod, dspVars
<1>2. CASE doing \in Blocks
  <2>1. script = <<<<"process", doing[2]>>>>
    BY <1>1, <1>2, EntryOrBlock DEF CallInv, Collects, Tells, Outcomes
  <2>2. Method = "process"
    BY <2>1 DEF Method, Step
  <2>3. inst' = inst
    BY <1>1, <2>2 DEF Return
  <2> QED BY <1>1, <1>2, <2>3, InBlockFlags
<1>3. CASE doing \in Entries
  <2> DEFINE k == Len(script)  verb == Verb(doing)  kind == Step[1]  v == Step[2]
  <2>1. /\ Spot(verb, k, kind, v, setup) /\ k \in Nat /\ k >= 1 /\ StandsAt(verb, k)
        /\ inst \in Initialised \cup {"Created"} /\ FlagTypes
    BY <1>1, <1>3, StepIs, InCallFlags, EntryOrBlock DEF FlagInv, FlagTypes
  <2>2. Method = IF kind \in {"ask", "create_editor", "load_state"} THEN "consult" ELSE kind
    BY DEF Method
  <2>3. PICK vb, kk, kd, vv, n : vb = verb /\ kk = k /\ kd = kind /\ vv = v /\ n = setup
    OBVIOUS
  <2>4. Spot(vb, kk, kd, vv, n) /\ kk \in Nat /\ kk >= 1 /\ StandsAt(vb, kk)
    BY <2>1, <2>3
  <2>5. kd \in {"init", "activate", "deactivate", "start", "stop", "ask", "create_editor",
                "load_state", "consult"}
    <3>1. kd \in Kinds
      BY <2>4 DEF Spot
    <3>2. kd \in {"ask", "create_editor", "load_state"} \/ kd \in Methods
      BY <1>1, <2>2, <2>3
    <3> HIDE DEF kind
    <3> QED BY <3>1, <3>2 DEF Kinds, Methods
  <2>6. CASE kd \in {"ask", "create_editor", "load_state", "consult"}
    <3>1. inst' = inst
      BY <1>1, <2>2, <2>3, <2>6 DEF Return
    <3>2. StandsNext(vb, kk - 1)'
      BY <1>1, <2>4, <2>6, <3>1, QuietStepPrimed DEF Quiet
    <3>3. FlagTypes'
      BY <1>1, <2>1, <3>1 DEF FlagTypes
    <3>4. script' = Tail(script)
      BY <1>1, <2>3, <2>6
    <3> QED BY <1>1, <2>1, <2>3, <3>1, <3>2, <3>3, <3>4, GoesOnFlags
  <2>7. CASE kd \in {"init", "activate", "deactivate", "start", "stop"}
    <3>1. inst' = CASE kd \in {"init", "deactivate"} -> "Inactive"
                    [] kd \in {"activate", "stop"} -> "Active"
                    [] kd = "start" -> "Processing"
      BY <1>1, <2>2, <2>3, <2>7 DEF Return
    <3>2. StandsNext(vb, kk - 1)'
      BY <1>1, <2>4, <2>7, <3>1, MoveStep
    <3>3. inst' \in Initialised
      BY <2>7, <3>1 DEF Initialised
    <3>4. FlagTypes'
      BY <1>1, <2>1, <3>3 DEF FlagTypes
    <3>5. script' = Tail(script)
      BY <1>1, <2>3, <2>7
    <3> QED BY <1>1, <2>1, <2>3, <3>2, <3>3, <3>4, <3>5, GoesOnFlags
  <2> QED BY <2>5, <2>6, <2>7
<1> QED BY <1>1, <1>2, <1>3 DEF CallInv

(* An error ends the call with the flags in place, except where the body goes on. *)
LEMMA ErrorFlags ==
  ASSUME CallInv, FlagInv, ReturnError
  PROVE  FlagInv'
<1>1. /\ InCall /\ script # <<>> /\ at = "error" /\ Method \in Methods
      /\ "error" \in Possible(Method)
      /\ at' = "between"
      /\ UNCHANGED <<initialised, active, processing, setup, poison, doing, inst>>
      /\ After(FALSE)
  BY DEF ReturnError, CallInv, InCall, Outcomes, IsMethod, dspVars, instanceVars, stateVars
<1>2. Method \in {"activate", "start", "consult"}
  BY <1>1 DEF Possible
<1>3. doing \in Entries
  <2>1. doing \in Blocks => script = <<<<"process", doing[2]>>>>
    BY <1>1, EntryOrBlock DEF CallInv, Collects, Tells, Outcomes
  <2>2. doing \in Blocks => Method = "process"
    BY <2>1 DEF Method, Step
  <2> QED BY <1>1, <1>2, <2>2 DEF CallInv
<1> DEFINE k == Len(script)  verb == Verb(doing)  kind == Step[1]  v == Step[2]
<1>4. /\ Spot(verb, k, kind, v, setup) /\ k \in Nat /\ k >= 1 /\ StandsAt(verb, k)
      /\ inst \in Initialised \cup {"Created"} /\ FlagTypes
  BY <1>1, <1>3, StepIs, InCallFlags, EntryOrBlock DEF FlagInv, FlagTypes
<1>5. PICK vb, kk, kd, vv, n : vb = verb /\ kk = k /\ kd = kind /\ vv = v /\ n = setup
  OBVIOUS
<1>6. Spot(vb, kk, kd, vv, n) /\ kk \in Nat /\ kk >= 1 /\ StandsAt(vb, kk)
  BY <1>4, <1>5
<1>7. kd \in {"activate", "start", "consult", "ask", "create_editor", "load_state"}
  BY <1>2, <1>5 DEF Method
<1>8. FlagTypes'
  BY <1>1, <1>4 DEF FlagTypes
<1>9. CASE kd \in {"ask", "create_editor"}
  <2>1. StandsNext(vb, kk - 1)'
    BY <1>1, <1>6, <1>9, QuietStepPrimed DEF Quiet
  <2>2. script' = Tail(script)
    BY <1>1, <1>5, <1>9 DEF After, GoesOn
  <2> QED BY <1>1, <1>4, <1>5, <1>8, <2>1, <2>2, GoesOnFlags
<1>10. CASE kd \notin {"ask", "create_editor"}
  <2>1. StandsNext(vb, 0)
    BY <1>6, <1>7, <1>10 DEF StandsNext, StandsAt, Stands, FlagsMeet, Initialised, Spot
  <2>2. StandsNext(vb, 0)'
    BY <1>1, <2>1 DEF StandsNext, StandsAt, Disarming, Stands, FlagsMeet
  <2>3. script' = <<>>
    BY <1>1, <1>5, <1>7, <1>10 DEF After, GoesOn
  <2>4. StandsNext(Verb(doing), 0)'
    BY <1>1, <1>5, <2>2
  <2> QED BY <1>1, <1>4, <1>8, <2>3, <2>4, EndsFlags
<1> QED BY <1>9, <1>10

LEMMA PanicFlags ==
  ASSUME CallInv, FlagInv, CatchPanic
  PROVE  FlagInv'
<1>1. /\ InCall /\ at' = "between" /\ poison' = TRUE /\ script' = <<>>
      /\ UNCHANGED <<initialised, active, processing, setup, doing, inst>>
  BY DEF CatchPanic, InCall, Outcomes, dspVars, instanceVars, stateVars
<1>2. FlagTypes' /\ inst' \in Initialised \cup {"Created"}
  BY <1>1, InCallFlags DEF FlagInv, FlagTypes
<1> QED BY <1>1, <1>2, EndsFlags

(* What a flag is set to is a flag. *)
LEMMA FlagSteps ==
  ASSUME NEW s \in Seq(Steps), s # <<>>, s[1][1] \in FlagKinds
  PROVE  s[1][2] \in BOOLEAN
<1>1. s[1] \in Steps
  BY EmptySeq, LenProperties, ElementOfSeq
<1>2. s[1] \notin OtherKinds \X Nat /\ s[1] \notin ParamKinds \X Ids
  BY DEF OtherKinds, ParamKinds, FlagKinds
<1>3. s[1] \in FlagKinds \X BOOLEAN
  BY <1>1, <1>2 DEF Steps
<1> QED BY <1>3

LEMMA SetFlagFlags ==
  ASSUME CallInv, FlagInv, SetFlag
  PROVE  FlagInv'
<1>1. /\ InCall /\ script # <<>> /\ at' = "between" /\ script' = Tail(script)
      /\ UNCHANGED <<setup, poison, doing, inst>>
      /\ Step[1] \in {"initialised", "active", "processing"}
  BY DEF SetFlag, Doing, After, InCall, instanceVars, stateVars
<1>2. /\ initialised' = IF Step[1] = "initialised" THEN Step[2] ELSE initialised
      /\ active' = IF Step[1] = "active" THEN Step[2] ELSE active
      /\ processing' = IF Step[1] = "processing" THEN Step[2] ELSE processing
  BY DEF SetFlag, Doing
<1>3. doing \in Entries
  <2>1. doing \in Blocks => Step[1] \in {"swap", "read", "lane", "process", "emit"}
    BY <1>1, StepIs, EntryOrBlock DEF BlockAt, Step
  <2> QED BY <1>1, <2>1 DEF CallInv
<1> DEFINE k == Len(script)  verb == Verb(doing)  kind == Step[1]  v == Step[2]
<1>4. /\ Spot(verb, k, kind, v, setup) /\ k \in Nat /\ k >= 1 /\ StandsAt(verb, k)
      /\ inst \in Initialised \cup {"Created"} /\ FlagTypes
  BY <1>1, <1>3, StepIs, InCallFlags, EntryOrBlock DEF FlagInv, FlagTypes
<1>5. PICK vb, kk, kd, vv, n : vb = verb /\ kk = k /\ kd = kind /\ vv = v /\ n = setup
  OBVIOUS
<1>6. /\ Spot(vb, kk, kd, vv, n) /\ kk \in Nat /\ kk >= 1 /\ StandsAt(vb, kk)
      /\ kd \in {"initialised", "active", "processing"}
  BY <1>1, <1>4, <1>5
<1>7. /\ initialised' = IF kd = "initialised" THEN vv ELSE initialised
      /\ active' = IF kd = "active" THEN vv ELSE active
      /\ processing' = IF kd = "processing" THEN vv ELSE processing
  BY <1>2, <1>5
<1>8. StandsNext(vb, kk - 1)'
  <2>1. /\ initialised' <=> IF kd = "initialised" THEN vv ELSE initialised
        /\ active' <=> IF kd = "active" THEN vv ELSE active
        /\ processing' <=> IF kd = "processing" THEN vv ELSE processing
    BY <1>7
  <2> QED BY <1>1, <1>6, <2>1, FlagRises
<1>9. FlagTypes'
  <2>1. v \in BOOLEAN
    <3>1. script \in Seq(Steps) /\ Step[1] \in FlagKinds
      BY <1>1 DEF CallInv, FlagKinds
    <3> QED BY <1>1, <3>1, FlagSteps DEF Step
  <2> QED BY <1>1, <1>4, <1>5, <1>7, <2>1 DEF FlagTypes
<1> QED BY <1>1, <1>4, <1>5, <1>8, <1>9, GoesOnFlags

(* The steps that concern neither the flags nor the state. *)
LEMMA QuietFlags ==
  ASSUME CallInv, FlagInv, DropEditor \/ Refresh \/ Apply \/ ApplyParams \/ Setup
  PROVE  FlagInv'
<1>1. /\ InCall /\ script # <<>> /\ at' = "between" /\ script' = Tail(script)
      /\ UNCHANGED <<initialised, active, processing, poison, doing, inst>>
      /\ Step[1] \in {"drop_editor", "build", "refresh", "apply", "apply_params", "setup"}
      /\ setup' = IF Step[1] = "setup" THEN Step[2] ELSE setup
  <2>1. CASE DropEditor \/ Refresh
    BY <2>1 DEF DropEditor, Refresh, Doing, After, InCall, instanceVars, stateVars, dspVars
  <2>2. CASE Apply \/ ApplyParams
    BY <2>2 DEF Apply, ApplyParams, Doing, After, InCall, instanceVars, stateVars, dspVars
  <2>3. CASE Setup
    BY <2>3 DEF Setup, Doing, After, InCall, instanceVars, stateVars, dspVars
  <2> QED BY <2>1, <2>2, <2>3
<1>2. doing \in Entries
  <2>1. doing \in Blocks => Step[1] \in {"swap", "read", "lane", "process", "emit"}
    BY <1>1, StepIs, EntryOrBlock DEF BlockAt, Step
  <2> QED BY <1>1, <2>1 DEF CallInv
<1> DEFINE k == Len(script)  verb == Verb(doing)  kind == Step[1]  v == Step[2]
<1>3. /\ Spot(verb, k, kind, v, setup) /\ k \in Nat /\ k >= 1 /\ StandsAt(verb, k)
      /\ inst \in Initialised \cup {"Created"} /\ FlagTypes
  BY <1>1, <1>2, StepIs, InCallFlags, EntryOrBlock DEF FlagInv, FlagTypes
<1>4. PICK vb, kk, kd, vv, n : vb = verb /\ kk = k /\ kd = kind /\ vv = v /\ n = setup
  OBVIOUS
<1>5. /\ Spot(vb, kk, kd, vv, n) /\ kk \in Nat /\ kk >= 1 /\ StandsAt(vb, kk)
      /\ kd \in Quiet
  BY <1>1, <1>3, <1>4 DEF Quiet
<1>6. StandsNext(vb, kk - 1)'
  BY <1>1, <1>5, QuietStepPrimed
<1>7. FlagTypes'
  <2>1. kd = "setup" => vv \in Sizes
    BY <1>5 DEF Spot
  <2> QED BY <1>1, <1>3, <1>4, <2>1 DEF FlagTypes
<1> QED BY <1>1, <1>3, <1>4, <1>6, <1>7, GoesOnFlags

LEMMA BlockStepFlags ==
  ASSUME CallInv, FlagInv,
         SwapPending \/ ReadMirror \/ DrainLane \/ Emit \/ EmitNothing
  PROVE  FlagInv'
<1>1. /\ InCall /\ script # <<>> /\ at' = "between"
      /\ UNCHANGED <<initialised, active, processing, setup, poison, doing, inst>>
      /\ Step[1] \in {"swap", "read", "lane", "emit"}
  BY DEF SwapPending, ReadMirror, DrainLane, Emit, EmitNothing, Doing, InCall, instanceVars,
     stateVars, dspVars
<1>2. doing \in Blocks
  BY <1>1, StepIs DEF Spot, Kinds
<1> QED BY <1>1, <1>2, InBlockFlags

LEMMA EndFlags ==
  ASSUME FlagInv, End
  PROVE  FlagInv'
<1>1. /\ InCall /\ script = <<>> /\ at' = "idle"
      /\ UNCHANGED <<initialised, active, processing, setup, poison, inst>>
  BY DEF End, InCall, dspVars, instanceVars, stateVars
<1>2. FlagTypes /\ inst \in Live /\ inst \in Initialised \cup {"Created"} /\ (poison \/ FlagsMeet)
  BY <1>1, InCallFlags DEF FlagInv, FlagTypes, StandsNext
<1> QED BY <1>1, <1>2 DEF FlagInv, FlagTypes, InCall, Outcomes, FlagsMeet, Live, Initialised

(* The last reference takes the instance along, and no call is under way then. *)
LEMMA DismissFlags ==
  ASSUME FlagInv, RefInv, Release \/ ReleaseView
  PROVE  FlagInv'
<1>1. /\ UNCHANGED <<initialised, active, processing, setup, poison, doing, script>>
      /\ inst \in Live /\ refs \in Nat /\ (refs = 1 => at = "idle") /\ refs >= 1
  BY Vst3Assumption DEF Release, ReleaseView, UiFree, RefInv, dspVars
<1>2. CASE inst' = inst /\ at' = at
  BY <1>1, <1>2, AsideFlags DEF callVars
<1>3. CASE inst' = inst /\ at' = "aborted"
  <2>1. inst \in Initialised \cup {"Created"} /\ FlagTypes
    BY <1>1 DEF FlagInv, FlagTypes, Live, Initialised
  <2> QED BY <1>1, <1>3, <2>1 DEF FlagInv, FlagTypes, InCall, Outcomes, Live, Initialised
<1>4. CASE inst' = "Dropping" /\ at' \in {at, "aborted"} /\ refs = 1
  <2>1. FlagTypes
    BY DEF FlagInv, FlagTypes
  <2> QED BY <1>1, <1>4, <2>1 DEF FlagInv, FlagTypes, InCall, Outcomes, Live, Initialised
<1>5. Dismiss => \/ inst' = inst /\ at' = at
                 \/ inst' = "Dropping" /\ at' \in {at, "aborted"} /\ refs = 1
  BY <1>1 DEF Dismiss, DropInstance, instanceVars, stateVars
<1>6. \/ Dismiss
      \/ inst' = inst /\ at' = "aborted"
  BY DEF Release, ReleaseView, instanceVars, stateVars
<1> QED BY <1>2, <1>3, <1>4, <1>5, <1>6

LEMMA NextFlags ==
  ASSUME CallInv, FlagInv, RefInv, [Next]_vars
  PROVE  FlagInv'
<1>1. CASE CallStep
  <2>1. CASE RefuseMethod \/ EnterMethod \/ ReturnMethod \/ ReturnError \/ CatchPanic
    BY <2>1, RefuseFlags, EnterFlags, ReturnFlags, ErrorFlags, PanicFlags
  <2>2. CASE SetFlag \/ DropEditor \/ Refresh \/ Apply \/ ApplyParams \/ Setup
    BY <2>2, SetFlagFlags, QuietFlags
  <2>3. CASE SwapPending \/ ReadMirror \/ DrainLane \/ Emit \/ EmitNothing \/ End
    BY <2>3, BlockStepFlags, EndFlags
  <2> QED BY <1>1, <2>1, <2>2, <2>3 DEF CallStep
<1>2. CASE Create
  BY <1>2, CreateFlags
<1>3. CASE (\E e \in Entries : Call(e)) \/ (\E e \in Blocks : CallProcess(e))
  BY <1>3, EntryFlags, BlockFlags
<1>4. CASE \/ SetMirror \/ RaisePending \/ SetComponentState \/ EditorMoves \/ EditorReports
  <2>1. /\ UNCHANGED <<inst, initialised, active, processing, setup, callVars>>
        /\ poison' = poison
    BY <1>4 DEF SetMirror, RaisePending, SetComponentState, EditorMoves, EditorReports,
       instanceVars, stateVars, dspVars
  <2> QED BY <2>1, AsideFlags
<1>5. CASE CreateView \/ Attached \/ Removed \/ Query \/ UNCHANGED vars
  <2>1. /\ UNCHANGED <<inst, initialised, active, processing, setup, callVars>>
        /\ \/ poison' = poison
           \/ poison' = TRUE /\ inst \in Live /\ (at = "idle" \/ doing[1] = "process")
    BY <1>5 DEF CreateView, Attached, Removed, Query, vars, Controller, UiFree, instanceVars,
       stateVars, dspVars
  <2> QED BY <2>1, AsideFlags
<1>6. CASE Release \/ ReleaseView
  BY <1>6, DismissFlags
<1>7. CASE DropBox
  <2>1. /\ inst = "Dropping" /\ inst' = "Destroyed" /\ at' = at
        /\ UNCHANGED <<initialised, active, processing, setup, poison>>
    BY <1>7 DEF DropBox, DropAuthor, dspVars, callVars
  <2>2. FlagTypes /\ at \in {"idle", "aborted"}
    BY <2>1 DEF FlagInv, FlagTypes, Live, Initialised
  <2> QED BY <2>1, <2>2 DEF FlagInv, FlagTypes, InCall, Outcomes, Live, Initialised
<1> QED BY <1>1, <1>2, <1>3, <1>4, <1>5, <1>6, <1>7 DEF Next

-----------------------------------------------------------------------------
(* The references. *)
LEMMA InitRefs == Init => RefInv
BY Vst3Assumption DEF Init, InstanceInit, RefInv, Live, Initialised

LEMMA NextRefs ==
  ASSUME CallInv, FlagInv, RefInv, [Next]_vars
  PROVE  RefInv'
<1>1. /\ view \in {"none", "made", "attached"} /\ held \in 0 .. MaxHeld /\ MaxHeld \in Nat
      /\ refs = held + (IF view = "none" THEN 0 ELSE 1) /\ (inst \in Live <=> refs > 0)
      /\ MaxHeld >= 1
  BY Vst3Assumption DEF RefInv
<1>2. CASE Create
  BY <1>1, <1>2 DEF Create, Construct, RefInv, viewVars, Live, Initialised
<1>3. CASE CallStep \/ UNCHANGED vars
  <2>1. UNCHANGED <<refs, held, view>> /\ (inst \in Live <=> inst' \in Live)
    <3>1. CASE ReturnMethod
      <4>1. inst \in Live /\ inst \in Initialised \cup {"Created"} /\ Return(Method, Step[2])
        BY <3>1, InCallFlags DEF ReturnMethod, InCall, Outcomes
      <4>2. inst' \in Live
        BY <4>1 DEF Return, Live, Initialised
      <4> QED BY <3>1, <4>1, <4>2 DEF ReturnMethod, refVars
    <3>2. CASE RefuseMethod \/ EnterMethod \/ ReturnError \/ CatchPanic \/ SetFlag \/ Setup
      BY <3>2 DEF RefuseMethod, EnterMethod, Enter, ReturnError, CatchPanic, SetFlag, Setup,
         instanceVars, stateVars, refVars, viewVars
    <3>3. CASE DropEditor \/ Refresh \/ Apply \/ ApplyParams
      BY <3>3 DEF DropEditor, Refresh, Apply, ApplyParams, instanceVars, stateVars, refVars,
         viewVars
    <3>4. CASE \/ SwapPending \/ ReadMirror \/ DrainLane \/ Emit \/ EmitNothing \/ End
               \/ UNCHANGED vars
      BY <3>4 DEF SwapPending, ReadMirror, DrainLane, Emit, EmitNothing, End, instanceVars,
         stateVars, refVars, viewVars, vars
    <3> QED BY <1>3, <3>1, <3>2, <3>3, <3>4 DEF CallStep
  <2> QED BY <1>1, <2>1 DEF RefInv
<1>4. CASE (\E e \in Entries : Call(e)) \/ (\E e \in Blocks : CallProcess(e))
  <2>1. UNCHANGED <<refs, held, view, inst>>
    BY <1>4 DEF Call, CallProcess, instanceVars, stateVars, refVars, viewVars
  <2> QED BY <1>1, <2>1 DEF RefInv
<1>5. CASE SetMirror \/ RaisePending \/ SetComponentState \/ EditorMoves \/ EditorReports
  <2>1. UNCHANGED <<refs, held, view, inst>>
    BY <1>5 DEF SetMirror, RaisePending, SetComponentState, EditorMoves, EditorReports,
       instanceVars, stateVars, refVars, viewVars
  <2> QED BY <1>1, <2>1 DEF RefInv
<1>6. CASE CreateView \/ Attached \/ Removed \/ Query
  BY <1>1, <1>6 DEF CreateView, Attached, Removed, Query, RefInv, Controller, UiFree,
     instanceVars, stateVars, refVars, viewVars
<1>7. CASE Release \/ ReleaseView
  BY <1>1, <1>7 DEF Release, ReleaseView, UiFree, Dismiss, DropInstance, RefInv,
     instanceVars, stateVars, viewVars, Live, Initialised
<1>8. CASE DropBox
  BY <1>1, <1>8 DEF DropBox, DropAuthor, RefInv, refVars, Live, Initialised
<1> QED BY <1>2, <1>3, <1>4, <1>5, <1>6, <1>7, <1>8 DEF Next

(* Calls, flags and references together are inductive. *)
LEMMA InvInductive == Spec => []Inv
<1>1. Init => Inv
  BY InitCall, InitFlags, InitRefs DEF Inv
<1>2. Inv /\ [Next]_vars => Inv'
  BY NextCall, NextFlags, NextRefs DEF Inv
<1> QED BY <1>1, <1>2, PTL DEF Spec

-----------------------------------------------------------------------------
(* The instance and the author's code. *)
Steady ==
  /\ inst = "Absent" => dsp = "absent"
  /\ inst \in {"Created", "Inactive", "Active"} => dsp = "stopped"
  /\ inst = "Processing" => dsp = "running"
  /\ inst = "Dropping" => dsp \in {"stopped", "broken"}
  /\ inst \in {"Active", "Processing"} => config \in Sizes /\ sized = config

Entered(m, n) ==
  /\ Ready(m, n)
  /\ dsp = IF m = "start" \/ (inst = "Processing" /\ m # "stop") THEN "running" ELSE "stopped"
  /\ m = "activate" => sized = n
  /\ inst \in {"Active", "Processing"} => config \in Sizes /\ sized = config

(* Outside a method the two sides agree, except in an object that a panic has poisoned. *)
LifeInv ==
  /\ \/ at \in {"ok", "panic", "aborted"}
     \/ Steady
     \/ poison /\ script = <<>> /\ dsp = "broken" /\ inst \in Live
  /\ at = "ok" => Entered(Method, Step[2])
  /\ at = "panic" => dsp = "broken"

LEMMA MethodArg ==
  ASSUME CallInv, FlagInv, InCall, IsMethod
  PROVE  /\ Method = "activate" => Step[2] \in Sizes
         /\ Method = "process" => Step[2] \in Frames
         /\ Method \notin {"activate", "process"} => Step[2] = 0
<1>1. script # <<>> /\ Method \in Methods
  BY DEF IsMethod
<1>2. CASE doing \in Entries /\ Spot(Verb(doing), Len(script), Step[1], Step[2], setup)
  <2>1. setup \in Sizes
    BY DEF FlagInv
  <2> QED BY <1>1, <1>2, <2>1 DEF Spot, Kinds, Method, Methods
<1>3. CASE doing \in Blocks /\ BlockAt
  <2>1. Step = <<"process", doing[2]>>
    BY <1>1, <1>3 DEF BlockAt, Step, Method, Methods
  <2>2. doing[2] \in Frames
    BY <1>3, BlockShape
  <2> QED BY <2>1, <2>2 DEF Method
<1> QED BY <1>1, <1>2, <1>3, StepIs

LEMMA AsideLife ==
  ASSUME LifeInv, UNCHANGED instanceVars, UNCHANGED <<at, script>>,
         poison' = poison \/ poison' = TRUE
  PROVE  LifeInv'
<1>1. UNCHANGED <<inst, config, dsp, sized>>
  BY DEF instanceVars, stateVars, authorVars
<1>2. Steady => Steady'
  BY <1>1 DEF Steady
<1>3. Method' = Method /\ Step[2]' = Step[2]
  BY DEF Method, Step
<1>4. at = "ok" => Entered(Method, Step[2])'
  BY <1>1, <1>3 DEF LifeInv, Entered, Ready
<1> QED BY <1>1, <1>2, <1>4 DEF LifeInv

(* A step of a healthy call that leaves the instance alone. *)
LEMMA StepLife ==
  ASSUME LifeInv, UNCHANGED instanceVars, at \in {"idle", "between", "error"},
         script # <<>> \/ ~poison, at' = "between"
  PROVE  LifeInv'
<1>1. UNCHANGED <<inst, config, dsp, sized>> /\ Steady
  BY DEF instanceVars, stateVars, authorVars, LifeInv
<1> QED BY <1>1 DEF LifeInv, Steady

LEMMA EnterLife ==
  ASSUME CallInv, FlagInv, LifeInv, EnterMethod
  PROVE  LifeInv'
<1> DEFINE m == Method  n == Step[2]
<1>1. PICK o \in Outcomes : Enter(m, n, o) /\ at' = o
  BY DEF EnterMethod
<1>2. /\ at = "between" /\ IsMethod /\ script # <<>> /\ InCall /\ m \in Methods
      /\ UNCHANGED <<inst, config, script>>
  BY <1>1 DEF EnterMethod, Enter, stateVars, IsMethod, InCall
<1>3. Steady /\ Method' = m /\ Step[2]' = n /\ Ready(m, n) /\ o \in Possible(m)
  BY <1>1, <1>2 DEF LifeInv, Method, Step, Enter
<1> HIDE DEF EnterMethod
<1>4. CASE o = "ok"
  <2>1. /\ dsp' = IF m = "start" THEN "running" ELSE IF m = "stop" THEN "stopped" ELSE dsp
        /\ sized' = IF m = "activate" THEN n ELSE sized
    BY <1>1, <1>4 DEF Enter
  <2> HIDE DEF m, n
  <2>2. Entered(m, n)'
    <3>1. PICK mm, nn : mm = m /\ nn = n
      OBVIOUS
    <3>2. Entered(mm, nn)'
      BY <1>2, <1>3, <2>1, <3>1 DEF Entered, Ready, Steady, Methods, Initialised
    <3>3. m' = m /\ n' = n
      BY <1>3 DEF m, n
    <3> QED BY <3>1, <3>2, <3>3
  <2> QED BY <1>1, <1>4, <2>2 DEF LifeInv, m, n
<1>5. CASE o = "error"
  <2>1. m \in {"activate", "start", "consult"}
    BY <1>3, <1>5 DEF Possible
  <2>2. dsp' = dsp /\ sized' = IF m = "activate" THEN 0 ELSE sized
    BY <1>1, <1>5 DEF Enter
  <2>3. Steady'
    BY <1>2, <1>3, <2>1, <2>2 DEF Steady, Ready
  <2> QED BY <1>1, <1>5, <2>3 DEF LifeInv
<1>6. CASE o = "panic"
  <2>1. dsp' = "broken"
    BY <1>1, <1>6 DEF Enter
  <2> QED BY <1>1, <1>6, <2>1 DEF LifeInv
<1> QED BY <1>4, <1>5, <1>6 DEF Outcomes

LEMMA ReturnLife ==
  ASSUME CallInv, FlagInv, LifeInv, ReturnMethod
  PROVE  LifeInv'
<1> DEFINE m == Method  n == Step[2]
<1>1. at = "ok" /\ at' = "between" /\ Return(m, n) /\ Entered(m, n)
  BY DEF ReturnMethod, LifeInv
<1>2. IsMethod /\ InCall
  BY <1>1 DEF CallInv, InCall, Outcomes
<1>3. m \in Methods /\ (m = "activate" => n \in Sizes)
  BY <1>2, MethodArg DEF IsMethod
<1>4. UNCHANGED <<dsp, sized>>
  BY <1>1 DEF Return, authorVars
<1>5. Steady'
  BY <1>1, <1>3, <1>4 DEF Return, Entered, Ready, Steady, Methods, Initialised
<1> QED BY <1>1, <1>5 DEF LifeInv

LEMMA DismissLife ==
  ASSUME CallInv, FlagInv, RefInv, LifeInv, Release \/ ReleaseView
  PROVE  LifeInv'
<1>1. /\ inst \in Live /\ refs \in Nat /\ (refs = 1 => at = "idle") /\ refs >= 1
      /\ UNCHANGED <<script, poison>>
  BY Vst3Assumption DEF Release, ReleaseView, UiFree, RefInv
<1>2. \/ Dismiss
      \/ UNCHANGED instanceVars /\ at' = "aborted"
  BY DEF Release, ReleaseView
<1>3. CASE UNCHANGED instanceVars /\ at' = "aborted"
  BY <1>3 DEF LifeInv
<1>4. CASE Dismiss /\ refs > 1
  <2>1. UNCHANGED instanceVars /\ at' = at
    BY <1>4 DEF Dismiss
  <2> QED BY <1>1, <2>1, AsideLife
<1>5. CASE Dismiss /\ refs = 1
  <2>1. /\ at = "idle" /\ DropInstance /\ inst' = "Dropping" /\ at' \in {"idle", "aborted"}
        /\ at' # "aborted" => ~(inst = "Processing" /\ dsp' = "broken")
    BY <1>1, <1>5 DEF Dismiss, DropInstance
  <2>2. dsp' \in {"stopped", "broken"}
    <3>1. Steady \/ dsp = "broken"
      BY <2>1 DEF LifeInv
    <3>2. inst \in {"Created", "Inactive", "Active", "Processing"}
      BY <1>1 DEF FlagInv, Live, Initialised
    <3>3. \/ inst = "Processing" /\ dsp' \in {"stopped", "broken"}
          \/ inst # "Processing" /\ dsp' = dsp
      BY <2>1 DEF DropInstance
    <3> QED BY <3>1, <3>2, <3>3 DEF Steady
  <2>3. Steady'
    BY <2>1, <2>2 DEF Steady
  <2> QED BY <2>1, <2>3 DEF LifeInv
<1> QED BY <1>1, <1>2, <1>3, <1>4, <1>5

LEMMA InitLife == Init => LifeInv
BY DEF Init, InstanceInit, LifeInv, Steady

LEMMA NextLife ==
  ASSUME CallInv, FlagInv, RefInv, LifeInv, [Next]_vars
  PROVE  LifeInv'
<1>1. CASE Create
  <2>1. /\ inst = "Absent" /\ inst' = "Created" /\ dsp' = "stopped" /\ at' = at
    BY <1>1 DEF Create, Construct, callVars
  <2>2. at = "idle" /\ Steady'
    BY <2>1 DEF FlagInv, Steady
  <2> QED BY <2>1, <2>2 DEF LifeInv
<1>2. CASE EnterMethod \/ ReturnMethod
  BY <1>2, EnterLife, ReturnLife
<1>3. CASE CatchPanic
  <2>1. /\ at = "panic" /\ at' = "between" /\ poison' = TRUE /\ script' = <<>>
        /\ inst' = inst /\ dsp' = dsp
    BY <1>3 DEF CatchPanic, instanceVars, stateVars, authorVars
  <2>2. inst \in Live
    BY <2>1, InCallFlags DEF InCall, Outcomes
  <2>3. inst' \in Live /\ dsp' = "broken"
    BY <2>1, <2>2 DEF LifeInv
  <2> QED BY <2>1, <2>3 DEF LifeInv
<1>4. CASE RefuseMethod \/ ReturnError \/ SetFlag \/ Setup \/ DropEditor \/ Refresh \/ Apply
  <2>1. /\ UNCHANGED instanceVars /\ at \in {"between", "error"} /\ at' = "between"
        /\ script # <<>>
    BY <1>4 DEF RefuseMethod, ReturnError, SetFlag, Setup, DropEditor, Refresh, Apply, Doing,
       IsMethod, CallInv, Outcomes
  <2> QED BY <2>1, StepLife
<1>5. CASE ApplyParams \/ SwapPending \/ ReadMirror \/ DrainLane \/ Emit \/ EmitNothing
  <2>1. UNCHANGED instanceVars /\ at = "between" /\ at' = "between" /\ script # <<>>
    BY <1>5 DEF ApplyParams, SwapPending, ReadMirror, DrainLane, Emit, EmitNothing, Doing
  <2> QED BY <2>1, StepLife
<1>6. CASE End
  <2>1. /\ UNCHANGED <<inst, config, dsp, sized, poison, script>>
        /\ at = "between" /\ at' = "idle"
    BY <1>6 DEF End, instanceVars, stateVars, authorVars
  <2> QED BY <2>1 DEF LifeInv, Steady
<1>7. CASE (\E e \in Entries : Call(e)) \/ (\E e \in Blocks : CallProcess(e))
  <2>1. UNCHANGED instanceVars /\ at = "idle" /\ at' = "between" /\ ~poison
    BY <1>7 DEF Call, CallProcess, Enters
  <2> QED BY <2>1, StepLife
<1>8. CASE SetMirror \/ RaisePending \/ SetComponentState \/ EditorMoves \/ EditorReports
  <2>1. UNCHANGED instanceVars /\ UNCHANGED <<at, script>> /\ poison' = poison
    BY <1>8 DEF SetMirror, RaisePending, SetComponentState, EditorMoves, EditorReports, callVars
  <2> QED BY <2>1, AsideLife
<1>9. CASE CreateView \/ Attached \/ Removed \/ Query
  <2>1. /\ UNCHANGED instanceVars /\ UNCHANGED <<at, script>>
        /\ poison' = poison \/ poison' = TRUE
    BY <1>9 DEF CreateView, Attached, Removed, Query, callVars
  <2> QED BY <2>1, AsideLife
<1>10. CASE Release \/ ReleaseView
  BY <1>10, DismissLife
<1>11. CASE DropBox
  <2>1. inst' = "Destroyed" /\ at' = at /\ inst = "Dropping"
    BY <1>11 DEF DropBox, DropAuthor, callVars
  <2>2. at \in {"idle", "aborted"} /\ Steady'
    BY <2>1 DEF FlagInv, Live, Initialised, Steady
  <2> QED BY <2>1, <2>2 DEF LifeInv
<1>12. CASE UNCHANGED vars
  <2>1. UNCHANGED instanceVars /\ UNCHANGED <<at, script>> /\ poison' = poison
    BY <1>12 DEF vars, callVars
  <2> QED BY <2>1, AsideLife
<1> QED
  BY <1>1, <1>2, <1>3, <1>4, <1>5, <1>6, <1>7, <1>8, <1>9, <1>10, <1>11, <1>12
  DEF Next, CallStep

-----------------------------------------------------------------------------
(* A method entered in a state that agrees is one the contract allows. *)
LEMMA EnterAllowed ==
  ASSUME Steady, NEW m \in Methods, NEW n, NEW o \in Outcomes, Enter(m, n, o),
         m = "activate" => n \in Sizes,
         m = "process" => n \in Frames,
         m \notin {"activate", "process"} => n = 0
  PROVE  [Contract!Next]_authorVars
<1>1. Ready(m, n) /\ o \in Possible(m)
  BY DEF Enter
<1>2. /\ dsp' = IF o = "panic" THEN "broken"
                ELSE IF o = "ok" /\ m = "start" THEN "running"
                ELSE IF o = "ok" /\ m = "stop" THEN "stopped" ELSE dsp
      /\ m # "activate" => sized' = sized
      /\ m = "activate" => sized' \in {n, 0}
      /\ call' = IF m \in DOMAIN Author THEN <<Author[m], n>> ELSE call
  BY DEF Enter, Outcomes
<1>3. /\ m = "consult" => dsp \in {"stopped", "running"}
      /\ m \in {"activate", "start", "reset"} => dsp = "stopped"
      /\ m \in {"stop", "process"} => dsp = "running"
      /\ m \in {"start", "reset", "process"} => sized = config /\ config \in Sizes
  BY <1>1 DEF Ready, Steady, Initialised
<1>4. CASE m \in {"init", "deactivate"}
  <2>1. o = "ok" /\ m \notin DOMAIN Author
    BY <1>1, <1>4 DEF Possible, Author
  <2> QED BY <1>2, <1>4, <2>1 DEF authorVars
<1>5. CASE m = "consult"
  <2>1. Contract!Consult
    BY <1>2, <1>3, <1>5 DEF Contract!Consult, Author
  <2> QED BY <2>1 DEF Contract!Next
<1>6. CASE m = "activate"
  <2>1. Contract!Prepare(n)
    BY <1>2, <1>3, <1>6 DEF Contract!Prepare, Author
  <2> QED BY <1>6, <2>1 DEF Contract!Next
<1>7. CASE m = "start"
  <2>1. Contract!Activate
    BY <1>2, <1>3, <1>7, MaxSizeAssumption DEF Contract!Activate, Author, Sizes
  <2> QED BY <2>1 DEF Contract!Next
<1>8. CASE m = "stop"
  <2>1. Contract!Deactivate
    BY <1>1, <1>2, <1>3, <1>8 DEF Contract!Deactivate, Author, Possible
  <2> QED BY <2>1 DEF Contract!Next
<1>9. CASE m = "reset"
  <2>1. Contract!Reset
    BY <1>2, <1>3, <1>9, MaxSizeAssumption DEF Contract!Reset, Author, Sizes
  <2> QED BY <2>1 DEF Contract!Next
<1>10. CASE m = "process"
  <2>1. n <= sized /\ n \in Sizes \cup {0}
    BY <1>1, <1>3, <1>10, MaxSizeAssumption DEF Ready, Sizes, Frames
  <2>2. Contract!Process(n)
    BY <1>2, <1>3, <1>10, <2>1 DEF Contract!Process, Author
  <2> QED BY <2>1, <2>2 DEF Contract!Next
<1> QED BY <1>4, <1>5, <1>6, <1>7, <1>8, <1>9, <1>10 DEF Methods

KeepsContract ==
  [Contract!Next]_authorVars \/ (poison /\ inst' \in {"Dropping", "Destroyed"})

(* The missing stop of a drop is one the contract asks for, unless the code has panicked. *)
LEMMA DropAllowed ==
  ASSUME CallInv, FlagInv, RefInv, LifeInv, Release \/ ReleaseView
  PROVE  KeepsContract
<1>1. /\ inst \in Live /\ refs \in Nat /\ (refs = 1 => at = "idle") /\ refs >= 1
  BY Vst3Assumption DEF Release, ReleaseView, UiFree, RefInv
<1>2. \/ Dismiss
      \/ UNCHANGED instanceVars
  BY DEF Release, ReleaseView
<1>3. CASE UNCHANGED instanceVars
  BY <1>3 DEF KeepsContract, instanceVars
<1>4. CASE Dismiss /\ refs > 1
  BY <1>4 DEF Dismiss, KeepsContract, instanceVars
<1>5. CASE Dismiss /\ refs = 1
  <2>1. at = "idle" /\ DropInstance /\ inst' = "Dropping"
    BY <1>1, <1>5 DEF Dismiss, DropInstance
  <2>2. CASE poison
    BY <2>1, <2>2 DEF KeepsContract
  <2>3. CASE ~poison /\ inst = "Processing"
    <3>1. dsp = "running"
      BY <2>1, <2>3 DEF LifeInv, Steady
    <3>2. Contract!Deactivate
      BY <2>1, <2>3, <3>1 DEF DropInstance, Contract!Deactivate
    <3> QED BY <3>2 DEF Contract!Next, KeepsContract
  <2>4. CASE inst # "Processing"
    BY <2>1, <2>4 DEF DropInstance, authorVars, KeepsContract
  <2> QED BY <2>2, <2>3, <2>4
<1> QED BY <1>1, <1>2, <1>3, <1>4, <1>5

LEMMA NextContract ==
  ASSUME CallInv, FlagInv, RefInv, LifeInv, [Next]_vars
  PROVE  KeepsContract
<1>1. CASE Create
  <2>1. Construct /\ dsp = "absent"
    <3>1. Construct /\ inst = "Absent" /\ at = "idle" /\ ~poison
      BY <1>1 DEF Create, Construct, FlagInv
    <3> QED BY <3>1 DEF LifeInv, Steady
  <2>2. Contract!Construct
    BY <2>1 DEF Construct, Contract!Construct
  <2> QED BY <2>2 DEF Contract!Next, KeepsContract
<1>2. CASE EnterMethod
  <2>1. PICK o \in Outcomes : Enter(Method, Step[2], o)
    BY <1>2 DEF EnterMethod
  <2>2. IsMethod /\ InCall /\ Steady /\ Method \in Methods
    BY <1>2 DEF EnterMethod, InCall, LifeInv, IsMethod
  <2>3. /\ Method = "activate" => Step[2] \in Sizes
        /\ Method = "process" => Step[2] \in Frames
        /\ Method \notin {"activate", "process"} => Step[2] = 0
    BY <2>2, MethodArg
  <2> QED BY <2>1, <2>2, <2>3, EnterAllowed DEF KeepsContract
<1>3. CASE ReturnMethod
  BY <1>3 DEF ReturnMethod, Return, KeepsContract
<1>4. CASE RefuseMethod \/ ReturnError \/ CatchPanic \/ SetFlag \/ Setup \/ DropEditor \/ Refresh
  BY <1>4 DEF RefuseMethod, ReturnError, CatchPanic, SetFlag, Setup, DropEditor, Refresh,
     instanceVars, KeepsContract
<1>5. CASE \/ Apply \/ ApplyParams \/ SwapPending \/ ReadMirror \/ DrainLane \/ Emit
           \/ EmitNothing \/ End
  BY <1>5 DEF Apply, ApplyParams, SwapPending, ReadMirror, DrainLane, Emit, EmitNothing, End,
     instanceVars, KeepsContract
<1>6. CASE (\E e \in Entries : Call(e)) \/ (\E e \in Blocks : CallProcess(e)) \/ UNCHANGED vars
  BY <1>6 DEF Call, CallProcess, vars, instanceVars, KeepsContract
<1>7. CASE SetMirror \/ RaisePending \/ SetComponentState \/ EditorMoves \/ EditorReports
  BY <1>7 DEF SetMirror, RaisePending, SetComponentState, EditorMoves, EditorReports,
     instanceVars, KeepsContract
<1>8. CASE CreateView \/ Attached \/ Removed \/ Query
  BY <1>8 DEF CreateView, Attached, Removed, Query, instanceVars, KeepsContract
<1>9. CASE Release \/ ReleaseView
  BY <1>9, DropAllowed
<1>10. CASE DropBox
  <2>1. DropAuthor /\ inst = "Dropping" /\ at # "aborted"
    BY <1>10 DEF DropBox, DropAuthor
  <2>2. dsp \in {"stopped", "broken"}
    <3>1. at = "idle" /\ inst \notin Live
      BY <2>1 DEF FlagInv, Live, Initialised
    <3>2. Steady
      BY <3>1 DEF LifeInv
    <3> QED BY <2>1, <3>2 DEF Steady
  <2>3. Contract!Drop
    BY <2>1, <2>2 DEF DropAuthor, Contract!Drop
  <2> QED BY <2>3 DEF Contract!Next, KeepsContract
<1> QED
  BY <1>1, <1>2, <1>3, <1>4, <1>5, <1>6, <1>7, <1>8, <1>9, <1>10 DEF Next, CallStep

LEMMA LifeInductive == Spec => [](Inv /\ LifeInv)
<1>1. Inv /\ LifeInv /\ [Next]_vars => LifeInv'
  BY NextLife DEF Inv
<1> QED BY <1>1, InitLife, InvInductive, PTL DEF Spec

(* Whatever the host calls and releases in any order, and wherever the author's code fails
   or panics: the code behind a VST3 object is entered only as the contract allows, up to the
   drop of an object that a panic has poisoned. *)
THEOREM HostKeepsContract == Spec => ContractKept
<1>1. Inv /\ LifeInv /\ [Next]_vars
        => [[Contract!Next]_authorVars \/ (poison /\ inst' \in {"Dropping", "Destroyed"})]_vars
  BY NextContract DEF Inv, KeepsContract
<1> QED BY <1>1, LifeInductive, PTL DEF Spec, ContractKept

-----------------------------------------------------------------------------
(* The types of the instance's and the author's variables. *)
LEMMA InitInstance == Init => InstanceTypeOK
<1>1. <<"none", 0>> \in Calls
  BY MaxSizeAssumption DEF Calls, Frames
<1> QED BY <1>1 DEF Init, InstanceInit, InstanceTypeOK

LEMMA CallTypes ==
  ASSUME NEW n \in Frames
  PROVE  /\ <<"construct", 0>> \in Calls /\ <<"drop", 0>> \in Calls
         /\ <<"deactivate", 0>> \in Calls
         /\ \A m \in DOMAIN Author : <<Author[m], n>> \in Calls
<1>1. 0 \in Frames
  BY MaxSizeAssumption DEF Frames
<1>2. "stop" \in DOMAIN Author /\ Author["stop"] = "deactivate"
  BY DEF Author
<1>3. "deactivate" \in {Author[m] : m \in DOMAIN Author}
  BY <1>2
<1> HIDE DEF Author
<1> QED BY <1>1, <1>3 DEF Calls

LEMMA EnterTypes ==
  ASSUME InstanceTypeOK, NEW m \in Methods, NEW n, NEW o \in Outcomes, Enter(m, n, o),
         m = "activate" => n \in Sizes,
         m = "process" => n \in Frames,
         m \notin {"activate", "process"} => n = 0
  PROVE  InstanceTypeOK'
<1>1. n \in Frames
  BY MaxSizeAssumption DEF Frames, Sizes
<1>2. call' \in Calls
  BY <1>1, CallTypes DEF Enter, InstanceTypeOK
<1>3. dsp' \in {"absent", "stopped", "running", "broken", "dropped"}
  BY DEF Enter, InstanceTypeOK
<1>4. sized' \in Sizes \cup {0}
  BY DEF Enter, InstanceTypeOK
<1>5. UNCHANGED <<inst, config>>
  BY DEF Enter, stateVars
<1> QED BY <1>2, <1>3, <1>4, <1>5 DEF InstanceTypeOK

LEMMA NextInstance ==
  ASSUME CallInv, FlagInv, RefInv, InstanceTypeOK, [Next]_vars
  PROVE  InstanceTypeOK'
<1>1. 0 \in Frames
  BY MaxSizeAssumption DEF Frames
<1>2. CASE Create
  BY <1>1, <1>2, CallTypes DEF Create, Construct, InstanceTypeOK, Live
<1>3. CASE EnterMethod
  <2>1. PICK o \in Outcomes : Enter(Method, Step[2], o)
    BY <1>3 DEF EnterMethod
  <2>2. IsMethod /\ InCall /\ Method \in Methods
    BY <1>3 DEF EnterMethod, InCall, IsMethod
  <2>3. /\ Method = "activate" => Step[2] \in Sizes
        /\ Method = "process" => Step[2] \in Frames
        /\ Method \notin {"activate", "process"} => Step[2] = 0
    BY <2>2, MethodArg
  <2> QED BY <2>1, <2>2, <2>3, EnterTypes
<1>4. CASE ReturnMethod
  <2>1. IsMethod /\ InCall /\ Return(Method, Step[2])
    BY <1>4 DEF ReturnMethod, CallInv, InCall, Outcomes
  <2>2. Method = "activate" => Step[2] \in Sizes
    BY <2>1, MethodArg
  <2>3. inst' \in Live \cup {"Absent", "Dropping", "Destroyed"}
    BY <2>1 DEF Return, Live, Initialised, InstanceTypeOK
  <2>4. config' \in Sizes \cup {0}
    BY <2>1, <2>2 DEF Return, InstanceTypeOK
  <2> QED BY <2>1, <2>3, <2>4 DEF Return, authorVars, InstanceTypeOK
<1>5. CASE RefuseMethod \/ ReturnError \/ CatchPanic \/ SetFlag \/ Setup \/ DropEditor \/ Refresh
  <2>1. UNCHANGED instanceVars
    BY <1>5 DEF RefuseMethod, ReturnError, CatchPanic, SetFlag, Setup, DropEditor, Refresh
  <2> QED BY <2>1 DEF instanceVars, stateVars, authorVars, InstanceTypeOK
<1>6. CASE \/ Apply \/ ApplyParams \/ SwapPending \/ ReadMirror \/ DrainLane \/ Emit
           \/ EmitNothing \/ End
  <2>1. UNCHANGED instanceVars
    BY <1>6 DEF Apply, ApplyParams, SwapPending, ReadMirror, DrainLane, Emit, EmitNothing, End
  <2> QED BY <2>1 DEF instanceVars, stateVars, authorVars, InstanceTypeOK
<1>7. CASE (\E e \in Entries : Call(e)) \/ (\E e \in Blocks : CallProcess(e)) \/ UNCHANGED vars
  <2>1. UNCHANGED instanceVars
    BY <1>7 DEF Call, CallProcess, vars
  <2> QED BY <2>1 DEF instanceVars, stateVars, authorVars, InstanceTypeOK
<1>8. CASE SetMirror \/ RaisePending \/ SetComponentState \/ EditorMoves \/ EditorReports
  <2>1. UNCHANGED instanceVars
    BY <1>8 DEF SetMirror, RaisePending, SetComponentState, EditorMoves, EditorReports
  <2> QED BY <2>1 DEF instanceVars, stateVars, authorVars, InstanceTypeOK
<1>9. CASE CreateView \/ Attached \/ Removed \/ Query
  <2>1. UNCHANGED instanceVars
    BY <1>9 DEF CreateView, Attached, Removed, Query
  <2> QED BY <2>1 DEF instanceVars, stateVars, authorVars, InstanceTypeOK
<1>10. CASE Release \/ ReleaseView
  <2>1. UNCHANGED instanceVars \/ DropInstance
    BY <1>10 DEF Release, ReleaseView, Dismiss
  <2>2. CASE UNCHANGED instanceVars
    BY <2>2 DEF instanceVars, stateVars, authorVars, InstanceTypeOK
  <2>3. CASE DropInstance
    <3>1. call' \in Calls
      BY <1>1, <2>3, CallTypes DEF DropInstance, InstanceTypeOK
    <3> QED BY <2>3, <3>1 DEF DropInstance, InstanceTypeOK
  <2> QED BY <2>1, <2>2, <2>3
<1>11. CASE DropBox
  BY <1>1, <1>11, CallTypes DEF DropBox, DropAuthor, InstanceTypeOK
<1> QED
  BY <1>2, <1>3, <1>4, <1>5, <1>6, <1>7, <1>8, <1>9, <1>10, <1>11 DEF Next, CallStep

-----------------------------------------------------------------------------
(* The parameters, the events, the editor and its view. *)
Built == mirror \in [Ids -> Values]

DataTypes ==
  /\ doing \in Entries \cup Blocks \cup {Nothing}
  /\ mirror \in [Ids -> Values] \cup {<<>>} /\ params \in [Ids -> Values] /\ torn \subseteq Ids
  /\ pending \in BOOLEAN /\ viewPoison \in BOOLEAN
  /\ events \in Seq(Ids \X Values) /\ Len(events) <= EventCapacity
  /\ echo \in State
  /\ ui \in {UiIdle, <<"set">>} \cup ({"moved"} \X Ids \X Values)
  /\ editor \in {"none", "made", "opened", "closed", "broken"}

(* Nothing asks for a value of the mirror before it is built: neither the calls that need
   an initialised object, nor an editor. *)
BuiltInv ==
  /\ initialised \/ editor # "none" \/ ui[1] = "moved" => Built
  /\ InCall /\ Verb(doing) = "initialize" /\ Len(script) \in 1 .. 4 => Built
  /\ at # "aborted" /\ ~initialised /\ ~poison /\ editor # "none" =>
       InCall /\ Verb(doing) = "initialize" /\ Len(script) \in 1 .. 2

LEMMA AppliedType ==
  ASSUME params \in [Ids -> Values], events \in Seq(Ids \X Values)
  PROVE  Applied \in [Ids -> Values]
<1>1. ASSUME NEW p \in Ids, EventsOf(p) # {} PROVE events[Max(EventsOf(p))][2] \in Values
  <2>1. Len(events) \in Nat /\ EventsOf(p) \in SUBSET (1 .. Len(events))
    BY DEF EventsOf
  <2>2. Max(EventsOf(p)) \in EventsOf(p)
    BY <1>1, <2>1, LastOf
  <2>3. events[Max(EventsOf(p))] \in Ids \X Values
    BY <2>1, <2>2, ElementOfSeq
  <2> QED BY <2>3
<1>2. \A p \in Ids :
        (IF EventsOf(p) = {} THEN params[p] ELSE events[Max(EventsOf(p))][2]) \in Values
  BY <1>1
<1> DEFINE f ==
      [p \in Ids |-> IF EventsOf(p) = {} THEN params[p] ELSE events[Max(EventsOf(p))][2]]
<1>3. Applied = f
  BY DEF Applied
<1>4. f \in [Ids -> Values]
  BY <1>2
<1> QED BY <1>3, <1>4

LEMMA AsideData ==
  ASSUME DataTypes,
         UNCHANGED <<doing, mirror, params, torn, pending, viewPoison, events, echo, ui, editor>>
  PROVE  DataTypes'
BY DEF DataTypes

(* In a block, and in a call that asks for the values, the mirror is built. *)
LEMMA BuiltInBlock ==
  ASSUME CallInv, FlagInv, BuiltInv, InCall, script # <<>>, doing \in Blocks
  PROVE  Built
<1>1. initialised
  <2>1. Verb(doing) = "process" /\ StandsAt(Verb(doing), Len(script))
    BY InCallFlags, BlockVerb
  <2>2. Stands("Processing", {"initialised", "active", "processing"})
    BY <2>1 DEF StandsAt
  <2> QED BY <2>2 DEF Stands
<1> QED BY <1>1 DEF BuiltInv

LEMMA BuiltForApply ==
  ASSUME CallInv, FlagInv, BuiltInv, InCall, script # <<>>, Step[1] \in {"apply", "apply_params"}
  PROVE  Built /\ doing \in Entries /\ Verb(doing) \in {"arm", "set_state"}
<1>1. doing \in Entries
  <2>1. doing \in Blocks => Step[1] \in {"swap", "read", "lane", "process", "emit"}
    BY StepIs, EntryOrBlock DEF BlockAt, Step
  <2> QED BY <2>1 DEF CallInv
<1>2. /\ Spot(Verb(doing), Len(script), Step[1], Step[2], setup)
      /\ StandsAt(Verb(doing), Len(script)) /\ Len(script) \in Nat
  BY <1>1, StepIs, InCallFlags, EntryOrBlock
<1>3. \/ Verb(doing) = "arm" /\ Len(script) = 2
      \/ Verb(doing) = "set_state"
  BY <1>2 DEF Spot
<1>4. CASE Verb(doing) = "arm" /\ Len(script) = 2
  <2>1. Stands("Active", {"initialised", "active"})
    BY <1>2, <1>4 DEF StandsAt
  <2>2. initialised
    BY <2>1 DEF Stands
  <2> QED BY <1>1, <1>4, <2>2 DEF BuiltInv
<1>5. CASE Verb(doing) = "set_state"
  <2>1. initialised
    BY <1>2, <1>5 DEF StandsAt
  <2> QED BY <1>1, <1>5, <2>1 DEF BuiltInv
<1> QED BY <1>3, <1>4, <1>5

LEMMA StateDone ==
  ASSUME doing \in Entries, Verb(doing) = "set_state"
  PROVE  doing[2] \in State
<1>1. Shape(doing)
  BY EntryShape
<1>2. CASE doing[1] = "set_state" /\ doing[2] \in State
  BY <1>2
<1>3. CASE \/ doing = <<"initialize", 0>> \/ doing = <<"terminate", 0>>
           \/ doing = <<"consult", 0>>
           \/ doing[1] = "setup_processing"
  <2>1. doing[1] \in {"initialize", "terminate", "consult", "setup_processing"}
    BY <1>3
  <2>2. Verb(doing) = doing[1]
    BY <2>1, VerbSelf
  <2> QED BY <2>1, <2>2
<1>4. CASE doing = <<"set_active", TRUE>>
  BY <1>4, VerbArm
<1>5. CASE doing = <<"set_active", FALSE>>
  BY <1>5, VerbDisarm
<1>6. CASE doing = <<"set_processing", TRUE>>
  BY <1>6, VerbRun
<1>7. CASE doing = <<"set_processing", FALSE>>
  BY <1>7, VerbHalt
<1> QED BY <1>1, <1>2, <1>3, <1>4, <1>5, <1>6, <1>7 DEF Shape

LEMMA PushTypes ==
  ASSUME events \in Seq(Ids \X Values), Len(events) <= EventCapacity, torn \subseteq Ids,
         NEW p \in Ids, NEW v \in Values, Push(p, v)
  PROVE  events' \in Seq(Ids \X Values) /\ Len(events') <= EventCapacity /\ torn' \subseteq Ids
<1>1. CASE Len(events) < EventCapacity
  <2>1. events' = Append(events, <<p, v>>) /\ torn' = torn \ {p}
    BY <1>1 DEF Push
  <2>2. <<p, v>> \in Ids \X Values
    OBVIOUS
  <2> DEFINE x == <<p, v>>
  <2> HIDE DEF x
  <2>3. events' = Append(events, x) /\ x \in Ids \X Values
    BY <2>1, <2>2 DEF x
  <2>4. events' \in Seq(Ids \X Values) /\ Len(events') = Len(events) + 1 /\ Len(events) \in Nat
    BY <2>3, AppendProperties, LenProperties
  <2> QED BY <1>1, <2>1, <2>4, Vst3Assumption
<1>2. CASE ~(Len(events) < EventCapacity)
  BY <1>2 DEF Push
<1> QED BY <1>1, <1>2

LEMMA StepTypes ==
  ASSUME CallInv, FlagInv, DataTypes, BuiltInv, CallStep
  PROVE  DataTypes'
<1>1. CASE RefuseMethod \/ ReturnError
  <2>1. /\ UNCHANGED <<doing, mirror, params, pending, viewPoison, events, echo, ui, editor>>
        /\ torn' = torn \/ torn' = torn \cup {events[i][1] : i \in DOMAIN events}
           \/ torn' = torn \cup {p \in Ids : params[p] # mirror[p]}
    BY <1>1 DEF RefuseMethod, ReturnError, blockVars, uiVars, viewVars
  <2>2. {events[i][1] : i \in DOMAIN events} \subseteq Ids
    <3>1. \A i \in DOMAIN events : events[i] \in Ids \X Values
      BY DEF DataTypes
    <3> QED BY <3>1
  <2>3. torn' \subseteq Ids
    BY <2>1, <2>2 DEF DataTypes
  <2> QED BY <2>1, <2>3 DEF DataTypes
<1>2. CASE EnterMethod
  <2>1. /\ UNCHANGED <<doing, mirror, torn, pending, viewPoison, events, echo, ui, editor>>
        /\ \E moved \in Moves \cup {<<>>} :
             params' = Over(moved, Applied) \/ params' = Over(moved, params)
    BY <1>2 DEF EnterMethod, uiVars, viewVars
  <2>2. ASSUME NEW moved \in Moves \cup {<<>>}, NEW f \in [Ids -> Values]
        PROVE  Over(moved, f) \in [Ids -> Values]
    <3>1. moved \in State /\ DOMAIN moved \in SUBSET Ids
      BY MovesAreStates, EmptyState, StateShape
    <3>2. Over(moved, f) \in [DOMAIN moved \cup Ids -> Values]
      BY <3>1, Overlaid
    <3>3. DOMAIN moved \cup Ids = Ids
      BY <3>1
    <3> QED BY <3>2, <3>3
  <2>3. Applied \in [Ids -> Values] /\ params \in [Ids -> Values]
    BY AppliedType DEF DataTypes
  <2>4. params' \in [Ids -> Values]
    BY <2>1, <2>2, <2>3
  <2> QED BY <2>1, <2>4 DEF DataTypes
<1>3. CASE ReturnMethod \/ DropEditor
  <2>1. /\ UNCHANGED <<doing, mirror, params, torn, pending, viewPoison, events, echo, ui>>
        /\ editor' \in {editor, "made", "none"}
    BY <1>3 DEF ReturnMethod, DropEditor, paramVars, blockVars, uiVars
  <2> QED BY <2>1 DEF DataTypes
<1>4. CASE CatchPanic \/ SetFlag \/ Setup
  <2>1. UNCHANGED <<doing, mirror, params, torn, pending, viewPoison, events, echo, ui, editor>>
    BY <1>4 DEF CatchPanic, SetFlag, Setup, paramVars, blockVars, uiVars, viewVars
  <2> QED BY <2>1, AsideData
<1>5. CASE Refresh
  <2>1. /\ UNCHANGED <<doing, params, pending, viewPoison, events, echo, ui, editor>>
        /\ mirror' = params /\ torn' = {}
    BY <1>5 DEF Refresh, blockVars, uiVars, viewVars
  <2> QED BY <2>1 DEF DataTypes
<1>6. CASE Apply
  <2>1. /\ UNCHANGED <<doing, mirror, viewPoison, events, echo, ui, editor>>
        /\ params' = mirror /\ torn' = {} /\ pending' = FALSE
    BY <1>6 DEF Apply, blockVars, uiVars, viewVars
  <2>2. Built
    BY <1>6, BuiltForApply DEF Apply, Doing, InCall
  <2> QED BY <2>1, <2>2 DEF DataTypes, Built
<1>7. CASE ApplyParams
  <2> DEFINE s == doing[2]
  <2>1. /\ UNCHANGED <<doing, pending, viewPoison, events, echo, ui, editor>>
        /\ mirror' = Over(s, mirror) /\ params' = Over(s, params) /\ torn' = torn \ DOMAIN s
    BY <1>7 DEF ApplyParams, blockVars, uiVars, viewVars
  <2>2. Built /\ s \in State
    <3>1. InCall /\ script # <<>> /\ Step[1] = "apply_params"
      BY <1>7 DEF ApplyParams, Doing, InCall
    <3>2. Built /\ doing \in Entries /\ Verb(doing) \in {"arm", "set_state"}
      BY <3>1, BuiltForApply
    <3>3. Spot(Verb(doing), Len(script), Step[1], Step[2], setup)
      BY <3>1, <3>2, StepIs, EntryOrBlock
    <3>4. Verb(doing) = "set_state"
      BY <3>1, <3>3 DEF Spot
    <3> QED BY <3>2, <3>4, StateDone
  <2> HIDE DEF s
  <2>3. mirror \in [Ids -> Values] /\ params \in [Ids -> Values] /\ DOMAIN s \in SUBSET Ids
    BY <2>2, StateShape DEF Built, DataTypes
  <2>4. /\ Over(s, mirror) \in [DOMAIN s \cup Ids -> Values]
        /\ Over(s, params) \in [DOMAIN s \cup Ids -> Values] /\ DOMAIN s \cup Ids = Ids
    BY <2>2, <2>3, Overlaid
  <2>5. mirror' \in [Ids -> Values] /\ params' \in [Ids -> Values]
    BY <2>1, <2>4
  <2> QED BY <2>1, <2>5 DEF DataTypes
<1>8. CASE SwapPending
  <2>1. /\ UNCHANGED <<doing, mirror, params, torn, viewPoison, events, echo, ui, editor>>
        /\ pending' = FALSE
    BY <1>8 DEF SwapPending, blockVars, uiVars, viewVars
  <2> QED BY <2>1 DEF DataTypes
<1>9. CASE ReadMirror \/ DrainLane \/ Emit \/ EmitNothing
  <2>1. /\ at = "between" /\ InCall /\ script # <<>> /\ Step[1] \in {"read", "lane", "emit"}
        /\ UNCHANGED <<doing, params, pending, viewPoison, echo, ui, editor>>
    BY <1>9 DEF ReadMirror, DrainLane, Emit, EmitNothing, Doing, InCall, blockVars, uiVars,
       viewVars
  <2>2. doing \in Blocks /\ BlockAt
    BY <2>1, StepIs DEF Spot, Kinds
  <2>3. Built
    BY <2>1, <2>2, BuiltInBlock
  <2>4. doing[3] \in State /\ sent \in State
    BY <2>2, BlockShape DEF CallInv, State
  <2>5. /\ Step[1] = "read" => Step[2] \in Ids
        /\ Step[1] = "lane" => Step[2] \in DOMAIN doing[3]
        /\ Step[1] = "emit" => Step[2] \in DOMAIN sent
    BY <2>2 DEF BlockAt, Step, Outcomes
  <2>6. CASE ReadMirror
    <3>1. /\ Step[1] = "read" /\ Push(Step[2], mirror[Step[2]]) /\ mirror' = mirror
      BY <2>6 DEF ReadMirror, Doing
    <3>2. Step[2] \in Ids /\ mirror[Step[2]] \in Values
      BY <2>3, <2>5, <3>1 DEF Built
    <3>3. events' \in Seq(Ids \X Values) /\ Len(events') <= EventCapacity /\ torn' \subseteq Ids
      BY <3>1, <3>2, PushTypes DEF DataTypes
    <3> QED BY <2>1, <3>1, <3>3 DEF DataTypes
  <2>7. CASE DrainLane
    <3> DEFINE p == Step[2]  v == doing[3][p]
    <3>1. /\ Step[1] = "lane" /\ Push(p, v) /\ mirror' = [mirror EXCEPT ![p] = v]
      BY <2>7 DEF DrainLane, Doing
    <3>2. p \in Ids /\ v \in Values
      BY <2>4, <2>5, <3>1, StateShape
    <3> HIDE DEF p, v
    <3>3. events' \in Seq(Ids \X Values) /\ Len(events') <= EventCapacity /\ torn' \subseteq Ids
      BY <3>1, <3>2, PushTypes DEF DataTypes
    <3>4. mirror' \in [Ids -> Values]
      BY <2>3, <3>1, <3>2 DEF Built
    <3> QED BY <2>1, <3>3, <3>4 DEF DataTypes
  <2>8. CASE Emit
    <3> DEFINE p == Step[2]
    <3>1. /\ Step[1] = "emit" /\ mirror' = [mirror EXCEPT ![p] = sent[p]] /\ torn' = torn \ {p}
          /\ events' = events
      BY <2>8 DEF Emit, Doing, blockVars
    <3>2. sent[p] \in Values
      BY <2>4, <2>5, <3>1, StateShape
    <3> HIDE DEF p
    <3>3. mirror' \in [Ids -> Values]
      BY <2>3, <3>1, <3>2 DEF Built
    <3> QED BY <2>1, <3>1, <3>3 DEF DataTypes
  <2>9. CASE EmitNothing
    <3>1. /\ torn' = torn \cup {p \in DOMAIN sent : mirror[p] # sent[p]}
          /\ mirror' = mirror /\ events' = events
      BY <2>9 DEF EmitNothing, blockVars
    <3>2. torn' \subseteq Ids
      BY <2>4, <3>1, StateShape DEF DataTypes
    <3> QED BY <2>1, <3>1, <3>2 DEF DataTypes
  <2> QED BY <1>9, <2>6, <2>7, <2>8, <2>9
<1>10. CASE End
  <2>1. /\ UNCHANGED <<mirror, params, torn, pending, viewPoison, echo, ui, editor>>
        /\ doing' = Nothing /\ events' = <<>>
    BY <1>10 DEF End, paramVars, uiVars, viewVars
  <2>2. <<>> \in Seq(Ids \X Values) /\ Len(<<>>) <= EventCapacity
    BY Vst3Assumption
  <2> QED BY <2>1, <2>2 DEF DataTypes
<1> QED
  BY <1>1, <1>2, <1>3, <1>4, <1>5, <1>6, <1>7, <1>8, <1>9, <1>10 DEF CallStep

LEMMA UiTypes ==
  ASSUME DataTypes, BuiltInv, ViewsAreServed,
         SetMirror \/ RaisePending \/ SetComponentState \/ EditorMoves \/ EditorReports
  PROVE  DataTypes'
<1>1. UNCHANGED <<doing, viewPoison, events, editor>>
  BY DEF SetMirror, RaisePending, SetComponentState, EditorMoves, EditorReports, callVars,
     viewVars, blockVars
<1>2. CASE SetMirror
  <2>1. PICK p \in DOMAIN mirror, v \in Values : mirror' = [mirror EXCEPT ![p] = v]
    BY <1>2 DEF SetMirror
  <2>2. mirror \in [Ids -> Values]
    BY <2>1, EmptyState DEF DataTypes
  <2>3. mirror' \in [Ids -> Values]
    BY <2>1, <2>2
  <2>4. ui' = <<"set">> /\ UNCHANGED <<pending, params, torn, echo>>
    BY <1>2 DEF SetMirror
  <2> QED BY <1>1, <2>3, <2>4 DEF DataTypes
<1>3. CASE RaisePending
  <2>1. pending' = TRUE /\ ui' = UiIdle /\ UNCHANGED <<mirror, params, torn, echo>>
    BY <1>3 DEF RaisePending
  <2> QED BY <1>1, <2>1 DEF DataTypes
<1>4. CASE SetComponentState
  <2>1. PICK s \in State : mirror' = Over(s, mirror)
                           /\ torn' = torn \cup {p \in DOMAIN s : mirror[p] # s[p]}
    BY <1>4 DEF SetComponentState
  <2>2. mirror \in [Ids -> Values] /\ DOMAIN s \in SUBSET Ids
    BY <1>4, StateShape DEF SetComponentState, DataTypes
  <2>3. Over(s, mirror) \in [DOMAIN s \cup Ids -> Values] /\ DOMAIN s \cup Ids = Ids
    BY <2>2, Overlaid
  <2>4. mirror' \in [Ids -> Values] /\ torn' \subseteq Ids
    BY <2>1, <2>2, <2>3 DEF DataTypes
  <2>5. UNCHANGED <<pending, params, ui, echo>>
    BY <1>4 DEF SetComponentState, uiVars
  <2> QED BY <1>1, <2>4, <2>5 DEF DataTypes
<1>5. CASE EditorMoves
  <2>1. PICK p \in Ids, v \in Values :
          params' = [params EXCEPT ![p] = v] /\ ui' = <<"moved", p, v>>
    BY <1>5 DEF EditorMoves
  <2>2. params' \in [Ids -> Values]
    BY <2>1 DEF DataTypes
  <2>3. ui' \in {"moved"} \X Ids \X Values
    BY <2>1
  <2>4. UNCHANGED <<mirror, pending, torn, echo>>
    BY <1>5 DEF EditorMoves
  <2> QED BY <1>1, <2>2, <2>3, <2>4 DEF DataTypes
<1>6. CASE EditorReports
  <2>1. /\ ui[1] = "moved" /\ mirror' = [mirror EXCEPT ![ui[2]] = ui[3]]
        /\ echo' = Over(Just(ui[2], ui[3]), echo) /\ ui' = UiIdle
        /\ UNCHANGED <<pending, params, torn>>
    BY <1>6 DEF EditorReports
  <2>2. ui[2] \in Ids /\ ui[3] \in Values
    <3>1. ui \in {"moved"} \X Ids \X Values
      BY <2>1 DEF DataTypes, UiIdle
    <3> QED BY <3>1
  <2>3. mirror \in [Ids -> Values]
    BY <2>1 DEF BuiltInv, Built
  <2>4. mirror' \in [Ids -> Values]
    BY <2>1, <2>2, <2>3
  <2>5. echo' \in State
    <3>1. Just(ui[2], ui[3]) \in State
      BY <2>2, OneState
    <3>2. DOMAIN echo \in SUBSET Ids /\ echo \in [DOMAIN echo -> Values]
      BY StateShape DEF DataTypes
    <3> QED BY <2>1, <3>1, <3>2, Overlaid
  <2> QED BY <1>1, <2>1, <2>4, <2>5 DEF DataTypes
<1> QED BY <1>2, <1>3, <1>4, <1>5, <1>6

LEMMA NextTypes ==
  ASSUME CallInv, FlagInv, DataTypes, BuiltInv, ViewsAreServed, [Next]_vars
  PROVE  DataTypes'
<1>1. CASE Create \/ UNCHANGED vars
  <2>1. UNCHANGED <<doing, mirror, params, torn, pending, viewPoison, events, echo, ui, editor>>
    BY <1>1 DEF Create, vars, callVars, paramVars, blockVars, uiVars, viewVars
  <2> QED BY <2>1, AsideData
<1>2. CASE \E e \in Entries : Call(e)
  <2>1. /\ UNCHANGED <<mirror, params, torn, pending, viewPoison, events, echo, ui, editor>>
        /\ doing' \in Entries
    BY <1>2 DEF Call, Enters, paramVars, blockVars, uiVars, viewVars
  <2> QED BY <2>1 DEF DataTypes
<1>3. CASE \E e \in Blocks : CallProcess(e)
  <2>1. /\ UNCHANGED <<mirror, params, torn, pending, viewPoison, ui, editor>>
        /\ doing' \in Blocks /\ events' = <<>> /\ echo' = <<>>
    BY <1>3 DEF CallProcess, Enters, paramVars, viewVars
  <2>2. <<>> \in Seq(Ids \X Values) /\ Len(<<>>) <= EventCapacity
    BY Vst3Assumption
  <2> QED BY <2>1, <2>2, EmptyState DEF DataTypes
<1>4. CASE CallStep
  BY <1>4, StepTypes
<1>5. CASE SetMirror \/ RaisePending \/ SetComponentState \/ EditorMoves \/ EditorReports
  BY <1>5, UiTypes
<1>6. CASE CreateView \/ Attached \/ Removed \/ Query
  <2>1. /\ UNCHANGED <<doing, mirror, params, torn, pending, events, echo, ui>>
        /\ viewPoison' \in {viewPoison, TRUE, FALSE}
        /\ editor' \in {editor, "opened", "closed", "broken"}
    BY <1>6 DEF CreateView, Attached, Removed, Query, callVars, paramVars, blockVars, uiVars,
       viewVars
  <2> QED BY <2>1 DEF DataTypes
<1>7. CASE Release \/ ReleaseView \/ DropBox
  <2>1. /\ UNCHANGED <<doing, mirror, params, torn, pending, events, echo, ui>>
        /\ viewPoison' \in {viewPoison, FALSE} /\ editor' \in {editor, "closed", "none"}
    BY <1>7 DEF Release, ReleaseView, DropBox, callVars, paramVars, blockVars, uiVars, viewVars
  <2> QED BY <2>1 DEF DataTypes
<1> QED BY <1>1, <1>2, <1>3, <1>4, <1>5, <1>6, <1>7 DEF Next

(* Once built the mirror stays built. *)
LEMMA StaysBuilt ==
  ASSUME Built, DataTypes, DataTypes', [Next]_vars
  PROVE  Built'
<1>1. ASSUME Ids \subseteq DOMAIN mirror' PROVE Built'
  <2>1. CASE mirror' \in [Ids -> Values]
    BY <2>1 DEF Built
  <2>2. CASE mirror' = <<>>
    <3>1. Ids = {}
      BY <1>1, <2>2, EmptyState
    <3>2. mirror' \in [Ids -> Values]
      BY <2>2, <3>1
    <3> QED BY <3>2 DEF Built
  <2> QED BY <2>1, <2>2 DEF DataTypes
<1>2. DOMAIN mirror = Ids
  BY DEF Built
<1>3. CASE Refresh
  BY <1>3 DEF Refresh, DataTypes, Built
<1>4. CASE ApplyParams \/ SetComponentState
  <2>1. \E s : mirror' = Over(s, mirror)
    BY <1>4 DEF ApplyParams, SetComponentState
  <2>2. \A s : DOMAIN mirror \subseteq DOMAIN Over(s, mirror)
    BY DEF Over
  <2> QED BY <1>1, <1>2, <2>1, <2>2
<1>5. CASE DrainLane \/ Emit \/ SetMirror \/ EditorReports
  <2>1. \E p, v : mirror' = [mirror EXCEPT ![p] = v]
    BY <1>5 DEF DrainLane, Emit, SetMirror, EditorReports
  <2>2. \A p, v : DOMAIN [mirror EXCEPT ![p] = v] = DOMAIN mirror
    OBVIOUS
  <2> QED BY <1>1, <1>2, <2>1, <2>2
<1>6. CASE mirror' = mirror
  BY <1>6 DEF Built
<1>7. CASE \/ RefuseMethod \/ EnterMethod \/ ReturnMethod \/ ReturnError \/ CatchPanic \/ SetFlag
           \/ Setup \/ DropEditor \/ Apply \/ SwapPending \/ ReadMirror \/ EmitNothing \/ End
  <2>1. mirror' = mirror
    BY <1>7 DEF RefuseMethod, EnterMethod, ReturnMethod, ReturnError, CatchPanic, SetFlag, Setup,
       DropEditor, Apply, SwapPending, ReadMirror, EmitNothing, End, paramVars
  <2> QED BY <1>6, <2>1
<1>8. CASE Create \/ (\E e \in Entries : Call(e)) \/ (\E e \in Blocks : CallProcess(e))
  <2>1. mirror' = mirror
    BY <1>8 DEF Create, Call, CallProcess, paramVars
  <2> QED BY <1>6, <2>1
<1>9. CASE \/ RaisePending \/ EditorMoves \/ CreateView \/ Attached \/ Removed \/ Query \/ Release
           \/ ReleaseView \/ DropBox \/ UNCHANGED vars
  <2>1. mirror' = mirror
    BY <1>9 DEF RaisePending, EditorMoves, CreateView, Attached, Removed, Query, Release,
       ReleaseView, DropBox, vars, paramVars
  <2> QED BY <1>6, <2>1
<1> QED BY <1>3, <1>4, <1>5, <1>7, <1>8, <1>9 DEF Next, CallStep

(* The steps of initialize, counted from its end. *)
LEMMA InitialSteps ==
  ASSUME CallInv, FlagInv, InCall, script # <<>>, Verb(doing) = "initialize"
  PROVE  /\ doing \in Entries /\ Len(script) \in 1 .. 7 /\ ~initialised /\ ~poison
         /\ Len(script) = 7 => Step[1] = "init"
         /\ Len(script) \in {2, 4, 6} => Step[1] = "ask"
         /\ Len(script) = 5 => Step[1] = "build"
         /\ Len(script) = 3 => Step[1] = "create_editor"
         /\ Len(script) = 1 => Step[1] = "initialised" /\ Step[2]
<1>1. doing \in Entries
  BY BlockVerb DEF CallInv
<1> DEFINE k == Len(script)  kind == Step[1]  v == Step[2]
<1>2. Spot("initialize", k, kind, v, setup) /\ k \in Nat /\ k >= 1
  BY <1>1, StepIs, EntryOrBlock
<1>3. StandsAt("initialize", k) /\ ~poison
  BY InCallFlags
<1> HIDE DEF k, kind, v
<1>4. Stands("Created", {}) \/ Stands("Inactive", {})
  BY <1>3 DEF StandsAt
<1>5. ~initialised
  BY <1>4 DEF Stands
<1>6. /\ k \in 1 .. 7
      /\ k = 7 => kind = "init"
      /\ k \in {2, 4, 6} => kind = "ask"
      /\ k = 5 => kind = "build"
      /\ k = 3 => kind = "create_editor"
      /\ k = 1 => kind = "initialised" /\ v
  BY <1>2 DEF Spot, Kinds
<1> QED BY <1>1, <1>3, <1>5, <1>6 DEF k, kind, v

(* Where initialize is once it has an editor: past the call that made it. *)
LEMMA EditorInCall ==
  ASSUME CallInv, FlagInv, BuiltInv, at # "aborted", ~initialised, ~poison, editor # "none"
  PROVE  /\ InCall /\ script # <<>> /\ Verb(doing) = "initialize" /\ Len(script) \in 1 .. 2
         /\ Len(script) = 2 => Step[1] = "ask"
         /\ Len(script) = 1 => Step[1] = "initialised" /\ Step[2]
<1>1. InCall /\ Verb(doing) = "initialize" /\ Len(script) \in 1 .. 2
  BY DEF BuiltInv
<1>2. script # <<>>
  BY <1>1
<1> QED BY <1>1, <1>2, InitialSteps

(* initialize begins with its first step. *)
LEMMA InitialBody ==
  ASSUME NEW e \in Entries, Verb(e) = "initialize", Body(e) # <<>>
  PROVE  Len(Body(e)) = 7
<1>1. Shape(e)
  BY EntryShape
<1>2. e = <<"initialize", 0>>
  <2>1. CASE \/ e = <<"terminate", 0>> \/ e = <<"consult", 0>> \/ e[1] = "setup_processing"
             \/ e[1] = "set_state"
    <3>1. e[1] \in {"terminate", "consult", "setup_processing", "set_state"}
      BY <2>1
    <3> QED BY <3>1, VerbSelf
  <2>2. CASE e = <<"set_active", TRUE>>
    BY <2>2, VerbArm
  <2>3. CASE e = <<"set_active", FALSE>>
    BY <2>3, VerbDisarm
  <2>4. CASE e = <<"set_processing", TRUE>>
    BY <2>4, VerbRun
  <2>5. CASE e = <<"set_processing", FALSE>>
    BY <2>5, VerbHalt
  <2> QED BY <1>1, <2>1, <2>2, <2>3, <2>4, <2>5 DEF Shape
<1>3. Body(e) = <<<<"init", 0>>, <<"ask", 0>>, <<"build", 0>>, <<"ask", 0>>,
                  <<"create_editor", 0>>, <<"ask", 0>>, <<"initialised", TRUE>>>>
  BY <1>2 DEF Body
<1> HIDE DEF Body
<1> QED BY <1>3

(* Who sets the flag, makes an editor or moves its controls finds the mirror built. *)
LEMMA BuiltBefore ==
  ASSUME CallInv, FlagInv, BuiltInv, ViewsAreServed, [Next]_vars,
         initialised' \/ editor' # "none" \/ ui'[1] = "moved"
  PROVE  Built
<1>1. initialised \/ editor # "none" \/ ui[1] = "moved" => Built
  BY DEF BuiltInv
<1>2. CASE SetFlag
  <2>1. /\ InCall /\ script # <<>> /\ UNCHANGED <<editor, ui>>
        /\ initialised' => initialised \/ Step[1] = "initialised"
    BY <1>2 DEF SetFlag, Doing, InCall, uiVars, viewVars
  <2>2. CASE Step[1] = "initialised"
    <3>1. doing \in Entries
      <4>1. doing \in Blocks => Step[1] \in {"swap", "read", "lane", "process", "emit"}
        BY <2>1, StepIs, EntryOrBlock DEF BlockAt, Step
      <4> QED BY <2>1, <2>2, <4>1 DEF CallInv
    <3>2. Verb(doing) = "initialize" /\ Len(script) = 1
      BY <2>1, <2>2, <3>1, StepIs, EntryOrBlock DEF Spot
    <3> QED BY <2>1, <3>2 DEF BuiltInv
  <2> QED BY <1>1, <2>1, <2>2
<1>3. CASE ReturnMethod
  <2>1. /\ InCall /\ script # <<>> /\ UNCHANGED <<initialised, ui>>
        /\ Step[1] # "create_editor" => editor' = editor
    BY <1>3 DEF ReturnMethod, InCall, Outcomes, dspVars, uiVars, CallInv, IsMethod
  <2>2. CASE Step[1] = "create_editor"
    <3>1. doing \in Entries
      <4>1. doing \in Blocks => Step[1] \in {"swap", "read", "lane", "process", "emit"}
        BY <2>1, StepIs, EntryOrBlock DEF BlockAt, Step
      <4> QED BY <2>1, <2>2, <4>1 DEF CallInv
    <3>2. Verb(doing) = "initialize" /\ Len(script) = 3
      BY <2>1, <2>2, <3>1, StepIs, EntryOrBlock DEF Spot
    <3> QED BY <2>1, <3>2 DEF BuiltInv
  <2> QED BY <1>1, <2>1, <2>2
<1>4. CASE \/ RefuseMethod \/ EnterMethod \/ ReturnError \/ CatchPanic \/ Setup \/ DropEditor
           \/ Refresh
  <2>1. UNCHANGED <<initialised, ui>> /\ (editor' # "none" => editor # "none")
    BY <1>4 DEF RefuseMethod, EnterMethod, ReturnError, CatchPanic, Setup, DropEditor, Refresh,
       dspVars, uiVars, viewVars
  <2> QED BY <1>1, <2>1
<1>5. CASE \/ Apply \/ ApplyParams \/ SwapPending \/ ReadMirror \/ DrainLane \/ Emit
           \/ EmitNothing \/ End \/ UNCHANGED vars
  <2>1. UNCHANGED <<initialised, ui, editor>>
    BY <1>5 DEF Apply, ApplyParams, SwapPending, ReadMirror, DrainLane, Emit, EmitNothing, End,
       vars, dspVars, uiVars, viewVars
  <2> QED BY <1>1, <2>1
<1>6. CASE Create \/ (\E e \in Entries : Call(e)) \/ (\E e \in Blocks : CallProcess(e))
  <2>1. UNCHANGED <<initialised, ui, editor>>
    BY <1>6 DEF Create, Call, CallProcess, dspVars, uiVars, viewVars
  <2> QED BY <1>1, <2>1
<1>7. CASE SetMirror \/ RaisePending \/ SetComponentState \/ EditorReports
  <2>1. UNCHANGED <<initialised, editor>> /\ ui' \in {ui, <<"set">>, <<"idle">>}
    BY <1>7 DEF SetMirror, RaisePending, SetComponentState, EditorReports, dspVars, uiVars,
       viewVars, UiIdle
  <2>2. <<"set">>[1] = "set" /\ <<"idle">>[1] = "idle"
    OBVIOUS
  <2> QED BY <1>1, <2>1, <2>2
<1>8. CASE EditorMoves \/ Attached \/ Removed
  <2>1. view # "none"
    BY <1>8 DEF EditorMoves, Attached, Removed
  <2> QED BY <1>1, <2>1 DEF ViewsAreServed
<1>9. CASE CreateView \/ Query \/ DropBox \/ Release
  <2>1. UNCHANGED <<initialised, ui>> /\ (editor' # "none" => editor # "none")
    BY <1>9 DEF CreateView, Query, DropBox, Release, dspVars, uiVars, viewVars
  <2> QED BY <1>1, <2>1
<1>10. CASE ReleaseView
  BY <1>1, <1>10 DEF ReleaseView, ViewsAreServed
<1> QED
  BY <1>2, <1>3, <1>4, <1>5, <1>6, <1>7, <1>8, <1>9, <1>10 DEF Next, CallStep

(* A step of a call that goes on: the step it was at is done, or still under way. *)
LEMMA CallGoesOn ==
  ASSUME CallInv, FlagInv, [Next]_vars, InCall', script' # <<>>, Verb(doing') = "initialize"
  PROVE  \/ Len(script') = 7
         \/ /\ InCall /\ doing' = doing /\ script # <<>>
            /\ \/ script' = script
               \/ script' = Tail(script) /\ CallStep
<1>1. CASE Create
  BY <1>1 DEF Create, Construct, FlagInv, InCall, Outcomes, callVars
<1>2. CASE \E e \in Entries : Call(e)
  BY <1>2, InitialBody DEF Call, Enters
<1>3. CASE \E e \in Blocks : CallProcess(e)
  BY <1>3, BlockVerb DEF CallProcess, Enters
<1>4. CASE SetMirror \/ RaisePending \/ SetComponentState \/ EditorMoves \/ EditorReports
  BY <1>4 DEF SetMirror, RaisePending, SetComponentState, EditorMoves, EditorReports, callVars,
     InCall
<1>5. CASE CreateView \/ Attached \/ Removed \/ Query \/ DropBox \/ UNCHANGED vars
  BY <1>5 DEF CreateView, Attached, Removed, Query, DropBox, vars, callVars, InCall
<1>6. CASE Release \/ ReleaseView
  <2>1. UNCHANGED <<doing, script>> /\ at' \in {at, "aborted"}
    BY <1>6 DEF Release, ReleaseView, Dismiss
  <2> QED BY <2>1 DEF InCall, Outcomes
<1>7. CASE CallStep
  <2>1. CASE RefuseMethod \/ ReturnError
    <3>1. InCall /\ doing' = doing /\ script # <<>> /\ (script' = Tail(script) \/ script' = <<>>)
      BY <2>1 DEF RefuseMethod, ReturnError, After, InCall, Outcomes, CallInv, IsMethod
    <3> QED BY <1>7, <3>1
  <2>2. CASE EnterMethod
    BY <2>2 DEF EnterMethod, InCall, IsMethod
  <2>3. CASE ReturnMethod
    <3>1. /\ InCall /\ doing' = doing /\ script # <<>>
          /\ Step[1] # "process" => script' = Tail(script)
      BY <2>3 DEF ReturnMethod, InCall, Outcomes, CallInv, IsMethod
    <3>2. Step[1] # "process"
      <4>1. doing \in Entries /\ Verb(doing) = "initialize"
        BY <3>1, BlockVerb DEF CallInv
      <4> QED BY <3>1, <4>1, StepIs, EntryOrBlock DEF Spot, Kinds
    <3> QED BY <1>7, <3>1, <3>2
  <2>4. CASE CatchPanic \/ End
    BY <2>4 DEF CatchPanic, End
  <2>5. CASE SetFlag \/ Setup \/ DropEditor \/ Refresh \/ Apply
    <3>1. InCall /\ doing' = doing /\ script # <<>> /\ script' = Tail(script)
      BY <2>5 DEF SetFlag, Setup, DropEditor, Refresh, Apply, Doing, After, InCall
    <3> QED BY <1>7, <3>1
  <2>6. CASE ApplyParams \/ ReadMirror \/ DrainLane \/ Emit \/ EmitNothing
    <3>1. InCall /\ doing' = doing /\ script # <<>> /\ (script' = Tail(script) \/ script' = <<>>)
      BY <2>6 DEF ApplyParams, ReadMirror, DrainLane, Emit, EmitNothing, Doing, After, InCall
    <3> QED BY <1>7, <3>1
  <2>7. CASE SwapPending
    <3>1. doing \in Blocks /\ doing' = doing
      BY <2>7, SwapCall DEF SwapPending
    <3> QED BY <3>1, BlockVerb
  <2> QED BY <1>7, <2>1, <2>2, <2>3, <2>4, <2>5, <2>6, <2>7 DEF CallStep
<1> QED BY <1>1, <1>2, <1>3, <1>4, <1>5, <1>6, <1>7 DEF Next

(* The step before the second half of initialize builds the mirror. *)
LEMMA BuildsFirst ==
  ASSUME CallInv, FlagInv, DataTypes, DataTypes', BuiltInv, [Next]_vars,
         InCall', Verb(doing') = "initialize", Len(script') \in 1 .. 4
  PROVE  Built'
<1> DEFINE k == Len(script')
<1>1. script' # <<>> /\ k \in 1 .. 4
  OBVIOUS
<1>2. /\ InCall /\ doing' = doing /\ script # <<>>
      /\ script' = script \/ (script' = Tail(script) /\ CallStep)
  <2>1. \/ k = 7
        \/ /\ InCall /\ doing' = doing /\ script # <<>>
           /\ script' = script \/ (script' = Tail(script) /\ CallStep)
    BY <1>1, CallGoesOn
  <2> HIDE DEF k
  <2> QED BY <1>1, <2>1
<1>3. CASE script' = script \/ Len(script) # 5
  <2> DEFINE l == Len(script)
  <2>1. k = l \/ k = l - 1
    BY <1>2, StepIs
  <2>2. l \in 1 .. 7 /\ (k = l \/ l # 5)
    BY <1>2, <1>3, InitialSteps
  <2> HIDE DEF k, l
  <2>3. l \in 1 .. 4
    BY <1>1, <2>1, <2>2
  <2> USE DEF l
  <2>4. Built
    BY <1>2, <2>3 DEF BuiltInv
  <2> QED BY <2>4, StaysBuilt
<1>4. CASE script' = Tail(script) /\ CallStep /\ Len(script) = 5
  <2>1. Step[1] = "build" /\ doing \in Entries
    BY <1>2, <1>4, InitialSteps
  <2>2. Refresh
    <3>1. ~IsMethod
      BY <2>1 DEF IsMethod, Method, Methods
    <3>2. at \notin Outcomes
      BY <3>1 DEF CallInv
    <3>3. ~(RefuseMethod \/ EnterMethod \/ ReturnMethod \/ ReturnError \/ CatchPanic \/ End)
      BY <1>2, <3>1, <3>2 DEF RefuseMethod, EnterMethod, ReturnMethod, ReturnError, CatchPanic,
         End, Outcomes
    <3>4. ~(\/ SetFlag \/ Setup \/ DropEditor \/ Apply \/ ApplyParams
            \/ SwapPending \/ ReadMirror \/ DrainLane \/ Emit \/ EmitNothing)
      BY <2>1 DEF SetFlag, Setup, DropEditor, Apply, ApplyParams, SwapPending, ReadMirror,
         DrainLane, Emit, EmitNothing, Doing
    <3> QED BY <1>4, <3>3, <3>4 DEF CallStep
  <2> QED BY <2>2 DEF Refresh, DataTypes, Built
<1> QED BY <1>2, <1>3, <1>4

(* The editor initialize made waits for the flag, and no step forgets it on the way. *)
LEMMA FlagFollows ==
  ASSUME CallInv, FlagInv, BuiltInv, ViewsAreServed, [Next]_vars,
         at' # "aborted", ~initialised', ~poison', editor' # "none"
  PROVE  InCall' /\ Verb(doing') = "initialize" /\ Len(script') \in 1 .. 2
<1> DEFINE Waits == at # "aborted" /\ ~initialised /\ ~poison /\ editor # "none"
<1>1. Waits => /\ InCall /\ script # <<>> /\ Verb(doing) = "initialize" /\ Len(script) \in 1 .. 2
               /\ Len(script) = 2 => Step[1] = "ask"
               /\ Len(script) = 1 => Step[1] = "initialised" /\ Step[2]
               /\ doing \in Entries
  BY EditorInCall, InitialSteps
<1>2. Waits /\ UNCHANGED callVars =>
        InCall' /\ Verb(doing') = "initialize" /\ Len(script') \in 1 .. 2
  BY <1>1 DEF callVars, InCall
<1>3. CASE CallStep
  <2>1. CASE RefuseMethod
    <3>1. Waits
      BY <2>1 DEF RefuseMethod, dspVars, viewVars
    <3>2. doing \in Blocks
      BY <2>1, RefusesBlocks DEF RefuseMethod, InCall
    <3> QED BY <1>1, <3>1, <3>2, EntryOrBlock
  <2>2. CASE EnterMethod
    <3>1. Waits /\ UNCHANGED <<doing, script>> /\ at' \in Outcomes
      BY <2>2 DEF EnterMethod, dspVars, viewVars
    <3> QED BY <1>1, <3>1 DEF InCall
  <2>3. CASE ReturnMethod
    <3>1. /\ InCall /\ IsMethod /\ at' = "between" /\ doing' = doing
          /\ Step[1] # "process" => script' = Tail(script)
          /\ Step[1] # "create_editor" => Waits
      BY <2>3 DEF ReturnMethod, InCall, Outcomes, CallInv, dspVars
    <3>2. CASE Step[1] = "create_editor"
      <4>1. doing \in Entries
        <5>1. doing \in Blocks => Step[1] \in {"swap", "read", "lane", "process", "emit"}
          BY <3>1, StepIs, EntryOrBlock DEF BlockAt, Step, IsMethod
        <5> QED BY <3>1, <3>2, <5>1 DEF CallInv
      <4>2. Verb(doing) = "initialize" /\ Len(script) = 3
        BY <3>1, <3>2, <4>1, StepIs, EntryOrBlock DEF Spot, IsMethod
      <4>3. /\ script' = Tail(script) /\ Len(Tail(script)) = Len(script) - 1
            /\ Verb(doing') = "initialize"
        BY <3>1, <3>2, <4>2, StepIs DEF IsMethod
      <4>4. Len(script') = 2
        BY <4>2, <4>3
      <4> QED BY <3>1, <4>3, <4>4 DEF InCall
    <3>3. CASE Step[1] # "create_editor"
      <4>1. Step[1] = "ask" /\ Len(script) = 2
        BY <1>1, <3>1, <3>3 DEF IsMethod, Method, Methods
      <4>2. /\ script' = Tail(script) /\ Len(Tail(script)) = Len(script) - 1
            /\ Verb(doing') = "initialize"
        BY <1>1, <3>1, <3>3, <4>1, StepIs
      <4>3. Len(script') = 1
        BY <4>1, <4>2
      <4> QED BY <3>1, <4>2, <4>3 DEF InCall
    <3> QED BY <3>2, <3>3
  <2>4. CASE ReturnError
    <3>1. InCall /\ IsMethod /\ at' = "between" /\ doing' = doing /\ Waits /\ After(FALSE)
      BY <2>4 DEF ReturnError, InCall, Outcomes, CallInv, dspVars, viewVars
    <3>2. Step[1] = "ask" /\ Len(script) = 2
      BY <1>1, <3>1 DEF IsMethod, Method, Methods
    <3>3. script' = Tail(script)
      BY <3>1, <3>2 DEF After, GoesOn
    <3>4. Len(Tail(script)) = Len(script) - 1 /\ Verb(doing') = "initialize"
      BY <1>1, <3>1, StepIs
    <3>5. Len(script') = 1
      BY <3>2, <3>3, <3>4
    <3> QED BY <3>1, <3>4, <3>5 DEF InCall
  <2>5. CASE CatchPanic
    BY <2>5 DEF CatchPanic
  <2>6. CASE SetFlag
    <3>1. InCall /\ script # <<>> /\ UNCHANGED <<poison, editor>> /\ at # "aborted"
          /\ \/ Step[1] = "initialised" /\ initialised' = Step[2]
             \/ Step[1] \in {"active", "processing"} /\ initialised' = initialised
      BY <2>6 DEF SetFlag, Doing, InCall, viewVars
    <3>2. CASE Step[1] = "initialised" /\ initialised' = Step[2]
      <4>1. doing \in Entries
        <5>1. doing \in Blocks => Step[1] \in {"swap", "read", "lane", "process", "emit"}
          BY <3>1, StepIs, EntryOrBlock DEF BlockAt, Step
        <5> QED BY <3>1, <3>2, <5>1 DEF CallInv
      <4>2. Step[2]
        BY <3>1, <3>2, <4>1, StepIs, EntryOrBlock DEF Spot
      <4> QED BY <3>2, <4>2
    <3>3. CASE Step[1] \in {"active", "processing"} /\ initialised' = initialised
      BY <1>1, <3>1, <3>3
    <3> QED BY <3>1, <3>2, <3>3
  <2>7. CASE Setup \/ DropEditor \/ Refresh \/ Apply \/ ApplyParams
    <3>1. /\ UNCHANGED <<initialised, poison>> /\ at = "between"
          /\ editor' # "none" => editor # "none"
          /\ Step[1] \in {"setup", "drop_editor", "build", "refresh", "apply", "apply_params"}
      BY <2>7 DEF Setup, DropEditor, Refresh, Apply, ApplyParams, Doing, dspVars, viewVars
    <3> QED BY <1>1, <3>1
  <2>8. CASE SwapPending \/ ReadMirror \/ DrainLane \/ Emit \/ EmitNothing
    <3>1. /\ UNCHANGED <<initialised, poison, editor>> /\ at = "between"
          /\ Step[1] \in {"swap", "read", "lane", "emit"}
      BY <2>8 DEF SwapPending, ReadMirror, DrainLane, Emit, EmitNothing, Doing, dspVars, viewVars
    <3> QED BY <1>1, <3>1
  <2>9. CASE End
    <3>1. Waits /\ script = <<>>
      BY <2>9 DEF End, dspVars, viewVars
    <3> QED BY <1>1, <3>1
  <2> QED BY <1>3, <2>1, <2>2, <2>3, <2>4, <2>5, <2>6, <2>7, <2>8, <2>9 DEF CallStep
<1>4. CASE Create \/ (\E e \in Entries : Call(e)) \/ (\E e \in Blocks : CallProcess(e))
  <2>1. UNCHANGED <<initialised, poison, editor>> /\ at = "idle"
    BY <1>4 DEF Create, Construct, Call, CallProcess, Enters, FlagInv, dspVars, viewVars
  <2> QED BY <1>1, <2>1 DEF InCall, Outcomes
<1>5. CASE \/ SetMirror \/ RaisePending \/ SetComponentState \/ EditorMoves \/ EditorReports
           \/ UNCHANGED vars
  <2>1. UNCHANGED <<initialised, poison, editor, callVars>> /\ at' = at
    BY <1>5 DEF SetMirror, RaisePending, SetComponentState, EditorMoves, EditorReports, vars,
       dspVars,
       viewVars, callVars
  <2> QED BY <1>2, <2>1
<1>6. CASE CreateView \/ Query
  <2>1. UNCHANGED <<initialised, editor, callVars>> /\ at' = at /\ poison' \in {poison, TRUE}
    BY <1>6 DEF CreateView, Query, dspVars, viewVars, callVars
  <2> QED BY <1>2, <2>1
<1>7. CASE Attached \/ Removed
  <2>1. UNCHANGED <<initialised, poison, callVars>> /\ at' = at /\ view # "none"
    BY <1>7 DEF Attached, Removed, dspVars, callVars
  <2> QED BY <1>2, <2>1 DEF ViewsAreServed
<1>8. CASE Release \/ ReleaseView
  <2>1. UNCHANGED <<initialised, poison, doing, script>> /\ (editor' # "none" => editor # "none")
    BY <1>8 DEF Release, ReleaseView, ViewsAreServed, dspVars, viewVars
  <2>2. at # "aborted" /\ at' \in {at, "aborted"}
    BY <1>8 DEF Release, ReleaseView, Dismiss, UiFree
  <2>3. Waits /\ UNCHANGED callVars
    BY <2>1, <2>2 DEF callVars
  <2> QED BY <1>2, <2>3
<1>9. CASE DropBox
  BY <1>9 DEF DropBox
<1> QED BY <1>3, <1>4, <1>5, <1>6, <1>7, <1>8, <1>9 DEF Next

LEMMA NextBuilt ==
  ASSUME CallInv, FlagInv, DataTypes, DataTypes', BuiltInv, ViewsAreServed, [Next]_vars
  PROVE  BuiltInv'
<1>1. initialised' \/ editor' # "none" \/ ui'[1] = "moved" => Built'
  BY BuiltBefore, StaysBuilt
<1>2. InCall' /\ Verb(doing') = "initialize" /\ Len(script') \in 1 .. 4 => Built'
  BY BuildsFirst
<1>3. at' # "aborted" /\ ~initialised' /\ ~poison' /\ editor' # "none" =>
        InCall' /\ Verb(doing') = "initialize" /\ Len(script') \in 1 .. 2
  BY FlagFollows
<1> QED BY <1>1, <1>2, <1>3 DEF BuiltInv

(* A view finds the component alive and the editor made, and no editor is open without
   it. *)
LEMMA NextServed ==
  ASSUME CallInv, FlagInv, RefInv, RefInv', BuiltInv, ViewsAreServed, [Next]_vars
  PROVE  ViewsAreServed'
<1>1. view' # "none" => inst' \in Live
  <2>1. held' \in 0 .. MaxHeld /\ refs' = held' + (IF view' = "none" THEN 0 ELSE 1)
        /\ (inst' \in Live <=> refs' > 0)
    BY DEF RefInv
  <2>2. view' # "none" => refs' = held' + 1 /\ held' >= 0 /\ held' \in Int
    BY <2>1, Vst3Assumption
  <2>3. view' # "none" => refs' > 0
    BY <2>2
  <2>4. inst' \in Live <=> refs' > 0
    BY <2>1
  <2> QED BY <2>3, <2>4
<1>2. /\ editor = "opened" => view = "attached"
      /\ view # "none" => editor # "none"
  BY DEF ViewsAreServed
<1>3. UNCHANGED <<view, editor>> => ViewsAreServed'
  BY <1>1, <1>2 DEF ViewsAreServed
<1>4. CASE ReturnMethod
  <2>1. /\ InCall /\ IsMethod /\ at # "aborted" /\ view' = view
        /\ Step[1] # "create_editor" => editor' = editor
        /\ Step[1] = "create_editor" => editor' \in {"made", "none"}
    BY <1>4 DEF ReturnMethod, InCall, Outcomes, CallInv
  <2>2. CASE Step[1] = "create_editor"
    <3>1. doing \in Entries
      <4>1. doing \in Blocks => Step[1] \in {"swap", "read", "lane", "process", "emit"}
        BY <2>1, StepIs, EntryOrBlock DEF BlockAt, Step, IsMethod
      <4> QED BY <2>1, <2>2, <4>1 DEF CallInv
    <3>2. Verb(doing) = "initialize" /\ Len(script) = 3
      BY <2>1, <2>2, <3>1, StepIs, EntryOrBlock DEF Spot, IsMethod
    <3>3. ~initialised /\ ~poison
      BY <2>1, <3>2, InitialSteps DEF IsMethod
    <3>4. editor = "none"
      BY <2>1, <3>2, <3>3 DEF BuiltInv
    <3> QED BY <1>2, <2>1, <2>2, <3>4 DEF ViewsAreServed
  <2> QED BY <1>3, <2>1, <2>2
<1>5. CASE DropEditor
  BY <1>1, <1>2, <1>5 DEF DropEditor, ViewsAreServed
<1>6. CASE RefuseMethod \/ EnterMethod \/ ReturnError \/ CatchPanic \/ SetFlag \/ Setup \/ Refresh
  <2>1. UNCHANGED <<view, editor>>
    BY <1>6 DEF RefuseMethod, EnterMethod, ReturnError, CatchPanic, SetFlag, Setup, Refresh,
       viewVars
  <2> QED BY <1>3, <2>1
<1>7. CASE \/ Apply \/ ApplyParams \/ SwapPending \/ ReadMirror \/ DrainLane \/ Emit
           \/ EmitNothing \/ End \/ UNCHANGED vars
  <2>1. UNCHANGED <<view, editor>>
    BY <1>7 DEF Apply, ApplyParams, SwapPending, ReadMirror, DrainLane, Emit, EmitNothing, End,
       vars, viewVars
  <2> QED BY <1>3, <2>1
<1>8. CASE Create \/ (\E e \in Entries : Call(e)) \/ (\E e \in Blocks : CallProcess(e))
  <2>1. UNCHANGED <<view, editor>>
    BY <1>8 DEF Create, Call, CallProcess, viewVars
  <2> QED BY <1>3, <2>1
<1>9. CASE \/ SetMirror \/ RaisePending \/ SetComponentState \/ EditorMoves \/ EditorReports
           \/ Query \/ Release
  <2>1. UNCHANGED <<view, editor>>
    BY <1>9 DEF SetMirror, RaisePending, SetComponentState, EditorMoves, EditorReports, Query,
       Release,
       viewVars
  <2> QED BY <1>3, <2>1
<1>10. CASE CreateView \/ Attached \/ Removed
  BY <1>1, <1>2, <1>10 DEF CreateView, Attached, Removed, ViewsAreServed
<1>11. CASE ReleaseView
  BY <1>1, <1>2, <1>11 DEF ReleaseView, ViewsAreServed, viewVars
<1>12. CASE DropBox
  <2>1. inst = "Dropping" /\ view' = view /\ editor' = "none"
    BY <1>12 DEF DropBox, DropAuthor
  <2>2. view = "none"
    BY <2>1 DEF ViewsAreServed, Live, Initialised
  <2> QED BY <2>1, <2>2 DEF ViewsAreServed
<1> QED
  BY <1>4, <1>5, <1>6, <1>7, <1>8, <1>9, <1>10, <1>11, <1>12 DEF Next, CallStep

LEMMA InitData == Init => DataTypes /\ BuiltInv /\ ViewsAreServed
<1> SUFFICES ASSUME Init PROVE DataTypes /\ BuiltInv /\ ViewsAreServed
  OBVIOUS
<1>1. /\ doing = Nothing /\ mirror = <<>> /\ params \in [Ids -> Values] /\ torn = {}
      /\ pending = FALSE
      /\ viewPoison = FALSE /\ events = <<>> /\ echo = <<>> /\ ui = UiIdle /\ editor = "none"
      /\ at = "idle" /\ view = "none" /\ initialised = FALSE
  BY DEF Init
<1>2. <<>> \in Seq(Ids \X Values) /\ Len(<<>>) <= EventCapacity
  BY Vst3Assumption
<1>3. DataTypes
  BY <1>1, <1>2, EmptyState DEF DataTypes
<1>4. UiIdle[1] = "idle"
  BY DEF UiIdle
<1>5. BuiltInv
  BY <1>1, <1>4 DEF BuiltInv, InCall, Outcomes
<1> QED BY <1>1, <1>3, <1>5 DEF ViewsAreServed

AllInv == Inv /\ InstanceTypeOK /\ DataTypes /\ BuiltInv /\ ViewsAreServed

LEMMA AllInductive == Spec => []AllInv
<1>1. Init => AllInv
  BY InitCall, InitFlags, InitRefs, InitInstance, InitData DEF AllInv, Inv
<1>2. AllInv /\ [Next]_vars => AllInv'
  <2> SUFFICES ASSUME AllInv, [Next]_vars PROVE AllInv'
    OBVIOUS
  <2>1. CallInv /\ FlagInv /\ RefInv /\ InstanceTypeOK /\ DataTypes /\ BuiltInv /\ ViewsAreServed
    BY DEF AllInv, Inv
  <2>2. CallInv' /\ FlagInv' /\ RefInv' /\ InstanceTypeOK'
    BY <2>1, NextCall, NextFlags, NextRefs, NextInstance
  <2>3. DataTypes'
    BY <2>1, NextTypes
  <2>4. BuiltInv'
    BY <2>1, <2>3, NextBuilt
  <2>5. ViewsAreServed'
    BY <2>1, <2>2, NextServed
  <2> QED BY <2>2, <2>3, <2>4, <2>5 DEF AllInv, Inv
<1> QED BY <1>1, <1>2, PTL DEF Spec

LEMMA TypesFollow ==
  ASSUME AllInv
  PROVE  TypeOK
<1>1. CallInv /\ FlagInv /\ RefInv /\ InstanceTypeOK /\ DataTypes
  BY DEF AllInv, Inv
<1>2. /\ {poison, initialised, active, processing, pending, viewPoison} \subseteq BOOLEAN
      /\ setup \in Sizes
  BY <1>1 DEF FlagInv, DataTypes
<1>3. at \in {"idle", "between", "aborted"} \cup Outcomes /\ sent \in State
  BY <1>1 DEF CallInv
<1>4. held \in 0 .. MaxHeld /\ refs \in 0 .. MaxHeld + 1 /\ view \in {"none", "made", "attached"}
  BY <1>1, Vst3Assumption DEF RefInv
<1>5. /\ doing \in Entries \cup Blocks \cup {Nothing}
      /\ mirror \in [Ids -> Values] \cup {<<>>} /\ params \in [Ids -> Values]
      /\ torn \subseteq Ids
      /\ events \in Seq(Ids \X Values) /\ Len(events) <= EventCapacity /\ echo \in State
      /\ ui \in {UiIdle, <<"set">>} \cup ({"moved"} \X Ids \X Values)
      /\ editor \in {"none", "made", "opened", "closed", "broken"}
  BY <1>1 DEF DataTypes
<1>6. ToSet(events) \subseteq Ids \X Values
  BY <1>5 DEF ToSet
<1> QED BY <1>1, <1>2, <1>3, <1>4, <1>5, <1>6 DEF TypeOK

(* Between two calls of a healthy object Dsp's flags say what the instance's state is: no
   start or stop the instance refused is taken for done, none it made is forgotten,
   whichever entries the host called in whichever order. *)
THEOREM FlagsFollowState == Spec => []FlagsAgree
<1>1. AllInv => FlagsAgree
  <2> SUFFICES ASSUME AllInv PROVE FlagsAgree
    OBVIOUS
  <2>1. at = "idle" /\ inst \in Live => FlagsMeet \/ poison
    BY DEF AllInv, Inv, FlagInv
  <2>2. TypeOK
    BY TypesFollow
  <2> QED BY <2>1, <2>2 DEF FlagsAgree, FlagsMeet
<1> QED BY <1>1, AllInductive, PTL

(* In whichever order the host releases the view and the component: an opened editor has a
   view that will close it, and a view never outlives the component or the editor it calls
   into. *)
THEOREM ViewsStayServed == Spec => []ViewsAreServed
<1>1. AllInv => ViewsAreServed
  BY DEF AllInv
<1> QED BY <1>1, AllInductive, PTL

-----------------------------------------------------------------------------
(* The mirror. *)

(* What the plug-in holds once the events collected so far have reached it. *)
Collecting == at = "between" /\ doing \in Blocks /\ Collects(script, doing)
Reached(p) == IF Collecting THEN Applied[p] ELSE params[p]

(* Why the mirror may yet say something else of a parameter: a change of it waits to be
   sent, a step of the block will bring it, or a method is under way that may move it. *)
Told(p)     == (ui[1] = "moved" /\ ui[2] = p) \/ p \in DOMAIN echo
Due(p)      == pending \/ ui = <<"set">> \/ Told(p)
Upcoming(p) ==
  /\ doing \in Blocks
  /\ \E i \in 1 .. Len(script) : script[i] \in {<<"read", p>>, <<"lane", p>>, <<"emit", p>>}
Moving(p) ==
  \/ at = "panic"
  \/ at = "ok" /\ doing \in Blocks /\ p \in DOMAIN sent
  \/ /\ doing \in Entries /\ Verb(doing) = "set_state"
     /\ at \in {"ok", "error"} \/ (at = "between" /\ Len(script) = 1)

Shown(p) == Due(p) \/ Upcoming(p) \/ Moving(p) \/ mirror[p] = Reached(p)

(* After a block, what it told of a parameter is what the plug-in holds, unless an editor
   has moved it since. *)
MirrorInv ==
  /\ Built /\ ~poison /\ at # "aborted" => \A p \in Ids \ torn : Shown(p)
  /\ ~poison /\ doing \in Blocks /\ (at = "ok" \/ (at = "between" /\ Tells(script, sent))) =>
       \A p \in DOMAIN sent : Told(p) \/ params[p] = sent[p]
  /\ at = "idle" \/ (InCall /\ doing \in Entries) => events = <<>>

LEMMA InitMirror == Init => MirrorInv
<1> SUFFICES ASSUME Init PROVE MirrorInv
  OBVIOUS
<1>1. mirror = <<>> /\ doing = Nothing /\ events = <<>>
  BY DEF Init
<1>2. ASSUME Built, NEW p \in Ids PROVE FALSE
  <2>1. DOMAIN mirror = Ids /\ DOMAIN mirror = {}
    BY <1>1, <1>2, EmptyState DEF Built
  <2> QED BY <1>2, <2>1
<1> QED BY <1>1, <1>2, EntryOrBlock DEF MirrorInv

(* The values a block's events bring. *)
LEMMA AppliedNone ==
  ASSUME NEW p \in Ids, \A i \in DOMAIN events : events[i][1] # p
  PROVE  Applied[p] = params[p]
BY DEF Applied, EventsOf

LEMMA AppliedKeeps ==
  ASSUME NEW p \in Ids, events' = events, params'[p] = params[p]
  PROVE  Applied'[p] = Applied[p]
BY DEF Applied, EventsOf

LEMMA AppliedLast ==
  ASSUME events \in Seq(Ids \X Values), NEW p \in Ids, NEW v \in Values,
         events' = Append(events, <<p, v>>)
  PROVE  Applied'[p] = v
<1> DEFINE n == Len(events)  x == <<p, v>>  T == EventsOf(p)'
<1>1. x \in Ids \X Values /\ x[1] = p /\ x[2] = v
  OBVIOUS
<1> HIDE DEF x
<1>2. /\ n \in Nat /\ events' \in Seq(Ids \X Values) /\ Len(events') = n + 1
      /\ events'[n + 1] = x
  BY <1>1, AppendProperties, LenProperties DEF x
<1>3. DOMAIN events' = 1 .. n + 1
  BY <1>2
<1>4. T \in SUBSET (1 .. n + 1) /\ n + 1 \in T
  BY <1>1, <1>2, <1>3 DEF EventsOf
<1>5. Max(T) \in T /\ \A k \in T : Max(T) >= k
  <2> HIDE DEF T, n
  <2>1. n + 1 \in Nat /\ T # {}
    BY <1>2, <1>4
  <2> QED BY <1>4, <2>1, LastOf
<1>6. Max(T) = n + 1
  <2> DEFINE m == Max(T)
  <2>1. m \in 1 .. n + 1 /\ m >= n + 1
    BY <1>4, <1>5
  <2> HIDE DEF m, n
  <2>2. m = n + 1
    BY <1>2, <2>1
  <2> QED BY <2>2 DEF m
<1>7. Applied'[p] = events'[Max(T)][2]
  BY <1>4 DEF Applied
<1> QED BY <1>1, <1>2, <1>6, <1>7

LEMMA AppliedOther ==
  ASSUME events \in Seq(Ids \X Values), NEW p \in Ids, NEW q \in Ids, p # q, NEW v \in Values,
         events' = Append(events, <<q, v>>), params' = params
  PROVE  Applied'[p] = Applied[p]
<1> DEFINE n == Len(events)  x == <<q, v>>
<1>1. x \in Ids \X Values /\ x[1] = q
  OBVIOUS
<1> HIDE DEF x
<1>2. /\ n \in Nat /\ events' \in Seq(Ids \X Values) /\ Len(events') = n + 1
      /\ events'[n + 1] = x /\ \A i \in 1 .. n : events'[i] = events[i]
  BY <1>1, AppendProperties, LenProperties DEF x
<1>3. DOMAIN events' = 1 .. n + 1 /\ DOMAIN events = 1 .. n
  BY <1>2
<1> HIDE DEF n
<1>4. EventsOf(p)' = EventsOf(p)
  BY <1>1, <1>2, <1>3 DEF EventsOf
<1>5. EventsOf(p) # {} => events'[Max(EventsOf(p))] = events[Max(EventsOf(p))]
  <2>1. EventsOf(p) \in SUBSET (1 .. n)
    BY <1>3 DEF EventsOf
  <2>2. EventsOf(p) # {} => Max(EventsOf(p)) \in EventsOf(p)
    BY <1>2, <2>1, LastOf
  <2> QED BY <1>2, <2>1, <2>2
<1> QED BY <1>4, <1>5 DEF Applied

(* The last step of a block's first half is process, and while any is left it stays so. *)
LEMMA CollectsOn ==
  ASSUME CallInv, at = "between", doing \in Blocks, sent = <<>>, script # <<>>
  PROVE  Collecting
<1>1. script \in Seq(Steps) /\ Len(script) \in Nat /\ Len(script) >= 1
  BY EmptySeq, LenProperties DEF CallInv
<1>2. ~Tells(script, sent)
  <2>1. script[1] \notin {"emit"} \X DOMAIN sent
    BY EmptyState
  <2> QED BY <1>1, <2>1 DEF Tells
<1> QED BY <1>2 DEF CallInv, InCall, Outcomes, Collecting

LEMMA TellsApart ==
  ASSUME NEW s \in Seq(Steps), NEW told, NEW e, Tells(s, told)
  PROVE  ~Collects(s, e)
<1>1. ASSUME Collects(s, e) PROVE FALSE
  <2>1. Len(s) \in Nat /\ Len(s) >= 1 /\ s[Len(s)] = <<"process", e[2]>>
    BY <1>1, EmptySeq, LenProperties DEF Collects
  <2>2. s[Len(s)] \in {"emit"} \X DOMAIN told
    BY <2>1 DEF Tells
  <2> QED BY <2>1, <2>2
<1> QED BY <1>1

(* Doing a step brings no other parameter's. *)
LEMMA UpcomingTail ==
  ASSUME script \in Seq(Steps), script # <<>>, script' = Tail(script), doing' = doing,
         NEW p, Step \notin {<<"read", p>>, <<"lane", p>>, <<"emit", p>>}, Upcoming(p)
  PROVE  Upcoming(p)'
<1>1. /\ Len(script) \in Nat /\ Len(script) >= 1 /\ Len(Tail(script)) = Len(script) - 1
      /\ \A i \in 1 .. Len(script) - 1 : Tail(script)[i] = script[i + 1]
  BY EmptySeq, HeadTailProperties
<1>2. PICK i \in 1 .. Len(script) : script[i] \in {<<"read", p>>, <<"lane", p>>, <<"emit", p>>}
  BY DEF Upcoming
<1>3. i # 1
  BY <1>2 DEF Step
<1> DEFINE k == Len(script)  j == i - 1
<1>4. j \in 1 .. k - 1 /\ i = j + 1
  BY <1>1, <1>3
<1> HIDE DEF j
<1>5. Tail(script)[j] = script[i]
  BY <1>1, <1>4
<1>6. \E x \in 1 .. Len(Tail(script)) :
        Tail(script)[x] \in {<<"read", p>>, <<"lane", p>>, <<"emit", p>>}
  BY <1>1, <1>2, <1>4, <1>5
<1> QED BY <1>6 DEF Upcoming

(* What carries over. *)
LEMMA ShownCarries ==
  ASSUME NEW p, Shown(p), UNCHANGED <<pending, ui, echo>>, mirror'[p] = mirror[p],
         Reached(p)' = Reached(p), Upcoming(p) => Upcoming(p)', Moving(p) => Moving(p)'
  PROVE  Shown(p)'
BY DEF Shown, Due, Told

(* The three parts at once, a step leaving nothing of them but what it shows. *)
LEMMA MirrorIs ==
  ASSUME Built /\ ~poison /\ at # "aborted" => \A p \in Ids \ torn : Shown(p),
         ~poison /\ doing \in Blocks /\ (at = "ok" \/ (at = "between" /\ Tells(script, sent))) =>
           \A p \in DOMAIN sent : Told(p) \/ params[p] = sent[p],
         at = "idle" \/ (InCall /\ doing \in Entries) => events = <<>>
  PROVE  MirrorInv
BY DEF MirrorInv

(* Steps beside the call and the parameters. *)
LEMMA AsideMirror ==
  ASSUME MirrorInv, UNCHANGED <<doing, script, paramVars, blockVars, uiVars>>,
         at' = at \/ at' = "aborted", poison' = poison \/ poison' = TRUE
  PROVE  MirrorInv'
<1>1. CASE at' = "aborted"
  BY <1>1 DEF MirrorInv, InCall, Outcomes
<1>2. CASE at' = at
  <2>1. UNCHANGED <<mirror, pending, params, torn, events, sent, ui, echo>>
    BY DEF paramVars, blockVars, uiVars
  <2>2. Applied' = Applied
    BY <2>1 DEF Applied, EventsOf
  <2>3. ASSUME NEW p, Shown(p) PROVE Shown(p)'
    <3>1. Reached(p)' = Reached(p)
      BY <1>2, <2>1, <2>2 DEF Reached, Collecting
    <3>2. Upcoming(p)' = Upcoming(p) /\ Moving(p)' = Moving(p)
      BY <1>2, <2>1 DEF Upcoming, Moving
    <3> QED BY <2>1, <2>3, <3>1, <3>2, ShownCarries
  <2>4. Built' = Built /\ Tells(script, sent)' = Tells(script, sent) /\ InCall' = InCall
    BY <1>2, <2>1 DEF Built, InCall
  <2>5. \A p : Told(p)' = Told(p)
    BY <2>1 DEF Told
  <2> QED BY <1>2, <2>1, <2>3, <2>4, <2>5 DEF MirrorInv
<1> QED BY <1>1, <1>2

-----------------------------------------------------------------------------
(* The mirror in a call that is not a block: no event is under way. *)
LEMMA NoBlock ==
  ASSUME doing \notin Blocks, NEW p
  PROVE  Reached(p) = params[p] /\ ~Upcoming(p)
BY DEF Reached, Collecting, Upcoming

LEMMA EntryStep ==
  ASSUME MirrorInv, InCall, doing \in Entries, doing' = doing, events' = events,
         Built' /\ ~poison' => \A p \in Ids \ torn' : Shown(p)'
  PROVE  MirrorInv'
<1>1. doing' \notin Blocks /\ events' = <<>>
  BY EntryOrBlock DEF MirrorInv
<1> QED BY <1>1 DEF MirrorInv

LEMMA EntryMoving ==
  ASSUME CallInv, InCall, doing \in Entries, script # <<>>, at # "panic", NEW p, Moving(p)
  PROVE  Step[1] \in {"load_state", "refresh"} /\ (at = "between" => Step[1] = "refresh")
<1> DEFINE k == Len(script)  kind == Step[1]  v == Step[2]
<1>1. Spot(Verb(doing), k, kind, v, setup) /\ k \in Nat
  BY StepIs, EntryOrBlock
<1>2. Verb(doing) = "set_state" /\ (at \in {"ok", "error"} \/ (at = "between" /\ k = 1))
  BY EntryOrBlock DEF Moving
<1> HIDE DEF k, kind, v
<1>3. kind \in {"apply_params", "load_state", "refresh"} /\ (k = 1 => kind = "refresh")
  BY <1>1, <1>2 DEF Spot, Kinds
<1>4. at \in {"ok", "error"} => kind # "apply_params"
  BY DEF CallInv, Outcomes, IsMethod, Method, Methods, kind
<1> QED BY <1>2, <1>3, <1>4 DEF kind

LEMMA EntryUnmoved ==
  ASSUME CallInv, MirrorInv, InCall, doing \in Entries, script # <<>>, at # "panic",
         Step[1] \notin {"load_state", "refresh"}, doing' = doing, poison' = poison,
         UNCHANGED <<mirror, torn, pending, ui, echo, events>>,
         \A p \in Ids : params'[p] = params[p]
  PROVE  MirrorInv'
<1>1. ASSUME Built', ~poison', NEW p \in Ids \ torn' PROVE Shown(p)'
  <2>1. Shown(p)
    BY <1>1 DEF MirrorInv, Built, InCall, Outcomes
  <2>2. ~Moving(p)
    BY EntryMoving
  <2>3. Reached(p) = params[p] /\ ~Upcoming(p) /\ Reached(p)' = params'[p]
    BY NoBlock, EntryOrBlock DEF Reached, Collecting
  <2>4. Due(p) \/ mirror[p] = params[p]
    BY <2>1, <2>2, <2>3 DEF Shown
  <2>5. Due(p) => Due(p)'
    BY DEF Due, Told
  <2> QED BY <2>3, <2>4, <2>5 DEF Shown
<1> QED BY <1>1, EntryStep

(* A load that has begun, or waits for the mirror to be read again, may have moved any. *)
LEMMA LoadSteps ==
  ASSUME CallInv, InCall, doing \in Entries, script # <<>>, Step[1] = "load_state"
  PROVE  Verb(doing) = "set_state" /\ Len(script) = 2
BY StepIs, EntryOrBlock DEF Spot

LEMMA EntryMethods ==
  ASSUME CallInv, DataTypes, MirrorInv, doing \in Entries,
         EnterMethod \/ ReturnMethod \/ ReturnError
  PROVE  MirrorInv'
<1>1. /\ InCall /\ script # <<>> /\ at # "panic" /\ doing' = doing /\ poison' = poison
      /\ UNCHANGED <<mirror, pending, ui, echo, events>> /\ Method \in Methods
  BY DEF EnterMethod, ReturnMethod, ReturnError, InCall, CallInv, IsMethod, Outcomes, paramVars,
     blockVars, uiVars
<1>2. Step[1] # "process"
  BY <1>1, StepIs, EntryOrBlock DEF Spot, Kinds
<1>3. CASE Step[1] # "load_state"
  <2>1. Step[1] # "refresh"
    BY <1>1 DEF Method, Methods
  <2>2. torn' = torn
    BY <1>3 DEF EnterMethod, ReturnMethod, ReturnError, paramVars
  <2>3. params' = params \/ params' = Over(<<>>, params)
    BY <1>2, <1>3 DEF EnterMethod, ReturnMethod, ReturnError, paramVars
  <2>4. ASSUME NEW p \in Ids PROVE params'[p] = params[p]
    <3>1. params \in [Ids -> Values]
      BY DEF DataTypes
    <3>2. PICK s \in State : s = <<>> /\ DOMAIN s = {}
      BY EmptyState
    <3>3. p \in DOMAIN params \ DOMAIN s
      BY <3>1, <3>2
    <3>4. Over(s, params)[p] = params[p]
      BY <3>3, LaidUnder
    <3> QED BY <2>3, <3>2, <3>4
  <2> QED BY <1>1, <1>3, <2>1, <2>2, <2>4, EntryUnmoved
<1>4. CASE Step[1] = "load_state"
  <2>1. Verb(doing) = "set_state" /\ Len(script) = 2
    BY <1>1, <1>4, LoadSteps
  <2>2. ASSUME at' \in {"panic", "ok", "error"} \/ (at' = "between" /\ Len(script') = 1), NEW p
        PROVE  Shown(p)'
    BY <1>1, <2>1, <2>2 DEF Shown, Moving
  <2>3. CASE EnterMethod
    <3>1. at' \in {"panic", "ok", "error"}
      BY <2>3 DEF EnterMethod, Outcomes
    <3> QED BY <1>1, <2>2, <3>1, EntryStep
  <2>4. CASE ReturnMethod
    <3>1. at' = "between" /\ script' = Tail(script)
      BY <1>2, <2>4 DEF ReturnMethod
    <3>2. Len(script') = 1
      BY <1>1, <2>1, <3>1, StepIs
    <3> QED BY <1>1, <2>2, <3>1, <3>2, EntryStep
  <2>5. CASE ReturnError
    <3>1. /\ torn' = torn \cup {p \in Ids : params[p] # mirror[p]} /\ params' = params
          /\ mirror' = mirror
      BY <1>4, <2>5 DEF ReturnError
    <3>2. ASSUME NEW p \in Ids \ torn' PROVE Shown(p)'
      <4>1. mirror'[p] = params'[p]
        BY <3>1
      <4>2. Reached(p)' = params'[p]
        BY <1>1, EntryOrBlock DEF Reached, Collecting
      <4> QED BY <4>1, <4>2 DEF Shown
    <3> QED BY <1>1, <3>2, EntryStep
  <2> QED BY <2>3, <2>4, <2>5
<1> QED BY <1>3, <1>4

(* What a step of an entry leaves where it was stays shown, but for a load under way. *)
LEMMA EntryShown ==
  ASSUME CallInv, MirrorInv, InCall, doing \in Entries, script # <<>>, at # "panic",
         Step[1] \notin {"load_state", "refresh"}, Built, ~poison, NEW p \in Ids \ torn,
         UNCHANGED <<doing, pending, ui, echo>>, mirror'[p] = mirror[p], params'[p] = params[p]
  PROVE  Shown(p)'
<1>1. Shown(p)
  BY DEF MirrorInv, InCall, Outcomes
<1>2. ~Moving(p)
  BY EntryMoving
<1>3. Reached(p) = params[p] /\ ~Upcoming(p) /\ Reached(p)' = params'[p]
  BY NoBlock, EntryOrBlock DEF Reached, Collecting
<1>4. Due(p) \/ mirror[p] = params[p]
  BY <1>1, <1>2, <1>3 DEF Shown
<1>5. Due(p) => Due(p)'
  BY DEF Due, Told
<1> QED BY <1>3, <1>4, <1>5 DEF Shown

LEMMA EntryAgree ==
  ASSUME doing' \notin Blocks, NEW p, mirror'[p] = params'[p]
  PROVE  Shown(p)'
BY DEF Shown, Reached, Collecting

LEMMA EntrySteps ==
  ASSUME CallInv, FlagInv, DataTypes, BuiltInv, MirrorInv, doing \in Entries,
         SetFlag \/ Setup \/ DropEditor \/ Refresh \/ Apply \/ ApplyParams
  PROVE  MirrorInv'
<1>1. CASE SetFlag \/ Setup \/ DropEditor
  <2>1. /\ InCall /\ at # "panic" /\ script # <<>> /\ doing' = doing /\ poison' = poison
        /\ UNCHANGED <<mirror, torn, pending, ui, echo, events, params>>
    BY <1>1 DEF SetFlag, Setup, DropEditor, Doing, InCall, paramVars, blockVars, uiVars
  <2>2. Step[1] \notin {"load_state", "refresh"}
    BY <1>1 DEF SetFlag, Setup, DropEditor, Doing
  <2> QED BY <2>1, <2>2, EntryUnmoved
<1>2. CASE Refresh \/ Apply
  <2>1. InCall /\ doing' = doing /\ events' = events
    BY <1>2 DEF Refresh, Apply, Doing, InCall, blockVars
  <2>2. mirror' = params'
    <3>1. CASE Refresh
      BY <3>1 DEF Refresh
    <3>2. CASE Apply
      BY <3>2 DEF Apply
    <3> QED BY <1>2, <3>1, <3>2
  <2>3. doing' \notin Blocks
    BY <2>1, EntryOrBlock
  <2>4. ASSUME NEW p PROVE Shown(p)'
    BY <2>2, <2>3, EntryAgree
  <2> QED BY <2>1, <2>4, EntryStep
<1>3. CASE ApplyParams
  <2> DEFINE s == doing[2]
  <2>1. /\ InCall /\ at # "panic" /\ script # <<>> /\ Step[1] = "apply_params"
        /\ UNCHANGED <<doing, poison, pending, ui, echo, events>>
        /\ mirror' = Over(s, mirror) /\ params' = Over(s, params) /\ torn' = torn \ DOMAIN s
    BY <1>3 DEF ApplyParams, Doing, InCall, blockVars, uiVars
  <2>2. Built
    BY <2>1, BuiltForApply
  <2>3. DOMAIN mirror = Ids /\ DOMAIN params = Ids /\ doing' \notin Blocks
    BY <2>1, <2>2, EntryOrBlock DEF Built, DataTypes
  <2> HIDE DEF s
  <2>4. ASSUME ~poison', NEW p \in Ids \ torn' PROVE Shown(p)'
    <3>1. CASE p \in DOMAIN s
      <4>1. Over(s, mirror)[p] = s[p]
        BY <3>1, LaidOver
      <4>2. Over(s, params)[p] = s[p]
        BY <3>1, LaidOver
      <4> QED BY <2>1, <2>3, <4>1, <4>2, EntryAgree
    <3>2. CASE p \notin DOMAIN s
      <4>1. p \in Ids \ torn /\ p \in DOMAIN mirror \ DOMAIN s /\ p \in DOMAIN params \ DOMAIN s
        BY <2>1, <2>3, <2>4, <3>2
      <4>2. Over(s, mirror)[p] = mirror[p]
        BY <4>1, LaidUnder
      <4>3. Over(s, params)[p] = params[p]
        BY <4>1, LaidUnder
      <4> QED BY <2>1, <2>2, <2>4, <4>1, <4>2, <4>3, EntryShown
    <3> QED BY <3>1, <3>2
  <2> QED BY <2>1, <2>4, EntryStep
<1> QED BY <1>1, <1>2, <1>3

-----------------------------------------------------------------------------
(* The mirror when a call begins, ends or panics. *)
LEMMA PanicMirror ==
  ASSUME CallInv, MirrorInv, CatchPanic
  PROVE  MirrorInv'
<1>1. poison' = TRUE /\ InCall /\ at' = "between" /\ doing' = doing /\ events' = events
  BY DEF CatchPanic, InCall, Outcomes, blockVars
<1> QED BY <1>1 DEF MirrorInv

LEMMA EndMirror ==
  ASSUME CallInv, DataTypes, MirrorInv, End
  PROVE  MirrorInv'
<1>1. /\ at = "between" /\ script = <<>> /\ InCall /\ at' = "idle" /\ doing' = Nothing
      /\ events' = <<>> /\ poison' = poison /\ UNCHANGED <<mirror, pending, params, torn, ui, echo>>
  BY DEF End, InCall, paramVars, uiVars
<1>2. doing' \notin Blocks
  BY <1>1, EntryOrBlock
<1>3. ASSUME Built', ~poison', NEW p \in Ids \ torn' PROVE Shown(p)'
  <2>1. Shown(p)
    BY <1>1, <1>3 DEF MirrorInv, Built
  <2>2. ~Moving(p)
    BY <1>1 DEF Moving
  <2>3. ~Collecting
    BY <1>1 DEF Collecting, Collects
  <2>4. ~Upcoming(p)
    BY <1>1 DEF Upcoming
  <2>5. Due(p) \/ mirror[p] = params[p]
    BY <2>1, <2>2, <2>3, <2>4 DEF Shown, Reached
  <2>6. CASE Due(p)
    <3>1. Due(p)'
      BY <1>1, <2>6 DEF Due, Told
    <3> QED BY <3>1 DEF Shown
  <2>7. CASE mirror[p] = params[p]
    BY <1>1, <1>2, <2>7, EntryAgree
  <2> QED BY <2>5, <2>6, <2>7
<1> QED BY <1>1, <1>2, <1>3 DEF MirrorInv

LEMMA BeginMirror ==
  ASSUME CallInv, DataTypes, MirrorInv, NEW e \in Entries, Call(e)
  PROVE  MirrorInv'
<1>1. /\ at = "idle" /\ doing = Nothing /\ at' = "between" /\ doing' = e /\ ui = UiIdle
      /\ UNCHANGED <<mirror, pending, params, torn, ui, echo, events, poison>>
  BY DEF Call, Enters, paramVars, blockVars, uiVars, CallInv
<1>2. doing' \notin Blocks /\ doing \notin Blocks
  BY <1>1, EntryOrBlock
<1>3. ASSUME Built', ~poison', NEW p \in Ids \ torn' PROVE Shown(p)'
  <2>1. Shown(p)
    BY <1>1, <1>3 DEF MirrorInv, Built
  <2>2. ~Moving(p)
    BY <1>1 DEF Moving, Outcomes
  <2>3. Due(p) \/ mirror[p] = params[p]
    BY <1>2, <2>1, <2>2, NoBlock DEF Shown
  <2>4. CASE Due(p)
    <3>1. Due(p)'
      BY <1>1, <2>4 DEF Due, Told
    <3> QED BY <3>1 DEF Shown
  <2>5. CASE mirror[p] = params[p]
    BY <1>1, <1>2, <2>5, EntryAgree
  <2> QED BY <2>3, <2>4, <2>5
<1>4. events' = <<>>
  BY <1>1 DEF MirrorInv
<1> QED BY <1>2, <1>3, <1>4 DEF MirrorInv

(* A block takes the edits the host was told of with it. *)
LEMMA BlockMirror ==
  ASSUME CallInv, FlagInv, DataTypes, MirrorInv, NEW e \in Blocks, CallProcess(e)
  PROVE  MirrorInv'
<1>1. /\ at = "idle" /\ doing = Nothing /\ at' = "between" /\ doing' = e /\ script' = Body(e)
      /\ events' = <<>> /\ sent' = <<>> /\ echo' = <<>> /\ Body(e) # <<>>
      /\ UNCHANGED <<mirror, pending, params, torn, ui, poison>>
      /\ \A p \in DOMAIN echo : p \in DOMAIN e[3]
  BY DEF CallProcess, Enters, paramVars, CallInv
<1>2. doing \notin Blocks /\ setup \in Nat
  BY <1>1, EntryOrBlock DEF FlagInv, Sizes
<1>3. e[3] \in State
  BY BlockShape DEF State
<1>4. /\ Len(Body(e)) = Len(InState(e[3])) + 2
      /\ \A i \in 1 .. Len(InState(e[3])) : Body(e)[i + 1] = <<"lane", InState(e[3])[i]>>
  BY <1>1, <1>2, BlockBody
<1>5. ASSUME NEW p \in DOMAIN e[3] PROVE Upcoming(p)'
  <2> DEFINE n == Len(InState(e[3]))
  <2>1. InState(e[3]) \in Seq(Ids) /\ \E i \in 1 .. n : InState(e[3])[i] = p
    BY <1>3, StateListed
  <2>2. n \in Nat
    BY <2>1, LenProperties
  <2>3. PICK i \in 1 .. n : InState(e[3])[i] = p
    BY <2>1
  <2> DEFINE b == Body(e)  j == i + 1
  <2>4. b[j] = <<"lane", p>> /\ Len(b) = n + 2
    BY <1>4, <2>3
  <2> HIDE DEF n, b
  <2>5. j \in 1 .. Len(b)
    BY <2>2, <2>4
  <2>6. \E x \in 1 .. Len(b) : b[x] \in {<<"read", p>>, <<"lane", p>>, <<"emit", p>>}
    BY <2>4, <2>5
  <2> QED BY <1>1, <2>6 DEF Upcoming, b
<1>6. ASSUME Built', ~poison', NEW p \in Ids \ torn' PROVE Shown(p)'
  <2>1. Shown(p)
    BY <1>1, <1>6 DEF MirrorInv, Built
  <2>2. ~Moving(p)
    BY <1>1 DEF Moving, Outcomes
  <2>3. Due(p) \/ mirror[p] = params[p]
    BY <1>2, <2>1, <2>2, NoBlock DEF Shown
  <2>4. CASE p \in DOMAIN echo
    <3>1. p \in DOMAIN e[3]
      BY <1>1, <2>4
    <3> QED BY <1>5, <3>1 DEF Shown
  <2>5. CASE Due(p) /\ p \notin DOMAIN echo
    <3>1. Due(p)'
      BY <1>1, <2>5 DEF Due, Told
    <3> QED BY <3>1 DEF Shown
  <2>6. CASE mirror[p] = params[p]
    <3>1. Applied'[p] = params[p]
      BY <1>1 DEF Applied, EventsOf
    <3>2. Reached(p)' = params[p]
      BY <1>1, <3>1 DEF Reached
    <3> QED BY <1>1, <2>6, <3>2 DEF Shown
  <2> QED BY <2>3, <2>4, <2>5, <2>6
<1>7. ~poison' /\ doing' \in Blocks /\ (at' = "ok" \/ (at' = "between" /\ Tells(script', sent'))) =>
        \A p \in DOMAIN sent' : Told(p)' \/ params'[p] = sent'[p]
  BY <1>1, EmptyState
<1> QED BY <1>1, <1>6, <1>7, EntryOrBlock DEF MirrorInv, InCall

-----------------------------------------------------------------------------
(* The mirror in a block. *)
LEMMA BlockStep ==
  ASSUME at' # "idle", doing' \in Blocks,
         Built' /\ ~poison' => \A p \in Ids \ torn' : Shown(p)',
         ~poison' /\ (at' = "ok" \/ (at' = "between" /\ Tells(script', sent'))) =>
           \A p \in DOMAIN sent' : Told(p)' \/ params'[p] = sent'[p]
  PROVE  MirrorInv'
BY EntryOrBlock DEF MirrorInv

LEMMA AtProcess ==
  ASSUME CallInv, InCall, doing \in Blocks, script # <<>>,
         Step[1] \notin {"swap", "read", "lane", "emit"}
  PROVE  /\ Step[1] = "process" /\ script = <<<<"process", doing[2]>>>> /\ Len(script) = 1
         /\ Tail(script) = <<>>
         /\ at \in Outcomes \/ (at = "between" /\ sent = <<>> /\ Collects(script, doing))
<1>1. BlockAt
  BY StepIs, EntryOrBlock
<1>2. /\ script = <<<<"process", doing[2]>>>>
      /\ at \in Outcomes \/ (at = "between" /\ sent = <<>> /\ Collects(script, doing))
  BY <1>1 DEF BlockAt, Step
<1>3. Len(script) = 1 /\ script[1] = <<"process", doing[2]>>
  BY <1>2
<1>4. Len(Tail(script)) = 0 /\ Tail(script) \in Seq(Steps)
  BY <1>3, StepIs
<1>5. Tail(script) = <<>>
  BY <1>4, EmptySeq
<1> QED BY <1>2, <1>3, <1>5 DEF Step

(* Process is the last step that brings a parameter. *)
LEMMA NoneUpcoming ==
  ASSUME script = <<<<"process", doing[2]>>>>, Len(script) = 1, NEW p
  PROVE  ~Upcoming(p)
<1>1. script[1][1] = "process"
  OBVIOUS
<1>2. ASSUME NEW i \in 1 .. Len(script), script[i] \in {<<"read", p>>, <<"lane", p>>, <<"emit", p>>}
      PROVE  FALSE
  <2>1. i = 1
    BY <1>2
  <2>2. script[1][1] \in {"read", "lane", "emit"}
    BY <1>2, <2>1
  <2> QED BY <1>1, <2>2
<1> QED BY <1>2 DEF Upcoming

LEMMA RefuseMirror ==
  ASSUME CallInv, FlagInv, MirrorInv, RefuseMethod
  PROVE  MirrorInv'
<1>1. /\ at = "between" /\ at' = "between" /\ InCall /\ IsMethod /\ ~Ready(Method, Step[2])
      /\ UNCHANGED <<doing, poison, mirror, pending, params, events, sent, ui, echo>>
      /\ script # <<>>
  BY DEF RefuseMethod, InCall, IsMethod, blockVars, uiVars
<1>2. doing \in Blocks /\ Step[1] = "process"
  BY <1>1, RefusesBlocks
<1>3. script' = <<>> /\ torn' = torn \cup {events[i][1] : i \in DOMAIN events}
  BY <1>2 DEF RefuseMethod, After, GoesOn
<1>4. script = <<<<"process", doing[2]>>>> /\ Len(script) = 1 /\ sent = <<>>
  BY <1>1, <1>2, AtProcess DEF Outcomes
<1>5. ASSUME Built', ~poison', NEW p \in Ids \ torn' PROVE Shown(p)'
  <2>1. Shown(p)
    BY <1>1, <1>3, <1>5 DEF MirrorInv, Built
  <2>2. ~Moving(p) /\ ~Upcoming(p)
    BY <1>1, <1>2, <1>4, NoneUpcoming, EntryOrBlock DEF Moving
  <2>3. \A i \in DOMAIN events : events[i][1] # p
    BY <1>3, <1>5
  <2>4. Reached(p) = params[p]
    BY <1>5, <2>3, AppliedNone DEF Reached
  <2>5. Reached(p)' = params'[p]
    BY <1>3 DEF Reached, Collecting, Collects
  <2>6. Due(p) \/ mirror[p] = params[p]
    BY <2>1, <2>2, <2>4 DEF Shown
  <2>7. Due(p) => Due(p)'
    BY <1>1 DEF Due, Told
  <2> QED BY <1>1, <2>5, <2>6, <2>7 DEF Shown
<1>6. DOMAIN sent' = {}
  BY <1>1, <1>4, EmptyState
<1> QED BY <1>1, <1>2, <1>5, <1>6, BlockStep

(* What process moved it will tell. *)
LEMMA EnterMirror ==
  ASSUME CallInv, DataTypes, MirrorInv, doing \in Blocks, EnterMethod
  PROVE  MirrorInv'
<1>1. /\ at = "between" /\ InCall /\ IsMethod /\ script # <<>>
      /\ UNCHANGED <<doing, script, poison, mirror, pending, torn, events, ui, echo>>
      /\ at' \in Outcomes /\ at' \in Possible(Method)
  BY DEF EnterMethod, InCall, IsMethod, uiVars, Enter
<1>2. Step[1] \notin {"swap", "read", "lane", "emit"}
  BY <1>1 DEF IsMethod, Method, Methods
<1>3. /\ Step[1] = "process" /\ script = <<<<"process", doing[2]>>>> /\ Len(script) = 1
      /\ Collects(script, doing)
  BY <1>1, <1>2, AtProcess DEF Outcomes
<1>4. at' \in {"ok", "panic"}
  BY <1>1, <1>3 DEF Possible, Method, Outcomes
<1>5. PICK moved \in Moves : params' = Over(moved, Applied) /\ sent' = moved
  BY <1>3 DEF EnterMethod
<1>6. DOMAIN Applied = Ids
  BY DEF Applied
<1>7. ASSUME Built', ~poison', NEW p \in Ids \ torn' PROVE Shown(p)'
  <2>1. CASE at' = "panic" \/ p \in DOMAIN moved
    BY <1>1, <1>4, <1>5, <2>1 DEF Shown, Moving
  <2>2. CASE p \notin DOMAIN moved
    <3>1. Shown(p)
      BY <1>1, <1>7 DEF MirrorInv, Built
    <3>2. ~Moving(p) /\ ~Upcoming(p)
      BY <1>1, <1>3, NoneUpcoming, EntryOrBlock DEF Moving
    <3>3. Reached(p) = Applied[p]
      BY <1>1, <1>3 DEF Reached, Collecting
    <3>4. p \in DOMAIN Applied \ DOMAIN moved
      BY <1>6, <2>2
    <3>5. Over(moved, Applied)[p] = Applied[p]
      BY <3>4, LaidUnder
    <3>6. Reached(p)' = params'[p]
      BY <1>4 DEF Reached, Collecting
    <3>7. Due(p) \/ mirror[p] = Applied[p]
      BY <3>1, <3>2, <3>3 DEF Shown
    <3>8. Due(p) => Due(p)'
      BY <1>1 DEF Due, Told
    <3> QED BY <1>1, <1>5, <3>5, <3>6, <3>7, <3>8 DEF Shown
  <2> QED BY <2>1, <2>2
<1>8. ASSUME NEW p \in DOMAIN sent' PROVE params'[p] = sent'[p]
  BY <1>5, <1>8, LaidOver
<1> QED BY <1>1, <1>4, <1>7, <1>8, BlockStep

LEMMA ReturnMirror ==
  ASSUME CallInv, MirrorInv, doing \in Blocks, ReturnMethod
  PROVE  MirrorInv'
<1>1. /\ at = "ok" /\ at' = "between" /\ InCall /\ script # <<>> /\ sent \in State
      /\ UNCHANGED <<doing, poison, mirror, pending, params, torn, events, sent, ui, echo>>
      /\ Method \in Methods
  BY DEF ReturnMethod, InCall, CallInv, IsMethod, Outcomes, paramVars, blockVars, uiVars
<1>2. Step[1] \notin {"swap", "read", "lane", "emit"}
  BY <1>1 DEF Method, Methods
<1>3. Step[1] = "process" /\ script = <<<<"process", doing[2]>>>> /\ Len(script) = 1
  BY <1>1, <1>2, AtProcess
<1>4. script' = Each("emit", InState(sent))
  BY <1>3 DEF ReturnMethod
<1>5. ~Collects(script', doing')
  <2>1. script' \in Seq(Steps) /\ Tells(script', sent)
    BY <1>1, <1>4, EachTells
  <2> QED BY <2>1, TellsApart
<1>6. ASSUME NEW p \in DOMAIN sent PROVE Upcoming(p)'
  <2> DEFINE ids == InState(sent)
  <2>1. ids \in Seq(Ids) /\ \E i \in 1 .. Len(ids) : ids[i] = p
    BY <1>1, StateListed
  <2>2. PICK i \in 1 .. Len(ids) : ids[i] = p
    BY <2>1
  <2> HIDE DEF ids
  <2>3. Len(Each("emit", ids)) = Len(ids) /\ Each("emit", ids)[i] = <<"emit", p>>
    BY <2>1, <2>2, EachListed DEF ParamKinds
  <2>4. Len(script') = Len(ids) /\ script'[i] = <<"emit", p>>
    BY <1>4, <2>3 DEF ids
  <2> QED BY <1>1, <2>4 DEF Upcoming
<1>7. ASSUME Built', ~poison', NEW p \in Ids \ torn' PROVE Shown(p)'
  <2>1. CASE p \in DOMAIN sent
    BY <1>6, <2>1 DEF Shown
  <2>2. CASE p \notin DOMAIN sent
    <3>1. Shown(p)
      BY <1>1, <1>7 DEF MirrorInv, Built
    <3>2. ~Moving(p) /\ ~Upcoming(p)
      BY <1>1, <1>3, <2>2, NoneUpcoming, EntryOrBlock DEF Moving
    <3>3. Reached(p) = params[p] /\ Reached(p)' = params'[p]
      BY <1>1, <1>5 DEF Reached, Collecting
    <3>4. Due(p) \/ mirror[p] = params[p]
      BY <3>1, <3>2, <3>3 DEF Shown
    <3>5. Due(p) => Due(p)'
      BY <1>1 DEF Due, Told
    <3> QED BY <1>1, <3>3, <3>4, <3>5 DEF Shown
  <2> QED BY <2>1, <2>2
<1>8. ASSUME ~poison', NEW p \in DOMAIN sent' PROVE Told(p)' \/ params'[p] = sent'[p]
  BY <1>1, <1>8 DEF MirrorInv, Told
<1> QED BY <1>1, <1>7, <1>8, BlockStep

(* The flag is down, and until they are read every parameter waits to be. *)
LEMMA SwapMirror ==
  ASSUME CallInv, MirrorInv, SwapPending
  PROVE  MirrorInv'
<1>1. /\ at = "between" /\ at' = "between" /\ InCall /\ Doing("swap") /\ script # <<>>
      /\ UNCHANGED <<doing, poison, mirror, params, torn, events, sent, ui, echo>>
      /\ Step[1] = "swap" /\ doing' = doing
      /\ script' = (IF pending THEN Each("read", Params) ELSE <<>>) \o Tail(script)
  BY DEF SwapPending, Doing, InCall, blockVars, uiVars
<1>2. /\ doing \in Blocks /\ Collects(script, doing) /\ Collects(Tail(script), doing)
      /\ script \in Seq(Steps) /\ CallInv'
  BY SwapCall
<1>3. Tail(script) \in Seq(Steps) /\ Tail(script) # <<>>
  BY <1>1, <1>2, StepIs DEF Collects
<1>4. sent = <<>>
  <2>1. ~Tells(script, sent)
    BY <1>2, TellsApart
  <2> QED BY <1>1, <1>2, <2>1 DEF CallInv, Outcomes
<1>5. CASE pending
  <2> DEFINE reads == Each("read", Params)  t == Tail(script)
  <2>1. /\ reads \in Seq(Steps) /\ Len(reads) = Len(Params)
        /\ \A i \in 1 .. Len(Params) : reads[i] = <<"read", Params[i]>>
    BY ParamsListed, EachListed DEF ParamKinds
  <2>2. script' = reads \o t
    BY <1>1, <1>5
  <2> HIDE DEF reads, t
  <2>3. t \in Seq(Steps)
    BY <1>3 DEF t
  <2>4. /\ Len(reads \o t) = Len(reads) + Len(t)
        /\ \A i \in 1 .. Len(reads) : (reads \o t)[i] = reads[i]
        /\ Len(t) \in Nat /\ Len(reads) \in Nat
    BY <2>1, <2>3, StepsInARow, LenProperties
  <2>5. ASSUME NEW p \in Ids PROVE Upcoming(p)'
    <3>1. PICK i \in 1 .. Len(Params) : Params[i] = p
      BY ParamsListed
    <3>2. i \in 1 .. Len(reads \o t) /\ (reads \o t)[i] = <<"read", p>>
      BY <2>1, <2>4, <3>1
    <3> QED BY <1>1, <1>2, <2>2, <3>2 DEF Upcoming
  <2>6. ASSUME NEW p \in Ids \ torn' PROVE Shown(p)'
    BY <2>5 DEF Shown
  <2>7. DOMAIN sent' = {}
    BY <1>1, <1>4, EmptyState
  <2> QED BY <1>1, <1>2, <2>6, <2>7, BlockStep
<1>6. CASE ~pending
  <2>1. script' = Tail(script)
    <3>1. script' = <<>> \o Tail(script)
      BY <1>1, <1>6
    <3> QED BY <1>3, <3>1
  <2>2. ASSUME Built', ~poison', NEW p \in Ids \ torn' PROVE Shown(p)'
    <3>1. Shown(p)
      BY <1>1, <2>2 DEF MirrorInv, Built
    <3>2. ~Moving(p)
      BY <1>1, <1>2, EntryOrBlock DEF Moving
    <3>3. Reached(p)' = Reached(p)
      BY <1>1, <1>2, <2>1, AppliedKeeps DEF Reached, Collecting
    <3>4. Step \notin {<<"read", p>>, <<"lane", p>>, <<"emit", p>>}
      BY <1>1
    <3>5. Upcoming(p) => Upcoming(p)'
      BY <1>1, <1>2, <2>1, <3>4, UpcomingTail
    <3>6. Due(p) => Due(p)'
      BY <1>1, <1>6 DEF Due, Told
    <3> QED BY <1>1, <3>1, <3>2, <3>3, <3>5, <3>6 DEF Shown
  <2>3. DOMAIN sent' = {}
    BY <1>1, <1>4, EmptyState
  <2> QED BY <1>1, <1>2, <2>2, <2>3, BlockStep
<1> QED BY <1>5, <1>6

(* A value given to the block, and to the mirror if it came with the block. *)
LEMMA PushMirror ==
  ASSUME CallInv, DataTypes, MirrorInv, InCall, at = "between", doing \in Blocks,
         script # <<>>, Step[1] \in {"read", "lane"}, Built,
         NEW q \in Ids, q = Step[2], NEW v \in Values, Push(q, v),
         script' = Tail(script),
         UNCHANGED <<at, doing, poison, pending, params, sent, ui, echo>>,
         mirror' = [mirror EXCEPT ![q] = v]
  PROVE  MirrorInv'
<1>1. BlockAt /\ Tail(script) \in Seq(Steps) /\ script \in Seq(Steps)
  BY StepIs, EntryOrBlock DEF CallInv
<1>2. Collects(script, doing) /\ sent = <<>> /\ Len(script) > 1
  BY <1>1 DEF BlockAt, Step, Outcomes
<1>3. Collects(Tail(script), doing)
  BY <1>1, <1>2, CollectsTail
<1>4. Collecting /\ Collecting'
  BY <1>2, <1>3 DEF Collecting
<1>5. events \in Seq(Ids \X Values) /\ DOMAIN mirror = Ids
  BY DEF DataTypes, Built
<1>6. ASSUME ~poison', NEW p \in Ids \ torn' PROVE Shown(p)'
  <2>1. CASE p = q
    <3>1. events' = Append(events, <<q, v>>)
      BY <1>6, <2>1 DEF Push
    <3>2. Applied'[p] = v
      BY <1>5, <2>1, <3>1, AppliedLast
    <3>3. mirror'[p] = v
      BY <1>5, <2>1
    <3> QED BY <1>4, <3>2, <3>3 DEF Shown, Reached
  <2>2. CASE p # q
    <3>1. p \notin torn
      BY <1>6, <2>2 DEF Push
    <3>2. Shown(p)
      BY <1>6, <3>1 DEF MirrorInv
    <3>3. Applied'[p] = Applied[p]
      <4>1. CASE events' = events
        BY <4>1, AppliedKeeps
      <4>2. CASE events' = Append(events, <<q, v>>)
        BY <1>5, <2>2, <4>2, AppliedOther
      <4> QED BY <4>1, <4>2 DEF Push
    <3>4. Reached(p)' = Reached(p)
      BY <1>4, <3>3 DEF Reached
    <3>5. Step \notin {<<"read", p>>, <<"lane", p>>, <<"emit", p>>}
      <4>1. Step[2] # p
        BY <2>2
      <4> QED BY <4>1
    <3>6. Upcoming(p) => Upcoming(p)'
      BY <1>1, <3>5, UpcomingTail
    <3>7. mirror'[p] = mirror[p]
      BY <1>5, <2>2
    <3>8. ~Moving(p)
      BY EntryOrBlock DEF Moving
    <3> QED BY <3>2, <3>4, <3>6, <3>7, <3>8, ShownCarries
  <2> QED BY <2>1, <2>2
<1>7. DOMAIN sent' = {}
  BY <1>2, EmptyState
<1> QED BY <1>6, <1>7, BlockStep

LEMMA EmitMirror ==
  ASSUME CallInv, MirrorInv, InCall, at = "between", doing \in Blocks, script # <<>>,
         Step[1] = "emit", Built, NEW q \in DOMAIN sent, q = Step[2], script' = Tail(script),
         UNCHANGED <<at, doing, poison, pending, params, events, sent, ui, echo>>,
         mirror' = [mirror EXCEPT ![q] = sent[q]], torn' = torn \ {q}
  PROVE  MirrorInv'
<1>1. BlockAt /\ Tail(script) \in Seq(Steps) /\ script \in Seq(Steps)
  BY StepIs, EntryOrBlock DEF CallInv
<1>2. Tells(script, sent)
  BY <1>1 DEF BlockAt, Step, Outcomes
<1>3. Tells(Tail(script), sent)
  BY <1>1, <1>2, TellsTail
<1>4. ~Collects(script, doing) /\ ~Collects(Tail(script), doing)
  BY <1>1, <1>2, <1>3, TellsApart
<1>5. ASSUME ~poison, NEW p \in DOMAIN sent PROVE Told(p) \/ params[p] = sent[p]
  BY <1>2, <1>5 DEF MirrorInv
<1>6. ASSUME ~poison', NEW p \in Ids \ torn' PROVE Shown(p)'
  <2>1. Reached(p) = params[p] /\ Reached(p)' = params'[p]
    BY <1>4 DEF Reached, Collecting
  <2>2. CASE p = q
    <3>1. mirror'[p] = sent[p]
      BY <1>6, <2>2 DEF Built
    <3>2. Told(p) => Told(p)'
      BY DEF Told
    <3> QED BY <1>5, <1>6, <2>1, <2>2, <3>1, <3>2 DEF Shown, Due
  <2>3. CASE p # q
    <3>1. Shown(p)
      BY <1>6, <2>3 DEF MirrorInv
    <3>2. Reached(p)' = Reached(p)
      BY <2>1
    <3>3. Step \notin {<<"read", p>>, <<"lane", p>>, <<"emit", p>>}
      <4>1. Step[2] # p
        BY <2>3
      <4> QED BY <4>1
    <3>4. Upcoming(p) => Upcoming(p)'
      BY <1>1, <3>3, UpcomingTail
    <3>5. mirror'[p] = mirror[p]
      BY <2>3 DEF Built
    <3>6. ~Moving(p)
      BY EntryOrBlock DEF Moving
    <3> QED BY <3>1, <3>2, <3>4, <3>5, <3>6, ShownCarries
  <2> QED BY <2>2, <2>3
<1>7. ASSUME ~poison', NEW p \in DOMAIN sent' PROVE Told(p)' \/ params'[p] = sent'[p]
  BY <1>5, <1>7 DEF Told
<1> QED BY <1>6, <1>7, BlockStep

(* With a host that takes no output changes, either the mirror shows already what the block
   told, or the parameter is torn. *)
LEMMA EmitNothingMirror ==
  ASSUME CallInv, MirrorInv, EmitNothing, doing \in Blocks
  PROVE  MirrorInv'
<1>1. /\ at = "between" /\ InCall /\ script # <<>> /\ Step[1] = "emit" /\ script' = <<>>
      /\ torn' = torn \cup {p \in DOMAIN sent : mirror[p] # sent[p]}
      /\ UNCHANGED <<at, doing, poison, mirror, pending, params, events, sent, ui, echo>>
  BY DEF EmitNothing, Doing, InCall, blockVars, uiVars
<1>2. BlockAt /\ script \in Seq(Steps)
  BY <1>1, StepIs, EntryOrBlock DEF CallInv
<1>3. Tells(script, sent) /\ Tells(<<>>, sent)
  BY <1>1, <1>2, TellsNothing DEF BlockAt, Step, Outcomes
<1>4. ~Collects(script, doing) /\ ~Collects(<<>>, doing)
  BY <1>2, <1>3, TellsApart DEF Collects
<1>5. ASSUME ~poison, NEW p \in DOMAIN sent PROVE Told(p) \/ params[p] = sent[p]
  BY <1>1, <1>3, <1>5 DEF MirrorInv
<1>6. ASSUME Built', ~poison', NEW p \in Ids \ torn' PROVE Shown(p)'
  <2>1. Reached(p) = params[p] /\ Reached(p)' = params'[p]
    BY <1>1, <1>4 DEF Reached, Collecting
  <2>2. (Told(p) => Told(p)') /\ (Due(p) => Due(p)')
    BY <1>1 DEF Told, Due
  <2>3. CASE p \in DOMAIN sent
    <3>1. mirror'[p] = sent[p]
      BY <1>1, <1>6, <2>3
    <3> QED BY <1>1, <1>5, <1>6, <2>1, <2>2, <2>3, <3>1 DEF Shown, Due
  <2>4. CASE p \notin DOMAIN sent
    <3>1. Shown(p)
      BY <1>1, <1>6 DEF MirrorInv, Built
    <3>2. ~Upcoming(p)
      BY <1>3, <2>4 DEF Tells, Upcoming
    <3>3. ~Moving(p)
      BY <1>1, EntryOrBlock DEF Moving
    <3> QED BY <1>1, <2>1, <2>2, <3>1, <3>2, <3>3 DEF Shown
  <2> QED BY <2>3, <2>4
<1>7. ASSUME ~poison', NEW p \in DOMAIN sent' PROVE Told(p)' \/ params'[p] = sent'[p]
  BY <1>1, <1>5, <1>7 DEF Told
<1> QED BY <1>1, <1>6, <1>7, BlockStep

LEMMA BlockSteps ==
  ASSUME CallInv, FlagInv, DataTypes, BuiltInv, MirrorInv, ReadMirror \/ DrainLane \/ Emit
  PROVE  MirrorInv'
<1>1. /\ at = "between" /\ InCall /\ script # <<>> /\ Step[1] \in {"read", "lane", "emit"}
      /\ UNCHANGED <<at, doing, poison, params, pending, sent, echo, ui>>
      /\ script' = Tail(script)
  BY DEF ReadMirror, DrainLane, Emit, Doing, InCall, After, blockVars, uiVars
<1>2. doing \in Blocks /\ BlockAt
  BY <1>1, StepIs DEF Spot, Kinds
<1>3. Built
  BY <1>1, <1>2, BuiltInBlock
<1>4. doing[3] \in State /\ sent \in State
  BY <1>2, BlockShape DEF CallInv, State
<1>5. /\ Step[1] = "read" => Step[2] \in Ids
      /\ Step[1] = "lane" => Step[2] \in DOMAIN doing[3]
      /\ Step[1] = "emit" => Step[2] \in DOMAIN sent
  BY <1>1, <1>2 DEF BlockAt, Step, Outcomes
<1>6. CASE ReadMirror
  <2> DEFINE q == Step[2]  v == mirror[q]
  <2>1. Step[1] = "read" /\ Push(q, v) /\ mirror' = mirror
    BY <1>6 DEF ReadMirror, Doing
  <2>2. q \in Ids /\ v \in Values
    BY <1>3, <1>5, <2>1 DEF Built
  <2>3. mirror' = [mirror EXCEPT ![q] = v]
    BY <1>3, <2>1, <2>2 DEF Built
  <2> QED BY <1>1, <1>2, <1>3, <2>1, <2>2, <2>3, PushMirror
<1>7. CASE DrainLane
  <2> DEFINE q == Step[2]  v == doing[3][q]
  <2>1. Step[1] = "lane" /\ Push(q, v) /\ mirror' = [mirror EXCEPT ![q] = v]
    BY <1>7 DEF DrainLane, Doing
  <2>2. q \in Ids /\ v \in Values
    BY <1>4, <1>5, <2>1, StateShape
  <2> QED BY <1>1, <1>2, <1>3, <2>1, <2>2, PushMirror
<1>8. CASE Emit
  <2> DEFINE q == Step[2]
  <2>1. /\ Step[1] = "emit" /\ mirror' = [mirror EXCEPT ![q] = sent[q]] /\ torn' = torn \ {q}
        /\ events' = events
    BY <1>8 DEF Emit, Doing, blockVars
  <2>2. q \in DOMAIN sent
    BY <1>5, <2>1
  <2> QED BY <1>1, <1>2, <1>3, <2>1, <2>2, EmitMirror
<1> QED BY <1>6, <1>7, <1>8

-----------------------------------------------------------------------------
(* The mirror and the UI thread, which may come between any two steps of a block. *)
LEMMA UiMirror ==
  ASSUME MirrorInv, UNCHANGED <<callVars, blockVars, poison>>,
         ~poison' /\ at' # "aborted" /\ Built' => \A p \in Ids \ torn' : Shown(p)',
         \A p \in DOMAIN sent : Told(p) \/ params[p] = sent[p] => Told(p)' \/ params'[p] = sent[p]
  PROVE  MirrorInv'
<1>1. UNCHANGED <<at, doing, script, events, sent>>
  BY DEF callVars, blockVars
<1>2. Tells(script, sent)' = Tells(script, sent) /\ InCall' = InCall
  BY <1>1 DEF InCall
<1> QED BY <1>1, <1>2 DEF MirrorInv

(* The call and the block's events are as they were. *)
LEMMA UiAside ==
  ASSUME UNCHANGED <<callVars, blockVars>>, NEW p \in Ids
  PROVE  /\ Upcoming(p)' = Upcoming(p) /\ Moving(p)' = Moving(p)
         /\ params'[p] = params[p] => Reached(p)' = Reached(p)
<1>1. UNCHANGED <<at, doing, script, events, sent>>
  BY DEF callVars, blockVars
<1>2. Upcoming(p)' = Upcoming(p) /\ Moving(p)' = Moving(p) /\ Collecting' = Collecting
  BY <1>1 DEF Upcoming, Moving, Collecting
<1>3. ASSUME params'[p] = params[p] PROVE Reached(p)' = Reached(p)
  <2>1. Applied'[p] = Applied[p]
    BY <1>1, <1>3, AppliedKeeps
  <2> QED BY <1>2, <1>3, <2>1 DEF Reached
<1> QED BY <1>2, <1>3

LEMMA SetMirrorMirror ==
  ASSUME MirrorInv, SetMirror \/ RaisePending
  PROVE  MirrorInv'
<1>1. UNCHANGED <<callVars, blockVars, poison, echo, params, sent>>
  BY DEF SetMirror, RaisePending, blockVars
<1>2. ui' = <<"set">> \/ pending' = TRUE
  BY DEF SetMirror, RaisePending
<1>3. \A p : Shown(p)'
  BY <1>2 DEF Shown, Due
<1>4. ui[1] # "moved"
  BY DEF SetMirror, RaisePending, Controller, UiFree, UiIdle
<1>5. \A p : Told(p) => Told(p)'
  BY <1>1, <1>4 DEF Told
<1> QED BY <1>1, <1>3, <1>5, UiMirror

LEMMA ComponentStateMirror ==
  ASSUME DataTypes, MirrorInv, SetComponentState
  PROVE  MirrorInv'
<1>1. /\ UNCHANGED <<callVars, blockVars, poison>>
      /\ UNCHANGED <<pending, ui, echo, params, sent, at>> /\ mirror # <<>>
  BY DEF SetComponentState, blockVars, uiVars, callVars
<1>2. PICK s \in State : /\ mirror' = Over(s, mirror)
                         /\ torn' = torn \cup {p \in DOMAIN s : mirror[p] # s[p]}
  BY DEF SetComponentState
<1>3. Built
  BY <1>1 DEF DataTypes, Built
<1>4. ASSUME ~poison', at' # "aborted", NEW p \in Ids \ torn' PROVE Shown(p)'
  <2>1. Shown(p)
    BY <1>1, <1>2, <1>3, <1>4 DEF MirrorInv
  <2>2. mirror'[p] = mirror[p]
    <3>1. CASE p \in DOMAIN s
      <4>1. mirror[p] = s[p]
        BY <1>2, <1>4, <3>1
      <4>2. Over(s, mirror)[p] = s[p]
        BY <3>1, LaidOver
      <4> QED BY <1>2, <4>1, <4>2
    <3>2. CASE p \notin DOMAIN s
      <4>1. p \in DOMAIN mirror \ DOMAIN s
        BY <1>3, <3>2 DEF Built
      <4>2. Over(s, mirror)[p] = mirror[p]
        BY <4>1, LaidUnder
      <4> QED BY <1>2, <4>2
    <3> QED BY <3>1, <3>2
  <2>3. Upcoming(p)' = Upcoming(p) /\ Moving(p)' = Moving(p) /\ Reached(p)' = Reached(p)
    BY <1>1, UiAside
  <2> QED BY <1>1, <2>1, <2>2, <2>3, ShownCarries
<1>5. \A p : Told(p)' = Told(p)
  BY <1>1 DEF Told
<1> QED BY <1>1, <1>4, <1>5, UiMirror

LEMMA EditorMovesMirror ==
  ASSUME DataTypes, MirrorInv, EditorMoves
  PROVE  MirrorInv'
<1>1. /\ UNCHANGED <<callVars, blockVars, poison>>
      /\ UNCHANGED <<mirror, pending, torn, echo, sent, at>> /\ ui = UiIdle
  BY DEF EditorMoves, UiFree, blockVars, callVars
<1>2. PICK q \in Ids, v \in Values : params' = [params EXCEPT ![q] = v] /\ ui' = <<"moved", q, v>>
  BY DEF EditorMoves
<1>3. Told(q)'
  BY <1>2 DEF Told
<1>4. ui[1] = "idle" /\ ui # <<"set">>
  BY <1>1 DEF UiIdle
<1>5. ASSUME NEW p \in Ids, p # q
      PROVE  params'[p] = params[p] /\ (Told(p) => Told(p)') /\ (Due(p) => Due(p)')
  BY <1>1, <1>2, <1>4, <1>5 DEF Told, Due, DataTypes
<1>6. ASSUME ~poison', at' # "aborted", Built', NEW p \in Ids \ torn' PROVE Shown(p)'
  <2>1. CASE p = q
    BY <1>3, <2>1 DEF Shown, Due
  <2>2. CASE p # q
    <3>1. Shown(p)
      BY <1>1, <1>6 DEF MirrorInv, Built
    <3>2. Upcoming(p)' = Upcoming(p) /\ Moving(p)' = Moving(p) /\ Reached(p)' = Reached(p)
      BY <1>1, <1>5, <2>2, UiAside
    <3> QED BY <1>1, <1>5, <2>2, <3>1, <3>2 DEF Shown
  <2> QED BY <2>1, <2>2
<1>7. ASSUME NEW p \in DOMAIN sent, Told(p) \/ params[p] = sent[p]
      PROVE  Told(p)' \/ params'[p] = sent[p]
  <2>1. CASE p = q
    BY <1>3, <2>1
  <2>2. CASE p # q
    <3>1. params'[p] = params[p]
      BY <1>2, <2>2 DEF DataTypes
    <3>2. Told(p) => Told(p)'
      BY <1>1, <1>4 DEF Told
    <3> QED BY <1>7, <3>1, <3>2
  <2> QED BY <2>1, <2>2
<1> QED BY <1>1, <1>6, <1>7, UiMirror

LEMMA EditorReportsMirror ==
  ASSUME DataTypes, BuiltInv, MirrorInv, EditorReports
  PROVE  MirrorInv'
<1> DEFINE q == ui[2]
<1>1. /\ UNCHANGED <<callVars, blockVars, poison>>
      /\ UNCHANGED <<pending, torn, params, sent, at>> /\ ui[1] = "moved"
      /\ mirror' = [mirror EXCEPT ![q] = ui[3]] /\ echo' = Over(Just(q, ui[3]), echo)
  BY DEF EditorReports, blockVars, callVars
<1>2. Built /\ ui # <<"set">>
  BY <1>1 DEF BuiltInv
<1>3. DOMAIN echo' = {q} \cup DOMAIN echo
  BY <1>1 DEF Over, Just
<1>4. ASSUME NEW p, Told(p) PROVE p \in DOMAIN echo'
  BY <1>3, <1>4 DEF Told
<1>5. \A p \in DOMAIN echo' : Told(p)'
  BY DEF Told
<1>6. ASSUME ~poison', at' # "aborted", NEW p \in Ids \ torn' PROVE Shown(p)'
  <2>1. CASE p \in DOMAIN echo'
    BY <1>5, <2>1 DEF Shown, Due
  <2>2. CASE p \notin DOMAIN echo'
    <3>1. Shown(p) /\ ~Told(p) /\ p # q
      BY <1>1, <1>2, <1>3, <1>4, <1>6, <2>2 DEF MirrorInv
    <3>2. Upcoming(p)' = Upcoming(p) /\ Moving(p)' = Moving(p) /\ Reached(p)' = Reached(p)
      BY <1>1, UiAside
    <3>3. mirror'[p] = mirror[p]
      BY <1>1, <1>2, <3>1 DEF Built
    <3>4. Due(p) => Due(p)'
      BY <1>1, <1>2, <3>1 DEF Due
    <3> QED BY <3>1, <3>2, <3>3, <3>4 DEF Shown
  <2> QED BY <2>1, <2>2
<1> QED BY <1>1, <1>4, <1>5, <1>6, UiMirror

-----------------------------------------------------------------------------
LEMMA CallMirror ==
  ASSUME CallInv, FlagInv, DataTypes, BuiltInv, MirrorInv, CallStep
  PROVE  MirrorInv'
<1>1. CASE RefuseMethod
  BY <1>1, RefuseMirror
<1>2. CASE EnterMethod \/ ReturnMethod \/ ReturnError
  <2>1. doing \in Entries \/ doing \in Blocks
    BY <1>2 DEF EnterMethod, ReturnMethod, ReturnError, CallInv, InCall, Outcomes
  <2>2. CASE doing \in Entries
    BY <1>2, <2>2, EntryMethods
  <2>3. CASE doing \in Blocks /\ EnterMethod
    BY <2>3, EnterMirror
  <2>4. CASE doing \in Blocks /\ ReturnMethod
    BY <2>4, ReturnMirror
  <2>5. ASSUME doing \in Blocks, ReturnError PROVE FALSE
    <3>1. /\ at = "error" /\ InCall /\ script # <<>> /\ at \in Possible(Method)
          /\ Method \in Methods
      BY <2>5 DEF ReturnError, InCall, CallInv, IsMethod, Outcomes
    <3>2. Step[1] \notin {"swap", "read", "lane", "emit"}
      BY <3>1 DEF Method, Methods
    <3>3. Step[1] = "process"
      BY <2>5, <3>1, <3>2, AtProcess
    <3> QED BY <3>1, <3>3 DEF Possible, Method
  <2> QED BY <1>2, <2>1, <2>2, <2>3, <2>4, <2>5
<1>3. CASE CatchPanic
  BY <1>3, PanicMirror
<1>4. CASE SetFlag \/ Setup \/ DropEditor \/ Refresh \/ Apply \/ ApplyParams
  <2>1. /\ InCall /\ script # <<>>
        /\ Step[1] \in FlagKinds \cup {"setup", "drop_editor", "build", "refresh", "apply",
                                      "apply_params"}
    BY <1>4 DEF SetFlag, Setup, DropEditor, Refresh, Apply, ApplyParams, Doing, InCall, FlagKinds
  <2>2. doing \in Entries
    <3>1. doing \in Blocks => Step[1] \in {"swap", "read", "lane", "process", "emit"}
      BY <2>1, StepIs, EntryOrBlock DEF BlockAt, Step
    <3> QED BY <2>1, <3>1 DEF CallInv, FlagKinds
  <2> QED BY <1>4, <2>2, EntrySteps
<1>5. CASE SwapPending
  BY <1>5, SwapMirror
<1>6. CASE ReadMirror \/ DrainLane \/ Emit
  BY <1>6, BlockSteps
<1>7. CASE EmitNothing
  <2>1. InCall /\ script # <<>> /\ Step[1] = "emit"
    BY <1>7 DEF EmitNothing, Doing, InCall
  <2>2. doing \in Blocks
    BY <2>1, StepIs DEF Spot, Kinds
  <2> QED BY <1>7, <2>2, EmitNothingMirror
<1>8. CASE End
  BY <1>8, EndMirror
<1> QED BY <1>1, <1>2, <1>3, <1>4, <1>5, <1>6, <1>7, <1>8 DEF CallStep

LEMMA NextMirror ==
  ASSUME AllInv, MirrorInv, [Next]_vars
  PROVE  MirrorInv'
<1>1. CallInv /\ FlagInv /\ DataTypes /\ BuiltInv
  BY DEF AllInv, Inv
<1>2. CASE CallStep
  BY <1>1, <1>2, CallMirror
<1>3. CASE \E e \in Entries : Call(e)
  BY <1>1, <1>3, BeginMirror
<1>4. CASE \E e \in Blocks : CallProcess(e)
  BY <1>1, <1>4, BlockMirror
<1>5. CASE SetMirror \/ RaisePending
  BY <1>5, SetMirrorMirror
<1>6. CASE SetComponentState
  BY <1>1, <1>6, ComponentStateMirror
<1>7. CASE EditorMoves
  BY <1>1, <1>7, EditorMovesMirror
<1>8. CASE EditorReports
  BY <1>1, <1>8, EditorReportsMirror
<1>9. CASE Create
  <2>1. UNCHANGED <<at, poison, doing, script, paramVars, blockVars, uiVars>>
    BY <1>9 DEF Create, callVars
  <2> QED BY <2>1, AsideMirror
<1>10. CASE CreateView \/ Attached \/ Removed \/ Query \/ DropBox
  <2>1. /\ UNCHANGED <<at, doing, script, paramVars, blockVars, uiVars>>
        /\ poison' = poison \/ poison' = TRUE
    BY <1>10 DEF CreateView, Attached, Removed, Query, DropBox, callVars
  <2> QED BY <2>1, AsideMirror
<1>11. CASE Release \/ ReleaseView
  <2>1. /\ UNCHANGED <<poison, doing, script, paramVars, blockVars, uiVars>>
        /\ at' = at \/ at' = "aborted"
    BY <1>11 DEF Release, ReleaseView, Dismiss
  <2> QED BY <2>1, AsideMirror
<1>12. CASE UNCHANGED vars
  <2>1. UNCHANGED <<at, poison, doing, script, paramVars, blockVars, uiVars>>
    BY <1>12 DEF vars, callVars
  <2> QED BY <2>1, AsideMirror
<1> QED BY <1>2, <1>3, <1>4, <1>5, <1>6, <1>7, <1>8, <1>9, <1>10, <1>11, <1>12 DEF Next

(* With no change under way between the host, the audio thread and the editor, the mirror
   that a UI and a saved state read shows what the plug-in holds, of every parameter that
   no failed call, controller state or full event list has torn. *)
THEOREM MirrorShowsPlugin == Spec => []MirrorMeetsPlugin
<1>1. AllInv /\ MirrorInv => MirrorMeetsPlugin
  <2> SUFFICES ASSUME AllInv, MirrorInv, Settled, NEW p \in Ids \ torn
               PROVE  mirror[p] = params[p]
    BY DEF MirrorMeetsPlugin
  <2>1. /\ at = "idle" /\ ui = UiIdle /\ ~pending /\ echo = <<>> /\ ~poison /\ mirror # <<>>
    BY DEF Settled
  <2>2. doing = Nothing /\ Built
    BY <2>1 DEF AllInv, Inv, CallInv, DataTypes, Built
  <2>3. Shown(p)
    BY <2>1, <2>2 DEF MirrorInv
  <2>4. doing \notin Blocks
    BY <2>2, EntryOrBlock
  <2>5. ~Moving(p)
    BY <2>1 DEF Moving, Outcomes
  <2>6. ~Due(p)
    BY <2>1, EmptyState DEF Due, Told, UiIdle
  <2> QED BY <2>3, <2>4, <2>5, <2>6, NoBlock DEF Shown
<1>2. Init => MirrorInv
  BY InitMirror
<1>3. AllInv /\ MirrorInv /\ [Next]_vars => MirrorInv'
  BY NextMirror
<1> QED BY <1>1, <1>2, <1>3, AllInductive, PTL DEF Spec
=============================================================================
