-------------------------- MODULE EngineScriptProofs --------------------------
(***************************************************************************)
(* Proofs about EngineScript, for any set of launches, any number of runs  *)
(* of the script and any bounds on the log and on the page.                *)
(*                                                                         *)
(* What is reported of the features rests on how the two commands differ,  *)
(* which is a fact about the plan alone, and on where the running script   *)
(* is: Promised.  What is reported of the progress rests on one fact about *)
(* the analyzer's tables, that no line but the last of a start says the    *)
(* engine is ready or stands for 100: Unserved.                            *)
(***************************************************************************)
EXTENDS EngineScript, SequenceTheorems, FiniteSetTheorems, WellFoundedInduction, TLAPS

(* The two commands and the report, for every launch. *)

LEMMA PlanFacts ==
    ASSUME NEW i \in Input
    PROVE  /\ Plan(i).again = IF Active(i) THEN {} ELSE Plan(i).main
           /\ ~Active(i) => Reported(i) = {}
           /\ \A f \in Reported(i) : f \in Plan(i).main \/ (f = "sparse_kv" /\ i.sparse = "noop")
<1> DEFINE p == Params(i)
<1>0. /\ i.speculative \in BOOLEAN /\ i.sparse \in {"off", "index", "fp8", "noop"}
      /\ i.offload \in Offloads /\ i.userOptions \subseteq {"speculative_config"}
  BY DEF Input
<1>p. /\ p.speculative = i.speculative /\ p.sparse = i.sparse
      /\ p.native = (i.offload = "native") /\ p.options = Options(i)
      /\ p = [speculative |-> i.speculative, sparse |-> i.sparse,
              native |-> i.offload = "native", options |-> Options(i)]
  BY DEF Params
<1>1. CASE Active(i)
  <2> DEFINE again == Plain(p, i.offload # "off")
             shared == IF again.options = p.options THEN OptionsAfter(again) ELSE p.options
             main == [p EXCEPT !.options = shared]
  <2>1. /\ again.speculative = FALSE /\ again.sparse = "off"
        /\ again.native = (p.native /\ ~(i.offload # "off"))
        /\ again.options = p.options \ ({"speculative_config"}
                             \cup IF i.offload # "off" THEN {"kv_transfer_config"} ELSE {})
    BY <1>p DEF Plain
  <2>2. ~again.native
    BY <1>p, <2>1
  <2>3. "kv_cache_dtype" \notin Options(i) /\ OptionsAfter(again) = again.options
    BY <1>0, <2>1 DEF Options, OptionsAfter
  <2>4. "speculative_config" \notin again.options /\ "kv_transfer_config" \notin again.options
    BY <1>0, <1>p, <2>1 DEF Options
  <2>5. FeaturesOf(again) = {}
    BY <1>p, <2>1, <2>2, <2>3, <2>4 DEF FeaturesOf, Feature
  <2>6. shared = p.options
    BY <2>3
  <2>7. main = p
    BY <1>p, <2>6
  <2>8. Plan(i).again = FeaturesOf(again) /\ Plan(i).main = FeaturesOf(p)
    BY <1>1, <2>7 DEF Plan
  <2>9. \A f \in Reported(i) : f \in FeaturesOf(p) \/ (f = "sparse_kv" /\ i.sparse = "noop")
    BY <1>0, <1>p DEF Reported, FeaturesOf, Feature, Options, OptionsAfter
  <2>10. QED
    BY <1>1, <2>5, <2>8, <2>9
<1>2. CASE ~Active(i)
  <2>1. Reported(i) = {}
    BY <1>2 DEF Active, Reported, Feature
  <2>2. p.sparse = "off" /\ OptionsAfter(p) = p.options
    BY <1>2, <1>p DEF Active, OptionsAfter
  <2>3. [p EXCEPT !.options = OptionsAfter(p)] = p
    BY <1>p, <2>2
  <2>4. Plan(i).again = Plan(i).main
    BY <1>2, <2>2, <2>3 DEF Plan
  <2>5. QED
    BY <1>2, <2>1, <2>4
<1>3. QED
  BY <1>1, <1>2-----------------------------------------------------------------------------
(* The lines of a start *)

LEMMA SmallestOne ==
    ASSUME NEW T \in SUBSET Nat, T # {}
    PROVE  \E x \in T : \A y \in T : x <= y
<1> DEFINE U == {0..x : x \in T}
           R == StrictSubsetOrdering(Nat)
<1>1. U \subseteq FiniteSubsetsOf(Nat) /\ U # {}
  <2>1. \A x \in T : 0..x \in SUBSET Nat /\ IsFiniteSet(0..x)
    BY FS_Interval
  <2>2. QED
    BY <2>1 DEF FiniteSubsetsOf
<1>2. IsWellFoundedOn(R, FiniteSubsetsOf(Nat))
  BY FS_StrictSubsetOrderingWellFounded
<1> HIDE DEF R
<1>3. \E u \in U : \A v \in U : <<v, u>> \notin R
  BY <1>1, <1>2, WFMin
<1>4. PICK x \in T : \A y \in T : <<0..y, 0..x>> \notin R
  BY <1>3
<1>5. ASSUME NEW y \in T, y < x PROVE FALSE
  <2>1. 0..y \subseteq 0..x /\ 0..y # 0..x
    <3>1. x \in 0..x /\ x \notin 0..y
      BY <1>5
    <3>2. QED
      BY <1>5, <3>1
  <2>2. 0..y \in SUBSET Nat /\ 0..x \in SUBSET Nat
    OBVIOUS
  <2>3. <<0..y, 0..x>> \in R
    BY <2>1, <2>2 DEF R, StrictSubsetOrdering
  <2>4. QED
    BY <1>4, <2>3
<1>6. QED
  BY <1>5

(* The largest of some progress numbers is one of them. *)
LEMMA LargestMark ==
    ASSUME NEW S \in SUBSET (0..100), S # {}
    PROVE  Max(S) \in S
<1> DEFINE T == {n \in 0..100 : 100 - n \in S}
<1>1. T # {}
  <2>1. PICK x \in S : x \in 0..100
    OBVIOUS
  <2>2. 100 - x \in 0..100 /\ 100 - (100 - x) = x
    BY <2>1
  <2>3. QED
    BY <2>1, <2>2
<1>2. T \in SUBSET Nat
  OBVIOUS
<1>3. PICK n \in T : \A m \in T : n <= m
  BY <1>1, <1>2, SmallestOne
<1>4. ASSUME NEW y \in S
      PROVE  100 - n >= y
  <2>1. y \in 0..100 /\ 100 - y \in 0..100 /\ 100 - (100 - y) = y
    OBVIOUS
  <2>2. n <= 100 - y
    BY <1>3, <2>1
  <2>3. QED
    BY <2>1, <2>2
<1>5. \E x \in S : \A y \in S : x >= y
  BY <1>4
<1>6. QED
  BY <1>5 DEF Max

(* A stage of a start, and one before the engine is ready *)
IsStage(s) ==
    /\ s.phase \in Phases
    /\ Marks(s) \subseteq 0..100 /\ Marks(s) # {}
IsEarly(s) == s.phase # "ready" /\ 100 \notin Marks(s)

LEMMA SingleStages ==
    /\ IsStage(VllmBooting) /\ IsEarly(VllmBooting)
    /\ IsStage(VllmLoading) /\ IsEarly(VllmLoading)
    /\ IsStage(VllmCompiling) /\ IsEarly(VllmCompiling)
    /\ IsStage(VllmGraphs) /\ IsEarly(VllmGraphs)
    /\ IsStage(Checking) /\ IsEarly(Checking)
    /\ IsStage(Ready)
BY DEF VllmBooting, VllmLoading, VllmCompiling, VllmGraphs, Checking, Ready, Stage,
       IsStage, IsEarly, Marks, Phases
(* Moving a stage up for the cluster's keeps it below 100, by the caps. *)
LEMMA MovedStage ==
    ASSUME NEW s, IsStage(s), IsEarly(s), s.fixed # {}
    PROVE  IsStage(Moved(s)) /\ IsEarly(Moved(s))
<1>1. /\ s.fixed \subseteq 0..100 /\ s.counted \subseteq 0..100 /\ s.phase \in Phases
      /\ s.phase # "ready"
  BY DEF IsStage, IsEarly, Marks
<1>2. ASSUME NEW a, NEW b, a \subseteq 0..99, a # {}, b \subseteq 0..99
      PROVE  IsStage(Stage(s.phase, a, b)) /\ IsEarly(Stage(s.phase, a, b))
  BY <1>1, <1>2 DEF IsStage, IsEarly, Marks, Stage
<1>3. CASE s.phase = "engine_booting"
  <2>1. \A v \in 0..100 : LeastOf(35 + (v - 20), 43) \in 0..99
    BY DEF LeastOf
  <2>2. /\ {LeastOf(35 + (v - 20), 43) : v \in s.fixed} \subseteq 0..99
        /\ {LeastOf(35 + (v - 20), 43) : v \in s.fixed} # {}
    BY <1>1, <2>1
  <2>3. Moved(s) = Stage(s.phase, {LeastOf(35 + (v - 20), 43) : v \in s.fixed}, {})
    BY <1>3 DEF Moved
  <2>4. QED
    BY <1>2, <2>2, <2>3
<1>4. CASE s.phase = "model_loading"
  <2>1. \A v \in 0..100 : LeastOf(43 + (v - 30), 68) \in 0..99 /\ LeastOf(v + 7, 68) \in 0..99
    BY DEF LeastOf
  <2>2. /\ {LeastOf(43 + (v - 30), 68) : v \in s.fixed} \subseteq 0..99
        /\ {LeastOf(43 + (v - 30), 68) : v \in s.fixed} # {}
        /\ {LeastOf(v + 7, 68) : v \in s.counted} \subseteq 0..99
    BY <1>1, <2>1
  <2>3. Moved(s) = Stage(s.phase, {LeastOf(43 + (v - 30), 68) : v \in s.fixed},
                                  {LeastOf(v + 7, 68) : v \in s.counted})
    BY <1>4 DEF Moved
  <2>4. QED
    BY <1>2, <2>2, <2>3
<1>5. CASE s.phase = "model_compiling"
  <2>1. \A v \in 0..100 : LeastOf(68 + (v - 60), 80) \in 0..99
    BY DEF LeastOf
  <2>2. /\ {LeastOf(68 + (v - 60), 80) : v \in s.fixed} \subseteq 0..99
        /\ {LeastOf(68 + (v - 60), 80) : v \in s.fixed} # {}
    BY <1>1, <2>1
  <2>3. Moved(s) = Stage(s.phase, {LeastOf(68 + (v - 60), 80) : v \in s.fixed}, {})
    BY <1>5 DEF Moved
  <2>4. QED
    BY <1>2, <2>2, <2>3
<1>6. CASE s.phase = "cuda_graph_capturing"
  <2>1. \A v \in 0..100 : LeastOf(80 + (v - 75), 99) \in 0..99 /\ LeastOf(v + 4, 99) \in 0..99
    BY DEF LeastOf
  <2>2. /\ {LeastOf(80 + (v - 75), 99) : v \in s.fixed} \subseteq 0..99
        /\ {LeastOf(80 + (v - 75), 99) : v \in s.fixed} # {}
        /\ {LeastOf(v + 4, 99) : v \in s.counted} \subseteq 0..99
    BY <1>1, <2>1
  <2>3. Moved(s) = Stage(s.phase, {LeastOf(80 + (v - 75), 99) : v \in s.fixed},
                                  {LeastOf(v + 4, 99) : v \in s.counted})
    BY <1>6 DEF Moved
  <2>4. QED
    BY <1>2, <2>2, <2>3
<1>7. CASE s.phase \notin {"engine_booting", "model_loading", "model_compiling",
                         "cuda_graph_capturing"}
  <2>1. Moved(s) = s
    BY <1>7 DEF Moved
  <2>2. QED
    BY <2>1
<1>8. QED
  BY <1>3, <1>4, <1>5, <1>6, <1>7

(* A whole start: only its last stage may say that the engine is ready. *)
IsStart(s) ==
    /\ Len(s) \in Nat \ {0} /\ DOMAIN s = 1..Len(s)
    /\ \A i \in 1..Len(s) : IsStage(s[i])
    /\ \A i \in 1..Len(s) : i # Len(s) => IsEarly(s[i])

LEMMA VllmStart ==
    /\ IsStart(VllmSingle) /\ Len(VllmSingle) = 6
    /\ \A i \in 1..5 : VllmSingle[i].fixed # {}
    /\ VllmSingle[6] = Ready
<1>1. IsStart(VllmSingle) /\ Len(VllmSingle) = 6 /\ VllmSingle[6] = Ready
  BY SingleStages DEF VllmSingle, IsStart
<1>2. \A i \in 1..5 : VllmSingle[i].fixed # {}
  BY DEF VllmSingle, VllmBooting, VllmLoading, VllmCompiling, VllmGraphs, Checking, Stage
<1>3. QED
  BY <1>1, <1>2

LEMMA VllmClusterStart == IsStart(VllmDistributed)
<1> DEFINE moved == [i \in DOMAIN VllmSingle |-> Moved(VllmSingle[i])]
<1>1. /\ Len(ClusterStages) = 3 /\ ClusterStages \in Seq({ClusterStages[i] : i \in 1..3})
      /\ \A i \in 1..3 : IsStage(ClusterStages[i]) /\ IsEarly(ClusterStages[i])
  <2>1. /\ IsStage(ClusterStages[1]) /\ IsEarly(ClusterStages[1])
        /\ IsStage(ClusterStages[2]) /\ IsEarly(ClusterStages[2])
        /\ IsStage(ClusterStages[3]) /\ IsEarly(ClusterStages[3])
    BY DEF ClusterStages, Stage, IsStage, IsEarly, Marks, Phases
  <2>2. Len(ClusterStages) = 3 /\ DOMAIN ClusterStages = 1..3
    BY DEF ClusterStages
  <2>3. \A i \in 1..3 : i = 1 \/ i = 2 \/ i = 3
    OBVIOUS
  <2>4. ClusterStages \in Seq({ClusterStages[i] : i \in 1..3})
    BY DEF ClusterStages
  <2>5. QED
    BY <2>1, <2>2, <2>3, <2>4
<1>2. /\ moved \in Seq({moved[i] : i \in 1..6}) /\ Len(moved) = 6
      /\ \A i \in 1..6 : IsStage(moved[i]) /\ (i # 6 => IsEarly(moved[i]))
  <2>1. DOMAIN VllmSingle = 1..6
    BY VllmStart DEF IsStart
  <2>2. moved \in [1..6 -> {moved[i] : i \in 1..6}]
    BY <2>1
  <2>3. moved \in Seq({moved[i] : i \in 1..6}) /\ Len(moved) = 6
    BY <2>2, SeqDef, LenProperties
  <2>4. ASSUME NEW i \in 1..5
        PROVE  IsStage(moved[i]) /\ IsEarly(moved[i])
    BY <2>1, VllmStart, MovedStage DEF IsStart
  <2>5. IsStage(moved[6])
    <3>1. Moved(Ready) = Ready
      BY DEF Moved, Ready, Stage
    <3>2. QED
      BY <2>1, <3>1, VllmStart, SingleStages
  <2>6. \A i \in 1..6 : i \in 1..5 \/ i = 6
    OBVIOUS
  <2>7. QED
    BY <2>3, <2>4, <2>5, <2>6
<1> HIDE DEF moved
<1> DEFINE A == {ClusterStages[i] : i \in 1..3} \cup {moved[i] : i \in 1..6}
<1>3. ClusterStages \in Seq(A) /\ moved \in Seq(A)
  BY <1>1, <1>2
<1> HIDE DEF A
<1> DEFINE whole == ClusterStages \o moved
<1>4. /\ whole \in Seq(A)
      /\ Len(whole) = Len(ClusterStages) + Len(moved)
      /\ \A i \in 1..(Len(ClusterStages) + Len(moved)) :
            whole[i] = IF i <= Len(ClusterStages) THEN ClusterStages[i]
                                                  ELSE moved[i - Len(ClusterStages)]
  BY <1>3, ConcatProperties
<1> HIDE DEF whole
<1>5. Len(whole) = 9 /\ DOMAIN whole = 1..9
  BY <1>1, <1>2, <1>4, LenProperties
<1>6. \A i \in 1..9 : whole[i] = IF i <= 3 THEN ClusterStages[i] ELSE moved[i - 3]
  BY <1>1, <1>2, <1>4
<1>7. ASSUME NEW i \in 1..9
      PROVE  IsStage(whole[i]) /\ (i # 9 => IsEarly(whole[i]))
  <2>1. CASE i <= 3
    <3>1. i \in 1..3 /\ i # 9 /\ whole[i] = ClusterStages[i]
      BY <1>6, <2>1
    <3>2. QED
      BY <1>1, <3>1
  <2>2. CASE ~(i <= 3)
    <3>1. i - 3 \in 1..6 /\ (i # 9 => i - 3 # 6)
      BY <2>2
    <3>2. whole[i] = moved[i - 3]
      BY <1>6, <2>2
    <3>3. QED
      BY <1>2, <3>1, <3>2
  <2>3. QED
    BY <2>1, <2>2
<1>8. IsStart(whole)
  BY <1>5, <1>7 DEF IsStart
<1>9. QED
  BY <1>8 DEF VllmDistributed, moved, whole
LEMMA AscendStart == IsStart(AscendSingle)
<1>1. /\ Len(AscendSingle) = 6 /\ DOMAIN AscendSingle = 1..6
      /\ AscendSingle[1] = [VllmSingle[1] EXCEPT !.fixed = {20, 30}]
      /\ \A i \in 2..6 : AscendSingle[i] = VllmSingle[i]
  BY DEF AscendSingle, VllmSingle
<1>2. IsStage(AscendSingle[1]) /\ IsEarly(AscendSingle[1])
  BY <1>1 DEF VllmSingle, VllmBooting, Stage, IsStage, IsEarly, Marks, Phases
<1>3. \A i \in 1..6 : i = 1 \/ i \in 2..6
  OBVIOUS
<1>4. \A i \in 2..6 : IsStage(VllmSingle[i]) /\ (i # 6 => IsEarly(VllmSingle[i]))
  BY VllmStart DEF IsStart
<1>5. QED
  BY <1>1, <1>2, <1>3, <1>4 DEF IsStart

LEMMA OtherStarts ==
    IsStart(SglangSingle) /\ IsStart(MindieDistributed) /\ IsStart(Unlisted)
<1>1. /\ IsStage(SglangCache) /\ IsEarly(SglangCache)
      /\ IsStage(SglangGraphs) /\ IsEarly(SglangGraphs)
      /\ IsStage(Hccl) /\ IsEarly(Hccl)
      /\ IsStage(MindieBooting) /\ IsEarly(MindieBooting)
      /\ IsStage(MindieLoading) /\ IsEarly(MindieLoading)
  BY DEF SglangCache, SglangGraphs, Hccl, MindieBooting, MindieLoading, Stage,
         IsStage, IsEarly, Marks, Phases
<1>2. IsStart(SglangSingle)
  BY <1>1, SingleStages DEF SglangSingle, IsStart
<1>3. IsStart(MindieDistributed)
  BY <1>1, SingleStages DEF MindieDistributed, IsStart
<1>4. /\ IsStage(Unlisted[1]) /\ IsEarly(Unlisted[1])
      /\ IsStage(Unlisted[2]) /\ IsEarly(Unlisted[2]) /\ Unlisted[3] = Checking
  BY DEF Unlisted, Stage, IsStage, IsEarly, Marks, Phases
<1>5. Len(Unlisted) = 3 /\ DOMAIN Unlisted = 1..3
  BY DEF Unlisted
<1>6. IsStart(Unlisted)
  BY <1>4, <1>5, SingleStages DEF IsStart
<1>7. QED
  BY <1>2, <1>3, <1>6

(* No line but the last of a start says that the engine is ready or stands for 100. *)
LEMMA LineFacts ==
    ASSUME NEW p \in Plugins
    PROVE  LET l == LineTable[p]
           IN  /\ Len(l) \in Nat \ {0} /\ DOMAIN l = 1..Len(l)
               /\ \A i \in 1..Len(l) : l[i].phase \in Phases /\ l[i].mark \in 0..100
               /\ \A i \in 1..Len(l) : i # Len(l) => l[i].phase # "ready" /\ l[i].mark # 100
<1> DEFINE s == StagesOf(p)
           l == LineTable[p]
<1>1. IsStart(s)
  BY VllmStart, VllmClusterStart, AscendStart, OtherStarts
  DEF StagesOf, Plugins, AscendDistributed
<1>2. l = [i \in DOMAIN s |-> [phase |-> s[i].phase, mark |-> Max(Marks(s[i]))]]
  BY DEF LineTable, LinesOf
<1> HIDE DEF s, l
<1>3. PICK n \in Nat \ {0} : n = Len(s) /\ DOMAIN s = 1..n
  BY <1>1 DEF IsStart
<1>4. DOMAIN l = 1..n /\ Len(l) = n
  <2>1. l \in [1..n -> {l[i] : i \in 1..n}] /\ DOMAIN l = 1..n
    BY <1>2, <1>3
  <2>2. QED
    BY <1>3, <2>1, SeqDef, LenProperties
<1>5. ASSUME NEW i \in 1..n
      PROVE  /\ l[i].phase \in Phases /\ l[i].mark \in 0..100
             /\ i # n => l[i].phase # "ready" /\ l[i].mark # 100
  <2>1. l[i].phase = s[i].phase /\ l[i].mark = Max(Marks(s[i]))
    BY <1>2, <1>3
  <2>2. IsStage(s[i]) /\ (i # n => IsEarly(s[i]))
    BY <1>1, <1>3 DEF IsStart
  <2>3. Max(Marks(s[i])) \in Marks(s[i])
    BY <2>2, LargestMark DEF IsStage
  <2>4. QED
    BY <2>1, <2>2, <2>3 DEF IsStage, IsEarly
<1>6. QED
  BY <1>3, <1>4, <1>5 DEF l-----------------------------------------------------------------------------
(* Types *)

ScriptTypeOK ==
    /\ input \in Inputs
    /\ script \in [main : SUBSET Feature, again : SUBSET Feature]
    /\ claimed \in SUBSET Feature
    /\ unpatched \in SUBSET Patch
    /\ stale \in BOOLEAN /\ served \in BOOLEAN
    /\ pc \in {"begin", "install", "start", "wait", "clean", "restart", "wait2", "report", "quit", "ended"}
    /\ engine \in [state : {"none", "up", "stopping", "crashed", "exited"},
                   features : SUBSET Feature, at : 0..Len(LineTable[input.plugin])]
    /\ second \in BOOLEAN /\ crashed \in BOOLEAN /\ termed \in BOOLEAN
    /\ runs \in 0..MaxRuns
    /\ code \in {0, 1}

LEMMA PlanType ==
    ASSUME NEW i \in Input
    PROVE  /\ Plan(i) \in [main : SUBSET Feature, again : SUBSET Feature]
           /\ Reported(i) \in SUBSET Feature
<1>1. \A p : FeaturesOf(p) \in SUBSET Feature
  BY DEF FeaturesOf
<1>2. QED
  BY <1>1 DEF Plan, Reported

LEMMA ScriptTypeStep == ScriptTypeOK /\ [Next]_vars => ScriptTypeOK'
<1> SUFFICES ASSUME ScriptTypeOK, [Next]_vars
             PROVE  ScriptTypeOK'
  OBVIOUS
<1> USE DEF ScriptTypeOK
<1>i. input \in Input /\ input.plugin \in Plugins
  BY ScriptAssumption DEF Input
<1>l. PICK n \in Nat \ {0} : n = Len(LineTable[input.plugin])
  BY <1>i, LineFacts
<1>e. engine \in [state : {"none", "up", "stopping", "crashed", "exited"},
                 features : SUBSET Feature, at : 0..n]
  BY <1>l
<1>s. \A f \in SUBSET Feature :
        Started(f) \in [state : {"none", "up", "stopping", "crashed", "exited"},
                       features : SUBSET Feature, at : 0..n]
  BY DEF Started
<1>1. CASE Begin \/ Install
  <2>1. MayFail(input) \subseteq SUBSET Patch
    BY DEF MayFail, Patches
  <2>2. QED
    BY <1>1, <2>1 DEF Begin, Install
<1>2. CASE StartEngine \/ StartAgain
  BY <1>2, <1>l, <1>s DEF StartEngine, StartAgain
<1>3. CASE EngineDone \/ EngineFailed \/ ReportFailure \/ Quit
  BY <1>3 DEF EngineDone, EngineFailed, ReportFailure, Quit, End
<1>4. CASE CleanUp
  BY <1>4 DEF CleanUp
<1>5. CASE EarlyFailure \/ RestartFails
  BY <1>5 DEF EarlyFailure, RestartFails, End
<1>6. CASE Terminate
  <2>1. engine' \in [state : {"none", "up", "stopping", "crashed", "exited"},
                    features : SUBSET Feature, at : 0..n]
    BY <1>6, <1>e DEF Terminate
  <2>2. pc' \in {"begin", "install", "start", "wait", "clean", "restart", "wait2", "report",
                "quit", "ended"}
    BY <1>6 DEF Terminate
  <2>3. QED
    BY <1>6, <1>l, <2>1, <2>2 DEF Terminate
<1>7. CASE RunAgain
  <2>1. engine' \in [state : {"none", "up", "stopping", "crashed", "exited"},
                    features : SUBSET Feature, at : 0..n]
    BY <1>7 DEF RunAgain, NoEngine
  <2>2. runs' \in 0..MaxRuns
    BY <1>7, ScriptAssumption DEF RunAgain
  <2>3. QED
    BY <1>7, <1>l, <2>1, <2>2 DEF RunAgain
<1>8. CASE PlanAgain
  BY <1>8, <1>i, PlanType DEF PlanAgain
<1>9. CASE EngineStops("crashed") \/ EngineStops("exited")
  <2>1. PICK state \in {"crashed", "exited"} : EngineStops(state)
    BY <1>9
  <2>2. engine' \in [state : {"none", "up", "stopping", "crashed", "exited"},
                    features : SUBSET Feature, at : 0..n]
    BY <2>1, <1>e DEF EngineStops
  <2>3. crashed' \in BOOLEAN
    BY <2>1 DEF EngineStops
  <2>4. QED
    BY <2>1, <1>l, <2>2, <2>3 DEF EngineStops
<1>10. CASE EngineLogs
  <2>1. engine.at \in 0..n /\ engine.at < n
    BY <1>10, <1>e, <1>l DEF EngineLogs, Lines
  <2>2. engine' \in [state : {"none", "up", "stopping", "crashed", "exited"},
                    features : SUBSET Feature, at : 0..n]
    BY <1>10, <1>e, <2>1 DEF EngineLogs
  <2>3. served' \in BOOLEAN
    BY <1>10 DEF EngineLogs
  <2>4. QED
    BY <1>10, <1>l, <2>2, <2>3 DEF EngineLogs
<1>11. CASE UNCHANGED scriptVars
  BY <1>11 DEF scriptVars
<1>12. QED
  BY <1>1, <1>2, <1>3, <1>4, <1>5, <1>6, <1>7, <1>8, <1>9, <1>10, <1>11
  DEF Next, Script, Analyzer, vars, EngineComplains
LogLine == [kind : {"mark", "error"}, phase : Phases \cup {NoPhase}, mark : 0..100]
FileLine == [phase : FilePhases, status : Statuses, progress : 0..100]

(* The larger of the progress so far and a line's *)
LEMMA LargerMark ==
    ASSUME NEW a \in 0..100, NEW b \in 0..100
    PROVE  Max({a, b}) \in {a, b}
<1>1. {a, b} \in SUBSET (0..100) /\ {a, b} # {}
  OBVIOUS
<1>2. QED
  BY <1>1, LargestMark

LEMMA NothingUnread ==
    /\ <<>> \in Seq(LogLine) /\ Len(<<>>) <= MaxUnread /\ 0 \in 0..FailAfter
    /\ 0 \in 0..100 /\ NoPhase \in Phases \cup {NoPhase} /\ FALSE \in BOOLEAN
<1>1. MaxUnread \in Nat /\ FailAfter \in Nat
  BY ProgressAssumption
<1>2. Len(<<>>) = 0 /\ <<>> \in Seq(LogLine)
  OBVIOUS
<1>3. QED
  BY <1>1, <1>2

LEMMA ReadType ==
    ASSUME ProgressTypeOK, ReadLine
    PROVE  ProgressTypeOK'
<1> USE DEF ProgressTypeOK
<1>1. /\ Head(lines) \in LogLine /\ Tail(lines) \in Seq(LogLine)
      /\ Len(Tail(lines)) <= MaxUnread
  <2>1. lines \in Seq(LogLine) /\ lines # <<>>
    BY DEF ReadLine, LogLine
  <2>2. Len(lines) \in Nat /\ Len(Tail(lines)) = Len(lines) - 1
    BY <2>1, HeadTailProperties
  <2>3. QED
    BY <2>1, <2>2, HeadTailProperties, ProgressAssumption
<1> DEFINE l == Head(lines)
           now == Max({l.mark, progress})
<1>2. now \in 0..100 /\ l.phase \in Phases \cup {NoPhase} /\ l.kind \in {"mark", "error"}
  <2>1. l.mark \in 0..100 /\ progress \in 0..100
    BY <1>1 DEF LogLine
  <2>2. QED
    BY <1>1, <2>1, LargerMark DEF LogLine
<1>3. /\ lines' = <<>> \/ lines' = Tail(lines)
      /\ analyzer' = "off" \/ analyzer' = analyzer
      /\ silent' = 0 /\ view' = view
      /\ OnMark(l) \/ OnError \/ UNCHANGED <<phase, progress, ready, file>>
  BY <1>2 DEF ReadLine
<1> HIDE DEF l
<1>4. /\ phase' \in Phases \cup {NoPhase} /\ progress' \in 0..100 /\ ready' \in BOOLEAN
      /\ file' \in FileLine
  <2>1. CASE OnMark(l)
    <3>1. /\ phase' = l.phase /\ progress' = now /\ ready' = (ready \/ l.phase = "ready")
          /\ \/ file' = Progress("ready", "completed", 100)
             \/ file' = Progress(l.phase, "running", now)
      BY <2>1 DEF OnMark
    <3>2. \A p \in Phases \cup {NoPhase}, t \in {"completed", "running"}, n \in 0..100 :
            Progress(p, t, n) \in FileLine
      BY DEF Progress, FileLine, FilePhases, Statuses
    <3>3. "ready" \in Phases
      BY DEF Phases
    <3>4. file' \in FileLine
      <4>1. CASE file' = Progress("ready", "completed", 100)
        BY <3>2, <3>3, <4>1
      <4>2. CASE file' = Progress(l.phase, "running", now)
        <5>1. l.phase \in Phases \cup {NoPhase} /\ now \in 0..100
          BY <1>2
        <5> HIDE DEF now
        <5>2. Progress(l.phase, "running", now) \in FileLine
          BY <3>2, <5>1
        <5>3. QED
          BY <4>2, <5>2
      <4>3. QED
        BY <3>1, <4>1, <4>2
    <3>5. QED
      BY <1>2, <3>1, <3>4
  <2>2. CASE OnError
    <3>1. /\ UNCHANGED <<phase, progress, ready>>
          /\ \E p \in {"error", phase} : file' = Progress(p, "failed", progress)
      BY <2>2 DEF OnError
    <3>2. file' \in FileLine
      BY <3>1 DEF Progress, FileLine, FilePhases, Statuses
    <3>3. QED
      BY <3>1, <3>2
  <2>3. CASE UNCHANGED <<phase, progress, ready, file>>
    BY <2>3 DEF FileLine
  <2>4. QED
    BY <1>3, <2>1, <2>2, <2>3
<1>5. lines' \in Seq(LogLine) /\ Len(lines') <= MaxUnread
  BY <1>1, <1>3, NothingUnread
<1>6. QED
  BY <1>3, <1>4, <1>5, NothingUnread DEF FileLine, LogLine

LEMMA AnalyzerType ==
    ASSUME ProgressTypeOK, AnalyzerStarts \/ CatchesUp \/ Silence(Healthy)
    PROVE  ProgressTypeOK'
<1> USE DEF ProgressTypeOK
<1>f. \A p \in FilePhases, t \in Statuses, n \in 0..100 : Progress(p, t, n) \in FileLine
  BY DEF Progress, FileLine
<1>1. CASE AnalyzerStarts
  <2>1. file' \in FileLine
    <3>1. Progress("init", "running", 5) \in FileLine
      BY DEF Progress, FileLine, FilePhases, Phases, Statuses
    <3>2. QED
      BY <1>1, <3>1 DEF AnalyzerStarts, FileLine
  <2>2. lines' = lines \/ lines' = <<>>
    BY <1>1 DEF AnalyzerStarts
  <2>3. QED
    <3>1. /\ analyzer' \in {"catchup", "off"} /\ phase' = NoPhase /\ progress' = 0
          /\ silent' = 0 /\ ready' = FALSE /\ view' = view
      BY <1>1 DEF AnalyzerStarts
    <3>2. lines' \in Seq(LogLine) /\ Len(lines') <= MaxUnread
      BY <2>2, NothingUnread DEF LogLine
    <3>3. QED
      BY <2>1, <3>1, <3>2, NothingUnread DEF FileLine, LogLine
<1>2. CASE CatchesUp
  BY <1>2 DEF CatchesUp
<1>3. CASE Silence(Healthy)
  <2>1. silent' \in 0..FailAfter
    BY <1>3, ProgressAssumption DEF Silence, LeastOf
  <2>2. file' \in FileLine
    <3>1. \/ file' = Progress("ready", "completed", 100)
          \/ \E p \in {"timeout", phase}, t \in {"failed", "warning"} :
                file' = Progress(p, t, progress)
      BY <1>3 DEF Silence
    <3>2. {"timeout", phase, "ready"} \subseteq FilePhases
          /\ {"failed", "warning", "completed"} \subseteq Statuses
      BY DEF FilePhases, Statuses, Phases
    <3>3. progress \in 0..100 /\ 100 \in 0..100
      OBVIOUS
    <3>4. PICK p \in FilePhases, t \in Statuses, n \in 0..100 : file' = Progress(p, t, n)
      BY <3>1, <3>2, <3>3
    <3>5. QED
      BY <1>f, <3>4
  <2>3. ready' \in BOOLEAN /\ analyzer' \in {"off", "loading", "catchup", "live"}
    BY <1>3 DEF Silence
  <2>4. QED
    BY <1>3, <2>1, <2>2, <2>3 DEF Silence, FileLine
<1>4. QED
  BY <1>1, <1>2, <1>3

(* How far the manager's increments go in each phase *)
LEMMA PhaseMaxima ==
    /\ \A p \in DOMAIN PhaseMax : PhaseMax[p] \in 0..100
    /\ \A p \in DOMAIN PhaseMax : p # "ready" => PhaseMax[p] \in 0..99
<1>1. DOMAIN PhaseMax = {"init", "accel_enabling", "engine_booting", "model_loading",
                         "model_compiling", "cuda_graph_capturing", "server_checking", "ready"}
  BY DEF PhaseMax
<1>2. /\ PhaseMax["init"] = 5 /\ PhaseMax["accel_enabling"] = 20
      /\ PhaseMax["engine_booting"] = 30 /\ PhaseMax["model_loading"] = 60
      /\ PhaseMax["model_compiling"] = 75 /\ PhaseMax["cuda_graph_capturing"] = 98
      /\ PhaseMax["server_checking"] = 99 /\ PhaseMax["ready"] = 100
  BY DEF PhaseMax
<1>3. QED
  BY <1>1, <1>2

LEMMA ViewType ==
    ASSUME ProgressTypeOK, Poll \/ ServiceRestarts
    PROVE  ProgressTypeOK'
<1> USE DEF ProgressTypeOK
<1>1. CASE Poll
  <2>1. \A p \in DOMAIN PhaseMax : PhaseMax[p] \in 0..100
    BY PhaseMaxima
  <2>2. view' = Updated(view, file)
    BY <1>1 DEF Poll
  <2>3. view'.progress \in 0..100
    <3>1. file.progress \in 0..100 /\ view.progress \in 0..100
      OBVIOUS
    <3>2. MayIncrement(file.phase, view.progress) => view.progress + 1 \in 0..100
      <4>1. PICK m \in 0..100 : m = view.progress
        BY <3>1
      <4>2. MayIncrement(file.phase, m) => m + 1 \in 0..100
        <5>1. \A d \in 0..100 : m < d => m + 1 \in 0..100
          OBVIOUS
        <5>2. QED
          BY <2>1, <5>1 DEF MayIncrement
      <4>3. QED
        BY <4>1, <4>2
    <3>3. view'.progress \in {file.progress, view.progress}
          \/ (view'.progress = view.progress + 1 /\ MayIncrement(file.phase, view.progress))
      BY <2>2 DEF Updated
    <3>4. QED
      BY <3>1, <3>2, <3>3
  <2>4. view' \in FileLine
    BY <2>2, <2>3 DEF Updated, FileLine
  <2>5. QED
    BY <1>1, <2>4 DEF Poll, logVars, FileLine
<1>2. CASE ServiceRestarts
  <2>1. view' \in FileLine
    BY <1>2 DEF ServiceRestarts, Progress, FileLine, FilePhases, Phases, Statuses
  <2>2. QED
    BY <1>2, <2>1 DEF ServiceRestarts, logVars, FileLine
<1>3. QED
  BY <1>1, <1>2

LEMMA ProgressTypeStep ==
    ScriptTypeOK /\ ProgressTypeOK /\ [Next]_vars => ProgressTypeOK'
<1> SUFFICES ASSUME ScriptTypeOK, ProgressTypeOK, [Next]_vars
             PROVE  ProgressTypeOK'
  OBVIOUS
<1> USE DEF ProgressTypeOK
<1>f. \A r : r \in {"script_error", "engine_crash"} => Failed(r) \in FileLine
  BY DEF Failed, Progress, FileLine, FilePhases, Statuses
<1>n. NoFile \in FileLine
  BY DEF NoFile, Progress, FileLine, FilePhases, Statuses
<1>0. StopAnalyzer =>
        /\ analyzer' = "off" /\ lines' = <<>> /\ phase' \in Phases \cup {NoPhase}
        /\ progress' \in 0..100 /\ silent' \in 0..FailAfter /\ ready' \in BOOLEAN
        /\ lines' \in Seq(LogLine) /\ Len(lines') <= MaxUnread
  BY NothingUnread DEF StopAnalyzer
<1>1. CASE Begin
  BY <1>1, <1>n DEF Begin, KeepAnalyzer, FileLine
<1>2. CASE \/ Install \/ StartEngine \/ EngineFailed \/ CleanUp \/ StartAgain \/ PlanAgain
           \/ EngineStops("crashed") \/ EngineStops("exited")
  BY <1>2 DEF Install, StartEngine, EngineFailed, CleanUp, StartAgain, PlanAgain, EngineStops,
              progressVars
<1>3. CASE EngineDone \/ Quit \/ RunAgain
  BY <1>0, <1>3 DEF EngineDone, Quit, RunAgain, LogLine
<1>4. CASE ReportFailure
  BY <1>4, <1>f DEF ReportFailure, FileLine
<1>5. CASE EarlyFailure \/ RestartFails
  BY <1>0, <1>5, <1>f DEF EarlyFailure, RestartFails, KeepAnalyzer, FileLine, LogLine
<1>6. CASE Terminate
  <2>1. file' \in FileLine
    BY <1>6, <1>f DEF Terminate, FileLine
  <2>2. QED
    BY <1>0, <1>6, <2>1 DEF Terminate, FileLine, LogLine
<1>7. ASSUME NEW l \in LogLine, Log(l), UNCHANGED <<analyzer, phase, progress, silent, ready, file, view>>
      PROVE  ProgressTypeOK'
  <2>1. CASE Listening
    <3>1. lines \in Seq(LogLine) /\ Len(lines) \in Nat
      BY DEF LogLine
    <3>2. lines' \in Seq(LogLine) /\ Len(lines') = Len(lines) + 1
      BY <1>7, <2>1, <3>1, AppendProperties DEF Log
    <3>3. Len(lines') <= MaxUnread
      BY <1>7, <2>1, <3>1, <3>2, ProgressAssumption DEF Log
    <3>4. QED
      BY <1>7, <3>2, <3>3 DEF LogLine
  <2>2. CASE ~Listening
    BY <1>7, <2>2, ProgressAssumption DEF Log
  <2>3. QED
    BY <2>1, <2>2
<1>8. CASE EngineLogs
  <2>1. input.plugin \in Plugins
    BY ScriptAssumption DEF ScriptTypeOK, Input
  <2>2. engine.at \in Nat /\ engine.at + 1 \in 1..Len(Lines)
    BY <1>8, <2>1, LineFacts DEF EngineLogs, Lines, ScriptTypeOK
  <2>3. MarkLine(Lines[engine.at + 1]) \in LogLine
    BY <2>1, <2>2, LineFacts DEF Lines, MarkLine, LogLine
  <2>4. QED
    BY <1>7, <1>8, <2>3 DEF EngineLogs
<1>9. CASE EngineComplains
  <2>1. ErrorLine \in LogLine
    BY DEF ErrorLine, LogLine
  <2>2. QED
    BY <1>7, <1>9, <2>1 DEF EngineComplains
<1>10. CASE Analyzer \/ Silence(Healthy) \/ Poll \/ ServiceRestarts
  BY <1>10, ReadType, AnalyzerType, ViewType DEF Analyzer
<1>11. CASE UNCHANGED progressVars
  BY <1>11 DEF progressVars
<1>12. QED
  BY <1>1, <1>2, <1>3, <1>4, <1>5, <1>6, <1>8, <1>9, <1>10, <1>11 DEF Next, Script, vars

LEMMA ScriptTypeAlways == Spec => [](ScriptTypeOK /\ ProgressTypeOK)
<1>1. Init => ScriptTypeOK /\ ProgressTypeOK
  <2> SUFFICES ASSUME Init
               PROVE  ScriptTypeOK /\ ProgressTypeOK
    OBVIOUS
  <2>1. input \in Input /\ Len(LineTable[input.plugin]) \in Nat
    BY ScriptAssumption, LineFacts DEF Init, Input
  <2>2. ScriptTypeOK
    <3>1. /\ script \in [main : SUBSET Feature, again : SUBSET Feature]
          /\ claimed \in SUBSET Feature
      BY <2>1, PlanType DEF Init
    <3>2. 0 \in 0..Len(LineTable[input.plugin]) /\ {} \in SUBSET Feature /\ runs \in 0..MaxRuns
      BY <2>1, ScriptAssumption DEF Init
    <3> HIDE DEF Feature, Patch
    <3>3. engine \in [state : {"none", "up", "stopping", "crashed", "exited"},
                     features : SUBSET Feature, at : 0..Len(LineTable[input.plugin])]
      BY <3>2 DEF Init, NoEngine
    <3>4. QED
      BY <3>1, <3>2, <3>3 DEF Init, ScriptTypeOK
  <2>3. ProgressTypeOK
    <3>1. NoFile \in FileLine /\ Progress("init", "running", 0) \in FileLine
      BY DEF NoFile, Progress, FileLine, FilePhases, Statuses, Phases
    <3>2. QED
      BY <3>1, NothingUnread DEF Init, ProgressInit, ProgressTypeOK, FileLine, LogLine
  <2>4. QED
    BY <2>2, <2>3
<1>2. QED
  BY <1>1, ScriptTypeStep, ProgressTypeStep, PTL DEF Spec

(* Every variable keeps its type: a progress is a percentage, whatever is added to it, and
   a phase is one the page knows. *)
THEOREM TypeCorrect == Spec => []TypeOK
<1>1. ScriptTypeOK /\ ProgressTypeOK => TypeOK
  BY DEF ScriptTypeOK, TypeOK
<1>2. QED
  BY <1>1, ScriptTypeAlways, PTL
-----------------------------------------------------------------------------
(* What the launch was asked for stays, and so do the commands the plan makes of it. *)

Kept == input \in Inputs /\ script = Plan(input)

(* No engine runs but while the script waits for it, the first command's before the second
   start and the second's after it; what is reported is never more than was planned, no
   feature whose patch is recorded as missing, and nothing at all once the script has turned
   the features off. *)
PatchesTold ==
    IF pc \in {"begin", "install"}
    THEN unpatched = {}
    ELSE stale \/ claimed \cap FeaturesWith(unpatched \ Unrecorded(input)) = {}

Promised ==
    /\ Kept
    /\ PatchesTold
    /\ engine.state = "up" =>
            \/ pc = "wait" /\ engine.features = script.main
            \/ pc = "wait2" /\ engine.features = script.again
    /\ claimed \subseteq Reported(input)
    /\ pc \in {"restart", "wait2", "report", "quit"} /\ ~stale => claimed = {}

LEMMA KeptStep == Kept /\ [Next]_vars => Kept'
<1> SUFFICES ASSUME Kept, [Next]_vars
             PROVE  Kept'
  OBVIOUS
<1>1. CASE Script
  BY <1>1 DEF Script, Begin, Install, StartEngine, EngineDone, EngineFailed, CleanUp,
              StartAgain, ReportFailure, Quit, Kept
<1>2. CASE EarlyFailure \/ RestartFails \/ Terminate \/ RunAgain \/ PlanAgain
  BY <1>2 DEF EarlyFailure, RestartFails, Terminate, RunAgain, PlanAgain, Kept
<1>3. CASE \/ EngineStops("crashed") \/ EngineStops("exited") \/ EngineLogs
           \/ EngineComplains
  BY <1>3 DEF EngineStops, EngineLogs, EngineComplains, scriptVars, Kept
<1>4. CASE UNCHANGED scriptVars
  BY <1>4 DEF scriptVars, Kept
<1>5. QED
  BY <1>1, <1>2, <1>3, <1>4 DEF Next, Analyzer, vars

(* For whatever a launch is asked for, the second start turns on none of the advanced
   features where the plan has one, and is the first start once more where it has none,
   although the two commands are built from one engine_config that the builders change. *)
THEOREM SecondStartAlwaysPlain == Spec => []SecondStartAsPromised
<1>1. Init => Kept
  BY DEF Init, Kept
<1>2. Kept => SecondStartAsPromised
  BY ScriptAssumption, PlanFacts DEF Kept, SecondStartAsPromised
<1>3. QED
  BY <1>1, <1>2, KeptStep, PTL DEF Spec

(* A patch the script has not got is told of once, and nothing but the launcher, which makes
   the report stale, or the next run of the script takes that back. *)
LEMMA PatchesToldStep ==
    ASSUME ScriptTypeOK, PatchesTold, [Next]_vars
    PROVE  PatchesTold'
<1>i. input' = input
  BY DEF Next, Script, Begin, Install, StartEngine, EngineDone, EngineFailed, CleanUp,
         StartAgain, ReportFailure, Quit, EarlyFailure, RestartFails, Terminate, RunAgain,
         PlanAgain, EngineStops, EngineLogs, EngineComplains, Analyzer, vars, scriptVars
<1>n. FeaturesWith({} \ Unrecorded(input)) = {}
  BY DEF FeaturesWith
<1>s. ASSUME pc' \in {"begin", "install"} <=> pc \in {"begin", "install"},
             stale' = stale, claimed' \subseteq claimed, unpatched' = unpatched
      PROVE  PatchesTold'
  BY <1>i, <1>s DEF PatchesTold
<1>1. CASE Begin \/ RunAgain
  BY <1>1 DEF Begin, RunAgain, PatchesTold
<1>2. CASE Install
  BY <1>2, <1>i DEF Install, PatchesTold
<1>3. CASE \/ StartEngine \/ EngineDone \/ EngineFailed \/ StartAgain \/ ReportFailure
           \/ Quit \/ RestartFails
  BY <1>3, <1>s
  DEF StartEngine, EngineDone, EngineFailed, StartAgain, ReportFailure, Quit, RestartFails, End
<1>4. CASE CleanUp
  BY <1>4, <1>s DEF CleanUp
<1>5. CASE EarlyFailure
  <2>1. /\ pc \in {"install", "start"} /\ pc' = "ended"
        /\ UNCHANGED <<claimed, stale, unpatched>>
    BY <1>5 DEF EarlyFailure, End
  <2>2. CASE pc = "start"
    BY <1>s, <2>1, <2>2
  <2>3. CASE pc = "install"
    BY <1>i, <1>n, <2>1, <2>3 DEF PatchesTold
  <2>4. QED
    BY <2>1, <2>2, <2>3
<1>6. CASE Terminate
  <2>1. UNCHANGED <<claimed, stale, unpatched>>
    BY <1>6 DEF Terminate
  <2>2. pc' \in {"begin", "install"} <=> pc \in {"begin", "install"}
    BY <1>6 DEF Terminate
  <2>3. QED
    BY <1>s, <2>1, <2>2
<1>7. CASE PlanAgain
  <2>1. UNCHANGED <<pc, unpatched>> /\ claimed' = Reported(input)
        /\ stale' = (stale \/ (pc \notin {"begin", "install"} /\ claimed # Reported(input)))
    BY <1>7 DEF PlanAgain
  <2>2. CASE pc \in {"begin", "install"}
    BY <2>1, <2>2 DEF PatchesTold
  <2>3. CASE pc \notin {"begin", "install"}
    BY <1>i, <2>1, <2>3 DEF PatchesTold
  <2>4. QED
    BY <2>2, <2>3
<1>8. CASE EngineStops("crashed") \/ EngineStops("exited") \/ EngineLogs
  BY <1>8, <1>s DEF EngineStops, EngineLogs
<1>9. CASE UNCHANGED scriptVars
  BY <1>9, <1>s DEF scriptVars
<1>10. QED
  BY <1>1, <1>2, <1>3, <1>4, <1>5, <1>6, <1>7, <1>8, <1>9
  DEF Next, Script, Analyzer, vars, EngineComplains

LEMMA PromisedStep ==
    ASSUME ScriptTypeOK, Promised, [Next]_vars
    PROVE  Promised'
<1> USE DEF Promised
<1>k. Kept' /\ PatchesTold'
  BY KeptStep, PatchesToldStep
<1>i. /\ ~Active(input) => Reported(input) = {}
      /\ script.again = IF Active(input) THEN {} ELSE script.main
  BY PlanFacts, ScriptAssumption DEF Kept
<1>1. CASE Begin \/ Install
  BY <1>1, <1>k DEF Begin, Install
<1>2. CASE StartEngine \/ StartAgain
  BY <1>2, <1>k DEF StartEngine, StartAgain, Started
<1>3. CASE EngineDone \/ EngineFailed \/ ReportFailure \/ Quit
  BY <1>3, <1>k DEF EngineDone, EngineFailed, ReportFailure, Quit, End
<1>4. CASE CleanUp
  <2>1. /\ pc = "clean" /\ pc' = "restart" /\ UNCHANGED <<input, script, stale, engine>>
        /\ claimed' = IF Active(input) THEN {} ELSE claimed
    BY <1>4 DEF CleanUp
  <2>2. claimed' = {}
    BY <1>i, <2>1
  <2>3. QED
    BY <1>k, <2>1, <2>2
<1>5. CASE EarlyFailure \/ RestartFails
  BY <1>5, <1>k DEF EarlyFailure, RestartFails, End
<1>6. CASE Terminate
  <2>1. /\ engine' = IF engine.state = "up" THEN [engine EXCEPT !.state = "stopping"]
                                            ELSE engine
        /\ pc' = CASE pc = "wait" -> "clean" [] pc = "wait2" -> "report" [] OTHER -> pc
        /\ UNCHANGED <<input, script, claimed, stale>>
    BY <1>6 DEF Terminate
  <2>2. engine'.state # "up"
    BY <2>1 DEF ScriptTypeOK
  <2>3. pc' \in {"restart", "wait2", "report", "quit"}
            => pc \in {"restart", "wait2", "report", "quit"}
    BY <2>1
  <2>4. QED
    BY <1>k, <2>1, <2>2, <2>3
<1>7. CASE RunAgain
  BY <1>7, <1>k DEF RunAgain, NoEngine
<1>8. CASE PlanAgain
  <2>1. /\ claimed' = Reported(input) /\ UNCHANGED <<input, pc, engine>>
        /\ stale' = (stale \/ (pc \notin {"begin", "install"} /\ claimed # Reported(input)))
        /\ script' = Plan(input)
    BY <1>8 DEF PlanAgain
  <2>2. script' = script
    BY <2>1 DEF Kept
  <2>3. pc \in {"restart", "wait2", "report", "quit"} /\ ~stale' => claimed' = {}
    BY <1>i, <2>1
  <2>4. QED
    BY <1>k, <2>1, <2>2, <2>3
<1>9. CASE EngineStops("crashed") \/ EngineStops("exited")
  <2>1. PICK state \in {"crashed", "exited"} :
            /\ engine' = [engine EXCEPT !.state = state]
            /\ UNCHANGED <<input, script, claimed, stale, pc>>
    BY <1>9 DEF EngineStops
  <2>2. engine'.state # "up"
    BY <2>1 DEF ScriptTypeOK
  <2>3. QED
    BY <1>k, <2>1, <2>2
<1>10. CASE EngineLogs
  BY <1>10, <1>k DEF EngineLogs
<1>11. CASE UNCHANGED scriptVars
  BY <1>11, <1>k DEF scriptVars
<1>12. QED
  BY <1>1, <1>2, <1>3, <1>4, <1>5, <1>6, <1>7, <1>8, <1>9, <1>10, <1>11
  DEF Next, Script, Analyzer, vars, EngineComplains

(* While an engine runs, what is reported is on in its command, but for a sparse cache that is
   nothing on that engine, and has its patches, but for those whose failure the script does
   not record, unless the launcher has written its plan's features over what the script had
   changed. *)
THEOREM MisreportedOnlyIfUnrecorded == Spec => []OnlyUnrecordedIsMisreported
<1>1. Init => Promised
  BY DEF Init, Promised, Kept, PatchesTold, NoEngine
<1>2. Promised => OnlyUnrecordedIsMisreported
  <2> SUFFICES ASSUME Promised, engine.state = "up", ~stale
               PROVE  /\ claimed \subseteq engine.features
                            \cup (IF input.sparse = "noop" THEN {"sparse_kv"} ELSE {})
                      /\ claimed \cap FeaturesWith(unpatched \ Unrecorded(input)) = {}
    BY DEF OnlyUnrecordedIsMisreported
  <2>1. \A f \in Reported(input) :
            f \in script.main \/ (f = "sparse_kv" /\ input.sparse = "noop")
    BY PlanFacts, ScriptAssumption DEF Promised, Kept
  <2>2. pc \in {"wait", "wait2"}
    BY DEF Promised
  <2>3. QED
    BY <2>1, <2>2 DEF Promised, PatchesTold
<1>3. QED
  BY <1>1, <1>2, PromisedStep, ScriptTypeAlways, PTL DEF Spec
-----------------------------------------------------------------------------
(* Before an engine was ready nothing says or counts that one is: no line that is still to
   be read, nor the analyzer, nor its file, nor the page; and the engine's log is not at
   its end. *)
NoneUnread == \A i \in DOMAIN lines : lines[i].phase # "ready" /\ lines[i].mark # 100
AnalyzerEarly == ~ready /\ phase # "ready" /\ progress # 100
FileEarly == file.status # "completed" /\ file.phase # "ready" /\ file.progress # 100
ViewEarly == view.status # "completed" /\ view.progress # 100

Early == NoneUnread /\ AnalyzerEarly /\ FileEarly /\ ViewEarly

Unserved == ~served => engine.at # Len(Lines) /\ Early

LEMMA UnservedStep ==
    ASSUME ScriptTypeOK, ProgressTypeOK, Unserved, [Next]_vars
    PROVE  Unserved'
<1> SUFFICES ASSUME ~served'
             PROVE  engine'.at # Len(Lines') /\ Early'
  BY DEF Unserved
<1>i. input.plugin \in Plugins
  BY ScriptAssumption DEF ScriptTypeOK, Input
<1>l. PICK n \in Nat \ {0} : n = Len(Lines) /\ engine.at \in 0..n
  BY <1>i, LineFacts DEF Lines, ScriptTypeOK
<1>0. ~served
  BY DEF Next, Script, Begin, Install, StartEngine, EngineDone, EngineFailed, CleanUp,
         StartAgain, ReportFailure, Quit, EarlyFailure, RestartFails, Terminate, RunAgain,
         PlanAgain, EngineStops, EngineLogs, EngineComplains, Analyzer, vars, scriptVars
<1>u. engine.at # n /\ NoneUnread /\ AnalyzerEarly /\ FileEarly /\ ViewEarly
  BY <1>0, <1>l DEF Unserved, Early
<1>s. StopAnalyzer => NoneUnread' /\ AnalyzerEarly'
  BY EmptySeq DEF StopAnalyzer, NoPhase, NoneUnread, AnalyzerEarly
<1>f. \A r : r \in {"script_error", "engine_crash"} =>
        /\ Failed(r).status # "completed" /\ Failed(r).phase # "ready" /\ Failed(r).progress # 100
  BY DEF Failed, Progress
<1>in. input' = input
  BY DEF Next, Script, Begin, Install, StartEngine, EngineDone, EngineFailed, CleanUp,
         StartAgain, ReportFailure, Quit, EarlyFailure, RestartFails, Terminate, RunAgain,
         PlanAgain, EngineStops, EngineLogs, EngineComplains, Analyzer, vars, scriptVars
<1>e. engine'.at # n
  <2>1. CASE StartEngine \/ StartAgain
    BY <2>1 DEF StartEngine, StartAgain, Started
  <2>2. CASE RunAgain
    BY <2>2 DEF RunAgain, NoEngine
  <2>3. CASE Terminate \/ EngineStops("crashed") \/ EngineStops("exited")
    <3>1. engine'.at = engine.at
      BY <2>3 DEF Terminate, EngineStops, ScriptTypeOK
    <3>2. QED
      BY <1>u, <3>1
  <2>4. CASE EngineLogs
    BY <1>l, <2>4 DEF EngineLogs
  <2>5. CASE UNCHANGED engine
    BY <1>u, <2>5
  <2>6. QED
    BY <2>1, <2>2, <2>3, <2>4, <2>5
    DEF Next, Script, Begin, Install, EngineDone, EngineFailed, CleanUp, ReportFailure, Quit,
        EarlyFailure, RestartFails, PlanAgain, EngineComplains, Analyzer, vars, scriptVars
<1>q. UNCHANGED lines => NoneUnread'
  BY <1>u DEF NoneUnread
<1>a. UNCHANGED <<phase, progress, ready>> => AnalyzerEarly'
  BY <1>u DEF AnalyzerEarly
<1>g. UNCHANGED file => FileEarly'
  BY <1>u DEF FileEarly
<1>v. UNCHANGED view => ViewEarly'
  BY <1>u DEF ViewEarly
<1>r. SUFFICES Early'
  BY <1>e, <1>in, <1>l DEF Lines
<1>1. CASE Begin
  <2>1. NoFile.status # "completed" /\ NoFile.phase # "ready" /\ NoFile.progress # 100
    BY DEF NoFile, Progress, NoPhase
  <2>2. FileEarly'
    BY <1>1, <1>g, <2>1 DEF Begin, FileEarly
  <2>3. QED
    BY <1>1, <1>a, <1>q, <1>v, <2>2 DEF Begin, KeepAnalyzer, Early
<1>2. CASE \/ Install \/ StartEngine \/ EngineFailed \/ CleanUp \/ StartAgain \/ PlanAgain
           \/ EngineStops("crashed") \/ EngineStops("exited")
  BY <1>2, <1>a, <1>g, <1>q, <1>v
  DEF Install, StartEngine, EngineFailed, CleanUp, StartAgain, PlanAgain, EngineStops, progressVars,
      Early
<1>3. CASE EngineDone \/ Quit \/ RunAgain
  BY <1>3, <1>g, <1>s, <1>v DEF EngineDone, Quit, RunAgain, Early
<1>4. CASE ReportFailure \/ EarlyFailure \/ RestartFails \/ Terminate
  <2>1. file' = file \/ \E r \in {"script_error", "engine_crash"} : file' = Failed(r)
    BY <1>4 DEF ReportFailure, EarlyFailure, RestartFails, Terminate
  <2>2. FileEarly'
    BY <1>f, <1>g, <2>1 DEF FileEarly
  <2>3. StopAnalyzer \/ UNCHANGED <<lines, phase, progress, ready>>
    BY <1>4 DEF ReportFailure, EarlyFailure, RestartFails, Terminate, KeepAnalyzer
  <2>4. UNCHANGED view
    BY <1>4 DEF ReportFailure, EarlyFailure, RestartFails, Terminate
  <2>5. QED
    BY <1>a, <1>q, <1>s, <1>v, <2>2, <2>3, <2>4 DEF Early
<1>5. ASSUME NEW l, l.phase # "ready", l.mark # 100, Log(l)
      PROVE  NoneUnread'
  <2>1. CASE lines' = <<>>
    BY <2>1, EmptySeq DEF NoneUnread
  <2>2. CASE lines' = Append(lines, l)
    <3>1. lines \in Seq(LogLine) /\ Len(lines) \in Nat /\ DOMAIN lines = 1..Len(lines)
      BY LenProperties DEF ProgressTypeOK, LogLine
    <3>2. \A i \in DOMAIN lines' : (i \in DOMAIN lines /\ lines'[i] = lines[i]) \/ lines'[i] = l
      BY <2>2, <3>1
    <3>3. QED
      BY <1>5, <1>u, <3>2 DEF NoneUnread
  <2>3. QED
    BY <1>5, <2>1, <2>2 DEF Log
<1>6. CASE EngineLogs
  <2>1. engine.at \in 0..n /\ engine.at < n /\ engine.at + 1 # n
    <3>1. engine.at < Len(Lines) /\ engine'.at = engine.at + 1
      BY <1>6 DEF EngineLogs, ScriptTypeOK
    <3>2. QED
      BY <1>e, <1>l, <3>1
  <2>2. engine.at + 1 \in 1..Len(Lines) /\ engine.at + 1 # Len(Lines)
    BY <1>l, <2>1
  <2>3. Lines[engine.at + 1].phase # "ready" /\ Lines[engine.at + 1].mark # 100
    BY <1>i, <2>2, LineFacts DEF Lines
  <2>4. NoneUnread'
    BY <1>5, <1>6, <2>3 DEF EngineLogs, MarkLine
  <2>5. QED
    BY <1>6, <1>a, <1>g, <1>v, <2>4 DEF EngineLogs, Early
<1>7. CASE EngineComplains
  <2>1. NoneUnread'
    BY <1>5, <1>7 DEF EngineComplains, ErrorLine, NoPhase
  <2>2. QED
    BY <1>7, <1>a, <1>g, <1>v, <2>1 DEF EngineComplains, Early
<1>8. CASE AnalyzerStarts
  <2>1. FileEarly'
    BY <1>8, <1>g DEF AnalyzerStarts, FileEarly, Progress
  <2>2. NoneUnread'
    <3>1. lines' = lines \/ lines' = <<>>
      BY <1>8 DEF AnalyzerStarts
    <3>2. QED
      BY <1>q, <3>1, EmptySeq DEF NoneUnread
  <2>3. QED
    BY <1>8, <1>v, <2>1, <2>2 DEF AnalyzerStarts, AnalyzerEarly, NoPhase, Early
<1>9. CASE CatchesUp
  BY <1>9, <1>a, <1>g, <1>q, <1>v DEF CatchesUp, Early
<1>10. CASE Silence(Healthy)
  <2>1. ~Healthy
    BY <1>l, <1>u DEF Healthy
  <2>2. /\ UNCHANGED <<lines, phase, progress, ready, view>>
        /\ \E p \in {"timeout", phase}, t \in {"failed", "warning"} :
                file' = Progress(p, t, progress)
    BY <1>10, <2>1 DEF Silence, MayAnswer
  <2>3. FileEarly'
    BY <1>u, <2>2 DEF FileEarly, AnalyzerEarly, Progress
  <2>4. QED
    BY <1>a, <1>q, <1>v, <2>2, <2>3 DEF Early
<1>11. CASE Poll
  <2>1. view' = Updated(view, file) /\ UNCHANGED <<lines, phase, progress, ready, file>>
    BY <1>11 DEF Poll, logVars
  <2>2. view'.status = file.status
    BY <2>1 DEF Updated
  <2>3. MayIncrement(file.phase, view.progress) => view.progress + 1 # 100
    <3>1. PICK m \in 0..100 : m = view.progress
      BY DEF ProgressTypeOK
    <3>2. \A d \in 0..99 : m < d => m + 1 # 100
      OBVIOUS
    <3>3. QED
      BY <1>u, <3>1, <3>2, PhaseMaxima DEF MayIncrement, FileEarly
  <2>4. view'.progress \in {file.progress, view.progress}
        \/ (view'.progress = view.progress + 1 /\ MayIncrement(file.phase, view.progress))
    BY <2>1 DEF Updated
  <2>5. ViewEarly'
    BY <1>u, <2>2, <2>3, <2>4 DEF ViewEarly, FileEarly
  <2>6. QED
    BY <1>a, <1>g, <1>q, <2>1, <2>5 DEF Early
<1>12. CASE ServiceRestarts
  <2>1. ViewEarly'
    BY <1>12 DEF ServiceRestarts, ViewEarly, Progress
  <2>2. QED
    BY <1>12, <1>a, <1>g, <1>q, <2>1 DEF ServiceRestarts, logVars, Early
<1>13. CASE ReadLine
  <2>1. lines \in Seq(LogLine) /\ lines # <<>>
    BY <1>13 DEF ReadLine, ProgressTypeOK, LogLine
  <2>2. /\ Head(lines) = lines[1] /\ 1 \in DOMAIN lines /\ Head(lines) \in LogLine
        /\ \A i \in DOMAIN Tail(lines) : i + 1 \in DOMAIN lines /\ Tail(lines)[i] = lines[i + 1]
    <3>1. Len(lines) \in Nat \ {0} /\ DOMAIN lines = 1..Len(lines)
      BY <2>1, LenProperties, EmptySeq
    <3>2. QED
      BY <2>1, <3>1, HeadTailProperties, LenProperties, ElementOfSeq
  <2> DEFINE l == Head(lines)
             now == Max({l.mark, progress})
  <2>3. l.phase # "ready" /\ now # 100
    <3>1. l.mark \in 0..100 /\ progress \in 0..100
      BY <2>2 DEF LogLine, ProgressTypeOK
    <3>2. now \in {l.mark, progress}
      BY <3>1, LargerMark
    <3>3. QED
      BY <1>u, <2>2, <3>2 DEF NoneUnread, AnalyzerEarly
  <2>4. /\ lines' = <<>> \/ lines' = Tail(lines)
        /\ view' = view
        /\ OnMark(l) \/ OnError \/ UNCHANGED <<phase, progress, ready, file>>
    BY <1>13, <2>2 DEF ReadLine, LogLine
  <2>5. NoneUnread'
    BY <1>u, <2>2, <2>4, EmptySeq DEF NoneUnread
  <2>6. CASE OnMark(l)
    <3>1. AnalyzerEarly'
      BY <1>u, <2>3, <2>6 DEF OnMark, AnalyzerEarly
    <3>2. file' = Progress(l.phase, "running", now)
      BY <2>3, <2>6 DEF OnMark
    <3>3. FileEarly'
      BY <2>3, <3>2 DEF Progress, FileEarly
    <3>4. QED
      BY <1>v, <2>4, <2>5, <3>1, <3>3 DEF Early
  <2>7. CASE OnError
    <3>1. /\ UNCHANGED <<phase, progress, ready>>
          /\ \E p \in {"error", phase} : file' = Progress(p, "failed", progress)
      BY <2>7 DEF OnError
    <3>2. FileEarly'
      BY <1>u, <3>1 DEF Progress, FileEarly, AnalyzerEarly
    <3>3. QED
      BY <1>a, <1>v, <2>4, <2>5, <3>1, <3>2 DEF Early
  <2>8. CASE UNCHANGED <<phase, progress, ready, file>>
    BY <1>a, <1>g, <1>v, <2>4, <2>5, <2>8 DEF Early
  <2>9. QED
    BY <2>4, <2>6, <2>7, <2>8
<1>14. CASE UNCHANGED progressVars
  BY <1>14, <1>a, <1>g, <1>q, <1>v DEF progressVars, Early
<1>15. QED
  BY <1>1, <1>2, <1>3, <1>4, <1>6, <1>7, <1>8, <1>9, <1>10, <1>11, <1>12, <1>13, <1>14
  DEF Next, Script, Analyzer, vars

(* Until an engine has been ready for the first time the page shows no start as complete, and
   no progress of 100: not from the manager's own increments, whatever they add between two
   lines, nor from a phase that begins again after a failure.  A later start may be shown at
   100 while it loads, from what the earlier one has left. *)
THEOREM NeverCompleteBeforeFirstReady == Spec => []NothingCompleteBeforeFirstReady
<1>1. Init => Unserved
  <2> SUFFICES ASSUME Init
               PROVE  Unserved
    OBVIOUS
  <2>1. input.plugin \in Plugins
    BY ScriptAssumption DEF Init, Input
  <2>2. engine.at # Len(Lines)
    BY <2>1, LineFacts DEF Init, NoEngine, Lines
  <2>3. QED
    BY <2>2, EmptySeq DEF Init, ProgressInit, Unserved, NoFile, Progress, NoPhase,
                          Early, NoneUnread, AnalyzerEarly, FileEarly, ViewEarly
<1>2. Unserved => NothingCompleteBeforeFirstReady
  BY DEF Unserved, Early, ViewEarly, NothingCompleteBeforeFirstReady
<1>3. QED
  BY <1>1, <1>2, UnservedStep, ScriptTypeAlways, PTL DEF Spec
=============================================================================
