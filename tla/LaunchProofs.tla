---------------------------- MODULE LaunchProofs -----------------------------
(***************************************************************************)
(* Proofs about plans, for every set of launches.                          *)
(*                                                                         *)
(* A plan that is made again is the same plan: from what the steps of a    *)
(* plan leave to each other, whatever the merge and the adapter make of    *)
(* it.  The one thing that outlives a plan is ENABLE_KV_OFFLOAD, which the *)
(* first step rewrites: that it settles there is FeaturesSettled.          *)
(*                                                                         *)
(* The nodes of a cluster give the same command: their parameters are      *)
(* Twins after every definition of the pipeline.                           *)
(*                                                                         *)
(* The rest is about what a plan says.  LaunchInv ties the variables to    *)
(* the functions of the request the steps compute (ForMain, ForSecond) and *)
(* keeps their types; one lemma for each function of the adapter says what *)
(* it changes of the parameters (the ...Form and ...Sizes lemmas), and the *)
(* properties of a plan follow from those: its ranks, its cards, its       *)
(* memory, its strategy, and the features of both commands.                *)
(***************************************************************************)
EXTENDS Launch, TLAPS

(* What a launch is given of what it asks for, and what the process remembers of it *)
Granted(r)    == Features(r, "offload" \in r.asked)
Offloaded(r)  == "offload" \in Granted(r).smart

(* The parameters between the steps of a plan *)
AfterGate(r)       == [NoParams EXCEPT !.features = Granted(r)]
AfterMerge(r)      == [AfterGate(r) EXCEPT !.cfg = FinalConfig(r, MergedConfig(r, Granted(r).smart))]
AfterPrepare(r, n) == Prepared(r, n, AfterMerge(r))
ForSecond(r, n)    == SecondParams(r, AfterPrepare(r, n), Offloaded(r))
ForMain(r, n) ==
    IF r.engine \in VllmEngines /\ ForSecond(r, n).cfg = AfterPrepare(r, n).cfg
    THEN [AfterPrepare(r, n) EXCEPT !.cfg = Scripted(r, n, ForSecond(r, n)).cfg]
    ELSE AfterPrepare(r, n)

(* The plan, and its parts in the order they are made *)
ThePlan(r, n) == [report |-> ReportOf(r, AfterPrepare(r, n)),
                  again  |-> CommandOf(r, n, ForSecond(r, n)),
                  main   |-> CommandOf(r, n, ForMain(r, n))]

ParamsAreOf(n) ==
    /\ pc[n] = "merge" => params[n] = AfterGate(request)
    /\ pc[n] = "prepare" => params[n] = AfterMerge(request)
    /\ pc[n] \in {"report", "again"} => params[n] = AfterPrepare(request, n)
    /\ pc[n] = "main" => params[n] = ForMain(request, n)

PlanIsOf(n) ==
    /\ plan[n] = [report |-> plan[n].report, again |-> plan[n].again, main |-> plan[n].main]
    /\ pc[n] \in {"again", "main", "done"} => plan[n].report = ThePlan(request, n).report
    /\ pc[n] \in {"main", "done"} => plan[n].again = ThePlan(request, n).again
    /\ pc[n] = "done" => plan[n].main = ThePlan(request, n).main

(* The environment settles with the first plan; until then it is what was asked. *)
EnvironmentSettles(n) ==
    /\ offload[n] \in BOOLEAN
    /\ Features(request, offload[n]) = Granted(request)
    /\ pc[n] # "gate" => offload[n] = Offloaded(request)

FirstIsOf(n) ==
    /\ first[n] \in {NoPlan, ThePlan(request, n)}
    /\ pc[n] = "done" => first[n] = ThePlan(request, n)

PlanInv(n) == ParamsAreOf(n) /\ PlanIsOf(n) /\ EnvironmentSettles(n) /\ FirstIsOf(n)

(* Each variable is a function on the nodes. *)
OnNodes(f) == f = [n \in Nodes |-> f[n]]

PlansAlike ==
    /\ OnNodes(pc) /\ OnNodes(offload) /\ OnNodes(params) /\ OnNodes(plan) /\ OnNodes(first)
    /\ \A n \in Nodes : PlanInv(n)
-----------------------------------------------------------------------------
(* What was granted is granted again when it is all that is asked. *)
LEMMA FeaturesSettled ==
    ASSUME NEW r, NEW asked \in BOOLEAN
    PROVE  Features(r, "offload" \in Features(r, asked).smart) = Features(r, asked)
<1> DEFINE all(o) == (AskedOf(r) \ {"offload"}) \cup (IF o THEN {"offload"} ELSE {})
<1>1. CASE r.role # "none"
  BY <1>1 DEF Features
<1>2. CASE r.role = "none"
  <2>1. \A o \in BOOLEAN : Features(r, o) = [spec |-> "spec" \in all(o),
                                             sparse |-> "sparse" \in (all(o) \cap Allowed(r)),
                                             smart |-> all(o) \cap Allowed(r)]
    BY <1>2 DEF Features
  <2> DEFINE again == "offload" \in Features(r, asked).smart
  <2>2. again <=> asked /\ "offload" \in Allowed(r)
    BY <2>1
  <2>3. ("spec" \in all(again)) <=> ("spec" \in all(asked))
    OBVIOUS
  <2>4. all(again) \cap Allowed(r) = all(asked) \cap Allowed(r)
    BY <2>2
  <2> DEFINE features(o) == [spec |-> "spec" \in all(o), sparse |-> "sparse" \in (all(o) \cap Allowed(r)),
                             smart |-> all(o) \cap Allowed(r)]
  <2>5. Features(r, again) = features(again) /\ Features(r, asked) = features(asked)
    BY <2>1, again \in BOOLEAN
  <2>6. ("sparse" \in (all(again) \cap Allowed(r))) <=> ("sparse" \in (all(asked) \cap Allowed(r)))
    BY <2>4
  <2> HIDE DEF all
  <2>7. features(again) = features(asked)
    BY <2>3, <2>4, <2>6
  <2> HIDE DEF features
  <2>8. QED
    BY <2>5, <2>7
<1>3. QED
  BY <1>1, <1>2

LEMMA PlansAlikeInit == Init => PlansAlike
<1> SUFFICES ASSUME Init PROVE PlansAlike
  OBVIOUS
<1>1. ASSUME NEW n \in Nodes PROVE PlanInv(n)
  <2>1. pc[n] = "gate" /\ plan[n] = NoPlan /\ first[n] = NoPlan
    BY DEF Init
  <2>2. offload[n] = ("offload" \in request.asked)
    BY DEF Init
  <2>3. plan[n] = [report |-> plan[n].report, again |-> plan[n].again, main |-> plan[n].main]
    BY <2>1 DEF NoPlan
  <2>4. offload[n] \in BOOLEAN /\ Features(request, offload[n]) = Granted(request)
    BY <2>2 DEF Granted
  <2>5. QED
    BY <2>1, <2>3, <2>4 DEF PlanInv, ParamsAreOf, PlanIsOf, EnvironmentSettles, FirstIsOf
<1>2. QED
  BY <1>1 DEF Init, PlansAlike, OnNodes

(* A step of one node's planning leaves the others as they are. *)
LEMMA OthersKeep ==
    ASSUME NEW n \in Nodes, PlansAlike, request' = request, NEW m \in Nodes,
           pc'[m] = pc[m], offload'[m] = offload[m], params'[m] = params[m],
           plan'[m] = plan[m], first'[m] = first[m]
    PROVE  PlanInv(m)'
BY DEF PlansAlike, PlanInv, ParamsAreOf, PlanIsOf, EnvironmentSettles, FirstIsOf, ThePlan

LEMMA GateStep ==
    ASSUME NEW n \in Nodes, PlansAlike, Gate(n)
    PROVE  PlansAlike'
<1>1. Nodes' = Nodes /\ request' = request
  BY DEF Gate, Nodes
<1>2. pc[n] = "gate" /\ Features(request, offload[n]) = Granted(request) /\ offload[n] \in BOOLEAN
  BY DEF Gate, PlansAlike, PlanInv, EnvironmentSettles
<1>3. /\ pc' = [pc EXCEPT ![n] = "merge"]
      /\ params' = [params EXCEPT ![n] = [NoParams EXCEPT !.features = Granted(request)]]
      /\ offload' = [offload EXCEPT ![n] = Offloaded(request)]
      /\ plan' = plan /\ first' = first
  BY <1>2 DEF Gate, Offloaded
<1>4. /\ OnNodes(pc)' /\ OnNodes(offload)' /\ OnNodes(params)' /\ OnNodes(plan)' /\ OnNodes(first)'
  BY <1>1, <1>3 DEF PlansAlike, OnNodes
<1>5. PlanInv(n)'
  <2>1. /\ pc'[n] = "merge" /\ params'[n] = AfterGate(request)
        /\ plan'[n] = plan[n] /\ first'[n] = first[n]
    BY <1>3 DEF PlansAlike, OnNodes, AfterGate
  <2>2. offload'[n] = Offloaded(request)
    BY <1>3 DEF PlansAlike, OnNodes
  <2>3. Features(request, offload'[n]) = Granted(request) /\ offload'[n] \in BOOLEAN
    <3>1. Features(request, "offload" \in Features(request, offload[n]).smart) = Features(request, offload[n])
      BY <1>2, FeaturesSettled
    <3>2. QED
      BY <1>2, <2>2, <3>1 DEF Offloaded
  <2>4. QED
    BY <1>1, <2>1, <2>2, <2>3 DEF PlansAlike, PlanInv, ParamsAreOf, PlanIsOf, EnvironmentSettles, FirstIsOf, ThePlan
<1>6. ASSUME NEW m \in Nodes, m # n PROVE PlanInv(m)'
  BY <1>1, <1>3, <1>6, OthersKeep DEF PlansAlike, OnNodes
<1>7. QED
  BY <1>1, <1>4, <1>5, <1>6 DEF PlansAlike

LEMMA MergeStep ==
    ASSUME NEW n \in Nodes, PlansAlike, Merge(n)
    PROVE  PlansAlike'
<1>1. Nodes' = Nodes /\ request' = request
  BY DEF Merge, Nodes
<1>2. pc[n] = "merge" /\ params[n] = AfterGate(request)
  BY DEF Merge, PlansAlike, PlanInv, ParamsAreOf
<1>3. params[n].features = Granted(request)
  BY <1>2 DEF AfterGate, NoParams
<1>4. /\ pc' = [pc EXCEPT ![n] = "prepare"]
      /\ params' = [params EXCEPT ![n].cfg = FinalConfig(request, MergedConfig(request, Granted(request).smart))]
      /\ offload' = offload /\ plan' = plan /\ first' = first
  BY <1>3 DEF Merge
<1>5. OnNodes(pc)' /\ OnNodes(offload)' /\ OnNodes(params)' /\ OnNodes(plan)' /\ OnNodes(first)'
  BY <1>1, <1>4 DEF PlansAlike, OnNodes
<1>6. PlanInv(n)'
  <2>1. pc'[n] = "prepare" /\ offload'[n] = offload[n] /\ plan'[n] = plan[n] /\ first'[n] = first[n]
    BY <1>4 DEF PlansAlike, OnNodes
  <2>2. params'[n] = [params[n] EXCEPT !.cfg = FinalConfig(request, MergedConfig(request, Granted(request).smart))]
    BY <1>4 DEF PlansAlike, OnNodes
  <2>3. params'[n] = AfterMerge(request)
    BY <1>2, <2>2 DEF AfterMerge
  <2>4. QED
    BY <1>1, <1>2, <2>1, <2>3 DEF PlansAlike, PlanInv, ParamsAreOf, PlanIsOf, EnvironmentSettles, FirstIsOf, ThePlan
<1>7. ASSUME NEW m \in Nodes, m # n PROVE PlanInv(m)'
  BY <1>1, <1>4, <1>7, OthersKeep DEF PlansAlike, OnNodes
<1>8. QED
  BY <1>1, <1>5, <1>6, <1>7 DEF PlansAlike

LEMMA PrepareStep ==
    ASSUME NEW n \in Nodes, PlansAlike, Prepare(n) \/ PrepareRefused(n)
    PROVE  PlansAlike'
<1>1. Nodes' = Nodes /\ request' = request
  BY DEF Prepare, PrepareRefused, Nodes
<1>2. pc[n] = "prepare" /\ params[n] = AfterMerge(request)
  BY DEF Prepare, PrepareRefused, PlansAlike, PlanInv, ParamsAreOf
<1>3. /\ \/ /\ pc' = [pc EXCEPT ![n] = "report"]
            /\ params' = [params EXCEPT ![n] = AfterPrepare(request, n)]
         \/ pc' = [pc EXCEPT ![n] = "failed"] /\ params' = params
      /\ offload' = offload /\ plan' = plan /\ first' = first
  BY <1>2 DEF Prepare, PrepareRefused, AfterPrepare, PlansAlike, OnNodes
<1>4. OnNodes(pc)' /\ OnNodes(offload)' /\ OnNodes(params)' /\ OnNodes(plan)' /\ OnNodes(first)'
  BY <1>1, <1>3 DEF PlansAlike, OnNodes
<1>5. PlanInv(n)'
  <2>1. /\ (pc'[n] = "report" /\ params'[n] = AfterPrepare(request, n)) \/ pc'[n] = "failed"
        /\ offload'[n] = offload[n] /\ plan'[n] = plan[n] /\ first'[n] = first[n]
    BY <1>3 DEF PlansAlike, OnNodes
  <2>2. QED
    BY <1>1, <1>2, <2>1 DEF PlansAlike, PlanInv, ParamsAreOf, PlanIsOf, EnvironmentSettles, FirstIsOf, ThePlan
<1>6. ASSUME NEW m \in Nodes, m # n PROVE PlanInv(m)'
  BY <1>1, <1>3, <1>6, OthersKeep DEF PlansAlike, OnNodes
<1>7. QED
  BY <1>1, <1>4, <1>5, <1>6 DEF PlansAlike

LEMMA ReportStep ==
    ASSUME NEW n \in Nodes, PlansAlike, Report(n)
    PROVE  PlansAlike'
<1>1. Nodes' = Nodes /\ request' = request
  BY DEF Report, Nodes
<1>2. pc[n] = "report" /\ params[n] = AfterPrepare(request, n)
  BY DEF Report, PlansAlike, PlanInv, ParamsAreOf
<1>3. /\ pc' = [pc EXCEPT ![n] = "again"]
      /\ plan' = [plan EXCEPT ![n].report = ThePlan(request, n).report]
      /\ offload' = offload /\ params' = params /\ first' = first
  BY <1>2 DEF Report, ThePlan
<1>4. OnNodes(pc)' /\ OnNodes(offload)' /\ OnNodes(params)' /\ OnNodes(plan)' /\ OnNodes(first)'
  BY <1>1, <1>3 DEF PlansAlike, OnNodes
<1>5. PlanInv(n)'
  <2>1. pc'[n] = "again" /\ offload'[n] = offload[n] /\ params'[n] = params[n] /\ first'[n] = first[n]
    BY <1>3 DEF PlansAlike, OnNodes
  <2>2. plan'[n] = [plan[n] EXCEPT !.report = ThePlan(request, n).report]
    BY <1>3 DEF PlansAlike, OnNodes
  <2>3. plan[n] = [report |-> plan[n].report, again |-> plan[n].again, main |-> plan[n].main]
    BY DEF PlansAlike, PlanInv, PlanIsOf
  <2>4. plan'[n] = [report |-> ThePlan(request, n).report, again |-> plan[n].again, main |-> plan[n].main]
    BY <2>2, <2>3
  <2>5. /\ plan'[n] = [report |-> plan'[n].report, again |-> plan'[n].again, main |-> plan'[n].main]
        /\ plan'[n].report = ThePlan(request, n).report
    BY <2>4
  <2>6. QED
    BY <1>1, <1>2, <2>1, <2>5 DEF PlansAlike, PlanInv, ParamsAreOf, PlanIsOf, EnvironmentSettles, FirstIsOf, ThePlan
<1>6. ASSUME NEW m \in Nodes, m # n PROVE PlanInv(m)'
  BY <1>1, <1>3, <1>6, OthersKeep DEF PlansAlike, OnNodes
<1>7. QED
  BY <1>1, <1>4, <1>5, <1>6 DEF PlansAlike

LEMMA BuildAgainStep ==
    ASSUME NEW n \in Nodes, PlansAlike, BuildAgain(n)
    PROVE  PlansAlike'
<1>1. Nodes' = Nodes /\ request' = request
  BY DEF BuildAgain, Nodes
<1>2. pc[n] = "again" /\ params[n] = AfterPrepare(request, n) /\ offload[n] = Offloaded(request)
  BY DEF BuildAgain, PlansAlike, PlanInv, ParamsAreOf, EnvironmentSettles
<1>3. /\ plan' = [plan EXCEPT ![n]["again"] = CommandOf(request, n, ForSecond(request, n))]
      /\ \E to \in {"failed", "main"} : pc' = [pc EXCEPT ![n] = to]
      /\ params' = IF request.engine \in VllmEngines /\ ForSecond(request, n).cfg = params[n].cfg
                   THEN [params EXCEPT ![n].cfg = Scripted(request, n, ForSecond(request, n)).cfg] ELSE params
      /\ offload' = offload /\ first' = first
  BY <1>2 DEF BuildAgain, Built, ForSecond
<1>4. OnNodes(pc)' /\ OnNodes(offload)' /\ OnNodes(params)' /\ OnNodes(plan)' /\ OnNodes(first)'
  BY <1>1, <1>3 DEF PlansAlike, OnNodes
<1>5. PlanInv(n)'
  <2>1. pc'[n] \in {"failed", "main"} /\ offload'[n] = offload[n] /\ first'[n] = first[n]
    BY <1>3 DEF PlansAlike, OnNodes
  <2>2. plan'[n] = [plan[n] EXCEPT !["again"] = CommandOf(request, n, ForSecond(request, n))]
    BY <1>3 DEF PlansAlike, OnNodes
  <2>3. /\ plan[n] = [report |-> plan[n].report, again |-> plan[n].again, main |-> plan[n].main]
        /\ plan[n].report = ThePlan(request, n).report
    BY <1>2 DEF PlansAlike, PlanInv, PlanIsOf
  <2>4. plan'[n] = [report |-> ThePlan(request, n).report, again |-> CommandOf(request, n, ForSecond(request, n)),
                    main |-> plan[n].main]
    BY <2>2, <2>3
  <2>5. PlanIsOf(n)'
    BY <1>1, <2>1, <2>4 DEF PlanIsOf, ThePlan
  <2>6. params'[n] = ForMain(request, n)
    BY <1>2, <1>3 DEF PlansAlike, OnNodes, ForMain
  <2>7. QED
    BY <1>1, <1>2, <2>1, <2>5, <2>6 DEF PlansAlike, PlanInv, ParamsAreOf, EnvironmentSettles, FirstIsOf, ThePlan
<1>6. ASSUME NEW m \in Nodes, m # n PROVE PlanInv(m)'
  BY <1>1, <1>3, <1>6, OthersKeep DEF PlansAlike, OnNodes
<1>7. QED
  BY <1>1, <1>4, <1>5, <1>6 DEF PlansAlike

LEMMA BuildMainStep ==
    ASSUME NEW n \in Nodes, PlansAlike, BuildMain(n)
    PROVE  PlansAlike'
<1>1. Nodes' = Nodes /\ request' = request
  BY DEF BuildMain, Nodes
<1>2. pc[n] = "main" /\ params[n] = ForMain(request, n) /\ offload[n] = Offloaded(request)
  BY DEF BuildMain, PlansAlike, PlanInv, ParamsAreOf, EnvironmentSettles
<1>3. /\ plan' = [plan EXCEPT ![n]["main"] = CommandOf(request, n, ForMain(request, n))]
      /\ \E to \in {"failed", "done"} : pc' = [pc EXCEPT ![n] = to]
      /\ \E q : params' = [params EXCEPT ![n] = q]
      /\ first' = [first EXCEPT ![n] = IF @ = NoPlan THEN plan'[n] ELSE @]
      /\ offload' = offload
  <2>1. params = [params EXCEPT ![n] = params[n]]
    BY DEF PlansAlike, OnNodes
  <2>2. QED
    BY <1>2, <2>1 DEF BuildMain, Built
<1>4. OnNodes(pc)' /\ OnNodes(offload)' /\ OnNodes(params)' /\ OnNodes(plan)' /\ OnNodes(first)'
  BY <1>1, <1>3 DEF PlansAlike, OnNodes
<1>5. PlanInv(n)'
  <2>1. pc'[n] \in {"failed", "done"} /\ offload'[n] = offload[n]
    BY <1>3 DEF PlansAlike, OnNodes
  <2>2. plan'[n] = [plan[n] EXCEPT !["main"] = CommandOf(request, n, ForMain(request, n))]
    BY <1>3 DEF PlansAlike, OnNodes
  <2>3. /\ plan[n] = [report |-> plan[n].report, again |-> plan[n].again, main |-> plan[n].main]
        /\ plan[n].report = ThePlan(request, n).report /\ plan[n].again = ThePlan(request, n).again
        /\ first[n] \in {NoPlan, ThePlan(request, n)}
    BY <1>2 DEF PlansAlike, PlanInv, PlanIsOf, FirstIsOf
  <2>4. plan'[n] = ThePlan(request, n)
    BY <2>2, <2>3 DEF ThePlan
  <2>5. first'[n] = ThePlan(request, n)
    BY <1>3, <2>3, <2>4 DEF PlansAlike, OnNodes
  <2>6. PlanIsOf(n)'
    BY <1>1, <2>4 DEF PlanIsOf, ThePlan
  <2>7. QED
    BY <1>1, <1>2, <2>1, <2>5, <2>6 DEF PlansAlike, PlanInv, ParamsAreOf, EnvironmentSettles, FirstIsOf, ThePlan
<1>6. ASSUME NEW m \in Nodes, m # n PROVE PlanInv(m)'
  BY <1>1, <1>3, <1>6, OthersKeep DEF PlansAlike, OnNodes
<1>7. QED
  BY <1>1, <1>4, <1>5, <1>6 DEF PlansAlike

(* The next plan, in the environment of this one or in the one the launch came with *)
LEMMA BeginStep ==
    ASSUME NEW n \in Nodes, PlansAlike, PlanAgain(n) \/ Restart(n)
    PROVE  PlansAlike'
<1>1. Nodes' = Nodes /\ request' = request
  BY DEF PlanAgain, Restart, Nodes
<1>2. /\ pc' = [pc EXCEPT ![n] = "gate"]
      /\ \/ offload' = offload
         \/ offload' = [offload EXCEPT ![n] = "offload" \in request.asked]
      /\ params' = params /\ plan' = plan /\ first' = first
  BY DEF PlanAgain, Restart
<1>3. OnNodes(pc)' /\ OnNodes(offload)' /\ OnNodes(params)' /\ OnNodes(plan)' /\ OnNodes(first)'
  BY <1>1, <1>2 DEF PlansAlike, OnNodes
<1>4. PlanInv(n)'
  <2>1. pc'[n] = "gate" /\ params'[n] = params[n] /\ plan'[n] = plan[n] /\ first'[n] = first[n]
    BY <1>2 DEF PlansAlike, OnNodes
  <2>2. offload'[n] = offload[n] \/ offload'[n] = ("offload" \in request.asked)
    BY <1>2 DEF PlansAlike, OnNodes
  <2>3. offload'[n] \in BOOLEAN /\ Features(request, offload'[n]) = Granted(request)
    <3>1. CASE offload'[n] = offload[n]
      BY <3>1 DEF PlansAlike, PlanInv, EnvironmentSettles
    <3>2. CASE offload'[n] = ("offload" \in request.asked)
      BY <3>2 DEF Granted
    <3>3. QED
      BY <2>2, <3>1, <3>2
  <2>4. QED
    BY <1>1, <2>1, <2>3 DEF PlansAlike, PlanInv, ParamsAreOf, PlanIsOf, EnvironmentSettles, FirstIsOf, ThePlan
<1>5. ASSUME NEW m \in Nodes, m # n PROVE PlanInv(m)'
  BY <1>1, <1>2, <1>5, OthersKeep DEF PlansAlike, OnNodes
<1>6. QED
  BY <1>1, <1>3, <1>4, <1>5 DEF PlansAlike

LEMMA PlansAlikeStep == PlansAlike /\ [Next]_vars => PlansAlike'
<1> SUFFICES ASSUME PlansAlike, [Next]_vars PROVE PlansAlike'
  OBVIOUS
<1>1. ASSUME NEW n \in Nodes,
             \/ Gate(n) \/ Merge(n) \/ Prepare(n) \/ PrepareRefused(n) \/ Report(n)
             \/ BuildAgain(n) \/ BuildMain(n) \/ PlanAgain(n) \/ Restart(n)
      PROVE  PlansAlike'
  BY <1>1, GateStep, MergeStep, PrepareStep, ReportStep, BuildAgainStep, BuildMainStep, BeginStep
<1>2. CASE UNCHANGED vars
  <2>1. Nodes' = Nodes /\ \A n \in Nodes : PlanInv(n)' <=> PlanInv(n)
    BY <1>2 DEF vars, Nodes, PlanInv, ParamsAreOf, PlanIsOf, EnvironmentSettles, FirstIsOf, ThePlan
  <2>2. QED
    BY <1>2, <2>1 DEF vars, PlansAlike, OnNodes
<1>3. QED
  BY <1>1, <1>2 DEF Next, Finished
-----------------------------------------------------------------------------
(* build_launcher_plan: a plan made again, in the environment the one before has left or
   after a restart of the launcher at any point of it, is the first plan once more, for
   any set of launches on any number of nodes. *)
THEOREM SamePlanAgain == Spec => []PlanStable
<1>1. PlansAlike => PlanStable
  <2> SUFFICES ASSUME PlansAlike, NEW n \in Nodes, Done(n) PROVE plan[n] = first[n]
    BY DEF PlanStable
  <2>1. pc[n] = "done" /\ PlanInv(n)
    BY DEF Done, PlansAlike
  <2>2. QED
    BY <2>1 DEF PlanInv, PlanIsOf, FirstIsOf, ThePlan
<1>2. QED
  BY <1>1, PlansAlikeInit, PlansAlikeStep, PTL DEF Spec
-----------------------------------------------------------------------------
(* What the parameters of two nodes have in common: all but the first rank *)
ConfigOf(c) == c = [tp |-> c.tp, dp |-> c.dp, startRank |-> c.startRank,
                    connector |-> c.connector, spec |-> c.spec, fp8 |-> c.fp8]
ParamsOf(p) ==
    /\ DOMAIN p = {"features", "cfg", "top", "rpc", "forceStart", "plain"}
    /\ DOMAIN p.top = {"tp", "dp"}
    /\ DOMAIN p.features = {"spec", "sparse", "smart"}
    /\ ConfigOf(p.cfg)

SameConfig(c, d) ==
    c.tp = d.tp /\ c.dp = d.dp /\ c.connector = d.connector /\ c.spec = d.spec /\ c.fp8 = d.fp8
Twins(p, q) ==
    /\ ParamsOf(p) /\ ParamsOf(q)
    /\ p.features = q.features /\ p.top = q.top /\ p.rpc = q.rpc
    /\ p.forceStart = q.forceStart /\ p.plain = q.plain
    /\ SameConfig(p.cfg, q.cfg)

(* The definitions of the pipeline, in their order: none of them looks at the node but for
   that rank. *)
LEMMA FlashTwins ==
    ASSUME NEW r, NEW p, NEW q, Twins(p, q)
    PROVE  Twins(FlashTopology(r, p), FlashTopology(r, q))
BY DEF Twins, ParamsOf, ConfigOf, SameConfig, FlashTopology

LEMMA ProRanked ==
    ASSUME NEW r, NEW p, NEW m, ParamsOf(p), ProScope(r)
    PROVE  /\ ParamsOf(ProTopology(r, m, p)) /\ SameConfig(ProTopology(r, m, p).cfg, p.cfg)
           /\ ProTopology(r, m, p).features = p.features /\ ProTopology(r, m, p).top = p.top
           /\ ProTopology(r, m, p).plain = p.plain
BY DEF ParamsOf, ConfigOf, SameConfig, ProTopology

LEMMA ProForced ==
    ASSUME NEW r, NEW p, NEW q, NEW m, NEW n, ParamsOf(p), ParamsOf(q), ProScope(r)
    PROVE  /\ ProTopology(r, m, p).rpc = ProTopology(r, n, q).rpc
           /\ ProTopology(r, m, p).forceStart = ProTopology(r, n, q).forceStart
BY DEF ParamsOf, ProTopology

LEMMA ProTwins ==
    ASSUME NEW r, NEW p, NEW q, NEW m, NEW n, Twins(p, q)
    PROVE  Twins(ProTopology(r, m, p), ProTopology(r, n, q))
<1>1. CASE ~ProScope(r)
  BY <1>1 DEF ProTopology
<1>2. CASE ProScope(r)
  <2>1. ParamsOf(p) /\ ParamsOf(q)
    BY DEF Twins
  <2>2. PICK s, t : s = ProTopology(r, m, p) /\ t = ProTopology(r, n, q)
    OBVIOUS
  <2>3. /\ ParamsOf(s) /\ SameConfig(s.cfg, p.cfg)
        /\ s.features = p.features /\ s.top = p.top /\ s.plain = p.plain
    BY <1>2, <2>1, <2>2, ProRanked, Zenon
  <2>4. /\ ParamsOf(t) /\ SameConfig(t.cfg, q.cfg)
        /\ t.features = q.features /\ t.top = q.top /\ t.plain = q.plain
    BY <1>2, <2>1, <2>2, ProRanked, Zenon
  <2>5. s.rpc = t.rpc /\ s.forceStart = t.forceStart
    <3>1. /\ ProTopology(r, m, p).rpc = ProTopology(r, n, q).rpc
          /\ ProTopology(r, m, p).forceStart = ProTopology(r, n, q).forceStart
      BY <1>2, <2>1, ProForced
    <3>2. QED
      BY <2>2, <3>1, Zenon
  <2>6. SameConfig(s.cfg, t.cfg)
    BY <2>3, <2>4 DEF Twins, SameConfig
  <2>7. s.features = t.features /\ s.top = t.top /\ s.plain = t.plain
    BY <2>3, <2>4, Zenon DEF Twins
  <2>8. Twins(s, t)
    BY <2>3, <2>4, <2>5, <2>6, <2>7, Zenon DEF Twins
  <2>9. QED
    BY <2>2, <2>8
<1>3. QED
  BY <1>1, <1>2

LEMMA Pro5000Twins ==
    ASSUME NEW r, NEW p, NEW q, Twins(p, q)
    PROVE  Twins(Pro5000Topology(r, p), Pro5000Topology(r, q))
BY DEF Twins, ParamsOf, ConfigOf, SameConfig, Pro5000Topology

LEMMA Glm52Twins ==
    ASSUME NEW r, NEW p, NEW q, Twins(p, q)
    PROVE  Twins(Glm52Topology(r, p), Glm52Topology(r, q))
BY DEF Twins, ParamsOf, ConfigOf, SameConfig, Glm52Topology

LEMMA DpTwins ==
    ASSUME NEW r, NEW p, NEW q, Twins(p, q)
    PROVE  Twins(DpTopology(r, p), DpTopology(r, q))
BY DEF Twins, ParamsOf, ConfigOf, SameConfig, DpTopology

LEMMA RoceTwins ==
    ASSUME NEW r, NEW p, NEW q, Twins(p, q)
    PROVE  Twins(RoceSpeculation(r, p), RoceSpeculation(r, q))
BY DEF Twins, ParamsOf, ConfigOf, SameConfig, RoceSpeculation

LEMMA RoleConfigs ==
    ASSUME NEW r, NEW c, NEW d, ConfigOf(c), ConfigOf(d), SameConfig(c, d)
    PROVE  /\ SameConfig(Stripped(r, WithRole(r, c)), Stripped(r, WithRole(r, d)))
           /\ ConfigOf(Stripped(r, WithRole(r, c))) /\ ConfigOf(Stripped(r, WithRole(r, d)))
<1>1. SameConfig(WithRole(r, c), WithRole(r, d)) /\ ConfigOf(WithRole(r, c)) /\ ConfigOf(WithRole(r, d))
  BY DEF ConfigOf, SameConfig, WithRole
<1>2. QED
  BY <1>1 DEF ConfigOf, SameConfig, Stripped

LEMMA RoleTwins ==
    ASSUME NEW r, NEW p, NEW q, Twins(p, q)
    PROVE  Twins([p EXCEPT !.cfg = Stripped(r, WithRole(r, @))], [q EXCEPT !.cfg = Stripped(r, WithRole(r, @))])
<1>1. /\ SameConfig(Stripped(r, WithRole(r, p.cfg)), Stripped(r, WithRole(r, q.cfg)))
      /\ ConfigOf(Stripped(r, WithRole(r, p.cfg))) /\ ConfigOf(Stripped(r, WithRole(r, q.cfg)))
  BY RoleConfigs DEF Twins, ParamsOf
<1>2. QED
  BY <1>1 DEF Twins, ParamsOf

LEMMA InjectedTwins ==
    ASSUME NEW r, NEW p, NEW q, Twins(p, q)
    PROVE  Twins(Glm47Injected(r, p), Glm47Injected(r, q))
BY DEF Twins, ParamsOf, ConfigOf, SameConfig, Glm47Injected

LEMMA SparseTwins ==
    ASSUME NEW r, NEW p, NEW q, Twins(p, q)
    PROVE  Twins(SparseApplied(r, p), SparseApplied(r, q))
BY DEF Twins, ParamsOf, ConfigOf, SameConfig, SparseApplied

LEMMA SameWidth ==
    ASSUME NEW r, NEW p, NEW q, Twins(p, q)
    PROVE  Width(p) = Width(q)
BY DEF Twins, SameConfig, Width

LEMMA SameDecisions ==
    ASSUME NEW r, NEW p, NEW q, Twins(p, q)
    PROVE  /\ Pool(r, p) = Pool(r, q) /\ NativeFlag(r, p) = NativeFlag(r, q)
           /\ Backend(r, p) = Backend(r, q) /\ Speculation(r, p) = Speculation(r, q)
<1>1. Width(p) = Width(q)
  BY SameWidth
<1>2. p.features = q.features /\ p.plain = q.plain /\ p.cfg.spec = q.cfg.spec
  BY DEF Twins, SameConfig
<1>3. Pool(r, p) = Pool(r, q)
  BY <1>1, <1>2 DEF Pool, FlashPool, CpuPool
<1>4. NativeFlag(r, p) = NativeFlag(r, q)
  BY <1>1, <1>2 DEF NativeFlag
<1>5. Backend(r, p) = Backend(r, q)
  BY <1>1, <1>2 DEF Backend
<1>6. Speculation(r, p) = Speculation(r, q)
  BY <1>1, <1>2 DEF Speculation, Strategy, RequiresSuffix
<1>7. QED
  BY <1>3, <1>4, <1>5, <1>6

LEMMA SameEngineCommand ==
    ASSUME NEW r, NEW p, NEW q, Twins(p, q)
    PROVE  EngineCommand(r, p) = EngineCommand(r, q)
<1>1. /\ OrElse(p.cfg.tp, 1) = OrElse(q.cfg.tp, 1) /\ OrElse(p.cfg.dp, 1) = OrElse(q.cfg.dp, 1)
      /\ p.cfg.connector = q.cfg.connector /\ p.cfg.fp8 = q.cfg.fp8
      /\ p.features.sparse = q.features.sparse
  BY DEF Twins, SameConfig
<1>2. Pool(r, p) = Pool(r, q) /\ Speculation(r, p) = Speculation(r, q)
  BY SameDecisions
<1>3. QED
  BY <1>1, <1>2, Zenon DEF EngineCommand

LEMMA PreparedTwins ==
    ASSUME NEW r, NEW p, NEW q, NEW m, NEW n, Twins(p, q)
    PROVE  Twins(Prepared(r, m, p), Prepared(r, n, q))
<1> DEFINE P == RoceSpeculation(r, DpTopology(r, Glm52Topology(r, Pro5000Topology(r, ProTopology(r, m, FlashTopology(r, p))))))
<1> DEFINE Q == RoceSpeculation(r, DpTopology(r, Glm52Topology(r, Pro5000Topology(r, ProTopology(r, n, FlashTopology(r, q))))))
<1>1. Twins(ProTopology(r, m, FlashTopology(r, p)), ProTopology(r, n, FlashTopology(r, q)))
  BY FlashTwins, ProTwins
<1>2. Twins(P, Q)
  BY <1>1, Pro5000Twins, Glm52Twins, DpTwins, RoceTwins
<1>3. Prepared(r, m, p) = IF r.engine \notin VllmEngines THEN p ELSE [P EXCEPT !.cfg = Stripped(r, WithRole(r, @))]
  BY DEF Prepared
<1>4. Prepared(r, n, q) = IF r.engine \notin VllmEngines THEN q ELSE [Q EXCEPT !.cfg = Stripped(r, WithRole(r, @))]
  BY DEF Prepared
<1> HIDE DEF P, Q
<1>5. Twins([P EXCEPT !.cfg = Stripped(r, WithRole(r, @))], [Q EXCEPT !.cfg = Stripped(r, WithRole(r, @))])
  BY <1>2, RoleTwins
<1>6. CASE r.engine \notin VllmEngines
  BY <1>3, <1>4, <1>6
<1>7. CASE r.engine \in VllmEngines
  BY <1>3, <1>4, <1>5, <1>7
<1>8. QED
  BY <1>6, <1>7

LEMMA ScriptedTwins ==
    ASSUME NEW r, NEW p, NEW q, NEW m, NEW n, Twins(p, q)
    PROVE  Twins(Scripted(r, m, p), Scripted(r, n, q))
BY SparseTwins, InjectedTwins, PreparedTwins DEF Scripted

(* The report is the same, and so is whether there is anything to leave out. *)
LEMMA SameReport ==
    ASSUME NEW r, NEW p, NEW q, Twins(p, q)
    PROVE  ReportOf(r, p) = ReportOf(r, q)
<1>1. p.features = q.features /\ (ActiveBackend(r, p) <=> ActiveBackend(r, q))
  BY SameDecisions DEF Twins, ActiveBackend
<1>2. QED
  BY <1>1 DEF ReportOf

LEMMA SecondTwins ==
    ASSUME NEW r, NEW p, NEW q, NEW requested \in BOOLEAN, Twins(p, q)
    PROVE  /\ Twins(SecondParams(r, p, requested), SecondParams(r, q, requested))
           /\ (SecondParams(r, p, requested).cfg = p.cfg) <=> (SecondParams(r, q, requested).cfg = q.cfg)
<1>1. Advanced(r, p) <=> Advanced(r, q)
  BY SameReport DEF Advanced
<1>2. CASE ~Advanced(r, p)
  BY <1>1, <1>2 DEF SecondParams
<1>3. CASE Advanced(r, p)
  <2>1. SecondParams(r, p, requested) = WithoutFeatures(p, requested) /\ SecondParams(r, q, requested) = WithoutFeatures(q, requested)
    BY <1>1, <1>3 DEF SecondParams
  <2>2. Twins(WithoutFeatures(p, requested), WithoutFeatures(q, requested))
    BY DEF Twins, ParamsOf, ConfigOf, SameConfig, WithoutFeatures
  <2>3. ASSUME NEW s, ParamsOf(s)
        PROVE  WithoutFeatures(s, requested).cfg = s.cfg
               <=> s.cfg.spec = "none" /\ (requested => s.cfg.connector = "none")
    BY <2>3 DEF ParamsOf, ConfigOf, WithoutFeatures
  <2>4. QED
    BY <2>1, <2>2, <2>3 DEF Twins, SameConfig
<1>4. QED
  BY <1>2, <1>3

(* The merge, one definition of it after the other, ends with parameters of this form. *)
LEMMA MergedConfigs ==
    ASSUME NEW r, NEW smart, r.engine \in VllmEngines \cup {"sglang", "mindie"}
    PROVE  ConfigOf(FinalConfig(r, MergedConfig(r, smart)))
<1>1. ConfigOf(NoConfig) /\ ConfigOf(Defaults(r))
  BY DEF ConfigOf, NoConfig, Defaults
<1>2. ASSUME NEW c, ConfigOf(c)
      PROVE  ConfigOf(AllCards(r, c)) /\ ConfigOf(WorldSize(r, c)) /\ ConfigOf(RoleParallelism(r, c))
  <2>1. ASSUME NEW x
        PROVE  ConfigOf([c EXCEPT !.tp = x])
    BY <1>2 DEF ConfigOf
  <2>2. ConfigOf(AllCards(r, c))
    BY <2>1, Zenon DEF AllCards
  <2>3. ConfigOf(WorldSize(r, c))
    BY <2>1, Zenon DEF WorldSize
  <2>4. ConfigOf(RoleParallelism(r, c))
    BY <1>2 DEF RoleParallelism, ConfigOf
  <2>5. QED
    BY <2>2, <2>3, <2>4
<1>3. ConfigOf(SetParallelism(r, Defaults(r)))
  BY <1>1, <1>2 DEF SetParallelism
<1>4. ConfigOf(VllmConfig(r, smart))
  BY <1>3 DEF VllmConfig, ConfigOf
<1>5. ConfigOf(EngineDefaults(r, smart))
  BY <1>1, <1>2, <1>4 DEF EngineDefaults, MindieConfig, SglangConfig, VllmEngines
<1>6. ConfigOf(MergedConfig(r, smart))
  <2> DEFINE c == IF r.force /\ r.fileTp # 0 THEN NoConfig ELSE EngineDefaults(r, smart)
  <2>1. ConfigOf(c)
    BY <1>1, <1>5
  <2>2. MergedConfig(r, smart) = [c EXCEPT !.tp = OrElse(r.fileTp, @)]
    BY DEF MergedConfig
  <2> HIDE DEF c
  <2>3. QED
    BY <2>1, <2>2 DEF ConfigOf
<1>7. ASSUME NEW c, ConfigOf(c)
      PROVE  ConfigOf(Overridden(r, c)) /\ ConfigOf(Stripped(r, c)) /\ ConfigOf(WithRole(r, c))
  BY <1>7 DEF ConfigOf, Overridden, Stripped, WithRole
<1>8. QED
  BY <1>2, <1>6, <1>7 DEF FinalConfig

LEMMA MergedParams ==
    ASSUME NEW r, r.engine \in VllmEngines \cup {"sglang", "mindie"}
    PROVE  Twins(AfterMerge(r), AfterMerge(r))
<1> DEFINE c == FinalConfig(r, MergedConfig(r, Granted(r).smart))
<1>1. ConfigOf(c)
  BY MergedConfigs
<1>2. AfterMerge(r) = [AfterGate(r) EXCEPT !.cfg = c]
  BY DEF AfterMerge
<1> HIDE DEF c
<1>3. DOMAIN Granted(r) = {"spec", "sparse", "smart"}
  BY DEF Granted, Features
<1>4. /\ DOMAIN AfterGate(r) = {"features", "cfg", "top", "rpc", "forceStart", "plain"}
      /\ AfterGate(r).features = Granted(r) /\ DOMAIN AfterGate(r).top = {"tp", "dp"}
  <2>1. AfterGate(r) = [NoParams EXCEPT !.features = Granted(r)]
    BY DEF AfterGate
  <2>2. /\ DOMAIN NoParams = {"features", "cfg", "top", "rpc", "forceStart", "plain"}
        /\ NoParams.top = [tp |-> 0, dp |-> 0]
    BY DEF NoParams
  <2>3. DOMAIN AfterGate(r) = DOMAIN NoParams /\ AfterGate(r).features = Granted(r) /\ AfterGate(r).top = NoParams.top
    BY <2>1, <2>2
  <2>4. DOMAIN [tp |-> 0, dp |-> 0] = {"tp", "dp"}
    OBVIOUS
  <2>5. QED
    BY <2>2, <2>3, <2>4
<1>5. ParamsOf(AfterMerge(r))
  <2>1. /\ DOMAIN AfterMerge(r) = DOMAIN AfterGate(r) /\ AfterMerge(r).cfg = c
        /\ AfterMerge(r).features = AfterGate(r).features /\ AfterMerge(r).top = AfterGate(r).top
    BY <1>2, <1>4
  <2>2. QED
    BY <1>1, <1>3, <1>4, <2>1 DEF ParamsOf
<1>6. QED
  BY <1>5 DEF Twins, SameConfig

(* Two nodes' parameters for either command differ in nothing but the rank. *)
LEMMA NodesAreTwins ==
    ASSUME NEW r, NEW m, NEW n, r.engine \in VllmEngines \cup {"sglang", "mindie"}
    PROVE  Twins(ForSecond(r, m), ForSecond(r, n)) /\ Twins(ForMain(r, m), ForMain(r, n))
<1> DEFINE p == AfterPrepare(r, m)
<1> DEFINE q == AfterPrepare(r, n)
<1>1. Twins(p, q)
  BY MergedParams, PreparedTwins DEF AfterPrepare
<1>2. Offloaded(r) \in BOOLEAN
  BY DEF Offloaded
<1>3. /\ Twins(ForSecond(r, m), ForSecond(r, n))
      /\ (ForSecond(r, m).cfg = p.cfg) <=> (ForSecond(r, n).cfg = q.cfg)
  BY <1>1, <1>2, SecondTwins DEF ForSecond
<1> DEFINE s == Scripted(r, m, ForSecond(r, m))
<1> DEFINE t == Scripted(r, n, ForSecond(r, n))
<1>4. Twins(s, t)
  BY <1>3, ScriptedTwins
<1>5. /\ ForMain(r, m) = IF r.engine \in VllmEngines /\ ForSecond(r, m).cfg = p.cfg THEN [p EXCEPT !.cfg = s.cfg] ELSE p
      /\ ForMain(r, n) = IF r.engine \in VllmEngines /\ ForSecond(r, n).cfg = q.cfg THEN [q EXCEPT !.cfg = t.cfg] ELSE q
  BY DEF ForMain
<1> HIDE DEF p, q, s, t
<1>6. Twins([p EXCEPT !.cfg = s.cfg], [q EXCEPT !.cfg = t.cfg])
  BY <1>1, <1>4 DEF Twins, ParamsOf, SameConfig
<1>7. QED
  BY <1>1, <1>3, <1>5, <1>6
-----------------------------------------------------------------------------
(* The commands of two nodes: all their fields agree but the first rank and headless. *)
CommandForm(c) ==
    c \in [kind : {c.kind}, tp : {c.tp}, pp : {c.pp}, dp : {c.dp}, local : {c.local}, start : {c.start},
           rpc : {c.rpc}, headless : {c.headless}, connector : {c.connector}, strategy : {c.strategy},
           index : {c.index}, fp8 : {c.fp8}, native : {c.native}, pool : {c.pool}]

SameCommand(a, b) ==
    /\ a.kind = b.kind /\ a.tp = b.tp /\ a.pp = b.pp /\ a.dp = b.dp /\ a.local = b.local /\ a.rpc = b.rpc
    /\ a.connector = b.connector /\ a.strategy = b.strategy /\ a.index = b.index /\ a.fp8 = b.fp8
    /\ a.native = b.native /\ a.pool = b.pool

LEMMA EngineForm ==
    ASSUME NEW r, NEW p
    PROVE  CommandForm(Refusal) /\ CommandForm(EngineCommand(r, p))
BY DEF CommandForm, Refusal, EngineCommand

LEMMA CommandsForm ==
    ASSUME NEW r, NEW n, NEW p
    PROVE  CommandForm(CommandOf(r, n, p))
<1>1. ASSUME NEW q PROVE CommandForm(SingleCommand(r, q))
  BY EngineForm DEF CommandForm, SingleCommand
<1>2. ASSUME NEW q PROVE CommandForm(RayCommand(r, n, q))
  BY EngineForm DEF CommandForm, RayCommand
<1>3. ASSUME NEW q PROVE CommandForm(DpCommand(r, n, q))
  BY EngineForm DEF CommandForm, DpCommand
<1>4. ASSUME NEW q PROVE CommandForm(RoleCommand(r, n, q))
  BY EngineForm DEF CommandForm, RoleCommand
<1>5. QED
  BY EngineForm, <1>1, <1>2, <1>3, <1>4 DEF CommandOf

LEMMA CommandsAgree ==
    ASSUME NEW a, NEW b, CommandForm(a), CommandForm(b), SameCommand(a, b)
    PROVE  [a EXCEPT !.start = b.start, !.headless = b.headless] = b
BY DEF CommandForm, SameCommand

(* Except with Ray, whose workers run no engine, every node's command is the same one. *)
LEMMA SameCommands ==
    ASSUME NEW r, NEW m, NEW n, NEW p, NEW q, Twins(p, q),
           \/ r.engine \notin VllmEngines \/ r.role # "none" \/ ~Distributed(r) \/ DpExecutor(r)
    PROVE  SameCommand(CommandOf(r, m, p), CommandOf(r, n, q))
<1> DEFINE s == Scripted(r, m, p)
<1> DEFINE t == Scripted(r, n, q)
<1>1. Twins(s, t)
  BY ScriptedTwins
<1> HIDE DEF s, t
<1>2. EngineCommand(r, p) = EngineCommand(r, q) /\ EngineCommand(r, s) = EngineCommand(r, t)
  BY <1>1, SameEngineCommand
<1>3. SameCommand(SingleCommand(r, s), SingleCommand(r, t))
  BY <1>1, <1>2, SameDecisions DEF SingleCommand, SameCommand
<1>4. SameCommand(DpCommand(r, m, s), DpCommand(r, n, t))
  <2>1. (DpRefused(r, s) <=> DpRefused(r, t)) /\ DpLocal(r, s) = DpLocal(r, t) /\ s.rpc = t.rpc
    BY <1>1 DEF Twins, SameConfig, DpRefused, DpLocal, DpTp
  <2>2. QED
    BY <1>2, <2>1, EngineForm DEF DpCommand, SameCommand, CommandForm
<1>5. SameCommand(RoleCommand(r, m, s), RoleCommand(r, n, t))
  <2>1. /\ PdTopology(r, m).tp = PdTopology(r, n).tp /\ PdTopology(r, m).dp = PdTopology(r, n).dp
        /\ PdTopology(r, m).local = PdTopology(r, n).local
    BY DEF PdTopology
  <2>2. s.cfg.spec = t.cfg.spec
    BY <1>1 DEF Twins, SameConfig
  <2>3. QED
    BY <1>2, <2>1, <2>2, EngineForm DEF RoleCommand, SameCommand, CommandForm
<1>6. CASE r.engine \notin VllmEngines
  BY <1>2, <1>6 DEF CommandOf, SameCommand
<1>7. CASE r.engine \in VllmEngines /\ r.role # "none"
  BY <1>5, <1>7 DEF CommandOf, s, t
<1>8. CASE r.engine \in VllmEngines /\ r.role = "none" /\ ~Distributed(r)
  BY <1>3, <1>8 DEF CommandOf, s, t
<1>9. CASE r.engine \in VllmEngines /\ r.role = "none" /\ Distributed(r) /\ DpExecutor(r)
  BY <1>4, <1>9 DEF CommandOf, s, t
<1>10. QED
  BY <1>6, <1>7, <1>8, <1>9

LEMMA RayWorkers ==
    ASSUME NEW r, NEW n \in Nat, NEW p, r.engine \in VllmEngines, r.role = "none", Distributed(r), ~DpExecutor(r),
           CommandOf(r, n, p).kind \in {"engine", "services"}
    PROVE  n = 0
<1>1. CommandOf(r, n, p) = RayCommand(r, n, Scripted(r, n, p))
  BY DEF CommandOf
<1>2. n > 0 => RayCommand(r, n, Scripted(r, n, p)).kind = "ray_worker"
  BY DEF RayCommand, Refusal
<1>3. QED
  BY <1>1, <1>2

(* Every node plans by itself, with its own rank in the parameters: whatever the model's
   defaults make of it, the engines of a cluster agree on everything but the first of their
   ranks, in both starts, for any set of launches on any number of nodes. *)
THEOREM ClusterAlwaysSame == Spec => []SameCluster
<1>1. Spec => [](request \in Requests)
  <2>1. Init => request \in Requests
    BY DEF Init
  <2>2. request \in Requests /\ [Next]_vars => (request \in Requests)'
    BY DEF Next, vars, Gate, Merge, Prepare, PrepareRefused, Report, BuildAgain, BuildMain, PlanAgain, Restart, Finished
  <2>3. QED
    BY <2>1, <2>2, PTL DEF Spec
<1>2. request \in Requests /\ PlansAlike => SameCluster
  <2> SUFFICES ASSUME request \in Requests, PlansAlike, NEW m \in Nodes, NEW n \in Nodes, RunsEngine(m), RunsEngine(n),
                      NEW which \in {"main", "again"}
               PROVE  [plan[m][which] EXCEPT !.start = plan[n][which].start, !.headless = plan[n][which].headless]
                      = plan[n][which]
    BY DEF SameCluster
  <2>1. plan[m] = ThePlan(request, m) /\ plan[n] = ThePlan(request, n)
    BY DEF PlansAlike, PlanInv, PlanIsOf, RunsEngine, Done, ThePlan
  <2>2. /\ plan[m].again = CommandOf(request, m, ForSecond(request, m)) /\ plan[m].main = CommandOf(request, m, ForMain(request, m))
        /\ plan[n].again = CommandOf(request, n, ForSecond(request, n)) /\ plan[n].main = CommandOf(request, n, ForMain(request, n))
    BY <2>1 DEF ThePlan
  <2>3. CommandForm(plan[m][which]) /\ CommandForm(plan[n][which])
    BY <2>2, CommandsForm
  <2>4. request.engine \in VllmEngines \cup {"sglang", "mindie"}
    BY LaunchAssumption DEF Request
  <2>5. SameCommand(plan[m][which], plan[n][which])
    <3>1. CASE request.engine \in VllmEngines /\ request.role = "none" /\ Distributed(request) /\ ~DpExecutor(request)
      <4>1. m \in Nat /\ n \in Nat
        BY DEF Nodes
      <4>2. plan[m].main.kind \in {"engine", "services"} /\ plan[n].main.kind \in {"engine", "services"}
        BY DEF RunsEngine
      <4>3. m = n
        BY <2>2, <3>1, <4>1, <4>2, RayWorkers
      <4>4. QED
        BY <4>3 DEF SameCommand
    <3>2. CASE ~(request.engine \in VllmEngines /\ request.role = "none" /\ Distributed(request) /\ ~DpExecutor(request))
      BY <2>2, <2>4, <3>2, NodesAreTwins, SameCommands
    <3>3. QED
      BY <3>1, <3>2
  <2>6. QED
    BY <2>3, <2>5, CommandsAgree
<1>3. QED
  BY <1>1, <1>2, PlansAlikeInit, PlansAlikeStep, PTL DEF Spec
-----------------------------------------------------------------------------
(* What the adapter makes of the parameters *)

LEMMA OrElseNat ==
    ASSUME NEW n \in Nat, NEW d \in Nat
    PROVE  OrElse(n, d) \in Nat /\ (d # 0 => OrElse(n, d) # 0)
BY DEF OrElse

LEMMA RequestForm ==
    ASSUME NEW r \in Request
    PROVE  /\ r.count \in Nat \ {0} /\ r.nodes \in Nat \ {0} /\ r.tp \in Nat /\ r.dp \in Nat /\ r.fileTp \in Nat
           /\ r.pd.tp \in Nat /\ r.pd.dp \in Nat /\ r.pd.local \in Nat
           /\ r.engine \in VllmEngines \cup {"sglang", "mindie"} /\ r.role \in {"none", "P", "D"}
           /\ r.model \in Model /\ r.asked \in SUBSET SmartFeature
           /\ r.memory \in Memory /\ TotalCards(r) \in Nat \ {0}
BY DEF Request, TotalCards

(* Only the degrees of parallelism are written between the merge and the role. *)
LEMMA MergeTypes ==
    ASSUME NEW r \in Request, NEW c \in EngineConfig
    PROVE  /\ AllCards(r, c) \in EngineConfig /\ WorldSize(r, c) \in EngineConfig
           /\ RoleParallelism(r, c) \in EngineConfig /\ Overridden(r, c) \in EngineConfig
           /\ Stripped(r, c) \in EngineConfig /\ WithRole(r, c) \in EngineConfig
<1>1. /\ \A x \in Nat : [c EXCEPT !.tp = x] \in EngineConfig
      /\ \A x, y \in Nat : [c EXCEPT !.tp = x, !.dp = y] \in EngineConfig
      /\ \A k \in Connectors : [c EXCEPT !.connector = k] \in EngineConfig
  BY DEF EngineConfig
<1>2. c.tp \in Nat /\ c.dp \in Nat /\ c.spec \in {"none", "mtp"}
  BY DEF EngineConfig
<1>3. AllCards(r, c) \in EngineConfig
  <2>1. r.count * (IF r.role = "none" THEN r.nodes ELSE 1) \in Nat
    BY RequestForm
  <2>2. QED
    BY <1>1, <1>2, <2>1, OrElseNat, Zenon DEF AllCards
<1>4. WorldSize(r, c) \in EngineConfig
  <2>1. (IF Distributed(r) THEN r.count * r.nodes ELSE OrElse(c.tp, r.count)) \in Nat
    <3>1. OrElse(c.tp, r.count) \in Nat /\ r.count * r.nodes \in Nat
      BY <1>2, RequestForm, OrElseNat DEF TotalCards
    <3>2. QED
      BY <3>1
  <2>2. QED
    BY <1>1, <2>1, Zenon DEF WorldSize
<1>5. RoleParallelism(r, c) \in EngineConfig
  <2>1. OrElse(r.pd.tp, c.tp) \in Nat /\ OrElse(r.pd.dp, c.dp) \in Nat
    BY <1>2, RequestForm, OrElseNat
  <2>2. QED
    BY <1>1, <2>1, Zenon DEF RoleParallelism
<1>6. Overridden(r, c) \in EngineConfig
  <2>1. (IF c.tp # 0 THEN OrElse(r.tp, c.tp) ELSE c.tp) \in Nat /\ (IF c.dp # 0 THEN OrElse(r.dp, c.dp) ELSE c.dp) \in Nat
    BY <1>2, RequestForm, OrElseNat
  <2>2. QED
    BY <1>1, <2>1, Zenon DEF Overridden
<1>7. Stripped(r, c) \in EngineConfig
  BY <1>1 DEF Stripped, Connectors
<1>8. WithRole(r, c) \in EngineConfig
  <2>1. PdTopology(r, 0).tp \in Nat /\ PdTopology(r, 0).dp \in Nat
    BY RequestForm, OrElseNat DEF PdTopology
  <2>2. ASSUME NEW x \in Nat, NEW y \in Nat, NEW s \in {"none", "mtp"}
        PROVE  [c EXCEPT !.tp = x, !.dp = y, !.connector = "pd", !.spec = s] \in EngineConfig
    BY DEF EngineConfig, Connectors
  <2>3. QED
    BY <1>2, <2>1, <2>2 DEF WithRole
<1>9. QED
  BY <1>3, <1>4, <1>5, <1>6, <1>7, <1>8

LEMMA MergedType ==
    ASSUME NEW r \in Request, NEW smart
    PROVE  FinalConfig(r, MergedConfig(r, smart)) \in EngineConfig
<1>1. NoConfig \in EngineConfig /\ Defaults(r) \in EngineConfig
  BY DEF NoConfig, Defaults, EngineConfig, Connectors
<1>2. VllmConfig(r, smart) \in EngineConfig
  <2>1. SetParallelism(r, Defaults(r)) \in EngineConfig
    BY <1>1, MergeTypes DEF SetParallelism
  <2>2. Connector(r, smart) \in Connectors
    BY DEF Connector, Connectors
  <2>3. QED
    BY <2>1, <2>2 DEF VllmConfig, EngineConfig
<1>3. EngineDefaults(r, smart) \in EngineConfig
  BY <1>1, <1>2, MergeTypes, RequestForm DEF EngineDefaults, MindieConfig, SglangConfig, VllmEngines
<1>4. MergedConfig(r, smart) \in EngineConfig
  <2> DEFINE c == IF r.force /\ r.fileTp # 0 THEN NoConfig ELSE EngineDefaults(r, smart)
  <2>1. c \in EngineConfig
    BY <1>1, <1>3
  <2>2. MergedConfig(r, smart) = [c EXCEPT !.tp = OrElse(r.fileTp, @)]
    BY DEF MergedConfig
  <2> HIDE DEF c
  <2>3. OrElse(r.fileTp, c.tp) \in Nat
    BY <2>1, RequestForm, OrElseNat DEF EngineConfig
  <2>4. QED
    BY <2>1, <2>2, <2>3 DEF EngineConfig
<1>5. QED
  BY <1>4, MergeTypes DEF FinalConfig

(* What a feature is decided by *)
SameFeatures(p, q) ==
    /\ q.features = p.features /\ q.plain = p.plain
    /\ q.cfg.connector = p.cfg.connector /\ q.cfg.spec = p.cfg.spec /\ q.cfg.fp8 = p.cfg.fp8

(* Parameters as a model's defaults leave them *)
Resized(p, q) == q \in LaunchParams /\ SameFeatures(p, q)

LEMMA ResizedAgain ==
    ASSUME NEW p, NEW q, NEW s, Resized(p, q), Resized(q, s)
    PROVE  Resized(p, s)
BY DEF Resized, SameFeatures

LEMMA ParamsTypes ==
    ASSUME NEW p \in LaunchParams
    PROVE  /\ p.cfg \in EngineConfig /\ p.cfg.tp \in Nat /\ p.cfg.dp \in Nat /\ p.top.tp \in Nat /\ p.top.dp \in Nat
           /\ p.cfg.spec \in {"none", "mtp"} /\ p.cfg.fp8 \in BOOLEAN /\ p.cfg.connector \in Connectors
           /\ p.features.spec \in BOOLEAN /\ p.features.sparse \in BOOLEAN /\ p.features.smart \in SUBSET SmartFeature
           /\ p.plain \in BOOLEAN /\ p.forceStart \in BOOLEAN /\ p.rpc \in Nat
BY DEF LaunchParams, EngineConfig

LEMMA Quotient ==
    ASSUME NEW a \in Nat, NEW b \in Nat, b # 0
    PROVE  /\ a \div b \in Nat /\ b * (a \div b) <= a
           /\ a % b = 0 => b * (a \div b) = a
OBVIOUS

(* What goes with the topology of a command is left alone by a size that is written. *)
SameRank(p, q) == q.rpc = p.rpc /\ q.forceStart = p.forceStart /\ q.cfg.startRank = p.cfg.startRank

LEMMA TpWritten ==
    ASSUME NEW p \in LaunchParams, NEW x \in Nat
    PROVE  LET q == [p EXCEPT !.cfg.tp = x]
           IN  Resized(p, q) /\ q.cfg.tp = x /\ q.cfg.dp = p.cfg.dp /\ q.top = p.top /\ SameRank(p, q)
<1> DEFINE c == [p.cfg EXCEPT !.tp = x]
<1>1. /\ c \in EngineConfig /\ c.tp = x /\ c.dp = p.cfg.dp /\ c.connector = p.cfg.connector /\ c.spec = p.cfg.spec
      /\ c.fp8 = p.cfg.fp8 /\ c.startRank = p.cfg.startRank
  BY ParamsTypes DEF EngineConfig
<1> HIDE DEF c
<1> DEFINE q == [p EXCEPT !.cfg = c]
<1>2. /\ q \in LaunchParams /\ q.cfg = c /\ q.features = p.features /\ q.plain = p.plain /\ q.top = p.top
      /\ q.rpc = p.rpc /\ q.forceStart = p.forceStart
  BY <1>1 DEF LaunchParams
<1>3. q = [p EXCEPT !.cfg.tp = x]
  BY DEF c
<1> HIDE DEF q
<1>4. QED
  BY <1>1, <1>2, <1>3 DEF Resized, SameFeatures, SameRank

LEMMA DpWritten ==
    ASSUME NEW p \in LaunchParams, NEW x \in Nat
    PROVE  LET q == [p EXCEPT !.cfg.dp = x]
           IN  Resized(p, q) /\ q.cfg.dp = x /\ q.cfg.tp = p.cfg.tp /\ q.top = p.top /\ SameRank(p, q)
<1> DEFINE c == [p.cfg EXCEPT !.dp = x]
<1>1. /\ c \in EngineConfig /\ c.dp = x /\ c.tp = p.cfg.tp /\ c.connector = p.cfg.connector /\ c.spec = p.cfg.spec
      /\ c.fp8 = p.cfg.fp8 /\ c.startRank = p.cfg.startRank
  BY ParamsTypes DEF EngineConfig
<1> HIDE DEF c
<1> DEFINE q == [p EXCEPT !.cfg = c]
<1>2. /\ q \in LaunchParams /\ q.cfg = c /\ q.features = p.features /\ q.plain = p.plain /\ q.top = p.top
      /\ q.rpc = p.rpc /\ q.forceStart = p.forceStart
  BY <1>1 DEF LaunchParams
<1>3. q = [p EXCEPT !.cfg.dp = x]
  BY DEF c
<1> HIDE DEF q
<1>4. QED
  BY <1>1, <1>2, <1>3 DEF Resized, SameFeatures, SameRank

LEMMA TopWritten ==
    ASSUME NEW p \in LaunchParams, NEW x \in Nat
    PROVE  /\ LET q == [p EXCEPT !.top.tp = x]
              IN  Resized(p, q) /\ q.cfg = p.cfg /\ q.top.tp = x /\ q.top.dp = p.top.dp /\ SameRank(p, q)
           /\ LET q == [p EXCEPT !.top.dp = x]
              IN  Resized(p, q) /\ q.cfg = p.cfg /\ q.top.dp = x /\ q.top.tp = p.top.tp /\ SameRank(p, q)
BY DEF LaunchParams, Resized, SameFeatures, SameRank

LEMMA FlashSizes ==
    ASSUME NEW r \in Request, NEW p \in LaunchParams, FlashAscend(r)
    PROVE  LET tp == IF r.card = "a3" THEN 4 ELSE 8
               width == IF r.tp = 0 THEN tp ELSE OrElse(p.cfg.tp, tp)
               q == FlashTopology(r, p)
           IN  /\ Resized(p, q) /\ SameRank(p, q)
               /\ q.cfg.tp = IF r.tp = 0 THEN tp ELSE p.cfg.tp
               /\ q.cfg.dp = IF r.dp = 0 THEN AtLeastOne(TotalCards(r) \div width) ELSE p.cfg.dp
               /\ q.top.tp = (IF r.tp = 0 THEN tp ELSE p.top.tp) /\ q.top.dp = p.top.dp
<1> DEFINE default == IF r.card = "a3" THEN 4 ELSE 8
<1> DEFINE width == IF r.tp = 0 THEN default ELSE OrElse(p.cfg.tp, default)
<1>1. width \in Nat /\ width # 0
  BY ParamsTypes DEF OrElse
<1>2. AtLeastOne(TotalCards(r) \div width) \in Nat
  <2> HIDE DEF width
  <2>1. TotalCards(r) \div width \in Nat
    BY <1>1, RequestForm, Quotient
  <2>2. QED
    BY <2>1 DEF AtLeastOne
<1> DEFINE x == IF r.tp = 0 THEN default ELSE p.cfg.tp
<1> DEFINE y == IF r.tp = 0 THEN default ELSE p.top.tp
<1> DEFINE z == IF r.dp = 0 THEN AtLeastOne(TotalCards(r) \div width) ELSE p.cfg.dp
<1>3. x \in Nat /\ y \in Nat /\ z \in Nat
  BY <1>1, <1>2, ParamsTypes
<1> DEFINE q1 == [p EXCEPT !.cfg.tp = x]
<1> DEFINE q2 == [q1 EXCEPT !.top.tp = y]
<1> DEFINE q3 == [q2 EXCEPT !.cfg.dp = z]
<1>4. FlashTopology(r, p) = q3
  BY DEF FlashTopology
<1> HIDE DEF x, y, z
<1>5. Resized(p, q1) /\ q1.cfg.tp = x /\ q1.cfg.dp = p.cfg.dp /\ q1.top = p.top /\ SameRank(p, q1)
  BY <1>3, TpWritten
<1> HIDE DEF q1
<1>6. Resized(q1, q2) /\ q2.cfg = q1.cfg /\ q2.top.tp = y /\ q2.top.dp = q1.top.dp /\ SameRank(q1, q2)
  BY <1>3, <1>5, TopWritten DEF Resized
<1> HIDE DEF q2
<1>7. Resized(q2, q3) /\ q3.cfg.dp = z /\ q3.cfg.tp = q2.cfg.tp /\ q3.top = q2.top /\ SameRank(q2, q3)
  BY <1>3, <1>6, DpWritten DEF Resized
<1> HIDE DEF q3
<1>8. /\ Resized(p, q3) /\ SameRank(p, q3) /\ q3.cfg.tp = x /\ q3.cfg.dp = z /\ q3.top.tp = y /\ q3.top.dp = p.top.dp
  BY <1>5, <1>6, <1>7, ResizedAgain DEF SameRank
<1>9. QED
  BY <1>4, <1>8 DEF x, y, z

LEMMA Pro5000Sizes ==
    ASSUME NEW r \in Request, NEW p \in LaunchParams, FlashPro5000(r)
    PROVE  LET tp == Pro5000Tp(r)
               dp == r.count \div tp
               q == Pro5000Topology(r, p)
           IN  /\ Resized(p, q) /\ SameRank(p, q)
               /\ q.cfg.tp = (IF r.tp = 0 THEN tp ELSE p.cfg.tp) /\ q.top.tp = (IF r.tp = 0 THEN tp ELSE p.top.tp)
               /\ q.cfg.dp = (IF r.dp = 0 THEN dp ELSE p.cfg.dp) /\ q.top.dp = (IF r.dp = 0 THEN dp ELSE p.top.dp)
<1> DEFINE tp == Pro5000Tp(r)
<1> DEFINE dp == r.count \div tp
<1>1. tp \in Nat /\ tp # 0
  BY RequestForm DEF Pro5000Tp
<1>2. dp \in Nat
  <2> HIDE DEF tp
  <2>1. QED
    BY <1>1, RequestForm, Quotient
<1> DEFINE x == IF r.tp = 0 THEN tp ELSE p.cfg.tp
<1> DEFINE y == IF r.tp = 0 THEN tp ELSE p.top.tp
<1> DEFINE z == IF r.dp = 0 THEN dp ELSE p.cfg.dp
<1> DEFINE w == IF r.dp = 0 THEN dp ELSE p.top.dp
<1>3. x \in Nat /\ y \in Nat /\ z \in Nat /\ w \in Nat
  <2> HIDE DEF tp, dp
  <2>1. QED
    BY <1>1, <1>2, ParamsTypes
<1> DEFINE q1 == [p EXCEPT !.cfg.tp = x]
<1> DEFINE q2 == [q1 EXCEPT !.top.tp = y]
<1> DEFINE q3 == [q2 EXCEPT !.cfg.dp = z]
<1> DEFINE q4 == [q3 EXCEPT !.top.dp = w]
<1>4. Pro5000Topology(r, p) = q4
  BY DEF Pro5000Topology
<1> HIDE DEF x, y, z, w
<1>5. Resized(p, q1) /\ q1.cfg.tp = x /\ q1.cfg.dp = p.cfg.dp /\ q1.top = p.top /\ SameRank(p, q1)
  BY <1>3, TpWritten
<1> HIDE DEF q1
<1>6. Resized(q1, q2) /\ q2.cfg = q1.cfg /\ q2.top.tp = y /\ q2.top.dp = q1.top.dp /\ SameRank(q1, q2)
  BY <1>3, <1>5, TopWritten DEF Resized
<1> HIDE DEF q2
<1>7. Resized(q2, q3) /\ q3.cfg.dp = z /\ q3.cfg.tp = q2.cfg.tp /\ q3.top = q2.top /\ SameRank(q2, q3)
  BY <1>3, <1>6, DpWritten DEF Resized
<1> HIDE DEF q3
<1>8. Resized(q3, q4) /\ q4.cfg = q3.cfg /\ q4.top.dp = w /\ q4.top.tp = q3.top.tp /\ SameRank(q3, q4)
  BY <1>3, <1>7, TopWritten DEF Resized
<1> HIDE DEF q4
<1>9. /\ Resized(p, q4) /\ SameRank(p, q4) /\ q4.cfg.tp = x /\ q4.cfg.dp = z /\ q4.top.tp = y /\ q4.top.dp = w
  BY <1>5, <1>6, <1>7, <1>8, ResizedAgain DEF SameRank
<1>10. QED
  BY <1>4, <1>9 DEF x, y, z, w

(* Both sizes in engine_config *)
LEMMA BothWritten ==
    ASSUME NEW p \in LaunchParams, NEW x \in Nat, NEW y \in Nat
    PROVE  LET q == [p EXCEPT !.cfg.tp = x, !.cfg.dp = y]
           IN  Resized(p, q) /\ q.cfg.tp = x /\ q.cfg.dp = y /\ q.top = p.top /\ SameRank(p, q)
<1> DEFINE q1 == [p EXCEPT !.cfg.tp = x]
<1> DEFINE q2 == [q1 EXCEPT !.cfg.dp = y]
<1>1. [p EXCEPT !.cfg.tp = x, !.cfg.dp = y] = q2
  OBVIOUS
<1>2. Resized(p, q1) /\ q1.cfg.tp = x /\ q1.top = p.top /\ SameRank(p, q1)
  BY TpWritten
<1> HIDE DEF q1
<1>3. Resized(q1, q2) /\ q2.cfg.dp = y /\ q2.cfg.tp = q1.cfg.tp /\ q2.top = q1.top /\ SameRank(q1, q2)
  BY <1>2, DpWritten DEF Resized
<1> HIDE DEF q2
<1>4. QED
  BY <1>1, <1>2, <1>3, ResizedAgain DEF SameRank

LEMMA Glm52Sizes ==
    ASSUME NEW r \in Request, NEW p \in LaunchParams, Glm52SingleEven(r), r.role = "none"
    PROVE  LET q == Glm52Topology(r, p)
           IN  /\ Resized(p, q) /\ SameRank(p, q) /\ q.top = p.top
               /\ q.cfg.tp = IF r.tp = 0 THEN OrElse(p.cfg.tp, r.count \div 2) ELSE p.cfg.tp
               /\ q.cfg.dp = IF r.dp = 0 THEN OrElse(p.cfg.dp, 2) ELSE p.cfg.dp
<1> DEFINE x == IF r.tp = 0 THEN OrElse(p.cfg.tp, r.count \div 2) ELSE p.cfg.tp
<1> DEFINE y == IF r.dp = 0 THEN OrElse(p.cfg.dp, 2) ELSE p.cfg.dp
<1>1. x \in Nat /\ y \in Nat
  BY ParamsTypes, RequestForm DEF OrElse
<1>2. Glm52Topology(r, p) = [p EXCEPT !.cfg.tp = x, !.cfg.dp = y]
  BY DEF Glm52Topology
<1> HIDE DEF x, y
<1>3. LET q == [p EXCEPT !.cfg.tp = x, !.cfg.dp = y]
      IN  Resized(p, q) /\ q.cfg.tp = x /\ q.cfg.dp = y /\ q.top = p.top /\ SameRank(p, q)
  BY <1>1, BothWritten
<1>4. QED
  BY <1>2, <1>3 DEF x, y

LEMMA Glm47Sizes ==
    ASSUME NEW r \in Request, NEW p \in LaunchParams, r.engine \in VllmEngines, r.model = "glm47"
    PROVE  LET q == Glm47Injected(r, p)
           IN  /\ Resized(p, q) /\ SameRank(p, q) /\ q.top = p.top
               /\ q.cfg.tp = IF r.tp = 0 THEN 8 ELSE p.cfg.tp
               /\ q.cfg.dp = IF r.dp = 0 THEN 2 ELSE p.cfg.dp
<1> DEFINE x == IF r.tp = 0 THEN 8 ELSE p.cfg.tp
<1> DEFINE y == IF r.dp = 0 THEN 2 ELSE p.cfg.dp
<1>1. x \in Nat /\ y \in Nat
  BY ParamsTypes
<1>2. Glm47Injected(r, p) = [p EXCEPT !.cfg.tp = x, !.cfg.dp = y]
  BY DEF Glm47Injected
<1> HIDE DEF x, y
<1>3. LET q == [p EXCEPT !.cfg.tp = x, !.cfg.dp = y]
      IN  Resized(p, q) /\ q.cfg.tp = x /\ q.cfg.dp = y /\ q.top = p.top /\ SameRank(p, q)
  BY <1>1, BothWritten
<1>4. QED
  BY <1>2, <1>3 DEF x, y

LEMMA DpDefaultNat ==
    ASSUME NEW r \in Request
    PROVE  DpDefaultTp(r) \in Nat
BY RequestForm DEF DpDefaultTp

LEMMA DpSizes ==
    ASSUME NEW r \in Request, NEW p \in LaunchParams,
           Ascend(r) /\ DpExecutor(r), r.model \notin {"pro", "flash"}, r.tp = 0
    PROVE  LET q == DpTopology(r, p)
           IN  /\ Resized(p, q) /\ SameRank(p, q) /\ q.top = p.top
               /\ q.cfg.tp = OrElse(DpDefaultTp(r), p.cfg.tp) /\ q.cfg.dp = p.cfg.dp
<1>1. OrElse(DpDefaultTp(r), p.cfg.tp) \in Nat
  BY DpDefaultNat, ParamsTypes DEF OrElse
<1>2. DpTopology(r, p) = [p EXCEPT !.cfg.tp = OrElse(DpDefaultTp(r), p.cfg.tp)]
  BY DEF DpTopology
<1>3. QED
  BY <1>1, <1>2, TpWritten

LEMMA ProSizes ==
    ASSUME NEW r \in Request, NEW n \in Nat, NEW p \in LaunchParams, ProScope(r)
    PROVE  LET q == ProTopology(r, n, p)
           IN  /\ Resized(p, q) /\ q.top = p.top /\ q.cfg.tp = p.cfg.tp /\ q.cfg.dp = p.cfg.dp
               /\ q.rpc = 13399 /\ q.forceStart /\ q.cfg.startRank = n
<1> DEFINE c == [p.cfg EXCEPT !.startRank = n]
<1>1. /\ c \in EngineConfig /\ c.dp = p.cfg.dp /\ c.tp = p.cfg.tp /\ c.connector = p.cfg.connector /\ c.spec = p.cfg.spec
      /\ c.fp8 = p.cfg.fp8 /\ c.startRank = n
  BY ParamsTypes DEF EngineConfig
<1> DEFINE q1 == [p EXCEPT !.rpc = 13399]
<1> DEFINE q == [q1 EXCEPT !.forceStart = TRUE]
<1>2. ProTopology(r, n, p) = [q EXCEPT !.cfg.startRank = n]
  BY DEF ProTopology
<1>3. /\ q1 \in LaunchParams /\ q1.cfg = p.cfg /\ q1.features = p.features /\ q1.plain = p.plain /\ q1.top = p.top
      /\ q1.rpc = 13399
  BY DEF LaunchParams
<1> HIDE DEF q1
<1>4. /\ q \in LaunchParams /\ q.cfg = p.cfg /\ q.features = p.features /\ q.plain = p.plain /\ q.top = p.top
      /\ q.rpc = 13399 /\ q.forceStart = TRUE
  <2>1. \A b \in BOOLEAN :
          LET s == [q1 EXCEPT !.forceStart = b]
          IN  /\ s \in LaunchParams /\ s.cfg = q1.cfg /\ s.features = q1.features /\ s.plain = q1.plain /\ s.top = q1.top
              /\ s.rpc = q1.rpc
    BY <1>3 DEF LaunchParams
  <2>2. q.forceStart = TRUE
    <3>1. "forceStart" \in DOMAIN q1
      BY <1>3 DEF LaunchParams
    <3>2. QED
      BY <3>1, Zenon
  <2>3. /\ q \in LaunchParams /\ q.cfg = q1.cfg /\ q.features = q1.features /\ q.plain = q1.plain /\ q.top = q1.top
        /\ q.rpc = q1.rpc
    BY <2>1, TRUE \in BOOLEAN, Zenon
  <2> HIDE DEF q
  <2>4. QED
    BY <1>3, <2>2, <2>3
<1>5. [q EXCEPT !.cfg.startRank = n] = [q EXCEPT !.cfg = c]
  BY <1>4
<1> HIDE DEF c, q
<1>6. QED
  BY <1>1, <1>2, <1>4, <1>5 DEF Resized, SameFeatures, LaunchParams

(* What a model's defaults make of the sizes *)
Topology(r, n, p) == DpTopology(r, Glm52Topology(r, Pro5000Topology(r, ProTopology(r, n, FlashTopology(r, p)))))

LEMMA ResizedSelf ==
    ASSUME NEW p \in LaunchParams
    PROVE  Resized(p, p) /\ SameRank(p, p)
BY DEF Resized, SameFeatures, SameRank

LEMMA TopologyResizes ==
    ASSUME NEW r \in Request, NEW n \in Nat, NEW p \in LaunchParams
    PROVE  Resized(p, Topology(r, n, p)) /\ Resized(p, Glm47Injected(r, p))
<1>1. ASSUME NEW q \in LaunchParams
      PROVE  /\ Resized(q, FlashTopology(r, q)) /\ Resized(q, ProTopology(r, n, q)) /\ Resized(q, Pro5000Topology(r, q))
             /\ Resized(q, Glm52Topology(r, q)) /\ Resized(q, DpTopology(r, q)) /\ Resized(q, Glm47Injected(r, q))
  <2>1. Resized(q, FlashTopology(r, q))
    BY FlashSizes, ResizedSelf DEF FlashTopology
  <2>2. Resized(q, ProTopology(r, n, q))
    <3>1. CASE ProScope(r)
      BY <3>1, ProSizes
    <3>2. CASE ~ProScope(r)
      BY <3>2, ResizedSelf DEF ProTopology
    <3>3. QED
      BY <3>1, <3>2
  <2>3. Resized(q, Pro5000Topology(r, q))
    BY Pro5000Sizes, ResizedSelf DEF Pro5000Topology
  <2>4. Resized(q, Glm52Topology(r, q))
    BY Glm52Sizes, ResizedSelf DEF Glm52Topology
  <2>5. Resized(q, DpTopology(r, q))
    BY DpSizes, ResizedSelf DEF DpTopology
  <2>6. Resized(q, Glm47Injected(r, q))
    BY Glm47Sizes, ResizedSelf DEF Glm47Injected
  <2>7. QED
    BY <2>1, <2>2, <2>3, <2>4, <2>5, <2>6
<1> DEFINE q1 == FlashTopology(r, p)
<1> DEFINE q2 == ProTopology(r, n, q1)
<1> DEFINE q3 == Pro5000Topology(r, q2)
<1> DEFINE q4 == Glm52Topology(r, q3)
<1> DEFINE q5 == DpTopology(r, q4)
<1>2. Topology(r, n, p) = q5
  BY DEF Topology
<1>3. Resized(p, q1)
  BY <1>1
<1> HIDE DEF q1
<1>4. Resized(q1, q2)
  BY <1>1, <1>3 DEF Resized
<1> HIDE DEF q2
<1>5. Resized(q2, q3)
  BY <1>1, <1>4 DEF Resized
<1> HIDE DEF q3
<1>6. Resized(q3, q4)
  BY <1>1, <1>5 DEF Resized
<1> HIDE DEF q4
<1>7. Resized(q4, q5)
  BY <1>1, <1>6 DEF Resized
<1> HIDE DEF q5
<1>8. Resized(p, q5)
  BY <1>3, <1>4, <1>5, <1>6, <1>7, ResizedAgain
<1>9. QED
  BY <1>1, <1>2, <1>8

(* GLM-5 over RoCE *)
RoceSpeculates(r, p) == Ascend(r) /\ DpExecutor(r) /\ Arch(r) = "GlmMoeDsa" /\ r.roce /\ p.features.spec

LEMMA RoceForm ==
    ASSUME NEW r, NEW p \in LaunchParams
    PROVE  LET q == RoceSpeculation(r, p)
           IN  /\ q \in LaunchParams /\ q.features = p.features /\ q.plain = p.plain /\ q.top = p.top
               /\ q.rpc = p.rpc /\ q.forceStart = p.forceStart
               /\ q.cfg.tp = p.cfg.tp /\ q.cfg.dp = p.cfg.dp /\ q.cfg.connector = p.cfg.connector /\ q.cfg.fp8 = p.cfg.fp8
               /\ q.cfg.spec = IF RoceSpeculates(r, p) THEN "mtp" ELSE p.cfg.spec
<1> DEFINE c == [p.cfg EXCEPT !.spec = "mtp"]
<1>1. /\ c \in EngineConfig /\ c.tp = p.cfg.tp /\ c.dp = p.cfg.dp /\ c.connector = p.cfg.connector /\ c.spec = "mtp"
      /\ c.fp8 = p.cfg.fp8
  BY ParamsTypes DEF EngineConfig
<1>2. RoceSpeculation(r, p) = IF RoceSpeculates(r, p) THEN [p EXCEPT !.cfg = c] ELSE p
  BY DEF RoceSpeculation, RoceSpeculates
<1> HIDE DEF c
<1>3. CASE RoceSpeculates(r, p)
  BY <1>1, <1>2, <1>3 DEF LaunchParams
<1>4. CASE ~RoceSpeculates(r, p)
  BY <1>2, <1>4
<1>5. QED
  BY <1>3, <1>4

(* engine_config as the adapter leaves it to the command *)
LEMMA ConfigForm ==
    ASSUME NEW r \in Request, NEW c \in EngineConfig
    PROVE  LET d == Stripped(r, WithRole(r, c))
           IN  /\ d \in EngineConfig /\ d.fp8 = c.fp8
               /\ d.tp = (IF r.role = "none" THEN c.tp ELSE PdTopology(r, 0).tp)
               /\ d.dp = (IF r.role = "none" THEN c.dp ELSE PdTopology(r, 0).dp)
               /\ d.spec = (IF r.role # "none" /\ RoleSpeculates(r) THEN "mtp" ELSE c.spec)
               /\ d.connector = IF Glm51Nvidia(r) THEN "none" ELSE IF r.role = "none" THEN c.connector ELSE "pd"
<1> DEFINE e == WithRole(r, c)
<1>1. e \in EngineConfig
  BY MergeTypes
<1>2. /\ e.fp8 = c.fp8 /\ e.tp = (IF r.role = "none" THEN c.tp ELSE PdTopology(r, 0).tp)
      /\ e.dp = (IF r.role = "none" THEN c.dp ELSE PdTopology(r, 0).dp)
      /\ e.spec = (IF r.role # "none" /\ RoleSpeculates(r) THEN "mtp" ELSE c.spec)
      /\ e.connector = IF r.role = "none" THEN c.connector ELSE "pd"
  BY DEF WithRole, EngineConfig
<1> HIDE DEF e
<1>3. Stripped(r, e) \in EngineConfig
  BY <1>1, MergeTypes
<1>4. Stripped(r, e) = IF Glm51Nvidia(r) THEN [e EXCEPT !.connector = "none"] ELSE e
  BY DEF Stripped
<1>5. QED
  BY <1>1, <1>2, <1>3, <1>4 DEF EngineConfig, e

(* _prepare_engine_config: what comes out of it for a command without a role, and for one with *)
LEMMA PreparedForm ==
    ASSUME NEW r \in Request, NEW n \in Nat, NEW p \in LaunchParams, r.engine \in VllmEngines
    PROVE  LET q == Prepared(r, n, p)
               t == Topology(r, n, p)
           IN  /\ q \in LaunchParams /\ q.features = p.features /\ q.plain = p.plain /\ q.top = t.top
               /\ q.rpc = t.rpc /\ q.forceStart = t.forceStart /\ q.cfg.fp8 = p.cfg.fp8
               /\ q.cfg.tp = (IF r.role = "none" THEN t.cfg.tp ELSE PdTopology(r, 0).tp)
               /\ q.cfg.dp = (IF r.role = "none" THEN t.cfg.dp ELSE PdTopology(r, 0).dp)
               /\ q.cfg.spec = (IF RoceSpeculates(r, p) \/ (r.role # "none" /\ RoleSpeculates(r)) THEN "mtp" ELSE p.cfg.spec)
               /\ q.cfg.connector = IF Glm51Nvidia(r) THEN "none" ELSE IF r.role = "none" THEN p.cfg.connector ELSE "pd"
<1> DEFINE t == Topology(r, n, p)
<1> DEFINE s == RoceSpeculation(r, t)
<1> DEFINE d == Stripped(r, WithRole(r, s.cfg))
<1>1. Resized(p, t)
  BY TopologyResizes
<1>2. Prepared(r, n, p) = [s EXCEPT !.cfg = d]
  BY DEF Prepared, Topology
<1> HIDE DEF t
<1>3. /\ s \in LaunchParams /\ s.features = t.features /\ s.plain = t.plain /\ s.top = t.top
      /\ s.rpc = t.rpc /\ s.forceStart = t.forceStart
      /\ s.cfg.tp = t.cfg.tp /\ s.cfg.dp = t.cfg.dp /\ s.cfg.connector = t.cfg.connector /\ s.cfg.fp8 = t.cfg.fp8
      /\ s.cfg.spec = IF RoceSpeculates(r, t) THEN "mtp" ELSE t.cfg.spec
  BY <1>1, RoceForm DEF Resized
<1>4. RoceSpeculates(r, t) = RoceSpeculates(r, p)
  BY <1>1 DEF RoceSpeculates, Resized, SameFeatures
<1> HIDE DEF s
<1>5. s.cfg \in EngineConfig
  BY <1>3, ParamsTypes
<1>6. /\ d \in EngineConfig /\ d.fp8 = s.cfg.fp8
      /\ d.tp = (IF r.role = "none" THEN s.cfg.tp ELSE PdTopology(r, 0).tp)
      /\ d.dp = (IF r.role = "none" THEN s.cfg.dp ELSE PdTopology(r, 0).dp)
      /\ d.spec = (IF r.role # "none" /\ RoleSpeculates(r) THEN "mtp" ELSE s.cfg.spec)
      /\ d.connector = IF Glm51Nvidia(r) THEN "none" ELSE IF r.role = "none" THEN s.cfg.connector ELSE "pd"
  BY <1>5, ConfigForm
<1> HIDE DEF d
<1> DEFINE q == [s EXCEPT !.cfg = d]
<1>7. /\ q \in LaunchParams /\ q.cfg = d /\ q.features = s.features /\ q.plain = s.plain /\ q.top = s.top
      /\ q.rpc = s.rpc /\ q.forceStart = s.forceStart
  BY <1>3, <1>6 DEF LaunchParams
<1> HIDE DEF q
<1>8. /\ q.cfg.fp8 = p.cfg.fp8
      /\ q.cfg.tp = (IF r.role = "none" THEN t.cfg.tp ELSE PdTopology(r, 0).tp)
      /\ q.cfg.dp = (IF r.role = "none" THEN t.cfg.dp ELSE PdTopology(r, 0).dp)
      /\ q.cfg.spec = (IF RoceSpeculates(r, p) \/ (r.role # "none" /\ RoleSpeculates(r)) THEN "mtp" ELSE p.cfg.spec)
      /\ q.cfg.connector = IF Glm51Nvidia(r) THEN "none" ELSE IF r.role = "none" THEN p.cfg.connector ELSE "pd"
  BY <1>1, <1>3, <1>4, <1>6, <1>7 DEF Resized, SameFeatures
<1>9. QED
  BY <1>1, <1>2, <1>3, <1>7, <1>8 DEF Resized, SameFeatures, q, t

LEMMA ConfigReplaced ==
    ASSUME NEW p \in LaunchParams, NEW c \in EngineConfig
    PROVE  LET q == [p EXCEPT !.cfg = c]
           IN  /\ q \in LaunchParams /\ q.cfg = c /\ q.features = p.features /\ q.plain = p.plain /\ q.top = p.top
               /\ q.rpc = p.rpc /\ q.forceStart = p.forceStart
BY DEF LaunchParams

(* _build_kv_sparse_cmd *)
LEMMA SparseForm ==
    ASSUME NEW r, NEW p \in LaunchParams
    PROVE  LET q == SparseApplied(r, p)
           IN  /\ q \in LaunchParams /\ q.features = p.features /\ q.plain = p.plain /\ q.top = p.top
               /\ q.rpc = p.rpc /\ q.forceStart = p.forceStart
               /\ q.cfg.tp = p.cfg.tp /\ q.cfg.dp = p.cfg.dp /\ q.cfg.connector = p.cfg.connector /\ q.cfg.spec = p.cfg.spec
               /\ q.cfg.fp8 = IF p.features.sparse /\ SparseVariant(r) = "fp8" THEN TRUE ELSE p.cfg.fp8
<1> DEFINE c == [p.cfg EXCEPT !.fp8 = TRUE]
<1>1. /\ c \in EngineConfig /\ c.tp = p.cfg.tp /\ c.dp = p.cfg.dp /\ c.connector = p.cfg.connector
      /\ c.spec = p.cfg.spec /\ c.fp8 = TRUE
  <2>1. \A b \in BOOLEAN : LET d == [p.cfg EXCEPT !.fp8 = b]
                           IN  /\ d \in EngineConfig /\ d.tp = p.cfg.tp /\ d.dp = p.cfg.dp
                               /\ d.connector = p.cfg.connector /\ d.spec = p.cfg.spec
    BY ParamsTypes DEF EngineConfig
  <2>2. c.fp8 = TRUE
    <3>1. p.cfg = [x \in DOMAIN p.cfg |-> p.cfg[x]] /\ "fp8" \in DOMAIN p.cfg
      BY ParamsTypes DEF EngineConfig
    <3>2. QED
      BY <3>1, Zenon
  <2>3. /\ c \in EngineConfig /\ c.tp = p.cfg.tp /\ c.dp = p.cfg.dp
        /\ c.connector = p.cfg.connector /\ c.spec = p.cfg.spec
    BY <2>1, TRUE \in BOOLEAN, Zenon
  <2> HIDE DEF c
  <2>4. QED
    BY <2>2, <2>3
<1>2. SparseApplied(r, p) = IF p.features.sparse /\ SparseVariant(r) = "fp8" THEN [p EXCEPT !.cfg = c] ELSE p
  BY DEF SparseApplied
<1> HIDE DEF c
<1>3. CASE p.features.sparse /\ SparseVariant(r) = "fp8"
  <2> DEFINE q == [p EXCEPT !.cfg = c]
  <2>1. /\ q \in LaunchParams /\ q.cfg = c /\ q.features = p.features /\ q.plain = p.plain /\ q.top = p.top
        /\ q.rpc = p.rpc /\ q.forceStart = p.forceStart
    BY <1>1, ConfigReplaced
  <2>2. SparseApplied(r, p) = q
    BY <1>2, <1>3
  <2> HIDE DEF q
  <2>3. q.cfg.fp8 = IF p.features.sparse /\ SparseVariant(r) = "fp8" THEN TRUE ELSE p.cfg.fp8
    BY <1>1, <1>3, <2>1, Zenon
  <2>4. /\ q.cfg.tp = p.cfg.tp /\ q.cfg.dp = p.cfg.dp /\ q.cfg.connector = p.cfg.connector /\ q.cfg.spec = p.cfg.spec
    BY <1>1, <2>1
  <2>5. QED
    BY <2>1, <2>2, <2>3, <2>4, Zenon
<1>4. CASE ~(p.features.sparse /\ SparseVariant(r) = "fp8")
  BY <1>2, <1>4
<1>5. QED
  BY <1>3, <1>4

(* The parameters a command is built from *)
Injected(r, p) == Glm47Injected(r, SparseApplied(r, p))
LEMMA ScriptedForm ==
    ASSUME NEW r \in Request, NEW n \in Nat, NEW p \in LaunchParams, r.engine \in VllmEngines
    PROVE  LET q == Scripted(r, n, p)
               t == Topology(r, n, Injected(r, p))
           IN  /\ q \in LaunchParams /\ q.features = p.features /\ q.plain = p.plain /\ q.top = t.top
               /\ q.rpc = t.rpc /\ q.forceStart = t.forceStart
               /\ q.cfg.fp8 = (IF p.features.sparse /\ SparseVariant(r) = "fp8" THEN TRUE ELSE p.cfg.fp8)
               /\ q.cfg.tp = (IF r.role = "none" THEN t.cfg.tp ELSE PdTopology(r, 0).tp)
               /\ q.cfg.dp = (IF r.role = "none" THEN t.cfg.dp ELSE PdTopology(r, 0).dp)
               /\ q.cfg.spec = (IF RoceSpeculates(r, p) \/ (r.role # "none" /\ RoleSpeculates(r)) THEN "mtp" ELSE p.cfg.spec)
               /\ q.cfg.connector = IF Glm51Nvidia(r) THEN "none" ELSE IF r.role = "none" THEN p.cfg.connector ELSE "pd"
<1> DEFINE s == SparseApplied(r, p)
<1> DEFINE i == Glm47Injected(r, s)
<1>1. /\ s \in LaunchParams /\ s.features = p.features /\ s.plain = p.plain
      /\ s.cfg.connector = p.cfg.connector /\ s.cfg.spec = p.cfg.spec
      /\ s.cfg.fp8 = IF p.features.sparse /\ SparseVariant(r) = "fp8" THEN TRUE ELSE p.cfg.fp8
  BY SparseForm
<1>2. Scripted(r, n, p) = Prepared(r, n, i) /\ Injected(r, p) = i
  BY DEF Scripted, Injected
<1> HIDE DEF s
<1>3. Resized(s, i)
  BY <1>1, TopologyResizes
<1> HIDE DEF i
<1>4. RoceSpeculates(r, i) = RoceSpeculates(r, p)
  BY <1>1, <1>3 DEF RoceSpeculates, Resized, SameFeatures
<1> DEFINE q == Prepared(r, n, i)
<1> DEFINE t == Topology(r, n, i)
<1>5. /\ q \in LaunchParams /\ q.features = i.features /\ q.plain = i.plain /\ q.top = t.top
      /\ q.rpc = t.rpc /\ q.forceStart = t.forceStart /\ q.cfg.fp8 = i.cfg.fp8
      /\ q.cfg.tp = (IF r.role = "none" THEN t.cfg.tp ELSE PdTopology(r, 0).tp)
      /\ q.cfg.dp = (IF r.role = "none" THEN t.cfg.dp ELSE PdTopology(r, 0).dp)
      /\ q.cfg.spec = (IF RoceSpeculates(r, i) \/ (r.role # "none" /\ RoleSpeculates(r)) THEN "mtp" ELSE i.cfg.spec)
      /\ q.cfg.connector = IF Glm51Nvidia(r) THEN "none" ELSE IF r.role = "none" THEN i.cfg.connector ELSE "pd"
  BY <1>3, PreparedForm DEF Resized
<1>6. Scripted(r, n, p) = q /\ Topology(r, n, Injected(r, p)) = t
  BY <1>2
<1> HIDE DEF q, t
<1>7. /\ i.features = p.features /\ i.plain = p.plain /\ i.cfg.connector = p.cfg.connector /\ i.cfg.spec = p.cfg.spec
      /\ i.cfg.fp8 = s.cfg.fp8
  BY <1>1, <1>3 DEF Resized, SameFeatures
<1>8. q.cfg.fp8 = (IF p.features.sparse /\ SparseVariant(r) = "fp8" THEN TRUE ELSE p.cfg.fp8)
  BY <1>1, <1>5, <1>7, Zenon
<1>9. /\ q.cfg.spec = (IF RoceSpeculates(r, p) \/ (r.role # "none" /\ RoleSpeculates(r)) THEN "mtp" ELSE p.cfg.spec)
      /\ q.cfg.connector = IF Glm51Nvidia(r) THEN "none" ELSE IF r.role = "none" THEN p.cfg.connector ELSE "pd"
  BY <1>4, <1>5, <1>7
<1>10. q.features = p.features /\ q.plain = p.plain
  BY <1>5, <1>7
<1>11. QED
  BY <1>5, <1>6, <1>8, <1>9, <1>10, Zenon

(* What the merge leaves of it *)
Replaced(r) == r.force /\ r.fileTp # 0

(* engine_config with other values of its own *)
SameOptions(c, d) == d \in EngineConfig /\ d.spec = c.spec /\ d.fp8 = c.fp8

LEMMA TpConfig ==
    ASSUME NEW c \in EngineConfig, NEW x \in Nat
    PROVE  LET d == [c EXCEPT !.tp = x]
           IN  SameOptions(c, d) /\ d.tp = x /\ d.dp = c.dp /\ d.connector = c.connector
BY DEF EngineConfig, SameOptions

LEMMA BothConfig ==
    ASSUME NEW c \in EngineConfig, NEW x \in Nat, NEW y \in Nat
    PROVE  LET d == [c EXCEPT !.tp = x, !.dp = y]
           IN  SameOptions(c, d) /\ d.tp = x /\ d.dp = y /\ d.connector = c.connector
BY DEF EngineConfig, SameOptions

LEMMA ConnectorConfig ==
    ASSUME NEW c \in EngineConfig, NEW k \in Connectors
    PROVE  LET d == [c EXCEPT !.connector = k]
           IN  SameOptions(c, d) /\ d.tp = c.tp /\ d.dp = c.dp /\ d.connector = k
BY DEF EngineConfig, SameOptions

LEMMA ParallelismForm ==
    ASSUME NEW r \in Request, NEW c \in EngineConfig
    PROVE  /\ LET d == AllCards(r, c)
              IN  /\ SameOptions(c, d) /\ d.dp = c.dp /\ d.connector = c.connector
                  /\ d.tp = OrElse(c.tp, r.count * (IF r.role = "none" THEN r.nodes ELSE 1))
           /\ LET d == WorldSize(r, c)
              IN  /\ SameOptions(c, d) /\ d.dp = c.dp /\ d.connector = c.connector
                  /\ d.tp = IF Distributed(r) THEN r.count * r.nodes ELSE OrElse(c.tp, r.count)
           /\ LET d == RoleParallelism(r, c)
              IN  SameOptions(c, d) /\ d.connector = c.connector
           /\ LET d == Overridden(r, c)
              IN  SameOptions(c, d) /\ d.connector = c.connector
<1>1. LET d == AllCards(r, c)
      IN  /\ SameOptions(c, d) /\ d.dp = c.dp /\ d.connector = c.connector
          /\ d.tp = OrElse(c.tp, r.count * (IF r.role = "none" THEN r.nodes ELSE 1))
  <2> DEFINE x == OrElse(c.tp, r.count * (IF r.role = "none" THEN r.nodes ELSE 1))
  <2>1. x \in Nat
    <3>1. r.count * (IF r.role = "none" THEN r.nodes ELSE 1) \in Nat /\ c.tp \in Nat
      BY RequestForm DEF EngineConfig
    <3>2. QED
      BY <3>1, OrElseNat
  <2>2. AllCards(r, c) = [c EXCEPT !.tp = x]
    BY DEF AllCards
  <2> HIDE DEF x
  <2>3. QED
    BY <2>1, <2>2, TpConfig DEF x
<1>2. LET d == WorldSize(r, c)
      IN  /\ SameOptions(c, d) /\ d.dp = c.dp /\ d.connector = c.connector
          /\ d.tp = IF Distributed(r) THEN r.count * r.nodes ELSE OrElse(c.tp, r.count)
  <2> DEFINE x == IF Distributed(r) THEN r.count * r.nodes ELSE OrElse(c.tp, r.count)
  <2>1. x \in Nat
    <3>1. r.count * r.nodes \in Nat /\ OrElse(c.tp, r.count) \in Nat
      BY RequestForm, OrElseNat DEF EngineConfig, TotalCards
    <3>2. QED
      BY <3>1
  <2>2. WorldSize(r, c) = [c EXCEPT !.tp = x]
    BY DEF WorldSize
  <2> HIDE DEF x
  <2>3. QED
    BY <2>1, <2>2, TpConfig DEF x
<1>3. SameOptions(c, c)
  BY DEF SameOptions
<1>4. LET d == RoleParallelism(r, c)
      IN  SameOptions(c, d) /\ d.connector = c.connector
  <2> DEFINE x == OrElse(r.pd.tp, c.tp)
  <2> DEFINE y == OrElse(r.pd.dp, c.dp)
  <2>1. x \in Nat /\ y \in Nat
    BY RequestForm, OrElseNat DEF EngineConfig
  <2>2. RoleParallelism(r, c) = IF r.role = "none" THEN c ELSE [c EXCEPT !.tp = x, !.dp = y]
    BY DEF RoleParallelism
  <2> HIDE DEF x, y
  <2>3. LET d == [c EXCEPT !.tp = x, !.dp = y] IN SameOptions(c, d) /\ d.connector = c.connector
    BY <2>1 DEF EngineConfig, SameOptions
  <2>4. QED
    BY <1>3, <2>2, <2>3
<1>5. LET d == Overridden(r, c)
      IN  SameOptions(c, d) /\ d.connector = c.connector
  <2> DEFINE x == IF c.tp # 0 THEN OrElse(r.tp, c.tp) ELSE c.tp
  <2> DEFINE y == IF c.dp # 0 THEN OrElse(r.dp, c.dp) ELSE c.dp
  <2>1. x \in Nat /\ y \in Nat
    BY RequestForm DEF EngineConfig, OrElse
  <2>2. Overridden(r, c) = IF r.engine \notin VllmEngines THEN c ELSE [c EXCEPT !.tp = x, !.dp = y]
    BY DEF Overridden
  <2> HIDE DEF x, y
  <2>3. LET d == [c EXCEPT !.tp = x, !.dp = y] IN SameOptions(c, d) /\ d.connector = c.connector
    BY <2>1 DEF EngineConfig, SameOptions
  <2>4. QED
    BY <1>3, <2>2, <2>3
<1>6. QED
  BY <1>1, <1>2, <1>4, <1>5
-----------------------------------------------------------------------------
(* What the merge makes of a launch *)

(* What the merge makes of everything but the sizes *)
MergedConnector(r, smart) ==
    IF r.role # "none" THEN "pd"
    ELSE IF Glm51Nvidia(r) \/ Replaced(r) \/ r.engine \notin VllmEngines THEN "none"
    ELSE Connector(r, smart)

LEMMA DefaultsForm ==
    ASSUME NEW r \in Request, NEW smart
    PROVE  LET c == EngineDefaults(r, smart)
           IN  /\ c \in EngineConfig /\ c.fp8 = FALSE /\ c.spec = "none"
               /\ c.connector = IF r.engine \in VllmEngines THEN Connector(r, smart) ELSE "none"
<1>1. /\ NoConfig \in EngineConfig /\ NoConfig.fp8 = FALSE /\ NoConfig.spec = "none" /\ NoConfig.connector = "none"
  BY DEF NoConfig, EngineConfig, Connectors
<1> DEFINE d == Defaults(r)
<1>2. d \in EngineConfig /\ d.fp8 = FALSE /\ d.spec = "none"
  BY DEF NoConfig, Defaults, EngineConfig, Connectors
<1> HIDE DEF d
<1> DEFINE e == SetParallelism(r, d)
<1>3. SameOptions(d, e)
  <2>1. SameOptions(d, d)
    BY <1>2 DEF SameOptions
  <2>2. SameOptions(d, RoleParallelism(r, d)) /\ SameOptions(d, AllCards(r, d))
    BY <1>2, ParallelismForm
  <2>3. QED
    BY <2>1, <2>2 DEF SetParallelism
<1>4. VllmConfig(r, smart) = [e EXCEPT !.connector = Connector(r, smart)]
  BY DEF VllmConfig, d
<1> HIDE DEF e
<1>5. Connector(r, smart) \in Connectors
  BY DEF Connector, Connectors
<1>6. CASE r.engine \in VllmEngines
  <2>1. EngineDefaults(r, smart) = VllmConfig(r, smart)
    BY <1>6 DEF EngineDefaults, VllmEngines
  <2> DEFINE v == [e EXCEPT !.connector = Connector(r, smart)]
  <2>2. SameOptions(e, v) /\ v.connector = Connector(r, smart)
    BY <1>3, <1>5, ConnectorConfig DEF SameOptions
  <2>3. v = EngineDefaults(r, smart)
    BY <1>4, <2>1
  <2> HIDE DEF v
  <2>4. v \in EngineConfig /\ v.fp8 = FALSE /\ v.spec = "none"
    BY <1>2, <1>3, <2>2 DEF SameOptions
  <2>5. QED
    BY <1>6, <2>2, <2>3, <2>4
<1>7. CASE r.engine \notin VllmEngines
  <2>1. SameOptions(NoConfig, WorldSize(r, NoConfig)) /\ WorldSize(r, NoConfig).connector = "none"
    BY <1>1, ParallelismForm
  <2>2. SameOptions(NoConfig, AllCards(r, NoConfig)) /\ AllCards(r, NoConfig).connector = "none"
    BY <1>1, ParallelismForm
  <2>3. EngineDefaults(r, smart) \in {WorldSize(r, NoConfig), AllCards(r, NoConfig)}
    BY <1>7, RequestForm DEF EngineDefaults, MindieConfig, SglangConfig, VllmEngines
  <2>4. QED
    BY <1>1, <1>7, <2>1, <2>2, <2>3 DEF SameOptions
<1>8. QED
  BY <1>6, <1>7

LEMMA MergedForm ==
    ASSUME NEW r \in Request, NEW smart, r.role # "none" => r.engine \in VllmEngines
    PROVE  LET c == FinalConfig(r, MergedConfig(r, smart))
           IN  /\ c \in EngineConfig /\ c.fp8 = FALSE
               /\ c.spec = (IF r.role # "none" /\ RoleSpeculates(r) THEN "mtp" ELSE "none")
               /\ c.connector = MergedConnector(r, smart)
<1> DEFINE c0 == IF r.force /\ r.fileTp # 0 THEN NoConfig ELSE EngineDefaults(r, smart)
<1>1. /\ c0 \in EngineConfig /\ c0.fp8 = FALSE /\ c0.spec = "none"
      /\ c0.connector = IF Replaced(r) \/ r.engine \notin VllmEngines THEN "none" ELSE Connector(r, smart)
  <2>1. /\ NoConfig \in EngineConfig /\ NoConfig.fp8 = FALSE /\ NoConfig.spec = "none" /\ NoConfig.connector = "none"
    BY DEF NoConfig, EngineConfig, Connectors
  <2>2. CASE Replaced(r)
    BY <2>1, <2>2 DEF Replaced
  <2>3. CASE ~Replaced(r)
    <3>1. c0 = EngineDefaults(r, smart)
      BY <2>3 DEF Replaced
    <3> HIDE DEF c0
    <3>2. QED
      BY <2>3, <3>1, DefaultsForm
  <2>4. QED
    BY <2>2, <2>3
<1>2. MergedConfig(r, smart) = [c0 EXCEPT !.tp = OrElse(r.fileTp, @)]
  BY DEF MergedConfig
<1> HIDE DEF c0
<1> DEFINE c1 == [c0 EXCEPT !.tp = OrElse(r.fileTp, c0.tp)]
<1>3. SameOptions(c0, c1) /\ c1.connector = c0.connector
  <2>1. OrElse(r.fileTp, c0.tp) \in Nat
    BY <1>1, RequestForm, OrElseNat DEF EngineConfig
  <2>2. QED
    BY <1>1, <2>1, TpConfig
<1>4. MergedConfig(r, smart) = c1
  BY <1>2
<1> HIDE DEF c1
<1> DEFINE c2 == Overridden(r, c1)
<1>5. SameOptions(c1, c2) /\ c2.connector = c1.connector
  BY <1>3, ParallelismForm DEF SameOptions
<1>6. FinalConfig(r, MergedConfig(r, smart)) = RoleParallelism(r, WithRole(r, Stripped(r, c2)))
  BY <1>4 DEF FinalConfig
<1> HIDE DEF c2
<1> DEFINE c3 == Stripped(r, c2)
<1>7. SameOptions(c2, c3) /\ c3.connector = IF Glm51Nvidia(r) THEN "none" ELSE c2.connector
  <2>1. c2 \in EngineConfig /\ "none" \in Connectors
    BY <1>5 DEF SameOptions, Connectors
  <2>2. SameOptions(c2, c2)
    BY <2>1 DEF SameOptions
  <2>3. LET d == [c2 EXCEPT !.connector = "none"] IN SameOptions(c2, d) /\ d.connector = "none"
    BY <2>1, ConnectorConfig
  <2>4. QED
    BY <2>2, <2>3 DEF Stripped
<1> HIDE DEF c3
<1> DEFINE c4 == WithRole(r, c3)
<1>8. /\ c4 \in EngineConfig /\ c4.fp8 = c3.fp8
      /\ c4.spec = (IF r.role # "none" /\ RoleSpeculates(r) THEN "mtp" ELSE c3.spec)
      /\ c4.connector = (IF r.role = "none" THEN c3.connector ELSE "pd")
  <2>1. c3 \in EngineConfig
    BY <1>7 DEF SameOptions
  <2>2. c4 \in EngineConfig
    BY <2>1, MergeTypes
  <2>3. QED
    BY <2>1, <2>2 DEF WithRole, EngineConfig
<1> HIDE DEF c4
<1> DEFINE c5 == RoleParallelism(r, c4)
<1>9. SameOptions(c4, c5) /\ c5.connector = c4.connector
  BY <1>8, ParallelismForm
<1>10. FinalConfig(r, MergedConfig(r, smart)) = c5
  BY <1>6 DEF c4, c3
<1> HIDE DEF c5
<1>11. /\ c5 \in EngineConfig /\ c5.fp8 = FALSE
       /\ c5.spec = (IF r.role # "none" /\ RoleSpeculates(r) THEN "mtp" ELSE "none")
  BY <1>1, <1>3, <1>5, <1>7, <1>8, <1>9 DEF SameOptions
<1>12. c5.connector = MergedConnector(r, smart)
  BY <1>1, <1>3, <1>5, <1>7, <1>8, <1>9 DEF MergedConnector
<1>13. QED
  BY <1>10, <1>11, <1>12

LEMMA OnlySizes ==
    ASSUME NEW r \in Request, NEW c \in EngineConfig, r.tp = 0, r.dp = 0, r.role = "none"
    PROVE  LET d == RoleParallelism(r, WithRole(r, Stripped(r, Overridden(r, c))))
           IN  d.tp = c.tp /\ d.dp = c.dp
<1>1. LET d == Overridden(r, c) IN d \in EngineConfig /\ d.tp = c.tp /\ d.dp = c.dp
  BY DEF Overridden, OrElse, EngineConfig
<1> DEFINE d == Overridden(r, c)
<1>2. RoleParallelism(r, WithRole(r, Stripped(r, d))) = Stripped(r, d)
  BY DEF RoleParallelism, WithRole
<1>3. Stripped(r, d).tp = d.tp /\ Stripped(r, d).dp = d.dp
  <2>1. d \in EngineConfig
    BY <1>1
  <2> HIDE DEF d
  <2>2. QED
    BY <2>1 DEF Stripped, EngineConfig
<1>4. QED
  BY <1>1, <1>2, <1>3

(* Where the launcher decides, the merge asks for all the cards, unless it leaves that to the adapter. *)
LEMMA MergedSizes ==
    ASSUME NEW r \in Request, NEW smart, Launchers(r), r.role = "none"
    PROVE  LET c == FinalConfig(r, MergedConfig(r, smart))
               recipe == Ascend(r) /\ r.model = "pro" /\ Distributed(r)
           IN  /\ c.dp = (IF recipe THEN 2 ELSE 0)
               /\ c.tp = (IF recipe THEN 16 ELSE IF LeavesParallelismToAdapter(r) THEN 0 ELSE TotalCards(r))
<1> DEFINE recipe == Ascend(r) /\ r.model = "pro" /\ Distributed(r)
<1>1. r.tp = 0 /\ r.dp = 0 /\ r.fileTp = 0
  BY DEF Launchers
<1> DEFINE e == EngineDefaults(r, smart)
<1>2. e \in EngineConfig
  BY DefaultsForm
<1>3. MergedConfig(r, smart) = e
  <2>1. MergedConfig(r, smart) = [e EXCEPT !.tp = e.tp]
    BY <1>1 DEF MergedConfig, OrElse
  <2> HIDE DEF e
  <2>2. QED
    BY <1>2, <2>1 DEF EngineConfig
<1>4. LET c == FinalConfig(r, MergedConfig(r, smart)) IN c.tp = e.tp /\ c.dp = e.dp
  BY <1>1, <1>2, <1>3, OnlySizes DEF FinalConfig
<1>5. TotalCards(r) = r.count * r.nodes /\ TotalCards(r) \in Nat
  BY RequestForm DEF TotalCards
<1>6. NoConfig \in EngineConfig /\ NoConfig.tp = 0 /\ NoConfig.dp = 0
  BY DEF NoConfig, EngineConfig, Connectors
<1>7. ASSUME NEW c \in EngineConfig, c.tp = 0, c.dp = 0
      PROVE  AllCards(r, c).tp = TotalCards(r) /\ AllCards(r, c).dp = 0
  <2>1. AllCards(r, c).dp = c.dp /\ AllCards(r, c).tp = OrElse(c.tp, r.count * (IF r.role = "none" THEN r.nodes ELSE 1))
    BY ParallelismForm
  <2>2. QED
    BY <1>5, <1>7, <2>1 DEF OrElse
<1>8. CASE r.engine \in VllmEngines
  <2>1. e.tp = SetParallelism(r, Defaults(r)).tp /\ e.dp = SetParallelism(r, Defaults(r)).dp
    <3>1. e = VllmConfig(r, smart)
      BY <1>8 DEF EngineDefaults, VllmEngines
    <3>2. Defaults(r) \in EngineConfig
      BY <1>6 DEF Defaults, EngineConfig, NoConfig, Connectors
    <3>3. SetParallelism(r, Defaults(r)) \in EngineConfig
      BY <3>2, MergeTypes DEF SetParallelism
    <3>4. QED
      BY <3>1, <3>3 DEF VllmConfig, EngineConfig
  <2>2. CASE recipe
    <3>1. LeavesParallelismToAdapter(r)
      BY <1>8, <2>2 DEF LeavesParallelismToAdapter, DpExecutor, Arch, Architecture, Ascend
    <3>2. Defaults(r).tp = 16 /\ Defaults(r).dp = 2
      BY <2>2, <1>6 DEF Defaults, EngineConfig
    <3>3. SetParallelism(r, Defaults(r)) = Defaults(r)
      BY <3>1 DEF SetParallelism
    <3>4. QED
      BY <1>4, <2>1, <2>2, <3>2, <3>3
  <2>3. CASE ~recipe
    <3>1. Defaults(r) = NoConfig
      BY <2>3 DEF Defaults
    <3>2. QED
      BY <1>4, <1>6, <1>7, <2>1, <2>3, <3>1 DEF SetParallelism
  <2>4. QED
    BY <2>2, <2>3
<1>9. CASE r.engine \notin VllmEngines
  <2>1. ~recipe /\ ~LeavesParallelismToAdapter(r)
    BY <1>9 DEF LeavesParallelismToAdapter, Ascend, VllmEngines, Glm52SingleEven, FlashPro5000, FlashAscend
  <2>2. e \in {AllCards(r, NoConfig), WorldSize(r, NoConfig)}
    BY <1>9, RequestForm DEF EngineDefaults, MindieConfig, SglangConfig, VllmEngines
  <2>3. WorldSize(r, NoConfig).tp = TotalCards(r) /\ WorldSize(r, NoConfig).dp = 0
    <3>1. /\ WorldSize(r, NoConfig).dp = NoConfig.dp
          /\ WorldSize(r, NoConfig).tp = IF Distributed(r) THEN r.count * r.nodes ELSE OrElse(NoConfig.tp, r.count)
      BY <1>6, ParallelismForm
    <3>2. ~Distributed(r) => r.nodes = 1
      BY RequestForm DEF Distributed
    <3>3. ~Distributed(r) => TotalCards(r) = r.count
      BY <1>5, <3>2, RequestForm
    <3>4. QED
      BY <1>5, <1>6, <3>1, <3>3 DEF OrElse
  <2>4. QED
    BY <1>4, <1>6, <1>7, <2>1, <2>2, <2>3
<1>10. QED
  BY <1>8, <1>9

(* The parameters the merge hands on *)
LEMMA AfterMergeForm ==
    ASSUME NEW r \in Request, r.role # "none" => r.engine \in VllmEngines
    PROVE  LET p == AfterMerge(r)
           IN  /\ p \in LaunchParams /\ p.features = Granted(r) /\ p.plain = FALSE
               /\ p.cfg = FinalConfig(r, MergedConfig(r, Granted(r).smart))
               /\ p.top = [tp |-> 0, dp |-> 0]
<1>1. /\ Granted(r) \in [spec : BOOLEAN, sparse : BOOLEAN, smart : SUBSET SmartFeature]
  BY RequestForm DEF Granted, Features, AskedOf, Allowed, SmartFeature
<1> DEFINE c == FinalConfig(r, MergedConfig(r, Granted(r).smart))
<1> DEFINE q == [NoParams EXCEPT !.features = Granted(r)]
<1>2. c \in EngineConfig
  BY MergedType
<1>3. AfterMerge(r) = [q EXCEPT !.cfg = c]
  BY DEF AfterMerge, AfterGate
<1> HIDE DEF c
<1>4. NoParams \in LaunchParams /\ ~NoParams.plain /\ NoParams.top = [tp |-> 0, dp |-> 0]
  BY DEF NoParams, LaunchParams, NoConfig, EngineConfig, Connectors, SmartFeature
<1>5. NoParams.plain \in BOOLEAN
  BY <1>4, ParamsTypes
<1>6. /\ q \in LaunchParams /\ q.features = Granted(r) /\ q.plain = NoParams.plain
      /\ q.top = NoParams.top
  BY <1>1, <1>4 DEF LaunchParams
<1> HIDE DEF q
<1> DEFINE p == [q EXCEPT !.cfg = c]
<1>7. p \in LaunchParams /\ p.cfg = c /\ p.features = q.features /\ p.plain = q.plain /\ p.top = q.top
  BY <1>2, <1>6, ConfigReplaced
<1> HIDE DEF p
<1>8. p.plain = FALSE
  BY <1>4, <1>5, <1>6, <1>7
<1>9. AfterMerge(r) = p
  BY <1>3 DEF p
<1>10. QED
  BY <1>4, <1>6, <1>7, <1>8, <1>9 DEF c
-----------------------------------------------------------------------------
(* The parameters of the two commands *)

(* What the adapter hands the two commands: which features, and under which connector *)
Roce(r) == Ascend(r) /\ DpExecutor(r) /\ Arch(r) = "GlmMoeDsa" /\ r.roce /\ Granted(r).spec
OfRole(r) == r.role # "none" /\ RoleSpeculates(r)
KeptConnector(r) == IF Glm51Nvidia(r) THEN "none" ELSE MergedConnector(r, Granted(r).smart)
Drops(r, n) == Advanced(r, AfterPrepare(r, n)) /\ Offloaded(r)

LEMMA AfterPrepareForm ==
    ASSUME NEW r \in Request, NEW n \in Nat, r.engine \in VllmEngines
    PROVE  LET p == AfterPrepare(r, n)
           IN  /\ p \in LaunchParams /\ p.features = Granted(r) /\ p.plain = FALSE /\ p.cfg.fp8 = FALSE
               /\ p.cfg.spec = (IF Roce(r) \/ OfRole(r) THEN "mtp" ELSE "none")
               /\ p.cfg.connector = KeptConnector(r)
<1> DEFINE m == AfterMerge(r)
<1> DEFINE c == FinalConfig(r, MergedConfig(r, Granted(r).smart))
<1>1. m \in LaunchParams /\ m.features = Granted(r) /\ m.plain = FALSE /\ m.cfg = c
  BY AfterMergeForm
<1>2. /\ c.fp8 = FALSE /\ c.spec = (IF OfRole(r) THEN "mtp" ELSE "none")
      /\ c.connector = MergedConnector(r, Granted(r).smart)
  BY MergedForm DEF OfRole
<1> HIDE DEF m, c
<1> DEFINE p == Prepared(r, n, m)
<1>3. /\ p \in LaunchParams /\ p.features = m.features /\ p.plain = m.plain /\ p.cfg.fp8 = m.cfg.fp8
      /\ p.cfg.spec = (IF RoceSpeculates(r, m) \/ OfRole(r) THEN "mtp" ELSE m.cfg.spec)
      /\ p.cfg.connector = (IF Glm51Nvidia(r) THEN "none" ELSE IF r.role = "none" THEN m.cfg.connector ELSE "pd")
  BY <1>1, PreparedForm DEF OfRole
<1>4. AfterPrepare(r, n) = p
  BY DEF AfterPrepare, m
<1> HIDE DEF p
<1>5. RoceSpeculates(r, m) <=> Roce(r)
  BY <1>1 DEF RoceSpeculates, Roce
<1>6. p.cfg.connector = KeptConnector(r)
  BY <1>1, <1>2, <1>3 DEF KeptConnector, MergedConnector
<1>7. p.cfg.spec = (IF Roce(r) \/ OfRole(r) THEN "mtp" ELSE "none")
  BY <1>1, <1>2, <1>3, <1>5
<1>8. p \in LaunchParams /\ p.features = Granted(r) /\ p.plain = FALSE /\ p.cfg.fp8 = FALSE
  BY <1>1, <1>2, <1>3
<1>9. QED
  BY <1>4, <1>6, <1>7, <1>8

(* A role is granted no features. *)
LEMMA RolesPlain ==
    ASSUME NEW r \in Request, NEW n \in Nat, r.engine \in VllmEngines, r.role # "none"
    PROVE  Granted(r) = [spec |-> FALSE, sparse |-> FALSE, smart |-> {}] /\ ~Advanced(r, AfterPrepare(r, n)) /\ ~Offloaded(r)
<1>1. Granted(r) = [spec |-> FALSE, sparse |-> FALSE, smart |-> {}]
  BY DEF Granted, Features
<1>2. AfterPrepare(r, n).features = Granted(r)
  BY AfterPrepareForm
<1>3. ~Granted(r).spec /\ ~Granted(r).sparse /\ Granted(r).smart = {}
  BY <1>1
<1>4. QED
  <2> DEFINE p == AfterPrepare(r, n)
  <2>1. ~p.features.spec /\ ~p.features.sparse /\ p.features.smart = {}
    BY <1>2, <1>3
  <2> HIDE DEF p
  <2>2. Backend(r, p) = "off"
    BY <2>1 DEF Backend
  <2>3. ReportOf(r, p) = {}
    BY <2>1, <2>2 DEF ReportOf, ActiveBackend
  <2>4. QED
    BY <1>1, <1>3, <2>3 DEF Advanced, Offloaded, p

LEMMA WithoutForm ==
    ASSUME NEW p \in LaunchParams, NEW b \in BOOLEAN
    PROVE  LET q == WithoutFeatures(p, b)
           IN  /\ q \in LaunchParams /\ q.features.spec = FALSE /\ q.features.sparse = FALSE
               /\ q.features.smart = p.features.smart /\ q.plain = b /\ q.top = p.top /\ q.rpc = p.rpc
               /\ q.cfg.spec = "none" /\ q.cfg.connector = (IF b THEN "none" ELSE p.cfg.connector)
               /\ q.cfg.fp8 = p.cfg.fp8 /\ q.cfg.tp = p.cfg.tp /\ q.cfg.dp = p.cfg.dp
<1> DEFINE q1 == [p EXCEPT !.features.spec = FALSE]
<1> DEFINE q2 == [q1 EXCEPT !.features.sparse = FALSE]
<1> DEFINE q3 == [q2 EXCEPT !.plain = b]
<1> DEFINE q4 == [q3 EXCEPT !.cfg.spec = "none"]
<1> DEFINE q5 == [q4 EXCEPT !.cfg.connector = IF b THEN "none" ELSE @]
<1>1. WithoutFeatures(p, b) = q5
  BY DEF WithoutFeatures
<1>2. /\ q1 \in LaunchParams /\ q1.features.spec = FALSE /\ q1.features.smart = p.features.smart
      /\ q1.top = p.top /\ q1.rpc = p.rpc /\ q1.cfg = p.cfg
  <2>1. \A x \in BOOLEAN :
          LET q == [p EXCEPT !.features.spec = x]
          IN  /\ q \in LaunchParams /\ q.features.spec = x /\ q.features.smart = p.features.smart
              /\ q.top = p.top /\ q.rpc = p.rpc /\ q.cfg = p.cfg
    BY ParamsTypes DEF LaunchParams
  <2>2. QED
    BY <2>1, FALSE \in BOOLEAN, Zenon
<1> HIDE DEF q1
<1>3. /\ q2 \in LaunchParams /\ q2.features.sparse = FALSE /\ q2.features.spec = q1.features.spec
      /\ q2.features.smart = q1.features.smart /\ q2.top = q1.top /\ q2.rpc = q1.rpc /\ q2.cfg = q1.cfg
  <2>1. \A x \in BOOLEAN :
          LET q == [q1 EXCEPT !.features.sparse = x]
          IN  /\ q \in LaunchParams /\ q.features.sparse = x /\ q.features.spec = q1.features.spec
              /\ q.features.smart = q1.features.smart /\ q.top = q1.top /\ q.rpc = q1.rpc /\ q.cfg = q1.cfg
    BY <1>2, ParamsTypes DEF LaunchParams
  <2>2. QED
    BY <2>1, FALSE \in BOOLEAN, Zenon
<1> HIDE DEF q2
<1>4. /\ q3 \in LaunchParams /\ q3.plain = b /\ q3.features = q2.features /\ q3.top = q2.top /\ q3.rpc = q2.rpc
      /\ q3.cfg = q2.cfg
  BY <1>3 DEF LaunchParams
<1> HIDE DEF q3
<1> DEFINE c4 == [q3.cfg EXCEPT !.spec = "none"]
<1> DEFINE k == IF b THEN "none" ELSE q3.cfg.connector
<1> DEFINE c5 == [c4 EXCEPT !.connector = k]
<1>5. /\ c4 \in EngineConfig /\ c4.spec = "none" /\ c4.connector = q3.cfg.connector /\ c4.fp8 = q3.cfg.fp8
      /\ c4.tp = q3.cfg.tp /\ c4.dp = q3.cfg.dp
  BY <1>4, ParamsTypes DEF EngineConfig
<1>6. q4 = [q3 EXCEPT !.cfg = c4]
  OBVIOUS
<1> HIDE DEF c4
<1>7. /\ q4 \in LaunchParams /\ q4.cfg = c4 /\ q4.features = q3.features /\ q4.plain = q3.plain /\ q4.top = q3.top
      /\ q4.rpc = q3.rpc
  BY <1>4, <1>5, <1>6, ConfigReplaced
<1> DEFINE q6 == [q4 EXCEPT !.cfg = c5]
<1>8. q5 = q6
  BY <1>5, <1>7
<1> HIDE DEF q4, q5
<1>9. k \in Connectors
  BY <1>4, ParamsTypes DEF Connectors
<1> HIDE DEF k
<1>10. /\ c5 \in EngineConfig /\ c5.spec = c4.spec /\ c5.fp8 = c4.fp8 /\ c5.tp = c4.tp /\ c5.dp = c4.dp
       /\ c5.connector = k
  BY <1>5, <1>9, ConnectorConfig DEF SameOptions
<1> HIDE DEF c5
<1>11. /\ q6 \in LaunchParams /\ q6.cfg = c5 /\ q6.features = q4.features /\ q6.plain = q4.plain /\ q6.top = q4.top
       /\ q6.rpc = q4.rpc
  BY <1>7, <1>10, ConfigReplaced
<1> HIDE DEF q6
<1>12. q5.features.spec = FALSE /\ q5.features.sparse = FALSE /\ q5.features.smart = p.features.smart
  BY <1>2, <1>3, <1>4, <1>7, <1>8, <1>11, Zenon
<1>13. q5.plain = b /\ q5.top = p.top /\ q5.rpc = p.rpc
  BY <1>2, <1>3, <1>4, <1>7, <1>8, <1>11, Zenon
<1>14. /\ q5.cfg.spec = "none" /\ q5.cfg.connector = (IF b THEN "none" ELSE p.cfg.connector)
       /\ q5.cfg.fp8 = p.cfg.fp8 /\ q5.cfg.tp = p.cfg.tp /\ q5.cfg.dp = p.cfg.dp
  <2>1. q3.cfg = p.cfg /\ q5.cfg = c5
    BY <1>2, <1>3, <1>4, <1>8, <1>11
  <2>2. QED
    BY <1>5, <1>10, <2>1 DEF k
<1>15. QED
  BY <1>1, <1>8, <1>11, <1>12, <1>13, <1>14

LEMMA SecondForm ==
    ASSUME NEW r \in Request, NEW n \in Nat, r.engine \in VllmEngines
    PROVE  LET s == ForSecond(r, n)
               p == AfterPrepare(r, n)
           IN  /\ s \in LaunchParams /\ ~s.features.spec /\ ~s.features.sparse
               /\ s.features.smart = Granted(r).smart /\ (s.plain <=> Drops(r, n)) /\ s.cfg.fp8 = FALSE
               /\ s.cfg.spec = (IF OfRole(r) THEN "mtp" ELSE "none")
               /\ s.cfg.connector = (IF Drops(r, n) THEN "none" ELSE KeptConnector(r))
               /\ s.cfg.tp = p.cfg.tp /\ s.cfg.dp = p.cfg.dp /\ s.top = p.top
<1> DEFINE p == AfterPrepare(r, n)
<1>1. /\ p \in LaunchParams /\ p.features = Granted(r) /\ p.plain = FALSE /\ p.cfg.fp8 = FALSE
      /\ p.cfg.spec = (IF Roce(r) \/ OfRole(r) THEN "mtp" ELSE "none")
      /\ p.cfg.connector = KeptConnector(r)
  BY AfterPrepareForm
<1>2. r.role # "none" => ~Advanced(r, p)
  BY RolesPlain
<1>3. /\ ForSecond(r, n) = (IF Advanced(r, p) THEN WithoutFeatures(p, Offloaded(r)) ELSE p)
      /\ Drops(r, n) <=> Advanced(r, p) /\ Offloaded(r)
  BY DEF ForSecond, SecondParams, Drops
<1>4. Offloaded(r) \in BOOLEAN
  BY DEF Offloaded
<1> HIDE DEF p
<1>5. CASE Advanced(r, p)
  <2> DEFINE s == WithoutFeatures(p, Offloaded(r))
  <2>1. /\ s \in LaunchParams /\ s.features.spec = FALSE /\ s.features.sparse = FALSE
        /\ s.features.smart = p.features.smart /\ s.plain = Offloaded(r) /\ s.top = p.top
        /\ s.cfg.spec = "none" /\ s.cfg.connector = (IF Offloaded(r) THEN "none" ELSE p.cfg.connector)
        /\ s.cfg.fp8 = p.cfg.fp8 /\ s.cfg.tp = p.cfg.tp /\ s.cfg.dp = p.cfg.dp
    BY <1>1, <1>4, WithoutForm
  <2>2. ForSecond(r, n) = s
    BY <1>3, <1>5
  <2> HIDE DEF s
  <2>3. ~OfRole(r)
    BY <1>2, <1>5 DEF OfRole
  <2>4. s.cfg.connector = (IF Drops(r, n) THEN "none" ELSE KeptConnector(r))
    BY <1>1, <1>3, <1>5, <2>1
  <2>5. s.features.smart = Granted(r).smart /\ (s.plain <=> Drops(r, n)) /\ s.cfg.fp8 = FALSE /\ ~s.features.spec /\ ~s.features.sparse
    BY <1>1, <1>3, <1>5, <2>1
  <2>6. QED
    BY <2>1, <2>2, <2>3, <2>4, <2>5 DEF p
<1>6. CASE ~Advanced(r, p)
  <2>1. ForSecond(r, n) = p /\ ~Drops(r, n)
    BY <1>3, <1>6
  <2>2. ~p.features.spec /\ ~p.features.sparse
    BY <1>6 DEF Advanced, ReportOf
  <2>3. ~Roce(r)
    BY <1>1, <2>2 DEF Roce
  <2>4. QED
    BY <1>1, <2>1, <2>2, <2>3 DEF p
<1>7. QED
  BY <1>5, <1>6

(* The parameters of the second command, as its script leaves them *)
LEMMA SecondScripted ==
    ASSUME NEW r \in Request, NEW n \in Nat, r.engine \in VllmEngines
    PROVE  LET q == Scripted(r, n, ForSecond(r, n))
           IN  /\ q \in LaunchParams /\ ~q.features.spec /\ ~q.features.sparse
               /\ q.features.smart = Granted(r).smart /\ (q.plain <=> Drops(r, n)) /\ q.cfg.fp8 = FALSE
               /\ q.cfg.spec = (IF OfRole(r) THEN "mtp" ELSE "none")
               /\ q.cfg.connector = (IF Drops(r, n) THEN "none" ELSE KeptConnector(r))
<1> DEFINE s == ForSecond(r, n)
<1>1. /\ s \in LaunchParams /\ ~s.features.spec /\ ~s.features.sparse
      /\ s.features.smart = Granted(r).smart /\ (s.plain <=> Drops(r, n)) /\ s.cfg.fp8 = FALSE
      /\ s.cfg.spec = (IF OfRole(r) THEN "mtp" ELSE "none")
      /\ s.cfg.connector = (IF Drops(r, n) THEN "none" ELSE KeptConnector(r))
  BY SecondForm
<1>2. r.role # "none" => ~Drops(r, n)
  BY RolesPlain DEF Drops
<1> HIDE DEF s
<1> DEFINE q == Scripted(r, n, s)
<1>3. /\ q \in LaunchParams /\ q.features = s.features /\ q.plain = s.plain
      /\ q.cfg.fp8 = (IF s.features.sparse /\ SparseVariant(r) = "fp8" THEN TRUE ELSE s.cfg.fp8)
      /\ q.cfg.spec = (IF RoceSpeculates(r, s) \/ OfRole(r) THEN "mtp" ELSE s.cfg.spec)
      /\ q.cfg.connector = IF Glm51Nvidia(r) THEN "none" ELSE IF r.role = "none" THEN s.cfg.connector ELSE "pd"
  BY <1>1, ScriptedForm DEF OfRole
<1> HIDE DEF q
<1>4. ~RoceSpeculates(r, s)
  BY <1>1 DEF RoceSpeculates
<1>5. q.cfg.connector = (IF Drops(r, n) THEN "none" ELSE KeptConnector(r))
  BY <1>1, <1>2, <1>3 DEF KeptConnector, MergedConnector
<1>6. q.cfg.spec = (IF OfRole(r) THEN "mtp" ELSE "none")
  BY <1>1, <1>3, <1>4
<1>7. q.cfg.fp8 = FALSE
  BY <1>1, <1>3
<1>8. q.features.smart = Granted(r).smart /\ (q.plain <=> Drops(r, n)) /\ ~q.features.spec /\ ~q.features.sparse
  BY <1>1, <1>3
<1>9. QED
  BY <1>3, <1>5, <1>6, <1>7, <1>8 DEF q, s

(* What the first build leaves to the main one *)
LEMMA MainForm ==
    ASSUME NEW r \in Request, NEW n \in Nat, r.engine \in VllmEngines
    PROVE  LET m == ForMain(r, n)
               p == AfterPrepare(r, n)
               q == Scripted(r, n, ForSecond(r, n))
           IN  /\ m \in LaunchParams /\ m.features = Granted(r) /\ m.plain = FALSE /\ m.top = p.top /\ m.cfg.fp8 = FALSE
               /\ m.cfg.spec = (IF Roce(r) \/ OfRole(r) THEN "mtp" ELSE "none")
               /\ m.cfg.connector = KeptConnector(r)
               /\ m.cfg \in {p.cfg, q.cfg}
<1> DEFINE p == AfterPrepare(r, n)
<1> DEFINE s == ForSecond(r, n)
<1> DEFINE q == Scripted(r, n, s)
<1>1. /\ p \in LaunchParams /\ p.features = Granted(r) /\ p.plain = FALSE /\ p.cfg.fp8 = FALSE
      /\ p.cfg.spec = (IF Roce(r) \/ OfRole(r) THEN "mtp" ELSE "none")
      /\ p.cfg.connector = KeptConnector(r)
  BY AfterPrepareForm
<1>2. /\ s.cfg.spec = (IF OfRole(r) THEN "mtp" ELSE "none")
      /\ s.cfg.connector = (IF Drops(r, n) THEN "none" ELSE KeptConnector(r))
  BY SecondForm
<1>3. /\ q \in LaunchParams /\ q.cfg.fp8 = FALSE
      /\ q.cfg.spec = (IF OfRole(r) THEN "mtp" ELSE "none")
      /\ q.cfg.connector = (IF Drops(r, n) THEN "none" ELSE KeptConnector(r))
  BY SecondScripted
<1>4. ForMain(r, n) = IF s.cfg = p.cfg THEN [p EXCEPT !.cfg = q.cfg] ELSE p
  BY DEF ForMain
<1> HIDE DEF p, s, q
<1>5. CASE s.cfg = p.cfg
  <2> DEFINE m == [p EXCEPT !.cfg = q.cfg]
  <2>1. q.cfg \in EngineConfig
    BY <1>3, ParamsTypes
  <2>2. m \in LaunchParams /\ m.cfg = q.cfg /\ m.features = p.features /\ m.plain = p.plain /\ m.top = p.top
    BY <1>1, <2>1, ConfigReplaced
  <2>3. ForMain(r, n) = m
    BY <1>4, <1>5
  <2> HIDE DEF m
  <2>4. /\ m.cfg.spec = (IF Roce(r) \/ OfRole(r) THEN "mtp" ELSE "none") /\ m.cfg.connector = KeptConnector(r)
        /\ m.cfg.fp8 = FALSE
    BY <1>1, <1>2, <1>3, <1>5, <2>2
  <2>5. QED
    BY <1>1, <2>2, <2>3, <2>4 DEF p, q, s
<1>6. CASE s.cfg # p.cfg
  BY <1>1, <1>4, <1>6 DEF p
<1>7. QED
  BY <1>5, <1>6

(* The parameters of the main command, as its script leaves them *)
LEMMA MainScripted ==
    ASSUME NEW r \in Request, NEW n \in Nat, r.engine \in VllmEngines
    PROVE  LET q == Scripted(r, n, ForMain(r, n))
           IN  /\ q \in LaunchParams /\ q.features = Granted(r) /\ q.plain = FALSE
               /\ q.cfg.fp8 = (IF Granted(r).sparse /\ SparseVariant(r) = "fp8" THEN TRUE ELSE FALSE)
               /\ q.cfg.spec = (IF Roce(r) \/ OfRole(r) THEN "mtp" ELSE "none")
               /\ q.cfg.connector = KeptConnector(r)
<1> DEFINE m == ForMain(r, n)
<1>1. /\ m \in LaunchParams /\ m.features = Granted(r) /\ m.plain = FALSE /\ m.cfg.fp8 = FALSE
      /\ m.cfg.spec = (IF Roce(r) \/ OfRole(r) THEN "mtp" ELSE "none")
      /\ m.cfg.connector = KeptConnector(r)
  BY MainForm
<1> HIDE DEF m
<1> DEFINE q == Scripted(r, n, m)
<1>2. /\ q \in LaunchParams /\ q.features = m.features /\ q.plain = m.plain
      /\ q.cfg.fp8 = (IF m.features.sparse /\ SparseVariant(r) = "fp8" THEN TRUE ELSE m.cfg.fp8)
      /\ q.cfg.spec = (IF RoceSpeculates(r, m) \/ OfRole(r) THEN "mtp" ELSE m.cfg.spec)
      /\ q.cfg.connector = IF Glm51Nvidia(r) THEN "none" ELSE IF r.role = "none" THEN m.cfg.connector ELSE "pd"
  BY <1>1, ScriptedForm DEF OfRole
<1> HIDE DEF q
<1>3. RoceSpeculates(r, m) <=> Roce(r)
  BY <1>1 DEF RoceSpeculates, Roce
<1>4. q.cfg.connector = KeptConnector(r)
  BY <1>1, <1>2 DEF KeptConnector, MergedConnector
<1>5. q.cfg.spec = (IF Roce(r) \/ OfRole(r) THEN "mtp" ELSE "none")
  BY <1>1, <1>2, <1>3
<1>6. q.cfg.fp8 = (IF Granted(r).sparse /\ SparseVariant(r) = "fp8" THEN TRUE ELSE FALSE)
  BY <1>1, <1>2, Zenon
<1>7. q.features = Granted(r) /\ q.plain = FALSE
  BY <1>1, <1>2
<1>8. QED
  BY <1>2, <1>4, <1>5, <1>6, <1>7 DEF q, m
-----------------------------------------------------------------------------
(* The memory of a command, and the types of what it is made of *)

LEMMA WidthType ==
    ASSUME NEW p \in LaunchParams
    PROVE  Width(p) \in Nat /\ Width(p) >= 1
<1> DEFINE a == OrElse(OrElse(p.top.tp, p.cfg.tp), 1)
<1> DEFINE b == OrElse(OrElse(p.top.dp, p.cfg.dp), 1)
<1>1. a \in Nat /\ b \in Nat /\ a >= 1 /\ b >= 1
  BY ParamsTypes DEF OrElse
<1>2. Width(p) = a * b
  BY DEF Width
<1> HIDE DEF a, b
<1>3. QED
  BY <1>1, <1>2

(* The memory of a request, and what is left of it *)
LEMMA CapacityType ==
    ASSUME NEW m \in Memory, NEW w \in Nat
    PROVE  /\ Capacity(m, w) \in {None} \cup Nat
           /\ Capacity(m, w) > 0 => /\ m.on = "true" /\ m.size = Automatic
                                    /\ Capacity(m, w) >= 100 /\ 10 * Capacity(m, w) <= 9 * m.pod - 10 * (7 * w + 3)
           /\ Capacity(m, w) = None <=> m.on # "true" \/ m.size # Automatic \/ m.pod = 0
<1> DEFINE tenths == 9 * m.pod - 10 * (7 * w + 3)
<1>1. m.pod \in Nat /\ tenths \in Int
  BY DEF Memory
<1>2. Capacity(m, w) = IF m.on # "true" \/ m.size # Automatic \/ m.pod = 0 THEN None
                       ELSE IF tenths < 1000 THEN 0 ELSE tenths \div 10
  BY DEF Capacity
<1>3. /\ tenths >= 1000 => tenths \div 10 \in Nat /\ tenths \div 10 >= 100
      /\ 10 * (tenths \div 10) <= tenths
  <2> HIDE DEF tenths
  <2>1. QED
    BY <1>1
<1> HIDE DEF tenths
<1>4. Capacity(m, w) \in {None} \cup Nat
  BY <1>1, <1>2, <1>3
<1>5. Capacity(m, w) = None <=> m.on # "true" \/ m.size # Automatic \/ m.pod = 0
  BY <1>1, <1>2, <1>3 DEF None
<1>6. Capacity(m, w) > 0 => /\ m.on = "true" /\ m.size = Automatic
                            /\ Capacity(m, w) >= 100 /\ 10 * Capacity(m, w) <= tenths
  BY <1>1, <1>2, <1>3 DEF None
<1>7. QED
  BY <1>4, <1>5, <1>6 DEF tenths

(* More workers, less memory *)
LEMMA CapacityShrinks ==
    ASSUME NEW m \in Memory, NEW w \in Nat, w >= 1
    PROVE  /\ Capacity(m, w) > 0 => Capacity(m, 1) > 0
           /\ Capacity(m, w) = None <=> Capacity(m, 1) = None
<1>1. m.pod \in Nat
  BY DEF Memory
<1>2. 9 * m.pod - 10 * (7 * w + 3) <= 9 * m.pod - 10 * (7 * 1 + 3)
  BY <1>1
<1>3. Capacity(m, w) = None <=> Capacity(m, 1) = None
  BY CapacityType
<1>4. ASSUME Capacity(m, w) > 0 PROVE Capacity(m, 1) > 0
  <2>1. Capacity(m, w) >= 100 /\ 10 * Capacity(m, w) <= 9 * m.pod - 10 * (7 * w + 3) /\ Capacity(m, w) \in Nat
    BY <1>4, CapacityType DEF None
  <2>2. 9 * m.pod - 10 * (7 * 1 + 3) >= 1000
    BY <1>1, <1>2, <2>1
  <2>3. Capacity(m, 1) # None
    BY <1>3, <2>1 DEF None
  <2>4. Capacity(m, 1) # 0
    <3> DEFINE tenths == 9 * m.pod - 10 * (7 * 1 + 3)
    <3>1. tenths \in Int /\ ~(tenths < 1000) /\ tenths \div 10 >= 100
      BY <1>1, <2>2
    <3>2. Capacity(m, 1) = IF m.on # "true" \/ m.size # Automatic \/ m.pod = 0 THEN None
                           ELSE IF tenths < 1000 THEN 0 ELSE tenths \div 10
      BY DEF Capacity
    <3> HIDE DEF tenths
    <3>3. QED
      BY <2>3, <3>1, <3>2
  <2>5. QED
    BY <2>3, <2>4, CapacityType DEF None
<1>5. QED
  BY <1>3, <1>4

LEMMA PoolType ==
    ASSUME NEW r \in Request, NEW p \in LaunchParams
    PROVE  Pool(r, p) \in {None} \cup Nat
<1>1. r.memory \in Memory /\ r.count \in Nat \ {0} /\ Width(p) \in Nat
  BY RequestForm, WidthType
<1> DEFINE total == Capacity(r.memory, Width(p))
<1>2. total \in {None} \cup Nat /\ r.memory.size \in {Automatic} \cup Nat
  BY <1>1, CapacityType DEF Memory
<1>3. CpuPool(r, p) \in {None} \cup Nat
  <2>1. CpuPool(r, p) = IF r.memory.on # "true" \/ total = 0 THEN 0
                        ELSE IF total # None THEN AtLeastOne(total \div r.count)
                        ELSE IF r.memory.size > 0 THEN AtLeastOne(r.memory.size \div r.count) ELSE None
    BY DEF CpuPool
  <2> HIDE DEF total
  <2>2. total # None => total \div r.count \in Nat
    BY <1>1, <1>2, Quotient
  <2>3. r.memory.size > 0 => r.memory.size \div r.count \in Nat
    <3>1. r.memory.size > 0 => r.memory.size \in Nat
      BY <1>2 DEF Automatic
    <3>2. QED
      BY <1>1, <3>1, Quotient
  <2>4. QED
    BY <2>1, <2>2, <2>3 DEF AtLeastOne
<1> HIDE DEF total
<1>4. FlashPool(r, p) \in {None} \cup Nat
  BY <1>3 DEF FlashPool
<1>5. QED
  BY <1>3, <1>4 DEF Pool

LEMMA NativeType ==
    ASSUME NEW r \in Request, NEW p \in LaunchParams
    PROVE  NativeFlag(r, p) \in Nat
<1>1. Capacity(r.memory, Width(p)) \in {None} \cup Nat /\ r.memory.size \in {Automatic} \cup Nat
  BY RequestForm, WidthType, CapacityType DEF Memory
<1>2. QED
  BY <1>1 DEF NativeFlag, NativeGb, None, Automatic

LEMMA RefusalType == Refusal \in Command
BY DEF Refusal, Command, Connectors, None

(* A command of the engine, before its deployment is settled *)
LEMMA EngineCommandType ==
    ASSUME NEW r \in Request, NEW p \in LaunchParams
    PROVE  LET c == EngineCommand(r, p)
           IN  /\ c \in Command /\ c.kind = "engine" /\ c.tp = OrElse(p.cfg.tp, 1) /\ c.pp = 1 /\ c.dp = OrElse(p.cfg.dp, 1)
               /\ c.local = OrElse(p.cfg.dp, 1) /\ c.connector = p.cfg.connector /\ c.strategy = Speculation(r, p)
               /\ c.fp8 = p.cfg.fp8 /\ (c.index <=> p.features.sparse /\ SparseVariant(r) = "index")
               /\ c.native = 0 /\ c.pool = Pool(r, p)
<1>1. OrElse(p.cfg.tp, 1) \in Nat /\ OrElse(p.cfg.dp, 1) \in Nat /\ Pool(r, p) \in {None} \cup Nat
      /\ p.cfg.connector \in Connectors /\ p.cfg.fp8 \in BOOLEAN
  BY ParamsTypes, PoolType, OrElseNat
<1>2. Speculation(r, p) \in {"none", "mtp", "suffix", "draft"}
  BY ParamsTypes DEF Speculation, Strategy
<1> DEFINE c == EngineCommand(r, p)
<1>3. CommandForm(c) /\ CommandForm(Refusal)
  BY EngineForm
<1>4. /\ c.kind = "engine" /\ c.tp = OrElse(p.cfg.tp, 1) /\ c.pp = 1 /\ c.dp = OrElse(p.cfg.dp, 1)
      /\ c.local = OrElse(p.cfg.dp, 1) /\ c.start = None /\ c.rpc = 0 /\ c.connector = p.cfg.connector
      /\ c.strategy = Speculation(r, p) /\ c.native = 0 /\ c.pool = Pool(r, p)
  BY DEF EngineCommand, Refusal
<1>5. c.fp8 = p.cfg.fp8
  BY DEF EngineCommand, Refusal
<1>6. c.index = (p.features.sparse /\ SparseVariant(r) = "index")
  BY DEF EngineCommand, Refusal
<1>7. c.headless = FALSE
  BY DEF EngineCommand, Refusal
<1> HIDE DEF c
<1>8. c.index \in BOOLEAN /\ c.headless \in BOOLEAN /\ c.fp8 \in BOOLEAN
  BY <1>1, <1>5, <1>6, <1>7
<1>9. c \in Command
  BY <1>1, <1>2, <1>3, <1>4, <1>8 DEF Command, CommandForm
<1>10. QED
  BY <1>4, <1>5, <1>6, <1>9 DEF c
-----------------------------------------------------------------------------
(* What a command is made of *)

(* The features a command is built with *)
SameTraits(c, d) ==
    /\ d.connector = c.connector /\ d.strategy = c.strategy /\ d.fp8 = c.fp8 /\ d.index = c.index /\ d.pool = c.pool

LEMMA SingleForm ==
    ASSUME NEW r \in Request, NEW p \in LaunchParams
    PROVE  LET e == EngineCommand(r, p)
               c == SingleCommand(r, p)
           IN  /\ c \in Command /\ c.kind = "engine" /\ SameTraits(e, c) /\ c.native = NativeFlag(r, p)
               /\ c.tp = e.tp /\ c.pp = 1 /\ c.dp = e.dp /\ c.local = e.local
<1> DEFINE e == EngineCommand(r, p)
<1>1. e \in Command /\ e.kind = "engine" /\ e.pp = 1
  BY EngineCommandType
<1>2. NativeFlag(r, p) \in Nat
  BY NativeType
<1>3. SingleCommand(r, p) = [e EXCEPT !.native = NativeFlag(r, p)]
  BY DEF SingleCommand
<1> HIDE DEF e
<1>4. QED
  BY <1>1, <1>2, <1>3 DEF Command, SameTraits, e

LEMMA RayForm ==
    ASSUME NEW r \in Request, NEW n \in Nat, NEW p \in LaunchParams
    PROVE  LET e == EngineCommand(r, p)
               c == RayCommand(r, n, p)
           IN  /\ c \in Command
               /\ n > 0 => c.kind = "ray_worker" /\ c.tp = 0 /\ c.dp = 0
               /\ n = 0 => /\ c.kind = "engine" /\ SameTraits(e, c) /\ c.native = 0 /\ c.dp = e.dp
                           /\ IF Arch(r) \in {"Qwen3_5Moe", "MiniMaxM2"} THEN c.pp = r.nodes /\ c.tp = r.count
                              ELSE c.pp = 1 /\ c.tp = e.tp
<1> DEFINE e == EngineCommand(r, p)
<1>1. e \in Command /\ e.kind = "engine" /\ e.pp = 1 /\ e.native = 0
  BY EngineCommandType
<1>2. CASE n > 0
  <2>1. RayCommand(r, n, p) = [Refusal EXCEPT !.kind = "ray_worker", !.pool = Pool(r, p)]
    BY <1>2 DEF RayCommand
  <2>2. Refusal \in Command /\ Refusal.tp = 0 /\ Refusal.dp = 0
    BY RefusalType DEF Refusal
  <2>3. Pool(r, p) \in {None} \cup Nat
    BY PoolType
  <2> DEFINE c == [Refusal EXCEPT !.kind = "ray_worker", !.pool = Pool(r, p)]
  <2>4. c \in Command /\ c.kind = "ray_worker" /\ c.tp = 0 /\ c.dp = 0
    BY <2>2, <2>3 DEF Command
  <2>5. RayCommand(r, n, p) = c
    BY <2>1
  <2> HIDE DEF c
  <2>6. QED
    BY <1>2, <2>4, <2>5
<1>3. CASE n = 0
  <2>1. RayCommand(r, n, p) = IF Arch(r) \in {"Qwen3_5Moe", "MiniMaxM2"}
                              THEN [e EXCEPT !.pp = r.nodes, !.tp = r.count] ELSE e
    BY <1>3 DEF RayCommand
  <2> HIDE DEF e
  <2>2. r.nodes \in Nat /\ r.count \in Nat
    BY RequestForm
  <2>3. SameTraits(e, e)
    BY DEF SameTraits
  <2> DEFINE c == [e EXCEPT !.pp = r.nodes, !.tp = r.count]
  <2>4. c \in Command /\ c.kind = "engine" /\ SameTraits(e, c) /\ c.native = 0 /\ c.dp = e.dp /\ c.pp = r.nodes /\ c.tp = r.count
    BY <1>1, <2>2 DEF Command, SameTraits
  <2>5. RayCommand(r, n, p) = IF Arch(r) \in {"Qwen3_5Moe", "MiniMaxM2"} THEN c ELSE e
    BY <2>1
  <2> HIDE DEF c
  <2>6. QED
    BY <1>1, <1>3, <2>3, <2>4, <2>5 DEF e
<1>4. QED
  BY <1>2, <1>3

LEMMA DpLocalType ==
    ASSUME NEW r \in Request, NEW p \in LaunchParams, ~DpRefused(r, p)
    PROVE  /\ DpLocal(r, p) \in Nat
           /\ Ascend(r) => DpTp(r, p) \in Nat \ {0} /\ DpTp(r, p) * DpLocal(r, p) = r.count
<1>1. DpTp(r, p) \in Nat
  BY ParamsTypes, DpDefaultNat DEF DpTp, OrElse
<1>2. CASE Ascend(r)
  <2>1. DpTp(r, p) # 0 /\ r.count % OrElse(DpTp(r, p), 1) = 0
    BY <1>2 DEF DpRefused
  <2>2. r.count % DpTp(r, p) = 0
    BY <2>1 DEF OrElse
  <2>3. DpLocal(r, p) = r.count \div DpTp(r, p)
    BY <1>2 DEF DpLocal
  <2>4. r.count \in Nat
    BY RequestForm
  <2>5. r.count \div DpTp(r, p) \in Nat /\ DpTp(r, p) * (r.count \div DpTp(r, p)) = r.count
    BY <1>1, <2>1, <2>2, <2>4, Quotient
  <2>6. QED
    BY <1>1, <2>1, <2>3, <2>5
<1>3. CASE ~Ascend(r)
  BY <1>3 DEF DpLocal
<1>4. QED
  BY <1>2, <1>3

LEMMA DpForm ==
    ASSUME NEW r \in Request, NEW n \in Nat, NEW p \in LaunchParams
    PROVE  LET e == EngineCommand(r, p)
               c == DpCommand(r, n, p)
           IN  /\ c \in Command
               /\ DpRefused(r, p) => c = Refusal
               /\ ~DpRefused(r, p) =>
                    /\ c.kind = "engine" /\ SameTraits(e, c) /\ c.native = 0 /\ c.tp = e.tp /\ c.pp = 1
                    /\ c.local = DpLocal(r, p) /\ c.dp = DpLocal(r, p) * r.nodes
                    /\ c.start = IF n > 0 \/ p.forceStart THEN n * DpLocal(r, p) ELSE None
<1> DEFINE e == EngineCommand(r, p)
<1>1. e \in Command /\ e.kind = "engine" /\ e.pp = 1 /\ e.native = 0
  BY EngineCommandType
<1>2. CASE DpRefused(r, p)
  BY <1>2, RefusalType DEF DpCommand
<1>3. CASE ~DpRefused(r, p)
  <2> DEFINE l == DpLocal(r, p)
  <2> DEFINE d == l * r.nodes
  <2> DEFINE start == IF n > 0 \/ p.forceStart THEN n * l ELSE None
  <2> DEFINE h == n > 0
  <2>1. l \in Nat
    BY <1>3, DpLocalType
  <2>2. DpCommand(r, n, p) = [e EXCEPT !.dp = d, !.local = l, !.rpc = p.rpc, !.start = start, !.headless = h]
    BY <1>3 DEF DpCommand
  <2> HIDE DEF e, l
  <2>3. d \in Nat /\ start \in {None} \cup Nat /\ h \in BOOLEAN /\ p.rpc \in Nat
    BY <2>1, RequestForm, ParamsTypes
  <2> HIDE DEF d, start, h
  <2>4. LET c == [e EXCEPT !.dp = d, !.local = l, !.rpc = p.rpc, !.start = start, !.headless = h]
        IN  /\ c \in Command /\ c.kind = "engine" /\ SameTraits(e, c) /\ c.native = 0 /\ c.tp = e.tp /\ c.pp = 1
            /\ c.local = l /\ c.dp = d /\ c.start = start
    BY <1>1, <2>1, <2>3 DEF Command, SameTraits
  <2>5. QED
    BY <1>3, <2>2, <2>4 DEF e, d, l, start
<1>4. QED
  BY <1>2, <1>3

LEMMA PdForm ==
    ASSUME NEW r \in Request, NEW n \in Nat
    PROVE  LET t == PdTopology(r, n)
           IN  /\ t.tp \in Nat /\ t.dp \in Nat /\ t.local \in Nat /\ t.start = n * t.local /\ t.start \in Nat
               /\ t.tp = PdTopology(r, 0).tp /\ t.dp = PdTopology(r, 0).dp /\ t.local = PdTopology(r, 0).local
<1> DEFINE dp == OrElse(r.pd.dp, 1)
<1> DEFINE local == IF OrElse(r.pd.local, 1) < dp THEN OrElse(r.pd.local, 1) ELSE dp
<1>1. dp \in Nat /\ local \in Nat /\ OrElse(r.pd.tp, 1) \in Nat
  BY RequestForm, OrElseNat
<1>2. \A k \in Nat : PdTopology(r, k) = [tp |-> OrElse(r.pd.tp, 1), dp |-> dp, local |-> local, start |-> k * local]
  BY DEF PdTopology
<1> HIDE DEF dp, local
<1>3. n * local \in Nat
  BY <1>1
<1>4. QED
  BY <1>1, <1>2, <1>3

LEMMA RoleForm ==
    ASSUME NEW r \in Request, NEW n \in Nat, NEW p \in LaunchParams
    PROVE  LET t == PdTopology(r, n)
               c == RoleCommand(r, n, p)
           IN  /\ c \in Command /\ c.kind = "services" /\ c.tp = t.tp /\ c.dp = t.dp /\ c.strategy = p.cfg.spec
               /\ c.index = FALSE /\ c.fp8 = p.cfg.fp8 /\ c.native = 0 /\ c.pool = 0 /\ c.connector = p.cfg.connector
               /\ t.dp # 1 => c.local = t.local /\ c.start = t.start
<1> DEFINE e == EngineCommand(r, p)
<1> DEFINE t == PdTopology(r, n)
<1>1. e \in Command /\ e.native = 0 /\ e.fp8 = p.cfg.fp8 /\ e.connector = p.cfg.connector
  BY EngineCommandType
<1> DEFINE local == IF t.dp = 1 THEN 1 ELSE t.local
<1> DEFINE start == IF t.dp = 1 THEN None ELSE t.start
<1>2. t.tp \in Nat /\ t.dp \in Nat /\ local \in Nat /\ start \in {None} \cup Nat
  BY PdForm
<1>3. p.cfg.spec \in {"none", "mtp"}
  BY ParamsTypes
<1> DEFINE c1 == [e EXCEPT !.kind = "services", !.tp = t.tp, !.dp = t.dp, !.strategy = p.cfg.spec, !.pool = 0,
                           !.local = local, !.start = start]
<1> DEFINE c == [c1 EXCEPT !.index = FALSE]
<1>4. RoleCommand(r, n, p) = c
  BY DEF RoleCommand
<1> HIDE DEF e, t, local, start
<1>5. /\ c1 \in Command /\ c1.kind = "services" /\ c1.tp = t.tp /\ c1.dp = t.dp /\ c1.strategy = p.cfg.spec
      /\ c1.fp8 = e.fp8 /\ c1.native = e.native /\ c1.pool = 0 /\ c1.connector = e.connector
      /\ c1.local = local /\ c1.start = start
  BY <1>1, <1>2, <1>3 DEF Command
<1> HIDE DEF c1
<1>6. /\ c \in Command /\ c.kind = c1.kind /\ c.tp = c1.tp /\ c.dp = c1.dp /\ c.strategy = c1.strategy
      /\ c.fp8 = c1.fp8 /\ c.native = c1.native /\ c.pool = c1.pool /\ c.connector = c1.connector
      /\ c.local = c1.local /\ c.start = c1.start /\ c.index = FALSE
  <2>1. \A x \in BOOLEAN :
          LET d == [c1 EXCEPT !.index = x]
          IN  /\ d \in Command /\ d.kind = c1.kind /\ d.tp = c1.tp /\ d.dp = c1.dp /\ d.strategy = c1.strategy
              /\ d.fp8 = c1.fp8 /\ d.native = c1.native /\ d.pool = c1.pool /\ d.connector = c1.connector
              /\ d.local = c1.local /\ d.start = c1.start /\ d.index = x
    BY <1>5 DEF Command
  <2>2. QED
    BY <2>1, FALSE \in BOOLEAN, Zenon
<1> HIDE DEF c
<1>7. c.fp8 = p.cfg.fp8
  BY <1>1, <1>5, <1>6, Zenon
<1>8. c.local = local /\ c.start = start
  BY <1>5, <1>6
<1>9. t.dp # 1 => c.local = t.local /\ c.start = t.start
  BY <1>8 DEF local, start
<1>10. QED
  BY <1>1, <1>4, <1>5, <1>6, <1>7, <1>9 DEF t

LEMMA CommandType ==
    ASSUME NEW r \in Request, NEW n \in Nat, NEW p \in LaunchParams
    PROVE  CommandOf(r, n, p) \in Command
<1>1. CASE r.engine \notin VllmEngines
  BY <1>1, EngineCommandType DEF CommandOf
<1>2. CASE r.engine \in VllmEngines
  <2> DEFINE q == Scripted(r, n, p)
  <2>1. q \in LaunchParams
    BY <1>2, ScriptedForm
  <2>2. CommandOf(r, n, p) \in {RoleCommand(r, n, q), SingleCommand(r, q), DpCommand(r, n, q), RayCommand(r, n, q)}
    BY <1>2 DEF CommandOf
  <2> HIDE DEF q
  <2>3. RoleCommand(r, n, q) \in Command
    BY <2>1, RoleForm
  <2>4. SingleCommand(r, q) \in Command
    BY <2>1, SingleForm
  <2>5. DpCommand(r, n, q) \in Command
    BY <2>1, DpForm
  <2>6. RayCommand(r, n, q) \in Command
    BY <2>1, RayForm
  <2>7. QED
    BY <2>2, <2>3, <2>4, <2>5, <2>6
<1>3. QED
  BY <1>1, <1>2
-----------------------------------------------------------------------------
(* The inductive invariant *)

Steps == {"gate", "merge", "prepare", "report", "again", "main", "done", "failed"}

(* The types of what a node has, and that a script it goes on with is one that could be written *)
NodeInv(n) ==
    /\ pc[n] \in Steps /\ params[n] \in LaunchParams /\ plans[n] \in 1..MaxPlans
    /\ plan[n] \in [report : SUBSET Feature, again : Command, main : Command]
    /\ pc[n] \in {"main", "done"} => plan[n].again.kind # "refused"

LaunchInv ==
    /\ request \in Requests /\ PlansAlike
    /\ OnNodes(plans) /\ \A n \in Nodes : NodeInv(n)

LEMMA LaunchRequests ==
    ASSUME NEW r \in Requests
    PROVE  r \in Request /\ (r.role # "none" => r.engine \in VllmEngines)
BY LaunchAssumption

LEMMA NoParamsType == NoParams \in LaunchParams
BY DEF NoParams, LaunchParams, NoConfig, EngineConfig, Connectors, SmartFeature

LEMMA GrantedType ==
    ASSUME NEW r \in Request
    PROVE  Granted(r) \in [spec : BOOLEAN, sparse : BOOLEAN, smart : SUBSET SmartFeature]
BY RequestForm DEF Granted, Features, AskedOf, Allowed, SmartFeature

LEMMA ReportType ==
    ASSUME NEW r, NEW p
    PROVE  ReportOf(r, p) \in SUBSET Feature
BY DEF ReportOf, Feature

LEMMA PreparedType ==
    ASSUME NEW r \in Request, NEW n \in Nat, NEW p \in LaunchParams
    PROVE  Prepared(r, n, p) \in LaunchParams
<1>1. r.engine \notin VllmEngines => Prepared(r, n, p) = p
  BY DEF Prepared
<1>2. r.engine \in VllmEngines => Prepared(r, n, p) \in LaunchParams
  BY PreparedForm
<1>3. QED
  BY <1>1, <1>2

LEMMA SecondType ==
    ASSUME NEW r \in Request, NEW p \in LaunchParams, NEW b \in BOOLEAN
    PROVE  SecondParams(r, p, b) \in LaunchParams
<1>1. WithoutFeatures(p, b) \in LaunchParams
  BY WithoutForm
<1>2. QED
  BY <1>1 DEF SecondParams

LEMMA ScriptedType ==
    ASSUME NEW r \in Request, NEW n \in Nat, NEW p \in LaunchParams, r.engine \in VllmEngines
    PROVE  Scripted(r, n, p) \in LaunchParams
BY ScriptedForm

LEMMA NodeInvInit ==
    ASSUME Init
    PROVE  LaunchInv
<1>1. request \in Requests /\ PlansAlike /\ OnNodes(plans)
  BY PlansAlikeInit DEF Init, OnNodes
<1>2. ASSUME NEW n \in Nodes PROVE NodeInv(n)
  <2>1. pc[n] = "gate" /\ params[n] = NoParams /\ plan[n] = NoPlan /\ plans[n] = 1
    BY DEF Init
  <2>2. NoPlan \in [report : SUBSET Feature, again : Command, main : Command]
    BY RefusalType DEF NoPlan
  <2>3. 1 \in 1..MaxPlans
    BY LaunchAssumption
  <2>4. QED
    BY <2>1, <2>2, <2>3, NoParamsType DEF NodeInv, Steps
<1>3. QED
  BY <1>1, <1>2 DEF LaunchInv

(* A step changes what one node has, and to something of the same kind. *)
LEMMA NodeStep ==
    ASSUME LaunchInv, NEW n \in Nodes, request' = request, PlansAlike', NodeInv(n)', OnNodes(plans)',
           \A m \in Nodes \ {n} : pc'[m] = pc[m] /\ params'[m] = params[m] /\ plan'[m] = plan[m] /\ plans'[m] = plans[m]
    PROVE  LaunchInv'
<1>1. Nodes' = Nodes
  BY DEF Nodes
<1>2. ASSUME NEW m \in Nodes PROVE NodeInv(m)'
  <2>1. CASE m = n
    BY <2>1
  <2>2. CASE m # n
    BY <2>2 DEF LaunchInv, NodeInv
  <2>3. QED
    BY <2>1, <2>2
<1>3. QED
  BY <1>1, <1>2 DEF LaunchInv

LEMMA PlanningStep ==
    ASSUME LaunchInv, NEW n \in Nodes, PlansAlike',
           Gate(n) \/ Merge(n) \/ Prepare(n) \/ PrepareRefused(n) \/ Report(n)
    PROVE  LaunchInv'
<1> DEFINE r == request
<1>1. r \in Request /\ n \in Nat /\ params[n] \in LaunchParams /\ NodeInv(n)
  BY LaunchRequests DEF LaunchInv, NodeInv, Nodes
<1>2. request' = request /\ Nodes' = Nodes /\ plans' = plans
  BY DEF Gate, Merge, Prepare, PrepareRefused, Report, Nodes
<1>3. OnNodes(pc) /\ OnNodes(params) /\ OnNodes(plan) /\ OnNodes(plans) /\ Features(r, offload[n]) = Granted(r)
  BY DEF LaunchInv, PlansAlike, PlanInv, EnvironmentSettles
<1>4. OnNodes(plans)'
  BY <1>2, <1>3 DEF OnNodes
<1>5. ASSUME NEW s \in Steps \ {"main", "done"}, NEW q \in LaunchParams,
             pc' = [pc EXCEPT ![n] = s], params' = [params EXCEPT ![n] = q], plan' = plan
      PROVE  LaunchInv'
  <2>1. pc'[n] = s /\ params'[n] = q
    BY <1>3, <1>5 DEF OnNodes
  <2>2. \A m \in Nodes \ {n} : pc'[m] = pc[m] /\ params'[m] = params[m]
    BY <1>3, <1>5 DEF OnNodes
  <2>3. NodeInv(n)'
    BY <1>1, <1>2, <1>5, <2>1 DEF NodeInv
  <2>4. QED
    BY <1>2, <1>4, <1>5, <2>2, <2>3, NodeStep
<1>6. CASE Gate(n)
  <2> DEFINE q == [NoParams EXCEPT !.features = Granted(r)]
  <2>1. q \in LaunchParams
    BY <1>1, NoParamsType, GrantedType DEF LaunchParams
  <2>2. pc' = [pc EXCEPT ![n] = "merge"] /\ params' = [params EXCEPT ![n] = q] /\ plan' = plan
    BY <1>3, <1>6 DEF Gate
  <2> HIDE DEF q
  <2>3. QED
    BY <1>5, <2>1, <2>2 DEF Steps
<1>7. CASE Merge(n)
  <2> DEFINE c == FinalConfig(r, MergedConfig(r, params[n].features.smart))
  <2> DEFINE q == [params[n] EXCEPT !.cfg = c]
  <2>1. c \in EngineConfig
    BY <1>1, MergedType
  <2>2. pc' = [pc EXCEPT ![n] = "prepare"] /\ params' = [params EXCEPT ![n] = q] /\ plan' = plan
    BY <1>7 DEF Merge
  <2> HIDE DEF c
  <2>3. q \in LaunchParams
    BY <1>1, <2>1, ConfigReplaced
  <2> HIDE DEF q
  <2>4. QED
    BY <1>5, <2>2, <2>3 DEF Steps
<1>8. CASE Prepare(n)
  <2> DEFINE q == Prepared(r, n, params[n])
  <2>1. q \in LaunchParams
    BY <1>1, PreparedType
  <2>2. pc' = [pc EXCEPT ![n] = "report"] /\ params' = [params EXCEPT ![n] = q] /\ plan' = plan
    BY <1>8 DEF Prepare
  <2> HIDE DEF q
  <2>3. QED
    BY <1>5, <2>1, <2>2 DEF Steps
<1>9. CASE PrepareRefused(n)
  <2>1. pc' = [pc EXCEPT ![n] = "failed"] /\ params' = [params EXCEPT ![n] = params[n]] /\ plan' = plan
    BY <1>3, <1>9 DEF PrepareRefused, OnNodes
  <2>2. QED
    BY <1>1, <1>5, <2>1 DEF Steps
<1>10. CASE Report(n)
  <2> DEFINE s == ReportOf(r, params[n])
  <2>1. s \in SUBSET Feature
    BY ReportType
  <2>2. pc' = [pc EXCEPT ![n] = "again"] /\ params' = params /\ plan' = [plan EXCEPT ![n].report = s]
    BY <1>10 DEF Report
  <2> HIDE DEF s
  <2>3. pc'[n] = "again" /\ params'[n] = params[n] /\ plan'[n] = [plan[n] EXCEPT !.report = s]
    BY <1>3, <2>2 DEF OnNodes
  <2>4. \A m \in Nodes \ {n} : pc'[m] = pc[m] /\ plan'[m] = plan[m]
    BY <1>3, <2>2 DEF OnNodes
  <2>5. NodeInv(n)'
    BY <1>1, <1>2, <2>1, <2>3 DEF NodeInv, Steps
  <2>6. QED
    BY <1>2, <1>4, <2>2, <2>4, <2>5, NodeStep
<1>11. QED
  BY <1>6, <1>7, <1>8, <1>9, <1>10

LEMMA SecondBuilt ==
    ASSUME LaunchInv, NEW n \in Nodes, PlansAlike', BuildAgain(n)
    PROVE  LaunchInv'
<1> DEFINE r == request
<1> DEFINE p == params[n]
<1> DEFINE s == SecondParams(r, p, offload[n])
<1> DEFINE c == CommandOf(r, n, s)
<1>1. r \in Request /\ n \in Nat /\ p \in LaunchParams /\ NodeInv(n) /\ offload[n] \in BOOLEAN
  BY LaunchRequests DEF LaunchInv, NodeInv, Nodes, PlansAlike, PlanInv, EnvironmentSettles
<1>2. s \in LaunchParams
  BY <1>1, SecondType
<1>3. OnNodes(pc) /\ OnNodes(params) /\ OnNodes(plan) /\ OnNodes(plans)
  BY DEF LaunchInv, PlansAlike
<1>4. /\ plan' = [plan EXCEPT ![n]["again"] = c]
      /\ pc' = [pc EXCEPT ![n] = IF c.kind = "refused" THEN "failed" ELSE "main"]
      /\ params' = (IF r.engine \in VllmEngines /\ s.cfg = p.cfg
                    THEN [params EXCEPT ![n].cfg = Scripted(r, n, s).cfg] ELSE params)
      /\ request' = request /\ plans' = plans
  BY DEF BuildAgain, Built
<1> HIDE DEF s
<1>5. c \in Command
  BY <1>1, <1>2, CommandType
<1>6. r.engine \in VllmEngines => Scripted(r, n, s).cfg \in EngineConfig
  BY <1>1, <1>2, ScriptedType, ParamsTypes
<1> HIDE DEF c
<1>7. pc'[n] = (IF c.kind = "refused" THEN "failed" ELSE "main") /\ plan'[n] = [plan[n] EXCEPT !["again"] = c]
  BY <1>3, <1>4 DEF OnNodes
<1>8. params'[n] \in LaunchParams
  <2> DEFINE d == Scripted(r, n, s).cfg
  <2> DEFINE q == [p EXCEPT !.cfg = d]
  <2>1. params'[n] = IF r.engine \in VllmEngines /\ s.cfg = p.cfg THEN q ELSE p
    BY <1>3, <1>4 DEF OnNodes
  <2>2. r.engine \in VllmEngines => q \in LaunchParams
    <3>1. r.engine \in VllmEngines => d \in EngineConfig
      BY <1>6
    <3> HIDE DEF d
    <3>2. QED
      BY <1>1, <3>1, ConfigReplaced
  <2> HIDE DEF q
  <2>3. QED
    BY <1>1, <2>1, <2>2
<1>9. \A m \in Nodes \ {n} : pc'[m] = pc[m] /\ params'[m] = params[m] /\ plan'[m] = plan[m]
  BY <1>3, <1>4 DEF OnNodes
<1>10. NodeInv(n)'
  <2>1. plan'[n] \in [report : SUBSET Feature, again : Command, main : Command] /\ plan'[n].again = c
    BY <1>1, <1>5, <1>7 DEF NodeInv
  <2>2. QED
    BY <1>1, <1>4, <1>7, <1>8, <2>1 DEF NodeInv, Steps
<1>11. OnNodes(plans)' /\ Nodes' = Nodes
  BY <1>3, <1>4 DEF OnNodes, Nodes
<1>12. QED
  BY <1>4, <1>9, <1>10, <1>11, NodeStep

LEMMA MainBuilt ==
    ASSUME LaunchInv, NEW n \in Nodes, PlansAlike', BuildMain(n)
    PROVE  LaunchInv'
<1> DEFINE r == request
<1> DEFINE p == params[n]
<1> DEFINE c == CommandOf(r, n, p)
<1>1. r \in Request /\ n \in Nat /\ p \in LaunchParams /\ NodeInv(n)
  BY LaunchRequests DEF LaunchInv, NodeInv, Nodes
<1>2. OnNodes(pc) /\ OnNodes(params) /\ OnNodes(plan) /\ OnNodes(plans)
  BY DEF LaunchInv, PlansAlike
<1>3. /\ pc[n] = "main" /\ plan' = [plan EXCEPT ![n]["main"] = c]
      /\ pc' = [pc EXCEPT ![n] = IF c.kind = "refused" THEN "failed" ELSE "done"]
      /\ params' = (IF r.engine \in VllmEngines THEN [params EXCEPT ![n] = Scripted(r, n, p)] ELSE params)
      /\ request' = request /\ plans' = plans
  BY DEF BuildMain, Built
<1>4. c \in Command
  BY <1>1, CommandType
<1> HIDE DEF c
<1>5. pc'[n] \in {"failed", "done"} /\ plan'[n] = [plan[n] EXCEPT !["main"] = c]
  BY <1>2, <1>3 DEF OnNodes
<1>6. params'[n] \in LaunchParams
  <2>1. params'[n] = IF r.engine \in VllmEngines THEN Scripted(r, n, p) ELSE p
    BY <1>2, <1>3 DEF OnNodes
  <2>2. r.engine \in VllmEngines => Scripted(r, n, p) \in LaunchParams
    BY <1>1, ScriptedType
  <2>3. QED
    BY <1>1, <2>1, <2>2
<1>7. \A m \in Nodes \ {n} : pc'[m] = pc[m] /\ params'[m] = params[m] /\ plan'[m] = plan[m]
  BY <1>2, <1>3 DEF OnNodes
<1>8. NodeInv(n)'
  <2>1. plan'[n] \in [report : SUBSET Feature, again : Command, main : Command] /\ plan'[n].again = plan[n].again
    BY <1>1, <1>4, <1>5 DEF NodeInv
  <2>2. QED
    BY <1>1, <1>3, <1>5, <1>6, <2>1 DEF NodeInv, Steps
<1>9. OnNodes(plans)' /\ Nodes' = Nodes
  BY <1>2, <1>3 DEF OnNodes, Nodes
<1>10. QED
  BY <1>3, <1>7, <1>8, <1>9, NodeStep

LEMMA PlanningBegins ==
    ASSUME LaunchInv, NEW n \in Nodes, PlansAlike', PlanAgain(n) \/ Restart(n)
    PROVE  LaunchInv'
<1>1. NodeInv(n) /\ OnNodes(pc) /\ OnNodes(plans) /\ plans[n] < MaxPlans
  BY DEF LaunchInv, PlansAlike, PlanAgain, Restart
<1>2. /\ pc' = [pc EXCEPT ![n] = "gate"] /\ plans' = [plans EXCEPT ![n] = @ + 1]
      /\ request' = request /\ params' = params /\ plan' = plan
  BY DEF PlanAgain, Restart
<1>3. pc'[n] = "gate" /\ plans'[n] = plans[n] + 1 /\ \A m \in Nodes \ {n} : pc'[m] = pc[m] /\ plans'[m] = plans[m]
  BY <1>1, <1>2 DEF OnNodes
<1>4. plans'[n] \in 1..MaxPlans
  BY <1>1, <1>3, LaunchAssumption DEF NodeInv
<1>5. NodeInv(n)'
  BY <1>1, <1>2, <1>3, <1>4 DEF NodeInv, Steps
<1>6. OnNodes(plans)' /\ Nodes' = Nodes
  BY <1>1, <1>2 DEF OnNodes, Nodes
<1>7. QED
  BY <1>2, <1>3, <1>5, <1>6, NodeStep

LEMMA LaunchInvStep == LaunchInv /\ [Next]_vars => LaunchInv'
<1> SUFFICES ASSUME LaunchInv, [Next]_vars PROVE LaunchInv'
  OBVIOUS
<1>1. PlansAlike'
  BY PlansAlikeStep DEF LaunchInv
<1>2. ASSUME NEW n \in Nodes,
             \/ Gate(n) \/ Merge(n) \/ Prepare(n) \/ PrepareRefused(n) \/ Report(n)
             \/ BuildAgain(n) \/ BuildMain(n) \/ PlanAgain(n) \/ Restart(n)
      PROVE  LaunchInv'
  BY <1>1, <1>2, PlanningStep, SecondBuilt, MainBuilt, PlanningBegins
<1>3. CASE UNCHANGED vars
  <2>1. Nodes' = Nodes /\ request' = request /\ plans' = plans
    BY <1>3 DEF vars, Nodes
  <2>2. \A n \in Nodes : NodeInv(n)' <=> NodeInv(n)
    BY <1>3 DEF vars, NodeInv
  <2>3. QED
    BY <1>1, <2>1, <2>2 DEF LaunchInv, OnNodes
<1>4. QED
  BY <1>2, <1>3 DEF Next, Finished

LEMMA LaunchInvAlways == Spec => []LaunchInv
<1>1. Init => LaunchInv
  BY NodeInvInit
<1>2. QED
  BY <1>1, LaunchInvStep, PTL DEF Spec

(* Whatever a launch is asked for, the merge and the adapter keep the parameters and the commands
   to what they can be, a pool or a start rank that is not given included; and the first complete
   plan of a node is never another one. *)
THEOREM LaunchTypes == Spec => []LaunchTypeOK
<1>1. LaunchInv => LaunchTypeOK
  <2> SUFFICES ASSUME LaunchInv PROVE LaunchTypeOK
    OBVIOUS
  <2>1. /\ pc \in [Nodes -> {"gate", "merge", "prepare", "report", "again", "main", "done", "failed"}]
        /\ offload \in [Nodes -> BOOLEAN] /\ plans \in [Nodes -> 1..MaxPlans]
    BY DEF LaunchInv, PlansAlike, PlanInv, EnvironmentSettles, OnNodes, NodeInv, Steps
  <2>2. \A n \in Nodes : first[n] \in {NoPlan, plan[n]} \/ pc[n] # "done"
    BY DEF LaunchInv, PlansAlike, PlanInv, PlanIsOf, FirstIsOf, ThePlan
  <2>3. \A n \in Nodes : params[n] \in LaunchParams
    BY DEF LaunchInv, NodeInv
  <2>4. \A n \in Nodes : plan[n].report \in SUBSET Feature /\ plan[n].again \in Command /\ plan[n].main \in Command
    BY DEF LaunchInv, NodeInv
  <2>5. QED
    BY <2>1, <2>2, <2>3, <2>4 DEF LaunchTypeOK
<1>2. QED
  BY <1>1, LaunchInvAlways, PTL
-----------------------------------------------------------------------------
(* Ranks *)

(* Equal shares, one after the other *)
Share(n, size) == n * size .. n * size + size - 1

LEMMA SharesCover ==
    ASSUME NEW size \in Nat, NEW count \in Nat \ {0}
    PROVE  /\ UNION { Share(n, size) : n \in 0..count - 1 } = 0..size * count - 1
           /\ \A m, n \in 0..count - 1 : m # n => Share(m, size) \cap Share(n, size) = {}
<1>1. ASSUME NEW m \in Nat, NEW n \in Nat, m < n PROVE m * size + size <= n * size
  <2>1. (m + 1) * size <= n * size
    <3>1. m + 1 <= n /\ m + 1 \in Nat
      BY <1>1
    <3>2. QED
      BY <3>1
  <2>2. (m + 1) * size = m * size + size
    OBVIOUS
  <2>3. QED
    BY <2>1, <2>2
<1>2. ASSUME NEW m \in 0..count - 1, NEW n \in 0..count - 1, m # n
      PROVE  Share(m, size) \cap Share(n, size) = {}
  <2>1. m * size \in Nat /\ n * size \in Nat
    OBVIOUS
  <2>2. m * size + size <= n * size \/ n * size + size <= m * size
    <3>1. m < n \/ n < m
      BY <1>2
    <3>2. QED
      BY <1>1, <3>1
  <2>3. QED
    BY <2>1, <2>2 DEF Share
<1>3. ASSUME NEW n \in 0..count - 1, NEW x \in Share(n, size) PROVE x \in 0..size * count - 1
  <2>1. n * size \in Nat /\ size * count \in Nat /\ count * size = size * count
    OBVIOUS
  <2>2. n * size + size <= count * size
    BY <1>1
  <2>3. x \in Int /\ n * size <= x /\ x <= n * size + size - 1
    BY <2>1 DEF Share
  <2>4. QED
    BY <2>1, <2>2, <2>3
<1>4. ASSUME NEW x \in 0..size * count - 1 PROVE \E n \in 0..count - 1 : x \in Share(n, size)
  <2>1. x \in Nat /\ x < size * count /\ size * count \in Nat
    OBVIOUS
  <2>2. size # 0
    BY <2>1
  <2> DEFINE n == x \div size
  <2>3. n \in Nat /\ size * n <= x /\ x < size * n + size
    BY <2>1, <2>2
  <2> HIDE DEF n
  <2>4. n * size = size * n /\ count * size = size * count
    BY <2>3
  <2>5. n < count
    <3>1. SUFFICES ASSUME count <= n PROVE FALSE
      BY <2>3
    <3>2. size * count <= size * n
      BY <2>3, <3>1
    <3>3. QED
      BY <2>1, <2>3, <3>2
  <2>6. x \in Share(n, size)
    BY <2>1, <2>3, <2>4 DEF Share
  <2>7. QED
    BY <2>3, <2>5, <2>6
<1>5. UNION { Share(n, size) : n \in 0..count - 1 } = 0..size * count - 1
  BY <1>3, <1>4
<1>6. QED
  BY <1>2, <1>5

(* The ranks of a node are the share its number says. *)
LEMMA RanksOfNode ==
    ASSUME NEW r \in Request, NEW n \in Nat, RanksAreSpread(r)
    PROVE  LET c == CommandOf(r, n, ForMain(r, n))
           IN  c.local \in Nat /\ RanksOf(c) = Share(n, c.local) /\ c.dp = c.local * r.nodes
<1> DEFINE q == Scripted(r, n, ForMain(r, n))
<1> DEFINE c == CommandOf(r, n, ForMain(r, n))
<1>1. r.engine \in VllmEngines
  BY DEF RanksAreSpread
<1>2. q \in LaunchParams
  BY <1>1, MainScripted
<1>3. r.nodes \in Nat
  BY RequestForm
<1>4. CASE r.role = "none"
  <2>1. DpExecutor(r)
    BY <1>4 DEF RanksAreSpread
  <2>2. c = DpCommand(r, n, q)
    BY <1>1, <1>4, <2>1 DEF CommandOf, DpExecutor
  <2> HIDE DEF q, c
  <2>3. CASE DpRefused(r, q)
    <3>1. c.local = 0 /\ c.dp = 0 /\ c.start = None
      BY <1>2, <2>2, <2>3, DpForm DEF Refusal
    <3>2. RanksOf(c) = 0..0 - 1
      BY <3>1 DEF RanksOf, None
    <3>3. Share(n, 0) = 0..0 - 1
      BY DEF Share
    <3>4. 0 = 0 * r.nodes
      BY <1>3
    <3>5. QED
      BY <3>1, <3>2, <3>3, <3>4 DEF c
  <2>4. CASE ~DpRefused(r, q)
    <3> DEFINE l == DpLocal(r, q)
    <3>1. l \in Nat
      BY <1>2, <2>4, DpLocalType
    <3>2. c.local = l /\ c.dp = l * r.nodes /\ c.start = IF n > 0 \/ q.forceStart THEN n * l ELSE None
      BY <1>2, <2>2, <2>4, DpForm
    <3> HIDE DEF l
    <3>3. n * l \in Nat /\ (n = 0 => n * l = 0)
      BY <3>1
    <3>4. (IF c.start = None THEN 0 ELSE c.start) = n * l
      BY <3>2, <3>3 DEF None
    <3>5. RanksOf(c) = Share(n, l)
      BY <3>2, <3>4 DEF RanksOf, Share
    <3>6. QED
      BY <3>1, <3>2, <3>5 DEF c
  <2>5. QED
    BY <2>3, <2>4
<1>5. CASE r.role # "none"
  <2> DEFINE t == PdTopology(r, n)
  <2>1. t.dp > 1 /\ t.dp = r.nodes * t.local /\ t.local \in Nat /\ t.start = n * t.local /\ t.start \in Nat
    BY <1>5, PdForm DEF RanksAreSpread
  <2>2. c = RoleCommand(r, n, q)
    BY <1>1, <1>5 DEF CommandOf
  <2> HIDE DEF q, c
  <2>3. c.dp = t.dp /\ (t.dp # 1 => c.local = t.local /\ c.start = t.start)
    BY <1>2, <2>2, RoleForm
  <2> HIDE DEF t
  <2>4. c.local = t.local /\ c.start = n * t.local /\ c.start \in Nat
    BY <2>1, <2>3
  <2>5. RanksOf(c) = Share(n, t.local)
    BY <2>4 DEF RanksOf, Share, None
  <2>6. r.nodes * t.local = t.local * r.nodes
    BY <1>3, <2>1
  <2>7. RanksOf(c) = Share(n, c.local) /\ c.local \in Nat
    BY <2>1, <2>4, <2>5
  <2>8. c.dp = c.local * r.nodes
    <3>1. c.dp = r.nodes * t.local
      BY <2>1, <2>3
    <3>2. QED
      BY <2>4, <2>6, <3>1
  <2>9. QED
    BY <2>7, <2>8 DEF c
<1>6. QED
  BY <1>4, <1>5

(* A plan that is done is the plan of the launch. *)
LEMMA PlanMade ==
    ASSUME LaunchInv, NEW n \in Nodes, Done(n)
    PROVE  /\ n \in Nat /\ request \in Request /\ (request.role # "none" => request.engine \in VllmEngines)
           /\ plan[n].report = ReportOf(request, AfterPrepare(request, n))
           /\ plan[n].again = CommandOf(request, n, ForSecond(request, n)) /\ plan[n].again.kind # "refused"
           /\ plan[n].main = CommandOf(request, n, ForMain(request, n))
<1>1. n \in Nat /\ request \in Request /\ (request.role # "none" => request.engine \in VllmEngines)
  BY LaunchRequests DEF LaunchInv, Nodes
<1>2. pc[n] = "done" /\ PlanIsOf(n) /\ NodeInv(n)
  BY DEF LaunchInv, PlansAlike, PlanInv, Done
<1>3. QED
  BY <1>1, <1>2 DEF PlanIsOf, NodeInv, ThePlan

(* _build_dp_exec_command, _build_vllm_pd_external_lb_script: each node works out its own share
   of the data parallel ranks from its own parameters.  Together the shares are all of the ranks
   the engines wait for, and no rank runs twice: for any number of nodes and cards. *)
THEOREM RanksAlwaysCover == Spec => []RanksCover
<1>1. LaunchInv => RanksCover
  <2> SUFFICES ASSUME LaunchInv, RanksAreSpread(request), \A n \in Nodes : Done(n)
               PROVE  /\ UNION { RanksOf(plan[n].main) : n \in Nodes } = 0..plan[0].main.dp - 1
                      /\ \A m, n \in Nodes : m # n => RanksOf(plan[m].main) \cap RanksOf(plan[n].main) = {}
    BY DEF RanksCover
  <2> DEFINE r == request
  <2> DEFINE main(n) == CommandOf(r, n, ForMain(r, n))
  <2>1. r \in Request /\ r.nodes \in Nat \ {0} /\ Nodes = 0..r.nodes - 1 /\ 0 \in Nodes
    BY LaunchRequests, RequestForm DEF LaunchInv, Nodes
  <2>2. \A n \in Nodes : n \in Nat /\ plan[n].main = main(n)
    BY PlanMade
  <2>3. ASSUME NEW n \in Nodes PROVE main(n).local = main(0).local
    <3>1. Twins(ForMain(r, n), ForMain(r, 0))
      BY <2>1, NodesAreTwins, RequestForm
    <3>2. r.engine \notin VllmEngines \/ r.role # "none" \/ ~Distributed(r) \/ DpExecutor(r)
      BY DEF RanksAreSpread
    <3>3. SameCommand(main(n), main(0))
      BY <3>1, <3>2, SameCommands
    <3> HIDE DEF main
    <3>4. QED
      BY <3>3 DEF SameCommand
  <2> DEFINE size == main(0).local
  <2>4. size \in Nat /\ main(0).dp = size * r.nodes
    BY <2>1, RanksOfNode
  <2>5. ASSUME NEW n \in Nodes PROVE RanksOf(main(n)) = Share(n, main(n).local)
    BY <2>1, <2>2, RanksOfNode
  <2> HIDE DEF main
  <2>6. \A n \in Nodes : RanksOf(plan[n].main) = Share(n, size)
    BY <2>2, <2>3, <2>5
  <2>7. plan[0].main.dp = size * r.nodes
    BY <2>1, <2>2, <2>4
  <2> HIDE DEF size
  <2>8. /\ UNION { Share(n, size) : n \in Nodes } = 0..size * r.nodes - 1
        /\ \A m, n \in Nodes : m # n => Share(m, size) \cap Share(n, size) = {}
    BY <2>1, <2>4, SharesCover
  <2>9. { RanksOf(plan[n].main) : n \in Nodes } = { Share(n, size) : n \in Nodes }
    BY <2>6
  <2>10. QED
    BY <2>6, <2>7, <2>8, <2>9
<1>2. QED
  BY <1>1, LaunchInvAlways, PTL
-----------------------------------------------------------------------------
(* Strategies *)

(* What the whitelist lets offload *)
LEMMA OffloadModels ==
    ASSUME NEW r \in Request, "offload" \in Granted(r).smart
    PROVE  /\ r.role = "none" /\ r.engine \in VllmEngines
           /\ Ascend(r) => r.model \in {"glm47", "minimax", "flash", "v32", "kimi"}
           /\ r.engine = "vllm" => r.model \in {"qwen35_nvfp4", "minimax", "glm47_fp8"}
<1>1. r.role = "none"
  BY DEF Granted, Features
<1>2. "offload" \in Allowed(r)
  BY <1>1 DEF Granted, Features
<1>3. <<r.engine, r.model, r.card>> \in Whitelist.offload
  BY <1>2 DEF Allowed
<1>4. Whitelist.offload = ({"vllm"} \X {"qwen35_nvfp4", "minimax"} \X {"pro5000"})
                          \cup ({"vllm"} \X {"glm47_fp8"} \X {"h20"})
                          \cup ({"vllm_ascend"} \X {"glm47", "minimax", "flash"} \X {"a2", "a3"})
                          \cup ({"vllm_ascend"} \X {"v32", "kimi"} \X {"a3"})
  BY DEF Whitelist
<1>5. \/ r.engine = "vllm" /\ r.model \in {"qwen35_nvfp4", "minimax", "glm47_fp8"}
      \/ r.engine = "vllm_ascend" /\ r.model \in {"glm47", "minimax", "flash", "v32", "kimi"}
  BY <1>3, <1>4
<1>6. QED
  BY <1>1, <1>5 DEF Ascend, VllmEngines

(* A command that runs the engine has the features of its parameters, however it is deployed. *)
LEMMA EngineTraits ==
    ASSUME NEW r \in Request, NEW n \in Nat, NEW p \in LaunchParams, r.engine \in VllmEngines, r.role = "none",
           CommandOf(r, n, p).kind \notin {"refused", "ray_worker"}
    PROVE  LET c == CommandOf(r, n, p)
               q == Scripted(r, n, p)
           IN  /\ SameTraits(EngineCommand(r, q), c)
               /\ c.native = IF Distributed(r) THEN 0 ELSE NativeFlag(r, q)
<1> DEFINE q == Scripted(r, n, p)
<1> DEFINE c == CommandOf(r, n, p)
<1>1. q \in LaunchParams
  BY ScriptedType
<1>2. CASE ~Distributed(r)
  <2>1. c = SingleCommand(r, q)
    BY <1>2 DEF CommandOf
  <2> HIDE DEF q, c
  <2>2. QED
    BY <1>1, <1>2, <2>1, SingleForm DEF c, q
<1>3. CASE Distributed(r) /\ DpExecutor(r)
  <2>1. c = DpCommand(r, n, q)
    BY <1>3 DEF CommandOf
  <2>2. c.kind # "refused"
    OBVIOUS
  <2> HIDE DEF q, c
  <2>3. ~DpRefused(r, q)
    BY <2>1, <2>2 DEF DpCommand, Refusal
  <2>4. SameTraits(EngineCommand(r, q), c) /\ c.native = 0
    BY <1>1, <2>1, <2>3, DpForm
  <2>5. QED
    BY <1>3, <2>4 DEF c, q
<1>4. CASE Distributed(r) /\ ~DpExecutor(r)
  <2>1. c = RayCommand(r, n, q) /\ c.kind # "ray_worker"
    BY <1>4 DEF CommandOf
  <2> HIDE DEF q, c
  <2>2. n = 0
    BY <1>1, <2>1, RayForm
  <2>3. SameTraits(EngineCommand(r, q), c) /\ c.native = 0
    BY <1>1, <2>1, <2>2, RayForm
  <2>4. QED
    BY <1>4, <2>3 DEF c, q
<1>5. QED
  BY <1>2, <1>3, <1>4

(* resolve_speculative_strategy, _lmcache_requires_suffix_speculative_strategy, vllm_adapter.py: "no LMCache
   backend is active; keeping mtp speculative strategy".  A command that keeps MTP beside the
   connector the merge has put in has neither a pool nor a disk to offload to, whatever the
   memory, the number of cards, and the width the adapter settles on after the merge. *)
THEOREM StrategyAlwaysFits == Spec => []StrategyFitsOffload
<1>1. LaunchInv => StrategyFitsOffload
  <2> SUFFICES ASSUME LaunchInv, NEW n \in Nodes, RunsEngine(n), plan[n].main.strategy = "mtp", plan[n].main.connector = "lmcache"
               PROVE  plan[n].main.pool = 0 /\ ~request.memory.disk
    BY DEF StrategyFitsOffload
  <2> DEFINE r == request
  <2> DEFINE c == CommandOf(r, n, ForMain(r, n))
  <2> DEFINE q == Scripted(r, n, ForMain(r, n))
  <2>1. /\ n \in Nat /\ r \in Request /\ (r.role # "none" => r.engine \in VllmEngines) /\ plan[n].main = c
        /\ c.kind \in {"engine", "services"}
    BY PlanMade DEF RunsEngine
  <2>2. r.engine \in VllmEngines
    <3>1. SUFFICES ASSUME r.engine \notin VllmEngines PROVE FALSE
      OBVIOUS
    <3>2. ForMain(r, n) = AfterMerge(r) /\ c = EngineCommand(r, ForMain(r, n))
      BY <3>1 DEF ForMain, AfterPrepare, Prepared, CommandOf
    <3>3. AfterMerge(r) \in LaunchParams /\ AfterMerge(r).cfg.connector = "none"
      <4>1. /\ AfterMerge(r) \in LaunchParams
            /\ AfterMerge(r).cfg = FinalConfig(r, MergedConfig(r, Granted(r).smart))
        BY <2>1, AfterMergeForm
      <4>2. FinalConfig(r, MergedConfig(r, Granted(r).smart)).connector = MergedConnector(r, Granted(r).smart)
        BY <2>1, MergedForm
      <4>3. MergedConnector(r, Granted(r).smart) = "none"
        BY <2>1, <3>1 DEF MergedConnector
      <4>4. QED
        BY <4>1, <4>2, <4>3
    <3>4. c.connector = "none"
      BY <2>1, <3>2, <3>3, EngineCommandType
    <3>5. QED
      BY <2>1, <3>4
  <2>3. /\ q \in LaunchParams /\ q.features = Granted(r)
        /\ q.cfg.spec = (IF Roce(r) \/ OfRole(r) THEN "mtp" ELSE "none") /\ q.cfg.connector = KeptConnector(r)
    BY <2>1, <2>2, MainScripted
  <2>4. r.role = "none"
    <3>1. SUFFICES ASSUME r.role # "none" PROVE FALSE
      OBVIOUS
    <3>2. KeptConnector(r) # "lmcache"
      BY <3>1 DEF KeptConnector, MergedConnector
    <3>3. c = RoleCommand(r, n, q)
      BY <2>2, <3>1 DEF CommandOf
    <3>4. c.connector = q.cfg.connector
      BY <2>1, <2>3, <3>3, RoleForm
    <3>5. QED
      BY <2>1, <2>3, <3>2, <3>4
  <2>5. SameTraits(EngineCommand(r, q), c)
    <3>1. ForMain(r, n) \in LaunchParams
      BY <2>1, <2>2, MainForm
    <3>2. QED
      BY <2>1, <2>2, <2>4, <3>1, EngineTraits
  <2> HIDE DEF q, c
  <2>6. q.cfg.connector = "lmcache" /\ Speculation(r, q) = "mtp" /\ c.pool = Pool(r, q)
    BY <2>1, <2>3, <2>5, EngineCommandType DEF SameTraits
  <2>7. Connector(r, Granted(r).smart) = "lmcache" /\ ~Glm51Nvidia(r)
    BY <2>3, <2>4, <2>6 DEF KeptConnector, MergedConnector
  <2>8. "offload" \in Granted(r).smart /\ ~KimiMemCache(r) /\ ~NativeOffload(r) /\ ~FlashAscend(r)
    BY <2>4, <2>7 DEF Connector
  <2>9. ~Roce(r)
    <3>1. Ascend(r) => r.model \in {"glm47", "minimax", "flash", "v32", "kimi"}
      BY <2>1, <2>8, OffloadModels
    <3>2. QED
      BY <3>1 DEF Roce, Arch, Architecture
  <2>10. Strategy(r, q) = "mtp"
    BY <2>3, <2>4, <2>6, <2>9 DEF Speculation, OfRole
  <2>11. ~RequiresSuffix(r, q)
    BY <2>10 DEF Strategy
  <2>12. Capacity(r.memory, Width(q)) = 0 /\ ~r.memory.disk
    BY <2>3, <2>7, <2>8, <2>11 DEF RequiresSuffix, FloorDisablesAll, FloorDisabled
  <2>13. Pool(r, q) = 0
    BY <2>7, <2>8, <2>12 DEF Pool, CpuPool
  <2>14. QED
    BY <2>1, <2>6, <2>12, <2>13
<1>2. QED
  BY <1>1, LaunchInvAlways, PTL
-----------------------------------------------------------------------------
(* What the script expects *)

(* The features of a plan of FeaturePlan, one by one *)
LEMMA PlanFeatures ==
    ASSUME NEW i \in FeatureRequest
    PROVE  /\ Plan(i).main \subseteq Feature /\ Plan(i).again \subseteq Feature /\ Reported(i) \subseteq Feature
           /\ "speculative_decode" \in Plan(i).main <=> i.speculative \/ i.userOptions # {}
           /\ "sparse_kv" \in Plan(i).main <=> i.sparse \in {"index", "fp8"}
           /\ "kv_offload" \in Plan(i).main <=> i.offload \in {"idle", "lmcache", "memcache", "native"}
           /\ "speculative_decode" \in Plan(i).again <=> ~Active(i) /\ i.userOptions # {}
           /\ "sparse_kv" \notin Plan(i).again
           /\ "kv_offload" \in Plan(i).again <=> ~Active(i) /\ i.offload = "idle"
           /\ "speculative_decode" \in Reported(i) <=> i.speculative
           /\ "sparse_kv" \in Reported(i) <=> i.sparse # "off"
           /\ "kv_offload" \in Reported(i) <=> i.offload \in {"lmcache", "memcache", "native"}
           /\ Active(i) <=> Reported(i) # {}
<1> DEFINE p == Params(i)
<1> DEFINE again == IF Active(i) THEN Plain(p, i.offload # "off") ELSE p
<1> DEFINE main == [p EXCEPT !.options = IF again.options = p.options THEN OptionsAfter(again) ELSE p.options]
<1>1. /\ i.speculative \in BOOLEAN /\ i.sparse \in {"off", "index", "fp8", "noop"} /\ i.offload \in Offloads
      /\ i.userOptions \subseteq {"speculative_config"}
  BY DEF FeatureRequest
<1>2. /\ p.sparse = i.sparse /\ p.options = Options(i)
      /\ p.speculative <=> i.speculative
      /\ p.native <=> i.offload = "native"
  BY <1>1 DEF Params
<1>3. /\ "speculative_config" \in Options(i) <=> i.userOptions # {}
      /\ "kv_cache_dtype" \notin Options(i)
      /\ "kv_transfer_config" \in Options(i) <=> i.offload \in {"idle", "lmcache", "memcache"}
  BY <1>1 DEF Options
<1>4. /\ again.sparse = (IF Active(i) THEN "off" ELSE i.sparse)
      /\ again.speculative <=> ~Active(i) /\ i.speculative
      /\ again.native <=> ~Active(i) /\ i.offload = "native"
      /\ "kv_cache_dtype" \notin again.options
      /\ "speculative_config" \in again.options <=> ~Active(i) /\ i.userOptions # {}
      /\ "kv_transfer_config" \in again.options <=> ~Active(i) /\ i.offload = "idle"
  <2>1. CASE Active(i)
    <3>1. /\ again.sparse = "off" /\ again.speculative = FALSE
          /\ again.native = (p.native /\ ~(i.offload # "off"))
          /\ again.options = p.options \ ({"speculative_config"} \cup IF i.offload # "off" THEN {"kv_transfer_config"} ELSE {})
      BY <2>1 DEF Plain, Params
    <3>2. QED
      BY <1>1, <1>2, <1>3, <2>1, <3>1
  <2>2. CASE ~Active(i)
    <3>1. again = p /\ i.offload \notin {"lmcache", "memcache", "native"}
      BY <2>2 DEF Active
    <3>2. QED
      BY <1>2, <1>3, <2>2, <3>1
  <2>3. QED
    BY <2>1, <2>2
<1>5. Plan(i) = [main |-> FeaturesOf(main), again |-> FeaturesOf(again)]
  BY DEF Plan
<1>6. again.sparse # "fp8"
  BY <1>4 DEF Active
<1>7. /\ main.sparse = i.sparse /\ main.options = Options(i)
      /\ main.speculative <=> i.speculative
      /\ main.native <=> i.offload = "native"
  <2>1. (IF again.options = p.options THEN OptionsAfter(again) ELSE p.options) = p.options
    BY <1>6 DEF OptionsAfter
  <2>2. main = [p EXCEPT !.options = p.options]
    BY <2>1
  <2>3. main = p
    BY <2>2 DEF Params
  <2>4. QED
    BY <1>2, <2>3
<1> HIDE DEF p, again, main
<1>8. ASSUME NEW q
      PROVE  /\ FeaturesOf(q) \subseteq Feature
             /\ "speculative_decode" \in FeaturesOf(q) <=> q.speculative \/ "speculative_config" \in q.options
             /\ "sparse_kv" \in FeaturesOf(q) <=> q.sparse \in {"index", "fp8"} \/ "kv_cache_dtype" \in q.options
             /\ "kv_offload" \in FeaturesOf(q) <=> q.native \/ "kv_transfer_config" \in q.options
  BY DEF FeaturesOf, Feature, OptionsAfter
<1>9. /\ Reported(i) \subseteq Feature
      /\ "speculative_decode" \in Reported(i) <=> i.speculative
      /\ "sparse_kv" \in Reported(i) <=> i.sparse # "off"
      /\ "kv_offload" \in Reported(i) <=> i.offload \in {"lmcache", "memcache", "native"}
  BY DEF Reported, Feature
<1>10. Active(i) <=> Reported(i) # {}
  BY <1>9 DEF Active, Feature
<1>11. Plan(i).main = FeaturesOf(main) /\ Plan(i).again = FeaturesOf(again)
  BY <1>5
<1>12. /\ "speculative_decode" \in Plan(i).main <=> i.speculative \/ i.userOptions # {}
       /\ "sparse_kv" \in Plan(i).main <=> i.sparse \in {"index", "fp8"}
       /\ "kv_offload" \in Plan(i).main <=> i.offload \in {"idle", "lmcache", "memcache", "native"}
  BY <1>3, <1>7, <1>8, <1>11
<1>13. /\ "speculative_decode" \in Plan(i).again <=> ~Active(i) /\ i.userOptions # {}
       /\ "sparse_kv" \notin Plan(i).again
       /\ "kv_offload" \in Plan(i).again <=> ~Active(i) /\ i.offload = "idle"
  <2>1. ~Active(i) => ~i.speculative /\ i.sparse = "off" /\ i.offload # "native"
    BY DEF Active
  <2>2. QED
    BY <1>4, <1>8, <1>11, <2>1
<1>14. QED
  BY <1>8, <1>9, <1>10, <1>11, <1>12, <1>13

(* The features of a command, one by one *)
LEMMA FeaturesOfCommand ==
    ASSUME NEW c
    PROVE  /\ CommandFeatures(c) \subseteq Feature
           /\ "speculative_decode" \in CommandFeatures(c) <=> c.strategy # "none"
           /\ "sparse_kv" \in CommandFeatures(c) <=> c.index \/ c.fp8
           /\ "kv_offload" \in CommandFeatures(c) <=> c.native > 0 \/ c.connector \notin {"none", "pd"}
BY DEF CommandFeatures, Feature

LEMMA SameFeatureSets ==
    ASSUME NEW A, NEW B, A \subseteq Feature, B \subseteq Feature,
           "speculative_decode" \in A <=> "speculative_decode" \in B,
           "sparse_kv" \in A <=> "sparse_kv" \in B,
           "kv_offload" \in A <=> "kv_offload" \in B
    PROVE  A = B
<1>1. \A f \in Feature : f \in A <=> f \in B
  BY DEF Feature
<1>2. QED
  BY <1>1

(* A launch in the terms of FeaturePlan *)
LEMMA InputForm ==
    ASSUME NEW r \in Request, NEW n \in Nat, r.engine \in VllmEngines
    PROVE  LET p == AfterPrepare(r, n)
               i == AsInput(r, p)
           IN  /\ i \in FeatureRequest
               /\ i.speculative <=> Granted(r).spec
               /\ i.sparse = (IF Granted(r).sparse THEN SparseVariant(r) ELSE "off")
               /\ i.offload = (IF Backend(r, p) # "disabled" THEN Backend(r, p)
                               ELSE IF KeptConnector(r) = "none" THEN "none" ELSE "idle")
               /\ i.userOptions # {} <=> Roce(r) \/ OfRole(r)
               /\ Reported(i) = ReportOf(r, p)
<1> DEFINE p == AfterPrepare(r, n)
<1>1. /\ p \in LaunchParams /\ p.features = Granted(r)
      /\ p.cfg.spec = (IF Roce(r) \/ OfRole(r) THEN "mtp" ELSE "none") /\ p.cfg.connector = KeptConnector(r)
  BY AfterPrepareForm
<1> HIDE DEF p
<1> DEFINE i == AsInput(r, p)
<1>2. RoceSpeculation(r, p).cfg.spec = (IF RoceSpeculates(r, p) THEN "mtp" ELSE p.cfg.spec)
  BY <1>1, RoceForm
<1>3. RoceSpeculates(r, p) <=> Roce(r)
  BY <1>1 DEF RoceSpeculates, Roce
<1>4. RoceSpeculation(r, p).cfg.spec # "none" <=> Roce(r) \/ OfRole(r)
  BY <1>1, <1>2, <1>3
<1>5. /\ i.sparse = (IF p.features.sparse THEN SparseVariant(r) ELSE "off")
      /\ i.offload = (IF Backend(r, p) # "disabled" THEN Backend(r, p)
                      ELSE IF p.cfg.connector = "none" THEN "none" ELSE "idle")
      /\ i.userOptions = (IF RoceSpeculation(r, p).cfg.spec # "none" THEN {"speculative_config"} ELSE {})
  BY DEF AsInput
<1>6. i.speculative = p.features.spec
  BY DEF AsInput
<1>7. p.features.spec \in BOOLEAN /\ p.features.sparse \in BOOLEAN
  BY <1>1, ParamsTypes
<1>8. Backend(r, p) \in {"off", "memcache", "disabled", "native", "lmcache"}
  BY DEF Backend
<1>9. SparseVariant(r) \in {"index", "fp8", "noop"}
  BY DEF SparseVariant
<1>10. i = [speculative |-> i.speculative, sparse |-> i.sparse, offload |-> i.offload, userOptions |-> i.userOptions]
  BY DEF AsInput
<1> HIDE DEF i
<1>11. i \in FeatureRequest
  <2>1. i.speculative \in BOOLEAN
    BY <1>6, <1>7
  <2>2. i.sparse \in {"off", "index", "fp8", "noop"} /\ i.offload \in Offloads /\ i.userOptions \subseteq {"speculative_config"}
    BY <1>5, <1>8, <1>9 DEF Offloads
  <2>3. QED
    BY <1>10, <2>1, <2>2 DEF FeatureRequest
<1>12. Reported(i) = ReportOf(r, p)
  <2>1. /\ "speculative_decode" \in ReportOf(r, p) <=> p.features.spec
        /\ "sparse_kv" \in ReportOf(r, p) <=> p.features.sparse
        /\ "kv_offload" \in ReportOf(r, p) <=> ActiveBackend(r, p)
        /\ ReportOf(r, p) \subseteq Feature
    BY DEF ReportOf, Feature
  <2>2. /\ Reported(i) \subseteq Feature
        /\ "speculative_decode" \in Reported(i) <=> i.speculative
        /\ "sparse_kv" \in Reported(i) <=> i.sparse # "off"
        /\ "kv_offload" \in Reported(i) <=> i.offload \in {"lmcache", "memcache", "native"}
    BY <1>11, PlanFeatures
  <2>3. i.sparse # "off" <=> p.features.sparse
    BY <1>5, <1>9
  <2>4. i.offload \in {"lmcache", "memcache", "native"} <=> ActiveBackend(r, p)
    BY <1>5, <1>8 DEF ActiveBackend
  <2>5. QED
    BY <1>6, <2>1, <2>2, <2>3, <2>4, SameFeatureSets
<1>13. i.speculative <=> Granted(r).spec
  BY <1>1, <1>6
<1>14. i.sparse = (IF Granted(r).sparse THEN SparseVariant(r) ELSE "off")
  BY <1>1, <1>5
<1>15. i.offload = (IF Backend(r, p) # "disabled" THEN Backend(r, p)
                    ELSE IF KeptConnector(r) = "none" THEN "none" ELSE "idle")
  BY <1>1, <1>5
<1>16. i.userOptions # {} <=> Roce(r) \/ OfRole(r)
  BY <1>4, <1>5
<1>17. QED
  BY <1>11, <1>12, <1>13, <1>14, <1>15, <1>16 DEF i, p

(* A recipe out of its scope does nothing. *)
LEMMA OutOfScope ==
    ASSUME NEW r, NEW n
    PROVE  /\ ~FlashAscend(r) => \A p : FlashTopology(r, p) = p
           /\ ~ProScope(r) => \A p : ProTopology(r, n, p) = p
           /\ ~FlashPro5000(r) => \A p : Pro5000Topology(r, p) = p
           /\ ~Glm52SingleEven(r) => \A p : Glm52Topology(r, p) = p
           /\ ~(Ascend(r) /\ DpExecutor(r)) \/ r.model \in {"pro", "flash"} \/ r.tp # 0 => \A p : DpTopology(r, p) = p
<1>1. ~FlashAscend(r) => \A p : FlashTopology(r, p) = p
  BY DEF FlashTopology
<1>2. ~ProScope(r) => \A p : ProTopology(r, n, p) = p
  BY DEF ProTopology
<1>3. ~FlashPro5000(r) => \A p : Pro5000Topology(r, p) = p
  BY DEF Pro5000Topology
<1>4. ~Glm52SingleEven(r) => \A p : Glm52Topology(r, p) = p
  BY DEF Glm52Topology
<1>5. ~(Ascend(r) /\ DpExecutor(r)) \/ r.model \in {"pro", "flash"} \/ r.tp # 0 => \A p : DpTopology(r, p) = p
  BY DEF DpTopology
<1>6. QED
  BY <1>1, <1>2, <1>3, <1>4, <1>5

(* A model without a recipe of its own keeps the sizes of the merge. *)
LEMMA NoRecipe ==
    ASSUME NEW r, NEW n, NEW p, ~FlashAscend(r), ~ProScope(r), ~FlashPro5000(r), ~Glm52SingleEven(r),
           ~(Ascend(r) /\ DpExecutor(r)) \/ r.model \in {"pro", "flash"} \/ r.tp # 0
    PROVE  Topology(r, n, p) = p
BY OutOfScope DEF Topology

(* A model with native offloading that the whitelist lets offload has no recipe: the width its *)
(* report is made with is the one its flag is made with.                                       *)
LEMMA NativeWidth ==
    ASSUME NEW r \in Request, NEW n \in Nat, NativeOffload(r), r.model # "flash", r.role = "none", ~Distributed(r)
    PROVE  /\ \A p \in LaunchParams : Width(Scripted(r, n, p)) = Width(p)
           /\ Width(ForSecond(r, n)) = Width(AfterPrepare(r, n))
           /\ Width(ForMain(r, n)) = Width(AfterPrepare(r, n))
<1>1. r.engine = "vllm" /\ r.model = "qwen35_nvfp4" /\ r.engine \in VllmEngines /\ ~Ascend(r)
  BY DEF NativeOffload, VllmEngines, Ascend
<1>2. ASSUME NEW p \in LaunchParams PROVE Width(Scripted(r, n, p)) = Width(p)
  <2> DEFINE s == SparseApplied(r, p)
  <2> DEFINE q == Scripted(r, n, p)
  <2> DEFINE t == Topology(r, n, Injected(r, p))
  <2>1. t = s
    <3>1. Injected(r, p) = SparseApplied(r, p)
      BY <1>1 DEF Injected, Glm47Injected
    <3>2. Topology(r, n, SparseApplied(r, p)) = SparseApplied(r, p)
      BY <1>1, NoRecipe DEF FlashAscend, ProScope, FlashPro5000, Glm52SingleEven
    <3>3. QED
      BY <3>1, <3>2
  <2>2. s.top = p.top /\ s.cfg.tp = p.cfg.tp /\ s.cfg.dp = p.cfg.dp
    BY SparseForm
  <2>3. q.top = t.top /\ q.cfg.tp = t.cfg.tp /\ q.cfg.dp = t.cfg.dp
    BY <1>1, ScriptedForm
  <2> HIDE DEF s, q, t
  <2>4. q.top = p.top /\ q.cfg.tp = p.cfg.tp /\ q.cfg.dp = p.cfg.dp
    BY <2>1, <2>2, <2>3
  <2>5. Width(q) = Width(p)
    BY <2>4 DEF Width
  <2>6. QED
    BY <2>5 DEF q
<1> DEFINE p == AfterPrepare(r, n)
<1> DEFINE s == ForSecond(r, n)
<1> DEFINE q == Scripted(r, n, s)
<1> DEFINE m == ForMain(r, n)
<1>3. s \in LaunchParams /\ s.cfg.tp = p.cfg.tp /\ s.cfg.dp = p.cfg.dp /\ s.top = p.top
  BY <1>1, SecondForm
<1>4. Width(s) = Width(p)
  <2> HIDE DEF s, p
  <2>1. QED
    BY <1>3 DEF Width
<1>5. /\ q.top = s.top /\ q.cfg.tp = s.cfg.tp /\ q.cfg.dp = s.cfg.dp
  <2> DEFINE t == Topology(r, n, Injected(r, s))
  <2>1. t = SparseApplied(r, s)
    <3>1. Injected(r, s) = SparseApplied(r, s)
      BY <1>1 DEF Injected, Glm47Injected
    <3>2. Topology(r, n, SparseApplied(r, s)) = SparseApplied(r, s)
      BY <1>1, NoRecipe DEF FlashAscend, ProScope, FlashPro5000, Glm52SingleEven
    <3>3. QED
      BY <3>1, <3>2
  <2>2. q.top = t.top /\ q.cfg.tp = t.cfg.tp /\ q.cfg.dp = t.cfg.dp
    BY <1>1, <1>3, ScriptedForm
  <2>3. LET v == SparseApplied(r, s) IN v.top = s.top /\ v.cfg.tp = s.cfg.tp /\ v.cfg.dp = s.cfg.dp
    BY <1>3, SparseForm
  <2> HIDE DEF s, q, t
  <2>4. QED
    BY <2>1, <2>2, <2>3
<1>6. m.top = p.top /\ m.cfg \in {p.cfg, q.cfg}
  BY <1>1, MainForm
<1>7. Width(m) = Width(p)
  <2> HIDE DEF s, p, q, m
  <2>1. m.cfg.tp = p.cfg.tp /\ m.cfg.dp = p.cfg.dp
    BY <1>3, <1>5, <1>6
  <2>2. QED
    BY <1>6, <2>1 DEF Width
<1>8. QED
  BY <1>2, <1>4, <1>7

(* Where the adapter finds room for the cache, the merge, which counts one worker, has found it too. *)
LEMMA RoomForOneWorker ==
    ASSUME NEW r \in Request, NEW p \in LaunchParams, r.engine \in VllmEngines, r.role = "none", ~r.force,
           p.features.smart = Granted(r).smart, Backend(r, p) \in {"memcache", "lmcache"}
    PROVE  KeptConnector(r) # "none"
<1> DEFINE m == r.memory
<1> DEFINE w == Width(p)
<1>1. m \in Memory /\ w \in Nat /\ w >= 1
  BY RequestForm, WidthType
<1>2. /\ Capacity(m, w) > 0 => Capacity(m, 1) > 0
      /\ Capacity(m, w) = None <=> Capacity(m, 1) = None
  BY <1>1, CapacityShrinks
<1>3. Capacity(m, w) \in {None} \cup Nat /\ Capacity(m, 1) \in {None} \cup Nat
  BY <1>1, CapacityType
<1>4. "offload" \in Granted(r).smart /\ ~NativeOffload(r) /\ (KimiMemCache(r) \/ ~Glm51Nvidia(r))
  <2>1. KimiMemCache(r) => ~NativeOffload(r)
    BY DEF KimiMemCache, NativeOffload
  <2>2. QED
    BY <2>1 DEF Backend
<1>5. ~Glm51Nvidia(r)
  BY <1>4 DEF Glm51Nvidia, KimiMemCache
<1>6. KeptConnector(r) = Connector(r, Granted(r).smart)
  BY <1>5 DEF KeptConnector, MergedConnector, Replaced
<1>7. CASE KimiMemCache(r)
  <2>1. DramGb(m, w) > 0
    BY <1>4, <1>7 DEF Backend
  <2>2. DramGb(m, 1) > 0
    BY <1>2, <1>3, <2>1 DEF DramGb, None
  <2>3. QED
    BY <1>4, <1>6, <1>7, <2>2 DEF Connector
<1>8. CASE ~KimiMemCache(r)
  <2>1. CpuBackend(m, w) \/ m.disk
    BY <1>4, <1>5, <1>8 DEF Backend
  <2>2. ~FloorDisablesAll(m, 1)
    BY <1>2, <1>3, <2>1 DEF FloorDisablesAll, FloorDisabled, CpuBackend, None
  <2>3. QED
    BY <1>4, <1>5, <1>6, <1>8, <2>2 DEF Connector
<1>9. QED
  BY <1>7, <1>8

(* The features of the first command of a launch without a role *)
LEMMA MainFeatures ==
    ASSUME NEW r \in Request, NEW n \in Nat, r.engine \in VllmEngines, r.role = "none", ~r.force,
           ~(NativeOffload(r) /\ Distributed(r)),
           CommandOf(r, n, ForMain(r, n)).kind \notin {"refused", "ray_worker"}
    PROVE  CommandFeatures(CommandOf(r, n, ForMain(r, n))) = Plan(AsInput(r, AfterPrepare(r, n))).main
<1> DEFINE m == ForMain(r, n)
<1> DEFINE c == CommandOf(r, n, m)
<1> DEFINE q == Scripted(r, n, m)
<1> DEFINE p == AfterPrepare(r, n)
<1> DEFINE i == AsInput(r, p)
<1>1. m \in LaunchParams
  BY MainForm
<1>2. SameTraits(EngineCommand(r, q), c) /\ c.native = IF Distributed(r) THEN 0 ELSE NativeFlag(r, q)
  BY <1>1, EngineTraits
<1>3. /\ q \in LaunchParams /\ q.features = Granted(r) /\ q.plain = FALSE
      /\ q.cfg.fp8 = (IF Granted(r).sparse /\ SparseVariant(r) = "fp8" THEN TRUE ELSE FALSE)
      /\ q.cfg.spec = (IF Roce(r) \/ OfRole(r) THEN "mtp" ELSE "none")
      /\ q.cfg.connector = KeptConnector(r)
  BY MainScripted
<1>4. p \in LaunchParams /\ p.features = Granted(r)
  BY AfterPrepareForm
<1>5. /\ i \in FeatureRequest
      /\ i.speculative <=> Granted(r).spec
      /\ i.sparse = (IF Granted(r).sparse THEN SparseVariant(r) ELSE "off")
      /\ i.offload = (IF Backend(r, p) # "disabled" THEN Backend(r, p)
                      ELSE IF KeptConnector(r) = "none" THEN "none" ELSE "idle")
      /\ i.userOptions # {} <=> Roce(r) \/ OfRole(r)
  BY InputForm
<1>6. NativeOffload(r) /\ r.model # "flash" => Width(q) = Width(p)
  BY <1>1, NativeWidth
<1> HIDE DEF m, c, q, p, i
<1>7. /\ c.connector = KeptConnector(r) /\ c.strategy = Speculation(r, q) /\ c.fp8 = q.cfg.fp8
      /\ c.index <=> q.features.sparse /\ SparseVariant(r) = "index"
  BY <1>2, <1>3, EngineCommandType DEF SameTraits
<1>8. c.strategy # "none" <=> i.speculative \/ i.userOptions # {}
  <2>1. Roce(r) => Granted(r).spec
    BY DEF Roce
  <2>2. ~OfRole(r)
    BY DEF OfRole
  <2>3. Strategy(r, q) # "none"
    BY DEF Strategy
  <2>4. QED
    BY <1>3, <1>5, <1>7, <2>1, <2>2, <2>3 DEF Speculation
<1>9. c.index \/ c.fp8 <=> i.sparse \in {"index", "fp8"}
  BY <1>3, <1>5, <1>7
<1>10. c.native > 0 \/ c.connector \notin {"none", "pd"} <=> i.offload \in {"idle", "lmcache", "memcache", "native"}
  <2>1. KeptConnector(r) # "pd"
    BY DEF KeptConnector, MergedConnector, Connector
  <2>2. CASE "offload" \notin Granted(r).smart
    <3>1. KeptConnector(r) = "none"
      BY <2>2 DEF KeptConnector, MergedConnector, Connector
    <3>2. Backend(r, p) = "off"
      BY <1>4, <2>2 DEF Backend
    <3>3. c.native = 0
      BY <1>2, <1>3, <2>2 DEF NativeFlag
    <3>4. QED
      BY <1>5, <1>7, <3>1, <3>2, <3>3
  <2>3. CASE "offload" \in Granted(r).smart /\ NativeOffload(r)
    <3>1. r.engine = "vllm" /\ r.model # "flash" /\ ~Distributed(r) /\ ~KimiMemCache(r) /\ ~Glm51Nvidia(r)
      <4>1. r.engine = "vllm" => r.model \in {"qwen35_nvfp4", "minimax", "glm47_fp8"}
        BY <2>3, OffloadModels
      <4>2. QED
        BY <2>3, <4>1 DEF NativeOffload, KimiMemCache, Ascend, Glm51Nvidia
    <3>2. KeptConnector(r) = "none"
      BY <2>3, <3>1 DEF KeptConnector, MergedConnector, Connector
    <3>3. c.native = NativeGb(r.memory, Width(p))
      BY <1>2, <1>3, <1>6, <2>3, <3>1 DEF NativeFlag
    <3>4. Backend(r, p) = IF NativeGb(r.memory, Width(p)) > 0 THEN "native" ELSE "disabled"
      BY <1>4, <2>3, <3>1 DEF Backend
    <3>5. QED
      BY <1>5, <1>7, <3>2, <3>3, <3>4
  <2>4. CASE "offload" \in Granted(r).smart /\ ~NativeOffload(r)
    <3>1. c.native = 0
      BY <1>2, <2>4 DEF NativeFlag
    <3>2. Backend(r, p) \in {"memcache", "lmcache", "disabled"}
      BY <1>4, <2>4 DEF Backend
    <3>3. Backend(r, p) # "disabled" => KeptConnector(r) # "none"
      BY <1>4, <3>2, RoomForOneWorker
    <3>4. QED
      BY <1>5, <1>7, <2>1, <3>1, <3>2, <3>3
  <2>5. QED
    BY <2>2, <2>3, <2>4
<1>11. QED
  BY <1>5, <1>8, <1>9, <1>10, PlanFeatures, FeaturesOfCommand, SameFeatureSets DEF c, m, i, p

(* The features of the second command of a launch without a role: none, where the first has any *)
LEMMA AgainFeatures ==
    ASSUME NEW r \in Request, NEW n \in Nat, r.engine \in VllmEngines, r.role = "none", ~r.force,
           ~(NativeOffload(r) /\ Distributed(r)),
           CommandOf(r, n, ForSecond(r, n)).kind \notin {"refused", "ray_worker"}
    PROVE  CommandFeatures(CommandOf(r, n, ForSecond(r, n))) = Plan(AsInput(r, AfterPrepare(r, n))).again
<1> DEFINE s == ForSecond(r, n)
<1> DEFINE c == CommandOf(r, n, s)
<1> DEFINE q == Scripted(r, n, s)
<1> DEFINE p == AfterPrepare(r, n)
<1> DEFINE i == AsInput(r, p)
<1>1. s \in LaunchParams
  BY SecondForm
<1>2. SameTraits(EngineCommand(r, q), c) /\ c.native = IF Distributed(r) THEN 0 ELSE NativeFlag(r, q)
  BY <1>1, EngineTraits
<1>3. /\ q \in LaunchParams /\ ~q.features.spec /\ ~q.features.sparse
      /\ q.features.smart = Granted(r).smart /\ (q.plain <=> Drops(r, n)) /\ q.cfg.fp8 = FALSE
      /\ q.cfg.spec = (IF OfRole(r) THEN "mtp" ELSE "none")
      /\ q.cfg.connector = (IF Drops(r, n) THEN "none" ELSE KeptConnector(r))
  BY SecondScripted
<1>4. p \in LaunchParams /\ p.features = Granted(r)
  BY AfterPrepareForm
<1>5. /\ i \in FeatureRequest
      /\ i.speculative <=> Granted(r).spec
      /\ i.offload = (IF Backend(r, p) # "disabled" THEN Backend(r, p)
                      ELSE IF KeptConnector(r) = "none" THEN "none" ELSE "idle")
      /\ i.userOptions # {} <=> Roce(r) \/ OfRole(r)
      /\ Reported(i) = ReportOf(r, p)
  BY InputForm
<1>6. NativeOffload(r) /\ r.model # "flash" /\ ~Distributed(r) => Width(q) = Width(p)
  BY <1>1, NativeWidth
<1>7. Active(i) <=> Advanced(r, p)
  BY <1>5, PlanFeatures DEF Advanced
<1>8. Drops(r, n) <=> Active(i) /\ "offload" \in Granted(r).smart
  BY <1>7 DEF Drops, Offloaded
<1> HIDE DEF s, c, q, p, i
<1>9. /\ c.connector = q.cfg.connector /\ c.strategy = Speculation(r, q) /\ c.fp8 = q.cfg.fp8
      /\ c.index <=> q.features.sparse /\ SparseVariant(r) = "index"
  BY <1>2, <1>3, EngineCommandType DEF SameTraits
<1>10. c.strategy = "none"
  BY <1>3, <1>9 DEF Speculation, OfRole
<1>11. ~c.index /\ ~c.fp8
  BY <1>3, <1>9
<1>12. ~(~Active(i) /\ i.userOptions # {})
  <2>1. i.speculative => Active(i)
    BY DEF Active
  <2>2. QED
    BY <1>5, <2>1 DEF Roce, OfRole
<1>13. "offload" \notin Granted(r).smart => KeptConnector(r) = "none"
  BY DEF KeptConnector, MergedConnector, Connector
<1>14. c.native > 0 \/ c.connector \notin {"none", "pd"} <=> ~Active(i) /\ i.offload = "idle"
  <2>1. CASE Active(i)
    <3>1. c.connector = "none"
      BY <1>3, <1>8, <1>9, <1>13, <2>1
    <3>2. NativeFlag(r, q) = 0
      BY <1>3, <1>8, <2>1 DEF NativeFlag
    <3>3. QED
      BY <1>2, <2>1, <3>1, <3>2
  <2>2. CASE ~Active(i)
    <3>1. c.connector = KeptConnector(r) /\ KeptConnector(r) # "pd" /\ ~q.plain
      <4>1. KeptConnector(r) # "pd"
        BY DEF KeptConnector, MergedConnector, Connector
      <4>2. QED
        BY <1>3, <1>8, <1>9, <2>2, <4>1
    <3>2. Backend(r, p) \in {"off", "disabled"}
      <4>1. Backend(r, p) \in {"off", "disabled", "native", "lmcache", "memcache"}
        BY DEF Backend
      <4>2. i.offload \notin {"native", "lmcache", "memcache"}
        BY <2>2 DEF Active
      <4>3. QED
        BY <1>5, <4>1, <4>2
    <3>3. c.native <= 0
      <4>1. CASE "offload" \notin Granted(r).smart \/ ~NativeOffload(r) \/ Distributed(r)
        BY <1>2, <1>3, <4>1 DEF NativeFlag
      <4>2. CASE "offload" \in Granted(r).smart /\ NativeOffload(r) /\ ~Distributed(r)
        <5>1. r.engine = "vllm" /\ r.model # "flash" /\ ~KimiMemCache(r) /\ ~Glm51Nvidia(r)
          <6>1. r.engine = "vllm" => r.model \in {"qwen35_nvfp4", "minimax", "glm47_fp8"}
            BY <4>2, OffloadModels
          <6>2. QED
            BY <4>2, <6>1 DEF NativeOffload, KimiMemCache, Ascend, Glm51Nvidia
        <5>2. ~(NativeGb(r.memory, Width(p)) > 0)
          BY <1>4, <3>2, <4>2, <5>1 DEF Backend
        <5>3. c.native = NativeGb(r.memory, Width(p))
          BY <1>2, <1>3, <1>6, <3>1, <4>2, <5>1 DEF NativeFlag
        <5>4. c.native \in Nat
          BY <1>2, <1>3, NativeType
        <5>5. QED
          BY <5>2, <5>3, <5>4
      <4>3. QED
        BY <4>1, <4>2
    <3>4. i.offload = "idle" <=> KeptConnector(r) # "none"
      <4>1. Backend(r, p) = "off" => "offload" \notin Granted(r).smart
        BY <1>4 DEF Backend
      <4>2. QED
        BY <1>5, <1>13, <3>2, <4>1
    <3>5. ~(c.native > 0)
      <4>1. c.native \in Nat
        BY <1>2, <1>3, NativeType
      <4>2. QED
        BY <3>3, <4>1
    <3>6. QED
      BY <2>2, <3>1, <3>4, <3>5
  <2>3. QED
    BY <2>1, <2>2
<1>15. /\ "speculative_decode" \notin CommandFeatures(c) /\ "sparse_kv" \notin CommandFeatures(c)
       /\ "kv_offload" \in CommandFeatures(c) <=> ~Active(i) /\ i.offload = "idle"
       /\ CommandFeatures(c) \subseteq Feature
  BY <1>10, <1>11, <1>14, FeaturesOfCommand
<1>16. /\ "speculative_decode" \notin Plan(i).again /\ "sparse_kv" \notin Plan(i).again
       /\ "kv_offload" \in Plan(i).again <=> ~Active(i) /\ i.offload = "idle"
       /\ Plan(i).again \subseteq Feature
  BY <1>5, <1>12, PlanFeatures
<1>17. CommandFeatures(c) = Plan(i).again
  BY <1>15, <1>16, SameFeatureSets
<1>18. QED
  BY <1>17 DEF c, s, i, p

(* The two commands of a role *)
LEMMA RoleFeatures ==
    ASSUME NEW r \in Request, NEW n \in Nat, r.engine \in VllmEngines, r.role # "none"
    PROVE  LET i == AsInput(r, AfterPrepare(r, n))
           IN  /\ CommandFeatures(CommandOf(r, n, ForMain(r, n))) = Plan(i).main
               /\ CommandFeatures(CommandOf(r, n, ForSecond(r, n))) = Plan(i).again
<1> DEFINE p == AfterPrepare(r, n)
<1> DEFINE i == AsInput(r, p)
<1>1. /\ ~Granted(r).spec /\ ~Granted(r).sparse /\ Granted(r).smart = {}
      /\ ~Advanced(r, p) /\ ~Drops(r, n)
  BY RolesPlain DEF Drops
<1>2. p.features = Granted(r)
  BY AfterPrepareForm
<1>3. /\ i \in FeatureRequest
      /\ i.speculative <=> Granted(r).spec
      /\ i.sparse = (IF Granted(r).sparse THEN SparseVariant(r) ELSE "off")
      /\ i.offload = (IF Backend(r, p) # "disabled" THEN Backend(r, p)
                      ELSE IF KeptConnector(r) = "none" THEN "none" ELSE "idle")
      /\ i.userOptions # {} <=> Roce(r) \/ OfRole(r)
      /\ Reported(i) = ReportOf(r, p)
  BY InputForm
<1>4. i.sparse = "off" /\ i.offload = "off" /\ ~i.speculative /\ ~Active(i)
      /\ (i.userOptions # {} <=> OfRole(r))
  BY <1>1, <1>2, <1>3, PlanFeatures DEF Advanced, Backend, Roce
<1>5. KeptConnector(r) \in {"none", "pd"}
  BY DEF KeptConnector, MergedConnector
<1>6. ASSUME NEW x \in LaunchParams,
             LET q == Scripted(r, n, x)
             IN  /\ q.cfg.fp8 = FALSE /\ q.cfg.spec = (IF OfRole(r) THEN "mtp" ELSE "none")
                 /\ q.cfg.connector = KeptConnector(r)
      PROVE  LET c == CommandOf(r, n, x)
             IN  /\ CommandFeatures(c) \subseteq Feature /\ "sparse_kv" \notin CommandFeatures(c)
                 /\ "kv_offload" \notin CommandFeatures(c)
                 /\ "speculative_decode" \in CommandFeatures(c) <=> OfRole(r)
  <2> DEFINE q == Scripted(r, n, x)
  <2> DEFINE c == CommandOf(r, n, x)
  <2>1. q \in LaunchParams
    BY ScriptedType
  <2>2. c = RoleCommand(r, n, q)
    BY DEF CommandOf
  <2>3. q.cfg.fp8 = FALSE /\ q.cfg.spec = (IF OfRole(r) THEN "mtp" ELSE "none") /\ q.cfg.connector = KeptConnector(r)
    BY <1>6
  <2> HIDE DEF q, c
  <2>4. c.connector = q.cfg.connector /\ c.strategy = q.cfg.spec /\ c.fp8 = q.cfg.fp8 /\ ~c.index /\ c.native = 0
    BY <2>1, <2>2, RoleForm
  <2>5. QED
    BY <1>5, <2>3, <2>4, FeaturesOfCommand DEF c
<1> HIDE DEF p, i
<1>7. LET c == CommandOf(r, n, ForMain(r, n))
      IN  /\ CommandFeatures(c) \subseteq Feature /\ "sparse_kv" \notin CommandFeatures(c)
          /\ "kv_offload" \notin CommandFeatures(c)
          /\ "speculative_decode" \in CommandFeatures(c) <=> OfRole(r)
  <2>1. ForMain(r, n) \in LaunchParams
    BY MainForm
  <2>2. LET q == Scripted(r, n, ForMain(r, n))
        IN  /\ q.cfg.fp8 = FALSE /\ q.cfg.spec = (IF OfRole(r) THEN "mtp" ELSE "none")
            /\ q.cfg.connector = KeptConnector(r)
    BY <1>1, MainScripted DEF Roce
  <2>3. QED
    BY <1>6, <2>1, <2>2
<1>8. LET c == CommandOf(r, n, ForSecond(r, n))
      IN  /\ CommandFeatures(c) \subseteq Feature /\ "sparse_kv" \notin CommandFeatures(c)
          /\ "kv_offload" \notin CommandFeatures(c)
          /\ "speculative_decode" \in CommandFeatures(c) <=> OfRole(r)
  <2>1. ForSecond(r, n) \in LaunchParams
    BY SecondForm
  <2>2. LET q == Scripted(r, n, ForSecond(r, n))
        IN  /\ q.cfg.fp8 = FALSE /\ q.cfg.spec = (IF OfRole(r) THEN "mtp" ELSE "none")
            /\ q.cfg.connector = KeptConnector(r)
    BY <1>1, SecondScripted
  <2>3. QED
    BY <1>6, <2>1, <2>2
<1>9. /\ Plan(i).main \subseteq Feature /\ Plan(i).again \subseteq Feature
      /\ "speculative_decode" \in Plan(i).main <=> OfRole(r)
      /\ "speculative_decode" \in Plan(i).again <=> OfRole(r)
      /\ "sparse_kv" \notin Plan(i).main /\ "sparse_kv" \notin Plan(i).again
      /\ "kv_offload" \notin Plan(i).main /\ "kv_offload" \notin Plan(i).again
  BY <1>3, <1>4, PlanFeatures
<1>10. CommandFeatures(CommandOf(r, n, ForMain(r, n))) = Plan(i).main
  BY <1>7, <1>9, SameFeatureSets
<1>11. CommandFeatures(CommandOf(r, n, ForSecond(r, n))) = Plan(i).again
  BY <1>8, <1>9, SameFeatureSets
<1>12. QED
  BY <1>10, <1>11 DEF i, p

(* build_start_script, _write_advanced_features_json, _build_engine_and_monitor_scripts: the two
   commands turn on, and the status file reports, what the summary FeaturePlan makes of the
   launch says, by which the start script's own proofs live.  The merge decides on a connector
   for one worker and the adapter on a back end for all of them: the two agree for every launch
   of vLLM, but for native offloading on several nodes and for CONFIG_FORCE. *)
THEOREM ScriptGetsWhatItExpects == Spec => []AsTheScriptExpects
<1>1. LaunchInv => AsTheScriptExpects
  <2> DEFINE r == request
  <2> SUFFICES ASSUME LaunchInv, NEW n \in Nodes, RunsEngine(n), r.engine \in VllmEngines,
                      ~(NativeOffload(r) /\ Distributed(r)), ~r.force
               PROVE  LET i == AsInput(r, AfterPrepare(r, n))
                      IN  /\ CommandFeatures(plan[n].main) = Plan(i).main
                          /\ CommandFeatures(plan[n].again) = Plan(i).again
                          /\ plan[n].report = Reported(i)
    <3>1. [NoParams EXCEPT !.features = Granted(r), !.cfg = FinalConfig(r, MergedConfig(r, Granted(r).smart))] = AfterMerge(r)
      BY DEF AfterMerge, AfterGate
    <3>2. QED
      BY <3>1 DEF AsTheScriptExpects, AfterPrepare, Granted
  <2>1. /\ n \in Nat /\ r \in Request /\ plan[n].report = ReportOf(r, AfterPrepare(r, n))
        /\ plan[n].again = CommandOf(r, n, ForSecond(r, n)) /\ plan[n].again.kind # "refused"
        /\ plan[n].main = CommandOf(r, n, ForMain(r, n)) /\ plan[n].main.kind \in {"engine", "services"}
    BY PlanMade DEF RunsEngine
  <2> DEFINE i == AsInput(r, AfterPrepare(r, n))
  <2>2. plan[n].report = Reported(i)
    BY <2>1, InputForm
  <2>3. CASE r.role # "none"
    BY <2>1, <2>2, <2>3, RoleFeatures
  <2>4. CASE r.role = "none"
    <3>1. CommandFeatures(plan[n].main) = Plan(i).main
      BY <2>1, <2>4, MainFeatures
    <3>2. CommandOf(r, n, ForSecond(r, n)).kind # "ray_worker"
      <4>1. CASE Distributed(r) /\ ~DpExecutor(r)
        <5> DEFINE q == Scripted(r, n, ForMain(r, n))
        <5> DEFINE q2 == Scripted(r, n, ForSecond(r, n))
        <5>1. plan[n].main = RayCommand(r, n, q) /\ CommandOf(r, n, ForSecond(r, n)) = RayCommand(r, n, q2)
          BY <2>1, <2>4, <4>1 DEF CommandOf
        <5>2. q \in LaunchParams /\ q2 \in LaunchParams
          BY <2>1, MainScripted, SecondScripted
        <5> HIDE DEF q, q2
        <5>3. n = 0
          BY <2>1, <5>1, <5>2, RayForm
        <5>4. QED
          BY <2>1, <5>1, <5>2, <5>3, RayForm
      <4>2. CASE ~Distributed(r)
        <5>1. CommandOf(r, n, ForSecond(r, n)) = SingleCommand(r, Scripted(r, n, ForSecond(r, n)))
          BY <2>4, <4>2 DEF CommandOf
        <5>2. QED
          BY <2>1, <5>1, SingleForm, SecondScripted
      <4>3. CASE Distributed(r) /\ DpExecutor(r)
        <5> DEFINE q == Scripted(r, n, ForSecond(r, n))
        <5>1. CommandOf(r, n, ForSecond(r, n)) = DpCommand(r, n, q)
          BY <2>4, <4>3 DEF CommandOf
        <5>2. q \in LaunchParams
          BY <2>1, SecondScripted
        <5> HIDE DEF q
        <5>3. DpCommand(r, n, q).kind \in {"refused", "engine"}
          BY <2>1, <5>2, DpForm DEF Refusal
        <5>4. QED
          BY <5>1, <5>3
      <4>4. QED
        BY <4>1, <4>2, <4>3
    <3>3. CommandFeatures(plan[n].again) = Plan(i).again
      BY <2>1, <2>4, <3>2, AgainFeatures
    <3>4. QED
      BY <2>2, <3>1, <3>3
  <2>5. QED
    BY <2>3, <2>4
<1>2. QED
  BY <1>1, LaunchInvAlways, PTL
-----------------------------------------------------------------------------
(* Sizes *)

(* The sizes of a launch whose user gives none: what the merge, or an earlier pass of the same *)
(* recipe, may have left, and what the recipe makes of it.                                     *)
FlashTp(r) == IF r.card = "a3" THEN 4 ELSE 8
Glm47(r)   == r.engine \in VllmEngines /\ r.model = "glm47"
DpSized(r) == Ascend(r) /\ DpExecutor(r) /\ r.model \notin {"pro", "flash"}
OwnSizes(r) ==
    FlashAscend(r) \/ FlashPro5000(r) \/ Glm52SingleEven(r) \/ Glm47(r) \/ (Ascend(r) /\ DpExecutor(r))
TopLeft(r, p) == FlashPro5000(r) \/ (p.top.dp = 0 /\ (FlashAscend(r) \/ p.top.tp = 0))

Sizable(r, p) ==
    /\ Glm52SingleEven(r) => (p.cfg.tp = 0 /\ p.cfg.dp = 0) \/ (p.cfg.tp = r.count \div 2 /\ p.cfg.dp = 2)
    /\ DpSized(r) => p.cfg.tp \in {0, DpDefaultTp(r)}
    /\ ~OwnSizes(r) => p.cfg.tp = TotalCards(r) /\ p.cfg.dp = 0
    /\ TopLeft(r, p)

Sized(r, p) ==
    /\ FlashAscend(r) => /\ p.cfg.tp = FlashTp(r) /\ p.top.tp = FlashTp(r)
                         /\ p.cfg.dp = AtLeastOne(TotalCards(r) \div FlashTp(r))
    /\ FlashPro5000(r) => p.cfg.tp = Pro5000Tp(r) /\ p.cfg.dp = r.count \div Pro5000Tp(r)
    /\ Glm52SingleEven(r) => p.cfg.tp = r.count \div 2 /\ p.cfg.dp = 2
    /\ DpSized(r) => p.cfg.tp = DpDefaultTp(r)
    /\ ~OwnSizes(r) => p.cfg.tp = TotalCards(r) /\ p.cfg.dp = 0
    /\ TopLeft(r, p)

LEMMA SizedAgain ==
    ASSUME NEW r, NEW p, Sized(r, p)
    PROVE  Sizable(r, p)
BY DEF Sized, Sizable

LEMMA TopologySized ==
    ASSUME NEW r \in Request, NEW n \in Nat, NEW p \in LaunchParams, Launchers(r), r.role = "none", Sizable(r, p)
    PROVE  Sized(r, Topology(r, n, p))
<1> DEFINE t == Topology(r, n, p)
<1>1. r.tp = 0 /\ r.dp = 0
  BY DEF Launchers
<1>2. CASE FlashAscend(r)
  <2>1. r.model = "flash" /\ ~ProScope(r) /\ ~FlashPro5000(r) /\ ~Glm52SingleEven(r) /\ ~DpSized(r)
    BY <1>2 DEF FlashAscend, Ascend, ProScope, FlashPro5000, Glm52SingleEven, DpSized
  <2>2. t = FlashTopology(r, p)
    BY <2>1, OutOfScope DEF Topology, DpSized
  <2>3. /\ t.cfg.tp = FlashTp(r) /\ t.top.tp = FlashTp(r) /\ t.top.dp = p.top.dp
        /\ t.cfg.dp = AtLeastOne(TotalCards(r) \div FlashTp(r))
    BY <1>1, <1>2, <2>2, FlashSizes DEF FlashTp
  <2> HIDE DEF t
  <2>4. TopLeft(r, t)
    BY <1>2, <2>1, <2>3 DEF Sizable, TopLeft
  <2>5. QED
    BY <1>2, <2>1, <2>3, <2>4 DEF Sized, OwnSizes, t
<1>3. CASE FlashPro5000(r)
  <2>1. r.model = "flash" /\ ~ProScope(r) /\ ~FlashAscend(r) /\ ~Glm52SingleEven(r) /\ ~DpSized(r)
    BY <1>3 DEF FlashAscend, Ascend, ProScope, FlashPro5000, Glm52SingleEven, DpSized
  <2>2. t = Pro5000Topology(r, p)
    BY <2>1, OutOfScope DEF Topology, DpSized
  <2>3. t.cfg.tp = Pro5000Tp(r) /\ t.cfg.dp = r.count \div Pro5000Tp(r)
    BY <1>1, <1>3, <2>2, Pro5000Sizes
  <2> HIDE DEF t
  <2>4. QED
    BY <1>3, <2>1, <2>3 DEF Sized, OwnSizes, TopLeft, t
<1>4. CASE Glm52SingleEven(r)
  <2>1. r.model = "glm52" /\ ~ProScope(r) /\ ~FlashAscend(r) /\ ~FlashPro5000(r) /\ ~DpSized(r) /\ ~DpExecutor(r)
    BY <1>4 DEF FlashAscend, Ascend, ProScope, FlashPro5000, Glm52SingleEven, DpSized, DpExecutor
  <2>2. t = Glm52Topology(r, p)
    BY <2>1, OutOfScope DEF Topology, DpSized
  <2>3. /\ t.top = p.top
        /\ t.cfg.tp = OrElse(p.cfg.tp, r.count \div 2)
        /\ t.cfg.dp = OrElse(p.cfg.dp, 2)
    BY <1>1, <1>4, <2>2, Glm52Sizes
  <2>4. (p.cfg.tp = 0 /\ p.cfg.dp = 0) \/ (p.cfg.tp = r.count \div 2 /\ p.cfg.dp = 2)
    BY <1>4 DEF Sizable
  <2> HIDE DEF t
  <2>5. t.cfg.tp = r.count \div 2 /\ t.cfg.dp = 2
    BY <2>3, <2>4 DEF OrElse
  <2>6. TopLeft(r, t)
    BY <2>3 DEF Sizable, TopLeft
  <2>7. QED
    BY <1>4, <2>1, <2>5, <2>6 DEF Sized, OwnSizes, t
<1>5. CASE DpSized(r)
  <2>1. ~ProScope(r) /\ ~FlashAscend(r) /\ ~FlashPro5000(r) /\ ~Glm52SingleEven(r) /\ Ascend(r) /\ DpExecutor(r)
    BY <1>5 DEF FlashAscend, Ascend, ProScope, FlashPro5000, Glm52SingleEven, DpSized, DpExecutor
  <2>2. t = DpTopology(r, p)
    BY <2>1, OutOfScope DEF Topology, DpSized
  <2>3. t.top = p.top /\ t.cfg.tp = OrElse(DpDefaultTp(r), p.cfg.tp)
    BY <1>1, <1>5, <2>1, <2>2, DpSizes DEF DpSized
  <2>4. p.cfg.tp \in {0, DpDefaultTp(r)}
    BY <1>5 DEF Sizable
  <2> HIDE DEF t
  <2>5. t.cfg.tp = DpDefaultTp(r)
    BY <2>3, <2>4 DEF OrElse
  <2>6. TopLeft(r, t)
    BY <2>3 DEF Sizable, TopLeft
  <2>7. QED
    BY <1>5, <2>1, <2>5, <2>6 DEF Sized, OwnSizes, t
<1>6. CASE ProScope(r)
  <2>1. r.model = "pro" /\ Ascend(r) /\ DpExecutor(r) /\ ~FlashAscend(r) /\ ~FlashPro5000(r) /\ ~Glm52SingleEven(r) /\ ~DpSized(r)
    BY <1>6 DEF FlashAscend, Ascend, ProScope, FlashPro5000, Glm52SingleEven, DpSized, DpExecutor, Distributed, VllmEngines,
                Arch, Architecture
  <2>2. t = ProTopology(r, n, p)
    BY <2>1, OutOfScope DEF Topology, DpSized
  <2>3. t.top = p.top
    BY <1>6, <2>2, ProSizes
  <2> HIDE DEF t
  <2>4. TopLeft(r, t)
    BY <2>3 DEF Sizable, TopLeft
  <2>5. QED
    BY <2>1, <2>4 DEF Sized, OwnSizes, t
<1>7. CASE ~FlashAscend(r) /\ ~FlashPro5000(r) /\ ~Glm52SingleEven(r) /\ ~DpSized(r) /\ ~ProScope(r)
  <2>1. t = p
    BY <1>7, NoRecipe DEF DpSized
  <2>2. QED
    BY <1>7, <2>1 DEF Sized, Sizable
<1>8. QED
  BY <1>2, <1>3, <1>4, <1>5, <1>6, <1>7

(* What does not touch the sizes leaves them sizable. *)
LEMMA SameSizes ==
    ASSUME NEW r, NEW p, NEW q, q.cfg.tp = p.cfg.tp, q.cfg.dp = p.cfg.dp, q.top = p.top
    PROVE  /\ Sizable(r, p) => Sizable(r, q)
           /\ Sized(r, p) => Sized(r, q)
BY DEF Sizable, Sized, TopLeft

LEMMA PreparedSized ==
    ASSUME NEW r \in Request, NEW n \in Nat, NEW p \in LaunchParams, Launchers(r), r.role = "none", r.engine \in VllmEngines,
           Sizable(r, p)
    PROVE  Sized(r, Prepared(r, n, p))
<1> DEFINE q == Prepared(r, n, p)
<1> DEFINE t == Topology(r, n, p)
<1>1. q.top = t.top /\ q.cfg.tp = t.cfg.tp /\ q.cfg.dp = t.cfg.dp
  BY PreparedForm
<1>2. Sized(r, t)
  BY TopologySized
<1> HIDE DEF q, t
<1>3. Sized(r, q)
  BY <1>1, <1>2, SameSizes
<1>4. QED
  BY <1>3 DEF q

LEMMA ScriptedSized ==
    ASSUME NEW r \in Request, NEW n \in Nat, NEW p \in LaunchParams, Launchers(r), r.role = "none", r.engine \in VllmEngines,
           Sizable(r, p)
    PROVE  LET q == Scripted(r, n, p)
           IN  Sized(r, q) /\ (Glm47(r) => q.cfg.tp = 8 /\ q.cfg.dp = 2)
<1> DEFINE s == SparseApplied(r, p)
<1> DEFINE j == Injected(r, p)
<1> DEFINE t == Topology(r, n, j)
<1> DEFINE q == Scripted(r, n, p)
<1>1. s \in LaunchParams /\ s.top = p.top /\ s.cfg.tp = p.cfg.tp /\ s.cfg.dp = p.cfg.dp
  BY SparseForm
<1>2. q.top = t.top /\ q.cfg.tp = t.cfg.tp /\ q.cfg.dp = t.cfg.dp
  BY ScriptedForm
<1>3. Sizable(r, s)
  <2> HIDE DEF s
  <2>1. QED
    BY <1>1, SameSizes
<1>4. j = Glm47Injected(r, s)
  BY DEF Injected
<1> HIDE DEF s
<1>5. CASE Glm47(r)
  <2>1. r.tp = 0 /\ r.dp = 0
    BY DEF Launchers
  <2>2. j \in LaunchParams /\ j.top = s.top /\ j.cfg.tp = 8 /\ j.cfg.dp = 2
    BY <1>1, <1>4, <1>5, <2>1, Glm47Sizes DEF Glm47, Resized
  <2> HIDE DEF j
  <2>3. /\ ~FlashAscend(r) /\ ~FlashPro5000(r) /\ ~Glm52SingleEven(r) /\ ~ProScope(r)
        /\ ~(Ascend(r) /\ DpExecutor(r))
    BY <1>5 DEF Glm47, FlashAscend, FlashPro5000, Glm52SingleEven, ProScope, DpExecutor, Arch, Architecture
  <2>4. t = j
    BY <2>3, NoRecipe
  <2>5. Sizable(r, j)
    BY <1>3, <1>5, <2>2, <2>3 DEF Sizable, OwnSizes, DpSized, TopLeft
  <2>6. Sized(r, t)
    BY <2>2, <2>5, TopologySized
  <2> HIDE DEF t, q
  <2>7. Sized(r, q)
    BY <1>2, <2>6, SameSizes
  <2>8. QED
    BY <1>2, <2>2, <2>4, <2>7 DEF q
<1>6. CASE ~Glm47(r)
  <2>1. j = s
    BY <1>4, <1>6 DEF Glm47, Glm47Injected
  <2>2. Sized(r, t)
    BY <1>1, <1>3, <2>1, TopologySized
  <2> HIDE DEF t, q
  <2>3. Sized(r, q)
    BY <1>2, <2>2, SameSizes
  <2>4. QED
    BY <1>6, <2>3 DEF q
<1>7. QED
  BY <1>5, <1>6

(* The parameters of both commands keep within the recipe. *)
LEMMA BothSized ==
    ASSUME NEW r \in Request, NEW n \in Nat, Launchers(r), r.role = "none", r.engine \in VllmEngines
    PROVE  LET a == Scripted(r, n, ForSecond(r, n))
               m == Scripted(r, n, ForMain(r, n))
           IN  /\ Sized(r, a) /\ (Glm47(r) => a.cfg.tp = 8 /\ a.cfg.dp = 2)
               /\ Sized(r, m) /\ (Glm47(r) => m.cfg.tp = 8 /\ m.cfg.dp = 2)
<1> DEFINE g == AfterMerge(r)
<1> DEFINE p == AfterPrepare(r, n)
<1> DEFINE s == ForSecond(r, n)
<1> DEFINE a == Scripted(r, n, s)
<1> DEFINE f == ForMain(r, n)
<1>1. g \in LaunchParams /\ g.top = [tp |-> 0, dp |-> 0] /\ g.cfg = FinalConfig(r, MergedConfig(r, Granted(r).smart))
  BY AfterMergeForm
<1>2. Sizable(r, g)
  <2> DEFINE recipe == Ascend(r) /\ r.model = "pro" /\ Distributed(r)
  <2>1. /\ g.cfg.dp = (IF recipe THEN 2 ELSE 0)
        /\ g.cfg.tp = (IF recipe THEN 16 ELSE IF LeavesParallelismToAdapter(r) THEN 0 ELSE TotalCards(r))
    BY <1>1, MergedSizes
  <2>2. recipe => Ascend(r) /\ DpExecutor(r) /\ ~Glm52SingleEven(r) /\ ~DpSized(r)
    BY DEF DpExecutor, Arch, Architecture, Glm52SingleEven, DpSized
  <2>3. g.top.tp = 0 /\ g.top.dp = 0
    BY <1>1
  <2> HIDE DEF g, recipe
  <2>4. Glm52SingleEven(r) => g.cfg.tp = 0 /\ g.cfg.dp = 0
    BY <2>1, <2>2 DEF LeavesParallelismToAdapter
  <2>5. DpSized(r) => g.cfg.tp = 0
    BY <2>1, <2>2 DEF LeavesParallelismToAdapter, DpSized
  <2>6. ~OwnSizes(r) => g.cfg.tp = TotalCards(r) /\ g.cfg.dp = 0
    BY <2>1, <2>2 DEF LeavesParallelismToAdapter, OwnSizes
  <2>7. TopLeft(r, g)
    BY <2>3 DEF TopLeft
  <2>8. QED
    BY <2>4, <2>5, <2>6, <2>7 DEF Sizable
<1>3. p \in LaunchParams
  BY AfterPrepareForm
<1>4. Sizable(r, p)
  <2>1. p = Prepared(r, n, g)
    BY DEF AfterPrepare
  <2> HIDE DEF g
  <2>2. Sized(r, p)
    BY <1>1, <1>2, <2>1, PreparedSized
  <2>3. QED
    BY <2>2, SizedAgain
<1>5. s \in LaunchParams /\ s.cfg.tp = p.cfg.tp /\ s.cfg.dp = p.cfg.dp /\ s.top = p.top
  BY SecondForm
<1>6. f \in LaunchParams /\ f.top = p.top /\ f.cfg \in {p.cfg, a.cfg}
  BY MainForm
<1> HIDE DEF p, s, f
<1>7. Sizable(r, s)
  BY <1>4, <1>5, SameSizes
<1>8. Sized(r, a) /\ (Glm47(r) => a.cfg.tp = 8 /\ a.cfg.dp = 2)
  BY <1>5, <1>7, ScriptedSized
<1> HIDE DEF a
<1>9. Sizable(r, f)
  <2>1. CASE f.cfg = p.cfg
    BY <1>4, <1>6, <2>1, SameSizes
  <2>2. CASE f.cfg = a.cfg
    <3>1. Sizable(r, a) /\ TopLeft(r, p)
      BY <1>4, <1>8, SizedAgain DEF Sizable
    <3>2. TopLeft(r, f)
      BY <1>6, <3>1 DEF TopLeft
    <3>3. QED
      BY <2>2, <3>1, <3>2 DEF Sizable
  <2>3. QED
    BY <1>6, <2>1, <2>2
<1>10. LET m == Scripted(r, n, f) IN Sized(r, m) /\ (Glm47(r) => m.cfg.tp = 8 /\ m.cfg.dp = 2)
  BY <1>6, <1>9, ScriptedSized
<1>11. QED
  BY <1>8, <1>10 DEF a, s, f

(* A node's ranks are as many as its cards have room for. *)
LEMMA DpFits ==
    ASSUME NEW r \in Request, NEW n \in Nat, NEW q \in LaunchParams, DpExecutor(r), r.role = "none"
    PROVE  LET c == DpCommand(r, n, q)
           IN  c.tp * c.local <= r.count
<1> DEFINE c == DpCommand(r, n, q)
<1>1. r.count \in Nat /\ Ascend(r) /\ q.cfg.tp \in Nat /\ DpDefaultTp(r) \in Nat
  BY RequestForm, ParamsTypes, DpDefaultNat DEF DpExecutor
<1>2. CASE DpRefused(r, q)
  <2>1. c.tp = 0 /\ c.local = 0
    BY <1>2, DpForm DEF Refusal
  <2> HIDE DEF c
  <2>2. QED
    BY <1>1, <2>1 DEF c
<1>3. CASE ~DpRefused(r, q)
  <2> DEFINE k == DpTp(r, q)
  <2>1. c.tp = OrElse(q.cfg.tp, 1) /\ c.local = r.count \div k
    BY <1>1, <1>3, DpForm, EngineCommandType DEF DpLocal
  <2>2. k \in Nat /\ k # 0
    BY <1>1, <1>3, OrElseNat DEF DpRefused, DpTp
  <2>3. q.cfg.tp # 0 => k = q.cfg.tp
    BY DEF DpTp, OrElse
  <2> HIDE DEF c, k
  <2>4. r.count \div k \in Nat /\ k * (r.count \div k) <= r.count
    BY <1>1, <2>2, Quotient
  <2>5. r.count \div k <= k * (r.count \div k)
    <3> DEFINE d == r.count \div k
    <3>1. d \in Nat
      BY <2>4
    <3> HIDE DEF d
    <3>2. d <= k * d
      BY <2>2, <3>1
    <3>3. QED
      BY <3>2 DEF d
  <2>6. CASE q.cfg.tp # 0
    BY <1>1, <2>1, <2>3, <2>4, <2>6 DEF OrElse, c
  <2>7. CASE q.cfg.tp = 0
    <3>1. c.tp = 1
      BY <2>1, <2>7 DEF OrElse
    <3>2. c.tp * c.local = r.count \div k
      BY <2>1, <2>4, <3>1
    <3>3. c.tp * c.local <= r.count
      BY <1>1, <2>2, <2>4, <2>5, <3>2
    <3>4. QED
      BY <3>3 DEF c
  <2>8. QED
    BY <2>6, <2>7
<1>4. QED
  BY <1>2, <1>3

(* The widths of the recipes *)
LEMMA RecipeFits ==
    ASSUME NEW r \in Request, NEW q \in LaunchParams, r.role = "none", r.engine \in VllmEngines, ~DpExecutor(r),
           Sized(r, q), Glm47(r) => q.cfg.tp = 8 /\ q.cfg.dp = 2, TotalCards(r) >= RecipeCards(r)
    PROVE  /\ OrElse(q.cfg.tp, 1) * OrElse(q.cfg.dp, 1) <= TotalCards(r)
           /\ Arch(r) \in {"Qwen3_5Moe", "MiniMaxM2"} => OrElse(q.cfg.dp, 1) = 1 /\ OrElse(q.cfg.tp, 1) = TotalCards(r)
<1>1. r.count \in Nat \ {0} /\ r.nodes \in Nat \ {0} /\ TotalCards(r) = r.count * r.nodes /\ TotalCards(r) \in Nat \ {0}
      /\ r.count <= TotalCards(r)
  <2>1. r.count \in Nat \ {0} /\ r.nodes \in Nat \ {0} /\ TotalCards(r) = r.count * r.nodes /\ TotalCards(r) \in Nat \ {0}
    BY RequestForm DEF TotalCards
  <2>2. r.count * 1 <= r.count * r.nodes
    BY <2>1
  <2>3. QED
    BY <2>1, <2>2
<1>2. CASE FlashAscend(r)
  <2> DEFINE w == FlashTp(r)
  <2> DEFINE d == TotalCards(r) \div w
  <2>1. w \in Nat /\ w # 0 /\ RecipeCards(r) = w
    BY <1>2 DEF FlashTp, RecipeCards, FlashAscend
  <2>2. q.cfg.tp = w /\ q.cfg.dp = AtLeastOne(d)
    BY <1>2 DEF Sized
  <2>3. Arch(r) = "DeepseekV4"
    BY <1>2 DEF FlashAscend, Arch, Architecture
  <2> HIDE DEF w
  <2>4. d \in Nat /\ w * d <= TotalCards(r)
    BY <1>1, <2>1, Quotient
  <2>5. d >= 1
    BY <1>1, <2>1
  <2> HIDE DEF d
  <2>6. q.cfg.dp = d
    BY <2>2, <2>4, <2>5 DEF AtLeastOne
  <2>7. QED
    BY <2>1, <2>2, <2>3, <2>4, <2>5, <2>6 DEF OrElse
<1>3. CASE FlashPro5000(r)
  <2> DEFINE w == Pro5000Tp(r)
  <2> DEFINE d == r.count \div w
  <2>1. w \in Nat /\ w # 0
    BY <1>1 DEF Pro5000Tp
  <2>2. q.cfg.tp = w /\ q.cfg.dp = d
    BY <1>3 DEF Sized
  <2>3. Arch(r) = "DeepseekV4"
    BY <1>3 DEF FlashPro5000, Arch, Architecture
  <2>4. w <= r.count
    BY <1>1 DEF Pro5000Tp
  <2> HIDE DEF w
  <2>5. d \in Nat /\ w * d <= r.count /\ d >= 1
    BY <1>1, <2>1, <2>4, Quotient
  <2> HIDE DEF d
  <2>6. OrElse(q.cfg.tp, 1) = w /\ OrElse(q.cfg.dp, 1) = d
    BY <2>1, <2>2, <2>5 DEF OrElse
  <2>7. w * d \in Nat
    BY <2>1, <2>5
  <2>8. QED
    BY <1>1, <2>3, <2>5, <2>6, <2>7
<1>4. CASE Glm52SingleEven(r)
  <2>1. q.cfg.tp = r.count \div 2 /\ q.cfg.dp = 2
    BY <1>4 DEF Sized
  <2>2. Arch(r) = "GlmMoeDsa"
    BY <1>4 DEF Glm52SingleEven, Arch, Architecture
  <2>3. r.count % 2 = 0
    BY <1>4 DEF Glm52SingleEven
  <2>4. r.count \div 2 \in Nat /\ r.count \div 2 >= 1 /\ (r.count \div 2) * 2 <= r.count
    BY <1>1, <2>3
  <2>5. OrElse(q.cfg.tp, 1) = r.count \div 2 /\ OrElse(q.cfg.dp, 1) = 2
    BY <2>1, <2>4 DEF OrElse
  <2>6. QED
    BY <1>1, <2>2, <2>4, <2>5
<1>5. CASE Glm47(r)
  <2>1. RecipeCards(r) = 16 /\ Arch(r) = "Glm4Moe"
    BY <1>5 DEF Glm47, RecipeCards, FlashAscend, Arch, Architecture
  <2>2. OrElse(q.cfg.tp, 1) = 8 /\ OrElse(q.cfg.dp, 1) = 2
    BY <1>5 DEF OrElse
  <2>3. QED
    BY <1>1, <2>1, <2>2
<1>6. CASE ~FlashAscend(r) /\ ~FlashPro5000(r) /\ ~Glm52SingleEven(r) /\ ~Glm47(r)
  <2>1. q.cfg.tp = TotalCards(r) /\ q.cfg.dp = 0
    BY <1>6 DEF Sized, OwnSizes
  <2>2. OrElse(q.cfg.tp, 1) = TotalCards(r) /\ OrElse(q.cfg.dp, 1) = 1
    BY <1>1, <2>1 DEF OrElse
  <2>3. QED
    BY <1>1, <2>2
<1>7. QED
  BY <1>2, <1>3, <1>4, <1>5, <1>6

(* A command the engine's adapter makes of sizes that fit *)
LEMMA CommandFits ==
    ASSUME NEW r \in Request, NEW n \in Nat, NEW x \in LaunchParams, r.role = "none", r.engine \in VllmEngines,
           LET q == Scripted(r, n, x) IN Sized(r, q) /\ (Glm47(r) => q.cfg.tp = 8 /\ q.cfg.dp = 2),
           TotalCards(r) >= RecipeCards(r)
    PROVE  CardsOf(r, CommandOf(r, n, x)) <= CardsFor(r)
<1> DEFINE q == Scripted(r, n, x)
<1> DEFINE c == CommandOf(r, n, x)
<1> DEFINE e == EngineCommand(r, q)
<1>1. q \in LaunchParams /\ Sized(r, q) /\ (Glm47(r) => q.cfg.tp = 8 /\ q.cfg.dp = 2)
  BY ScriptedType
<1>2. RanksAreSpread(r) <=> DpExecutor(r)
  BY DEF RanksAreSpread
<1>3. CASE DpExecutor(r)
  <2>1. c = DpCommand(r, n, q)
    BY <1>3 DEF CommandOf, DpExecutor
  <2> HIDE DEF q, c
  <2>2. c.tp * c.local <= r.count
    BY <1>1, <1>3, <2>1, DpFits
  <2>3. QED
    BY <1>2, <1>3, <2>2 DEF CardsOf, CardsFor, c
<1>4. CASE ~DpExecutor(r)
  <2>1. c = (IF Distributed(r) THEN RayCommand(r, n, q) ELSE SingleCommand(r, q))
    BY <1>4 DEF CommandOf
  <2>2. r.count \in Nat /\ r.nodes \in Nat /\ TotalCards(r) = r.count * r.nodes /\ TotalCards(r) \in Nat
    BY RequestForm DEF TotalCards
  <2>3. /\ OrElse(q.cfg.tp, 1) * OrElse(q.cfg.dp, 1) <= TotalCards(r)
        /\ Arch(r) \in {"Qwen3_5Moe", "MiniMaxM2"} => OrElse(q.cfg.dp, 1) = 1
    BY <1>1, <1>4, RecipeFits
  <2>4. OrElse(q.cfg.tp, 1) \in Nat /\ OrElse(q.cfg.dp, 1) \in Nat
    BY <1>1, ParamsTypes, OrElseNat
  <2> HIDE DEF q, c
  <2>5. e.tp = OrElse(q.cfg.tp, 1) /\ e.dp = OrElse(q.cfg.dp, 1)
    BY <1>1, EngineCommandType
  <2> HIDE DEF e
  <2>6. c.tp * c.pp * c.dp <= TotalCards(r)
    <3>1. CASE ~Distributed(r)
      <4>1. c.tp = e.tp /\ c.pp = 1 /\ c.dp = e.dp
        BY <1>1, <2>1, <3>1, SingleForm DEF e
      <4>2. QED
        BY <2>3, <2>4, <2>5, <4>1
    <3>2. CASE Distributed(r) /\ n > 0
      <4>1. c.tp = 0 /\ c.dp = 0 /\ c \in Command
        BY <1>1, <2>1, <3>2, RayForm
      <4>2. c.pp \in Nat
        BY <4>1 DEF Command
      <4>3. QED
        BY <2>2, <4>1, <4>2
    <3>3. CASE Distributed(r) /\ n = 0
      <4>1. /\ c.dp = e.dp
            /\ IF Arch(r) \in {"Qwen3_5Moe", "MiniMaxM2"} THEN c.pp = r.nodes /\ c.tp = r.count
               ELSE c.pp = 1 /\ c.tp = e.tp
        BY <1>1, <2>1, <3>3, RayForm DEF e
      <4>2. CASE Arch(r) \in {"Qwen3_5Moe", "MiniMaxM2"}
        BY <2>2, <2>3, <2>5, <4>1, <4>2
      <4>3. CASE Arch(r) \notin {"Qwen3_5Moe", "MiniMaxM2"}
        BY <2>3, <2>4, <2>5, <4>1, <4>3
      <4>4. QED
        BY <4>2, <4>3
    <3>4. QED
      BY <3>1, <3>2, <3>3
  <2>7. QED
    BY <1>2, <1>4, <2>6 DEF CardsOf, CardsFor, c
<1>5. QED
  BY <1>3, <1>4

(* The engines that are not vLLM get all the cards. *)
LEMMA OthersFit ==
    ASSUME NEW r \in Request, NEW n \in Nat, r.role = "none", r.engine \notin VllmEngines, Launchers(r)
    PROVE  /\ CardsOf(r, CommandOf(r, n, ForMain(r, n))) <= CardsFor(r)
           /\ CardsOf(r, CommandOf(r, n, ForSecond(r, n))) <= CardsFor(r)
<1> DEFINE g == AfterMerge(r)
<1>1. g \in LaunchParams /\ g.cfg = FinalConfig(r, MergedConfig(r, Granted(r).smart))
  BY AfterMergeForm
<1>2. g.cfg.tp = TotalCards(r) /\ g.cfg.dp = 0
  <2>1. ~Ascend(r) /\ ~LeavesParallelismToAdapter(r)
    BY DEF LeavesParallelismToAdapter, Ascend, VllmEngines, Glm52SingleEven, FlashPro5000, FlashAscend
  <2> HIDE DEF g
  <2>2. QED
    BY <1>1, <2>1, MergedSizes
<1>3. AfterPrepare(r, n) = g /\ ForMain(r, n) = g
  BY DEF AfterPrepare, Prepared, ForMain
<1>4. LET s == ForSecond(r, n) IN s \in LaunchParams /\ s.cfg.tp = g.cfg.tp /\ s.cfg.dp = g.cfg.dp
  <2>1. ForSecond(r, n) = IF Advanced(r, g) THEN WithoutFeatures(g, Offloaded(r)) ELSE g
    BY <1>3 DEF ForSecond, SecondParams
  <2>2. Offloaded(r) \in BOOLEAN
    BY DEF Offloaded
  <2> HIDE DEF g
  <2>3. LET s == WithoutFeatures(g, Offloaded(r)) IN s \in LaunchParams /\ s.cfg.tp = g.cfg.tp /\ s.cfg.dp = g.cfg.dp
    BY <1>1, <2>2, WithoutForm
  <2>4. QED
    BY <1>1, <2>1, <2>3
<1> HIDE DEF g
<1>5. ASSUME NEW x \in LaunchParams, x.cfg.tp = TotalCards(r), x.cfg.dp = 0
      PROVE  CardsOf(r, CommandOf(r, n, x)) <= CardsFor(r)
  <2> DEFINE c == CommandOf(r, n, x)
  <2>1. c = EngineCommand(r, x)
    BY DEF CommandOf
  <2>2. TotalCards(r) \in Nat \ {0}
    BY RequestForm
  <2> HIDE DEF c
  <2>3. c.tp = TotalCards(r) /\ c.pp = 1 /\ c.dp = 1
    BY <1>5, <2>1, <2>2, EngineCommandType DEF OrElse
  <2>4. ~RanksAreSpread(r)
    BY DEF RanksAreSpread
  <2>5. QED
    BY <2>2, <2>3, <2>4 DEF CardsOf, CardsFor, c
<1>6. QED
  BY <1>1, <1>2, <1>3, <1>4, <1>5

(* The recipes of _prepare_engine_config over the number of cards of _adjust_tensor_parallelism:
   where the user gives no size, outside the PD roles, and with the cards the recipe is for,
   neither command of a node takes more cards than there are, however many passes over the parameters came before it. *)
THEOREM CommandsAlwaysFit == Spec => []FitsCards
<1>1. LaunchInv => FitsCards
  <2> DEFINE r == request
  <2> SUFFICES ASSUME LaunchInv, NEW n \in Nodes, RunsEngine(n), Launchers(r), r.role = "none",
                      TotalCards(r) >= RecipeCards(r)
               PROVE  /\ CardsOf(r, plan[n].main) <= CardsFor(r)
                      /\ CardsOf(r, plan[n].again) <= CardsFor(r)
    BY DEF FitsCards
  <2>1. /\ n \in Nat /\ r \in Request
        /\ plan[n].again = CommandOf(r, n, ForSecond(r, n)) /\ plan[n].main = CommandOf(r, n, ForMain(r, n))
    BY PlanMade DEF RunsEngine
  <2>2. CASE r.engine \notin VllmEngines
    BY <2>1, <2>2, OthersFit
  <2>3. CASE r.engine \in VllmEngines
    <3>1. ForMain(r, n) \in LaunchParams /\ ForSecond(r, n) \in LaunchParams
      BY <2>1, <2>3, MainForm, SecondForm
    <3>2. LET a == Scripted(r, n, ForSecond(r, n))
              m == Scripted(r, n, ForMain(r, n))
          IN  /\ Sized(r, a) /\ (Glm47(r) => a.cfg.tp = 8 /\ a.cfg.dp = 2)
              /\ Sized(r, m) /\ (Glm47(r) => m.cfg.tp = 8 /\ m.cfg.dp = 2)
      BY <2>1, <2>3, BothSized
    <3>3. QED
      BY <2>1, <2>3, <3>1, <3>2, CommandFits
  <2>4. QED
    BY <2>2, <2>3
<1>2. QED
  BY <1>1, LaunchInvAlways, PTL
-----------------------------------------------------------------------------
(* Memory *)

(* The width memory is reckoned with is the one of a rank times the ranks of the configuration. *)
LEMMA WidthOfSizes ==
    ASSUME NEW r \in Request, NEW q \in LaunchParams, Sized(r, q), ~FlashPro5000(r)
    PROVE  Width(q) = OrElse(q.cfg.tp, 1) * OrElse(q.cfg.dp, 1)
<1>1. q.top.dp = 0
  BY DEF Sized, TopLeft
<1>2. q.top.tp = 0 \/ (FlashAscend(r) /\ q.top.tp = q.cfg.tp)
  BY DEF Sized, TopLeft
<1>3. OrElse(q.top.dp, q.cfg.dp) = q.cfg.dp /\ OrElse(q.top.tp, q.cfg.tp) = q.cfg.tp
  BY <1>1, <1>2 DEF OrElse
<1>4. QED
  BY <1>3 DEF Width

(* The workers of a command on one node are no more than the width of the whole command. *)
LEMMA WorkersInWidth ==
    ASSUME NEW r \in Request, NEW n \in Nat, NEW x \in LaunchParams, r.role = "none", r.engine \in VllmEngines,
           "offload" \in Granted(r).smart, ~KimiMemCache(r), Sized(r, Scripted(r, n, x)),
           CommandOf(r, n, x).kind = "engine"
    PROVE  LocalWorkers(r, CommandOf(r, n, x)) <= Width(Scripted(r, n, x))
<1> DEFINE q == Scripted(r, n, x)
<1> DEFINE c == CommandOf(r, n, x)
<1> DEFINE e == EngineCommand(r, q)
<1> DEFINE a == OrElse(q.cfg.tp, 1)
<1> DEFINE b == OrElse(q.cfg.dp, 1)
<1>1. q \in LaunchParams /\ Sized(r, q) /\ c.kind = "engine"
  BY ScriptedType
<1>2. /\ Ascend(r) => r.model \in {"glm47", "minimax", "flash", "v32", "kimi"}
      /\ r.engine = "vllm" => r.model \in {"qwen35_nvfp4", "minimax", "glm47_fp8"}
  BY OffloadModels
<1>3. ~FlashPro5000(r)
  BY <1>2 DEF FlashPro5000
<1>4. r.count \in Nat \ {0} /\ r.nodes \in Nat \ {0} /\ TotalCards(r) = r.count * r.nodes /\ TotalCards(r) \in Nat \ {0}
      /\ r.count <= TotalCards(r)
  <2>1. r.count \in Nat \ {0} /\ r.nodes \in Nat \ {0} /\ TotalCards(r) = r.count * r.nodes /\ TotalCards(r) \in Nat \ {0}
    BY RequestForm DEF TotalCards
  <2>2. r.count * 1 <= r.count * r.nodes
    BY <2>1
  <2>3. QED
    BY <2>1, <2>2
<1>5. RanksAreSpread(r) <=> DpExecutor(r)
  BY DEF RanksAreSpread
<1>6. CASE DpExecutor(r)
  <2>1. c = DpCommand(r, n, q) /\ Ascend(r)
    BY <1>6 DEF CommandOf, DpExecutor
  <2> HIDE DEF q, c
  <2>2. ~DpRefused(r, q)
    BY <1>1, <2>1, DpForm DEF Refusal
  <2> DEFINE k == DpTp(r, q)
  <2>3. c.tp = a /\ c.local = r.count \div k /\ k # 0
    BY <1>1, <2>1, <2>2, DpForm, EngineCommandType DEF DpLocal, DpRefused
  <2>4. Width(q) = a * b /\ a \in Nat /\ b \in Nat /\ b # 0
    <3>1. q.cfg.tp \in Nat /\ q.cfg.dp \in Nat
      BY <1>1, ParamsTypes
    <3>2. a \in Nat /\ b \in Nat /\ b # 0
      BY <3>1 DEF OrElse
    <3>3. QED
      BY <1>1, <1>3, <3>2, WidthOfSizes
  <2>5. r.model \in {"flash", "v32"}
    BY <1>2, <1>6, <2>1 DEF KimiMemCache, DpExecutor, Arch, Architecture
  <2>6. CASE r.model = "flash"
    <3> DEFINE w == FlashTp(r)
    <3>1. w \in {4, 8}
      BY DEF FlashTp
    <3>2. q.cfg.tp = w /\ q.cfg.dp = AtLeastOne(TotalCards(r) \div w)
      BY <1>1, <2>1, <2>6 DEF Sized, FlashAscend
    <3> HIDE DEF w
    <3>3. a = w /\ k = w
      BY <3>1, <3>2 DEF OrElse, DpTp
    <3>4. b >= TotalCards(r) \div w
      BY <1>4, <3>1, <3>2 DEF OrElse, AtLeastOne
    <3> HIDE DEF a, b, k
    <3>5. TotalCards(r) \div w >= r.count \div w /\ r.count \div w \in Nat
      BY <1>4, <3>1
    <3>6. b >= r.count \div w
      <4>1. TotalCards(r) \div w \in Nat
        BY <1>4, <3>1
      <4>2. QED
        BY <2>4, <3>4, <3>5, <4>1
    <3>7. w * (r.count \div w) <= w * b
      BY <2>4, <3>1, <3>5, <3>6
    <3>8. c.tp * c.local <= Width(q)
      BY <2>3, <2>4, <3>3, <3>7
    <3>9. QED
      BY <1>5, <1>6, <3>8 DEF LocalWorkers, c, q
  <2>7. CASE r.model = "v32"
    <3>1. q.cfg.tp = DpDefaultTp(r)
      BY <1>1, <1>6, <2>1, <2>7 DEF Sized, DpSized
    <3>2. DpDefaultTp(r) \in {0, r.count}
      BY <2>7 DEF DpDefaultTp, Arch, Architecture
    <3>3. q.cfg.tp = r.count
      BY <2>3, <3>1, <3>2 DEF DpTp, OrElse
    <3>4. a = r.count /\ k = r.count
      BY <1>4, <3>3 DEF OrElse, DpTp
    <3> HIDE DEF a, b, k
    <3>5. r.count * (r.count \div r.count) <= r.count
      BY <1>4, Quotient
    <3>6. r.count <= r.count * b
      BY <1>4, <2>4
    <3>7. r.count \div r.count \in Nat
      BY <1>4, Quotient
    <3>8. c.tp * c.local <= Width(q)
      <4> DEFINE d == r.count \div r.count
      <4>1. c.tp * c.local = r.count * d /\ Width(q) = r.count * b
        BY <2>3, <2>4, <3>4
      <4>2. r.count * d <= r.count /\ r.count * d \in Nat /\ r.count * b \in Nat
        BY <1>4, <2>4, <3>5, <3>7
      <4> HIDE DEF d
      <4>3. QED
        BY <1>4, <3>6, <4>1, <4>2
    <3>9. QED
      BY <1>5, <1>6, <3>8 DEF LocalWorkers, c, q
  <2>8. QED
    BY <2>5, <2>6, <2>7
<1>7. CASE ~DpExecutor(r)
  <2>1. c = (IF Distributed(r) THEN RayCommand(r, n, q) ELSE SingleCommand(r, q))
    BY <1>7 DEF CommandOf
  <2>2. Width(q) = a * b /\ a \in Nat /\ b \in Nat
    BY <1>1, <1>3, WidthOfSizes, ParamsTypes, OrElseNat
  <2> HIDE DEF q, c
  <2>3. e.tp = a /\ e.dp = b
    BY <1>1, EngineCommandType
  <2> HIDE DEF e
  <2>4. c.tp * c.pp * c.dp = a * b
    <3>1. CASE ~Distributed(r)
      <4>1. c.tp = a /\ c.pp = 1 /\ c.dp = b
        BY <1>1, <2>1, <2>3, <3>1, SingleForm DEF e
      <4> HIDE DEF a, b
      <4>2. QED
        BY <2>2, <4>1
    <3>2. CASE Distributed(r)
      <4>1. n = 0
        BY <1>1, <2>1, <3>2, RayForm
      <4>2. /\ c.dp = b
            /\ IF Arch(r) \in {"Qwen3_5Moe", "MiniMaxM2"} THEN c.pp = r.nodes /\ c.tp = r.count
               ELSE c.pp = 1 /\ c.tp = a
        BY <1>1, <2>1, <2>3, <3>2, <4>1, RayForm DEF e
      <4>3. CASE Arch(r) \in {"Qwen3_5Moe", "MiniMaxM2"}
        <5>1. ~OwnSizes(r)
          BY <1>7, <4>3 DEF OwnSizes, FlashAscend, FlashPro5000, Glm52SingleEven, Glm47, Arch, Architecture
        <5>2. q.cfg.tp = TotalCards(r) /\ q.cfg.dp = 0
          BY <1>1, <5>1 DEF Sized
        <5>3. a = TotalCards(r) /\ b = 1
          BY <1>4, <5>2 DEF OrElse
        <5> HIDE DEF a, b
        <5>4. QED
          BY <1>4, <4>2, <4>3, <5>3
      <4>4. CASE Arch(r) \notin {"Qwen3_5Moe", "MiniMaxM2"}
        <5> HIDE DEF a, b
        <5>1. QED
          BY <2>2, <4>2, <4>4
      <4>5. QED
        BY <4>3, <4>4
    <3>3. QED
      BY <3>1, <3>2
  <2>5. (a * b) \div r.nodes <= a * b
    <3> DEFINE k == a * b
    <3>1. k \in Nat
      <4> HIDE DEF a, b
      <4>1. QED
        BY <2>2
    <3> HIDE DEF k
    <3> DEFINE d == k \div r.nodes
    <3>2. d \in Nat /\ r.nodes * d <= k
      BY <1>4, <3>1, Quotient
    <3> HIDE DEF d
    <3>3. d <= r.nodes * d
      BY <1>4, <3>2
    <3>4. d <= k
      BY <1>4, <3>1, <3>2, <3>3
    <3>5. QED
      BY <3>4 DEF d, k
  <2> HIDE DEF a, b
  <2>6. QED
    BY <1>5, <1>7, <2>2, <2>4, <2>5 DEF LocalWorkers, c, q
<1>8. QED
  BY <1>6, <1>7

(* A pool the launcher sizes is a share of what it has reckoned to be left. *)
LEMMA PoolIsShare ==
    ASSUME NEW r \in Request, NEW p \in LaunchParams, r.memory.size = Automatic, Pool(r, p) > 0
    PROVE  /\ "offload" \in p.features.smart /\ ~KimiMemCache(r)
           /\ Capacity(r.memory, Width(p)) > 0
           /\ Pool(r, p) = AtLeastOne(Capacity(r.memory, Width(p)) \div r.count)
<1> DEFINE total == Capacity(r.memory, Width(p))
<1>1. Pool(r, p) = (IF FlashAscend(r) THEN FlashPool(r, p) ELSE CpuPool(r, p))
      /\ "offload" \in p.features.smart /\ ~KimiMemCache(r)
  BY DEF Pool
<1>2. total \in {None} \cup Nat
  BY RequestForm, WidthType, CapacityType
<1>3. Pool(r, p) = CpuPool(r, p)
  BY <1>1 DEF FlashPool, Automatic
<1>4. CpuPool(r, p) = IF r.memory.on # "true" \/ total = 0 THEN 0
                      ELSE IF total # None THEN AtLeastOne(total \div r.count) ELSE None
  BY DEF CpuPool, Automatic
<1> HIDE DEF total
<1>5. total > 0 /\ CpuPool(r, p) = AtLeastOne(total \div r.count)
  BY <1>2, <1>3, <1>4 DEF None
<1>6. QED
  BY <1>1, <1>3, <1>5 DEF total

(* resolve_offload_cpu_capacity_gb, _resolve_lmcache_cpu_env: with the size of the pool left to the
   launcher, the pools of a node's cards and the workers on it stay within the pod's memory.  The
   pool is a share by cards, the reserve is counted by the width of the command, and the command
   may be spread over nodes.  A node of up to 100 cards: a card gets at least 1 GB of pool, and
   the launcher offloads nothing when less than 100 GB are left. *)
THEOREM MemoryAlwaysFits == Spec => [](request.count <= 100 => MemoryFits)
<1>1. LaunchInv => (request.count <= 100 => MemoryFits)
  <2> DEFINE r == request
  <2> SUFFICES ASSUME LaunchInv, r.count <= 100, NEW n \in Nodes, RunsEngine(n), Launchers(r),
                      r.memory.size = Automatic, plan[n].main.pool > 0
               PROVE  plan[n].main.pool * r.count + 7 * LocalWorkers(r, plan[n].main) + 3 <= r.memory.pod
    BY DEF MemoryFits
  <2> DEFINE x == ForMain(r, n)
  <2> DEFINE c == CommandOf(r, n, x)
  <2> DEFINE q == Scripted(r, n, x)
  <2>1. /\ n \in Nat /\ r \in Request /\ (r.role # "none" => r.engine \in VllmEngines)
        /\ plan[n].main = c /\ c.kind \in {"engine", "services"} /\ c.pool > 0
    BY PlanMade DEF RunsEngine
  <2>2. r.engine \in VllmEngines
    <3>1. SUFFICES ASSUME r.engine \notin VllmEngines PROVE FALSE
      OBVIOUS
    <3>2. x = AfterMerge(r) /\ c = EngineCommand(r, x)
      BY <3>1 DEF ForMain, AfterPrepare, Prepared, CommandOf
    <3>3. x \in LaunchParams /\ x.features = Granted(r)
      BY <2>1, <3>2, AfterMergeForm
    <3> HIDE DEF x, c
    <3>4. Pool(r, x) > 0
      BY <2>1, <3>2, <3>3, EngineCommandType
    <3>5. "offload" \in Granted(r).smart
      BY <2>1, <3>3, <3>4, PoolIsShare
    <3>6. QED
      BY <2>1, <3>1, <3>5, OffloadModels
  <2>3. q \in LaunchParams /\ q.features = Granted(r)
    BY <2>1, <2>2, MainScripted
  <2>4. x \in LaunchParams
    BY <2>1, <2>2, MainForm
  <2>5. r.role = "none"
    <3>1. SUFFICES ASSUME r.role # "none" PROVE FALSE
      OBVIOUS
    <3>2. c = RoleCommand(r, n, q)
      BY <2>2, <3>1 DEF CommandOf
    <3>3. n \in Nat /\ r \in Request
      BY <2>1
    <3> HIDE DEF c, q, r
    <3>4. RoleCommand(r, n, q).pool = 0
      BY <2>3, <3>3, RoleForm
    <3>5. c.pool = 0
      BY <3>2, <3>4
    <3>6. QED
      BY <2>1, <3>5
  <2>6. c.pool = Pool(r, q)
    <3>1. SameTraits(EngineCommand(r, q), c)
      <4>1. c.kind \notin {"refused", "ray_worker"}
        BY <2>1
      <4> HIDE DEF x
      <4>2. QED
        BY <2>1, <2>2, <2>4, <2>5, <4>1, EngineTraits
    <3> HIDE DEF c, q
    <3>2. QED
      BY <2>1, <2>3, <3>1, EngineCommandType DEF SameTraits
  <2>7. c.kind = "engine"
    <3>1. c.kind # "services"
      <4>1. c \in {SingleCommand(r, q), DpCommand(r, n, q), RayCommand(r, n, q)}
        BY <2>2, <2>5 DEF CommandOf
      <4>2. SingleCommand(r, q).kind = "engine"
        BY <2>1, <2>3, SingleForm
      <4>3. DpCommand(r, n, q).kind \in {"refused", "engine"}
        BY <2>1, <2>3, DpForm DEF Refusal
      <4>4. RayCommand(r, n, q).kind \in {"ray_worker", "engine"}
        <5>1. n = 0 \/ n > 0
          BY <2>1
        <5>2. QED
          BY <2>1, <2>3, <5>1, RayForm
      <4> HIDE DEF c, q
      <4>5. QED
        BY <4>1, <4>2, <4>3, <4>4
    <3>2. QED
      BY <2>1, <3>1
  <2>8. Sized(r, q)
    BY <2>1, <2>2, <2>5, BothSized
  <2> DEFINE W == Width(q)
  <2> DEFINE L == LocalWorkers(r, c)
  <2> DEFINE total == Capacity(r.memory, W)
  <2>9. "offload" \in Granted(r).smart /\ ~KimiMemCache(r) /\ total > 0 /\ c.pool = AtLeastOne(total \div r.count)
    <3> HIDE DEF c, q
    <3>1. QED
      BY <2>1, <2>3, <2>6, PoolIsShare
  <2>10. L <= W
    <3> HIDE DEF x
    <3>1. QED
      BY <2>1, <2>2, <2>4, <2>5, <2>7, <2>8, <2>9, WorkersInWidth
  <2>11. W \in Nat
    <3> HIDE DEF q
    <3>1. QED
      BY <2>3, WidthType
  <2>12. r.memory \in Memory /\ r.memory.pod \in Nat /\ r.count \in Nat \ {0} /\ r.nodes \in Nat \ {0}
    BY <2>1, RequestForm DEF Memory
  <2>13. L \in Int
    <3>1. c \in Command
      BY <2>1, <2>4, CommandType
    <3> HIDE DEF c
    <3>2. c.tp \in Nat /\ c.pp \in Nat /\ c.dp \in Nat /\ c.local \in Nat
      BY <3>1 DEF Command
    <3> DEFINE product == c.tp * c.pp * c.dp
    <3>3. product \div r.nodes \in Nat
      <4>1. product \in Nat
        BY <3>2
      <4> HIDE DEF product
      <4>2. QED
        BY <2>12, <4>1, Quotient
    <3>4. QED
      BY <3>2, <3>3 DEF LocalWorkers
  <2> HIDE DEF c, W, L
  <2>14. total \in Nat /\ total >= 100 /\ 10 * total <= 9 * r.memory.pod - 10 * (7 * W + 3)
    BY <2>9, <2>11, <2>12, CapacityType DEF None
  <2> HIDE DEF total
  <2>15. c.pool * r.count <= total /\ c.pool \in Nat
    <3> DEFINE d == total \div r.count
    <3>1. d \in Nat /\ r.count * d <= total
      BY <2>12, <2>14, Quotient
    <3>2. d >= 1
      BY <2>12, <2>14
    <3> HIDE DEF d
    <3>3. c.pool = d
      BY <2>9, <3>1, <3>2 DEF AtLeastOne, d
    <3>4. QED
      BY <2>12, <3>1, <3>3
  <2>16. c.pool * r.count \in Nat
    BY <2>12, <2>15
  <2>17. c.pool * r.count + 7 * L + 3 <= r.memory.pod
    <3> DEFINE z == c.pool * r.count
    <3>1. z \in Nat /\ z <= total
      BY <2>15, <2>16
    <3> HIDE DEF z
    <3>2. z + 7 * L + 3 <= r.memory.pod
      BY <2>10, <2>11, <2>12, <2>13, <2>14, <3>1
    <3>3. QED
      BY <3>2 DEF z
  <2>18. QED
    BY <2>1, <2>17 DEF L
<1>2. QED
  BY <1>1, LaunchInvAlways, PTL
=============================================================================
