------------------------------- MODULE Launch --------------------------------
(***************************************************************************)
(* core/wings_entry.py build_launcher_plan on every node of a launch: the  *)
(* plan goes through the merge and the adapter step by step, on parameters *)
(* its steps share, and ends with the two commands of the node's script    *)
(* and what advanced_features.json reports.                                *)
(*                                                                         *)
(* Every node makes its own plan, from the launch arguments the master     *)
(* sends.  A launcher makes it again when its first attempt fails later    *)
(* (_launch_attempt), in the same process; and after a restart, in a new   *)
(* one.  Between the plans of a process only its environment is left.      *)
(***************************************************************************)
EXTENDS VllmCommand

CONSTANTS
    Requests,       (* what launches may be asked for *)
    MaxPlans        (* bound on how often a node plans *)

(* Roles are modelled for the vLLM engines only. *)
ASSUME LaunchAssumption ==
    /\ Requests \subseteq Request
    /\ \A r \in Requests : r.role # "none" => r.engine \in VllmEngines
    /\ MaxPlans \in Nat \ {0}

VARIABLES
    request,    \* what this launch is asked for
    pc,         \* where each node's planning is
    offload,    \* ENABLE_KV_OFFLOAD of the node's process
    params,     \* the parameters the steps of a plan share
    plan,       \* what has been written for the node: the two commands and the report
    first,      \* the first complete plan of the node
    plans       \* plans begun

vars == <<request, pc, offload, params, plan, first, plans>>

Nodes == 0..request.nodes - 1

NoParams == [features |-> [spec |-> FALSE, sparse |-> FALSE, smart |-> {}], cfg |-> NoConfig,
             top |-> [tp |-> 0, dp |-> 0], rpc |-> 13355, forceStart |-> FALSE, plain |-> FALSE]
NoPlan == [report |-> {}, again |-> Refusal, main |-> Refusal]

LaunchTypeOK ==
    /\ pc \in [Nodes -> {"gate", "merge", "prepare", "report", "again", "main", "done", "failed"}]
    /\ offload \in [Nodes -> BOOLEAN]
    /\ \A n \in Nodes : params[n] \in LaunchParams
    /\ \A n \in Nodes : plan[n].report \in SUBSET Feature /\ plan[n].again \in Command /\ plan[n].main \in Command
    /\ \A n \in Nodes : first[n] \in {NoPlan, plan[n]} \/ pc[n] # "done"
    /\ plans \in [Nodes -> 1..MaxPlans]

Init ==
    /\ request \in Requests
    /\ pc = [n \in Nodes |-> "gate"]
    /\ offload = [n \in Nodes |-> "offload" \in request.asked]
    /\ params = [n \in Nodes |-> NoParams]
    /\ plan = [n \in Nodes |-> NoPlan]
    /\ first = [n \in Nodes |-> NoPlan]
    /\ plans = [n \in Nodes |-> 1]
-----------------------------------------------------------------------------
(* What has no connector counts as not asked for. *)
Gate_OnlyConnectors(n) ==
    /\ pc[n] = "gate"
    /\ LET features == Features(request, offload[n])
       IN  /\ params' = [params EXCEPT ![n] = [NoParams EXCEPT !.features = features]]
           /\ offload' = [offload EXCEPT ![n] = "offload" \in features.smart /\ ~NativeOffload(request)]
    /\ pc' = [pc EXCEPT ![n] = "merge"]
    /\ UNCHANGED <<request, plan, first, plans>>

(* apply_effective_feature_enablement: the verdict replaces what was asked in the environment. *)
Gate(n) ==
    /\ pc[n] = "gate"
    /\ LET features == Features(request, offload[n])
       IN  /\ params' = [params EXCEPT ![n] = [NoParams EXCEPT !.features = features]]
           /\ offload' = [offload EXCEPT ![n] = "offload" \in features.smart]
    /\ pc' = [pc EXCEPT ![n] = "merge"]
    /\ UNCHANGED <<request, plan, first, plans>>

(* Explicit values, what a model may not have, the role, and its parallelism again *)
FinalConfig(r, cfg) == RoleParallelism(r, WithRole(r, Stripped(r, Overridden(r, cfg))))

(* load_and_merge_configs, the rest of it: defaults and the user's file, then explicit *)
(* values, then the role                                                              *)
Merge(n) ==
    /\ pc[n] = "merge"
    /\ LET merged == MergedConfig(request, params[n].features.smart)
       IN  params' = [params EXCEPT ![n].cfg = FinalConfig(request, merged)]
    /\ pc' = [pc EXCEPT ![n] = "prepare"]
    /\ UNCHANGED <<request, offload, plan, first, plans>>

(* prepare_params_for_startup_status: the report is of the parallelism the command will have. *)
Prepare(n) ==
    /\ pc[n] = "prepare"
    /\ ~Pro5000Refused(request)
    /\ params' = [params EXCEPT ![n] = Prepared(request, n, @)]
    /\ pc' = [pc EXCEPT ![n] = "report"]
    /\ UNCHANGED <<request, offload, plan, first, plans>>

PrepareRefused(n) ==
    /\ pc[n] = "prepare"
    /\ Pro5000Refused(request)
    /\ pc' = [pc EXCEPT ![n] = "failed"]
    /\ UNCHANGED <<request, offload, params, plan, first, plans>>

ReportOf(r, p) ==
    (IF p.features.spec THEN {"speculative_decode"} ELSE {})
        \cup (IF p.features.sparse THEN {"sparse_kv"} ELSE {})
        \cup (IF ActiveBackend(r, p) THEN {"kv_offload"} ELSE {})

(* _write_advanced_features_json *)
Report(n) ==
    /\ pc[n] = "report"
    /\ plan' = [plan EXCEPT ![n].report = ReportOf(request, params[n])]
    /\ pc' = [pc EXCEPT ![n] = "again"]
    /\ UNCHANGED <<request, offload, params, first, plans>>

(* The connector stays. *)
WithoutFeatures_KeepsConnector(p, requested) ==
    [p EXCEPT !.features.spec = FALSE, !.features.sparse = FALSE, !.plain = requested, !.cfg.spec = "none"]

(* _build_advanced_feature_fallback_cmd: the parameters without the features; engine_config *)
(* is a copy only when something had to be taken out of it.                                 *)
WithoutFeatures(p, requested) ==
    [p EXCEPT !.features.spec = FALSE, !.features.sparse = FALSE, !.plain = requested, !.cfg.spec = "none",
              !.cfg.connector = IF requested THEN "none" ELSE @]

Advanced(r, p) == ReportOf(r, p) # {}

(* What the second command is built on, and what building it leaves to the first *)
SecondParams(r, p, requested) == IF Advanced(r, p) THEN WithoutFeatures(p, requested) ELSE p

Built(n, which, command) ==
    /\ plan' = [plan EXCEPT ![n][which] = command]
    /\ pc' = [pc EXCEPT ![n] = IF command.kind = "refused" THEN "failed"
                                 ELSE IF which = "again" THEN "main" ELSE "done"]

(* The second command, built first *)
BuildAgain(n) ==
    LET p == params[n]
        second == SecondParams(request, p, offload[n])
    IN  /\ pc[n] = "again"
        /\ Built(n, "again", CommandOf(request, n, second))
        /\ params' = IF request.engine \in VllmEngines /\ second.cfg = p.cfg
                     THEN [params EXCEPT ![n].cfg = Scripted(request, n, second).cfg] ELSE params
        /\ UNCHANGED <<request, offload, first, plans>>

BuildMain(n) ==
    /\ pc[n] = "main"
    /\ Built(n, "main", CommandOf(request, n, params[n]))
    /\ params' = IF request.engine \in VllmEngines THEN [params EXCEPT ![n] = Scripted(request, n, @)] ELSE params
    /\ first' = [first EXCEPT ![n] = IF @ = NoPlan THEN plan'[n] ELSE @]
    /\ UNCHANGED <<request, offload, plans>>
-----------------------------------------------------------------------------
(* _launch_attempt once more: the process and its environment are the same. *)
PlanAgain(n) ==
    /\ pc[n] \in {"done", "failed"} /\ plans[n] < MaxPlans
    /\ plans' = [plans EXCEPT ![n] = @ + 1]
    /\ pc' = [pc EXCEPT ![n] = "gate"]
    /\ UNCHANGED <<request, offload, params, plan, first>>

(* The launcher's container has started again, wherever it was. *)
Restart(n) ==
    /\ pc[n] # "gate" /\ plans[n] < MaxPlans
    /\ plans' = [plans EXCEPT ![n] = @ + 1]
    /\ pc' = [pc EXCEPT ![n] = "gate"]
    /\ offload' = [offload EXCEPT ![n] = "offload" \in request.asked]
    /\ UNCHANGED <<request, params, plan, first>>

Finished == (\A n \in Nodes : pc[n] \in {"done", "failed"}) /\ UNCHANGED vars

Next ==
    \/ \E n \in Nodes : \/ Gate(n) \/ Merge(n) \/ Prepare(n) \/ PrepareRefused(n) \/ Report(n)
                        \/ BuildAgain(n) \/ BuildMain(n) \/ PlanAgain(n) \/ Restart(n)
    \/ Finished

Spec == Init /\ [][Next]_vars
-----------------------------------------------------------------------------
(* Properties *)

Done(n) == pc[n] = "done"
RunsEngine(n) == Done(n) /\ plan[n].main.kind \in {"engine", "services"}

(* Nobody says how many cards a rank gets: the launcher decides. *)
Launchers(r) == r.tp = 0 /\ r.dp = 0 /\ r.fileTp = 0

(* Several nodes each run some of the ranks, and a role's deployment has as many as it says. *)
RanksAreSpread(r) ==
    /\ r.engine \in VllmEngines
    /\ IF r.role = "none" THEN DpExecutor(r)
       ELSE PdTopology(r, 0).dp > 1 /\ PdTopology(r, 0).dp = r.nodes * PdTopology(r, 0).local

RanksOf(c) == LET start == IF c.start = None THEN 0 ELSE c.start IN start..start + c.local - 1

(* Each node works out its own share of the data parallel ranks.  Together the shares are *)
(* all of the ranks the engines wait for, and no rank runs twice.                         *)
RanksCover ==
    (RanksAreSpread(request) /\ \A n \in Nodes : Done(n)) =>
        /\ UNION { RanksOf(plan[n].main) : n \in Nodes } = 0..plan[0].main.dp - 1
        /\ \A m, n \in Nodes : m # n => RanksOf(plan[m].main) \cap RanksOf(plan[n].main) = {}

(* The cards a node has to have for its part of the command; an engine without ranks of its *)
(* own on each node takes the cards of all of them.                                         *)
CardsOf(r, c) == IF RanksAreSpread(r) THEN c.tp * c.local ELSE c.tp * c.pp * c.dp
CardsFor(r) == IF RanksAreSpread(r) THEN r.count ELSE TotalCards(r)

(* The cards the recipes with a width of their own are for; they look at no number of cards. *)
RecipeCards(r) == CASE r.model = "glm47" -> 16
                    [] FlashAscend(r) -> IF r.card = "a3" THEN 4 ELSE 8
                    [] OTHER -> 1

(* Where the launcher decides, and there are the cards the recipe is for, no command takes    *)
(* more of them than there are: neither the merge's number of cards, nor a model's defaults   *)
(* over it, nor a data parallel size on top.                                                  *)
FitsCards ==
    \A n \in Nodes : (RunsEngine(n) /\ Launchers(request) /\ request.role = "none" /\ TotalCards(request) >= RecipeCards(request)) =>
        \A c \in {plan[n].main, plan[n].again} : CardsOf(request, c) <= CardsFor(request)

(* The workers of a command on one node *)
LocalWorkers(r, c) == IF RanksAreSpread(r) THEN c.tp * c.local ELSE (c.tp * c.pp * c.dp) \div r.nodes

(* KV_MEM_OFFLOAD_SIZE=auto: what the pools of all cards take leaves the engine the memory   *)
(* the launcher reckons it needs, 7 GB a worker and 3.  The pool is divided by cards and the *)
(* reserve counted by the width of the command, which are not the same number.               *)
MemoryFits ==
    \A n \in Nodes : (RunsEngine(n) /\ Launchers(request) /\ request.memory.size = Automatic /\ plan[n].main.pool > 0) =>
        plan[n].main.pool * request.count + 7 * LocalWorkers(request, plan[n].main) + 3 <= request.memory.pod

(* The engines of a cluster agree on what has to be the same everywhere: a worker makes its *)
(* plan by itself, with its own rank in the parameters.                                     *)
SameCluster ==
    \A m, n \in Nodes : (RunsEngine(m) /\ RunsEngine(n)) =>
        \A which \in {"main", "again"} :
            LET a == plan[m][which]
                b == plan[n][which]
            IN  [a EXCEPT !.start = b.start, !.headless = b.headless] = b

(* A second plan of the same launch is the first one again, in the environment the first has *)
(* left or after a restart: the engine's container may run either script.                    *)
PlanStable == \A n \in Nodes : Done(n) => plan[n] = first[n]

(* What the status page is told agrees with the script: FeaturePlan's account of the two     *)
(* commands and of the report, by which EngineScript lives, is what the whole pipeline makes *)
(* of this launch.  It is about the engines that have such commands, vLLM's, and leaves out  *)
(* two cases where the report speaks of an offloading the engine does not do: native         *)
(* offloading has no flag on several nodes, and with CONFIG_FORCE the connector the merge    *)
(* would have chosen is not in engine_config.                                                *)
CommandFeatures(c) ==
    { f \in Feature : CASE f = "speculative_decode" -> c.strategy # "none"
                        [] f = "sparse_kv"  -> c.index \/ c.fp8
                        [] f = "kv_offload" -> c.native > 0 \/ c.connector \notin {"none", "pd"} }

(* This launch in the terms of FeaturePlan *)
AsInput(r, p) ==
    [speculative |-> p.features.spec,
     sparse  |-> IF p.features.sparse THEN SparseVariant(r) ELSE "off",
     offload |-> IF Backend(r, p) # "disabled" THEN Backend(r, p)
                 ELSE IF p.cfg.connector = "none" THEN "none" ELSE "idle",
     userOptions |-> IF RoceSpeculation(r, p).cfg.spec # "none" THEN {"speculative_config"} ELSE {}]

AsTheScriptExpects ==
    \A n \in Nodes :
      (RunsEngine(n) /\ request.engine \in VllmEngines /\ ~(NativeOffload(request) /\ Distributed(request)) /\ ~request.force) =>
        LET features == Features(request, "offload" \in request.asked)
            merged == [NoParams EXCEPT !.features = features,
                                       !.cfg = FinalConfig(request, MergedConfig(request, features.smart))]
            input == AsInput(request, Prepared(request, n, merged))
        IN  /\ CommandFeatures(plan[n].main) = Plan(input).main
            /\ CommandFeatures(plan[n].again) = Plan(input).again
            /\ plan[n].report = Reported(input)

(* "no LMCache backend is active; keeping mtp speculative strategy" (vllm_adapter.py): a      *)
(* command that keeps MTP beside an LMCache connector gives it neither a pool nor a disk.     *)
StrategyFitsOffload ==
    \A n \in Nodes : (RunsEngine(n) /\ plan[n].main.strategy = "mtp" /\ plan[n].main.connector = "lmcache") =>
        plan[n].main.pool = 0 /\ ~request.memory.disk

(* config_loader.py: "CLI/ENV > config-file > model_default > hardware_default" *)
ExplicitTpIsUsed ==
    \A n \in Nodes : (RunsEngine(n) /\ request.engine \in VllmEngines /\ request.role = "none" /\ request.tp # 0) =>
        plan[n].main.tp = request.tp

(* wings_entry.py: "Return whether an offload variant represents a backend used by engine." *)
Offloading(r, c) == c.native > 0 \/ (c.connector \notin {"none", "pd"} /\ (c.pool # 0 \/ r.memory.disk))
OffloadReportIsTrue ==
    \A n \in Nodes : (RunsEngine(n) /\ request.model # "kimi") =>
        ("kv_offload" \in plan[n].report <=> Offloading(request, plan[n].main))
=============================================================================
