---------------------------- MODULE LaunchConfig ----------------------------
(***************************************************************************)
(* core/config_loader.py: from what a launch is asked for to the merged    *)
(* parameters the engine's adapter works on: which smart features take     *)
(* effect, how many cards a rank gets, which connector the KV cache has,   *)
(* and what a separated prefill or decode role (PD) changes of it.         *)
(*                                                                         *)
(* Sizes are whole GB, a size or a degree of parallelism of 0 is one that  *)
(* is not given.  Left out: the options no decision here looks at, the     *)
(* layout of the files they come from, and engine selection (parse_launch_ *)
(* args gives every launch an engine, "vllm" unless it is told another).   *)
(***************************************************************************)
EXTENDS Integers, FiniteSets

Automatic == -1                             (* KV_MEM_OFFLOAD_SIZE=auto *)
None == -1                                  (* no answer *)

SmartFeature == {"spec", "sparse", "offload"}
VllmEngines  == {"vllm", "vllm_ascend"}

Architecture ==
    [v3 |-> "DeepseekV3", v32 |-> "DeepseekV32", flash |-> "DeepseekV4", pro |-> "DeepseekV4",
     kimi |-> "KimiK25", glm51 |-> "GlmMoeDsa", glm52 |-> "GlmMoeDsa", glm47 |-> "Glm4Moe",
     glm47_fp8 |-> "Glm4Moe", minimax |-> "MiniMaxM2", qwen35 |-> "Qwen3_5Moe",
     qwen35_nvfp4 |-> "Qwen3_5Moe", next |-> "Qwen3Next", other |-> "Other"]
Model == DOMAIN Architecture

Cards == [nvidia |-> {"h20", "pro5000"}, ascend |-> {"a2", "a3"}]

(* on: ENABLE_KV_MEM_OFFLOAD; size: KV_MEM_OFFLOAD_SIZE; pod: AVAILABLE_POD_MEM_SIZE; *)
(* disk: ENABLE_KV_DISK_OFFLOAD.                                                      *)
Memory == [on : {"unset", "false", "true"}, size : {Automatic} \cup Nat, pod : Nat, disk : BOOLEAN]

(* tp, dp: TENSOR_PARALLEL_SIZE and DATA_PARALLEL_SIZE of the environment; fileTp, force: the  *)
(* user's configuration file, CONFIG_FORCE; pd: TP_SIZE, DP_SIZE and DP_SIZE_LOCAL; distributed is nodes > 1.       *)
Request == [engine : VllmEngines \cup {"sglang", "mindie"}, model : Model, card : UNION {Cards[d] : d \in DOMAIN Cards},
            count : Nat \ {0}, nodes : Nat \ {0}, role : {"none", "P", "D"},
            asked : SUBSET SmartFeature, draft : BOOLEAN, tp : Nat, dp : Nat, fileTp : Nat, force : BOOLEAN,
            pd : [tp : Nat, dp : Nat, local : Nat], memory : Memory, roce : BOOLEAN]

Connectors == {"none", "lmcache", "lmcache_ascend", "memcache", "pd"}

(* engine_config, as far as a decision depends on it; startRank is None where it is not set *)
EngineConfig == [tp : Nat, dp : Nat, startRank : {None} \cup Nat,
                 connector : Connectors,
                 spec : {"none", "mtp"}, fp8 : BOOLEAN]

Distributed(r) == r.nodes > 1
Ascend(r) == r.engine = "vllm_ascend"
Arch(r)   == Architecture[r.model]
OrElse(n, default) == IF n = 0 THEN default ELSE n

FlashAscend(r)   == Ascend(r) /\ r.model = "flash"
FlashPro5000(r)  == r.engine = "vllm" /\ r.model = "flash" /\ r.card = "pro5000"
Glm51Nvidia(r)   == r.engine = "vllm" /\ r.model = "glm51"
Glm52SingleEven(r) == Ascend(r) /\ r.model = "glm52" /\ ~Distributed(r) /\ r.count % 2 = 0 /\ r.card = "a3"
KimiMemCache(r)  == Ascend(r) /\ r.model = "kimi"
NativeOffload(r) == r.engine = "vllm" /\ r.model \in {"flash", "qwen35_nvfp4"}
-----------------------------------------------------------------------------
(* Which smart features take effect *)

(* config/smart_feature_whitelist.json; no row of it is forced. *)
Whitelist ==
    [spec    |-> ({"vllm"} \X {"qwen35", "qwen35_nvfp4", "minimax", "flash"} \X {"pro5000"})
                 \cup ({"vllm"} \X {"glm47_fp8", "flash"} \X {"h20"})
                 \cup ({"vllm_ascend"} \X {"flash", "glm51", "glm47", "minimax"} \X {"a2", "a3"})
                 \cup ({"vllm_ascend"} \X {"glm52", "v32"} \X {"a3"}),
     sparse  |-> ({"vllm"} \X {"flash", "qwen35", "minimax"} \X {"pro5000"})
                 \cup ({"vllm"} \X {"glm47_fp8", "glm51"} \X {"h20"})
                 \cup ({"vllm_ascend"} \X {"glm51"} \X {"a2", "a3"}),
     offload |-> ({"vllm"} \X {"qwen35_nvfp4", "minimax"} \X {"pro5000"})
                 \cup ({"vllm"} \X {"glm47_fp8"} \X {"h20"})
                 \cup ({"vllm_ascend"} \X {"glm47", "minimax", "flash"} \X {"a2", "a3"})
                 \cup ({"vllm_ascend"} \X {"v32", "kimi"} \X {"a3"})]

(* resolve_feature_whitelist *)
Allowed(r) == { f \in SmartFeature : <<r.engine, r.model, r.card>> \in Whitelist[f] }

(* _apply_engine_runtime_flags: the other engines have neither. *)
AskedOf(r) == r.asked \ (IF r.engine \in VllmEngines THEN {} ELSE {"spec", "sparse"})

(* apply_effective_feature_enablement; requested is ENABLE_KV_OFFLOAD.  spec is on without *)
(* the whitelist (it is then the suffix strategy), but not one of _smart_feats.            *)
Features(r, requested) ==
    LET asked == (AskedOf(r) \ {"offload"}) \cup (IF requested THEN {"offload"} ELSE {})
    IN  IF r.role # "none"
        THEN [spec |-> FALSE, sparse |-> FALSE, smart |-> {}]
        ELSE [spec |-> "spec" \in asked, sparse |-> "sparse" \in asked \cap Allowed(r),
              smart |-> asked \cap Allowed(r)]

(* _handle_vllm_distributed; a launch that is not distributed keeps the default. *)
DpExecutor(r) ==
    /\ Distributed(r) /\ r.engine \in VllmEngines
    /\ IF r.role # "none" THEN ~Ascend(r)
       ELSE Ascend(r) /\ Arch(r) \in {"DeepseekV3", "DeepseekV32", "DeepseekV4", "GlmMoeDsa", "KimiK25"}
-----------------------------------------------------------------------------
(* How much memory offloading may have *)

(* The floor left out *)
Capacity_NoFloor(m, width) ==
    IF m.on # "true" \/ m.size # Automatic \/ m.pod = 0 THEN None ELSE (9 * m.pod - 10 * (7 * width + 3)) \div 10

(* resolve_offload_cpu_capacity_gb: None where the size is not left to the launcher, else *)
(* what 10 percent of margin, 7 GB for each of width workers and 3 leave of the pod, or 0  *)
(* where that is less than 100.                                                            *)
Capacity(m, width) ==
    LET tenths == 9 * m.pod - 10 * (7 * width + 3)
    IN  IF m.on # "true" \/ m.size # Automatic \/ m.pod = 0 THEN None
        ELSE IF tenths < 1000 THEN 0 ELSE tenths \div 10

FloorDisabled(m, width) == Capacity(m, width) = 0
FloorDisablesAll(m, width) == FloorDisabled(m, width) /\ ~m.disk

(* resolve_memcache_dram_gb: 0 for None *)
DramGb(m, width) ==
    IF m.size # Automatic THEN m.size ELSE IF Capacity(m, width) = None THEN 0 ELSE Capacity(m, width)
-----------------------------------------------------------------------------
(* The merge *)

NoConfig == [tp |-> 0, dp |-> 0, startRank |-> None, connector |-> "none", spec |-> "none", fp8 |-> FALSE]

(* _get_model_specific_config: one model's defaults have a topology *)
Defaults(r) == IF Ascend(r) /\ r.model = "pro" /\ Distributed(r)
               THEN [NoConfig EXCEPT !.tp = 16, !.dp = 2] ELSE NoConfig

(* _adjust_tensor_parallelism: a role's share is its own node. *)
AllCards(r, cfg) == [cfg EXCEPT !.tp = OrElse(@, r.count * (IF r.role = "none" THEN r.nodes ELSE 1))]

(* _set_mindie_distributed_params: worldSize *)
WorldSize(r, cfg) == [cfg EXCEPT !.tp = IF Distributed(r) THEN r.count * r.nodes ELSE OrElse(@, r.count)]

LeavesParallelismToAdapter(r) ==
    (Ascend(r) /\ DpExecutor(r)) \/ Glm52SingleEven(r) \/ FlashPro5000(r) \/ FlashAscend(r)

(* _set_pd_parallelism_params, and _apply_pd_final_guard once everything is merged *)
RoleParallelism(r, cfg) ==
    IF r.role = "none" THEN cfg ELSE [cfg EXCEPT !.tp = OrElse(r.pd.tp, @), !.dp = OrElse(r.pd.dp, @)]

(* _set_parallelism_params *)
SetParallelism(r, cfg) ==
    IF r.role # "none" THEN RoleParallelism(r, cfg)
    ELSE IF LeavesParallelismToAdapter(r) THEN cfg ELSE AllCards(r, cfg)

(* _set_kv_cache_config.  A role has no smart features, so that no connector is both; the *)
(* parallelism is not in the context it hands on, which counts as one worker.             *)
Connector(r, smart) ==
    IF "offload" \notin smart THEN IF r.role = "none" THEN "none" ELSE "pd"
    ELSE IF KimiMemCache(r) THEN IF DramGb(r.memory, 1) > 0 THEN "memcache" ELSE "none"
    ELSE IF FloorDisablesAll(r.memory, 1) \/ NativeOffload(r) \/ Glm51Nvidia(r) THEN "none"
    ELSE IF FlashAscend(r) THEN "lmcache_ascend" ELSE "lmcache"

(* _merge_vllm_params, _merge_mindie_params, _merge_sglang_params *)
VllmConfig(r, smart) == [SetParallelism(r, Defaults(r)) EXCEPT !.connector = Connector(r, smart)]
MindieConfig(r) == WorldSize(r, NoConfig)
SglangConfig(r) == AllCards(r, NoConfig)

(* _merge_cmd_params *)
EngineDefaults(r, smart) == CASE r.engine \in VllmEngines -> VllmConfig(r, smart)
                              [] r.engine = "mindie" -> MindieConfig(r)
                              [] r.engine = "sglang" -> SglangConfig(r)

(* The user's file over the defaults or, with CONFIG_FORCE, instead of them *)
MergedConfig(r, smart) ==
    LET cfg == IF r.force /\ r.fileTp # 0 THEN NoConfig ELSE EngineDefaults(r, smart)
    IN  [cfg EXCEPT !.tp = OrElse(r.fileTp, @)]

(* _apply_cli_overrides: only what is in the configuration already *)
Overridden(r, cfg) ==
    IF r.engine \notin VllmEngines THEN cfg
    ELSE [cfg EXCEPT !.tp = IF @ # 0 THEN OrElse(r.tp, @) ELSE @,
                     !.dp = IF @ # 0 THEN OrElse(r.dp, @) ELSE @]
-----------------------------------------------------------------------------
(* A prefill or decode role *)

(* _get_pd_external_lb_params *)
PdTopology(r, rank) ==
    LET dp == OrElse(r.pd.dp, 1)
        local == IF OrElse(r.pd.local, 1) < dp THEN OrElse(r.pd.local, 1) ELSE dp
    IN  [tp |-> OrElse(r.pd.tp, 1), dp |-> dp, local |-> local, start |-> rank * local]

(* _enforce_glm51_nvidia_no_kv_offload, and again in the adapter *)
Stripped(r, cfg) == IF Glm51Nvidia(r) THEN [cfg EXCEPT !.connector = "none"] ELSE cfg

(* config/defaults/pd_config.json: the architectures whose roles speculate *)
RoleSpeculates(r) == Arch(r) \in {"DeepseekV32", "DeepseekV4", "GlmMoeDsa", "Qwen3_5Moe"}

(* _apply_pd_external_lb: the role's registry entry goes before everything else. *)
WithRole(r, cfg) ==
    IF r.role = "none" THEN cfg
    ELSE [cfg EXCEPT !.tp = PdTopology(r, 0).tp, !.dp = PdTopology(r, 0).dp, !.connector = "pd",
                     !.spec = IF RoleSpeculates(r) THEN "mtp" ELSE @]
=============================================================================
