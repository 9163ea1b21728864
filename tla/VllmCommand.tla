----------------------------- MODULE VllmCommand -----------------------------
(***************************************************************************)
(* engines/vllm_adapter.py, engines/vllm_distributed.py: from the merged   *)
(* parameters to the command a node runs.  The defaults of some models     *)
(* replace the parallelism of the merge first; the command then says which *)
(* ranks run here, on which cards, with which features and how much memory *)
(* the KV cache may take.  SGLang and MindIE, whose adapters decide less,  *)
(* are at the end.                                                         *)
(***************************************************************************)
EXTENDS LaunchConfig, FeaturePlan

(* top: tensor_parallel_size and data_parallel_size beside engine_config; rpc: rpc_port;    *)
(* forceStart: _force_data_parallel_start_rank_on_rank0; plain: _wings_fallback_no_kv_offload *)
LaunchParams == [features : [spec : BOOLEAN, sparse : BOOLEAN, smart : SUBSET SmartFeature],
                 cfg : EngineConfig, top : [tp : Nat, dp : Nat],
                 rpc : {13355, 13399}, forceStart : BOOLEAN, plain : BOOLEAN]

(* What a node runs.  worlds ranks of tp * pp cards each from rank start on (None: the      *)
(* engine counts from 0 by itself); dp is the size they add up to.  A pool is per card, and *)
(* None where the engine's own default decides.                                             *)
Command == [kind : {"engine", "services", "ray_worker", "refused"}, tp : Nat, pp : Nat, dp : Nat, local : Nat,
            start : {None} \cup Nat, rpc : Nat, headless : BOOLEAN, connector : Connectors,
            strategy : {"none", "mtp", "suffix", "draft"}, index : BOOLEAN, fp8 : BOOLEAN,
            native : Nat, pool : {None} \cup Nat]

TotalCards(r) == r.count * r.nodes
AtLeastOne(n) == IF n < 1 THEN 1 ELSE n
-----------------------------------------------------------------------------
(* The defaults of some models, each over the one before *)

(* _apply_deepseek_v4_flash_capacity_and_topology *)
FlashTopology(r, p) ==
    LET default == IF r.card = "a3" THEN 4 ELSE 8
        tp == IF r.tp = 0 THEN default ELSE OrElse(p.cfg.tp, default)
    IN  IF ~FlashAscend(r) THEN p
        ELSE [p EXCEPT !.cfg.tp = IF r.tp = 0 THEN tp ELSE @,
                       !.top.tp = IF r.tp = 0 THEN tp ELSE @,
                       !.cfg.dp = IF r.dp = 0 THEN AtLeastOne(TotalCards(r) \div tp) ELSE @]

(* is_deepseek_v4_pro_adapted_scope *)
ProScope(r) == Ascend(r) /\ r.model = "pro" /\ r.card = "a3" /\ r.nodes = 2

(* Only the head gets the port of its own. *)
ProTopology_HeadOnly(r, rank, p) ==
    IF ~ProScope(r) \/ rank > 0 THEN p
    ELSE [p EXCEPT !.rpc = 13399, !.forceStart = TRUE, !.cfg.startRank = rank]

(* _apply_deepseek_v4_pro_engine_defaults *)
ProTopology(r, rank, p) ==
    IF ~ProScope(r) THEN p
    ELSE [p EXCEPT !.rpc = 13399, !.forceStart = TRUE, !.cfg.startRank = rank]

(* _apply_deepseek_v4_flash_nv_engine_defaults *)
Pro5000Tp(r) == IF r.count < 4 THEN r.count ELSE 4
Pro5000Refused(r) == FlashPro5000(r) /\ r.count % Pro5000Tp(r) # 0
Pro5000Topology(r, p) ==
    LET tp == Pro5000Tp(r)
        dp == r.count \div tp
    IN  IF ~FlashPro5000(r) THEN p
        ELSE [p EXCEPT !.cfg.tp = IF r.tp = 0 THEN tp ELSE @, !.top.tp = IF r.tp = 0 THEN tp ELSE @,
                       !.cfg.dp = IF r.dp = 0 THEN dp ELSE @, !.top.dp = IF r.dp = 0 THEN dp ELSE @]

(* Two ranks, each as wide as the node *)
Glm52Topology_WholeNode(r, p) ==
    IF ~Glm52SingleEven(r) \/ r.role # "none" THEN p
    ELSE [p EXCEPT !.cfg.tp = IF r.tp = 0 THEN OrElse(@, r.count) ELSE @,
                   !.cfg.dp = IF r.dp = 0 THEN OrElse(@, 2) ELSE @]

(* _apply_glm52_ascend_recipe *)
Glm52Topology(r, p) ==
    IF ~Glm52SingleEven(r) \/ r.role # "none" THEN p
    ELSE [p EXCEPT !.cfg.tp = IF r.tp = 0 THEN OrElse(@, r.count \div 2) ELSE @,
                   !.cfg.dp = IF r.dp = 0 THEN OrElse(@, 2) ELSE @]

(* _default_deepseek_ascend_dp_tensor_parallel_size: 0 for none *)
DpDefaultTp(r) ==
    CASE Arch(r) = "DeepseekV3" -> IF r.count >= 4 THEN 4 ELSE r.count
      [] Arch(r) \in {"DeepseekV32", "KimiK25", "GlmMoeDsa"} /\ r.count \in {8, 16} -> r.count
      [] OTHER -> 0

(* _apply_generic_deepseek_ascend_dp_defaults *)
DpTopology(r, p) ==
    IF ~(Ascend(r) /\ DpExecutor(r)) \/ r.model \in {"pro", "flash"} \/ r.tp # 0 THEN p
    ELSE [p EXCEPT !.cfg.tp = OrElse(DpDefaultTp(r), @)]

(* _prepare_engine_config: GLM-5 over RoCE brings its own speculative_config. *)
RoceSpeculation(r, p) ==
    IF Ascend(r) /\ DpExecutor(r) /\ Arch(r) = "GlmMoeDsa" /\ r.roce /\ p.features.spec
    THEN [p EXCEPT !.cfg.spec = "mtp"] ELSE p

(* _prepare_engine_config and what it writes back; a role's entry goes over all the defaults. *)
Prepared(r, rank, p) ==
    LET q == RoceSpeculation(r, DpTopology(r, Glm52Topology(r, Pro5000Topology(r, ProTopology(r, rank, FlashTopology(r, p))))))
    IN  IF r.engine \notin VllmEngines THEN p
        ELSE [q EXCEPT !.cfg = Stripped(r, WithRole(r, @))]

(* _inject_glm47_w8a8_engine_config, once the status file has been written *)
Glm47Injected(r, p) ==
    IF ~(r.engine \in VllmEngines /\ r.model = "glm47") THEN p
    ELSE [p EXCEPT !.cfg.tp = IF r.tp = 0 THEN 8 ELSE @, !.cfg.dp = IF r.dp = 0 THEN 2 ELSE @]
-----------------------------------------------------------------------------
(* The back end of offloading *)

(* The width of one rank *)
Width_OfOneRank(p) == OrElse(OrElse(p.top.tp, p.cfg.tp), 1)

(* _offload_parallel_size: what is beside engine_config goes before what is in it. *)
Width(p) == OrElse(OrElse(p.top.tp, p.cfg.tp), 1) * OrElse(OrElse(p.top.dp, p.cfg.dp), 1)

(* _resolve_v4_flash_offload_gb, _resolve_qwen35_nvfp4_offload_gb *)
NativeGb(m, width) ==
    IF Capacity(m, width) # None THEN Capacity(m, width) ELSE IF m.size > 0 THEN m.size ELSE 200

(* _resolve_offload_backend *)
CpuBackend(m, width) == IF Capacity(m, width) = None THEN m.on = "true" ELSE Capacity(m, width) > 0

(* resolve_offload_variant, as far as _offload_variant_has_active_backend tells variants apart *)
Backend(r, p) ==
    LET m == r.memory
    IN  IF "offload" \notin p.features.smart THEN "off"
        ELSE IF KimiMemCache(r)  THEN IF DramGb(m, Width(p)) > 0 THEN "memcache" ELSE "disabled"
        ELSE IF Glm51Nvidia(r)   THEN "disabled"
        ELSE IF NativeOffload(r) THEN IF NativeGb(m, Width(p)) > 0 THEN "native" ELSE "disabled"
        ELSE IF CpuBackend(m, Width(p)) \/ m.disk THEN "lmcache" ELSE "disabled"

ActiveBackend(r, p) == Backend(r, p) \notin {"off", "disabled"}

(* _resolve_lmcache_cpu_env: 0 is no pool, None a pool of the engine's own size *)
CpuPool(r, p) ==
    LET m == r.memory
        total == Capacity(m, Width(p))
    IN  IF m.on # "true" \/ total = 0 THEN 0
        ELSE IF total # None THEN AtLeastOne(total \div r.count)
        ELSE IF m.size > 0 THEN AtLeastOne(m.size \div r.count) ELSE None

(* _build_deepseek_v4_flash_lmcache_env_commands: 40 GB unless something says otherwise *)
FlashPool(r, p) ==
    LET m == r.memory
    IN  IF FloorDisabled(m, Width(p)) \/ m.on = "false" THEN 0
        ELSE IF m.on = "true" THEN (IF m.size = 0 THEN 40 ELSE CpuPool(r, p))
        ELSE IF m.size = Automatic THEN 0 ELSE 40

(* _build_cache_env_commands *)
Pool(r, p) ==
    IF "offload" \notin p.features.smart \/ KimiMemCache(r) \/ Glm51Nvidia(r) \/ NativeOffload(r) THEN 0
    ELSE IF FlashAscend(r) THEN FlashPool(r, p) ELSE CpuPool(r, p)

(* _build_kv_offload_cmd *)
NativeFlag(r, p) ==
    IF NativeOffload(r) /\ "offload" \in p.features.smart /\ ~p.plain THEN NativeGb(r.memory, Width(p)) ELSE 0
-----------------------------------------------------------------------------
(* Speculation and sparsity *)

(* _resolve_mtp_method *)
MtpArchs == {"DeepseekV3", "DeepseekV32", "DeepseekV4", "GlmMoeDsa", "Qwen3Next", "Glm4Moe", "Qwen3_5Moe"}

(* Without regard to the disk *)
RequiresSuffix_MemoryOnly(r, p) ==
    /\ "offload" \in p.features.smart
    /\ ~FloorDisabled(r.memory, Width(p))
    /\ ~Glm51Nvidia(r) /\ ~FlashAscend(r) /\ ~NativeOffload(r)

(* _lmcache_requires_suffix_speculative_strategy *)
RequiresSuffix(r, p) ==
    /\ "offload" \in p.features.smart
    /\ ~FloorDisablesAll(r.memory, Width(p))
    /\ ~Glm51Nvidia(r) /\ ~FlashAscend(r) /\ ~NativeOffload(r)

(* resolve_speculative_strategy *)
Strategy(r, p) ==
    IF r.draft THEN "draft"
    ELSE IF /\ Arch(r) \in MtpArchs \ (IF Ascend(r) THEN {"Qwen3Next"} ELSE {})
            /\ "spec" \in p.features.smart /\ ~RequiresSuffix(r, p)
         THEN "mtp" ELSE "suffix"

(* _should_append_auto_speculative_config *)
Speculation(r, p) ==
    IF p.cfg.spec # "none" THEN p.cfg.spec ELSE IF p.features.spec THEN Strategy(r, p) ELSE "none"

(* resolve_sparse_variant *)
SparseVariant(r) ==
    IF Ascend(r) THEN (IF r.model = "glm51" THEN "index" ELSE "noop")
    ELSE IF r.model = "flash" \/ Arch(r) \in {"GlmMoeDsa", "DeepseekV32"} THEN "index" ELSE "fp8"

(* _build_kv_sparse_cmd: without an index cache, engine_config itself changes. *)
SparseApplied(r, p) == IF p.features.sparse /\ SparseVariant(r) = "fp8" THEN [p EXCEPT !.cfg.fp8 = TRUE] ELSE p
-----------------------------------------------------------------------------
(* The command *)

Refusal == [kind |-> "refused", tp |-> 0, pp |-> 0, dp |-> 0, local |-> 0, start |-> None, rpc |-> 0,
            headless |-> FALSE, connector |-> "none", strategy |-> "none", index |-> FALSE, fp8 |-> FALSE,
            native |-> 0, pool |-> 0]

(* _build_vllm_cmd_parts: what every script of the engine starts from *)
EngineCommand(r, p) ==
    [Refusal EXCEPT !.kind = "engine", !.tp = OrElse(p.cfg.tp, 1), !.pp = 1, !.dp = OrElse(p.cfg.dp, 1), !.local = OrElse(p.cfg.dp, 1),
                    !.connector = p.cfg.connector, !.strategy = Speculation(r, p), !.fp8 = p.cfg.fp8,
                    !.index = p.features.sparse /\ SparseVariant(r) = "index",
                    !.pool = Pool(r, p)]

(* _build_vllm_single_script *)
SingleCommand(r, p) == [EngineCommand(r, p) EXCEPT !.native = NativeFlag(r, p)]

(* _build_ray_parallel_overrides, _build_ray_head_commands, _build_ray_worker_commands *)
RayCommand(r, rank, p) ==
    IF rank > 0 THEN [Refusal EXCEPT !.kind = "ray_worker", !.pool = Pool(r, p)]
    ELSE IF Arch(r) \in {"Qwen3_5Moe", "MiniMaxM2"}
         THEN [EngineCommand(r, p) EXCEPT !.pp = r.nodes, !.tp = r.count]
         ELSE EngineCommand(r, p)

(* _resolve_dp_deployment_topology *)
DpTp(r, p) == OrElse(p.cfg.tp, DpDefaultTp(r))
DpRefused(r, p) == Ascend(r) /\ (DpTp(r, p) = 0 \/ r.count % OrElse(DpTp(r, p), 1) # 0)
DpLocal(r, p) == IF Ascend(r) THEN r.count \div DpTp(r, p) ELSE 1

(* A node's ranks begin at its own number. *)
DpCommand_StartIsNode(r, rank, p) ==
    IF DpRefused(r, p) THEN Refusal
    ELSE [EngineCommand(r, p) EXCEPT
            !.dp = DpLocal(r, p) * r.nodes, !.local = DpLocal(r, p), !.rpc = p.rpc,
            !.start = IF rank > 0 \/ p.forceStart THEN rank ELSE None,
            !.headless = rank > 0]

(* _build_dp_exec_command *)
DpCommand(r, rank, p) ==
    IF DpRefused(r, p) THEN Refusal
    ELSE [EngineCommand(r, p) EXCEPT
            !.dp = DpLocal(r, p) * r.nodes, !.local = DpLocal(r, p), !.rpc = p.rpc,
            !.start = IF rank > 0 \/ p.forceStart THEN rank * DpLocal(r, p) ELSE None,
            !.headless = rank > 0]

(* _build_vllm_pd_external_lb_script: a process of its own for every rank of the role on   *)
(* this node.  The script has neither sparsity nor a strategy nor native offloading.       *)
RoleCommand(r, rank, p) ==
    LET t == PdTopology(r, rank)
    IN  [EngineCommand(r, p) EXCEPT
            !.kind = "services", !.tp = t.tp, !.dp = t.dp, !.strategy = p.cfg.spec, !.index = FALSE, !.pool = 0,
            !.local = IF t.dp = 1 THEN 1 ELSE t.local, !.start = IF t.dp = 1 THEN None ELSE t.start]

(* build_start_script, with the parameters as it leaves them *)
Scripted(r, rank, p) == Prepared(r, rank, Glm47Injected(r, SparseApplied(r, p)))

CommandOf(r, rank, p) ==
    LET q == Scripted(r, rank, p)
    IN  CASE r.engine \notin VllmEngines -> EngineCommand(r, p)
          [] r.engine \in VllmEngines /\ r.role # "none" -> RoleCommand(r, rank, q)
          [] r.engine \in VllmEngines /\ r.role = "none" /\ ~Distributed(r) -> SingleCommand(r, q)
          [] OTHER -> IF DpExecutor(r) THEN DpCommand(r, rank, q) ELSE RayCommand(r, rank, q)
=============================================================================
