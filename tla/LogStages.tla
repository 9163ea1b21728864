------------------------------ MODULE LogStages ------------------------------
(***************************************************************************)
(* log_analyzer/plugins and PatternPluginManager: which lines of an        *)
(* engine's log report a phase of its start, and the progress they stand   *)
(* for.  Of the values a phase can report a stage keeps the first and the  *)
(* last: "fixed" are the numbers written beside a pattern, "counted" those *)
(* computed from a percentage in the line, at 0 and at 100 percent.        *)
(* The phases "init" and "accel_enabling", reported before an engine is   *)
(* started, have no lines here.                                            *)
(***************************************************************************)
EXTENDS Integers, Sequences, FiniteSets, SequencesExt, FiniteSetsExt

Stage(phase, fixed, counted) == [phase |-> phase, fixed |-> fixed, counted |-> counted]

VllmBooting   == Stage("engine_booting", {22, 30}, {})
VllmLoading   == Stage("model_loading", {32, 60}, {36, 60})
VllmCompiling == Stage("model_compiling", {62, 75}, {})
VllmGraphs    == Stage("cuda_graph_capturing", {98}, {76, 98})
Checking      == Stage("server_checking", {99}, {})
Ready         == Stage("ready", {100}, {})

VllmSingle == << VllmBooting, VllmLoading, VllmCompiling, VllmGraphs, Checking, Ready >>

AscendSingle == [VllmSingle EXCEPT ![1].fixed = {20, 30}]

(* ---- distributed: later phases are moved up to make room for the cluster's ---- *)
LeastOf(a, b) == IF a <= b THEN a ELSE b

(* [from, to, cap] of a fixed number, [by, cap] of a computed one (_make_offset_calc) *)
Moved(s) ==
    LET Shift(from, to, cap) == { LeastOf(to + (v - from), cap) : v \in s.fixed }
        Offset(by, cap) == { LeastOf(v + by, cap) : v \in s.counted }
    IN  CASE s.phase = "engine_booting"       -> Stage(s.phase, Shift(20, 35, 43), {})
          [] s.phase = "model_loading"        -> Stage(s.phase, Shift(30, 43, 68), Offset(7, 68))
          [] s.phase = "model_compiling"      -> Stage(s.phase, Shift(60, 68, 80), {})
          [] s.phase = "cuda_graph_capturing" -> Stage(s.phase, Shift(75, 80, 99), Offset(4, 99))
          [] OTHER -> s

ClusterStages == << Stage("ray_cluster_init", {8, 10}, {}),
                    Stage("worker_registration", {15, 18}, {}),
                    Stage("distributed_setup", {20, 23}, {}) >>

VllmDistributed == ClusterStages \o [i \in DOMAIN VllmSingle |-> Moved(VllmSingle[i])]

(* The NPU lines lie inside the cluster's phases. *)
AscendDistributed == VllmDistributed

SglangCache  == Stage("kv_cache_allocating", {62, 70}, {})
SglangGraphs == Stage("cuda_graph_capturing", {72, 98}, {74, 98})
SglangSingle == << VllmBooting, VllmLoading, SglangCache, SglangGraphs, Checking, Ready >>

Hccl          == Stage("hccl_init", {10, 12}, {})
MindieBooting == Stage("engine_booting", {20, 32}, {})
MindieLoading == Stage("model_loading", {35, 85}, {42, 77})
MindieDistributed == << Hccl, MindieBooting, MindieLoading, Checking, Ready >>

(* What vLLM's patterns, the default, recognise of another engine's log: it never says it is ready *)
Unlisted == << Stage("model_loading", {}, {36}), Stage("model_loading", {}, {60}), Checking >>

Plugins == {"vllm", "vllm_distributed", "ascend", "ascend_distributed",
            "sglang", "mindie_distributed", "unlisted"}

StagesOf(plugin) ==
    CASE plugin = "vllm"               -> VllmSingle
      [] plugin = "vllm_distributed"   -> VllmDistributed
      [] plugin = "ascend"             -> AscendSingle
      [] plugin = "ascend_distributed" -> AscendDistributed
      [] plugin = "sglang"             -> SglangSingle
      [] plugin = "mindie_distributed" -> MindieDistributed
      [] plugin = "unlisted"           -> Unlisted

Marks(s) == s.fixed \cup s.counted

(* The lines of a start in the order the engine writes them: the last of each stage *)
LinesOf(plugin) ==
    [i \in DOMAIN StagesOf(plugin) |->
        [phase |-> StagesOf(plugin)[i].phase, mark |-> Max(Marks(StagesOf(plugin)[i]))]]

LineTable == [p \in Plugins |-> LinesOf(p)]

Phases == {"init", "accel_enabling", "ray_cluster_init", "worker_registration", "distributed_setup",
           "hccl_init", "engine_booting", "model_loading", "model_compiling", "kv_cache_allocating",
           "cuda_graph_capturing", "server_checking", "ready"}
=============================================================================
