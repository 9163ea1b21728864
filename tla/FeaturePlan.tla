----------------------------- MODULE FeaturePlan -----------------------------
(***************************************************************************)
(* core/wings_entry.py: the two start commands of a launch, as the sets of *)
(* advanced features they turn on, and what advanced_features.json reports *)
(* of them.  EngineScript runs the two; Launch makes them in detail.       *)
(***************************************************************************)

Feature == {"speculative_decode", "sparse_kv", "kv_offload"}

Offloads == {"off", "none", "idle", "lmcache", "memcache", "native"}

(* speculative, sparse: enable_speculative_decode, enable_sparse of the merged parameters, *)
(* with what the sparse cache comes to; offload: "off", or ENABLE_KV_OFFLOAD with the back *)
(* end it resolves to.  Where none is active the merge may have left a connector in        *)
(* engine_config ("idle") or not ("none").                                                 *)
FeatureRequest == [speculative : BOOLEAN, sparse : {"off", "index", "fp8", "noop"},
                   offload : Offloads,
                   userOptions : SUBSET {"speculative_config"}]

(* engine_config as the merge leaves it: _set_kv_cache_config has put the connector there *)
Options(i) == i.userOptions \cup (IF i.offload \in {"idle", "lmcache", "memcache"} THEN {"kv_transfer_config"} ELSE {})

(* The parameters of one start command: the flags of the merged parameters and the *)
(* engine_config they share.                                                       *)
Params(i) == [speculative |-> i.speculative, sparse |-> i.sparse, native |-> i.offload = "native",
              options |-> Options(i)]

(* _build_kv_sparse_cmd changes engine_config in place. *)
OptionsAfter(p) == p.options \cup (IF p.sparse = "fp8" THEN {"kv_cache_dtype"} ELSE {})

(* The features build_start_script turns on *)
FeaturesOf(p) ==
    { f \in Feature :
        CASE f = "speculative_decode" -> p.speculative \/ "speculative_config" \in p.options
          [] f = "sparse_kv"  -> p.sparse = "index" \/ "kv_cache_dtype" \in OptionsAfter(p)
          [] f = "kv_offload" -> p.native \/ "kv_transfer_config" \in p.options }

(* _build_advanced_feature_fallback_cmd; "requested" is ENABLE_KV_OFFLOAD *)
Plain(p, requested) ==
    [p EXCEPT !.speculative = FALSE, !.sparse = "off",
              !.native = @ /\ ~requested,
              !.options = @ \ ({"speculative_config"} \cup IF requested THEN {"kv_transfer_config"} ELSE {})]

(* _has_advanced_features: a plan without them retries the same command *)
Active(i) == i.speculative \/ i.sparse # "off" \/ i.offload \in {"lmcache", "memcache", "native"}

(* The commands built in the order they run in *)
Plan_MainFirst(i) ==
    LET p == Params(i)
        main == [p EXCEPT !.options = OptionsAfter(p)]
    IN  [main |-> FeaturesOf(p),
         again |-> IF Active(i) THEN FeaturesOf(Plain(main, i.offload # "off")) ELSE FeaturesOf(main)]

(* _build_engine_and_monitor_scripts: the second command is built first, on the same engine_config *)
Plan(i) ==
    LET p == Params(i)
        again == IF Active(i) THEN Plain(p, i.offload # "off") ELSE p
        (* what the first build leaves in the engine_config they share *)
        shared == IF again.options = p.options THEN OptionsAfter(again) ELSE p.options
        main == [p EXCEPT !.options = shared]
    IN  [main |-> FeaturesOf(main), again |-> FeaturesOf(again)]

(* _write_advanced_features_json *)
Reported(i) ==
    { f \in Feature : CASE f = "speculative_decode" -> i.speculative
                        [] f = "sparse_kv"  -> i.sparse # "off"
                        [] f = "kv_offload" -> i.offload \in {"lmcache", "memcache", "native"} }

(* The patches the preamble installs, and the feature of the report each stands for.      *)
(* Native offloading, MemCache, fp8 and an architecture without an index cache need none; *)
(* the patch an idle connector may get changes nothing that is reported.  Speculation     *)
(* takes "ears" with some strategies only: where it does not, "ears" does not fail.       *)
StatusKey == [runtime_deps |-> "speculative_decode", ears |-> "speculative_decode",
              lmcache |-> "kv_offload", indexcache |-> "sparse_kv"]
Patch == DOMAIN StatusKey

Patches(i) ==
    { p \in Patch :
        CASE p \in {"runtime_deps", "ears"} -> i.speculative
          [] p = "lmcache"    -> i.offload = "lmcache"
          [] p = "indexcache" -> i.sparse = "index" }

FeaturesWith(patches) == {StatusKey[p] : p \in patches}
=============================================================================
