---------------------------- MODULE MCEngineScript ----------------------------
(* Instances of EngineScript for TLC. *)
EXTENDS EngineScript

Asked(speculative, sparse, offload, accel, options, master, plugin) ==
    [speculative |-> speculative, sparse |-> sparse, offload |-> offload, accel |-> accel,
     userOptions |-> options, master |-> master, plugin |-> plugin]

(* Every combination of features and of ways to install patches, where the progress is not *)
(* followed ("missing" is no different from "off"); a whole log and one the analyzer does   *)
(* not know, without features.                                                             *)
MCInputs ==
    { Asked(sp, ks, off, acc, opt, FALSE, "unlisted") :
        sp \in BOOLEAN, ks \in {"off", "index", "fp8", "noop"}, off \in Offloads,
        acc \in {"off", "auto", "override"}, opt \in SUBSET {"speculative_config"} }
    \cup { Asked(FALSE, "off", "off", "auto", {}, TRUE, p) : p \in {"mindie_distributed", "unlisted"} }

(* A launch whose user lists the patches himself *)
MCOverride ==
    { Asked(FALSE, "index", "off", "override", {}, FALSE, "unlisted") }

(* A master's start whose log the analyzer knows *)
MCMaster == { Asked(FALSE, "off", "off", "auto", {}, TRUE, "mindie_distributed") }
=============================================================================
