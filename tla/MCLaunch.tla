------------------------------ MODULE MCLaunch -------------------------------
(* Small launches of every kind: each set of requests varies what one part of the *)
(* pipeline decides on, for every model and card it knows.                        *)
EXTENDS Launch

NoMemory == [on |-> "unset", size |-> 0, pod |-> 0, disk |-> FALSE]
Custom   == [NoMemory EXCEPT !.on = "true", !.size = 160]
AutoSize(pod, disk) == [on |-> "true", size |-> Automatic, pod |-> pod, disk |-> disk]

Base == [engine |-> "vllm", model |-> "other", card |-> "h20", count |-> 8, nodes |-> 1, role |-> "none",
         asked |-> {}, draft |-> FALSE, tp |-> 0, dp |-> 0, fileTp |-> 0, force |-> FALSE,
         pd |-> [tp |-> 0, dp |-> 0, local |-> 0], memory |-> NoMemory, roce |-> FALSE]

Platforms == ({"vllm"} \X Model \X Cards.nvidia) \cup ({"vllm_ascend"} \X Model \X Cards.ascend)
On(platform) == [Base EXCEPT !.engine = platform[1], !.model = platform[2], !.card = platform[3]]

(* How many cards and nodes *)
Topologies ==
    { [On(platform) EXCEPT !.count = count, !.nodes = nodes] :
        platform \in Platforms, count \in {6, 8, 16}, nodes \in {1, 2} }
    \cup { [Base EXCEPT !.engine = engine, !.card = "a2", !.nodes = nodes] : engine \in {"sglang", "mindie"}, nodes \in {1, 2} }

(* Which features *)
Askings ==
    { [On(platform) EXCEPT !.asked = asked, !.nodes = nodes, !.memory = memory] :
        platform \in Platforms, asked \in {SmartFeature, {"spec", "offload"}, {"spec"}, {"sparse"}}, nodes \in {1, 2},
        memory \in {Custom, AutoSize(1000, FALSE)} }
    \cup { [On(<<"vllm_ascend", "glm51", "a3">>) EXCEPT !.asked = {"spec", "sparse"}, !.nodes = 2, !.roce = TRUE] }
    \cup { [On(<<"vllm", "flash", "h20">>) EXCEPT !.asked = {"spec"}, !.draft = TRUE] }

(* How much memory: 120 and 130 GB are on either side of the floor for one worker, 176 and 240 *)
(* for eight and sixteen.                                                                     *)
Offloaders == { platform \in Platforms : platform \in Whitelist.offload } \cup {<<"vllm", "glm51", "h20">>, <<"vllm", "flash", "h20">>}
Memories ==
    { [On(platform) EXCEPT !.asked = {"spec", "offload"}, !.count = count, !.memory = memory] :
        platform \in Offloaders, count \in {8, 16},
        memory \in { AutoSize(pod, disk) : pod \in {0, 120, 130, 176, 180, 240}, disk \in BOOLEAN }
                   \cup { [on |-> on, size |-> size, pod |-> 500, disk |-> disk] :
                            on \in {"unset", "false", "true"}, size \in {0, 4, 160}, disk \in BOOLEAN } }

(* What the user insists on *)
Explicits ==
    { [On(platform) EXCEPT !.tp = tp, !.dp = dp, !.fileTp = fileTp, !.nodes = nodes] :
        platform \in Platforms, tp \in {0, 4}, dp \in {0, 2}, fileTp \in {0, 4}, nodes \in {1, 2} }
    \cup { [On(platform) EXCEPT !.asked = {"spec", "offload"}, !.memory = Custom, !.tp = tp, !.fileTp = 2, !.force = TRUE, !.nodes = nodes] :
            platform \in Offloaders, tp \in {0, 4}, nodes \in {1, 2} }

(* Roles, on as many nodes as the topology is for *)
Roles ==
    { [On(platform) EXCEPT !.role = role, !.asked = SmartFeature, !.memory = Custom, !.nodes = nodes,
                           !.pd = [tp |-> tp, dp |-> nodes * local, local |-> local]] :
        platform \in Platforms, role \in {"P", "D"}, nodes \in {1, 2}, tp \in {0, 2}, local \in {1, 4} }
    \cup { [On(<<"vllm", "other", "h20">>) EXCEPT !.role = "P"] }

MCRequests == Topologies \cup Askings \cup Memories \cup Explicits \cup Roles
=============================================================================
