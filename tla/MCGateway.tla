------------------------------ MODULE MCGateway ------------------------------
(* Instances of Gateway for TLC. *)
EXTENDS Gateway

MCCap == [l \in Layer |-> 1]

(* The configuration shipped, with a queue of one, and one that lets put() suspend *)
MCConfigs ==
    {[policy |-> "drop_oldest", overflow |-> "block", qmax |-> 1],
     [policy |-> "other", overflow |-> "block", qmax |-> 1],
     [policy |-> "drop_oldest", overflow |-> "other", qmax |-> 1]}

(* Tasks differ by their ids only. *)
Ids == Permutations(Task)
=============================================================================
