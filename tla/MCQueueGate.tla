----------------------------- MODULE MCQueueGate -----------------------------
(* Instances of QueueGate for TLC: one slot in each layer. *)
EXTENDS QueueGate

MCCap == [l \in Layer |-> 1]

(* Every combination of the two switches, and no queue at all. *)
EveryConfig == [policy: {"drop_oldest", "other"}, overflow: {"block", "other"}, qmax: {0, 1, 2}]

(* The configurations in which put() may suspend. *)
BlockingPut == [policy: {"other"}, overflow: {"block"}, qmax: {1}]
=============================================================================
