------------------------------ MODULE MCStartup ------------------------------
(* Instances of Startup for TLC. *)
EXTENDS Startup

CONSTANTS m, a, b, dns

(* Two hosts, the second of which has a DNS name as well *)
MCAddress == [n \in {a, b, dns} |-> IF n = a THEN a ELSE b]

(* One host under two names *)
MCTwoNames == {<<m, b, dns>>}

(* A master alone; two workers, one of them repeated *)
MCNodeLists == {<<m>>, <<m, a, a, dns>>}

(* One worker *)
MCOnce == {<<m, a>>}
=============================================================================
