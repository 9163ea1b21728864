----------------------------- MODULE Membership -----------------------------
(***************************************************************************)
(* distributed/monitor.py and the endpoints of distributed/master.py on    *)
(* one side, register_with_master and send_heartbeat of                    *)
(* distributed/worker.py on the other: how the master comes to list a      *)
(* worker and when it forgets it.                                          *)
(*                                                                         *)
(* A worker's id is a fresh uuid at every start of its process, so that a  *)
(* restarted worker is another node.  Time advances in equal units; loops  *)
(* act as soon as their wait is over, and a request takes up to            *)
(* RequestTime.  NodeStatus.status is "active" from first to last in the   *)
(* code: the active nodes are the listed ones.                             *)
(***************************************************************************)
EXTENDS Naturals, FiniteSets, FiniteSetsExt

CONSTANTS
    Node,           (* the ids workers make up for themselves *)
    CheckInterval,  (* check_interval, even, so that 1.5 times it is a number of units *)
    MaxMissed,      (* max_missed_heartbeats *)
    Interval,       (* heartbeat_interval of the worker *)
    MaxBackoff,     (* max_backoff of send_heartbeat *)
    MaxRetries,     (* max_retries of register_with_master *)
    RetryInterval,  (* its retry_interval *)
    RequestTime,    (* the longest a request takes *)
    MaxFailures     (* bound on consecutive_failures: from there on the wait is MaxBackoff *)

ASSUME MembershipAssumption ==
    /\ {CheckInterval, MaxMissed, Interval, MaxRetries, RetryInterval, MaxFailures}
            \subseteq Nat \ {0}
    /\ {MaxBackoff, RequestTime} \subseteq Nat
    /\ CheckInterval % 2 = 0
    /\ Interval * 2 ^ MaxFailures >= MaxBackoff

VARIABLES
    life,       \* what a worker's thread is doing
    tries,      \* registrations that have failed
    wait,       \* time until the thread sends again
    fails,      \* consecutive_failures
    listed,     \* the keys of MonitorService.nodes
    silence,    \* time since a listed node's last_heartbeat
    missed,     \* missed_heartbeats
    check       \* time until _check_nodes looks again

worker == <<life, tries, wait, fails>>
monitor == <<listed, silence, missed, check>>

vars == <<worker, monitor>>

Stale == CheckInterval + CheckInterval \div 2

TypeOK ==
    /\ life \in [Node -> {"new", "registering", "beating", "aborted", "dead"}]
    /\ tries \in [Node -> 0..MaxRetries]
    /\ wait \in [Node -> Nat]
    /\ fails \in [Node -> 0..MaxFailures]
    /\ listed \in SUBSET Node
    /\ silence \in [Node -> Nat]
    /\ missed \in [Node -> 0..MaxMissed]
    /\ check \in 0..CheckInterval

Init ==
    /\ life = [n \in Node |-> "new"]
    /\ tries = [n \in Node |-> 0]
    /\ wait = [n \in Node |-> 0]
    /\ fails = [n \in Node |-> 0]
    /\ listed = {}
    /\ silence = [n \in Node |-> 0]
    /\ missed = [n \in Node |-> 0]
    /\ check = 0

Sending == {n \in Node : life[n] \in {"registering", "beating"}}
-----------------------------------------------------------------------------
(* Faulty variants *)

(* A heartbeat does not clear the count of missed ones. *)
UpdateHeartbeat_KeepsMissed(n) ==
    /\ silence' = IF n \in listed THEN [silence EXCEPT ![n] = 0] ELSE silence
    /\ UNCHANGED <<listed, missed, check>>

(* One look too late *)
Missing_OneMore(n) == missed[n] + 1 > MaxMissed

(* The first failure already doubles twice. *)
Backoff_OneMore(k) == Min({Interval * 2 ^ (k + 1), MaxBackoff})
-----------------------------------------------------------------------------
(* The wait after k failures in a row *)
Backoff(k) == Min({Interval * 2 ^ k, MaxBackoff})

(* A look that finds n silent is the one that removes it. *)
Missing(n) == missed[n] + 1 >= MaxMissed

(* MonitorService.register_node and update_heartbeat, as the endpoint calls them: the
   id is entered if it is new, and counts as heard of in any case. *)
RegisterNode(n) ==
    /\ listed' = listed \cup {n}
    /\ silence' = [silence EXCEPT ![n] = 0]
    /\ missed' = [missed EXCEPT ![n] = 0]
    /\ UNCHANGED check

(* MonitorService.update_heartbeat: an id that is not listed is only logged, and the
   endpoint answers with success all the same. *)
UpdateHeartbeat(n) ==
    /\ IF n \in listed
       THEN silence' = [silence EXCEPT ![n] = 0] /\ missed' = [missed EXCEPT ![n] = 0]
       ELSE UNCHANGED <<silence, missed>>
    /\ UNCHANGED <<listed, check>>
-----------------------------------------------------------------------------
Start(n) ==
    /\ life[n] = "new"
    /\ life' = [life EXCEPT ![n] = "registering"]
    /\ UNCHANGED <<tries, wait, fails, monitor>>

(* register_with_master: a registration that is answered ends it. *)
Registered(n) ==
    /\ life[n] = "registering" /\ wait[n] = 0
    /\ RegisterNode(n)
    /\ life' = [life EXCEPT ![n] = "beating"]
    /\ UNCHANGED <<tries, wait, fails>>

(* One that fails may have reached the master.  After the last one start_worker leaves
   its thread by sys.exit(1). *)
RegistrationFails(n) ==
    /\ life[n] = "registering" /\ wait[n] = 0
    /\ RegisterNode(n) \/ UNCHANGED monitor
    /\ tries' = [tries EXCEPT ![n] = @ + 1]
    /\ IF tries'[n] < MaxRetries
       THEN /\ \E d \in 0..RequestTime : wait' = [wait EXCEPT ![n] = RetryInterval + d]
            /\ UNCHANGED life
       ELSE /\ life' = [life EXCEPT ![n] = "aborted"]
            /\ UNCHANGED wait
    /\ UNCHANGED fails

(* send_heartbeat, answered *)
Heartbeat(n) ==
    /\ life[n] = "beating" /\ wait[n] = 0
    /\ UpdateHeartbeat(n)
    /\ fails' = [fails EXCEPT ![n] = 0]
    /\ \E d \in 0..RequestTime : wait' = [wait EXCEPT ![n] = Interval + d]
    /\ UNCHANGED <<life, tries>>

(* send_heartbeat, not answered: it may have reached the master. *)
HeartbeatFails(n) ==
    /\ life[n] = "beating" /\ wait[n] = 0
    /\ UpdateHeartbeat(n) \/ UNCHANGED monitor
    /\ fails' = [fails EXCEPT ![n] = Min({@ + 1, MaxFailures})]
    /\ \E d \in 0..RequestTime : wait' = [wait EXCEPT ![n] = Backoff(fails'[n]) + d]
    /\ UNCHANGED <<life, tries>>

(* The worker's process ends. *)
Die(n) ==
    /\ n \in Sending
    /\ life' = [life EXCEPT ![n] = "dead"]
    /\ UNCHANGED <<tries, wait, fails, monitor>>

(* One look of _check_nodes at every node *)
CheckNodes ==
    /\ check = 0
    /\ check' = CheckInterval
    /\ LET silent == {n \in listed : silence[n] > Stale} IN
        /\ missed' = [n \in Node |-> IF n \in silent THEN missed[n] + 1 ELSE missed[n]]
        /\ listed' = listed \ {n \in silent : Missing(n)}
    /\ UNCHANGED <<silence, worker>>

(* The master's launcher starts anew, with nobody listed. *)
MasterRestarts ==
    /\ listed # {}
    /\ listed' = {}
    /\ check' = 0
    /\ UNCHANGED <<silence, missed, worker>>

(* Time passes once nobody is due. *)
Tick ==
    /\ check > 0
    /\ \A n \in Sending : wait[n] > 0
    /\ check' = check - 1
    /\ wait' = [n \in Node |-> IF n \in Sending THEN wait[n] - 1 ELSE wait[n]]
    /\ silence' = [n \in Node |-> IF n \in listed THEN silence[n] + 1 ELSE silence[n]]
    /\ UNCHANGED <<life, tries, fails, listed, missed>>
-----------------------------------------------------------------------------
Next ==
    \/ \E n \in Node :
        \/ Start(n)
        \/ Registered(n)
        \/ RegistrationFails(n)
        \/ Heartbeat(n)
        \/ HeartbeatFails(n)
        \/ Die(n)
    \/ CheckNodes
    \/ MasterRestarts
    \/ Tick

Spec == Init /\ [][Next]_vars
-----------------------------------------------------------------------------
(* _check_nodes takes n off the list. *)
Removed(n) == n \in listed /\ n \notin listed' /\ check' = CheckInterval

(* "Removed after 10 heartbeats missed in a row (10 x 30 s, about 5 minutes)": a node is
   taken off only after a silence without a break, whatever it missed before. *)
RemovedAfterLongSilence ==
    [][\A n \in Node :
        Removed(n) => silence[n] > Stale + (MaxMissed - 1) * CheckInterval]_vars

(* ... and it does not stay on the list for longer than one more interval, so that nobody
   is sent to a worker that has been dead for longer. *)
SilentNodeIsDropped ==
    \A n \in listed : silence[n] <= Stale + MaxMissed * CheckInterval

(* The worker's growing waits and the master's patience fit: one that lives on and loses
   no more than two heartbeats in a row is not taken off the list. *)
SurvivesTwoLosses ==
    [][\A n \in Node : Removed(n) /\ life[n] = "beating" => fails[n] > 2]_vars
=============================================================================
