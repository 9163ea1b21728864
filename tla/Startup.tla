------------------------------- MODULE Startup -------------------------------
(***************************************************************************)
(* wings_control.py and distributed/worker.py: how a distributed engine is *)
(* started.  On the master a thread waits until all workers are listed and *)
(* then asks them one by one to start; a worker writes the start script to *)
(* the volume it shares with its engine container, which runs it.          *)
(*                                                                         *)
(* NODE_IPS holds addresses or DNS names, of which a host may have several;*)
(* what a name stands for does not change.  Whom the master lists is module*)
(* Membership's; here a host may drop off the list at any time.  A request *)
(* that the master has stopped waiting for may still be served.  The event *)
(* loop of a worker serves one request at a time, and answers nobody       *)
(* meanwhile.  together is a history variable, which no step looks at.     *)
(***************************************************************************)
EXTENDS Naturals, Sequences, FiniteSets, SequencesExt

CONSTANTS
    Host,           (* the hosts that may run a worker *)
    Name,           (* the names of workers in NODE_IPS: addresses or DNS names *)
    Address,        (* the host each of them stands for *)
    NodeLists,      (* the values of NODE_IPS, the master's own address first *)
    MaxPolls,       (* looks at the list before _wait_for_worker_registration gives up *)
    MaxProbes,      (* max_attempts of _wait_for_worker_api_ready *)
    MaxTries,       (* max_retries of DispatchOptions *)
    MaxStarts,      (* bound on the starts of one worker's launcher *)
    MaxRestarts     (* bound on the restarts of the master's launcher *)

ASSUME StartupAssumption ==
    /\ Address \in [Name -> Host]
    /\ \A l \in NodeLists : l # <<>> /\ Tail(l) \in Seq(Name)
    /\ {MaxPolls, MaxProbes, MaxTries, MaxStarts} \subseteq Nat \ {0}
    /\ MaxRestarts \in Nat

VARIABLES
    node_ips,   \* NODE_IPS
    listed,     \* the hosts GET /api/nodes names
    together,   \* all workers have been listed at once since the master's last start
    pc,         \* what the dispatching thread is doing
    polls,      \* its looks at the list
    rank,       \* the rank it is at
    tries,      \* probes or requests it has made for this rank
    failed,     \* failed_count
    answer,     \* the worker's answer to its request
    up,         \* what the worker's thread on a host is doing
    starts,     \* how often its launcher was started
    restarts,   \* restarts of the master's launcher
    pending,    \* requests that reached a worker: rank and number of the try
    serving,    \* the request start_engine_api is writing the script for
    script,     \* the file on a host's shared volume
    engine      \* what its engine container has run

listing == <<listed, together>>
master == <<listing, pc, polls, rank, tries, failed, answer, restarts>>
hosts == <<up, starts, pending, serving>>

vars == <<node_ips, master, hosts, script, engine>>

(* A start script: whose it is, and whether it is all there.  Rank 0 is the master's own,
   written before the thread starts: on a worker it means that there is no script. *)
NoScript == [rank |-> 0, whole |-> FALSE]

NoRequest == <<0, 0>>
-----------------------------------------------------------------------------
(* Faulty variants *)

(* NODE_IPS is taken as it comes. *)
Workers_Repeated == Tail(node_ips)

(* One worker is enough. *)
AllRegistered_Some == \E w \in ToSet(Tail(node_ips)) : Address[w] \in listed

(* The try is not counted. *)
Post_Forever ==
    /\ pc = "post"
    /\ pc' = "await"
    /\ UNCHANGED <<node_ips, listing, polls, rank, tries, failed, answer, restarts, hosts,
                   script, engine>>
-----------------------------------------------------------------------------
(* worker_ips: without the master's own entry, each name once, in order. *)
Workers ==
    LET l == Tail(node_ips)
        first == {i \in DOMAIN l : \A j \in 1..(i - 1) : l[j] # l[i]}
    IN  [k \in 1..Cardinality(first) |->
            l[CHOOSE i \in first : Cardinality({j \in first : j <= i}) = k]]

WorkerSet == ToSet(Workers)

(* resolved_workers *)
WorkerHosts == {Address[w] : w \in WorkerSet}

(* The host of the worker the thread is at *)
Target == Address[Workers[rank]]

(* resolved_workers.issubset(registered) *)
AllRegistered == WorkerHosts \subseteq listed

(* The thread is done with this worker: the next one, if any. *)
Advance ==
    /\ tries' = 0
    /\ IF rank < Len(Workers) THEN pc' = "probe" /\ rank' = rank + 1
                              ELSE pc' = "done" /\ UNCHANGED rank

(* Faulty variants of Skip: a worker that is skipped is not counted, or twice. *)
Skip_Uncounted == UNCHANGED failed /\ Advance

Skip_Twice == failed' = failed + 2 /\ Advance

Skip == failed' = failed + 1 /\ Advance

(* The thread still waits for the answer to request r of host h. *)
Awaited(h, r) == pc = "await" /\ Target = h /\ r = <<rank, tries>>

Reply(h, r, a) == answer' = IF Awaited(h, r) THEN a ELSE answer

TypeOK ==
    /\ node_ips \in NodeLists
    /\ listed \in SUBSET Host /\ together \in BOOLEAN
    /\ pc \in {"register", "probe", "post", "await", "done", "gaveup"}
    /\ polls \in 0..MaxPolls
    /\ rank \in 1..Len(node_ips)
    /\ tries \in Nat
    /\ failed \in 0..(Len(node_ips) - 1)
    /\ answer \in {"none", "ok", "error"}
    /\ up \in [Host -> {"down", "registering", "registered", "listening", "aborted"}]
    /\ starts \in [Host -> 0..MaxStarts]
    /\ restarts \in 0..MaxRestarts
    /\ \A h \in Host : pending[h] \subseteq (1..Len(node_ips)) \X (1..MaxTries)
    /\ \A h \in Host : serving[h] \in ((1..Len(node_ips)) \X (1..MaxTries)) \cup {NoRequest}
    /\ script \in [Host -> [rank : 0..Len(node_ips), whole : BOOLEAN]]
    /\ engine \in [Host -> [rank : 0..Len(node_ips), whole : BOOLEAN]]

Init ==
    /\ node_ips \in NodeLists
    /\ listed = {} /\ together = FALSE
    /\ pc = "register"
    /\ polls = 0 /\ rank = 1 /\ tries = 0 /\ failed = 0
    /\ answer = "none"
    /\ up = [h \in Host |-> "down"]
    /\ starts = [h \in Host |-> 0]
    /\ restarts = 0
    /\ pending = [h \in Host |-> {}]
    /\ serving = [h \in Host |-> NoRequest]
    /\ script = [h \in Host |-> NoScript]
    /\ engine = [h \in Host |-> NoScript]
-----------------------------------------------------------------------------
(* _wait_and_distribute_to_workers with no worker in NODE_IPS *)
NobodyToStart ==
    /\ pc = "register" /\ Workers = <<>>
    /\ pc' = "done"
    /\ UNCHANGED <<node_ips, listing, polls, rank, tries, failed, answer, restarts, hosts,
                   script, engine>>

(* _check_once finds every worker on the list. *)
SeeAllRegistered ==
    /\ pc = "register" /\ Workers # <<>>
    /\ AllRegistered
    /\ pc' = "probe"
    /\ UNCHANGED <<node_ips, listing, polls, rank, tries, failed, answer, restarts, hosts,
                   script, engine>>

(* It finds one missing, gets no answer, or has a name that was not resolved; the last time, nobody is started. *)
PollAgain ==
    /\ pc = "register" /\ Workers # <<>>
    /\ polls' = polls + 1
    /\ pc' = IF polls' < MaxPolls THEN "register" ELSE "gaveup"
    /\ UNCHANGED <<node_ips, listing, rank, tries, failed, answer, restarts, hosts, script,
                   engine>>

(* _wait_for_worker_api_ready *)
ProbeAnswered ==
    /\ pc = "probe"
    /\ up[Target] = "listening" /\ serving[Target] = NoRequest
    /\ pc' = "post" /\ tries' = 0
    /\ UNCHANGED <<node_ips, listing, polls, rank, failed, answer, restarts, hosts, script,
                   engine>>

ProbeFails ==
    /\ pc = "probe"
    /\ IF tries + 1 < MaxProbes
       THEN tries' = tries + 1 /\ UNCHANGED <<pc, rank, failed>>
       ELSE Skip
    /\ UNCHANGED <<node_ips, listing, polls, answer, restarts, hosts, script, engine>>

(* _try_dispatch_to_worker sends POST /api/start_engine, which may get lost. *)
Post ==
    /\ pc = "post"
    /\ pc' = "await" /\ tries' = tries + 1
    /\ \/ /\ up[Target] = "listening"
          /\ pending' = [pending EXCEPT ![Target] = @ \cup {<<rank, tries'>>}]
       \/ UNCHANGED pending
    /\ UNCHANGED <<node_ips, listing, polls, rank, failed, answer, restarts, up, starts,
                   serving, script, engine>>

Answered ==
    /\ pc = "await" /\ answer = "ok"
    /\ answer' = "none"
    /\ Advance
    /\ UNCHANGED <<node_ips, listing, polls, failed, restarts, hosts, script, engine>>

(* An error, or none within the timeout: try again, up to MaxTries times. *)
NotAnswered ==
    /\ pc = "await"
    /\ answer' = "none"
    /\ IF tries < MaxTries THEN pc' = "post" /\ UNCHANGED <<tries, rank, failed>>
                           ELSE Skip
    /\ UNCHANGED <<node_ips, listing, polls, restarts, hosts, script, engine>>

(* The launcher of the master ends and is started anew: with an empty list, and from
   the beginning. *)
MasterRestarts ==
    /\ restarts < MaxRestarts
    /\ restarts' = restarts + 1
    /\ listed' = {} /\ together' = FALSE
    /\ pc' = "register" /\ polls' = 0 /\ rank' = 1 /\ tries' = 0 /\ failed' = 0
    /\ answer' = "none"
    /\ UNCHANGED <<node_ips, hosts, script, engine>>
-----------------------------------------------------------------------------
(* A worker's launcher is started. *)
StartWorker(h) ==
    /\ up[h] = "down" /\ starts[h] < MaxStarts
    /\ up' = [up EXCEPT ![h] = "registering"]
    /\ starts' = [starts EXCEPT ![h] = @ + 1]
    /\ UNCHANGED <<node_ips, master, pending, serving, script, engine>>

(* register_with_master; it may not learn that it succeeded, and tries again. *)
Register(h) ==
    /\ up[h] = "registering"
    /\ listed' = listed \cup {h}
    /\ together' = (together \/ WorkerHosts \subseteq listed')
    /\ up' \in {up, [up EXCEPT ![h] = "registered"]}
    /\ UNCHANGED <<node_ips, pc, polls, rank, tries, failed, answer, restarts, starts,
                   pending, serving, script, engine>>

(* The port is taken, or registration has failed too often: the thread ends. *)
Abort(h) ==
    /\ up[h] = "registering"
    /\ up' = [up EXCEPT ![h] = "aborted"]
    /\ UNCHANGED <<node_ips, master, starts, pending, serving, script, engine>>

(* uvicorn.run, only after the registration *)
Listen(h) ==
    /\ up[h] = "registered"
    /\ up' = [up EXCEPT ![h] = "listening"]
    /\ UNCHANGED <<node_ips, master, starts, pending, serving, script, engine>>

(* The worker's launcher ends; the shared volume stays. *)
WorkerEnds(h) ==
    /\ up[h] # "down"
    /\ up' = [up EXCEPT ![h] = "down"]
    /\ pending' = [pending EXCEPT ![h] = {}]
    /\ serving' = [serving EXCEPT ![h] = NoRequest]
    /\ UNCHANGED <<node_ips, master, starts, script, engine>>

(* The master has missed too many heartbeats of h. *)
DropOff(h) ==
    /\ h \in listed
    /\ listed' = listed \ {h}
    /\ UNCHANGED <<node_ips, together, pc, polls, rank, tries, failed, answer, restarts, hosts, script,
                   engine>>
-----------------------------------------------------------------------------
(* start_engine_api: the plan cannot be built, answered with 500. *)
PlanFails(h) ==
    /\ up[h] = "listening" /\ serving[h] = NoRequest
    /\ \E r \in pending[h] :
        /\ pending' = [pending EXCEPT ![h] = @ \ {r}]
        /\ Reply(h, r, "error")
    /\ UNCHANGED <<node_ips, listing, pc, polls, rank, tries, failed, restarts, up, starts,
                   serving, script, engine>>

(* safe_write_file opens the script in place with O_TRUNC. *)
OpenScript(h) ==
    /\ up[h] = "listening" /\ serving[h] = NoRequest
    /\ \E r \in pending[h] :
        /\ pending' = [pending EXCEPT ![h] = @ \ {r}]
        /\ serving' = [serving EXCEPT ![h] = r]
        /\ script' = [script EXCEPT ![h] = [rank |-> r[1], whole |-> FALSE]]
    /\ UNCHANGED <<node_ips, master, up, starts, engine>>

ScriptWritten(h) ==
    /\ serving[h] # NoRequest
    /\ serving' = [serving EXCEPT ![h] = NoRequest]
    /\ script' = [script EXCEPT ![h].whole = TRUE]
    /\ Reply(h, serving[h], "ok")
    /\ UNCHANGED <<node_ips, listing, pc, polls, rank, tries, failed, restarts, up, starts,
                   pending, engine>>

(* safe_write_file returns False. *)
WriteFails(h) ==
    /\ serving[h] # NoRequest
    /\ serving' = [serving EXCEPT ![h] = NoRequest]
    /\ Reply(h, serving[h], "error")
    /\ UNCHANGED <<node_ips, listing, pc, polls, rank, tries, failed, restarts, up, starts,
                   pending, script, engine>>

(* The engine container finds the script and runs what is in it. *)
RunScript(h) ==
    /\ engine[h] = NoScript /\ script[h].rank > 0
    /\ engine' = [engine EXCEPT ![h] = script[h]]
    /\ UNCHANGED <<node_ips, master, hosts, script>>
-----------------------------------------------------------------------------
Dispatch ==
    \/ NobodyToStart
    \/ SeeAllRegistered
    \/ PollAgain
    \/ ProbeAnswered
    \/ ProbeFails
    \/ Post
    \/ Answered
    \/ NotAnswered

Next ==
    \/ Dispatch
    \/ MasterRestarts
    \/ \E h \in Host :
        \/ StartWorker(h)
        \/ Register(h)
        \/ Abort(h)
        \/ Listen(h)
        \/ WorkerEnds(h)
        \/ DropOff(h)
        \/ PlanFails(h)
        \/ OpenScript(h)
        \/ ScriptWritten(h)
        \/ WriteFails(h)
        \/ RunScript(h)

Spec == Init /\ [][Next]_vars

(* The dispatching thread runs: all its waits have a timeout. *)
FairSpec == Spec /\ WF_vars(Dispatch)
-----------------------------------------------------------------------------
(* The ranks host h has been told of, in whatever request is still under way *)
RanksOf(h) ==
    ({r[1] : r \in pending[h] \cup {serving[h]}} \cup {script[h].rank, engine[h].rank}) \ {0}

(* NODE_IPS has one name for host h. *)
NamedOnce(h) == \A n, o \in ToSet(Tail(node_ips)) : Address[n] = h /\ Address[o] = h => n = o

(* Whatever is repeated in NODE_IPS, lost, retried or served late, no two hosts are told
   the same rank, and a host only ever one, if NODE_IPS has but one name for it. *)
OneRankPerName ==
    \A h, g \in Host : \A r \in RanksOf(h), s \in RanksOf(g) :
        /\ r = s => h = g
        /\ h = g /\ NamedOnce(h) => r = s

(* "The same worker must not be dispatched to twice" (_wait_and_distribute_to_workers) *)
NoHostToldTwice == \A h \in Host : \A r, s \in RanksOf(h) : r = s

(* Nobody is sent anything before all workers have been on the list at one moment since
   the master's launcher was last started: not on a list kept from before, nor on one
   put together from several looks between which workers come and go.  An engine that
   waits for ranks nobody will start hangs. *)
AllThereFirst == pc \in {"probe", "post", "await"} => together

(* The failures that the master reports at the end are no fewer than the workers, by their
   names, that have not been given a script. *)
FailuresReported ==
    pc = "done" => Cardinality({w \in WorkerSet : script[Address[w]].rank = 0}) <= failed

(* The dispatching thread comes to an end, whatever the workers do. *)
DispatchEnds == <>(pc \in {"done", "gaveup"})

(* What the dispatch takes at most for one worker: its probes, and for each request the
   sending and the wait *)
StepsForWorker == MaxProbes + 2 * MaxTries

(* What it takes at most from here *)
StepsLeft ==
    LET others == (Len(Workers) - rank) * StepsForWorker
    IN  CASE pc = "register" -> MaxPolls - polls + Len(Workers) * StepsForWorker
          [] pc = "probe"    -> MaxProbes - tries + 2 * MaxTries + others
          [] pc = "post"     -> 2 * (MaxTries - tries) + others
          [] pc = "await"    -> 1 + 2 * (MaxTries - tries) + others
          [] OTHER           -> 0

(* It ends within a number of waits that is known beforehand: whatever the workers do, each
   step of the thread brings its end nearer, and nothing but a restart of the master's
   launcher puts it off. *)
DispatchAdvances ==
    [][/\ Dispatch => /\ StepsLeft' \in Nat /\ StepsLeft' < StepsLeft
                      /\ StepsLeft' = 0 => pc' \in {"done", "gaveup"}
       /\ Dispatch \/ MasterRestarts \/ UNCHANGED <<pc, polls, rank, tries>>]_vars

(* "atomic: so that the engine never reads a truncated script" (_write_start_command):
   what an engine container has run was a whole script. *)
EngineRunsWholeScript == \A h \in Host : engine[h].rank > 0 => engine[h].whole
=============================================================================
