----------------------------- MODULE Supervisor -----------------------------
(***************************************************************************)
(* wings_control.py: how the launcher starts, watches and stops the        *)
(* proxy and health processes.  Standalone mode makes two launch attempts; *)
(* the other modes start their processes once.  All of them end in         *)
(* _daemon_loop, which looks at every process once per PROCESS_POLL_SEC.   *)
(*                                                                         *)
(* Time passes in the loop's sleep only, one unit per turn, and is kept as *)
(* the time since a process was started and the time its backoff has left. *)
(* early is a history variable, which no step looks at.                    *)
(***************************************************************************)
EXTENDS Naturals, Sequences, FiniteSets, SequencesExt, FiniteSetsExt

CONSTANTS
    Modes,          (* the modes a launcher may be started in *)
    Threshold,      (* crash_threshold_sec, in turns of the loop *)
    MaxBackoff,     (* max_backoff_sec, in turns of the loop *)
    MaxCrashes      (* bound on crash_count: from there on the backoff is MaxBackoff *)

Mode == {"standalone", "peer", "master", "worker"}

ASSUME SupervisorAssumption ==
    /\ Modes \in SUBSET Mode
    /\ Threshold \in Nat /\ MaxBackoff \in Nat /\ MaxCrashes \in Nat \ {0}
    /\ 2 ^ MaxCrashes >= MaxBackoff

(* Only rank 0 has a proxy; "peer" is standalone mode with node_rank > 0. *)
Managed(m) == IF m \in {"standalone", "master"} THEN <<"proxy", "health">> ELSE <<"health">>

Name == {"proxy", "health"}

VARIABLES
    mode,
    pc,         \* what the launcher is about to do
    i,          \* the process of the list it is at
    attempt,    \* launch attempts that have failed, in standalone mode
    os,         \* the process behind ManagedProc.proc, "none" where that is None
    leaked,     \* processes that run although no ManagedProc refers to them
    crashes,    \* crash_count
    early,      \* exits in a row that did come within Threshold of the start
    stamped,    \* processes whose last_start_ts is set
    age,        \* time since the process was started, up to Threshold
    wait,       \* time left until backoff_until
    alldead,    \* the local variable all_dead
    stop,       \* stop_event
    code        \* exit_code

clocks == <<crashes, early, stamped, age, wait>>

vars == <<mode, pc, i, attempt, os, leaked, clocks, alldead, stop, code>>

Processes == Managed(mode)
ProcessSet == ToSet(Processes)

TypeOK ==
    /\ mode \in Modes
    /\ pc \in {"launch", "settle", "check", "restart", "poll", "sleep", "stop", "ended"}
    /\ i \in 1..Len(Processes)
    /\ attempt \in 0..2
    /\ os \in [Name -> {"none", "alive", "dead"}]
    /\ leaked \in SUBSET Name
    /\ crashes \in [Name -> 0..MaxCrashes] /\ early \in [Name -> 0..MaxCrashes]
    /\ stamped \in SUBSET Name
    /\ age \in [Name -> 0..Threshold]
    /\ wait \in [Name -> 0..MaxBackoff]
    /\ alldead \in BOOLEAN /\ stop \in BOOLEAN /\ code \in {0, 1}

Init ==
    /\ mode \in Modes
    /\ pc = "launch"
    /\ i = 1
    /\ attempt = 0
    /\ os = [p \in Name |-> "none"]
    /\ leaked = {}
    /\ crashes = [p \in Name |-> 0] /\ early = [p \in Name |-> 0]
    /\ stamped = {}
    /\ age = [p \in Name |-> 0]
    /\ wait = [p \in Name |-> 0]
    /\ alldead = FALSE /\ stop = FALSE /\ code = 0

HasAttempts == mode \in {"standalone", "peer"}
InDaemonLoop == pc \in {"check", "restart", "poll", "sleep"}
(* _start: Popen may raise OSError, which is only logged. *)
Started(p) == \E s \in {"alive", "none"} : os' = [os EXCEPT ![p] = s]
-----------------------------------------------------------------------------
(* Faulty variants *)

(* all_dead is set by the last process alone. *)
PollAlive_LastOnly ==
    /\ pc = "poll"
    /\ alldead' = (os[Processes[i]] # "alive")
    /\ IF i < Len(Processes)
       THEN i' = i + 1 /\ pc' = "restart" /\ UNCHANGED code
       ELSE /\ i' = 1
            /\ IF alldead' THEN pc' = "stop" /\ code' = 1
                           ELSE pc' = "sleep" /\ UNCHANGED code
    /\ UNCHANGED <<mode, attempt, os, leaked, clocks, stop>>

(* The end of the backoff is pushed out at every look. *)
RestartMissing_Postpones(p) ==
    /\ os[p] = "none"
    /\ IF crashes[p] > 0 THEN wait' = [wait EXCEPT ![p] = MaxBackoff] /\ UNCHANGED os
                         ELSE UNCHANGED wait /\ os' = [os EXCEPT ![p] = "alive"]
    /\ stamped' = stamped \cup {p}
    /\ UNCHANGED <<crashes, early, age>>

(* Starting again from the backoff leaves last_start_ts as it is. *)
RestartMissing_Unstamped(p) ==
    /\ os[p] = "none"
    /\ IF wait[p] > 0 THEN UNCHANGED <<os, age>>
                      ELSE age' = [age EXCEPT ![p] = 0] /\ Started(p)
    /\ UNCHANGED <<crashes, early, stamped, wait>>
-----------------------------------------------------------------------------
(* One try at starting every process. *)
StartAll ==
    /\ pc = "launch"
    /\ os' \in [Name -> {"none", "alive"}]
    /\ \A p \in Name \ ProcessSet : os'[p] = "none"
    /\ pc' = IF HasAttempts THEN "settle" ELSE "check"
    /\ UNCHANGED <<mode, i, attempt, leaked, clocks, alldead, stop, code>>

(* An attempt has failed: the caller's list of processes is still empty, so that
   nothing is stopped, and the attempt's own list is lost. *)
AttemptFails ==
    /\ leaked' = leaked \cup {p \in Name : os[p] = "alive"}
    /\ os' = [p \in Name |-> "none"]
    /\ attempt' = attempt + 1
    /\ IF attempt = 0 THEN pc' = "launch" /\ UNCHANGED code
                      ELSE pc' = "ended" /\ code' = 1
    /\ UNCHANGED <<mode, i, clocks, alldead, stop>>

(* The plan cannot be built or the start command cannot be written. *)
PlanFails == pc = "launch" /\ HasAttempts /\ AttemptFails

(* _check_all_running, two seconds later: one that could not be started does not count. *)
SomeExitedAtOnce ==
    /\ pc = "settle"
    /\ \E p \in ProcessSet : os[p] = "dead"
    /\ AttemptFails

AllRunning ==
    /\ pc = "settle"
    /\ \A p \in ProcessSet : os[p] # "dead"
    /\ pc' = "check"
    /\ UNCHANGED <<mode, i, attempt, os, leaked, clocks, alldead, stop, code>>
-----------------------------------------------------------------------------
(* The head of the daemon loop *)
Turn ==
    /\ pc = "check"
    /\ IF stop THEN pc' = "stop" /\ UNCHANGED alldead
               ELSE pc' = "restart" /\ alldead' = TRUE
    /\ UNCHANGED <<mode, i, attempt, os, leaked, clocks, stop, code>>

(* _restart_if_needed on a process without a handle: started once its backoff is over *)
RestartMissing(p) ==
    /\ os[p] = "none"
    /\ IF wait[p] > 0
       THEN UNCHANGED <<os, stamped, age>>
       ELSE /\ stamped' = stamped \cup {p}
            /\ age' = [age EXCEPT ![p] = 0]
            /\ Started(p)
    /\ UNCHANGED <<crashes, early, wait>>

LeaveRunning(p) == os[p] = "alive" /\ UNCHANGED <<os, clocks>>

(* One that exited within Threshold of its start, or was started by the launch itself,
   which does not set last_start_ts: it has to wait. *)
CountCrash(p) ==
    /\ os[p] = "dead"
    /\ p \notin stamped \/ age[p] < Threshold
    /\ os' = [os EXCEPT ![p] = "none"]
    /\ crashes' = [crashes EXCEPT ![p] = Min({@ + 1, MaxCrashes})]
    /\ early' = [early EXCEPT ![p] = IF age[p] < Threshold THEN Min({@ + 1, MaxCrashes}) ELSE 0]
    /\ wait' = [wait EXCEPT ![p] = Min({2 ^ crashes'[p], MaxBackoff})]
    /\ UNCHANGED <<stamped, age>>

(* One that ran for longer is started again at once. *)
RestartStable(p) ==
    /\ os[p] = "dead"
    /\ p \in stamped /\ age[p] >= Threshold
    /\ crashes' = [crashes EXCEPT ![p] = 0] /\ early' = [early EXCEPT ![p] = 0]
    /\ age' = [age EXCEPT ![p] = 0]
    /\ Started(p)
    /\ UNCHANGED <<stamped, wait>>

RestartIfNeeded ==
    /\ pc = "restart"
    /\ \/ RestartMissing(Processes[i])
       \/ LeaveRunning(Processes[i])
       \/ CountCrash(Processes[i])
       \/ RestartStable(Processes[i])
    /\ pc' = "poll"
    /\ UNCHANGED <<mode, i, attempt, leaked, alldead, stop, code>>

(* The rest of _check_and_restart_all for this process, and after the last one the
   decision to give up. *)
PollAlive ==
    /\ pc = "poll"
    /\ alldead' = (alldead /\ os[Processes[i]] # "alive")
    /\ IF i < Len(Processes)
       THEN i' = i + 1 /\ pc' = "restart" /\ UNCHANGED code
       ELSE /\ i' = 1
            /\ IF alldead' THEN pc' = "stop" /\ code' = 1
                           ELSE pc' = "sleep" /\ UNCHANGED code
    /\ UNCHANGED <<mode, attempt, os, leaked, clocks, stop>>

(* time.sleep(PROCESS_POLL_SEC) *)
Sleep ==
    /\ pc = "sleep"
    /\ pc' = "check"
    /\ age' = [p \in Name |-> Min({age[p] + 1, Threshold})]
    /\ wait' = [p \in Name |-> IF wait[p] > 0 THEN wait[p] - 1 ELSE 0]
    /\ UNCHANGED <<mode, i, attempt, os, leaked, crashes, early, stamped, alldead, stop, code>>

(* The finally of _daemon_loop: SIGTERM and, if need be, SIGKILL.  A process that runs
   on for five more seconds is given up, and its handle dropped all the same. *)
StopAll ==
    /\ pc = "stop"
    /\ pc' = "ended"
    /\ os' = [p \in Name |-> "none"]
    /\ \E survivors \in SUBSET {p \in Name : os[p] = "alive"} : leaked' = leaked \cup survivors
    /\ UNCHANGED <<mode, i, attempt, clocks, alldead, stop, code>>

(* SIGTERM or SIGINT: the handlers are installed by _daemon_loop. *)
Signal ==
    /\ InDaemonLoop /\ ~stop
    /\ stop' = TRUE
    /\ UNCHANGED <<mode, pc, i, attempt, os, leaked, clocks, alldead, code>>

(* A process exits, of its own or killed, whoever still refers to it. *)
Exit(p) ==
    /\ pc # "ended"
    /\ \/ os[p] = "alive" /\ os' = [os EXCEPT ![p] = "dead"] /\ UNCHANGED leaked
       \/ p \in leaked /\ leaked' = leaked \ {p} /\ UNCHANGED os
    /\ UNCHANGED <<mode, pc, i, attempt, clocks, alldead, stop, code>>
-----------------------------------------------------------------------------
Launch == StartAll \/ PlanFails \/ SomeExitedAtOnce \/ AllRunning

Daemon == Turn \/ RestartIfNeeded \/ PollAlive \/ Sleep \/ StopAll

Next ==
    \/ Launch
    \/ Daemon
    \/ Signal
    \/ \E p \in Name : Exit(p)

Spec == Init /\ [][Next]_vars

(* The launcher's own thread keeps running, and Popen does not raise OSError every time
   that it is tried.  Nothing is assumed of exits and signals. *)
FairSpec ==
    /\ Spec
    /\ WF_vars(Launch)
    /\ WF_vars(Daemon)
    /\ \A p \in Name : SF_vars(RestartIfNeeded /\ os[p] # "alive" /\ os'[p] = "alive")
-----------------------------------------------------------------------------
(* The launcher gives up on a round in which it saw every process down, and none of
   them has come up meanwhile: one that serves is never taken down by another's crash. *)
GivesUpOnlyWhenAllDown ==
    [][pc = "poll" /\ code' # code => \A p \in ProcessSet : os[p] # "alive"]_vars

(* crash_count, and with it the backoff, counts the exits in a row that did come soon
   after the start, and at most one more: the first exit of a process that the launch
   itself started, whose last_start_ts is not set.  Through failed starts, long runs and
   exits at any point of the loop the mistake does not add up. *)
OneExitMiscounted ==
    \A p \in Name : early[p] <= crashes[p] /\ crashes[p] <= early[p] + 1

(* "Exited: restart": a managed process that has exited runs again in the end, unless
   the launcher itself returns. *)
RestartedOrGivenUp ==
    \A p \in Name : os[p] = "dead" ~> os[p] = "alive" \/ pc = "ended"

(* "After consecutive crashes: wait min(2^crash_count, 60) seconds, then restart"
   (_restart_if_needed).  So the launcher does not give up of its own accord while a
   process of its list is waiting for that restart. *)
BackoffEndsInRestart == pc = "stop" /\ code = 1 => \A p \in ProcessSet : wait[p] = 0

(* "Exits after running stably for more than 30 seconds: the crash counter is reset"
   (_restart_if_needed). *)
StableExitIsForgiven == \A p \in Name : early[p] = 0 => crashes[p] = 0

(* "Stop the managed processes one by one" (_stop_processes), as the handler of a failed
   attempt does before the next: so that the next does not start its processes beside
   those of the first. *)
RetryStartsClean == pc = "launch" /\ attempt > 0 => leaked = {}
=============================================================================
