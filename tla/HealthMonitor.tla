---------------------------- MODULE HealthMonitor ----------------------------
(***************************************************************************)
(* proxy/health_router.py: the state dictionary h that every proxy worker  *)
(* and the health service keep of the engine, advanced by their own        *)
(* monitor loop, and the HTTP code they derive from it whenever somebody   *)
(* asks.  Nothing but the loop writes h, and it does so without suspending,*)
(* so that a request sees it between two observations.                     *)
(*                                                                         *)
(* A step is one whole round of the loop: a pause, with its jitter, the TCP*)
(* probe of the engine's port, and the HTTP probe of /health, which may    *)
(* wait HEALTH_TIMEOUT_MS for the connection and as long again for the     *)
(* answer.  How long each of them takes is drawn from a set, in any unit of*)
(* time; the state is that at the end of the round.  fail_score is counted *)
(* in quarters and accum_fail_ms in quarters of a unit, both rounded down. *)
(*                                                                         *)
(* Left out: a probe that waits for a connection of the pool or is answered*)
(* piece by piece, neither of which has a time limit, and exceptions other *)
(* than httpx's.                                                           *)
(***************************************************************************)
EXTENDS Naturals, FiniteSets, FiniteSetsExt

CONSTANTS
    Engines,        (* the values of ENGINE: "sglang", or "other" *)
    Pauses,         (* lengths of a pause: POLL_INTERVAL_MS, or before the engine was ready
                       PRE_READY_POLL_MS, with the jitter *)
    LongPauses,     (* the same for 9000 ms *)
    TcpTimes,       (* times the TCP probe may take: ENGINE_TCP_TIMEOUT at most *)
    HttpTimes,      (* times the HTTP probe may take: twice HEALTH_TIMEOUT_MS at most *)
    HealthTimeout,  (* HEALTH_TIMEOUT_MS *)
    StartupGrace,   (* STARTUP_GRACE_MS *)
    FailThreshold,  (* FAIL_THRESHOLD *)
    FailGrace,      (* FAIL_GRACE_MS *)
    SilenceMax,     (* SGLANG_SILENCE_MAX_MS *)
    PidGrace,       (* SGLANG_PID_GRACE_MS *)
    TimeoutMax,     (* SGLANG_CONSEC_TIMEOUT_MAX *)
    Budget,         (* SGLANG_FAIL_BUDGET, in whole points *)
    ScoreMax,       (* bound on fail_score, in quarters *)
    AccumMax,       (* bound on accum_fail_ms, in quarters of a unit *)
    Forever         (* bound on the time since the last success *)

(* The lengths of a round that pauses for one of ps *)
Rounds(ps) == {p + a + b : p \in ps, a \in TcpTimes, b \in HttpTimes}

LongestRound == Max(Rounds(Pauses))
ShortestRound == Min(Rounds(Pauses))

(* The failures that _should_degrade asks for *)
FailuresNeeded == Max({FailThreshold, (FailGrace + HealthTimeout - 1) \div HealthTimeout})

(* Each kind of pause has a shortest and a longest round. *)
Bounded(ps) ==
    /\ ps \in SUBSET Nat
    /\ \E r \in Rounds(ps) : \A s \in Rounds(ps) : s <= r
    /\ \E r \in Rounds(ps) : \A s \in Rounds(ps) : r <= s

ASSUME HealthAssumption ==
    /\ Engines \subseteq {"sglang", "other"}
    /\ TcpTimes \in SUBSET Nat /\ HttpTimes \in SUBSET Nat
    /\ Bounded(Pauses) /\ Bounded(LongPauses)
    /\ {StartupGrace, SilenceMax, PidGrace, Budget, ScoreMax, AccumMax, Forever} \subseteq Nat
    /\ {HealthTimeout, FailThreshold, FailGrace, TimeoutMax} \subseteq Nat \ {0}
    /\ 4 * Budget <= ScoreMax /\ 4 * FailGrace <= AccumMax
    /\ PidGrace < Forever /\ SilenceMax <= Forever /\ FailuresNeeded * LongestRound < Forever

VARIABLES
    engine,                 \* ENGINE
    status,                 \* 0 starting, 1 ready, 2 degraded (-1 in the code)
    ever_ready,
    backend_ok,             \* the outcome of the last probe
    consecutive_failures,
    consecutive_timeouts,
    fail_score,
    accum_fail,             \* accum_fail_ms
    age,                    \* from first_seen to the last observation, up to StartupGrace
    silence                 \* from last_success_ts to the last observation, up to Forever

counts == <<consecutive_failures, consecutive_timeouts, fail_score, accum_fail>>

vars == <<engine, status, ever_ready, backend_ok, counts, age, silence>>

(* Failed probes by kind: http_code 0 with its err_kind, or by the code.  A 503 is like a
   connect_error, another 5xx like a request_error. *)
Timeout == {"connect_timeout", "read_timeout"}
Failure == Timeout \cup {"connect_error", "5xx", "not_5xx"}

TypeOK ==
    /\ engine \in Engines
    /\ status \in 0..2
    /\ ever_ready \in BOOLEAN /\ backend_ok \in BOOLEAN
    /\ consecutive_failures \in 0..FailuresNeeded
    /\ consecutive_timeouts \in 0..TimeoutMax
    /\ fail_score \in 0..ScoreMax /\ accum_fail \in 0..AccumMax
    /\ age \in 0..StartupGrace /\ silence \in 0..Forever

Init ==
    /\ engine \in Engines
    /\ status = 0
    /\ ever_ready = FALSE /\ backend_ok = FALSE
    /\ consecutive_failures = 0 /\ consecutive_timeouts = 0
    /\ fail_score = 0 /\ accum_fail = 0
    /\ age = 0 /\ silence = 0

Sglang == engine = "sglang"
-----------------------------------------------------------------------------
(* Faulty variants *)

(* A success leaves the failures of before standing. *)
Forgive_Nothing == UNCHANGED consecutive_failures

(* One failure too late, in one of the two places that test it *)
ShouldDegrade_TooLate(n) == n > FailThreshold /\ n * HealthTimeout >= FailGrace

FailuresHit_TooLate ==
    /\ consecutive_failures > FailThreshold
    /\ consecutive_failures * HealthTimeout >= FailGrace
-----------------------------------------------------------------------------
(* _should_degrade *)
ShouldDegrade(n) == n >= FailThreshold /\ n * HealthTimeout >= FailGrace

(* The same test as map_http_code_from_state repeats it *)
FailuresHit ==
    /\ consecutive_failures >= FailThreshold
    /\ consecutive_failures * HealthTimeout >= FailGrace

(* _sglang_weight, in quarters *)
Weight(o) ==
    CASE o = "connect_error" -> 4
      [] o = "connect_timeout" -> 3
      [] o = "5xx" -> 2
      [] o = "read_timeout" -> 1
      [] o = "not_5xx" -> 0

BudgetHit == fail_score >= 4 * Budget \/ accum_fail >= 4 * FailGrace

TimeoutsHit(now) == consecutive_timeouts >= TimeoutMax /\ now >= PidGrace

Unavailable(now) ==
    IF Sglang THEN now >= SilenceMax \/ TimeoutsHit(now) \/ BudgetHit
              ELSE FailuresHit

(* map_http_code_from_state, asked t after the last observation *)
CodeAfter(t) ==
    IF backend_ok /\ ever_ready /\ status = 1 THEN 200
    ELSE IF ~ever_ready THEN (IF age + t < StartupGrace THEN 201 ELSE 502)
    ELSE IF Unavailable(silence + t) THEN 503 ELSE 200

(* The pause that _jittered_sleep_base chooses *)
NextPauses == IF Sglang /\ fail_score + 4 >= 4 * Budget THEN LongPauses ELSE Pauses

(* A round of length d comes to its end.  The first has no pause, which only age could
   tell. *)
Elapse(d) == age' = Min({age + d, StartupGrace})

SilenceAfter(d) == IF ever_ready THEN Min({silence + d, Forever}) ELSE 0

(* The parts of _advance_state_machine on success *)
Forgive == consecutive_failures' = 0

Heard == silence' = 0
-----------------------------------------------------------------------------
(* tick_observe_and_advance with a probe that was answered by 200 *)
ObserveSuccess ==
    /\ \E d \in Rounds(NextPauses) : Elapse(d)
    /\ backend_ok' = TRUE
    /\ status' = 1 /\ ever_ready' = TRUE
    /\ Forgive /\ Heard
    /\ IF Sglang
       THEN /\ consecutive_timeouts' = 0
            /\ fail_score' = fail_score \div 2
            /\ accum_fail' = accum_fail \div 2
       ELSE UNCHANGED <<consecutive_timeouts, fail_score, accum_fail>>
    /\ UNCHANGED engine

(* _update_consecutive_timeouts: a failure of another kind leaves the count. *)
CountTimeout(o) ==
    consecutive_timeouts' = IF o = "read_timeout"
                            THEN Min({consecutive_timeouts + 1, TimeoutMax})
                            ELSE consecutive_timeouts

(* _handle_failure_case: a read timeout is free for a while after a success, if the
   engine's port can be reached. *)
InGrace(o, alive, now) == alive /\ o = "read_timeout" /\ ever_ready /\ now <= PidGrace

Penalise(o, alive, now, latency) ==
    IF InGrace(o, alive, now)
    THEN UNCHANGED <<fail_score, accum_fail>>
    ELSE /\ fail_score' = Min({fail_score + Weight(o), ScoreMax})
         /\ accum_fail' = Min({accum_fail + Weight(o) * Min({latency, HealthTimeout}), AccumMax})

(* tick_observe_and_advance with a probe that failed *)
ObserveFailure(o) ==
    /\ \E p \in NextPauses, a \in TcpTimes, b \in HttpTimes :
        /\ o \in Timeout => b >= HealthTimeout
        /\ Elapse(p + a + b)
        /\ silence' = SilenceAfter(p + a + b)
        /\ IF Sglang
           THEN \E alive \in BOOLEAN : Penalise(o, alive, silence', b)
           ELSE UNCHANGED <<fail_score, accum_fail>>
    /\ backend_ok' = FALSE
    /\ IF status = 1
       THEN /\ consecutive_failures' = consecutive_failures + 1
            /\ status' = IF ShouldDegrade(consecutive_failures') THEN 2 ELSE 1
       ELSE UNCHANGED <<consecutive_failures, status>>
    /\ IF Sglang THEN CountTimeout(o) ELSE UNCHANGED consecutive_timeouts
    /\ UNCHANGED <<engine, ever_ready>>

Next ==
    \/ ObserveSuccess
    \/ \E o \in Failure : ObserveFailure(o)

Spec == Init /\ [][Next]_vars
-----------------------------------------------------------------------------
(* How long an engine may be silent: sglang SGLANG_SILENCE_MAX_MS, any other as many of
   the longest rounds as failures are needed, since nothing but failures is counted. *)
Patience == IF Sglang THEN SilenceMax ELSE FailuresNeeded * LongestRound + 1

(* An engine that was ready and has been silent for longer than Patience is reported as
   unavailable whenever somebody asks, the round under way included, whatever kinds of
   failure the probes met with and however slow they were: the counters, which stand
   still in some states and are forgiven in others, never keep a dead engine in service. *)
LongSilenceIsReported ==
    ever_ready => \A t \in 0..Max(Rounds(NextPauses)) :
                    silence + t >= Patience => CodeAfter(t) = 503

(* An engine other than sglang is not reported before it has been silent for as many of
   the shortest rounds as failures are needed.  The code counts failures for time:
   FAIL_GRACE_MS is kept in the proportion of the shortest round to HEALTH_TIMEOUT_MS
   only, that is less the jitter (22.5 of 25 seconds). *)
GraceIsKeptButForJitter ==
    ~Sglang /\ CodeAfter(0) = 503 =>
        /\ silence >= FailThreshold * ShortestRound
        /\ silence * HealthTimeout >= FailGrace * ShortestRound

(* For engines other than sglang the two answers of /health agree: its status code is 503
   exactly while the state in its body is "degraded", although the two are computed apart,
   from counters that only one of them writes.  For sglang they do not
   (SglangCodeAndStatusAgree). *)
CodeAndStatusAgreeButForSglang == ~Sglang => (CodeAfter(0) = 503 <=> status = 2)

SglangCodeAndStatusAgree == Sglang => (CodeAfter(0) = 503 <=> status = 2)
=============================================================================
