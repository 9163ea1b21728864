------------------------- MODULE HealthMonitorProofs -------------------------
(***************************************************************************)
(* Proofs about HealthMonitor, for any thresholds, any lengths of pauses   *)
(* and probes, and any engines.                                            *)
(*                                                                         *)
(* The state, the code and the counters are computed apart.  What ties     *)
(* them together is what the loop keeps between two observations: the      *)
(* failures counted against a ready engine stop at the first that degrades *)
(* it, and each stands for a round, which is neither shorter than the      *)
(* shortest nor longer than the longest.                                   *)
(***************************************************************************)
EXTENDS HealthMonitor, TLAPS

(* Degraded at the first failure that both thresholds call for, ready before it *)
StatusFollowsFailures ==
    /\ ever_ready <=> status # 0
    /\ backend_ok => status = 1 /\ silence = 0
    /\ status = 0 => consecutive_failures = 0 /\ silence = 0
    /\ status = 1 => ~ShouldDegrade(consecutive_failures)
    /\ status = 2 => ShouldDegrade(consecutive_failures)

(* The failures counted against another engine than sglang measure its silence. *)
FailuresTakeTime ==
    ~Sglang =>
        /\ silence >= consecutive_failures * ShortestRound
        /\ status = 1 => silence <= consecutive_failures * LongestRound

Inv == TypeOK /\ StatusFollowsFailures /\ FailuresTakeTime

(* sglang's longest rounds are over before its silence is too long. *)
SglangRoundsFit ==
    Max(Rounds(Pauses)) < SilenceMax /\ Max(Rounds(LongPauses)) < SilenceMax
-----------------------------------------------------------------------------
LEMMA MinOfTwo ==
    ASSUME NEW a \in Int, NEW b \in Int
    PROVE  Min({a, b}) = IF a <= b THEN a ELSE b
<1> DEFINE m == IF a <= b THEN a ELSE b
<1>1. m \in {a, b} /\ \A y \in {a, b} : m <= y
  OBVIOUS
<1>2. \A x \in {a, b} : (\A y \in {a, b} : x <= y) => x = m
  OBVIOUS
<1>3. QED
  BY <1>1, <1>2 DEF Min

LEMMA MaxOfTwo ==
    ASSUME NEW a \in Int, NEW b \in Int
    PROVE  Max({a, b}) = IF a >= b THEN a ELSE b
<1> DEFINE m == IF a >= b THEN a ELSE b
<1>1. m \in {a, b} /\ \A y \in {a, b} : m >= y
  OBVIOUS
<1>2. \A x \in {a, b} : (\A y \in {a, b} : x >= y) => x = m
  OBVIOUS
<1>3. QED
  BY <1>1, <1>2 DEF Max

(* Rounding up *)
LEMMA Ceiling ==
    ASSUME NEW g \in Nat \ {0}, NEW h \in Nat \ {0}
    PROVE  /\ (g + h - 1) \div h \in Nat
           /\ ((g + h - 1) \div h) * h >= g
           /\ \A n \in Nat : n * h >= g => n >= (g + h - 1) \div h
<1> DEFINE c == (g + h - 1) \div h
<1>1. c \in Nat /\ c * h >= g /\ c * h <= g + h - 1
  OBVIOUS
<1>2. ASSUME NEW n \in Nat, n * h >= g, n < c
      PROVE  FALSE
  <2>1. n + 1 <= c
    BY <1>1, <1>2
  <2>2. (n + 1) * h <= c * h
    <3> HIDE DEF c
    <3>1. QED
      BY <1>1, <2>1
  <2>3. (n + 1) * h = n * h + h /\ n * h \in Nat
    OBVIOUS
  <2>4. QED
    BY <1>1, <1>2, <2>2, <2>3
<1>3. QED
  BY <1>1, <1>2

(* _should_degrade is one threshold, the later of the two. *)
LEMMA FailuresBound ==
    /\ FailuresNeeded \in Nat \ {0}
    /\ \A n \in Nat : ShouldDegrade(n) <=> n >= FailuresNeeded
<1> DEFINE c == (FailGrace + HealthTimeout - 1) \div HealthTimeout
<1>1. FailThreshold \in Nat \ {0} /\ FailGrace \in Nat \ {0} /\ HealthTimeout \in Nat \ {0}
  BY HealthAssumption
<1>2. /\ c \in Nat /\ c * HealthTimeout >= FailGrace
      /\ \A n \in Nat : n * HealthTimeout >= FailGrace => n >= c
  BY <1>1, Ceiling
<1>3. FailuresNeeded = IF FailThreshold >= c THEN FailThreshold ELSE c
  BY <1>1, <1>2, MaxOfTwo DEF FailuresNeeded
<1>4. ASSUME NEW n \in Nat, n >= c
      PROVE  n * HealthTimeout >= FailGrace
  <2> HIDE DEF c
  <2>1. n * HealthTimeout >= c * HealthTimeout
    BY <1>1, <1>2, <1>4
  <2>2. n * HealthTimeout \in Nat /\ c * HealthTimeout \in Nat
    BY <1>1, <1>2
  <2>3. QED
    BY <1>1, <1>2, <2>1, <2>2
<1> HIDE DEF c
<1>5. QED
  BY <1>1, <1>2, <1>3, <1>4 DEF ShouldDegrade

LEMMA RoundsMax ==
    ASSUME NEW ps, Bounded(ps)
    PROVE  Max(Rounds(ps)) \in Nat /\ \A d \in Rounds(ps) : d \in Nat /\ d <= Max(Rounds(ps))
<1>1. \A d \in Rounds(ps) : d \in Nat
  BY HealthAssumption DEF Rounds, Bounded
<1>2. PICK m \in Rounds(ps) : \A d \in Rounds(ps) : d <= m
  BY DEF Bounded
<1>3. \A d \in Rounds(ps) : m >= d
  BY <1>1, <1>2
<1>4. /\ Max(Rounds(ps)) \in Rounds(ps)
      /\ \A d \in Rounds(ps) : Max(Rounds(ps)) >= d
  BY <1>3 DEF Max
<1>5. QED
  BY <1>1, <1>4

LEMMA RoundsMin ==
    ASSUME NEW ps, Bounded(ps)
    PROVE  Min(Rounds(ps)) \in Nat /\ \A d \in Rounds(ps) : d \in Nat /\ Min(Rounds(ps)) <= d
<1>1. \A d \in Rounds(ps) : d \in Nat
  BY HealthAssumption DEF Rounds, Bounded
<1>2. PICK m \in Rounds(ps) : \A d \in Rounds(ps) : m <= d
  BY DEF Bounded
<1>3. /\ Min(Rounds(ps)) \in Rounds(ps)
      /\ \A d \in Rounds(ps) : Min(Rounds(ps)) <= d
  BY <1>2 DEF Min
<1>4. QED
  BY <1>1, <1>3

LEMMA RoundTypes ==
    /\ LongestRound \in Nat /\ ShortestRound \in Nat /\ ShortestRound <= LongestRound
    /\ FailuresNeeded * LongestRound \in Nat
    /\ \A d \in Rounds(Pauses) : d \in Nat /\ ShortestRound <= d /\ d <= LongestRound
    /\ \A d \in Rounds(NextPauses) : d \in Nat
<1>1. Bounded(Pauses) /\ Bounded(LongPauses) /\ (NextPauses = Pauses \/ NextPauses = LongPauses)
  BY HealthAssumption DEF NextPauses
<1>2. /\ LongestRound \in Nat /\ ShortestRound \in Nat
      /\ \A d \in Rounds(Pauses) : d \in Nat /\ ShortestRound <= d /\ d <= LongestRound
  BY <1>1, RoundsMax, RoundsMin DEF LongestRound, ShortestRound
<1>3. \A d \in Rounds(NextPauses) : d \in Nat
  BY <1>1, RoundsMax
<1>4. \E d : d \in Rounds(Pauses)
  BY <1>1 DEF Bounded
<1>5. QED
  BY <1>2, <1>3, <1>4, FailuresBound

LEMMA Multiples ==
    ASSUME NEW a \in Nat, NEW b \in Nat, NEW c \in Nat, a <= b
    PROVE  a * c \in Nat /\ b * c \in Nat /\ a * c <= b * c /\ (a + 1) * c = a * c + c
OBVIOUS
-----------------------------------------------------------------------------
LEMMA InitInv == Init => Inv
<1> SUFFICES ASSUME Init PROVE Inv
  OBVIOUS
<1>1. FailuresNeeded \in Nat \ {0} /\ ~ShouldDegrade(0)
  BY FailuresBound
<1>2. TypeOK
  <2>1. ever_ready \in BOOLEAN /\ backend_ok \in BOOLEAN
    BY DEF Init
  <2>2. QED
    BY <1>1, <2>1, HealthAssumption DEF Init, TypeOK
<1>3. 0 * ShortestRound = 0
  BY RoundTypes
<1>4. QED
  BY <1>1, <1>2, <1>3 DEF Init, Inv, StatusFollowsFailures, FailuresTakeTime

LEMMA AgeType ==
    ASSUME TypeOK, NEW d \in Nat, Elapse(d)
    PROVE  age' \in 0..StartupGrace
<1>1. StartupGrace \in Nat /\ age \in 0..StartupGrace
  BY HealthAssumption DEF TypeOK
<1>2. QED
  BY <1>1, MinOfTwo DEF Elapse

LEMMA SuccessInv == Inv /\ ObserveSuccess => Inv'
<1> SUFFICES ASSUME Inv, ObserveSuccess PROVE Inv'
  OBVIOUS
<1>1. engine' = engine /\ age' \in 0..StartupGrace
  BY RoundTypes, AgeType DEF ObserveSuccess, Inv
<1>2. /\ consecutive_failures' = 0 /\ silence' = 0
      /\ status' = 1 /\ ever_ready' = TRUE /\ backend_ok' = TRUE
  BY DEF ObserveSuccess, Forgive, Heard
<1>3. FailuresNeeded \in Nat \ {0} /\ ~ShouldDegrade(0)
  BY FailuresBound
<1>4. consecutive_timeouts' \in 0..TimeoutMax /\ fail_score' \in 0..ScoreMax
      /\ accum_fail' \in 0..AccumMax
  BY HealthAssumption DEF ObserveSuccess, Inv, TypeOK
<1>5. TypeOK'
  <2>1. ever_ready' \in BOOLEAN /\ backend_ok' \in BOOLEAN
    BY <1>2
  <2>2. engine' \in Engines
    BY <1>1 DEF Inv, TypeOK
  <2>3. QED
    BY <1>1, <1>2, <1>3, <1>4, <2>1, <2>2, HealthAssumption DEF TypeOK
<1>6. StatusFollowsFailures'
  BY <1>2, <1>3 DEF StatusFollowsFailures
<1>7. FailuresTakeTime'
  <2>1. 0 * ShortestRound = 0 /\ 0 * LongestRound = 0
    BY RoundTypes
  <2>2. QED
    BY <1>2, <2>1 DEF FailuresTakeTime
<1>8. QED
  BY <1>5, <1>6, <1>7 DEF Inv

(* A failed probe never takes the counters of sglang out of their ranges. *)
LEMMA PenaltyType ==
    ASSUME Inv, NEW o \in Failure, ObserveFailure(o)
    PROVE  /\ consecutive_timeouts' \in 0..TimeoutMax
           /\ fail_score' \in 0..ScoreMax /\ accum_fail' \in 0..AccumMax
<1>1. /\ TimeoutMax \in Nat /\ ScoreMax \in Nat /\ AccumMax \in Nat
      /\ HealthTimeout \in Nat /\ HttpTimes \in SUBSET Nat
      /\ consecutive_timeouts \in 0..TimeoutMax
      /\ fail_score \in 0..ScoreMax /\ accum_fail \in 0..AccumMax
  BY HealthAssumption DEF Inv, TypeOK
<1>2. Weight(o) \in 0..4
  BY DEF Weight, Failure, Timeout
<1>3. consecutive_timeouts' \in 0..TimeoutMax
  <2>1. Min({consecutive_timeouts + 1, TimeoutMax})
          = IF consecutive_timeouts + 1 <= TimeoutMax THEN consecutive_timeouts + 1
                                                      ELSE TimeoutMax
    BY <1>1, MinOfTwo
  <2>2. QED
    BY <1>1, <2>1 DEF ObserveFailure, CountTimeout
<1>4. CASE Sglang
  <2>1. PICK b \in HttpTimes, alive \in BOOLEAN : Penalise(o, alive, silence', b)
    BY <1>4 DEF ObserveFailure
  <2>2. Min({b, HealthTimeout}) \in Nat
    BY <1>1, MinOfTwo
  <2>3. fail_score + Weight(o) \in Nat
    BY <1>1, <1>2
  <2>4. accum_fail + Weight(o) * Min({b, HealthTimeout}) \in Nat
    BY <1>1, <1>2, <2>2
  <2>5. /\ Min({fail_score + Weight(o), ScoreMax}) \in 0..ScoreMax
        /\ Min({accum_fail + Weight(o) * Min({b, HealthTimeout}), AccumMax}) \in 0..AccumMax
    <3> HIDE DEF Weight
    <3>1. \A n \in Nat : Min({n, ScoreMax}) \in 0..ScoreMax /\ Min({n, AccumMax}) \in 0..AccumMax
      BY <1>1, MinOfTwo
    <3>2. QED
      BY <2>3, <2>4, <3>1
  <2>6. QED
    BY <1>1, <1>3, <2>1, <2>5 DEF Penalise
<1>5. CASE ~Sglang
  BY <1>1, <1>3, <1>5 DEF ObserveFailure
<1>6. QED
  BY <1>4, <1>5

(* One failure more and one round more keep the time in proportion to the failures. *)
LEMMA OneMoreRound ==
    ASSUME NEW c \in Nat, NEW e \in Nat, NEW i \in Nat, NEW j \in Nat, NEW d \in Nat,
           NEW s \in Nat, NEW l \in Nat, NEW n \in Nat, NEW f \in Nat,
           s <= d, d <= l, n * l < f, e <= n, e = c + 1,
           c * s <= i, i <= c * l, j = IF i + d <= f THEN i + d ELSE f
    PROVE  j >= e * s /\ j <= e * l
<1>1. e * s = c * s + s /\ e * l = c * l + l /\ c * s \in Nat /\ c * l \in Nat
  BY Multiples
<1>2. e * s <= n * s /\ n * s <= n * l /\ e * s \in Nat /\ n * s \in Nat /\ n * l \in Nat
  BY Multiples
<1>3. QED
  BY <1>1, <1>2

LEMMA FailureInv ==
    ASSUME Inv, NEW o \in Failure, ObserveFailure(o)
    PROVE  Inv'
<1>1. PICK d \in Rounds(NextPauses) : Elapse(d) /\ silence' = SilenceAfter(d)
  BY DEF ObserveFailure, Rounds
<1>2. /\ backend_ok' = FALSE /\ UNCHANGED <<engine, ever_ready>>
      /\ IF status = 1
         THEN /\ consecutive_failures' = consecutive_failures + 1
              /\ status' = IF ShouldDegrade(consecutive_failures') THEN 2 ELSE 1
         ELSE UNCHANGED <<consecutive_failures, status>>
  BY DEF ObserveFailure
<1>3. /\ FailuresNeeded \in Nat \ {0}
      /\ \A n \in Nat : ShouldDegrade(n) <=> n >= FailuresNeeded
  BY FailuresBound
<1>4. /\ status \in 0..2 /\ consecutive_failures \in 0..FailuresNeeded
      /\ Forever \in Nat /\ silence \in 0..Forever /\ d \in Nat
      /\ FailuresNeeded * LongestRound < Forever
  BY HealthAssumption, RoundTypes DEF Inv, TypeOK
<1>5. status = 1 => consecutive_failures + 1 <= FailuresNeeded
  BY <1>3, <1>4 DEF Inv, StatusFollowsFailures
<1>6. consecutive_failures' \in 0..FailuresNeeded /\ status' \in 0..2
  BY <1>2, <1>3, <1>4, <1>5
<1>7. silence' = IF ever_ready THEN (IF silence + d <= Forever THEN silence + d ELSE Forever)
                               ELSE 0
  BY <1>1, <1>4, MinOfTwo DEF SilenceAfter
<1>8. TypeOK'
  <2>1. ever_ready' \in BOOLEAN /\ backend_ok' \in BOOLEAN
    BY <1>2 DEF Inv, TypeOK
  <2>2. /\ engine' \in Engines /\ age' \in 0..StartupGrace /\ silence' \in 0..Forever
    BY <1>1, <1>2, <1>4, <1>7, AgeType DEF Inv, TypeOK
  <2>3. QED
    BY <1>6, <2>1, <2>2, PenaltyType DEF TypeOK
<1>9. StatusFollowsFailures'
  BY <1>2, <1>3, <1>4, <1>6, <1>7 DEF Inv, StatusFollowsFailures
<1>10. FailuresTakeTime'
  <2> SUFFICES ASSUME ~Sglang
               PROVE  /\ silence' >= consecutive_failures' * ShortestRound
                      /\ status' = 1 => silence' <= consecutive_failures' * LongestRound
    BY <1>2 DEF FailuresTakeTime, Sglang
  <2>1. d \in Rounds(Pauses)
    BY DEF NextPauses
  <2>2. /\ d \in Nat /\ ShortestRound <= d /\ d <= LongestRound
        /\ ShortestRound \in Nat /\ LongestRound \in Nat
    BY <2>1, RoundTypes
  <2>3. /\ silence >= consecutive_failures * ShortestRound
        /\ status = 1 => silence <= consecutive_failures * LongestRound
    BY DEF Inv, FailuresTakeTime
  <2>4. PICK c \in Nat, e \in Nat, i \in Nat, j \in Nat :
            /\ c = consecutive_failures /\ e = consecutive_failures'
            /\ i = silence /\ j = silence'
    BY <1>4, <1>6, <1>8 DEF TypeOK
  <2>5. ever_ready => j = IF i + d <= Forever THEN i + d ELSE Forever
    BY <1>7, <2>4
  <2>6. e <= FailuresNeeded /\ i <= Forever /\ i >= c * ShortestRound
    BY <1>4, <1>6, <2>3, <2>4
  <2>7. CASE status = 1
    <3>1. ever_ready /\ e = c + 1 /\ i <= c * LongestRound
      BY <1>2, <2>3, <2>4, <2>7 DEF Inv, StatusFollowsFailures
    <3>2. j >= e * ShortestRound /\ j <= e * LongestRound
      BY <1>3, <1>4, <2>2, <2>5, <2>6, <3>1, OneMoreRound
    <3>3. QED
      BY <2>4, <3>2
  <2>8. CASE status # 1
    <3>1. e = c /\ status' # 1
      BY <1>2, <2>4, <2>8
    <3>2. j >= i
      BY <1>4, <1>7, <2>4, <2>5, <2>6 DEF Inv, StatusFollowsFailures
    <3>3. c * ShortestRound \in Nat
      BY <2>2, <2>4
    <3>4. j >= e * ShortestRound
      BY <2>6, <3>1, <3>2, <3>3
    <3>5. QED
      BY <2>4, <3>1, <3>4
  <2>9. QED
    BY <2>7, <2>8
<1>11. QED
  BY <1>8, <1>9, <1>10 DEF Inv

LEMMA NextInv == Inv /\ [Next]_vars => Inv'
<1> SUFFICES ASSUME Inv, [Next]_vars PROVE Inv'
  OBVIOUS
<1>1. CASE ObserveSuccess
  BY <1>1, SuccessInv
<1>2. ASSUME NEW o \in Failure, ObserveFailure(o) PROVE Inv'
  BY <1>2, FailureInv
<1>3. CASE UNCHANGED vars
  BY <1>3 DEF vars, counts, Inv, TypeOK, StatusFollowsFailures, FailuresTakeTime,
    ShouldDegrade, Sglang
<1>4. QED
  BY <1>1, <1>2, <1>3 DEF Next

LEMMA Invariance == Spec => []Inv
<1>1. QED
  BY InitInv, NextInv, PTL DEF Spec
-----------------------------------------------------------------------------
(* What the invariant says of the code *)

(* For another engine than sglang the code is 503 at a degraded state and at no other,
   however long after the last observation. *)
LEMMA DegradedCode ==
    ASSUME Inv, ~Sglang, NEW t
    PROVE  /\ CodeAfter(t) = 503 <=> status = 2
           /\ CodeAfter(t) = 503 => ever_ready /\ ShouldDegrade(consecutive_failures)
<1>1. status \in 0..2
  BY DEF Inv, TypeOK
<1>2. FailuresHit <=> ShouldDegrade(consecutive_failures)
  BY DEF FailuresHit, ShouldDegrade
<1>3. Unavailable(silence + t) <=> FailuresHit
  BY DEF Unavailable
<1>4. QED
  BY <1>1, <1>2, <1>3 DEF Inv, StatusFollowsFailures, CodeAfter
-----------------------------------------------------------------------------
(* Every variable keeps its type; in particular the failures counted against a ready
   engine never pass the later of the two thresholds of _should_degrade. *)
THEOREM TypeCorrect == Spec => []TypeOK
<1>1. Inv => TypeOK
  BY DEF Inv
<1>2. QED
  BY <1>1, Invariance, PTL

(* For engines other than sglang, map_http_code_from_state and the state in the body of
   /health agree on an outage, for every choice of the thresholds. *)
THEOREM CodeAgreesWithStatus == Spec => []CodeAndStatusAgreeButForSglang
<1>1. Inv => CodeAndStatusAgreeButForSglang
  BY DegradedCode DEF CodeAndStatusAgreeButForSglang
<1>2. QED
  BY <1>1, Invariance, PTL

(* No outage of another engine than sglang is reported before as many of the shortest
   rounds as failures are needed: what counting failures keeps of FAIL_GRACE_MS. *)
THEOREM GraceKeptButForJitter == Spec => []GraceIsKeptButForJitter
<1>1. ASSUME Inv PROVE GraceIsKeptButForJitter
  <2> DEFINE n == consecutive_failures
             s == ShortestRound
  <2> SUFFICES ASSUME ~Sglang, CodeAfter(0) = 503
               PROVE  silence >= FailThreshold * s /\ silence * HealthTimeout >= FailGrace * s
    BY DEF GraceIsKeptButForJitter
  <2>1. n >= FailThreshold /\ n * HealthTimeout >= FailGrace
    BY <1>1, DegradedCode DEF ShouldDegrade
  <2>2. /\ n \in Nat /\ s \in Nat /\ silence \in Nat /\ silence >= n * s
        /\ FailThreshold \in Nat /\ FailGrace \in Nat /\ HealthTimeout \in Nat
    BY <1>1, FailuresBound, RoundTypes, HealthAssumption
    DEF Inv, TypeOK, FailuresTakeTime
  <2> HIDE DEF n, s
  <2>3. n * s >= FailThreshold * s /\ n * s \in Nat /\ FailThreshold * s \in Nat
    BY <2>1, <2>2, Multiples
  <2>4. silence * HealthTimeout >= (n * s) * HealthTimeout
        /\ silence * HealthTimeout \in Nat
    BY <2>2, <2>3, Multiples
  <2>5. (n * s) * HealthTimeout = (n * HealthTimeout) * s /\ n * HealthTimeout \in Nat
    BY <2>2
  <2>6. (n * HealthTimeout) * s >= FailGrace * s
        /\ (n * HealthTimeout) * s \in Nat /\ FailGrace * s \in Nat
    BY <2>1, <2>2, <2>5, Multiples
  <2>7. silence * HealthTimeout >= FailGrace * s
    BY <2>4, <2>5, <2>6
  <2>8. QED
    BY <2>2, <2>3, <2>7
<1>2. QED
  BY <1>1, Invariance, PTL

(* A dead engine is reported once it has been silent for Patience, whenever somebody asks,
   for any thresholds, kinds of failure and lengths of pauses and probes; for sglang if no
   round of it is as long as SGLANG_SILENCE_MAX_MS. *)
THEOREM DeadEngineReported ==
    ASSUME SglangRoundsFit
    PROVE  Spec => []LongSilenceIsReported
<1>1. ASSUME Inv PROVE LongSilenceIsReported
  <2> SUFFICES ASSUME ever_ready, NEW t \in 0..Max(Rounds(NextPauses)), silence + t >= Patience
               PROVE  CodeAfter(t) = 503
    BY DEF LongSilenceIsReported
  <2>1. /\ FailuresNeeded \in Nat /\ consecutive_failures \in 0..FailuresNeeded
        /\ \A n \in Nat : ShouldDegrade(n) <=> n >= FailuresNeeded
        /\ silence \in Nat /\ status \in 0..2
        /\ SilenceMax \in Nat
    BY <1>1, FailuresBound, HealthAssumption DEF Inv, TypeOK
  <2>2. CASE Sglang
    <3>1. Max(Rounds(NextPauses)) < SilenceMax /\ Max(Rounds(NextPauses)) \in Nat
      BY RoundsMax, HealthAssumption DEF NextPauses, SglangRoundsFit
    <3>2. ~backend_ok
      BY <1>1, <2>1, <2>2, <3>1 DEF Inv, StatusFollowsFailures, Patience
    <3>3. QED
      BY <2>2, <3>2 DEF CodeAfter, Unavailable, Patience
  <2>3. CASE ~Sglang
    <3>1. t \in Nat /\ t <= LongestRound /\ LongestRound \in Nat
      BY <2>3, RoundTypes DEF NextPauses, LongestRound
    <3>2. status # 1
      <4>1. SUFFICES ASSUME status = 1 PROVE FALSE
        OBVIOUS
      <4>2. silence <= consecutive_failures * LongestRound
        BY <1>1, <2>3, <4>1 DEF Inv, FailuresTakeTime
      <4>3. consecutive_failures + 1 <= FailuresNeeded
        BY <1>1, <2>1, <4>1 DEF Inv, StatusFollowsFailures
      <4>4. /\ consecutive_failures * LongestRound \in Nat
            /\ FailuresNeeded * LongestRound \in Nat
            /\ consecutive_failures * LongestRound + LongestRound
                    <= FailuresNeeded * LongestRound
        <5>1. /\ (consecutive_failures + 1) * LongestRound <= FailuresNeeded * LongestRound
              /\ FailuresNeeded * LongestRound \in Nat
          BY <2>1, <3>1, <4>3, Multiples
        <5>2. /\ (consecutive_failures + 1) * LongestRound
                    = consecutive_failures * LongestRound + LongestRound
              /\ consecutive_failures * LongestRound \in Nat
          BY <2>1, <3>1, Multiples
        <5>3. QED
          BY <5>1, <5>2
      <4>5. silence + t >= FailuresNeeded * LongestRound + 1
        BY <2>3 DEF Patience
      <4>6. QED
        BY <2>1, <3>1, <4>2, <4>4, <4>5
    <3>3. status = 2
      BY <1>1, <2>1, <3>2 DEF Inv, StatusFollowsFailures
    <3>4. QED
      BY <1>1, <2>3, <3>3, DegradedCode
  <2>4. QED
    BY <2>2, <2>3
<1>2. QED
  BY <1>1, Invariance, PTL
=============================================================================
