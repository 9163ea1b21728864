-------------------------- MODULE MembershipProofs --------------------------
(***************************************************************************)
(* Proofs about Membership, for any set of workers and any intervals.      *)
(*                                                                         *)
(* The master counts looks, the properties measure time: CountFitsSilence  *)
(* says how much silence a count stands for, in both directions.  The      *)
(* worker waits longer after every loss: WaitFitsSilence bounds the silence *)
(* a wait leads to.                                                        *)
(***************************************************************************)
EXTENDS Membership, TLAPS

MonitorTypeOK ==
    /\ listed \in SUBSET Node
    /\ silence \in [Node -> Nat]
    /\ missed \in [Node -> Nat]
    /\ check \in 0..CheckInterval

(* A listed node that has been found silent m times has been silent for longer than
   Stale at the first of them, and no longer than that and one look more. *)
CountFitsSilence ==
    \A n \in listed :
        /\ missed[n] < MaxMissed
        /\ silence[n] + check <= Stale + (missed[n] + 1) * CheckInterval
        /\ missed[n] > 0 => silence[n] + check > Stale + missed[n] * CheckInterval

MonitorInv == MonitorTypeOK /\ CountFitsSilence

WorkerTypeOK ==
    /\ life \in [Node -> {"new", "registering", "beating", "aborted", "dead"}]
    /\ fails \in [Node -> 0..MaxFailures]
    /\ DOMAIN wait = Node
    /\ wait = [n \in Node |-> wait[n]]
    /\ \A n \in Node : life[n] \in {"new", "registering"} => fails[n] = 0

(* The silence at the end of the wait after k losses in a row, for k up to 2 *)
Patience(k) ==
    CASE k = 0 -> Interval + RequestTime
      [] k = 1 -> 3 * Interval + 2 * RequestTime
      [] OTHER -> 7 * Interval + 3 * RequestTime

(* n's next heartbeat comes before it is missed. *)
InTime(n) == wait[n] \in Nat /\ silence[n] + wait[n] <= Patience(fails[n])

(* A heartbeat that no more than two losses delay comes before the master gives up. *)
WaitFitsSilence ==
    \A n \in listed : life[n] = "beating" /\ fails[n] <= 2 => InTime(n)

WorkerInv == WorkerTypeOK /\ WaitFitsSilence

(* What two losses cost is less than what the master waits for; three losses are told
   apart from two. *)
WaitsFit ==
    /\ 7 * Interval + 3 * RequestTime <= Stale + (MaxMissed - 1) * CheckInterval
    /\ MaxFailures > 2
-----------------------------------------------------------------------------
(* Arithmetic *)

LEMMA MinOfTwo ==
    ASSUME NEW a \in Int, NEW b \in Int
    PROVE  Min({a, b}) = IF a <= b THEN a ELSE b
<1> DEFINE m == IF a <= b THEN a ELSE b
<1>1. m \in {a, b} /\ \A y \in {a, b} : m <= y
  OBVIOUS
<1>2. \A x \in {a, b} : (\A y \in {a, b} : x <= y) => x = m
  OBVIOUS
<1>3. QED
  BY <1>1, <1>2 DEF Min

LEMMA Constants ==
    /\ CheckInterval \in Nat \ {0} /\ MaxMissed \in Nat \ {0} /\ Stale \in Nat
    /\ Interval \in Nat \ {0} /\ RequestTime \in Nat /\ MaxFailures \in Nat \ {0}
    /\ MaxBackoff \in Nat
BY MembershipAssumption DEF Stale

LEMMA OneMore ==
    ASSUME NEW m \in Int, NEW c \in Int
    PROVE  (m + 1) * c = m * c + c /\ (m + 1 + 1) * c = m * c + c + c /\ m * c \in Int
           /\ 0 * c = 0 /\ (0 + 1) * c = c
OBVIOUS

LEMMA Monotonic ==
    ASSUME NEW a \in Int, NEW b \in Int, NEW c \in Nat, a <= b
    PROVE  a * c <= b * c
<1>1. PICK d \in Nat : b = a + d
  <2>1. b - a \in Nat /\ b = a + (b - a)
    OBVIOUS
  <2>2. QED
    BY <2>1
<1>2. b * c = a * c + d * c
  BY <1>1
<1>3. d * c >= 0 /\ d * c \in Int /\ a * c \in Int
  OBVIOUS
<1>4. QED
  BY <1>2, <1>3
-----------------------------------------------------------------------------
(* The master's side *)

LEMMA RegisterInv ==
    ASSUME MonitorInv, NEW n \in Node, RegisterNode(n)
    PROVE  MonitorInv'
<1>1. MonitorTypeOK'
  BY DEF RegisterNode, MonitorInv, MonitorTypeOK
<1>2. ASSUME NEW k \in listed'
      PROVE  /\ missed'[k] < MaxMissed
             /\ silence'[k] + check' <= Stale + (missed'[k] + 1) * CheckInterval
             /\ missed'[k] > 0 => silence'[k] + check' > Stale + missed'[k] * CheckInterval
  <2>1. CASE k = n
    <3>1. silence'[k] = 0 /\ missed'[k] = 0 /\ check' = check
      BY <2>1 DEF RegisterNode, MonitorInv, MonitorTypeOK
    <3>2. check <= Stale + (0 + 1) * CheckInterval
      BY Constants, OneMore DEF MonitorInv, MonitorTypeOK
    <3>3. 0 < MaxMissed /\ check \in Nat /\ 0 + check = check /\ ~(0 > 0)
      BY Constants DEF MonitorInv, MonitorTypeOK
    <3>4. QED
      BY <3>1, <3>2, <3>3
  <2>2. CASE k # n
    <3>1. k \in listed /\ silence'[k] = silence[k] /\ missed'[k] = missed[k] /\ check' = check
      BY <2>2 DEF RegisterNode, MonitorInv, MonitorTypeOK
    <3>2. QED
      BY <3>1 DEF MonitorInv, CountFitsSilence
  <2>3. QED
    BY <2>1, <2>2
<1>3. QED
  BY <1>1, <1>2 DEF MonitorInv, CountFitsSilence

LEMMA UpdateInv ==
    ASSUME MonitorInv, NEW n \in Node, UpdateHeartbeat(n)
    PROVE  MonitorInv'
<1>1. CASE n \in listed
  <2>1. RegisterNode(n)
    BY <1>1 DEF UpdateHeartbeat, RegisterNode, MonitorInv, MonitorTypeOK
  <2>2. QED
    BY <2>1, RegisterInv
<1>2. CASE n \notin listed
  BY <1>2 DEF UpdateHeartbeat, MonitorInv, MonitorTypeOK, CountFitsSilence
<1>3. QED
  BY <1>1, <1>2

LEMMA CheckInv == MonitorInv /\ CheckNodes => MonitorInv'
<1> SUFFICES ASSUME MonitorInv, CheckNodes PROVE MonitorInv'
  OBVIOUS
<1> DEFINE silent == {n \in listed : silence[n] > Stale}
<1>1. /\ check = 0 /\ check' = CheckInterval /\ silence' = silence
      /\ missed' = [n \in Node |-> IF n \in silent THEN missed[n] + 1 ELSE missed[n]]
      /\ listed' = listed \ {n \in silent : Missing(n)}
  BY DEF CheckNodes
<1>2. MonitorTypeOK'
  BY <1>1, Constants DEF MonitorInv, MonitorTypeOK
<1>3. ASSUME NEW n \in listed'
      PROVE  /\ missed'[n] < MaxMissed
             /\ silence'[n] + check' <= Stale + (missed'[n] + 1) * CheckInterval
             /\ missed'[n] > 0 => silence'[n] + check' > Stale + missed'[n] * CheckInterval
  <2>1. n \in listed /\ n \in Node /\ silence[n] \in Nat /\ missed[n] \in Nat
    BY <1>1 DEF MonitorInv, MonitorTypeOK
  <2>2. /\ missed[n] < MaxMissed
        /\ silence[n] + 0 <= Stale + (missed[n] + 1) * CheckInterval
        /\ missed[n] > 0 => silence[n] + 0 > Stale + missed[n] * CheckInterval
    BY <1>1, <2>1 DEF MonitorInv, CountFitsSilence
  <2>3. CASE silence[n] > Stale
    <3>1. missed'[n] = missed[n] + 1 /\ ~Missing(n)
      BY <1>1, <2>1, <2>3
    <3>2. missed[n] + 1 < MaxMissed
      BY <2>1, <3>1, Constants DEF Missing
    <3>3. /\ (missed[n] + 1) * CheckInterval = missed[n] * CheckInterval + CheckInterval
          /\ (missed[n] + 1 + 1) * CheckInterval
                = missed[n] * CheckInterval + CheckInterval + CheckInterval
          /\ missed[n] * CheckInterval \in Int
          /\ 0 * CheckInterval = 0
      BY <2>1, Constants, OneMore
    <3>4. silence[n] + CheckInterval <= Stale + (missed[n] + 1 + 1) * CheckInterval
      BY <2>1, <2>2, <3>3, Constants
    <3>5. silence[n] > Stale + missed[n] * CheckInterval
      <4>1. CASE missed[n] = 0
        <5>1. Stale + missed[n] * CheckInterval = Stale
          BY <3>3, <4>1, Constants
        <5>2. QED
          BY <2>3, <5>1
      <4>2. CASE missed[n] # 0
        BY <2>1, <2>2, <3>3, <4>2, Constants
      <4>3. QED
        BY <4>1, <4>2
    <3>6. silence[n] + CheckInterval > Stale + (missed[n] + 1) * CheckInterval
      BY <2>1, <3>3, <3>5, Constants
    <3>7. QED
      BY <1>1, <3>1, <3>2, <3>4, <3>6
  <2>4. CASE ~(silence[n] > Stale)
    <3>1. missed'[n] = missed[n]
      BY <1>1, <2>1, <2>4
    <3>2. missed[n] = 0
      <4>1. PICK p \in Nat : p = missed[n] * CheckInterval
        BY <2>1, Constants
      <4>2. missed[n] > 0 => silence[n] + 0 > Stale + p
        BY <2>2, <4>1
      <4>3. QED
        BY <2>1, <2>4, <4>1, <4>2, Constants
    <3>3. silence[n] + CheckInterval <= Stale + (0 + 1) * CheckInterval
      BY <2>1, <2>4, Constants, OneMore
    <3>4. QED
      BY <1>1, <2>2, <3>1, <3>2, <3>3
  <2>5. QED
    BY <2>3, <2>4
<1>4. QED
  BY <1>2, <1>3 DEF MonitorInv, CountFitsSilence

LEMMA TickMonitorInv == MonitorInv /\ Tick => MonitorInv'
<1> SUFFICES ASSUME MonitorInv, Tick PROVE MonitorInv'
  OBVIOUS
<1>1. /\ check > 0 /\ check' = check - 1 /\ listed' = listed /\ missed' = missed
      /\ silence' = [n \in Node |-> IF n \in listed THEN silence[n] + 1 ELSE silence[n]]
  BY DEF Tick
<1>2. MonitorTypeOK'
  <2>1. silence' \in [Node -> Nat]
    BY <1>1 DEF MonitorInv, MonitorTypeOK
  <2>2. check - 1 \in 0..CheckInterval
    BY <1>1, Constants DEF MonitorInv, MonitorTypeOK
  <2>3. QED
    BY <1>1, <2>1, <2>2 DEF MonitorInv, MonitorTypeOK
<1>3. ASSUME NEW n \in listed PROVE silence'[n] + check' = silence[n] + check
  <2>1. silence'[n] = silence[n] + 1 /\ silence[n] \in Nat /\ check \in Nat
    BY <1>1, Constants DEF MonitorInv, MonitorTypeOK
  <2>2. silence[n] + 1 + (check - 1) = silence[n] + check
    BY <2>1
  <2>3. QED
    BY <1>1, <2>1, <2>2
<1>4. QED
  BY <1>1, <1>2, <1>3 DEF MonitorInv, CountFitsSilence

LEMMA MonitorInvariance == Spec => []MonitorInv
<1>1. Init => MonitorInv
  BY Constants DEF Init, MonitorInv, MonitorTypeOK, CountFitsSilence
<1>2. ASSUME MonitorInv, [Next]_vars PROVE MonitorInv'
  <2>1. CASE UNCHANGED monitor
    BY <1>2, <2>1 DEF monitor, MonitorInv, MonitorTypeOK, CountFitsSilence
  <2>2. ASSUME NEW n \in Node, RegisterNode(n) PROVE MonitorInv'
    BY <1>2, <2>2, RegisterInv
  <2>3. ASSUME NEW n \in Node, UpdateHeartbeat(n) PROVE MonitorInv'
    BY <1>2, <2>3, UpdateInv
  <2>4. ASSUME NEW n \in Node,
               \/ Start(n) \/ Registered(n) \/ RegistrationFails(n)
               \/ Heartbeat(n) \/ HeartbeatFails(n) \/ Die(n)
        PROVE  MonitorInv'
    BY <2>1, <2>2, <2>3, <2>4
    DEF Start, Registered, RegistrationFails, Heartbeat, HeartbeatFails, Die
  <2>5. CASE CheckNodes
    BY <1>2, <2>5, CheckInv
  <2>6. CASE MasterRestarts
    BY <1>2, <2>6, Constants DEF MasterRestarts, MonitorInv, MonitorTypeOK, CountFitsSilence
  <2>7. CASE Tick
    BY <1>2, <2>7, TickMonitorInv
  <2>8. CASE UNCHANGED vars
    BY <2>1, <2>8 DEF vars
  <2>9. QED
    BY <1>2, <2>4, <2>5, <2>6, <2>7, <2>8 DEF Next
<1>3. QED
  BY <1>1, <1>2, PTL DEF Spec
-----------------------------------------------------------------------------
(* The worker's side, which tells a node from the silence of the master's list *)

LEMMA WorkerTypeInvariance == Spec => []WorkerTypeOK
<1>1. Init => WorkerTypeOK
  BY Constants DEF Init, WorkerTypeOK
<1>2. ASSUME WorkerTypeOK, [Next]_vars PROVE WorkerTypeOK'
  <2> USE <1>2 DEF WorkerTypeOK
  <2>1. ASSUME NEW n \in Node, Start(n) PROVE WorkerTypeOK'
    BY <2>1 DEF Start
  <2>2. ASSUME NEW n \in Node, Registered(n) PROVE WorkerTypeOK'
    BY <2>2 DEF Registered
  <2>3. ASSUME NEW n \in Node, RegistrationFails(n) PROVE WorkerTypeOK'
    BY <2>3 DEF RegistrationFails
  <2>4. ASSUME NEW n \in Node, Heartbeat(n) PROVE WorkerTypeOK'
    BY <2>4, Constants DEF Heartbeat
  <2>5. ASSUME NEW n \in Node, HeartbeatFails(n) PROVE WorkerTypeOK'
    <3>1. Min({fails[n] + 1, MaxFailures}) \in 0..MaxFailures
      BY Constants, MinOfTwo
    <3>2. QED
      BY <2>5, <3>1 DEF HeartbeatFails
  <2>6. ASSUME NEW n \in Node, Die(n) PROVE WorkerTypeOK'
    BY <2>6 DEF Die
  <2>7. CASE CheckNodes
    BY <2>7 DEF CheckNodes, worker
  <2>8. CASE MasterRestarts
    BY <2>8 DEF MasterRestarts, worker
  <2>9. CASE Tick
    BY <2>9 DEF Tick
  <2>10. CASE UNCHANGED vars
    BY <2>10 DEF vars, worker
  <2>11. QED
    BY <2>1, <2>2, <2>3, <2>4, <2>5, <2>6, <2>7, <2>8, <2>9, <2>10 DEF Next
<1>3. QED
  BY <1>1, <1>2, PTL DEF Spec

(* The first two waits after a loss, for any cap on them *)
LEMMA BackoffBounds ==
    ASSUME NEW k \in 1..2
    PROVE  Backoff(k) \in Nat /\ Backoff(k) <= (IF k = 1 THEN 2 ELSE 4) * Interval
<1>1. 2 ^ 1 = 2 /\ 2 ^ 2 = 4
  OBVIOUS
<1>2. k = 1 \/ k = 2
  OBVIOUS
<1>3. Interval * 2 ^ k = (IF k = 1 THEN 2 ELSE 4) * Interval
  <2>1. CASE k = 1
    BY <1>1, <2>1, Constants
  <2>2. CASE k = 2
    BY <1>1, <2>2, Constants
  <2>3. QED
    BY <1>2, <2>1, <2>2
<1> DEFINE w == (IF k = 1 THEN 2 ELSE 4) * Interval
<1>4. w \in Nat
  BY Constants
<1>5. Backoff(k) = IF w <= MaxBackoff THEN w ELSE MaxBackoff
  BY <1>3, <1>4, Constants, MinOfTwo DEF Backoff
<1>6. QED
  BY <1>4, <1>5, Constants

(* A step at one worker leaves what the bound says of the others. *)
LEMMA OthersUnchanged ==
    ASSUME MonitorInv, WorkerInv, NEW n \in Node, NEW m \in listed', m # n,
           RegisterNode(n) \/ UpdateHeartbeat(n) \/ UNCHANGED monitor,
           life'[m] = life[m], fails'[m] = fails[m], wait'[m] = wait[m],
           life'[m] = "beating", fails'[m] <= 2
    PROVE  InTime(m)'
<1>1. m \in listed /\ silence'[m] = silence[m]
  BY DEF RegisterNode, UpdateHeartbeat, monitor, MonitorInv, MonitorTypeOK
<1>2. QED
  BY <1>1 DEF WorkerInv, WaitFitsSilence, InTime

LEMMA WorkerStep ==
    ASSUME MonitorInv, MonitorInv', WorkerInv, WaitsFit, [Next]_vars
    PROVE  WaitFitsSilence'
<1> SUFFICES ASSUME NEW m \in listed', life'[m] = "beating", fails'[m] <= 2
             PROVE  InTime(m)'
  BY DEF WaitFitsSilence
<1>t. /\ WorkerTypeOK /\ MonitorTypeOK
      /\ Interval \in Nat /\ RequestTime \in Nat /\ MaxFailures \in Nat /\ MaxFailures > 2
      /\ m \in Node
  BY Constants DEF WorkerInv, MonitorInv, MonitorTypeOK, WaitsFit
<1>1. ASSUME NEW n \in Node, Start(n) PROVE InTime(m)'
  <2>1. m # n /\ UNCHANGED monitor
    BY <1>1, <1>t DEF Start, WorkerTypeOK
  <2>2. life'[m] = life[m] /\ fails' = fails /\ wait' = wait
    BY <1>1, <1>t, <2>1 DEF Start, WorkerTypeOK
  <2>3. QED
    BY <2>1, <2>2, OthersUnchanged
<1>2. ASSUME NEW n \in Node, Registered(n) PROVE InTime(m)'
  <2>1. /\ RegisterNode(n) /\ life[n] = "registering" /\ wait[n] = 0
        /\ life' = [life EXCEPT ![n] = "beating"] /\ fails' = fails /\ wait' = wait
    BY <1>2 DEF Registered
  <2>2. CASE m = n
    <3>1. fails'[m] = 0 /\ wait'[m] = 0 /\ silence'[m] = 0
      BY <1>t, <2>1, <2>2 DEF RegisterNode, WorkerTypeOK, MonitorTypeOK
    <3>2. 0 + 0 <= Patience(0)
      BY <1>t DEF Patience
    <3>3. QED
      BY <3>1, <3>2 DEF InTime
  <2>3. CASE m # n
    <3>1. life'[m] = life[m]
      BY <1>t, <2>1, <2>3 DEF WorkerTypeOK
    <3>2. QED
      BY <2>1, <2>3, <3>1, OthersUnchanged
  <2>4. QED
    BY <2>2, <2>3
<1>3. ASSUME NEW n \in Node, RegistrationFails(n) PROVE InTime(m)'
  <2>1. /\ RegisterNode(n) \/ UNCHANGED monitor
        /\ life[n] = "registering" /\ fails' = fails
        /\ life' = life \/ life' = [life EXCEPT ![n] = "aborted"]
        /\ wait' = wait \/ \E d \in 0..RequestTime : wait' = [wait EXCEPT ![n] = RetryInterval + d]
    BY <1>3 DEF RegistrationFails
  <2>2. m # n
    BY <1>t, <2>1 DEF WorkerTypeOK
  <2>3. life'[m] = life[m] /\ wait'[m] = wait[m]
    BY <1>t, <2>1, <2>2 DEF WorkerTypeOK
  <2>4. QED
    BY <2>1, <2>2, <2>3, OthersUnchanged
<1>4. ASSUME NEW n \in Node, Heartbeat(n) PROVE InTime(m)'
  <2>1. PICK d \in 0..RequestTime : wait' = [wait EXCEPT ![n] = Interval + d]
    BY <1>4 DEF Heartbeat
  <2>2. UpdateHeartbeat(n) /\ fails' = [fails EXCEPT ![n] = 0] /\ life' = life
    BY <1>4 DEF Heartbeat
  <2>3. CASE m = n
    <3>1. fails'[m] = 0 /\ wait'[m] = Interval + d /\ silence'[m] = 0
      BY <1>t, <2>1, <2>2, <2>3 DEF UpdateHeartbeat, WorkerTypeOK, MonitorTypeOK
    <3>2. Interval + d \in Nat /\ 0 + (Interval + d) <= Patience(0)
      BY <1>t DEF Patience
    <3>3. QED
      BY <3>1, <3>2 DEF InTime
  <2>4. CASE m # n
    <3>1. fails'[m] = fails[m] /\ wait'[m] = wait[m]
      BY <1>t, <2>1, <2>2, <2>4 DEF WorkerTypeOK
    <3>2. QED
      BY <2>2, <2>4, <3>1, OthersUnchanged
  <2>5. QED
    BY <2>3, <2>4
<1>5. ASSUME NEW n \in Node, HeartbeatFails(n) PROVE InTime(m)'
  <2>1. PICK d \in 0..RequestTime : wait' = [wait EXCEPT ![n] = Backoff(fails'[n]) + d]
    BY <1>5 DEF HeartbeatFails
  <2>2. /\ UpdateHeartbeat(n) \/ UNCHANGED monitor
        /\ fails' = [fails EXCEPT ![n] = Min({@ + 1, MaxFailures})] /\ life' = life
        /\ life[n] = "beating" /\ wait[n] = 0
    BY <1>5 DEF HeartbeatFails
  <2>3. CASE m = n
    <3>1. fails[n] \in 0..MaxFailures /\ fails'[n] = Min({fails[n] + 1, MaxFailures})
      BY <1>t, <2>2 DEF WorkerTypeOK
    <3>2. fails'[n] = IF fails[n] + 1 <= MaxFailures THEN fails[n] + 1 ELSE MaxFailures
      BY <1>t, <3>1, MinOfTwo
    <3>3. fails'[n] = fails[n] + 1 /\ fails[n] \in 0..1
      BY <1>t, <2>3, <3>1, <3>2
    <3>4. m \in listed /\ silence'[m] \in Nat /\ silence[m] \in Nat /\ silence'[m] <= silence[m]
      BY <1>t, <2>2, <2>3 DEF UpdateHeartbeat, monitor, MonitorTypeOK
    <3>5. silence[n] + 0 <= Patience(fails[n])
      BY <2>2, <2>3, <3>3, <3>4 DEF WorkerInv, WaitFitsSilence, InTime
    <3>6. PICK w \in Nat : w = Backoff(fails[n] + 1)
      BY <3>3, BackoffBounds
    <3>7. w <= (IF fails[n] = 0 THEN 2 ELSE 4) * Interval
      BY <3>3, <3>6, BackoffBounds
    <3>8. wait'[m] = w + d
      BY <1>t, <2>1, <2>3, <3>3, <3>6 DEF WorkerTypeOK
    <3>9. PICK s \in Nat : s = silence'[m] /\ s <= silence[n]
      BY <2>3, <3>4
    <3>10. s + (w + d) <= Patience(fails[n] + 1)
      <4>1. CASE fails[n] = 0
        BY <1>t, <2>3, <3>4, <3>5, <3>7, <3>9, <4>1 DEF Patience
      <4>2. CASE fails[n] = 1
        BY <1>t, <2>3, <3>4, <3>5, <3>7, <3>9, <4>2 DEF Patience
      <4>3. QED
        BY <3>3, <4>1, <4>2
    <3>11. w + d \in Nat
      BY <1>t
    <3>12. QED
      BY <2>3, <3>3, <3>8, <3>9, <3>10, <3>11 DEF InTime
  <2>4. CASE m # n
    <3>1. fails'[m] = fails[m] /\ wait'[m] = wait[m]
      BY <1>t, <2>1, <2>2, <2>4 DEF WorkerTypeOK
    <3>2. QED
      BY <2>2, <2>4, <3>1, OthersUnchanged
  <2>5. QED
    BY <2>3, <2>4
<1>6. ASSUME NEW n \in Node, Die(n) PROVE InTime(m)'
  <2>1. m # n /\ UNCHANGED monitor
    BY <1>6, <1>t DEF Die, WorkerTypeOK
  <2>2. life'[m] = life[m] /\ fails' = fails /\ wait' = wait
    BY <1>6, <1>t, <2>1 DEF Die, WorkerTypeOK
  <2>3. QED
    BY <2>1, <2>2, OthersUnchanged
<1>7. CASE CheckNodes
  BY <1>7 DEF CheckNodes, worker, WorkerInv, WaitFitsSilence, InTime
<1>8. CASE MasterRestarts
  BY <1>8 DEF MasterRestarts
<1>9. CASE Tick
  <2>1. m \in listed /\ m \in Sending /\ m \in Node /\ wait[m] > 0
    BY <1>9, <1>t DEF Tick, Sending, MonitorTypeOK
  <2>2. life[m] = "beating" /\ fails[m] <= 2 /\ fails'[m] = fails[m]
    BY <1>9 DEF Tick
  <2>3. wait[m] \in Nat /\ silence[m] + wait[m] <= Patience(fails[m])
    BY <2>1, <2>2 DEF WorkerInv, WaitFitsSilence, InTime
  <2>4. wait'[m] = wait[m] - 1 /\ silence'[m] = silence[m] + 1 /\ silence[m] \in Nat
    BY <1>9, <1>t, <2>1 DEF Tick, MonitorTypeOK
  <2>5. wait[m] - 1 \in Nat /\ silence[m] + 1 + (wait[m] - 1) = silence[m] + wait[m]
    BY <2>1, <2>3, <2>4
  <2>6. QED
    BY <2>2, <2>3, <2>4, <2>5 DEF InTime
<1>10. CASE UNCHANGED vars
  <2>1. /\ m \in listed /\ life'[m] = life[m] /\ fails'[m] = fails[m]
        /\ wait'[m] = wait[m] /\ silence'[m] = silence[m]
    BY <1>10 DEF vars, worker, monitor
  <2>2. QED
    BY <2>1 DEF WorkerInv, WaitFitsSilence, InTime
<1>11. QED
  <2>1. ASSUME NEW n \in Node,
               \/ Start(n) \/ Registered(n) \/ RegistrationFails(n)
               \/ Heartbeat(n) \/ HeartbeatFails(n) \/ Die(n)
        PROVE  InTime(m)'
    BY <2>1, <1>1, <1>2, <1>3, <1>4, <1>5, <1>6
  <2>2. CASE Next
    BY <2>1, <2>2, <1>7, <1>8, <1>9 DEF Next
  <2>3. QED
    BY <2>2, <1>10

LEMMA WorkerInvariance ==
    ASSUME WaitsFit
    PROVE  Spec => []WorkerInv
<1>1. Init => WaitFitsSilence
  BY DEF Init, WaitFitsSilence
<1>2. /\ MonitorInv /\ MonitorInv' /\ WorkerTypeOK /\ WaitFitsSilence /\ [Next]_vars
      => WaitFitsSilence'
  BY WorkerStep DEF WorkerInv
<1>3. WorkerInv <=> WorkerTypeOK /\ WaitFitsSilence
  BY DEF WorkerInv
<1>4. QED
  BY <1>1, <1>2, <1>3, MonitorInvariance, WorkerTypeInvariance, PTL DEF Spec
-----------------------------------------------------------------------------
(* _check_nodes: nobody stays on the list for longer than one interval after the time the
   count of missed heartbeats stands for, however many workers there are and whatever
   requests are lost, doubled by a retry, or answered to a node already taken off. *)
THEOREM SilentNodeAlwaysDropped == Spec => []SilentNodeIsDropped
<1>1. ASSUME MonitorInv PROVE SilentNodeIsDropped
  <2> SUFFICES ASSUME NEW n \in listed
               PROVE  silence[n] <= Stale + MaxMissed * CheckInterval
    BY DEF SilentNodeIsDropped
  <2>1. silence[n] \in Nat /\ missed[n] \in Nat /\ check \in Nat /\ missed[n] + 1 <= MaxMissed
    BY <1>1, Constants DEF MonitorInv, MonitorTypeOK, CountFitsSilence
  <2>2. PICK p \in Int : p = (missed[n] + 1) * CheckInterval
    BY <2>1, Constants
  <2>3. PICK r \in Int : r = MaxMissed * CheckInterval
    BY Constants
  <2>4. p <= r
    BY <2>1, <2>2, <2>3, Constants, Monotonic
  <2>5. silence[n] + check <= Stale + p
    BY <1>1, <2>2 DEF MonitorInv, CountFitsSilence
  <2>6. QED
    BY <2>1, <2>3, <2>4, <2>5, Constants
<1>2. QED
  BY <1>1, MonitorInvariance, PTL

(* What a look that takes n off the list has found *)
LEMMA RemovedWasSilent ==
    ASSUME MonitorInv, [Next]_vars, NEW n \in Node, Removed(n)
    PROVE  silence[n] > Stale + (MaxMissed - 1) * CheckInterval
<1>1. n \in listed /\ n \notin listed' /\ check' = CheckInterval
  BY DEF Removed
<1>2. CheckNodes
  <2>1. ~(listed \subseteq listed')
    BY <1>1
  <2>2. ~MasterRestarts
    BY <1>1, Constants DEF MasterRestarts
  <2>3. QED
    BY <2>1, <2>2 DEF Next, vars, monitor, Start, Registered, RegistrationFails, Heartbeat,
      HeartbeatFails, Die, Tick, RegisterNode, UpdateHeartbeat
<1>3. silence[n] > Stale /\ Missing(n) /\ check = 0
  BY <1>1, <1>2 DEF CheckNodes
<1>t. silence[n] \in Nat /\ missed[n] \in Nat
  BY <1>1 DEF MonitorInv, MonitorTypeOK
<1>4. missed[n] = MaxMissed - 1
  BY <1>1, <1>3, <1>t, Constants DEF MonitorInv, CountFitsSilence, Missing
<1>5. PICK p \in Int : p = missed[n] * CheckInterval
  BY <1>t, Constants
<1>6. CASE missed[n] = 0
  <2>1. p = 0
    BY <1>5, <1>6, Constants
  <2>2. QED
    BY <1>3, <1>t, <1>4, <1>5, <2>1, Constants
<1>7. CASE missed[n] > 0
  <2>1. silence[n] + 0 > Stale + p
    BY <1>1, <1>3, <1>5, <1>7 DEF MonitorInv, CountFitsSilence
  <2>2. QED
    BY <1>t, <1>4, <1>5, <2>1, Constants
<1>8. missed[n] = 0 \/ missed[n] > 0
  BY <1>t
<1>9. QED
  BY <1>6, <1>7, <1>8

(* _check_nodes: a node is taken off the list only after a silence without a break of the
   length that max_missed_heartbeats stands for, whatever it missed before. *)
THEOREM RemovedOnlyAfterLongSilence == Spec => RemovedAfterLongSilence
<1>1. ASSUME MonitorInv, [Next]_vars
      PROVE  \A n \in Node :
                Removed(n) => silence[n] > Stale + (MaxMissed - 1) * CheckInterval
  BY <1>1, RemovedWasSilent
<1>2. QED
  BY <1>1, MonitorInvariance, PTL DEF Spec, RemovedAfterLongSilence

(* send_heartbeat and _check_nodes: a worker that lives on and loses at most two heartbeats
   in a row is never taken off the list, for any intervals with 7 * heartbeat_interval and
   three requests within the master's patience. *)
THEOREM TwoLossesSurvived ==
    ASSUME WaitsFit
    PROVE  Spec => SurvivesTwoLosses
<1>1. ASSUME MonitorInv, WorkerInv, [Next]_vars, NEW n \in Node, Removed(n),
             life[n] = "beating"
      PROVE  fails[n] > 2
  <2>1. silence[n] > Stale + (MaxMissed - 1) * CheckInterval
    BY <1>1, RemovedWasSilent
  <2>2. n \in listed /\ silence[n] \in Nat /\ fails[n] \in 0..MaxFailures
    BY <1>1 DEF Removed, MonitorInv, MonitorTypeOK, WorkerInv, WorkerTypeOK
  <2>3. SUFFICES ASSUME fails[n] <= 2 PROVE FALSE
    BY <2>2, Constants
  <2>4. wait[n] \in Nat /\ silence[n] + wait[n] <= Patience(fails[n])
    BY <1>1, <2>2, <2>3 DEF WorkerInv, WaitFitsSilence, InTime
  <2>5. Patience(fails[n]) \in Nat /\ Patience(fails[n]) <= 7 * Interval + 3 * RequestTime
    BY Constants DEF Patience
  <2>6. PICK p \in Int : p = (MaxMissed - 1) * CheckInterval
    BY Constants
  <2>7. 7 * Interval + 3 * RequestTime <= Stale + p
    BY <2>6 DEF WaitsFit
  <2>8. QED
    BY <2>1, <2>2, <2>4, <2>5, <2>6, <2>7, Constants
<1>2. MonitorInv /\ WorkerInv /\ [Next]_vars =>
        \A n \in Node : Removed(n) /\ life[n] = "beating" => fails[n] > 2
  BY <1>1
<1>3. QED
  BY <1>2, MonitorInvariance, WorkerInvariance, PTL DEF Spec, SurvivesTwoLosses
=============================================================================
