----------------------------- MODULE GateProofs -----------------------------
(***************************************************************************)
(* Proofs about QueueGate and about the handlers over it (Gateway), for    *)
(* any finite set of tasks, any layer capacities, any set of               *)
(* configurations and any number of attempts.                              *)
(*                                                                         *)
(* Slot conservation is not inductive: that a hand-over gives the slot to  *)
(* a task that owns none rests on who may be in the queue, and that rests  *)
(* on who may be suspended in put().  Sound collects what holds of the     *)
(* gate whoever calls it (AnyStep), Inv what holds if its callers use it   *)
(* as it is meant to be used, and HandlersInv what holds with the callers  *)
(* of the code, who do not.                                                *)
(*                                                                         *)
(* That the gate implements AdmissionPool is shown on the order of the     *)
(* line: what joining, serving and giving up do to who is ahead of whom.   *)
(***************************************************************************)
EXTENDS Gateway, SequenceTheorems, FiniteSetTheorems, TLAPS

(* The steps of the gate, whoever calls it *)
AnyStep == \E t \in Task : Acquire(t) \/ Wait(t) \/ Release(t)

AnySpec == Init /\ [][AnyStep]_vars

(* A task inside acquire() owns no slot. *)
CallersOwnNothing == \A t \in Task : phase[t] # "idle" => holders[t] = "none"

(* With Futures f and phases p, the pending Waiters of s are those of the tasks that
   wait: each belongs to such a task, and each such task has one. *)
Matches(s, f, p) ==
    /\ \A i \in DOMAIN s : f[s[i]] = "pending" => p[s[i]] = "waiting"
    /\ \A t \in Task : p[t] = "waiting" /\ f[t] = "pending" => \E i \in DOMAIN s : s[i] = t

QueueMatchesWaiters == Matches(q, fut, phase)

(* A task that is suspended in put(), or woken in it, is there once, with its Future
   untouched. *)
PuttersMatch ==
    /\ \A i \in DOMAIN putters :
        phase[putters[i]] = "putting" /\ Live(putters[i]) /\ putters[i] \notin woken
    /\ \A t \in woken : phase[t] = "putting" /\ Live(t)
    /\ \A i, j \in DOMAIN putters : putters[i] = putters[j] => i = j

(* Where put() cannot suspend nobody is in it, and a free ticket means that nobody in
   the queue is waiting for one. *)
TicketsOnlyWithoutWaiters ==
    ~Blocking =>
        /\ putters = <<>> /\ woken = {}
        /\ (\E l \in Layer : ticket[l] > 0) => NoneLive

Sound ==
    /\ TypeOK
    /\ QueueMatchesWaiters
    /\ PuttersMatch
    /\ TicketsOnlyWithoutWaiters

Shape == Sound /\ CallersOwnNothing

Conserved == \A l \in Layer : ticket[l] + Cardinality(Owners(l)) = Cap[l]

Inv == Shape /\ Conserved
-----------------------------------------------------------------------------
(* Facts about the sequence operations the gate uses. *)

(* Dropping the first n elements of a sequence. *)
LEMMA DropFirst ==
    ASSUME NEW S, NEW s \in Seq(S), NEW n \in 0..Len(s)
    PROVE  /\ SubSeq(s, n + 1, Len(s)) \in Seq(S)
           /\ DOMAIN SubSeq(s, n + 1, Len(s)) = 1..(Len(s) - n)
           /\ \A i \in 1..(Len(s) - n) : SubSeq(s, n + 1, Len(s))[i] = s[i + n]
<1>1. Len(s) \in Nat /\ \A i \in 1..Len(s) : s[i] \in S
  BY ElementOfSeq, LenProperties
<1>2. n + 1 \in Int /\ Len(s) \in Int /\ \A i \in (n + 1)..Len(s) : s[i] \in S
  BY <1>1
<1>3. /\ SubSeq(s, n + 1, Len(s)) \in Seq(S)
      /\ Len(SubSeq(s, n + 1, Len(s))) = IF n + 1 <= Len(s) THEN Len(s) - (n + 1) + 1 ELSE 0
      /\ \A i \in 1..(Len(s) - (n + 1) + 1) :
            SubSeq(s, n + 1, Len(s))[i] = s[n + 1 + i - 1]
  BY <1>2, SubSeqProperties
<1>4. QED
  BY <1>1, <1>3, LenProperties

(* Removing one element of a sequence. *)
LEMMA RemoveOne ==
    ASSUME NEW S, NEW s \in Seq(S), NEW n \in 1..Len(s)
    PROVE  /\ RemoveAt(s, n) \in Seq(S)
           /\ DOMAIN RemoveAt(s, n) = 1..(Len(s) - 1)
           /\ \A i \in 1..(Len(s) - 1) :
                RemoveAt(s, n)[i] = IF i < n THEN s[i] ELSE s[i + 1]
<1> DEFINE a == SubSeq(s, 1, n - 1)
           b == SubSeq(s, n + 1, Len(s))
<1>1. Len(s) \in Nat /\ \A i \in 1..Len(s) : s[i] \in S
  BY ElementOfSeq, LenProperties
<1>2. a \in Seq(S) /\ Len(a) = n - 1 /\ \A i \in 1..(n - 1) : a[i] = s[i]
  <2>1. 1 \in Int /\ n - 1 \in Int /\ \A i \in 1..(n - 1) : s[i] \in S
    BY <1>1
  <2>2. /\ a \in Seq(S)
        /\ Len(a) = IF 1 <= n - 1 THEN n - 1 - 1 + 1 ELSE 0
        /\ \A i \in 1..(n - 1 - 1 + 1) : a[i] = s[1 + i - 1]
    BY <2>1, SubSeqProperties
  <2>3. QED
    BY <1>1, <2>2
<1>3. b \in Seq(S) /\ Len(b) = Len(s) - n /\ \A i \in 1..(Len(s) - n) : b[i] = s[i + n]
  BY <1>1, DropFirst, LenProperties
<1>4. /\ a \o b \in Seq(S)
      /\ Len(a \o b) = Len(a) + Len(b)
      /\ \A i \in 1..(Len(a) + Len(b)) :
            (a \o b)[i] = IF i <= Len(a) THEN a[i] ELSE b[i - Len(a)]
  BY <1>2, <1>3, ConcatProperties
<1>5. RemoveAt(s, n) = a \o b
  BY DEF RemoveAt
<1> HIDE DEF a, b
<1>6. DOMAIN (a \o b) = 1..(Len(s) - 1)
  BY <1>1, <1>2, <1>3, <1>4, LenProperties
<1>7. ASSUME NEW i \in 1..(Len(s) - 1)
      PROVE  (a \o b)[i] = IF i < n THEN s[i] ELSE s[i + 1]
  <2>1. CASE i < n
    BY <1>1, <1>2, <1>3, <1>4, <2>1
  <2>2. CASE ~(i < n)
    <3>1. i - (n - 1) \in 1..(Len(s) - n) /\ i - (n - 1) + n = i + 1
      BY <1>1, <2>2
    <3>2. (a \o b)[i] = b[i - (n - 1)]
      BY <1>1, <1>2, <1>3, <1>4, <2>2
    <3>3. QED
      BY <1>3, <2>2, <3>1, <3>2
  <2>3. QED
    BY <2>1, <2>2
<1>8. QED
  BY <1>4, <1>5, <1>6, <1>7
-----------------------------------------------------------------------------
(* What waking put()s does to those suspended in it, from the first k get()s on the
   queue: PuttersMatch is kept if their phases and Futures are. *)
LEMMA WakePuttersType ==
    ASSUME TypeOK, NEW n \in Nat, WakePutters(n)
    PROVE  putters' \in Seq(Task) /\ woken' \in SUBSET Task
<1>1. Len(putters) \in Nat /\ \A i \in DOMAIN putters : putters[i] \in Task
  BY ElementOfSeq, LenProperties DEF TypeOK
<1>2. n + 1 \in Int /\ Len(putters) \in Int
      /\ \A i \in (n + 1)..Len(putters) : putters[i] \in Task
  BY <1>1, LenProperties DEF TypeOK
<1>3. SubSeq(putters, n + 1, Len(putters)) \in Seq(Task)
  BY <1>2, SubSeqProperties
<1>4. QED
  BY <1>1, <1>3 DEF WakePutters, TypeOK

(* Taking Waiters off the front of the queue keeps it a sequence of tasks. *)
LEMMA DrainType ==
    ASSUME TypeOK, NEW k \in DOMAIN q
    PROVE  /\ SubSeq(q, k + 1, Len(q)) \in Seq(Task)
           /\ DOMAIN SubSeq(q, k + 1, Len(q)) = 1..(Len(q) - k)
           /\ \A i \in 1..(Len(q) - k) : SubSeq(q, k + 1, Len(q))[i] = q[i + k]
<1>1. q \in Seq(Task) /\ k \in 0..Len(q)
  BY LenProperties DEF TypeOK
<1>2. QED
  BY <1>1, DropFirst

LEMMA TypeStep == TypeOK /\ [AnyStep]_vars => TypeOK'
<1> SUFFICES ASSUME TypeOK, [AnyStep]_vars
             PROVE  TypeOK'
  OBVIOUS
<1> USE DEF TypeOK
<1>1. ASSUME NEW t \in Task, TryDirectGate(t)
      PROVE  TypeOK'
  BY <1>1 DEF TryDirectGate
<1>2. ASSUME NEW t \in Task, Refuse(t)
      PROVE  TypeOK'
  BY <1>2 DEF Refuse, vars
<1>3. ASSUME NEW t \in Task, EnqueueWaiter(t)
      PROVE  TypeOK'
  BY <1>3, AppendProperties DEF EnqueueWaiter, Outcome
<1>4. ASSUME NEW t \in Task, DropOldest(t)
      PROVE  TypeOK'
  <2>1. PICK k \in DOMAIN q :
            /\ fut' = [fut EXCEPT ![q[k]] = "dropped", ![t] = "pending"]
            /\ q' = Append(SubSeq(q, k + 1, Len(q)), t)
            /\ WakePutters(k)
    BY <1>4 DEF DropOldest
  <2>2. SubSeq(q, k + 1, Len(q)) \in Seq(Task)
    BY DrainType
  <2>3. q' \in Seq(Task)
    BY <2>1, <2>2, AppendProperties
  <2>4. putters' \in Seq(Task) /\ woken' \in SUBSET Task
    BY <2>1, WakePuttersType, LenProperties
  <2>5. QED
    BY <1>4, <2>1, <2>3, <2>4 DEF DropOldest, Outcome
<1>5. ASSUME NEW t \in Task, DropOnlyDead(t)
      PROVE  TypeOK'
  <2>1. WakePutters(Len(q)) /\ Len(q) \in Nat
    BY <1>5, LenProperties DEF DropOnlyDead
  <2>2. putters' \in Seq(Task) /\ woken' \in SUBSET Task
    BY <2>1, WakePuttersType
  <2>3. CASE conf.overflow = "block"
    <3>1. PICK s \in Seq(Task) : s = <<>>
      BY EmptySeq
    <3>2. Append(s, t) \in Seq(Task)
      BY AppendProperties
    <3>3. q' = Append(s, t)
      BY <1>5, <2>3, <3>1 DEF DropOnlyDead
    <3>4. QED
      BY <1>5, <2>2, <2>3, <3>2, <3>3 DEF DropOnlyDead, Outcome
  <2>4. CASE conf.overflow # "block"
    BY <1>5, <2>2, <2>4, EmptySeq DEF DropOnlyDead
  <2>5. QED
    BY <2>3, <2>4
<1>6. ASSUME NEW t \in Task, BlockInPut(t)
      PROVE  TypeOK'
  BY <1>6, AppendProperties DEF BlockInPut, Outcome
<1>7. ASSUME NEW t \in Task, ResumePut(t)
      PROVE  TypeOK'
  <2>1. Append(putters, t) \in Seq(Task) /\ Append(q, t) \in Seq(Task)
    BY AppendProperties
  <2>2. CASE Full
    BY <1>7, <2>1, <2>2 DEF ResumePut
  <2>3. CASE ~Full
    BY <1>7, <2>1, <2>3 DEF ResumePut
  <2>4. QED
    BY <2>2, <2>3
<1>8. ASSUME NEW t \in Task, CancelPut(t)
      PROVE  TypeOK'
  <2>1. putters' \in Seq(Task) /\ woken' \in SUBSET Task
    <3>1. CASE \E i \in DOMAIN putters :
                /\ putters[i] = t
                /\ putters' = RemoveAt(putters, i)
                /\ UNCHANGED woken
      BY <3>1, RemoveOne, LenProperties
    <3>2. CASE /\ t \in woken
               /\ IF Full \/ putters = <<>>
                  THEN woken' = woken \ {t} /\ UNCHANGED putters
                  ELSE woken' = (woken \ {t}) \cup {Head(putters)} /\ putters' = Tail(putters)
      <4>1. CASE Full \/ putters = <<>>
        BY <3>2, <4>1
      <4>2. CASE ~(Full \/ putters = <<>>)
        <5>1. Head(putters) \in Task /\ Tail(putters) \in Seq(Task)
          BY <4>2, HeadTailProperties
        <5>2. QED
          BY <3>2, <4>2, <5>1
      <4>3. QED
        BY <4>1, <4>2
    <3>3. QED
      BY <1>8, <3>1, <3>2 DEF CancelPut
  <2>2. QED
    BY <1>8, <2>1 DEF CancelPut, Outcome
<1>9. ASSUME NEW t \in Task, InheritOccupy(t)
      PROVE  TypeOK'
  BY <1>9 DEF InheritOccupy, Outcome
<1>10. ASSUME NEW t \in Task, RaiseDropped(t)
       PROVE  TypeOK'
  BY <1>10 DEF RaiseDropped, Outcome
<1>11. ASSUME NEW t \in Task, GiveUp(t)
       PROVE  TypeOK'
  BY <1>11 DEF GiveUp, Outcome
<1>12. ASSUME NEW t \in Task, Release(t)
       PROVE  TypeOK'
  <2>1. CASE \E k \in DOMAIN q :
                /\ FirstLive(k)
                /\ fut' = [fut EXCEPT ![q[k]] = holders[t]]
                /\ q' = SubSeq(q, k + 1, Len(q))
                /\ WakePutters(k)
                /\ UNCHANGED ticket
    <3>1. PICK k \in DOMAIN q :
                /\ fut' = [fut EXCEPT ![q[k]] = holders[t]]
                /\ q' = SubSeq(q, k + 1, Len(q))
                /\ WakePutters(k)
                /\ UNCHANGED ticket
      BY <2>1
    <3>2. q' \in Seq(Task)
      BY <3>1, DrainType
    <3>3. putters' \in Seq(Task) /\ woken' \in SUBSET Task
      BY <3>1, WakePuttersType, LenProperties
    <3>4. QED
      BY <1>12, <3>1, <3>2, <3>3 DEF Release, Outcome
  <2>2. CASE /\ NoneLive
             /\ q' = <<>>
             /\ WakePutters(Len(q))
             /\ ticket' = [ticket EXCEPT ![holders[t]] = @ + 1]
             /\ UNCHANGED fut
    <3>1. putters' \in Seq(Task) /\ woken' \in SUBSET Task
      BY <2>2, WakePuttersType, LenProperties
    <3>2. QED
      BY <1>12, <2>2, <3>1, EmptySeq DEF Release
  <2>3. QED
    BY <1>12, <2>1, <2>2 DEF Release
<1>13. CASE UNCHANGED vars
  BY <1>13 DEF vars
<1>14. QED
  BY <1>1, <1>2, <1>3, <1>4, <1>5, <1>6, <1>7, <1>8, <1>9, <1>10, <1>11, <1>12, <1>13
  DEF AnyStep, Acquire, Wait

(* Callers that use the gate as it is meant to be used *)
LEMMA NextIsAnyStep == [Next]_vars => [AnyStep]_vars
BY DEF Next, Call, AnyStep

LEMMA TypeInit == Init => TypeOK
BY GateAssumption, EmptySeq DEF Init, TypeOK, Outcome, Layer

(* Every variable of the gate keeps its type, for any number of tasks, any capacities
   and any configuration; in particular no semaphore ever holds less than no ticket. *)
THEOREM TypeCorrect == Spec => []TypeOK
<1>1. [Next]_vars => [AnyStep]_vars
  BY NextIsAnyStep
<1>2. QED
  BY <1>1, TypeInit, TypeStep, PTL DEF Spec
-----------------------------------------------------------------------------
(* Waking put()s moves tasks from one place to the other and loses none. *)
LEMMA WakePuttersMatch ==
    ASSUME TypeOK, PuttersMatch, NEW n \in Nat, WakePutters(n),
           \A u \in Task : phase[u] = "putting" /\ Live(u)
                            => phase'[u] = "putting" /\ fut'[u] = "pending"
    PROVE  PuttersMatch'
<1>1. Len(putters) \in Nat /\ DOMAIN putters = 1..Len(putters)
      /\ \A i \in DOMAIN putters : putters[i] \in Task
  BY ElementOfSeq, LenProperties DEF TypeOK
<1>2. /\ putters' \in Seq(Task)
      /\ Len(putters') = IF n + 1 <= Len(putters) THEN Len(putters) - (n + 1) + 1 ELSE 0
      /\ \A i \in 1..(Len(putters) - (n + 1) + 1) : putters'[i] = putters[n + 1 + i - 1]
  <2>1. n + 1 \in Int /\ Len(putters) \in Int
        /\ \A i \in (n + 1)..Len(putters) : putters[i] \in Task
    BY <1>1
  <2>2. QED
    BY <2>1, SubSeqProperties DEF WakePutters
<1>3. ASSUME NEW i \in DOMAIN putters'
      PROVE  i + n \in DOMAIN putters /\ putters'[i] = putters[i + n]
  <2>1. i \in 1..Len(putters')
    BY <1>2, LenProperties
  <2>2. n + 1 <= Len(putters) /\ i \in 1..(Len(putters) - n)
    <3>1. CASE n + 1 <= Len(putters)
      <4>1. Len(putters') = Len(putters) - (n + 1) + 1
        BY <1>2, <3>1
      <4>2. QED
        BY <1>1, <2>1, <3>1, <4>1
    <3>2. CASE ~(n + 1 <= Len(putters))
      <4>1. Len(putters') = 0
        BY <1>2, <3>2
      <4>2. QED
        BY <2>1, <4>1
    <3>3. QED
      BY <3>1, <3>2
  <2>3. i + n \in 1..Len(putters) /\ n + 1 + i - 1 = i + n
    BY <1>1, <2>2
  <2>4. QED
    BY <1>1, <1>2, <2>2, <2>3
<1>4. \A i \in DOMAIN putters' :
        /\ phase'[putters'[i]] = "putting" /\ fut'[putters'[i]] = "pending"
        /\ putters'[i] \notin woken'
  <2> TAKE i \in DOMAIN putters'
  <2>1. i + n \in DOMAIN putters /\ putters'[i] = putters[i + n] /\ i \in Nat \ {0}
    BY <1>2, <1>3, LenProperties
  <2>2. /\ putters[i + n] \in Task
        /\ phase[putters[i + n]] = "putting" /\ Live(putters[i + n])
        /\ putters[i + n] \notin woken
    BY <1>1, <2>1 DEF PuttersMatch
  <2>3. ASSUME NEW j \in DOMAIN putters \cap 1..n, putters[j] = putters'[i]
        PROVE  FALSE
    BY <2>1, <2>3 DEF PuttersMatch
  <2>4. phase'[putters'[i]] = "putting" /\ fut'[putters'[i]] = "pending"
    BY <2>1, <2>2 DEF Live
  <2>5. QED
    BY <2>1, <2>2, <2>3, <2>4 DEF WakePutters
<1>5. \A u \in woken' : phase'[u] = "putting" /\ fut'[u] = "pending"
  <2> TAKE u \in woken'
  <2>1. u \in Task /\ phase[u] = "putting" /\ Live(u)
    BY <1>1 DEF WakePutters, PuttersMatch, TypeOK
  <2>2. QED
    BY <2>1 DEF Live
<1>6. \A i, j \in DOMAIN putters' : putters'[i] = putters'[j] => i = j
  <2> TAKE i, j \in DOMAIN putters'
  <2>1. i \in Nat /\ j \in Nat
    BY <1>2, LenProperties
  <2>2. QED
    BY <1>3, <2>1 DEF PuttersMatch
<1>7. QED
  BY <1>4, <1>5, <1>6 DEF PuttersMatch, Live

(* A task that suspends in put() goes last, whether it calls put() or was woken in it. *)
LEMMA JoinPutters ==
    ASSUME TypeOK, PuttersMatch, NEW t \in Task,
           \A i \in DOMAIN putters : putters[i] # t,
           putters' = Append(putters, t), woken' = woken \ {t},
           phase'[t] = "putting", fut'[t] = "pending",
           \A u \in Task : u # t => phase'[u] = phase[u] /\ fut'[u] = fut[u]
    PROVE  PuttersMatch'
<1>1. Len(putters) \in Nat /\ DOMAIN putters = 1..Len(putters)
      /\ \A i \in DOMAIN putters : putters[i] \in Task
  BY ElementOfSeq, LenProperties DEF TypeOK
<1>2. /\ DOMAIN putters' = 1..(Len(putters) + 1)
      /\ \A i \in 1..Len(putters) : putters'[i] = putters[i]
      /\ putters'[Len(putters) + 1] = t
  BY AppendProperties, LenProperties DEF TypeOK
<1>3. ASSUME NEW i \in DOMAIN putters'
      PROVE  \/ i \in DOMAIN putters /\ putters'[i] = putters[i]
             \/ i = Len(putters) + 1 /\ putters'[i] = t
  BY <1>1, <1>2
<1>4. \A i \in DOMAIN putters' :
        /\ phase'[putters'[i]] = "putting" /\ fut'[putters'[i]] = "pending"
        /\ putters'[i] \notin woken'
  BY <1>1, <1>3 DEF PuttersMatch, Live
<1>5. \A u \in woken' : phase'[u] = "putting" /\ fut'[u] = "pending"
  BY DEF PuttersMatch, Live, TypeOK
<1>6. \A i, j \in DOMAIN putters' : putters'[i] = putters'[j] => i = j
  BY <1>3 DEF PuttersMatch
<1>7. QED
  BY <1>4, <1>5, <1>6 DEF PuttersMatch, Live

(* A cancelled task leaves the place it was suspended at, and nobody else moves. *)
LEMMA LeavePutters ==
    ASSUME TypeOK, PuttersMatch, NEW n \in DOMAIN putters,
           putters' = RemoveAt(putters, n), UNCHANGED woken,
           \A u \in Task : u # putters[n] => phase'[u] = phase[u] /\ fut'[u] = fut[u]
    PROVE  PuttersMatch'
<1>1. Len(putters) \in Nat /\ DOMAIN putters = 1..Len(putters)
      /\ \A i \in DOMAIN putters : putters[i] \in Task
  BY ElementOfSeq, LenProperties DEF TypeOK
<1>2. /\ DOMAIN putters' = 1..(Len(putters) - 1)
      /\ \A i \in 1..(Len(putters) - 1) :
            putters'[i] = IF i < n THEN putters[i] ELSE putters[i + 1]
  BY <1>1, RemoveOne DEF TypeOK
<1>3. ASSUME NEW i \in DOMAIN putters'
      PROVE  \/ i < n /\ i \in DOMAIN putters /\ putters'[i] = putters[i]
             \/ i >= n /\ i + 1 \in DOMAIN putters /\ putters'[i] = putters[i + 1]
  BY <1>1, <1>2
<1>4. ASSUME NEW i \in DOMAIN putters'
      PROVE  \E j \in DOMAIN putters : j # n /\ putters'[i] = putters[j]
  <2>1. CASE i < n
    BY <1>1, <1>2, <1>3, <2>1
  <2>2. CASE ~(i < n)
    <3>1. i + 1 # n /\ i + 1 \in DOMAIN putters /\ putters'[i] = putters[i + 1]
      BY <1>1, <1>2, <1>3, <2>2
    <3>2. QED
      BY <3>1
  <2>3. QED
    BY <2>1, <2>2
<1>5. ASSUME NEW i \in DOMAIN putters'
      PROVE  /\ phase'[putters'[i]] = "putting" /\ fut'[putters'[i]] = "pending"
             /\ putters'[i] \notin woken'
  <2>1. PICK j \in DOMAIN putters : j # n /\ putters'[i] = putters[j]
    BY <1>4
  <2>2. putters[j] \in Task /\ putters[j] # putters[n]
    BY <1>1, <2>1 DEF PuttersMatch
  <2>3. QED
    BY <2>1, <2>2 DEF PuttersMatch, Live
<1>6. \A u \in woken' : phase'[u] = "putting" /\ fut'[u] = "pending"
  BY DEF PuttersMatch, Live, TypeOK
<1>7. \A i, j \in DOMAIN putters' : putters'[i] = putters'[j] => i = j
  <2> TAKE i, j \in DOMAIN putters'
  <2>1. i \in Nat /\ j \in Nat /\ n \in Nat
    BY <1>1, <1>2
  <2>2. QED
    BY <1>3, <2>1 DEF PuttersMatch
<1>8. QED
  BY <1>5, <1>6, <1>7 DEF PuttersMatch, Live

(* The queue after the Waiters up to and including the oldest live one, q[k], are taken
   out and q[k]'s Future is completed, nothing else being touched. *)
LEMMA DrainMatches ==
    ASSUME Sound, NEW k \in DOMAIN q, FirstLive(k), NEW rest,
           rest = SubSeq(q, k + 1, Len(q)), NEW f,
           f[q[k]] # "pending", \A u \in Task : u # q[k] => f[u] = fut[u]
    PROVE  Matches(rest, f, phase)
<1> USE DEF Sound, QueueMatchesWaiters, Matches
<1>1. /\ DOMAIN rest = 1..(Len(q) - k)
      /\ \A i \in 1..(Len(q) - k) : rest[i] = q[i + k]
  BY DrainType
<1>2. Len(q) \in Nat /\ DOMAIN q = 1..Len(q) /\ \A i \in DOMAIN q : q[i] \in Task
  BY ElementOfSeq, LenProperties DEF TypeOK
<1>3. ASSUME NEW i \in DOMAIN rest
      PROVE  i + k \in DOMAIN q /\ rest[i] = q[i + k]
  BY <1>1, <1>2
<1>4. ASSUME NEW i \in DOMAIN rest, f[rest[i]] = "pending"
      PROVE  phase[rest[i]] = "waiting"
  <2>1. rest[i] \in Task /\ rest[i] # q[k]
    BY <1>2, <1>3, <1>4
  <2>2. fut[q[i + k]] = "pending"
    BY <1>3, <1>4, <2>1
  <2>3. QED
    BY <1>3, <2>2
<1>5. ASSUME NEW u \in Task, phase[u] = "waiting", f[u] = "pending"
      PROVE  \E i \in DOMAIN rest : rest[i] = u
  <2>1. u # q[k] /\ fut[u] = "pending"
    BY <1>5
  <2>2. PICK j \in DOMAIN q : q[j] = u
    BY <1>5, <2>1
  <2>3. j > k
    BY <1>2, <2>1, <2>2 DEF FirstLive, Live
  <2>4. j - k \in DOMAIN rest /\ rest[j - k] = q[j]
    BY <1>1, <1>2, <2>3
  <2>5. QED
    BY <2>2, <2>4
<1>6. QED
  BY <1>4, <1>5

(* A task that starts to wait puts its Waiter last. *)
LEMMA AppendMatches ==
    ASSUME NEW s \in Seq(Task), NEW t \in Task, NEW f, NEW p, NEW g, NEW h,
           Matches(s, f, p), g[t] = "pending", h[t] = "waiting",
           \A u \in Task : u # t => g[u] = f[u] /\ h[u] = p[u]
    PROVE  Matches(Append(s, t), g, h)
<1>1. Len(s) \in Nat /\ DOMAIN s = 1..Len(s) /\ \A i \in DOMAIN s : s[i] \in Task
  BY ElementOfSeq, LenProperties
<1>2. /\ Append(s, t) \in Seq(Task)
      /\ Len(Append(s, t)) = Len(s) + 1
      /\ \A i \in 1..Len(s) : Append(s, t)[i] = s[i]
      /\ Append(s, t)[Len(s) + 1] = t
  BY AppendProperties
<1>3. DOMAIN Append(s, t) = 1..(Len(s) + 1)
  BY <1>2, LenProperties
<1>4. ASSUME NEW i \in 1..(Len(s) + 1)
      PROVE  \/ i \in DOMAIN s /\ Append(s, t)[i] = s[i]
             \/ Append(s, t)[i] = t
  BY <1>1, <1>2
<1>5. \A i \in DOMAIN Append(s, t) :
        g[Append(s, t)[i]] = "pending" => h[Append(s, t)[i]] = "waiting"
  BY <1>1, <1>3, <1>4 DEF Matches
<1>6. \A u \in Task : h[u] = "waiting" /\ g[u] = "pending"
                        => \E i \in DOMAIN Append(s, t) : Append(s, t)[i] = u
  BY <1>1, <1>2, <1>3 DEF Matches
<1>7. QED
  BY <1>5, <1>6 DEF Matches

(* With no live Waiter in the queue nobody waits for a slot, and it may be emptied. *)
LEMMA EmptiedMatches == Sound /\ NoneLive => Matches(<<>>, fut, phase)
<1> SUFFICES ASSUME Sound, NoneLive
             PROVE  Matches(<<>>, fut, phase)
  OBVIOUS
<1>1. DOMAIN <<>> = {}
  OBVIOUS
<1>2. \A t \in Task : ~(phase[t] = "waiting" /\ fut[t] = "pending")
  BY DEF Sound, QueueMatchesWaiters, Matches, NoneLive, Live
<1>3. QED
  BY <1>1, <1>2 DEF Matches

(* get()s wake nobody when nobody is suspended. *)
LEMMA WakeNobody ==
    ASSUME NEW n \in Nat, WakePutters(n), putters = <<>>, woken = {}
    PROVE  putters' = <<>> /\ woken' = {}
<1>1. DOMAIN putters = {} /\ Len(putters) = 0
  BY EmptySeq
<1>2. putters' = <<>>
  BY <1>1, SubSeqProperties, EmptySeq DEF WakePutters
<1>3. QED
  BY <1>1, <1>2 DEF WakePutters
-----------------------------------------------------------------------------
(* The parts of Shape, one lemma each: what every action does to them. *)

LEMMA CallersStep == Shape /\ [Next]_vars => CallersOwnNothing'
<1> SUFFICES ASSUME Shape, [Next]_vars
             PROVE  CallersOwnNothing'
  OBVIOUS
<1> USE DEF Shape, Sound, TypeOK, CallersOwnNothing
<1>1. ASSUME NEW t \in Task, Call(t)
      PROVE  CallersOwnNothing'
  <2>1. CASE TryDirectGate(t)
    BY <2>1 DEF TryDirectGate, CanCall
  <2>2. CASE Refuse(t)
    BY <2>2 DEF Refuse, vars
  <2>3. CASE EnqueueWaiter(t) \/ DropOldest(t) \/ DropOnlyDead(t) \/ BlockInPut(t)
    <3>1. /\ UNCHANGED holders
          /\ \A u \in Task : u # t => phase'[u] = phase[u]
      BY <2>3 DEF EnqueueWaiter, DropOldest, DropOnlyDead, BlockInPut
    <3>2. QED
      BY <1>1, <3>1 DEF Call
  <2>4. QED
    BY <1>1, <2>1, <2>2, <2>3 DEF Call, Acquire
<1>2. ASSUME NEW t \in Task, ResumePut(t)
      PROVE  CallersOwnNothing'
  <2>1. phase[t] = "putting"
    BY <1>2 DEF ResumePut, PuttersMatch
  <2>2. UNCHANGED holders /\ \A u \in Task : u # t => phase'[u] = phase[u]
    BY <1>2 DEF ResumePut
  <2>3. QED
    BY <2>1, <2>2
<1>3. ASSUME NEW t \in Task,
             CancelPut(t) \/ InheritOccupy(t) \/ RaiseDropped(t) \/ GiveUp(t)
      PROVE  CallersOwnNothing'
  <2>1. /\ phase'[t] = "idle"
        /\ \A u \in Task : u # t => phase'[u] = phase[u] /\ holders'[u] = holders[u]
    BY <1>3 DEF CancelPut, InheritOccupy, RaiseDropped, GiveUp
  <2>2. QED
    BY <2>1
<1>4. ASSUME NEW t \in Task, Release(t)
      PROVE  CallersOwnNothing'
  BY <1>4 DEF Release
<1>5. CASE UNCHANGED vars
  BY <1>5 DEF vars
<1>6. QED
  BY <1>1, <1>2, <1>3, <1>4, <1>5 DEF Next, Wait

LEMMA MatchesStep == Sound /\ [AnyStep]_vars => QueueMatchesWaiters'
<1> SUFFICES ASSUME Sound, [AnyStep]_vars
             PROVE  Matches(q', fut', phase')
  BY DEF QueueMatchesWaiters
<1> USE DEF Sound, QueueMatchesWaiters
<1>q. \A i \in DOMAIN q : q[i] \in Task
  BY ElementOfSeq, LenProperties DEF TypeOK
<1>1. ASSUME NEW t \in Task, TryDirectGate(t) \/ Refuse(t)
      PROVE  Matches(q', fut', phase')
  BY <1>1 DEF TryDirectGate, Refuse, vars
<1>2. ASSUME NEW t \in Task, EnqueueWaiter(t)
      PROVE  Matches(q', fut', phase')
  <2>1. /\ q' = Append(q, t) /\ fut'[t] = "pending" /\ phase'[t] = "waiting"
        /\ \A u \in Task : u # t => fut'[u] = fut[u] /\ phase'[u] = phase[u]
    BY <1>2 DEF EnqueueWaiter, TypeOK
  <2>2. QED
    BY <2>1, AppendMatches DEF TypeOK
<1>3. ASSUME NEW t \in Task, DropOldest(t)
      PROVE  Matches(q', fut', phase')
  <2>1. PICK k \in DOMAIN q :
            /\ FirstLive(k)
            /\ fut' = [fut EXCEPT ![q[k]] = "dropped", ![t] = "pending"]
            /\ q' = Append(SubSeq(q, k + 1, Len(q)), t)
    BY <1>3 DEF DropOldest
  <2> DEFINE rest == SubSeq(q, k + 1, Len(q))
             told == [fut EXCEPT ![q[k]] = "dropped"]
  <2>2. rest \in Seq(Task)
    BY DrainType
  <2>3. told[q[k]] # "pending" /\ \A u \in Task : u # q[k] => told[u] = fut[u]
    BY <1>q DEF TypeOK
  <2>4. Matches(rest, told, phase)
    BY <2>1, <2>3, DrainMatches
  <2>5. /\ fut'[t] = "pending" /\ phase'[t] = "waiting"
        /\ \A u \in Task : u # t => fut'[u] = told[u] /\ phase'[u] = phase[u]
    BY <1>3, <1>q, <2>1 DEF DropOldest, TypeOK
  <2> HIDE DEF rest, told
  <2>6. Matches(Append(rest, t), fut', phase')
    BY <2>2, <2>4, <2>5, AppendMatches
  <2>7. QED
    BY <2>1, <2>6 DEF rest
<1>4. ASSUME NEW t \in Task, DropOnlyDead(t)
      PROVE  Matches(q', fut', phase')
  <2>1. Matches(<<>>, fut, phase)
    BY <1>4, EmptiedMatches DEF DropOnlyDead
  <2>2. CASE conf.overflow = "block"
    <3>1. PICK s \in Seq(Task) : s = <<>>
      BY EmptySeq
    <3>2. /\ q' = Append(s, t) /\ fut'[t] = "pending" /\ phase'[t] = "waiting"
          /\ \A u \in Task : u # t => fut'[u] = fut[u] /\ phase'[u] = phase[u]
      BY <1>4, <2>2, <3>1 DEF DropOnlyDead, TypeOK
    <3>3. Matches(s, fut, phase)
      BY <2>1, <3>1
    <3>4. Matches(Append(s, t), fut', phase')
      BY <3>2, <3>3, AppendMatches
    <3>5. QED
      BY <3>2, <3>4
  <2>3. CASE conf.overflow # "block"
    BY <1>4, <2>1, <2>3 DEF DropOnlyDead
  <2>4. QED
    BY <2>2, <2>3
<1>5. ASSUME NEW t \in Task, BlockInPut(t)
      PROVE  Matches(q', fut', phase')
  <2>1. \A i \in DOMAIN q : q[i] # t
    BY <1>5 DEF BlockInPut, CanCall, ToSet
  <2>2. /\ UNCHANGED q /\ phase'[t] = "putting"
        /\ \A u \in Task : u # t => fut'[u] = fut[u] /\ phase'[u] = phase[u]
    BY <1>5 DEF BlockInPut, TypeOK
  <2>3. QED
    BY <1>q, <2>1, <2>2 DEF Matches
<1>6. ASSUME NEW t \in Task, ResumePut(t)
      PROVE  Matches(q', fut', phase')
  <2>1. fut[t] = "pending" /\ UNCHANGED fut
    BY <1>6 DEF ResumePut, PuttersMatch, Live
  <2>2. CASE Full
    BY <1>6, <2>1, <2>2 DEF ResumePut
  <2>3. CASE ~Full
    <3>1. /\ q' = Append(q, t) /\ phase'[t] = "waiting"
          /\ \A u \in Task : u # t => phase'[u] = phase[u]
      BY <1>6, <2>3 DEF ResumePut, TypeOK
    <3>2. QED
      BY <2>1, <3>1, AppendMatches DEF TypeOK
  <2>4. QED
    BY <2>2, <2>3
<1>7. ASSUME NEW t \in Task,
             CancelPut(t) \/ InheritOccupy(t) \/ RaiseDropped(t) \/ GiveUp(t)
      PROVE  Matches(q', fut', phase')
  <2>1. /\ UNCHANGED q /\ fut'[t] # "pending" /\ phase'[t] = "idle"
        /\ \A u \in Task : u # t => fut'[u] = fut[u] /\ phase'[u] = phase[u]
    BY <1>7 DEF CancelPut, InheritOccupy, RaiseDropped, GiveUp, TypeOK
  <2>2. QED
    BY <1>q, <2>1 DEF Matches
<1>8. ASSUME NEW t \in Task, Release(t)
      PROVE  Matches(q', fut', phase')
  <2>1. CASE \E k \in DOMAIN q :
                /\ FirstLive(k)
                /\ fut' = [fut EXCEPT ![q[k]] = holders[t]]
                /\ q' = SubSeq(q, k + 1, Len(q))
    <3>1. PICK k \in DOMAIN q :
                /\ FirstLive(k)
                /\ fut' = [fut EXCEPT ![q[k]] = holders[t]]
                /\ q' = SubSeq(q, k + 1, Len(q))
      BY <2>1
    <3>2. holders[t] \in Layer
      BY <1>8 DEF Release, TypeOK
    <3>3. fut'[q[k]] # "pending" /\ \A u \in Task : u # q[k] => fut'[u] = fut[u]
      BY <1>q, <3>1, <3>2 DEF TypeOK, Layer
    <3>4. Matches(q', fut', phase)
      BY <3>1, <3>3, DrainMatches
    <3>5. QED
      BY <1>8, <3>4 DEF Release
  <2>2. CASE NoneLive /\ q' = <<>> /\ UNCHANGED fut
    BY <1>8, <2>2, EmptiedMatches DEF Release
  <2>3. QED
    BY <1>8, <2>1, <2>2 DEF Release
<1>9. CASE UNCHANGED vars
  BY <1>9 DEF vars
<1>10. QED
  BY <1>1, <1>2, <1>3, <1>4, <1>5, <1>6, <1>7, <1>8, <1>9 DEF AnyStep, Acquire, Wait

LEMMA PuttersStep == Sound /\ [AnyStep]_vars => PuttersMatch'
<1> SUFFICES ASSUME Sound, [AnyStep]_vars
             PROVE  PuttersMatch'
  OBVIOUS
<1> USE DEF Sound
<1>q. \A i \in DOMAIN q : q[i] \in Task
  BY ElementOfSeq, LenProperties DEF TypeOK
<1>p. \A i \in DOMAIN putters : putters[i] \in Task
  BY ElementOfSeq, LenProperties DEF TypeOK
<1>1. ASSUME NEW t \in Task, TryDirectGate(t) \/ Refuse(t)
      PROVE  PuttersMatch'
  BY <1>1 DEF TryDirectGate, Refuse, vars, PuttersMatch, Live
<1>2. ASSUME NEW t \in Task, EnqueueWaiter(t)
      PROVE  PuttersMatch'
  <2>1. /\ phase[t] = "idle" /\ UNCHANGED <<putters, woken>>
        /\ \A u \in Task : u # t => fut'[u] = fut[u] /\ phase'[u] = phase[u]
    BY <1>2 DEF EnqueueWaiter, CanCall
  <2>2. QED
    BY <1>p, <2>1 DEF PuttersMatch, Live, TypeOK
<1>3. ASSUME NEW t \in Task, DropOldest(t)
      PROVE  PuttersMatch'
  <2>1. PICK k \in DOMAIN q :
            /\ FirstLive(k)
            /\ fut' = [fut EXCEPT ![q[k]] = "dropped", ![t] = "pending"]
            /\ WakePutters(k)
    BY <1>3 DEF DropOldest
  <2>2. phase[t] = "idle" /\ phase[q[k]] = "waiting"
    BY <1>3, <2>1 DEF DropOldest, CanCall, FirstLive, QueueMatchesWaiters, Matches, Live
  <2>3. \A u \in Task : u # t => phase'[u] = phase[u]
    BY <1>3 DEF DropOldest
  <2>4. \A u \in Task : phase[u] = "putting" /\ Live(u)
                            => phase'[u] = "putting" /\ fut'[u] = "pending"
    BY <1>3, <2>1, <2>2, <2>3 DEF Live, TypeOK
  <2>5. k \in Nat
    BY LenProperties DEF TypeOK
  <2>6. QED
    BY <2>1, <2>4, <2>5, WakePuttersMatch
<1>4. ASSUME NEW t \in Task, DropOnlyDead(t)
      PROVE  PuttersMatch'
  <2>1. phase[t] = "idle" /\ WakePutters(Len(q)) /\ Len(q) \in Nat
    BY <1>4, LenProperties DEF DropOnlyDead, CanCall, TypeOK
  <2>2. \A u \in Task : u # t => fut'[u] = fut[u] /\ phase'[u] = phase[u]
    BY <1>4 DEF DropOnlyDead, TypeOK
  <2>3. QED
    BY <2>1, <2>2, WakePuttersMatch DEF Live
<1>5. ASSUME NEW t \in Task, BlockInPut(t)
      PROVE  PuttersMatch'
  <2>1. /\ phase[t] = "idle" /\ phase'[t] = "putting" /\ fut'[t] = "pending"
        /\ putters' = Append(putters, t) /\ UNCHANGED woken
        /\ \A u \in Task : u # t => fut'[u] = fut[u] /\ phase'[u] = phase[u]
    BY <1>5 DEF BlockInPut, CanCall, TypeOK
  <2>2. t \notin woken /\ \A i \in DOMAIN putters : putters[i] # t
    BY <2>1 DEF PuttersMatch
  <2>3. QED
    BY <2>1, <2>2, JoinPutters
<1>6. ASSUME NEW t \in Task, ResumePut(t)
      PROVE  PuttersMatch'
  <2>1. /\ phase[t] = "putting" /\ fut[t] = "pending"
        /\ \A i \in DOMAIN putters : putters[i] # t
    BY <1>6 DEF ResumePut, PuttersMatch, Live
  <2>2. /\ woken' = woken \ {t} /\ UNCHANGED fut
        /\ \A u \in Task : u # t => phase'[u] = phase[u]
    BY <1>6 DEF ResumePut, TypeOK
  <2>3. CASE Full
    BY <1>6, <2>1, <2>2, <2>3, JoinPutters DEF ResumePut
  <2>4. CASE ~Full
    <3>1. UNCHANGED putters
      BY <1>6, <2>4 DEF ResumePut
    <3>2. QED
      BY <1>p, <2>1, <2>2, <3>1 DEF PuttersMatch, Live, TypeOK
  <2>5. QED
    BY <2>3, <2>4
<1>7. ASSUME NEW t \in Task, CancelPut(t)
      PROVE  PuttersMatch'
  <2>1. \A u \in Task : u # t => fut'[u] = fut[u] /\ phase'[u] = phase[u]
    BY <1>7 DEF CancelPut
  <2>2. CASE \E i \in DOMAIN putters :
                /\ putters[i] = t
                /\ putters' = RemoveAt(putters, i)
                /\ UNCHANGED woken
    BY <2>1, <2>2, LeavePutters
  <2>3. CASE t \in woken /\ (Full \/ putters = <<>>)
             /\ woken' = woken \ {t} /\ UNCHANGED putters
    <3>1. \A i \in DOMAIN putters : putters[i] # t
      BY <2>3 DEF PuttersMatch
    <3>2. QED
      BY <1>p, <2>1, <2>3, <3>1 DEF PuttersMatch, Live, TypeOK
  <2>4. CASE t \in woken /\ putters # <<>>
             /\ woken' = (woken \ {t}) \cup {Head(putters)} /\ putters' = Tail(putters)
    <3>1. Len(putters) \in Nat \ {0} /\ DOMAIN putters = 1..Len(putters)
      BY <2>4, LenProperties, EmptySeq DEF TypeOK
    <3>2. /\ Head(putters) = putters[1]
          /\ DOMAIN putters' = 1..(Len(putters) - 1)
          /\ \A i \in 1..(Len(putters) - 1) : putters'[i] = putters[i + 1]
      BY <2>4, HeadTailProperties, LenProperties DEF TypeOK
    <3>3. ASSUME NEW i \in DOMAIN putters'
          PROVE  i \in Nat /\ i + 1 # 1 /\ i + 1 \in DOMAIN putters
                 /\ putters'[i] = putters[i + 1]
      BY <3>1, <3>2
    <3>4. t # Head(putters) /\ \A i \in DOMAIN putters : putters[i] # t
      BY <2>4, <3>1, <3>2 DEF PuttersMatch
    <3>5. ASSUME NEW i \in DOMAIN putters'
          PROVE  /\ phase'[putters'[i]] = "putting" /\ fut'[putters'[i]] = "pending"
                 /\ putters'[i] \notin woken'
      <4>1. putters[i + 1] \in Task /\ putters[i + 1] # t
        BY <1>p, <3>3, <3>4
      <4>2. putters[i + 1] # Head(putters)
        BY <3>1, <3>2, <3>3 DEF PuttersMatch
      <4>3. QED
        BY <2>1, <2>4, <3>3, <4>1, <4>2 DEF PuttersMatch, Live
    <3>6. ASSUME NEW u \in woken'
          PROVE  phase'[u] = "putting" /\ fut'[u] = "pending"
      <4>1. u \in Task /\ u # t /\ phase[u] = "putting" /\ fut[u] = "pending"
        BY <1>p, <2>4, <3>1, <3>2, <3>4 DEF PuttersMatch, Live, TypeOK
      <4>2. QED
        BY <2>1, <4>1
    <3>7. \A i, j \in DOMAIN putters' : putters'[i] = putters'[j] => i = j
      BY <3>3 DEF PuttersMatch
    <3>8. QED
      BY <3>5, <3>6, <3>7 DEF PuttersMatch, Live
  <2>5. QED
    BY <1>7, <2>2, <2>3, <2>4 DEF CancelPut
<1>8. ASSUME NEW t \in Task, InheritOccupy(t) \/ RaiseDropped(t) \/ GiveUp(t)
      PROVE  PuttersMatch'
  <2>1. /\ phase[t] = "waiting" /\ UNCHANGED <<putters, woken>>
        /\ \A u \in Task : u # t => fut'[u] = fut[u] /\ phase'[u] = phase[u]
    BY <1>8 DEF InheritOccupy, RaiseDropped, GiveUp, TypeOK
  <2>2. QED
    BY <1>p, <2>1 DEF PuttersMatch, Live, TypeOK
<1>9. ASSUME NEW t \in Task, Release(t)
      PROVE  PuttersMatch'
  <2>1. CASE \E k \in DOMAIN q :
                /\ FirstLive(k)
                /\ fut' = [fut EXCEPT ![q[k]] = holders[t]]
                /\ WakePutters(k)
    <3>1. PICK k \in DOMAIN q :
                /\ FirstLive(k)
                /\ fut' = [fut EXCEPT ![q[k]] = holders[t]]
                /\ WakePutters(k)
      BY <2>1
    <3>2. phase[q[k]] = "waiting" /\ UNCHANGED phase
      BY <1>9, <3>1 DEF Release, FirstLive, QueueMatchesWaiters, Matches, Live
    <3>3. \A u \in Task : phase[u] = "putting" /\ Live(u)
                            => phase'[u] = "putting" /\ fut'[u] = "pending"
      BY <3>1, <3>2 DEF Live
    <3>4. k \in Nat
      BY LenProperties DEF TypeOK
    <3>5. QED
      BY <3>1, <3>3, <3>4, WakePuttersMatch
  <2>2. CASE WakePutters(Len(q)) /\ UNCHANGED fut
    <3>1. Len(q) \in Nat /\ UNCHANGED phase
      BY <1>9, LenProperties DEF TypeOK, Release
    <3>2. QED
      BY <2>2, <3>1, WakePuttersMatch DEF Live
  <2>3. QED
    BY <1>9, <2>1, <2>2 DEF Release
<1>10. CASE UNCHANGED vars
  BY <1>10 DEF vars, PuttersMatch, Live
<1>11. QED
  BY <1>1, <1>2, <1>3, <1>4, <1>5, <1>6, <1>7, <1>8, <1>9, <1>10
  DEF AnyStep, Acquire, Wait

(* A worker keeps the configuration it was started with. *)
LEMMA ConfigurationKept == [AnyStep]_vars => conf' = conf
<1> SUFFICES ASSUME [AnyStep]_vars
             PROVE  conf' = conf
  OBVIOUS
<1>1. ASSUME NEW t \in Task, Acquire(t)
      PROVE  conf' = conf
  BY <1>1 DEF Acquire, TryDirectGate, Refuse, EnqueueWaiter, DropOldest, DropOnlyDead,
              BlockInPut, vars
<1>2. ASSUME NEW t \in Task, Wait(t) \/ Release(t)
      PROVE  conf' = conf
  BY <1>2 DEF Wait, ResumePut, CancelPut, InheritOccupy, RaiseDropped, GiveUp, Release
<1>3. CASE UNCHANGED vars
  BY <1>3 DEF vars
<1>4. QED
  BY <1>1, <1>2, <1>3 DEF AnyStep

LEMMA TicketsStep == Sound /\ [AnyStep]_vars => TicketsOnlyWithoutWaiters'
<1> SUFFICES ASSUME Sound, [AnyStep]_vars, ~Blocking
             PROVE  /\ putters' = <<>> /\ woken' = {}
                    /\ (\E l \in Layer : ticket'[l] > 0) => NoneLive'
  BY ConfigurationKept DEF TicketsOnlyWithoutWaiters, Blocking
<1> DEFINE Goal == /\ putters' = <<>> /\ woken' = {}
                   /\ (\E l \in Layer : ticket'[l] > 0) => NoneLive'
<1> USE DEF Sound
<1>s. putters = <<>> /\ woken = {} /\ DOMAIN putters = {}
  BY EmptySeq DEF TicketsOnlyWithoutWaiters
<1>t. (\E l \in Layer : ticket[l] > 0) => NoneLive
  BY DEF TicketsOnlyWithoutWaiters
<1>q. \A i \in DOMAIN q : q[i] \in Task
  BY ElementOfSeq, LenProperties DEF TypeOK
<1>n. NoTicket => ~\E l \in Layer : ticket[l] > 0
  BY DEF NoTicket
<1>1. ASSUME NEW t \in Task, TryDirectGate(t)
      PROVE  Goal
  <2>1. (\E l \in Layer : ticket[l] > 0) /\ UNCHANGED <<q, fut, putters, woken>>
    BY <1>1 DEF TryDirectGate
  <2>2. QED
    BY <1>s, <1>t, <2>1 DEF NoneLive, Live
<1>2. ASSUME NEW t \in Task, Refuse(t)
      PROVE  Goal
  BY <1>2, <1>s, <1>t DEF Refuse, vars, NoneLive, Live
<1>3. ASSUME NEW t \in Task, EnqueueWaiter(t)
      PROVE  Goal
  BY <1>3, <1>s, <1>n DEF EnqueueWaiter
<1>4. ASSUME NEW t \in Task, DropOldest(t)
      PROVE  Goal
  <2>1. PICK k \in DOMAIN q : WakePutters(k)
    BY <1>4 DEF DropOldest
  <2>2. putters' = <<>> /\ woken' = {}
    BY <1>s, <2>1, WakeNobody, LenProperties DEF TypeOK
  <2>3. QED
    BY <1>4, <1>n, <2>2 DEF DropOldest
<1>5. ASSUME NEW t \in Task, DropOnlyDead(t)
      PROVE  Goal
  <2>1. WakePutters(Len(q)) /\ Len(q) \in Nat
    BY <1>5, LenProperties DEF DropOnlyDead, TypeOK
  <2>2. putters' = <<>> /\ woken' = {}
    BY <1>s, <2>1, WakeNobody
  <2>3. QED
    BY <1>5, <1>n, <2>2 DEF DropOnlyDead
<1>6. ASSUME NEW t \in Task, BlockInPut(t) \/ ResumePut(t)
      PROVE  Goal
  BY <1>6, <1>s DEF BlockInPut, ResumePut, Blocking
<1>7. ASSUME NEW t \in Task, CancelPut(t)
      PROVE  Goal
  BY <1>7, <1>s DEF CancelPut
<1>8. ASSUME NEW t \in Task, InheritOccupy(t) \/ RaiseDropped(t) \/ GiveUp(t)
      PROVE  Goal
  <2>1. /\ UNCHANGED <<ticket, q, putters, woken>>
        /\ \A u \in Task : fut'[u] = "pending" => fut[u] = "pending"
    BY <1>8 DEF InheritOccupy, RaiseDropped, GiveUp, TypeOK
  <2>2. QED
    BY <1>s, <1>t, <1>q, <2>1 DEF NoneLive, Live
<1>9. ASSUME NEW t \in Task, Release(t)
      PROVE  Goal
  <2>1. CASE \E k \in DOMAIN q : FirstLive(k) /\ WakePutters(k) /\ UNCHANGED ticket
    <3>1. PICK k \in DOMAIN q : FirstLive(k) /\ WakePutters(k) /\ UNCHANGED ticket
      BY <2>1
    <3>2. putters' = <<>> /\ woken' = {}
      BY <1>s, <3>1, WakeNobody, LenProperties DEF TypeOK
    <3>3. ~NoneLive
      BY <3>1 DEF NoneLive, FirstLive
    <3>4. QED
      BY <1>t, <3>1, <3>2, <3>3
  <2>2. CASE q' = <<>> /\ WakePutters(Len(q))
    <3>1. putters' = <<>> /\ woken' = {}
      BY <1>s, <2>2, WakeNobody, LenProperties DEF TypeOK
    <3>2. DOMAIN q' = {}
      BY <2>2
    <3>3. QED
      BY <3>1, <3>2 DEF NoneLive
  <2>3. QED
    BY <1>9, <2>1, <2>2 DEF Release
<1>10. CASE UNCHANGED vars
  BY <1>10, <1>s, <1>t DEF vars, NoneLive, Live
<1>11. QED
  BY <1>1, <1>2, <1>3, <1>4, <1>5, <1>6, <1>7, <1>8, <1>9, <1>10
  DEF AnyStep, Acquire, Wait

LEMMA SoundStep == Sound /\ [AnyStep]_vars => Sound'
BY TypeStep, MatchesStep, PuttersStep, TicketsStep DEF Sound

LEMMA SoundInit == Init => Sound
<1> SUFFICES ASSUME Init
             PROVE  Sound
  OBVIOUS
<1>1. DOMAIN q = {} /\ DOMAIN putters = {}
  BY DEF Init
<1>2. TypeOK
  BY TypeInit
<1>3. QED
  BY <1>1, <1>2 DEF Init, Sound, QueueMatchesWaiters, Matches, PuttersMatch,
                    TicketsOnlyWithoutWaiters, NoneLive, Live

LEMMA ShapeStep == Shape /\ [Next]_vars => Shape'
BY NextIsAnyStep, SoundStep, CallersStep DEF Shape

LEMMA ShapeInit == Init => Shape
BY SoundInit DEF Init, Shape, CallersOwnNothing

(* Where no put() can suspend, a request never waits while a slot of either layer is
   free: release() found no live Waiter when it freed the slot, and acquire() takes a
   free slot before it queues.  Whoever calls the gate. *)
LEMMA NoIdleSlotForAny == AnySpec => []NoIdleSlotUnlessBlocking
<1>1. Sound => NoIdleSlotUnlessBlocking
  BY DEF Sound, TicketsOnlyWithoutWaiters, QueueMatchesWaiters, Matches, NoneLive, Live,
         NoIdleSlotUnlessBlocking, NoIdleSlot
<1>2. QED
  BY <1>1, SoundInit, SoundStep, PTL DEF AnySpec

LEMMA SpecIsAny == Spec => AnySpec
BY NextIsAnyStep, PTL DEF Spec, AnySpec

(* The same, of the gate with the callers it is meant for. *)
THEOREM NoIdleSlotCorrect == Spec => []NoIdleSlotUnlessBlocking
BY NoIdleSlotForAny, SpecIsAny, PTL
-----------------------------------------------------------------------------
(* Slot conservation: what every action does to the owners of a layer's slots. *)

LEMMA FiniteOwners ==
    ASSUME NEW l
    PROVE  IsFiniteSet(Owners(l)) /\ Owners(l) \in SUBSET Task
<1>1. Owners(l) \in SUBSET Task
  BY DEF Owners
<1>2. QED
  BY <1>1, GateAssumption, FS_Subset

(* A task acquires, owns or passes on a slot of one layer at a time. *)
LEMMA TicketsTaken ==
    ASSUME Inv, NEW t \in Task, TryDirectGate(t), holders[t] = "none"
    PROVE  Conserved'
<1> USE DEF Inv, Shape, Sound
<1>1. PICK m \in Layer :
        /\ ticket[m] > 0
        /\ ticket' = [ticket EXCEPT ![m] = @ - 1]
        /\ holders' = [holders EXCEPT ![t] = m]
  BY DEF TryDirectGate
<1>2. phase[t] = "idle" /\ UNCHANGED <<fut, phase>>
  BY DEF TryDirectGate, CanCall
<1>3. t \notin Owners(m) /\ Owners(m)' = Owners(m) \cup {t}
  BY <1>1, <1>2 DEF Owners, TypeOK, Layer
<1>4. Cardinality(Owners(m)') = Cardinality(Owners(m)) + 1
  BY <1>3, FiniteOwners, FS_AddElement
<1>5. ticket[m] \in Nat /\ Cardinality(Owners(m)) \in Nat
  BY FiniteOwners, FS_CardinalityType DEF TypeOK
<1>6. ASSUME NEW l \in Layer
      PROVE  ticket'[l] + Cardinality(Owners(l)') = Cap[l]
  <2>1. CASE l = m
    <3>1. ticket'[m] = ticket[m] - 1
      BY <1>1 DEF TypeOK
    <3>2. ticket[m] + Cardinality(Owners(m)) = Cap[m]
      BY DEF Conserved
    <3>3. QED
      BY <1>4, <1>5, <2>1, <3>1, <3>2
  <2>2. CASE l # m
    <3>1. ticket'[l] = ticket[l] /\ Owners(l)' = Owners(l)
      BY <1>1, <1>2, <2>2 DEF Owners, TypeOK, Layer
    <3>2. QED
      BY <3>1 DEF Conserved
  <2>3. QED
    BY <2>1, <2>2
<1>7. QED
  BY <1>6 DEF Conserved

(* release() either hands the slot to the oldest live Waiter, whose task owned none, or
   gives its ticket back. *)
LEMMA TicketsGiven ==
    ASSUME Inv, NEW t \in Task, Release(t)
    PROVE  Conserved'
<1> USE DEF Inv, Shape, Sound
<1>m. PICK m \in Layer : m = holders[t]
  BY DEF Release, TypeOK
<1>q. \A i \in DOMAIN q : q[i] \in Task
  BY ElementOfSeq, LenProperties DEF TypeOK
<1>1. phase[t] = "idle" /\ UNCHANGED phase
      /\ holders' = [holders EXCEPT ![t] = "none"] /\ holders[t] # "none"
  BY DEF Release, TypeOK, CallersOwnNothing
<1>2. t \in Owners(m) /\ "none" \notin Layer
  BY <1>m, <1>1 DEF Owners, Layer
<1>3. /\ Cardinality(Owners(m) \ {t}) = Cardinality(Owners(m)) - 1
      /\ IsFiniteSet(Owners(m) \ {t})
  BY <1>2, FiniteOwners, FS_RemoveElement
<1>4. ticket[m] \in Nat /\ Cardinality(Owners(m)) \in Nat
      /\ ticket[m] + Cardinality(Owners(m)) = Cap[m]
  BY <1>1, FiniteOwners, FS_CardinalityType DEF TypeOK, Conserved
<1>5. CASE \E k \in DOMAIN q :
                /\ FirstLive(k)
                /\ fut' = [fut EXCEPT ![q[k]] = holders[t]]
                /\ UNCHANGED ticket
  <2>1. PICK k \in DOMAIN q :
                /\ FirstLive(k)
                /\ fut' = [fut EXCEPT ![q[k]] = holders[t]]
                /\ UNCHANGED ticket
    BY <1>5
  <2>2. /\ q[k] \in Task /\ phase[q[k]] = "waiting" /\ fut[q[k]] = "pending"
        /\ holders[q[k]] = "none" /\ q[k] # t
    BY <1>1, <1>q, <2>1
    DEF FirstLive, Live, QueueMatchesWaiters, Matches, CallersOwnNothing
  <2>3. q[k] \notin Owners(m) \ {t} /\ Owners(m)' = (Owners(m) \ {t}) \cup {q[k]}
    BY <1>m, <1>1, <1>2, <2>1, <2>2 DEF Owners, TypeOK, Layer
  <2>4. Cardinality(Owners(m)') = Cardinality(Owners(m))
    <3>1. Cardinality(Owners(m)') = Cardinality(Owners(m) \ {t}) + 1
      BY <1>3, <2>3, FS_AddElement
    <3>2. QED
      BY <1>3, <1>4, <3>1
  <2>5. ASSUME NEW l \in Layer, l # m
        PROVE  Owners(l)' = Owners(l)
    BY <1>m, <1>1, <1>2, <2>1, <2>2, <2>5 DEF Owners, TypeOK, Layer
  <2>6. QED
    BY <1>4, <2>1, <2>4, <2>5 DEF Conserved
<1>6. CASE ticket' = [ticket EXCEPT ![holders[t]] = @ + 1] /\ UNCHANGED fut
  <2>1. Owners(m)' = Owners(m) \ {t}
    BY <1>m, <1>1, <1>2, <1>6 DEF Owners, TypeOK
  <2>2. ticket'[m] = ticket[m] + 1
    BY <1>m, <1>1, <1>6 DEF TypeOK
  <2>3. ticket'[m] + Cardinality(Owners(m)') = Cap[m]
    BY <1>3, <1>4, <2>1, <2>2
  <2>4. ASSUME NEW l \in Layer, l # m
        PROVE  ticket'[l] = ticket[l] /\ Owners(l)' = Owners(l)
    BY <1>m, <1>1, <1>2, <1>6, <2>4 DEF Owners, TypeOK
  <2>5. QED
    BY <2>3, <2>4 DEF Conserved
<1>7. QED
  BY <1>5, <1>6 DEF Release

LEMMA ConservedStep == Inv /\ [Next]_vars => Conserved'
<1> SUFFICES ASSUME Inv, [Next]_vars
             PROVE  Conserved'
  OBVIOUS
<1> USE DEF Inv, Shape, Sound
<1>q. \A i \in DOMAIN q : q[i] \in Task
  BY ElementOfSeq, LenProperties DEF TypeOK
<1>l. "pending" \notin Layer /\ "dropped" \notin Layer /\ "cancelled" \notin Layer
      /\ "none" \notin Layer
  BY DEF Layer
<1>s. ASSUME UNCHANGED ticket, \A l \in Layer : Owners(l)' = Owners(l)
      PROVE  Conserved'
  BY <1>s DEF Conserved
<1>1. ASSUME NEW t \in Task, Refuse(t)
      PROVE  Conserved'
  BY <1>1, <1>s DEF Refuse, vars, Owners
<1>2. ASSUME NEW t \in Task, EnqueueWaiter(t) \/ BlockInPut(t)
      PROVE  Conserved'
  BY <1>2, <1>s, <1>l DEF EnqueueWaiter, BlockInPut, CanCall, Owners, TypeOK
<1>3. ASSUME NEW t \in Task, DropOldest(t)
      PROVE  Conserved'
  <2>1. PICK k \in DOMAIN q :
            /\ FirstLive(k)
            /\ fut' = [fut EXCEPT ![q[k]] = "dropped", ![t] = "pending"]
    BY <1>3 DEF DropOldest
  <2>2. q[k] \in Task /\ fut[q[k]] = "pending" /\ phase[t] = "idle"
    BY <1>3, <1>q, <2>1 DEF FirstLive, Live, DropOldest, CanCall
  <2>3. QED
    BY <1>3, <1>s, <1>l, <2>1, <2>2 DEF DropOldest, Owners, TypeOK
<1>4. ASSUME NEW t \in Task, DropOnlyDead(t)
      PROVE  Conserved'
  <2>1. CASE conf.overflow = "block"
    BY <1>4, <1>s, <1>l, <2>1 DEF DropOnlyDead, CanCall, Owners, TypeOK
  <2>2. CASE conf.overflow # "block"
    BY <1>4, <1>s, <2>2 DEF DropOnlyDead, Owners
  <2>3. QED
    BY <2>1, <2>2
<1>5. ASSUME NEW t \in Task, ResumePut(t)
      PROVE  Conserved'
  <2>1. fut[t] = "pending"
    BY <1>5 DEF ResumePut, PuttersMatch, Live
  <2>2. UNCHANGED <<ticket, holders, fut>> /\ \A u \in Task : u # t => phase'[u] = phase[u]
    BY <1>5 DEF ResumePut, TypeOK
  <2>3. QED
    BY <1>s, <1>l, <2>1, <2>2 DEF Owners
<1>6. ASSUME NEW t \in Task, CancelPut(t) \/ RaiseDropped(t) \/ GiveUp(t)
      PROVE  Conserved'
  <2>1. /\ UNCHANGED <<ticket, holders>> /\ phase'[t] = "idle"
        /\ phase[t] = "waiting" => fut[t] \notin Layer
        /\ \A u \in Task : u # t => fut'[u] = fut[u] /\ phase'[u] = phase[u]
    BY <1>6, <1>l DEF CancelPut, RaiseDropped, GiveUp, TypeOK
  <2>2. QED
    BY <1>s, <2>1 DEF Owners
<1>7. ASSUME NEW t \in Task, InheritOccupy(t)
      PROVE  Conserved'
  <2>1. /\ UNCHANGED ticket /\ phase[t] = "waiting" /\ phase'[t] = "idle"
        /\ holders[t] = "none" /\ fut[t] \in Layer /\ holders'[t] = fut[t]
        /\ \A u \in Task : u # t => /\ fut'[u] = fut[u]
                                    /\ phase'[u] = phase[u]
                                    /\ holders'[u] = holders[u]
    BY <1>7 DEF InheritOccupy, TypeOK, CallersOwnNothing
  <2>2. QED
    BY <1>s, <1>l, <2>1 DEF Owners
<1>8. CASE UNCHANGED vars
  BY <1>8, <1>s DEF vars, Owners
<1>9. QED
  BY <1>1, <1>2, <1>3, <1>4, <1>5, <1>6, <1>7, <1>8, TicketsTaken, TicketsGiven
  DEF Next, Call, Acquire, Wait

LEMMA ConservedInit == Init => Conserved
<1> SUFFICES ASSUME Init, NEW l \in Layer
             PROVE  ticket[l] + Cardinality(Owners(l)) = Cap[l]
  BY DEF Conserved
<1>1. Owners(l) = {}
  BY DEF Init, Owners, Layer
<1>2. QED
  BY <1>1, FS_EmptySet, GateAssumption DEF Init

(* The inductive invariant behind the results: the shape of the gate's data structures,
   and the slots of each layer accounted for, after any sequence of calls. *)
THEOREM InvCorrect == Spec => []Inv
BY ShapeInit, ShapeStep, ConservedInit, ConservedStep, PTL DEF Spec, Inv

(* For every set of tasks, every capacity and every configuration: no slot of either
   layer is lost or duplicated by a hand-over, a timeout, a cancellation or a drop, and
   no task owns two. *)
THEOREM SlotsConserved == Spec => []SlotConservation
<1>1. Inv => SlotConservation
  BY DEF Inv, Shape, Sound, Conserved, CallersOwnNothing, SlotConservation, InTransit
<1>2. QED
  BY <1>1, InvCorrect, PTL
-----------------------------------------------------------------------------
(* The queue and the tasks suspended in put() *)

(* A task in put() is in one of the two places the queue looks at, and not yet in the
   queue; nobody is queued twice. *)
EverybodyPlaced ==
    /\ \A t \in Task : phase[t] = "putting" =>
            /\ t \in woken \/ \E i \in DOMAIN putters : putters[i] = t
            /\ t \notin ToSet(q)
    /\ \A i, j \in DOMAIN q : q[i] = q[j] => i = j

(* What dequeuing and enqueuing do to the members of a sequence without repetitions. *)
LEMMA DistinctRest ==
    ASSUME NEW s \in Seq(Task), NEW k \in 0..Len(s),
           \A i, j \in DOMAIN s : s[i] = s[j] => i = j
    PROVE  LET r == SubSeq(s, k + 1, Len(s))
           IN  /\ r \in Seq(Task) /\ ToSet(r) \subseteq ToSet(s)
               /\ \A i, j \in DOMAIN r : r[i] = r[j] => i = j
<1> DEFINE r == SubSeq(s, k + 1, Len(s))
<1>1. r \in Seq(Task) /\ DOMAIN r = 1..(Len(s) - k) /\ \A i \in 1..(Len(s) - k) : r[i] = s[i + k]
  BY DropFirst
<1>2. Len(s) \in Nat /\ DOMAIN s = 1..Len(s)
  BY LenProperties
<1> HIDE DEF r
<1>3. \A i \in DOMAIN r : i + k \in DOMAIN s
  BY <1>1, <1>2
<1>4. ToSet(r) \subseteq ToSet(s)
  BY <1>1, <1>3 DEF ToSet
<1>5. ASSUME NEW i \in DOMAIN r, NEW j \in DOMAIN r, r[i] = r[j] PROVE i = j
  <2>1. i + k = j + k
    BY <1>1, <1>3, <1>5
  <2>2. QED
    BY <1>1, <2>1
<1>6. QED
  BY <1>1, <1>4, <1>5 DEF r

LEMMA DistinctAppend ==
    ASSUME NEW s \in Seq(Task), NEW t \in Task, t \notin ToSet(s),
           \A i, j \in DOMAIN s : s[i] = s[j] => i = j
    PROVE  /\ ToSet(Append(s, t)) = ToSet(s) \cup {t}
           /\ \A i, j \in DOMAIN Append(s, t) : Append(s, t)[i] = Append(s, t)[j] => i = j
<1>1. Len(s) \in Nat /\ DOMAIN s = 1..Len(s)
  BY LenProperties
<1>2. /\ DOMAIN Append(s, t) = 1..(Len(s) + 1)
      /\ \A i \in 1..Len(s) : Append(s, t)[i] = s[i]
      /\ Append(s, t)[Len(s) + 1] = t
  BY <1>1
<1>3. \A i \in 1..(Len(s) + 1) : i \in 1..Len(s) \/ i = Len(s) + 1
  BY <1>1
<1>4. \A i \in 1..Len(s) : i \in 1..(Len(s) + 1) /\ s[i] # t
  BY <1>1 DEF ToSet
<1>5. Len(s) + 1 \in 1..(Len(s) + 1)
  BY <1>1
<1> DEFINE a == Append(s, t)
<1>6. /\ \A i \in DOMAIN a : (i \in DOMAIN s /\ a[i] = s[i]) \/ (i = Len(s) + 1 /\ a[i] = t)
      /\ \A i \in DOMAIN s : i \in DOMAIN a /\ a[i] = s[i]
      /\ Len(s) + 1 \in DOMAIN a /\ a[Len(s) + 1] = t
  BY <1>1, <1>2, <1>3, <1>4, <1>5
<1> HIDE DEF a
<1>7. ToSet(a) \subseteq ToSet(s) \cup {t}
  BY <1>6, Zenon DEF ToSet
<1>8. ToSet(s) \cup {t} \subseteq ToSet(a)
  BY <1>6, Zenon DEF ToSet
<1>9. \A i, j \in DOMAIN a : a[i] = a[j] => i = j
  <2>1. \A i \in DOMAIN s : s[i] # t
    BY <1>1, <1>4
  <2>2. QED
    BY <1>6, <2>1, Zenon
<1>10. QED
  BY <1>7, <1>8, <1>9 DEF a

(* Waking put()s moves tasks from one place to the other. *)
LEMMA WokenOrSuspended ==
    ASSUME TypeOK, NEW n \in 0..Len(q), WakePutters(n), NEW t \in Task,
           t \in woken \/ \E i \in DOMAIN putters : putters[i] = t
    PROVE  t \in woken' \/ \E i \in DOMAIN putters' : putters'[i] = t
<1>1. Len(putters) \in Nat /\ DOMAIN putters = 1..Len(putters) /\ putters \in Seq(Task)
      /\ Len(q) \in Nat
  BY LenProperties DEF TypeOK
<1>2. CASE t \in woken
  BY <1>2 DEF WakePutters
<1>3. ASSUME NEW i \in DOMAIN putters, putters[i] = t
      PROVE  t \in woken' \/ \E j \in DOMAIN putters' : putters'[j] = t
  <2>1. CASE i <= n
    <3>1. i \in DOMAIN putters \cap 1..n
      BY <1>1, <2>1
    <3>2. QED
      BY <1>3, <3>1 DEF WakePutters
  <2>2. CASE ~(i <= n)
    <3>1. n \in 0..Len(putters) /\ i - n \in 1..(Len(putters) - n) /\ i - n + n = i
      BY <1>1, <2>2
    <3>2. /\ DOMAIN SubSeq(putters, n + 1, Len(putters)) = 1..(Len(putters) - n)
          /\ SubSeq(putters, n + 1, Len(putters))[i - n] = putters[i - n + n]
      BY <1>1, <3>1, DropFirst
    <3>3. QED
      BY <1>3, <3>1, <3>2 DEF WakePutters
  <2>3. QED
    BY <2>1, <2>2
<1>4. QED
  BY <1>2, <1>3
(* Room is made at the front of the queue, and t, if it may call the gate, takes some of it
   (joins is TRUE) or does not. *)
LEMMA DrainPlaced ==
    ASSUME TypeOK, EverybodyPlaced, NEW n \in 0..Len(q), WakePutters(n),
           NEW t \in Task, t \notin ToSet(q), phase'[t] # "putting",
           \A u \in Task : u # t => phase'[u] = phase[u],
           \/ q' = SubSeq(q, n + 1, Len(q))
           \/ q' = Append(SubSeq(q, n + 1, Len(q)), t)
    PROVE  EverybodyPlaced'
<1> DEFINE r == SubSeq(q, n + 1, Len(q))
<1>1. /\ r \in Seq(Task) /\ ToSet(r) \subseteq ToSet(q)
      /\ \A i, j \in DOMAIN r : r[i] = r[j] => i = j
  BY DistinctRest DEF TypeOK, EverybodyPlaced
<1> HIDE DEF r
<1>2. /\ ToSet(q') \subseteq ToSet(q) \cup {t}
      /\ \A i, j \in DOMAIN q' : q'[i] = q'[j] => i = j
  <2>1. CASE q' = r
    BY <1>1, <2>1
  <2>2. CASE q' = Append(r, t)
    <3>1. t \notin ToSet(r)
      BY <1>1
    <3>2. QED
      BY <1>1, <2>2, <3>1, DistinctAppend
  <2>3. QED
    BY <2>1, <2>2 DEF r
<1>3. ASSUME NEW u \in Task, phase'[u] = "putting"
      PROVE  /\ u \in woken' \/ \E i \in DOMAIN putters' : putters'[i] = u
             /\ u \notin ToSet(q')
  <2>1. u # t /\ phase[u] = "putting"
    BY <1>3
  <2>2. /\ u \in woken \/ \E i \in DOMAIN putters : putters[i] = u
        /\ u \notin ToSet(q)
    BY <2>1 DEF EverybodyPlaced
  <2>3. QED
    BY <1>2, <2>1, <2>2, WokenOrSuspended
<1>4. QED
  BY <1>2, <1>3 DEF EverybodyPlaced
(* The same, and nobody joins. *)
LEMMA DrainOnlyPlaced ==
    ASSUME TypeOK, EverybodyPlaced, NEW n \in 0..Len(q), WakePutters(n),
           UNCHANGED phase, q' = SubSeq(q, n + 1, Len(q))
    PROVE  EverybodyPlaced'
<1>1. /\ ToSet(q') \subseteq ToSet(q)
      /\ \A i, j \in DOMAIN q' : q'[i] = q'[j] => i = j
  BY DistinctRest DEF TypeOK, EverybodyPlaced
<1>2. QED
  BY <1>1, WokenOrSuspended DEF EverybodyPlaced

(* A task that suspends in put() is there with those who were. *)
LEMMA Suspends ==
    ASSUME NEW s \in Seq(Task), NEW t \in Task
    PROVE  /\ \A i \in DOMAIN s : i \in DOMAIN Append(s, t) /\ Append(s, t)[i] = s[i]
           /\ \E i \in DOMAIN Append(s, t) : Append(s, t)[i] = t
<1>1. Len(s) \in Nat /\ DOMAIN s = 1..Len(s)
  BY LenProperties
<1>2. /\ DOMAIN Append(s, t) = 1..(Len(s) + 1)
      /\ \A i \in 1..Len(s) : Append(s, t)[i] = s[i]
      /\ Append(s, t)[Len(s) + 1] = t
  BY <1>1
<1>3. Len(s) + 1 \in 1..(Len(s) + 1)
  BY <1>1
<1>4. QED
  BY <1>1, <1>2, <1>3

(* Nobody suspended in put() or woken in it moves, but one task may leave for good. *)
LEMMA StayPlaced ==
    ASSUME EverybodyPlaced, NEW t \in Task, UNCHANGED <<putters, woken>>,
           phase'[t] # "putting",
           \A u \in Task : u # t => phase'[u] = phase[u],
           UNCHANGED q
    PROVE  EverybodyPlaced'
BY DEF EverybodyPlaced

LEMMA PlacedStep == Sound /\ EverybodyPlaced /\ [AnyStep]_vars => EverybodyPlaced'
<1> SUFFICES ASSUME Sound, EverybodyPlaced, [AnyStep]_vars
             PROVE  EverybodyPlaced'
  OBVIOUS
<1> USE DEF Sound
<1>q. q \in Seq(Task) /\ Len(q) \in Nat /\ DOMAIN q = 1..Len(q)
  BY LenProperties DEF TypeOK
<1>p. /\ putters \in Seq(Task) /\ Len(putters) \in Nat /\ DOMAIN putters = 1..Len(putters)
      /\ \A i \in DOMAIN putters : putters[i] \in Task
  BY ElementOfSeq, LenProperties DEF TypeOK
<1>1. ASSUME NEW t \in Task, TryDirectGate(t) \/ Refuse(t)
      PROVE  EverybodyPlaced'
  BY <1>1 DEF TryDirectGate, Refuse, vars, EverybodyPlaced
<1>2. ASSUME NEW t \in Task, EnqueueWaiter(t)
      PROVE  EverybodyPlaced'
  <2>1. /\ q' = Append(q, t) /\ t \notin ToSet(q) /\ UNCHANGED <<putters, woken>>
        /\ phase'[t] = "waiting" /\ \A u \in Task : u # t => phase'[u] = phase[u]
    BY <1>2 DEF EnqueueWaiter, CanCall, TypeOK
  <2>2. /\ ToSet(q') = ToSet(q) \cup {t}
        /\ \A i, j \in DOMAIN q' : q'[i] = q'[j] => i = j
    BY <1>q, <2>1, DistinctAppend DEF EverybodyPlaced
  <2>3. QED
    BY <2>1, <2>2 DEF EverybodyPlaced
<1>3. ASSUME NEW t \in Task, DropOldest(t)
      PROVE  EverybodyPlaced'
  <2>1. PICK k \in DOMAIN q :
            q' = Append(SubSeq(q, k + 1, Len(q)), t) /\ WakePutters(k)
    BY <1>3 DEF DropOldest
  <2>2. /\ k \in 0..Len(q) /\ t \notin ToSet(q) /\ phase'[t] # "putting"
        /\ \A u \in Task : u # t => phase'[u] = phase[u]
    BY <1>3, <1>q DEF DropOldest, CanCall, TypeOK
  <2>3. QED
    BY <2>1, <2>2, DrainPlaced
<1>4. ASSUME NEW t \in Task, DropOnlyDead(t)
      PROVE  EverybodyPlaced'
  <2>1. /\ WakePutters(Len(q)) /\ t \notin ToSet(q) /\ phase'[t] # "putting"
        /\ \A u \in Task : u # t => phase'[u] = phase[u]
        /\ q' = <<>> \/ q' = Append(<<>>, t)
    BY <1>4 DEF DropOnlyDead, CanCall, TypeOK
  <2>2. SubSeq(q, Len(q) + 1, Len(q)) = <<>>
    BY <1>q, DrainType, EmptySeq DEF TypeOK
  <2>3. Len(q) \in 0..Len(q)
    BY <1>q
  <2>4. QED
    BY <2>1, <2>2, <2>3, DrainPlaced
<1>5. ASSUME NEW t \in Task, BlockInPut(t)
      PROVE  EverybodyPlaced'
  <2>1. /\ putters' = Append(putters, t) /\ t \notin ToSet(q) /\ UNCHANGED <<q, woken>>
        /\ \A u \in Task : u # t => phase'[u] = phase[u]
    BY <1>5 DEF BlockInPut, CanCall
  <2>2. /\ \A i \in DOMAIN putters : i \in DOMAIN putters' /\ putters'[i] = putters[i]
        /\ \E i \in DOMAIN putters' : putters'[i] = t
    BY <1>p, <2>1, Suspends
  <2>3. QED
    BY <2>1, <2>2 DEF EverybodyPlaced
<1>6. ASSUME NEW t \in Task, ResumePut(t)
      PROVE  EverybodyPlaced'
  <2>1. /\ phase[t] = "putting" /\ t \notin ToSet(q) /\ woken' = woken \ {t}
        /\ \A i \in DOMAIN putters : putters[i] # t
    BY <1>6 DEF ResumePut, PuttersMatch, EverybodyPlaced
  <2>2. CASE Full
    <3>1. putters' = Append(putters, t) /\ UNCHANGED <<q, phase>>
      BY <1>6, <2>2 DEF ResumePut
    <3>2. /\ \A i \in DOMAIN putters : i \in DOMAIN putters' /\ putters'[i] = putters[i]
          /\ \E i \in DOMAIN putters' : putters'[i] = t
      BY <1>p, <3>1, Suspends
    <3>3. QED
      BY <2>1, <3>1, <3>2 DEF EverybodyPlaced
  <2>3. CASE ~Full
    <3>1. /\ q' = Append(q, t) /\ UNCHANGED putters /\ phase'[t] = "waiting"
          /\ \A u \in Task : u # t => phase'[u] = phase[u]
      BY <1>6, <2>3 DEF ResumePut, TypeOK
    <3>2. /\ ToSet(q') = ToSet(q) \cup {t}
          /\ \A i, j \in DOMAIN q' : q'[i] = q'[j] => i = j
      BY <1>q, <2>1, <3>1, DistinctAppend DEF EverybodyPlaced
    <3>3. QED
      BY <2>1, <3>1, <3>2 DEF EverybodyPlaced
  <2>4. QED
    BY <2>2, <2>3
<1>7. ASSUME NEW t \in Task, CancelPut(t)
      PROVE  EverybodyPlaced'
  <2>1. /\ phase'[t] = "idle" /\ UNCHANGED q
        /\ \A u \in Task : u # t => phase'[u] = phase[u]
    BY <1>7 DEF CancelPut, TypeOK
  <2>2. SUFFICES ASSUME NEW u \in Task, u # t,
                        u \in woken \/ \E i \in DOMAIN putters : putters[i] = u
                 PROVE  u \in woken' \/ \E i \in DOMAIN putters' : putters'[i] = u
    BY <2>1 DEF EverybodyPlaced
  <2>3. ASSUME NEW n \in DOMAIN putters, putters[n] = t, putters' = RemoveAt(putters, n),
               UNCHANGED woken
        PROVE  u \in woken' \/ \E i \in DOMAIN putters' : putters'[i] = u
    <3>1. /\ DOMAIN putters' = 1..(Len(putters) - 1)
          /\ \A i \in 1..(Len(putters) - 1) :
                putters'[i] = IF i < n THEN putters[i] ELSE putters[i + 1]
      BY <1>p, <2>3, RemoveOne
    <3>2. ASSUME NEW i \in DOMAIN putters, putters[i] = u
          PROVE  \E j \in DOMAIN putters' : putters'[j] = u
      <4>1. CASE i < n
        BY <1>p, <2>3, <3>1, <3>2, <4>1
      <4>2. CASE i > n
        <5>1. i - 1 \in 1..(Len(putters) - 1) /\ ~(i - 1 < n) /\ i - 1 + 1 = i
          BY <1>p, <4>2
        <5>2. QED
          BY <3>1, <3>2, <5>1
      <4>3. i # n
        BY <2>2, <2>3, <3>2
      <4>4. QED
        BY <1>p, <4>1, <4>2, <4>3
    <3>3. QED
      BY <2>2, <2>3, <3>2
  <2>4. CASE woken' = woken \ {t} /\ UNCHANGED putters
    BY <2>2, <2>4
  <2>5. CASE /\ putters # <<>>
             /\ woken' = (woken \ {t}) \cup {Head(putters)} /\ putters' = Tail(putters)
    <3>1. /\ Head(putters) = putters[1]
          /\ DOMAIN putters' = 1..(Len(putters) - 1)
          /\ \A i \in 1..(Len(putters) - 1) : putters'[i] = putters[i + 1]
      BY <1>p, <2>5, HeadTailProperties, LenProperties
    <3>2. ASSUME NEW i \in DOMAIN putters, putters[i] = u
          PROVE  u \in woken' \/ \E j \in DOMAIN putters' : putters'[j] = u
      <4>1. CASE i = 1
        BY <2>5, <3>1, <3>2, <4>1
      <4>2. CASE i # 1
        <5>1. i - 1 \in 1..(Len(putters) - 1) /\ i - 1 + 1 = i
          BY <1>p, <4>2
        <5>2. QED
          BY <3>1, <3>2, <5>1
      <4>3. QED
        BY <4>1, <4>2
    <3>3. QED
      BY <2>2, <2>5, <3>2
  <2>6. QED
    BY <1>7, <2>3, <2>4, <2>5 DEF CancelPut
<1>8. ASSUME NEW t \in Task, InheritOccupy(t) \/ RaiseDropped(t) \/ GiveUp(t)
      PROVE  EverybodyPlaced'
  <2>1. /\ phase'[t] = "idle" /\ UNCHANGED <<q, putters, woken>>
        /\ \A u \in Task : u # t => phase'[u] = phase[u]
    BY <1>8 DEF InheritOccupy, RaiseDropped, GiveUp, TypeOK
  <2>2. QED
    BY <2>1, StayPlaced
<1>9. ASSUME NEW t \in Task, Release(t)
      PROVE  EverybodyPlaced'
  <2>1. PICK k \in 0..Len(q) : q' = SubSeq(q, k + 1, Len(q)) /\ WakePutters(k)
    <3>1. SubSeq(q, Len(q) + 1, Len(q)) = <<>> /\ Len(q) \in 0..Len(q)
      BY <1>q, EmptySeq
    <3>2. CASE q' = <<>> /\ WakePutters(Len(q))
      BY <3>1, <3>2
    <3>3. CASE \E k \in DOMAIN q : q' = SubSeq(q, k + 1, Len(q)) /\ WakePutters(k)
      <4>1. \A k \in DOMAIN q : k \in 0..Len(q)
        BY <1>q
      <4>2. QED
        BY <3>3, <4>1
    <3>4. QED
      BY <1>9, <3>2, <3>3 DEF Release
  <2>2. UNCHANGED phase
    BY <1>9 DEF Release
  <2>3. QED
    BY <2>1, <2>2, DrainOnlyPlaced
<1>10. CASE UNCHANGED vars
  BY <1>10 DEF vars, EverybodyPlaced
<1>11. QED
  BY <1>1, <1>2, <1>3, <1>4, <1>5, <1>6, <1>7, <1>8, <1>9, <1>10
  DEF AnyStep, Acquire, Wait
LEMMA PlacedInit == Init => EverybodyPlaced
BY EmptySeq DEF Init, EverybodyPlaced

LEMMA PlacedMeansFound == Sound /\ EverybodyPlaced => NoLostWaiter
<1> SUFFICES ASSUME Sound, EverybodyPlaced
             PROVE  NoLostWaiter
  OBVIOUS
<1>1. ASSUME NEW t \in Task, phase[t] = "waiting", Live(t)
      PROVE  t \in ToSet(q)
  BY <1>1 DEF Sound, QueueMatchesWaiters, Matches, Live, ToSet
<1>2. ASSUME NEW t \in Task, phase[t] = "putting"
      PROVE  Cardinality({i \in DOMAIN putters : putters[i] = t})
                + Cardinality({t} \cap woken) = 1
  <2> DEFINE places == {i \in DOMAIN putters : putters[i] = t}
  <2>1. CASE t \in woken
    <3>1. places = {} /\ {t} \cap woken = {t}
      BY <2>1 DEF Sound, PuttersMatch
    <3>2. QED
      BY <3>1, FS_EmptySet, FS_Singleton
  <2>2. CASE t \notin woken
    <3>1. PICK n \in DOMAIN putters : putters[n] = t
      BY <1>2, <2>2 DEF EverybodyPlaced
    <3>2. places = {n} /\ {t} \cap woken = {}
      BY <2>2, <3>1 DEF Sound, PuttersMatch
    <3>3. Cardinality({n}) = 1 /\ Cardinality({}) = 0
      BY FS_EmptySet, FS_Singleton
    <3>4. Cardinality(places) = 1 /\ Cardinality({t} \cap woken) = 0
      BY <3>2, <3>3, Zenon
    <3>5. QED
      BY <3>4
  <2>3. QED
    BY <2>1, <2>2
<1>3. QED
  BY <1>1, <1>2 DEF NoLostWaiter, EverybodyPlaced

LEMMA NobodyIsLostForAny == AnySpec => []NoLostWaiter
<1>1. Init => Sound /\ EverybodyPlaced
  BY SoundInit, PlacedInit
<1>2. Sound /\ EverybodyPlaced /\ [AnyStep]_vars => Sound' /\ EverybodyPlaced'
  BY SoundStep, PlacedStep
<1>3. QED
  BY <1>1, <1>2, PlacedMeansFound, PTL DEF AnySpec

(* A waiting task whose Future is still pending is in the queue, where release() will find
   it, and a task suspended in put() is in exactly one of the two places that can wake it. *)
THEOREM NobodyIsLost == Spec => []NoLostWaiter
BY NobodyIsLostForAny, SpecIsAny, PTL
-----------------------------------------------------------------------------
(* Room in the queue *)

(* How long the queue is after each way in and out. *)
LEMMA LengthAfterDrain ==
    ASSUME TypeOK, NEW k \in DOMAIN q, NEW t \in Task
    PROVE  /\ Len(q) \in Nat /\ k \in 1..Len(q)
           /\ Len(SubSeq(q, k + 1, Len(q))) = Len(q) - k
           /\ Len(Append(SubSeq(q, k + 1, Len(q)), t)) = Len(q) - k + 1
<1>1. Len(q) \in Nat /\ k \in 1..Len(q)
  BY LenProperties DEF TypeOK
<1>2. /\ SubSeq(q, k + 1, Len(q)) \in Seq(Task)
      /\ Len(SubSeq(q, k + 1, Len(q))) = Len(q) - k
  BY <1>1, DrainType, LenProperties
<1>3. QED
  BY <1>1, <1>2, AppendProperties

(* What one step does to the room in the queue: woken put()s are spent one by one and
   every get() wakes one, as long as there is somebody to wake. *)
LEMMA WokenByDrain ==
    ASSUME TypeOK, PuttersMatch, NEW n \in Nat, WakePutters(n), putters' # <<>>
    PROVE  /\ putters # <<>>
           /\ Cardinality(woken) \in Nat /\ Cardinality(woken') = Cardinality(woken) + n
<1>1. /\ Len(putters) \in Nat /\ DOMAIN putters = 1..Len(putters)
      /\ \A i \in DOMAIN putters : putters[i] \in Task
  BY ElementOfSeq, LenProperties DEF TypeOK
<1>2. n < Len(putters)
  <2>1. /\ SubSeq(putters, n + 1, Len(putters)) \in Seq(Task)
        /\ Len(SubSeq(putters, n + 1, Len(putters))) =
                IF n + 1 <= Len(putters) THEN Len(putters) - (n + 1) + 1 ELSE 0
    <3>1. n + 1 \in Int /\ Len(putters) \in Int
          /\ \A i \in (n + 1)..Len(putters) : putters[i] \in Task
      BY <1>1
    <3>2. QED
      BY <3>1, SubSeqProperties
  <2>2. Len(putters') # 0
    BY <2>1, EmptySeq DEF WakePutters
  <2>3. Len(putters') = IF n + 1 <= Len(putters) THEN Len(putters) - (n + 1) + 1 ELSE 0
    BY <2>1 DEF WakePutters
  <2>4. n + 1 <= Len(putters)
    BY <2>2, <2>3, Zenon
  <2>5. QED
    BY <1>1, <2>4
<1>3. putters # <<>>
  BY <1>1, <1>2, EmptySeq
<1> DEFINE first == {putters[i] : i \in 1..n}
           f == [i \in 1..n |-> putters[i]]
<1>4. f \in Bijection(1..n, first)
  <2>1. \A i \in 1..n : i \in DOMAIN putters
    BY <1>1, <1>2
  <2>2. \A i, j \in 1..n : f[i] = f[j] => i = j
    BY <2>1 DEF PuttersMatch
  <2>3. f \in [1..n -> first]
    OBVIOUS
  <2>4. f \in Injection(1..n, first)
    BY <2>2, <2>3, Zenon DEF Injection, IsInjective
  <2>5. f \in Surjection(1..n, first)
    BY <2>3 DEF Surjection
  <2>6. QED
    BY <2>4, <2>5 DEF Bijection
<1>5. IsFiniteSet(1..n) /\ Cardinality(1..n) = n
  <2>1. IsFiniteSet(1..n) /\ Cardinality(1..n) = IF 1 > n THEN 0 ELSE n - 1 + 1
    BY FS_Interval
  <2>2. QED
    BY <2>1
<1>6. IsFiniteSet(first) /\ Cardinality(first) = n
  <2>1. ExistsBijection(1..n, first)
    BY <1>4 DEF ExistsBijection
  <2>2. QED
    BY <1>5, <2>1, FS_Bijection
<1>7. woken' = woken \cup first
  <2>1. DOMAIN putters \cap 1..n = 1..n
    BY <1>1, <1>2
  <2>2. QED
    BY <2>1 DEF WakePutters
<1>8. woken \cap first = {}
  BY <1>1, <1>2 DEF PuttersMatch
<1>9. IsFiniteSet(woken) /\ Cardinality(woken) \in Nat
  BY GateAssumption, FS_Subset, FS_CardinalityType DEF TypeOK
<1> HIDE DEF first
<1>10. Cardinality(woken \cup first) = Cardinality(woken) + Cardinality(first)
  <2>1. Cardinality(woken \cup first)
            = Cardinality(woken) + Cardinality(first) - Cardinality(woken \cap first)
    BY <1>6, <1>9, FS_Union
  <2>2. Cardinality(woken \cap first) = 0
    BY <1>8, FS_EmptySet, Zenon
  <2>3. QED
    BY <1>6, <1>9, <2>1, <2>2
<1>11. QED
  BY <1>3, <1>6, <1>7, <1>9, <1>10
LEMMA RoomStep ==
    Sound /\ QueueBounded /\ RoomIsAnnounced /\ [AnyStep]_vars => QueueBounded' /\ RoomIsAnnounced'
<1> SUFFICES ASSUME Sound, QueueBounded, RoomIsAnnounced, [AnyStep]_vars
             PROVE  QueueBounded' /\ RoomIsAnnounced'
  OBVIOUS
<1> USE DEF Sound
<1>q. q \in Seq(Task) /\ Len(q) \in Nat
  BY DEF TypeOK
<1>w. IsFiniteSet(woken) /\ Cardinality(woken) \in Nat
  BY GateAssumption, FS_Subset, FS_CardinalityType DEF TypeOK
<1>c. conf' = conf /\ conf.qmax \in Nat
  BY ConfigurationKept, GateAssumption DEF TypeOK, Config
<1>l. Len(q) <= conf.qmax /\ (putters # <<>> => Len(q) + Cardinality(woken) >= conf.qmax)
  BY DEF QueueBounded, RoomIsAnnounced
<1>1. ASSUME NEW n \in Nat, WakePutters(n), NEW m \in Nat, Len(q') = m,
             m <= conf.qmax, m + n >= Len(q)
      PROVE  QueueBounded' /\ RoomIsAnnounced'
  <2>1. ASSUME putters' # <<>>
        PROVE  Len(q') + Cardinality(woken') >= conf'.qmax
    <3>1. putters # <<>> /\ Cardinality(woken') = Cardinality(woken) + n
      BY <1>1, <2>1, WokenByDrain
    <3>2. QED
      BY <1>1, <1>c, <1>l, <1>q, <1>w, <3>1
  <2>2. QED
    BY <1>1, <1>c, <2>1 DEF QueueBounded, RoomIsAnnounced
<1>2. ASSUME NEW t \in Task, TryDirectGate(t) \/ Refuse(t)
      PROVE  QueueBounded' /\ RoomIsAnnounced'
  BY <1>2, <1>c DEF TryDirectGate, Refuse, vars, QueueBounded, RoomIsAnnounced
<1>3. ASSUME NEW t \in Task, EnqueueWaiter(t)
      PROVE  QueueBounded' /\ RoomIsAnnounced'
  <2>1. /\ Len(q') = Len(q) + 1 /\ Len(q) < conf.qmax /\ UNCHANGED <<putters, woken>>
    BY <1>3, <1>c, <1>q, AppendProperties DEF EnqueueWaiter, Full
  <2>2. QED
    BY <1>c, <1>l, <1>q, <1>w, <2>1 DEF QueueBounded, RoomIsAnnounced
<1>4. ASSUME NEW t \in Task, DropOldest(t)
      PROVE  QueueBounded' /\ RoomIsAnnounced'
  <2>1. PICK k \in DOMAIN q :
            q' = Append(SubSeq(q, k + 1, Len(q)), t) /\ WakePutters(k)
    BY <1>4 DEF DropOldest
  <2>2. k \in 1..Len(q) /\ Len(q') = Len(q) - k + 1
    BY <2>1, LengthAfterDrain
  <2>3. /\ Len(q) - k + 1 \in Nat /\ k \in Nat
        /\ Len(q) - k + 1 <= conf.qmax /\ Len(q) - k + 1 + k >= Len(q)
    BY <1>c, <1>l, <1>q, <2>2
  <2>4. QED
    BY <1>1, <2>1, <2>2, <2>3
<1>5. ASSUME NEW t \in Task, DropOnlyDead(t)
      PROVE  QueueBounded' /\ RoomIsAnnounced'
  <2>1. /\ WakePutters(Len(q)) /\ conf.qmax > 0
        /\ q' = <<>> \/ q' = Append(<<>>, t)
    BY <1>5 DEF DropOnlyDead, QueueEnabled
  <2>2. Len(q') = 0 \/ Len(q') = 1
    <3>1. Len(<<>>) = 0 /\ Len(Append(<<>>, t)) = 1
      OBVIOUS
    <3>2. QED
      BY <2>1, <3>1
  <2>3. PICK m \in {0, 1}, n \in Nat : Len(q') = m /\ n = Len(q)
    BY <1>q, <2>2
  <2>4. m \in Nat /\ m <= conf.qmax /\ m + n >= Len(q) /\ WakePutters(n)
    BY <1>c, <2>1, <2>3
  <2>5. QED
    BY <1>1, <2>3, <2>4
<1>6. ASSUME NEW t \in Task, BlockInPut(t)
      PROVE  QueueBounded' /\ RoomIsAnnounced'
  <2>1. Len(q) >= conf.qmax /\ UNCHANGED <<q, woken>>
    BY <1>6 DEF BlockInPut, Full
  <2>2. QED
    BY <1>c, <1>l, <1>q, <1>w, <2>1 DEF QueueBounded, RoomIsAnnounced
<1>7. ASSUME NEW t \in Task, ResumePut(t)
      PROVE  QueueBounded' /\ RoomIsAnnounced'
  <2>1. Cardinality(woken') \in Nat /\ Cardinality(woken') = Cardinality(woken) - 1
    <3>1. IsFiniteSet(woken \ {t}) /\ Cardinality(woken \ {t}) = Cardinality(woken) - 1
      BY <1>7, <1>w, FS_RemoveElement DEF ResumePut
    <3>2. Cardinality(woken \ {t}) \in Nat
      BY <3>1, FS_CardinalityType
    <3>3. QED
      BY <1>7, <3>1, <3>2 DEF ResumePut
  <2>2. CASE Full
    <3>1. UNCHANGED q /\ Len(q) >= conf.qmax
      BY <1>7, <2>2 DEF ResumePut, Full
    <3>2. QED
      BY <1>c, <1>l, <1>q, <2>1, <3>1 DEF QueueBounded, RoomIsAnnounced
  <2>3. CASE ~Full
    <3>1. Len(q') = Len(q) + 1 /\ Len(q) < conf.qmax /\ UNCHANGED putters
      BY <1>7, <1>c, <1>q, <2>3, AppendProperties DEF ResumePut, Full
    <3>2. QED
      BY <1>c, <1>l, <1>q, <1>w, <2>1, <3>1 DEF QueueBounded, RoomIsAnnounced
  <2>4. QED
    BY <2>2, <2>3
<1>8. ASSUME NEW t \in Task, CancelPut(t)
      PROVE  QueueBounded' /\ RoomIsAnnounced'
  <2>1. UNCHANGED q
    BY <1>8 DEF CancelPut
  <2>2. CASE (\E i \in DOMAIN putters : putters[i] = t) /\ UNCHANGED woken
    <3>1. putters # <<>>
      BY <2>2, EmptySeq
    <3>2. QED
      BY <1>c, <1>l, <2>1, <2>2, <3>1 DEF QueueBounded, RoomIsAnnounced
  <2>3. CASE t \in woken /\ (Full \/ putters = <<>>)
             /\ woken' = woken \ {t} /\ UNCHANGED putters
    <3>1. IsFiniteSet(woken \ {t}) /\ Cardinality(woken \ {t}) \in Nat
      BY <1>w, FS_RemoveElement, FS_CardinalityType
    <3>2. putters' # <<>> => Len(q) >= conf.qmax
      BY <2>3 DEF Full
    <3>3. QED
      BY <1>c, <1>l, <1>q, <2>1, <2>3, <3>1, <3>2 DEF QueueBounded, RoomIsAnnounced
  <2>4. CASE t \in woken /\ putters # <<>>
             /\ woken' = (woken \ {t}) \cup {Head(putters)}
    <3>1. Head(putters) \notin woken
      <4>1. Len(putters) \in Nat \ {0} /\ DOMAIN putters = 1..Len(putters)
            /\ Head(putters) = putters[1]
        BY <2>4, LenProperties, EmptySeq, HeadTailProperties DEF TypeOK
      <4>2. QED
        BY <4>1 DEF PuttersMatch
    <3>2. /\ IsFiniteSet(woken \ {t})
          /\ Cardinality(woken \ {t}) = Cardinality(woken) - 1
      BY <1>w, <2>4, FS_RemoveElement
    <3>3. Cardinality(woken') = Cardinality(woken \ {t}) + 1
      BY <2>4, <3>1, <3>2, FS_AddElement
    <3>4. Cardinality(woken') = Cardinality(woken)
      BY <1>w, <3>2, <3>3
    <3>5. QED
      BY <1>c, <1>l, <2>1, <2>4, <3>4 DEF QueueBounded, RoomIsAnnounced
  <2>5. QED
    BY <1>8, <2>2, <2>3, <2>4 DEF CancelPut
<1>9. ASSUME NEW t \in Task, InheritOccupy(t) \/ RaiseDropped(t) \/ GiveUp(t)
      PROVE  QueueBounded' /\ RoomIsAnnounced'
  BY <1>9, <1>c DEF InheritOccupy, RaiseDropped, GiveUp, QueueBounded, RoomIsAnnounced
<1>10. ASSUME NEW t \in Task, Release(t)
       PROVE  QueueBounded' /\ RoomIsAnnounced'
  <2>1. CASE q' = <<>> /\ WakePutters(Len(q))
    <3>1. Len(q') = 0
      BY <2>1
    <3>2. PICK m \in {0}, n \in Nat : Len(q') = m /\ n = Len(q)
      BY <1>q, <3>1
    <3>3. m \in Nat /\ m <= conf.qmax /\ m + n >= Len(q) /\ WakePutters(n)
      BY <1>c, <2>1, <3>2
    <3>4. QED
      BY <1>1, <3>2, <3>3
  <2>2. CASE \E k \in DOMAIN q : q' = SubSeq(q, k + 1, Len(q)) /\ WakePutters(k)
    <3>1. PICK k \in DOMAIN q : q' = SubSeq(q, k + 1, Len(q)) /\ WakePutters(k)
      BY <2>2
    <3>2. k \in 1..Len(q) /\ Len(q') = Len(q) - k
      BY <3>1, LengthAfterDrain
    <3>3. PICK m \in Nat : Len(q') = m /\ k \in Nat /\ m + k = Len(q)
      BY <1>q, <3>2
    <3>4. m <= conf.qmax /\ m + k >= Len(q)
      BY <1>c, <1>l, <1>q, <3>3
    <3>5. QED
      BY <1>1, <3>1, <3>3, <3>4
  <2>3. QED
    BY <1>10, <2>1, <2>2 DEF Release
<1>11. CASE UNCHANGED vars
  BY <1>11 DEF vars, QueueBounded, RoomIsAnnounced
<1>12. QED
  BY <1>2, <1>3, <1>4, <1>5, <1>6, <1>7, <1>8, <1>9, <1>10, <1>11
  DEF AnyStep, Acquire, Wait

LEMMA RoomInit == Init => QueueBounded /\ RoomIsAnnounced
<1>1. \A c \in Configs : c.qmax \in Nat
  BY GateAssumption DEF Config
<1>2. QED
  BY <1>1, EmptySeq DEF Init, QueueBounded, RoomIsAnnounced

LEMMA RoomAlways == AnySpec => [](QueueBounded /\ RoomIsAnnounced)
<1>1. Init => Sound /\ QueueBounded /\ RoomIsAnnounced
  BY SoundInit, RoomInit
<1>2. Sound /\ QueueBounded /\ RoomIsAnnounced /\ [AnyStep]_vars
        => Sound' /\ QueueBounded' /\ RoomIsAnnounced'
  BY SoundStep, RoomStep
<1>3. QED
  BY <1>1, <1>2, PTL DEF AnySpec

(* Whichever of the four ways in was taken, the queue never holds more Waiters than
   LOCAL_QUEUE_MAXSIZE, dead ones included. *)
THEOREM QueueNeverTooLong == Spec => []QueueBounded
BY RoomAlways, SpecIsAny, PTL

(* While a put() is suspended the queue is full, or as many put()s as it has room for have
   been woken and have still to run: each get() wakes one, each of them takes the room it
   was woken for or finds it taken, and a cancelled one hands its wake-up on. *)
THEOREM RoomAlwaysAnnounced == Spec => []RoomIsAnnounced
BY RoomAlways, SpecIsAny, PTL
-----------------------------------------------------------------------------
(* First come, first served: the refinement of AdmissionPool *)

(* The line of the pool, for a queue s and Futures f: who has a live Waiter in it, and whose
   live Waiter is in it before another's. *)
LineOf(s, f) == {t \in Task : f[t] = "pending" /\ \E i \in DOMAIN s : s[i] = t}
Before(s, f, u, t) ==
    /\ f[u] = "pending" /\ f[t] = "pending"
    /\ \E i, j \in DOMAIN s : i < j /\ s[i] = u /\ s[j] = t
AheadOf(s, f) == [t \in Task |-> {u \in Task : Before(s, f, u, t)}]

(* The order of the line once t has joined it behind l, and without h *)
Behind(a, t, l) == [a EXCEPT ![t] = l]
Without(a, h) == [t \in Task |-> IF t = h THEN {} ELSE a[t] \ {h}]

(* These are what the refinement mapping puts for the pool's variables. *)
LEMMA MappedAny ==
    ASSUME NEW s \in Seq(Task), NEW f
    PROVE  /\ {s[i] : i \in {j \in DOMAIN s : f[s[j]] = "pending"}} = LineOf(s, f)
           /\ [t \in Task |-> IF f[t] = "pending"
                              THEN {s[i] : i \in {j \in {n \in DOMAIN s : \E m \in DOMAIN s : n < m /\ s[m] = t} :
                                                     f[s[j]] = "pending"}}
                              ELSE {}] = AheadOf(s, f)
<1>1. \A i \in DOMAIN s : s[i] \in Task
  BY ElementOfSeq, LenProperties
<1>2. {s[i] : i \in {j \in DOMAIN s : f[s[j]] = "pending"}} = LineOf(s, f)
  BY <1>1 DEF LineOf
<1>3. ASSUME NEW t \in Task
      PROVE  (IF f[t] = "pending"
              THEN {s[i] : i \in {j \in {n \in DOMAIN s : \E m \in DOMAIN s : n < m /\ s[m] = t} :
                                     f[s[j]] = "pending"}}
              ELSE {}) = {u \in Task : Before(s, f, u, t)}
  BY <1>1 DEF Before
<1>4. QED
  BY <1>2, <1>3 DEF AheadOf

(* The same, of the state and of the next one *)
LEMMA MappedNow ==
    ASSUME TypeOK
    PROVE  InLine = LineOf(q, fut) /\ Ahead = AheadOf(q, fut)
BY MappedAny DEF TypeOK, InLine, Ahead, LiveIn, PlacesBefore, Live

LEMMA MappedNext ==
    ASSUME TypeOK'
    PROVE  InLine' = LineOf(q', fut') /\ Ahead' = AheadOf(q', fut')
<1>1. q' \in Seq(Task)
  BY DEF TypeOK
<1>2. QED
  BY <1>1, MappedAny DEF InLine, Ahead, LiveIn, PlacesBefore, Live

(* a is s with t behind it. *)
Extends(a, s, t) == a = Append(s, t)

(* A Waiter enqueued by a task that has none in the queue stands behind everybody. *)
LEMMA LineJoined ==
    ASSUME NEW s \in Seq(Task), NEW t \in Task, t \notin ToSet(s), NEW f, NEW g,
           g[t] = "pending", \A u \in Task : u # t => g[u] = f[u],
           NEW a, Extends(a, s, t)
    PROVE  /\ LineOf(a, g) = LineOf(s, f) \cup {t}
           /\ AheadOf(a, g) = Behind(AheadOf(s, f), t, LineOf(s, f))
<1>1. Len(s) \in Nat /\ DOMAIN s = 1..Len(s) /\ \A i \in DOMAIN s : s[i] \in Task
  BY ElementOfSeq, LenProperties
<1>2. \A i \in DOMAIN s : s[i] # t
  BY DEF ToSet
<1> DEFINE n == Len(s) + 1
<1>3. /\ DOMAIN a = 1..n
      /\ \A i \in 1..Len(s) : a[i] = s[i]
      /\ a[n] = t
  BY <1>1 DEF Extends
<1>4. /\ \A i \in DOMAIN a : (i \in DOMAIN s /\ a[i] = s[i]) \/ (i = n /\ a[i] = t)
      /\ \A i \in DOMAIN s : i \in DOMAIN a /\ a[i] = s[i] /\ i < n /\ ~(n < i)
      /\ n \in DOMAIN a /\ a[n] = t /\ ~(n < n)
  BY <1>1, <1>3
<1> HIDE DEF n
<1>5. LineOf(a, g) = LineOf(s, f) \cup {t}
  BY <1>2, <1>4 DEF LineOf
<1>6. ASSUME NEW u \in Task
      PROVE  Before(a, g, u, t) <=> u \in LineOf(s, f)
  BY <1>2, <1>4 DEF Before, LineOf
<1>7. ASSUME NEW u \in Task, NEW v \in Task, v # t
      PROVE  Before(a, g, u, v) <=> Before(s, f, u, v)
  <2>1. Before(a, g, u, v) => u # t
    <3>1. SUFFICES ASSUME Before(a, g, t, v) PROVE FALSE
      OBVIOUS
    <3>2. PICK i \in DOMAIN a, j \in DOMAIN a : i < j /\ a[i] = t /\ a[j] = v
      BY <3>1 DEF Before
    <3>3. i = n /\ j \in DOMAIN s
      BY <1>2, <1>4, <1>7, <3>2
    <3>4. QED
      BY <1>4, <3>2, <3>3
  <2>2. Before(s, f, u, v) => u # t
    BY <1>2 DEF Before
  <2>3. CASE u # t
    <3>1. g[u] = f[u] /\ g[v] = f[v]
      BY <1>7, <2>3
    <3>2. (\E i, j \in DOMAIN a : i < j /\ a[i] = u /\ a[j] = v)
            <=> (\E i, j \in DOMAIN s : i < j /\ s[i] = u /\ s[j] = v)
      BY <1>4, <1>7, <2>3
    <3>3. QED
      BY <3>1, <3>2 DEF Before
  <2>4. QED
    BY <2>1, <2>2, <2>3
<1>8. AheadOf(a, g) = Behind(AheadOf(s, f), t, LineOf(s, f))
  <2>1. {u \in Task : Before(a, g, u, t)} = LineOf(s, f)
    BY <1>6 DEF LineOf
  <2>2. \A v \in Task : v # t => {u \in Task : Before(a, g, u, v)} = {u \in Task : Before(s, f, u, v)}
    BY <1>7
  <2>3. QED
    BY <2>1, <2>2 DEF AheadOf, Behind
<1>9. QED
  BY <1>5, <1>8

(* Taking the queue's Waiters out up to the oldest live one takes the first out of the
   line. *)
LEMMA LineServed ==
    ASSUME NEW s \in Seq(Task), \A i, j \in DOMAIN s : s[i] = s[j] => i = j,
           NEW k \in DOMAIN s, NEW f, f[s[k]] = "pending",
           \A i \in 1..(k - 1) : f[s[i]] # "pending",
           NEW g, g[s[k]] # "pending", \A u \in Task : u # s[k] => g[u] = f[u]
    PROVE  /\ s[k] \in LineOf(s, f) /\ AheadOf(s, f)[s[k]] = {}
           /\ LineOf(SubSeq(s, k + 1, Len(s)), g) = LineOf(s, f) \ {s[k]}
           /\ AheadOf(SubSeq(s, k + 1, Len(s)), g) = Without(AheadOf(s, f), s[k])
<1> DEFINE r == SubSeq(s, k + 1, Len(s))
           h == s[k]
<1>1. Len(s) \in Nat /\ DOMAIN s = 1..Len(s) /\ \A i \in DOMAIN s : s[i] \in Task
  BY ElementOfSeq, LenProperties
<1>2. k \in 0..Len(s) /\ h \in Task
  BY <1>1
<1>3. DOMAIN r = 1..(Len(s) - k) /\ \A i \in 1..(Len(s) - k) : r[i] = s[i + k]
  BY <1>2, DropFirst
<1>4. \A i \in DOMAIN s : i = k \/ f[s[i]] # "pending" \/ k < i
  BY <1>1
<1>5. /\ \A i \in DOMAIN r : i + k \in DOMAIN s /\ r[i] = s[i + k] /\ k < i + k /\ i \in Nat
      /\ \A i \in DOMAIN s : k < i => i - k \in DOMAIN r /\ r[i - k] = s[i]
      /\ k \in Nat /\ \A i \in DOMAIN s : i \in Nat
  <2>1. \A i \in DOMAIN r : i \in 1..(Len(s) - k) /\ i + k \in 1..Len(s) /\ k < i + k /\ i \in Nat
    BY <1>1, <1>3
  <2>2. \A i \in 1..Len(s) : k < i => i - k \in 1..(Len(s) - k) /\ (i - k) + k = i
    BY <1>1
  <2>3. QED
    BY <1>1, <1>3, <2>1, <2>2
<1>6. \A i \in DOMAIN r : r[i] # h /\ r[i] \in Task
  BY <1>1, <1>5
<1> HIDE DEF r
<1>7. ASSUME NEW u \in Task, NEW v \in Task, u # h, v # h
      PROVE  Before(r, g, u, v) <=> Before(s, f, u, v)
  <2>0. g[u] = f[u] /\ g[v] = f[v]
    BY <1>7
  <2>1. ASSUME Before(r, g, u, v) PROVE Before(s, f, u, v)
    <3>1. PICK i \in DOMAIN r, j \in DOMAIN r : i < j /\ r[i] = u /\ r[j] = v
      BY <2>1 DEF Before
    <3>2. i + k \in DOMAIN s /\ j + k \in DOMAIN s /\ i + k < j + k /\ s[i + k] = u /\ s[j + k] = v
      BY <1>5, <3>1
    <3>3. QED
      BY <2>0, <2>1, <3>2 DEF Before
  <2>2. ASSUME Before(s, f, u, v) PROVE Before(r, g, u, v)
    <3>1. PICK i \in DOMAIN s, j \in DOMAIN s : i < j /\ s[i] = u /\ s[j] = v
      BY <2>2 DEF Before
    <3>2. f[s[i]] = "pending" /\ f[s[j]] = "pending" /\ i # k /\ j # k
      BY <1>7, <2>2, <3>1 DEF Before
    <3>3. k < i /\ k < j
      BY <1>4, <3>2
    <3>4. i - k \in DOMAIN r /\ j - k \in DOMAIN r /\ i - k < j - k /\ r[i - k] = u /\ r[j - k] = v
      BY <1>5, <3>1, <3>3
    <3>5. QED
      BY <2>0, <2>2, <3>4 DEF Before
  <2>3. QED
    BY <2>1, <2>2
<1>8. h \in LineOf(s, f)
  BY <1>2 DEF LineOf
<1>9. ASSUME NEW u \in Task PROVE ~Before(s, f, u, h)
  <2>1. SUFFICES ASSUME Before(s, f, u, h) PROVE FALSE
    OBVIOUS
  <2>2. PICK i \in DOMAIN s, j \in DOMAIN s : i < j /\ s[i] = u /\ s[j] = h
    BY <2>1 DEF Before
  <2>3. j = k /\ f[s[i]] = "pending"
    BY <2>1, <2>2 DEF Before
  <2>4. i \in Nat /\ k \in Nat /\ i < k
    BY <1>5, <2>2, <2>3
  <2>5. i # k /\ ~(k < i)
    BY <2>4
  <2>6. QED
    BY <1>4, <2>3, <2>5
<1>10. LineOf(r, g) = LineOf(s, f) \ {h}
  <2>1. ASSUME NEW u \in Task, u # h
        PROVE  (\E i \in DOMAIN r : r[i] = u) /\ f[u] = "pending"
                 <=> (\E i \in DOMAIN s : s[i] = u) /\ f[u] = "pending"
    <3>1. ASSUME NEW i \in DOMAIN r, r[i] = u PROVE \E j \in DOMAIN s : s[j] = u
      BY <1>5, <3>1
    <3>2. ASSUME NEW i \in DOMAIN s, s[i] = u, f[u] = "pending" PROVE \E j \in DOMAIN r : r[j] = u
      BY <1>4, <1>5, <2>1, <3>2
    <3>3. QED
      BY <3>1, <3>2
  <2>2. QED
    BY <1>6, <2>1 DEF LineOf
<1>11. ASSUME NEW u \in Task, NEW v \in Task, u = h \/ v = h
       PROVE  ~Before(r, g, u, v)
  BY <1>11 DEF Before
<1>12. ASSUME NEW v \in Task
       PROVE  {u \in Task : Before(r, g, u, v)}
                = IF v = h THEN {} ELSE {u \in Task : Before(s, f, u, v)} \ {h}
  BY <1>7, <1>11
<1>13. AheadOf(r, g) = Without(AheadOf(s, f), h)
  BY <1>12 DEF AheadOf, Without
<1>14. AheadOf(s, f)[h] = {}
  BY <1>2, <1>9 DEF AheadOf
<1>15. QED
  BY <1>8, <1>10, <1>13, <1>14 DEF r

(* A Waiter that is given up stays in the queue and leaves the line. *)
LEMMA LineLeft ==
    ASSUME NEW s, NEW t \in Task, NEW f, NEW g,
           g[t] # "pending", \A u \in Task : u # t => g[u] = f[u]
    PROVE  /\ LineOf(s, g) = LineOf(s, f) \ {t}
           /\ AheadOf(s, g) = Without(AheadOf(s, f), t)
<1>1. LineOf(s, g) = LineOf(s, f) \ {t}
  BY DEF LineOf
<1>2. ASSUME NEW v \in Task
      PROVE  {u \in Task : Before(s, g, u, v)}
                = IF v = t THEN {} ELSE {u \in Task : Before(s, f, u, v)} \ {t}
  BY DEF Before
<1>3. QED
  BY <1>1, <1>2 DEF AheadOf, Without

(* Nobody is in line where no Waiter in the queue is live. *)
LEMMA LineEmpty ==
    ASSUME NEW s \in Seq(Task), NEW f, \A i \in DOMAIN s : f[s[i]] # "pending"
    PROVE  /\ LineOf(s, f) = {}
           /\ AheadOf(s, f) = [t \in Task |-> {}]
BY DEF LineOf, AheadOf, Before

(* Nothing is changed where the same Futures are pending. *)
LEMMA LineKept ==
    ASSUME NEW s, NEW f, NEW g, \A u \in Task : g[u] = "pending" <=> f[u] = "pending"
    PROVE  LineOf(s, g) = LineOf(s, f) /\ AheadOf(s, g) = AheadOf(s, f)
BY DEF LineOf, AheadOf, Before

(* The tickets say how many may still enter. *)
LEMMA HoldingCounted ==
    ASSUME Inv
    PROVE  /\ Cardinality(Holding) \in Nat
           /\ ticket["g0"] \in Nat /\ ticket["g1"] \in Nat
           /\ ticket["g0"] + ticket["g1"] + Cardinality(Holding) = Cap["g0"] + Cap["g1"]
<1> USE DEF Inv, Shape, Sound
<1>1. Holding = Owners("g0") \cup Owners("g1")
  BY DEF Holding, InTransit, Owners, TypeOK, Layer, Outcome
<1>2. Owners("g0") \cap Owners("g1") = {}
  BY DEF Owners, CallersOwnNothing, TypeOK, Layer
<1>3. /\ IsFiniteSet(Owners("g0")) /\ IsFiniteSet(Owners("g1"))
      /\ Cardinality(Owners("g0")) \in Nat /\ Cardinality(Owners("g1")) \in Nat
  BY FiniteOwners, FS_CardinalityType
<1>4. Cardinality(Holding) = Cardinality(Owners("g0")) + Cardinality(Owners("g1"))
                              - Cardinality(Owners("g0") \cap Owners("g1"))
  BY <1>1, <1>3, FS_Union
<1>5. Cardinality(Owners("g0") \cap Owners("g1")) = 0
  BY <1>2, FS_EmptySet
<1>6. /\ "g0" \in Layer /\ "g1" \in Layer
      /\ ticket["g0"] \in Nat /\ ticket["g1"] \in Nat
      /\ Cap["g0"] \in Nat /\ Cap["g1"] \in Nat
  BY GateAssumption DEF TypeOK, Layer
<1>7. /\ ticket["g0"] + Cardinality(Owners("g0")) = Cap["g0"]
      /\ ticket["g1"] + Cardinality(Owners("g1")) = Cap["g1"]
  BY <1>6 DEF Conserved
<1>8. QED
  BY <1>3, <1>4, <1>5, <1>6, <1>7

(* What the pool asks of a task that takes a slot or joins the line *)
LEMMA Newcomer ==
    ASSUME Inv, NEW t \in Task, CanCall(t), holders[t] = "none"
    PROVE  /\ t \notin Holding /\ t \notin InLine
           /\ NoTicket => Cardinality(Holding) = Cap["g0"] + Cap["g1"]
<1>1. t \notin Holding
  BY DEF CanCall, Holding, InTransit
<1>2. t \notin LineOf(q, fut)
  BY DEF CanCall, LineOf, ToSet
<1>3. NoTicket => ticket["g0"] = 0 /\ ticket["g1"] = 0
  BY DEF NoTicket, Layer
<1>4. /\ "g0" \in Layer /\ "g1" \in Layer
      /\ Cap["g0"] \in Nat /\ Cap["g1"] \in Nat
  BY GateAssumption DEF Layer
<1>5. NoTicket => Cardinality(Holding) = Cap["g0"] + Cap["g1"]
  BY <1>3, <1>4, HoldingCounted
<1>6. QED
  BY <1>1, <1>2, <1>5, MappedNow DEF Inv, Shape, Sound

(* The pool counts as the gate does. *)
LEMMA SameCardinality == Pool!Cardinality(Holding) = Cardinality(Holding)
BY DEF Pool!Cardinality, Cardinality

(* The steps of the gate, one by one: a free slot is taken, while nobody is in line. *)
LEMMA EnterStep ==
    ASSUME Inv, TypeOK', ~Blocking, NEW t \in Task, holders[t] = "none", TryDirectGate(t)
    PROVE  Pool!Enter(t)
<1>1. PICK m \in Layer :
        ticket[m] > 0 /\ holders' = [holders EXCEPT ![t] = m]
  BY DEF TryDirectGate
<1>2. CanCall(t) /\ UNCHANGED <<q, fut, phase>>
  BY DEF TryDirectGate
<1>3. TypeOK /\ NoneLive
  BY <1>1 DEF Inv, Shape, Sound, TicketsOnlyWithoutWaiters
<1>4. InLine = {}
  <2>1. \A i \in DOMAIN q : fut[q[i]] # "pending"
    BY <1>3 DEF NoneLive, Live
  <2>2. q \in Seq(Task)
    BY <1>3 DEF TypeOK
  <2>3. QED
    BY <1>3, <2>1, <2>2, LineEmpty, MappedNow
<1>5. InLine' = InLine /\ Ahead' = Ahead
  BY <1>2, <1>3, MappedNow, MappedNext
<1>6. Holding' = Holding \cup {t}
  BY <1>1, <1>2, <1>3 DEF Holding, InTransit, TypeOK, Layer
<1>7. Cardinality(Holding) < Cap["g0"] + Cap["g1"]
  <2>1. ticket["g0"] + ticket["g1"] > 0
    BY <1>1, HoldingCounted DEF Layer
  <2>2. /\ "g0" \in Layer /\ "g1" \in Layer
        /\ Cap["g0"] \in Nat /\ Cap["g1"] \in Nat
    BY GateAssumption DEF Layer
  <2>3. QED
    BY <2>1, <2>2, HoldingCounted
<1>8. t \notin Holding
  BY <1>2, Newcomer
<1>9. QED
  BY <1>4, <1>5, <1>6, <1>7, <1>8, SameCardinality DEF Pool!Enter

(* A Waiter is enqueued behind s, which is the queue or what is left of it: the same
   tasks are in line. *)
LEMMA JoinStep ==
    ASSUME Inv, TypeOK', NEW t \in Task, holders[t] = "none", CanCall(t), NoTicket,
           NEW s \in Seq(Task), t \notin ToSet(s), Extends(q', s, t),
           LineOf(s, fut) = LineOf(q, fut), AheadOf(s, fut) = AheadOf(q, fut),
           fut'[t] = "pending", UNCHANGED holders,
           \A u \in Task : u # t => fut'[u] = fut[u] /\ phase'[u] = phase[u]
    PROVE  Pool!Join(t)
<1>1. TypeOK /\ phase[t] = "idle"
  BY DEF Inv, Shape, Sound, CanCall
<1>2. /\ LineOf(q', fut') = LineOf(q, fut) \cup {t}
      /\ AheadOf(q', fut') = Behind(AheadOf(q, fut), t, LineOf(q, fut))
  <2>1. \A u \in Task : u # t => fut'[u] = fut[u]
    OBVIOUS
  <2>2. LineOf(q', fut') = LineOf(s, fut) \cup {t}
    BY <2>1, LineJoined
  <2>3. AheadOf(q', fut') = Behind(AheadOf(s, fut), t, LineOf(s, fut))
    BY <2>1, LineJoined
  <2>4. QED
    BY <2>2, <2>3
<1>3. InLine' = InLine \cup {t} /\ Ahead' = Behind(Ahead, t, InLine)
  BY <1>1, <1>2, MappedNow, MappedNext
<1>4. Holding' = Holding
  <2>1. t \notin Holding /\ ~InTransit(t)' /\ holders'[t] = "none"
    BY <1>1 DEF Holding, InTransit, Layer
  <2>2. QED
    BY <2>1 DEF Holding, InTransit
<1>5. t \notin Holding \cup InLine /\ Cardinality(Holding) = Cap["g0"] + Cap["g1"]
  BY Newcomer
<1>6. QED
  BY <1>3, <1>4, <1>5, SameCardinality DEF Pool!Join, Pool!Exhausted, Behind

(* drop_oldest: the queue loses its Waiters up to the oldest live one, and gains one. *)
LEMMA PushOutStep ==
    ASSUME Inv, EverybodyPlaced, TypeOK', NEW t \in Task, holders[t] = "none", DropOldest(t)
    PROVE  Pool!JoinPushingOut(t)
<1>1. TypeOK
  BY DEF Inv, Shape, Sound
<1>2. CanCall(t) /\ NoTicket /\ UNCHANGED holders /\ phase' = [phase EXCEPT ![t] = "waiting"]
  BY DEF DropOldest
<1>3. PICK k \in DOMAIN q :
        /\ FirstLive(k)
        /\ fut' = [fut EXCEPT ![q[k]] = "dropped", ![t] = "pending"]
        /\ q' = Append(SubSeq(q, k + 1, Len(q)), t)
  BY DEF DropOldest
<1>4. q \in Seq(Task) /\ t \notin ToSet(q) /\ phase[t] = "idle"
  BY <1>1, <1>2 DEF TypeOK, CanCall
<1>h. PICK h \in Task : h = q[k] /\ h # t
  BY <1>4, ElementOfSeq, LenProperties DEF ToSet
<1> DEFINE r == SubSeq(q, k + 1, Len(q))
           g == [fut EXCEPT ![h] = "dropped"]
<1>6. k \in 0..Len(q) /\ r \in Seq(Task) /\ t \notin ToSet(r)
  <2>1. k \in 0..Len(q)
    BY <1>4, LenProperties
  <2>2. \A i, j \in DOMAIN q : q[i] = q[j] => i = j
    BY DEF EverybodyPlaced
  <2>3. r \in Seq(Task) /\ ToSet(r) \subseteq ToSet(q)
    BY <1>4, <2>1, <2>2, DistinctRest
  <2>4. QED
    BY <1>4, <2>1, <2>3
<1>7. /\ fut[h] = "pending"
      /\ \A i \in 1..(k - 1) : fut[q[i]] # "pending"
  BY <1>3, <1>h DEF FirstLive, Live
<1>8. /\ g[h] # "pending" /\ \A u \in Task : u # h => g[u] = fut[u]
      /\ fut'[t] = "pending" /\ \A u \in Task : u # t => fut'[u] = g[u]
      /\ fut'[h] = "dropped"
  BY <1>1, <1>3, <1>h DEF TypeOK
<1>9. \A i, j \in DOMAIN q : q[i] = q[j] => i = j
  BY DEF EverybodyPlaced
<1> HIDE DEF g
<1>10. /\ h \in LineOf(q, fut) /\ AheadOf(q, fut)[h] = {}
       /\ LineOf(r, g) = LineOf(q, fut) \ {h}
       /\ AheadOf(r, g) = Without(AheadOf(q, fut), h)
  BY <1>4, <1>7, <1>8, <1>9, <1>h, LineServed
<1> HIDE DEF r
<1>q. Extends(q', r, t)
  BY <1>3 DEF Extends, r
<1>11. /\ LineOf(q', fut') = LineOf(r, g) \cup {t}
       /\ AheadOf(q', fut') = Behind(AheadOf(r, g), t, LineOf(r, g))
  BY <1>6, <1>8, <1>q, LineJoined
<1>12. /\ h \in InLine /\ Ahead[h] = {}
       /\ InLine' = (InLine \ {h}) \cup {t}
       /\ Ahead' = Behind(Without(Ahead, h), t, InLine \ {h})
  BY <1>1, <1>10, <1>11, MappedNow, MappedNext
<1>13. Holding' = Holding
  <2>2. \A u \in Task : u # t /\ u # h => fut'[u] = fut[u] /\ phase'[u] = phase[u]
    BY <1>1, <1>2, <1>8 DEF TypeOK
  <2>3. t \notin Holding /\ ~InTransit(t)' /\ holders'[t] = "none"
    BY <1>2, <1>4, <1>8 DEF Holding, InTransit, Layer
  <2>4. ~InTransit(h) /\ ~InTransit(h)' /\ holders'[h] = holders[h]
    BY <1>2, <1>7, <1>8 DEF InTransit, Layer
  <2>5. QED
    BY <1>2, <2>2, <2>3, <2>4 DEF Holding, InTransit
<1>14. /\ t \notin Holding \cup InLine
       /\ Cardinality(Holding) = Cap["g0"] + Cap["g1"]
  BY <1>2, Newcomer
<1>15. QED
  BY <1>h, <1>12, <1>13, <1>14, SameCardinality
     DEF Pool!JoinPushingOut, Pool!Exhausted, Pool!First, Pool!AheadWithout, Without, Behind

(* release(), with and without a live Waiter to inherit the slot *)
LEMMA ReturnStep ==
    ASSUME Inv, EverybodyPlaced, TypeOK', NEW t \in Task, Release(t)
    PROVE  Pool!Return(t)
<1>1. TypeOK
  BY DEF Inv, Shape, Sound
<1>2. /\ holders[t] \in Layer /\ holders' = [holders EXCEPT ![t] = "none"] /\ UNCHANGED phase
      /\ phase[t] = "idle"
  BY <1>1 DEF Release, TypeOK, Inv, Shape, CallersOwnNothing
<1>3. t \in Holding
  BY <1>2 DEF Holding, Layer
<1>4. q \in Seq(Task)
  BY <1>1 DEF TypeOK
<1>5. ASSUME NEW k \in DOMAIN q, FirstLive(k), fut' = [fut EXCEPT ![q[k]] = holders[t]],
             q' = SubSeq(q, k + 1, Len(q))
      PROVE  Pool!Return(t)
  <2>1. PICK h \in Task : h = q[k]
    BY <1>4, ElementOfSeq, LenProperties
  <2> DEFINE r == SubSeq(q, k + 1, Len(q))
  <2>2. fut[h] = "pending" /\ \A i \in 1..(k - 1) : fut[q[i]] # "pending"
    BY <1>5, <2>1 DEF FirstLive, Live
  <2>3. fut'[h] = holders[t] /\ fut'[h] # "pending" /\ \A u \in Task : u # h => fut'[u] = fut[u]
    BY <1>1, <1>2, <1>5, <2>1 DEF TypeOK, Layer
  <2>4. \A i, j \in DOMAIN q : q[i] = q[j] => i = j
    BY DEF EverybodyPlaced
  <2>5. /\ h \in LineOf(q, fut) /\ AheadOf(q, fut)[h] = {}
        /\ LineOf(r, fut') = LineOf(q, fut) \ {h}
        /\ AheadOf(r, fut') = Without(AheadOf(q, fut), h)
    <3>1. ASSUME NEW g, g[h] # "pending", \A u \in Task : u # h => g[u] = fut[u]
          PROVE  /\ h \in LineOf(q, fut) /\ AheadOf(q, fut)[h] = {}
                 /\ LineOf(r, g) = LineOf(q, fut) \ {h}
                 /\ AheadOf(r, g) = Without(AheadOf(q, fut), h)
      BY <1>4, <2>1, <2>2, <2>4, <3>1, LineServed
    <3>2. QED
      BY <2>3, <3>1
  <2>6. phase[h] = "waiting" /\ holders[h] = "none"
    BY <2>1, <2>2
       DEF Inv, Shape, Sound, QueueMatchesWaiters, Matches, CallersOwnNothing
  <2>7. q' = r
    BY <1>5
  <2> HIDE DEF r
  <2>8. /\ h \in InLine /\ Ahead[h] = {}
        /\ InLine' = InLine \ {h}
        /\ Ahead' = Without(Ahead, h)
    BY <1>1, <2>5, <2>7, MappedNow, MappedNext
  <2>9. Holding' = (Holding \ {t}) \cup {h}
    <3>1. h # t
      BY <1>2, <2>6 DEF Layer
    <3>2. \A u \in Task : u # t /\ u # h => fut'[u] = fut[u] /\ phase'[u] = phase[u]
                                              /\ holders'[u] = holders[u]
      BY <1>1, <1>2, <2>3 DEF TypeOK
    <3>3. t \notin Holding'
      BY <1>1, <1>2 DEF Holding, InTransit, TypeOK
    <3>4. h \in Holding'
      BY <1>2, <2>1, <2>3, <2>6 DEF Holding, InTransit
    <3>5. QED
      BY <3>1, <3>2, <3>3, <3>4 DEF Holding, InTransit
  <2>10. QED
    BY <1>3, <2>1, <2>8, <2>9 DEF Pool!Return, Pool!First, Pool!AheadWithout, Without
<1>6. ASSUME NoneLive, q' = <<>>, UNCHANGED fut
      PROVE  Pool!Return(t)
  <2>1. \A i \in DOMAIN q : fut[q[i]] # "pending"
    BY <1>6 DEF NoneLive, Live
  <2>2. q' \in Seq(Task) /\ DOMAIN q' = {}
    BY <1>6, EmptySeq
  <2>3. InLine = {} /\ InLine' = {} /\ Ahead' = Ahead
    <3>1. LineOf(q, fut) = {} /\ AheadOf(q, fut) = [u \in Task |-> {}]
      BY <1>4, <2>1, LineEmpty
    <3>2. LineOf(q', fut') = {} /\ AheadOf(q', fut') = [u \in Task |-> {}]
      BY <2>2, LineEmpty
    <3>3. QED
      BY <1>1, <3>1, <3>2, MappedNow, MappedNext
  <2>4. Holding' = Holding \ {t}
    BY <1>1, <1>2, <1>6 DEF Holding, InTransit, TypeOK
  <2>5. QED
    BY <1>3, <2>3, <2>4 DEF Pool!Return
<1>7. QED
  BY <1>5, <1>6 DEF Release

(* A timeout or a cancellation *)
LEMMA LeaveStep ==
    ASSUME Inv, TypeOK', NEW t \in Task, GiveUp(t)
    PROVE  Pool!Leave(t)
<1>1. TypeOK
  BY DEF Inv, Shape, Sound
<1>2. /\ phase[t] = "waiting" /\ fut[t] = "pending" /\ UNCHANGED <<holders, q>>
      /\ fut' = [fut EXCEPT ![t] = "cancelled"] /\ phase' = [phase EXCEPT ![t] = "idle"]
  BY DEF GiveUp
<1>3. t \in LineOf(q, fut)
  BY <1>2 DEF Inv, Shape, Sound, QueueMatchesWaiters, Matches, LineOf
<1>4. fut'[t] # "pending" /\ \A u \in Task : u # t => fut'[u] = fut[u]
  BY <1>1, <1>2 DEF TypeOK
<1>5. /\ LineOf(q, fut') = LineOf(q, fut) \ {t}
      /\ AheadOf(q, fut') = Without(AheadOf(q, fut), t)
  BY <1>4, LineLeft
<1>6. /\ t \in InLine /\ InLine' = InLine \ {t} /\ Ahead' = Without(Ahead, t)
  BY <1>1, <1>2, <1>3, <1>5, MappedNow, MappedNext
<1>7. Holding' = Holding
  BY <1>1, <1>2 DEF Holding, InTransit, TypeOK, Layer
<1>8. QED
  BY <1>6, <1>7 DEF Pool!Leave, Pool!AheadWithout, Without

(* What no step of the pool explains leaves the pool as it is. *)
LEMMA PoolKept ==
    ASSUME TypeOK, TypeOK', Holding' = Holding,
           LineOf(q', fut') = LineOf(q, fut), AheadOf(q', fut') = AheadOf(q, fut)
    PROVE  UNCHANGED Pool!vars
<1>1. InLine' = InLine /\ Ahead' = Ahead
  BY MappedNow, MappedNext
<1>2. QED
  BY <1>1 DEF Pool!vars

(* A task that takes what its Future has brought it had it already. *)
LEMMA AnsweredKept ==
    ASSUME TypeOK, TypeOK', NEW t \in Task, InheritOccupy(t) \/ RaiseDropped(t)
    PROVE  UNCHANGED Pool!vars
<1>1. /\ phase[t] = "waiting" /\ fut[t] # "pending" /\ UNCHANGED q
      /\ fut' = [fut EXCEPT ![t] = "none"] /\ phase' = [phase EXCEPT ![t] = "idle"]
  BY DEF InheritOccupy, RaiseDropped, Layer
<1>2. \A u \in Task : fut'[u] = "pending" <=> fut[u] = "pending"
  BY <1>1 DEF TypeOK
<1>3. Holding' = Holding
  <2>1. CASE InheritOccupy(t)
    BY <1>1, <2>1 DEF InheritOccupy, Holding, InTransit, TypeOK, Layer
  <2>2. CASE RaiseDropped(t)
    BY <1>1, <2>2 DEF RaiseDropped, Holding, InTransit, TypeOK, Layer
  <2>3. QED
    BY <2>1, <2>2
<1>4. QED
  BY <1>1, <1>2, <1>3, LineKept, PoolKept

(* drop_oldest with only dead Waiters in the queue, who are not in line *)
LEMMA OnlyDeadStep ==
    ASSUME Inv, TypeOK', NEW t \in Task, holders[t] = "none", DropOnlyDead(t)
    PROVE  Pool!Join(t) \/ UNCHANGED Pool!vars
<1>1. TypeOK
  BY DEF Inv, Shape, Sound
<1>2. /\ CanCall(t) /\ NoTicket /\ NoneLive /\ UNCHANGED holders /\ q \in Seq(Task)
      /\ phase[t] = "idle"
  BY <1>1 DEF DropOnlyDead, TypeOK, CanCall
<1>3. \A i \in DOMAIN q : fut[q[i]] # "pending"
  BY <1>2 DEF NoneLive, Live
<1>4. LineOf(q, fut) = {} /\ AheadOf(q, fut) = [u \in Task |-> {}]
  BY <1>2, <1>3, LineEmpty
<1>5. <<>> \in Seq(Task) /\ t \notin ToSet(<<>>) /\ \A i \in DOMAIN <<>> : fut[<<>>[i]] # "pending"
  BY EmptySeq DEF ToSet
<1>6. LineOf(<<>>, fut) = {} /\ AheadOf(<<>>, fut) = [u \in Task |-> {}]
  BY <1>5, LineEmpty
<1>7. ASSUME Extends(q', <<>>, t), fut'[t] = "pending",
             \A u \in Task : u # t => fut'[u] = fut[u] /\ phase'[u] = phase[u]
      PROVE  Pool!Join(t)
  BY <1>2, <1>4, <1>5, <1>6, <1>7, JoinStep
<1>8. ASSUME q' = <<>>, UNCHANGED <<fut, phase>>
      PROVE  UNCHANGED Pool!vars
  <2>1. Holding' = Holding
    BY <1>2, <1>8 DEF Holding, InTransit
  <2>2. QED
    BY <1>1, <1>4, <1>6, <1>8, <2>1, PoolKept
<1>9. QED
  BY <1>1, <1>2, <1>7, <1>8 DEF DropOnlyDead, Extends, TypeOK

(* Where put() cannot suspend, every step of the gate is one of the pool or none. *)
LEMMA PoolStep ==
    Inv /\ EverybodyPlaced /\ TypeOK' /\ [Next]_vars => [~Blocking => Pool!Next]_(Pool!vars)
<1> SUFFICES ASSUME Inv, EverybodyPlaced, TypeOK', [Next]_vars, ~Blocking
             PROVE  Pool!Next \/ UNCHANGED Pool!vars
  OBVIOUS
<1>1. TypeOK /\ woken = {} /\ putters = <<>>
  BY DEF Inv, Shape, Sound, TicketsOnlyWithoutWaiters
<1>2. CASE UNCHANGED vars
  <2>1. Holding' = Holding
    BY <1>2 DEF vars, Holding, InTransit
  <2>2. q' = q /\ fut' = fut
    BY <1>2 DEF vars
  <2>3. QED
    BY <1>1, <2>1, <2>2, PoolKept
<1>3. ASSUME NEW t \in Task, Call(t)
      PROVE  Pool!Next \/ UNCHANGED Pool!vars
  <2>1. holders[t] = "none" /\ Acquire(t)
    BY <1>3 DEF Call
  <2>2. CASE TryDirectGate(t)
    BY <2>1, <2>2, EnterStep DEF Pool!Next
  <2>3. CASE Refuse(t)
    BY <1>2, <2>3 DEF Refuse
  <2>4. CASE EnqueueWaiter(t)
    <3>1. /\ CanCall(t) /\ NoTicket /\ Extends(q', q, t) /\ UNCHANGED holders
          /\ fut'[t] = "pending"
          /\ \A u \in Task : u # t => fut'[u] = fut[u] /\ phase'[u] = phase[u]
      BY <1>1, <2>4 DEF EnqueueWaiter, Extends, TypeOK
    <3>2. q \in Seq(Task) /\ t \notin ToSet(q)
      BY <1>1, <3>1 DEF TypeOK, CanCall
    <3>3. QED
      BY <2>1, <3>1, <3>2, JoinStep DEF Pool!Next
  <2>5. CASE DropOldest(t)
    BY <2>1, <2>5, PushOutStep DEF Pool!Next
  <2>6. CASE DropOnlyDead(t)
    BY <2>1, <2>6, OnlyDeadStep DEF Pool!Next
  <2>7. CASE BlockInPut(t)
    BY <2>7 DEF BlockInPut, Blocking
  <2>8. QED
    BY <2>1, <2>2, <2>3, <2>4, <2>5, <2>6, <2>7 DEF Acquire
<1>4. ASSUME NEW t \in Task, Wait(t)
      PROVE  Pool!Next \/ UNCHANGED Pool!vars
  <2>1. ~ResumePut(t)
    BY <1>1 DEF ResumePut
  <2>2. ~CancelPut(t)
    BY <1>1, EmptySeq DEF CancelPut
  <2>3. CASE InheritOccupy(t) \/ RaiseDropped(t)
    BY <1>1, <2>3, AnsweredKept
  <2>4. CASE GiveUp(t)
    BY <2>4, LeaveStep DEF Pool!Next
  <2>5. QED
    BY <1>4, <2>1, <2>2, <2>3, <2>4 DEF Wait
<1>5. ASSUME NEW t \in Task, Release(t)
      PROVE  Pool!Next
  BY <1>5, ReturnStep DEF Pool!Next
<1>6. QED
  BY <1>2, <1>3, <1>4, <1>5 DEF Next

LEMMA PoolInit == Init => Pool!Init
<1> SUFFICES ASSUME Init PROVE Pool!Init
  OBVIOUS
<1>1. TypeOK
  BY TypeInit
<1>2. q = <<>> /\ \A i \in DOMAIN q : fut[q[i]] # "pending"
  BY EmptySeq DEF Init
<1>3. InLine = {} /\ Ahead = [t \in Task |-> {}]
  <2>1. q \in Seq(Task)
    BY <1>1 DEF TypeOK
  <2>2. QED
    BY <1>1, <1>2, <2>1, LineEmpty, MappedNow
<1>4. Holding = {}
  BY DEF Init, Holding, InTransit
<1>5. QED
  BY <1>3, <1>4 DEF Pool!Init

(* For every set of tasks, every capacity and every configuration in which put() cannot
   suspend, the gate implements the first-come-first-served pool: a slot goes to whoever
   has waited longest and has not given up, and to nobody else, and nobody who arrives
   while somebody waits gets one first. *)
THEOREM ServedInOrder == Spec => FirstComeFirstServed
<1>1. Inv /\ EverybodyPlaced /\ [Next]_vars => EverybodyPlaced'
  BY NextIsAnyStep, PlacedStep DEF Inv, Shape
<1>2. Spec => []EverybodyPlaced
  BY <1>1, PlacedInit, InvCorrect, PTL DEF Spec
<1>3. QED
  BY <1>2, PoolInit, PoolStep, InvCorrect, TypeCorrect, PTL DEF Spec, FirstComeFirstServed
-----------------------------------------------------------------------------
(* What HandOversInOrder says of a step *)
InOrder == \A t \in InLine :
    /\ fut'[t] \in Layer => Ahead[t] = {}
    /\ t \in InLine' => /\ Ahead'[t] \subseteq Ahead[t]
                        /\ (\E u \in InLine : fut'[u] \in Layer) => Ahead'[t] # Ahead[t]

(* The owner of the oldest live Waiter is ahead of everybody else in line. *)
LEMMA FirstAhead ==
    ASSUME NEW s \in Seq(Task), NEW k \in DOMAIN s, NEW f, f[s[k]] = "pending",
           \A i \in 1..(k - 1) : f[s[i]] # "pending",
           NEW t \in LineOf(s, f), t # s[k]
    PROVE  s[k] \in AheadOf(s, f)[t]
<1>1. Len(s) \in Nat /\ DOMAIN s = 1..Len(s) /\ s[k] \in Task
  BY ElementOfSeq, LenProperties
<1>2. t \in Task /\ f[t] = "pending"
  BY DEF LineOf
<1>3. PICK j \in DOMAIN s : s[j] = t
  BY DEF LineOf
<1>4. j # k /\ j \notin 1..(k - 1)
  BY <1>2, <1>3
<1>5. k < j
  BY <1>1, <1>4
<1>6. QED
  BY <1>1, <1>2, <1>3, <1>5 DEF AheadOf, Before

(* A step after which the same tasks are in line, or fewer, and for each of those that
   still are the same ahead of it, or fewer, and that serves nobody *)
LEMMA OrderKept ==
    ASSUME TypeOK, TypeOK', \A u \in Task : fut[u] = "pending" => fut'[u] \notin Layer,
           \A u \in LineOf(q, fut) : u \in LineOf(q', fut') =>
                AheadOf(q', fut')[u] \subseteq AheadOf(q, fut)[u]
    PROVE  InOrder
<1>1. InLine = LineOf(q, fut) /\ Ahead = AheadOf(q, fut)
  BY MappedNow
<1>2. InLine' = LineOf(q', fut') /\ Ahead' = AheadOf(q', fut')
  BY MappedNext
<1>3. \A t \in LineOf(q, fut) : t \in Task /\ fut[t] = "pending"
  BY DEF LineOf
<1>4. QED
  BY <1>1, <1>2, <1>3 DEF InOrder

(* ... such as joining the queue last ... *)
LEMMA OrderKeptByJoining ==
    ASSUME TypeOK, TypeOK', NEW t \in Task, t \notin ToSet(q), Extends(q', q, t),
           fut'[t] = "pending", \A u \in Task : u # t => fut'[u] = fut[u]
    PROVE  InOrder
<1>1. AheadOf(q', fut') = Behind(AheadOf(q, fut), t, LineOf(q, fut))
  <2>1. q \in Seq(Task)
    BY DEF TypeOK
  <2>2. QED
    BY <2>1, LineJoined
<1>2. t \notin LineOf(q, fut)
  BY DEF LineOf, ToSet
<1>3. \A u \in LineOf(q, fut) : AheadOf(q', fut')[u] = AheadOf(q, fut)[u]
  BY <1>1, <1>2 DEF Behind, AheadOf, LineOf
<1>4. \A u \in Task : fut[u] = "pending" => fut'[u] \notin Layer
  BY DEF Layer
<1>5. QED
  BY <1>3, <1>4, OrderKept

(* ... or leaving a Waiter behind in it. *)
LEMMA OrderKeptByLeaving ==
    ASSUME TypeOK, TypeOK', NEW t \in Task, UNCHANGED q,
           fut'[t] \notin Layer \cup {"pending"}, \A u \in Task : u # t => fut'[u] = fut[u]
    PROVE  InOrder
<1>1. AheadOf(q, fut') = Without(AheadOf(q, fut), t)
  BY LineLeft
<1>2. \A u \in LineOf(q, fut) : AheadOf(q', fut')[u] \subseteq AheadOf(q, fut)[u]
  BY <1>1 DEF Without, LineOf
<1>3. \A u \in Task : fut[u] = "pending" => fut'[u] \notin Layer
  BY DEF Layer
<1>4. QED
  BY <1>2, <1>3, OrderKept

(* Every step, whoever makes it and whether put() may suspend or not *)
LEMMA OrderStep ==
    Sound /\ EverybodyPlaced /\ TypeOK' /\ [AnyStep]_vars => [InOrder]_vars
<1> SUFFICES ASSUME Sound, EverybodyPlaced, TypeOK', AnyStep
             PROVE  InOrder
  OBVIOUS
<1>0. TypeOK /\ q \in Seq(Task) /\ \A i \in DOMAIN q : q[i] \in Task
  BY ElementOfSeq, LenProperties DEF Sound, TypeOK
<1>d. \A i, j \in DOMAIN q : q[i] = q[j] => i = j
  BY DEF EverybodyPlaced
<1>1. ASSUME UNCHANGED <<q, fut>>
      PROVE  InOrder
  <2>1. \A u \in Task : fut[u] = "pending" => fut'[u] \notin Layer
    BY <1>1 DEF Layer
  <2>2. LineOf(q', fut') = LineOf(q, fut) /\ AheadOf(q', fut') = AheadOf(q, fut)
    BY <1>1
  <2>3. QED
    BY <1>0, <2>1, <2>2, OrderKept
<1>2. ASSUME NEW t \in Task, TryDirectGate(t) \/ Refuse(t)
      PROVE  InOrder
  BY <1>1, <1>2 DEF TryDirectGate, Refuse, vars
<1>3. ASSUME NEW t \in Task, EnqueueWaiter(t)
      PROVE  InOrder
  <2>1. /\ t \notin ToSet(q) /\ Extends(q', q, t) /\ fut'[t] = "pending"
        /\ \A u \in Task : u # t => fut'[u] = fut[u]
    BY <1>0, <1>3 DEF EnqueueWaiter, CanCall, Extends, TypeOK
  <2>2. QED
    BY <1>0, <2>1, OrderKeptByJoining
<1>4. ASSUME NEW t \in Task, DropOldest(t)
      PROVE  InOrder
  <2>1. PICK k \in DOMAIN q :
            /\ FirstLive(k)
            /\ fut' = [fut EXCEPT ![q[k]] = "dropped", ![t] = "pending"]
            /\ q' = Append(SubSeq(q, k + 1, Len(q)), t)
    BY <1>4 DEF DropOldest
  <2>2. t \notin ToSet(q)
    BY <1>4 DEF DropOldest, CanCall
  <2>3. PICK h \in Task : h = q[k] /\ h # t
    BY <1>0, <2>2 DEF ToSet
  <2> DEFINE r == SubSeq(q, k + 1, Len(q))
             g == [fut EXCEPT ![h] = "dropped"]
  <2>4. k \in 0..Len(q) /\ r \in Seq(Task) /\ t \notin ToSet(r)
    <3>1. k \in 0..Len(q)
      BY <1>0, LenProperties
    <3>2. r \in Seq(Task) /\ ToSet(r) \subseteq ToSet(q)
      BY <1>0, <1>d, <3>1, DistinctRest
    <3>3. QED
      BY <2>2, <3>1, <3>2
  <2>5. fut[h] = "pending" /\ \A i \in 1..(k - 1) : fut[q[i]] # "pending"
    BY <2>1, <2>3 DEF FirstLive, Live
  <2>6. /\ g[h] # "pending" /\ \A u \in Task : u # h => g[u] = fut[u]
        /\ fut'[t] = "pending" /\ \A u \in Task : u # t => fut'[u] = g[u]
        /\ fut'[h] = "dropped"
    BY <1>0, <2>1, <2>3 DEF TypeOK
  <2> HIDE DEF g
  <2>7. AheadOf(r, g) = Without(AheadOf(q, fut), h) /\ LineOf(r, g) = LineOf(q, fut) \ {h}
    BY <1>0, <1>d, <2>3, <2>5, <2>6, LineServed
  <2>8. Extends(q', r, t)
    BY <2>1 DEF Extends
  <2> HIDE DEF r
  <2>9. AheadOf(q', fut') = Behind(AheadOf(r, g), t, LineOf(r, g))
    BY <2>4, <2>6, <2>8, LineJoined
  <2>10. t \notin LineOf(q, fut) /\ h \notin LineOf(q', fut')
    BY <2>2, <2>6 DEF LineOf, ToSet
  <2>11. \A u \in LineOf(q, fut) : u \in LineOf(q', fut') =>
            AheadOf(q', fut')[u] \subseteq AheadOf(q, fut)[u]
    <3>1. ASSUME NEW u \in LineOf(q, fut), u \in LineOf(q', fut')
          PROVE  AheadOf(q', fut')[u] = AheadOf(q, fut)[u] \ {h}
      <4>1. u \in Task /\ u # t /\ u # h
        BY <2>10, <3>1 DEF LineOf
      <4>2. AheadOf(q', fut')[u] = Without(AheadOf(q, fut), h)[u]
        BY <2>7, <2>9, <4>1 DEF Behind, Without
      <4>3. QED
        BY <4>1, <4>2 DEF Without
    <3>2. QED
      BY <3>1
  <2>12. \A u \in Task : fut[u] = "pending" => fut'[u] \notin Layer
    BY <2>6 DEF Layer
  <2>13. QED
    BY <1>0, <2>11, <2>12, OrderKept
<1>5. ASSUME NEW t \in Task, NoneLive, \A u \in Task : u # t => fut'[u] = fut[u]
      PROVE  InOrder
  <2>1. LineOf(q, fut) = {}
    BY <1>5 DEF NoneLive, Live, LineOf
  <2>2. InLine = {}
    BY <1>0, <2>1, MappedNow
  <2>3. QED
    BY <2>2 DEF InOrder
<1>6. ASSUME NEW t \in Task, DropOnlyDead(t)
      PROVE  InOrder
  <2>1. NoneLive /\ \A u \in Task : u # t => fut'[u] = fut[u]
    BY <1>0, <1>6 DEF DropOnlyDead, TypeOK
  <2>2. QED
    BY <1>5, <2>1
<1>7. ASSUME NEW t \in Task, BlockInPut(t)
      PROVE  InOrder
  <2>1. /\ UNCHANGED q /\ fut'[t] = "pending" /\ \A u \in Task : u # t => fut'[u] = fut[u]
        /\ \A i \in DOMAIN q : q[i] # t
    BY <1>0, <1>7 DEF BlockInPut, CanCall, ToSet, TypeOK
  <2>2. \A u \in LineOf(q, fut) : AheadOf(q', fut')[u] \subseteq AheadOf(q, fut)[u]
    BY <2>1 DEF LineOf, AheadOf, Before
  <2>3. \A u \in Task : fut[u] = "pending" => fut'[u] \notin Layer
    BY <2>1 DEF Layer
  <2>4. QED
    BY <1>0, <2>2, <2>3, OrderKept
<1>8. ASSUME NEW t \in Task, ResumePut(t)
      PROVE  InOrder
  <2>1. CASE Full
    BY <1>1, <1>8, <2>1 DEF ResumePut
  <2>2. CASE ~Full
    <3>1. phase[t] = "putting" /\ fut[t] = "pending"
      BY <1>8 DEF ResumePut, Sound, PuttersMatch, Live
    <3>2. /\ t \notin ToSet(q) /\ Extends(q', q, t) /\ fut'[t] = "pending"
          /\ \A u \in Task : u # t => fut'[u] = fut[u]
      BY <1>8, <2>2, <3>1 DEF ResumePut, Extends, EverybodyPlaced
    <3>3. QED
      BY <1>0, <3>2, OrderKeptByJoining
  <2>3. QED
    BY <2>1, <2>2
<1>9. ASSUME NEW t \in Task,
             CancelPut(t) \/ InheritOccupy(t) \/ RaiseDropped(t) \/ GiveUp(t)
      PROVE  InOrder
  <2>1. /\ UNCHANGED q /\ fut'[t] \notin Layer \cup {"pending"}
        /\ \A u \in Task : u # t => fut'[u] = fut[u]
    BY <1>0, <1>9 DEF CancelPut, InheritOccupy, RaiseDropped, GiveUp, TypeOK, Layer
  <2>2. QED
    BY <1>0, <2>1, OrderKeptByLeaving
<1>10. ASSUME NEW t \in Task, Release(t)
       PROVE  InOrder
  <2>1. ASSUME NEW k \in DOMAIN q, FirstLive(k), fut' = [fut EXCEPT ![q[k]] = holders[t]],
               q' = SubSeq(q, k + 1, Len(q))
        PROVE  InOrder
    <3>1. PICK h \in Task : h = q[k]
      BY <1>0
    <3>2. fut[h] = "pending" /\ \A i \in 1..(k - 1) : fut[q[i]] # "pending"
      BY <2>1, <3>1 DEF FirstLive, Live
    <3>3. fut'[h] \in Layer /\ fut'[h] # "pending" /\ \A u \in Task : u # h => fut'[u] = fut[u]
      BY <1>0, <1>10, <2>1, <3>1 DEF Release, TypeOK, Layer
    <3> DEFINE r == SubSeq(q, k + 1, Len(q))
    <3>4. /\ AheadOf(q, fut)[h] = {} /\ LineOf(r, fut') = LineOf(q, fut) \ {h}
          /\ AheadOf(r, fut') = Without(AheadOf(q, fut), h)
      <4>1. ASSUME NEW g, g[h] # "pending", \A u \in Task : u # h => g[u] = fut[u]
            PROVE  /\ AheadOf(q, fut)[h] = {} /\ LineOf(r, g) = LineOf(q, fut) \ {h}
                   /\ AheadOf(r, g) = Without(AheadOf(q, fut), h)
        BY <1>0, <1>d, <3>1, <3>2, <4>1, LineServed
      <4>2. QED
        BY <3>3, <4>1
    <3>5. q' = r
      BY <2>1
    <3> HIDE DEF r
    <3>6. /\ InLine = LineOf(q, fut) /\ Ahead[h] = {}
          /\ InLine' = InLine \ {h} /\ Ahead' = Without(Ahead, h)
      BY <1>0, <3>4, <3>5, MappedNow, MappedNext
    <3>7. ASSUME NEW u \in InLine, u # h
          PROVE  /\ Ahead'[u] \subseteq Ahead[u] /\ Ahead'[u] # Ahead[u]
                 /\ fut'[u] \notin Layer
      <4>1. u \in Task /\ fut[u] = "pending" /\ u \in LineOf(q, fut)
        BY <3>6 DEF LineOf
      <4>2. h \in AheadOf(q, fut)[u]
        BY <1>0, <3>1, <3>2, <3>7, <4>1, FirstAhead
      <4>3. h \in Ahead[u]
        BY <1>0, <4>2, MappedNow
      <4>4. Ahead'[u] = Ahead[u] \ {h}
        BY <3>6, <3>7, <4>1 DEF Without
      <4>5. fut'[u] \notin Layer
        BY <3>3, <3>7, <4>1 DEF Layer
      <4>6. QED
        BY <4>3, <4>4, <4>5
    <3>8. QED
      BY <3>6, <3>7 DEF InOrder
  <2>2. CASE NoneLive /\ UNCHANGED fut
    BY <1>5, <2>2
  <2>3. QED
    BY <1>10, <2>1, <2>2 DEF Release
<1>11. QED
  BY <1>2, <1>3, <1>4, <1>6, <1>7, <1>8, <1>9, <1>10 DEF AnyStep, Acquire, Wait

LEMMA OrderForAny == AnySpec => HandOversInOrder
<1>1. Init => Sound /\ EverybodyPlaced
  BY SoundInit, PlacedInit
<1>2. Sound /\ EverybodyPlaced /\ [AnyStep]_vars => Sound' /\ EverybodyPlaced'
  BY SoundStep, PlacedStep
<1>3. Sound' => TypeOK'
  BY DEF Sound
<1>4. Sound /\ EverybodyPlaced /\ [AnyStep]_vars => [InOrder]_vars
  BY <1>2, <1>3, OrderStep
<1>5. AnySpec => [][InOrder]_vars
  BY <1>1, <1>2, <1>4, PTL DEF AnySpec
<1>6. QED
  BY <1>5 DEF HandOversInOrder, InOrder

(* For every set of tasks, every capacity and every configuration, the blocking ones
   included: the queue keeps its order, and a slot that release() hands over goes to the
   first in it.  (A slot that is free may go to a newcomer.) *)
THEOREM HandOversAlwaysInOrder == Spec => HandOversInOrder
BY OrderForAny, SpecIsAny
-----------------------------------------------------------------------------
(* The handlers over the gate.  A task id may be down as the owner of a slot that its
   streamed response has lost, and be used again: CallersOwnNothing does not hold. *)

Flight == {"sending", "pausing", "reading", "responding"}

HandlerTypes ==
    /\ early \in BOOLEAN
    /\ kind \in [Task -> Kind \cup {"body", "none"}]
    /\ at \in [Task -> Flight \cup {"free", "acquiring", "streaming"}]
    /\ body \in [Task -> Task]
    /\ orphans \in 0..MaxOrphans
    /\ attempt \in [Task -> Nat] /\ refused \in [Task -> Nat]

Tries == \A t \in Task :
    /\ refused[t] <= attempt[t] /\ attempt[t] <= RetryTries
    /\ at[t] = "sending" => refused[t] < attempt[t]
    /\ at[t] = "pausing" => attempt[t] < RetryTries
    /\ at[t] \notin {"sending", "pausing"} => refused[t] = 0

(* Only a task that is acquiring stands in the gate, and the body of every response has a
   task of its own. *)
TasksApart ==
    /\ \A t \in Task : phase[t] # "idle" => at[t] = "acquiring"
    /\ \A t \in Task : at[t] = "responding" => at[body[t]] = "streaming"
    /\ \A t, u \in Task :
        at[t] = "responding" /\ at[u] = "responding" /\ body[t] = body[u] => t = u

HandlersKnown == \A t \in Task : at[t] \in Flight \cup {"acquiring"} => kind[t] \in Kind

SlotsOwned == ~early => \A t \in InFlight : holders[t] # "none"

EarlyOwnsNothing == early => \A t \in Task : holders[t] = "none" /\ fut[t] \notin Layer

HandlersInv ==
    /\ Sound
    /\ HandlerTypes
    /\ Tries
    /\ TasksApart
    /\ HandlersKnown
    /\ SlotsOwned
    /\ EarlyOwnsNothing
    /\ NoSlotFromNowhere

(* A handler's step is a step of the gate or none, and only a task that stands outside the
   gate releases. *)
CarefulStep == \E t \in Task : Acquire(t) \/ Wait(t) \/ (Release(t) /\ phase[t] = "idle")

LEMMA HandlersStepTheGate ==
    HandlerTypes /\ TasksApart /\ [GatewayNext]_allVars => CarefulStep \/ UNCHANGED vars
<1> SUFFICES ASSUME HandlerTypes, TasksApart, [GatewayNext]_allVars
             PROVE  CarefulStep \/ UNCHANGED vars
  OBVIOUS
<1>1. ASSUME NEW t \in Task, ReleaseIfHeld(t), phase[t] = "idle"
      PROVE  CarefulStep \/ UNCHANGED vars
  BY <1>1 DEF ReleaseIfHeld, ReleaseCall, CarefulStep
<1>2. ASSUME NEW t \in Task, NEW k \in Kind,
             AdmitDirectly(t, k) \/ PassGate(t, k) \/ Queue(t, k)
      PROVE  CarefulStep \/ UNCHANGED vars
  BY <1>2 DEF AdmitDirectly, PassGate, Queue, CarefulStep, Acquire
<1>3. ASSUME NEW t \in Task, AnswerBusy(t)
      PROVE  CarefulStep \/ UNCHANGED vars
  BY <1>3 DEF AnswerBusy, CarefulStep, Acquire
<1>4. ASSUME NEW t \in Task, KeepQueueing(t) \/ Admitted(t) \/ TurnedAway(t)
      PROVE  CarefulStep \/ UNCHANGED vars
  BY <1>4 DEF KeepQueueing, Admitted, TurnedAway, CarefulStep, Wait
<1>5. ASSUME NEW t \in Task, RetryStatus(t) \/ RetryException(t) \/ SendAgain(t)
                                \/ StartReading(t) \/ StartBody(t) \/ BodyCancelled(t)
      PROVE  UNCHANGED vars
  BY <1>5 DEF RetryStatus, RetryException, SendAgain, StartReading, StartBody, BodyCancelled
<1>6. ASSUME NEW t \in Task, SendFails(t) \/ ReadEnds(t) \/ HandlerCancelled(t)
      PROVE  CarefulStep \/ UNCHANGED vars
  <2>1. (ReleaseIfHeld(t) \/ UNCHANGED vars) /\ at[t] # "acquiring"
    BY <1>6 DEF SendFails, ReadEnds, HandlerCancelled, SendingIsOver
  <2>2. QED
    BY <1>1, <2>1 DEF TasksApart
<1>7. ASSUME NEW t \in Task, BodyEnds(t)
      PROVE  CarefulStep \/ UNCHANGED vars
  <2>1. ReleaseIfHeld(body[t]) /\ body[t] \in Task /\ at[body[t]] = "streaming"
    BY <1>7 DEF BodyEnds, TasksApart, HandlerTypes
  <2>2. QED
    BY <1>1, <2>1 DEF TasksApart
<1>8. ASSUME NEW t \in Task, CloseOrphan(t)
      PROVE  CarefulStep \/ UNCHANGED vars
  BY <1>1, <1>8 DEF CloseOrphan, Idle, CanCall
<1>9. CASE UNCHANGED allVars
  BY <1>9 DEF allVars
<1>10. QED
  BY <1>2, <1>3, <1>4, <1>5, <1>6, <1>7, <1>8, <1>9 DEF GatewayNext

LEMMA CarefulIsAny == CarefulStep \/ UNCHANGED vars => [AnyStep]_vars
BY DEF CarefulStep, AnyStep

(* Slots, when an id may own one and acquire another: what is overwritten is lost, and
   nothing comes into being. *)
LEMMA FewerOwners ==
    ASSUME Sound, NoSlotFromNowhere, NEW l \in Layer,
           ticket'[l] = ticket[l], Owners(l)' \subseteq Owners(l)
    PROVE  ticket'[l] + Cardinality(Owners(l)') <= Cap[l]
<1>1. IsFiniteSet(Owners(l)) /\ Cardinality(Owners(l)) \in Nat
  BY FiniteOwners, FS_CardinalityType
<1>2. Cardinality(Owners(l)') \in Nat /\ Cardinality(Owners(l)') <= Cardinality(Owners(l))
  BY <1>1, FS_Subset, FS_CardinalityType
<1>3. ticket[l] \in Nat /\ Cap[l] \in Nat /\ ticket[l] + Cardinality(Owners(l)) <= Cap[l]
  BY GateAssumption DEF Sound, TypeOK, NoSlotFromNowhere
<1>4. QED
  BY <1>1, <1>2, <1>3

(* A hand-over: u takes the place of t. *)
LEMMA OwnerReplaced ==
    ASSUME Sound, NoSlotFromNowhere, NEW l \in Layer, NEW t \in Owners(l), NEW u,
           ticket'[l] = ticket[l], Owners(l)' \subseteq (Owners(l) \ {t}) \cup {u}
    PROVE  ticket'[l] + Cardinality(Owners(l)') <= Cap[l]
<1> DEFINE rest == Owners(l) \ {t}
<1>1. /\ IsFiniteSet(Owners(l)) /\ Cardinality(Owners(l)) \in Nat
      /\ IsFiniteSet(rest) /\ Cardinality(rest) = Cardinality(Owners(l)) - 1
  BY FiniteOwners, FS_CardinalityType, FS_RemoveElement
<1> HIDE DEF rest
<1>2. /\ IsFiniteSet(rest \cup {u})
      /\ Cardinality(rest \cup {u}) = IF u \in rest THEN Cardinality(rest)
                                                   ELSE Cardinality(rest) + 1
  BY <1>1, FS_AddElement
<1>3. /\ Cardinality(Owners(l)') \in Nat
      /\ Cardinality(Owners(l)') <= Cardinality(rest \cup {u})
  BY <1>2, FS_Subset, FS_CardinalityType DEF rest
<1>4. ticket[l] \in Nat /\ Cap[l] \in Nat /\ ticket[l] + Cardinality(Owners(l)) <= Cap[l]
  BY GateAssumption DEF Sound, TypeOK, NoSlotFromNowhere
<1>5. QED
  BY <1>1, <1>2, <1>3, <1>4

LEMMA SlotsStep ==
    Sound /\ NoSlotFromNowhere /\ (CarefulStep \/ UNCHANGED vars) => NoSlotFromNowhere'
<1> SUFFICES ASSUME Sound, NoSlotFromNowhere, CarefulStep \/ UNCHANGED vars, NEW l \in Layer
             PROVE  ticket'[l] + Cardinality(Owners(l)') <= Cap[l]
  BY DEF NoSlotFromNowhere
<1> DEFINE Goal == ticket'[l] + Cardinality(Owners(l)') <= Cap[l]
<1> USE DEF Sound
<1>q. \A i \in DOMAIN q : q[i] \in Task
  BY ElementOfSeq, LenProperties DEF TypeOK
<1>1. ASSUME NEW t \in Task, TryDirectGate(t)
      PROVE  Goal
  <2>1. PICK m \in Layer :
          /\ ticket[m] > 0
          /\ ticket' = [ticket EXCEPT ![m] = @ - 1]
          /\ holders' = [holders EXCEPT ![t] = m]
    BY <1>1 DEF TryDirectGate
  <2>2. UNCHANGED <<fut, phase>>
    BY <1>1 DEF TryDirectGate
  <2>3. CASE l = m
    <3>1. Owners(l)' \subseteq Owners(l) \cup {t}
      BY <2>1, <2>2, <2>3 DEF Owners, TypeOK
    <3>2. /\ IsFiniteSet(Owners(l)) /\ Cardinality(Owners(l)) \in Nat
          /\ IsFiniteSet(Owners(l) \cup {t})
          /\ \/ Cardinality(Owners(l) \cup {t}) = Cardinality(Owners(l))
             \/ Cardinality(Owners(l) \cup {t}) = Cardinality(Owners(l)) + 1
      BY FiniteOwners, FS_CardinalityType, FS_AddElement
    <3>3. /\ Cardinality(Owners(l)') \in Nat
          /\ Cardinality(Owners(l)') <= Cardinality(Owners(l) \cup {t})
      BY <3>1, <3>2, FS_Subset, FS_CardinalityType
    <3>4. ticket[l] \in Nat /\ ticket'[l] = ticket[l] - 1 /\ Cap[l] \in Nat
          /\ ticket[l] + Cardinality(Owners(l)) <= Cap[l]
      BY <2>1, <2>3, GateAssumption DEF TypeOK, NoSlotFromNowhere
    <3>5. QED
      BY <3>2, <3>3, <3>4
  <2>4. CASE l # m
    <3>1. ticket'[l] = ticket[l] /\ Owners(l)' \subseteq Owners(l)
      BY <2>1, <2>2, <2>4 DEF Owners, TypeOK
    <3>2. QED
      BY <3>1, FewerOwners
  <2>5. QED
    BY <2>3, <2>4
<1>2. ASSUME NEW t \in Task, Refuse(t) \/ EnqueueWaiter(t) \/ DropOnlyDead(t) \/ BlockInPut(t)
      PROVE  Goal
  <2>1. ticket' = ticket /\ holders' = holders
    BY <1>2 DEF Refuse, EnqueueWaiter, DropOnlyDead, BlockInPut, vars
  <2>2. /\ fut'[t] = "pending" \/ (fut'[t] = fut[t] /\ phase'[t] = phase[t])
        /\ \A u \in Task : u # t => fut'[u] = fut[u] /\ phase'[u] = phase[u]
    BY <1>2 DEF Refuse, EnqueueWaiter, DropOnlyDead, BlockInPut, vars, TypeOK
  <2>3. Owners(l)' \subseteq Owners(l)
    BY <2>1, <2>2 DEF Owners, Layer
  <2>4. QED
    BY <2>1, <2>3, FewerOwners
<1>3. ASSUME NEW t \in Task, DropOldest(t)
      PROVE  Goal
  <2>1. PICK k \in DOMAIN q : fut' = [fut EXCEPT ![q[k]] = "dropped", ![t] = "pending"]
    BY <1>3 DEF DropOldest
  <2>2. /\ ticket' = ticket /\ holders' = holders
        /\ phase' = [phase EXCEPT ![t] = "waiting"]
    BY <1>3 DEF DropOldest
  <2>3. fut'[t] = "pending"
        /\ \A u \in Task : u # t => fut'[u] \in {fut[u], "dropped"} /\ phase'[u] = phase[u]
    BY <1>q, <2>1, <2>2 DEF TypeOK
  <2>4. Owners(l)' \subseteq Owners(l)
    BY <2>2, <2>3 DEF Owners, Layer
  <2>5. QED
    BY <2>2, <2>4, FewerOwners
<1>4. ASSUME NEW t \in Task, ResumePut(t)
      PROVE  Goal
  <2>1. fut[t] = "pending" /\ UNCHANGED <<ticket, holders, fut>>
    BY <1>4 DEF ResumePut, PuttersMatch, Live
  <2>2. \A u \in Task : u # t => phase'[u] = phase[u]
    BY <1>4 DEF ResumePut, TypeOK
  <2>3. Owners(l)' \subseteq Owners(l)
    BY <2>1, <2>2 DEF Owners, Layer
  <2>4. QED
    BY <2>1, <2>3, FewerOwners
<1>5. ASSUME NEW t \in Task, CancelPut(t) \/ RaiseDropped(t) \/ GiveUp(t)
      PROVE  Goal
  <2>1. /\ UNCHANGED <<ticket, holders>> /\ phase'[t] = "idle"
        /\ \A u \in Task : u # t => fut'[u] = fut[u] /\ phase'[u] = phase[u]
    BY <1>5 DEF CancelPut, RaiseDropped, GiveUp, TypeOK
  <2>2. Owners(l)' \subseteq Owners(l)
    BY <2>1 DEF Owners
  <2>3. QED
    BY <2>1, <2>2, FewerOwners
<1>6. ASSUME NEW t \in Task, InheritOccupy(t)
      PROVE  Goal
  <2>1. /\ UNCHANGED ticket /\ phase[t] = "waiting" /\ phase'[t] = "idle"
        /\ holders'[t] = fut[t]
        /\ \A u \in Task : u # t => /\ holders'[u] = holders[u]
                                    /\ fut'[u] = fut[u] /\ phase'[u] = phase[u]
    BY <1>6 DEF InheritOccupy, TypeOK
  <2>2. Owners(l)' \subseteq Owners(l)
    BY <2>1 DEF Owners
  <2>3. QED
    BY <2>1, <2>2, FewerOwners
<1>7. ASSUME NEW t \in Task, Release(t), phase[t] = "idle"
      PROVE  Goal
  <2> DEFINE m == holders[t]
  <2>1. /\ m \in Layer /\ t \in Owners(m)
        /\ holders' = [holders EXCEPT ![t] = "none"] /\ UNCHANGED phase
    BY <1>7 DEF Release, TypeOK, Owners
  <2> HIDE DEF m
  <2>2. CASE \E k \in DOMAIN q :
                fut' = [fut EXCEPT ![q[k]] = m] /\ UNCHANGED ticket
    <3>1. PICK k \in DOMAIN q : fut' = [fut EXCEPT ![q[k]] = m] /\ UNCHANGED ticket
      BY <2>2
    <3>2. CASE l = m
      <4>1. Owners(l)' \subseteq (Owners(l) \ {t}) \cup {q[k]}
        BY <1>7, <2>1, <3>1, <3>2 DEF Owners, TypeOK, Layer
      <4>2. QED
        BY <2>1, <3>1, <3>2, <4>1, OwnerReplaced
    <3>3. CASE l # m
      <4>1. Owners(l)' \subseteq Owners(l)
        BY <1>q, <2>1, <3>1, <3>3 DEF Owners, TypeOK, Layer
      <4>2. QED
        BY <3>1, <4>1, FewerOwners
    <3>4. QED
      BY <3>2, <3>3
  <2>3. CASE ticket' = [ticket EXCEPT ![m] = @ + 1] /\ UNCHANGED fut
    <3>1. CASE l = m
      <4>1. Owners(l)' \subseteq Owners(l) \ {t}
        BY <1>7, <2>1, <2>3 DEF Owners, TypeOK, Layer
      <4>2. /\ IsFiniteSet(Owners(l)) /\ Cardinality(Owners(l)) \in Nat
            /\ IsFiniteSet(Owners(l) \ {t})
            /\ Cardinality(Owners(l) \ {t}) = Cardinality(Owners(l)) - 1
        BY <2>1, <3>1, FiniteOwners, FS_CardinalityType, FS_RemoveElement
      <4>3. /\ Cardinality(Owners(l)') \in Nat
            /\ Cardinality(Owners(l)') <= Cardinality(Owners(l) \ {t})
        BY <4>1, <4>2, FS_Subset, FS_CardinalityType
      <4>4. ticket[l] \in Nat /\ ticket'[l] = ticket[l] + 1 /\ Cap[l] \in Nat
            /\ ticket[l] + Cardinality(Owners(l)) <= Cap[l]
        BY <2>3, <3>1, GateAssumption DEF TypeOK, NoSlotFromNowhere
      <4>5. QED
        BY <4>2, <4>3, <4>4
    <3>2. CASE l # m
      <4>1. ticket'[l] = ticket[l] /\ Owners(l)' \subseteq Owners(l)
        BY <2>1, <2>3, <3>2 DEF Owners, TypeOK, Layer
      <4>2. QED
        BY <4>1, FewerOwners
    <3>3. QED
      BY <3>1, <3>2
  <2>4. QED
    BY <1>7, <2>2, <2>3 DEF Release, m
<1>8. CASE UNCHANGED vars
  <2>1. ticket'[l] = ticket[l] /\ Owners(l)' \subseteq Owners(l)
    BY <1>8 DEF vars, Owners
  <2>2. QED
    BY <2>1, FewerOwners
<1>9. QED
  BY <1>1, <1>2, <1>3, <1>4, <1>5, <1>6, <1>7, <1>8 DEF CarefulStep, Acquire, Wait
(* What a handler's step does to its own variables, one lemma for each part of
   HandlersInv. *)
LEMMA HandlerTypesStep ==
    HandlerTypes /\ [GatewayNext]_allVars => HandlerTypes'
<1> SUFFICES ASSUME HandlerTypes, [GatewayNext]_allVars
             PROVE  HandlerTypes'
  OBVIOUS
<1> USE DEF HandlerTypes, Flight, MoveTo, End
<1>r. RetryTries \in Nat \ {0} /\ MaxOrphans \in Nat
  BY GatewayAssumption
<1>1. ASSUME NEW t \in Task, NEW k \in Kind \cup {"body", "none"}, StartSending(t, k),
             UNCHANGED <<early, body, orphans>>
      PROVE  HandlerTypes'
  BY <1>1 DEF StartSending
<1>2. ASSUME NEW t \in Task, NEW k \in Kind,
             AdmitDirectly(t, k) \/ PassGate(t, k)
      PROVE  HandlerTypes'
  BY <1>1, <1>2 DEF AdmitDirectly, PassGate
<1>3. ASSUME NEW t \in Task, NEW k \in Kind, Queue(t, k)
      PROVE  HandlerTypes'
  BY <1>3 DEF Queue, sends
<1>4. ASSUME NEW t \in Task, AnswerBusy(t) \/ KeepQueueing(t)
      PROVE  HandlerTypes'
  BY <1>4 DEF AnswerBusy, KeepQueueing, gateway, sends
<1>5. ASSUME NEW t \in Task, Admitted(t)
      PROVE  HandlerTypes'
  BY <1>1, <1>5 DEF Admitted
<1>6. ASSUME NEW t \in Task, TurnedAway(t) \/ ReadEnds(t)
      PROVE  HandlerTypes'
  BY <1>6 DEF TurnedAway, ReadEnds, sends
<1>7. ASSUME NEW t \in Task, RetryStatus(t) \/ RetryException(t) \/ SendAgain(t)
      PROVE  HandlerTypes'
  BY <1>7 DEF RetryStatus, RetryException, SendAgain, sends
<1>8. ASSUME NEW t \in Task, SendFails(t) \/ StartReading(t) \/ HandlerCancelled(t)
      PROVE  HandlerTypes'
  BY <1>8 DEF SendFails, StartReading, HandlerCancelled, SendingIsOver
<1>9. ASSUME NEW t \in Task, StartBody(t)
      PROVE  HandlerTypes'
  BY <1>9 DEF StartBody, SendingIsOver
<1>10. ASSUME NEW t \in Task, BodyEnds(t) \/ BodyCancelled(t)
       PROVE  HandlerTypes'
  BY <1>r, <1>10 DEF BodyEnds, BodyCancelled, EndBoth, sends
<1>11. ASSUME NEW t \in Task, CloseOrphan(t)
       PROVE  HandlerTypes'
  BY <1>r, <1>11 DEF CloseOrphan, sends
<1>12. CASE UNCHANGED allVars
  BY <1>12 DEF allVars, gateway, sends
<1>13. QED
  BY <1>2, <1>3, <1>4, <1>5, <1>6, <1>7, <1>8, <1>9, <1>10, <1>11, <1>12 DEF GatewayNext

LEMMA TriesStep ==
    HandlerTypes /\ Tries /\ TasksApart /\ [GatewayNext]_allVars => Tries'
<1> SUFFICES ASSUME HandlerTypes, Tries, TasksApart, [GatewayNext]_allVars
             PROVE  Tries'
  OBVIOUS
<1> USE DEF HandlerTypes, Tries, MoveTo, End
<1>r. RetryTries \in Nat \ {0}
  BY GatewayAssumption
<1>1. ASSUME NEW t \in Task, NEW k, StartSending(t, k), at[t] \in {"free", "acquiring"}
      PROVE  Tries'
  BY <1>1, <1>r DEF StartSending
<1>2. ASSUME NEW t \in Task, NEW k \in Kind,
             AdmitDirectly(t, k) \/ PassGate(t, k)
      PROVE  Tries'
  BY <1>1, <1>2 DEF AdmitDirectly, PassGate, Idle
<1>3. ASSUME NEW t \in Task, NEW k \in Kind, Queue(t, k)
      PROVE  Tries'
  BY <1>3 DEF Queue, sends, Idle
<1>4. ASSUME NEW t \in Task, AnswerBusy(t) \/ KeepQueueing(t)
      PROVE  Tries'
  BY <1>4 DEF AnswerBusy, KeepQueueing, gateway, sends
<1>5. ASSUME NEW t \in Task, Admitted(t)
      PROVE  Tries'
  BY <1>1, <1>5 DEF Admitted, InheritOccupy, TasksApart
<1>6. ASSUME NEW t \in Task, TurnedAway(t)
      PROVE  Tries'
  <2>1. at[t] = "acquiring"
    BY <1>6 DEF TurnedAway, GiveUp, RaiseDropped, TasksApart
  <2>2. QED
    BY <1>6, <2>1 DEF TurnedAway, sends
<1>7. ASSUME NEW t \in Task, ReadEnds(t)
      PROVE  Tries'
  BY <1>7 DEF ReadEnds, sends
<1>8. ASSUME NEW t \in Task, RetryStatus(t)
      PROVE  Tries'
  BY <1>8, <1>r DEF RetryStatus, ShouldRetryStatus
<1>9. ASSUME NEW t \in Task, RetryException(t)
      PROVE  Tries'
  BY <1>9, <1>r DEF RetryException, sends
<1>10. ASSUME NEW t \in Task, SendAgain(t)
       PROVE  Tries'
  BY <1>10, <1>r DEF SendAgain
<1>11. ASSUME NEW t \in Task, SendFails(t) \/ StartReading(t) \/ HandlerCancelled(t)
       PROVE  Tries'
  BY <1>11, <1>r DEF SendFails, StartReading, HandlerCancelled, SendingIsOver
<1>12. ASSUME NEW t \in Task, StartBody(t)
       PROVE  Tries'
  <2>1. PICK c \in Task \ {t} :
            Idle(c) /\ at' = [at EXCEPT ![t] = "responding", ![c] = "streaming"]
    BY <1>12 DEF StartBody
  <2>2. QED
    BY <1>12, <1>r, <2>1 DEF StartBody, SendingIsOver, Idle
<1>13. ASSUME NEW t \in Task, BodyEnds(t) \/ BodyCancelled(t)
       PROVE  Tries'
  <2>1. at[t] = "responding" /\ at[body[t]] = "streaming" /\ body[t] \in Task
    BY <1>13 DEF BodyEnds, BodyCancelled, TasksApart
  <2>2. UNCHANGED <<attempt, refused>>
        /\ \A u \in Task : u # t /\ u # body[t] => at'[u] = at[u]
    BY <1>13 DEF BodyEnds, BodyCancelled, EndBoth, sends
  <2>3. refused[t] = 0 /\ refused[body[t]] = 0
        /\ at'[t] = "free" /\ at'[body[t]] = "free"
    BY <1>13, <2>1 DEF BodyEnds, BodyCancelled, EndBoth
  <2>4. QED
    BY <2>2, <2>3
<1>14. ASSUME NEW t \in Task, CloseOrphan(t)
       PROVE  Tries'
  BY <1>14 DEF CloseOrphan, sends
<1>15. CASE UNCHANGED allVars
  BY <1>15 DEF allVars, gateway, sends
<1>16. QED
  BY <1>2, <1>3, <1>4, <1>5, <1>6, <1>7, <1>8, <1>9, <1>10, <1>11, <1>12, <1>13, <1>14, <1>15
  DEF GatewayNext
(* release() leaves every task where it stands, and takes the slot of one id at most. *)
LEMMA ReleaseIfHeldEffect ==
    ASSUME HandlerTypes, TypeOK, NEW t \in Task, ReleaseIfHeld(t)
    PROVE  /\ UNCHANGED phase
           /\ \A u \in Task : u # t => holders'[u] = holders[u]
           /\ ~early => holders'[t] = "none"
           /\ early => UNCHANGED vars
<1>1. CASE early \/ holders[t] = "none"
  BY <1>1 DEF ReleaseIfHeld, ReleaseCall, vars
<1>2. CASE ~(early \/ holders[t] = "none")
  BY <1>2 DEF ReleaseIfHeld, ReleaseCall, Release, TypeOK
<1>3. QED
  BY <1>1, <1>2

(* Where the tasks stand in the gate after a call or a wait of task t's. *)
LEMMA OthersStand ==
    ASSUME TypeOK, NEW t \in Task, Acquire(t) \/ Wait(t)
    PROVE  \A u \in Task : u # t => phase'[u] = phase[u] /\ holders'[u] = holders[u]
<1>1. CASE Acquire(t)
  BY <1>1 DEF Acquire, TryDirectGate, Refuse, EnqueueWaiter, DropOldest, DropOnlyDead,
              BlockInPut, vars, TypeOK
<1>2. CASE Wait(t)
  BY <1>2 DEF Wait, ResumePut, CancelPut, InheritOccupy, RaiseDropped, GiveUp, TypeOK
<1>3. QED
  BY <1>1, <1>2

LEMMA ApartStep ==
    Sound /\ HandlerTypes /\ TasksApart /\ [GatewayNext]_allVars => TasksApart'
<1> SUFFICES ASSUME Sound, HandlerTypes, TasksApart, [GatewayNext]_allVars
             PROVE  TasksApart'
  OBVIOUS
<1> USE DEF HandlerTypes, TasksApart, MoveTo, End
<1>t. TypeOK
  BY DEF Sound
<1>1. ASSUME NEW t \in Task, NEW s, at' = [at EXCEPT ![t] = s], UNCHANGED body,
             s # "streaming", at[t] # "streaming", at[t] = "responding" \/ s # "responding",
             \A u \in Task : u # t => phase'[u] = phase[u],
             phase'[t] # "idle" => s = "acquiring"
      PROVE  TasksApart'
  BY <1>1
<1>2. ASSUME NEW t \in Task, NEW k \in Kind, AdmitDirectly(t, k) \/ PassGate(t, k)
      PROVE  TasksApart'
  <2>1. /\ at[t] = "free" /\ phase[t] = "idle" /\ UNCHANGED <<phase, body>>
        /\ at' = [at EXCEPT ![t] = "sending"]
    BY <1>2 DEF AdmitDirectly, PassGate, StartSending, Idle, CanCall, TryDirectGate, vars
  <2>2. QED
    BY <1>1, <2>1
<1>3. ASSUME NEW t \in Task, NEW k \in Kind, Queue(t, k)
      PROVE  TasksApart'
  <2>1. /\ at[t] = "free" /\ UNCHANGED body /\ at' = [at EXCEPT ![t] = "acquiring"]
    BY <1>3 DEF Queue, Idle
  <2>2. \A u \in Task : u # t => phase'[u] = phase[u]
    BY <1>3, <1>t, OthersStand DEF Queue, Acquire
  <2>3. QED
    BY <1>1, <2>1, <2>2
<1>4. ASSUME NEW t \in Task, AnswerBusy(t)
      PROVE  TasksApart'
  <2>1. UNCHANGED <<at, body>> /\ phase[t] = "idle" /\ phase'[t] = "idle"
    BY <1>4 DEF AnswerBusy, gateway, Idle, CanCall, Refuse, vars
  <2>2. \A u \in Task : u # t => phase'[u] = phase[u]
    BY <1>4, <1>t, OthersStand DEF AnswerBusy, Acquire
  <2>3. QED
    BY <2>1, <2>2
<1>5. ASSUME NEW t \in Task, KeepQueueing(t)
      PROVE  TasksApart'
  <2>1. phase[t] = "putting" /\ UNCHANGED <<at, body>>
    BY <1>5 DEF KeepQueueing, ResumePut, Sound, PuttersMatch, gateway
  <2>2. \A u \in Task : u # t => phase'[u] = phase[u]
    BY <1>5, <1>t, OthersStand DEF KeepQueueing, Wait
  <2>3. QED
    BY <2>1, <2>2
<1>6. ASSUME NEW t \in Task, Admitted(t)
      PROVE  TasksApart'
  <2>1. /\ phase[t] = "waiting" /\ phase'[t] = "idle" /\ UNCHANGED body
        /\ at' = [at EXCEPT ![t] = "sending"]
    BY <1>6, <1>t DEF Admitted, InheritOccupy, StartSending, TypeOK
  <2>2. \A u \in Task : u # t => phase'[u] = phase[u]
    BY <1>6, <1>t, OthersStand DEF Admitted, Wait
  <2>3. QED
    BY <1>1, <2>1, <2>2
<1>7. ASSUME NEW t \in Task, TurnedAway(t)
      PROVE  TasksApart'
  <2>10. UNCHANGED body /\ at' = [at EXCEPT ![t] = "free"]
    BY <1>7 DEF TurnedAway
  <2>11. phase[t] = "waiting" /\ phase' = [phase EXCEPT ![t] = "idle"]
    BY <1>7 DEF TurnedAway, GiveUp, RaiseDropped
  <2>1. /\ phase[t] = "waiting" /\ phase'[t] = "idle" /\ UNCHANGED body
        /\ at' = [at EXCEPT ![t] = "free"]
    BY <1>t, <2>10, <2>11 DEF TypeOK
  <2>2. \A u \in Task : u # t => phase'[u] = phase[u]
    BY <1>7, <1>t, OthersStand DEF TurnedAway, Wait
  <2>3. QED
    BY <1>1, <2>1, <2>2
<1>8. ASSUME NEW t \in Task, RetryStatus(t) \/ RetryException(t) \/ SendAgain(t) \/ StartReading(t)
      PROVE  TasksApart'
  <2>1. PICK s \in {"sending", "pausing", "reading"} : at' = [at EXCEPT ![t] = s]
    BY <1>8 DEF RetryStatus, RetryException, SendAgain, StartReading
  <2>2. at[t] \in {"sending", "pausing"} /\ UNCHANGED <<phase, body>>
    BY <1>8 DEF RetryStatus, RetryException, SendAgain, StartReading, SendingIsOver, vars
  <2>3. QED
    BY <1>1, <2>1, <2>2
<1>9. ASSUME NEW t \in Task, SendFails(t) \/ ReadEnds(t) \/ HandlerCancelled(t)
      PROVE  TasksApart'
  <2>1. /\ at[t] \in {"sending", "pausing", "reading"} /\ UNCHANGED body
        /\ ReleaseIfHeld(t) \/ UNCHANGED vars
        /\ at' = [at EXCEPT ![t] = "free"]
    BY <1>9 DEF SendFails, ReadEnds, HandlerCancelled, SendingIsOver
  <2>2. UNCHANGED phase
    BY <1>t, <2>1, ReleaseIfHeldEffect DEF vars
  <2>3. QED
    BY <1>1, <2>1, <2>2
<1>10. ASSUME NEW t \in Task, StartBody(t)
       PROVE  TasksApart'
  <2>1. PICK c \in Task \ {t} :
            /\ Idle(c)
            /\ at' = [at EXCEPT ![t] = "responding", ![c] = "streaming"]
            /\ body' = [body EXCEPT ![t] = c]
    BY <1>10 DEF StartBody
  <2>2. at[t] = "sending" /\ at[c] = "free" /\ UNCHANGED phase
    BY <1>10, <2>1 DEF StartBody, SendingIsOver, Idle, vars
  <2>3. /\ at'[t] = "responding" /\ at'[c] = "streaming" /\ body'[t] = c
        /\ \A u \in Task : u # t => body'[u] = body[u] /\ (u # c => at'[u] = at[u])
    BY <2>1
  <2>4. ASSUME NEW u \in Task, at'[u] = "responding", u # t
        PROVE  at[u] = "responding" /\ body'[u] = body[u] /\ body[u] # c /\ body[u] # t
    BY <2>2, <2>3, <2>4
  <2>5. QED
    BY <2>2, <2>3, <2>4
<1>11. ASSUME NEW t \in Task, BodyEnds(t) \/ BodyCancelled(t)
       PROVE  TasksApart'
  <2>1. at[t] = "responding" /\ at[body[t]] = "streaming" /\ body[t] \in Task
    BY <1>11 DEF BodyEnds, BodyCancelled
  <2>2. UNCHANGED phase
    BY <1>11, <1>t, <2>1, ReleaseIfHeldEffect DEF BodyEnds, BodyCancelled, vars
  <2>3. /\ at'[t] = "free" /\ at'[body[t]] = "free"
        /\ \A u \in Task : u # t => body'[u] = body[u] /\ (u # body[t] => at'[u] = at[u])
    BY <1>11, <2>1 DEF BodyEnds, BodyCancelled, EndBoth
  <2>4. ASSUME NEW u \in Task, at'[u] = "responding"
        PROVE  u # t /\ at[u] = "responding" /\ body'[u] = body[u]
               /\ at'[body[u]] = "streaming"
    BY <2>1, <2>3, <2>4
  <2>5. QED
    BY <2>1, <2>2, <2>3, <2>4
<1>12. ASSUME NEW t \in Task, CloseOrphan(t)
       PROVE  TasksApart'
  <2>1. ReleaseIfHeld(t) /\ UNCHANGED <<at, body>>
    BY <1>12 DEF CloseOrphan
  <2>2. UNCHANGED phase
    BY <1>t, <2>1, ReleaseIfHeldEffect
  <2>3. QED
    BY <2>1, <2>2
<1>13. CASE UNCHANGED allVars
  BY <1>13 DEF allVars, gateway, vars
<1>14. QED
  BY <1>2, <1>3, <1>4, <1>5, <1>6, <1>7, <1>8, <1>9, <1>10, <1>11, <1>12, <1>13
  DEF GatewayNext
(* A worker keeps the GATE_EARLY_RELEASE it was started with. *)
LEMMA EarlyKept == [GatewayNext]_allVars => early' = early
<1> SUFFICES ASSUME [GatewayNext]_allVars
             PROVE  early' = early
  OBVIOUS
<1>1. ASSUME NEW t \in Task, NEW k \in Kind,
             AdmitDirectly(t, k) \/ PassGate(t, k) \/ Queue(t, k)
      PROVE  early' = early
  BY <1>1 DEF AdmitDirectly, PassGate, Queue
<1>2. ASSUME NEW t \in Task, AnswerBusy(t) \/ KeepQueueing(t) \/ Admitted(t) \/ TurnedAway(t)
      PROVE  early' = early
  BY <1>2 DEF AnswerBusy, KeepQueueing, Admitted, TurnedAway, gateway
<1>3. ASSUME NEW t \in Task, RetryStatus(t) \/ RetryException(t) \/ SendAgain(t)
                                \/ SendFails(t) \/ StartReading(t) \/ ReadEnds(t)
                                \/ HandlerCancelled(t)
      PROVE  early' = early
  BY <1>3 DEF RetryStatus, RetryException, SendAgain, SendFails, StartReading, ReadEnds,
              HandlerCancelled
<1>4. ASSUME NEW t \in Task, StartBody(t) \/ BodyEnds(t) \/ BodyCancelled(t) \/ CloseOrphan(t)
      PROVE  early' = early
  BY <1>4 DEF StartBody, BodyEnds, BodyCancelled, CloseOrphan
<1>5. CASE UNCHANGED allVars
  BY <1>5 DEF allVars, gateway
<1>6. QED
  BY <1>1, <1>2, <1>3, <1>4, <1>5 DEF GatewayNext

LEMMA OwnedStep ==
    /\ Sound /\ HandlerTypes /\ TasksApart /\ SlotsOwned /\ [GatewayNext]_allVars
    => SlotsOwned'
<1> SUFFICES ASSUME Sound, HandlerTypes, TasksApart, SlotsOwned, [GatewayNext]_allVars
             PROVE  SlotsOwned'
  OBVIOUS
<1> USE DEF HandlerTypes, MoveTo, End
<1>t. TypeOK
  BY DEF Sound
<1>e. \A t \in Task : ~early /\ at[t] \in Flight => holders[t] # "none"
  BY DEF SlotsOwned, InFlight, Flight
<1>s. SUFFICES ASSUME NEW u \in Task, ~early, early' = early, at'[u] \in Flight
               PROVE  holders'[u] # "none"
  <2>1. early' = early
    BY EarlyKept
  <2>2. QED
    BY <1>s, <2>1 DEF SlotsOwned, InFlight, Flight
<1>n. "none" \notin Layer
  BY DEF Layer
<1>1. ASSUME NEW t \in Task, NEW k \in Kind, AdmitDirectly(t, k)
      PROVE  holders'[u] # "none"
  <2>1. (\E l \in Layer : holders' = [holders EXCEPT ![t] = l])
        /\ at' = [at EXCEPT ![t] = "sending"]
    BY <1>1 DEF AdmitDirectly, TryDirectGate, StartSending
  <2>2. QED
    BY <1>e, <1>n, <1>s, <1>t, <2>1 DEF TypeOK
<1>2. ASSUME NEW t \in Task, NEW k \in Kind, PassGate(t, k)
      PROVE  holders'[u] # "none"
  BY <1>2, <1>s DEF PassGate
<1>3. ASSUME NEW t \in Task, NEW k \in Kind, Queue(t, k)
      PROVE  holders'[u] # "none"
  <2>1. at' = [at EXCEPT ![t] = "acquiring"]
    BY <1>3 DEF Queue
  <2>2. UNCHANGED holders
    BY <1>3 DEF Queue, EnqueueWaiter, DropOldest, DropOnlyDead, BlockInPut
  <2>3. QED
    BY <1>e, <1>s, <2>1, <2>2 DEF Flight
<1>4. ASSUME NEW t \in Task, AnswerBusy(t) \/ KeepQueueing(t)
      PROVE  holders'[u] # "none"
  <2>1. UNCHANGED at
    BY <1>4 DEF AnswerBusy, KeepQueueing, gateway
  <2>2. UNCHANGED holders
    BY <1>4 DEF AnswerBusy, KeepQueueing, Refuse, DropOnlyDead, ResumePut, vars
  <2>3. QED
    BY <1>e, <1>s, <2>1, <2>2
<1>5. ASSUME NEW t \in Task, Admitted(t)
      PROVE  holders'[u] # "none"
  <2>1. /\ fut[t] \in Layer /\ holders' = [holders EXCEPT ![t] = fut[t]]
        /\ at' = [at EXCEPT ![t] = "sending"]
    BY <1>5 DEF Admitted, InheritOccupy, StartSending
  <2>2. QED
    BY <1>e, <1>n, <1>s, <1>t, <2>1 DEF TypeOK
<1>6. ASSUME NEW t \in Task, TurnedAway(t)
      PROVE  holders'[u] # "none"
  <2>1. at' = [at EXCEPT ![t] = "free"]
    BY <1>6 DEF TurnedAway
  <2>2. UNCHANGED holders
    BY <1>6 DEF TurnedAway, GiveUp, RaiseDropped
  <2>3. QED
    BY <1>e, <1>s, <2>1, <2>2 DEF Flight
<1>7. ASSUME NEW t \in Task, RetryStatus(t) \/ RetryException(t) \/ SendAgain(t) \/ StartReading(t)
      PROVE  holders'[u] # "none"
  <2>1. at[t] \in Flight /\ UNCHANGED holders
    BY <1>7 DEF RetryStatus, RetryException, SendAgain, StartReading, SendingIsOver, vars, Flight
  <2>2. \A w \in Task : w # t => at'[w] = at[w]
    BY <1>7 DEF RetryStatus, RetryException, SendAgain, StartReading
  <2>3. QED
    BY <1>e, <1>s, <2>1, <2>2
<1>8. ASSUME NEW t \in Task, SendFails(t) \/ ReadEnds(t) \/ HandlerCancelled(t)
      PROVE  holders'[u] # "none"
  <2>1. /\ ReleaseIfHeld(t) \/ UNCHANGED vars
        /\ at' = [at EXCEPT ![t] = "free"]
    BY <1>8 DEF SendFails, ReadEnds, HandlerCancelled
  <2>2. \A w \in Task : w # t => holders'[w] = holders[w]
    BY <1>t, <2>1, ReleaseIfHeldEffect DEF vars
  <2>3. u # t /\ at'[u] = at[u]
    BY <1>s, <2>1 DEF Flight
  <2>4. QED
    BY <1>e, <1>s, <2>2, <2>3
<1>9. ASSUME NEW t \in Task, StartBody(t)
      PROVE  holders'[u] # "none"
  <2>1. PICK c \in Task \ {t} : at' = [at EXCEPT ![t] = "responding", ![c] = "streaming"]
    BY <1>9 DEF StartBody
  <2>2. at[t] \in Flight /\ UNCHANGED holders
    BY <1>9 DEF StartBody, SendingIsOver, vars, Flight
  <2>3. QED
    BY <1>e, <1>s, <2>1, <2>2 DEF Flight
<1>10. ASSUME NEW t \in Task, BodyEnds(t) \/ BodyCancelled(t)
       PROVE  holders'[u] # "none"
  <2>1. at[t] = "responding" /\ at[body[t]] = "streaming" /\ body[t] \in Task
    BY <1>10 DEF BodyEnds, BodyCancelled, TasksApart
  <2>2. \A w \in Task : w # body[t] => holders'[w] = holders[w]
    BY <1>10, <1>t, <2>1, ReleaseIfHeldEffect DEF BodyEnds, BodyCancelled, vars
  <2>3. u # body[t] /\ at'[u] = at[u]
    BY <1>10, <1>s, <2>1 DEF BodyEnds, BodyCancelled, EndBoth, Flight
  <2>4. QED
    BY <1>e, <1>s, <2>2, <2>3
<1>11. ASSUME NEW t \in Task, CloseOrphan(t)
       PROVE  holders'[u] # "none"
  <2>1. ReleaseIfHeld(t) /\ at[t] = "free" /\ UNCHANGED at
    BY <1>11 DEF CloseOrphan, Idle
  <2>2. \A w \in Task : w # t => holders'[w] = holders[w]
    BY <1>t, <2>1, ReleaseIfHeldEffect
  <2>3. QED
    BY <1>e, <1>s, <2>1, <2>2 DEF Flight
<1>12. CASE UNCHANGED allVars
  BY <1>e, <1>s, <1>12 DEF allVars, gateway, vars
<1>13. QED
  BY <1>1, <1>2, <1>3, <1>4, <1>5, <1>6, <1>7, <1>8, <1>9, <1>10, <1>11, <1>12
  DEF GatewayNext

LEMMA EarlyStep ==
    Sound /\ EarlyOwnsNothing /\ [GatewayNext]_allVars => EarlyOwnsNothing'
<1> SUFFICES ASSUME Sound, EarlyOwnsNothing, [GatewayNext]_allVars, early
             PROVE  \A u \in Task : holders'[u] = "none" /\ fut'[u] \notin Layer
  BY EarlyKept DEF EarlyOwnsNothing
<1> DEFINE Goal == \A u \in Task : holders'[u] = "none" /\ fut'[u] \notin Layer
<1>t. TypeOK /\ \A i \in DOMAIN q : q[i] \in Task
  BY ElementOfSeq, LenProperties DEF Sound, TypeOK
<1>e. \A u \in Task : holders[u] = "none" /\ fut[u] \notin Layer
  BY DEF EarlyOwnsNothing
<1>0. ASSUME UNCHANGED vars
      PROVE  Goal
  BY <1>0, <1>e DEF vars
<1>1. ASSUME NEW t \in Task, NEW k \in Kind, AdmitDirectly(t, k) \/ PassGate(t, k)
      PROVE  Goal
  BY <1>0, <1>1 DEF AdmitDirectly, PassGate
<1>2. ASSUME NEW t \in Task, DropOldest(t)
      PROVE  Goal
  <2>1. UNCHANGED holders
        /\ \E k \in DOMAIN q : fut' = [fut EXCEPT ![q[k]] = "dropped", ![t] = "pending"]
    BY <1>2 DEF DropOldest
  <2>2. QED
    BY <1>e, <1>t, <2>1 DEF TypeOK, Layer
<1>3. ASSUME NEW t \in Task, EnqueueWaiter(t) \/ DropOnlyDead(t) \/ BlockInPut(t)
                                \/ ResumePut(t) \/ GiveUp(t) \/ RaiseDropped(t)
      PROVE  Goal
  <2>1. UNCHANGED holders
    BY <1>3 DEF EnqueueWaiter, DropOnlyDead, BlockInPut, ResumePut, GiveUp, RaiseDropped
  <2>2. \/ UNCHANGED fut
        \/ \E f \in {"pending", "cancelled", "none"} : fut' = [fut EXCEPT ![t] = f]
    BY <1>3 DEF EnqueueWaiter, DropOnlyDead, BlockInPut, ResumePut, GiveUp, RaiseDropped
  <2>3. QED
    BY <1>e, <1>t, <2>1, <2>2 DEF TypeOK, Layer
<1>4. ASSUME NEW t \in Task, NEW k \in Kind, Queue(t, k)
      PROVE  Goal
  BY <1>2, <1>3, <1>4 DEF Queue
<1>5. ASSUME NEW t \in Task, AnswerBusy(t) \/ KeepQueueing(t) \/ TurnedAway(t)
      PROVE  Goal
  BY <1>0, <1>3, <1>5 DEF AnswerBusy, KeepQueueing, TurnedAway, Refuse
<1>6. ASSUME NEW t \in Task, Admitted(t)
      PROVE  Goal
  BY <1>e, <1>6 DEF Admitted, InheritOccupy
<1>7. ASSUME NEW t \in Task, RetryStatus(t) \/ RetryException(t) \/ SendAgain(t)
                                \/ StartReading(t) \/ StartBody(t) \/ BodyCancelled(t)
      PROVE  Goal
  BY <1>0, <1>7 DEF RetryStatus, RetryException, SendAgain, StartReading, StartBody, BodyCancelled
<1>8. ASSUME NEW t \in Task, SendFails(t) \/ ReadEnds(t) \/ HandlerCancelled(t)
                                \/ BodyEnds(t) \/ CloseOrphan(t)
      PROVE  Goal
  BY <1>0, <1>8 DEF SendFails, ReadEnds, HandlerCancelled, BodyEnds, CloseOrphan, ReleaseIfHeld
<1>9. CASE UNCHANGED allVars
  BY <1>0, <1>9 DEF allVars
<1>10. QED
  BY <1>1, <1>4, <1>5, <1>6, <1>7, <1>8, <1>9 DEF GatewayNext

LEMMA KnownStep ==
    Sound /\ HandlerTypes /\ TasksApart /\ HandlersKnown /\ [GatewayNext]_allVars
    => HandlersKnown'
<1> SUFFICES ASSUME Sound, HandlerTypes, TasksApart, HandlersKnown, [GatewayNext]_allVars,
                    NEW u \in Task, at'[u] \in Flight \cup {"acquiring"}
             PROVE  kind'[u] \in Kind
  BY DEF HandlersKnown
<1> USE DEF HandlerTypes, MoveTo, End
<1>t. TypeOK
  BY DEF Sound
<1>e. at[u] \in Flight \cup {"acquiring"} => kind[u] \in Kind
  BY DEF HandlersKnown
<1>1. ASSUME NEW t \in Task, NEW k \in Kind,
             AdmitDirectly(t, k) \/ PassGate(t, k) \/ Queue(t, k)
      PROVE  kind'[u] \in Kind
  BY <1>1, <1>e DEF AdmitDirectly, PassGate, Queue, StartSending
<1>2. ASSUME NEW t \in Task, AnswerBusy(t) \/ KeepQueueing(t) \/ CloseOrphan(t)
      PROVE  kind'[u] \in Kind
  BY <1>2, <1>e DEF AnswerBusy, KeepQueueing, CloseOrphan, gateway
<1>3. ASSUME NEW t \in Task, Admitted(t)
      PROVE  kind'[u] \in Kind
  <2>1. at[t] = "acquiring" /\ kind[t] \in Kind
    BY <1>3 DEF Admitted, InheritOccupy, TasksApart, HandlersKnown
  <2>2. QED
    BY <1>3, <1>e, <2>1 DEF Admitted, StartSending
<1>4. ASSUME NEW t \in Task, RetryStatus(t) \/ RetryException(t) \/ SendAgain(t) \/ StartReading(t)
      PROVE  kind'[u] \in Kind
  <2>1. at[t] \in Flight /\ kind[t] \in Kind
    BY <1>4 DEF RetryStatus, RetryException, SendAgain, StartReading, SendingIsOver, Flight,
                HandlersKnown
  <2>2. kind' = [kind EXCEPT ![t] = kind[t]] /\ \A w \in Task : w # t => at'[w] = at[w]
    BY <1>4 DEF RetryStatus, RetryException, SendAgain, StartReading
  <2>3. QED
    BY <1>e, <2>1, <2>2
<1>5. ASSUME NEW t \in Task,
             TurnedAway(t) \/ SendFails(t) \/ ReadEnds(t) \/ HandlerCancelled(t)
      PROVE  kind'[u] \in Kind
  <2>1. at' = [at EXCEPT ![t] = "free"] /\ \A w \in Task : w # t => kind'[w] = kind[w]
    BY <1>5 DEF TurnedAway, SendFails, ReadEnds, HandlerCancelled
  <2>2. u # t
    BY <2>1 DEF Flight
  <2>3. QED
    BY <1>e, <2>1, <2>2
<1>6. ASSUME NEW t \in Task, StartBody(t)
      PROVE  kind'[u] \in Kind
  <2>1. PICK c \in Task \ {t} :
            /\ Idle(c)
            /\ at' = [at EXCEPT ![t] = "responding", ![c] = "streaming"]
            /\ kind' = [kind EXCEPT ![c] = "body"]
    BY <1>6 DEF StartBody
  <2>2. u # c /\ (u # t => at'[u] = at[u]) /\ kind'[u] = kind[u] /\ at[t] \in Flight
    BY <1>6, <2>1 DEF StartBody, SendingIsOver, Flight
  <2>3. QED
    BY <1>e, <2>2
<1>7. ASSUME NEW t \in Task, BodyEnds(t) \/ BodyCancelled(t)
      PROVE  kind'[u] \in Kind
  <2>1. EndBoth(t) /\ body[t] \in Task
    BY <1>7 DEF BodyEnds, BodyCancelled
  <2>2. u # t /\ u # body[t] /\ at'[u] = at[u] /\ kind'[u] = kind[u]
    BY <2>1 DEF EndBoth, Flight
  <2>3. QED
    BY <1>e, <2>2
<1>8. CASE UNCHANGED allVars
  BY <1>e, <1>8 DEF allVars, gateway
<1>9. QED
  BY <1>1, <1>2, <1>3, <1>4, <1>5, <1>6, <1>7, <1>8 DEF GatewayNext

LEMMA HandlersInvStep == HandlersInv /\ [GatewayNext]_allVars => HandlersInv'
<1> SUFFICES ASSUME HandlersInv, [GatewayNext]_allVars
             PROVE  HandlersInv'
  OBVIOUS
<1> USE DEF HandlersInv
<1>1. CarefulStep \/ UNCHANGED vars
  BY HandlersStepTheGate
<1>2. Sound'
  BY <1>1, CarefulIsAny, SoundStep
<1>3. NoSlotFromNowhere'
  BY <1>1, SlotsStep
<1>4. QED
  BY <1>2, <1>3, HandlerTypesStep, TriesStep, ApartStep, KnownStep, OwnedStep, EarlyStep

LEMMA HandlersInvInit == GatewayInit => HandlersInv
<1> SUFFICES ASSUME GatewayInit
             PROVE  HandlersInv
  OBVIOUS
<1>1. Sound
  BY SoundInit DEF GatewayInit
<1>2. HandlerTypes /\ Tries
  BY GatewayAssumption DEF GatewayInit, HandlerTypes, Tries
<1>3. TasksApart /\ HandlersKnown /\ SlotsOwned /\ EarlyOwnsNothing
  BY DEF GatewayInit, Init, TasksApart, HandlersKnown, Flight, SlotsOwned, InFlight,
         EarlyOwnsNothing, Layer
<1>4. NoSlotFromNowhere
  <2>1. Conserved
    BY ConservedInit DEF GatewayInit
  <2>2. \A l \in Layer : ticket[l] \in Nat /\ Cardinality(Owners(l)) \in Nat /\ Cap[l] \in Nat
    BY <1>1, FiniteOwners, FS_CardinalityType, GateAssumption DEF Sound, TypeOK
  <2>3. QED
    BY <2>1, <2>2 DEF Conserved, NoSlotFromNowhere
<1>5. QED
  BY <1>1, <1>2, <1>3, <1>4 DEF HandlersInv

LEMMA HandlersInvAlways == GatewaySpec => []HandlersInv
BY HandlersInvInit, HandlersInvStep, PTL DEF GatewaySpec

(* Every variable of the gate and of the handlers keeps its type, for any tasks, any
   capacities and any number of attempts; a request is sent RETRY_TRIES times at most. *)
THEOREM GatewayTypeCorrect == GatewaySpec => []GatewayTypeOK
<1>1. ASSUME HandlersInv
      PROVE  GatewayTypeOK
  <2>1. /\ attempt \in [Task -> 0..RetryTries]
        /\ refused \in [Task -> 0..RetryTries]
    <3>1. ASSUME NEW t \in Task
          PROVE  attempt[t] \in 0..RetryTries /\ refused[t] \in 0..RetryTries
      BY <1>1, GatewayAssumption DEF HandlersInv, HandlerTypes, Tries
    <3>2. QED
      BY <1>1, <3>1 DEF HandlersInv, HandlerTypes
  <2>2. TypeOK
    BY <1>1 DEF HandlersInv, Sound
  <2>3. QED
    BY <1>1, <2>1, <2>2 DEF HandlersInv, HandlerTypes, Flight, GatewayTypeOK
<1>2. QED
  BY <1>1, HandlersInvAlways, PTL

(* Whatever sequence of calls to release() the handlers make, from whichever task and
   under whichever recycled id, no slot comes into being. *)
THEOREM NoSlotMadeUp == GatewaySpec => []NoSlotFromNowhere
<1>1. HandlersInv => NoSlotFromNowhere
  BY DEF HandlersInv
<1>2. QED
  BY <1>1, HandlersInvAlways, PTL

(* With GATE_EARLY_RELEASE=false the backend never works for more requests than the gate
   has slots, for any number of callers: every request under way is down as the owner of
   a slot of its own. *)
THEOREM ConcurrencyAlwaysBounded == GatewaySpec => []ConcurrencyBounded
<1>1. ASSUME HandlersInv, ~early
      PROVE  Cardinality(InFlight) <= Cap["g0"] + Cap["g1"]
  <2> DEFINE all == Owners("g0") \cup Owners("g1")
  <2>1. InFlight \subseteq all
    BY <1>1 DEF HandlersInv, SlotsOwned, Sound, TypeOK, InFlight, Owners, Layer
  <2>2. /\ IsFiniteSet(Owners("g0")) /\ Cardinality(Owners("g0")) \in Nat
        /\ IsFiniteSet(Owners("g1")) /\ Cardinality(Owners("g1")) \in Nat
    BY FiniteOwners, FS_CardinalityType
  <2>3. /\ IsFiniteSet(Owners("g0") \cap Owners("g1"))
        /\ Cardinality(Owners("g0") \cap Owners("g1")) \in Nat
    BY <2>2, FS_Intersection, FS_CardinalityType
  <2>4. /\ IsFiniteSet(all)
        /\ Cardinality(all) = Cardinality(Owners("g0")) + Cardinality(Owners("g1"))
                                - Cardinality(Owners("g0") \cap Owners("g1"))
    BY <2>2, FS_Union
  <2>5. Cardinality(InFlight) \in Nat /\ Cardinality(InFlight) <= Cardinality(all)
    BY <2>1, <2>4, FS_Subset, FS_CardinalityType
  <2> HIDE DEF all
  <2>6. ASSUME NEW l \in Layer
        PROVE  Cardinality(Owners(l)) <= Cap[l] /\ Cap[l] \in Nat
    <3>1. ticket[l] \in Nat /\ Cap[l] \in Nat /\ ticket[l] + Cardinality(Owners(l)) <= Cap[l]
      BY <1>1, GateAssumption DEF HandlersInv, Sound, TypeOK, NoSlotFromNowhere
    <3>2. Cardinality(Owners(l)) \in Nat
      BY FiniteOwners, FS_CardinalityType
    <3>3. QED
      BY <3>1, <3>2
  <2>7. "g0" \in Layer /\ "g1" \in Layer
    BY DEF Layer
  <2>8. /\ Cardinality(Owners("g0")) <= Cap["g0"] /\ Cap["g0"] \in Nat
        /\ Cardinality(Owners("g1")) <= Cap["g1"] /\ Cap["g1"] \in Nat
    BY <2>6, <2>7
  <2>9. QED
    BY <2>2, <2>3, <2>4, <2>5, <2>8
<1>2. HandlersInv => ConcurrencyBounded
  BY <1>1 DEF ConcurrencyBounded
<1>3. QED
  BY <1>2, HandlersInvAlways, PTL

(* A request that its own task answers, or that ends with an Exception, owns nothing when
   that task ends, after however many attempts; with CancelledError the theorem speaks of
   _forward_anthropic_nonstream only (CancelledReturnsSlot does not hold). *)
THEOREM OwnAnswerAlwaysReturnsSlot == GatewaySpec => OwnAnswerReturnsSlot
<1>1. ASSUME HandlersInv, [GatewayNext]_allVars, NEW t \in Task,
             at[t] \in {"sending", "pausing", "reading"}, at'[t] = "free",
             Cancelled(t)' => kind[t] = "messages"
      PROVE  holders'[t] = "none"
  <2> USE DEF HandlersInv, HandlerTypes, MoveTo, End
  <2>1. ASSUME ReleaseIfHeld(t)
        PROVE  holders'[t] = "none"
    <3>1. CASE early
      BY <1>1, <2>1, <3>1 DEF ReleaseIfHeld, EarlyOwnsNothing, vars
    <3>2. CASE ~early
      BY <1>1, <2>1, <3>2, ReleaseIfHeldEffect DEF Sound
    <3>3. QED
      BY <3>1, <3>2
  <2>2. ASSUME NEW u \in Task, NEW k \in Kind,
               AdmitDirectly(u, k) \/ PassGate(u, k) \/ Queue(u, k)
        PROVE  FALSE
    BY <1>1, <2>2 DEF AdmitDirectly, PassGate, Queue, StartSending
  <2>3. ASSUME NEW u \in Task, AnswerBusy(u) \/ KeepQueueing(u) \/ CloseOrphan(u)
        PROVE  FALSE
    BY <1>1, <2>3 DEF AnswerBusy, KeepQueueing, CloseOrphan, gateway
  <2>4. ASSUME NEW u \in Task, Admitted(u)
        PROVE  FALSE
    BY <1>1, <2>4 DEF Admitted, StartSending
  <2>5. ASSUME NEW u \in Task, TurnedAway(u)
        PROVE  FALSE
    <3>1. at[u] = "acquiring"
      BY <1>1, <2>5 DEF TurnedAway, GiveUp, RaiseDropped, TasksApart
    <3>2. QED
      BY <1>1, <2>5, <3>1 DEF TurnedAway
  <2>6. ASSUME NEW u \in Task, RetryStatus(u) \/ RetryException(u) \/ SendAgain(u) \/ StartReading(u)
        PROVE  FALSE
    BY <1>1, <2>6 DEF RetryStatus, RetryException, SendAgain, StartReading
  <2>7. ASSUME NEW u \in Task, SendFails(u) \/ ReadEnds(u)
        PROVE  holders'[t] = "none"
    <3>1. ReleaseIfHeld(u) /\ at' = [at EXCEPT ![u] = "free"]
      BY <2>7 DEF SendFails, ReadEnds
    <3>2. u = t
      BY <1>1, <3>1
    <3>3. QED
      BY <2>1, <3>1, <3>2
  <2>8. ASSUME NEW u \in Task, StartBody(u)
        PROVE  FALSE
    <3>1. PICK c \in Task \ {u} : at' = [at EXCEPT ![u] = "responding", ![c] = "streaming"]
      BY <2>8 DEF StartBody
    <3>2. QED
      BY <1>1, <3>1
  <2>9. ASSUME NEW u \in Task, BodyEnds(u) \/ BodyCancelled(u)
        PROVE  FALSE
    <3>1. at[u] = "responding" /\ at[body[u]] = "streaming"
      BY <1>1, <2>9 DEF BodyEnds, BodyCancelled, TasksApart
    <3>2. t # u /\ t # body[u]
      BY <1>1, <3>1
    <3>3. QED
      BY <1>1, <2>9, <3>2 DEF BodyEnds, BodyCancelled, EndBoth
  <2>10. ASSUME NEW u \in Task, HandlerCancelled(u)
         PROVE  holders'[t] = "none"
    <3>1. at' = [at EXCEPT ![u] = "free"] /\ kind' = [kind EXCEPT ![u] = kind[u]]
      BY <2>10 DEF HandlerCancelled
    <3>2. u = t
      BY <1>1, <3>1
    <3>3. kind'[t] = kind[t] /\ kind[t] \in Kind
      BY <1>1, <3>1, <3>2 DEF HandlersKnown, Flight
    <3>4. kind[t] = "messages"
      BY <1>1, <3>3 DEF Cancelled
    <3>5. QED
      BY <2>1, <2>10, <3>2, <3>4 DEF HandlerCancelled
  <2>11. ~UNCHANGED allVars
    BY <1>1 DEF allVars, gateway
  <2>12. QED
    BY <1>1, <2>2, <2>3, <2>4, <2>5, <2>6, <2>7, <2>8, <2>9, <2>10, <2>11 DEF GatewayNext
<1>2. HandlersInv /\ [GatewayNext]_allVars
        => [\A t \in Task :
                /\ at[t] \in {"sending", "pausing", "reading"} /\ at'[t] = "free"
                /\ Cancelled(t)' => kind[t] = "messages"
                => holders'[t] = "none"]_allVars
  BY <1>1
<1>3. QED
  BY <1>2, HandlersInvAlways, PTL DEF GatewaySpec, OwnAnswerReturnsSlot

(* What the gate promises whoever calls it holds with these callers, too. *)
LEMMA GatewayIsAny == GatewaySpec => AnySpec
<1>1. HandlersInv /\ [GatewayNext]_allVars => [AnyStep]_vars
  BY HandlersStepTheGate, CarefulIsAny DEF HandlersInv
<1>2. GatewayInit => Init
  BY DEF GatewayInit
<1>3. QED
  BY <1>1, <1>2, HandlersInvAlways, PTL DEF GatewaySpec, AnySpec

(* The gate keeps its promises to those who wait although the handlers do not keep theirs:
   no Waiter is lost, the queue stays within its size, and where no put() can suspend
   nobody waits beside a free slot. *)
THEOREM WaitersServedAllTheSame ==
    GatewaySpec => [](NoLostWaiter /\ QueueBounded /\ NoIdleSlotUnlessBlocking)
BY GatewayIsAny, NobodyIsLostForAny, RoomAlways, NoIdleSlotForAny, PTL

(* And they are served in their order, whoever releases and whatever slots are lost. *)
THEOREM OrderKeptAllTheSame == GatewaySpec => HandOversInOrder
BY OrderForAny, GatewayIsAny
=============================================================================
