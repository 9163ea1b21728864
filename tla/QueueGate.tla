------------------------------ MODULE QueueGate ------------------------------
(***************************************************************************)
(* proxy/queueing.py: the admission gate of one proxy worker process.  Two *)
(* asyncio.Semaphores (layers "g0" and "g1"), a bounded asyncio.Queue of   *)
(* Waiters (each wraps one Future), and _holders, which remembers by task  *)
(* id which layer's slot a task owns.                                      *)
(*                                                                         *)
(* The event loop runs one callback at a time, so a step of the model is   *)
(* the code a task runs between two awaits that really suspend it.         *)
(* Semaphore.acquire() on a positive value, Queue.put() on a queue with    *)
(* room and Queue.get() on a non-empty one return without suspending.      *)
(*                                                                         *)
(* A waiter is named by the task that made it.  A task id is id(task) in   *)
(* the code and is recycled by the interpreter; here a new caller may take *)
(* an id again once no Waiter in the queue is named by it.                 *)
(***************************************************************************)
EXTENDS Naturals, Sequences, FiniteSets, SequencesExt

CONSTANTS
    Task,       (* ids of the tasks that call the gate *)
    Cap,        (* GATE0_LOCAL_CAP and GATE1_LOCAL_CAP, by layer *)
    Configs     (* the queue configurations a worker may be started with *)

Layer == {"g0", "g1"}

(* QUEUE_REJECT_POLICY, QUEUE_OVERFLOW_MODE and LOCAL_QUEUE_MAXSIZE, where 0
   disables the queue.  The code tests the two strings against "drop_oldest" and
   "block" only. *)
Config == [policy: {"drop_oldest", "other"}, overflow: {"block", "other"}, qmax: Nat]

ASSUME GateAssumption ==
    /\ IsFiniteSet(Task)
    /\ Cap \in [Layer -> Nat]
    /\ Configs \in SUBSET Config

VARIABLES
    conf,       \* the configuration this worker was started with
    ticket,     \* Semaphore._value, by layer
    holders,    \* _holders: the layer whose slot a task id owns, or "none"
    q,          \* the asyncio.Queue, oldest Waiter first
    putters,    \* Queue._putters: tasks suspended in put(), oldest first
    woken,      \* tasks whose put() has been woken but has not run yet
    fut,        \* state of the Future of each task's Waiter
    phase       \* where a task stands in acquire()

vars == <<conf, ticket, holders, q, putters, woken, fut, phase>>

Outcome == {"none", "pending", "cancelled", "dropped"} \cup Layer

TypeOK ==
    /\ conf \in Configs
    /\ ticket \in [Layer -> Nat]
    /\ holders \in [Task -> Layer \cup {"none"}]
    /\ q \in Seq(Task)
    /\ putters \in Seq(Task)
    /\ woken \in SUBSET Task
    /\ fut \in [Task -> Outcome]
    /\ phase \in [Task -> {"idle", "putting", "waiting"}]

Init ==
    /\ conf \in Configs
    /\ ticket = Cap
    /\ holders = [t \in Task |-> "none"]
    /\ q = <<>>
    /\ putters = <<>>
    /\ woken = {}
    /\ fut = [t \in Task |-> "none"]
    /\ phase = [t \in Task |-> "idle"]
-----------------------------------------------------------------------------
(* Faulty variants of the definitions below: each is a plausible mistake in the code,
   and a property of some run must tell it from the code. *)

(* Any live Waiter will do, not the oldest. *)
FirstLive_AnyLive(k) == k \in DOMAIN q /\ fut[q[k]] = "pending"

(* The dropped Waiter is taken out of the queue but not told. *)
DropOldest_Untold(t) ==
    /\ phase[t] = "idle" /\ t \notin ToSet(q)
    /\ \A l \in Layer : ticket[l] = 0
    /\ conf.qmax > 0 /\ Len(q) >= conf.qmax /\ conf.policy = "drop_oldest"
    /\ q' = Append(Tail(q), t)
    /\ fut' = [fut EXCEPT ![t] = "pending"]
    /\ phase' = [phase EXCEPT ![t] = "waiting"]
    /\ UNCHANGED <<conf, ticket, holders, putters, woken>>

(* A woken put() does not test full() again. *)
ResumePut_NoRetest(t) ==
    /\ t \in woken
    /\ woken' = woken \ {t}
    /\ q' = Append(q, t)
    /\ phase' = [phase EXCEPT ![t] = "waiting"]
    /\ UNCHANGED <<conf, putters, ticket, holders, fut>>

(* A put() that has been woken gets the front of the queue: it has waited long enough. *)
ResumePut_AtTheFront(t) ==
    /\ t \in woken
    /\ woken' = woken \ {t}
    /\ IF Len(q) >= conf.qmax
       THEN putters' = Append(putters, t) /\ UNCHANGED <<q, phase>>
       ELSE /\ q' = <<t>> \o q
            /\ phase' = [phase EXCEPT ![t] = "waiting"]
            /\ UNCHANGED putters
    /\ UNCHANGED <<conf, ticket, holders, fut>>

(* A cancelled put() keeps the wake-up it was given. *)
CancelPut_KeepsWakeUp(t) ==
    /\ phase[t] = "putting"
    /\ putters' = SelectSeq(putters, LAMBDA p : p # t)
    /\ woken' = woken \ {t}
    /\ fut' = [fut EXCEPT ![t] = "cancelled"]
    /\ phase' = [phase EXCEPT ![t] = "idle"]
    /\ UNCHANGED <<conf, ticket, holders, q>>

(* The timer wins over a grant that came before it. *)
GiveUp_TimerWins(t) ==
    /\ phase[t] = "waiting"
    /\ fut' = [fut EXCEPT ![t] = "cancelled"]
    /\ phase' = [phase EXCEPT ![t] = "idle"]
    /\ UNCHANGED <<conf, ticket, holders, q, putters, woken>>

(* release() forgets that somebody may be waiting. *)
Release_NoHandOver(t) ==
    /\ holders[t] # "none"
    /\ holders' = [holders EXCEPT ![t] = "none"]
    /\ ticket' = [ticket EXCEPT ![holders[t]] = @ + 1]
    /\ UNCHANGED <<conf, q, putters, woken, fut, phase>>
-----------------------------------------------------------------------------
(* _has_ticket on both layers *)
NoTicket == \A l \in Layer : ticket[l] = 0

(* Queue.full(), and the test for a queue at all *)
QueueEnabled == conf.qmax > 0
Full == Len(q) >= conf.qmax

Live(t) == fut[t] = "pending"

(* The oldest Waiter whose Future is neither done nor cancelled is q[k]. *)
FirstLive(k) ==
    /\ k \in DOMAIN q
    /\ Live(q[k])
    /\ \A i \in 1..(k - 1) : ~Live(q[i])

NoneLive == \A i \in DOMAIN q : ~Live(q[i])

(* n get()s on the queue: each wakes one suspended put(), oldest first. *)
WakePutters(n) ==
    /\ putters' = SubSeq(putters, n + 1, Len(putters))
    /\ woken' = woken \cup {putters[i] : i \in DOMAIN putters \cap 1..n}

(* t may call acquire(): it is not in it, and none of its Waiters is queued. *)
CanCall(t) == phase[t] = "idle" /\ t \notin ToSet(q)
-----------------------------------------------------------------------------
(* acquire(): _try_direct_gate on Gate-0, then on Gate-1. *)
TryDirectGate(t) ==
    /\ CanCall(t)
    /\ \E l \in Layer :
        /\ ticket[l] > 0
        /\ l = "g1" => ticket["g0"] = 0
        /\ ticket' = [ticket EXCEPT ![l] = @ - 1]
        /\ holders' = [holders EXCEPT ![t] = l]
    /\ UNCHANGED <<conf, q, putters, woken, fut, phase>>

(* acquire() raises 503 with the gate as it was: the queue is disabled, or it
   is full and the configuration neither drops nor blocks. *)
Refuse(t) ==
    /\ CanCall(t)
    /\ NoTicket
    /\ \/ ~QueueEnabled
       \/ Full /\ conf.policy # "drop_oldest" /\ conf.overflow # "block"
    /\ UNCHANGED vars

(* _enqueue_waiter with room in the queue, then _wait_for_wakeup suspends. *)
EnqueueWaiter(t) ==
    /\ CanCall(t)
    /\ NoTicket
    /\ QueueEnabled /\ ~Full
    /\ q' = Append(q, t)
    /\ fut' = [fut EXCEPT ![t] = "pending"]
    /\ phase' = [phase EXCEPT ![t] = "waiting"]
    /\ UNCHANGED <<conf, ticket, holders, putters, woken>>

(* _handle_queue_full under drop_oldest: queued Waiters are taken out up to and
   including the oldest live one, which gets the 503; t then queues. *)
DropOldest(t) ==
    /\ CanCall(t)
    /\ NoTicket
    /\ QueueEnabled /\ Full /\ conf.policy = "drop_oldest"
    /\ \E k \in DOMAIN q :
        /\ FirstLive(k)
        /\ fut' = [fut EXCEPT ![q[k]] = "dropped", ![t] = "pending"]
        /\ q' = Append(SubSeq(q, k + 1, Len(q)), t)
        /\ WakePutters(k)
    /\ phase' = [phase EXCEPT ![t] = "waiting"]
    /\ UNCHANGED <<conf, ticket, holders>>

(* The same with only dead Waiters in the queue: it is emptied, and t queues,
   or is refused when QUEUE_OVERFLOW_MODE is not "block". *)
DropOnlyDead(t) ==
    /\ CanCall(t)
    /\ NoTicket
    /\ QueueEnabled /\ Full /\ conf.policy = "drop_oldest"
    /\ NoneLive
    /\ WakePutters(Len(q))
    /\ IF conf.overflow = "block"
       THEN /\ q' = Append(<<>>, t)
            /\ fut' = [fut EXCEPT ![t] = "pending"]
            /\ phase' = [phase EXCEPT ![t] = "waiting"]
       ELSE /\ q' = <<>>
            /\ UNCHANGED <<fut, phase>>
    /\ UNCHANGED <<conf, ticket, holders>>

(* Any other policy with QUEUE_OVERFLOW_MODE "block": put() suspends. *)
BlockInPut(t) ==
    /\ CanCall(t)
    /\ NoTicket
    /\ QueueEnabled /\ Full /\ conf.policy # "drop_oldest" /\ conf.overflow = "block"
    /\ putters' = Append(putters, t)
    /\ fut' = [fut EXCEPT ![t] = "pending"]
    /\ phase' = [phase EXCEPT ![t] = "putting"]
    /\ UNCHANGED <<conf, ticket, holders, q, woken>>

(* A woken put() tests full() again: a newcomer may have taken the room, and
   then it suspends once more, behind the others. *)
ResumePut(t) ==
    /\ t \in woken
    /\ woken' = woken \ {t}
    /\ IF Full
       THEN putters' = Append(putters, t) /\ UNCHANGED <<q, phase>>
       ELSE /\ q' = Append(q, t)
            /\ phase' = [phase EXCEPT ![t] = "waiting"]
            /\ UNCHANGED putters
    /\ UNCHANGED <<conf, ticket, holders, fut>>

(* A put() has no timeout, but its task may be cancelled.  One that was already
   woken passes the wake-up on if there is still room. *)
CancelPut(t) ==
    /\ phase[t] = "putting"
    /\ \/ \E i \in DOMAIN putters :
            /\ putters[i] = t
            /\ putters' = RemoveAt(putters, i)
            /\ UNCHANGED woken
       \/ /\ t \in woken
          /\ IF Full \/ putters = <<>>
             THEN woken' = woken \ {t} /\ UNCHANGED putters
             ELSE woken' = (woken \ {t}) \cup {Head(putters)} /\ putters' = Tail(putters)
    /\ fut' = [fut EXCEPT ![t] = "cancelled"]
    /\ phase' = [phase EXCEPT ![t] = "idle"]
    /\ UNCHANGED <<conf, ticket, holders, q>>

(* _inherit_occupy: the wait ends with a slot.  wait_for looks at the Future
   before it looks at the timer or at a cancellation, so a grant that came first
   wins over either.  It needs two turns of the event loop to deliver the grant,
   a woken put() one: the put()s woken before have run. *)
InheritOccupy(t) ==
    /\ phase[t] = "waiting"
    /\ fut[t] \in Layer
    /\ woken = {}
    /\ holders' = [holders EXCEPT ![t] = fut[t]]
    /\ fut' = [fut EXCEPT ![t] = "none"]
    /\ phase' = [phase EXCEPT ![t] = "idle"]
    /\ UNCHANGED <<conf, ticket, q, putters, woken>>

(* The wait ends with the 503 that _handle_queue_full stored in the Future. *)
RaiseDropped(t) ==
    /\ phase[t] = "waiting"
    /\ fut[t] = "dropped"
    /\ fut' = [fut EXCEPT ![t] = "none"]
    /\ phase' = [phase EXCEPT ![t] = "idle"]
    /\ UNCHANGED <<conf, ticket, holders, q, putters, woken>>

(* The wait ends without a slot while the Future is still pending: QUEUE_TIMEOUT
   expired (503), or the task was cancelled.  The Waiter stays in the queue. *)
GiveUp(t) ==
    /\ phase[t] = "waiting"
    /\ fut[t] = "pending"
    /\ fut' = [fut EXCEPT ![t] = "cancelled"]
    /\ phase' = [phase EXCEPT ![t] = "idle"]
    /\ UNCHANGED <<conf, ticket, holders, q, putters, woken>>

(* release(), called by a task whose id is in _holders: Waiters are taken out of
   the queue until a live one is found, which inherits the slot; if there is none
   the semaphore is released. *)
Release(t) ==
    /\ holders[t] # "none"
    /\ holders' = [holders EXCEPT ![t] = "none"]
    /\ \/ \E k \in DOMAIN q :
            /\ FirstLive(k)
            /\ fut' = [fut EXCEPT ![q[k]] = holders[t]]
            /\ q' = SubSeq(q, k + 1, Len(q))
            /\ WakePutters(k)
            /\ UNCHANGED ticket
       \/ /\ NoneLive
          /\ q' = <<>>
          /\ WakePutters(Len(q))
          /\ ticket' = [ticket EXCEPT ![holders[t]] = @ + 1]
          /\ UNCHANGED fut
    /\ UNCHANGED <<conf, phase>>
-----------------------------------------------------------------------------
Acquire(t) ==
    \/ TryDirectGate(t)
    \/ Refuse(t)
    \/ EnqueueWaiter(t)
    \/ DropOldest(t)
    \/ DropOnlyDead(t)
    \/ BlockInPut(t)

Wait(t) ==
    \/ ResumePut(t)
    \/ CancelPut(t)
    \/ InheritOccupy(t)
    \/ RaiseDropped(t)
    \/ GiveUp(t)

(* Callers that use the gate as it is meant to be used: acquire() once, and
   release() from the same task if it returned.  Module Gateway has the callers
   of the code. *)
Call(t) == holders[t] = "none" /\ Acquire(t)

Next == \E t \in Task :
    \/ Call(t)
    \/ Wait(t)
    \/ Release(t)

Spec == Init /\ [][Next]_vars

(* The event loop runs every task it has scheduled, and a caller that owns a slot
   releases it.  Nothing is assumed of timers, cancellations or new requests. *)
FairSpec ==
    /\ Spec
    /\ \A t \in Task :
        /\ WF_vars(ResumePut(t))
        /\ WF_vars(InheritOccupy(t))
        /\ WF_vars(RaiseDropped(t))
        /\ WF_vars(Release(t))
-----------------------------------------------------------------------------
(* The slot of a granted Waiter is on its way to a task that has not run yet. *)
InTransit(t) == phase[t] = "waiting" /\ fut[t] \in Layer

Owners(l) ==
    {t \in Task : holders[t] = l \/ (phase[t] = "waiting" /\ fut[t] = l)}

(* Slot conservation, per layer: free tickets, slots in _holders and slots handed
   over to a Waiter that has not resumed add up to the layer's capacity, and no task
   owns two.  A slot lost by a hand-over to a dead Waiter, by a timeout racing the
   grant, or released twice would break it. *)
SlotConservation ==
    /\ \A l \in Layer : ticket[l] + Cardinality(Owners(l)) = Cap[l]
    /\ \A t \in Task : InTransit(t) => holders[t] = "none"

(* Only these configurations let a task suspend in put(). *)
Blocking == conf.policy # "drop_oldest" /\ conf.overflow = "block"

(* "release() hands the slot over when somebody waits and otherwise releases the
   semaphore" (class docstring): no request waits while a slot of either layer is
   free, so arrivals cannot overtake it and it need not wait for its timeout. *)
NoIdleSlot ==
    (\E l \in Layer : ticket[l] > 0) => \A t \in Task : phase[t] = "waiting" => ~Live(t)

(* The same where no put() can suspend. *)
NoIdleSlotUnlessBlocking == ~Blocking => NoIdleSlot

(* A waiting task whose Future nobody has completed is in the queue, once, where
   release() will find it; a task suspended in put() is in exactly one of the two
   places the queue looks at. *)
NoLostWaiter ==
    /\ \A t \in Task : phase[t] = "waiting" /\ Live(t) => t \in ToSet(q)
    /\ \A t \in Task : phase[t] = "putting" =>
        Cardinality({i \in DOMAIN putters : putters[i] = t})
            + Cardinality({t} \cap woken) = 1
    /\ \A i, j \in DOMAIN q : q[i] = q[j] => i = j

(* Room in the queue is never left unannounced: while a put() is suspended, the
   queue is full or as many put()s as it has room for have been woken. *)
RoomIsAnnounced ==
    putters # <<>> => Len(q) + Cardinality(woken) >= conf.qmax

(* The queue never holds more Waiters than LOCAL_QUEUE_MAXSIZE, dead ones
   included, whichever of the four ways in was taken. *)
QueueBounded == Len(q) <= conf.qmax

(* Where no put() can suspend, every task that waits for a slot leaves acquire() in
   the end, by inheriting one or by being pushed out, with no help from its timer. *)
WaitEnds == \A t \in Task : phase[t] = "waiting" /\ ~Blocking ~> phase[t] = "idle"

(* Who has a slot, who waits for one, and who waits before whom *)
Holding == {t \in Task : holders[t] # "none" \/ InTransit(t)}
LiveIn(places) == {q[i] : i \in {j \in places : Live(q[j])}}
InLine == LiveIn(DOMAIN q)
PlacesBefore(t) == {i \in DOMAIN q : \E j \in DOMAIN q : i < j /\ q[j] = t}
Ahead == [t \in Task |-> IF Live(t) THEN LiveIn(PlacesBefore(t)) ELSE {}]

(* The gate implements the first-come-first-served pool, hand-overs included: a
   slot belongs to a Waiter from the moment release() completes its Future.  Where
   put() may suspend it does not: see NoIdleSlot. *)
Pool == INSTANCE AdmissionPool WITH
    Slots <- Cap["g0"] + Cap["g1"],
    holding <- Holding,
    line <- InLine,
    ahead <- Ahead

FirstComeFirstServed ==
    Pool!Init /\ [][~Blocking => Pool!Next]_(Pool!vars)

(* "FIFO" (class docstring) as far as it goes where put() may suspend as well, and whoever
   calls release(): the order of the queue and of the hand-overs from it.  Nobody in the
   queue comes to have somebody ahead of it who was not; the one that is handed a slot has
   nobody ahead of it; and everybody who is still in line has moved up then, so that n
   tasks ahead are gone after n hand-overs.  It says nothing of a slot that is not handed
   over: in a blocking configuration a newcomer may find one free and pass those in line
   (NoIdleSlot does not hold there), and a task suspended in put() is not in line yet. *)
HandOversInOrder ==
    [][\A t \in InLine :
        /\ fut'[t] \in Layer => Ahead[t] = {}
        /\ t \in InLine' => /\ Ahead'[t] \subseteq Ahead[t]
                            /\ (\E u \in InLine : fut'[u] \in Layer) => Ahead'[t] # Ahead[t]]_vars
=============================================================================
