------------------------------- MODULE Gateway -------------------------------
(***************************************************************************)
(* proxy/gateway.py: the handlers of one proxy worker that forward a       *)
(* request through the gate.  A handler acquires the gate, sends to the    *)
(* backend, and answers with what it read ("reading") or with a            *)
(* StreamingResponse ("responding").                                       *)
(*                                                                         *)
(* Starlette runs the body of a StreamingResponse in a task of its own     *)
(* beside the one that watches for the client's disconnect, and release()  *)
(* looks the slot up by the id of the task that calls it.  An id is free   *)
(* for a new task as soon as its task has ended.                           *)
(*                                                                         *)
(* Sending is up to RETRY_TRIES attempts with a pause between: the slot is *)
(* kept meanwhile.                                                         *)
(***************************************************************************)
EXTENDS QueueGate

CONSTANTS
    MaxOrphans,     (* bound on the generators left unfinished at a time *)
    RetryTries      (* RETRY_TRIES *)

ASSUME GatewayAssumption == MaxOrphans \in Nat /\ RetryTries \in Nat \ {0}

VARIABLES
    early,      \* GATE_EARLY_RELEASE
    kind,       \* which forwarding function a task runs (or was cancelled in), or "body"
    at,         \* how far it is, or "free" when no task has this id
    body,       \* the task that runs the body of a task's StreamingResponse, or itself
    orphans,    \* body generators left unfinished that will run their finally
    attempt,    \* attempts of a task's request to reach the backend
    refused     \* how many of them the backend has answered with 502, 503 or 504

sends == <<attempt, refused>>

gateway == <<early, kind, at, body, orphans, sends>>

allVars == <<vars, gateway>>

(* _forward_nonstream; _forward_stream and _forward_anthropic_stream;
   _forward_anthropic_nonstream *)
Kind == {"nonstream", "stream", "messages"}

GatewayTypeOK ==
    /\ TypeOK
    /\ early \in BOOLEAN
    /\ kind \in [Task -> Kind \cup {"body", "none"}]
    /\ at \in [Task -> {"free", "acquiring", "sending", "pausing", "reading", "responding", "streaming"}]
    /\ body \in [Task -> Task]
    /\ orphans \in 0..MaxOrphans
    /\ attempt \in [Task -> 0..RetryTries] /\ refused \in [Task -> 0..RetryTries]

GatewayInit ==
    /\ Init
    /\ early \in BOOLEAN
    /\ kind = [t \in Task |-> "none"]
    /\ at = [t \in Task |-> "free"]
    /\ body = [t \in Task |-> t]
    /\ orphans = 0
    /\ attempt = [t \in Task |-> 0] /\ refused = [t \in Task |-> 0]

(* Free ids, and whether a task with this id may call the gate *)
Idle(t) == at[t] = "free" /\ CanCall(t)
-----------------------------------------------------------------------------
(* Faulty variants *)

(* release() does not check that its caller acquired. *)
ReleaseCall_Unchecked(t) ==
    IF holders[t] = "none"
    THEN /\ ticket' = [ticket EXCEPT !["g0"] = @ + 1]
         /\ UNCHANGED <<conf, holders, q, putters, woken, fut, phase>>
    ELSE Release(t)

(* The error path forgets the gate. *)
SendFails_NoRelease(t) ==
    /\ at[t] = "sending"
    /\ at' = [at EXCEPT ![t] = "free"]
    /\ kind' = [kind EXCEPT ![t] = "none"]
    /\ attempt' = [attempt EXCEPT ![t] = 0] /\ refused' = [refused EXCEPT ![t] = 0]
    /\ UNCHANGED <<vars, early, body, orphans>>

(* The slot is given back as soon as the backend has answered. *)
StartBody_ReleasesFirst(t) ==
    /\ at[t] = "sending" /\ kind[t] # "messages"
    /\ \E c \in Task \ {t} :
        /\ Idle(c)
        /\ at' = [at EXCEPT ![t] = "responding", ![c] = "streaming"]
        /\ kind' = [kind EXCEPT ![c] = "body"]
        /\ body' = [body EXCEPT ![t] = c]
    /\ attempt' = [attempt EXCEPT ![t] = 0] /\ refused' = [refused EXCEPT ![t] = 0]
    /\ IF early THEN UNCHANGED vars ELSE Release(t)
    /\ UNCHANGED <<early, orphans>>

(* A generator that has run its finally is closed once more. *)
CloseOrphan_Again(c) ==
    /\ at[c] = "free" /\ CanCall(c)
    /\ IF early \/ holders[c] = "none" THEN UNCHANGED vars ELSE Release(c)
    /\ orphans' = orphans - 1
    /\ UNCHANGED <<early, kind, at, body, sends>>
-----------------------------------------------------------------------------
(* release() as anybody may call it: a caller without an entry in _holders is
   ignored. *)
ReleaseCall(t) == IF holders[t] = "none" THEN UNCHANGED vars ELSE Release(t)

(* "if not C.GATE_EARLY_RELEASE: await gate.release()" *)
ReleaseIfHeld(t) == IF early THEN UNCHANGED vars ELSE ReleaseCall(t)

(* Task t runs forwarding function k and is at stage s. *)
MoveTo(t, k, s) ==
    /\ at' = [at EXCEPT ![t] = s]
    /\ kind' = [kind EXCEPT ![t] = k]

End(t) == MoveTo(t, "none", "free")

(* The first attempt, and the end of the last *)
StartSending(t, k) ==
    /\ MoveTo(t, k, "sending")
    /\ attempt' = [attempt EXCEPT ![t] = 1]
    /\ UNCHANGED refused

SendingIsOver(t) ==
    /\ at[t] = "sending"
    /\ attempt' = [attempt EXCEPT ![t] = 0] /\ refused' = [refused EXCEPT ![t] = 0]

(* The body of task t's response is over, and with it task t and its body's task. *)
EndBoth(t) ==
    /\ at' = [at EXCEPT ![t] = "free", ![body[t]] = "free"]
    /\ kind' = [kind EXCEPT ![t] = "none", ![body[t]] = "none"]
    /\ body' = [body EXCEPT ![t] = t]
-----------------------------------------------------------------------------
(* A request whose JSON body has been read is admitted at once and keeps its slot. *)
AdmitDirectly(t, k) ==
    /\ Idle(t)
    /\ ~early
    /\ TryDirectGate(t)
    /\ StartSending(t, k)
    /\ UNCHANGED <<early, body, orphans>>

(* With GATE_EARLY_RELEASE acquire() and release() run without suspending between.
   No slot is then ever owned between two steps, so that nobody queues while the
   gate has slots at all, and the two together leave the gate as it was. *)
PassGate(t, k) ==
    /\ Idle(t)
    /\ early
    /\ \E l \in Layer : ticket[l] > 0
    /\ StartSending(t, k)
    /\ UNCHANGED <<vars, early, body, orphans>>

(* acquire() raises 503 at once: the handler answers with it. *)
AnswerBusy(t) ==
    /\ Idle(t)
    /\ Refuse(t) \/ (DropOnlyDead(t) /\ phase'[t] = "idle")
    /\ UNCHANGED gateway

(* acquire() suspends, in the queue or in put(). *)
Queue(t, k) ==
    /\ Idle(t)
    /\ EnqueueWaiter(t) \/ DropOldest(t) \/ DropOnlyDead(t) \/ BlockInPut(t)
    /\ phase'[t] # "idle"
    /\ MoveTo(t, k, "acquiring")
    /\ UNCHANGED <<early, body, orphans, sends>>

(* A suspended acquire() goes on inside the gate. *)
KeepQueueing(t) == ResumePut(t) /\ UNCHANGED gateway

(* acquire() returns with an inherited slot.  With GATE_EARLY_RELEASE nobody ever
   hands one over. *)
Admitted(t) ==
    /\ InheritOccupy(t)
    /\ StartSending(t, kind[t])
    /\ UNCHANGED <<early, body, orphans>>

(* acquire() raises 503: QUEUE_TIMEOUT, or pushed out of the queue. *)
TurnedAway(t) ==
    /\ GiveUp(t) \/ RaiseDropped(t)
    /\ End(t)
    /\ UNCHANGED <<early, body, orphans, sends>>

(* Both senders pass stream=True: an ordinary request, too, is answered in pieces when it
   turns out to be long. *)
SentAsStream == [k \in Kind |-> TRUE]

ShouldRetryStatus(t) == SentAsStream[kind[t]] /\ attempt[t] < RetryTries

(* The backend answers 502, 503 or 504: the answer is closed and the request waits for its
   next attempt.  After the last one such an answer is handed on like any other. *)
RetryStatus(t) ==
    /\ at[t] = "sending" /\ ShouldRetryStatus(t)
    /\ MoveTo(t, kind[t], "pausing")
    /\ refused' = [refused EXCEPT ![t] = @ + 1]
    /\ UNCHANGED <<vars, early, body, orphans, attempt>>

(* No connection was made, or none was free: the backend has not seen the request.  Other
   errors are not retried. *)
RetryException(t) ==
    /\ at[t] = "sending" /\ attempt[t] < RetryTries
    /\ MoveTo(t, kind[t], "pausing")
    /\ UNCHANGED <<vars, early, body, orphans, sends>>

(* RETRY_INTERVAL_MS have passed. *)
SendAgain(t) ==
    /\ at[t] = "pausing"
    /\ MoveTo(t, kind[t], "sending")
    /\ attempt' = [attempt EXCEPT ![t] = @ + 1]
    /\ UNCHANGED <<vars, early, body, orphans, refused>>

(* _send_with_fixed_retries raises, after the last attempt or an error that is not retried:
   the slot is given back and the exception goes to the framework. *)
SendFails(t) ==
    /\ SendingIsOver(t)
    /\ ReleaseIfHeld(t)
    /\ End(t)
    /\ UNCHANGED <<early, body, orphans>>

(* The backend has answered with a body that is to be read in one piece: one of
   NONSTREAM_THRESHOLD bytes at most, or any for an Anthropic request. *)
StartReading(t) ==
    /\ SendingIsOver(t) /\ kind[t] # "stream"
    /\ MoveTo(t, kind[t], "reading")
    /\ UNCHANGED <<vars, early, body, orphans>>

(* aread() returns or raises: the slot is given back in either case. *)
ReadEnds(t) ==
    /\ at[t] = "reading"
    /\ ReleaseIfHeld(t)
    /\ End(t)
    /\ UNCHANGED <<early, body, orphans, sends>>

(* CancelledError reaches the handler where it awaits the backend or the pause: it is no
   Exception, and only _forward_anthropic_nonstream has a finally. *)
HandlerCancelled(t) ==
    /\ at[t] \in {"sending", "pausing", "reading"}
    /\ IF kind[t] = "messages" THEN ReleaseIfHeld(t) ELSE UNCHANGED vars
    /\ MoveTo(t, kind[t], "free")
    /\ attempt' = [attempt EXCEPT ![t] = 0] /\ refused' = [refused EXCEPT ![t] = 0]
    /\ UNCHANGED <<early, body, orphans>>

(* The handler returns a StreamingResponse over _stream_gen or _pipe_nonstream, and
   Starlette starts a task c for its body. *)
StartBody(t) ==
    /\ SendingIsOver(t) /\ kind[t] # "messages"
    /\ \E c \in Task \ {t} :
        /\ Idle(c)
        /\ at' = [at EXCEPT ![t] = "responding", ![c] = "streaming"]
        /\ kind' = [kind EXCEPT ![c] = "body"]
        /\ body' = [body EXCEPT ![t] = c]
    /\ UNCHANGED <<vars, early, orphans>>

(* The generator comes to its end (end of the backend's answer, an error in it, or a
   disconnect that the generator saw) and runs its finally in the body's task. *)
BodyEnds(t) ==
    /\ at[t] = "responding"
    /\ ReleaseIfHeld(body[t])
    /\ EndBoth(t)
    /\ UNCHANGED <<early, orphans, sends>>

(* Starlette saw the disconnect and cancels the body's task.  Suspended in send(), it
   leaves the generator at a yield, to be closed by the event loop later: then aclose()
   raises GeneratorExit there, and a generator that yields what it has buffered never
   reaches release().  (Suspended in the generator itself, it may run the finally as in
   BodyEnds.) *)
BodyCancelled(t) ==
    /\ at[t] = "responding"
    /\ EndBoth(t)
    /\ orphans' \in {orphans, orphans + 1} \cap 0..MaxOrphans
    /\ UNCHANGED <<vars, early, sends>>

(* The event loop closes a generator that was left at a yield, in a new task c. *)
CloseOrphan(c) ==
    /\ orphans > 0
    /\ Idle(c)
    /\ ReleaseIfHeld(c)
    /\ orphans' = orphans - 1
    /\ UNCHANGED <<early, kind, at, body, sends>>
-----------------------------------------------------------------------------
GatewayNext == \E t \in Task :
    \/ \E k \in Kind : AdmitDirectly(t, k) \/ PassGate(t, k) \/ Queue(t, k)
    \/ AnswerBusy(t)
    \/ KeepQueueing(t)
    \/ Admitted(t)
    \/ TurnedAway(t)
    \/ RetryStatus(t)
    \/ RetryException(t)
    \/ SendAgain(t)
    \/ SendFails(t)
    \/ StartReading(t)
    \/ ReadEnds(t)
    \/ HandlerCancelled(t)
    \/ StartBody(t)
    \/ BodyEnds(t)
    \/ BodyCancelled(t)
    \/ CloseOrphan(t)

GatewaySpec == GatewayInit /\ [][GatewayNext]_allVars
-----------------------------------------------------------------------------
(* The requests the backend is working for, or is to be sent again *)
InFlight == {t \in Task : at[t] \in {"sending", "pausing", "reading", "responding"}}

(* "Holding mode really limits the concurrency" (GATE_EARLY_RELEASE=false): the backend
   never works for more requests than the gate has slots, although bodies and closed
   generators call release() from tasks that may have the id of a request that ended. *)
ConcurrencyBounded ==
    ~early => Cardinality(InFlight) <= Cap["g0"] + Cap["g1"]

(* Whatever sequence of calls to release() the handlers make, from whichever task, no
   slot comes into being: the slots a layer can still give and those it has given never
   exceed its capacity. *)
NoSlotFromNowhere ==
    \A l \in Layer : ticket[l] + Cardinality(Owners(l)) <= Cap[l]

(* The id was that of a handler that CancelledError ended. *)
Cancelled(t) == at[t] = "free" /\ kind[t] \in Kind

(* A request that its own task answers, or ends with an Exception from the backend, owns
   nothing when that task ends; with CancelledError this is so of
   _forward_anthropic_nonstream alone. *)
OwnAnswerReturnsSlot ==
    [][\A t \in Task :
        /\ at[t] \in {"sending", "pausing", "reading"} /\ at'[t] = "free"
        /\ Cancelled(t)' => kind[t] = "messages"
        => holders'[t] = "none"]_allVars

(* "A finally ensures the release, in line with _forward_nonstream", which releases "on an
   exception too, to avoid a leak": an ordinary request that is cancelled, by the server's
   shutdown say, owns nothing afterwards. *)
CancelledReturnsSlot ==
    \A t \in Task : Cancelled(t) /\ kind[t] = "nonstream" => holders[t] = "none"


(* _should_retry_status: only streamed requests are retried on a status, "ordinary requests
   are not", which keeps them predictable: once the backend has refused one, it does not get
   it again. *)
OrdinaryNotRetried ==
    \A t \in Task : kind[t] = "nonstream" /\ refused[t] > 0 => at[t] # "sending"
=============================================================================
