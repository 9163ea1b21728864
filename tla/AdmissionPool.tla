---------------------------- MODULE AdmissionPool ----------------------------
(***************************************************************************)
(* What the proxy's admission gate promises, with its semaphores, futures  *)
(* and asyncio.Queue taken away: a pool of Slots slots handed out in order *)
(* of arrival.  A task that finds the pool exhausted joins a line; a slot  *)
(* given back goes to the first in line and to nobody else; nobody stands  *)
(* in line while a slot is free.  A task may leave the line without a slot *)
(* (it times out, is cancelled, or is pushed out by a newcomer).           *)
(*                                                                         *)
(* The line is not a sequence but the order itself: who is in it, and who  *)
(* came before whom.  QueueGate implements this specification (see         *)
(* QueueGate!Pool), and module GateProofs proves it.                       *)
(***************************************************************************)
EXTENDS Naturals, FiniteSets

CONSTANTS Task,    (* the asyncio tasks that ask for a slot *)
          Slots    (* how many of them may hold one: a number (GateAssumption) *)

VARIABLES holding,  \* the tasks that own a slot
          line,     \* the tasks waiting for one
          ahead     \* for each of them, those in line before it

vars == <<holding, line, ahead>>

Exhausted == Cardinality(holding) = Slots

First(h) == h \in line /\ ahead[h] = {}

Init == holding = {} /\ line = {} /\ ahead = [t \in Task |-> {}]

(* The order of the line without u *)
AheadWithout(u) == [t \in Task |-> IF t = u THEN {} ELSE ahead[t] \ {u}]

(* A free slot is taken at once; there is nobody to overtake. *)
Enter(t) ==
    /\ t \notin holding
    /\ line = {}
    /\ Cardinality(holding) < Slots
    /\ holding' = holding \cup {t}
    /\ UNCHANGED <<line, ahead>>

(* No slot is free: t takes the last place in the line. *)
Join(t) ==
    /\ Exhausted
    /\ t \notin holding \cup line
    /\ line' = line \cup {t}
    /\ ahead' = [ahead EXCEPT ![t] = line]
    /\ UNCHANGED holding

(* As Join, the line being full: the first in it makes room. *)
JoinPushingOut(t) ==
    /\ Exhausted
    /\ t \notin holding \cup line
    /\ \E h \in Task :
        /\ First(h)
        /\ line' = (line \ {h}) \cup {t}
        /\ ahead' = [AheadWithout(h) EXCEPT ![t] = line \ {h}]
    /\ UNCHANGED holding

(* t gives its slot back, to the first in line if there is one. *)
Return(t) ==
    /\ t \in holding
    /\ \/ /\ line = {}
          /\ holding' = holding \ {t}
          /\ UNCHANGED <<line, ahead>>
       \/ \E h \in Task :
          /\ First(h)
          /\ holding' = (holding \ {t}) \cup {h}
          /\ line' = line \ {h}
          /\ ahead' = AheadWithout(h)

(* A task leaves the line empty-handed. *)
Leave(t) ==
    /\ t \in line
    /\ line' = line \ {t}
    /\ ahead' = AheadWithout(t)
    /\ UNCHANGED holding

Next == \E t \in Task : Enter(t) \/ Join(t) \/ JoinPushingOut(t) \/ Return(t) \/ Leave(t)

Spec == Init /\ [][Next]_vars
=============================================================================
