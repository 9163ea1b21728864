-------------------------- MODULE SupervisorProofs --------------------------
(***************************************************************************)
(* Proofs about Supervisor, for any modes and any thresholds.              *)
(*                                                                         *)
(* The launcher decides to give up on a round that looks at one process    *)
(* after the other: what it saw of the first must still hold when it looks *)
(* at the last.  And crash_count is one too high at most, because only the *)
(* first exit of a process that the launch started finds it unstamped.     *)
(***************************************************************************)
EXTENDS Supervisor, TLAPS

ControlTypeOK ==
    /\ mode \in Mode
    /\ pc \in {"launch", "settle", "check", "restart", "poll", "sleep", "stop", "ended"}
    /\ i \in 1..Len(Processes)
    /\ attempt \in Nat
    /\ os \in [Name -> {"none", "alive", "dead"}]
    /\ leaked \in SUBSET Name
    /\ crashes \in [Name -> Nat] /\ early \in [Name -> Nat]

(* A round starts with the first process, and one passed as down is still down. *)
RoundStands ==
    /\ pc \notin {"restart", "poll"} => i = 1
    /\ pc \in {"restart", "poll"} /\ alldead =>
            \A j \in 1..(i - 1) : os[Processes[j]] # "alive"

(* Nothing has been counted against a process of the launch while it runs, or is about
   to be looked at for the first time. *)
UnstampedIsUncounted ==
    \A p \in Name : pc \in {"launch", "settle"} \/ (p \notin stamped /\ os[p] # "none")
                        => crashes[p] = 0

Counted == OneExitMiscounted /\ UnstampedIsUncounted

Inv == ControlTypeOK /\ RoundStands /\ Counted
-----------------------------------------------------------------------------
LEMMA MinOfTwo ==
    ASSUME NEW a \in Int, NEW b \in Int
    PROVE  Min({a, b}) = IF a <= b THEN a ELSE b
<1> DEFINE m == IF a <= b THEN a ELSE b
<1>1. m \in {a, b} /\ \A y \in {a, b} : m <= y
  OBVIOUS
<1>2. \A x \in {a, b} : (\A y \in {a, b} : x <= y) => x = m
  OBVIOUS
<1>3. QED
  BY <1>1, <1>2 DEF Min

(* The list of a mode names one or two different processes. *)
LEMMA ListOfMode ==
    ASSUME NEW m \in Mode
    PROVE  \/ Managed(m) = <<"proxy", "health">>
           \/ Managed(m) = <<"health">>
BY DEF Managed

LEMMA Names ==
    ASSUME ControlTypeOK
    PROVE  /\ Len(Processes) \in 1..2
           /\ \A j \in 1..Len(Processes) : Processes[j] \in Name
           /\ \A j, k \in 1..Len(Processes) : Processes[j] = Processes[k] => j = k
           /\ ProcessSet = {Processes[j] : j \in 1..Len(Processes)}
<1>1. CASE Processes = <<"proxy", "health">>
  BY <1>1 DEF Name, ProcessSet, ToSet
<1>2. CASE Processes = <<"health">>
  BY <1>2 DEF Name, ProcessSet, ToSet
<1>3. QED
  BY <1>1, <1>2, ListOfMode DEF ControlTypeOK, Processes

LEMMA InitInv == Init => Inv
<1> SUFFICES ASSUME Init PROVE Inv
  OBVIOUS
<1>1. mode \in Mode
  BY SupervisorAssumption DEF Init
<1>2. Len(Processes) \in 1..2
  <2>1. Processes = <<"proxy", "health">> \/ Processes = <<"health">>
    BY <1>1, ListOfMode DEF Processes
  <2>2. QED
    BY <2>1
<1>3. ControlTypeOK
  BY <1>1, <1>2 DEF Init, ControlTypeOK
<1>4. QED
  BY <1>3 DEF Init, Inv, RoundStands, Counted, OneExitMiscounted, UnstampedIsUncounted

(* A step that counts nothing and starts nothing keeps the count. *)
LEMMA SameCount ==
    ASSUME Inv, UNCHANGED clocks, pc' \in {"launch", "settle"} => pc \in {"launch", "settle"},
           \A p \in Name : \/ pc \in {"launch", "settle"}
                           \/ os'[p] # "none" => os[p] # "none"
    PROVE  Counted'
BY DEF Inv, Counted, OneExitMiscounted, UnstampedIsUncounted, clocks

(* Steps that touch neither the list nor the round *)
LEMMA LaunchInv == Inv /\ Launch => Inv'
<1> SUFFICES ASSUME Inv, Launch PROVE Inv'
  OBVIOUS
<1>1. mode' = mode /\ i' = i /\ pc' \notin {"restart", "poll"}
  BY DEF Launch, StartAll, PlanFails, SomeExitedAtOnce, AllRunning, AttemptFails
<1>2. Processes' = Processes
  BY <1>1 DEF Processes
<1>3. ControlTypeOK'
  <2>1. CASE StartAll
    BY <1>1, <1>2, <2>1 DEF StartAll, Inv, ControlTypeOK, clocks
  <2>2. CASE AttemptFails
    BY <1>1, <1>2, <2>2 DEF AttemptFails, Inv, ControlTypeOK, clocks
  <2>3. CASE AllRunning
    BY <1>1, <1>2, <2>3 DEF AllRunning, Inv, ControlTypeOK, clocks
  <2>4. QED
    BY <2>1, <2>2, <2>3 DEF Launch, PlanFails, SomeExitedAtOnce
<1>4. RoundStands'
  <2>1. pc \notin {"restart", "poll"}
    BY DEF Launch, StartAll, PlanFails, SomeExitedAtOnce, AllRunning
  <2>2. QED
    BY <1>1, <2>1 DEF Inv, RoundStands
<1>5. Counted'
  <2>1. UNCHANGED clocks /\ pc \in {"launch", "settle"}
    BY DEF Launch, StartAll, PlanFails, SomeExitedAtOnce, AllRunning, AttemptFails
  <2>2. QED
    BY <2>1, SameCount
<1>6. QED
  BY <1>3, <1>4, <1>5 DEF Inv

(* What _restart_if_needed may do to the process it looks at, and to no other *)
LEMMA RestartType ==
    ASSUME Inv, RestartIfNeeded
    PROVE  /\ os' \in [Name -> {"none", "alive", "dead"}]
           /\ \A q \in Name : q # Processes[i] => os'[q] = os[q]
<1>1. os \in [Name -> {"none", "alive", "dead"}] /\ Processes[i] \in Name
  BY Names DEF Inv, ControlTypeOK
<1>2. CASE RestartMissing(Processes[i])
  BY <1>1, <1>2 DEF RestartMissing, Started
<1>3. CASE LeaveRunning(Processes[i])
  BY <1>1, <1>3 DEF LeaveRunning
<1>4. CASE CountCrash(Processes[i])
  BY <1>1, <1>4 DEF CountCrash
<1>5. CASE RestartStable(Processes[i])
  BY <1>1, <1>5 DEF RestartStable, Started
<1>6. QED
  BY <1>2, <1>3, <1>4, <1>5 DEF RestartIfNeeded

(* A look at one process counts one exit of it, or none. *)
LEMMA RestartCounts ==
    ASSUME Inv, RestartIfNeeded
    PROVE  crashes' \in [Name -> Nat] /\ early' \in [Name -> Nat] /\ Counted'
<1> DEFINE p == Processes[i]
<1>1. /\ p \in Name /\ MaxCrashes \in Nat \ {0}
      /\ crashes \in [Name -> Nat] /\ early \in [Name -> Nat]
      /\ os \in [Name -> {"none", "alive", "dead"}]
  BY Names, SupervisorAssumption DEF Inv, ControlTypeOK
<1>2. pc = "restart" /\ pc' = "poll"
  BY DEF RestartIfNeeded
<1>3. \A q \in Name : /\ early[q] <= crashes[q] /\ crashes[q] <= early[q] + 1
                      /\ q \notin stamped /\ os[q] # "none" => crashes[q] = 0
  BY DEF Inv, Counted, OneExitMiscounted, UnstampedIsUncounted
<1> HIDE DEF p
<1>4. CASE RestartMissing(p)
  <2>1. UNCHANGED <<crashes, early>> /\ os[p] = "none"
    BY <1>4 DEF RestartMissing
  <2>2. \/ UNCHANGED <<os, stamped>>
        \/ stamped' = stamped \cup {p} /\ Started(p)
    BY <1>4 DEF RestartMissing
  <2>3. \A q \in Name : q \notin stamped' /\ os'[q] # "none" => q \notin stamped /\ os[q] # "none"
    BY <1>1, <2>1, <2>2 DEF Started
  <2>4. QED
    BY <1>1, <1>2, <1>3, <2>1, <2>3 DEF Counted, OneExitMiscounted, UnstampedIsUncounted
<1>5. CASE LeaveRunning(p)
  BY <1>1, <1>2, <1>3, <1>5
  DEF LeaveRunning, clocks, Counted, OneExitMiscounted, UnstampedIsUncounted
<1>6. CASE CountCrash(p)
  <2>1. PICK c \in Nat, e \in Nat : c = crashes[p] /\ e = early[p]
    BY <1>1
  <2>2. /\ Min({c + 1, MaxCrashes}) = IF c + 1 <= MaxCrashes THEN c + 1 ELSE MaxCrashes
        /\ Min({e + 1, MaxCrashes}) = IF e + 1 <= MaxCrashes THEN e + 1 ELSE MaxCrashes
    BY <1>1, MinOfTwo
  <2>3. PICK d \in Nat, f \in Nat :
            /\ d = (IF c + 1 <= MaxCrashes THEN c + 1 ELSE MaxCrashes)
            /\ f = (IF age[p] < Threshold
                      THEN (IF e + 1 <= MaxCrashes THEN e + 1 ELSE MaxCrashes) ELSE 0)
    BY <1>1
  <2>4. crashes' = [crashes EXCEPT ![p] = d] /\ early' = [early EXCEPT ![p] = f]
    BY <1>1, <1>6, <2>1, <2>2, <2>3 DEF CountCrash
  <2>5. p \in stamped => age[p] < Threshold
    BY <1>6 DEF CountCrash
  <2>6. e <= c /\ c <= e + 1 /\ (p \notin stamped => c = 0)
    BY <1>1, <1>3, <1>6, <2>1 DEF CountCrash
  <2>7. f <= d /\ d <= f + 1
    BY <1>1, <2>3, <2>5, <2>6
  <2>8. os' = [os EXCEPT ![p] = "none"] /\ stamped' = stamped
    BY <1>6 DEF CountCrash
  <2>9. \A q \in Name : q # p => crashes'[q] = crashes[q] /\ early'[q] = early[q] /\ os'[q] = os[q]
    BY <1>1, <2>4, <2>8
  <2>10. crashes'[p] = d /\ early'[p] = f /\ os'[p] = "none"
    BY <1>1, <2>4, <2>8
  <2>11. OneExitMiscounted'
    <3> SUFFICES ASSUME NEW q \in Name PROVE early'[q] <= crashes'[q] /\ crashes'[q] <= early'[q] + 1
      BY DEF OneExitMiscounted
    <3>1. CASE q = p
      BY <2>7, <2>10, <3>1
    <3>2. CASE q # p
      BY <1>3, <2>9, <3>2
    <3>3. QED
      BY <3>1, <3>2
  <2>12. UnstampedIsUncounted'
    BY <1>2, <1>3, <2>8, <2>9, <2>10 DEF UnstampedIsUncounted
  <2>13. QED
    BY <1>1, <2>4, <2>11, <2>12 DEF Counted
<1>7. CASE RestartStable(p)
  <2>1. /\ crashes' = [crashes EXCEPT ![p] = 0] /\ early' = [early EXCEPT ![p] = 0]
        /\ p \in stamped /\ stamped' = stamped /\ Started(p)
    BY <1>7 DEF RestartStable
  <2>2. \A q \in Name : q # p => os'[q] = os[q]
    BY <1>1, <2>1 DEF Started
  <2>3. QED
    BY <1>1, <1>2, <1>3, <2>1, <2>2 DEF Counted, OneExitMiscounted, UnstampedIsUncounted
<1>8. QED
  BY <1>4, <1>5, <1>6, <1>7 DEF RestartIfNeeded, p

LEMMA RestartInv == Inv /\ RestartIfNeeded => Inv'
<1> SUFFICES ASSUME Inv, RestartIfNeeded PROVE Inv'
  OBVIOUS
<1>1. /\ pc = "restart" /\ pc' = "poll"
      /\ UNCHANGED <<mode, i, attempt, leaked, alldead, stop, code>>
  BY DEF RestartIfNeeded
<1>2. Processes' = Processes
  BY <1>1 DEF Processes
<1>3. ControlTypeOK'
  BY <1>1, <1>2, RestartType, RestartCounts DEF Inv, ControlTypeOK
<1>4. RoundStands'
  <2> SUFFICES ASSUME alldead, NEW j \in 1..(i - 1)
               PROVE  os'[Processes[j]] # "alive"
    BY <1>1, <1>2 DEF RoundStands
  <2>1. i \in 1..Len(Processes) /\ Len(Processes) \in 1..2
    BY Names DEF Inv, ControlTypeOK
  <2>2. j \in 1..Len(Processes) /\ j # i
    BY <2>1
  <2>3. Processes[j] \in Name /\ Processes[j] # Processes[i]
    BY <2>1, <2>2, Names DEF Inv
  <2>4. os[Processes[j]] # "alive"
    BY <1>1 DEF Inv, RoundStands
  <2>5. QED
    BY <2>3, <2>4, RestartType
<1>5. Counted'
  BY RestartCounts
<1>6. QED
  BY <1>3, <1>4, <1>5 DEF Inv

(* The round goes on to the next process, or all of them have been seen. *)
LEMMA PollInv == Inv /\ PollAlive => Inv'
<1> SUFFICES ASSUME Inv, PollAlive PROVE Inv'
  OBVIOUS
<1>1. /\ pc = "poll" /\ alldead' = (alldead /\ os[Processes[i]] # "alive")
      /\ UNCHANGED <<mode, attempt, os, leaked, clocks, stop>> /\ pc' \notin {"launch", "settle"}
  BY DEF PollAlive
<1>2. Processes' = Processes
  BY <1>1 DEF Processes
<1>3. i \in 1..Len(Processes) /\ Len(Processes) \in 1..2
  BY Names DEF Inv, ControlTypeOK
<1>4. CASE i < Len(Processes)
  <2>1. i' = i + 1 /\ pc' = "restart"
    BY <1>4 DEF PollAlive
  <2>2. i + 1 \in 1..Len(Processes)
    BY <1>3, <1>4
  <2>3. ControlTypeOK'
    BY <1>1, <1>2, <2>1, <2>2 DEF Inv, ControlTypeOK, clocks
  <2>4. RoundStands'
    <3> SUFFICES ASSUME alldead', NEW j \in 1..(i' - 1)
                 PROVE  os[Processes[j]] # "alive"
      BY <1>1, <1>2, <2>1 DEF RoundStands
    <3>1. alldead /\ os[Processes[i]] # "alive"
      BY <1>1
    <3>2. j \in 1..(i - 1) \/ j = i
      BY <1>3, <2>1
    <3>3. QED
      BY <1>1, <3>1, <3>2 DEF Inv, RoundStands
  <2>5. Counted'
    BY <1>1, SameCount
  <2>6. QED
    BY <2>3, <2>4, <2>5 DEF Inv
<1>5. CASE ~(i < Len(Processes))
  <2>1. i' = 1 /\ pc' \in {"stop", "sleep"}
    BY <1>5 DEF PollAlive
  <2>2. ControlTypeOK'
    BY <1>1, <1>2, <1>3, <2>1 DEF Inv, ControlTypeOK, clocks
  <2>3. RoundStands' /\ Counted'
    BY <1>1, <2>1, SameCount DEF Inv, RoundStands
  <2>4. QED
    BY <2>2, <2>3 DEF Inv
<1>6. QED
  BY <1>4, <1>5

(* A round starts with nobody passed. *)
LEMMA TurnInv == Inv /\ Turn => Inv'
<1> SUFFICES ASSUME Inv, Turn PROVE Inv'
  OBVIOUS
<1>1. /\ pc = "check" /\ pc' \in {"stop", "restart"}
      /\ UNCHANGED <<mode, i, attempt, os, leaked, clocks>>
  BY DEF Turn
<1>2. Processes' = Processes
  BY <1>1 DEF Processes
<1>3. ControlTypeOK' /\ Counted'
  BY <1>1, <1>2, SameCount DEF Inv, ControlTypeOK, clocks
<1>4. RoundStands'
  <2>1. i' = 1 /\ 1..(1 - 1) = {}
    BY <1>1 DEF Inv, RoundStands
  <2>2. QED
    BY <1>1, <2>1 DEF RoundStands
<1>5. QED
  BY <1>3, <1>4 DEF Inv

LEMMA SleepInv == Inv /\ (Sleep \/ StopAll) => Inv'
<1> SUFFICES ASSUME Inv, Sleep \/ StopAll PROVE Inv'
  OBVIOUS
<1>1. /\ UNCHANGED <<mode, i, attempt, crashes, early, stamped>> /\ pc \in {"sleep", "stop"}
      /\ leaked' \in SUBSET Name
      /\ \/ pc' = "check" /\ os' = os
         \/ pc' = "ended" /\ os' = [p \in Name |-> "none"]
  BY DEF Sleep, StopAll, clocks, Inv, ControlTypeOK
<1>2. Processes' = Processes
  BY <1>1 DEF Processes
<1>3. ControlTypeOK'
  BY <1>1, <1>2 DEF Inv, ControlTypeOK
<1>4. RoundStands'
  BY <1>1 DEF Inv, RoundStands
<1>5. Counted'
  BY <1>1 DEF Inv, ControlTypeOK, Counted, OneExitMiscounted, UnstampedIsUncounted
<1>6. QED
  BY <1>3, <1>4, <1>5 DEF Inv

LEMMA SignalInv == Inv /\ (Signal \/ UNCHANGED vars) => Inv'
<1> SUFFICES ASSUME Inv, Signal \/ UNCHANGED vars PROVE Inv'
  OBVIOUS
<1>1. UNCHANGED <<mode, pc, i, attempt, os, leaked, crashes, early, stamped, alldead>>
  BY DEF Signal, vars, clocks
<1>2. Processes' = Processes
  BY <1>1 DEF Processes
<1>3. QED
  BY <1>1, <1>2
  DEF Inv, ControlTypeOK, RoundStands, Counted, OneExitMiscounted, UnstampedIsUncounted

(* Nobody comes up by exiting. *)
LEMMA ExitInv ==
    ASSUME Inv, NEW p \in Name, Exit(p)
    PROVE  Inv'
<1>1. /\ UNCHANGED <<mode, pc, i, attempt, clocks, alldead>>
      /\ os' = os \/ (os[p] = "alive" /\ os' = [os EXCEPT ![p] = "dead"])
      /\ leaked' \subseteq leaked
  BY DEF Exit
<1>2. Processes' = Processes
  BY <1>1 DEF Processes
<1>3. ControlTypeOK'
  BY <1>1, <1>2 DEF Inv, ControlTypeOK, clocks
<1>4. \A q \in Name : os[q] # "alive" => os'[q] # "alive"
  BY <1>1 DEF Inv, ControlTypeOK
<1>5. RoundStands'
  <2>1. \A j \in 1..(i - 1) : Processes[j] \in Name
    <3>1. i \in 1..Len(Processes) /\ Len(Processes) \in 1..2
      BY Names DEF Inv, ControlTypeOK
    <3>2. \A j \in 1..(i - 1) : j \in 1..Len(Processes)
      BY <3>1
    <3>3. QED
      BY <3>2, Names DEF Inv
  <2>2. QED
    BY <1>1, <1>2, <1>4, <2>1 DEF Inv, RoundStands
<1>6. Counted'
  BY <1>1, SameCount DEF Inv, ControlTypeOK
<1>7. QED
  BY <1>3, <1>5, <1>6 DEF Inv

LEMMA Invariance == Spec => []Inv
<1>1. ASSUME Inv, [Next]_vars PROVE Inv'
  <2>1. CASE Launch
    BY <1>1, <2>1, LaunchInv
  <2>2. CASE Daemon
    BY <1>1, <2>2, TurnInv, RestartInv, PollInv, SleepInv DEF Daemon
  <2>3. CASE Signal \/ UNCHANGED vars
    BY <1>1, <2>3, SignalInv
  <2>4. ASSUME NEW p \in Name, Exit(p) PROVE Inv'
    BY <1>1, <2>4, ExitInv
  <2>5. QED
    BY <1>1, <2>1, <2>2, <2>3, <2>4 DEF Next
<1>2. QED
  BY <1>1, InitInv, PTL DEF Spec
-----------------------------------------------------------------------------
(* _restart_if_needed: for any thresholds and any course of exits, failed starts and looks,
   crash_count exceeds the early exits in a row by one at most, the first exit of a process
   that the launch itself started. *)
THEOREM MiscountsOneExitAtMost == Spec => []OneExitMiscounted
<1>1. Inv => OneExitMiscounted
  BY DEF Inv, Counted
<1>2. QED
  BY <1>1, Invariance, PTL

(* _check_and_restart_all: the round in which the launcher gives up ends with every
   process of its list down, although it has looked at them one after the other, with
   exits in between. *)
THEOREM GaveUpWhenAllDown == Spec => GivesUpOnlyWhenAllDown
<1>1. ASSUME Inv, [Next]_vars, pc = "poll", code' # code
      PROVE  \A p \in ProcessSet : os[p] # "alive"
  <2>1. PollAlive
    BY <1>1 DEF Next, vars, Launch, StartAll, PlanFails, SomeExitedAtOnce, AllRunning, Daemon,
      Turn, RestartIfNeeded, Sleep, StopAll, Signal, Exit
  <2>2. alldead' /\ i >= Len(Processes)
    <3>1. i \in Int /\ Len(Processes) \in Int
      BY <1>1, Names DEF Inv, ControlTypeOK
    <3>2. QED
      BY <1>1, <2>1, <3>1 DEF PollAlive
  <2>3. alldead /\ os[Processes[i]] # "alive"
    BY <2>1, <2>2 DEF PollAlive
  <2>4. \A j \in 1..(i - 1) : os[Processes[j]] # "alive"
    BY <1>1, <2>3 DEF Inv, RoundStands
  <2>5. i = Len(Processes) /\ Len(Processes) \in 1..2
    BY <1>1, <2>2, Names DEF Inv, ControlTypeOK
  <2>6. \A j \in 1..Len(Processes) : j = i \/ j \in 1..(i - 1)
    BY <2>5
  <2>7. QED
    BY <1>1, <2>3, <2>4, <2>6, Names DEF Inv
<1>2. Inv /\ [Next]_vars =>
        (pc = "poll" /\ code' # code => \A p \in ProcessSet : os[p] # "alive")
  BY <1>1
<1>3. QED
  BY <1>2, Invariance, PTL DEF Spec, GivesUpOnlyWhenAllDown
=============================================================================
