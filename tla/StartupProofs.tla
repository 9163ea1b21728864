---------------------------- MODULE StartupProofs ----------------------------
(***************************************************************************)
(* Proofs about Startup, for any hosts, any values of NODE_IPS and any     *)
(* bounds.                                                                 *)
(*                                                                         *)
(* A request may be served long after the master has given it up, by a     *)
(* launcher that did not run when it was sent to the host.  So what a host *)
(* has been told is bounded by what is still under way to it as well.      *)
(***************************************************************************)
EXTENDS Startup, SequenceTheorems, FiniteSetTheorems, WellFoundedInduction, TLAPS

Ips == Tail(node_ips)

First == {i \in DOMAIN Ips : \A j \in 1..(i - 1) : Ips[j] # Ips[i]}

AtWorker == pc \in {"probe", "post", "await"}

ControlOK ==
    /\ node_ips \in NodeLists
    /\ pc \in {"register", "probe", "post", "await", "done", "gaveup"}
    /\ failed \in Nat
    /\ pc = "register" => rank = 1 /\ failed = 0
    /\ AtWorker => rank \in 1..Len(Workers)
    /\ answer # "none" => pc = "await"

HostsOK ==
    /\ up \in [Host -> {"down", "registering", "registered", "listening", "aborted"}]
    /\ starts \in [Host -> Nat]
    /\ listed \in SUBSET Host
    /\ pending = [h \in Host |-> pending[h]]
    /\ serving = [h \in Host |-> serving[h]]
    /\ script \in [Host -> [rank : Nat, whole : BOOLEAN]]
    /\ engine \in [Host -> [rank : Nat, whole : BOOLEAN]]

(* k is the rank of a name of host h. *)
IsRank(h, k) == k \in 1..Len(Workers) /\ Address[Workers[k]] = h

(* A host is told the ranks of its own names, however late. *)
ToldItsRank ==
    \A h \in Host :
        /\ \A r \in pending[h] : IsRank(h, r[1])
        /\ serving[h] # NoRequest => IsRank(h, serving[h][1]) /\ script[h].rank > 0
        /\ script[h].rank > 0 => IsRank(h, script[h].rank)
        /\ engine[h].rank > 0 => IsRank(h, engine[h].rank)

Shape == ControlOK /\ HostsOK /\ ToldItsRank

(* What the list shows now has been at some moment, and the dispatch follows on it. *)
ThereFirst ==
    /\ Workers # <<>> /\ WorkerHosts \subseteq listed => together
    /\ AllThereFirst

(* The first n workers, as far as they have no script *)
Unscripted(n) ==
    {w \in Name : script[Address[w]].rank = 0 /\ \E k \in 1..n : Workers[k] = w}

(* The failures counted make up for the workers left behind. *)
FailuresCounted ==
    /\ answer = "ok" => script[Target].rank > 0
    /\ AtWorker => /\ IsFiniteSet(Unscripted(rank - 1))
                   /\ Cardinality(Unscripted(rank - 1)) <= failed
    /\ pc = "done" => /\ IsFiniteSet(Unscripted(Len(Workers)))
                      /\ Cardinality(Unscripted(Len(Workers))) <= failed

(* Members of F up to i *)
UpTo(F, i) == {j \in F : j <= i}
-----------------------------------------------------------------------------
(* The workers are an enumeration of a finite set of positions. *)

LEMMA SmallestOne ==
    ASSUME NEW T \in SUBSET Nat, T # {}
    PROVE  \E x \in T : \A y \in T : x <= y
<1> DEFINE U == {0..x : x \in T}
           R == StrictSubsetOrdering(Nat)
<1>1. U \subseteq FiniteSubsetsOf(Nat) /\ U # {}
  <2>1. \A x \in T : 0..x \in SUBSET Nat /\ IsFiniteSet(0..x)
    BY FS_Interval
  <2>2. QED
    BY <2>1 DEF FiniteSubsetsOf
<1>2. IsWellFoundedOn(R, FiniteSubsetsOf(Nat))
  BY FS_StrictSubsetOrderingWellFounded
<1> HIDE DEF R
<1>3. \E u \in U : \A v \in U : <<v, u>> \notin R
  BY <1>1, <1>2, WFMin
<1>4. PICK x \in T : \A y \in T : <<0..y, 0..x>> \notin R
  BY <1>3
<1>5. ASSUME NEW y \in T, y < x PROVE FALSE
  <2>1. 0..y \subseteq 0..x /\ 0..y # 0..x
    <3>1. x \in 0..x /\ x \notin 0..y
      BY <1>5
    <3>2. QED
      BY <1>5, <3>1
  <2>2. 0..y \in SUBSET Nat /\ 0..x \in SUBSET Nat
    OBVIOUS
  <2>3. <<0..y, 0..x>> \in R
    BY <2>1, <2>2 DEF R, StrictSubsetOrdering
  <2>4. QED
    BY <1>4, <2>3
<1>6. QED
  BY <1>5

(* Counting on from one number to the next *)
LEMMA CountStep ==
    ASSUME NEW n \in Nat, NEW F \in SUBSET (1..n), NEW i \in 1..n
    PROVE  /\ IsFiniteSet(UpTo(F, i)) /\ Cardinality(UpTo(F, i)) \in Nat
           /\ Cardinality(UpTo(F, i - 1)) \in Nat
           /\ Cardinality(UpTo(F, i)) =
                IF i \in F THEN Cardinality(UpTo(F, i - 1)) + 1
                           ELSE Cardinality(UpTo(F, i - 1))
<1>f. IsFiniteSet(1..n) /\ \A j \in F : j \in 1..n
  BY FS_Interval
<1>1. IsFiniteSet(F)
  BY <1>f, FS_Subset
<1>2. /\ IsFiniteSet(UpTo(F, i)) /\ IsFiniteSet(UpTo(F, i - 1))
  BY <1>1, FS_Subset DEF UpTo
<1>3. CASE i \in F
  <2>1. UpTo(F, i) = UpTo(F, i - 1) \cup {i} /\ i \notin UpTo(F, i - 1)
    <3>1. \A j \in 1..n : (j <= i <=> j <= i - 1 \/ j = i) /\ ~(i <= i - 1)
      OBVIOUS
    <3>2. QED
      BY <1>f, <1>3, <3>1, Zenon DEF UpTo
  <2>2. QED
    BY <1>2, <1>3, <2>1, FS_AddElement, FS_CardinalityType
<1>4. CASE i \notin F
  <2>1. UpTo(F, i) = UpTo(F, i - 1)
    <3>1. \A j \in 1..n : j <= i <=> j <= i - 1 \/ j = i
      OBVIOUS
    <3>2. QED
      BY <1>f, <1>4, <3>1, Zenon DEF UpTo
  <2>2. QED
    BY <1>2, <1>4, <2>1, FS_CardinalityType
<1>5. QED
  BY <1>3, <1>4

(* Each number up to that of all members is reached at a member. *)
LEMMA CountReaches ==
    ASSUME NEW n \in Nat, NEW F \in SUBSET (1..n), NEW k \in 1..Cardinality(F)
    PROVE  \E i \in F : Cardinality(UpTo(F, i)) = k
<1> DEFINE T == {i \in 0..n : Cardinality(UpTo(F, i)) >= k}
<1>f. IsFiniteSet(1..n) /\ \A j \in F : j \in 1..n
  BY FS_Interval
<1>1. IsFiniteSet(F) /\ Cardinality(F) \in Nat
  BY <1>f, FS_Subset, FS_CardinalityType
<1>2. UpTo(F, n) = F /\ UpTo(F, 0) = {}
  <2>1. \A j \in 1..n : j <= n /\ ~(j <= 0)
    OBVIOUS
  <2>2. QED
    BY <1>f, <2>1, Zenon DEF UpTo
<1>3. n \in T
  BY <1>1, <1>2
<1>4. PICK i \in T : \A y \in T : i <= y
  <2>1. T \in SUBSET Nat
    OBVIOUS
  <2>2. QED
    BY <1>3, <2>1, SmallestOne
<1>5. i # 0
  BY <1>2, FS_EmptySet
<1>6. i \in 1..n /\ i - 1 \in 0..n
  BY <1>5
<1>7. i - 1 \notin T
  BY <1>4, <1>6
<1>8. ~(Cardinality(UpTo(F, i - 1)) >= k)
  BY <1>6, <1>7
<1>9. QED
  <2>1. Cardinality(UpTo(F, i)) >= k /\ k \in Nat
    BY <1>4
  <2>2. /\ Cardinality(UpTo(F, i - 1)) \in Nat
        /\ Cardinality(UpTo(F, i)) = IF i \in F THEN Cardinality(UpTo(F, i - 1)) + 1
                                                 ELSE Cardinality(UpTo(F, i - 1))
    BY <1>6, CountStep
  <2>3. i \in F /\ Cardinality(UpTo(F, i)) = k
    BY <1>8, <2>1, <2>2
  <2>4. QED
    BY <2>3

(* worker_ips names workers of NODE_IPS, and no two the same. *)
LEMMA WorkersDiffer ==
    ASSUME node_ips \in NodeLists
    PROVE  /\ Workers \in Seq(Name)
           /\ Len(Workers) \in Nat /\ DOMAIN Workers = 1..Len(Workers)
           /\ \A j, k \in 1..Len(Workers) : Workers[j] = Workers[k] => j = k
           /\ \A k \in 1..Len(Workers) : Workers[k] \in Name /\ Address[Workers[k]] \in Host
           /\ WorkerSet = {Workers[k] : k \in 1..Len(Workers)}
           /\ WorkerSet \subseteq ToSet(Ips)
<1>1. Ips \in Seq(Name) /\ Len(Ips) \in Nat /\ DOMAIN Ips = 1..Len(Ips)
      /\ \A i \in 1..Len(Ips) : Ips[i] \in Name
  BY StartupAssumption, LenProperties, ElementOfSeq DEF Ips
<1>2. First \in SUBSET (1..Len(Ips)) /\ IsFiniteSet(First)
  <2>1. IsFiniteSet(1..Len(Ips))
    BY <1>1, FS_Interval
  <2>2. First \in SUBSET (1..Len(Ips))
    BY <1>1 DEF First
  <2>3. QED
    BY <2>1, <2>2, FS_Subset
<1>3. Cardinality(First) \in Nat
  BY <1>2, FS_CardinalityType
<1> DEFINE At(k) == CHOOSE i \in First : Cardinality(UpTo(First, i)) = k
<1>4. Workers = [k \in 1..Cardinality(First) |-> Ips[At(k)]]
  BY DEF Workers, First, Ips, UpTo
<1>5. \A k \in 1..Cardinality(First) :
          At(k) \in First /\ Cardinality(UpTo(First, At(k))) = k
  BY <1>1, <1>2, CountReaches
<1> HIDE DEF At
<1>6. \A i, j \in First : Ips[i] = Ips[j] => i = j
  <2> SUFFICES ASSUME NEW i \in First, NEW j \in First, Ips[i] = Ips[j], i # j
               PROVE  FALSE
    OBVIOUS
  <2>1. i \in Nat \ {0} /\ j \in Nat \ {0}
    BY <1>1, <1>2
  <2>2. i \in 1..(j - 1) \/ j \in 1..(i - 1)
    BY <2>1
  <2>3. QED
    BY <2>2 DEF First
<1>7. \A k \in 1..Cardinality(First) : Workers[k] \in Name
  BY <1>1, <1>2, <1>4, <1>5
<1>8. \A j, k \in 1..Cardinality(First) : Workers[j] = Workers[k] => j = k
  BY <1>4, <1>5, <1>6
<1>n. \A k \in 1..Cardinality(First) : Workers[k] \in ToSet(Ips)
  <2>1. \A i \in First : i \in DOMAIN Ips
    BY <1>1, <1>2
  <2>2. QED
    BY <1>4, <1>5, <2>1 DEF ToSet
<1>9. Workers \in Seq(Name) /\ Len(Workers) = Cardinality(First)
  BY <1>3, <1>4, <1>7
<1>10. QED
  BY <1>3, <1>7, <1>8, <1>9, <1>n, StartupAssumption, LenProperties DEF WorkerSet, ToSet
(* Where there are workers there is a host of one. *)
LEMMA SomeHost ==
    ASSUME node_ips \in NodeLists, Workers # <<>>
    PROVE  WorkerHosts # {}
<1>1. Workers \in Seq(Name)
  BY WorkersDiffer
<1>2. Len(Workers) \in Nat \ {0}
  BY <1>1, EmptySeq
<1>3. 1 \in 1..Len(Workers)
  BY <1>2
<1>4. Workers[1] \in WorkerSet
  BY <1>3, WorkersDiffer
<1>5. QED
  BY <1>4 DEF WorkerHosts
-----------------------------------------------------------------------------
LEMMA ShapeInit == Init => Shape
<1> SUFFICES ASSUME Init PROVE Shape
  OBVIOUS
<1>1. ControlOK
  BY DEF Init, ControlOK, AtWorker
<1>2. HostsOK
  BY DEF Init, HostsOK, NoScript
<1>3. ToldItsRank
  BY DEF Init, ToldItsRank, NoScript
<1>4. QED
  BY <1>1, <1>2, <1>3 DEF Shape

(* The list of workers is that of the environment, which nobody changes. *)
LEMMA WorkersStay ==
    ASSUME node_ips' = node_ips
    PROVE  Workers' = Workers /\ WorkerSet' = WorkerSet /\ WorkerHosts' = WorkerHosts
BY DEF Workers, WorkerSet, WorkerHosts

(* Going on to the next worker *)
LEMMA AdvanceControl ==
    ASSUME ControlOK, AtWorker, Advance, node_ips' = node_ips, failed' \in Nat,
           answer' = "none"
    PROVE  ControlOK'
<1>1. Workers' = Workers
  BY WorkersStay
<1>2. rank \in 1..Len(Workers) /\ Len(Workers) \in Nat
  BY WorkersDiffer DEF ControlOK
<1>3. CASE rank < Len(Workers)
  <2>1. pc' = "probe" /\ rank' = rank + 1
    BY <1>3 DEF Advance
  <2>2. rank + 1 \in 1..Len(Workers)
    BY <1>2, <1>3
  <2>3. QED
    BY <1>1, <2>1, <2>2 DEF ControlOK, AtWorker
<1>4. CASE ~(rank < Len(Workers))
  BY <1>1, <1>4 DEF Advance, ControlOK, AtWorker
<1>5. QED
  BY <1>3, <1>4

LEMMA DispatchControl ==
    ASSUME Shape, Dispatch
    PROVE  ControlOK' /\ node_ips' = node_ips
<1> USE DEF Shape
<1>1. node_ips' = node_ips /\ Workers' = Workers
  BY WorkersStay DEF Dispatch, NobodyToStart, SeeAllRegistered, PollAgain, ProbeAnswered,
    ProbeFails, Post, Answered, NotAnswered
<1>2. CASE NobodyToStart \/ PollAgain
  BY <1>1, <1>2 DEF NobodyToStart, PollAgain, ControlOK, AtWorker
<1>3. CASE SeeAllRegistered
  <2>1. Len(Workers) \in Nat \ {0}
    <3>1. Workers # <<>> /\ Workers \in Seq(Name)
      BY <1>3, WorkersDiffer DEF SeeAllRegistered, ControlOK
    <3>2. QED
      BY <3>1, EmptySeq
  <2>2. 1 \in 1..Len(Workers)
    BY <2>1
  <2>3. QED
    BY <1>1, <1>3, <2>2 DEF SeeAllRegistered, ControlOK, AtWorker
<1>4. CASE ProbeAnswered
  BY <1>1, <1>4 DEF ProbeAnswered, ControlOK, AtWorker
<1>5. CASE ProbeFails
  <2>1. CASE tries + 1 < MaxProbes
    BY <1>1, <1>5, <2>1 DEF ProbeFails, ControlOK, AtWorker
  <2>2. CASE ~(tries + 1 < MaxProbes)
    <3>1. AtWorker /\ Advance /\ failed' = failed + 1 /\ answer' = answer /\ answer = "none"
      BY <1>5, <2>2 DEF ProbeFails, Skip, AtWorker, ControlOK
    <3>2. QED
      BY <1>1, <3>1, AdvanceControl DEF ControlOK
  <2>3. QED
    BY <2>1, <2>2
<1>6. CASE Post
  BY <1>1, <1>6 DEF Post, ControlOK, AtWorker
<1>7. CASE Answered
  <2>1. AtWorker /\ Advance /\ failed' = failed /\ answer' = "none"
    BY <1>7 DEF Answered, AtWorker
  <2>2. QED
    BY <1>1, <2>1, AdvanceControl DEF ControlOK
<1>8. CASE NotAnswered
  <2>1. CASE tries < MaxTries
    BY <1>1, <1>8, <2>1 DEF NotAnswered, ControlOK, AtWorker
  <2>2. CASE ~(tries < MaxTries)
    <3>1. AtWorker /\ Advance /\ failed' = failed + 1 /\ answer' = "none"
      BY <1>8, <2>2 DEF NotAnswered, Skip, AtWorker
    <3>2. QED
      BY <1>1, <3>1, AdvanceControl DEF ControlOK
  <2>3. QED
    BY <2>1, <2>2
<1>9. QED
  BY <1>1, <1>2, <1>3, <1>4, <1>5, <1>6, <1>7, <1>8 DEF Dispatch

(* The dispatch tells nobody anything but by sending a request. *)
LEMMA DispatchHosts ==
    ASSUME Shape, Dispatch
    PROVE  HostsOK' /\ ToldItsRank'
<1> USE DEF Shape
<1>1. /\ node_ips' = node_ips /\ Workers' = Workers
      /\ UNCHANGED <<listed, up, starts, serving, script, engine>>
  BY WorkersStay DEF Dispatch, NobodyToStart, SeeAllRegistered, PollAgain, ProbeAnswered,
    ProbeFails, Post, Answered, NotAnswered, hosts, listing
<1>2. CASE pending' = pending
  BY <1>1, <1>2 DEF HostsOK, ToldItsRank, IsRank
<1>3. CASE Post /\ pending' # pending
  <2>1. pending' = [pending EXCEPT ![Target] = @ \cup {<<rank, tries'>>}]
    BY <1>3 DEF Post
  <2>2. IsRank(Target, rank)
    BY <1>3 DEF Post, ControlOK, AtWorker, IsRank, Target
  <2>3. HostsOK'
    BY <1>1, <2>1 DEF HostsOK
  <2>4. ASSUME NEW h \in Host, NEW r \in pending'[h] PROVE IsRank(h, r[1])
    <3>1. CASE r \in pending[h]
      BY <3>1 DEF ToldItsRank
    <3>2. CASE h = Target /\ r = <<rank, tries'>>
      BY <2>2, <3>2
    <3>3. QED
      BY <2>1, <2>4, <3>1, <3>2 DEF HostsOK
  <2>5. ToldItsRank'
    BY <1>1, <2>4 DEF ToldItsRank, IsRank
  <2>6. QED
    BY <2>3, <2>5
<1>4. QED
  BY <1>2, <1>3 DEF Dispatch, NobodyToStart, SeeAllRegistered, PollAgain, ProbeAnswered,
    ProbeFails, Answered, NotAnswered, hosts

(* One step of a worker's host *)
HostStep(h) ==
    \/ StartWorker(h) \/ Register(h) \/ Abort(h) \/ Listen(h) \/ WorkerEnds(h)
    \/ DropOff(h) \/ PlanFails(h) \/ OpenScript(h) \/ ScriptWritten(h) \/ WriteFails(h)
    \/ RunScript(h)

LEMMA HostControl ==
    ASSUME Shape, NEW h \in Host, HostStep(h)
    PROVE  ControlOK' /\ node_ips' = node_ips
<1>1. /\ UNCHANGED <<node_ips, pc, rank, failed>>
      /\ answer' # answer => pc = "await"
  BY DEF HostStep, StartWorker, Register, Abort, Listen, WorkerEnds, DropOff, PlanFails,
    OpenScript, ScriptWritten, WriteFails, RunScript, master, listing, Reply, Awaited
<1>2. Workers' = Workers
  BY <1>1, WorkersStay
<1>3. QED
  BY <1>1, <1>2 DEF Shape, ControlOK, AtWorker

(* The steps that tell nobody anything *)
LEMMA QuietHost ==
    ASSUME Shape, NEW h \in Host,
           \/ StartWorker(h) \/ Register(h) \/ Abort(h) \/ Listen(h) \/ WorkerEnds(h)
           \/ DropOff(h) \/ PlanFails(h)
    PROVE  HostsOK' /\ ToldItsRank'
<1> USE DEF Shape
<1>1. /\ UNCHANGED <<node_ips, script, engine>>
      /\ Workers' = Workers
  BY WorkersStay DEF StartWorker, Register, Abort, Listen, WorkerEnds, DropOff, PlanFails
<1>2. HostsOK'
  <2>1. CASE StartWorker(h)
    BY <1>1, <2>1 DEF StartWorker, HostsOK, master, listing
  <2>2. CASE Register(h)
    BY <1>1, <2>2 DEF Register, HostsOK
  <2>3. CASE Abort(h)
    BY <1>1, <2>3 DEF Abort, HostsOK, master, listing
  <2>4. CASE Listen(h)
    BY <1>1, <2>4 DEF Listen, HostsOK, master, listing
  <2>5. CASE WorkerEnds(h)
    BY <1>1, <2>5 DEF WorkerEnds, HostsOK, master, listing
  <2>6. CASE DropOff(h)
    BY <1>1, <2>6 DEF DropOff, HostsOK, hosts
  <2>7. CASE PlanFails(h)
    BY <1>1, <2>7 DEF PlanFails, HostsOK, listing
  <2>8. QED
    BY <2>1, <2>2, <2>3, <2>4, <2>5, <2>6, <2>7
<1>3. ASSUME NEW g \in Host
      PROVE  /\ pending'[g] \subseteq pending[g]
             /\ serving'[g] = serving[g] \/ serving'[g] = NoRequest
  BY DEF StartWorker, Register, Abort, Listen, WorkerEnds, DropOff, PlanFails, HostsOK, hosts
<1>4. ToldItsRank'
  BY <1>1, <1>3 DEF ToldItsRank, IsRank
<1>5. QED
  BY <1>2, <1>4

(* The steps that write and run a script *)
LEMMA ScriptHost ==
    ASSUME Shape, NEW h \in Host,
           OpenScript(h) \/ ScriptWritten(h) \/ WriteFails(h) \/ RunScript(h)
    PROVE  HostsOK' /\ ToldItsRank'
<1> USE DEF Shape
<1>1. node_ips' = node_ips /\ Workers' = Workers
  BY WorkersStay DEF OpenScript, ScriptWritten, WriteFails, RunScript
<1>2. CASE OpenScript(h)
  <2>1. PICK r \in pending[h] :
            /\ pending' = [pending EXCEPT ![h] = @ \ {r}]
            /\ serving' = [serving EXCEPT ![h] = r]
            /\ script' = [script EXCEPT ![h] = [rank |-> r[1], whole |-> FALSE]]
    BY <1>2 DEF OpenScript
  <2>2. UNCHANGED <<listed, up, starts, engine>>
    BY <1>2 DEF OpenScript, master, listing
  <2>3. IsRank(h, r[1]) /\ r[1] \in Nat /\ r[1] > 0
    <3>1. Len(Workers) \in Nat
      BY WorkersDiffer DEF ControlOK
    <3>2. QED
      BY <3>1 DEF ToldItsRank, IsRank
  <2>4. HostsOK'
    BY <2>1, <2>2, <2>3 DEF HostsOK
  <2>5. ASSUME NEW g \in Host
        PROVE  /\ pending'[g] \subseteq pending[g]
               /\ IF g = h THEN serving'[g] = r /\ script'[g].rank = r[1]
                           ELSE serving'[g] = serving[g] /\ script'[g] = script[g]
    BY <2>1 DEF HostsOK
  <2>6. ToldItsRank'
    BY <1>1, <2>2, <2>3, <2>5 DEF ToldItsRank, IsRank
  <2>7. QED
    BY <2>4, <2>6
<1>3. CASE ScriptWritten(h)
  <2>1. /\ serving' = [serving EXCEPT ![h] = NoRequest]
        /\ script' = [script EXCEPT ![h].whole = TRUE]
        /\ UNCHANGED <<listed, up, starts, pending, engine>>
    BY <1>3 DEF ScriptWritten, listing
  <2>2. HostsOK'
    BY <2>1 DEF HostsOK
  <2>3. \A g \in Host : /\ script'[g].rank = script[g].rank
                        /\ serving'[g] = serving[g] \/ serving'[g] = NoRequest
    BY <2>1 DEF HostsOK
  <2>4. QED
    BY <1>1, <2>1, <2>2, <2>3 DEF ToldItsRank, IsRank
<1>4. CASE WriteFails(h)
  <2>1. /\ serving' = [serving EXCEPT ![h] = NoRequest]
        /\ UNCHANGED <<listed, up, starts, pending, script, engine>>
    BY <1>4 DEF WriteFails, listing
  <2>2. QED
    BY <1>1, <2>1 DEF HostsOK, ToldItsRank, IsRank
<1>5. CASE RunScript(h)
  <2>1. /\ engine' = [engine EXCEPT ![h] = script[h]] /\ script[h].rank > 0
        /\ UNCHANGED <<listed, up, starts, pending, serving, script>>
    BY <1>5 DEF RunScript, master, listing, hosts
  <2>2. HostsOK'
    BY <2>1 DEF HostsOK
  <2>3. QED
    BY <1>1, <2>1, <2>2 DEF HostsOK, ToldItsRank, IsRank
<1>6. QED
  BY <1>2, <1>3, <1>4, <1>5

LEMMA ShapeStep ==
    ASSUME Shape, [Next]_vars
    PROVE  Shape' /\ node_ips' = node_ips /\ Workers' = Workers /\ WorkerSet' = WorkerSet
<1>1. CASE Dispatch
  BY <1>1, DispatchControl, DispatchHosts, WorkersStay DEF Shape
<1>2. CASE MasterRestarts
  <2>1. node_ips' = node_ips /\ Workers' = Workers /\ WorkerSet' = WorkerSet
    BY <1>2, WorkersStay DEF MasterRestarts
  <2>2. ControlOK'
    BY <1>2, <2>1 DEF MasterRestarts, Shape, ControlOK, AtWorker
  <2>3. HostsOK' /\ ToldItsRank'
    BY <1>2, <2>1 DEF MasterRestarts, hosts, Shape, HostsOK, ToldItsRank, IsRank
  <2>4. QED
    BY <2>1, <2>2, <2>3 DEF Shape
<1>3. ASSUME NEW h \in Host, HostStep(h)
      PROVE  Shape' /\ node_ips' = node_ips /\ Workers' = Workers /\ WorkerSet' = WorkerSet
  BY <1>3, HostControl, QuietHost, ScriptHost, WorkersStay DEF Shape, HostStep
<1>4. CASE UNCHANGED vars
  <2>1. node_ips' = node_ips /\ Workers' = Workers /\ WorkerSet' = WorkerSet
    BY <1>4, WorkersStay DEF vars
  <2>2. QED
    BY <1>4, <2>1 DEF vars, master, listing, hosts, Shape, ControlOK, HostsOK, ToldItsRank, IsRank,
      AtWorker
<1>5. QED
  BY <1>1, <1>2, <1>3, <1>4 DEF Next, HostStep
-----------------------------------------------------------------------------
(* All workers are there when the list says so, and it says so before the dispatch. *)
LEMMA ThereFirstStep ==
    ASSUME Shape, ThereFirst, [Next]_vars
    PROVE  ThereFirst'
<1>s. Workers' = Workers /\ WorkerHosts' = WorkerHosts
  BY ShapeStep, WorkersStay
<1>1. CASE Dispatch
  <2>1. UNCHANGED <<listed, together>>
    BY <1>1 DEF Dispatch, NobodyToStart, SeeAllRegistered, PollAgain, ProbeAnswered,
      ProbeFails, Post, Answered, NotAnswered, listing
  <2>2. pc' \in {"probe", "post", "await"} => SeeAllRegistered \/ pc \in {"probe", "post", "await"}
    BY <1>1 DEF Dispatch, NobodyToStart, PollAgain, ProbeAnswered, ProbeFails, Post, Answered,
      NotAnswered
  <2>3. SeeAllRegistered => together
    BY DEF SeeAllRegistered, AllRegistered, ThereFirst
  <2>4. QED
    BY <1>s, <2>1, <2>2, <2>3 DEF ThereFirst, AllThereFirst
<1>2. CASE MasterRestarts
  <2>1. Workers # <<>> => WorkerHosts # {}
    BY SomeHost DEF Shape, ControlOK
  <2>2. QED
    BY <1>2, <1>s, <2>1 DEF MasterRestarts, ThereFirst, AllThereFirst
<1>3. ASSUME NEW h \in Host, HostStep(h) PROVE ThereFirst'
  <2>1. pc' = pc
    BY <1>3 DEF HostStep, StartWorker, Register, Abort, Listen, WorkerEnds, DropOff,
      PlanFails, OpenScript, ScriptWritten, WriteFails, RunScript, master, listing
  <2>2. CASE Register(h)
    BY <1>s, <2>1, <2>2 DEF Register, ThereFirst, AllThereFirst
  <2>3. CASE DropOff(h)
    BY <1>s, <2>1, <2>3 DEF DropOff, ThereFirst, AllThereFirst
  <2>4. CASE UNCHANGED listing
    BY <1>s, <2>1, <2>4 DEF listing, ThereFirst, AllThereFirst
  <2>5. QED
    BY <1>3, <2>2, <2>3, <2>4 DEF HostStep, StartWorker, Abort, Listen, WorkerEnds,
      PlanFails, OpenScript, ScriptWritten, WriteFails, RunScript, master, listing
<1>4. CASE UNCHANGED vars
  BY <1>s, <1>4 DEF vars, master, listing, ThereFirst, AllThereFirst
<1>5. QED
  BY <1>1, <1>2, <1>3, <1>4 DEF Next, HostStep
-----------------------------------------------------------------------------
(* The failures that are counted *)

(* Workers without a script only become fewer. *)
LEMMA FewerUnscripted ==
    ASSUME Workers' = Workers,
           \A h \in Host : script[h].rank > 0 => script'[h].rank > 0,
           Shape, Shape', NEW n \in Int, IsFiniteSet(Unscripted(n))
    PROVE  /\ IsFiniteSet(Unscripted(n)')
           /\ Cardinality(Unscripted(n)') <= Cardinality(Unscripted(n))
           /\ Cardinality(Unscripted(n)') \in Nat /\ Cardinality(Unscripted(n)) \in Nat
<1>1. Unscripted(n)' \subseteq Unscripted(n)
  <2>1. \A w \in Name : Address[w] \in Host /\ script[Address[w]].rank \in Nat
    BY StartupAssumption DEF Shape, HostsOK
  <2>2. \A w \in Name : script'[Address[w]].rank = 0 => script[Address[w]].rank = 0
    BY <2>1
  <2>3. QED
    BY <2>2 DEF Unscripted
<1>2. QED
  BY <1>1, FS_Subset, FS_CardinalityType

LEMMA ScriptsStay ==
    ASSUME Shape, [Next]_vars
    PROVE  \A h \in Host : script[h].rank > 0 => script'[h].rank > 0
<1>1. CASE script' = script
  BY <1>1
<1>2. ASSUME NEW h \in Host, OpenScript(h)
      PROVE  \A g \in Host : script[g].rank > 0 => script'[g].rank > 0
  <2>1. PICK r \in pending[h] : script' = [script EXCEPT ![h] = [rank |-> r[1], whole |-> FALSE]]
    BY <1>2 DEF OpenScript
  <2>2. r[1] > 0
    <3>1. Len(Workers) \in Nat /\ r[1] \in 1..Len(Workers)
      BY WorkersDiffer DEF Shape, ControlOK, ToldItsRank, IsRank
    <3>2. QED
      BY <3>1
  <2>3. QED
    BY <2>1, <2>2 DEF Shape, HostsOK
<1>3. ASSUME NEW h \in Host, ScriptWritten(h)
      PROVE  \A g \in Host : script[g].rank > 0 => script'[g].rank > 0
  BY <1>3 DEF ScriptWritten, Shape, HostsOK
<1>4. QED
  BY <1>1, <1>2, <1>3 DEF Next, vars, Dispatch, NobodyToStart, SeeAllRegistered, PollAgain,
    ProbeAnswered, ProbeFails, Post, Answered, NotAnswered, MasterRestarts, StartWorker,
    Register, Abort, Listen, WorkerEnds, DropOff, PlanFails, WriteFails, RunScript

(* Going on to the next worker, after its script or with one failure more *)
LEMMA AdvanceCounts ==
    ASSUME Shape, Shape', Workers' = Workers, script' = script, FailuresCounted, AtWorker,
           Advance, answer' = "none",
           \/ failed' = failed /\ script[Target].rank > 0
           \/ failed' = failed + 1
    PROVE  FailuresCounted'
<1>1. /\ rank \in 1..Len(Workers) /\ Len(Workers) \in Nat /\ failed \in Nat
      /\ Workers[rank] \in Name /\ Target = Address[Workers[rank]]
  BY WorkersDiffer DEF Shape, ControlOK, Target
<1>2. IsFiniteSet(Unscripted(rank - 1)) /\ Cardinality(Unscripted(rank - 1)) <= failed
  BY DEF FailuresCounted
<1>3. Unscripted(rank) = IF script[Target].rank = 0
                         THEN Unscripted(rank - 1) \cup {Workers[rank]}
                         ELSE Unscripted(rank - 1)
  <2>1. \A k \in 1..rank : k \in 1..(rank - 1) \/ k = rank
    BY <1>1
  <2>2. \A k \in 1..(rank - 1) : k \in 1..rank
    BY <1>1
  <2>3. rank \in 1..rank
    BY <1>1
  <2>4. QED
    BY <1>1, <2>1, <2>2, <2>3 DEF Unscripted
<1>4. IsFiniteSet(Unscripted(rank)) /\ Cardinality(Unscripted(rank)) <= failed'
  <2>1. Cardinality(Unscripted(rank - 1)) \in Nat
    BY <1>2, FS_CardinalityType
  <2>2. CASE Unscripted(rank) = Unscripted(rank - 1)
    BY <1>1, <1>2, <2>1, <2>2
  <2>3. CASE Unscripted(rank) = Unscripted(rank - 1) \cup {Workers[rank]} /\ failed' = failed + 1
    <3>1. PICK w : w = Workers[rank]
      OBVIOUS
    <3>a. PICK before : before = Unscripted(rank - 1)
      OBVIOUS
    <3>b. /\ IsFiniteSet(before \cup {w})
          /\ Cardinality(before \cup {w}) = Cardinality(before)
             \/ Cardinality(before \cup {w}) = Cardinality(before) + 1
      BY <1>2, <3>a, FS_AddElement
    <3>2. Cardinality(Unscripted(rank - 1) \cup {w}) <= Cardinality(Unscripted(rank - 1)) + 1
          /\ IsFiniteSet(Unscripted(rank - 1) \cup {w})
      BY <2>1, <3>a, <3>b
    <3>3. Cardinality(Unscripted(rank - 1) \cup {w}) \in Nat
      BY <3>2, FS_CardinalityType
    <3>4. Unscripted(rank) = Unscripted(rank - 1) \cup {w}
      BY <2>3, <3>1
    <3>5. PICK n \in Nat, m \in Nat :
              /\ n = Cardinality(Unscripted(rank - 1))
              /\ m = Cardinality(Unscripted(rank - 1) \cup {w})
      BY <2>1, <3>3
    <3>6. m <= failed + 1
      BY <1>1, <1>2, <3>2, <3>5
    <3>7. Cardinality(Unscripted(rank)) <= failed'
      BY <2>3, <3>4, <3>5, <3>6
    <3>8. QED
      BY <3>2, <3>4, <3>7
  <2>4. QED
    BY <1>3, <2>2, <2>3
<1>5. \A n \in Int : Unscripted(n)' = Unscripted(n)
  BY DEF Unscripted
<1>6. CASE rank < Len(Workers)
  <2>1. pc' = "probe" /\ rank' = rank + 1 /\ rank + 1 - 1 = rank
    BY <1>1, <1>6 DEF Advance
  <2>2. Unscripted(rank - 1)' = Unscripted(rank)
    BY <1>1, <2>1 DEF Unscripted
  <2>3. QED
    BY <1>4, <2>1, <2>2 DEF FailuresCounted, AtWorker
<1>7. CASE ~(rank < Len(Workers))
  <2>1. pc' = "done" /\ rank = Len(Workers)
    BY <1>1, <1>7 DEF Advance
  <2>2. Unscripted(Len(Workers))' = Unscripted(rank)
    BY <1>1, <1>5, <2>1
  <2>3. QED
    BY <1>4, <2>1, <2>2 DEF FailuresCounted, AtWorker
<1>8. QED
  BY <1>6, <1>7

LEMMA FailuresCountedStep ==
    ASSUME Shape, Shape', FailuresCounted, [Next]_vars
    PROVE  FailuresCounted'
<1>w. /\ Workers' = Workers
      /\ \A h \in Host : script[h].rank > 0 => script'[h].rank > 0
  BY ShapeStep, ScriptsStay
<1>t. /\ AtWorker => rank \in 1..Len(Workers) /\ Target \in Host
      /\ Len(Workers) \in Nat /\ failed \in Nat
  BY WorkersDiffer, ElementOfSeq DEF Shape, ControlOK, Target
(* What keeps the thread where it is keeps the count, if an answer is a right one. *)
<1>s. ASSUME UNCHANGED <<pc, rank, failed>>, answer' = "ok" => script'[Target].rank > 0
      PROVE  FailuresCounted'
  <2>1. Target' = Target
    BY <1>w, <1>s DEF Target
  <2>2. ASSUME AtWorker
        PROVE  IsFiniteSet(Unscripted(rank - 1)') /\ Cardinality(Unscripted(rank - 1)') <= failed
    <3>1. rank - 1 \in Int /\ IsFiniteSet(Unscripted(rank - 1))
          /\ Cardinality(Unscripted(rank - 1)) <= failed
      BY <1>t, <2>2 DEF FailuresCounted
    <3>2. rank' = rank
      BY <1>s
    <3>3. QED
      BY <1>w, <1>t, <3>1, <3>2, FewerUnscripted
  <2>3. ASSUME pc = "done"
        PROVE  /\ IsFiniteSet(Unscripted(Len(Workers))')
               /\ Cardinality(Unscripted(Len(Workers))') <= failed
    <3>1. IsFiniteSet(Unscripted(Len(Workers))) /\ Cardinality(Unscripted(Len(Workers))) <= failed
      BY <2>3 DEF FailuresCounted
    <3>2. QED
      BY <1>w, <1>t, <3>1, FewerUnscripted
  <2>4. QED
    BY <1>s, <2>1, <2>2, <2>3 DEF FailuresCounted, AtWorker
<1>1. CASE Dispatch
  <2>s. script' = script
    BY <1>1 DEF Dispatch, NobodyToStart, SeeAllRegistered, PollAgain, ProbeAnswered,
      ProbeFails, Post, Answered, NotAnswered
  <2>1. CASE NobodyToStart
    <3>1. Len(Workers) = 0 /\ pc' = "done" /\ failed' = failed /\ answer' = answer /\ answer = "none"
      BY <2>1 DEF NobodyToStart, Shape, ControlOK
    <3>2. Unscripted(Len(Workers))' = {}
      BY <1>w, <3>1 DEF Unscripted
    <3>3. QED
      BY <1>t, <3>1, <3>2, FS_EmptySet DEF FailuresCounted, AtWorker
  <2>2. CASE SeeAllRegistered
    <3>1. pc' = "probe" /\ rank' = rank /\ rank = 1 /\ failed' = failed /\ answer' = answer
          /\ answer = "none"
      BY <2>2 DEF SeeAllRegistered, Shape, ControlOK
    <3>2. Unscripted(rank - 1)' = {}
      BY <3>1 DEF Unscripted
    <3>3. QED
      BY <1>t, <3>1, <3>2, FS_EmptySet DEF FailuresCounted, AtWorker
  <2>3. CASE PollAgain
    BY <2>3 DEF PollAgain, FailuresCounted, AtWorker, Shape, ControlOK
  <2>4. CASE ProbeAnswered \/ Post
    <3>1. AtWorker /\ AtWorker' /\ UNCHANGED <<rank, failed, answer, script>> /\ answer = "none"
          /\ pc' # "done"
      BY <2>4, <2>s DEF ProbeAnswered, Post, AtWorker, Shape, ControlOK
    <3>2. Unscripted(rank - 1)' = Unscripted(rank - 1)
      BY <1>w, <3>1 DEF Unscripted
    <3>3. QED
      BY <3>1, <3>2 DEF FailuresCounted
  <2>5. ASSUME AtWorker, Skip, answer' = "none" PROVE FailuresCounted'
    BY <1>w, <2>s, <2>5, AdvanceCounts DEF Skip
  <2>6. CASE ProbeFails
    <3>1. CASE tries + 1 < MaxProbes
      BY <1>s, <2>6, <3>1 DEF ProbeFails, Shape, ControlOK
    <3>2. CASE ~(tries + 1 < MaxProbes)
      BY <2>5, <2>6, <3>2 DEF ProbeFails, AtWorker, Shape, ControlOK
    <3>3. QED
      BY <3>1, <3>2
  <2>7. CASE Answered
    <3>1. /\ AtWorker /\ Advance /\ answer' = "none" /\ failed' = failed
          /\ script[Target].rank > 0
      BY <2>7 DEF Answered, AtWorker, FailuresCounted
    <3>2. QED
      BY <1>w, <2>s, <3>1, AdvanceCounts
  <2>8. CASE NotAnswered
    <3>1. CASE tries < MaxTries
      <4>1. /\ AtWorker /\ AtWorker' /\ UNCHANGED <<rank, failed, script>> /\ answer' = "none"
            /\ pc' # "done"
        BY <2>8, <2>s, <3>1 DEF NotAnswered, AtWorker
      <4>2. Unscripted(rank - 1)' = Unscripted(rank - 1)
        BY <1>w, <4>1 DEF Unscripted
      <4>3. QED
        BY <4>1, <4>2 DEF FailuresCounted
    <3>2. CASE ~(tries < MaxTries)
      BY <2>5, <2>8, <3>2 DEF NotAnswered, AtWorker
    <3>3. QED
      BY <3>1, <3>2
  <2>9. QED
    BY <1>1, <2>1, <2>2, <2>3, <2>4, <2>6, <2>7, <2>8 DEF Dispatch
<1>2. CASE MasterRestarts
  BY <1>2 DEF MasterRestarts, FailuresCounted, AtWorker
<1>3. ASSUME NEW h \in Host, HostStep(h) PROVE FailuresCounted'
  <2>1. UNCHANGED <<pc, rank, failed, tries>>
    BY <1>3 DEF HostStep, StartWorker, Register, Abort, Listen, WorkerEnds, DropOff,
      PlanFails, OpenScript, ScriptWritten, WriteFails, RunScript, master, listing
  <2>2. ASSUME answer' = "ok" PROVE script'[Target].rank > 0
    <3>1. CASE answer = "ok"
      <4>1. AtWorker
        BY <3>1 DEF Shape, ControlOK, AtWorker
      <4>2. QED
        BY <1>w, <1>t, <3>1, <4>1 DEF FailuresCounted
    <3>2. CASE answer # "ok"
      <4>1. ScriptWritten(h) /\ Target = h
        BY <1>3, <2>2, <3>2 DEF HostStep, StartWorker, Register, Abort, Listen, WorkerEnds,
          DropOff, PlanFails, OpenScript, ScriptWritten, WriteFails, RunScript, master, listing,
          Reply, Awaited
      <4>2. script[h].rank > 0
        BY <4>1 DEF ScriptWritten, Shape, ToldItsRank
      <4>3. QED
        BY <1>w, <4>1, <4>2
    <3>3. QED
      BY <3>1, <3>2
  <2>3. QED
    BY <1>s, <2>1, <2>2
<1>4. CASE UNCHANGED vars
  <2>1. UNCHANGED <<pc, rank, failed, answer, script>>
    BY <1>4 DEF vars, master, listing
  <2>2. QED
    BY <1>s, <2>1 DEF FailuresCounted
<1>5. QED
  BY <1>1, <1>2, <1>3, <1>4 DEF Next, HostStep
-----------------------------------------------------------------------------
LEMMA Invariance == Spec => [](Shape /\ ThereFirst /\ FailuresCounted)
<1>1. Init => ThereFirst /\ FailuresCounted
  <2>1. ASSUME Init, Workers # <<>> PROVE WorkerHosts # {}
    BY <2>1, SomeHost DEF Init
  <2>2. QED
    BY <2>1 DEF Init, ThereFirst, AllThereFirst, FailuresCounted, AtWorker, NoScript
<1>2. Shape /\ ThereFirst /\ FailuresCounted /\ [Next]_vars
        => (Shape /\ ThereFirst /\ FailuresCounted)'
  BY ShapeStep, ThereFirstStep, FailuresCountedStep
<1>3. QED
  BY <1>1, <1>2, ShapeInit, PTL DEF Spec

(* start_engine_api and the dispatch: whatever is repeated in NODE_IPS, lost, retried or
   served late, by this launcher or the one before, no two hosts are told one rank and no
   host two that has one name, for any number of hosts and names. *)
THEOREM OneRankForEachName == Spec => []OneRankPerName
<1>1. ASSUME Shape PROVE OneRankPerName
  <2>1. ASSUME NEW h \in Host, NEW k \in RanksOf(h) PROVE IsRank(h, k)
    <3>1. CASE \E r \in pending[h] : k = r[1]
      BY <1>1, <3>1 DEF Shape, ToldItsRank
    <3>2. CASE k = serving[h][1] /\ k # 0
      <4>1. serving[h] # NoRequest
        BY <3>2 DEF NoRequest
      <4>2. QED
        BY <1>1, <3>2, <4>1 DEF Shape, ToldItsRank
    <3>3. CASE (k = script[h].rank \/ k = engine[h].rank) /\ k # 0
      BY <1>1, <3>3 DEF Shape, ToldItsRank, HostsOK
    <3>4. QED
      BY <2>1, <3>1, <3>2, <3>3 DEF RanksOf
  <2>2. /\ \A j, k \in 1..Len(Workers) : Workers[j] = Workers[k] => j = k
        /\ \A k \in 1..Len(Workers) : Workers[k] \in ToSet(Tail(node_ips))
    BY <1>1, WorkersDiffer DEF Shape, ControlOK, Ips
  <2>3. ASSUME NEW h \in Host, NEW g \in Host, NEW r \in RanksOf(h), NEW s \in RanksOf(g)
        PROVE  /\ r = s => h = g
               /\ h = g /\ NamedOnce(h) => r = s
    <3>1. IsRank(h, r) /\ IsRank(g, s)
      BY <2>1, <2>3
    <3>2. QED
      BY <2>2, <3>1 DEF IsRank, NamedOnce
  <2>4. QED
    BY <2>3 DEF OneRankPerName
<1>2. QED
  BY <1>1, Invariance, PTL

(* _wait_and_distribute_to_workers: nothing is sent in a dispatch before all workers were on
   the list at one moment since the launcher was started, whoever has dropped off since. *)
THEOREM NothingSentBefore == Spec => []AllThereFirst
<1>1. ThereFirst => AllThereFirst
  BY DEF ThereFirst
<1>2. QED
  BY <1>1, Invariance, PTL

(* The failures the master reports at the end are no fewer than the workers without a
   script, although an answer may have been lost and a request served late. *)
THEOREM FailuresAlwaysReported == Spec => []FailuresReported
<1>1. ASSUME Shape, FailuresCounted, pc = "done"
      PROVE  Cardinality({w \in WorkerSet : script[Address[w]].rank = 0}) <= failed
  <2>1. Unscripted(Len(Workers)) = {w \in WorkerSet : script[Address[w]].rank = 0}
    BY <1>1, WorkersDiffer, ElementOfSeq DEF Unscripted, Shape, ControlOK
  <2>2. QED
    BY <1>1, <2>1 DEF FailuresCounted
<1>2. Shape /\ FailuresCounted => FailuresReported
  BY <1>1 DEF FailuresReported
<1>3. QED
  BY <1>2, Invariance, PTL
-----------------------------------------------------------------------------
(* No loop of the dispatch has been round as often as it may when it goes round again. *)
LoopsOK ==
    /\ polls \in Nat /\ tries \in Nat
    /\ pc = "register" => polls < MaxPolls /\ tries = 0
    /\ pc = "probe" => tries < MaxProbes
    /\ pc = "post" => tries < MaxTries
    /\ pc = "await" => tries <= MaxTries

LEMMA Bounds ==
    /\ MaxPolls \in Nat \ {0} /\ MaxProbes \in Nat \ {0} /\ MaxTries \in Nat \ {0}
    /\ StepsForWorker \in Nat
BY StartupAssumption DEF StepsForWorker

LEMMA LoopsStep ==
    ASSUME LoopsOK, [Next]_vars
    PROVE  LoopsOK'
<1>1. CASE NobodyToStart \/ PollAgain \/ ProbeAnswered \/ Post
  BY <1>1, Bounds DEF NobodyToStart, PollAgain, ProbeAnswered, Post, LoopsOK
<1>2. CASE SeeAllRegistered
  BY <1>2, Bounds DEF SeeAllRegistered, LoopsOK
<1>3. CASE ProbeFails \/ Answered \/ NotAnswered
  BY <1>3, Bounds DEF ProbeFails, Answered, NotAnswered, Skip, Advance, LoopsOK
<1>4. CASE MasterRestarts
  BY <1>4, Bounds DEF MasterRestarts, LoopsOK
<1>5. ASSUME NEW h \in Host, HostStep(h) PROVE LoopsOK'
  <2>1. UNCHANGED <<pc, polls, tries>>
    BY <1>5 DEF HostStep, StartWorker, Register, Abort, Listen, WorkerEnds, DropOff,
      PlanFails, OpenScript, ScriptWritten, WriteFails, RunScript, master, listing
  <2>2. QED
    BY <2>1 DEF LoopsOK
<1>6. CASE UNCHANGED vars
  BY <1>6 DEF vars, master, listing, LoopsOK
<1>7. QED
  BY <1>1, <1>2, <1>3, <1>4, <1>5, <1>6 DEF Next, Dispatch, HostStep

(* The steps for the other workers are those for the next one and for those after it. *)
LEMMA StepsForOthers ==
    ASSUME NEW n \in Nat, NEW k \in 1..n, NEW c \in Nat
    PROVE  /\ (n - k) * c \in Nat /\ n * c \in Nat
           /\ k < n => (n - k) * c = (n - (k + 1)) * c + c
           /\ n * c = (n - 1) * c + c
<1>1. n - k \in Nat
  OBVIOUS
<1>2. \A a, b \in Nat : a * b \in Nat
  OBVIOUS
<1>3. \A a \in Int : (a + 1) * c = a * c + c
  OBVIOUS
<1>4. n - k = (n - (k + 1)) + 1 /\ n - (k + 1) \in Int
  OBVIOUS
<1>5. n = (n - 1) + 1 /\ n - 1 \in Int
  OBVIOUS
<1>6. QED
  BY <1>1, <1>2, <1>3, <1>4, <1>5

LEMMA StepsAdvance ==
    ASSUME Shape, LoopsOK, Dispatch
    PROVE  /\ StepsLeft' \in Nat /\ StepsLeft' < StepsLeft
           /\ StepsLeft' = 0 => pc' \in {"done", "gaveup"}
<1> DEFINE n == Len(Workers)
           Others(k) == (n - k) * StepsForWorker
           All == n * StepsForWorker
<1>n. n \in Nat /\ Len(Workers)' = n
  BY WorkersDiffer, WorkersStay, DispatchControl DEF Shape, ControlOK
<1>c. StepsForWorker \in Nat /\ StepsForWorker = MaxProbes + 2 * MaxTries
  BY Bounds DEF StepsForWorker
<1>o. /\ \A k \in 1..n : Others(k) \in Nat
      /\ \A k \in 1..n : k < n => Others(k) = Others(k + 1) + StepsForWorker
      /\ 1 \in 1..n => All = Others(1) + StepsForWorker
  BY <1>n, <1>c, StepsForOthers
<1>a. All \in Nat
  BY <1>n, <1>c
<1>b. MaxPolls \in Nat \ {0} /\ MaxProbes \in Nat \ {0} /\ MaxTries \in Nat \ {0}
  BY Bounds
<1>l. LoopsOK'
  BY LoopsStep DEF Next
<1>w. ControlOK /\ ControlOK'
  BY DispatchControl DEF Shape
<1>1. /\ pc = "register" => StepsLeft = MaxPolls - polls + All
      /\ pc = "probe" => StepsLeft = MaxProbes - tries + 2 * MaxTries + Others(rank)
      /\ pc = "post" => StepsLeft = 2 * (MaxTries - tries) + Others(rank)
      /\ pc = "await" => StepsLeft = 1 + 2 * (MaxTries - tries) + Others(rank)
      /\ pc \in {"done", "gaveup"} => StepsLeft = 0
  BY DEF StepsLeft
<1>2. /\ pc' = "register" => StepsLeft' = MaxPolls - polls' + All
      /\ pc' = "probe" => StepsLeft' = MaxProbes - tries' + 2 * MaxTries + Others(rank')
      /\ pc' = "post" => StepsLeft' = 2 * (MaxTries - tries') + Others(rank')
      /\ pc' = "await" => StepsLeft' = 1 + 2 * (MaxTries - tries') + Others(rank')
      /\ pc' \in {"done", "gaveup"} => StepsLeft' = 0
  BY <1>n DEF StepsLeft, StepsForWorker
<1> HIDE DEF n, Others, All
<1>3. CASE NobodyToStart
  BY <1>1, <1>2, <1>3, <1>a, <1>b DEF NobodyToStart, LoopsOK
<1>4. CASE SeeAllRegistered
  <2>1. pc = "register" /\ pc' = "probe" /\ tries' = tries /\ rank' = rank /\ rank = 1
    BY <1>4, <1>w DEF SeeAllRegistered, ControlOK
  <2>2. 1 \in 1..n
    BY <1>w, <2>1, <1>n DEF ControlOK, AtWorker, n
  <2>3. QED
    BY <1>1, <1>2, <1>a, <1>b, <1>c, <1>l, <1>o, <2>1, <2>2 DEF LoopsOK
<1>5. CASE PollAgain
  <2>1. pc = "register" /\ polls < MaxPolls /\ polls' = polls + 1 /\ polls \in Nat
    BY <1>5 DEF PollAgain, LoopsOK
  <2>2. pc' = IF polls' < MaxPolls THEN "register" ELSE "gaveup"
    BY <1>5 DEF PollAgain
  <2>3. QED
    BY <1>1, <1>2, <1>a, <1>b, <2>1, <2>2
<1>6. ASSUME AtWorker PROVE rank \in 1..n /\ Others(rank) \in Nat /\ n \in Nat /\ tries \in Nat
  BY <1>6, <1>n, <1>o, <1>w DEF ControlOK, n, LoopsOK
<1>7. ASSUME AtWorker, Advance, StepsLeft \in Nat, Others(rank) < StepsLeft
      PROVE  /\ StepsLeft' \in Nat /\ StepsLeft' < StepsLeft
             /\ StepsLeft' = 0 => pc' \in {"done", "gaveup"}
  <2>1. CASE rank < n
    <3>1. pc' = "probe" /\ rank' = rank + 1 /\ tries' = 0
      BY <1>7, <2>1 DEF Advance, n
    <3>2. rank + 1 \in 1..n /\ Others(rank) = Others(rank + 1) + StepsForWorker
      BY <1>6, <1>7, <1>o, <2>1
    <3>3. Others(rank + 1) \in Nat
      BY <1>o, <3>2
    <3>4. StepsLeft' = MaxProbes + 2 * MaxTries + Others(rank + 1)
      BY <1>2, <1>b, <3>1, <3>3
    <3>5. QED
      BY <1>7, <1>b, <1>c, <3>1, <3>2, <3>3, <3>4
  <2>2. CASE ~(rank < n)
    BY <1>2, <1>6, <1>7, <2>2 DEF Advance, n
  <2>3. QED
    BY <2>1, <2>2
<1>8. CASE ProbeAnswered
  <2>1. pc = "probe" /\ pc' = "post" /\ tries' = 0 /\ rank' = rank /\ tries < MaxProbes
    BY <1>8 DEF ProbeAnswered, LoopsOK
  <2>2. QED
    BY <1>1, <1>2, <1>6, <1>b, <2>1 DEF AtWorker
<1>9. CASE ProbeFails
  <2>1. pc = "probe" /\ tries < MaxProbes /\ AtWorker
    BY <1>9 DEF ProbeFails, LoopsOK, AtWorker
  <2>2. CASE tries + 1 < MaxProbes
    <3>1. pc' = "probe" /\ tries' = tries + 1 /\ rank' = rank
      BY <1>9, <2>1, <2>2 DEF ProbeFails
    <3>2. QED
      BY <1>1, <1>2, <1>6, <1>b, <2>1, <2>2, <3>1
  <2>3. CASE ~(tries + 1 < MaxProbes)
    <3>1. Advance
      BY <1>9, <2>3 DEF ProbeFails, Skip
    <3>2. StepsLeft \in Nat /\ Others(rank) < StepsLeft
      BY <1>1, <1>6, <1>b, <2>1
    <3>3. QED
      BY <1>7, <2>1, <3>1, <3>2
  <2>4. QED
    BY <2>2, <2>3
<1>10. CASE Post
  <2>1. pc = "post" /\ pc' = "await" /\ tries' = tries + 1 /\ rank' = rank /\ tries < MaxTries
    BY <1>10 DEF Post, LoopsOK
  <2>2. QED
    BY <1>1, <1>2, <1>6, <1>b, <2>1 DEF AtWorker
<1>11. CASE Answered \/ NotAnswered
  <2>1. pc = "await" /\ tries <= MaxTries /\ AtWorker
    BY <1>11 DEF Answered, NotAnswered, LoopsOK, AtWorker
  <2>2. CASE Advance
    <3>1. StepsLeft \in Nat /\ Others(rank) < StepsLeft
      BY <1>1, <1>6, <1>b, <2>1
    <3>2. QED
      BY <1>7, <2>1, <2>2, <3>1
  <2>3. CASE pc' = "post" /\ tries < MaxTries /\ tries' = tries /\ rank' = rank
    BY <1>1, <1>2, <1>6, <1>b, <2>1, <2>3
  <2>4. QED
    BY <1>11, <2>2, <2>3 DEF Answered, NotAnswered, Skip
<1>12. QED
  BY <1>3, <1>4, <1>5, <1>8, <1>9, <1>10, <1>11 DEF Dispatch

(* The dispatching thread: each of its steps leaves fewer of them to come, by a number fixed
   by the constants, the workers and how often it has tried; only a restart of the
   master's launcher begins anew.  So a dispatch takes at most
   MaxPolls + Len(Workers) * StepsForWorker steps, for any number of workers. *)
THEOREM DispatchAlwaysAdvances == Spec => DispatchAdvances
<1>1. Init => LoopsOK
  BY Bounds DEF Init, LoopsOK
<1>2. LoopsOK /\ [Next]_vars => LoopsOK'
  BY LoopsStep
<1>3. ASSUME [Next]_vars
      PROVE  Dispatch \/ MasterRestarts \/ UNCHANGED <<pc, polls, rank, tries>>
  <2>1. ASSUME NEW h \in Host, HostStep(h) PROVE UNCHANGED <<pc, polls, rank, tries>>
    BY <2>1 DEF HostStep, StartWorker, Register, Abort, Listen, WorkerEnds, DropOff,
      PlanFails, OpenScript, ScriptWritten, WriteFails, RunScript, master, listing
  <2>2. UNCHANGED vars => UNCHANGED <<pc, polls, rank, tries>>
    BY DEF vars, master, listing
  <2>3. QED
    BY <1>3, <2>1, <2>2 DEF Next, HostStep
<1>4. Shape /\ LoopsOK /\ [Next]_vars
        => [/\ Dispatch => /\ StepsLeft' \in Nat /\ StepsLeft' < StepsLeft
                           /\ StepsLeft' = 0 => pc' \in {"done", "gaveup"}
            /\ Dispatch \/ MasterRestarts \/ UNCHANGED <<pc, polls, rank, tries>>]_vars
  BY <1>3, StepsAdvance
<1>5. QED
  BY <1>1, <1>2, <1>4, Invariance, PTL DEF Spec, DispatchAdvances
=============================================================================
