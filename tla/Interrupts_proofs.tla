-------------------------- MODULE Interrupts_proofs --------------------------
(***************************************************************************)
(* Two machines, one above the other.  First the scheduler, for every set  *)
(* of processes, semaphores and priorities: the safety properties of       *)
(* ProcessScheduler, whose inductive invariant is their conjunction with   *)
(* IdleReady: the process that never blocks is always running or ready, so *)
(* wakeHighestPriority always finds a process.                             *)
(*                                                                         *)
(* Then the interrupt check above it, for every number of handlers,        *)
(* indices, semaphores and processes, and every size of the buffers: no    *)
(* recorded index is lost or signalled twice, nothing pending is           *)
(* overlooked, and over the check the scheduler is still the one of        *)
(* ProcessScheduler, so that everything proved of that one holds here.     *)
(***************************************************************************)
EXTENDS Interrupts, SequenceTheorems, FiniteSetTheorems,
        WellFoundedInduction, TLAPS

-----------------------------------------------------------------------------
(* The scheduler.                                                          *)

\* No two links, of one list or of two, lead to the same process.
Distinct(q) ==
    \A k, l \in List : \A i \in DOMAIN q[k], j \in DOMAIN q[l] :
        q[k][i] = q[l][j] => k = l /\ i = j

\* Ready processes are on the list of their priority.
OnOwnList(q) ==
    \A l \in Priority : \A i \in DOMAIN q[l] : priority[q[l][i]] = l

ListsOK(q) ==
    /\ q \in [List -> Seq(Process)]
    /\ Distinct(q)
    /\ OnOwnList(q)

\* No list of q above priority n has a process.
NoneAbove(q, n) == \A l \in Priority : q[l] # <<>> => l <= n

IdleIn(q) ==
    \E i \in DOMAIN q[priority[IdleProcess]] :
        q[priority[IdleProcess]][i] = IdleProcess

IdleReady == activeProcess = IdleProcess \/ IdleIn(queue)

IInv ==
    /\ TypeOK
    /\ InOnePlace
    /\ HighestPriorityRuns
    /\ NoWaiterWhileSignalled
    /\ OwnContext
    /\ NeverOutOfProcesses
    /\ IdleReady

-----------------------------------------------------------------------------
(* Lemmas about the lists.                                                 *)

\* The scan of wakeHighestPriority ends at the highest non-empty list.
LEMMA HighestReadyIsHighest ==
    ASSUME NEW q, ReadyPriorities(q) # {}
    PROVE  /\ highestReady(q) \in Priority
           /\ q[highestReady(q)] # <<>>
           /\ NoneAbove(q, highestReady(q))
<1> DEFINE T == {n \in Nat : \E i \in ReadyPriorities(q) : n = NumPriorities - i}
<1>1. T \subseteq Nat /\ T # {}
  <2>1. PICK i \in ReadyPriorities(q) : TRUE
    OBVIOUS
  <2>2. i \in Nat /\ i <= NumPriorities
    BY <2>1, NumPrioritiesAssumption DEF ReadyPriorities, Priority
  <2>3. NumPriorities - i \in T
    BY <2>1, <2>2, NumPrioritiesAssumption
  <2> QED BY <2>3
<1>2. PICK m \in T : \A n \in T : ~ (<<n, m>> \in OpToRel(<, Nat))
  <2> HIDE DEF T
  <2> QED BY <1>1, NatLessThanWellFounded, WFMin, Zenon
<1>3. \A n \in T : m <= n
  <2> TAKE n \in T
  <2>1. ~ (n < m)
    BY <1>2, <1>1 DEF OpToRel
  <2> QED BY <2>1, <1>1
<1>4. PICK i \in ReadyPriorities(q) : m = NumPriorities - i
  BY <1>2
<1>5. \A j \in ReadyPriorities(q) : j <= i
  <2> TAKE j \in ReadyPriorities(q)
  <2>1. i \in Nat /\ j \in Nat /\ j <= NumPriorities
    BY NumPrioritiesAssumption DEF ReadyPriorities, Priority
  <2>2. NumPriorities - j \in T
    BY <2>1, NumPrioritiesAssumption
  <2> QED BY <1>3, <1>4, <2>1, <2>2, NumPrioritiesAssumption
<1>6. /\ highestReady(q) \in ReadyPriorities(q)
      /\ \A j \in ReadyPriorities(q) : j <= highestReady(q)
  BY <1>5 DEF highestReady
<1> QED BY <1>6 DEF ReadyPriorities, NoneAbove

\* Priorities and semaphores are lists, and a process has a priority.
LEMMA ListFacts ==
    /\ Priority \subseteq List
    /\ Semaphore \subseteq List
    /\ \A s \in Semaphore : s \notin Priority
    /\ \A p \in Process : priority[p] \in Priority
    /\ Priority \subseteq Nat
BY ListsAssumption, PriorityAssumption DEF List, Priority

\* addLastLink:toList: adds p at the end of l and changes nothing else.
LEMMA AddLastLink ==
    ASSUME NEW q \in [List -> Seq(Process)], NEW p \in Process, NEW l \in List,
           Distinct(q), ~Queued(q, p)
    PROVE  LET r == addLastLink(q, p, l) IN
           /\ r \in [List -> Seq(Process)]
           /\ r[l] = Append(q[l], p)
           /\ \A k \in List \ {l} : r[k] = q[k]
           /\ Distinct(r)
           /\ \A x : Queued(r, x) <=> Queued(q, x) \/ x = p
<1> DEFINE r == addLastLink(q, p, l)
<1>1. /\ r \in [List -> Seq(Process)]
      /\ r[l] = Append(q[l], p)
      /\ \A k \in List \ {l} : r[k] = q[k]
  BY DEF addLastLink
<1>2. /\ \A k \in List : Len(q[k]) \in Nat /\ DOMAIN q[k] = 1..Len(q[k])
      /\ DOMAIN r[l] = 1..(Len(q[l]) + 1)
      /\ \A i \in 1..Len(q[l]) : r[l][i] = q[l][i]
      /\ r[l][Len(q[l]) + 1] = p
  BY <1>1
<1>3. \A x : Queued(r, x) <=> Queued(q, x) \/ x = p
  <2> HIDE DEF r
  <2> TAKE x
  <2>1. ASSUME Queued(r, x) PROVE Queued(q, x) \/ x = p
    <3>1. PICK k \in List : \E i \in DOMAIN r[k] : r[k][i] = x
      BY <2>1 DEF Queued
    <3>2. PICK i \in DOMAIN r[k] : r[k][i] = x
      BY <3>1
    <3>3. CASE k # l
      BY <3>2, <3>3, <1>1 DEF Queued
    <3>4. CASE k = l
      <4>1. i \in 1..Len(q[l]) \/ i = Len(q[l]) + 1
        BY <3>2, <3>4, <1>2
      <4> QED BY <4>1, <3>2, <3>4, <1>2 DEF Queued
    <3> QED BY <3>3, <3>4
  <2>2. ASSUME Queued(q, x) PROVE Queued(r, x)
    <3>1. PICK k \in List : \E i \in DOMAIN q[k] : q[k][i] = x
      BY <2>2 DEF Queued
    <3>2. PICK i \in DOMAIN q[k] : q[k][i] = x
      BY <3>1
    <3>3. i \in DOMAIN r[k] /\ r[k][i] = x
      <4>1. CASE k # l
        BY <4>1, <3>2, <1>1
      <4>2. CASE k = l
        <5>1. i \in 1..Len(q[l]) /\ i \in 1..(Len(q[l]) + 1)
          BY <4>2, <3>2, <1>2
        <5> QED BY <5>1, <4>2, <3>2, <1>2
      <4> QED BY <4>1, <4>2
    <3> QED BY <3>3 DEF Queued
  <2>3. ASSUME x = p PROVE Queued(r, x)
    <3>1. Len(q[l]) + 1 \in DOMAIN r[l] /\ r[l][Len(q[l]) + 1] = x
      BY <2>3, <1>2
    <3> QED BY <3>1 DEF Queued
  <2> QED BY <2>1, <2>2, <2>3
<1>4. Distinct(r)
  <2> HIDE DEF r
  <2> SUFFICES ASSUME NEW k \in List, NEW m \in List,
                      NEW i \in DOMAIN r[k], NEW j \in DOMAIN r[m],
                      r[k][i] = r[m][j]
               PROVE  k = m /\ i = j
    BY DEF Distinct
  <2>1. \A h \in List : \A n \in DOMAIN r[h] :
           \/ n \in DOMAIN q[h] /\ r[h][n] = q[h][n]
           \/ h = l /\ n = Len(q[l]) + 1 /\ r[h][n] = p
    <3> TAKE h \in List
    <3> TAKE n \in DOMAIN r[h]
    <3>1. CASE h # l
      BY <3>1, <1>1
    <3>2. CASE h = l
      <4>1. n \in 1..Len(q[l]) \/ n = Len(q[l]) + 1
        BY <3>2, <1>2
      <4> QED BY <4>1, <3>2, <1>2
    <3> QED BY <3>1, <3>2
  <2>2. \A h \in List : \A n \in DOMAIN q[h] : q[h][n] # p
    BY DEF Queued
  <2> QED BY <2>1, <2>2 DEF Distinct
<1> QED BY <1>1, <1>3, <1>4

\* removeFirstLinkOfList takes the head off l, and off every list.
LEMMA RemoveFirstLink ==
    ASSUME NEW q \in [List -> Seq(Process)], NEW l \in List,
           Distinct(q), q[l] # <<>>
    PROVE  LET r == removeFirstLinkOfList(q, l) IN
           /\ r \in [List -> Seq(Process)]
           /\ Head(q[l]) \in Process
           /\ Head(q[l]) = q[l][1]
           /\ 1 \in DOMAIN q[l]
           /\ \A k \in List \ {l} : r[k] = q[k]
           /\ DOMAIN r[l] = 1..(Len(q[l]) - 1)
           /\ \A i \in DOMAIN r[l] :
                i + 1 \in DOMAIN q[l] /\ r[l][i] = q[l][i + 1]
           /\ Distinct(r)
           /\ \A x : Queued(r, x) <=> Queued(q, x) /\ x # Head(q[l])
<1> DEFINE r == removeFirstLinkOfList(q, l)
<1>1. /\ r \in [List -> Seq(Process)]
      /\ r[l] = Tail(q[l])
      /\ \A k \in List \ {l} : r[k] = q[k]
  BY HeadTailProperties DEF removeFirstLinkOfList
<1>2. /\ \A k \in List : Len(q[k]) \in Nat /\ DOMAIN q[k] = 1..Len(q[k])
      /\ Len(q[l]) >= 1 /\ Head(q[l]) = q[l][1] /\ Head(q[l]) \in Process
      /\ DOMAIN r[l] = 1..(Len(q[l]) - 1)
      /\ \A i \in 1..(Len(q[l]) - 1) : r[l][i] = q[l][i + 1]
  BY <1>1, HeadTailProperties, EmptySeq, LenProperties
<1>3. \A i \in DOMAIN r[l] : i + 1 \in DOMAIN q[l] /\ r[l][i] = q[l][i + 1]
  BY <1>2
<1>4. \A h \in List : \A n \in DOMAIN r[h] :
         \/ h # l /\ n \in DOMAIN q[h] /\ r[h][n] = q[h][n]
         \/ h = l /\ n + 1 \in DOMAIN q[h] /\ r[h][n] = q[h][n + 1]
  BY <1>1, <1>3
<1>5. Distinct(r)
  <2> HIDE DEF r
  <2> SUFFICES ASSUME NEW k \in List, NEW m \in List,
                      NEW i \in DOMAIN r[k], NEW j \in DOMAIN r[m],
                      r[k][i] = r[m][j]
               PROVE  k = m /\ i = j
    BY DEF Distinct
  <2>1. k = l => i \in Nat
    BY <1>2
  <2>2. m = l => j \in Nat
    BY <1>2
  <2> QED BY <1>4, <2>1, <2>2 DEF Distinct
<1>6. \A x : Queued(r, x) <=> Queued(q, x) /\ x # Head(q[l])
  <2> HIDE DEF r
  <2> TAKE x
  <2>1. ASSUME Queued(r, x) PROVE Queued(q, x) /\ x # Head(q[l])
    <3>1. PICK k \in List : \E i \in DOMAIN r[k] : r[k][i] = x
      BY <2>1 DEF Queued
    <3>2. PICK i \in DOMAIN r[k] : r[k][i] = x
      BY <3>1
    <3>3. CASE k # l
      BY <3>2, <3>3, <1>4, <1>2 DEF Queued, Distinct
    <3>4. CASE k = l
      <4>1. i \in Nat /\ i >= 1
        BY <3>2, <3>4, <1>2
      <4>2. i + 1 \in DOMAIN q[l] /\ q[l][i + 1] = x /\ i + 1 # 1
        BY <4>1, <3>2, <3>4, <1>4
      <4>3. x # q[l][1]
        BY <4>2, <1>2 DEF Distinct
      <4> QED BY <4>2, <4>3, <1>2 DEF Queued
    <3> QED BY <3>3, <3>4
  <2>2. ASSUME Queued(q, x), x # Head(q[l]) PROVE Queued(r, x)
    <3>1. PICK k \in List : \E i \in DOMAIN q[k] : q[k][i] = x
      BY <2>2 DEF Queued
    <3>2. PICK i \in DOMAIN q[k] : q[k][i] = x
      BY <3>1
    <3>3. CASE k # l
      BY <3>2, <3>3, <1>1 DEF Queued
    <3>4. CASE k = l
      <4>1. i \in 1..Len(q[l]) /\ i # 1
        BY <3>2, <3>4, <2>2, <1>2
      <4>2. i - 1 \in DOMAIN r[l] /\ (i - 1) + 1 = i
        BY <4>1, <1>2
      <4>3. r[l][i - 1] = x
        BY <4>2, <1>3, <3>2, <3>4
      <4> QED BY <4>2, <4>3 DEF Queued
    <3> QED BY <3>3, <3>4
  <2> QED BY <2>1, <2>2
<1> QED BY <1>1, <1>2, <1>3, <1>5, <1>6

\* A list stays in order of its kind when a process of its own is added ...
LEMMA AddKeepsListsOK ==
    ASSUME NEW q, NEW p \in Process, NEW l \in List, ListsOK(q), ~Queued(q, p),
           l \in Priority => priority[p] = l
    PROVE  ListsOK(addLastLink(q, p, l))
<1> DEFINE r == addLastLink(q, p, l)
<1>1. /\ r \in [List -> Seq(Process)]
      /\ r[l] = Append(q[l], p)
      /\ \A k \in List \ {l} : r[k] = q[k]
      /\ Distinct(r)
  BY AddLastLink DEF ListsOK
<1>2. OnOwnList(r)
  <2> HIDE DEF r
  <2> SUFFICES ASSUME NEW k \in Priority, NEW i \in DOMAIN r[k]
               PROVE  priority[r[k][i]] = k
    BY DEF OnOwnList
  <2>1. CASE k # l
    BY <2>1, <1>1, ListFacts DEF ListsOK, OnOwnList
  <2>2. CASE k = l
    <3>1. q[l] \in Seq(Process)
      BY DEF ListsOK
    <3>2. \/ i \in DOMAIN q[l] /\ r[k][i] = q[l][i]
          \/ r[k][i] = p
      BY <3>1, <2>2, <1>1
    <3> QED BY <3>2, <2>2 DEF ListsOK, OnOwnList
  <2> QED BY <2>1, <2>2
<1> QED BY <1>1, <1>2 DEF ListsOK

\* ... and when its first process is taken off.
LEMMA RemoveKeepsListsOK ==
    ASSUME NEW q, NEW l \in List, ListsOK(q), q[l] # <<>>
    PROVE  ListsOK(removeFirstLinkOfList(q, l))
<1> DEFINE r == removeFirstLinkOfList(q, l)
<1>1. /\ r \in [List -> Seq(Process)]
      /\ \A k \in List \ {l} : r[k] = q[k]
      /\ \A i \in DOMAIN r[l] : i + 1 \in DOMAIN q[l] /\ r[l][i] = q[l][i + 1]
      /\ Distinct(r)
  BY RemoveFirstLink DEF ListsOK
<1>2. OnOwnList(r)
  <2> HIDE DEF r
  <2> SUFFICES ASSUME NEW k \in Priority, NEW i \in DOMAIN r[k]
               PROVE  priority[r[k][i]] = k
    BY DEF OnOwnList
  <2>1. CASE k # l
    BY <2>1, <1>1, ListFacts DEF ListsOK, OnOwnList
  <2>2. CASE k = l
    BY <2>2, <1>1 DEF ListsOK, OnOwnList
  <2> QED BY <2>1, <2>2
<1> QED BY <1>1, <1>2 DEF ListsOK

\* Adding to a list of priority at most n leaves no process above n ...
LEMMA AddNoneAbove ==
    ASSUME NEW q \in [List -> Seq(Process)], NEW p \in Process, NEW l \in List,
           NEW n, NoneAbove(q, n), l \in Priority => l <= n
    PROVE  NoneAbove(addLastLink(q, p, l), n)
BY ListFacts DEF NoneAbove, addLastLink

\* ... and so does removing from one.
LEMMA RemoveNoneAbove ==
    ASSUME NEW q \in [List -> Seq(Process)], NEW l \in List, q[l] # <<>>,
           NEW n, NoneAbove(q, n)
    PROVE  NoneAbove(removeFirstLinkOfList(q, l), n)
BY ListFacts DEF NoneAbove, removeFirstLinkOfList

\* The idle process stays ready when another is added, becomes ready when it
\* is added itself, and is ready still unless it is the one taken off.
LEMMA AddKeepsIdle ==
    ASSUME NEW q \in [List -> Seq(Process)], NEW p \in Process, NEW l \in List,
           \/ IdleIn(q)
           \/ p = IdleProcess /\ l = priority[IdleProcess]
    PROVE  IdleIn(addLastLink(q, p, l))
<1> DEFINE r == addLastLink(q, p, l)
           k == priority[IdleProcess]
<1>1. /\ r \in [List -> Seq(Process)]
      /\ r[l] = Append(q[l], p)
      /\ \A h \in List \ {l} : r[h] = q[h]
  BY DEF addLastLink
<1>2. k \in List
  BY ListFacts, IdleAssumption
<1>3. CASE k # l
  BY <1>1, <1>2, <1>3 DEF IdleIn
<1>4. CASE k = l
  <2>1. \/ \E i \in DOMAIN q[l] : i \in DOMAIN r[l] /\ r[l][i] = IdleProcess
        \/ Len(q[l]) + 1 \in DOMAIN r[l] /\ r[l][Len(q[l]) + 1] = IdleProcess
    <3>1. /\ q[l] \in Seq(Process) /\ Len(q[l]) \in Nat
          /\ DOMAIN q[l] = 1..Len(q[l])
          /\ DOMAIN r[l] = 1..(Len(q[l]) + 1)
          /\ \A i \in 1..Len(q[l]) : r[l][i] = q[l][i]
          /\ r[l][Len(q[l]) + 1] = p
      BY <1>1
    <3>2. CASE IdleIn(q)
      <4>1. PICK i \in DOMAIN q[l] : q[l][i] = IdleProcess
        BY <3>2, <1>4 DEF IdleIn
      <4>2. i \in DOMAIN r[l]
        BY <3>1
      <4> QED BY <3>1, <4>1, <4>2
    <3>3. CASE p = IdleProcess
      BY <3>1, <3>3
    <3> QED BY <3>2, <3>3
  <2> QED BY <2>1, <1>4 DEF IdleIn
<1> QED BY <1>3, <1>4

LEMMA RemoveKeepsIdle ==
    ASSUME NEW q \in [List -> Seq(Process)], NEW l \in List,
           Distinct(q), q[l] # <<>>, IdleIn(q), Head(q[l]) # IdleProcess
    PROVE  IdleIn(removeFirstLinkOfList(q, l))
<1> DEFINE r == removeFirstLinkOfList(q, l)
           k == priority[IdleProcess]
<1>1. /\ \A h \in List \ {l} : r[h] = q[h]
      /\ DOMAIN r[l] = 1..(Len(q[l]) - 1)
      /\ \A i \in DOMAIN r[l] : r[l][i] = q[l][i + 1]
      /\ Head(q[l]) = q[l][1]
  BY RemoveFirstLink
<1>2. k \in List
  BY ListFacts, IdleAssumption
<1>3. CASE k # l
  BY <1>1, <1>2, <1>3 DEF IdleIn
<1>4. CASE k = l
  <2>1. PICK i \in DOMAIN q[l] : q[l][i] = IdleProcess
    BY <1>4 DEF IdleIn
  <2>2. i \in 1..Len(q[l]) /\ i # 1
    BY <2>1, <1>1, LenProperties
  <2>3. i - 1 \in DOMAIN r[l] /\ (i - 1) + 1 = i
    BY <2>2, <1>1
  <2>4. r[l][i - 1] = IdleProcess
    BY <2>3, <2>1, <1>1
  <2> QED BY <2>3, <2>4, <1>4 DEF IdleIn
<1> QED BY <1>3, <1>4

-----------------------------------------------------------------------------
(* Lemmas about the steps.                                                 *)

\* The part of the invariant that does not mention excessSignals.
PlacesOK ==
    /\ activeProcess \in Process
    /\ ListsOK(queue)
    /\ ~Queued(queue, activeProcess)
    /\ NoneAbove(queue, priority[activeProcess])
    /\ activeContext \in Context
    /\ suspendedContext \in [Process -> Context \cup {NilContext}]
    /\ OwnContext
    /\ halted = FALSE
    /\ IdleReady

\* IInv in terms of the predicates on lists the lemmas are about.
LEMMA IInvParts ==
    IInv <=> /\ PlacesOK
             /\ excessSignals \in [Semaphore -> 0..MaxSmallInteger]
             /\ NoWaiterWhileSignalled
<1>1. ASSUME IInv PROVE NoneAbove(queue, priority[activeProcess])
  <2> SUFFICES ASSUME NEW l \in Priority, queue[l] # <<>>
               PROVE  l <= priority[activeProcess]
    BY DEF NoneAbove
  <2>1. queue[l] \in Seq(Process) /\ ~halted
    BY <1>1, ListFacts DEF IInv, TypeOK, NeverOutOfProcesses
  <2>2. 1 \in DOMAIN queue[l]
    BY <2>1, EmptySeq, LenProperties
  <2> QED BY <1>1, <2>1, <2>2 DEF IInv, HighestPriorityRuns
<1>2. ASSUME PlacesOK PROVE HighestPriorityRuns
  <2> SUFFICES ASSUME NEW l \in Priority, NEW i \in DOMAIN queue[l]
               PROVE  priority[queue[l][i]] = l /\ l <= priority[activeProcess]
    BY DEF HighestPriorityRuns
  <2>1. queue[l] # <<>>
    OBVIOUS
  <2> QED BY <1>2, <2>1 DEF PlacesOK, ListsOK, OnOwnList, NoneAbove
<1> QED
  BY <1>1, <1>2 DEF IInv, PlacesOK, TypeOK, InOnePlace, HighestPriorityRuns,
       ListsOK, Distinct, OnOwnList, NeverOutOfProcesses

\* Handing over the processor keeps every process in its own context.
LEMMA TransferTo ==
    ASSUME PlacesOK, NEW STATE p, p \in Process, transferTo(p)
    PROVE  /\ activeProcess' = p
           /\ activeContext' \in Context
           /\ suspendedContext' \in [Process -> Context \cup {NilContext}]
           /\ OwnContext'
BY NilContextAssumption DEF PlacesOK, transferTo, OwnContext, Context

\* With the idle process ready, waking the highest priority keeps the places.
LEMMA WakeKeepsPlaces ==
    ASSUME PlacesOK, NEW STATE q, ListsOK(q), IdleIn(q), wakeHighestPriority(q)
    PROVE  PlacesOK' /\ \A s \in Semaphore : queue'[s] = q[s]
<1> DEFINE l == highestReady(q)
           p == Head(q[l])
<1>1. ReadyPriorities(q) # {}
  <2>1. priority[IdleProcess] \in Priority /\ q[priority[IdleProcess]] # <<>>
    BY ListFacts, IdleAssumption DEF IdleIn
  <2> QED BY <2>1 DEF ReadyPriorities
<1>2. /\ queue' = removeFirstLinkOfList(q, l)
      /\ transferTo(p)
      /\ halted' = halted
  BY <1>1 DEF wakeHighestPriority
<1>3. l \in Priority /\ l \in List /\ q[l] # <<>> /\ NoneAbove(q, l)
  BY <1>1, HighestReadyIsHighest, ListFacts
<1> HIDE DEF l
<1>4. /\ p \in Process
      /\ p = q[l][1] /\ 1 \in DOMAIN q[l]
      /\ \A k \in List \ {l} : queue'[k] = q[k]
      /\ ~Queued(queue', p)
  BY <1>2, <1>3, RemoveFirstLink DEF ListsOK
<1>5. priority[p] = l
  BY <1>3, <1>4 DEF ListsOK, OnOwnList
<1>6. ListsOK(queue')
  BY <1>2, <1>3, RemoveKeepsListsOK
<1>7. NoneAbove(queue', l)
  BY <1>2, <1>3, RemoveNoneAbove DEF ListsOK
<1>8. /\ activeProcess' = p
      /\ activeContext' \in Context
      /\ suspendedContext' \in [Process -> Context \cup {NilContext}]
      /\ OwnContext'
  BY <1>2, <1>4, TransferTo
<1>9. IdleReady'
  <2>1. CASE p = IdleProcess
    BY <2>1, <1>8 DEF IdleReady
  <2>2. CASE p # IdleProcess
    <3>1. IdleIn(queue')
      BY <2>2, <1>2, <1>3, RemoveKeepsIdle DEF ListsOK
    <3> QED BY <3>1 DEF IdleReady, IdleIn
  <2> QED BY <2>1, <2>2
<1>10. \A s \in Semaphore : queue'[s] = q[s]
  BY <1>3, <1>4, ListFacts
<1>11. PlacesOK'
  BY <1>2, <1>4, <1>5, <1>6, <1>7, <1>8, <1>9
     DEF PlacesOK, ListsOK, Distinct, OnOwnList, Queued, NoneAbove
<1> QED BY <1>10, <1>11

\* So does resuming a process that is on no list and does not run.
LEMMA ResumeKeepsPlaces ==
    ASSUME PlacesOK, NEW STATE q, NEW STATE p, p \in Process,
           p # activeProcess, ListsOK(q), ~Queued(q, p),
           ~Queued(q, activeProcess), NoneAbove(q, priority[activeProcess]),
           IdleIn(q) \/ activeProcess = IdleProcess \/ p = IdleProcess,
           resume(q, p)
    PROVE  /\ PlacesOK'
           /\ \A s \in Semaphore : queue'[s] = q[s]
<1> DEFINE a == activeProcess
<1>1. a \in Process /\ priority[a] \in Priority /\ priority[p] \in Priority
      /\ priority[a] \in List /\ priority[p] \in List
      /\ priority[a] \in Nat /\ priority[p] \in Nat
  BY ListFacts DEF PlacesOK
<1>2. halted' = FALSE
  BY DEF resume, PlacesOK
<1>3. CASE priority[p] > priority[a]
  <2>1. queue' = addLastLink(q, a, priority[a]) /\ transferTo(p)
    BY <1>3 DEF resume
  <2>2. /\ activeProcess' = p
        /\ activeContext' \in Context
        /\ suspendedContext' \in [Process -> Context \cup {NilContext}]
        /\ OwnContext'
    BY <2>1, TransferTo
  <2>3. ListsOK(queue')
    BY <2>1, <1>1, AddKeepsListsOK
  <2>4. ~Queued(queue', p) /\ \A s \in Semaphore : queue'[s] = q[s]
    <3> DEFINE r == addLastLink(q, a, priority[a])
    <3>1. /\ \A k \in List \ {priority[a]} : r[k] = q[k]
          /\ \A x : Queued(r, x) <=> Queued(q, x) \/ x = a
      BY <1>1, AddLastLink DEF ListsOK
    <3>2. queue' = r /\ \A s \in Semaphore : s \in List /\ s # priority[a]
      BY <2>1, <1>1, ListFacts
    <3> HIDE DEF r
    <3> QED BY <3>1, <3>2
  <2>5. NoneAbove(q, priority[p])
    BY <1>1, <1>3, ListFacts DEF NoneAbove
  <2>6. NoneAbove(queue', priority[p])
    BY <2>1, <2>5, <1>1, <1>3, AddNoneAbove DEF ListsOK
  <2>7. IdleReady'
    <3>1. CASE p = IdleProcess
      BY <3>1, <2>2 DEF IdleReady
    <3>2. CASE p # IdleProcess
      <4>1. IdleIn(queue')
        BY <2>1, <1>1, <3>2, AddKeepsIdle DEF ListsOK
      <4> QED BY <4>1 DEF IdleReady, IdleIn
    <3> QED BY <3>1, <3>2
  <2>8. PlacesOK'
    BY <1>2, <2>2, <2>3, <2>4, <2>6, <2>7
       DEF PlacesOK, ListsOK, Distinct, OnOwnList, Queued, NoneAbove
  <2> QED BY <2>4, <2>8
<1>4. CASE ~ (priority[p] > priority[a])
  <2>1. queue' = addLastLink(q, p, priority[p]) /\ keepRunning
    BY <1>4 DEF resume
  <2>2. ListsOK(queue')
    BY <2>1, <1>1, AddKeepsListsOK
  <2>3. ~Queued(queue', a) /\ \A s \in Semaphore : queue'[s] = q[s]
    <3> DEFINE r == addLastLink(q, p, priority[p])
    <3>1. /\ \A k \in List \ {priority[p]} : r[k] = q[k]
          /\ \A x : Queued(r, x) <=> Queued(q, x) \/ x = p
      <4>1. /\ q \in [List -> Seq(Process)] /\ Distinct(q)
            /\ p \in Process /\ priority[p] \in List /\ ~Queued(q, p)
        BY <1>1 DEF ListsOK
      <4> QED BY ONLY <4>1, AddLastLink
    <3>2. queue' = r /\ \A s \in Semaphore : s \in List /\ s # priority[p]
      BY <2>1, <1>1, ListFacts
    <3> HIDE DEF r
    <3> QED BY <3>1, <3>2
  <2>4. NoneAbove(queue', priority[a])
    BY <2>1, <1>1, <1>4, AddNoneAbove DEF ListsOK
  <2>5. IdleReady'
    <3>1. CASE a = IdleProcess
      BY <3>1, <2>1 DEF IdleReady, keepRunning
    <3>2. CASE a # IdleProcess
      <4>1. IdleIn(queue')
        BY <2>1, <1>1, <3>2, AddKeepsIdle DEF ListsOK
      <4> QED BY <4>1 DEF IdleReady, IdleIn
    <3> QED BY <3>1, <3>2
  <2>6. PlacesOK'
    BY <1>2, <2>1, <2>2, <2>3, <2>4, <2>5
       DEF PlacesOK, ListsOK, Distinct, OnOwnList, Queued, NoneAbove,
           keepRunning, OwnContext
  <2> QED BY <2>3, <2>6
<1> QED BY <1>3, <1>4

-----------------------------------------------------------------------------
(* The invariant.                                                          *)

LEMMA InitIInv == Init => IInv
<1> SUFFICES ASSUME Init PROVE IInv
  OBVIOUS
<1>1. \A l \in List : queue[l] = <<>> /\ DOMAIN queue[l] = {}
  BY DEF Init
<1>2. TypeOK
  <2>1. 1 \in 1..NumContexts /\ 0 \in 0..MaxSmallInteger
    BY MaxSmallIntegerAssumption, NumContextsAssumption
  <2>2. \A p \in Process : <<p, 1>> \in Context
    BY <2>1 DEF Context
  <2>3. queue \in [List -> Seq(Process)]
    BY DEF Init
  <2> QED BY <2>1, <2>2, <2>3, IdleAssumption DEF Init, TypeOK
<1>3. OwnContext
  BY NilContextAssumption, NumContextsAssumption, IdleAssumption
     DEF Init, OwnContext, Context
<1>4. InOnePlace /\ HighestPriorityRuns /\ NoWaiterWhileSignalled
  BY <1>1, ListFacts DEF Init, InOnePlace, Queued, HighestPriorityRuns,
                         NoWaiterWhileSignalled
<1> QED BY <1>2, <1>3, <1>4 DEF Init, IInv, NeverOutOfProcesses, IdleReady

\* What the places must be, and what a step must do to the semaphores, for
\* the invariant to hold again.
LEMMA StepParts ==
    ASSUME PlacesOK',
           excessSignals' \in [Semaphore -> 0..MaxSmallInteger],
           \A s \in Semaphore : excessSignals'[s] > 0 => queue'[s] = <<>>
    PROVE  IInv'
<1>1. HighestPriorityRuns'
  <2> SUFFICES ASSUME NEW l \in Priority, NEW i \in DOMAIN queue'[l]
               PROVE  /\ priority[queue'[l][i]] = l
                      /\ l <= priority[activeProcess']
    BY DEF HighestPriorityRuns
  <2>1. queue'[l] # <<>>
    OBVIOUS
  <2> QED BY <2>1 DEF PlacesOK, ListsOK, OnOwnList, NoneAbove
<1> QED BY <1>1 DEF IInv, PlacesOK, TypeOK, InOnePlace, HighestPriorityRuns,
       ListsOK, Distinct, OnOwnList, NeverOutOfProcesses, NoWaiterWhileSignalled

\* A signal given by the interpreter or by a process keeps the invariant.
LEMMA SignalKeepsIInv ==
    ASSUME IInv, NEW s \in Semaphore, synchronousSignal(s)
    PROVE  IInv'
<1>1. /\ PlacesOK
      /\ excessSignals \in [Semaphore -> 0..MaxSmallInteger]
      /\ NoWaiterWhileSignalled
  BY IInvParts
<1>2. CASE queue[s] = <<>>
  <2>1. /\ excessSignals' = [excessSignals EXCEPT
                ![s] = IF @ < MaxSmallInteger THEN @ + 1 ELSE @]
        /\ UNCHANGED <<queue, halted, activeProcess,
                       activeContext, suspendedContext>>
    BY <1>2 DEF synchronousSignal, keepRunning
  <2>2. PlacesOK'
    BY <1>1, <2>1 DEF PlacesOK, ListsOK, Distinct, OnOwnList, Queued,
                      NoneAbove, OwnContext, IdleReady, IdleIn
  <2>3. excessSignals' \in [Semaphore -> 0..MaxSmallInteger]
    BY <1>1, <2>1, MaxSmallIntegerAssumption
  <2>4. \A t \in Semaphore : excessSignals'[t] > 0 => queue'[t] = <<>>
    BY <1>1, <1>2, <2>1 DEF NoWaiterWhileSignalled
  <2> QED BY <2>2, <2>3, <2>4, StepParts
<1>3. CASE queue[s] # <<>>
  <2> DEFINE p == Head(queue[s])
             q == removeFirstLinkOfList(queue, s)
  <2>1. resume(q, p) /\ excessSignals' = excessSignals
    BY <1>3 DEF synchronousSignal
  <2>2. s \in List /\ s \notin Priority
    BY ListFacts
  <2>3. /\ p \in Process
        /\ \A k \in List \ {s} : q[k] = queue[k]
        /\ \A x : Queued(q, x) <=> Queued(queue, x) /\ x # p
        /\ Queued(queue, p)
    <3>1. /\ p \in Process
          /\ p = queue[s][1]
          /\ 1 \in DOMAIN queue[s]
          /\ \A k \in List \ {s} : q[k] = queue[k]
          /\ \A x : Queued(q, x) <=> Queued(queue, x) /\ x # p
      BY <1>1, <1>3, <2>2, RemoveFirstLink DEF PlacesOK, ListsOK
    <3> QED BY <3>1, <2>2 DEF Queued
  <2>4. ListsOK(q)
    BY <1>1, <1>3, <2>2, RemoveKeepsListsOK DEF PlacesOK
  <2>5. NoneAbove(q, priority[activeProcess])
    BY <1>1, <2>2, <2>3, ListFacts DEF PlacesOK, NoneAbove
  <2>6. IdleIn(q) \/ activeProcess = IdleProcess
    <3>1. priority[IdleProcess] \in Priority
      BY ListFacts, IdleAssumption
    <3>2. q[priority[IdleProcess]] = queue[priority[IdleProcess]]
      BY <2>2, <2>3, <3>1, ListFacts
    <3> QED BY <1>1, <3>2 DEF PlacesOK, IdleReady, IdleIn
  <2>7. p # activeProcess /\ ~Queued(q, p) /\ ~Queued(q, activeProcess)
    BY <1>1, <2>3 DEF PlacesOK
  <2>8. PlacesOK' /\ \A t \in Semaphore : queue'[t] = q[t]
    <3> HIDE DEF p, q
    <3> QED BY <1>1, <2>1, <2>3, <2>4, <2>5, <2>6, <2>7, ResumeKeepsPlaces
  <2>9. \A t \in Semaphore : excessSignals'[t] > 0 => queue'[t] = <<>>
    <3>1. ~ (excessSignals[s] > 0)
      BY <1>1, <1>3 DEF NoWaiterWhileSignalled
    <3>2. \A t \in Semaphore \ {s} : queue'[t] = queue[t]
      BY <2>3, <2>8, ListFacts
    <3> QED BY <3>1, <3>2, <2>1, <1>1 DEF NoWaiterWhileSignalled
  <2> QED BY <1>1, <2>1, <2>8, <2>9, StepParts
<1> QED BY <1>2, <1>3

\* Every action keeps the invariant, and so does a step that changes nothing.
LEMMA NextKeepsIInv == IInv /\ [Next]_schedulerVars => IInv'
<1> SUFFICES ASSUME IInv, [Next]_schedulerVars PROVE IInv'
  OBVIOUS
<1> DEFINE a == activeProcess
<1>0. /\ PlacesOK
      /\ excessSignals \in [Semaphore -> 0..MaxSmallInteger]
      /\ NoWaiterWhileSignalled
  BY IInvParts
<1>00. /\ ListsOK(queue) /\ queue \in [List -> Seq(Process)] /\ Distinct(queue)
       /\ a \in Process /\ ~Queued(queue, a)
       /\ priority[a] \in Priority /\ priority[a] \in List
  BY <1>0, ListFacts DEF PlacesOK, ListsOK
<1>1. ASSUME NEW s \in Semaphore, primitiveSignal(s) PROVE IInv'
  BY <1>1, SignalKeepsIInv DEF primitiveSignal
<1>2. ASSUME NEW s \in Semaphore, primitiveWait(s) PROVE IInv'
  <2>1. CASE excessSignals[s] > 0
    <3>1. /\ excessSignals' = [excessSignals EXCEPT ![s] = @ - 1]
          /\ UNCHANGED <<queue, halted, activeProcess,
                         activeContext, suspendedContext>>
      BY <1>2, <2>1 DEF primitiveWait, keepRunning
    <3>2. PlacesOK'
      BY <1>0, <3>1 DEF PlacesOK, ListsOK, Distinct, OnOwnList, Queued,
                        NoneAbove, OwnContext, IdleReady, IdleIn
    <3>3. /\ excessSignals' \in [Semaphore -> 0..MaxSmallInteger]
          /\ \A t \in Semaphore : excessSignals'[t] > 0 => excessSignals[t] > 0
      BY <1>0, <2>1, <3>1, MaxSmallIntegerAssumption
    <3> QED BY <1>0, <3>1, <3>2, <3>3, StepParts DEF NoWaiterWhileSignalled
  <2>2. CASE ~ (excessSignals[s] > 0)
    <3> DEFINE q == addLastLink(queue, a, s)
    <3>1. /\ wakeHighestPriority(q) /\ excessSignals' = excessSignals
          /\ a # IdleProcess
      BY <1>2, <2>2 DEF primitiveWait
    <3>2. s \in List /\ s \notin Priority
      BY ListFacts
    <3>3. ListsOK(q) /\ IdleIn(q)
      BY <1>0, <1>00, <3>1, <3>2, AddKeepsListsOK, AddKeepsIdle
         DEF PlacesOK, IdleReady
    <3>4. \A t \in Semaphore \ {s} : q[t] = queue[t]
      BY <1>00 DEF addLastLink
    <3>5. PlacesOK' /\ \A t \in Semaphore : queue'[t] = q[t]
      <4> HIDE DEF q
      <4> QED BY <1>0, <3>1, <3>3, WakeKeepsPlaces
    <3>6. \A t \in Semaphore : excessSignals'[t] > 0 => queue'[t] = <<>>
      BY <1>0, <2>2, <3>1, <3>4, <3>5 DEF NoWaiterWhileSignalled
    <3> QED BY <1>0, <3>1, <3>5, <3>6, StepParts
  <2> QED BY <2>1, <2>2
<1>3. ASSUME NEW p \in Process, primitiveResume(p) PROVE IInv'
  <2>1. /\ p # a /\ ~Queued(queue, p) /\ resume(queue, p)
        /\ excessSignals' = excessSignals
    BY <1>3 DEF primitiveResume
  <2>2. PlacesOK' /\ \A t \in Semaphore : queue'[t] = queue[t]
    BY <1>0, <1>00, <2>1, ResumeKeepsPlaces DEF PlacesOK, IdleReady
  <2> QED BY <1>0, <2>1, <2>2, StepParts DEF NoWaiterWhileSignalled
<1>4. ASSUME NEW p \in Process, primitiveSuspend(p) PROVE IInv'
  <2>1. /\ p = a /\ a # IdleProcess /\ wakeHighestPriority(queue)
        /\ excessSignals' = excessSignals
    BY <1>4 DEF primitiveSuspend
  <2>2. PlacesOK' /\ \A t \in Semaphore : queue'[t] = queue[t]
    BY <1>0, <1>00, <2>1, WakeKeepsPlaces DEF PlacesOK, IdleReady
  <2> QED BY <1>0, <2>1, <2>2, StepParts DEF NoWaiterWhileSignalled
<1>5. ASSUME primitiveYield PROVE IInv'
  <2> DEFINE q == addLastLink(queue, a, priority[a])
  <2>1. wakeHighestPriority(q) /\ excessSignals' = excessSignals
    BY <1>5 DEF primitiveYield
  <2>2. ListsOK(q)
    BY <1>00, AddKeepsListsOK
  <2>3. IdleIn(q)
    BY <1>0, <1>00, AddKeepsIdle DEF PlacesOK, IdleReady
  <2>4. \A t \in Semaphore : q[t] = queue[t]
    BY <1>00, ListFacts DEF addLastLink
  <2>5. PlacesOK' /\ \A t \in Semaphore : queue'[t] = q[t]
    <3> HIDE DEF q
    <3> QED BY <1>0, <2>1, <2>2, <2>3, WakeKeepsPlaces
  <2> QED BY <1>0, <2>1, <2>4, <2>5, StepParts DEF NoWaiterWhileSignalled
<1>6. ASSUME activateNewMethod PROVE IInv'
  <2>1. PICK n \in 1..NumContexts : activeContext' = <<activeContext[1], n>>
    BY <1>6 DEF activateNewMethod
  <2>2. UNCHANGED <<activeProcess, queue, excessSignals,
                    suspendedContext, halted>>
    BY <1>6 DEF activateNewMethod
  <2>3. activeContext' \in Context /\ activeContext'[1] = activeContext[1]
    BY <1>0, <2>1 DEF PlacesOK, Context
  <2>4. PlacesOK'
    BY <1>0, <2>2, <2>3 DEF PlacesOK, ListsOK, Distinct, OnOwnList, Queued,
                            NoneAbove, OwnContext, IdleReady, IdleIn
  <2> QED BY <1>0, <2>2, <2>4, StepParts DEF NoWaiterWhileSignalled
<1>7. ASSUME UNCHANGED schedulerVars PROVE IInv'
  <2>1. UNCHANGED <<activeProcess, queue, excessSignals, activeContext,
                    suspendedContext, halted>>
    BY <1>7 DEF schedulerVars
  <2>2. PlacesOK'
    BY <1>0, <2>1 DEF PlacesOK, ListsOK, Distinct, OnOwnList, Queued,
                      NoneAbove, OwnContext, IdleReady, IdleIn
  <2> QED BY <1>0, <2>1, <2>2, StepParts DEF NoWaiterWhileSignalled
<1> QED BY <1>1, <1>2, <1>3, <1>4, <1>5, <1>6, <1>7 DEF Next

\* The strengthened invariant holds in every reachable state.
THEOREM Invariance == Spec => []IInv
BY InitIInv, NextKeepsIInv, PTL DEF Spec

\* Every variable keeps its type.
THEOREM TypeCorrect == Spec => []TypeOK
<1>1. IInv => TypeOK
  BY DEF IInv
<1> QED BY Invariance, <1>1, PTL

\* A process is linked at most once, and not while it runs (resume, putToSleep,
\* primitiveWait, wakeHighestPriority).
THEOREM OnePlaceEach == Spec => []InOnePlace
<1>1. IInv => InOnePlace
  BY DEF IInv
<1> QED BY Invariance, <1>1, PTL

\* No ready process has a higher priority than the one that runs (resume,
\* wakeHighestPriority).
THEOREM PriorityScheduling == Spec => []HighestPriorityRuns
<1>1. IInv => HighestPriorityRuns
  BY DEF IInv
<1> QED BY Invariance, <1>1, PTL

\* No process waits on a semaphore that holds a signal (synchronousSignal,
\* primitiveWait).
THEOREM NoLostWakeup == Spec => []NoWaiterWhileSignalled
<1>1. IInv => NoWaiterWhileSignalled
  BY DEF IInv
<1> QED BY Invariance, <1>1, PTL

\* wakeHighestPriority always finds a process, as long as the image has one
\* that never blocks.
THEOREM AlwaysRunnable == Spec => []NeverOutOfProcesses
<1>1. IInv => NeverOutOfProcesses
  BY DEF IInv
<1> QED BY Invariance, <1>1, PTL

\* The interpreter runs a context of the active process, and every other
\* process keeps one of its own (transferTo).
THEOREM ContextsKept == Spec => []OwnContext
<1>1. IInv => OwnContext
  BY DEF IInv
<1> QED BY Invariance, <1>1, PTL

-----------------------------------------------------------------------------
(* What a step may never do.                                               *)

\* Whoever gets the processor, everybody keeps the context they are in.
LEMMA TransferKeepsContinuations ==
    ASSUME suspendedContext \in [Process -> Context \cup {NilContext}],
           NEW STATE p, transferTo(p)
    PROVE  \A x \in Process : Continuation(x)' = Continuation(x)
BY DEF transferTo, Continuation

\* Resuming moves processes between the lists of priorities alone.
LEMMA ResumeSteps ==
    ASSUME suspendedContext \in [Process -> Context \cup {NilContext}],
           activeProcess \in Process, NEW STATE q, NEW STATE p,
           p \in Process, q \in [List -> Seq(Process)], resume(q, p)
    PROVE  /\ \A x \in Process : Continuation(x)' = Continuation(x)
           /\ \A s \in Semaphore : queue'[s] = q[s]
           /\ \E z \in {activeProcess, p} :
                 queue' = addLastLink(q, z, priority[z])
<1>1. CASE priority[p] > priority[activeProcess]
  <2>1. /\ queue' = addLastLink(q, activeProcess, priority[activeProcess])
        /\ transferTo(p)
    BY <1>1 DEF resume
  <2>2. \A s \in Semaphore : queue'[s] = q[s]
    BY <2>1, ListFacts DEF addLastLink
  <2> QED BY <2>1, <2>2, TransferKeepsContinuations
<1>2. CASE ~(priority[p] > priority[activeProcess])
  <2>1. queue' = addLastLink(q, p, priority[p]) /\ keepRunning
    BY <1>2 DEF resume
  <2>2. \A s \in Semaphore : queue'[s] = q[s]
    BY <2>1, ListFacts DEF addLastLink
  <2>3. \A x \in Process : Continuation(x)' = Continuation(x)
    BY <2>1 DEF keepRunning, Continuation
  <2> QED BY <2>1, <2>2, <2>3
<1> QED BY <1>1, <1>2

\* ... and so does waking the highest priority.
LEMMA WakeSteps ==
    ASSUME suspendedContext \in [Process -> Context \cup {NilContext}],
           NEW STATE q, q \in [List -> Seq(Process)], wakeHighestPriority(q)
    PROVE  /\ \A x \in Process : Continuation(x)' = Continuation(x)
           /\ \A s \in Semaphore : queue'[s] = q[s]
           /\ \/ queue' = q
              \/ \E l \in Priority : /\ q[l] # <<>>
                                    /\ queue' = removeFirstLinkOfList(q, l)
<1>1. CASE ReadyPriorities(q) = {}
  BY <1>1 DEF wakeHighestPriority, keepRunning, Continuation
<1>2. CASE ReadyPriorities(q) # {}
  <2>1. highestReady(q) \in Priority /\ q[highestReady(q)] # <<>>
    BY <1>2, HighestReadyIsHighest
  <2>2. /\ queue' = removeFirstLinkOfList(q, highestReady(q))
        /\ transferTo(Head(q[highestReady(q)]))
    BY <1>2 DEF wakeHighestPriority
  <2>3. \A x \in Process : Continuation(x)' = Continuation(x)
    BY <2>2, TransferKeepsContinuations
  <2>4. \A s \in Semaphore : queue'[s] = q[s]
    BY <2>1, <2>2, ListFacts DEF removeFirstLinkOfList
  <2> QED BY <2>1, <2>2, <2>3, <2>4
<1> QED BY <1>1, <1>2

\* A step of the scheduler moves no process to another context.
LEMMA StepKeepsContinuations ==
    ASSUME TypeOK, Next
    PROVE  \A p \in Process :
              Continuation(p)' # Continuation(p) =>
                 activeProcess = p /\ activeProcess' = p
<1> DEFINE Kept == \A x \in Process : Continuation(x)' = Continuation(x)
<1>0. /\ suspendedContext \in [Process -> Context \cup {NilContext}]
      /\ activeProcess \in Process /\ queue \in [List -> Seq(Process)]
      /\ \A s \in Semaphore : s \in List
      /\ priority[activeProcess] \in List
  BY ListFacts DEF TypeOK
<1>1. ASSUME NEW s \in Semaphore, primitiveSignal(s) PROVE Kept
  <2>1. CASE queue[s] = <<>>
    BY <1>1, <2>1 DEF primitiveSignal, synchronousSignal, keepRunning,
                      Continuation
  <2>2. CASE queue[s] # <<>>
    <3>1. /\ Head(queue[s]) \in Process
          /\ removeFirstLinkOfList(queue, s) \in [List -> Seq(Process)]
          /\ resume(removeFirstLinkOfList(queue, s), Head(queue[s]))
      BY <1>0, <1>1, <2>2
         DEF primitiveSignal, synchronousSignal, removeFirstLinkOfList
    <3> QED BY <1>0, <3>1, ResumeSteps
  <2> QED BY <2>1, <2>2
<1>2. ASSUME NEW s \in Semaphore, primitiveWait(s) PROVE Kept
  <2>1. CASE excessSignals[s] > 0
    BY <1>2, <2>1 DEF primitiveWait, keepRunning, Continuation
  <2>2. CASE ~(excessSignals[s] > 0)
    <3>1. /\ addLastLink(queue, activeProcess, s) \in [List -> Seq(Process)]
          /\ wakeHighestPriority(addLastLink(queue, activeProcess, s))
      BY <1>0, <1>2, <2>2 DEF primitiveWait, addLastLink
    <3> QED BY <1>0, <3>1, WakeSteps
  <2> QED BY <2>1, <2>2
<1>3. ASSUME NEW p \in Process, primitiveResume(p) PROVE Kept
  BY <1>0, <1>3, ResumeSteps DEF primitiveResume
<1>4. ASSUME NEW p \in Process, primitiveSuspend(p) PROVE Kept
  BY <1>0, <1>4, WakeSteps DEF primitiveSuspend
<1>5. ASSUME primitiveYield PROVE Kept
  <2>1. addLastLink(queue, activeProcess, priority[activeProcess])
           \in [List -> Seq(Process)]
    BY <1>0 DEF addLastLink
  <2> QED BY <1>0, <1>5, <2>1, WakeSteps DEF primitiveYield
<1>6. CASE activateNewMethod
  BY <1>6 DEF activateNewMethod, Continuation
<1> QED BY <1>1, <1>2, <1>3, <1>4, <1>5, <1>6 DEF Next

\* However often the processor changes hands (transferTo), a process goes on
\* in the context it left.
THEOREM ContinuationsKept == Spec => ContinuationKept
<1>1. TypeOK /\ [Next]_schedulerVars =>
         [\A p \in Process :
             Continuation(p)' # Continuation(p) =>
                activeProcess = p /\ activeProcess' = p]_schedulerVars
  BY StepKeepsContinuations
<1> QED BY TypeCorrect, <1>1, PTL DEF Spec, ContinuationKept

\* Each kind of step changes the balance of a semaphore as it should.
Conserved(s) ==
    \/ Balance(s)' = Balance(s)
    \/ Balance(s)' = Balance(s) + 1
    \/ /\ Balance(s)' = Balance(s) - 1
       /\ \/ activeProcess' = activeProcess /\ excessSignals[s] > 0
          \/ queue'[s] = Append(queue[s], activeProcess)

LEMMA StepConservesSignals ==
    ASSUME TypeOK, Next PROVE \A t \in Semaphore : Conserved(t)
<1>0. /\ suspendedContext \in [Process -> Context \cup {NilContext}]
      /\ activeProcess \in Process /\ queue \in [List -> Seq(Process)]
      /\ excessSignals \in [Semaphore -> 0..MaxSmallInteger]
      /\ \A s \in Semaphore : s \in List
      /\ priority[activeProcess] \in Priority
  BY ListFacts DEF TypeOK
<1> SUFFICES ASSUME NEW t \in Semaphore PROVE Conserved(t)
  OBVIOUS
<1>00. t \in List /\ excessSignals[t] \in Int /\ Len(queue[t]) \in Nat
  BY <1>0, MaxSmallIntegerAssumption
<1>u. ASSUME queue'[t] = queue[t], excessSignals' = excessSignals
      PROVE  Conserved(t)
  BY <1>00, <1>u DEF Conserved, Balance
<1>1. ASSUME NEW s \in Semaphore, primitiveSignal(s) PROVE Conserved(t)
  <2>1. CASE queue[s] = <<>>
    <3>1. /\ excessSignals' = [excessSignals EXCEPT
                ![s] = IF @ < MaxSmallInteger THEN @ + 1 ELSE @]
          /\ queue' = queue
      BY <1>1, <2>1 DEF primitiveSignal, synchronousSignal
    <3>2. excessSignals'[t] \in {excessSignals[t], excessSignals[t] + 1}
      BY <1>0, <3>1
    <3> QED BY <1>00, <3>1, <3>2 DEF Conserved, Balance
  <2>2. CASE queue[s] # <<>>
    <3> DEFINE q == removeFirstLinkOfList(queue, s)
    <3>1. /\ Head(queue[s]) \in Process /\ q \in [List -> Seq(Process)]
          /\ resume(q, Head(queue[s])) /\ excessSignals' = excessSignals
      BY <1>0, <1>1, <2>2
         DEF primitiveSignal, synchronousSignal, removeFirstLinkOfList
    <3>2. queue'[t] = q[t]
      <4> HIDE DEF q
      <4> QED BY <1>0, <3>1, ResumeSteps
    <3>3. CASE t # s
      BY <1>0, <1>u, <3>1, <3>2, <3>3 DEF removeFirstLinkOfList
    <3>4. CASE t = s
      <4>1. q[t] = Tail(queue[t])
        BY <1>0, <1>00, <3>4 DEF removeFirstLinkOfList
      <4>2. Len(queue'[t]) = Len(queue[t]) - 1
        BY <1>0, <1>00, <2>2, <3>2, <3>4, <4>1
      <4> QED BY <1>00, <3>1, <4>2 DEF Conserved, Balance
    <3> QED BY <3>3, <3>4
  <2> QED BY <2>1, <2>2
<1>2. ASSUME NEW s \in Semaphore, primitiveWait(s) PROVE Conserved(t)
  <2>1. CASE excessSignals[s] > 0
    <3>1. /\ excessSignals' = [excessSignals EXCEPT ![s] = @ - 1]
          /\ queue' = queue /\ activeProcess' = activeProcess
      BY <1>2, <2>1 DEF primitiveWait, keepRunning
    <3>2. CASE t # s
      BY <1>00, <3>1, <3>2 DEF Conserved, Balance
    <3>3. CASE t = s
      BY <1>0, <1>00, <2>1, <3>1, <3>3 DEF Conserved, Balance
    <3> QED BY <3>2, <3>3
  <2>2. CASE ~(excessSignals[s] > 0)
    <3> DEFINE q == addLastLink(queue, activeProcess, s)
    <3>1. /\ q \in [List -> Seq(Process)] /\ wakeHighestPriority(q)
          /\ excessSignals' = excessSignals
      BY <1>0, <1>2, <2>2 DEF primitiveWait, addLastLink
    <3>2. queue'[t] = q[t]
      <4> HIDE DEF q
      <4> QED BY <1>0, <3>1, WakeSteps
    <3>3. CASE t # s
      BY <1>0, <1>u, <3>1, <3>2, <3>3 DEF addLastLink
    <3>4. CASE t = s
      <4>1. queue'[t] = Append(queue[t], activeProcess)
        BY <1>0, <1>00, <3>2, <3>4 DEF addLastLink
      <4>2. Len(queue'[t]) = Len(queue[t]) + 1
        BY <1>0, <1>00, <4>1
      <4> QED BY <1>00, <3>1, <4>1, <4>2 DEF Conserved, Balance
    <3> QED BY <3>3, <3>4
  <2> QED BY <2>1, <2>2
<1>3. ASSUME NEW p \in Process, primitiveResume(p) PROVE Conserved(t)
  BY <1>0, <1>u, <1>3, ResumeSteps DEF primitiveResume
<1>4. ASSUME NEW p \in Process, primitiveSuspend(p) PROVE Conserved(t)
  BY <1>0, <1>u, <1>4, WakeSteps DEF primitiveSuspend
<1>5. ASSUME primitiveYield PROVE Conserved(t)
  <2> DEFINE q == addLastLink(queue, activeProcess, priority[activeProcess])
  <2>0. priority[activeProcess] \in List /\ t # priority[activeProcess]
    BY <1>0, ListFacts
  <2>1. q \in [List -> Seq(Process)] /\ q[t] = queue[t]
    BY <1>0, <1>00, <2>0 DEF addLastLink
  <2>2. wakeHighestPriority(q) /\ excessSignals' = excessSignals
    BY <1>5 DEF primitiveYield
  <2>3. queue'[t] = q[t]
    <3> HIDE DEF q
    <3> QED BY <1>0, <2>1, <2>2, WakeSteps
  <2> QED BY <1>u, <2>1, <2>2, <2>3
<1>6. CASE activateNewMethod
  BY <1>u, <1>6 DEF activateNewMethod
<1> QED BY <1>1, <1>2, <1>3, <1>4, <1>5, <1>6 DEF Next

\* Signals are neither lost nor invented, whatever the scheduler does
\* (synchronousSignal, primitiveWait).
THEOREM SignalsKept == Spec => SignalsConserved
<1>1. TypeOK /\ [Next]_schedulerVars =>
         [\A s \in Semaphore : Conserved(s)]_schedulerVars
  BY StepConservesSignals
<1>2. [\A s \in Semaphore : Conserved(s)]_schedulerVars =>
         [\A s \in Semaphore :
             \/ Balance(s)' = Balance(s)
             \/ Balance(s)' = Balance(s) + 1
             \/ /\ Balance(s)' = Balance(s) - 1
                /\ \/ activeProcess' = activeProcess /\ excessSignals[s] > 0
                   \/ queue'[s] = Append(queue[s], activeProcess)
         ]_schedulerVars
  BY DEF Conserved
<1> QED BY TypeCorrect, <1>1, <1>2, PTL DEF Spec, SignalsConserved

\* y is linked from l.
On(q, l, y) == \E i \in DOMAIN q[l] : q[l][i] = y

\* From q to r nobody gets ahead of who is linked from l in q.
InOrder(q, r, l) ==
    \A x, y \in Process :
        On(q, l, y) /\ Before(r, l, x, y) => Before(q, l, x, y)

\* Who is added comes last.
LEMMA AddInOrder ==
    ASSUME NEW q \in [List -> Seq(Process)], NEW p \in Process, NEW l \in List,
           ~Queued(q, p), NEW k \in List
    PROVE  InOrder(q, addLastLink(q, p, l), k)
<1> DEFINE r == addLastLink(q, p, l)
<1>1. CASE k # l
  BY <1>1 DEF addLastLink, InOrder, Before
<1>2. CASE k = l
  <2>1. /\ Len(q[l]) \in Nat /\ DOMAIN q[l] = 1..Len(q[l])
        /\ DOMAIN r[l] = 1..(Len(q[l]) + 1)
        /\ r[l][Len(q[l]) + 1] = p
        /\ \A i \in 1..Len(q[l]) : r[l][i] = q[l][i]
    BY DEF addLastLink
  <2> SUFFICES ASSUME NEW x \in Process, NEW y \in Process, On(q, l, y),
                      NEW i \in DOMAIN r[l], NEW j \in DOMAIN r[l],
                      i < j, r[l][i] = x, r[l][j] = y
               PROVE  Before(q, l, x, y)
    BY <1>2 DEF InOrder, Before
  <2> HIDE DEF r
  <2>2. y # p
    BY DEF On, Queued
  <2>3. j # Len(q[l]) + 1
    BY <2>1, <2>2
  <2>4. i \in DOMAIN q[l] /\ j \in DOMAIN q[l]
    BY <2>1, <2>3
  <2> QED BY <2>1, <2>4 DEF Before
<1> QED BY <1>1, <1>2

\* Taking the first one off changes no order.
LEMMA RemoveInOrder ==
    ASSUME NEW q \in [List -> Seq(Process)], NEW l \in List, q[l] # <<>>,
           NEW k \in List, NEW x, NEW y,
           Before(removeFirstLinkOfList(q, l), k, x, y)
    PROVE  Before(q, k, x, y)
<1> DEFINE r == removeFirstLinkOfList(q, l)
<1>1. CASE k # l
  BY <1>1 DEF removeFirstLinkOfList, Before
<1>2. CASE k = l
  <2>1. /\ Len(q[l]) \in Nat /\ DOMAIN q[l] = 1..Len(q[l])
        /\ DOMAIN r[l] = 1..(Len(q[l]) - 1)
        /\ \A i \in 1..(Len(q[l]) - 1) : r[l][i] = q[l][i + 1]
    BY DEF removeFirstLinkOfList
  <2>2. PICK i \in DOMAIN r[l], j \in DOMAIN r[l] :
              i < j /\ r[l][i] = x /\ r[l][j] = y
    BY <1>2 DEF Before
  <2> HIDE DEF r
  <2>3. /\ i + 1 \in DOMAIN q[l] /\ j + 1 \in DOMAIN q[l] /\ i + 1 < j + 1
        /\ q[l][i + 1] = x /\ q[l][j + 1] = y
    BY <2>1, <2>2
  <2> QED BY <1>2, <2>3 DEF Before
<1> QED BY <1>1, <1>2

\* Resuming adds a process that is not linked; waking removes one.
LEMMA ResumeInOrder ==
    ASSUME TypeOK, NEW STATE q, NEW STATE p, p \in Process,
           q \in [List -> Seq(Process)], resume(q, p),
           ~Queued(q, p), ~Queued(q, activeProcess), NEW k \in List
    PROVE  InOrder(q, queue', k)
<1>1. PICK z \in {activeProcess, p} : queue' = addLastLink(q, z, priority[z])
  BY ResumeSteps DEF TypeOK
<1>2. z \in Process /\ ~Queued(q, z) /\ priority[z] \in List
  BY ListFacts DEF TypeOK
<1> QED BY <1>1, <1>2, AddInOrder

LEMMA WakeInOrder ==
    ASSUME TypeOK, NEW STATE q, q \in [List -> Seq(Process)],
           wakeHighestPriority(q), NEW k \in List
    PROVE  InOrder(q, queue', k)
<1>1. CASE queue' = q
  BY <1>1 DEF InOrder
<1>2. CASE queue' # q
  <2>1. PICK l \in Priority : /\ q[l] # <<>>
                             /\ queue' = removeFirstLinkOfList(q, l)
    BY <1>2, WakeSteps DEF TypeOK
  <2> QED BY <2>1, RemoveInOrder, ListFacts DEF InOrder
<1> QED BY <1>1, <1>2

LEMMA StepInOrder ==
    ASSUME IInv, Next, NEW l \in List PROVE InOrder(queue, queue', l)
<1> DEFINE a == activeProcess
<1>0. /\ TypeOK /\ a \in Process /\ queue \in [List -> Seq(Process)]
      /\ Distinct(queue) /\ ~Queued(queue, a)
      /\ priority[a] \in Priority /\ priority[a] \in List
      /\ \A s \in Semaphore : s \in List /\ s \notin Priority
  BY ListFacts DEF IInv, TypeOK, InOnePlace, Distinct, NeverOutOfProcesses
<1>u. ASSUME queue' = queue PROVE InOrder(queue, queue', l)
  BY <1>u DEF InOrder
<1>w. ASSUME NEW k \in List, wakeHighestPriority(addLastLink(queue, a, k))
      PROVE  InOrder(queue, queue', l)
  <2> DEFINE q == addLastLink(queue, a, k)
  <2>1. q \in [List -> Seq(Process)] /\ InOrder(queue, q, l)
    BY <1>0, AddLastLink, AddInOrder
  <2>2. InOrder(q, queue', l)
    <3> HIDE DEF q
    <3> QED BY <1>0, <1>w, <2>1, WakeInOrder DEF q
  <2>3. \A y : On(queue, l, y) => On(q, l, y)
    <3>1. \A i \in DOMAIN queue[l] : i \in DOMAIN q[l] /\ q[l][i] = queue[l][i]
      BY <1>0 DEF addLastLink
    <3> HIDE DEF q
    <3> QED BY <3>1 DEF On
  <2> HIDE DEF q
  <2> QED BY <2>1, <2>2, <2>3 DEF InOrder
<1>1. ASSUME NEW s \in Semaphore, primitiveSignal(s)
      PROVE  InOrder(queue, queue', l)
  <2>1. CASE queue[s] = <<>>
    BY <1>1, <1>u, <2>1 DEF primitiveSignal, synchronousSignal
  <2>2. CASE queue[s] # <<>>
    <3> DEFINE q == removeFirstLinkOfList(queue, s)
               p == Head(queue[s])
    <3>1. /\ q \in [List -> Seq(Process)] /\ p \in Process
          /\ \A k \in List \ {s} : q[k] = queue[k]
          /\ \A x : Queued(q, x) <=> Queued(queue, x) /\ x # p
      BY <1>0, <2>2, RemoveFirstLink
    <3>2. resume(q, p)
      BY <1>1, <2>2 DEF primitiveSignal, synchronousSignal
    <3>3. InOrder(q, queue', l) /\ queue'[s] = q[s]
      <4> HIDE DEF p, q
      <4> QED BY <1>0, <3>1, <3>2, ResumeInOrder, ResumeSteps DEF TypeOK
    <3>4. CASE l = s
      <4>1. \A x, y : Before(queue', l, x, y) => Before(queue, l, x, y)
        <5>1. \A x, y : Before(q, l, x, y) => Before(queue, l, x, y)
          BY <1>0, <2>2, RemoveInOrder
        <5> HIDE DEF p, q
        <5> QED BY <3>3, <3>4, <5>1 DEF Before
      <4> QED BY <4>1 DEF InOrder
    <3>5. CASE l # s
      <4> HIDE DEF p, q
      <4> QED BY <3>1, <3>3, <3>5 DEF InOrder, On, Before
    <3> QED BY <3>4, <3>5
  <2> QED BY <2>1, <2>2
<1>2. ASSUME NEW s \in Semaphore, primitiveWait(s)
      PROVE  InOrder(queue, queue', l)
  BY <1>0, <1>2, <1>u, <1>w DEF primitiveWait
<1>3. ASSUME NEW p \in Process, primitiveResume(p)
      PROVE  InOrder(queue, queue', l)
  BY <1>0, <1>3, ResumeInOrder DEF primitiveResume
<1>4. ASSUME NEW p \in Process, primitiveSuspend(p)
      PROVE  InOrder(queue, queue', l)
  BY <1>0, <1>4, WakeInOrder DEF primitiveSuspend
<1>5. ASSUME primitiveYield PROVE InOrder(queue, queue', l)
  BY <1>0, <1>5, <1>w DEF primitiveYield
<1>6. CASE activateNewMethod
  BY <1>6, <1>u DEF activateNewMethod
<1> QED BY <1>1, <1>2, <1>3, <1>4, <1>5, <1>6 DEF Next

\* Lists are first come, first served (addLastLink:toList:,
\* removeFirstLinkOfList).
THEOREM FirstComeFirstServed == Spec => NoOvertaking
<1>1. IInv /\ [Next]_schedulerVars =>
         [\A l \in List : \A p, r \in Process :
             /\ \E i \in DOMAIN queue[l] : queue[l][i] = p
             /\ ~Before(queue, l, r, p)
             => ~Before(queue', l, r, p)]_schedulerVars
  BY StepInOrder DEF InOrder, On
<1> QED BY Invariance, <1>1, PTL DEF Spec, NoOvertaking

-----------------------------------------------------------------------------
(* Counting in a buffer.                                                   *)

Positions(s, from, index) == {i \in from..Len(s) : s[i] = index}

\* A buffer holds an index at most as often as it holds anything.
LEMMA PositionsFinite ==
    ASSUME NEW s, Len(s) \in Nat, NEW from \in Nat \ {0}, NEW index
    PROVE  /\ IsFiniteSet(Positions(s, from, index))
           /\ Cardinality(Positions(s, from, index)) \in Nat
           /\ Cardinality(Positions(s, from, index)) <= Len(s)
<1> DEFINE n == Len(s)
<1>1. /\ IsFiniteSet(1..n)
      /\ Cardinality(1..n) = IF 1 > n THEN 0 ELSE n - 1 + 1
  BY FS_Interval
<1>2. Cardinality(1..n) = n
  BY <1>1
<1>3. Positions(s, from, index) \in SUBSET (1..n)
  BY DEF Positions
<1> HIDE DEF n
<1>4. /\ IsFiniteSet(Positions(s, from, index))
      /\ Cardinality(Positions(s, from, index)) <= n
  BY <1>1, <1>2, <1>3, FS_Subset
<1> QED BY <1>4, FS_CardinalityType DEF n

\* An index that is added is there once more.
LEMMA PositionsAppend ==
    ASSUME NEW S, NEW s \in Seq(S), NEW x \in S, NEW index
    PROVE  Cardinality(Positions(Append(s, x), 1, index)) =
              Cardinality(Positions(s, 1, index)) + IF x = index THEN 1 ELSE 0
<1>1. PICK n : n = Len(s) /\ n \in Nat
  OBVIOUS
<1>2. /\ Len(Append(s, x)) = n + 1
      /\ Append(s, x)[n + 1] = x
      /\ \A i \in 1..n : Append(s, x)[i] = s[i]
  BY <1>1
<1>3. PICK P : P = Positions(s, 1, index)
  OBVIOUS
<1>4. /\ IsFiniteSet(P)
      /\ Cardinality(P) \in Nat
  BY <1>1, <1>3, PositionsFinite
<1>5. n + 1 \notin P
  BY <1>1, <1>3 DEF Positions
<1>6. ASSUME x = index
      PROVE  Cardinality(Positions(Append(s, x), 1, index)) =
                Cardinality(P) + 1
  <2>1. Positions(Append(s, x), 1, index) = P \cup {n + 1}
    BY <1>1, <1>2, <1>3, <1>6 DEF Positions
  <2>2. Cardinality(P \cup {n + 1}) =
          IF n + 1 \in P THEN Cardinality(P) ELSE Cardinality(P) + 1
    BY <1>4, FS_AddElement
  <2> QED BY <1>5, <2>1, <2>2
<1>7. ASSUME x # index
      PROVE  Positions(Append(s, x), 1, index) = P
  BY <1>1, <1>2, <1>3, <1>7 DEF Positions
<1>8. CASE x = index
  BY <1>3, <1>6, <1>8
<1>9. CASE x # index
  BY <1>3, <1>4, <1>7, <1>9
<1> QED BY <1>8, <1>9

\* An index that has been drained is left once less.
LEMMA PositionsDrain ==
    ASSUME NEW s, Len(s) \in Nat, NEW d \in Nat, d < Len(s), NEW index
    PROVE  Cardinality(Positions(s, d + 2, index)) =
              Cardinality(Positions(s, d + 1, index))
                 - IF s[d + 1] = index THEN 1 ELSE 0
<1>1. PICK P : P = Positions(s, d + 1, index)
  OBVIOUS
<1>2. IsFiniteSet(P) /\ Cardinality(P) \in Nat
  BY <1>1, PositionsFinite
<1>3. ASSUME s[d + 1] = index
      PROVE  Cardinality(Positions(s, d + 2, index)) = Cardinality(P) - 1
  <2>1. Positions(s, d + 2, index) = P \ {d + 1} /\ d + 1 \in P
    BY <1>1, <1>3 DEF Positions
  <2>2. Cardinality(P \ {d + 1}) =
          IF d + 1 \in P THEN Cardinality(P) - 1 ELSE Cardinality(P)
    BY <1>2, FS_RemoveElement
  <2> QED BY <2>1, <2>2
<1>4. ASSUME s[d + 1] # index
      PROVE  Positions(s, d + 2, index) = P
  BY <1>1, <1>4 DEF Positions
<1>5. CASE s[d + 1] = index
  BY <1>1, <1>3, <1>5
<1>6. CASE s[d + 1] # index
  BY <1>1, <1>2, <1>4, <1>6
<1> QED BY <1>5, <1>6

\* Nothing is left of an empty buffer, or of one that has been drained.
LEMMA PositionsNone ==
    ASSUME NEW s, NEW from \in Nat, Len(s) \in Nat, from > Len(s), NEW index
    PROVE  Cardinality(Positions(s, from, index)) = 0
<1>1. Positions(s, from, index) = {}
  BY DEF Positions
<1> QED BY <1>1, FS_EmptySet

-----------------------------------------------------------------------------
(* The two buffers: the one the handlers fill, and the one they left.      *)

filling == buffer[semaphoresUseBufferA]
leaving == buffer[draining]

LEMMA TwoBuffers ==
    ASSUME semaphoresUseBufferA \in BOOLEAN
    PROVE  draining \in BOOLEAN /\ draining # semaphoresUseBufferA
BY Zenon DEF draining

LEMMA BufferTypes ==
    ASSUME semaphoresUseBufferA \in BOOLEAN, NEW S, buffer \in [BOOLEAN -> S]
    PROVE  filling \in S /\ leaving \in S
<1>1. draining \in BOOLEAN
  BY TwoBuffers
<1> QED BY <1>1, Zenon DEF filling, leaving

\* What is written to one buffer leaves the other alone.
LEMMA Fill ==
    ASSUME semaphoresUseBufferA \in BOOLEAN, UNCHANGED semaphoresUseBufferA,
           NEW S, buffer \in [BOOLEAN -> S], NEW y \in S,
           buffer' = [buffer EXCEPT ![semaphoresUseBufferA] = y]
    PROVE  buffer' \in [BOOLEAN -> S] /\ filling' = y /\ leaving' = leaving
<1>1. draining \in BOOLEAN /\ draining # semaphoresUseBufferA
  BY TwoBuffers
<1>2. draining' = draining
  BY DEF draining
<1>3. filling' = y
  BY Zenon DEF filling
<1>4. leaving' = leaving
  BY <1>1, <1>2, Zenon DEF leaving
<1>5. buffer' \in [BOOLEAN -> S]
  BY Zenon
<1> QED BY <1>3, <1>4, <1>5

LEMMA Leave ==
    ASSUME semaphoresUseBufferA \in BOOLEAN, UNCHANGED semaphoresUseBufferA,
           NEW S, buffer \in [BOOLEAN -> S], NEW y \in S,
           buffer' = [buffer EXCEPT ![draining] = y]
    PROVE  buffer' \in [BOOLEAN -> S] /\ filling' = filling /\ leaving' = y
<1>1. draining \in BOOLEAN /\ draining # semaphoresUseBufferA
  BY TwoBuffers
<1>2. draining' = draining
  BY DEF draining
<1>3. filling' = filling
  BY <1>1, Zenon DEF filling
<1>4. leaving' = y
  BY <1>1, <1>2, Zenon DEF leaving
<1>5. buffer' \in [BOOLEAN -> S]
  BY Zenon
<1> QED BY <1>3, <1>4, <1>5

LEMMA Flip ==
    ASSUME semaphoresUseBufferA \in BOOLEAN, UNCHANGED buffer,
           semaphoresUseBufferA' = ~semaphoresUseBufferA
    PROVE  /\ semaphoresUseBufferA' \in BOOLEAN
           /\ filling' = leaving /\ leaving' = filling
<1>1. semaphoresUseBufferA' = draining
  BY DEF draining
<1>2. draining' = semaphoresUseBufferA
  BY Zenon DEF draining
<1>3. semaphoresUseBufferA' \in BOOLEAN
  BY <1>1, TwoBuffers
<1> QED BY <1>1, <1>2, <1>3, Zenon DEF filling, leaving

\* With nothing in either, nothing is in the one the handlers fill.
LEMMA BothEmpty ==
    ASSUME semaphoresUseBufferA \in BOOLEAN,
           buffer[TRUE] = <<>>, buffer[FALSE] = <<>>
    PROVE  filling = <<>> /\ leaving = <<>>
<1>1. draining \in BOOLEAN
  BY TwoBuffers
<1>2. \A b \in BOOLEAN : buffer[b] = <<>>
  BY Zenon
<1> QED BY <1>1, <1>2, Zenon DEF filling, leaving

-----------------------------------------------------------------------------
(* The inductive invariant.                                                *)

\* The flags, the counter and the registered semaphores have their types.
Registers ==
    /\ check \in {"run", "lowSpace", "events", "interrupt", "timer",
                  "finalization", "external", "drain"}
    /\ interruptCheckCounter \in -1..CheckInterval
    /\ signalLowSpace \in BOOLEAN
    /\ interruptPending \in BOOLEAN
    /\ timer \in {"off", "armed", "due"}
    /\ pendingFinalizationSignals \in 0..MaxFinalizations
    /\ theLowSpaceSemaphore \in SemaphoreArgs
    /\ theInterruptSemaphore \in SemaphoreArgs
    /\ theTimerSemaphore \in SemaphoreArgs \cup {nilObj}

Stands(s, from, index) == Cardinality(Positions(s, from, index))

\* What is left to drain and what the handlers have written is what is owed.
Buffers ==
    /\ semaphoresUseBufferA \in BOOLEAN
    /\ buffer \in [BOOLEAN -> Seq(Index)]
    /\ Len(filling) <= SemaphoresToSignalSize
    /\ Len(leaving) <= SemaphoresToSignalSize
    /\ drained \in Nat /\ drained <= Len(leaving)
    /\ check # "drain" => leaving = <<>>
    /\ owed \in [Index -> Nat]
    /\ \A i \in Index :
         owed[i] = Stands(filling, 1, i) + Stands(leaving, drained + 1, i)

\* Whatever is pending is ahead of a check that is in progress, or the next
\* send starts one.
Pending ==
    /\ check \in {"run", "drain"} /\ filling # <<>>
         => interruptCheckCounter <= 0
    /\ signalLowSpace =>
         \/ check = "lowSpace"
         \/ check = "run" /\ interruptCheckCounter <= 0
    /\ pendingFinalizationSignals > 0 =>
         /\ check \notin {"external", "drain"}
         /\ check = "run" => interruptCheckCounter <= 0

CheckInv == Registers /\ Buffers /\ Pending

LEMMA BufferFacts ==
    ASSUME Buffers
    PROVE  /\ filling \in Seq(Index) /\ leaving \in Seq(Index)
           /\ Len(filling) \in Nat /\ Len(leaving) \in Nat
           /\ check # "drain" => drained = 0
           /\ \A i \in Index :
                 /\ Stands(filling, 1, i) \in Nat
                 /\ Stands(filling, 1, i) <= Len(filling)
                 /\ Stands(leaving, drained + 1, i) \in Nat
                 /\ Stands(leaving, drained + 1, i) <= Len(leaving)
                 /\ Stands(leaving, drained + 2, i) \in Nat
<1>1. filling \in Seq(Index) /\ leaving \in Seq(Index)
  BY BufferTypes DEF Buffers
<1>2. Len(filling) \in Nat /\ Len(leaving) \in Nat
  BY <1>1
<1>3. check # "drain" => drained = 0
  BY <1>2 DEF Buffers
<1>4. drained + 1 \in Nat \ {0} /\ drained + 2 \in Nat \ {0}
  BY DEF Buffers
<1>5. ASSUME NEW i \in Index
      PROVE  /\ Stands(filling, 1, i) \in Nat
             /\ Stands(filling, 1, i) <= Len(filling)
             /\ Stands(leaving, drained + 1, i) \in Nat
             /\ Stands(leaving, drained + 1, i) <= Len(leaving)
             /\ Stands(leaving, drained + 2, i) \in Nat
  BY <1>2, <1>4, PositionsFinite DEF Stands
<1> QED BY <1>1, <1>2, <1>3, <1>5

\* The buffers are as they were, and no drain ends.
LEMMA BuffersUntouched ==
    ASSUME Buffers, UNCHANGED bufferVars, check' # "drain" => check # "drain"
    PROVE  Buffers' /\ filling' = filling
<1>1. filling' = filling /\ leaving' = leaving
  BY DEF filling, leaving, draining, bufferVars
<1> QED BY <1>1 DEF Buffers, bufferVars

LEMMA CheckInit == IInit => CheckInv
<1> SUFFICES ASSUME IInit PROVE CheckInv
  OBVIOUS
<1>1. Registers
  <2>1. /\ check = "run" /\ interruptCheckCounter = 0
        /\ signalLowSpace = FALSE /\ interruptPending = FALSE
        /\ timer = "off" /\ pendingFinalizationSignals = 0
        /\ theLowSpaceSemaphore \in SemaphoreArgs
        /\ theInterruptSemaphore \in SemaphoreArgs
        /\ theTimerSemaphore = nilObj
    BY DEF IInit
  <2>2. 0 \in -1..CheckInterval /\ 0 \in 0..MaxFinalizations
    BY InterruptsAssumption
  <2> QED BY <2>1, <2>2 DEF Registers
<1>2. /\ semaphoresUseBufferA \in BOOLEAN
      /\ buffer[TRUE] = <<>> /\ buffer[FALSE] = <<>>
      /\ buffer \in [BOOLEAN -> Seq(Index)]
      /\ drained = 0
      /\ owed \in [Index -> Nat] /\ \A i \in Index : owed[i] = 0
  <2>1. <<>> \in Seq(Index)
    OBVIOUS
  <2> QED BY <2>1, Zenon DEF IInit
<1>3. filling = <<>> /\ leaving = <<>>
  BY <1>2, BothEmpty
<1>4. Buffers
  <2>1. \A i \in Index : Stands(<<>>, 1, i) = 0
    BY PositionsNone DEF Stands
  <2>2. \A i \in Index :
          owed[i] = Stands(filling, 1, i) + Stands(leaving, drained + 1, i)
    BY <1>2, <1>3, <2>1
  <2>3. /\ Len(filling) <= SemaphoresToSignalSize
        /\ Len(leaving) <= SemaphoresToSignalSize
        /\ drained \in Nat /\ drained <= Len(leaving)
    BY <1>2, <1>3, InterruptsAssumption
  <2> QED BY <1>2, <1>3, <2>2, <2>3 DEF Buffers
<1>5. Pending
  BY <1>3 DEF IInit, Pending
<1> QED BY <1>1, <1>4, <1>5 DEF CheckInv

LEMMA RecordKeeps ==
    ASSUME CheckInv, NEW index \in Index, signalSemaphoreWithIndex(index)
    PROVE  CheckInv'
<1>1. /\ UNCHANGED <<flagVars, registryVars, check, drained>>
      /\ UNCHANGED semaphoresUseBufferA
      /\ interruptCheckCounter' = -1
  BY DEF signalSemaphoreWithIndex
<1>2. Registers' /\ Pending'
  BY <1>1, InterruptsAssumption
  DEF CheckInv, Registers, Pending, flagVars, registryVars
<1>3. Buffers'
  <2>1. CASE Len(filling) < SemaphoresToSignalSize
    <3>1. /\ buffer' = [buffer EXCEPT
                ![semaphoresUseBufferA] = Append(filling, index)]
          /\ owed' = [owed EXCEPT ![index] = @ + 1]
      BY <2>1 DEF signalSemaphoreWithIndex, filling
    <3>2. Append(filling, index) \in Seq(Index)
      BY BufferFacts DEF CheckInv
    <3>3. /\ buffer' \in [BOOLEAN -> Seq(Index)]
          /\ filling' = Append(filling, index)
          /\ leaving' = leaving
      BY <1>1, <3>1, <3>2, Fill DEF CheckInv, Buffers
    <3>4. \A i \in Index :
            Stands(filling', 1, i) =
               Stands(filling, 1, i) + IF index = i THEN 1 ELSE 0
      BY <3>3, BufferFacts, PositionsAppend DEF CheckInv, Stands
    <3>5. \A i \in Index : /\ Stands(filling, 1, i) \in Nat
                           /\ Stands(leaving, drained + 1, i) \in Nat
      BY BufferFacts DEF CheckInv
    <3>6. /\ owed' \in [Index -> Nat]
          /\ \A i \in Index : owed'[i] = owed[i] + IF index = i THEN 1 ELSE 0
      BY <3>1 DEF CheckInv, Buffers
    <3>7. \A i \in Index :
            owed'[i] = Stands(filling', 1, i) + Stands(leaving, drained + 1, i)
      <4>1. \A i \in Index :
              owed[i] = Stands(filling, 1, i) + Stands(leaving, drained + 1, i)
        BY DEF CheckInv, Buffers
      <4> QED BY <3>4, <3>5, <3>6, <4>1
    <3>8. Len(filling') <= SemaphoresToSignalSize
      BY <2>1, <3>3, BufferFacts, InterruptsAssumption DEF CheckInv
    <3> QED BY <1>1, <3>3, <3>6, <3>7, <3>8 DEF CheckInv, Buffers
  <2>2. CASE ~(Len(filling) < SemaphoresToSignalSize)
    BY <1>1, <2>2, BuffersUntouched
    DEF signalSemaphoreWithIndex, CheckInv, bufferVars, filling
  <2> QED BY <2>1, <2>2
<1> QED BY <1>2, <1>3 DEF CheckInv

LEMMA FlipKeeps ==
    ASSUME CheckInv, flipBuffers
    PROVE  CheckInv'
<1>1. /\ UNCHANGED <<flagVars, registryVars, buffer, drained, owed>>
      /\ UNCHANGED interruptCheckCounter
      /\ check = "external" /\ check' \in {"drain", "run"}
  BY DEF flipBuffers
<1>2. Registers'
  BY <1>1 DEF CheckInv, Registers, flagVars, registryVars
<1>3. drained = 0 /\ leaving = <<>>
  BY <1>1, BufferFacts DEF CheckInv, Buffers
<1>4. CASE check' = "run"
  <2>1. /\ buffer[TRUE] = <<>> /\ buffer[FALSE] = <<>>
        /\ UNCHANGED bufferVars
    BY <1>1, <1>4 DEF flipBuffers, bufferVars
  <2>2. Buffers' /\ filling' = filling /\ filling = <<>>
    BY <1>1, <2>1, BuffersUntouched, BothEmpty DEF CheckInv, Buffers
  <2>3. Pending'
    BY <1>1, <1>4, <2>2 DEF CheckInv, Pending, flagVars
  <2> QED BY <1>2, <2>2, <2>3 DEF CheckInv
<1>5. CASE check' = "drain"
  <2>1. semaphoresUseBufferA' = ~semaphoresUseBufferA
    BY <1>5, Zenon DEF flipBuffers
  <2>2. /\ semaphoresUseBufferA' \in BOOLEAN
        /\ filling' = leaving /\ leaving' = filling
    BY <1>1, <2>1, Flip DEF CheckInv, Buffers
  <2>3. Buffers'
    <3>1. \A i \in Index :
            owed[i] = Stands(leaving, 1, i) + Stands(filling, 1, i)
      BY <1>3, BufferFacts DEF CheckInv, Buffers
    <3>2. drained \in Nat /\ drained <= Len(filling)
      BY <1>3, BufferFacts DEF CheckInv
    <3> QED BY <1>1, <1>3, <1>5, <2>2, <3>1, <3>2 DEF CheckInv, Buffers
  <2>4. Pending'
    BY <1>1, <1>3, <1>5, <2>2 DEF CheckInv, Pending, flagVars
  <2> QED BY <1>2, <2>3, <2>4 DEF CheckInv
<1> QED BY <1>1, <1>4, <1>5

LEMMA DrainKeeps ==
    ASSUME CheckInv, drainOne
    PROVE  CheckInv'
<1>1. /\ UNCHANGED <<checkVars, flagVars, registryVars, buffer>>
      /\ UNCHANGED semaphoresUseBufferA
      /\ check = "drain" /\ drained < Len(leaving) /\ drained' = drained + 1
      /\ owed' = [owed EXCEPT ![leaving[drained + 1]] = @ - 1]
      /\ filling' = filling /\ leaving' = leaving
  BY DEF drainOne, filling, leaving, draining
<1>2. Registers' /\ Pending'
  BY <1>1
  DEF CheckInv, Registers, Pending, checkVars, flagVars, registryVars
<1>3. /\ drained \in Nat /\ Len(leaving) \in Nat /\ leaving \in Seq(Index)
      /\ \A i \in Index : /\ Stands(filling, 1, i) \in Nat
                          /\ Stands(leaving, drained + 1, i) \in Nat
                          /\ Stands(leaving, drained + 2, i) \in Nat
  BY BufferFacts DEF CheckInv, Buffers
<1>4. PICK index \in Index : index = leaving[drained + 1]
  BY <1>1, <1>3
<1>5. \A i \in Index :
        Stands(leaving, drained + 2, i) =
           Stands(leaving, drained + 1, i) - IF index = i THEN 1 ELSE 0
  BY <1>1, <1>3, <1>4, PositionsDrain DEF Stands
<1>6. \A i \in Index : owed'[i] = owed[i] - IF index = i THEN 1 ELSE 0
  BY <1>1, <1>4 DEF CheckInv, Buffers
<1>7. \A i \in Index :
        owed'[i] = Stands(filling, 1, i) + Stands(leaving, drained + 2, i)
  <2>1. \A i \in Index :
          owed[i] = Stands(filling, 1, i) + Stands(leaving, drained + 1, i)
    BY DEF CheckInv, Buffers
  <2> TAKE i \in Index
  <2>2. CASE index = i
    BY <1>3, <1>5, <1>6, <2>1, <2>2
  <2>3. CASE index # i
    BY <1>3, <1>5, <1>6, <2>1, <2>3
  <2> QED BY <2>2, <2>3
<1>8. \A i \in Index : owed'[i] \in Nat
  BY <1>3, <1>7
<1>9. owed' \in [Index -> Nat]
  BY <1>1, <1>8 DEF CheckInv, Buffers
<1>10. /\ drained' \in Nat /\ drained' <= Len(leaving)
       /\ drained' + 1 = drained + 2
  BY <1>1, <1>3
<1>11. Buffers'
  BY <1>1, <1>7, <1>9, <1>10 DEF CheckInv, Buffers, checkVars
<1> QED BY <1>2, <1>11 DEF CheckInv

LEMMA EmptyKeeps ==
    ASSUME CheckInv, emptyBuffer
    PROVE  CheckInv'
<1>1. /\ UNCHANGED <<flagVars, registryVars, owed>>
      /\ UNCHANGED <<semaphoresUseBufferA, interruptCheckCounter>>
      /\ check = "drain" /\ check' = "run" /\ drained' = 0
      /\ drained = Len(leaving)
      /\ buffer' = [buffer EXCEPT ![draining] = <<>>]
  BY DEF emptyBuffer, goto, leaving
<1>2. /\ filling' = filling /\ leaving' = <<>>
      /\ buffer' \in [BOOLEAN -> Seq(Index)]
  <2>1. <<>> \in Seq(Index)
    OBVIOUS
  <2> QED BY <1>1, <2>1, Leave DEF CheckInv, Buffers
<1>3. Registers' /\ Pending'
  BY <1>1, <1>2 DEF CheckInv, Registers, Pending, flagVars, registryVars
<1>4. \A i \in Index : /\ Stands(leaving, drained + 1, i) = 0
                       /\ Stands(<<>>, 1, i) = 0
  <2>1. /\ Len(leaving) \in Nat /\ drained + 1 \in Nat
        /\ drained + 1 > Len(leaving)
    BY <1>1, BufferFacts DEF CheckInv
  <2> QED BY <2>1, PositionsNone DEF Stands
<1>5. \A i \in Index :
        owed'[i] = Stands(filling', 1, i) + Stands(leaving', 1, i)
  BY <1>1, <1>2, <1>4 DEF CheckInv, Buffers
<1>6. Len(leaving') <= SemaphoresToSignalSize
  BY <1>2, InterruptsAssumption
<1>7. Buffers'
  BY <1>1, <1>2, <1>5, <1>6 DEF CheckInv, Buffers
<1> QED BY <1>3, <1>7 DEF CheckInv

LEMMA NextKeepsCheckInv == CheckInv /\ [INext]_vars => CheckInv'
<1> SUFFICES ASSUME CheckInv, [INext]_vars PROVE CheckInv'
  OBVIOUS
<1> USE InterruptsAssumption
<1>1. ASSUME NEW index \in Index, signalSemaphoreWithIndex(index)
      PROVE  CheckInv'
  BY <1>1, RecordKeeps
<1>2. CASE runLowOnSpace
  <2>1. UNCHANGED <<check, bufferVars>>
    BY <1>2 DEF runLowOnSpace
  <2>2. Buffers' /\ filling' = filling
    BY <2>1, BuffersUntouched DEF CheckInv
  <2>3. Registers' /\ Pending'
    BY <1>2, <2>2
    DEF runLowOnSpace, running, CheckInv, Registers, Pending, registryVars
  <2> QED BY <2>2, <2>3 DEF CheckInv
<1>3. CASE setInterruptPending
  <2>1. UNCHANGED <<check, bufferVars>>
    BY <1>3 DEF setInterruptPending
  <2>2. Buffers' /\ filling' = filling
    BY <2>1, BuffersUntouched DEF CheckInv
  <2>3. Registers' /\ Pending'
    BY <1>3, <2>2
    DEF setInterruptPending, CheckInv, Registers, Pending, registryVars
  <2> QED BY <2>2, <2>3 DEF CheckInv
<1>4. CASE signalFinalization
  <2>1. UNCHANGED <<check, bufferVars>>
    BY <1>4 DEF signalFinalization
  <2>2. Buffers' /\ filling' = filling
    BY <2>1, BuffersUntouched DEF CheckInv
  <2>3. Registers' /\ Pending'
    BY <1>4, <2>2
    DEF signalFinalization, running, CheckInv, Registers, Pending, registryVars
  <2> QED BY <2>2, <2>3 DEF CheckInv
<1>5. CASE clockTicks
  <2>1. UNCHANGED <<check, bufferVars>>
    BY <1>5 DEF clockTicks, checkVars
  <2>2. Buffers' /\ filling' = filling
    BY <2>1, BuffersUntouched DEF CheckInv
  <2>3. Registers' /\ Pending'
    BY <1>5, <2>2
    DEF clockTicks, CheckInv, Registers, Pending, registryVars, checkVars
  <2> QED BY <2>2, <2>3 DEF CheckInv
<1>6. ASSUME NEW arg \in SemaphoreArgs,
             \/ primitiveLowSpaceSemaphore(arg)
             \/ primitiveInterruptSemaphore(arg)
             \/ primitiveSignalAtMilliseconds(arg)
      PROVE  CheckInv'
  <2>1. UNCHANGED <<check, bufferVars>>
    BY <1>6 DEF primitiveLowSpaceSemaphore, primitiveInterruptSemaphore,
                primitiveSignalAtMilliseconds, checkVars
  <2>2. Buffers' /\ filling' = filling
    BY <2>1, BuffersUntouched DEF CheckInv
  <2>3. Registers' /\ Pending'
    BY <1>6, <2>2
    DEF primitiveLowSpaceSemaphore, primitiveInterruptSemaphore,
        primitiveSignalAtMilliseconds, CheckInv, Registers, Pending,
        registryVars, checkVars, flagVars
  <2> QED BY <2>2, <2>3 DEF CheckInv
<1>7. CASE quickCheckForInterrupts
  <2>1. UNCHANGED bufferVars /\ check' # "drain" /\ check = "run"
    BY <1>7 DEF quickCheckForInterrupts, running
  <2>2. Buffers' /\ filling' = filling
    BY <2>1, BuffersUntouched DEF CheckInv
  <2>3. CASE interruptCheckCounter - 1 <= 0
    <3>1. check' = "lowSpace" /\ interruptCheckCounter' = CheckInterval
      BY <1>7, <2>3 DEF quickCheckForInterrupts
    <3>2. UNCHANGED <<flagVars, registryVars>>
      BY <1>7 DEF quickCheckForInterrupts
    <3>3. interruptCheckCounter' \in -1..CheckInterval
      BY <3>1
    <3>4. Registers'
      BY <3>1, <3>2, <3>3 DEF CheckInv, Registers, registryVars, flagVars
    <3>5. Pending'
      BY <3>1 DEF Pending
    <3> QED BY <2>2, <3>4, <3>5 DEF CheckInv
  <2>4. CASE ~(interruptCheckCounter - 1 <= 0)
    <3>1. /\ check' = check
          /\ interruptCheckCounter' = interruptCheckCounter - 1
      BY <1>7, <2>4 DEF quickCheckForInterrupts
    <3>2. UNCHANGED <<flagVars, registryVars>>
      BY <1>7 DEF quickCheckForInterrupts
    <3>3. interruptCheckCounter' \in -1..CheckInterval
      BY <2>4, <3>1 DEF CheckInv, Registers
    <3>4. Registers'
      BY <3>1, <3>2, <3>3 DEF CheckInv, Registers, registryVars, flagVars
    <3>5. ~(interruptCheckCounter <= 0)
      BY <2>4 DEF CheckInv, Registers
    <3>6. Pending'
      BY <2>1, <2>2, <3>1, <3>2, <3>5 DEF CheckInv, Pending, flagVars
    <3> QED BY <2>2, <3>4, <3>6 DEF CheckInv
  <2> QED BY <2>3, <2>4
<1>8. CASE checkLowSpace
  <2>1. UNCHANGED bufferVars /\ check = "lowSpace" /\ check' = "events"
    BY <1>8 DEF checkLowSpace, goto
  <2>2. Buffers' /\ filling' = filling
    BY <2>1, BuffersUntouched DEF CheckInv
  <2>3. Registers' /\ Pending'
    BY <1>8, <2>1
    DEF checkLowSpace, CheckInv, Registers, Pending, registryVars
  <2> QED BY <2>2, <2>3 DEF CheckInv
<1>9. CASE pollEvents
  <2>1. UNCHANGED bufferVars /\ check = "events" /\ check' = "interrupt"
    BY <1>9 DEF pollEvents, goto
  <2>2. Buffers' /\ filling' = filling
    BY <2>1, BuffersUntouched DEF CheckInv
  <2>3. Registers' /\ Pending'
    BY <1>9, <2>1
    DEF pollEvents, CheckInv, Registers, Pending, registryVars, flagVars
  <2> QED BY <2>2, <2>3 DEF CheckInv
<1>10. CASE checkInterruptPending
  <2>1. UNCHANGED bufferVars /\ check = "interrupt" /\ check' = "timer"
    BY <1>10 DEF checkInterruptPending, goto
  <2>2. Buffers' /\ filling' = filling
    BY <2>1, BuffersUntouched DEF CheckInv
  <2>3. Registers' /\ Pending'
    BY <1>10, <2>1
    DEF checkInterruptPending, CheckInv, Registers, Pending, registryVars
  <2> QED BY <2>2, <2>3 DEF CheckInv
<1>11. CASE checkTimer
  <2>1. UNCHANGED bufferVars /\ check = "timer" /\ check' = "finalization"
    BY <1>11 DEF checkTimer, goto
  <2>2. Buffers' /\ filling' = filling
    BY <2>1, BuffersUntouched DEF CheckInv
  <2>3. Registers' /\ Pending'
    BY <1>11, <2>1
    DEF checkTimer, CheckInv, Registers, Pending, registryVars
  <2> QED BY <2>2, <2>3 DEF CheckInv
<1>12. CASE checkFinalization
  <2>1. UNCHANGED bufferVars /\ check = "finalization" /\ check' = "external"
    BY <1>12 DEF checkFinalization, goto
  <2>2. Buffers' /\ filling' = filling
    BY <2>1, BuffersUntouched DEF CheckInv
  <2>3. Registers' /\ Pending'
    BY <1>12, <2>1
    DEF checkFinalization, CheckInv, Registers, Pending, registryVars
  <2> QED BY <2>2, <2>3 DEF CheckInv
<1>13. CASE flipBuffers
  BY <1>13, FlipKeeps
<1>14. CASE drainOne
  BY <1>14, DrainKeeps
<1>15. CASE emptyBuffer
  BY <1>15, EmptyKeeps
<1>16. CASE schedule
  <2>1. UNCHANGED <<checkVars, flagVars, registryVars, bufferVars>>
    BY <1>16 DEF schedule
  <2>2. Buffers' /\ filling' = filling
    BY <2>1, BuffersUntouched DEF CheckInv, checkVars
  <2>3. Registers' /\ Pending'
    BY <2>1, <2>2
    DEF CheckInv, Registers, Pending, registryVars, flagVars, checkVars
  <2> QED BY <2>2, <2>3 DEF CheckInv
<1>17. CASE primitiveRelinquishProcessor
  <2>1. UNCHANGED <<check, flagVars, registryVars, bufferVars>>
    BY <1>17 DEF primitiveRelinquishProcessor
  <2>2. Buffers' /\ filling' = filling
    BY <2>1, BuffersUntouched DEF CheckInv
  <2>3. Registers' /\ Pending'
    BY <1>17, <2>1, <2>2
    DEF primitiveRelinquishProcessor, CheckInv, Registers, Pending,
        registryVars, flagVars
  <2> QED BY <2>2, <2>3 DEF CheckInv
<1>18. CASE UNCHANGED vars
  <2>1. UNCHANGED <<checkVars, flagVars, registryVars, bufferVars>>
    BY <1>18 DEF vars
  <2>2. Buffers' /\ filling' = filling
    BY <2>1, BuffersUntouched DEF CheckInv, checkVars
  <2>3. Registers' /\ Pending'
    BY <2>1, <2>2
    DEF CheckInv, Registers, Pending, registryVars, flagVars, checkVars
  <2> QED BY <2>2, <2>3 DEF CheckInv
<1> QED
  BY <1>1, <1>2, <1>3, <1>4, <1>5, <1>6, <1>7, <1>8, <1>9, <1>10, <1>11, <1>12,
     <1>13, <1>14, <1>15, <1>16, <1>17, <1>18
  DEF INext, checkForInterrupts

LEMMA CheckInvariance == ISpec => []CheckInv
BY CheckInit, NextKeepsCheckInv, PTL DEF ISpec

-----------------------------------------------------------------------------
(* The results.                                                            *)

\* An index recorded by a handler is owed until it is signalled, and is
\* signalled once, for every size of the buffers.
THEOREM IndicesSignalledOnce == ISpec => []OwedIsBuffered
<1>1. CheckInv => OwedIsBuffered
  <2> SUFFICES ASSUME CheckInv PROVE OwedIsBuffered
    OBVIOUS
  <2>1. \A index \in Index :
          /\ Occurrences(semaphoresUseBufferA, 1, index) =
                Stands(filling, 1, index)
          /\ Occurrences(draining, drained + 1, index) =
                Stands(leaving, drained + 1, index)
    BY DEF Occurrences, Stands, Positions, filling, leaving
  <2>2. /\ check # "drain" => leaving = <<>>
        /\ \A i \in Index :
             owed[i] = Stands(filling, 1, i) + Stands(leaving, drained + 1, i)
    BY DEF CheckInv, Buffers
  <2> QED BY <2>1, <2>2 DEF OwedIsBuffered, leaving
<1> QED BY CheckInvariance, <1>1, PTL

\* Nothing pending waits for more than the next send or backward jump.
THEOREM NothingOverlooked == ISpec => []PendingForcesCheck
<1>1. CheckInv => PendingForcesCheck
  BY DEF CheckInv, Pending, PendingForcesCheck, filling
<1> QED BY CheckInvariance, <1>1, PTL

\* Every variable of the interrupt check keeps its type; in particular the
\* buffers are never written beyond their size.
THEOREM CheckTypeCorrect == ISpec => []ITypeOK
<1>1. CheckInv => ITypeOK
  <2> SUFFICES ASSUME CheckInv PROVE ITypeOK
    OBVIOUS
  <2>1. \A b \in BOOLEAN : /\ buffer[b] \in Seq(Index)
                           /\ Len(buffer[b]) <= SemaphoresToSignalSize
    <3>1. /\ filling \in Seq(Index) /\ leaving \in Seq(Index)
          /\ Len(filling) <= SemaphoresToSignalSize
          /\ Len(leaving) <= SemaphoresToSignalSize
          /\ semaphoresUseBufferA \in BOOLEAN
      BY BufferFacts DEF CheckInv, Buffers
    <3>2. \A b \in BOOLEAN : b = semaphoresUseBufferA \/ b = draining
      BY <3>1, Zenon DEF draining
    <3> QED BY <3>1, <3>2, Zenon DEF filling, leaving
  <2>2. drained \in 0..SemaphoresToSignalSize
    BY BufferFacts, InterruptsAssumption DEF CheckInv, Buffers
  <2>3. \A i \in Index : owed[i] \in 0..(2 * SemaphoresToSignalSize)
    <3>1. \A i \in Index :
            /\ Stands(filling, 1, i) \in Nat
            /\ Stands(filling, 1, i) <= Len(filling)
            /\ Stands(leaving, drained + 1, i) \in Nat
            /\ Stands(leaving, drained + 1, i) <= Len(leaving)
      BY BufferFacts DEF CheckInv
    <3>2. /\ Len(filling) \in Nat /\ Len(leaving) \in Nat
          /\ Len(filling) <= SemaphoresToSignalSize
          /\ Len(leaving) <= SemaphoresToSignalSize
          /\ \A i \in Index :
               owed[i] = Stands(filling, 1, i) + Stands(leaving, drained + 1, i)
      BY BufferFacts DEF CheckInv, Buffers
    <3> QED BY <3>1, <3>2, InterruptsAssumption
  <2>4. owed \in [Index -> 0..(2 * SemaphoresToSignalSize)]
    BY <2>3 DEF CheckInv, Buffers
  <2>5. semaphoresUseBufferA \in BOOLEAN
    BY DEF CheckInv, Buffers
  <2> QED BY <2>1, <2>2, <2>4, <2>5 DEF ITypeOK, CheckInv, Registers
<1> QED BY CheckInvariance, <1>1, PTL

\* A semaphore the check signals is signalled as the primitive signals it.
LEMMA SignalIsScheduled ==
    ASSUME ~halted, NEW STATE sema, sema \in Semaphore \cup {nilObj},
           signalRegistered(sema)
    PROVE  [Next]_schedulerVars
<1>1. CASE sema = nilObj
  BY <1>1 DEF signalRegistered
<1>2. CASE sema # nilObj
  <2>1. sema \in Semaphore /\ synchronousSignal(sema)
    BY <1>2 DEF signalRegistered
  <2>2. primitiveSignal(sema)
    BY <2>1 DEF primitiveSignal
  <2> QED BY <2>1, <2>2 DEF Next
<1> QED BY <1>1, <1>2

\* Every step of the check and of what runs beside it is a step of the
\* scheduler or none at all.
LEMMA NextImplementsNext == CheckInv /\ [INext]_vars => [Next]_schedulerVars
<1> SUFFICES ASSUME CheckInv, [INext]_vars PROVE [Next]_schedulerVars
  OBVIOUS
<1>0. /\ theLowSpaceSemaphore \in Semaphore \cup {nilObj}
      /\ theInterruptSemaphore \in Semaphore \cup {nilObj}
      /\ theTimerSemaphore \in Semaphore \cup {nilObj}
      /\ theFinalizationSemaphore \in Semaphore \cup {nilObj}
  BY InterruptsAssumption DEF CheckInv, Registers
<1>1. CASE \E index \in Index : signalSemaphoreWithIndex(index)
  BY <1>1 DEF signalSemaphoreWithIndex
<1>2. CASE runLowOnSpace \/ setInterruptPending \/ signalFinalization
  BY <1>2 DEF runLowOnSpace, setInterruptPending, signalFinalization
<1>3. CASE clockTicks \/ primitiveRelinquishProcessor
  BY <1>3 DEF clockTicks, primitiveRelinquishProcessor
<1>4. CASE \E arg \in SemaphoreArgs :
              \/ primitiveLowSpaceSemaphore(arg)
              \/ primitiveInterruptSemaphore(arg)
              \/ primitiveSignalAtMilliseconds(arg)
  BY <1>4 DEF primitiveLowSpaceSemaphore, primitiveInterruptSemaphore,
              primitiveSignalAtMilliseconds
<1>5. CASE quickCheckForInterrupts
  BY <1>5 DEF quickCheckForInterrupts, Next
<1>6. CASE checkLowSpace
  BY <1>0, <1>6, SignalIsScheduled DEF checkLowSpace, goto
<1>7. CASE pollEvents \/ flipBuffers \/ emptyBuffer
  BY <1>7 DEF pollEvents, flipBuffers, emptyBuffer
<1>8. CASE checkInterruptPending
  BY <1>0, <1>8, SignalIsScheduled DEF checkInterruptPending, goto
<1>9. CASE checkTimer
  BY <1>0, <1>9, SignalIsScheduled DEF checkTimer, goto
<1>10. CASE checkFinalization
  BY <1>0, <1>10, SignalIsScheduled DEF checkFinalization, goto
<1>11. CASE drainOne
  <2>1. ASSUME NEW s \in Semaphore, synchronousSignal(s)
        PROVE  Next
    BY <1>11, <2>1 DEF drainOne, primitiveSignal, Next
  <2> QED BY <1>11, <2>1 DEF drainOne
<1>12. CASE schedule
  BY <1>12 DEF schedule, Next
<1>13. CASE UNCHANGED vars
  BY <1>13 DEF vars
<1> QED
  BY <1>1, <1>2, <1>3, <1>4, <1>5, <1>6, <1>7, <1>8, <1>9, <1>10, <1>11, <1>12,
     <1>13
  DEF INext, checkForInterrupts

\* The interrupt check, with everything that may come between its steps,
\* implements the scheduler.
THEOREM ImplementsScheduler == ISpec => Spec
<1>1. IInit => Init
  BY DEF IInit
<1> QED BY <1>1, CheckInvariance, NextImplementsNext, PTL DEF ISpec, Spec

\* Hence what is proved of the scheduler holds while interrupts come in: for
\* instance, a process that is runnable is always found, and no wakeup is
\* lost.
THEOREM SchedulingUnderInterrupts == ISpec => []IInv
BY ImplementsScheduler, Invariance, PTL
=============================================================================
