----------------------- MODULE LinkedScheduler_proofs -----------------------
(***************************************************************************)
(* The linked lists of LinkedScheduler are well formed and implement the   *)
(* FIFO lists of ProcessScheduler, for every set of processes, semaphores  *)
(* and priorities.  The lemmas follow the slots through one operation on a *)
(* list; what they need of the rest is that no process is in two places.   *)
(***************************************************************************)
EXTENDS LinkedScheduler, SequenceTheorems, WellFoundedInduction, TLAPS

Queued(q, p) == \E l \in List : \E i \in DOMAIN q[l] : q[l][i] = p

\* No two links, of one list or of two, lead to the same process.
Distinct(q) ==
    \A k, l \in List : \A i \in DOMAIN q[k], j \in DOMAIN q[l] :
        q[k][i] = q[l][j] => k = l /\ i = j

SlotsOK(h) ==
    /\ h.first \in [List -> Process \cup {nilObj}]
    /\ h.last \in [List -> Process \cup {nilObj}]
    /\ h.next \in [Process -> Process \cup {nilObj}]
    /\ h.my \in [Process -> List \cup {nilObj}]
    /\ h.queue \in [List -> Seq(Process)]

\* The lists are what WellLinked says they are, in the middle of a primitive
\* too.
ListsOK(h) ==
    /\ SlotsOK(h)
    /\ Distinct(h.queue)
    /\ LinkedAs(h)
    /\ \A p \in Process : ~Queued(h.queue, p) => h.next[p] = nilObj

\* What an action finds and leaves: the lists as above, and an active process
\* that is on none of them.
LInv ==
    /\ activeProcess \in Process
    /\ ListsOK(Heap)
    /\ ~halted => ~Queued(queue, activeProcess)

-----------------------------------------------------------------------------
(* Lemmas about the lists.                                                 *)

LEMMA ListFacts ==
    /\ Priority \subseteq List
    /\ Semaphore \subseteq List
    /\ \A p \in Process : priority[p] \in Priority
    /\ \A p \in Process : priority[p] \in List
    /\ nilObj \notin Process
    /\ Abstract!List = List
    /\ Abstract!Priority = Priority
    /\ Abstract!Context = Context
BY LinkAssumption DEF List, Abstract!List, Priority, Abstract!Priority,
     Context, Abstract!Context

\* A list without a first link has no process, and otherwise the first link
\* leads to the head.
LEMMA FirstLink ==
    ASSUME NEW h, ListsOK(h), NEW l \in List
    PROVE  /\ h.first[l] = nilObj <=> h.queue[l] = <<>>
           /\ h.queue[l] # <<>> =>
                 /\ Len(h.queue[l]) \in Nat \ {0}
                 /\ h.first[l] = h.queue[l][1]
                 /\ h.first[l] = Head(h.queue[l])
                 /\ h.first[l] \in Process
<1>1. h.queue[l] \in Seq(Process)
  BY DEF ListsOK, SlotsOK
<1>2. ASSUME h.queue[l] # <<>>
      PROVE  /\ Len(h.queue[l]) \in Nat \ {0}
             /\ h.queue[l][1] = Head(h.queue[l])
             /\ h.queue[l][1] \in Process
  BY <1>1, <1>2, EmptySeq, LenProperties, HeadTailProperties, ElementOfSeq
<1>3. h.queue[l] # <<>> => h.first[l] = h.queue[l][1]
  BY DEF ListsOK, LinkedAs
<1>4. h.queue[l] = <<>> => h.first[l] = nilObj
  BY DEF ListsOK, LinkedAs
<1> QED BY <1>2, <1>3, <1>4, ListFacts

\* addLastLink:toList: links a process that was on no list at the end of l.
LEMMA AddLastLink ==
    ASSUME NEW h, ListsOK(h), NEW p \in Process, NEW l \in List,
           ~Queued(h.queue, p)
    PROVE  LET r == addLastLink(h, p, l) IN
           /\ ListsOK(r)
           /\ r.queue = Abstract!addLastLink(h.queue, p, l)
           /\ \A x : Queued(r.queue, x) <=> Queued(h.queue, x) \/ x = p
<1> DEFINE q == h.queue
           n == Len(q[l])
           r == addLastLink(h, p, l)
<1>0. /\ q \in [List -> Seq(Process)]
      /\ h.first \in [List -> Process \cup {nilObj}]
      /\ h.last \in [List -> Process \cup {nilObj}]
      /\ h.next \in [Process -> Process \cup {nilObj}]
      /\ h.my \in [Process -> List \cup {nilObj}]
  BY DEF ListsOK, SlotsOK
<1>1. /\ r.queue = [q EXCEPT ![l] = Append(q[l], p)]
      /\ r.queue = Abstract!addLastLink(h.queue, p, l)
      /\ r.last = [h.last EXCEPT ![l] = p]
      /\ r.my = [h.my EXCEPT ![p] = l]
      /\ r.first = IF h.first[l] = nilObj THEN [h.first EXCEPT ![l] = p]
                                          ELSE h.first
      /\ r.next = IF h.first[l] = nilObj THEN h.next
                  ELSE [h.next EXCEPT ![h.last[l]] = p]
  BY DEF addLastLink, Abstract!addLastLink
<1> HIDE DEF r
<1>2. /\ \A k \in List : Len(q[k]) \in Nat /\ DOMAIN q[k] = 1..Len(q[k])
      /\ n \in Nat
      /\ DOMAIN r.queue[l] = 1..(n + 1)
      /\ Len(r.queue[l]) = n + 1
      /\ \A i \in 1..n : r.queue[l][i] = q[l][i]
      /\ r.queue[l][n + 1] = p
      /\ \A k \in List \ {l} : r.queue[k] = q[k]
      /\ r.queue \in [List -> Seq(Process)]
      /\ q[l] = <<>> <=> n = 0
  BY <1>0, <1>1, EmptySeq
<1>3. \A k \in List : \A i \in DOMAIN q[k] : q[k][i] # p /\ q[k][i] \in Process
  BY <1>0, <1>2, ElementOfSeq DEF Queued
<1>4. \A k \in List : \A i \in DOMAIN r.queue[k] :
         \/ i \in DOMAIN q[k] /\ r.queue[k][i] = q[k][i]
         \/ k = l /\ i = n + 1 /\ r.queue[k][i] = p
  <2> TAKE k \in List
  <2> TAKE i \in DOMAIN r.queue[k]
  <2>1. CASE k # l
    BY <2>1, <1>2
  <2>2. CASE k = l
    <3>1. i \in 1..n \/ i = n + 1
      BY <2>2, <1>2
    <3> QED BY <3>1, <2>2, <1>2
  <2> QED BY <2>1, <2>2
<1>5. \A x : Queued(r.queue, x) <=> Queued(q, x) \/ x = p
  <2> TAKE x
  <2>1. Queued(r.queue, x) => Queued(q, x) \/ x = p
    BY <1>4 DEF Queued
  <2>2. Queued(q, x) => Queued(r.queue, x)
    <3> SUFFICES ASSUME NEW k \in List, NEW i \in DOMAIN q[k], q[k][i] = x
                 PROVE  i \in DOMAIN r.queue[k] /\ r.queue[k][i] = x
      BY DEF Queued
    <3>1. CASE k # l
      BY <3>1, <1>2
    <3>2. CASE k = l
      <4>1. i \in 1..n /\ i \in 1..(n + 1)
        BY <3>2, <1>2
      <4> QED BY <4>1, <3>2, <1>2
    <3> QED BY <3>1, <3>2
  <2>3. x = p => Queued(r.queue, x)
    <3>1. n + 1 \in DOMAIN r.queue[l] /\ r.queue[l][n + 1] = p
      BY <1>2
    <3> QED BY <3>1 DEF Queued
  <2> QED BY <2>1, <2>2, <2>3
<1>6. Distinct(r.queue)
  <2>1. Distinct(q)
    BY DEF ListsOK
  <2> QED BY <1>3, <1>4, <2>1 DEF Distinct
<1>7. /\ h.first[l] = nilObj <=> q[l] = <<>>
      /\ q[l] # <<>> =>
            /\ h.first[l] = q[l][1]
            /\ h.last[l] = q[l][n] /\ n \in DOMAIN q[l]
            /\ h.last[l] \in Process
            /\ n # 0
  <2>1. h.first[l] = nilObj <=> q[l] = <<>>
    BY FirstLink
  <2>2. q[l] # <<>> => n \in DOMAIN q[l] /\ n # 0
    BY <1>2
  <2>3. q[l] # <<>> => h.first[l] = q[l][1] /\ h.last[l] = q[l][n]
    BY DEF ListsOK, LinkedAs
  <2> QED BY <2>1, <2>2, <2>3, <1>3
<1>8. SlotsOK(r)
  BY <1>0, <1>1, <1>2, <1>7 DEF SlotsOK
\* Only the last process of l gets another nextLink.
<1>9. \A k \in List : \A i \in DOMAIN q[k] :
         ~(k = l /\ i = n) => r.next[q[k][i]] = h.next[q[k][i]]
  <2> SUFFICES ASSUME NEW k \in List, NEW i \in DOMAIN q[k],
                      ~(k = l /\ i = n), q[l] # <<>>
               PROVE  q[k][i] # h.last[l]
    BY <1>0, <1>1, <1>7, <1>3
  <2> QED BY <1>7 DEF ListsOK, Distinct
<1>10. h.next[p] = nilObj /\ r.next[p] = nilObj
  <2>1. h.next[p] = nilObj
    BY DEF ListsOK
  <2>2. q[l] # <<>> => h.last[l] # p
    BY <1>3, <1>7
  <2> QED BY <2>1, <2>2, <1>0, <1>1, <1>7
<1>11. LinkedAs(r)
  <2> SUFFICES ASSUME NEW k \in List
               PROVE  IF r.queue[k] = <<>>
                      THEN r.first[k] = nilObj /\ r.last[k] = nilObj
                      ELSE /\ r.first[k] = r.queue[k][1]
                           /\ r.last[k] = r.queue[k][Len(r.queue[k])]
                           /\ \A i \in 1..(Len(r.queue[k]) - 1) :
                                r.next[r.queue[k][i]] = r.queue[k][i + 1]
                           /\ r.next[r.queue[k][Len(r.queue[k])]] = nilObj
                           /\ \A i \in 1..Len(r.queue[k]) :
                                r.my[r.queue[k][i]] = k
    BY DEF LinkedAs
  <2>0. IF q[k] = <<>>
        THEN h.first[k] = nilObj /\ h.last[k] = nilObj
        ELSE /\ h.first[k] = q[k][1]
             /\ h.last[k] = q[k][Len(q[k])]
             /\ \A i \in 1..(Len(q[k]) - 1) : h.next[q[k][i]] = q[k][i + 1]
             /\ h.next[q[k][Len(q[k])]] = nilObj
             /\ \A i \in 1..Len(q[k]) : h.my[q[k][i]] = k
    BY DEF ListsOK, LinkedAs
  <2>1. CASE k # l
    <3>1. r.queue[k] = q[k] /\ r.first[k] = h.first[k] /\ r.last[k] = h.last[k]
      BY <2>1, <1>0, <1>1
    <3>2. \A i \in 1..Len(q[k]) : /\ r.next[q[k][i]] = h.next[q[k][i]]
                                  /\ r.my[q[k][i]] = h.my[q[k][i]]
      BY <2>1, <1>0, <1>1, <1>2, <1>3, <1>9
    <3>3. q[k] # <<>> => Len(q[k]) \in 1..Len(q[k])
      BY <1>0, <1>2, EmptySeq
    <3>4. \A i \in 1..(Len(q[k]) - 1) : i \in 1..Len(q[k])
      BY <1>2
    <3>5. CASE q[k] = <<>>
      BY <2>0, <3>1, <3>5
    <3>6. CASE q[k] # <<>>
      <4>1. r.first[k] = q[k][1] /\ r.last[k] = q[k][Len(q[k])]
        BY <2>0, <3>1, <3>6
      <4>2. \A i \in 1..(Len(q[k]) - 1) : r.next[q[k][i]] = q[k][i + 1]
        BY <2>0, <3>2, <3>4, <3>6
      <4>3. r.next[q[k][Len(q[k])]] = nilObj
        BY <2>0, <3>2, <3>3, <3>6
      <4>4. \A i \in 1..Len(q[k]) : r.my[q[k][i]] = k
        BY <2>0, <3>2, <3>6
      <4> QED BY <3>1, <3>6, <4>1, <4>2, <4>3, <4>4
    <3> QED BY <3>5, <3>6
  <2>2. CASE k = l
    <3>1. r.queue[k] # <<>>
      BY <2>2, <1>2, EmptySeq
    <3>2. r.first[k] = r.queue[k][1] /\ r.last[k] = r.queue[k][n + 1]
      <4>1. CASE q[l] = <<>>
        BY <4>1, <2>2, <1>0, <1>1, <1>2, <1>7
      <4>2. CASE q[l] # <<>>
        BY <4>2, <2>2, <1>0, <1>1, <1>2, <1>7
      <4> QED BY <4>1, <4>2
    <3>3. ASSUME NEW i \in 1..n
          PROVE  r.next[r.queue[k][i]] = r.queue[k][i + 1]
      <4>1. q[l] # <<>> /\ i \in DOMAIN q[l]
        BY <1>2
      <4>2. CASE i = n
        BY <4>1, <4>2, <2>2, <1>0, <1>1, <1>2, <1>7
      <4>3. CASE i # n
        <5>1. i \in 1..(n - 1) /\ i + 1 \in 1..n
          BY <4>3, <1>2
        <5>2. h.next[q[l][i]] = q[l][i + 1]
          BY <5>1, <4>1, <2>0, <2>2
        <5>3. r.next[q[l][i]] = q[l][i + 1]
          BY <5>2, <1>9, <4>1, <4>3
        <5> QED BY <5>1, <5>3, <2>2, <1>2
      <4> QED BY <4>2, <4>3
    <3>4. r.next[r.queue[k][n + 1]] = nilObj
      BY <2>2, <1>2, <1>10
    <3>5. ASSUME NEW i \in 1..(n + 1) PROVE r.my[r.queue[k][i]] = k
      <4>1. CASE i = n + 1
        BY <4>1, <2>2, <1>0, <1>1, <1>2
      <4>2. CASE i # n + 1
        <5>1. i \in 1..n /\ i \in DOMAIN q[l] /\ q[l] # <<>>
          BY <4>2, <1>2
        <5>2. h.my[q[l][i]] = l /\ q[l][i] # p
          BY <5>1, <2>0, <2>2, <1>3
        <5>3. r.queue[k][i] = q[l][i]
          BY <5>1, <2>2, <1>2
        <5> QED BY <5>1, <5>2, <5>3, <2>2, <1>0, <1>1, <1>3
      <4> QED BY <4>1, <4>2
    <3> QED BY <2>2, <3>1, <3>2, <3>3, <3>4, <3>5, <1>2
  <2> QED BY <2>1, <2>2
<1>12. \A x \in Process : ~Queued(r.queue, x) => r.next[x] = nilObj
  <2> SUFFICES ASSUME NEW x \in Process, ~Queued(q, x), x # p
               PROVE  r.next[x] = nilObj
    BY <1>5
  <2>1. h.next[x] = nilObj
    BY DEF ListsOK
  <2>2. q[l] # <<>> => h.last[l] # x
    BY <1>7 DEF Queued
  <2> QED BY <2>1, <2>2, <1>0, <1>1, <1>7
<1>13. ListsOK(r)
  BY <1>6, <1>8, <1>11, <1>12 DEF ListsOK
<1> QED BY <1>1, <1>5, <1>13 DEF r

\* removeFirstLinkOfList: takes the head off l, and off every list.
LEMMA RemoveFirstLink ==
    ASSUME NEW h, ListsOK(h), NEW l \in List, h.queue[l] # <<>>
    PROVE  LET r == removeFirstLinkOfList(h, l) IN
           /\ ListsOK(r)
           /\ r.queue = Abstract!removeFirstLinkOfList(h.queue, l)
           /\ \A x : Queued(r.queue, x) <=>
                        Queued(h.queue, x) /\ x # h.first[l]
<1> DEFINE q == h.queue
           n == Len(q[l])
           p == h.first[l]
           only == p = h.last[l]
           r == removeFirstLinkOfList(h, l)
<1>0. /\ q \in [List -> Seq(Process)]
      /\ h.first \in [List -> Process \cup {nilObj}]
      /\ h.last \in [List -> Process \cup {nilObj}]
      /\ h.next \in [Process -> Process \cup {nilObj}]
      /\ h.my \in [Process -> List \cup {nilObj}]
  BY DEF ListsOK, SlotsOK
<1>1. /\ r.queue = [q EXCEPT ![l] = Tail(q[l])]
      /\ r.queue = Abstract!removeFirstLinkOfList(h.queue, l)
      /\ r.first = [h.first EXCEPT ![l] = IF only THEN nilObj ELSE h.next[p]]
      /\ r.last = IF only THEN [h.last EXCEPT ![l] = nilObj] ELSE h.last
      /\ r.next = [h.next EXCEPT ![p] = nilObj]
      /\ r.my = h.my
  BY DEF removeFirstLinkOfList, Abstract!removeFirstLinkOfList
<1> HIDE DEF r
<1>2. /\ \A k \in List : Len(q[k]) \in Nat /\ DOMAIN q[k] = 1..Len(q[k])
      /\ n \in Nat /\ n >= 1 /\ DOMAIN q[l] = 1..n
      /\ 1 \in DOMAIN q[l] /\ n \in DOMAIN q[l]
      /\ p = q[l][1] /\ p \in Process
      /\ h.last[l] = q[l][n]
  <2>1. h.last[l] = q[l][n]
    BY DEF ListsOK, LinkedAs
  <2>2. n \in Nat \ {0} /\ p = q[l][1] /\ p \in Process
    BY FirstLink
  <2> QED BY <2>1, <2>2, <1>0
<1>3. /\ r.queue \in [List -> Seq(Process)]
      /\ r.queue[l] = Tail(q[l])
      /\ \A k \in List \ {l} : r.queue[k] = q[k]
      /\ Len(r.queue[l]) = n - 1
      /\ DOMAIN r.queue[l] = 1..(n - 1)
      /\ \A i \in 1..(n - 1) : r.queue[l][i] = q[l][i + 1]
      /\ r.queue[l] = <<>> <=> n = 1
  <2>1. /\ r.queue \in [List -> Seq(Process)]
        /\ r.queue[l] = Tail(q[l])
        /\ \A k \in List \ {l} : r.queue[k] = q[k]
    BY <1>0, <1>1, HeadTailProperties
  <2>2. /\ Len(r.queue[l]) = n - 1
        /\ \A i \in 1..(n - 1) : r.queue[l][i] = q[l][i + 1]
    BY <2>1, <1>0, HeadTailProperties
  <2>3. DOMAIN r.queue[l] = 1..(n - 1)
    BY <2>1, <2>2, LenProperties
  <2>4. r.queue[l] = <<>> <=> Len(r.queue[l]) = 0
    BY <2>1, EmptySeq
  <2> QED BY <2>1, <2>2, <2>3, <2>4, <1>2
<1>4. \A k \in List : \A i \in DOMAIN q[k] : q[k][i] \in Process
  BY <1>0, <1>2, ElementOfSeq
<1>5. Distinct(q)
  BY DEF ListsOK
<1>6. only <=> n = 1
  <2>1. q[l][1] = q[l][n] => 1 = n
    BY <1>2, <1>5 DEF Distinct
  <2> QED BY <2>1, <1>2
<1>7. \A k \in List : \A i \in DOMAIN r.queue[k] :
         \/ k # l /\ i \in DOMAIN q[k] /\ r.queue[k][i] = q[k][i]
         \/ /\ k = l /\ i + 1 \in DOMAIN q[k] /\ i + 1 # 1
            /\ r.queue[k][i] = q[k][i + 1]
  <2> TAKE k \in List
  <2> TAKE i \in DOMAIN r.queue[k]
  <2>1. CASE k # l
    BY <2>1, <1>3
  <2>2. CASE k = l
    <3>1. i \in 1..(n - 1)
      BY <2>2, <1>3
    <3>2. i + 1 \in 1..n /\ i + 1 # 1
      BY <3>1, <1>2
    <3> QED BY <2>2, <3>1, <3>2, <1>2, <1>3
  <2> QED BY <2>1, <2>2
<1>8. Distinct(r.queue)
  <2> SUFFICES ASSUME NEW k \in List, NEW m \in List,
                      NEW i \in DOMAIN r.queue[k], NEW j \in DOMAIN r.queue[m],
                      r.queue[k][i] = r.queue[m][j]
               PROVE  k = m /\ i = j
    BY DEF Distinct
  <2>1. i \in Int /\ j \in Int
    BY <1>2, <1>3
  <2> QED BY <2>1, <1>5, <1>7 DEF Distinct
<1>9. \A x : Queued(r.queue, x) <=> Queued(q, x) /\ x # p
  <2> TAKE x
  <2>1. Queued(r.queue, x) => Queued(q, x) /\ x # p
    <3> SUFFICES ASSUME NEW k \in List, NEW i \in DOMAIN r.queue[k],
                        r.queue[k][i] = x
                 PROVE  Queued(q, x) /\ x # q[l][1]
      BY <1>2 DEF Queued
    <3> QED BY <1>2, <1>5, <1>7 DEF Queued, Distinct
  <2>2. Queued(q, x) /\ x # p => Queued(r.queue, x)
    <3> SUFFICES ASSUME NEW k \in List, NEW i \in DOMAIN q[k], q[k][i] = x,
                        x # q[l][1]
                 PROVE  Queued(r.queue, x)
      BY <1>2 DEF Queued
    <3>1. CASE k # l
      BY <3>1, <1>3 DEF Queued
    <3>2. CASE k = l
      <4>1. i \in 1..n /\ i # 1
        BY <3>2, <1>2
      <4>2. i - 1 \in DOMAIN r.queue[l] /\ r.queue[l][i - 1] = q[l][i]
        <5>1. i - 1 \in 1..(n - 1) /\ (i - 1) + 1 = i
          BY <4>1, <1>2
        <5> QED BY <5>1, <1>3
      <4> QED BY <4>2, <3>2 DEF Queued
    <3> QED BY <3>1, <3>2
  <2> QED BY <2>1, <2>2
<1>10. n # 1 => h.next[p] = q[l][2] /\ q[l][2] \in Process /\ 2 \in DOMAIN q[l]
  <2> SUFFICES ASSUME n # 1
               PROVE  h.next[p] = q[l][2] /\ q[l][2] \in Process
                      /\ 2 \in DOMAIN q[l]
    OBVIOUS
  <2>1. 1 \in 1..(n - 1) /\ 2 \in 1..n /\ 1 + 1 = 2
    <3>1. n \in Nat /\ n >= 1 /\ n # 1
      BY <1>2
    <3> HIDE DEF n
    <3> QED BY <3>1
  <2>2. \A i \in 1..(n - 1) : h.next[q[l][i]] = q[l][i + 1]
    BY DEF ListsOK, LinkedAs
  <2> QED BY <2>1, <2>2, <1>2, <1>4
<1>11. SlotsOK(r)
  BY <1>0, <1>1, <1>2, <1>3 DEF SlotsOK
\* Nobody else's nextLink changes.
<1>12. \A k \in List : \A i \in DOMAIN q[k] :
          ~(k = l /\ i = 1) => r.next[q[k][i]] = h.next[q[k][i]]
  <2> SUFFICES ASSUME NEW k \in List, NEW i \in DOMAIN q[k], ~(k = l /\ i = 1)
               PROVE  q[k][i] # p
    BY <1>0, <1>1, <1>4
  <2> QED BY <1>2, <1>5 DEF Distinct
<1>13. LinkedAs(r)
  <2> SUFFICES ASSUME NEW k \in List
               PROVE  IF r.queue[k] = <<>>
                      THEN r.first[k] = nilObj /\ r.last[k] = nilObj
                      ELSE /\ r.first[k] = r.queue[k][1]
                           /\ r.last[k] = r.queue[k][Len(r.queue[k])]
                           /\ \A i \in 1..(Len(r.queue[k]) - 1) :
                                r.next[r.queue[k][i]] = r.queue[k][i + 1]
                           /\ r.next[r.queue[k][Len(r.queue[k])]] = nilObj
                           /\ \A i \in 1..Len(r.queue[k]) :
                                r.my[r.queue[k][i]] = k
    BY DEF LinkedAs
  <2>0. IF q[k] = <<>>
        THEN h.first[k] = nilObj /\ h.last[k] = nilObj
        ELSE /\ h.first[k] = q[k][1]
             /\ h.last[k] = q[k][Len(q[k])]
             /\ \A i \in 1..(Len(q[k]) - 1) : h.next[q[k][i]] = q[k][i + 1]
             /\ h.next[q[k][Len(q[k])]] = nilObj
             /\ \A i \in 1..Len(q[k]) : h.my[q[k][i]] = k
    BY DEF ListsOK, LinkedAs
  <2>1. CASE k # l
    <3>1. r.queue[k] = q[k] /\ r.first[k] = h.first[k] /\ r.last[k] = h.last[k]
      BY <2>1, <1>0, <1>1
    <3>2. \A i \in 1..Len(q[k]) : r.next[q[k][i]] = h.next[q[k][i]]
      BY <2>1, <1>2, <1>12
    <3>3. q[k] # <<>> => Len(q[k]) \in 1..Len(q[k])
      BY <1>0, <1>2, EmptySeq
    <3>4. \A i \in 1..(Len(q[k]) - 1) : i \in 1..Len(q[k])
      BY <1>2
    <3>5. CASE q[k] = <<>>
      BY <2>0, <3>1, <3>5
    <3>6. CASE q[k] # <<>>
      <4>1. r.first[k] = q[k][1] /\ r.last[k] = q[k][Len(q[k])]
        BY <2>0, <3>1, <3>6
      <4>2. \A i \in 1..(Len(q[k]) - 1) : r.next[q[k][i]] = q[k][i + 1]
        BY <2>0, <3>2, <3>4, <3>6
      <4>3. r.next[q[k][Len(q[k])]] = nilObj
        BY <2>0, <3>2, <3>3, <3>6
      <4>4. \A i \in 1..Len(q[k]) : r.my[q[k][i]] = k
        BY <2>0, <3>2, <3>6, <1>1
      <4> QED BY <3>1, <3>6, <4>1, <4>2, <4>3, <4>4
    <3> QED BY <3>5, <3>6
  <2>2. CASE k = l /\ n = 1
    BY <2>2, <1>0, <1>1, <1>3, <1>6
  <2>3. CASE k = l /\ n # 1
    <3>1. /\ r.queue[k] # <<>> /\ Len(r.queue[k]) = n - 1
          /\ n - 1 \in Nat \ {0} /\ (n - 1) + 1 = n
      BY <2>3, <1>2, <1>3
    <3>2. /\ r.first[k] = q[l][2] /\ r.queue[k][1] = q[l][2]
          /\ r.last[k] = q[l][n] /\ r.queue[k][n - 1] = q[l][n]
      BY <2>3, <3>1, <1>0, <1>1, <1>2, <1>3, <1>6, <1>10
    <3>3. ASSUME NEW i \in 1..((n - 1) - 1)
          PROVE  r.next[r.queue[k][i]] = r.queue[k][i + 1]
      <4>1. /\ i \in 1..(n - 1) /\ i + 1 \in 1..(n - 1) /\ i + 1 \in DOMAIN q[l]
            /\ i + 1 # 1
        BY <3>1, <1>2
      <4>2. h.next[q[l][i + 1]] = q[l][(i + 1) + 1] /\ q[l] # <<>>
        BY <4>1, <2>0, <2>3
      <4> QED BY <4>1, <4>2, <1>3, <1>12, <2>3
    <3>4. r.next[r.queue[k][n - 1]] = nilObj
      BY <2>0, <2>3, <3>2, <1>2, <1>12
    <3>5. ASSUME NEW i \in 1..(n - 1) PROVE r.my[r.queue[k][i]] = k
      <4>1. i + 1 \in 1..n
        BY <3>1
      <4> QED BY <4>1, <2>0, <2>3, <1>1, <1>3
    <3> QED BY <3>1, <3>2, <3>3, <3>4, <3>5
  <2> QED BY <2>1, <2>2, <2>3
<1>14. \A x \in Process : ~Queued(r.queue, x) => r.next[x] = nilObj
  <2> SUFFICES ASSUME NEW x \in Process, ~Queued(r.queue, x), x # p
               PROVE  h.next[x] = nilObj
    BY <1>0, <1>1
  <2> QED BY <1>9 DEF ListsOK
<1>15. ListsOK(r)
  BY <1>8, <1>11, <1>13, <1>14 DEF ListsOK
<1> QED BY <1>1, <1>9, <1>15 DEF r

-----------------------------------------------------------------------------
(* The actions, and the steps of ProcessScheduler they are.                *)

\* A set of priorities that is not empty has a highest.
LEMMA HighestExists ==
    ASSUME NEW T \in SUBSET Priority, T # {}
    PROVE  \E i \in T : \A j \in T : j <= i
<1> DEFINE D == {n \in Nat : \E i \in T : n = NumPriorities - i}
<1>0. NumPriorities \in Nat /\ \A i \in T : i \in Nat /\ i <= NumPriorities
  BY LinkAssumption DEF Priority
<1>1. D \subseteq Nat /\ D # {} /\ \A i \in T : NumPriorities - i \in D
  BY <1>0
<1>2. PICK m \in D : \A n \in D : ~(<<n, m>> \in OpToRel(<, Nat))
  <2> HIDE DEF D
  <2> QED BY <1>1, NatLessThanWellFounded, WFMin, Zenon
<1>3. \A n \in D : m <= n
  <2> TAKE n \in D
  <2>1. ~ (n < m)
    BY <1>2, <1>1 DEF OpToRel
  <2> QED BY <2>1, <1>1
<1>4. PICK i \in T : m = NumPriorities - i
  BY <1>2
<1> QED BY <1>0, <1>1, <1>3, <1>4

\* The scan finds the list that the abstract one finds.
LEMMA SameReady ==
    ASSUME NEW h, ListsOK(h)
    PROVE  /\ ReadyPriorities(h) = Abstract!ReadyPriorities(h.queue)
           /\ highestReady(h) = Abstract!highestReady(h.queue)
<1>1. ReadyPriorities(h) = Abstract!ReadyPriorities(h.queue)
  BY FirstLink, ListFacts DEF ReadyPriorities, Abstract!ReadyPriorities
<1> QED BY <1>1 DEF highestReady, Abstract!highestReady

LEMMA Stored ==
    ASSUME NEW STATE h, ListsOK(h), store(h)
    PROVE  ListsOK(Heap)' /\ queue' = h.queue
BY DEF store, Heap, ListsOK, SlotsOK, LinkedAs, Distinct, Queued

\* transferTo reads no link slot.
LEMMA SameTransfer ==
    ASSUME NEW STATE p
    PROVE  /\ transferTo(p) <=> Abstract!transferTo(p)
           /\ transferTo(p) => activeProcess' = p
           /\ keepRunning <=> Abstract!keepRunning
BY DEF transferTo, Abstract!transferTo, keepRunning, Abstract!keepRunning

\* The process that wakes is the one that wakes in ProcessScheduler.
LEMMA Wake ==
    ASSUME NEW STATE h, ListsOK(h), activeProcess \in Process,
           wakeHighestPriority(h)
    PROVE  Abstract!wakeHighestPriority(h.queue) /\ LInv'
<1>1. CASE ReadyPriorities(h) = {}
  <2>1. halted' = TRUE /\ store(h) /\ keepRunning
    BY <1>1 DEF wakeHighestPriority
  <2>2. Abstract!wakeHighestPriority(h.queue)
    BY <1>1, <2>1, SameReady, Stored, SameTransfer
       DEF Abstract!wakeHighestPriority
  <2> QED BY <2>1, <2>2, Stored DEF LInv, keepRunning
<1>2. CASE ReadyPriorities(h) # {}
  <2> DEFINE l == highestReady(h)
             p == h.first[l]
             r == removeFirstLinkOfList(h, l)
  <2>1. store(r) /\ transferTo(p) /\ UNCHANGED halted
    BY <1>2 DEF wakeHighestPriority
  <2>2. l \in ReadyPriorities(h)
    <3>1. ReadyPriorities(h) \in SUBSET Priority
      BY DEF ReadyPriorities
    <3> QED BY <1>2, <3>1, HighestExists DEF highestReady
  <2>3. l \in List /\ h.queue[l] # <<>> /\ p \in Process
        /\ p = Head(h.queue[l])
    BY <2>2, FirstLink, ListFacts DEF ReadyPriorities
  <2>4. /\ ListsOK(r)
        /\ r.queue = Abstract!removeFirstLinkOfList(h.queue, l)
        /\ ~Queued(r.queue, p)
    BY <2>3, RemoveFirstLink
  <2>5. ListsOK(Heap)' /\ queue' = r.queue
    <3> HIDE DEF r
    <3> QED BY <2>1, <2>4, Stored
  <2>6. activeProcess' = p
    <3> HIDE DEF p
    <3> QED BY <2>1, SameTransfer
  <2>7. Abstract!wakeHighestPriority(h.queue)
    <3>1. l = Abstract!highestReady(h.queue)
          /\ Abstract!ReadyPriorities(h.queue) # {}
      BY <1>2, SameReady
    <3>2. Abstract!transferTo(Head(h.queue[l]))
      <4>1. Abstract!transferTo(p)
        <5> HIDE DEF p
        <5> QED BY <2>1, SameTransfer
      <4> QED BY <4>1, <2>3
    <3> HIDE DEF l, r
    <3> QED BY <2>1, <2>4, <2>5, <3>1, <3>2 DEF Abstract!wakeHighestPriority
  <2> QED BY <2>3, <2>4, <2>5, <2>6, <2>7 DEF LInv, Queued
<1> QED BY <1>1, <1>2

\* So does resuming one that is in hand: on no list and not running.
LEMMA Resume ==
    ASSUME NEW STATE h, ListsOK(h), activeProcess \in Process,
           NEW STATE p, p \in Process, p # activeProcess,
           ~Queued(h.queue, p), ~Queued(h.queue, activeProcess),
           resume(h, p)
    PROVE  Abstract!resume(h.queue, p) /\ LInv'
<1>1. CASE priority[p] > priority[activeProcess]
  <2> DEFINE r == addLastLink(h, activeProcess, priority[activeProcess])
  <2>1. store(r) /\ transferTo(p) /\ UNCHANGED halted
    BY <1>1 DEF resume
  <2>2. /\ ListsOK(r)
        /\ r.queue = Abstract!addLastLink(h.queue, activeProcess,
                                          priority[activeProcess])
        /\ ~Queued(r.queue, p)
    BY ListFacts, AddLastLink
  <2> HIDE DEF r
  <2>3. ListsOK(Heap)' /\ queue' = r.queue /\ activeProcess' = p
    BY <2>1, <2>2, Stored, SameTransfer
  <2>4. Abstract!resume(h.queue, p)
    BY <1>1, <2>1, <2>2, <2>3, SameTransfer DEF Abstract!resume
  <2> QED BY <2>2, <2>3, <2>4 DEF LInv, Queued
<1>2. CASE ~(priority[p] > priority[activeProcess])
  <2> DEFINE r == addLastLink(h, p, priority[p])
  <2>1. store(r) /\ keepRunning /\ UNCHANGED halted
    BY <1>2 DEF resume
  <2>2. /\ ListsOK(r)
        /\ r.queue = Abstract!addLastLink(h.queue, p, priority[p])
        /\ ~Queued(r.queue, activeProcess)
    BY ListFacts, AddLastLink
  <2> HIDE DEF r
  <2>3. ListsOK(Heap)' /\ queue' = r.queue /\ activeProcess' = activeProcess
    BY <2>1, <2>2, Stored DEF keepRunning
  <2>4. Abstract!resume(h.queue, p)
    BY <1>2, <2>1, <2>2, <2>3, SameTransfer DEF Abstract!resume
  <2> QED BY <2>2, <2>3, <2>4 DEF LInv, Queued
<1> QED BY <1>1, <1>2

LEMMA InitOK == Init => Abstract!Init /\ LInv
<1> SUFFICES ASSUME Init PROVE LInv
  BY DEF Init
<1>1. /\ activeProcess = IdleProcess /\ queue = [l \in List |-> <<>>]
      /\ firstLink = [l \in List |-> nilObj]
      /\ lastLink = [l \in List |-> nilObj]
      /\ nextLink = [p \in Process |-> nilObj]
      /\ myList = [p \in Process |-> nilObj]
  BY ListFacts DEF Init, Abstract!Init
<1>2. queue \in [List -> Seq(Process)]
  BY <1>1, EmptySeq
<1>3. \A l \in List : queue[l] = <<>> /\ DOMAIN queue[l] = {}
  BY <1>1
<1>4. SlotsOK(Heap)
  BY <1>1, <1>2 DEF SlotsOK, Heap
<1>5. Distinct(queue) /\ \A p : ~Queued(queue, p)
  BY <1>3 DEF Distinct, Queued
<1>6. LinkedAs(Heap)
  BY <1>1, <1>3 DEF LinkedAs, Heap
<1>7. ListsOK(Heap)
  BY <1>1, <1>4, <1>5, <1>6 DEF ListsOK, Heap
<1> QED BY <1>1, <1>5, <1>7, LinkAssumption DEF LInv

\* An activity that leaves the lists and the active process alone.
LEMMA Untouched ==
    ASSUME LInv, UNCHANGED <<links, queue, activeProcess, halted>>
    PROVE  LInv'
<1>1. Heap' = Heap
  BY DEF Heap, links
<1>2. ListsOK(Heap)
  BY DEF LInv
<1>3. SlotsOK(Heap)'
  BY <1>1, <1>2 DEF ListsOK, SlotsOK
<1>4. Distinct(Heap.queue)'
  BY <1>1, <1>2 DEF ListsOK, Distinct
<1>5. LinkedAs(Heap)'
  BY <1>1, <1>2 DEF ListsOK, LinkedAs
<1>6. (\A p \in Process : ~Queued(Heap.queue, p) => Heap.next[p] = nilObj)'
  BY <1>1, <1>2 DEF ListsOK, Queued
<1>7. ListsOK(Heap)'
  BY <1>3, <1>4, <1>5, <1>6 DEF ListsOK
<1>8. (~halted => ~Queued(queue, activeProcess))'
  BY DEF LInv, Queued
<1> QED BY <1>7, <1>8 DEF LInv

LEMMA SameQueued ==
    \A q, p : Queued(q, p) <=> Abstract!Queued(q, p)
BY ListFacts DEF Queued, Abstract!Queued

\* The fact about the lists that every action starts from.
LEMMA Found ==
    ASSUME LInv, ~halted
    PROVE  /\ ListsOK(Heap) /\ Heap.queue = queue /\ Heap.first = firstLink
           /\ activeProcess \in Process
           /\ ~Queued(queue, activeProcess)
BY DEF LInv, Heap

LEMMA SignalStep ==
    ASSUME LInv, NEW s \in Semaphore, primitiveSignal(s)
    PROVE  Abstract!primitiveSignal(s) /\ LInv'
<1>1. ~halted /\ synchronousSignal(s)
  BY DEF primitiveSignal
<1>2. s \in List
  BY ListFacts
<1>3. firstLink[s] = nilObj <=> queue[s] = <<>>
  BY <1>1, <1>2, Found, FirstLink
<1>4. CASE firstLink[s] = nilObj
  <2>1. UNCHANGED <<links, queue, activeProcess, halted>>
    BY <1>1, <1>4 DEF synchronousSignal, keepRunning
  <2>2. Abstract!synchronousSignal(s)
    BY <1>1, <1>3, <1>4 DEF synchronousSignal, Abstract!synchronousSignal,
       keepRunning, Abstract!keepRunning
  <2> QED BY <1>1, <2>1, <2>2, Untouched DEF Abstract!primitiveSignal
<1>5. CASE firstLink[s] # nilObj
  <2> DEFINE p == firstLink[s]
             h == removeFirstLinkOfList(Heap, s)
  <2>1. resume(h, p) /\ UNCHANGED excessSignals
    BY <1>1, <1>5 DEF synchronousSignal
  <2>2. /\ p \in Process /\ p = Head(queue[s]) /\ queue[s] # <<>>
        /\ Queued(queue, p)
    <3>1. /\ p \in Process /\ p = Head(queue[s]) /\ queue[s] # <<>>
          /\ p = queue[s][1] /\ Len(queue[s]) \in Nat \ {0}
      BY <1>1, <1>2, <1>3, <1>5, Found, FirstLink
    <3>2. queue[s] \in Seq(Process)
      BY <1>1, <1>2, Found DEF ListsOK, SlotsOK
    <3>3. 1 \in DOMAIN queue[s]
      BY <3>1, <3>2, LenProperties
    <3> QED BY <1>2, <3>1, <3>3 DEF Queued
  <2>3. /\ ListsOK(h)
        /\ h.queue = Abstract!removeFirstLinkOfList(queue, s)
        /\ ~Queued(h.queue, p)
        /\ \A x : Queued(h.queue, x) => Queued(queue, x)
    BY <1>1, <1>2, <2>2, Found, RemoveFirstLink
  <2>4. activeProcess \in Process /\ p # activeProcess
        /\ ~Queued(h.queue, activeProcess)
    BY <1>1, <2>2, <2>3, Found
  <2>5. Abstract!resume(h.queue, p) /\ LInv'
    <3> HIDE DEF h, p
    <3> QED BY <2>1, <2>2, <2>3, <2>4, Resume
  <2>6. Abstract!synchronousSignal(s)
    <3> HIDE DEF h
    <3> QED BY <2>1, <2>2, <2>3, <2>5 DEF Abstract!synchronousSignal
  <2> QED BY <1>1, <2>5, <2>6 DEF Abstract!primitiveSignal
<1> QED BY <1>4, <1>5

LEMMA WaitStep ==
    ASSUME LInv, NEW s \in Semaphore, primitiveWait(s)
    PROVE  Abstract!primitiveWait(s) /\ LInv'
<1>1. ~halted /\ activeProcess # IdleProcess /\ s \in List
  BY ListFacts DEF primitiveWait
<1>2. CASE excessSignals[s] > 0
  <2>1. UNCHANGED <<links, queue, activeProcess, halted>>
    BY <1>2 DEF primitiveWait, keepRunning
  <2>2. Abstract!primitiveWait(s)
    BY <1>2 DEF primitiveWait, Abstract!primitiveWait, keepRunning,
       Abstract!keepRunning
  <2> QED BY <2>1, <2>2, Untouched
<1>3. CASE ~(excessSignals[s] > 0)
  <2> DEFINE h == addLastLink(Heap, activeProcess, s)
  <2>1. wakeHighestPriority(h) /\ UNCHANGED excessSignals
    BY <1>3 DEF primitiveWait
  <2>2. /\ ListsOK(h) /\ activeProcess \in Process
        /\ h.queue = Abstract!addLastLink(queue, activeProcess, s)
    BY <1>1, Found, AddLastLink
  <2>3. Abstract!wakeHighestPriority(h.queue) /\ LInv'
    <3> HIDE DEF h
    <3> QED BY <2>1, <2>2, Wake
  <2> HIDE DEF h
  <2> QED BY <1>1, <1>3, <2>1, <2>2, <2>3 DEF Abstract!primitiveWait
<1> QED BY <1>2, <1>3

LEMMA ResumeStep ==
    ASSUME LInv, NEW p \in Process, primitiveResume(p)
    PROVE  Abstract!primitiveResume(p) /\ LInv'
<1>1. /\ ~halted /\ p # activeProcess /\ ~Queued(queue, p)
      /\ ~Abstract!Queued(queue, p)
      /\ resume(Heap, p) /\ UNCHANGED excessSignals
  BY SameQueued DEF primitiveResume
<1>2. Abstract!resume(queue, p) /\ LInv'
  BY <1>1, Found, Resume
<1> QED BY <1>1, <1>2 DEF Abstract!primitiveResume

LEMMA SuspendStep ==
    ASSUME LInv, NEW p \in Process, primitiveSuspend(p)
    PROVE  Abstract!primitiveSuspend(p) /\ LInv'
<1>1. /\ ~halted /\ p = activeProcess /\ p # IdleProcess
      /\ wakeHighestPriority(Heap) /\ UNCHANGED excessSignals
  BY DEF primitiveSuspend
<1>2. Abstract!wakeHighestPriority(queue) /\ LInv'
  BY <1>1, Found, Wake
<1> QED BY <1>1, <1>2 DEF Abstract!primitiveSuspend

LEMMA YieldStep ==
    ASSUME LInv, primitiveYield
    PROVE  Abstract!primitiveYield /\ LInv'
<1> DEFINE l == priority[activeProcess]
           h == addLastLink(Heap, activeProcess, l)
<1>1. /\ ~halted /\ firstLink[l] # nilObj
      /\ wakeHighestPriority(h) /\ UNCHANGED excessSignals
  BY DEF primitiveYield
<1>2. activeProcess \in Process /\ l \in List /\ queue[l] # <<>>
  BY <1>1, Found, FirstLink, ListFacts
<1>3. ListsOK(h) /\ h.queue = Abstract!addLastLink(queue, activeProcess, l)
  BY <1>1, <1>2, Found, AddLastLink
<1>4. Abstract!wakeHighestPriority(h.queue) /\ LInv'
  <2> HIDE DEF h
  <2> QED BY <1>1, <1>2, <1>3, Wake
<1> HIDE DEF h
<1> QED BY <1>1, <1>2, <1>3, <1>4 DEF Abstract!primitiveYield

\* Every step keeps the lists well formed, and is a step of ProcessScheduler
\* or none.
LEMMA NextStep ==
    ASSUME LInv, [Next]_vars
    PROVE  [Abstract!Next]_(Abstract!schedulerVars) /\ LInv'
<1>1. ASSUME NEW s \in Semaphore, primitiveSignal(s) \/ primitiveWait(s)
      PROVE  Abstract!Next /\ LInv'
  BY <1>1, SignalStep, WaitStep DEF Abstract!Next
<1>2. ASSUME NEW p \in Process, primitiveResume(p) \/ primitiveSuspend(p)
      PROVE  Abstract!Next /\ LInv'
  BY <1>2, ResumeStep, SuspendStep DEF Abstract!Next
<1>3. CASE primitiveYield
  BY <1>3, YieldStep DEF Abstract!Next
<1>4. CASE activateNewMethod
  <2>1. UNCHANGED <<links, queue, activeProcess, halted>>
    BY <1>4 DEF activateNewMethod
  <2>2. Abstract!activateNewMethod
    BY <1>4 DEF activateNewMethod, Abstract!activateNewMethod
  <2> QED BY <2>1, <2>2, Untouched DEF Abstract!Next
<1>5. CASE UNCHANGED vars
  <2>1. UNCHANGED <<links, queue, activeProcess, halted>>
        /\ UNCHANGED Abstract!schedulerVars
    BY <1>5 DEF vars, Abstract!schedulerVars
  <2> QED BY <2>1, Untouched
<1> QED BY <1>1, <1>2, <1>3, <1>4, <1>5 DEF Next

-----------------------------------------------------------------------------
(* The results.                                                            *)

\* No chain of links is cut, shared, circular or left behind in a process
\* that is on no list, whatever primitives run (addLastLinktoList and
\* removeFirstLinkOfList, which check nothing).
THEOREM ListsWellLinked == Spec => []WellLinked
<1>1. Init => LInv
  BY InitOK
<1>2. LInv /\ [Next]_vars => LInv'
  BY NextStep
<1>3. LInv => WellLinked
  BY SameQueued DEF LInv, ListsOK, WellLinked, Heap
<1> QED BY <1>1, <1>2, <1>3, PTL DEF Spec

\* The linked lists of interp.c implement the FIFO lists: every primitive of
\* LinkedScheduler takes the processes, and the processor, where the primitive
\* of ProcessScheduler does.  All that is proved of ProcessScheduler holds.
THEOREM ImplementsScheduler == Spec => Implements
<1>1. Init => Abstract!Init /\ LInv
  BY InitOK
<1>2. LInv /\ [Next]_vars => LInv' /\ [Abstract!Next]_(Abstract!schedulerVars)
  BY NextStep
<1> QED BY <1>1, <1>2, PTL DEF Spec, Implements, Abstract!Spec
=============================================================================
