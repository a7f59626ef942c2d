-------------------------- MODULE Forwarding_proofs --------------------------
(***************************************************************************)
(* The safety of Forwarding for every size of memory and of the heap.      *)
(*                                                                         *)
(* A heap is described by four things: the set S of the addresses where    *)
(* its chunks begin, the size of each, the set N of the names of its       *)
(* objects, and where each of them is (loc).  Placed says that the chunks  *)
(* lie end to end and the objects are in the order of their names; the     *)
(* other predicates say what the words at these addresses are.  The        *)
(* inductive invariant has one part for each value of pc.  During a pass   *)
(* it also knows where each object is going (new) and which block says so  *)
(* (blk).                                                                  *)
(*                                                                         *)
(* A become: moves nothing: loc stays, and the blocks say with which       *)
(* object each one is exchanged.  The one-way form steps over its blocks   *)
(* with 16 bytes, as they are laid out only when a word has 4 bytes: the   *)
(* theorems assume it, and the run become_one_way shows what happens       *)
(* with 8.                                                                 *)
(***************************************************************************)
EXTENDS Forwarding, FiniteSetTheorems, WellFoundedInduction, TLAPS

-----------------------------------------------------------------------------
(* Words.                                                                  *)

\* The header of an object, and one with the mark.
Header(name, size, hash) ==
    [type |-> "object", size |-> size, mark |-> FALSE, hash |-> hash,
     name |-> name]
Marked(name, size) ==
    [type |-> "object", size |-> size, mark |-> TRUE, hash |-> name,
     name |-> name]

\* What the kinds of words hold, and that they are not confused.
LEMMA Words ==
    /\ \A s : FreeChunk(s).type = "free" /\ FreeChunk(s).size = s
    /\ \A b : Forwarded(b).type = "forwarded" /\ Forwarded(b).block = b
    /\ \A a : Oop(a).type = "oop" /\ Oop(a).at = a
    /\ \A n, s, h :
          /\ Header(n, s, h).type = "object"
          /\ Header(n, s, h).size = s
          /\ ~Header(n, s, h).mark
          /\ Header(n, s, h).hash = h
          /\ Header(n, s, h).name = n
    /\ \A n, s :
          /\ Marked(n, s).type = "object" /\ Marked(n, s).size = s
          /\ Marked(n, s).mark
  BY DEF FreeChunk, Forwarded, Oop, Header, Marked

\* Marks and hashes can be set.
LEMMA HeaderSet ==
    ASSUME NEW n, NEW s, NEW h, NEW w, NEW x
    PROVE  /\ w = Header(n, s, n) => [w EXCEPT !.mark = TRUE] = Marked(n, s)
           /\ w = Marked(n, s) => [w EXCEPT !.mark = FALSE] = Header(n, s, n)
           /\ w = Header(n, s, h) => [w EXCEPT !.hash = x] = Header(n, s, x)
           /\ ObjectHeader(n, s) = Header(n, s, n)
  <1> DEFINE yes == TRUE
             no == FALSE
             Other(k) == [type |-> "object", size |-> s, mark |-> k,
                        hash |-> n, name |-> n]
             With(y) == [type |-> "object", size |-> s, mark |-> no,
                         hash |-> y, name |-> n]
  <1>0. With(h) = Header(n, s, h) /\ With(x) = Header(n, s, x)
    BY DEF Header
  <1>1. Other(yes) = Marked(n, s) /\ Other(no) = Header(n, s, n)
    BY DEF Marked, Header
  <1> HIDE DEF yes, no
  <1>2. [Other(no) EXCEPT !.mark = yes] = Other(yes)
    OBVIOUS
  <1>3. [Other(yes) EXCEPT !.mark = no] = Other(no)
    OBVIOUS
  <1>9. [With(h) EXCEPT !.hash = x] = With(x)
    OBVIOUS
  <1> HIDE DEF Other, With
  <1>4. w = Header(n, s, n) => [w EXCEPT !.mark = TRUE] = Marked(n, s)
    BY <1>1, <1>2 DEF yes
  <1>5. w = Marked(n, s) => [w EXCEPT !.mark = FALSE] = Header(n, s, n)
    BY <1>1, <1>3 DEF no
  <1>6. w = Header(n, s, h) => [w EXCEPT !.hash = x] = Header(n, s, x)
    BY <1>0, <1>9
  <1>7. ObjectHeader(n, s) = Header(n, s, n)
    BY DEF Header, ObjectHeader
  <1>8. QED
    BY <1>4, <1>5, <1>6, <1>7
-----------------------------------------------------------------------------
(* Numbers and sets of them.                                               *)

\* A set of numbers that is not empty has a smallest.
LEMMA Smallest ==
    ASSUME NEW T \in SUBSET Nat, T # {}
    PROVE  \E x \in T : \A y \in T : x <= y
  <1> DEFINE Less == OpToRel(<, Nat)
  <1>1. \E x \in T : \A y \in T : ~(<<y, x>> \in Less)
    <2> HIDE DEF Less
    <2>1. IsWellFoundedOn(Less, Nat)
      BY NatLessThanWellFounded DEF Less
    <2>2. QED
      BY <2>1, WFMin
  <1>2. PICK x \in T : \A y \in T : ~(<<y, x>> \in Less)
    BY <1>1
  <1>3. \A y \in T : ~(y < x)
    BY <1>2 DEF OpToRel
  <1>4. QED
    BY <1>3

\* One that is bounded has a largest.
LEMMA Largest ==
    ASSUME NEW T \in SUBSET Nat, T # {}, NEW n \in Nat, \A x \in T : x <= n
    PROVE  \E x \in T : \A y \in T : y <= x
  <1> DEFINE B == {k \in Nat : \A x \in T : x <= k}
  <1>1. n \in B
    OBVIOUS
  <1>2. PICK k \in B : \A j \in B : k <= j
    <2> HIDE DEF B
    <2>1. B # {}
      BY <1>1
    <2>2. B \in SUBSET Nat
      BY DEF B
    <2>3. QED
      BY <2>1, <2>2, Smallest
  <1>3. ASSUME k \notin T PROVE FALSE
    <2>1. \A x \in T : x <= k - 1
      BY <1>3
    <2>2. k - 1 \in B
      <3>1. PICK x \in T : TRUE
        OBVIOUS
      <3>2. k - 1 \in Nat
        BY <2>1, <3>1
      <3>3. QED
        BY <2>1, <3>2
    <2>3. QED
      BY <1>2, <2>2
  <1>4. QED
    BY <1>2, <1>3

\* The largest and the smallest member of a set of integers.
LEMMA MaxMin ==
    ASSUME NEW T \in SUBSET Int, NEW x \in T
    PROVE  /\ (\A y \in T : y <= x) => Max(T) = x
           /\ (\A y \in T : x <= y) => Min(T) = x
  <1>1. ASSUME \A y \in T : y <= x PROVE Max(T) = x
    <2>1. PICK z \in T : z = Max(T) /\ \A y \in T : z >= y
      BY <1>1 DEF Max
    <2>2. z >= x /\ z <= x
      BY <1>1, <2>1
    <2>3. QED
      BY <2>1, <2>2
  <1>2. ASSUME \A y \in T : x <= y PROVE Min(T) = x
    <2>1. PICK z \in T : z = Min(T) /\ \A y \in T : z <= y
      BY <1>2 DEF Min
    <2>2. z >= x /\ z <= x
      BY <1>2, <2>1
    <2>3. QED
      BY <2>1, <2>2
  <1>3. QED
    BY <1>1, <1>2

\* A set that holds 0, and with each number below n the next, holds 0..n.
LEMMA Counting ==
    ASSUME NEW n \in Nat, NEW S, 0 \in S,
           \A i \in 0..(n - 1) : i \in S => i + 1 \in S
    PROVE  0..n \subseteq S
  <1> DEFINE T == (0..n) \ S
  <1> SUFFICES ASSUME T # {}
               PROVE  FALSE
    OBVIOUS
  <1>1. PICK x \in T : \A y \in T : x <= y
    <2>1. T \in SUBSET Nat
      OBVIOUS
    <2> HIDE DEF T
    <2>2. QED
      BY <2>1, Smallest
  <1>2. x \in 1..n
    OBVIOUS
  <1>3. x - 1 \in S
    BY <1>1, <1>2
  <1>4. QED
    BY <1>2, <1>3
-----------------------------------------------------------------------------
(* Chunks.                                                                 *)

\* Chunks of these sizes lie end to end from 0 to an address.
Tiles(S, size, end) ==
    /\ S \subseteq Nat /\ 0 \in S /\ end \in Nat
    /\ size \in [S -> Nat \ {0}]
    /\ \A a \in S : a + size[a] \in S \cup {end} /\ a + size[a] <= end
    /\ \A a, b \in S : a < b => a + size[a] <= b

\* The walk through memory is a function that there is: each address is
\* mapped to what every set holds that has it and goes on as the walk does.
LEMMA WalkExists ==
    ASSUME NEW m, NEW to \in Nat
    PROVE  \E f : f = [a \in 0..to |->
                   IF a = to THEN {}
                   ELSE {a} \cup IF objectAfter(m, a) \in (a + 1)..to
                                 THEN f[objectAfter(m, a)] ELSE {}]
  <1> DEFINE next(a) == objectAfter(m, a)
             Closed(T) == \A y \in T :
                             next(y) \in (y + 1)..to => next(y) \in T
             R(a) == {x \in 0..(to - 1) :
                        \A T \in SUBSET (0..to) :
                           (a \in T /\ Closed(T)) => x \in T}
             f == [a \in 0..to |-> R(a)]
             g == [a \in 0..to |->
                         IF a = to THEN {}
                         ELSE {a} \cup IF next(a) \in (a + 1)..to
                                       THEN f[next(a)] ELSE {}]
  <1> HIDE DEF next
  <1>1. R(to) = {}
    <2>1. {to} \in SUBSET (0..to) /\ Closed({to})
      OBVIOUS
    <2>2. \A x \in R(to) : x \in {to} /\ x \in 0..(to - 1)
      BY <2>1
    <2>3. QED
      BY <2>2
  <1>2. ASSUME NEW a \in 0..(to - 1), next(a) \notin (a + 1)..to
        PROVE  R(a) = {a}
    <2>1. {a} \in SUBSET (0..to) /\ Closed({a})
      BY <1>2
    <2>2. QED
      BY <2>1
  <1>3. ASSUME NEW a \in 0..(to - 1), next(a) \in (a + 1)..to
        PROVE  R(a) = {a} \cup R(next(a))
    <2>1. ASSUME NEW x \in R(a), x # a PROVE x \in R(next(a))
      <3>1. ASSUME NEW T \in SUBSET (0..to), next(a) \in T, Closed(T)
            PROVE  x \in T
        <4>1. T \cup {a} \in SUBSET (0..to) /\ a \in T \cup {a}
          OBVIOUS
        <4>2. Closed(T \cup {a})
          BY <3>1
        <4>3. x \in T \cup {a}
          BY <4>1, <4>2, <2>1
        <4>4. QED
          BY <4>3, <2>1
      <3>2. QED
        BY <3>1, <2>1
    <2>2. ASSUME NEW x \in R(next(a)) PROVE x \in R(a)
      <3>1. ASSUME NEW T \in SUBSET (0..to), a \in T, Closed(T)
            PROVE  x \in T
        <4>1. next(a) \in T
          BY <3>1, <1>3
        <4>2. QED
          BY <3>1, <4>1, <2>2
      <3>2. QED
        BY <3>1, <2>2
    <2>3. a \in R(a)
      OBVIOUS
    <2> HIDE DEF R
    <2>4. QED
      BY <2>1, <2>2, <2>3
  <1>4. ASSUME NEW a \in 0..to PROVE f[a] = g[a]
    <2> HIDE DEF R
    <2>1. CASE a = to
      BY <1>1, <2>1
    <2>2. CASE a # to /\ next(a) \notin (a + 1)..to
      BY <1>2, <2>2
    <2>3. CASE a # to /\ next(a) \in (a + 1)..to
      <3>1. next(a) \in 0..to
        BY <2>3
      <3>2. f[next(a)] = R(next(a))
        BY <3>1
      <3>3. f[a] = {a} \cup R(next(a))
        BY <1>3, <2>3
      <3>4. QED
        BY <3>2, <3>3, <2>3
    <2>4. QED
      BY <2>1, <2>2, <2>3
  <1>5. f = g
    <2> HIDE DEF R
    <2>1. DOMAIN f = 0..to /\ DOMAIN g = 0..to
      OBVIOUS
    <2>2. f = [a \in 0..to |-> f[a]] /\ g = [a \in 0..to |-> g[a]]
      OBVIOUS
    <2> HIDE DEF f, g
    <2>3. QED
      BY <1>4, <2>2
  <1> HIDE DEF R
  <1>6. QED
    BY <1>5 DEF next

\* The walk meets every chunk from where it begins.
LEMMA ChunksAre ==
    ASSUME NEW m, NEW S, NEW size, NEW end, Tiles(S, size, end),
           \A a \in S : objectAfter(m, a) = a + size[a],
           NEW from \in S
    PROVE  Chunks(m, from, end) = {a \in S : from <= a}
  <1> DEFINE Walk(f) == f = [a \in 0..end |->
                         IF a = end THEN {}
                         ELSE {a} \cup IF objectAfter(m, a) \in (a + 1)..end
                                       THEN f[objectAfter(m, a)] ELSE {}]
             met == CHOOSE f : Walk(f)
             Rest(a) == {b \in S : a <= b}
             Bad == {a \in S : met[a] # Rest(a)}
  <1>1. Walk(met)
    <2>1. \E f : Walk(f)
      <3>1. end \in Nat
        BY DEF Tiles
      <3>2. QED
        BY <3>1, WalkExists, ZenonT(30)
    <2> HIDE DEF Walk
    <2>2. QED
      BY <2>1
  <1>2. Chunks(m, from, end) = met[from]
    BY DEF Chunks
  <1> HIDE DEF met
  <1>3. met[end] = {}
    BY <1>1 DEF Tiles
  <1>4. ASSUME NEW a \in S
        PROVE  /\ a + size[a] \in (a + 1)..end /\ a \in Nat /\ a < end
               /\ met[a] = {a} \cup met[a + size[a]]
    BY <1>1, <1>4, SMTT(30) DEF Tiles
  <1> HIDE DEF Walk
  <1>5. ASSUME Bad # {} PROVE FALSE
    <2>1. Bad \in SUBSET Nat /\ end \in Nat /\ \A a \in Bad : a <= end
      <3>1. \A a \in S : a \in Nat /\ a <= end
        BY <1>4 DEF Tiles
      <3>2. QED
        BY <3>1 DEF Tiles
    <2> HIDE DEF Bad
    <2>2. PICK a \in Bad : \A b \in Bad : b <= a
      BY <1>5, <2>1, Largest
    <2> USE DEF Bad
    <2>3. CASE a + size[a] = end
      <3>1. Rest(a) = {a}
        <4>1. ASSUME NEW b \in S, a <= b PROVE b = a
          <5>1. b < end /\ a \in S /\ b \in Nat /\ a \in Nat
            BY <1>4, <4>1
          <5>2. a < b => end <= b
            BY <2>3, <5>1 DEF Tiles
          <5>3. end \in Nat
            BY DEF Tiles
          <5>4. QED
            BY <4>1, <5>1, <5>2, <5>3
        <4>2. QED
          BY <1>4, <4>1
      <3>2. met[a] = {a}
        BY <1>3, <1>4, <2>3
      <3>3. QED
        BY <3>1, <3>2
    <2>4. CASE a + size[a] \in S
      <3>1. Rest(a) = {a} \cup Rest(a + size[a])
        BY <1>4, <2>4 DEF Tiles
      <3>2. met[a + size[a]] = Rest(a + size[a])
        BY <1>4, <2>2, <2>4
      <3>3. QED
        BY <1>4, <3>1, <3>2
    <2>5. QED
      BY <2>3, <2>4 DEF Tiles
  <1>6. QED
    BY <1>2, <1>5
-----------------------------------------------------------------------------
(* The heap an operation finds.                                            *)

\* The addresses where the chunks of a layout begin can be computed.
LEMMA StartsExist ==
    ASSUME NEW n \in Nat, NEW layout \in [1..n -> Chunk]
    PROVE  \E start : start = [i \in 1..(n + 1) |->
                IF i = 1 THEN 2 ELSE start[i - 1] + layout[i - 1].size]
  <1> DEFINE Twos(i) == {j \in 1..(i - 1) : layout[j].size = 2}
             start == [i \in 1..(n + 1) |-> i + 1 + Cardinality(Twos(i))]
             g == [i \in 1..(n + 1) |->
                IF i = 1 THEN 2 ELSE start[i - 1] + layout[i - 1].size]
  <1>1. ASSUME NEW i \in 1..(n + 1)
        PROVE  IsFiniteSet(Twos(i)) /\ Cardinality(Twos(i)) \in Nat
    <2>1. IsFiniteSet(1..(i - 1))
      BY FS_Interval
    <2>2. Twos(i) \in SUBSET (1..(i - 1))
      OBVIOUS
    <2> HIDE DEF Twos
    <2>3. QED
      BY <2>1, <2>2, FS_Subset, FS_CardinalityType
  <1>2. Cardinality(Twos(1)) = 0
    <2>1. Twos(1) = {}
      OBVIOUS
    <2>2. QED
      BY <2>1, FS_EmptySet
  <1>3. ASSUME NEW i \in 1..n
        PROVE  Cardinality(Twos(i + 1)) =
                  Cardinality(Twos(i)) + layout[i].size - 1
    <2>1. layout[i].size \in {1, 2}
      BY DEF Chunk
    <2>2. CASE layout[i].size = 1
      <3>1. Twos(i + 1) = Twos(i)
        BY <2>2
      <3> HIDE DEF Twos
      <3>2. QED
        BY <1>1, <2>2, <3>1
    <2>3. CASE layout[i].size = 2
      <3>1. Twos(i + 1) = Twos(i) \cup {i} /\ i \notin Twos(i)
        BY <2>3
      <3> HIDE DEF Twos
      <3>2. Cardinality(Twos(i + 1)) = Cardinality(Twos(i)) + 1
        BY <1>1, <3>1, FS_AddElement
      <3>3. QED
        BY <1>1, <2>3, <3>2
    <2>4. QED
      BY <2>1, <2>2, <2>3
  <1> HIDE DEF Twos
  <1>4. ASSUME NEW i \in 1..(n + 1) PROVE start[i] = g[i]
    <2>1. CASE i = 1
      BY <1>2, <2>1
    <2>2. CASE i # 1
      <3>1. i - 1 \in 1..n /\ (i - 1) + 1 = i
        BY <2>2
      <3>2. Cardinality(Twos(i)) =
                Cardinality(Twos(i - 1)) + layout[i - 1].size - 1
        BY <1>3, <3>1
      <3>3. layout[i - 1].size \in {1, 2}
        BY <3>1 DEF Chunk
      <3>4. Cardinality(Twos(i - 1)) \in Nat
        BY <1>1, <3>1
      <3>5. start[i] = i + 1 + Cardinality(Twos(i))
        OBVIOUS
      <3>6. start[i - 1] = i + Cardinality(Twos(i - 1))
        BY <3>1, <3>4
      <3> HIDE DEF start
      <3>7. g[i] = start[i - 1] + layout[i - 1].size
        BY <2>2
      <3>8. QED
        BY <3>2, <3>3, <3>4, <3>5, <3>6, <3>7
    <2>3. QED
      BY <2>1, <2>2
  <1>5. start = g
    <2>1. start = [i \in 1..(n + 1) |-> start[i]]
          /\ g = [i \in 1..(n + 1) |-> g[i]]
      OBVIOUS
    <2> HIDE DEF start, g
    <2>2. QED
      BY <1>4, <2>1
  <1> HIDE DEF start
  <1>6. QED
    BY <1>5

\* Chunks begin where the one before them ends.
LEMMA StartsAre ==
    ASSUME NEW n \in Nat \ {0}, NEW layout \in [1..n -> Chunk]
    PROVE  /\ Len(layout) = n /\ DOMAIN layout = 1..n
           /\ Starts(layout) \in [1..(n + 1) -> Nat]
           /\ Starts(layout)[1] = 2
           /\ \A i \in 1..n : Starts(layout)[i + 1] =
                                 Starts(layout)[i] + layout[i].size
           /\ \A i, j \in 1..(n + 1) : i < j =>
                 Starts(layout)[i] + layout[i].size <= Starts(layout)[j]
           /\ Starts(layout)[n + 1] <= 2 * n + 2
  <1> DEFINE P(f) == f = [i \in 1..(n + 1) |->
                IF i = 1 THEN 2 ELSE f[i - 1] + layout[i - 1].size]
             start == CHOOSE f : P(f)
  <1>1. Len(layout) = n /\ DOMAIN layout = 1..n
    <2>1. layout \in Seq(Chunk)
      OBVIOUS
    <2>2. QED
      BY <2>1
  <1>2. P(start)
    <2>1. \E f : P(f)
      BY StartsExist, Zenon
    <2> HIDE DEF P
    <2>2. QED
      BY <2>1
  <1>3. Starts(layout) = start
    BY <1>1 DEF Starts
  <1> HIDE DEF start
  <1>4. start[1] = 2 /\ DOMAIN start = 1..(n + 1)
    BY <1>2
  <1>5. \A i \in 1..n : start[i + 1] = start[i] + layout[i].size
    <2>1. \A i \in 1..n : i + 1 \in 1..(n + 1) /\ i + 1 # 1
                          /\ (i + 1) - 1 = i
      OBVIOUS
    <2>2. QED
      BY <1>2, <2>1
  <1>6. \A i \in 1..n : layout[i].size \in {1, 2}
    BY DEF Chunk
  <1>7. \A i \in 1..(n + 1) : start[i] \in Nat /\ start[i] <= 2 * i
    <2> DEFINE T == {k \in Nat : k <= n =>
                        start[k + 1] \in Nat /\ start[k + 1] <= 2 * (k + 1)}
    <2>1. 0 \in T
      BY <1>4
    <2>2. ASSUME NEW k \in 0..(n - 1), k \in T PROVE k + 1 \in T
      <3>1. k + 1 \in 1..n /\ (k + 1) + 1 = k + 2 /\ k <= n
        OBVIOUS
      <3>2. start[k + 2] = start[k + 1] + layout[k + 1].size
        BY <1>5, <3>1
      <3>3. layout[k + 1].size \in {1, 2}
        BY <1>6, <3>1
      <3>4. QED
        BY <2>2, <3>1, <3>2, <3>3
    <2> HIDE DEF T
    <2>3. 0..n \subseteq T
      BY <2>1, <2>2, Counting
    <2>4. \A i \in 1..(n + 1) : i - 1 \in T /\ i - 1 <= n /\ (i - 1) + 1 = i
      BY <2>3
    <2>5. QED
      BY <2>4 DEF T
  <1>8. ASSUME NEW i \in 1..n, NEW j \in 1..(n + 1), i < j
        PROVE  start[i] + layout[i].size <= start[j]
    <2> DEFINE T == {k \in Nat : i + 1 + k <= n + 1 =>
                        start[i] + layout[i].size <= start[i + 1 + k]}
    <2>0. start[i] + layout[i].size \in Nat
      <3>1. start[i] \in Nat
        BY <1>7
      <3>2. layout[i].size \in {1, 2}
        BY <1>6
      <3>3. QED
        BY <3>1, <3>2
    <2>1. 0 \in T
      BY <1>5, <1>7, <2>0
    <2>2. ASSUME NEW k \in 0..((j - (i + 1)) - 1), k \in T
          PROVE  k + 1 \in T
      <3>1. i + 1 + k \in 1..n /\ (i + 1 + k) + 1 = i + 1 + (k + 1)
            /\ i + 1 + k <= n + 1
        OBVIOUS
      <3>2. start[i + 1 + (k + 1)] = start[i + 1 + k] + layout[i + 1 + k].size
        BY <1>5, <3>1
      <3>3. layout[i + 1 + k].size \in {1, 2} /\ start[i + 1 + k] \in Nat
        BY <1>6, <1>7, <3>1
      <3>4. start[i] + layout[i].size <= start[i + 1 + k]
        BY <2>2, <3>1
      <3>5. QED
        BY <2>0, <2>2, <3>2, <3>3, <3>4
    <2> HIDE DEF T
    <2>3. 0..(j - (i + 1)) \subseteq T
      BY <1>8, <2>1, <2>2, Counting
    <2>4. j - (i + 1) \in T /\ i + 1 + (j - (i + 1)) = j
      BY <1>8, <2>3
    <2>5. QED
      BY <2>4 DEF T
  <1>9. \A i, j \in 1..(n + 1) : i < j => start[i] + layout[i].size <= start[j]
    <2>1. \A i, j \in 1..(n + 1) : i < j => i \in 1..n
      OBVIOUS
    <2>2. QED
      BY <1>8, <2>1
  <1>10. start \in [1..(n + 1) -> Nat]
    <2>1. start = [i \in 1..(n + 1) |-> start[i]]
      BY <1>2
    <2>2. QED
      BY <1>7, <2>1
  <1>11. start[n + 1] <= 2 * n + 2
    BY <1>7
  <1> HIDE DEF P
  <1>12. QED
    BY <1>1, <1>3, <1>4, <1>5, <1>9, <1>10, <1>11

\* SetToSeq has every element of the set, once.
LEMMA SetToSeqIs ==
    ASSUME NEW N, IsFiniteSet(N)
    PROVE  /\ Cardinality(N) \in Nat
           /\ SetToSeq(N) \in [1..Cardinality(N) -> N]
           /\ \A n \in N : \E i \in 1..Cardinality(N) : SetToSeq(N)[i] = n
  <1> DEFINE I == 1..Cardinality(N)
             f == SetToSeq(N)
  <1>1. Cardinality(N) \in Nat /\ ExistsBijection(I, N)
    BY FS_CardinalityType
  <1>2. \E g \in [I -> N] : IsInjective(g)
    BY <1>1 DEF ExistsBijection, Bijection, Injection
  <1>3. f \in [I -> N] /\ IsInjective(f)
    BY <1>2 DEF SetToSeq
  <1>4. IsFiniteSet(I) /\ Cardinality(I) = Cardinality(N)
    BY <1>1, FS_Interval
  <1>5. f \in Injection(I, N)
    BY <1>3 DEF Injection
  <1> HIDE DEF I, f
  <1>6. f \in Surjection(I, N)
    BY <1>4, <1>5, FS_Injection
  <1>7. QED
    BY <1>1, <1>3, <1>6 DEF Surjection, I, f
-----------------------------------------------------------------------------
(* The heap in the middle of an operation.                                 *)

\* The chunks that hold no object.
FreeIn(N, S, loc) == {a \in S : \A n \in N : loc[n] # a}

\* The objects are chunks, in the order of their names; the old one is first.
Placed(N, S, size, loc, end) ==
    /\ Tiles(S, size, end)
    /\ N \subseteq Nat /\ 0 \in N
    /\ loc \in [N -> S]
    /\ \A n, k \in N : n < k => loc[n] < loc[k]
    /\ loc[0] = 0 /\ size[0] = 2
    /\ \A n \in N : size[loc[n]] \in {1, 2}

\* The last chunk is free, and the free block is in it.
LastFree(N, S, size, loc, fb, end) ==
    \E a \in FreeIn(N, S, loc) : a <= fb /\ fb < end /\ a + size[a] = end

\* The header of an object that has its own hash.
Own(n, size, loc) == Header(n, size[loc[n]], n)

HeadersAre(m, N, size, loc) == \A n \in N : m[loc[n]] = Own(n, size, loc)

\* The objects of two words refer to the object at t.
FieldsAre(m, N, size, loc, t) ==
    \A n \in N : size[loc[n]] = 2 => m[loc[n] + 1] = Oop(t)

\* The free chunks, but for one, have the headers they should have.
FreeAre(m, N, S, size, loc, but) ==
    \A a \in FreeIn(N, S, loc) : a # but => m[a] = FreeChunk(size[a])

\* What no mark saves.
Dead(word, size) ==
    /\ word.size = size
    /\ word.type = "free" \/ (word.type = "object" /\ word.mark = FALSE)

\* Objects in a range of addresses.
Within(N, loc, from, to) == {n \in N : from <= loc[n] /\ loc[n] < to}

\* What does not change, or not the wrong way.
Setting ==
    /\ BytesPerWord \in {4, 8} /\ memoryLimit \in Nat
    /\ DOMAIN memory = 0..memoryLimit
    /\ IsFiniteSet(before.live) /\ before.target \in before.live
    /\ freeBlock \in Nat /\ freeBlock >= 2 /\ freeBlock <= 2 * MaxChunks + 2
    /\ 2 * MaxChunks + 8 <= memoryLimit
    /\ endOfMemory \in Nat /\ endOfMemory <= memoryLimit
    /\ freeBlock < endOfMemory
    /\ totalObjectCount \in Nat

\* The registers name every object, the method cache at most the target.
RootsAre(loc) ==
    /\ interpreterOops = [i \in 1..Cardinality(before.live) |->
                             loc[SetToSeq(before.live)[i]]]
    /\ methodCache \in {Null, loc[before.target]}
-----------------------------------------------------------------------------
(* The inductive invariant of the collections.                             *)

\* A full collection takes everything to be young.
Boundary ==
    IF operation = "full" /\ pc # "mark"
    THEN youngStart = 0 /\ rootTable = {}
    ELSE youngStart = 2 /\ rootTable = {0}

\* Before it begins, with the free block cut down to a word.
Found(S, size, loc) ==
    /\ Placed(before.live, S, size, loc, freeBlock + 1)
    /\ freeBlock \in FreeIn(before.live, S, loc)
    /\ \A a \in FreeIn(before.live, S, loc) :
          a # freeBlock => Dead(memory[a], size[a])
    /\ HeadersAre(memory, before.live, size, loc)
    /\ FieldsAre(memory, before.live, size, loc, loc[before.target])
    /\ RootsAre(loc)

\* The chunks below oop are swept; what is above is marked or dead.
Swept(m, S, size, loc) ==
    /\ Placed(before.live, S, size, loc, endOfMemory)
    /\ LastFree(before.live, S, size, loc, freeBlock, endOfMemory)
    /\ oop \in S \cup {endOfMemory} /\ oop >= youngStart
    /\ \A a \in FreeIn(before.live, S, loc) : a < oop =>
          /\ m[a] = FreeChunk(size[a])
          /\ a # sweep.freeChunk =>
                \E n \in before.live : loc[n] = a + size[a]
    /\ \A a \in FreeIn(before.live, S, loc) : a >= oop => Dead(m[a], size[a])
    /\ \A n \in before.live : loc[n] < oop => m[loc[n]] = Own(n, size, loc)
    /\ \A n \in before.live : loc[n] >= oop =>
          m[loc[n]] = Marked(n, size[loc[n]])
    /\ FieldsAre(m, before.live, size, loc, loc[before.target])
    /\ RootsAre(loc)

\* There are blocks for all objects from where the compaction begins.
Gathered(S, size, loc) ==
    /\ sweep.entriesAvailable \in 0..EntriesAvailable
    /\ sweep.survivors \in Nat /\ sweep.freeChunkSize \in Nat
    /\ IF sweep.freeChunk = Null THEN sweep.freeChunkSize = 0
       ELSE /\ sweep.freeChunk \in FreeIn(before.live, S, loc)
            /\ sweep.freeChunk + size[sweep.freeChunk] = oop
            /\ sweep.freeChunkSize = size[sweep.freeChunk]
            /\ sweep.firstFree # Null
    /\ sweep.firstFree # Null =>
          /\ sweep.firstFree \in FreeIn(before.live, S, loc)
          /\ sweep.firstFree < oop
          /\ Cardinality(Within(before.live, loc, sweep.firstFree, oop))
                + sweep.entriesAvailable <= EntriesAvailable

\* A pass begins at a free chunk that an object follows, or nothing; below it
\* a full compaction has left none, and an incremental one has only the one
\* pass, for which there are blocks enough.
Passes(S, size, loc) ==
    /\ Placed(before.live, S, size, loc, freeBlock + 1)
    /\ LastFree(before.live, S, size, loc, freeBlock, freeBlock + 1)
    /\ compStart \in FreeIn(before.live, S, loc)
    /\ \/ compStart + size[compStart] = freeBlock + 1
       \/ \E n \in before.live : loc[n] = compStart + size[compStart]
    /\ operation = "full" =>
          \A a \in FreeIn(before.live, S, loc) : a >= compStart
    /\ operation = "incremental" =>
          Cardinality(Within(before.live, loc, compStart, freeBlock + 1))
             <= EntriesAvailable

Compacts(S, size, loc) ==
    /\ Passes(S, size, loc)
    /\ HeadersAre(memory, before.live, size, loc)
    /\ FieldsAre(memory, before.live, size, loc, loc[before.target])
    /\ FreeAre(memory, before.live, S, size, loc, freeBlock)
    /\ RootsAre(loc)

\* This object's header is in its block, which says where it goes.
InBlock(m, n, size, loc, new, blk) ==
    /\ m[loc[n]] = Forwarded(blk[n])
    /\ m[blk[n]] = Oop(new[n])
    /\ m[blk[n] + 1] = Own(n, size, loc)

\* The blocks of these objects are all different, above the end of memory.
BlocksAre(G, blk, end, last) ==
    /\ \A n \in G : blk[n] \in Nat /\ end < blk[n] /\ blk[n] <= last
    /\ \A n, k \in G : n < k => blk[n] + 2 <= blk[k]

\* The objects in G slide together, from an address to another.
Slides(G, size, loc, new, from, to) ==
    /\ from = to \/ \E n \in G : new[n] = from
    /\ \A n \in G :
          /\ new[n] \in Nat /\ from <= new[n] /\ new[n] < loc[n]
          /\ new[n] + size[loc[n]] <= to
          /\ new[n] + size[loc[n]] = to
             \/ \E k \in G : new[k] = new[n] + size[loc[n]]
    /\ \A n, k \in G : n < k => new[n] + size[loc[n]] <= new[k]

\* The objects in the range that have been forwarded.
Ahead(loc, to) == Within(before.live, loc, compStart, to)

\* What a pass knows of where it moves the objects to.
Plans(S, size, loc, new, blk, to) ==
    /\ Passes(S, size, loc) /\ endOfMemory = freeBlock + 1
    /\ to \in S \cup {endOfMemory} /\ compStart <= to
    /\ new \in [before.live -> Nat]
    /\ \A n \in before.live \ Ahead(loc, to) : new[n] = loc[n]
    /\ fwdTableLast = memoryLimit - 2
    /\ BlocksAre(Ahead(loc, to), blk, endOfMemory, fwdTableLast)
    /\ bytesFreed \in Nat /\ compStart <= to - bytesFreed
    /\ compStart < to => 1 <= bytesFreed
    /\ Slides(Ahead(loc, to), size, loc, new, compStart, to - bytesFreed)

\* The blocks so far are the first of the table.
Handed(loc, blk) ==
    /\ fwdTableNext =
          TableStart(freeBlock + 1) + 2 * Cardinality(Ahead(loc, oop))
    /\ \A n \in Ahead(loc, oop) : blk[n] <= fwdTableNext

Forwards(S, size, loc, new, blk) ==
    /\ Plans(S, size, loc, new, blk, oop)
    /\ \A n \in Ahead(loc, oop) : InBlock(memory, n, size, loc, new, blk)
    /\ \A n \in before.live \ Ahead(loc, oop) :
          memory[loc[n]] = Own(n, size, loc)
    /\ FreeAre(memory, before.live, S, size, loc, Null)
    /\ FieldsAre(memory, before.live, size, loc, loc[before.target])
    /\ RootsAre(loc)

\* A pass ends at the end of memory or at an object it has no block for, and
\* then it has forwarded one at least.
RangeEnds(loc) ==
    \/ compEnd = endOfMemory
    \/ /\ operation = "full" /\ Ahead(loc, compEnd) # {}
       /\ \E n \in before.live : loc[n] = compEnd

\* Below oop the objects are where they go, with their headers.
Moves(S, size, loc, new, blk) ==
    /\ Plans(S, size, loc, new, blk, compEnd) /\ RangeEnds(loc)
    /\ oop \in S \cup {endOfMemory} /\ compStart <= oop /\ oop <= compEnd
    /\ \A n \in Ahead(loc, compEnd) : IF loc[n] < oop
          THEN memory[new[n]] = Own(n, size, loc)
          ELSE InBlock(memory, n, size, loc, new, blk)
    /\ \A n \in before.live \ Ahead(loc, compEnd) :
          memory[loc[n]] = Own(n, size, loc)
    /\ \A n \in before.live : size[loc[n]] = 2 =>
          memory[(IF loc[n] < oop THEN new[n] ELSE loc[n]) + 1]
             = Oop(new[before.target])
    /\ \A a \in FreeIn(before.live, S, loc) : a < compStart \/ a >= oop =>
          memory[a] = FreeChunk(size[a])
    /\ IF Ahead(loc, oop) = {}
       THEN newOop = Null /\ memory[compStart] = FreeChunk(size[compStart])
       ELSE \E n \in Ahead(loc, oop) :
               /\ newOop = new[n] /\ \A k \in Ahead(loc, oop) : k <= n
    /\ RootsAre(new)

\* At the end the free block is the last chunk, and where the compaction has
\* been there is no other free one.
Collected(S, size, loc) ==
    /\ Placed(before.live, S, size, loc, endOfMemory)
    /\ freeBlock \in FreeIn(before.live, S, loc)
    /\ freeBlock + size[freeBlock] = endOfMemory
    /\ \A a \in FreeIn(before.live, S, loc) :
          a = freeBlock \/ (operation = "incremental" /\ a < compStart)
    /\ HeadersAre(memory, before.live, size, loc)
    /\ FieldsAre(memory, before.live, size, loc, loc[before.target])
    /\ FreeAre(memory, before.live, S, size, loc, Null)
    /\ RootsAre(loc)

\* The part of the invariant for a collection.
CollectionInv ==
    /\ pc \in {"mark", "sweep", "compact", "forward", "map", "move", "done"}
    /\ Boundary
    /\ before.pairs = <<>>
    /\ pc = "mark" => \E S, size, loc : Found(S, size, loc)
    /\ pc = "sweep" =>
          /\ endOfMemory = freeBlock + 1
          /\ \E S, size, loc : /\ Swept(CloseChunk(memory), S, size, loc)
                               /\ Gathered(S, size, loc)
    /\ pc = "compact" => \E S, size, loc : Compacts(S, size, loc)
    /\ pc \in {"forward", "map"} =>
          \E S, size, loc, new, blk :
             /\ Forwards(S, size, loc, new, blk)
             /\ pc = "forward" => Handed(loc, blk)
             /\ pc = "map" => compEnd = oop /\ RangeEnds(loc)
    /\ pc = "move" => \E S, size, loc, new, blk : Moves(S, size, loc, new, blk)
    /\ pc = "done" => \E S, size, loc : Collected(S, size, loc)
-----------------------------------------------------------------------------
(* Lemmas about heaps.                                                     *)

\* The table begins within two words of an address, and at once after an odd
\* one.
LEMMA TableStartIs ==
    ASSUME BytesPerWord \in {4, 8}, NEW end \in Nat
    PROVE  /\ TableStart(end) \in Nat
           /\ end + 1 <= TableStart(end) /\ TableStart(end) <= end + 2
           /\ \A k \in Nat : end + 1 = 2 * k => TableStart(end) = end + 1
  <1>1. CASE BytesPerWord = 4
    <2>1. TableStart(end) = ((((end + 1) * 4 + 7) \div 8) * 8) \div 4
      BY <1>1 DEF TableStart
    <2> QED BY <2>1
  <1>2. CASE BytesPerWord = 8
    <2>1. TableStart(end) = ((((end + 1) * 8 + 7) \div 8) * 8) \div 8
      BY <1>2 DEF TableStart
    <2> QED BY <2>1
  <1>3. QED
    BY <1>1, <1>2

\* There is room for one block of two words, and EntriesAvailable says for
\* how many.
LEMMA Room ==
    ASSUME Setting, ~OneWay
    PROVE  /\ EntriesAvailable \in Nat /\ 1 <= EntriesAvailable
           /\ \A k \in Nat : TableStart(freeBlock + 1) + 2 * k
                                <= memoryLimit - 2 <=> k <= EntriesAvailable
  <1> DEFINE start == TableStart(freeBlock + 1)
  <1>1. freeBlock + 1 \in Nat /\ BytesPerWord \in {4, 8} /\ memoryLimit \in Nat
        /\ freeBlock \in Nat
    BY DEF Setting
  <1>2. start \in Nat /\ start <= freeBlock + 3
    BY <1>1, TableStartIs
  <1>3. MaxChunks \in Nat
    BY MemoryAssumption
  <1>4. start + 2 <= memoryLimit - 2
    <2>1. CASE freeBlock = 2 * MaxChunks + 2
      <3>1. (freeBlock + 1) + 1 = 2 * (MaxChunks + 2)
        BY <2>1, <1>3
      <3>2. start = freeBlock + 2
        <4>1. MaxChunks + 2 \in Nat
          BY <1>3
        <4>2. start = (freeBlock + 1) + 1
          BY <1>1, <3>1, <4>1, TableStartIs
        <4>3. QED
          BY <1>1, <4>2
      <3>3. QED
        BY <1>1, <1>3, <2>1, <3>2 DEF Setting
    <2>2. CASE freeBlock < 2 * MaxChunks + 2
      BY <1>1, <1>2, <1>3, <2>2 DEF Setting
    <2>3. QED
      BY <1>1, <1>3, <2>1, <2>2 DEF Setting
  <1>5. EntriesAvailable = (memoryLimit - 2 - start) \div 2
    BY DEF EntriesAvailable, BlockSize
  <1> HIDE DEF start
  <1>6. QED
    BY <1>1, <1>2, <1>4, <1>5 DEF start

\* What Placed says of addresses.
LEMMA PlacedAre ==
    ASSUME NEW N, NEW S, NEW size, NEW loc, NEW end,
           Placed(N, S, size, loc, end)
    PROVE  /\ end \in Nat /\ N \subseteq Nat /\ 0 \in N /\ 0 \in S
           /\ S \subseteq Nat
           /\ \A a \in S : /\ a \in Nat /\ size[a] \in Nat /\ 1 <= size[a]
                           /\ a + size[a] <= end
                           /\ a + size[a] \in S \cup {end}
           /\ \A a, b \in S : a < b => a + size[a] <= b
           /\ \A n \in N : /\ n \in Nat /\ loc[n] \in S /\ loc[n] \in Nat
                           /\ size[loc[n]] \in {1, 2}
                           /\ size[loc[n]] \in Nat
                           /\ loc[n] + size[loc[n]] <= end
           /\ \A n, k \in N : n < k => loc[n] + size[loc[n]] <= loc[k]
           /\ \A n, k \in N : loc[n] = loc[k] => n = k
           /\ \A n, k \in N : loc[n] < loc[k] => n < k
           /\ \A n \in N : n # 0 => 2 <= loc[n]
           /\ \A a \in S : a \in FreeIn(N, S, loc) \/ \E n \in N : loc[n] = a
           /\ \A a \in FreeIn(N, S, loc) : a \in S /\ 2 <= a
           /\ \A a \in FreeIn(N, S, loc), n \in N :
                 a + size[a] <= loc[n] \/ loc[n] + size[loc[n]] <= a
           /\ loc[0] = 0 /\ size[0] = 2
           /\ 2 < end => 2 \in S
  <1>1. Tiles(S, size, end) /\ N \subseteq Nat /\ 0 \in N /\ loc \in [N -> S]
    BY DEF Placed
  <1>2. \A a \in S : /\ a \in Nat /\ size[a] \in Nat /\ 1 <= size[a]
                     /\ a + size[a] <= end
                     /\ a + size[a] \in S \cup {end}
    BY <1>1 DEF Tiles
  <1>3. \A a, b \in S : a < b => a + size[a] <= b
    BY <1>1 DEF Tiles
  <1>4. \A n \in N : /\ n \in Nat /\ loc[n] \in S /\ loc[n] \in Nat
                     /\ size[loc[n]] \in {1, 2} /\ size[loc[n]] \in Nat
                     /\ loc[n] + size[loc[n]] <= end
    BY <1>1, <1>2 DEF Placed
  <1>5. \A n, k \in N : n < k => loc[n] + size[loc[n]] <= loc[k]
    BY <1>1, <1>3, <1>4 DEF Placed
  <1>6. \A n, k \in N : n < k => loc[n] < loc[k]
    BY DEF Placed
  <1>7. \A n, k \in N : n < k \/ k < n \/ n = k
    BY <1>4
  <1>8. \A n, k \in N : loc[n] = loc[k] => n = k
    BY <1>4, <1>6, <1>7
  <1>9. \A n, k \in N : loc[n] < loc[k] => n < k
    BY <1>4, <1>6, <1>7
  <1>10. loc[0] = 0 /\ size[0] = 2 /\ 0 \in S /\ end \in Nat
    BY <1>1 DEF Placed, Tiles
  <1>11. \A n \in N : n # 0 => 2 <= loc[n]
    BY <1>1, <1>4, <1>5, <1>10
  <1>12. \A a \in FreeIn(N, S, loc) : a \in S /\ \A n \in N : loc[n] # a
    BY DEF FreeIn
  <1>13. \A a \in FreeIn(N, S, loc) : 2 <= a
    <2> SUFFICES ASSUME NEW a \in FreeIn(N, S, loc) PROVE 2 <= a
      OBVIOUS
    <2>1. a \in S /\ a # 0 /\ a \in Nat
      BY <1>1, <1>2, <1>10, <1>12
    <2>2. 0 < a
      BY <2>1
    <2>3. QED
      BY <1>3, <1>10, <2>1, <2>2
  <1>14. \A a \in FreeIn(N, S, loc), n \in N :
            a + size[a] <= loc[n] \/ loc[n] + size[loc[n]] <= a
    BY <1>2, <1>3, <1>4, <1>12
  <1>15. \A a \in S : a \in FreeIn(N, S, loc) \/ \E n \in N : loc[n] = a
    BY DEF FreeIn
  <1>16. 2 < end => 2 \in S
    BY <1>2, <1>10
  <1>17. S \subseteq Nat
    BY <1>2
  <1>18. QED
    BY <1>1, <1>2, <1>3, <1>4, <1>5, <1>8, <1>9, <1>10, <1>11, <1>12, <1>13,
       <1>14, <1>15, <1>16, <1>17

\* The objects all end below the free block.
LEMMA BelowFreeBlock ==
    ASSUME NEW N, NEW S, NEW size, NEW loc, NEW fb \in Nat, NEW end,
           Placed(N, S, size, loc, end), LastFree(N, S, size, loc, fb, end)
    PROVE  \A n \in N : loc[n] + size[loc[n]] <= fb
  <1>1. PICK a \in FreeIn(N, S, loc) : a <= fb /\ a + size[a] = end
    BY DEF LastFree
  <1>2. a \in S /\ a \in Nat /\ size[a] \in Nat /\ end \in Nat
    BY PlacedAre
  <1>3. ASSUME NEW n \in N PROVE loc[n] + size[loc[n]] <= fb
    <2>1. /\ loc[n] \in Nat /\ size[loc[n]] \in {1, 2}
          /\ loc[n] + size[loc[n]] <= end
          /\ a + size[a] <= loc[n] \/ loc[n] + size[loc[n]] <= a
      BY PlacedAre
    <2>2. QED
      BY <1>1, <1>2, <2>1
  <1>4. QED
    BY <1>3

\* Where the chunk after an object or a free chunk is.
LEMMA After ==
    ASSUME NEW m, NEW a
    PROVE  /\ m[a].type # "forwarded" => objectAfter(m, a) = a + m[a].size
           /\ \A b : (m[a] = Forwarded(b)) =>
                 objectAfter(m, a) = a + m[b + 1].size
  <1>1. m[a].type # "forwarded" => objectAfter(m, a) = a + m[a].size
    BY DEF objectAfter, RealHeader, IsForwarded
  <1>2. ASSUME NEW b, m[a] = Forwarded(b)
        PROVE  objectAfter(m, a) = a + m[b + 1].size
    BY <1>2, Words DEF objectAfter, RealHeader, IsForwarded
  <1>3. QED
    BY <1>1, <1>2

\* The registers name every object and nothing else.
LEMMA RootsNameAll ==
    ASSUME IsFiniteSet(before.live), NEW loc, RootsAre(loc), NEW x
    PROVE  (\E i \in DOMAIN interpreterOops : interpreterOops[i] = x)
              <=> \E n \in before.live : loc[n] = x
  <1> DEFINE N == before.live
             I == 1..Cardinality(N)
             s == SetToSeq(N)
  <1>1. /\ s \in [I -> N]
        /\ \A n \in N : \E i \in I : s[i] = n
    BY SetToSeqIs
  <1>2. interpreterOops = [i \in I |-> loc[s[i]]]
    BY DEF RootsAre
  <1> HIDE DEF N, I, s
  <1>3. QED
    BY <1>1, <1>2 DEF N
-----------------------------------------------------------------------------
(* Marking and sweeping.                                                   *)

\* Marking gives the heap that the sweep expects, whatever is found.
LEMMA MarkPhaseSafe ==
    ASSUME Setting, operation \in Collections, CollectionInv, markPhase
    PROVE  Setting' /\ CollectionInv'
  <1> DEFINE N == before.live
             end == freeBlock + 1
  <1>1. PICK S, size, loc : Found(S, size, loc)
    BY DEF CollectionInv, markPhase
  <1>2. /\ pc' = "sweep" /\ oop' = youngStart'
        /\ memory' = [MarkedHeap(youngStart') EXCEPT
                         ![freeBlock] = FreeChunk(1),
                         ![freeBlock + 1] = FreeChunk(1)]
        /\ endOfMemory' = end /\ freeBlock' = freeBlock
        /\ sweep' = [NoSweep EXCEPT !.entriesAvailable = EntriesAvailable]
        /\ UNCHANGED <<fixedVars, totalObjectCount, interpreterOops,
                       methodCache>>
        /\ pc = "mark"
    BY DEF markPhase, fwdTableInit
  <1>3. /\ operation' = operation /\ before' = before
        /\ memoryLimit' = memoryLimit /\ BytesPerWord' = BytesPerWord
    BY <1>2 DEF fixedVars
  <1>4. Boundary'
    BY <1>2, <1>3 DEF markPhase, Boundary, CollectionInv
  <1>5. /\ freeBlock \in Nat /\ 2 <= freeBlock /\ end \in Nat
        /\ DOMAIN memory = 0..memoryLimit /\ memoryLimit \in Nat
        /\ end <= memoryLimit
    BY DEF Setting
  <1>6. Setting'
    BY <1>2, <1>3, <1>5 DEF Setting, MarkedHeap
  <1>7. Placed(N, S, size, loc, end) /\ freeBlock \in FreeIn(N, S, loc)
    BY <1>1 DEF Found
  <1>8. /\ N \subseteq Nat /\ 0 \in S /\ 2 \in S
        /\ \A a \in S : /\ a \in Nat /\ size[a] \in Nat /\ 1 <= size[a]
                        /\ a + size[a] <= end
        /\ \A n \in N : /\ loc[n] \in S /\ loc[n] \in Nat
                        /\ size[loc[n]] \in {1, 2}
                        /\ n # 0 => 2 <= loc[n]
        /\ \A n, k \in N : n < k => loc[n] + size[loc[n]] <= loc[k]
        /\ \A a \in FreeIn(N, S, loc) : a \in S /\ 2 <= a
        /\ \A a \in FreeIn(N, S, loc), n \in N :
              a + size[a] <= loc[n] \/ loc[n] + size[loc[n]] <= a
        /\ 0 \in N /\ loc[0] = 0 /\ size[0] = 2
    BY <1>5, <1>7, PlacedAre
  <1>9. /\ size[freeBlock] = 1 /\ freeBlock \in S
        /\ LastFree(N, S, size, loc, freeBlock, end)
    BY <1>5, <1>7, <1>8 DEF LastFree
  <1>10. \A n \in N : loc[n] + size[loc[n]] <= freeBlock
    BY <1>5, <1>7, <1>9, BelowFreeBlock
  <1>11. youngStart' \in {0, 2}
    BY <1>4 DEF Boundary
  <1>12. ASSUME NEW x \in 0..(freeBlock - 1)
         PROVE  memory'[x] = IF x >= youngStart' /\ \E n \in N : loc[n] = x
                             THEN [memory[x] EXCEPT !.mark = TRUE]
                             ELSE memory[x]
    <2>1. x \in DOMAIN memory /\ x # freeBlock /\ x # freeBlock + 1
      BY <1>5
    <2>2. (\E i \in DOMAIN interpreterOops : interpreterOops[i] = x)
             <=> \E n \in N : loc[n] = x
      BY <1>1, RootsNameAll, SMTT(30) DEF Found, Setting
    <2>3. MarkedHeap(youngStart')[x] =
             IF x >= youngStart' /\ \E n \in N : loc[n] = x
             THEN [memory[x] EXCEPT !.mark = TRUE] ELSE memory[x]
      BY <2>1, <2>2 DEF MarkedHeap
    <2>4. memory'[x] = MarkedHeap(youngStart')[x]
      BY <1>2, <2>1 DEF MarkedHeap
    <2>5. QED
      BY <2>3, <2>4
  <1>13. memory'[freeBlock] = FreeChunk(1)
    BY <1>2, <1>5 DEF MarkedHeap
  <1>14. ASSUME NEW n \in N
         PROVE  /\ loc[n] < youngStart' => memory'[loc[n]] = Own(n, size, loc)
                /\ loc[n] >= youngStart' =>
                      memory'[loc[n]] = Marked(n, size[loc[n]])
    <2>1. loc[n] \in 0..(freeBlock - 1)
      BY <1>5, <1>8, <1>10
    <2>2. memory[loc[n]] = Own(n, size, loc)
      BY <1>1 DEF Found, HeadersAre
    <2>3. [Own(n, size, loc) EXCEPT !.mark = TRUE]
             = Marked(n, size[loc[n]])
      BY HeaderSet, ZenonT(30) DEF Own
    <2>4. memory'[loc[n]] = IF loc[n] >= youngStart'
                            THEN [memory[loc[n]] EXCEPT !.mark = TRUE]
                            ELSE memory[loc[n]]
      BY <1>12, <2>1
    <2>5. CASE loc[n] >= youngStart'
      <3>1. memory'[loc[n]] = Marked(n, size[loc[n]])
        BY <2>2, <2>3, <2>4, <2>5
      <3>2. ~(loc[n] < youngStart')
        BY <1>8, <1>11, <2>5
      <3>3. QED
        BY <3>1, <3>2
    <2>6. CASE ~(loc[n] >= youngStart')
      BY <2>2, <2>4, <2>6
    <2>7. QED
      BY <2>5, <2>6
  <1>15. FieldsAre(memory', N, size, loc, loc[before.target])
    <2> SUFFICES ASSUME NEW n \in N, size[loc[n]] = 2
                 PROVE  memory'[loc[n] + 1] = Oop(loc[before.target])
      BY DEF FieldsAre
    <2>1. loc[n] + 1 \in 0..(freeBlock - 1)
      BY <1>5, <1>8, <1>10
    <2>2. ASSUME NEW k \in N PROVE loc[k] # loc[n] + 1
      <3>1. n < k \/ k < n \/ n = k
        BY <1>8
      <3>2. QED
        BY <1>8, <3>1
    <2>3. memory'[loc[n] + 1] = memory[loc[n] + 1]
      BY <1>12, <2>1, <2>2
    <2>4. QED
      BY <1>1, <2>3 DEF Found, FieldsAre
  <1>16. ASSUME NEW a \in FreeIn(N, S, loc)
         PROVE  Dead(memory'[a], size[a]) /\ a >= youngStart'
    <2>1. a \in S /\ a >= 2 /\ \A n \in N : loc[n] # a
      BY <1>8 DEF FreeIn
    <2>5. a >= youngStart'
      BY <1>8, <1>11, <2>1
    <2>2. CASE a = freeBlock
      BY <1>9, <1>13, <2>2, <2>5, Words DEF Dead
    <2>3. CASE a # freeBlock
      <3>1. a \in 0..(freeBlock - 1)
        BY <1>5, <1>8, <2>1, <2>3
      <3>2. memory'[a] = memory[a]
        BY <1>12, <2>1, <3>1
      <3>3. QED
        BY <1>1, <2>3, <2>5, <3>2 DEF Found
    <2>4. QED
      BY <2>2, <2>3
  <1>17. sweep'.freeChunk = Null /\ CloseChunk(memory)' = memory'
    BY <1>2 DEF CloseChunk, NoSweep
  <1>18. RootsAre(loc)'
    BY <1>1, <1>2, <1>3 DEF Found, RootsAre
  <1>19. Swept(CloseChunk(memory), S, size, loc)'
    <2>1. oop' \in S \cup {endOfMemory'} /\ oop' >= youngStart'
      BY <1>2, <1>8, <1>11
    <2>2. \A a \in FreeIn(N, S, loc) : ~(a < oop')
      BY <1>2, <1>8, <1>11, <1>16
    <2>3. QED
      BY <1>2, <1>3, <1>7, <1>9, <1>14, <1>15, <1>16, <1>17, <1>18, <2>1,
         <2>2 DEF Swept
  <1>20. EntriesAvailable' = EntriesAvailable /\ EntriesAvailable \in Nat
    <2>1. ~OneWay
      BY DEF OneWay, Collections
    <2>2. EntriesAvailable \in Nat
      BY <2>1, Room
    <2>3. QED
      BY <1>2, <1>3, <2>2
         DEF EntriesAvailable, BlockSize, OneWay, TableStart
  <1>21. Gathered(S, size, loc)'
    BY <1>2, <1>17, <1>20 DEF Gathered, NoSweep
  <1>22. QED
    BY <1>2, <1>3, <1>4, <1>6, <1>19, <1>21 DEF CollectionInv

\* The parts of the invariant while sweeping.
LEMMA SweepingIs ==
    ASSUME Setting, operation \in Collections, CollectionInv, pc = "sweep",
           oop < endOfMemory,
           NEW S, NEW size, NEW loc, Swept(CloseChunk(memory), S, size, loc),
           Gathered(S, size, loc)
    PROVE  /\ oop \in S /\ oop \in Nat /\ memory[oop].size = size[oop]
           /\ objectAfter(memory, oop) = oop + size[oop]
           /\ sweep.freeChunk # Null => sweep.freeChunk < oop
           /\ sweep.freeChunk # oop
           /\ \A x : x # sweep.freeChunk => CloseChunk(memory)[x] = memory[x]
           /\ IF IsFree(memory, oop) \/ ~memory[oop].mark
              THEN oop \in FreeIn(before.live, S, loc)
              ELSE \E n \in before.live :
                      /\ loc[n] = oop
                      /\ memory[oop] = Marked(n, size[oop])
  <1> DEFINE N == before.live
             m == CloseChunk(memory)
  <1>1. /\ Placed(N, S, size, loc, endOfMemory) /\ oop \in S \cup {endOfMemory}
        /\ oop \in S
    BY DEF Swept, Setting
  <1>2. /\ \A a \in S : /\ a \in Nat /\ size[a] \in Nat /\ 1 <= size[a]
        /\ \A a \in S : a \in FreeIn(N, S, loc) \/ \E n \in N : loc[n] = a
        /\ \A a \in FreeIn(N, S, loc) : a \in S
        /\ \A n \in N : loc[n] \in S
    BY <1>1, PlacedAre
  <1>3. sweep.freeChunk # Null => sweep.freeChunk < oop
    <2> SUFFICES ASSUME sweep.freeChunk # Null PROVE sweep.freeChunk < oop
      OBVIOUS
    <2> DEFINE c == sweep.freeChunk
    <2>1. c \in FreeIn(N, S, loc) /\ c + size[c] = oop
      BY DEF Gathered
    <2>2. c \in Nat /\ size[c] \in Nat /\ 1 <= size[c]
      BY <1>2, <2>1
    <2> HIDE DEF c
    <2>3. c < oop
      BY <2>1, <2>2
    <2>4. QED
      BY <2>3 DEF c
  <1>4. sweep.freeChunk # oop
    BY <1>1, <1>2, <1>3, MemoryAssumption
  <1>5. \A x : x # sweep.freeChunk => m[x] = memory[x]
    BY DEF CloseChunk
  <1>6. m[oop] = memory[oop]
    BY <1>4, <1>5
  <1> HIDE DEF m
  <1> DEFINE Goal ==
                /\ memory[oop].size = size[oop]
                /\ objectAfter(memory, oop) = oop + size[oop]
                /\ IF IsFree(memory, oop) \/ ~memory[oop].mark
                   THEN oop \in FreeIn(N, S, loc)
                   ELSE \E n \in N : /\ loc[n] = oop
                                     /\ memory[oop] = Marked(n, size[oop])
  <1>7. ASSUME oop \in FreeIn(N, S, loc) PROVE Goal
    <2>1. Dead(m[oop], size[oop])
      BY <1>1, <1>2, <1>7 DEF Swept, m
    <2>2. Dead(memory[oop], size[oop])
      BY <1>6, <2>1
    <2>3. /\ IsFree(memory, oop) \/ ~memory[oop].mark
          /\ memory[oop].size = size[oop] /\ memory[oop].type # "forwarded"
      BY <2>2 DEF Dead, IsFree
    <2>4. objectAfter(memory, oop) = oop + size[oop]
      BY <2>3, After
    <2>5. QED
      BY <1>7, <2>3, <2>4
  <1>8. ASSUME \E n \in N : loc[n] = oop PROVE Goal
    <2>1. PICK n \in N : loc[n] = oop
      BY <1>8
    <2>2. loc[n] >= oop
      BY <1>1, <1>2, <2>1
    <2>3. m[loc[n]] = Marked(n, size[loc[n]])
      BY <2>2 DEF Swept, m
    <2>4. memory[oop] = Marked(n, size[oop])
      BY <1>6, <2>1, <2>3
    <2>5. memory[oop].mark
      BY <2>4, Words
    <2>6. memory[oop].type = "object" /\ memory[oop].size = size[oop]
      BY <2>4, Words
    <2>7. ~(IsFree(memory, oop) \/ ~memory[oop].mark)
      BY <2>5, <2>6 DEF IsFree
    <2>8. objectAfter(memory, oop) = oop + size[oop]
      BY <2>6, After
    <2>9. QED
      BY <2>1, <2>4, <2>6, <2>7, <2>8
  <1>9. Goal
    BY <1>1, <1>2, <1>7, <1>8
  <1>10. QED
    BY <1>1, <1>2, <1>3, <1>4, <1>5, <1>9 DEF m

\* A step of the sweep changes none of these.
LEMMA SweepFixed ==
    ASSUME Setting, operation \in Collections, CollectionInv, SweepChunk
    PROVE  /\ Setting' /\ Boundary' /\ before'.pairs = <<>>
           /\ pc = "sweep" /\ pc' = "sweep" /\ before' = before
           /\ endOfMemory = freeBlock + 1 /\ endOfMemory' = endOfMemory
           /\ freeBlock' = freeBlock /\ youngStart' = youngStart
           /\ operation' = operation /\ DOMAIN memory' = DOMAIN memory
           /\ EntriesAvailable' = EntriesAvailable
           /\ EntriesAvailable \in Nat /\ 1 <= EntriesAvailable
           /\ \A loc : RootsAre(loc) => RootsAre(loc)'
           /\ oop < endOfMemory /\ oop' = objectAfter(memory, oop)
  <1>1. /\ pc = "sweep" /\ pc' = "sweep" /\ oop < endOfMemory
        /\ oop' = objectAfter(memory, oop)
        /\ operation' = operation /\ before' = before
        /\ memoryLimit' = memoryLimit /\ BytesPerWord' = BytesPerWord
        /\ UNCHANGED <<interpreterOops, methodCache, rootTable, youngStart,
                       freeBlock, endOfMemory, totalObjectCount>>
    BY DEF SweepChunk, pointerVars, fixedVars
  <1>2. DOMAIN memory' = DOMAIN memory
    <2>1. CASE SweepDead
      BY <2>1 DEF SweepDead
    <2>2. CASE SweepLive
      BY <2>2 DEF SweepLive, CloseChunk
    <2>3. QED
      BY <2>1, <2>2 DEF SweepChunk
  <1>3. ~OneWay
    BY DEF OneWay, Collections
  <1>4. EntriesAvailable \in Nat /\ 1 <= EntriesAvailable
    BY <1>3, Room
  <1>5. EntriesAvailable' = EntriesAvailable
    BY <1>1 DEF EntriesAvailable, BlockSize, OneWay, TableStart
  <1>6. Setting' /\ Boundary' /\ before'.pairs = <<>>
    BY <1>1, <1>2 DEF Setting, Boundary, CollectionInv
  <1>7. \A loc : RootsAre(loc) => RootsAre(loc)'
    BY <1>1 DEF RootsAre
  <1>8. endOfMemory = freeBlock + 1
    BY <1>1 DEF CollectionInv
  <1>9. QED
    BY <1>1, <1>2, <1>4, <1>5, <1>6, <1>7, <1>8

\* No object is within a chunk that has none.
LEMMA NoneWithin ==
    ASSUME NEW N, NEW S, NEW size, NEW loc, NEW end,
           Placed(N, S, size, loc, end), NEW a \in FreeIn(N, S, loc),
           NEW from
    PROVE  /\ Within(N, loc, a, a + size[a]) = {}
           /\ (from \in Nat /\ from <= a) =>
                 Within(N, loc, from, a + size[a]) = Within(N, loc, from, a)
  <1>1. /\ a \in Nat /\ size[a] \in Nat /\ 1 <= size[a]
        /\ \A n \in N : /\ loc[n] \in Nat /\ 1 <= size[loc[n]]
                        /\ size[loc[n]] \in Nat
                        /\ a + size[a] <= loc[n]
                           \/ loc[n] + size[loc[n]] <= a
    BY PlacedAre
  <1>2. \A n \in N : ~(a <= loc[n] /\ loc[n] < a + size[a])
    BY <1>1
  <1>3. \A n \in N : loc[n] < a + size[a] <=> loc[n] < a
    BY <1>1
  <1>4. QED
    BY <1>1, <1>2, <1>3 DEF Within

\* What is dead begins a free chunk.
LEMMA SweepDeadFirst ==
    ASSUME Setting, operation \in Collections, CollectionInv, SweepChunk,
           IsFree(memory, oop) \/ ~memory[oop].mark, sweep.freeChunk = Null
    PROVE  Setting' /\ CollectionInv'
  <1> DEFINE N == before.live
             m == CloseChunk(memory)
  <1>1. /\ Setting' /\ Boundary' /\ before'.pairs = <<>>
        /\ pc = "sweep" /\ pc' = "sweep" /\ before' = before
        /\ endOfMemory = freeBlock + 1 /\ endOfMemory' = endOfMemory
        /\ freeBlock' = freeBlock /\ youngStart' = youngStart
        /\ operation' = operation /\ DOMAIN memory' = DOMAIN memory
        /\ EntriesAvailable' = EntriesAvailable /\ EntriesAvailable \in Nat
        /\ \A loc : RootsAre(loc) => RootsAre(loc)'
        /\ oop < endOfMemory /\ oop' = objectAfter(memory, oop)
    BY SweepFixed
  <1>2. PICK S, size, loc : Swept(m, S, size, loc) /\ Gathered(S, size, loc)
    BY <1>1 DEF CollectionInv
  <1>3. /\ oop \in S /\ oop \in Nat /\ memory[oop].size = size[oop]
        /\ oop' = oop + size[oop]
        /\ oop \in FreeIn(N, S, loc) /\ m = memory
    BY <1>1, <1>2, SweepingIs DEF CloseChunk
  <1>4. /\ memory' = [memory EXCEPT ![oop] = FreeChunk(0)]
        /\ sweep' = [sweep EXCEPT
                    !.freeChunk = IF @ = Null THEN oop ELSE @,
                    !.freeChunkSize = @ + memory[oop].size,
                    !.firstFree = IF @ = Null THEN oop ELSE @]
    BY DEF SweepChunk, SweepDead
  <1>5. Placed(N, S, size, loc, endOfMemory) /\ RootsAre(loc)
    BY <1>2 DEF Swept
  <1>6. /\ \A a \in S : /\ a \in Nat /\ size[a] \in Nat /\ 1 <= size[a]
                        /\ a + size[a] \in S \cup {endOfMemory}
                        /\ a + size[a] <= endOfMemory
        /\ \A a, b \in S : a < b => a + size[a] <= b
        /\ \A n \in N : /\ loc[n] \in S /\ loc[n] \in Nat
                        /\ size[loc[n]] \in {1, 2}
        /\ \A a \in FreeIn(N, S, loc) : a \in S /\ \A n \in N : loc[n] # a
        /\ \A a \in FreeIn(N, S, loc), n \in N :
              a + size[a] <= loc[n] \/ loc[n] + size[loc[n]] <= a
    BY <1>5, PlacedAre DEF FreeIn
  <1>7. oop \in DOMAIN memory
    BY <1>1, <1>3 DEF Setting
  <1>8. /\ sweep'.freeChunk = oop /\ sweep'.survivors = sweep.survivors
        /\ sweep'.entriesAvailable = sweep.entriesAvailable
        /\ sweep'.freeChunkSize = size[oop]
        /\ sweep'.firstFree =
              IF sweep.firstFree = Null THEN oop ELSE sweep.firstFree
    <2>1. sweep.freeChunkSize = 0
      BY <1>2 DEF Gathered
    <2>2. QED
      BY <1>3, <1>4, <1>6, <2>1
  <1>20. oop # Null
    BY <1>3, MemoryAssumption
  <1>21. PICK m2 : m2 = CloseChunk(memory)'
    OBVIOUS
  <1>22. m2 = [memory' EXCEPT ![oop] = FreeChunk(size[oop])]
    BY <1>8, <1>20, <1>21 DEF CloseChunk
  <1>9. /\ \A x : x # oop => m2[x] = memory[x]
        /\ m2[oop] = FreeChunk(size[oop])
    <2>1. \A x : x # oop => m2[x] = memory'[x]
      BY <1>22
    <2>2. \A x : x # oop => memory'[x] = memory[x]
      BY <1>4
    <2>3. DOMAIN memory' = DOMAIN memory
      BY <1>1
    <2>4. QED
      BY <1>7, <1>22, <2>1, <2>2, <2>3
  <1>10. Swept(CloseChunk(memory), S, size, loc)'
    <2>1. oop' \in S \cup {endOfMemory} /\ oop' >= youngStart
      BY <1>1, <1>2, <1>3, <1>6 DEF Swept, Boundary
    <2>2. ASSUME NEW a \in FreeIn(N, S, loc), a < oop'
          PROVE  /\ m2[a] = FreeChunk(size[a])
                 /\ a # oop => \E n \in N : loc[n] = a + size[a]
      <3>1. CASE a = oop
        BY <1>9, <3>1
      <3>2. CASE a # oop
        <4>1. a < oop /\ a # Null
          <5>1. a \in S /\ a \in Nat /\ size[oop] \in Nat
            BY <1>3, <1>6
          <5>2. oop < a => oop + size[oop] <= a
            BY <1>3, <1>6, <5>1
          <5>3. QED
            BY <1>3, <2>2, <3>2, <5>1, <5>2, MemoryAssumption
        <4>2. QED
          BY <1>2, <1>3, <1>9, <3>2, <4>1 DEF Swept
      <3>3. QED
        BY <3>1, <3>2
    <2>3. ASSUME NEW a \in FreeIn(N, S, loc), a >= oop'
          PROVE  Dead(m2[a], size[a])
      <3>0. a \in Nat /\ size[oop] \in Nat /\ 1 <= size[oop]
        BY <1>3, <1>6
      <3>1. a >= oop /\ a # oop
        BY <1>3, <2>3, <3>0
      <3>2. QED
        BY <1>2, <1>3, <1>9, <3>1 DEF Swept
    <2>4. ASSUME NEW n \in N
          PROVE  /\ m2[loc[n]] = memory[loc[n]]
                 /\ loc[n] < oop' <=> loc[n] < oop
                 /\ size[loc[n]] = 2 => m2[loc[n] + 1] = memory[loc[n] + 1]
      <3>1. loc[n] # oop /\ (size[loc[n]] = 2 => loc[n] + 1 # oop)
        BY <1>3, <1>6
      <3>2. loc[n] < oop' <=> loc[n] < oop
        BY <1>3, <1>6
      <3>3. QED
        BY <1>9, <3>1, <3>2
    <2>5. /\ \A n \in N : loc[n] < oop' => m2[loc[n]] = Own(n, size, loc)
          /\ \A n \in N : loc[n] >= oop' =>
                m2[loc[n]] = Marked(n, size[loc[n]])
      <3> SUFFICES ASSUME NEW n \in N
                   PROVE  /\ loc[n] < oop' => m2[loc[n]] = Own(n, size, loc)
                          /\ loc[n] >= oop' =>
                                m2[loc[n]] = Marked(n, size[loc[n]])
        OBVIOUS
      <3>1. loc[n] >= oop' => loc[n] >= oop
        BY <1>3, <1>6
      <3>2. QED
        BY <1>2, <1>3, <2>4, <3>1 DEF Swept
    <2>6. FieldsAre(m2, N, size, loc, loc[before.target])
      BY <1>2, <1>3, <2>4 DEF Swept, FieldsAre
    <2>7. LastFree(N, S, size, loc, freeBlock, endOfMemory)
      BY <1>2 DEF Swept
    <2>8. QED
      BY <1>1, <1>5, <1>8, <1>21, <2>1, <2>2, <2>3, <2>5, <2>6, <2>7
         DEF Swept
  <1>11. Gathered(S, size, loc)'
    <2>1. CASE sweep.firstFree = Null
      <3>1. Within(N, loc, oop, oop + size[oop]) = {}
        BY <1>3, <1>5, NoneWithin
      <3>2. Cardinality(Within(N, loc, oop, oop')) = 0
        BY <1>3, <3>1, FS_EmptySet
      <3>3. sweep.entriesAvailable \in 0..EntriesAvailable
            /\ sweep.survivors \in Nat
        BY <1>2 DEF Gathered
      <3>4. oop # Null /\ oop < oop' /\ size[oop] \in Nat
        BY <1>3, <1>6, MemoryAssumption
      <3>5. QED
        BY <1>1, <1>3, <1>8, <2>1, <3>2, <3>3, <3>4, MemoryAssumption
           DEF Gathered
    <2>2. CASE sweep.firstFree # Null
      <3> DEFINE f == sweep.firstFree
      <3>1. /\ f \in FreeIn(N, S, loc) /\ f < oop
            /\ Cardinality(Within(N, loc, f, oop))
                  + sweep.entriesAvailable <= EntriesAvailable
            /\ sweep.entriesAvailable \in 0..EntriesAvailable
            /\ sweep.survivors \in Nat
        BY <1>2, <2>2 DEF Gathered
      <3> HIDE DEF f
      <3>0. f \in Nat /\ size[oop] \in Nat /\ 1 <= size[oop]
        BY <1>3, <1>6, <3>1
      <3>2. f \in Nat /\ f <= oop /\ f < oop'
        BY <1>3, <3>0, <3>1
      <3>3. Within(N, loc, f, oop') = Within(N, loc, f, oop)
        BY <1>3, <1>5, <3>2, NoneWithin
      <3>4. size[oop] \in Nat /\ sweep'.firstFree = f
        BY <1>3, <1>6, <1>8, <2>2 DEF f
      <3>5. QED
        BY <1>1, <1>3, <1>8, <2>2, <3>1, <3>2, <3>3, <3>4, MemoryAssumption
           DEF Gathered, f
    <2>3. QED
      BY <2>1, <2>2
  <1>12. QED
    BY <1>1, <1>10, <1>11 DEF CollectionInv

\* A chunk taken into the one before it.
Joined(S, size, c, d) ==
    [a \in S |-> IF a = c THEN size[c] + size[d] ELSE size[a]]

\* Two adjacent free chunks can be joined.
LEMMA Coalesced ==
    ASSUME NEW N, NEW S, NEW size, NEW loc, NEW end,
           Placed(N, S, size, loc, end), NEW c \in FreeIn(N, S, loc),
           NEW d \in FreeIn(N, S, loc), c + size[c] = d,
           NEW S2, S2 = S \ {d},
           NEW size2, size2 = Joined(S2, size, c, d)
    PROVE  /\ Placed(N, S2, size2, loc, end)
           /\ FreeIn(N, S2, loc) = FreeIn(N, S, loc) \ {d}
           /\ size2[c] = size[c] + size[d] /\ c \in FreeIn(N, S2, loc)
           /\ \A a \in S2 : a # c => size2[a] = size[a]
           /\ \A n \in N : size2[loc[n]] = size[loc[n]] /\ loc[n] \in S2
           /\ \A fb \in Nat : LastFree(N, S, size, loc, fb, end) =>
                                 LastFree(N, S2, size2, loc, fb, end)
  <1>1. /\ end \in Nat /\ N \subseteq Nat /\ 0 \in N /\ 0 \in S
        /\ \A a \in S : /\ a \in Nat /\ size[a] \in Nat /\ 1 <= size[a]
                        /\ a + size[a] <= end
                        /\ a + size[a] \in S \cup {end}
        /\ \A a, b \in S : a < b => a + size[a] <= b
        /\ \A n \in N : loc[n] \in S /\ size[loc[n]] \in {1, 2}
        /\ \A a \in FreeIn(N, S, loc) : a \in S /\ 2 <= a
        /\ loc[0] = 0 /\ size[0] = 2
    BY PlacedAre
  <1>2. \A a \in FreeIn(N, S, loc) : \A n \in N : loc[n] # a
    BY DEF FreeIn
  <1>3. /\ c \in S2 /\ c \in S /\ d \in S /\ c < d /\ c \in Nat /\ d \in Nat
        /\ size[c] \in Nat /\ size[d] \in Nat
    BY <1>1
  <1>4. /\ size2[c] = size[c] + size[d]
        /\ \A a \in S2 : a # c => size2[a] = size[a]
        /\ \A a \in S2 : a \in S /\ a # d
        /\ size2 = [a \in S2 |-> size2[a]]
    BY <1>3 DEF Joined
  <1>5. \A n \in N : size2[loc[n]] = size[loc[n]] /\ loc[n] \in S2
    BY <1>1, <1>2, <1>4
  <1>6. FreeIn(N, S2, loc) = FreeIn(N, S, loc) \ {d}
    BY DEF FreeIn
  <1>7. Tiles(S2, size2, end)
    <2>1. \A a \in S2 : size2[a] \in Nat \ {0}
      <3> SUFFICES ASSUME NEW a \in S2 PROVE size2[a] \in Nat \ {0}
        OBVIOUS
      <3>1. size[a] \in Nat /\ 1 <= size[a] /\ 1 <= size[c]
        BY <1>1, <1>3, <1>4
      <3>2. CASE a = c
        <4>1. size2[a] = size[c] + size[d]
          BY <1>4, <3>2
        <4>2. QED
          BY <1>3, <3>1, <4>1
      <3>3. CASE a # c
        BY <1>4, <3>1, <3>3
      <3>4. QED
        BY <3>2, <3>3
    <2>2. size2 \in [S2 -> Nat \ {0}]
      BY <1>4, <2>1
    <2>3. \A a \in S2 : /\ a + size2[a] \in S2 \cup {end}
                        /\ a + size2[a] <= end
      <3> SUFFICES ASSUME NEW a \in S2
                   PROVE  /\ a + size2[a] \in S2 \cup {end}
                          /\ a + size2[a] <= end
        OBVIOUS
      <3>1. CASE a = c
        <4>1. a + size2[a] = d + size[d]
          BY <1>3, <1>4, <3>1
        <4>2. d + size[d] # d
          BY <1>1, <1>3
        <4>3. QED
          BY <1>1, <1>3, <4>1, <4>2
      <3>2. CASE a # c
        <4>1. a + size2[a] = a + size[a]
          BY <1>4, <3>2
        <4>2. a + size[a] # d
          <5>1. a \in S /\ a \in Nat /\ size[a] \in Nat /\ 1 <= size[a]
            BY <1>1, <1>4
          <5>2. a < c => a + size[a] <= c
            BY <1>1, <1>3, <5>1
          <5>3. c < a => d <= a
            BY <1>1, <1>3, <5>1
          <5>4. QED
            BY <1>3, <3>2, <5>1, <5>2, <5>3
        <4>3. QED
          BY <1>1, <1>4, <4>1, <4>2
      <3>3. QED
        BY <3>1, <3>2
    <2>4. \A a, b \in S2 : a < b => a + size2[a] <= b
      <3> SUFFICES ASSUME NEW a \in S2, NEW b \in S2, a < b
                   PROVE  a + size2[a] <= b
        OBVIOUS
      <3>0. a \in S /\ b \in S /\ b # d /\ a \in Nat /\ b \in Nat
        BY <1>1, <1>4
      <3>1. CASE a = c
        <4>1. a + size2[a] = d + size[d]
          BY <1>3, <1>4, <3>1
        <4>2. d <= b
          BY <1>1, <1>3, <3>0, <3>1
        <4>3. d < b
          BY <1>3, <3>0, <4>2
        <4>4. QED
          BY <1>1, <1>3, <3>0, <4>1, <4>3
      <3>2. CASE a # c
        BY <1>1, <1>4, <3>0, <3>2
      <3>3. QED
        BY <3>1, <3>2
    <2>5. S2 \subseteq Nat /\ 0 \in S2
      BY <1>1, <1>4, <1>5
    <2>6. QED
      BY <1>1, <2>2, <2>3, <2>4, <2>5 DEF Tiles
  <1>8. Placed(N, S2, size2, loc, end)
    <2>1. loc \in [N -> S2]
      <3>1. loc \in [N -> S]
        BY DEF Placed
      <3>2. QED
        BY <1>5, <3>1
    <2>2. \A n, k \in N : n < k => loc[n] < loc[k]
      BY DEF Placed
    <2>3. size2[0] = 2 /\ \A n \in N : size2[loc[n]] \in {1, 2}
      BY <1>1, <1>5
    <2>4. QED
      BY <1>1, <1>7, <2>1, <2>2, <2>3 DEF Placed
  <1>9. ASSUME NEW fb \in Nat, LastFree(N, S, size, loc, fb, end)
        PROVE  LastFree(N, S2, size2, loc, fb, end)
    <2>1. PICK a \in FreeIn(N, S, loc) : a <= fb /\ fb < end
                                         /\ a + size[a] = end
      BY <1>9 DEF LastFree
    <2>2. CASE a = d
      <3>1. c <= fb /\ c + size2[c] = end
        BY <1>3, <1>4, <2>1, <2>2
      <3>2. c \in FreeIn(N, S2, loc)
        BY <1>3, <1>6
      <3>3. QED
        BY <2>1, <3>1, <3>2 DEF LastFree
    <2>3. CASE a # d
      <3>1. a # c
        BY <1>1, <1>3, <2>1
      <3>2. a \in FreeIn(N, S2, loc) /\ a \in S2 /\ size2[a] = size[a]
        BY <1>1, <1>4, <1>6, <2>3, <3>1
      <3>3. QED
        BY <2>1, <3>2 DEF LastFree
    <2>4. QED
      BY <2>2, <2>3
  <1>10. c \in FreeIn(N, S2, loc)
    BY <1>3, <1>6
  <1>11. QED
    BY <1>4, <1>5, <1>6, <1>8, <1>9, <1>10

\* What is dead goes to the free chunk before it.
LEMMA SweepDeadMore ==
    ASSUME Setting, operation \in Collections, CollectionInv, SweepChunk,
           IsFree(memory, oop) \/ ~memory[oop].mark, sweep.freeChunk # Null
    PROVE  Setting' /\ CollectionInv'
  <1> DEFINE N == before.live
  <1>1. /\ Setting' /\ Boundary' /\ before'.pairs = <<>>
        /\ pc = "sweep" /\ pc' = "sweep" /\ before' = before
        /\ endOfMemory = freeBlock + 1 /\ endOfMemory' = endOfMemory
        /\ freeBlock' = freeBlock /\ youngStart' = youngStart
        /\ operation' = operation /\ DOMAIN memory' = DOMAIN memory
        /\ EntriesAvailable' = EntriesAvailable /\ EntriesAvailable \in Nat
        /\ \A loc : RootsAre(loc) => RootsAre(loc)'
        /\ oop < endOfMemory /\ oop' = objectAfter(memory, oop)
    BY SweepFixed
  <1>2. PICK S, size, loc :
           Swept(CloseChunk(memory), S, size, loc) /\ Gathered(S, size, loc)
    BY <1>1 DEF CollectionInv
  <1>3. PICK m : m = CloseChunk(memory)
    OBVIOUS
  <1>4. PICK c : c = sweep.freeChunk
    OBVIOUS
  <1>5. /\ oop \in S /\ oop \in Nat /\ memory[oop].size = size[oop]
        /\ oop' = oop + size[oop]
        /\ oop \in FreeIn(N, S, loc) /\ c < oop
        /\ \A x : x # c => m[x] = memory[x]
    BY <1>1, <1>2, <1>3, <1>4, SweepingIs
  <1>6. /\ memory' = [memory EXCEPT ![oop] = FreeChunk(0)]
        /\ sweep' = [sweep EXCEPT
                    !.freeChunk = IF @ = Null THEN oop ELSE @,
                    !.freeChunkSize = @ + memory[oop].size,
                    !.firstFree = IF @ = Null THEN oop ELSE @]
    BY DEF SweepChunk, SweepDead
  <1>7. /\ Placed(N, S, size, loc, endOfMemory) /\ RootsAre(loc)
        /\ LastFree(N, S, size, loc, freeBlock, endOfMemory)
    BY <1>2 DEF Swept
  <1>8. /\ c \in FreeIn(N, S, loc) /\ c + size[c] = oop
        /\ sweep.freeChunkSize = size[c] /\ sweep.firstFree # Null
        /\ sweep.survivors \in Nat
        /\ sweep.entriesAvailable \in 0..EntriesAvailable
        /\ sweep.firstFree \in FreeIn(N, S, loc) /\ sweep.firstFree < oop
        /\ Cardinality(Within(N, loc, sweep.firstFree, oop))
              + sweep.entriesAvailable <= EntriesAvailable
    BY <1>2, <1>4 DEF Gathered
  <1>9. PICK S2 : S2 = S \ {oop}
    OBVIOUS
  <1>10. PICK size2 : size2 = Joined(S2, size, c, oop)
    OBVIOUS
  <1>11. /\ Placed(N, S2, size2, loc, endOfMemory)
         /\ FreeIn(N, S2, loc) = FreeIn(N, S, loc) \ {oop}
         /\ size2[c] = size[c] + size[oop] /\ c \in FreeIn(N, S2, loc)
         /\ \A a \in S2 : a # c => size2[a] = size[a]
         /\ \A n \in N : size2[loc[n]] = size[loc[n]] /\ loc[n] \in S2
         /\ LastFree(N, S2, size2, loc, freeBlock, endOfMemory)
    <2>1. freeBlock \in Nat
      BY DEF Setting
    <2>2. QED
      BY <1>5, <1>7, <1>8, <1>9, <1>10, <2>1, Coalesced
  <1>12. /\ \A a \in S : /\ a \in Nat /\ size[a] \in Nat /\ 1 <= size[a]
                         /\ a + size[a] \in S \cup {endOfMemory}
         /\ \A n \in N : /\ loc[n] \in S /\ loc[n] \in Nat
                         /\ size[loc[n]] \in {1, 2}
         /\ \A a \in FreeIn(N, S, loc) : a \in S
         /\ \A a \in FreeIn(N, S, loc), n \in N :
              a + size[a] <= loc[n] \/ loc[n] + size[loc[n]] <= a
         /\ \A a, b \in S : a < b => a + size[a] <= b
    BY <1>7, PlacedAre
  <1>13. /\ size[oop] \in Nat /\ 1 <= size[oop] /\ c \in Nat
         /\ c + size2[c] = oop' /\ size[c] \in Nat /\ c # Null
    BY <1>5, <1>8, <1>11, <1>12, MemoryAssumption
  <1>14. /\ sweep'.freeChunk = c /\ sweep'.survivors = sweep.survivors
         /\ sweep'.entriesAvailable = sweep.entriesAvailable
         /\ sweep'.freeChunkSize = size2[c]
         /\ sweep'.firstFree = sweep.firstFree
    BY <1>4, <1>5, <1>6, <1>8, <1>11, <1>13
  <1>15. PICK m2 : m2 = CloseChunk(memory)'
    OBVIOUS
  <1>16. m2 = [memory' EXCEPT ![c] = FreeChunk(size2[c])]
    BY <1>13, <1>14, <1>15 DEF CloseChunk
  <1>17. /\ \A x : x # oop /\ x # c => m2[x] = m[x]
         /\ m2[c] = FreeChunk(size2[c])
    <2>1. \A x : x # c => m2[x] = memory'[x]
      BY <1>16
    <2>2. \A x : x # oop => memory'[x] = memory[x]
      BY <1>6
    <2>3. c \in DOMAIN memory'
      BY <1>1, <1>5, <1>13 DEF Setting
    <2>4. QED
      BY <1>5, <1>16, <2>1, <2>2, <2>3
  <1>18. Swept(CloseChunk(memory), S2, size2, loc)'
    <2>1. oop' \in S2 \cup {endOfMemory} /\ oop' >= youngStart
      <3>1. oop >= youngStart /\ youngStart \in Nat
        BY <1>1, <1>2 DEF Swept, Boundary
      <3>2. QED
        BY <1>5, <1>9, <1>12, <1>13, <3>1
    <2>2. ASSUME NEW a \in FreeIn(N, S2, loc), a < oop'
          PROVE  /\ m2[a] = FreeChunk(size2[a])
                 /\ a # c => \E n \in N : loc[n] = a + size2[a]
      <3>1. CASE a = c
        BY <1>17, <3>1
      <3>2. CASE a # c
        <4>1. /\ a \in FreeIn(N, S, loc) /\ a # oop /\ a \in S
              /\ a \in S2 /\ a \in Nat
          BY <1>9, <1>11, <1>12
        <4>2. oop < a => oop' <= a
          BY <1>5, <1>12, <4>1
        <4>3. a < oop
          BY <1>5, <1>13, <2>2, <4>1, <4>2
        <4>4. /\ m[a] = FreeChunk(size[a])
              /\ \E n \in N : loc[n] = a + size[a]
          BY <1>2, <1>3, <1>4, <3>2, <4>1, <4>3 DEF Swept
        <4>5. QED
          BY <1>11, <1>17, <3>2, <4>1, <4>4
      <3>3. QED
        BY <3>1, <3>2
    <2>3. ASSUME NEW a \in FreeIn(N, S2, loc), a >= oop'
          PROVE  Dead(m2[a], size2[a])
      <3>1. a \in FreeIn(N, S, loc) /\ a \in S /\ a \in S2 /\ a \in Nat
        BY <1>9, <1>11, <1>12
      <3>2. a >= oop /\ a # oop /\ a # c
        BY <1>5, <1>13, <2>3, <3>1
      <3>3. Dead(m[a], size[a])
        BY <1>2, <1>3, <3>1, <3>2 DEF Swept
      <3>4. QED
        BY <1>11, <1>17, <3>1, <3>2, <3>3
    <2>4. ASSUME NEW n \in N
          PROVE  /\ m2[loc[n]] = m[loc[n]]
                 /\ loc[n] < oop' <=> loc[n] < oop
                 /\ loc[n] >= oop' <=> loc[n] >= oop
                 /\ size[loc[n]] = 2 => m2[loc[n] + 1] = m[loc[n] + 1]
      <3>1. /\ loc[n] # oop /\ (size[loc[n]] = 2 => loc[n] + 1 # oop)
            /\ loc[n] < oop' <=> loc[n] < oop
            /\ loc[n] >= oop' <=> loc[n] >= oop
        BY <1>5, <1>12, <1>13
      <3>2. loc[n] # c /\ (size[loc[n]] = 2 => loc[n] + 1 # c)
        BY <1>8, <1>12, <1>13
      <3>3. QED
        BY <1>17, <3>1, <3>2
    <2>5. ASSUME NEW n \in N
          PROVE  /\ loc[n] < oop' => m2[loc[n]] = Own(n, size2, loc)
                 /\ loc[n] >= oop' => m2[loc[n]] = Marked(n, size2[loc[n]])
      <3>1. size2[loc[n]] = size[loc[n]]
        BY <1>11
      <3>2. /\ loc[n] < oop => m[loc[n]] = Own(n, size, loc)
            /\ loc[n] >= oop => m[loc[n]] = Marked(n, size[loc[n]])
        BY <1>2, <1>3 DEF Swept
      <3>3. QED
        BY <2>4, <3>1, <3>2 DEF Own
    <2>6. FieldsAre(m2, N, size2, loc, loc[before.target])
      BY <1>2, <1>3, <1>11, <2>4 DEF Swept, FieldsAre
    <2>7. QED
      BY <1>1, <1>7, <1>11, <1>14, <1>15, <2>1, <2>2, <2>3, <2>5, <2>6
         DEF Swept
  <1>19. Gathered(S2, size2, loc)'
    <2> DEFINE f == sweep.firstFree
    <2> HIDE DEF f
    <2>1. f \in FreeIn(N, S, loc) /\ f < oop /\ f \in Nat
      BY <1>8, <1>12 DEF f
    <2>2. /\ f \in FreeIn(N, S2, loc) /\ f <= oop /\ f < oop'
      BY <1>5, <1>11, <1>13, <2>1
    <2>3. Within(N, loc, f, oop') = Within(N, loc, f, oop)
      BY <1>5, <1>7, <2>1, <2>2, NoneWithin
    <2>4. size2[c] \in Nat
      BY <1>11, <1>13
    <2>5. sweep'.firstFree = f /\ f # Null
      BY <1>14, <2>1, MemoryAssumption DEF f
    <2>6. Cardinality(Within(N, loc, f, oop')) + sweep.entriesAvailable
             <= EntriesAvailable
      BY <1>8, <2>3 DEF f
    <2>7. QED
      BY <1>1, <1>8, <1>11, <1>13, <1>14, <2>2, <2>4, <2>5, <2>6
         DEF Gathered
  <1>20. QED
    BY <1>1, <1>18, <1>19 DEF CollectionInv

\* What is alive is unmarked, and ends the free chunk before it.
LEMMA SweepLiveSafe ==
    ASSUME Setting, operation \in Collections, CollectionInv, SweepChunk,
           ~(IsFree(memory, oop) \/ ~memory[oop].mark)
    PROVE  Setting' /\ CollectionInv'
  <1> DEFINE N == before.live
  <1>1. /\ Setting' /\ Boundary' /\ before'.pairs = <<>>
        /\ pc = "sweep" /\ pc' = "sweep" /\ before' = before
        /\ endOfMemory = freeBlock + 1 /\ endOfMemory' = endOfMemory
        /\ freeBlock' = freeBlock /\ youngStart' = youngStart
        /\ operation' = operation /\ DOMAIN memory' = DOMAIN memory
        /\ EntriesAvailable' = EntriesAvailable
        /\ EntriesAvailable \in Nat /\ 1 <= EntriesAvailable
        /\ \A loc : RootsAre(loc) => RootsAre(loc)'
        /\ oop < endOfMemory /\ oop' = objectAfter(memory, oop)
    BY SweepFixed
  <1>2. PICK S, size, loc :
           Swept(CloseChunk(memory), S, size, loc) /\ Gathered(S, size, loc)
    BY <1>1 DEF CollectionInv
  <1>3. PICK m : m = CloseChunk(memory)
    OBVIOUS
  <1>4. /\ oop \in S /\ oop \in Nat
        /\ oop' = oop + size[oop] /\ sweep.freeChunk # oop
        /\ sweep.freeChunk # Null => sweep.freeChunk < oop
        /\ \E n \in N : loc[n] = oop /\ memory[oop] = Marked(n, size[oop])
    BY <1>1, <1>2, SweepingIs
  <1>5. PICK n0 \in N : loc[n0] = oop /\ memory[oop] = Marked(n0, size[oop])
    BY <1>4
  <1>6. /\ memory' = CloseChunk([memory EXCEPT ![oop].mark = FALSE])
        /\ sweep' =
             [entriesAvailable |-> Max({sweep.entriesAvailable - 1, 0}),
              firstFree |-> FirstFreeBefore(oop),
              freeChunk |-> Null, freeChunkSize |-> 0,
              survivors |-> sweep.survivors + 1]
    BY DEF SweepChunk, SweepLive
  <1>7. /\ Placed(N, S, size, loc, endOfMemory) /\ RootsAre(loc)
        /\ LastFree(N, S, size, loc, freeBlock, endOfMemory)
    BY <1>2 DEF Swept
  <1>8. /\ \A a \in S : /\ a \in Nat /\ size[a] \in Nat /\ 1 <= size[a]
                         /\ a + size[a] \in S \cup {endOfMemory}
        /\ \A n \in N : /\ loc[n] \in S /\ loc[n] \in Nat
                        /\ size[loc[n]] \in {1, 2}
        /\ \A a \in FreeIn(N, S, loc) : a \in S
        /\ \A a \in FreeIn(N, S, loc), n \in N :
              a + size[a] <= loc[n] \/ loc[n] + size[loc[n]] <= a
        /\ \A a, b \in S : a < b => a + size[a] <= b
        /\ \A n, k \in N : loc[n] = loc[k] => n = k
    BY <1>7, PlacedAre
  <1>9. size[oop] \in Nat /\ 1 <= size[oop] /\ size[oop] \in {1, 2}
    BY <1>5, <1>8
  <1>10. \A a \in FreeIn(N, S, loc) : a # oop
    BY <1>5 DEF FreeIn
  <1>11. /\ CloseChunk(memory)' = memory'
         /\ sweep'.freeChunk = Null /\ sweep'.freeChunkSize = 0
         /\ sweep'.survivors = sweep.survivors + 1
         /\ sweep'.firstFree = IF sweep.entriesAvailable > 0
                               THEN sweep.firstFree ELSE sweep.freeChunk
         /\ sweep'.entriesAvailable = Max({sweep.entriesAvailable - 1, 0})
    BY <1>6 DEF CloseChunk, FirstFreeBefore
  <1>12. /\ \A x : x # oop => memory'[x] = m[x]
         /\ memory'[oop] = Own(n0, size, loc)
    <2> DEFINE u == [memory EXCEPT ![oop] = [memory[oop] EXCEPT
                                                !.mark = FALSE]]
    <2>1. oop \in DOMAIN memory
      BY <1>1, <1>4 DEF Setting
    <2>2. [memory[oop] EXCEPT !.mark = FALSE] = Header(n0, size[oop], n0)
      BY <1>5, HeaderSet, Zenon
    <2>3. u[oop] = Own(n0, size, loc)
      BY <1>5, <2>1, <2>2 DEF Own
    <2>4. \A x : x # oop => u[x] = memory[x]
      OBVIOUS
    <2>5. memory' = CloseChunk(u)
      BY <1>6
    <2> HIDE DEF u
    <2>6. CASE sweep.freeChunk = Null
      BY <1>3, <2>3, <2>4, <2>5, <2>6 DEF CloseChunk
    <2>7. CASE sweep.freeChunk # Null
      <3> DEFINE c == sweep.freeChunk
                 w == FreeChunk(sweep.freeChunkSize)
      <3>1. memory' = [u EXCEPT ![c] = w] /\ m = [memory EXCEPT ![c] = w]
        BY <1>3, <2>5, <2>7 DEF CloseChunk
      <3>2. c # oop /\ c \in DOMAIN memory /\ DOMAIN memory' = DOMAIN memory
        <4>1. c \in FreeIn(N, S, loc)
          BY <1>2, <2>7 DEF Gathered
        <4>2. c \in Nat /\ c < oop
          BY <1>4, <1>8, <2>7, <4>1
        <4>3. QED
          BY <1>1, <1>4, <4>2 DEF Setting
      <3> HIDE DEF c, w
      <3>3. DOMAIN u = DOMAIN memory
        BY <3>1, <3>2
      <3>4. QED
        BY <2>3, <2>4, <3>1, <3>2, <3>3
    <2>8. QED
      BY <2>6, <2>7
  <1>13. Swept(CloseChunk(memory), S, size, loc)'
    <2>1. oop' \in S \cup {endOfMemory} /\ oop' >= youngStart
      <3>1. oop >= youngStart /\ youngStart \in Nat
        BY <1>1, <1>2 DEF Swept, Boundary
      <3>2. QED
        BY <1>4, <1>8, <1>9, <3>1
    <2>2. ASSUME NEW a \in FreeIn(N, S, loc), a < oop'
          PROVE  /\ memory'[a] = FreeChunk(size[a])
                 /\ \E n \in N : loc[n] = a + size[a]
      <3>1. a \in S /\ a \in Nat /\ a # oop
        BY <1>8, <1>10
      <3>2. oop < a => oop' <= a
        BY <1>4, <1>8, <3>1
      <3>3. a < oop
        BY <1>4, <1>9, <2>2, <3>1, <3>2
      <3>4. m[a] = FreeChunk(size[a])
        BY <1>2, <1>3, <3>3 DEF Swept
      <3>5. CASE a = sweep.freeChunk
        <4>1. a + size[a] = oop
          BY <1>2, <3>1, <3>5, MemoryAssumption DEF Gathered
        <4>2. QED
          BY <1>5, <1>12, <3>1, <3>4, <4>1
      <3>6. CASE a # sweep.freeChunk
        <4>1. \E n \in N : loc[n] = a + size[a]
          BY <1>2, <3>3, <3>6 DEF Swept
        <4>2. QED
          BY <1>12, <3>1, <3>4, <4>1
      <3>7. QED
        BY <3>5, <3>6
    <2>3. ASSUME NEW a \in FreeIn(N, S, loc), a >= oop'
          PROVE  Dead(memory'[a], size[a])
      <3>1. a \in S /\ a \in Nat /\ a # oop
        BY <1>8, <1>10
      <3>2. a >= oop
        BY <1>4, <1>9, <2>3, <3>1
      <3>3. Dead(m[a], size[a])
        BY <1>2, <1>3, <3>2 DEF Swept
      <3>4. QED
        BY <1>12, <3>1, <3>3
    <2>4. ASSUME NEW n \in N
          PROVE  /\ loc[n] < oop' => memory'[loc[n]] = Own(n, size, loc)
                 /\ loc[n] >= oop' =>
                       memory'[loc[n]] = Marked(n, size[loc[n]])
      <3>1. CASE n = n0
        <4>1. loc[n] < oop' /\ ~(loc[n] >= oop')
          BY <1>4, <1>5, <1>9, <3>1
        <4>2. QED
          BY <1>5, <1>12, <3>1, <4>1
      <3>2. CASE n # n0
        <4>1. loc[n] # oop /\ loc[n] \in S /\ loc[n] \in Nat
          BY <1>5, <1>8, <3>2
        <4>2. oop < loc[n] => oop' <= loc[n]
          BY <1>4, <1>8, <4>1
        <4>3. /\ loc[n] < oop' <=> loc[n] < oop
              /\ loc[n] >= oop' <=> loc[n] >= oop
          BY <1>4, <1>9, <4>1, <4>2
        <4>4. /\ loc[n] < oop => m[loc[n]] = Own(n, size, loc)
              /\ loc[n] >= oop => m[loc[n]] = Marked(n, size[loc[n]])
          BY <1>2, <1>3 DEF Swept
        <4>5. QED
          BY <1>12, <4>1, <4>3, <4>4
      <3>3. QED
        BY <3>1, <3>2
    <2>5. FieldsAre(memory', N, size, loc, loc[before.target])
      <3> SUFFICES ASSUME NEW n \in N, size[loc[n]] = 2
                   PROVE  memory'[loc[n] + 1] = Oop(loc[before.target])
        BY DEF FieldsAre
      <3>1. loc[n] + 1 # oop
        BY <1>4, <1>8
      <3>2. m[loc[n] + 1] = Oop(loc[before.target])
        BY <1>2, <1>3 DEF Swept, FieldsAre
      <3>3. QED
        BY <1>12, <3>1, <3>2
    <2>6. QED
      BY <1>1, <1>7, <1>11, <2>1, <2>2, <2>3, <2>4, <2>5 DEF Swept
  <1>14. Gathered(S, size, loc)'
    <2> DEFINE n == sweep.entriesAvailable
               f == sweep.firstFree
               c == sweep.freeChunk
    <2>1. /\ n \in 0..EntriesAvailable /\ sweep.survivors \in Nat
          /\ c # Null => /\ c \in FreeIn(N, S, loc) /\ c + size[c] = oop
                         /\ f # Null
          /\ f # Null => /\ f \in FreeIn(N, S, loc) /\ f < oop
                         /\ Cardinality(Within(N, loc, f, oop)) + n
                               <= EntriesAvailable
      BY <1>2 DEF Gathered
    <2>2. Max({n - 1, 0}) = IF n > 0 THEN n - 1 ELSE 0
      <3>1. n \in Nat /\ {n - 1, 0} \in SUBSET Int
        BY <1>1, <2>1
      <3> DEFINE T == {n - 1, 0}
                 k == n - 1
      <3>5. k \in T /\ 0 \in T /\ T \in SUBSET Int
        BY <3>1
      <3>2. CASE n > 0
        <4>1. \A y \in T : y <= k
          BY <3>1, <3>2
        <4> HIDE DEF T, k
        <4>2. Max(T) = k
          BY <3>5, <4>1, MaxMin
        <4>3. QED
          BY <3>2, <4>2 DEF T, k
      <3>3. CASE n = 0
        <4>1. \A y \in T : y <= 0
          BY <3>1, <3>3
        <4> HIDE DEF T
        <4>2. Max(T) = 0
          BY <3>5, <4>1, MaxMin
        <4>3. QED
          BY <3>3, <4>2 DEF T
      <3>4. QED
        BY <3>1, <3>2, <3>3
    <2>3. ASSUME NEW a \in FreeIn(N, S, loc), a < oop
          PROVE  /\ Within(N, loc, a, oop') = Within(N, loc, a, oop) \cup {n0}
                 /\ n0 \notin Within(N, loc, a, oop)
                 /\ IsFiniteSet(Within(N, loc, a, oop))
                 /\ Cardinality(Within(N, loc, a, oop)) \in Nat
                 /\ Cardinality(Within(N, loc, a, oop'))
                       = Cardinality(Within(N, loc, a, oop)) + 1
      <3>1. \A k \in N : loc[k] < oop' <=> (loc[k] < oop \/ k = n0)
        <4> SUFFICES ASSUME NEW k \in N
                     PROVE  loc[k] < oop' <=> (loc[k] < oop \/ k = n0)
          OBVIOUS
        <4>1. loc[k] \in S /\ loc[k] \in Nat
          BY <1>8
        <4>2. oop < loc[k] => oop' <= loc[k]
          BY <1>4, <1>8, <4>1
        <4>3. loc[k] = oop <=> k = n0
          BY <1>5, <1>8
        <4>4. QED
          BY <1>4, <1>9, <4>1, <4>2, <4>3
      <3>2. a \in Nat /\ a <= loc[n0] /\ ~(loc[n0] < oop)
        <4>1. a \in Nat /\ loc[n0] = oop
          BY <1>5, <1>8, <2>3
        <4>2. QED
          BY <1>4, <2>3, <4>1
      <3>3. /\ Within(N, loc, a, oop') = Within(N, loc, a, oop) \cup {n0}
            /\ n0 \notin Within(N, loc, a, oop)
        BY <3>1, <3>2 DEF Within
      <3>4. IsFiniteSet(Within(N, loc, a, oop))
        <4>1. Within(N, loc, a, oop) \in SUBSET N /\ IsFiniteSet(N)
          BY DEF Within, Setting
        <4>2. QED
          BY <4>1, FS_Subset
      <3>5. QED
        BY <3>3, <3>4, FS_AddElement, FS_CardinalityType
    <2>4. oop < oop' /\ sweep.survivors + 1 \in Nat
      BY <1>4, <1>9, <2>1
    <2>5. CASE n > 0
      <3>1. /\ sweep'.firstFree = f /\ sweep'.entriesAvailable = n - 1
            /\ n - 1 \in 0..EntriesAvailable
        BY <1>1, <1>11, <2>1, <2>2, <2>5
      <3>2. f # Null => /\ f < oop'
                        /\ Cardinality(Within(N, loc, f, oop')) + (n - 1)
                              <= EntriesAvailable
        <4> SUFFICES ASSUME f # Null
                     PROVE  /\ f < oop'
                            /\ Cardinality(Within(N, loc, f, oop')) + (n - 1)
                                  <= EntriesAvailable
          OBVIOUS
        <4> HIDE DEF f, n
        <4>1. f \in FreeIn(N, S, loc) /\ f < oop /\ f \in Nat
          BY <1>8, <2>1
        <4>2. QED
          BY <1>1, <1>4, <2>1, <2>3, <2>4, <4>1
      <3>3. QED
        BY <1>1, <1>11, <2>1, <2>4, <3>1, <3>2 DEF Gathered
    <2>6. CASE ~(n > 0)
      <3>1. /\ sweep'.firstFree = c /\ sweep'.entriesAvailable = 0
        BY <1>1, <1>11, <2>1, <2>2, <2>6
      <3>2. c # Null => /\ c \in FreeIn(N, S, loc) /\ c < oop'
                        /\ Cardinality(Within(N, loc, c, oop')) + 0
                              <= EntriesAvailable
        <4> SUFFICES ASSUME c # Null
                     PROVE  /\ c \in FreeIn(N, S, loc) /\ c < oop'
                            /\ Cardinality(Within(N, loc, c, oop')) + 0
                                  <= EntriesAvailable
          OBVIOUS
        <4>1. c \in FreeIn(N, S, loc) /\ c + size[c] = oop /\ c < oop
          BY <1>4, <2>1
        <4> HIDE DEF c
        <4>2. c \in Nat
          BY <1>8, <4>1
        <4>3. Within(N, loc, c, oop) = {}
          BY <1>7, <4>1, NoneWithin
        <4>4. Cardinality(Within(N, loc, c, oop)) = 0
          BY <4>3, FS_EmptySet
        <4>5. Cardinality(Within(N, loc, c, oop')) = 1
          BY <2>3, <4>1, <4>4
        <4>6. c < oop'
          BY <1>4, <1>9, <4>1, <4>2
        <4>7. QED
          BY <1>1, <4>1, <4>5, <4>6
      <3>3. QED
        BY <1>1, <1>11, <2>1, <2>4, <3>1, <3>2 DEF Gathered
    <2>7. QED
      BY <2>5, <2>6
  <1>15. QED
    BY <1>1, <1>13, <1>14 DEF CollectionInv
-----------------------------------------------------------------------------
(* The end of an operation or of a pass.                                   *)

\* The last chunk ends elsewhere.
Resized(S, size, c, k) == [a \in S |-> IF a = c THEN k ELSE size[a]]

\* The free chunk at the end of the heap can be made longer or shorter.
LEMMA Extended ==
    ASSUME NEW N, NEW S, NEW size, NEW loc, NEW end,
           Placed(N, S, size, loc, end), NEW c \in FreeIn(N, S, loc),
           c + size[c] = end, NEW end2 \in Nat, c < end2,
           NEW size2, size2 = Resized(S, size, c, end2 - c)
    PROVE  /\ Placed(N, S, size2, loc, end2)
           /\ c + size2[c] = end2 /\ size2[c] = end2 - c
           /\ \A a \in S : a # c => size2[a] = size[a]
           /\ \A n \in N : size2[loc[n]] = size[loc[n]]
           /\ \A a \in S : a <= c
  <1>1. /\ end \in Nat /\ N \subseteq Nat /\ 0 \in N /\ 0 \in S
        /\ \A a \in S : /\ a \in Nat /\ size[a] \in Nat /\ 1 <= size[a]
                        /\ a + size[a] <= end
                        /\ a + size[a] \in S \cup {end}
        /\ \A a, b \in S : a < b => a + size[a] <= b
        /\ \A n \in N : loc[n] \in S /\ size[loc[n]] \in {1, 2}
        /\ c \in S /\ 2 <= c
        /\ loc[0] = 0 /\ size[0] = 2
    BY PlacedAre
  <1>2. \A n \in N : loc[n] # c
    BY DEF FreeIn
  <1>3. /\ size2[c] = end2 - c /\ c \in Nat
        /\ \A a \in S : a # c => size2[a] = size[a]
        /\ size2 = [a \in S |-> size2[a]]
    BY <1>1 DEF Resized
  <1>4. \A n \in N : size2[loc[n]] = size[loc[n]]
    BY <1>1, <1>2, <1>3
  <1>5. \A a \in S : a <= c
    <2> SUFFICES ASSUME NEW a \in S PROVE a <= c
      OBVIOUS
    <2>1. a \in Nat /\ size[a] \in Nat /\ 1 <= size[a] /\ a + size[a] <= end
      BY <1>1
    <2>2. c < a => end <= a
      BY <1>1, <2>1
    <2>3. QED
      BY <1>1, <1>3, <2>1, <2>2
  <1>6. ASSUME NEW a \in S, a # c
        PROVE  /\ size2[a] = size[a] /\ a < c /\ a + size[a] <= c
               /\ a + size[a] \in S
    <2>1. a \in Nat /\ a < c
      BY <1>1, <1>3, <1>5, <1>6
    <2>2. a + size[a] <= c /\ c < end
      BY <1>1, <1>3, <2>1
    <2>3. a + size[a] # end
      BY <1>1, <1>3, <2>1, <2>2
    <2>4. QED
      BY <1>1, <1>3, <1>6, <2>1, <2>2, <2>3
  <1>7. Tiles(S, size2, end2)
    <2>1. \A a \in S : size2[a] \in Nat \ {0}
      <3> SUFFICES ASSUME NEW a \in S PROVE size2[a] \in Nat \ {0}
        OBVIOUS
      <3>1. CASE a = c
        BY <1>3, <3>1
      <3>2. CASE a # c
        BY <1>1, <1>6, <3>2
      <3>3. QED
        BY <3>1, <3>2
    <2>2. size2 \in [S -> Nat \ {0}]
      BY <1>3, <2>1
    <2>3. \A a \in S : /\ a + size2[a] \in S \cup {end2}
                       /\ a + size2[a] <= end2
      <3> SUFFICES ASSUME NEW a \in S
                   PROVE  /\ a + size2[a] \in S \cup {end2}
                          /\ a + size2[a] <= end2
        OBVIOUS
      <3>1. CASE a = c
        BY <1>3, <3>1
      <3>2. CASE a # c
        <4>1. /\ a + size2[a] = a + size[a] /\ a + size[a] <= c
              /\ a + size[a] \in S /\ a + size[a] \in Nat
          BY <1>1, <1>6, <3>2
        <4>2. QED
          BY <1>3, <4>1
      <3>3. QED
        BY <3>1, <3>2
    <2>4. \A a, b \in S : a < b => a + size2[a] <= b
      <3> SUFFICES ASSUME NEW a \in S, NEW b \in S, a < b
                   PROVE  a + size2[a] <= b
        OBVIOUS
      <3>1. b <= c /\ b \in Nat /\ a \in Nat
        BY <1>1, <1>5
      <3>2. a # c
        BY <1>3, <3>1
      <3>3. QED
        BY <1>1, <1>6, <3>2
    <2>5. QED
      BY <1>1, <2>2, <2>3, <2>4 DEF Tiles
  <1>8. Placed(N, S, size2, loc, end2)
    <2>1. size2[0] = 2
      BY <1>1, <1>4
    <2>2. \A n \in N : size2[loc[n]] \in {1, 2}
      BY <1>1, <1>4
    <2>3. QED
      BY <1>7, <2>1, <2>2 DEF Placed
  <1>9. QED
    BY <1>3, <1>4, <1>5, <1>8

\* Memory ends after the free block, within its limit.
LEMMA Initialized ==
    ASSUME Setting, NEW m, DOMAIN m = 0..memoryLimit,
           NEW ff \in Nat, 2 <= ff, ff <= freeBlock, NEW count \in Nat,
           initializeMemoryFirstFree(m, ff, count),
           totalObjectCount' = count, UNCHANGED fixedVars
    PROVE  /\ Setting' /\ freeBlock' = ff
           /\ endOfMemory' \in Nat /\ ff < endOfMemory'
           /\ memory'[ff] = FreeChunk(endOfMemory' - ff)
           /\ \A x : x < ff /\ x \in Nat => memory'[x] = m[x]
  <1> DEFINE end == memoryLimit - ReservedWords(ff, count)
  <1>1. /\ memoryLimit \in Nat /\ BytesPerWord \in {4, 8} /\ MaxChunks \in Nat
        /\ freeBlock <= 2 * MaxChunks + 2 /\ freeBlock \in Nat
        /\ 2 * MaxChunks + 8 <= memoryLimit
    BY MemoryAssumption DEF Setting
  <1>2. count \div BytesPerWord \in Nat
    BY <1>1
  <1>3. end \in Nat /\ ff < end /\ end <= memoryLimit
    <2>1. ff + 1 <= memoryLimit
      BY <1>1
    <2>2. CASE memoryLimit - (count \div BytesPerWord) >= ff + 1
      <3>1. end = memoryLimit - (count \div BytesPerWord)
        BY <2>2 DEF ReservedWords
      <3>2. QED
        BY <1>1, <1>2, <2>2, <3>1
    <2>3. CASE ~(memoryLimit - (count \div BytesPerWord) >= ff + 1)
      <3>1. end = memoryLimit - (memoryLimit - (ff + 1))
        BY <2>3 DEF ReservedWords
      <3>2. QED
        BY <1>1, <2>1, <3>1
    <2>4. QED
      BY <2>2, <2>3
  <1>4. /\ freeBlock' = ff /\ endOfMemory' = end
        /\ memory' = [m EXCEPT ![ff] = FreeChunk(end - ff),
                               ![end] = FreeChunk(1)]
    BY DEF initializeMemoryFirstFree
  <1> HIDE DEF end
  <1>5. /\ memory'[ff] = FreeChunk(end - ff)
        /\ \A x \in DOMAIN m : x # ff /\ x # end => memory'[x] = m[x]
        /\ DOMAIN memory' = DOMAIN m
    <2>1. ff \in DOMAIN m /\ end \in DOMAIN m /\ ff # end
      BY <1>1, <1>3
    <2>2. DOMAIN memory' = DOMAIN m
      BY <1>4
    <2>3. PICK w : w = FreeChunk(end - ff)
      OBVIOUS
    <2>4. PICK v : v = FreeChunk(1)
      OBVIOUS
    <2>5. memory' = [m EXCEPT ![ff] = w, ![end] = v]
      BY <1>4, <2>3, <2>4
    <2>6. memory'[ff] = w
      BY <2>1, <2>5
    <2>7. \A x \in DOMAIN m : x # ff /\ x # end => memory'[x] = m[x]
      BY <2>5
    <2>8. QED
      BY <2>2, <2>3, <2>6, <2>7
  <1>6. Setting'
    <2>1. /\ memoryLimit' = memoryLimit /\ BytesPerWord' = BytesPerWord
          /\ before' = before
      BY DEF fixedVars
    <2>2. ff <= 2 * MaxChunks + 2
      BY <1>1
    <2>3. QED
      BY <1>1, <1>3, <1>4, <1>5, <2>1, <2>2 DEF Setting
  <1>7. \A x : x < ff /\ x \in Nat => memory'[x] = m[x]
    BY <1>1, <1>3, <1>5
  <1>8. memory'[ff] = FreeChunk(endOfMemory' - ff)
    BY <1>4, <1>5
  <1>9. QED
    BY <1>3, <1>4, <1>6, <1>7, <1>8

\* A heap in which nothing changes but the end of the last chunk, ff, which
\* is the free block.
SettledAs(m, N, S, size, loc, ff, size2) ==
    /\ Setting' /\ freeBlock' = ff
    /\ Placed(N, S, size2, loc, endOfMemory')
    /\ ff + size2[ff] = endOfMemory'
    /\ memory'[ff] = FreeChunk(size2[ff])
    /\ \A a \in S : a # ff => size2[a] = size[a]
    /\ \A n \in N : size2[loc[n]] = size[loc[n]]
    /\ \A a \in S : a # ff => memory'[a] = m[a] /\ a < ff
    /\ \A n \in N : memory'[loc[n]] = m[loc[n]]
    /\ \A n \in N : size[loc[n]] = 2 => memory'[loc[n] + 1] = m[loc[n] + 1]

\* initializeMemoryFirstFree gives a heap that ends with the free block.
LEMMA Settled ==
    ASSUME Setting, NEW m, DOMAIN m = 0..memoryLimit,
           NEW N, NEW S, NEW size, NEW loc, NEW end1,
           Placed(N, S, size, loc, end1),
           NEW ff \in FreeIn(N, S, loc), ff + size[ff] = end1,
           ff <= freeBlock, NEW count \in Nat,
           initializeMemoryFirstFree(m, ff, count),
           totalObjectCount' = count, UNCHANGED fixedVars
    PROVE  \E size2 : SettledAs(m, N, S, size, loc, ff, size2)
  <1>1. /\ ff \in Nat /\ 2 <= ff /\ ff \in S /\ end1 \in Nat
        /\ size[ff] \in Nat /\ 1 <= size[ff]
        /\ \A a \in S : a \in Nat
        /\ \A n \in N : /\ loc[n] \in S /\ loc[n] \in Nat
                        /\ loc[n] + size[loc[n]] <= end1
        /\ \A n \in N : /\ ff + size[ff] <= loc[n]
                           \/ loc[n] + size[loc[n]] <= ff
                        /\ size[loc[n]] \in {1, 2}
    BY PlacedAre
  <1>2. /\ Setting' /\ freeBlock' = ff
        /\ endOfMemory' \in Nat /\ ff < endOfMemory'
        /\ memory'[ff] = FreeChunk(endOfMemory' - ff)
        /\ \A x : x < ff /\ x \in Nat => memory'[x] = m[x]
    BY <1>1, Initialized
  <1>3. PICK size2 : size2 = Resized(S, size, ff, endOfMemory' - ff)
    OBVIOUS
  <1>4. /\ Placed(N, S, size2, loc, endOfMemory')
        /\ ff + size2[ff] = endOfMemory' /\ size2[ff] = endOfMemory' - ff
        /\ \A a \in S : a # ff => size2[a] = size[a]
        /\ \A n \in N : size2[loc[n]] = size[loc[n]]
        /\ \A a \in S : a <= ff
    <2>1. PICK end2 : end2 = endOfMemory'
      OBVIOUS
    <2>2. size2 = Resized(S, size, ff, end2 - ff) /\ end2 \in Nat /\ ff < end2
      BY <1>2, <1>3, <2>1
    <2>3. /\ Placed(N, S, size2, loc, end2)
          /\ ff + size2[ff] = end2 /\ size2[ff] = end2 - ff
          /\ \A a \in S : a # ff => size2[a] = size[a]
          /\ \A n \in N : size2[loc[n]] = size[loc[n]]
          /\ \A a \in S : a <= ff
      BY <2>2, Extended
    <2>4. QED
      BY <2>1, <2>3
  <1>5. \A a \in S : a # ff => memory'[a] = m[a] /\ a < ff
    <2>1. \A a \in S : a # ff => a < ff /\ a \in Nat
      BY <1>1, <1>4
    <2>2. QED
      BY <1>2, <2>1
  <1>6. \A n \in N : loc[n] + size[loc[n]] <= ff
    BY <1>1
  <1>7. \A n \in N : memory'[loc[n]] = m[loc[n]]
    BY <1>1, <1>2, <1>6
  <1>8. \A n \in N : size[loc[n]] = 2 => memory'[loc[n] + 1] = m[loc[n] + 1]
    BY <1>1, <1>2, <1>6
  <1>9. QED
    BY <1>2, <1>4, <1>5, <1>7, <1>8 DEF SettledAs
-----------------------------------------------------------------------------
(* Walks through memory.                                                   *)

\* A walk meets the chunks, and knows the free ones.
Walkable(m, N, S, size, loc, end) ==
    /\ Placed(N, S, size, loc, end)
    /\ \A n \in N : /\ ~IsFree(m, loc[n])
                    /\ RealHeader(m, loc[n]).size = size[loc[n]]
    /\ \A a \in FreeIn(N, S, loc) : m[a] = FreeChunk(size[a])

\* A walk of the heap finds its chunks, its objects and its free chunks.
LEMMA HeapWalk ==
    ASSUME NEW m, NEW N, NEW S, NEW size, NEW loc, NEW end,
           Walkable(m, N, S, size, loc, end), NEW from, from \in S
    PROVE  /\ \A a \in S : objectAfter(m, a) = a + size[a]
           /\ Chunks(m, from, end) = {a \in S : from <= a}
           /\ Chunks(m, 0, end) = S
           /\ Objects(m, from, end) =
                 {a \in S : from <= a /\ \E n \in N : loc[n] = a}
           /\ {a \in Chunks(m, 0, end) : IsFree(m, a)} = FreeIn(N, S, loc)
  <1>0. /\ Placed(N, S, size, loc, end)
        /\ \A n \in N : /\ ~IsFree(m, loc[n])
                        /\ RealHeader(m, loc[n]).size = size[loc[n]]
        /\ \A a \in FreeIn(N, S, loc) : m[a] = FreeChunk(size[a])
    BY DEF Walkable
  <1>1. \A a \in S : a \in FreeIn(N, S, loc) \/ \E n \in N : loc[n] = a
    BY DEF FreeIn
  <1>2. \A a \in FreeIn(N, S, loc) : IsFree(m, a) /\ a \in S
    BY <1>0, Words DEF IsFree, FreeIn
  <1>3. ASSUME NEW a \in S PROVE objectAfter(m, a) = a + size[a]
    <2>1. CASE a \in FreeIn(N, S, loc)
      <3>1. m[a] = FreeChunk(size[a])
        BY <1>0, <2>1
      <3>2. m[a].type = "free" /\ m[a].size = size[a]
        BY <3>1, Words
      <3>3. QED
        BY <3>2, After
    <2>2. CASE \E n \in N : loc[n] = a
      BY <1>0, <2>2 DEF objectAfter
    <2>3. QED
      BY <1>1, <2>1, <2>2
  <1>4. Tiles(S, size, end) /\ 0 \in S /\ \A a \in S : 0 <= a
    BY <1>0 DEF Placed, Tiles
  <1>5. /\ Chunks(m, from, end) = {a \in S : from <= a}
        /\ Chunks(m, 0, end) = {a \in S : 0 <= a}
    BY <1>3, <1>4, ChunksAre
  <1>6. Chunks(m, 0, end) = S
    BY <1>4, <1>5
  <1>7. \A a \in S : IsFree(m, a) <=> a \in FreeIn(N, S, loc)
    BY <1>0, <1>1, <1>2
  <1>8. \A a \in S : ~IsFree(m, a) <=> \E n \in N : loc[n] = a
    BY <1>1, <1>7 DEF FreeIn
  <1>9. Objects(m, from, end) =
           {a \in S : from <= a /\ \E n \in N : loc[n] = a}
    BY <1>5, <1>8 DEF Objects
  <1>10. {a \in Chunks(m, 0, end) : IsFree(m, a)} = FreeIn(N, S, loc)
    BY <1>2, <1>6, <1>7
  <1>11. QED
    BY <1>3, <1>5, <1>6, <1>9, <1>10

\* The words of a heap in which nothing is forwarded are as HeapWalk asks.
LEMMA PlainHeaders ==
    ASSUME NEW m, NEW a, NEW n, NEW s, NEW h, m[a] = Header(n, s, h)
    PROVE  /\ ~IsFree(m, a) /\ ~IsForwarded(m, a)
           /\ RealHeader(m, a) = m[a] /\ RealHeader(m, a).size = s
           /\ m[a].name = n /\ m[a].hash = h /\ ~m[a].mark /\ m[a].size = s
  <1>1. /\ m[a].type = "object" /\ m[a].name = n /\ m[a].hash = h
        /\ ~m[a].mark /\ m[a].size = s
    BY Words
  <1>2. ~IsFree(m, a) /\ ~IsForwarded(m, a)
    BY <1>1 DEF IsFree, IsForwarded
  <1>3. RealHeader(m, a) = m[a]
    BY <1>2 DEF RealHeader
  <1>4. QED
    BY <1>1, <1>2, <1>3

\* When the sweep is over there is a heap again, and a place to begin.
LEMMA SweepOver ==
    ASSUME Setting, operation \in Collections, CollectionInv, SweepEnd,
           NEW m, m = CloseChunk(memory)
    PROVE  \E S, size, loc :
              /\ DOMAIN m = 0..memoryLimit /\ endOfMemory = freeBlock + 1
              /\ Placed(before.live, S, size, loc, endOfMemory)
              /\ LastFree(before.live, S, size, loc, freeBlock, endOfMemory)
              /\ HeadersAre(m, before.live, size, loc)
              /\ FieldsAre(m, before.live, size, loc, loc[before.target])
              /\ FreeAre(m, before.live, S, size, loc, Null)
              /\ RootsAre(loc)
              /\ compStart' \in FreeIn(before.live, S, loc)
              /\ \/ compStart' + size[compStart'] = endOfMemory
                 \/ \E n \in before.live :
                       loc[n] = compStart' + size[compStart']
              /\ operation = "full" =>
                    \A a \in FreeIn(before.live, S, loc) : a >= compStart'
              /\ operation = "incremental" =>
                    Cardinality(Within(before.live, loc, compStart',
                                       endOfMemory)) <= EntriesAvailable
  <1> DEFINE N == before.live
  <1>1. /\ pc = "sweep" /\ oop = endOfMemory /\ endOfMemory = freeBlock + 1
        /\ freeBlock \in Nat
    BY DEF SweepEnd, CollectionInv, Setting
  <1>2. PICK S, size, loc : Swept(m, S, size, loc) /\ Gathered(S, size, loc)
    BY <1>1 DEF CollectionInv
  <1>3. /\ Placed(N, S, size, loc, endOfMemory) /\ RootsAre(loc)
        /\ LastFree(N, S, size, loc, freeBlock, endOfMemory)
        /\ FieldsAre(m, N, size, loc, loc[before.target])
    BY <1>2 DEF Swept
  <1>4. /\ endOfMemory \in Nat /\ 0 \in S /\ S \subseteq Nat
        /\ \A a \in S : /\ a \in Nat /\ size[a] \in Nat /\ 1 <= size[a]
                        /\ a + size[a] <= endOfMemory
        /\ \A n \in N : loc[n] \in S /\ loc[n] \in Nat
        /\ \A a \in FreeIn(N, S, loc) : a \in S
    BY <1>3, PlacedAre
  <1>5. \A a \in S : a < endOfMemory /\ ~(a >= endOfMemory)
    BY <1>4
  <1>6. HeadersAre(m, N, size, loc)
    BY <1>1, <1>2, <1>4, <1>5 DEF Swept, HeadersAre
  <1>7. \A a \in FreeIn(N, S, loc) : m[a] = FreeChunk(size[a])
    BY <1>1, <1>2, <1>4, <1>5 DEF Swept
  <1>8. FreeAre(m, N, S, size, loc, Null)
    BY <1>7 DEF FreeAre
  <1>9. \A a \in FreeIn(N, S, loc) :
           a + size[a] = endOfMemory \/ \E n \in N : loc[n] = a + size[a]
    <2> SUFFICES ASSUME NEW a \in FreeIn(N, S, loc)
                 PROVE  \/ a + size[a] = endOfMemory
                        \/ \E n \in N : loc[n] = a + size[a]
      OBVIOUS
    <2>1. a \in S /\ a < oop /\ a # Null
      BY <1>1, <1>4, <1>5, MemoryAssumption
    <2>2. CASE a = sweep.freeChunk
      BY <1>1, <1>2, <2>1, <2>2 DEF Gathered
    <2>3. CASE a # sweep.freeChunk
      BY <1>2, <2>1, <2>3 DEF Swept
    <2>4. QED
      BY <2>2, <2>3
  <1>10. DOMAIN m = 0..memoryLimit
    BY DEF CloseChunk, Setting
  <1>11. PICK last \in FreeIn(N, S, loc) : last + size[last] = endOfMemory
    BY <1>3 DEF LastFree
  <1> DEFINE Goal ==
              /\ compStart' \in FreeIn(N, S, loc)
              /\ operation = "full" =>
                    \A a \in FreeIn(N, S, loc) : a >= compStart'
              /\ operation = "incremental" =>
                    Cardinality(Within(N, loc, compStart',
                                       endOfMemory)) <= EntriesAvailable
  <1>12. ASSUME operation = "full" PROVE Goal
    <2>1. compStart' = lowestFreeAfter(m, 0)
      BY <1>12 DEF SweepEnd
    <2>2. {a \in Chunks(m, 0, endOfMemory) : IsFree(m, a)} = FreeIn(N, S, loc)
      <3>1. \A n \in N : /\ ~IsFree(m, loc[n])
                         /\ RealHeader(m, loc[n]).size = size[loc[n]]
        BY <1>6, PlainHeaders DEF HeadersAre, Own
      <3>2. QED
        BY <1>3, <1>4, <1>7, <3>1, HeapWalk DEF Walkable
    <2>3. compStart' = Min(FreeIn(N, S, loc))
      BY <1>11, <2>1, <2>2 DEF lowestFreeAfter
    <2>4. FreeIn(N, S, loc) \in SUBSET Nat /\ FreeIn(N, S, loc) # {}
      BY <1>4, <1>11
    <2>5. PICK x \in FreeIn(N, S, loc) : \A y \in FreeIn(N, S, loc) : x <= y
      BY <2>4, Smallest
    <2>6. Min(FreeIn(N, S, loc)) = x
      <3>1. FreeIn(N, S, loc) \in SUBSET Int
        BY <2>4
      <3>2. QED
        BY <2>5, <3>1, MaxMin
    <2>7. \A y \in FreeIn(N, S, loc) : y >= x
      BY <2>4, <2>5
    <2>8. operation # "incremental"
      BY <1>12
    <2>9. QED
      BY <2>3, <2>6, <2>7, <2>8
  <1>13. ASSUME operation = "incremental" PROVE Goal
    <2>0. operation # "full"
      BY <1>13
    <2>1. compStart' = sweep.firstFree
      BY <2>0 DEF SweepEnd
    <2>2. sweep.freeChunk # Null
      <3>1. last \in S /\ last < oop /\ last # Null
        BY <1>1, <1>4, <1>5, MemoryAssumption
      <3>2. ASSUME last # sweep.freeChunk PROVE FALSE
        <4>1. PICK n \in N : loc[n] = last + size[last]
          BY <1>2, <3>1, <3>2 DEF Swept
        <4>2. QED
          BY <1>4, <1>5, <1>11, <4>1
      <3>3. QED
        BY <3>1, <3>2
    <2>3. sweep.firstFree # Null
      BY <1>2, <2>2 DEF Gathered
    <2>4. /\ sweep.firstFree \in FreeIn(N, S, loc)
          /\ Cardinality(Within(N, loc, sweep.firstFree, oop))
                + sweep.entriesAvailable <= EntriesAvailable
          /\ sweep.entriesAvailable \in Nat
          /\ EntriesAvailable \in Nat
      <3>1. EntriesAvailable \in Nat
        <4>1. ~OneWay
          BY DEF OneWay, Collections
        <4>2. QED
          BY <4>1, Room
      <3>2. QED
        BY <1>2, <2>3, <3>1 DEF Gathered
    <2>5. Cardinality(Within(N, loc, sweep.firstFree, oop)) \in Nat
      <3>1. Within(N, loc, sweep.firstFree, oop) \in SUBSET N
            /\ IsFiniteSet(N)
        BY DEF Within, Setting
      <3>2. QED
        BY <3>1, FS_Subset, FS_CardinalityType
    <2>6. Cardinality(Within(N, loc, sweep.firstFree, oop))
             <= EntriesAvailable
      BY <2>4, <2>5
    <2>7. QED
      BY <1>1, <2>0, <2>1, <2>4, <2>6
  <1>14. Goal
    BY <1>12, <1>13 DEF Collections
  <1>15. QED
    BY <1>1, <1>3, <1>6, <1>8, <1>9, <1>10, <1>14

\* The collection is over when the free block is set.
LEMMA CollectedAfter ==
    ASSUME Setting, NEW m, DOMAIN m = 0..memoryLimit,
           NEW S, NEW size, NEW loc, NEW end1,
           Placed(before.live, S, size, loc, end1),
           NEW ff \in FreeIn(before.live, S, loc), ff + size[ff] = end1,
           ff <= freeBlock,
           HeadersAre(m, before.live, size, loc),
           FieldsAre(m, before.live, size, loc, loc[before.target]),
           FreeAre(m, before.live, S, size, loc, ff),
           \A a \in FreeIn(before.live, S, loc) :
              a = ff \/ (operation = "incremental" /\ a < compStart'),
           NEW count \in Nat, initializeMemoryFirstFree(m, ff, count),
           totalObjectCount' = count, UNCHANGED fixedVars,
           RootsAre(loc)'
    PROVE  /\ Setting'
           /\ \E size2 : Collected(S, size2, loc)'
  <1> DEFINE N == before.live
  <1>0. PICK size2 : SettledAs(m, N, S, size, loc, ff, size2)
    BY Settled
  <1>1. /\ Setting' /\ freeBlock' = ff
        /\ Placed(N, S, size2, loc, endOfMemory')
        /\ ff + size2[ff] = endOfMemory'
        /\ memory'[ff] = FreeChunk(size2[ff])
        /\ \A a \in S : a # ff => size2[a] = size[a]
        /\ \A n \in N : size2[loc[n]] = size[loc[n]]
        /\ \A a \in S : a # ff => memory'[a] = m[a] /\ a < ff
        /\ \A n \in N : memory'[loc[n]] = m[loc[n]]
        /\ \A n \in N : size[loc[n]] = 2 =>
                            memory'[loc[n] + 1] = m[loc[n] + 1]
    BY <1>0 DEF SettledAs
  <1>2. before' = before /\ operation' = operation
    BY DEF fixedVars
  <1>3. HeadersAre(memory', N, size2, loc)
    BY <1>1 DEF HeadersAre, Own
  <1>4. FieldsAre(memory', N, size2, loc, loc[before.target])
    BY <1>1 DEF FieldsAre
  <1>5. FreeAre(memory', N, S, size2, loc, Null)
    <2> SUFFICES ASSUME NEW a \in FreeIn(N, S, loc)
                 PROVE  memory'[a] = FreeChunk(size2[a])
      BY DEF FreeAre
    <2>1. CASE a = ff
      BY <1>1, <2>1
    <2>2. CASE a # ff
      <3>1. a \in S
        BY DEF FreeIn
      <3>2. m[a] = FreeChunk(size[a])
        BY <2>2 DEF FreeAre
      <3>3. QED
        BY <1>1, <2>2, <3>1, <3>2
    <2>3. QED
      BY <2>1, <2>2
  <1>6. Collected(S, size2, loc)'
    BY <1>1, <1>2, <1>3, <1>4, <1>5 DEF Collected
  <1>7. QED
    BY <1>1, <1>6

\* If the free block is a chunk, it is the last one.
LEMMA FreeBlockIsLast ==
    ASSUME NEW N, NEW S, NEW size, NEW loc, NEW fb \in Nat, NEW end,
           Placed(N, S, size, loc, end), LastFree(N, S, size, loc, fb, end),
           NEW c \in FreeIn(N, S, loc), fb <= c
    PROVE  c + size[c] = end
  <1>1. PICK a \in FreeIn(N, S, loc) :
           a <= fb /\ fb < end /\ a + size[a] = end
    BY DEF LastFree
  <1>2. /\ a \in S /\ c \in S /\ a \in Nat /\ c \in Nat /\ end \in Nat
        /\ size[a] \in Nat /\ size[c] \in Nat /\ 1 <= size[c]
        /\ c + size[c] <= end
        /\ \A x, y \in S : x < y => x + size[x] <= y
    BY PlacedAre
  <1>3. a < c => end <= c
    BY <1>1, <1>2
  <1>4. a = c
    BY <1>1, <1>2, <1>3
  <1>5. QED
    BY <1>1, <1>4

\* The sweep is over: there is nothing to compact, or a pass begins.
LEMMA SweepEndSafe ==
    ASSUME Setting, operation \in Collections, CollectionInv, SweepEnd
    PROVE  Setting' /\ CollectionInv'
  <1> DEFINE N == before.live
  <1>1. PICK m : m = CloseChunk(memory)
    OBVIOUS
  <1>2. PICK S, size, loc :
              /\ DOMAIN m = 0..memoryLimit /\ endOfMemory = freeBlock + 1
              /\ Placed(N, S, size, loc, endOfMemory)
              /\ LastFree(N, S, size, loc, freeBlock, endOfMemory)
              /\ HeadersAre(m, N, size, loc)
              /\ FieldsAre(m, N, size, loc, loc[before.target])
              /\ FreeAre(m, N, S, size, loc, Null)
              /\ RootsAre(loc)
              /\ compStart' \in FreeIn(N, S, loc)
              /\ \/ compStart' + size[compStart'] = endOfMemory
                 \/ \E n \in N : loc[n] = compStart' + size[compStart']
              /\ operation = "full" =>
                    \A a \in FreeIn(N, S, loc) : a >= compStart'
              /\ operation = "incremental" =>
                    Cardinality(Within(N, loc, compStart', endOfMemory))
                       <= EntriesAvailable
    BY <1>1, SweepOver
  <1>3. /\ pc = "sweep" /\ UNCHANGED <<fixedVars, pointerVars, youngStart>>
        /\ operation' = operation /\ before' = before
        /\ memoryLimit' = memoryLimit /\ BytesPerWord' = BytesPerWord
    BY DEF SweepEnd, fixedVars
  <1>4. RootsAre(loc)'
    BY <1>2, <1>3 DEF RootsAre, pointerVars
  <1>5. before'.pairs = <<>>
    BY <1>3 DEF CollectionInv
  <1>6. Boundary' <=> Boundary
    <2>1. pc' # "mark"
      BY DEF SweepEnd
    <2>2. QED
      BY <1>3, <2>1 DEF Boundary, pointerVars
  <1>7. totalObjectCount' \in Nat
    <2>1. sweep.survivors \in Nat
      BY <1>3 DEF CollectionInv, Gathered
    <2>2. QED
      BY <2>1 DEF SweepEnd, Setting
  <1>8. CASE compStart' = freeBlock
    <2>1. /\ initializeMemoryFirstFree(m, freeBlock, totalObjectCount')
          /\ pc' = "done"
      BY <1>1, <1>8 DEF SweepEnd
    <2>2. PICK fb : fb = compStart'
      OBVIOUS
    <2>3. freeBlock \in FreeIn(N, S, loc) /\ freeBlock \in Nat
      BY <1>2, <1>8 DEF Setting
    <2>4. freeBlock + size[freeBlock] = endOfMemory
      BY <1>2, <2>3, FreeBlockIsLast
    <2>5. \A a \in S : a <= freeBlock
      <3> SUFFICES ASSUME NEW a \in S PROVE a <= freeBlock
        OBVIOUS
      <3>1. /\ a \in Nat /\ size[a] \in Nat /\ 1 <= size[a]
            /\ a + size[a] <= endOfMemory
        BY <1>2, PlacedAre
      <3>2. QED
        BY <1>2, <2>3, <3>1
    <2>6. \A a \in FreeIn(N, S, loc) :
              a = freeBlock \/ (operation = "incremental" /\ a < compStart')
      <3> SUFFICES ASSUME NEW a \in FreeIn(N, S, loc), a # freeBlock
                   PROVE  operation = "incremental" /\ a < compStart'
        OBVIOUS
      <3>1. a \in S /\ a \in Nat
        BY <1>2, PlacedAre
      <3>2. a < freeBlock
        BY <2>3, <2>5, <3>1
      <3>3. ~(a >= freeBlock)
        BY <2>3, <3>1, <3>2
      <3>4. operation # "full"
        BY <1>2, <1>8, <3>3
      <3>5. QED
        BY <1>8, <3>2, <3>4 DEF Collections
    <2>7. FreeAre(m, N, S, size, loc, freeBlock)
      <3>1. \A a \in FreeIn(N, S, loc) : a \in Nat /\ a # Null
        BY <1>2, PlacedAre, MemoryAssumption
      <3>2. QED
        BY <1>2, <3>1 DEF FreeAre
    <2>8. freeBlock <= freeBlock
      BY <2>3
    <2>9. PICK count : count = totalObjectCount'
      OBVIOUS
    <2>10. /\ count \in Nat /\ initializeMemoryFirstFree(m, freeBlock, count)
           /\ totalObjectCount' = count
      BY <1>7, <2>1, <2>9
    <2>11. Setting' /\ \E size2 : Collected(S, size2, loc)'
      BY <1>2, <1>3, <1>4, <2>3, <2>4, <2>6, <2>7, <2>8, <2>10,
         CollectedAfter
    <2>12. QED
      BY <1>5, <1>6, <2>1, <2>11 DEF CollectionInv
  <1>9. CASE compStart' # freeBlock
    <2>1. /\ memory' = m /\ pc' = "compact"
          /\ freeBlock' = freeBlock /\ endOfMemory' = endOfMemory
      BY <1>1, <1>9 DEF SweepEnd
    <2>2. Setting'
      BY <1>2, <1>3, <1>7, <2>1 DEF Setting
    <2>3. EntriesAvailable' = EntriesAvailable
      BY <1>3, <2>1 DEF EntriesAvailable, BlockSize, OneWay, TableStart
    <2>4. FreeAre(m, N, S, size, loc, freeBlock)
      <3>1. \A a \in FreeIn(N, S, loc) : a \in Nat /\ a # Null
        BY <1>2, PlacedAre, MemoryAssumption
      <3>2. QED
        BY <1>2, <3>1 DEF FreeAre
    <2>5. Passes(S, size, loc)'
      BY <1>2, <1>3, <2>1, <2>3 DEF Passes
    <2>6. Compacts(S, size, loc)'
      BY <1>2, <1>3, <1>4, <2>1, <2>4, <2>5 DEF Compacts
    <2>7. QED
      BY <1>5, <1>6, <2>1, <2>2, <2>6 DEF CollectionInv
  <1>10. QED
    BY <1>8, <1>9
-----------------------------------------------------------------------------
(* Forwarding.                                                             *)

\* A pass begins with the whole table, and nothing forwarded.
LEMMA CompBodySafe ==
    ASSUME Setting, operation \in Collections, CollectionInv, incCompBody
    PROVE  Setting' /\ CollectionInv'
  <1> DEFINE N == before.live
             fb == freeBlock
  <1>1. PICK S, size, loc : Compacts(S, size, loc)
    BY DEF CollectionInv, incCompBody
  <1>2. ~OneWay
    BY DEF OneWay, Collections
  <1>3. /\ pc = "compact" /\ pc' = "forward"
        /\ memory' = [memory EXCEPT ![fb] = FreeChunk(1),
                                    ![fb + 1] = FreeChunk(1)]
        /\ endOfMemory' = fb + 1 /\ freeBlock' = fb
        /\ fwdTableNext' = TableStart(fb + 1) + 2 * 0
        /\ fwdTableLast' = memoryLimit - 2
        /\ bytesFreed' = 0 /\ oop' = compStart /\ compStart' = compStart
        /\ UNCHANGED <<fixedVars, pointerVars, youngStart, totalObjectCount>>
    BY <1>2 DEF incCompBody, fwdTableInit, BlockSize
  <1>4. /\ operation' = operation /\ before' = before
        /\ memoryLimit' = memoryLimit /\ BytesPerWord' = BytesPerWord
    BY <1>3 DEF fixedVars
  <1>5. /\ fb \in Nat /\ DOMAIN memory = 0..memoryLimit
        /\ memoryLimit \in Nat /\ fb + 1 <= memoryLimit
    BY DEF Setting
  <1>6. Boundary' /\ before'.pairs = <<>>
    BY <1>3, <1>4 DEF Boundary, CollectionInv, pointerVars
  <1>7. Setting'
    BY <1>3, <1>4, <1>5 DEF Setting
  <1>8. /\ Placed(N, S, size, loc, fb + 1) /\ Passes(S, size, loc)
        /\ LastFree(N, S, size, loc, fb, fb + 1)
        /\ compStart \in FreeIn(N, S, loc)
        /\ HeadersAre(memory, N, size, loc)
        /\ FieldsAre(memory, N, size, loc, loc[before.target])
        /\ FreeAre(memory, N, S, size, loc, fb)
        /\ RootsAre(loc)
    BY <1>1 DEF Compacts, Passes
  <1>9. /\ \A a \in S : /\ a \in Nat /\ size[a] \in Nat /\ 1 <= size[a]
                        /\ a + size[a] <= fb + 1
        /\ \A n \in N : /\ loc[n] \in Nat /\ size[loc[n]] \in {1, 2}
                        /\ loc[n] \in S
        /\ \A a \in FreeIn(N, S, loc) : a \in S
    BY <1>8, PlacedAre
  <1>10. \A n \in N : loc[n] + size[loc[n]] <= fb
    BY <1>5, <1>8, BelowFreeBlock
  <1>11. /\ memory'[fb] = FreeChunk(1)
         /\ \A x \in 0..(fb - 1) : memory'[x] = memory[x]
    <2>1. PICK v : v = FreeChunk(1)
      OBVIOUS
    <2>2. memory' = [memory EXCEPT ![fb] = v, ![fb + 1] = v]
      BY <1>3, <2>1
    <2>3. \A x \in 0..(fb - 1) : x \in DOMAIN memory /\ x # fb /\ x # fb + 1
      BY <1>5
    <2>4. fb \in DOMAIN memory /\ fb # fb + 1
      BY <1>5
    <2>5. QED
      BY <2>1, <2>2, <2>3, <2>4
  <1>12. \A n \in N : loc[n] \in 0..(fb - 1)
                      /\ (size[loc[n]] = 2 => loc[n] + 1 \in 0..(fb - 1))
    BY <1>5, <1>9, <1>10
  <1>13. HeadersAre(memory', N, size, loc)
    BY <1>8, <1>11, <1>12 DEF HeadersAre
  <1>14. FieldsAre(memory', N, size, loc, loc[before.target])
    BY <1>8, <1>11, <1>12 DEF FieldsAre
  <1>15. FreeAre(memory', N, S, size, loc, Null)
    <2> SUFFICES ASSUME NEW a \in FreeIn(N, S, loc)
                 PROVE  memory'[a] = FreeChunk(size[a])
      BY DEF FreeAre
    <2>1. a \in Nat /\ size[a] \in Nat /\ 1 <= size[a]
          /\ a + size[a] <= fb + 1
      BY <1>9
    <2>2. CASE a = fb
      <3>1. size[a] = 1
        BY <1>5, <2>1, <2>2
      <3>2. QED
        BY <1>11, <2>2, <3>1
    <2>3. CASE a # fb
      <3>1. a \in 0..(fb - 1)
        BY <1>5, <2>1, <2>3
      <3>2. QED
        BY <1>8, <1>11, <2>3, <3>1 DEF FreeAre
    <2>4. QED
      BY <2>2, <2>3
  <1>16. PICK blk : blk = [n \in N |-> 0]
    OBVIOUS
  <1>17. Ahead(loc, oop)' = {}
    BY <1>3, <1>4, <1>8, <1>9 DEF Ahead, Within
  <1>18. EntriesAvailable' = EntriesAvailable
    BY <1>3, <1>4 DEF EntriesAvailable, BlockSize, OneWay, TableStart
  <1>19. Passes(S, size, loc)'
    BY <1>3, <1>4, <1>8, <1>18 DEF Passes
  <1>20. RootsAre(loc)'
    BY <1>3, <1>4, <1>8 DEF RootsAre, pointerVars
  <1>21. Plans(S, size, loc, loc, blk, oop)'
    <2>1. loc \in [N -> Nat]
      <3>1. loc \in [N -> S]
        BY <1>8 DEF Placed
      <3>2. QED
        BY <1>9, <3>1
    <2>2. compStart \in Nat /\ compStart \in S
      BY <1>8, <1>9
    <2>3. Slides({}, size, loc, loc, compStart, compStart - 0)
      BY <2>2 DEF Slides
    <2>4. BlocksAre({}, blk, fb + 1, memoryLimit - 2)
      BY DEF BlocksAre
    <2>5. compStart <= compStart - 0 /\ compStart <= compStart
          /\ ~(compStart < compStart)
      BY <2>2
    <2>6. QED
      BY <1>3, <1>4, <1>17, <1>19, <2>1, <2>2, <2>3, <2>4, <2>5
         DEF Plans
  <1>22. Forwards(S, size, loc, loc, blk)'
    BY <1>3, <1>4, <1>13, <1>14, <1>15, <1>17, <1>20, <1>21
       DEF Forwards, HeadersAre
  <1>23. Handed(loc, blk)'
    <2>1. Cardinality({}) = 0
      BY FS_EmptySet
    <2>2. TableStart(freeBlock + 1)' = TableStart(fb + 1)
      BY <1>3, <1>4 DEF TableStart
    <2>3. QED
      BY <1>3, <1>17, <2>1, <2>2 DEF Handed
  <1>24. QED
    BY <1>3, <1>6, <1>7, <1>22, <1>23 DEF CollectionInv

\* What a step of the forwarding does not change.
LEMMA ForwardFixed ==
    ASSUME Setting, operation \in Collections, CollectionInv, incCompMakeFwd
    PROVE  /\ pc = "forward" /\ Setting' /\ Boundary' /\ before'.pairs = <<>>
           /\ before' = before /\ operation' = operation
           /\ compStart' = compStart /\ freeBlock' = freeBlock
           /\ endOfMemory' = endOfMemory /\ memoryLimit' = memoryLimit
           /\ fwdTableLast' = fwdTableLast
           /\ EntriesAvailable' = EntriesAvailable
           /\ EntriesAvailable \in Nat /\ 1 <= EntriesAvailable
           /\ TableStart(freeBlock + 1)' = TableStart(freeBlock + 1)
           /\ \A S, size, loc : Passes(S, size, loc) => Passes(S, size, loc)'
           /\ \A loc : RootsAre(loc) => RootsAre(loc)'
           /\ \A loc, to : Within(before.live, loc, compStart, to)
                              = Ahead(loc, to)
  <1>1. /\ pc = "forward" /\ pc' \in {"forward", "map"}
        /\ UNCHANGED <<fixedVars, pointerVars, fwdTableLast, youngStart,
                       freeBlock, endOfMemory, totalObjectCount, compStart>>
    BY DEF incCompMakeFwd, ForwardFree, ForwardObject, ForwardExhausted,
           ForwardEnd
  <1>2. /\ operation' = operation /\ before' = before
        /\ memoryLimit' = memoryLimit /\ BytesPerWord' = BytesPerWord
        /\ UNCHANGED <<interpreterOops, methodCache, rootTable>>
    BY <1>1 DEF fixedVars, pointerVars
  <1>3. DOMAIN memory' = DOMAIN memory
    BY DEF incCompMakeFwd, ForwardFree, ForwardObject, ForwardExhausted,
           ForwardEnd, initForwardBlock
  <1>4. Setting' /\ Boundary' /\ before'.pairs = <<>>
    BY <1>1, <1>2, <1>3 DEF Setting, Boundary, CollectionInv
  <1>5. EntriesAvailable' = EntriesAvailable
        /\ TableStart(freeBlock + 1)' = TableStart(freeBlock + 1)
    BY <1>1, <1>2 DEF EntriesAvailable, BlockSize, OneWay, TableStart
  <1>6. EntriesAvailable \in Nat /\ 1 <= EntriesAvailable
    <2>1. ~OneWay
      BY DEF OneWay, Collections
    <2>2. QED
      BY <2>1, Room
  <1>7. \A S, size, loc : Passes(S, size, loc) => Passes(S, size, loc)'
    BY <1>1, <1>2, <1>5 DEF Passes
  <1>8. \A loc : RootsAre(loc) => RootsAre(loc)'
    BY <1>2 DEF RootsAre
  <1>9. \A loc, to : Within(before.live, loc, compStart, to) = Ahead(loc, to)
    BY DEF Ahead
  <1>10. QED
    BY <1>1, <1>2, <1>4, <1>5, <1>6, <1>7, <1>8, <1>9

\* Where the forwarding is.
LEMMA ForwardingIs ==
    ASSUME Setting, operation \in Collections, pc = "forward",
           oop < endOfMemory,
           NEW S, NEW size, NEW loc, NEW new, NEW blk,
           Forwards(S, size, loc, new, blk)
    PROVE  /\ endOfMemory = freeBlock + 1 /\ oop \in S /\ oop \in Nat
           /\ Placed(before.live, S, size, loc, endOfMemory)
           /\ compStart \in FreeIn(before.live, S, loc)
           /\ compStart \in Nat /\ compStart <= oop
           /\ objectAfter(memory, oop) = oop + size[oop]
           /\ IF IsFree(memory, oop)
              THEN /\ oop \in FreeIn(before.live, S, loc)
                   /\ memory[oop].size = size[oop]
              ELSE \E n \in before.live :
                      loc[n] = oop /\ memory[oop] = Own(n, size, loc)
  <1> DEFINE N == before.live
             Goal == /\ objectAfter(memory, oop) = oop + size[oop]
                     /\ IF IsFree(memory, oop)
                        THEN /\ oop \in FreeIn(N, S, loc)
                             /\ memory[oop].size = size[oop]
                        ELSE \E n \in N :
                                loc[n] = oop /\ memory[oop] = Own(n, size, loc)
  <1>1. /\ endOfMemory = freeBlock + 1 /\ Passes(S, size, loc)
        /\ oop \in S \cup {endOfMemory} /\ compStart <= oop
    BY DEF Forwards, Plans
  <1>2. /\ Placed(N, S, size, loc, endOfMemory)
        /\ compStart \in FreeIn(N, S, loc)
    BY <1>1 DEF Passes
  <1>3. /\ \A a \in S : a \in Nat
        /\ \A a \in S : a \in FreeIn(N, S, loc) \/ \E n \in N : loc[n] = a
        /\ \A a \in FreeIn(N, S, loc) : a \in S
    BY <1>2, PlacedAre
  <1>4. oop \in S /\ oop \in Nat
    BY <1>1, <1>3 DEF Setting
  <1>5. ASSUME oop \in FreeIn(N, S, loc) PROVE Goal
    <2>1. memory[oop] = FreeChunk(size[oop])
      BY <1>4, <1>5, MemoryAssumption DEF Forwards, FreeAre
    <2>2. memory[oop].type = "free" /\ memory[oop].size = size[oop]
      BY <2>1, Words
    <2>3. objectAfter(memory, oop) = oop + size[oop]
      BY <2>2, After
    <2>4. QED
      BY <1>5, <2>2, <2>3 DEF IsFree
  <1>6. ASSUME \E n \in N : loc[n] = oop PROVE Goal
    <2>1. PICK n \in N : loc[n] = oop
      BY <1>6
    <2>2. n \notin Ahead(loc, oop)
      BY <1>4, <2>1 DEF Ahead, Within
    <2>3. memory[oop] = Own(n, size, loc)
      BY <2>1, <2>2 DEF Forwards
    <2>4. memory[oop].type = "object" /\ memory[oop].size = size[oop]
      BY <2>1, <2>3, Words DEF Own
    <2>5. objectAfter(memory, oop) = oop + size[oop]
      BY <2>4, After
    <2>6. QED
      BY <2>1, <2>3, <2>4, <2>5 DEF IsFree
  <1>7. Goal
    BY <1>3, <1>4, <1>5, <1>6
  <1>8. QED
    BY <1>1, <1>2, <1>3, <1>4, <1>7

\* A free chunk is room to slide down.
LEMMA ForwardFreeSafe ==
    ASSUME Setting, operation \in Collections, CollectionInv, incCompMakeFwd,
           oop < endOfMemory, ForwardFree
    PROVE  Setting' /\ CollectionInv'
  <1> DEFINE N == before.live
  <1>1. /\ pc = "forward" /\ Setting' /\ Boundary' /\ before'.pairs = <<>>
        /\ before' = before /\ operation' = operation
        /\ compStart' = compStart /\ freeBlock' = freeBlock
        /\ endOfMemory' = endOfMemory /\ memoryLimit' = memoryLimit
        /\ fwdTableLast' = fwdTableLast
        /\ TableStart(freeBlock + 1)' = TableStart(freeBlock + 1)
        /\ \A S, size, loc : Passes(S, size, loc) => Passes(S, size, loc)'
        /\ \A loc : RootsAre(loc) => RootsAre(loc)'
    BY ForwardFixed
  <1>2. PICK S, size, loc, new, blk :
           Forwards(S, size, loc, new, blk) /\ Handed(loc, blk)
    BY <1>1 DEF CollectionInv
  <1>3. /\ IsFree(memory, oop) /\ oop' = objectAfter(memory, oop)
        /\ bytesFreed' = bytesFreed + memory[oop].size
        /\ memory' = memory /\ fwdTableNext' = fwdTableNext /\ pc' = pc
    BY DEF ForwardFree
  <1>4. /\ endOfMemory = freeBlock + 1 /\ oop \in S /\ oop \in Nat
        /\ Placed(N, S, size, loc, endOfMemory)
        /\ compStart \in Nat /\ compStart <= oop
        /\ oop' = oop + size[oop] /\ oop \in FreeIn(N, S, loc)
        /\ bytesFreed' = bytesFreed + size[oop]
    BY <1>1, <1>2, <1>3, ForwardingIs
  <1>5. /\ size[oop] \in Nat /\ 1 <= size[oop]
        /\ oop + size[oop] \in S \cup {endOfMemory}
    BY <1>4, PlacedAre
  <1>6. /\ Within(N, loc, compStart, oop') = Within(N, loc, compStart, oop)
    BY <1>4, NoneWithin
  <1>7. Ahead(loc, oop)' = Ahead(loc, oop)
    BY <1>1, <1>6 DEF Ahead
  <1>8. Plans(S, size, loc, new, blk, oop)
    BY <1>2 DEF Forwards
  <1>9. bytesFreed \in Nat
    BY <1>8 DEF Plans
  <1>10. oop' - bytesFreed' = oop - bytesFreed
    BY <1>4, <1>5, <1>9
  <1>11. /\ bytesFreed' \in Nat /\ 1 <= bytesFreed' /\ compStart <= oop'
         /\ compStart <= oop' - bytesFreed'
    <2>1. compStart <= oop - bytesFreed
      BY <1>8 DEF Plans
    <2>2. QED
      BY <1>4, <1>5, <1>9, <1>10, <2>1
  <1>12. Plans(S, size, loc, new, blk, oop)'
    BY <1>1, <1>4, <1>5, <1>7, <1>8, <1>10, <1>11 DEF Plans
  <1>13. Forwards(S, size, loc, new, blk)'
    BY <1>1, <1>2, <1>3, <1>7, <1>12 DEF Forwards
  <1>14. Handed(loc, blk)'
    BY <1>1, <1>2, <1>3, <1>7 DEF Handed
  <1>15. QED
    BY <1>1, <1>3, <1>13, <1>14 DEF CollectionInv

\* One more object slides after the others.
LEMMA SlideMore ==
    ASSUME NEW G, NEW size, NEW loc, NEW new, NEW from, NEW to,
           Slides(G, size, loc, new, from, to),
           from \in Nat, to \in Nat, from <= to,
           NEW n0, n0 \in Nat, \A n \in G : n < n0 /\ n \in Nat,
           NEW H, H = G \cup {n0},
           \A n \in H : size[loc[n]] \in {1, 2} /\ loc[n] \in Nat,
           to < loc[n0],
           NEW new2, \A n \in G : new2[n] = new[n], new2[n0] = to,
           NEW to2, to2 = to + size[loc[n0]]
    PROVE  Slides(H, size, loc, new2, from, to2)
  <1>1. size[loc[n0]] \in {1, 2} /\ to2 \in Nat /\ to < to2
    OBVIOUS
  <1>2. from = to2 \/ \E n \in H : new2[n] = from
    <2>1. CASE from = to
      BY <2>1
    <2>2. CASE \E n \in G : new[n] = from
      BY <2>2
    <2>3. QED
      BY <2>1, <2>2 DEF Slides
  <1>3. ASSUME NEW n \in H
        PROVE  /\ new2[n] \in Nat /\ from <= new2[n] /\ new2[n] < loc[n]
               /\ new2[n] + size[loc[n]] <= to2
               /\ new2[n] + size[loc[n]] = to2
                  \/ \E k \in H : new2[k] = new2[n] + size[loc[n]]
    <2>1. CASE n = n0
      BY <1>1, <2>1
    <2>2. CASE n \in G
      <3>1. /\ new[n] \in Nat /\ from <= new[n] /\ new[n] < loc[n]
            /\ new[n] + size[loc[n]] <= to
            /\ new[n] + size[loc[n]] = to
               \/ \E k \in G : new[k] = new[n] + size[loc[n]]
            /\ new2[n] = new[n] /\ size[loc[n]] \in {1, 2}
        BY <2>2 DEF Slides
      <3>2. new2[n] + size[loc[n]] <= to2
        BY <1>1, <3>1
      <3>3. \E k \in H : new2[k] = new2[n] + size[loc[n]]
        BY <3>1
      <3>4. QED
        BY <3>1, <3>2, <3>3
    <2>3. QED
      BY <2>1, <2>2
  <1>4. ASSUME NEW n \in H, NEW k \in H, n < k
        PROVE  new2[n] + size[loc[n]] <= new2[k]
    <2>1. CASE n \in G /\ k \in G
      BY <1>4, <2>1 DEF Slides
    <2>2. CASE n \in G /\ k = n0
      BY <2>2 DEF Slides
    <2>3. CASE n = n0
      <3>1. k \in G => k < n0
        OBVIOUS
      <3>2. QED
        BY <1>4, <2>3, <3>1
    <2>4. QED
      BY <2>1, <2>2, <2>3
  <1>5. QED
    BY <1>2, <1>3, <1>4 DEF Slides

\* An object gets the next block, and slides after those before it.
LEMMA ForwardObjectSafe ==
    ASSUME Setting, operation \in Collections, CollectionInv, incCompMakeFwd,
           oop < endOfMemory, ForwardObject
    PROVE  Setting' /\ CollectionInv'
  <1> DEFINE N == before.live
  <1>1. /\ pc = "forward" /\ Setting' /\ Boundary' /\ before'.pairs = <<>>
        /\ before' = before /\ operation' = operation
        /\ compStart' = compStart /\ freeBlock' = freeBlock
        /\ endOfMemory' = endOfMemory /\ memoryLimit' = memoryLimit
        /\ fwdTableLast' = fwdTableLast
        /\ TableStart(freeBlock + 1)' = TableStart(freeBlock + 1)
        /\ \A S, size, loc : Passes(S, size, loc) => Passes(S, size, loc)'
        /\ \A loc : RootsAre(loc) => RootsAre(loc)'
    BY ForwardFixed
  <1>2. PICK S, size, loc, new, blk :
           Forwards(S, size, loc, new, blk) /\ Handed(loc, blk)
    BY <1>1 DEF CollectionInv
  <1>3. PICK block : block = NextBlock
    OBVIOUS
  <1>4. PICK to : to = oop - bytesFreed
    OBVIOUS
  <1>5. ~OneWay
    BY DEF OneWay, Collections
  <1>6. /\ ~IsFree(memory, oop) /\ oop' = objectAfter(memory, oop)
        /\ bytesFreed' = bytesFreed /\ block <= fwdTableLast
        /\ fwdTableNext' = block /\ pc' = pc
        /\ memory' = [memory EXCEPT ![block] = Oop(to),
                        ![block + 1] = memory[oop],
                        ![oop] = Forwarded(block)]
        /\ block = fwdTableNext + 2
    BY <1>3, <1>4, <1>5
       DEF ForwardObject, IsBlock, initForwardBlock, NextBlock, BlockSize
  <1>7. /\ endOfMemory = freeBlock + 1 /\ oop \in S /\ oop \in Nat
        /\ Placed(N, S, size, loc, endOfMemory)
        /\ compStart \in FreeIn(N, S, loc)
        /\ compStart \in Nat /\ compStart <= oop
        /\ oop' = oop + size[oop]
        /\ \E n \in N : loc[n] = oop /\ memory[oop] = Own(n, size, loc)
    BY <1>1, <1>2, <1>6, ForwardingIs
  <1>8. PICK n0 \in N : loc[n0] = oop /\ memory[oop] = Own(n0, size, loc)
    BY <1>7
  <1>9. /\ \A a \in S : /\ a \in Nat /\ size[a] \in Nat /\ 1 <= size[a]
                        /\ a + size[a] <= endOfMemory
                        /\ a + size[a] \in S \cup {endOfMemory}
        /\ \A n \in N : /\ n \in Nat /\ loc[n] \in Nat /\ loc[n] \in S
                        /\ size[loc[n]] \in {1, 2} /\ size[loc[n]] \in Nat
                        /\ loc[n] + size[loc[n]] <= endOfMemory
        /\ N \subseteq Nat
        /\ \A n, k \in N : n < k => loc[n] + size[loc[n]] <= loc[k]
        /\ \A n, k \in N : loc[n] = loc[k] => n = k
        /\ \A n, k \in N : loc[n] < loc[k] => n < k
        /\ \A a \in FreeIn(N, S, loc) : a \in S
    BY <1>7, PlacedAre
  <1>10. PICK G : G = Ahead(loc, oop)
    OBVIOUS
  <1>11. /\ \A n \in G : n \in N /\ compStart <= loc[n] /\ loc[n] < oop
         /\ n0 \notin G /\ \A n \in G : n < n0
         /\ \A n \in N : loc[n] # oop <=> n # n0
    <2>1. \A n \in G : n \in N /\ compStart <= loc[n] /\ loc[n] < oop
      BY <1>10 DEF Ahead, Within
    <2>2. n0 \notin G
      BY <1>7, <1>8, <2>1
    <2>3. \A n \in G : n < n0
      BY <1>8, <1>9, <2>1
    <2>4. \A n \in N : loc[n] # oop <=> n # n0
      BY <1>8, <1>9
    <2>5. QED
      BY <2>1, <2>2, <2>3, <2>4
  <1>12. compStart < oop
    <2>1. compStart # oop
      BY <1>7, <1>8 DEF FreeIn
    <2>2. QED
      BY <1>7, <2>1
  <1>13. Ahead(loc, oop)' = G \cup {n0}
    <2>1. \A n \in N : loc[n] < oop' <=> (loc[n] < oop \/ n = n0)
      <3> SUFFICES ASSUME NEW n \in N
                   PROVE  loc[n] < oop' <=> (loc[n] < oop \/ n = n0)
        OBVIOUS
      <3>1. loc[n] \in Nat /\ size[oop] \in {1, 2}
        BY <1>8, <1>9
      <3>2. n0 < n \/ n < n0 \/ n = n0
        BY <1>9
      <3>3. n0 < n => oop' <= loc[n]
        BY <1>7, <1>8, <1>9
      <3>4. n < n0 => loc[n] < oop
        BY <1>8, <1>9, <3>1
      <3>5. QED
        BY <1>7, <1>8, <3>1, <3>2, <3>3, <3>4
    <2>2. compStart <= loc[n0]
      BY <1>7, <1>8
    <2>3. QED
      BY <1>1, <1>10, <2>1, <2>2 DEF Ahead, Within
  <1>14. Plans(S, size, loc, new, blk, oop)
    BY <1>2 DEF Forwards
  <1>15. /\ new \in [N -> Nat] /\ bytesFreed \in Nat /\ 1 <= bytesFreed
         /\ \A n \in N \ G : new[n] = loc[n]
         /\ compStart <= to /\ to \in Nat /\ to < oop
         /\ Slides(G, size, loc, new, compStart, to)
         /\ BlocksAre(G, blk, endOfMemory, fwdTableLast)
         /\ fwdTableLast = memoryLimit - 2
    BY <1>4, <1>7, <1>10, <1>12, <1>14 DEF Plans
  <1>16. PICK new2 : new2 = [new EXCEPT ![n0] = to]
    OBVIOUS
  <1>17. /\ new2 \in [N -> Nat] /\ new2[n0] = to
         /\ \A n \in N : n # n0 => new2[n] = new[n]
    BY <1>15, <1>16
  <1>18. PICK blk2 : blk2 = [n \in N |-> IF n = n0 THEN block ELSE blk[n]]
    OBVIOUS
  <1>19. /\ blk2[n0] = block
         /\ \A n \in N : n # n0 => blk2[n] = blk[n]
    BY <1>18
  <1>20. Slides(G \cup {n0}, size, loc, new2, compStart, to + size[oop])
    <2>1. N \in SUBSET Nat /\ G \in SUBSET N /\ to < loc[n0]
      BY <1>8, <1>9, <1>11, <1>15
    <2>2. \A n \in G : new2[n] = new[n]
      BY <1>11, <1>17
    <2>3. \A n \in N : size[loc[n]] \in {1, 2} /\ loc[n] \in Nat
      BY <1>9
    <2>6. /\ compStart \in Nat /\ to \in Nat /\ compStart <= to
          /\ Slides(G, size, loc, new, compStart, to)
      BY <1>7, <1>15
    <2>7. n0 \in N /\ n0 \notin G /\ \A n \in G : n < n0
      BY <1>8, <1>11
    <2>8. new2[n0] = to
      BY <1>17
    <2>9. PICK H : H = G \cup {n0}
      OBVIOUS
    <2>10. PICK to2 : to2 = to + size[loc[n0]]
      OBVIOUS
    <2>11. /\ n0 \in Nat /\ \A n \in G : n < n0 /\ n \in Nat
           /\ \A n \in H : size[loc[n]] \in {1, 2} /\ loc[n] \in Nat
           /\ to < loc[n0]
      BY <2>1, <2>3, <2>7, <2>9
    <2>4. Slides(H, size, loc, new2, compStart, to2)
      BY <2>2, <2>6, <2>8, <2>9, <2>10, <2>11, SlideMore
    <2>5. QED
      BY <1>8, <2>4, <2>9, <2>10
  <1>21. /\ \A n \in G : blk[n] \in Nat /\ endOfMemory < blk[n]
                         /\ blk[n] + 2 <= block
         /\ block \in Nat /\ endOfMemory < block /\ block <= memoryLimit - 2
         /\ block = TableStart(freeBlock + 1) + 2 * (Cardinality(G) + 1)
         /\ IsFiniteSet(G)
    <2>1. TableStart(freeBlock + 1) \in Nat
          /\ freeBlock + 2 <= TableStart(freeBlock + 1)
      <3>1. freeBlock + 1 \in Nat /\ BytesPerWord \in {4, 8}
            /\ freeBlock \in Nat
        BY DEF Setting
      <3>2. TableStart(freeBlock + 1) \in Nat
            /\ (freeBlock + 1) + 1 <= TableStart(freeBlock + 1)
        BY <3>1, TableStartIs
      <3>3. QED
        BY <3>1, <3>2
    <2>2. IsFiniteSet(G) /\ Cardinality(G) \in Nat
      <3>1. G \in SUBSET N /\ IsFiniteSet(N)
        BY <1>11 DEF Setting
      <3>2. QED
        BY <3>1, FS_Subset, FS_CardinalityType
    <2>3. fwdTableNext = TableStart(freeBlock + 1) + 2 * Cardinality(G)
          /\ \A n \in G : blk[n] <= fwdTableNext
      BY <1>2, <1>10 DEF Handed
    <2>4. block = TableStart(freeBlock + 1) + 2 * Cardinality(G) + 2
      BY <1>6, <2>3
    <2>5. freeBlock \in Nat /\ endOfMemory = freeBlock + 1
      BY <1>7 DEF Setting
    <2>6. \A n \in G : blk[n] \in Nat /\ endOfMemory < blk[n]
      BY <1>15 DEF BlocksAre
    <2>7. fwdTableNext \in Nat
      BY <2>1, <2>2, <2>3
    <2>8. \A n \in G : blk[n] + 2 <= block
      BY <1>6, <2>3, <2>6, <2>7
    <2>9. /\ block \in Nat /\ endOfMemory < block /\ block <= memoryLimit - 2
          /\ block = TableStart(freeBlock + 1) + 2 * (Cardinality(G) + 1)
      BY <1>6, <1>15, <2>1, <2>2, <2>4, <2>5
    <2>10. QED
      BY <2>2, <2>6, <2>8, <2>9
  <1>22. BlocksAre(G \cup {n0}, blk2, endOfMemory, fwdTableLast)
    <2>1. \A n \in G : n \in Nat /\ n \in N /\ n # n0
      BY <1>9, <1>11
    <2>2. \A n \in G \cup {n0} : /\ blk2[n] \in Nat /\ endOfMemory < blk2[n]
                                 /\ blk2[n] <= fwdTableLast
      BY <1>15, <1>19, <1>21, <2>1 DEF BlocksAre
    <2>3. ASSUME NEW n \in G \cup {n0}, NEW k \in G \cup {n0}, n < k
          PROVE  blk2[n] + 2 <= blk2[k]
      <3>1. n \in G
        <4>1. n0 \in Nat
          BY <1>9
        <4>2. n = n0 => ~(k \in G) /\ k # n0
          BY <1>11, <2>1, <2>3, <4>1
        <4>3. QED
          BY <4>2
      <3>2. CASE k \in G
        BY <1>15, <1>19, <2>1, <2>3, <3>1, <3>2 DEF BlocksAre
      <3>3. CASE k = n0
        BY <1>19, <1>21, <2>1, <3>1, <3>3
      <3>4. QED
        BY <3>2, <3>3
    <2>4. QED
      BY <2>2, <2>3 DEF BlocksAre
  <1>23. /\ memory'[block] = Oop(to) /\ memory'[block + 1] = memory[oop]
         /\ memory'[oop] = Forwarded(block)
         /\ \A x \in 0..memoryLimit :
               x # oop /\ x # block /\ x # block + 1 =>
                  memory'[x] = memory[x]
    <2>1. PICK u : u = Oop(to)
      OBVIOUS
    <2>2. PICK v : v = memory[oop]
      OBVIOUS
    <2>3. PICK w : w = Forwarded(block)
      OBVIOUS
    <2>4. memory' = [memory EXCEPT ![block] = u, ![block + 1] = v, ![oop] = w]
      BY <1>6, <2>1, <2>2, <2>3
    <2>5. /\ DOMAIN memory = 0..memoryLimit /\ memoryLimit \in Nat
          /\ endOfMemory \in Nat
      BY DEF Setting
    <2>6. oop < block /\ block + 1 <= memoryLimit /\ block \in Nat
      <3>1. oop <= endOfMemory
        BY <1>7, <2>5
      <3>2. QED
        BY <1>7, <1>21, <2>5, <3>1
    <2>7. /\ oop \in 0..memoryLimit /\ block \in 0..memoryLimit
          /\ block + 1 \in 0..memoryLimit
          /\ oop # block /\ oop # block + 1 /\ block # block + 1
      BY <1>7, <2>5, <2>6
    <2>8. QED
      BY <2>1, <2>2, <2>3, <2>4, <2>5, <2>7
  <1>24. \A x \in 0..endOfMemory : x # oop => memory'[x] = memory[x]
    <2>1. endOfMemory \in Nat /\ endOfMemory <= memoryLimit
          /\ memoryLimit \in Nat
      BY DEF Setting
    <2>2. \A x \in 0..endOfMemory : x \in 0..memoryLimit /\ x # block
                                    /\ x # block + 1
      BY <1>21, <2>1
    <2>3. QED
      BY <1>23, <2>2
  <1>25. endOfMemory \in Nat
    BY DEF Setting
  <1>26. Plans(S, size, loc, new2, blk2, oop)'
    <2>1. Passes(S, size, loc)'
      BY <1>1, <1>14 DEF Plans
    <2>2. oop' - bytesFreed' = to + size[oop]
      <3>1. size[oop] \in Nat
        BY <1>7, <1>9
      <3>2. QED
        BY <1>4, <1>6, <1>7, <1>15, <3>1
    <2>3. compStart <= oop' /\ compStart <= to + size[oop]
      <3>1. size[oop] \in Nat
        BY <1>7, <1>9
      <3>2. QED
        BY <1>7, <1>15, <3>1
    <2>4. \A n \in N \ (G \cup {n0}) : new2[n] = loc[n]
      BY <1>15, <1>17
    <2>5. oop' \in S \cup {endOfMemory}
      BY <1>7, <1>9
    <2>6. QED
      BY <1>1, <1>6, <1>7, <1>13, <1>15, <1>17, <1>20, <1>22,
         <2>1, <2>2, <2>3, <2>4, <2>5 DEF Plans
  <1>27. ASSUME NEW n \in G \cup {n0}
         PROVE  InBlock(memory', n, size, loc, new2, blk2)
    <2>1. CASE n = n0
      BY <1>8, <1>17, <1>19, <1>23, <2>1 DEF InBlock
    <2>2. CASE n \in G
      <3>1. InBlock(memory, n, size, loc, new, blk)
        BY <1>2, <1>10, <2>2 DEF Forwards
      <3>2. n \in N /\ n # n0 /\ loc[n] # oop
        BY <1>11, <2>2
      <3>3. loc[n] \in 0..endOfMemory
        BY <1>9, <1>25, <3>2
      <3>4. memory'[loc[n]] = memory[loc[n]]
        BY <1>24, <3>2, <3>3
      <3>5. /\ blk[n] \in Nat /\ endOfMemory < blk[n] /\ blk[n] + 2 <= block
            /\ block <= memoryLimit - 2 /\ block \in Nat
            /\ memoryLimit \in Nat
        BY <1>21, <2>2 DEF Setting
      <3>6. /\ blk[n] \in 0..memoryLimit /\ blk[n] + 1 \in 0..memoryLimit
            /\ blk[n] # block /\ blk[n] + 1 # block
            /\ blk[n] # block + 1 /\ blk[n] + 1 # block + 1
            /\ blk[n] # oop /\ blk[n] + 1 # oop
        BY <1>7, <1>25, <3>5
      <3>7. /\ memory'[blk[n]] = memory[blk[n]]
            /\ memory'[blk[n] + 1] = memory[blk[n] + 1]
        BY <1>23, <3>6
      <3>8. QED
        BY <1>17, <1>19, <3>1, <3>2, <3>4, <3>7 DEF InBlock
    <2>3. QED
      BY <2>1, <2>2
  <1>28. \A n \in N \ (G \cup {n0}) : memory'[loc[n]] = Own(n, size, loc)
    <2> SUFFICES ASSUME NEW n \in N \ (G \cup {n0})
                 PROVE  memory'[loc[n]] = Own(n, size, loc)
      OBVIOUS
    <2>1. memory[loc[n]] = Own(n, size, loc)
      BY <1>2, <1>10 DEF Forwards
    <2>2. loc[n] # oop
      BY <1>11
    <2>3. loc[n] \in 0..endOfMemory
      BY <1>9, <1>25
    <2>4. QED
      BY <1>24, <2>1, <2>2, <2>3
  <1>29. FreeAre(memory', N, S, size, loc, Null)
    <2> SUFFICES ASSUME NEW a \in FreeIn(N, S, loc), a # Null
                 PROVE  memory'[a] = FreeChunk(size[a])
      BY DEF FreeAre
    <2>1. memory[a] = FreeChunk(size[a])
      BY <1>2 DEF Forwards, FreeAre
    <2>2. a \in S /\ a # oop
      BY <1>8, <1>9 DEF FreeIn
    <2>3. a \in 0..endOfMemory
      BY <1>9, <1>25, <2>2
    <2>4. QED
      BY <1>24, <2>1, <2>2, <2>3
  <1>30. FieldsAre(memory', N, size, loc, loc[before.target])
    <2> SUFFICES ASSUME NEW n \in N, size[loc[n]] = 2
                 PROVE  memory'[loc[n] + 1] = Oop(loc[before.target])
      BY DEF FieldsAre
    <2>1. memory[loc[n] + 1] = Oop(loc[before.target])
      BY <1>2 DEF Forwards, FieldsAre
    <2>2. loc[n] + 1 # oop
      <3>1. n < n0 \/ n0 < n \/ n = n0
        BY <1>9
      <3>2. n < n0 => loc[n] + 2 <= oop
        BY <1>8, <1>9
      <3>3. n0 < n => oop < loc[n]
        BY <1>8, <1>9
      <3>4. QED
        BY <1>7, <1>8, <1>9, <3>1, <3>2, <3>3
    <2>3. loc[n] + 1 \in 0..endOfMemory
      BY <1>9, <1>25
    <2>4. QED
      BY <1>24, <2>1, <2>2, <2>3
  <1>31. Forwards(S, size, loc, new2, blk2)'
    <2>1. RootsAre(loc)'
      BY <1>1, <1>2 DEF Forwards
    <2>2. QED
      BY <1>1, <1>13, <1>26, <1>27, <1>28, <1>29, <1>30, <2>1 DEF Forwards
  <1>32. Handed(loc, blk2)'
    <2>1. Cardinality(G \cup {n0}) = Cardinality(G) + 1
      BY <1>11, <1>21, FS_AddElement
    <2>2. \A n \in G \cup {n0} : blk2[n] <= block
      BY <1>11, <1>19, <1>21
    <2>3. QED
      BY <1>1, <1>6, <1>13, <1>21, <2>1, <2>2 DEF Handed
  <1>33. QED
    BY <1>1, <1>6, <1>31, <1>32 DEF CollectionInv

\* A pass that is out of blocks is one of a full compaction, and has moved
\* something.
LEMMA ForwardExhaustedSafe ==
    ASSUME Setting, operation \in Collections, CollectionInv, incCompMakeFwd,
           oop < endOfMemory, ForwardExhausted
    PROVE  Setting' /\ CollectionInv'
  <1> DEFINE N == before.live
  <1>1. /\ pc = "forward" /\ Setting' /\ Boundary' /\ before'.pairs = <<>>
        /\ before' = before /\ operation' = operation
        /\ compStart' = compStart /\ freeBlock' = freeBlock
        /\ endOfMemory' = endOfMemory /\ fwdTableLast' = fwdTableLast
        /\ memoryLimit' = memoryLimit
        /\ EntriesAvailable \in Nat /\ 1 <= EntriesAvailable
        /\ \A S, size, loc : Passes(S, size, loc) => Passes(S, size, loc)'
        /\ \A loc : RootsAre(loc) => RootsAre(loc)'
    BY ForwardFixed
  <1>2. PICK S, size, loc, new, blk :
           Forwards(S, size, loc, new, blk) /\ Handed(loc, blk)
    BY <1>1 DEF CollectionInv
  <1>3. ~OneWay
    BY DEF OneWay, Collections
  <1>4. /\ ~IsFree(memory, oop) /\ ~(fwdTableNext + 2 <= fwdTableLast)
        /\ compEnd' = oop /\ pc' = "map"
        /\ memory' = memory /\ bytesFreed' = bytesFreed /\ oop' = oop
    BY <1>3 DEF ForwardExhausted, IsBlock, NextBlock, BlockSize
  <1>5. /\ endOfMemory = freeBlock + 1 /\ oop \in S /\ oop \in Nat
        /\ Placed(N, S, size, loc, endOfMemory)
        /\ compStart \in Nat /\ compStart <= oop
        /\ \E n \in N : loc[n] = oop
    BY <1>1, <1>2, <1>4, ForwardingIs
  <1>6. PICK n0 \in N : loc[n0] = oop
    BY <1>5
  <1>7. PICK G : G = Ahead(loc, oop)
    OBVIOUS
  <1>8. IsFiniteSet(G) /\ Cardinality(G) \in Nat /\ n0 \notin G
    <2>1. G \in SUBSET N /\ IsFiniteSet(N)
      BY <1>7 DEF Ahead, Within, Setting
    <2>2. n0 \notin G
      BY <1>5, <1>6, <1>7 DEF Ahead, Within
    <2>3. QED
      BY <2>1, <2>2, FS_Subset, FS_CardinalityType
  <1>9. Plans(S, size, loc, new, blk, oop)
    BY <1>2 DEF Forwards
  <1>10. EntriesAvailable < Cardinality(G) + 1
    <2>1. /\ fwdTableNext = TableStart(freeBlock + 1) + 2 * Cardinality(G)
          /\ fwdTableLast = memoryLimit - 2
      BY <1>2, <1>7, <1>9 DEF Handed, Plans
    <2>2. ~(TableStart(freeBlock + 1) + 2 * (Cardinality(G) + 1)
               <= memoryLimit - 2)
      <3>1. TableStart(freeBlock + 1) \in Nat
        <4>1. freeBlock + 1 \in Nat /\ BytesPerWord \in {4, 8}
          BY DEF Setting
        <4>2. QED
          BY <4>1, TableStartIs
      <3>2. QED
        BY <1>4, <1>8, <2>1, <3>1
    <2>3. Cardinality(G) + 1 \in Nat
      BY <1>8
    <2>4. ~(Cardinality(G) + 1 <= EntriesAvailable)
      BY <1>3, <2>2, <2>3, Room
    <2>5. QED
      BY <1>1, <2>3, <2>4
  <1>11. G # {}
    <2>1. Cardinality(G) # 0
      BY <1>1, <1>8, <1>10
    <2>2. QED
      BY <2>1, FS_EmptySet
  <1>12. operation = "full"
    <2> SUFFICES ASSUME operation # "full" PROVE FALSE
      OBVIOUS
    <2>1. operation = "incremental"
      BY DEF Collections
    <2> DEFINE W == Within(N, loc, compStart, freeBlock + 1)
    <2>2. Cardinality(W) <= EntriesAvailable
      BY <1>9, <2>1 DEF Plans, Passes
    <2>3. G \cup {n0} \in SUBSET W
      <3>1. oop < freeBlock + 1 /\ freeBlock + 1 \in Nat
        BY <1>5 DEF Setting
      <3>2. \A n \in N : loc[n] < oop => loc[n] < freeBlock + 1
        <4>1. \A n \in N : loc[n] \in Nat
          BY <1>5, PlacedAre
        <4>2. QED
          BY <1>5, <3>1, <4>1
      <3>3. QED
        BY <1>5, <1>6, <1>7, <3>1, <3>2 DEF Ahead, Within
    <2>4. IsFiniteSet(W)
      <3>1. W \in SUBSET N /\ IsFiniteSet(N)
        BY DEF Within, Setting
      <3> HIDE DEF W
      <3>2. QED
        BY <3>1, FS_Subset
    <2> HIDE DEF W
    <2>5. Cardinality(G \cup {n0}) = Cardinality(G) + 1
      BY <1>8, FS_AddElement
    <2>6. Cardinality(G \cup {n0}) <= Cardinality(W)
      BY <2>3, <2>4, FS_Subset
    <2>7. Cardinality(W) \in Nat
      BY <2>4, FS_CardinalityType
    <2>8. QED
      BY <1>1, <1>8, <1>10, <2>2, <2>5, <2>6, <2>7
  <1>13. Ahead(loc, oop)' = G
    BY <1>1, <1>4, <1>7 DEF Ahead
  <1>14. Plans(S, size, loc, new, blk, oop)'
    <2>1. Passes(S, size, loc)'
      BY <1>1, <1>9 DEF Plans
    <2>2. QED
      BY <1>1, <1>4, <1>7, <1>9, <1>13, <2>1 DEF Plans
  <1>15. Forwards(S, size, loc, new, blk)'
    BY <1>1, <1>2, <1>4, <1>7, <1>13, <1>14 DEF Forwards
  <1>16. RangeEnds(loc)'
    <2>1. Ahead(loc, compEnd)' = G
      BY <1>1, <1>4, <1>7 DEF Ahead
    <2>2. QED
      BY <1>1, <1>4, <1>5, <1>11, <1>12, <2>1 DEF RangeEnds
  <1>17. QED
    BY <1>1, <1>4, <1>15, <1>16 DEF CollectionInv

\* A pass may come to the end of memory.
LEMMA ForwardEndSafe ==
    ASSUME Setting, operation \in Collections, CollectionInv, incCompMakeFwd,
           ForwardEnd
    PROVE  Setting' /\ CollectionInv'
  <1> DEFINE N == before.live
  <1>1. /\ pc = "forward" /\ Setting' /\ Boundary' /\ before'.pairs = <<>>
        /\ before' = before /\ operation' = operation
        /\ compStart' = compStart /\ freeBlock' = freeBlock
        /\ endOfMemory' = endOfMemory /\ fwdTableLast' = fwdTableLast
        /\ memoryLimit' = memoryLimit
        /\ \A S, size, loc : Passes(S, size, loc) => Passes(S, size, loc)'
        /\ \A loc : RootsAre(loc) => RootsAre(loc)'
    BY ForwardFixed
  <1>2. PICK S, size, loc, new, blk :
           Forwards(S, size, loc, new, blk) /\ Handed(loc, blk)
    BY <1>1 DEF CollectionInv
  <1>3. /\ oop >= endOfMemory /\ compEnd' = endOfMemory /\ pc' = "map"
        /\ memory' = memory /\ bytesFreed' = bytesFreed /\ oop' = oop
    BY DEF ForwardEnd
  <1>4. Plans(S, size, loc, new, blk, oop)
    BY <1>2 DEF Forwards
  <1>5. oop = endOfMemory
    <2>1. Placed(N, S, size, loc, endOfMemory) /\ oop \in S \cup {endOfMemory}
      BY <1>4 DEF Plans, Passes
    <2>2. \A a \in S : /\ a \in Nat /\ size[a] \in Nat /\ 1 <= size[a]
                       /\ a + size[a] <= endOfMemory /\ endOfMemory \in Nat
      BY <2>1, PlacedAre
    <2>3. QED
      BY <1>3, <2>1, <2>2
  <1>6. Ahead(loc, oop)' = Ahead(loc, oop)
    BY <1>1, <1>3 DEF Ahead
  <1>7. Plans(S, size, loc, new, blk, oop)'
    <2>1. Passes(S, size, loc)'
      BY <1>1, <1>4 DEF Plans
    <2>2. QED
      BY <1>1, <1>3, <1>4, <1>6, <2>1 DEF Plans
  <1>8. Forwards(S, size, loc, new, blk)'
    BY <1>1, <1>2, <1>3, <1>6, <1>7 DEF Forwards
  <1>9. RangeEnds(loc)'
    BY <1>1, <1>3 DEF RangeEnds
  <1>10. QED
    BY <1>1, <1>3, <1>5, <1>8, <1>9 DEF CollectionInv

\* A step that plans where the objects go keeps the invariant.
LEMMA MakeFwdSafe ==
    ASSUME Setting, operation \in Collections, CollectionInv, incCompMakeFwd
    PROVE  Setting' /\ CollectionInv'
  <1>1. \/ oop < endOfMemory
           /\ (ForwardFree \/ ForwardObject \/ ForwardExhausted)
        \/ ForwardEnd
    BY DEF incCompMakeFwd
  <1>2. QED
    BY <1>1, ForwardFreeSafe, ForwardObjectSafe, ForwardExhaustedSafe,
       ForwardEndSafe
-----------------------------------------------------------------------------
(* Mapping: every pointer is updated once.                                 *)

\* The fields of some objects are updated, and no other word.
FieldsRemapped(m, A, N, size, loc, m2) ==
    /\ DOMAIN m2 = DOMAIN m
    /\ \A n \in N : loc[n] \in A /\ size[loc[n]] = 2
                    /\ loc[n] + 1 \in DOMAIN m =>
          m2[loc[n] + 1] = remapField(m[loc[n] + 1])
    /\ \A x \in DOMAIN m :
          (\A n \in N : loc[n] \in A /\ size[loc[n]] = 2 => x # loc[n] + 1)
             => m2[x] = m[x]

\* Remapping changes the fields of the given objects and no other word.
LEMMA RemapFieldsIs ==
    ASSUME NEW m, NEW A, NEW N, NEW size, NEW loc,
           \A a \in A : \E n \in N : loc[n] = a,
           \A n \in N : /\ loc[n] \in Nat /\ size[loc[n]] \in {1, 2}
                        /\ objectAfter(memory, loc[n])
                              = loc[n] + size[loc[n]],
           NEW m2, m2 = RemapFields(m, A)
    PROVE  FieldsRemapped(m, A, N, size, loc, m2)
  <1> DEFINE Fields == UNION {(a + 1)..(objectAfter(memory, a) - 1) : a \in A}
  <1>1. m2 = [x \in DOMAIN m |-> IF x \in Fields THEN remapField(m[x])
                                                 ELSE m[x]]
    BY DEF RemapFields
  <1>2. \A n \in N : (loc[n] + 1)..(objectAfter(memory, loc[n]) - 1)
                        = IF size[loc[n]] = 2 THEN {loc[n] + 1} ELSE {}
    <2> SUFFICES ASSUME NEW n \in N
                 PROVE  (loc[n] + 1)..(objectAfter(memory, loc[n]) - 1)
                           = IF size[loc[n]] = 2 THEN {loc[n] + 1} ELSE {}
      OBVIOUS
    <2>1. loc[n] \in Nat /\ objectAfter(memory, loc[n])
                               = loc[n] + size[loc[n]]
      OBVIOUS
    <2>2. CASE size[loc[n]] = 1
      BY <2>1, <2>2
    <2>3. CASE size[loc[n]] = 2
      BY <2>1, <2>3
    <2>4. QED
      BY <2>2, <2>3
  <1>3. ASSUME NEW n \in N, loc[n] \in A, size[loc[n]] = 2
        PROVE  loc[n] + 1 \in Fields
    BY <1>2, <1>3
  <1>4. ASSUME NEW x \in Fields
        PROVE  \E n \in N : /\ loc[n] \in A /\ size[loc[n]] = 2
                            /\ x = loc[n] + 1
    <2>1. PICK a \in A : x \in (a + 1)..(objectAfter(memory, a) - 1)
      OBVIOUS
    <2>2. PICK n \in N : loc[n] = a
      OBVIOUS
    <2>3. x \in IF size[loc[n]] = 2 THEN {loc[n] + 1} ELSE {}
      BY <1>2, <2>1, <2>2
    <2>4. QED
      BY <2>2, <2>3
  <1> HIDE DEF Fields
  <1>5. QED
    BY <1>1, <1>3, <1>4 DEF FieldsRemapped

\* All objects have their fields updated, once, and the registers.
LEMMA Mapped ==
    ASSUME Setting, before' = before, NEW S, NEW size, NEW loc, NEW to,
           Placed(before.live, S, size, loc, endOfMemory),
           \A n \in before.live :
              /\ ~IsFree(memory, loc[n])
              /\ RealHeader(memory, loc[n]).size = size[loc[n]]
              /\ remap(loc[n]) = to[n],
           \A a \in FreeIn(before.live, S, loc) :
              memory[a] = FreeChunk(size[a]),
           FieldsAre(memory, before.live, size, loc, loc[before.target]),
           RootsAre(loc), NEW memStart,
           \/ memStart = 0 /\ rootTable \subseteq {0}
           \/ memStart = 2 /\ rootTable = {0} /\ to[0] = loc[0],
           mapPointersInObjects(memStart, endOfMemory)
    PROVE  /\ DOMAIN memory' = DOMAIN memory
           /\ FieldsAre(memory', before.live, size, loc, to[before.target])
           /\ \A x \in DOMAIN memory :
                 (\A n \in before.live : size[loc[n]] = 2 => x # loc[n] + 1)
                    => memory'[x] = memory[x]
           /\ RootsAre(to)'
  <1> DEFINE N == before.live
             t == before.target
             A == RootsOutside(memStart, endOfMemory)
             B == Objects(memory, memStart, endOfMemory)
  <1>1. /\ \A a \in S : a \in Nat
        /\ 0 \in S /\ 0 \in N /\ loc[0] = 0 /\ size[0] = 2
        /\ \A n \in N : /\ n \in Nat /\ loc[n] \in Nat /\ loc[n] \in S
                        /\ size[loc[n]] \in {1, 2}
                        /\ loc[n] + size[loc[n]] <= endOfMemory
                        /\ n # 0 => 2 <= loc[n]
        /\ \A n, k \in N : loc[n] = loc[k] => n = k
        /\ 2 < endOfMemory => 2 \in S
    BY PlacedAre
  <1>2. /\ endOfMemory \in Nat /\ 2 < endOfMemory /\ memoryLimit \in Nat
        /\ endOfMemory <= memoryLimit /\ DOMAIN memory = 0..memoryLimit
        /\ t \in N /\ IsFiniteSet(N)
    BY DEF Setting
  <1>3. memStart \in S
    BY <1>1, <1>2
  <1>4. /\ \A a \in S : objectAfter(memory, a) = a + size[a]
        /\ B = {a \in S : memStart <= a /\ \E n \in N : loc[n] = a}
    <2>1. \A n \in N : /\ ~IsFree(memory, loc[n])
                       /\ RealHeader(memory, loc[n]).size = size[loc[n]]
      OBVIOUS
    <2>2. \A a \in FreeIn(N, S, loc) : memory[a] = FreeChunk(size[a])
      OBVIOUS
    <2>3. Placed(N, S, size, loc, endOfMemory)
      OBVIOUS
    <2>4. Walkable(memory, N, S, size, loc, endOfMemory)
      BY <2>1, <2>2, <2>3 DEF Walkable
    <2>5. QED
      BY <1>3, <2>4, HeapWalk
  <1>5. /\ \A a \in A \cup B : \E n \in N : loc[n] = a
        /\ \A n \in N : loc[n] \in A <=> loc[n] \notin B
    <2>1. CASE memStart = 0 /\ rootTable \subseteq {0}
      <3>1. A = {}
        BY <1>2, <2>1 DEF RootsOutside
      <3>2. \A n \in N : loc[n] \in B
        BY <1>1, <1>4, <2>1
      <3>3. QED
        BY <1>4, <3>1, <3>2
    <2>2. CASE memStart = 2 /\ rootTable = {0}
      <3>1. A = {0}
        BY <1>2, <2>2 DEF RootsOutside
      <3>2. \A n \in N : n # 0 => loc[n] \in B /\ loc[n] # 0
        BY <1>1, <1>4, <2>2
      <3>3. loc[0] \notin B
        BY <1>1, <1>4, <2>2
      <3>4. \A a \in B : \E n \in N : loc[n] = a
        BY <1>4
      <3> HIDE DEF A, B
      <3>5. QED
        BY <1>1, <3>1, <3>2, <3>3, <3>4
    <2>3. QED
      BY <2>1, <2>2
  <1>6. PICK m1 : m1 = RemapFields(memory, A)
    OBVIOUS
  <1>7. memory' = RemapFields(m1, B)
    BY <1>6 DEF mapPointersInObjects
  <1>8. PICK m2 : m2 = memory'
    OBVIOUS
  <1> HIDE DEF A, B
  <1>9. \A n \in N : /\ loc[n] \in Nat /\ size[loc[n]] \in {1, 2}
                     /\ objectAfter(memory, loc[n]) = loc[n] + size[loc[n]]
    BY <1>1, <1>4
  <1>16. FieldsRemapped(memory, A, N, size, loc, m1)
    <2>1. \A a \in A : \E n \in N : loc[n] = a
      BY <1>5
    <2>2. QED
      BY <1>6, <1>9, <2>1, RemapFieldsIs
  <1>17. FieldsRemapped(m1, B, N, size, loc, m2)
    <2>1. \A a \in B : \E n \in N : loc[n] = a
      BY <1>5
    <2>2. m2 = RemapFields(m1, B)
      BY <1>7, <1>8
    <2>3. QED
      BY <1>9, <2>1, <2>2, RemapFieldsIs
  <1>10. /\ DOMAIN m1 = DOMAIN memory
         /\ \A n \in N : loc[n] \in A /\ size[loc[n]] = 2
                         /\ loc[n] + 1 \in DOMAIN memory =>
               m1[loc[n] + 1] = remapField(memory[loc[n] + 1])
         /\ \A x \in DOMAIN memory :
               (\A n \in N : loc[n] \in A /\ size[loc[n]] = 2 =>
                                x # loc[n] + 1)
                  => m1[x] = memory[x]
    BY <1>16 DEF FieldsRemapped
  <1>11. /\ DOMAIN m2 = DOMAIN m1
         /\ \A n \in N : loc[n] \in B /\ size[loc[n]] = 2
                         /\ loc[n] + 1 \in DOMAIN m1 =>
               m2[loc[n] + 1] = remapField(m1[loc[n] + 1])
         /\ \A x \in DOMAIN m1 :
               (\A n \in N : loc[n] \in B /\ size[loc[n]] = 2 =>
                                x # loc[n] + 1)
                  => m2[x] = m1[x]
    BY <1>17 DEF FieldsRemapped
  <1>12. FieldsAre(m2, N, size, loc, to[t])
    <2> SUFFICES ASSUME NEW n \in N, size[loc[n]] = 2
                 PROVE  m2[loc[n] + 1] = Oop(to[t])
      BY DEF FieldsAre
    <2>1. loc[n] + 1 \in DOMAIN memory
      BY <1>1, <1>2
    <2>2. memory[loc[n] + 1] = Oop(loc[t])
      BY DEF FieldsAre
    <2>3. remapField(memory[loc[n] + 1]) = Oop(to[t])
      BY <1>2, <2>2, Words DEF remapField
    <2>4. \A k \in N : loc[k] + 1 = loc[n] + 1 => k = n
      BY <1>1
    <2>5. CASE loc[n] \in A
      <3>1. m1[loc[n] + 1] = remapField(memory[loc[n] + 1])
        BY <1>10, <2>1, <2>5
      <3>2. \A k \in N : loc[k] \in B => loc[n] + 1 # loc[k] + 1
        BY <1>5, <2>4, <2>5
      <3>3. m2[loc[n] + 1] = m1[loc[n] + 1]
        BY <1>10, <1>11, <2>1, <3>2
      <3>4. QED
        BY <2>3, <3>1, <3>3
    <2>6. CASE loc[n] \notin A
      <3>1. \A k \in N : loc[k] \in A => loc[n] + 1 # loc[k] + 1
        BY <2>4, <2>6
      <3>2. m1[loc[n] + 1] = memory[loc[n] + 1]
        BY <1>10, <2>1, <3>1
      <3>3. m2[loc[n] + 1] = remapField(m1[loc[n] + 1])
        BY <1>5, <1>10, <1>11, <2>1, <2>6
      <3>4. QED
        BY <2>3, <3>2, <3>3
    <2>7. QED
      BY <2>5, <2>6
  <1>13. \A x \in DOMAIN memory :
            (\A n \in N : size[loc[n]] = 2 => x # loc[n] + 1)
               => m2[x] = memory[x]
    <2> SUFFICES ASSUME NEW x \in DOMAIN memory,
                        \A n \in N : size[loc[n]] = 2 => x # loc[n] + 1
                 PROVE  m2[x] = memory[x]
      OBVIOUS
    <2>1. m1[x] = memory[x]
      BY <1>10
    <2>2. m2[x] = m1[x]
      BY <1>10, <1>11
    <2>3. QED
      BY <2>1, <2>2
  <1>14. RootsAre(to)'
    <2> DEFINE I == 1..Cardinality(N)
               s == SetToSeq(N)
    <2>1. s \in [I -> N]
      BY <1>2, SetToSeqIs
    <2>2. interpreterOops = [i \in I |-> loc[s[i]]]
      BY DEF RootsAre
    <2>3. interpreterOops' = [i \in I |-> remap(loc[s[i]])]
      BY <2>2 DEF mapPointersInObjects
    <2>4. \A i \in I : s[i] \in N /\ remap(loc[s[i]]) = to[s[i]]
      BY <2>1
    <2>5. interpreterOops' = [i \in I |-> to[s[i]]]
      BY <2>3, <2>4
    <2>6. methodCache' \in {Null, to[t]}
      <3>1. methodCache' = flushMethodCache(memStart, endOfMemory)
        BY DEF mapPointersInObjects
      <3>2. methodCache \in {Null, loc[t]}
        BY DEF RootsAre
      <3>3. CASE methodCache = Null
        BY <3>1, <3>3 DEF flushMethodCache
      <3>4. CASE methodCache = loc[t] /\ methodCache # Null
        <4>1. loc[t] \in Nat /\ loc[t] < endOfMemory
          BY <1>1, <1>2
        <4>2. CASE loc[t] >= memStart
          BY <3>1, <3>4, <4>1, <4>2 DEF flushMethodCache
        <4>3. CASE ~(loc[t] >= memStart)
          <5>1. memStart = 2 /\ to[0] = loc[0]
            BY <4>1, <4>3
          <5>2. t = 0
            BY <1>1, <1>2, <4>1, <4>3, <5>1
          <5>3. methodCache' = loc[t]
            BY <3>1, <3>4, <4>3 DEF flushMethodCache
          <5>4. QED
            BY <5>1, <5>2, <5>3
        <4>4. QED
          BY <4>2, <4>3
      <3>5. QED
        BY <3>2, <3>3, <3>4
    <2>7. QED
      BY <2>5, <2>6 DEF RootsAre
  <1>15. QED
    BY <1>8, <1>10, <1>11, <1>12, <1>13, <1>14

\* What is found by way of a block.
LEMMA InBlockIs ==
    ASSUME NEW m, NEW n, NEW size, NEW loc, NEW new, NEW blk,
           InBlock(m, n, size, loc, new, blk)
    PROVE  /\ ~IsFree(m, loc[n]) /\ IsForwarded(m, loc[n])
           /\ RealHeader(m, loc[n]) = Own(n, size, loc)
           /\ RealHeader(m, loc[n]).size = size[loc[n]]
           /\ m[m[loc[n]].block].at = new[n]
           /\ objectAfter(m, loc[n]) = loc[n] + size[loc[n]]
  <1>1. /\ m[loc[n]] = Forwarded(blk[n]) /\ m[blk[n]] = Oop(new[n])
        /\ m[blk[n] + 1] = Own(n, size, loc)
    BY DEF InBlock
  <1>2. m[loc[n]].type = "forwarded" /\ m[loc[n]].block = blk[n]
    BY <1>1, Words
  <1>3. ~IsFree(m, loc[n]) /\ IsForwarded(m, loc[n])
    BY <1>2 DEF IsFree, IsForwarded
  <1>4. RealHeader(m, loc[n]) = Own(n, size, loc)
    BY <1>1, <1>2, <1>3 DEF RealHeader
  <1>5. m[m[loc[n]].block].at = new[n]
    BY <1>1, <1>2, Words
  <1>6. RealHeader(m, loc[n]).size = size[loc[n]]
    BY <1>4, Words DEF Own
  <1>7. QED
    BY <1>3, <1>4, <1>5, <1>6 DEF objectAfter

\* The words of a heap that are not fields.
LEMMA NotFields ==
    ASSUME NEW N, NEW S, NEW size, NEW loc, NEW end,
           Placed(N, S, size, loc, end)
    PROVE  /\ \A n \in N : size[loc[n]] = 2 =>
                 loc[n] + 1 \in Nat /\ loc[n] + 1 < end /\ loc[n] + 1 \notin S
           /\ \A a \in S : a \in Nat /\ a < end
  <1>1. /\ end \in Nat
        /\ \A a \in S : /\ a \in Nat /\ size[a] \in Nat /\ 1 <= size[a]
                        /\ a + size[a] <= end
        /\ \A a, b \in S : a < b => a + size[a] <= b
        /\ \A n \in N : loc[n] \in Nat /\ loc[n] \in S
    BY PlacedAre
  <1>2. ASSUME NEW n \in N, size[loc[n]] = 2
        PROVE  loc[n] + 1 \in Nat /\ loc[n] + 1 < end /\ loc[n] + 1 \notin S
    <2>1. loc[n] \in Nat /\ loc[n] + 2 <= end
      BY <1>1, <1>2
    <2>2. ASSUME loc[n] + 1 \in S PROVE FALSE
      <3>1. loc[n] \in S /\ loc[n] < loc[n] + 1
        BY <1>1
      <3>2. loc[n] + size[loc[n]] <= loc[n] + 1
        BY <1>1, <2>2, <3>1
      <3>3. QED
        BY <1>2, <2>1, <3>2
    <2>3. QED
      BY <1>1, <2>1, <2>2
  <1>3. \A a \in S : a \in Nat /\ a < end
    BY <1>1
  <1>4. QED
    BY <1>2, <1>3

\* Every pointer to an object that will move says where to.
LEMMA MapCompactionSafe ==
    ASSUME Setting, operation \in Collections, CollectionInv, MapCompaction
    PROVE  Setting' /\ CollectionInv'
  <1> DEFINE N == before.live
             t == before.target
  <1>1. /\ pc = "map" /\ pc' = "move" /\ oop' = compStart /\ newOop' = Null
        /\ mapPointersInObjects(youngStart, endOfMemory)
        /\ UNCHANGED <<fixedVars, tableVars, compVars, youngStart, freeBlock,
                       endOfMemory, totalObjectCount, sweep, rootTable>>
    BY DEF MapCompaction, mapPointersInObjects
  <1>2. /\ operation' = operation /\ before' = before
        /\ memoryLimit' = memoryLimit /\ BytesPerWord' = BytesPerWord
        /\ compStart' = compStart /\ compEnd' = compEnd
        /\ bytesFreed' = bytesFreed /\ fwdTableLast' = fwdTableLast
    BY <1>1 DEF fixedVars, compVars, tableVars
  <1>3. PICK S, size, loc, new, blk :
           Forwards(S, size, loc, new, blk) /\ compEnd = oop /\ RangeEnds(loc)
    BY <1>1 DEF CollectionInv
  <1>4. PICK G : G = Ahead(loc, oop)
    OBVIOUS
  <1>5. /\ Plans(S, size, loc, new, blk, oop)
        /\ \A n \in G : InBlock(memory, n, size, loc, new, blk)
        /\ \A n \in N \ G : memory[loc[n]] = Own(n, size, loc)
        /\ FreeAre(memory, N, S, size, loc, Null)
        /\ FieldsAre(memory, N, size, loc, loc[t])
        /\ RootsAre(loc)
    BY <1>3, <1>4 DEF Forwards
  <1>6. /\ Passes(S, size, loc) /\ endOfMemory = freeBlock + 1
        /\ \A n \in N \ G : new[n] = loc[n]
        /\ fwdTableLast = memoryLimit - 2
        /\ BlocksAre(G, blk, endOfMemory, fwdTableLast)
    BY <1>4, <1>5 DEF Plans
  <1>7. /\ Placed(N, S, size, loc, endOfMemory)
        /\ compStart \in FreeIn(N, S, loc)
    BY <1>6 DEF Passes
  <1>8. /\ 0 \in N /\ loc[0] = 0
        /\ \A n \in N : loc[n] \in Nat /\ loc[n] \in S
        /\ \A a \in FreeIn(N, S, loc) : a \in S /\ a \in Nat /\ 2 <= a
    BY <1>7, PlacedAre
  <1>9. /\ \A n \in N : size[loc[n]] = 2 =>
              loc[n] + 1 \in Nat /\ loc[n] + 1 < endOfMemory
              /\ loc[n] + 1 \notin S
        /\ \A a \in S : a \in Nat /\ a < endOfMemory
    BY <1>7, NotFields
  <1>10. /\ DOMAIN memory = 0..memoryLimit /\ memoryLimit \in Nat
         /\ endOfMemory \in Nat /\ endOfMemory <= memoryLimit
    BY DEF Setting
  <1>11. \A a \in FreeIn(N, S, loc) : memory[a] = FreeChunk(size[a])
    BY <1>5, <1>8, MemoryAssumption DEF FreeAre
  <1>12. ASSUME NEW n \in N
         PROVE  /\ ~IsFree(memory, loc[n])
                /\ RealHeader(memory, loc[n]).size = size[loc[n]]
                /\ remap(loc[n]) = new[n]
    <2>1. CASE n \in G
      <3>1. InBlock(memory, n, size, loc, new, blk)
        BY <1>5, <2>1
      <3>2. QED
        BY <3>1, InBlockIs DEF remap
    <2>2. CASE n \notin G
      <3>1. memory[loc[n]] = Header(n, size[loc[n]], n) /\ new[n] = loc[n]
        BY <1>5, <1>6, <2>2 DEF Own
      <3>2. QED
        BY <3>1, PlainHeaders DEF remap
    <2>3. QED
      BY <2>1, <2>2
  <1>13. PICK memStart : memStart = youngStart
    OBVIOUS
  <1>14. \/ memStart = 0 /\ rootTable \subseteq {0}
         \/ memStart = 2 /\ rootTable = {0} /\ new[0] = loc[0]
    <2>1. CASE operation = "full"
      BY <1>1, <1>13, <2>1 DEF CollectionInv, Boundary
    <2>2. CASE operation # "full"
      <3>1. 0 \notin G
        BY <1>4, <1>7, <1>8 DEF Ahead, Within
      <3>2. QED
        BY <1>6, <1>8, <1>13, <2>2, <3>1 DEF CollectionInv, Boundary
    <2>3. QED
      BY <2>1, <2>2
  <1>15. /\ DOMAIN memory' = DOMAIN memory
         /\ FieldsAre(memory', N, size, loc, new[t])
         /\ \A x \in DOMAIN memory :
               (\A n \in N : size[loc[n]] = 2 => x # loc[n] + 1)
                  => memory'[x] = memory[x]
         /\ RootsAre(new)'
    <2>1. mapPointersInObjects(memStart, endOfMemory)
      BY <1>1, <1>13
    <2>2. QED
      BY <1>2, <1>5, <1>7, <1>11, <1>12, <1>14, <2>1, Mapped
  <1>16. \A a \in S : memory'[a] = memory[a]
    BY <1>9, <1>10, <1>15
  <1>17. \A n \in G : InBlock(memory', n, size, loc, new, blk)
    <2> SUFFICES ASSUME NEW n \in G
                 PROVE  InBlock(memory', n, size, loc, new, blk)
      OBVIOUS
    <2>1. InBlock(memory, n, size, loc, new, blk) /\ n \in N
      BY <1>4, <1>5 DEF Ahead, Within
    <2>2. blk[n] \in Nat /\ endOfMemory < blk[n] /\ blk[n] <= memoryLimit - 2
      BY <1>6 DEF BlocksAre
    <2>3. memory'[blk[n]] = memory[blk[n]]
      <3>1. blk[n] \in DOMAIN memory
        BY <1>10, <2>2
      <3>2. \A k \in N : size[loc[k]] = 2 => blk[n] # loc[k] + 1
        BY <1>9, <1>10, <2>2
      <3>3. QED
        BY <1>15, <3>1, <3>2
    <2>4. memory'[blk[n] + 1] = memory[blk[n] + 1]
      <3>1. blk[n] + 1 \in DOMAIN memory
        BY <1>10, <2>2
      <3>2. \A k \in N : size[loc[k]] = 2 => blk[n] + 1 # loc[k] + 1
        BY <1>9, <1>10, <2>2
      <3>3. QED
        BY <1>15, <3>1, <3>2
    <2>5. memory'[loc[n]] = memory[loc[n]]
      BY <1>8, <1>16, <2>1
    <2>6. QED
      BY <2>1, <2>3, <2>4, <2>5 DEF InBlock
  <1>18. \A n \in N \ G : memory'[loc[n]] = Own(n, size, loc)
    BY <1>5, <1>8, <1>16
  <1>19. \A n \in N : ~(loc[n] < compStart /\ n \in G)
    BY <1>4, <1>7, <1>8 DEF Ahead, Within
  <1>20. \A n \in N : size[loc[n]] = 2 =>
            memory'[(IF loc[n] < compStart THEN new[n] ELSE loc[n]) + 1]
               = Oop(new[t])
    BY <1>6, <1>15, <1>19 DEF FieldsAre
  <1>21. \A a \in FreeIn(N, S, loc) : memory'[a] = FreeChunk(size[a])
    BY <1>8, <1>11, <1>16
  <1>22. Setting' /\ Boundary' /\ before'.pairs = <<>>
    BY <1>1, <1>2, <1>15 DEF Setting, Boundary, CollectionInv
  <1>23. EntriesAvailable' = EntriesAvailable
    BY <1>1, <1>2 DEF EntriesAvailable, BlockSize, OneWay, TableStart
  <1>24. Ahead(loc, compEnd)' = G /\ Ahead(loc, oop)' = {}
    <2>1. Ahead(loc, compEnd)' = G
      BY <1>2, <1>3, <1>4 DEF Ahead
    <2>2. Ahead(loc, oop)' = {}
      BY <1>1, <1>2, <1>7, <1>8 DEF Ahead, Within
    <2>3. QED
      BY <2>1, <2>2
  <1>25. Plans(S, size, loc, new, blk, compEnd)'
    <2>1. Passes(S, size, loc)'
      BY <1>1, <1>2, <1>6, <1>23 DEF Passes
    <2>2. QED
      BY <1>1, <1>2, <1>3, <1>4, <1>5, <1>24, <2>1 DEF Plans
  <1>26. RangeEnds(loc)'
    <2>1. Ahead(loc, compEnd)' = Ahead(loc, compEnd)
      BY <1>3, <1>4, <1>24
    <2>2. QED
      BY <1>1, <1>2, <1>3, <2>1 DEF RangeEnds
  <1>27. Moves(S, size, loc, new, blk)'
    <2>1. \A n \in G : ~(loc[n] < compStart)
      BY <1>4, <1>19 DEF Ahead, Within
    <2>2. compStart \in S /\ compStart <= compStart /\ compStart <= compEnd
      BY <1>3, <1>5, <1>7, <1>8 DEF Plans
    <2>3. memory'[compStart] = FreeChunk(size[compStart])
      BY <1>7, <1>21
    <2>4. QED
      BY <1>1, <1>2, <1>15, <1>17, <1>18, <1>20, <1>21, <1>24, <1>25, <1>26,
         <2>1, <2>2, <2>3 DEF Moves
  <1>28. QED
    BY <1>1, <1>22, <1>27 DEF CollectionInv
-----------------------------------------------------------------------------
(* Moving.                                                                 *)

\* What a step of the moving does not change, and where it is.
LEMMA MovingIs ==
    ASSUME Setting, operation \in Collections, CollectionInv, MoveChunk,
           NEW S, NEW size, NEW loc, NEW new, NEW blk,
           Moves(S, size, loc, new, blk)
    PROVE  /\ pc = "move" /\ pc' = "move" /\ oop < compEnd
           /\ before' = before /\ operation' = operation
           /\ compStart' = compStart /\ freeBlock' = freeBlock
           /\ endOfMemory' = endOfMemory /\ memoryLimit' = memoryLimit
           /\ fwdTableLast' = fwdTableLast /\ compEnd' = compEnd
           /\ bytesFreed' = bytesFreed
           /\ Passes(S, size, loc)' /\ RootsAre(new)'
           /\ Placed(before.live, S, size, loc, endOfMemory)
           /\ compStart \in FreeIn(before.live, S, loc)
           /\ oop \in S /\ oop \in Nat /\ compStart <= oop
           /\ oop + size[oop] \in S \cup {endOfMemory}
           /\ oop + size[oop] <= compEnd
           /\ oop' = oop + size[oop]
           /\ IF IsFree(memory, oop)
              THEN oop \in FreeIn(before.live, S, loc)
              ELSE \E n \in Ahead(loc, compEnd) :
                      loc[n] = oop /\ InBlock(memory, n, size, loc, new, blk)
  <1> DEFINE N == before.live
             Goal == /\ objectAfter(memory, oop) = oop + size[oop]
                     /\ IF IsFree(memory, oop)
                        THEN oop \in FreeIn(N, S, loc)
                        ELSE \E n \in Ahead(loc, compEnd) :
                                /\ loc[n] = oop
                                /\ InBlock(memory, n, size, loc, new, blk)
  <1>1. /\ pc = "move" /\ pc' = "move" /\ oop < compEnd
        /\ oop' = objectAfter(memory, oop)
        /\ UNCHANGED <<fixedVars, pointerVars, tableVars, compVars,
                       youngStart, freeBlock, endOfMemory>>
    BY DEF MoveChunk
  <1>2. /\ operation' = operation /\ before' = before
        /\ memoryLimit' = memoryLimit /\ BytesPerWord' = BytesPerWord
        /\ compStart' = compStart /\ compEnd' = compEnd
        /\ bytesFreed' = bytesFreed /\ fwdTableLast' = fwdTableLast
        /\ UNCHANGED <<interpreterOops, methodCache>>
    BY <1>1 DEF fixedVars, compVars, tableVars, pointerVars
  <1>3. /\ Passes(S, size, loc) /\ endOfMemory = freeBlock + 1
        /\ oop \in S \cup {endOfMemory} /\ compStart <= oop
        /\ compEnd \in S \cup {endOfMemory}
        /\ RootsAre(new)
    BY DEF Moves, Plans
  <1>4. EntriesAvailable' = EntriesAvailable
    BY <1>1, <1>2 DEF EntriesAvailable, BlockSize, OneWay, TableStart
  <1>5. Passes(S, size, loc)' /\ RootsAre(new)'
    BY <1>1, <1>2, <1>3, <1>4 DEF Passes, RootsAre
  <1>6. /\ Placed(N, S, size, loc, endOfMemory)
        /\ compStart \in FreeIn(N, S, loc)
    BY <1>3 DEF Passes
  <1>7. /\ \A a \in S : /\ a \in Nat /\ size[a] \in Nat /\ 1 <= size[a]
                        /\ a + size[a] <= endOfMemory
                        /\ a + size[a] \in S \cup {endOfMemory}
        /\ \A a, b \in S : a < b => a + size[a] <= b
        /\ \A a \in S : a \in FreeIn(N, S, loc) \/ \E n \in N : loc[n] = a
        /\ endOfMemory \in Nat
    BY <1>6, PlacedAre
  <1>8. oop \in S /\ oop \in Nat
    BY <1>1, <1>3, <1>7
  <1>9. oop + size[oop] <= compEnd
    BY <1>1, <1>3, <1>7, <1>8
  <1>10. ASSUME oop \in FreeIn(N, S, loc) PROVE Goal
    <2>1. oop >= oop
      BY <1>8
    <2>2. memory[oop] = FreeChunk(size[oop])
      BY <1>10, <2>1 DEF Moves
    <2>3. memory[oop].type = "free" /\ memory[oop].size = size[oop]
      BY <2>2, Words
    <2>4. QED
      BY <1>10, <2>3, After DEF IsFree
  <1>11. ASSUME \E n \in N : loc[n] = oop PROVE Goal
    <2>1. PICK n \in N : loc[n] = oop
      BY <1>11
    <2>2. n \in Ahead(loc, compEnd) /\ ~(loc[n] < oop)
      BY <1>1, <1>3, <1>8, <2>1 DEF Ahead, Within
    <2>3. InBlock(memory, n, size, loc, new, blk)
      BY <2>2 DEF Moves
    <2>4. ~IsFree(memory, oop) /\ objectAfter(memory, oop) = oop + size[oop]
      BY <2>1, <2>3, InBlockIs
    <2>5. QED
      BY <2>1, <2>2, <2>3, <2>4
  <1>12. Goal
    BY <1>7, <1>8, <1>10, <1>11
  <1>13. QED
    BY <1>1, <1>2, <1>3, <1>5, <1>6, <1>7, <1>8, <1>9, <1>12

\* The walk goes over what is free.
LEMMA MoveFreeSafe ==
    ASSUME Setting, operation \in Collections, CollectionInv, MoveChunk,
           IsFree(memory, oop)
    PROVE  Setting' /\ CollectionInv'
  <1> DEFINE N == before.live
  <1>1. PICK S, size, loc, new, blk : Moves(S, size, loc, new, blk)
    BY DEF CollectionInv, MoveChunk
  <1>2. /\ pc = "move" /\ pc' = "move" /\ oop < compEnd
        /\ before' = before /\ operation' = operation
        /\ compStart' = compStart /\ freeBlock' = freeBlock
        /\ endOfMemory' = endOfMemory /\ memoryLimit' = memoryLimit
        /\ fwdTableLast' = fwdTableLast /\ compEnd' = compEnd
        /\ bytesFreed' = bytesFreed
        /\ Passes(S, size, loc)' /\ RootsAre(new)'
        /\ Placed(N, S, size, loc, endOfMemory)
        /\ compStart \in FreeIn(N, S, loc)
        /\ oop \in S /\ oop \in Nat /\ compStart <= oop
        /\ oop + size[oop] \in S \cup {endOfMemory}
        /\ oop + size[oop] <= compEnd
        /\ oop' = oop + size[oop] /\ oop \in FreeIn(N, S, loc)
    BY <1>1, MovingIs
  <1>3. memory' = memory /\ newOop' = newOop
        /\ UNCHANGED <<fixedVars, pointerVars, youngStart, totalObjectCount>>
    BY DEF MoveChunk
  <1>4. Setting' /\ Boundary' /\ before'.pairs = <<>>
    BY <1>2, <1>3 DEF Setting, Boundary, CollectionInv, fixedVars, pointerVars
  <1>5. /\ size[oop] \in Nat /\ 1 <= size[oop] /\ compStart \in Nat
        /\ \A n \in N : /\ loc[n] \in Nat /\ size[loc[n]] \in {1, 2}
                        /\ oop + size[oop] <= loc[n]
                           \/ loc[n] + size[loc[n]] <= oop
        /\ \A a \in FreeIn(N, S, loc) : a \in Nat
    <2>1. /\ \A a \in S : a \in Nat /\ size[a] \in Nat /\ 1 <= size[a]
          /\ \A a \in FreeIn(N, S, loc) : a \in S
          /\ \A n \in N : loc[n] \in Nat /\ size[loc[n]] \in {1, 2}
          /\ \A a \in FreeIn(N, S, loc), n \in N :
                a + size[a] <= loc[n] \/ loc[n] + size[loc[n]] <= a
      BY <1>2, PlacedAre
    <2>2. QED
      BY <1>2, <2>1
  <1>6. \A n \in N : loc[n] < oop' <=> loc[n] < oop
    BY <1>2, <1>5
  <1>7. Ahead(loc, oop)' = Ahead(loc, oop)
        /\ Ahead(loc, compEnd)' = Ahead(loc, compEnd)
        /\ \A n \in Ahead(loc, compEnd) : n \in N
    BY <1>2, <1>6 DEF Ahead, Within
  <1>8. Plans(S, size, loc, new, blk, compEnd)'
    BY <1>1, <1>2, <1>7 DEF Moves, Plans
  <1>9. RangeEnds(loc)'
    BY <1>1, <1>2, <1>7 DEF Moves, RangeEnds
  <1>10. compStart <= oop' /\ \A a \in Nat : a >= oop' => a >= oop
    BY <1>2, <1>5
  <1>11. Moves(S, size, loc, new, blk)'
    <2>1. \A n \in Ahead(loc, compEnd) : IF loc[n] < oop'
             THEN memory[new[n]] = Own(n, size, loc)
             ELSE InBlock(memory, n, size, loc, new, blk)
      BY <1>1, <1>6, <1>7 DEF Moves
    <2>2. \A n \in N : size[loc[n]] = 2 =>
             memory[(IF loc[n] < oop' THEN new[n] ELSE loc[n]) + 1]
                = Oop(new[before.target])
      BY <1>1, <1>6 DEF Moves
    <2>3. \A a \in FreeIn(N, S, loc) : a < compStart \/ a >= oop' =>
             memory[a] = FreeChunk(size[a])
      BY <1>1, <1>5, <1>10 DEF Moves
    <2>4. IF Ahead(loc, oop) = {}
          THEN newOop = Null /\ memory[compStart] = FreeChunk(size[compStart])
          ELSE \E n \in Ahead(loc, oop) :
                  /\ newOop = new[n] /\ \A k \in Ahead(loc, oop) : k <= n
      BY <1>1 DEF Moves
    <2>5. \A n \in N \ Ahead(loc, compEnd) : memory[loc[n]]
                                                = Own(n, size, loc)
      BY <1>1 DEF Moves
    <2>6. QED
      BY <1>2, <1>3, <1>7, <1>8, <1>9, <1>10, <2>1, <2>2, <2>3, <2>4, <2>5
         DEF Moves
  <1>12. QED
    BY <1>2, <1>4, <1>11 DEF CollectionInv

\* The words that change when an object is moved down.
LEMMA MovedIs ==
    ASSUME NEW m, NEW from \in DOMAIN m, NEW to \in DOMAIN m, to \in Nat,
           from \in Nat, to < from, NEW size, size \in {1, 2},
           RealHeader(m, from).size = size, size = 2 => to + 1 \in DOMAIN m,
           NEW m2, m2 = Moved(m, from, to)
    PROVE  /\ DOMAIN m2 = DOMAIN m
           /\ m2[to] = RealHeader(m, from)
           /\ size = 2 => m2[to + 1] = m[from + 1]
           /\ \A x \in DOMAIN m :
                 x # to /\ x # from /\ (size = 2 => x # to + 1) /\ x \in Nat
                    => m2[x] = m[x]
  <1> DEFINE header == RealHeader(m, from)
  <1>1. m2 = [x \in DOMAIN m |->
                IF x = to THEN header
                ELSE IF x > to /\ x < to + size THEN m[x + (from - to)]
                ELSE IF x = from THEN header
                ELSE m[x]]
    BY DEF Moved
  <1> HIDE DEF header
  <1>2. DOMAIN m2 = DOMAIN m /\ m2[to] = header
    BY <1>1
  <1>3. ASSUME size = 2 PROVE m2[to + 1] = m[from + 1]
    <2>1. /\ to + 1 # to /\ to + 1 > to /\ to + 1 < to + size
          /\ (to + 1) + (from - to) = from + 1
      BY <1>3
    <2>2. QED
      BY <1>1, <1>3, <2>1
  <1>4. ASSUME NEW x \in DOMAIN m, x # to, x # from, x \in Nat,
               size = 2 => x # to + 1
        PROVE  m2[x] = m[x]
    <2>1. ~(x > to /\ x < to + size)
      BY <1>4
    <2>2. QED
      BY <1>1, <1>4, <2>1
  <1>5. header = RealHeader(m, from)
    BY DEF header
  <1>6. \A x \in DOMAIN m :
           x # to /\ x # from /\ (size = 2 => x # to + 1) /\ x \in Nat
              => m2[x] = m[x]
    BY <1>4
  <1>7. QED
    BY <1>2, <1>3, <1>5, <1>6

\* An object moves down, and nothing that is still needed is overwritten.
LEMMA MoveObjectSafe ==
    ASSUME Setting, operation \in Collections, CollectionInv, MoveChunk,
           ~IsFree(memory, oop)
    PROVE  Setting' /\ CollectionInv'
  <1> DEFINE N == before.live
             t == before.target
  <1>1. PICK S, size, loc, new, blk : Moves(S, size, loc, new, blk)
    BY DEF CollectionInv, MoveChunk
  <1>2. /\ pc = "move" /\ pc' = "move" /\ oop < compEnd
        /\ before' = before /\ operation' = operation
        /\ compStart' = compStart /\ freeBlock' = freeBlock
        /\ endOfMemory' = endOfMemory /\ memoryLimit' = memoryLimit
        /\ fwdTableLast' = fwdTableLast /\ compEnd' = compEnd
        /\ bytesFreed' = bytesFreed
        /\ Passes(S, size, loc)' /\ RootsAre(new)'
        /\ Placed(N, S, size, loc, endOfMemory)
        /\ compStart \in FreeIn(N, S, loc)
        /\ oop \in S /\ oop \in Nat /\ compStart <= oop
        /\ oop + size[oop] \in S \cup {endOfMemory}
        /\ oop + size[oop] <= compEnd
        /\ oop' = oop + size[oop]
        /\ \E n \in Ahead(loc, compEnd) :
              loc[n] = oop /\ InBlock(memory, n, size, loc, new, blk)
    BY <1>1, MovingIs
  <1>3. PICK G : G = Ahead(loc, compEnd)
    OBVIOUS
  <1>4. PICK n0 \in G : loc[n0] = oop
                        /\ InBlock(memory, n0, size, loc, new, blk)
    BY <1>2, <1>3
  <1>5. PICK to : to = new[n0]
    OBVIOUS
  <1>6. /\ \A n \in G : n \in N /\ compStart <= loc[n] /\ loc[n] < compEnd
        /\ n0 \in N
    BY <1>3, <1>4 DEF Ahead, Within
  <1>7. /\ newOop' = to /\ memory' = Moved(memory, oop, to)
        /\ UNCHANGED <<fixedVars, pointerVars, youngStart, totalObjectCount>>
    <2>1. remap(oop) = to
      BY <1>4, <1>5, InBlockIs DEF remap
    <2>2. newOop' = remap(oop) /\ memory' = Moved(memory, oop, newOop')
      BY DEF MoveChunk
    <2>3. UNCHANGED <<fixedVars, pointerVars, youngStart, totalObjectCount>>
      BY DEF MoveChunk
    <2>4. QED
      BY <2>1, <2>2, <2>3
  <1>8. /\ Plans(S, size, loc, new, blk, compEnd)
        /\ \A n \in G : IF loc[n] < oop
              THEN memory[new[n]] = Own(n, size, loc)
              ELSE InBlock(memory, n, size, loc, new, blk)
        /\ \A n \in N \ G : memory[loc[n]] = Own(n, size, loc)
        /\ \A n \in N : size[loc[n]] = 2 =>
              memory[(IF loc[n] < oop THEN new[n] ELSE loc[n]) + 1]
                 = Oop(new[t])
        /\ \A a \in FreeIn(N, S, loc) : a < compStart \/ a >= oop =>
              memory[a] = FreeChunk(size[a])
    BY <1>1, <1>3 DEF Moves
  <1>9. /\ endOfMemory = freeBlock + 1
        /\ \A n \in N \ G : new[n] = loc[n]
        /\ fwdTableLast = memoryLimit - 2
        /\ BlocksAre(G, blk, endOfMemory, fwdTableLast)
        /\ compEnd \in S \cup {endOfMemory}
        /\ Slides(G, size, loc, new, compStart, compEnd - bytesFreed)
    BY <1>3, <1>8 DEF Plans
  <1>10. /\ \A a \in S : /\ a \in Nat /\ size[a] \in Nat /\ 1 <= size[a]
                         /\ a + size[a] <= endOfMemory
         /\ \A n \in N : /\ loc[n] \in Nat /\ size[loc[n]] \in {1, 2}
                         /\ loc[n] \in S /\ n \in Nat
         /\ \A a \in FreeIn(N, S, loc) : a \in S
         /\ \A n, k \in N : loc[n] = loc[k] => n = k
         /\ \A n, k \in N : n < k => loc[n] + size[loc[n]] <= loc[k]
         /\ \A a \in FreeIn(N, S, loc), n \in N :
               a + size[a] <= loc[n] \/ loc[n] + size[loc[n]] <= a
    BY <1>2, PlacedAre
  <1>11. /\ compStart \in Nat /\ compStart \in S
         /\ size[compStart] \in Nat /\ 1 <= size[compStart]
         /\ size[oop] \in {1, 2} /\ size[oop] \in Nat
    BY <1>2, <1>4, <1>6, <1>10
  <1>12. /\ \A n \in G : new[n] \in Nat /\ compStart <= new[n]
                         /\ new[n] < loc[n]
         /\ \A n, k \in G : n < k => new[n] + size[loc[n]] <= new[k]
         /\ to \in Nat /\ compStart <= to /\ to < oop
    <2>1. /\ \A n \in G : new[n] \in Nat /\ compStart <= new[n]
                          /\ new[n] < loc[n]
          /\ \A n, k \in G : n < k => new[n] + size[loc[n]] <= new[k]
      BY <1>9 DEF Slides
    <2>2. QED
      BY <1>4, <1>5, <2>1
  <1>13. /\ DOMAIN memory = 0..memoryLimit /\ memoryLimit \in Nat
         /\ endOfMemory \in Nat /\ endOfMemory <= memoryLimit
    BY DEF Setting
  <1>14. oop < endOfMemory /\ oop + size[oop] <= endOfMemory
    BY <1>2, <1>10, <1>11, <1>13
  <1>15. /\ DOMAIN memory' = DOMAIN memory
         /\ memory'[to] = Own(n0, size, loc)
         /\ size[oop] = 2 => memory'[to + 1] = memory[oop + 1]
         /\ \A x \in 0..memoryLimit :
               x # to /\ x # oop /\ (size[oop] = 2 => x # to + 1)
                  => memory'[x] = memory[x]
    <2>1. /\ oop \in DOMAIN memory /\ to \in DOMAIN memory
          /\ to + 1 \in DOMAIN memory
      BY <1>2, <1>12, <1>13, <1>14
    <2>2. RealHeader(memory, oop).size = size[oop]
          /\ RealHeader(memory, oop) = Own(n0, size, loc)
      BY <1>4, InBlockIs
    <2>3. PICK m2 : m2 = memory'
      OBVIOUS
    <2>4. PICK k : k = size[oop]
      OBVIOUS
    <2>5. k \in {1, 2} /\ RealHeader(memory, oop).size = k
          /\ m2 = Moved(memory, oop, to) /\ (k = 2 => to + 1 \in DOMAIN memory)
      BY <1>7, <1>11, <2>1, <2>2, <2>3, <2>4
    <2>6. /\ DOMAIN m2 = DOMAIN memory
          /\ m2[to] = RealHeader(memory, oop)
          /\ k = 2 => m2[to + 1] = memory[oop + 1]
          /\ \A x \in DOMAIN memory :
                x # to /\ x # oop /\ (k = 2 => x # to + 1) /\ x \in Nat
                   => m2[x] = memory[x]
      BY <1>2, <1>12, <2>1, <2>5, MovedIs
    <2>7. \A x \in 0..memoryLimit : x \in Nat
      OBVIOUS
    <2>8. QED
      BY <1>13, <2>2, <2>3, <2>4, <2>6, <2>7
  <1>16. \A n \in N : n < n0 \/ n0 < n \/ n = n0
    BY <1>6, <1>10
  <1>17. \A n \in N : /\ loc[n] < oop' <=> (loc[n] < oop \/ n = n0)
                      /\ n < n0 => loc[n] + size[loc[n]] <= oop
                      /\ n0 < n => oop + size[oop] <= loc[n]
                      /\ n = n0 => ~(loc[n] < oop)
    <2> SUFFICES ASSUME NEW n \in N
                 PROVE  /\ loc[n] < oop' <=> (loc[n] < oop \/ n = n0)
                        /\ n < n0 => loc[n] + size[loc[n]] <= oop
                        /\ n0 < n => oop + size[oop] <= loc[n]
                        /\ n = n0 => ~(loc[n] < oop)
      OBVIOUS
    <2>1. n < n0 => loc[n] + size[loc[n]] <= oop
      BY <1>4, <1>6, <1>10
    <2>2. n0 < n => oop + size[oop] <= loc[n]
      BY <1>4, <1>6, <1>10
    <2>3. n = n0 => loc[n] = oop
      BY <1>4
    <2>4. loc[n] \in Nat /\ size[loc[n]] \in {1, 2} /\ oop \in Nat
      BY <1>2, <1>10
    <2>5. QED
      BY <1>2, <1>11, <1>16, <2>1, <2>2, <2>3, <2>4
  <1>18. \A x \in 0..memoryLimit : x < to \/ oop < x => memory'[x] = memory[x]
    <2> SUFFICES ASSUME NEW x \in 0..memoryLimit, x < to \/ oop < x
                 PROVE  memory'[x] = memory[x]
      OBVIOUS
    <2>1. x # to /\ x # oop /\ x # to + 1
      BY <1>2, <1>12
    <2>2. QED
      BY <1>15, <2>1
  <1>19. ASSUME NEW n \in G
         PROVE  IF loc[n] < oop' THEN memory'[new[n]] = Own(n, size, loc)
                ELSE InBlock(memory', n, size, loc, new, blk)
    <2>1. CASE n = n0
      BY <1>5, <1>6, <1>15, <1>17, <2>1
    <2>2. CASE n < n0
      <3>1. loc[n] < oop /\ loc[n] < oop'
        BY <1>2, <1>6, <1>10, <1>17, <2>2
      <3>2. memory[new[n]] = Own(n, size, loc)
        BY <1>8, <3>1
      <3>3. new[n] < to /\ new[n] \in 0..memoryLimit
        <4>1. new[n] + size[loc[n]] <= to /\ new[n] \in Nat
          BY <1>4, <1>5, <1>12, <2>2
        <4>2. size[loc[n]] \in {1, 2}
          BY <1>6, <1>10
        <4>3. QED
          BY <1>2, <1>12, <1>13, <1>14, <4>1, <4>2
      <3>4. QED
        BY <1>18, <3>1, <3>2, <3>3
    <2>3. CASE n0 < n
      <3>1. oop < loc[n] /\ ~(loc[n] < oop) /\ ~(loc[n] < oop')
        BY <1>2, <1>6, <1>10, <1>11, <1>17, <2>3
      <3>2. InBlock(memory, n, size, loc, new, blk)
        BY <1>8, <3>1
      <3>3. loc[n] \in 0..memoryLimit
        BY <1>6, <1>10, <1>13
      <3>4. /\ blk[n] \in 0..memoryLimit /\ blk[n] + 1 \in 0..memoryLimit
            /\ oop < blk[n] /\ oop < blk[n] + 1
        <4>1. /\ blk[n] \in Nat /\ endOfMemory < blk[n]
              /\ blk[n] <= memoryLimit - 2
          BY <1>9 DEF BlocksAre
        <4>2. QED
          BY <1>2, <1>13, <1>14, <4>1
      <3>5. InBlock(memory', n, size, loc, new, blk)
        BY <1>18, <3>1, <3>2, <3>3, <3>4 DEF InBlock
      <3>6. QED
        BY <3>1, <3>5
    <2>4. QED
      BY <1>6, <1>16, <2>1, <2>2, <2>3
  <1>20. ASSUME NEW n \in N \ G
         PROVE  /\ memory'[loc[n]] = memory[loc[n]]
                /\ size[loc[n]] = 2 => memory'[loc[n] + 1] = memory[loc[n] + 1]
    <2>0. /\ loc[n] \in Nat /\ size[loc[n]] \in {1, 2}
          /\ loc[n] + size[loc[n]] <= endOfMemory
      BY <1>10
    <2>1. loc[n] \in 0..memoryLimit
          /\ (size[loc[n]] = 2 => loc[n] + 1 \in 0..memoryLimit)
      BY <1>13, <2>0
    <2>2. CASE loc[n] < compStart
      <3>1. loc[n] + size[loc[n]] <= compStart
        <4>1. \/ compStart + size[compStart] <= loc[n]
              \/ loc[n] + size[loc[n]] <= compStart
          BY <1>2, <1>10
        <4>2. QED
          BY <1>11, <2>0, <2>2, <4>1
      <3>2. loc[n] < to /\ (size[loc[n]] = 2 => loc[n] + 1 < to)
        BY <1>11, <1>12, <2>0, <3>1
      <3>3. QED
        BY <1>18, <2>1, <3>2
    <2>3. CASE compEnd <= loc[n]
      <3>1. oop < loc[n] /\ oop < loc[n] + 1
        <4>1. compEnd \in Nat
          BY <1>9, <1>10, <1>13
        <4>2. QED
          BY <1>2, <2>0, <2>3, <4>1
      <3>2. QED
        BY <1>18, <2>1, <3>1
    <2>4. loc[n] < compStart \/ compEnd <= loc[n]
      <3>1. compEnd \in Nat
        BY <1>9, <1>10, <1>13
      <3>2. QED
        BY <1>3, <1>11, <2>0, <3>1 DEF Ahead, Within
    <2>5. QED
      BY <2>2, <2>3, <2>4
  <1>21. ASSUME NEW n \in N, size[loc[n]] = 2
         PROVE  memory'[(IF loc[n] < oop' THEN new[n] ELSE loc[n]) + 1]
                   = Oop(new[t])
    <2>0. memory[(IF loc[n] < oop THEN new[n] ELSE loc[n]) + 1] = Oop(new[t])
      BY <1>8, <1>21
    <2>1. CASE n = n0
      <3>1. memory[oop + 1] = Oop(new[t])
        BY <1>4, <1>17, <2>0, <2>1
      <3>2. memory'[to + 1] = Oop(new[t])
        BY <1>4, <1>15, <1>21, <2>1, <3>1
      <3>3. QED
        BY <1>5, <1>17, <2>1, <3>2
    <2>2. CASE n \notin G
      <3>1. memory'[loc[n] + 1] = memory[loc[n] + 1] /\ new[n] = loc[n]
        BY <1>9, <1>20, <1>21, <2>2
      <3>2. QED
        BY <2>0, <3>1
    <2>3. CASE n \in G /\ n < n0
      <3>1. loc[n] < oop /\ loc[n] < oop'
        BY <1>2, <1>10, <1>17, <1>21, <2>3
      <3>2. new[n] + 1 < to /\ new[n] + 1 \in 0..memoryLimit
        <4>1. new[n] + 2 <= to /\ new[n] \in Nat
          BY <1>4, <1>5, <1>12, <1>21, <2>3
        <4>2. QED
          BY <1>2, <1>12, <1>13, <1>14, <4>1
      <3>3. QED
        BY <1>18, <2>0, <3>1, <3>2
    <2>4. CASE n \in G /\ n0 < n
      <3>1. oop < loc[n] /\ ~(loc[n] < oop) /\ ~(loc[n] < oop')
        BY <1>2, <1>10, <1>11, <1>17, <2>4
      <3>2. oop < loc[n] + 1 /\ loc[n] + 1 \in 0..memoryLimit
        <4>1. loc[n] + 2 <= endOfMemory /\ loc[n] \in Nat
          BY <1>10, <1>21
        <4>2. QED
          BY <1>2, <1>13, <3>1, <4>1
      <3>3. QED
        BY <1>18, <2>0, <3>1, <3>2
    <2>5. QED
      BY <1>16, <2>1, <2>2, <2>3, <2>4
  <1>22. ASSUME NEW a \in FreeIn(N, S, loc), a < compStart \/ a >= oop'
         PROVE  memory'[a] = FreeChunk(size[a])
    <2>1. a \in Nat /\ a + size[a] <= endOfMemory /\ size[a] \in Nat
      BY <1>10
    <2>2. a < compStart \/ oop < a
      BY <1>2, <1>11, <1>22, <2>1
    <2>3. a < to \/ oop < a
      BY <1>11, <1>12, <2>1, <2>2
    <2>4. a \in 0..memoryLimit
      BY <1>13, <2>1
    <2>5. memory[a] = FreeChunk(size[a])
      <3>1. a < compStart \/ a >= oop
        BY <1>2, <2>1, <2>2
      <3>2. QED
        BY <1>8, <3>1
    <2>6. QED
      BY <1>18, <2>3, <2>4, <2>5
  <1>23. Setting' /\ Boundary' /\ before'.pairs = <<>>
    BY <1>2, <1>7, <1>15
       DEF Setting, Boundary, CollectionInv, fixedVars, pointerVars
  <1>24. Ahead(loc, compEnd)' = G
    BY <1>2, <1>3 DEF Ahead
  <1>25. /\ n0 \in Ahead(loc, oop)'
         /\ \A k \in Ahead(loc, oop)' : k <= n0
    <2>1. Ahead(loc, oop)' = Within(N, loc, compStart, oop')
      BY <1>2 DEF Ahead
    <2>2. n0 \in Within(N, loc, compStart, oop')
      BY <1>4, <1>6, <1>17 DEF Within
    <2>3. \A k \in N : loc[k] < oop' => k <= n0
      <3> SUFFICES ASSUME NEW k \in N, loc[k] < oop' PROVE k <= n0
        OBVIOUS
      <3>1. loc[k] < oop \/ k = n0
        BY <1>17
      <3>2. k \in Nat /\ n0 \in Nat /\ loc[k] \in Nat
        BY <1>6, <1>10
      <3>3. n0 < k => ~(loc[k] < oop)
        BY <1>2, <1>11, <1>17, <3>2
      <3>4. k < n0 \/ n0 < k \/ k = n0
        BY <1>16
      <3>5. QED
        BY <3>1, <3>2, <3>3, <3>4
    <2>4. QED
      BY <2>1, <2>2, <2>3 DEF Within
  <1>26. Plans(S, size, loc, new, blk, compEnd)'
    BY <1>2, <1>3, <1>8, <1>24 DEF Plans
  <1>27. RangeEnds(loc)'
    BY <1>1, <1>2, <1>3, <1>24 DEF Moves, RangeEnds
  <1>28. Moves(S, size, loc, new, blk)'
    <2>1. compStart <= oop'
      BY <1>2, <1>11
    <2>2. \A n \in N \ G : memory'[loc[n]] = Own(n, size, loc)
      BY <1>8, <1>20
    <2>3. \E n \in Ahead(loc, oop)' :
             /\ newOop' = new[n] /\ \A k \in Ahead(loc, oop)' : k <= n
      BY <1>5, <1>7, <1>25
    <2>4. Ahead(loc, oop)' # {}
      BY <1>25
    <2>5. QED
      BY <1>2, <1>19, <1>21, <1>22, <1>24, <1>26, <1>27, <2>1, <2>2, <2>3,
         <2>4 DEF Moves
  <1>29. QED
    BY <1>2, <1>23, <1>28 DEF CollectionInv

\* A step that moves an object, or skips a free chunk, is safe.
LEMMA MoveChunkSafe ==
    ASSUME Setting, operation \in Collections, CollectionInv, MoveChunk
    PROVE  Setting' /\ CollectionInv'
  BY MoveFreeSafe, MoveObjectSafe

\* The chunks when the objects in a range have slid to c.
SlidChunks(S, new, G, from, c, to) ==
    {a \in S : a < from \/ a >= to} \cup {new[n] : n \in G} \cup {c}

SlidSizes(S, size, loc, new, G, from, c, to) ==
    [a \in SlidChunks(S, new, G, from, c, to) |->
        IF a < from \/ a >= to THEN size[a]
        ELSE IF a = c THEN to - c
        ELSE size[loc[CHOOSE n \in G : new[n] = a]]]

\* What is known of the range.
SlidAs(N, S, size, loc, new, G, from, c, to, end) ==
    /\ Placed(N, S, size, loc, end)
    /\ from \in FreeIn(N, S, loc) /\ to \in S \cup {end}
    /\ G = Within(N, loc, from, to)
    /\ new \in [N -> Nat]
    /\ \A n \in N \ G : new[n] = loc[n]
    /\ c \in Nat /\ from <= c /\ c < to
    /\ Slides(G, size, loc, new, from, c)

\* The sizes of the chunks when the objects in a range have slid.
LEMMA SlidSizesAre ==
    ASSUME NEW N, NEW S, NEW size, NEW loc, NEW new, NEW G, NEW from, NEW c,
           NEW to, NEW end, SlidAs(N, S, size, loc, new, G, from, c, to, end),
           NEW S2, S2 = SlidChunks(S, new, G, from, c, to),
           NEW size2, size2 = SlidSizes(S, size, loc, new, G, from, c, to)
    PROVE  /\ DOMAIN size2 = S2 /\ size2 = [a \in S2 |-> size2[a]]
           /\ size2[c] = to - c
           /\ \A a \in S : a < from \/ a >= to =>
                 a \in S2 /\ size2[a] = size[a]
           /\ \A n \in G : new[n] \in S2 /\ size2[new[n]] = size[loc[n]]
           /\ \A n \in N : new[n] \in S2 /\ size2[new[n]] = size[loc[n]]
           /\ \A n \in N \ G : loc[n] < from \/ loc[n] >= to
           /\ \A n \in G : /\ n \in N /\ n \in Nat /\ from <= new[n]
                           /\ new[n] < c /\ new[n] \in Nat
                           /\ new[n] + size[loc[n]] <= c
                           /\ size[loc[n]] \in {1, 2}
                           /\ from <= loc[n] /\ loc[n] < to
           /\ from \in Nat /\ to \in Nat /\ c \in Nat /\ 2 <= from
           /\ from \in S
           /\ \A n \in N : new[n] # c
  <1>1. /\ Placed(N, S, size, loc, end)
        /\ from \in FreeIn(N, S, loc) /\ to \in S \cup {end}
        /\ G = Within(N, loc, from, to)
        /\ new \in [N -> Nat]
        /\ \A n \in N \ G : new[n] = loc[n]
        /\ c \in Nat /\ from <= c /\ c < to
        /\ Slides(G, size, loc, new, from, c)
    BY DEF SlidAs
  <1>2. /\ \A a \in S : a \in Nat
        /\ \A n \in N : /\ n \in Nat /\ loc[n] \in S /\ loc[n] \in Nat
                        /\ size[loc[n]] \in {1, 2}
        /\ end \in Nat /\ 2 <= from /\ from \in S
    BY <1>1, PlacedAre
  <1>3. from \in Nat /\ to \in Nat /\ from <= c /\ c < to /\ c \in Nat
    BY <1>1, <1>2
  <1>4. \A n \in G : n \in N /\ from <= loc[n] /\ loc[n] < to
    BY <1>1 DEF Within
  <1>5. \A n \in N \ G : loc[n] < from \/ loc[n] >= to
    BY <1>1, <1>2, <1>3 DEF Within
  <1>6. \A n \in G : /\ from <= new[n] /\ new[n] \in Nat
                     /\ new[n] + size[loc[n]] <= c
    BY <1>1 DEF Slides
  <1>7. \A n \in G : new[n] < c
    BY <1>2, <1>3, <1>4, <1>6
  <1>8. \A n, k \in G : new[n] = new[k] => n = k
    <2> SUFFICES ASSUME NEW n \in G, NEW k \in G, new[n] = new[k]
                 PROVE  n = k
      OBVIOUS
    <2>1. n < k => new[n] + size[loc[n]] <= new[k]
      BY <1>1 DEF Slides
    <2>2. k < n => new[k] + size[loc[k]] <= new[n]
      BY <1>1 DEF Slides
    <2>3. /\ n \in Nat /\ k \in Nat /\ new[n] \in Nat /\ new[k] \in Nat
          /\ size[loc[n]] \in {1, 2} /\ size[loc[k]] \in {1, 2}
      BY <1>2, <1>4, <1>6
    <2>4. QED
      BY <2>1, <2>2, <2>3
  <1>9. /\ DOMAIN size2 = S2 /\ size2 = [a \in S2 |-> size2[a]]
        /\ \A a \in S2 : size2[a] =
              IF a < from \/ a >= to THEN size[a]
              ELSE IF a = c THEN to - c
              ELSE size[loc[CHOOSE n \in G : new[n] = a]]
    BY DEF SlidSizes
  <1>10. /\ c \in S2 /\ \A n \in G : new[n] \in S2
         /\ \A a \in S : a < from \/ a >= to => a \in S2
    BY DEF SlidChunks
  <1>11. size2[c] = to - c
    <2>1. ~(c < from \/ c >= to)
      BY <1>3
    <2>2. QED
      BY <1>9, <1>10, <2>1
  <1>12. \A a \in S : a < from \/ a >= to => a \in S2 /\ size2[a] = size[a]
    BY <1>9, <1>10
  <1>13. ASSUME NEW n \in G PROVE size2[new[n]] = size[loc[n]]
    <2>1. /\ ~(new[n] < from \/ new[n] >= to) /\ new[n] # c
      BY <1>3, <1>6, <1>7
    <2>2. size2[new[n]] = size[loc[CHOOSE k \in G : new[k] = new[n]]]
      BY <1>9, <1>10, <2>1
    <2>3. (CHOOSE k \in G : new[k] = new[n]) = n
      BY <1>8
    <2>4. QED
      BY <2>2, <2>3
  <1>14. ASSUME NEW n \in N
         PROVE  new[n] \in S2 /\ size2[new[n]] = size[loc[n]]
    <2>1. CASE n \in G
      BY <1>10, <1>13, <2>1
    <2>2. CASE n \notin G
      BY <1>1, <1>2, <1>5, <1>12, <2>2
    <2>3. QED
      BY <2>1, <2>2
  <1>15. ASSUME NEW n \in N PROVE new[n] # c
    <2>1. CASE n \in G
      BY <1>3, <1>6, <1>7, <2>1
    <2>2. CASE n \notin G
      <3>1. new[n] = loc[n] /\ (loc[n] < from \/ loc[n] >= to)
        BY <1>1, <1>5, <2>2
      <3>2. QED
        BY <1>2, <1>3, <3>1
    <2>3. QED
      BY <2>1, <2>2
  <1>16. QED
    BY <1>2, <1>3, <1>4, <1>5, <1>6, <1>7, <1>9, <1>10, <1>11, <1>12, <1>13,
       <1>14, <1>15

\* The objects that have slid, the chunk behind them, and what was not in the
\* range lie end to end.
LEMMA SlidTiles ==
    ASSUME NEW N, NEW S, NEW size, NEW loc, NEW new, NEW G, NEW from, NEW c,
           NEW to, NEW end, SlidAs(N, S, size, loc, new, G, from, c, to, end),
           NEW S2, S2 = SlidChunks(S, new, G, from, c, to),
           NEW size2, size2 = SlidSizes(S, size, loc, new, G, from, c, to)
    PROVE  Tiles(S2, size2, end)
  <1>1. /\ Placed(N, S, size, loc, end)
        /\ to \in S \cup {end}
        /\ from <= c /\ c < to
        /\ Slides(G, size, loc, new, from, c)
    BY DEF SlidAs
  <1>2. /\ \A a \in S : /\ a \in Nat /\ size[a] \in Nat /\ 1 <= size[a]
                        /\ a + size[a] <= end
                        /\ a + size[a] \in S \cup {end}
        /\ \A a, b \in S : a < b => a + size[a] <= b
        /\ end \in Nat /\ 0 \in S
    BY <1>1, PlacedAre
  <1>3. /\ DOMAIN size2 = S2 /\ size2 = [a \in S2 |-> size2[a]]
        /\ size2[c] = to - c
        /\ \A a \in S : a < from \/ a >= to => a \in S2 /\ size2[a] = size[a]
        /\ \A n \in G : new[n] \in S2 /\ size2[new[n]] = size[loc[n]]
        /\ \A n \in G : /\ n \in N /\ n \in Nat /\ from <= new[n]
                        /\ new[n] < c /\ new[n] \in Nat
                        /\ new[n] + size[loc[n]] <= c
                        /\ size[loc[n]] \in {1, 2}
        /\ from \in Nat /\ to \in Nat /\ c \in Nat /\ 2 <= from /\ from \in S
    BY SlidSizesAre
  <1>4. /\ \A a \in S2 : \/ a \in S /\ (a < from \/ a >= to)
                         \/ \E n \in G : a = new[n]
                         \/ a = c
        /\ c \in S2
    BY DEF SlidChunks
  <1>5. to <= end
    BY <1>1, <1>2, <1>3
  <1>6. from \in S2
    <2>1. from = c \/ \E n \in G : new[n] = from
      BY <1>1 DEF Slides
    <2>2. QED
      BY <1>3, <1>4, <2>1
  <1>7. to # end => to \in S2
    BY <1>1, <1>3
  <1>8. ASSUME NEW a \in S, a < from
        PROVE  /\ a \in Nat /\ size2[a] = size[a] /\ size2[a] \in Nat
               /\ 1 <= size2[a] /\ a + size2[a] <= from
               /\ a + size2[a] \in S2
    <2>1. /\ size2[a] = size[a] /\ a \in Nat /\ size[a] \in Nat
          /\ 1 <= size[a] /\ a + size[a] <= from
          /\ a + size[a] \in S \cup {end}
      BY <1>2, <1>3, <1>8
    <2>2. CASE a + size[a] = from
      BY <1>6, <2>1, <2>2
    <2>3. CASE a + size[a] # from
      <3>1. a + size[a] < from /\ a + size[a] # end
        BY <1>1, <1>2, <1>3, <1>5, <2>1, <2>3
      <3>2. QED
        BY <1>3, <2>1, <3>1
    <2>4. QED
      BY <2>2, <2>3
  <1>9. ASSUME NEW a \in S, a >= to
        PROVE  /\ a \in Nat /\ size2[a] = size[a] /\ size2[a] \in Nat
               /\ 1 <= size2[a] /\ a + size2[a] <= end
               /\ a + size2[a] \in S2 \cup {end}
    <2>1. /\ size2[a] = size[a] /\ a \in Nat /\ size[a] \in Nat
          /\ 1 <= size[a] /\ a + size[a] <= end
          /\ a + size[a] \in S \cup {end}
      BY <1>2, <1>3, <1>9
    <2>2. a + size[a] >= to
      BY <1>3, <1>9, <2>1
    <2>3. QED
      BY <1>3, <2>1, <2>2
  <1>10. ASSUME NEW n \in G
         PROVE  /\ new[n] \in Nat /\ size2[new[n]] \in Nat
                /\ 1 <= size2[new[n]] /\ new[n] + size2[new[n]] <= c
                /\ new[n] + size2[new[n]] \in S2
    <2>1. /\ size2[new[n]] = size[loc[n]] /\ new[n] \in Nat
          /\ size[loc[n]] \in {1, 2} /\ new[n] + size[loc[n]] <= c
      BY <1>3
    <2>2. \/ new[n] + size[loc[n]] = c
          \/ \E k \in G : new[k] = new[n] + size[loc[n]]
      BY <1>1 DEF Slides
    <2>3. new[n] + size[loc[n]] \in S2
      BY <1>3, <1>4, <2>2
    <2>4. QED
      BY <2>1, <2>3
  <1>11. /\ size2[c] \in Nat /\ 1 <= size2[c] /\ c + size2[c] = to
         /\ to \in S2 \cup {end}
    BY <1>1, <1>3, <1>7
  <1>12. ASSUME NEW a \in S2
         PROVE  /\ a \in Nat /\ size2[a] \in Nat /\ 1 <= size2[a]
                /\ a + size2[a] <= end
                /\ a + size2[a] \in S2 \cup {end}
    <2>1. CASE a \in S /\ a < from
      BY <1>1, <1>2, <1>3, <1>5, <1>8, <2>1
    <2>2. CASE a \in S /\ a >= to
      BY <1>9, <2>2
    <2>3. CASE \E n \in G : a = new[n]
      <3>1. PICK n \in G : a = new[n]
        BY <2>3
      <3>2. QED
        BY <1>1, <1>2, <1>3, <1>5, <1>10, <3>1
    <2>4. CASE a = c
      BY <1>3, <1>5, <1>11, <2>4
    <2>5. QED
      BY <1>4, <2>1, <2>2, <2>3, <2>4
  <1>13. ASSUME NEW a \in S2, NEW b \in S2, a < b
         PROVE  a + size2[a] <= b
    <2>0. \/ b \in S /\ b < from
          \/ b \in Nat /\ from <= b
      BY <1>1, <1>3, <1>4, <1>12
    <2>1. CASE a \in S /\ a < from
      <3>1. CASE b \in S /\ b < from
        BY <1>2, <1>8, <2>1, <3>1, <1>13
      <3>2. CASE b \in Nat /\ from <= b
        BY <1>3, <1>8, <2>1, <3>2
      <3>3. QED
        BY <2>0, <3>1, <3>2
    <2>2. CASE a \in S /\ a >= to
      <3>1. b >= to /\ b # c /\ \A n \in G : b # new[n]
        <4>1. a \in Nat /\ b \in Nat
          BY <1>12
        <4>2. b > to
          BY <1>3, <1>13, <2>2, <4>1
        <4>3. QED
          BY <1>1, <1>3, <4>1, <4>2
      <3>2. b \in S
        BY <1>4, <3>1
      <3>3. QED
        BY <1>2, <1>9, <1>13, <2>2, <3>2
    <2>3. CASE \E n \in G : a = new[n]
      <3>1. PICK n \in G : a = new[n]
        BY <2>3
      <3>2. a + size2[a] <= c /\ from <= a /\ size2[a] = size[loc[n]]
        BY <1>3, <1>10, <3>1
      <3>3. CASE \E k \in G : b = new[k]
        <4>1. PICK k \in G : b = new[k]
          BY <3>3
        <4>2. n < k => new[n] + size[loc[n]] <= new[k]
          BY <1>1 DEF Slides
        <4>3. k < n => new[k] + size[loc[k]] <= new[n]
          BY <1>1 DEF Slides
        <4>4. /\ n \in Nat /\ k \in Nat /\ new[n] \in Nat /\ new[k] \in Nat
              /\ size[loc[n]] \in {1, 2} /\ size[loc[k]] \in {1, 2}
          BY <1>3
        <4>5. new[n] < new[k] /\ (k = n => new[k] = new[n])
          BY <1>13, <3>1, <4>1
        <4>6. n < k
          BY <4>3, <4>4, <4>5
        <4>7. QED
          BY <3>1, <3>2, <4>1, <4>2, <4>6
      <3>4. CASE b = c
        BY <3>2, <3>4
      <3>5. CASE b \in S /\ b >= to
        <4>1. b \in Nat /\ a \in Nat /\ size2[a] \in Nat
          BY <1>12
        <4>2. QED
          BY <1>1, <1>3, <3>2, <3>5, <4>1
      <3>6. ~(b < from)
        BY <1>3, <1>12, <1>13, <3>2
      <3>7. QED
        BY <1>4, <3>3, <3>4, <3>5, <3>6
    <2>4. CASE a = c
      <3>1. b \in S /\ b >= to
        <4>1. b # c /\ b \in Nat /\ ~(b < from) /\ c < b
          BY <1>1, <1>3, <1>12, <1>13, <2>4
        <4>2. \A n \in G : b # new[n]
          BY <1>3, <4>1
        <4>3. QED
          BY <1>4, <4>1, <4>2
      <3>2. QED
        BY <1>11, <2>4, <3>1
    <2>5. QED
      BY <1>4, <2>1, <2>2, <2>3, <2>4
  <1>14. size2 \in [S2 -> Nat \ {0}]
    <2>1. \A a \in S2 : size2[a] \in Nat \ {0}
      BY <1>12
    <2>2. QED
      BY <1>3, <2>1
  <1>15. S2 \subseteq Nat /\ 0 \in S2
    <2>1. 0 < from
      BY <1>3
    <2>2. QED
      BY <1>2, <1>3, <1>12, <2>1
  <1>16. QED
    BY <1>2, <1>12, <1>13, <1>14, <1>15 DEF Tiles

\* So they are placed as before, with one free chunk in the range, at c.
LEMMA SlidPlaced ==
    ASSUME NEW N, NEW S, NEW size, NEW loc, NEW new, NEW G, NEW from, NEW c,
           NEW to, NEW end, SlidAs(N, S, size, loc, new, G, from, c, to, end),
           NEW S2, S2 = SlidChunks(S, new, G, from, c, to),
           NEW size2, size2 = SlidSizes(S, size, loc, new, G, from, c, to)
    PROVE  /\ Placed(N, S2, size2, new, end)
           /\ c \in FreeIn(N, S2, new) /\ size2[c] = to - c
           /\ \A n \in N : size2[new[n]] = size[loc[n]]
           /\ \A a \in FreeIn(N, S2, new) :
                 \/ a = c
                 \/ /\ a \in FreeIn(N, S, loc) /\ size2[a] = size[a]
                    /\ a < from \/ a >= to
           /\ \A a \in FreeIn(N, S, loc) :
                 a >= to => a \in FreeIn(N, S2, new) /\ size2[a] = size[a]
  <1>1. /\ Placed(N, S, size, loc, end)
        /\ G = Within(N, loc, from, to)
        /\ new \in [N -> Nat]
        /\ \A n \in N \ G : new[n] = loc[n]
        /\ from <= c /\ c < to
        /\ Slides(G, size, loc, new, from, c)
    BY DEF SlidAs
  <1>2. /\ \A n \in N : /\ n \in Nat /\ loc[n] \in S /\ loc[n] \in Nat
                        /\ size[loc[n]] \in {1, 2}
        /\ N \subseteq Nat /\ 0 \in N /\ loc[0] = 0 /\ size[0] = 2
        /\ \A n, k \in N : n < k => loc[n] + size[loc[n]] <= loc[k]
    BY <1>1, PlacedAre
  <1>3. /\ size2[c] = to - c
        /\ \A a \in S : a < from \/ a >= to => a \in S2 /\ size2[a] = size[a]
        /\ \A n \in N : new[n] \in S2 /\ size2[new[n]] = size[loc[n]]
        /\ \A n \in N \ G : loc[n] < from \/ loc[n] >= to
        /\ \A n \in G : /\ n \in N /\ n \in Nat /\ from <= new[n]
                        /\ new[n] < c /\ new[n] \in Nat
                        /\ new[n] + size[loc[n]] <= c
                        /\ size[loc[n]] \in {1, 2}
                        /\ from <= loc[n] /\ loc[n] < to
        /\ from \in Nat /\ to \in Nat /\ c \in Nat /\ 2 <= from
        /\ \A n \in N : new[n] # c
    BY SlidSizesAre
  <1>4. Tiles(S2, size2, end)
    BY SlidTiles
  <1>5. new \in [N -> S2]
    BY <1>1, <1>3
  <1>6. ASSUME NEW n \in N, NEW k \in N, n < k PROVE new[n] < new[k]
    <2>1. loc[n] < loc[k]
      BY <1>2, <1>6
    <2>2. CASE n \in G /\ k \in G
      <3>1. new[n] + size[loc[n]] <= new[k]
        BY <1>1, <1>6, <2>2 DEF Slides
      <3>2. QED
        BY <1>3, <2>2, <3>1
    <2>3. CASE n \in G /\ k \notin G
      <3>1. new[k] = loc[k] /\ loc[k] >= to
        BY <1>1, <1>2, <1>3, <2>1, <2>3
      <3>2. QED
        BY <1>1, <1>2, <1>3, <2>3, <3>1
    <2>4. CASE n \notin G /\ k \in G
      <3>1. new[n] = loc[n] /\ loc[n] < from
        BY <1>1, <1>2, <1>3, <2>1, <2>4
      <3>2. QED
        BY <1>2, <1>3, <2>4, <3>1
    <2>5. CASE n \notin G /\ k \notin G
      BY <1>1, <2>1, <2>5
    <2>6. QED
      BY <2>2, <2>3, <2>4, <2>5
  <1>7. new[0] = 0 /\ size2[0] = 2
    <2>1. 0 \notin G
      BY <1>2, <1>3
    <2>2. new[0] = loc[0]
      BY <1>1, <1>2, <2>1
    <2>3. size2[new[0]] = size[loc[0]]
      BY <1>2, <1>3
    <2>4. QED
      BY <1>2, <2>2, <2>3
  <1>8. Placed(N, S2, size2, new, end)
    <2>1. \A n \in N : size2[new[n]] \in {1, 2}
      BY <1>2, <1>3
    <2>2. QED
      BY <1>2, <1>4, <1>5, <1>6, <1>7, <2>1 DEF Placed
  <1>9. c \in FreeIn(N, S2, new)
    BY <1>3 DEF FreeIn, SlidChunks
  <1>10. ASSUME NEW a \in FreeIn(N, S2, new), a # c
         PROVE  /\ a \in FreeIn(N, S, loc) /\ size2[a] = size[a]
                /\ a < from \/ a >= to
    <2>1. a \in S2 /\ \A n \in N : new[n] # a
      BY DEF FreeIn
    <2>2. a \in S /\ (a < from \/ a >= to)
      BY <1>3, <1>10, <2>1 DEF SlidChunks
    <2>3. \A n \in N : loc[n] # a
      <3> SUFFICES ASSUME NEW n \in N, loc[n] = a PROVE FALSE
        OBVIOUS
      <3>1. n \notin G
        BY <1>2, <1>3, <2>2
      <3>2. QED
        BY <1>1, <2>1, <3>1
    <2>4. QED
      BY <1>3, <2>2, <2>3 DEF FreeIn
  <1>11. ASSUME NEW a \in FreeIn(N, S, loc), a >= to
         PROVE  a \in FreeIn(N, S2, new) /\ size2[a] = size[a]
    <2>1. a \in S /\ (\A n \in N : loc[n] # a) /\ a \in Nat
      BY <1>1, PlacedAre DEF FreeIn
    <2>2. a \in S2 /\ size2[a] = size[a]
      BY <1>3, <1>11, <2>1
    <2>3. \A n \in N : new[n] # a
      <3> SUFFICES ASSUME NEW n \in N, new[n] = a PROVE FALSE
        OBVIOUS
      <3>1. n \notin G
        BY <1>1, <1>3, <1>11, <2>1
      <3>2. QED
        BY <1>1, <2>1, <3>1
    <2>4. QED
      BY <2>2, <2>3 DEF FreeIn
  <1>12. QED
    BY <1>3, <1>8, <1>9, <1>10, <1>11

\* The heap when a pass is over: c is the chunk it has freed.
NewHeap(m, S, size, loc, c) ==
    /\ DOMAIN m = 0..memoryLimit
    /\ Placed(before.live, S, size, loc, endOfMemory)
    /\ LastFree(before.live, S, size, loc, freeBlock, endOfMemory)
    /\ c \in FreeIn(before.live, S, loc) /\ c + size[c] = compEnd
    /\ HeadersAre(m, before.live, size, loc)
    /\ FieldsAre(m, before.live, size, loc, loc[before.target])
    /\ FreeAre(m, before.live, S, size, loc, Null)
    /\ RootsAre(loc)
    /\ \A a \in FreeIn(before.live, S, loc) :
          /\ a = c \/ a < compStart \/ a >= compEnd
          /\ operation = "full" => a >= c
    /\ compEnd = endOfMemory
       \/ (operation = "full" /\ \E n \in before.live : loc[n] = compEnd)

\* What is known when the walk is over.
LEMMA MoveEndIs ==
    ASSUME Setting, operation \in Collections, CollectionInv, MoveEnd,
           NEW S, NEW size, NEW loc, NEW new, NEW blk,
           Moves(S, size, loc, new, blk), NEW G, G = Ahead(loc, compEnd)
    PROVE  /\ oop = compEnd /\ compEnd \in Nat /\ endOfMemory \in Nat
           /\ compEnd \in S \cup {endOfMemory} /\ compEnd <= endOfMemory
           /\ G = Ahead(loc, oop)
           /\ G = Within(before.live, loc, compStart, compEnd)
           /\ \A n \in before.live :
                 loc[n] < compEnd /\ n \notin G => loc[n] < compStart
           /\ \A n \in before.live : memory[new[n]] = Own(n, size, loc)
           /\ \A n \in before.live : size[loc[n]] = 2 =>
                 memory[new[n] + 1] = Oop(new[before.target])
           /\ \A n \in before.live \ G : new[n] = loc[n]
  <1> DEFINE N == before.live
  <1>1. oop >= compEnd
    BY DEF MoveEnd
  <1>2. /\ Plans(S, size, loc, new, blk, compEnd)
        /\ oop \in S \cup {endOfMemory} /\ oop <= compEnd
        /\ \A n \in Ahead(loc, compEnd) : IF loc[n] < oop
              THEN memory[new[n]] = Own(n, size, loc)
              ELSE InBlock(memory, n, size, loc, new, blk)
        /\ \A n \in N \ Ahead(loc, compEnd) : memory[loc[n]] = Own(n, size, loc)
        /\ \A n \in N : size[loc[n]] = 2 =>
              memory[(IF loc[n] < oop THEN new[n] ELSE loc[n]) + 1]
                 = Oop(new[before.target])
    BY DEF Moves
  <1>3. /\ Passes(S, size, loc) /\ endOfMemory = freeBlock + 1
        /\ compEnd \in S \cup {endOfMemory}
        /\ \A n \in N \ Ahead(loc, compEnd) : new[n] = loc[n]
    BY <1>2 DEF Plans
  <1>4. Placed(N, S, size, loc, endOfMemory)
        /\ compStart \in FreeIn(N, S, loc)
    BY <1>3 DEF Passes
  <1>5. /\ \A a \in S : /\ a \in Nat /\ size[a] \in Nat /\ 1 <= size[a]
                        /\ a + size[a] <= endOfMemory
        /\ \A n \in N : loc[n] \in Nat
        /\ endOfMemory \in Nat /\ compStart \in Nat
    BY <1>4, PlacedAre
  <1>6. oop \in Nat /\ compEnd \in Nat /\ compEnd <= endOfMemory
    BY <1>2, <1>3, <1>5
  <1>7. oop = compEnd
    BY <1>1, <1>2, <1>6
  <1>8. \A n \in G : n \in N /\ loc[n] < compEnd
    BY DEF Ahead, Within
  <1>9. \A n \in N : loc[n] < compEnd /\ n \notin G => loc[n] < compStart
    BY <1>5, <1>6 DEF Ahead, Within
  <1>10. \A n \in N : memory[new[n]] = Own(n, size, loc)
    BY <1>2, <1>3, <1>7, <1>8
  <1>11. ASSUME NEW n \in N, size[loc[n]] = 2
         PROVE  memory[new[n] + 1] = Oop(new[before.target])
    <2>1. memory[(IF loc[n] < oop THEN new[n] ELSE loc[n]) + 1]
             = Oop(new[before.target])
      BY <1>2, <1>11
    <2>2. loc[n] < oop \/ new[n] = loc[n]
      BY <1>3, <1>7, <1>8, <1>9 DEF Ahead, Within
    <2>3. QED
      BY <2>1, <2>2
  <1>12. QED
    BY <1>3, <1>5, <1>6, <1>7, <1>9, <1>10, <1>11 DEF Ahead

\* Nothing was in the range: it was one chunk, the last one.
LEMMA MovedNothing ==
    ASSUME Setting, operation \in Collections, CollectionInv, MoveEnd,
           newOop = Null
    PROVE  /\ NewFreeChunk \in Nat
           /\ \E S, size, loc : NewHeap(memory, S, size, loc, NewFreeChunk)
  <1> DEFINE N == before.live
  <1>0. pc = "move"
    BY DEF MoveEnd
  <1>1. PICK S, size, loc, new, blk : Moves(S, size, loc, new, blk)
    BY <1>0 DEF CollectionInv
  <1>2. PICK G : G = Ahead(loc, compEnd)
    OBVIOUS
  <1>3. /\ oop = compEnd /\ compEnd \in Nat /\ endOfMemory \in Nat
        /\ compEnd <= endOfMemory
        /\ G = Ahead(loc, oop) /\ G = Within(N, loc, compStart, compEnd)
        /\ \A n \in N : memory[new[n]] = Own(n, size, loc)
        /\ \A n \in N : size[loc[n]] = 2 =>
              memory[new[n] + 1] = Oop(new[before.target])
        /\ \A n \in N \ G : new[n] = loc[n]
    BY <1>1, <1>2, MoveEndIs
  <1>4. /\ Plans(S, size, loc, new, blk, compEnd) /\ RangeEnds(loc)
        /\ RootsAre(new) /\ compStart <= oop
        /\ \A a \in FreeIn(N, S, loc) : a < compStart \/ a >= oop =>
              memory[a] = FreeChunk(size[a])
        /\ IF G = {}
           THEN newOop = Null /\ memory[compStart] = FreeChunk(size[compStart])
           ELSE \E n \in G : newOop = new[n]
    BY <1>1, <1>3 DEF Moves
  <1>5. /\ Passes(S, size, loc) /\ endOfMemory = freeBlock + 1
        /\ new \in [N -> Nat]
    BY <1>4 DEF Plans
  <1>6. /\ Placed(N, S, size, loc, endOfMemory)
        /\ LastFree(N, S, size, loc, freeBlock, endOfMemory)
        /\ compStart \in FreeIn(N, S, loc)
        /\ \/ compStart + size[compStart] = endOfMemory
           \/ \E n \in N : loc[n] = compStart + size[compStart]
        /\ operation = "full" => \A a \in FreeIn(N, S, loc) : a >= compStart
    BY <1>5 DEF Passes
  <1>7. /\ \A a \in S : /\ a \in Nat /\ size[a] \in Nat /\ 1 <= size[a]
                        /\ a + size[a] <= endOfMemory
        /\ \A a, b \in S : a < b => a + size[a] <= b
        /\ \A n \in N : /\ loc[n] \in Nat /\ size[loc[n]] \in {1, 2}
                        /\ loc[n] + size[loc[n]] <= endOfMemory
        /\ \A a \in FreeIn(N, S, loc) : a \in S
        /\ loc \in [N -> S]
    BY <1>6, PlacedAre DEF Placed
  <1>8. G = {}
    <2>1. \A n \in G : new[n] \in Nat
      BY <1>3, <1>5 DEF Within
    <2>2. QED
      BY <1>4, <2>1, MemoryAssumption
  <1>9. new = loc
    <2>1. \A n \in N : new[n] = loc[n]
      BY <1>3, <1>8
    <2>2. QED
      BY <1>5, <1>7, <2>1
  <1>10. compEnd = endOfMemory
    BY <1>2, <1>4, <1>8 DEF RangeEnds
  <1>11. /\ compStart \in S /\ compStart \in Nat /\ size[compStart] \in Nat
         /\ 1 <= size[compStart]
    BY <1>6, <1>7
  <1>12. compStart + size[compStart] = endOfMemory
    <2>1. ASSUME NEW n \in N, loc[n] = compStart + size[compStart] PROVE FALSE
      <3>0. /\ loc[n] \in Nat /\ size[loc[n]] \in {1, 2}
            /\ loc[n] + size[loc[n]] <= endOfMemory /\ endOfMemory \in Nat
        BY <1>3, <1>7
      <3>1. compStart <= loc[n] /\ loc[n] < compEnd
        BY <1>10, <1>11, <2>1, <3>0
      <3>2. n \in G
        BY <1>3, <3>1 DEF Within
      <3>3. QED
        BY <1>8, <3>2
    <2>2. QED
      BY <1>6, <2>1
  <1>13. memory[compStart] = FreeChunk(size[compStart])
    BY <1>4, <1>8
  <1>14. NewFreeChunk = compStart
    <2>1. memory[compStart].type = "free"
          /\ memory[compStart].size = size[compStart]
      BY <1>13, Words
    <2>2. IsFree(memory, compStart) /\ objectAfter(memory, compStart) = compEnd
      BY <1>10, <1>12, <2>1, After DEF IsFree
    <2>3. QED
      BY <2>2 DEF NewFreeChunk
  <1>15. \A a \in FreeIn(N, S, loc) : a = compStart \/ a < compStart
    <2> SUFFICES ASSUME NEW a \in FreeIn(N, S, loc), ~(a < compStart),
                        a # compStart
                 PROVE  FALSE
      OBVIOUS
    <2>0. a \in S
      BY <1>7
    <2>1. a \in Nat /\ size[a] \in Nat /\ 1 <= size[a]
          /\ a + size[a] <= endOfMemory
      BY <1>7, <2>0
    <2>2. compStart < a
      BY <1>11, <2>1
    <2>3. compStart + size[compStart] <= a
      BY <1>7, <1>11, <2>0, <2>2
    <2>4. QED
      BY <1>3, <1>12, <2>1, <2>3
  <1>16. HeadersAre(memory, N, size, loc)
    BY <1>3, <1>9 DEF HeadersAre
  <1>17. FieldsAre(memory, N, size, loc, loc[before.target])
    BY <1>3, <1>9 DEF FieldsAre
  <1>18. FreeAre(memory, N, S, size, loc, Null)
    BY <1>4, <1>13, <1>15 DEF FreeAre
  <1>19. DOMAIN memory = 0..memoryLimit
    BY DEF Setting
  <1>20. NewHeap(memory, S, size, loc, compStart)
    BY <1>4, <1>6, <1>9, <1>10, <1>12, <1>15, <1>16, <1>17, <1>18, <1>19
       DEF NewHeap
  <1>21. QED
    BY <1>11, <1>14, <1>20

\* The objects in the range have slid together: the chunk is behind the last.
LEMMA MovedSome ==
    ASSUME Setting, operation \in Collections, CollectionInv, MoveEnd,
           newOop # Null, NEW m,
           m = [memory EXCEPT ![NewFreeChunk] = FreeChunk(bytesFreed)]
    PROVE  /\ NewFreeChunk \in Nat
           /\ \E S, size, loc : NewHeap(m, S, size, loc, NewFreeChunk)
  <1> DEFINE N == before.live
             t == before.target
  <1>0. pc = "move"
    BY DEF MoveEnd
  <1>1. PICK S, size, loc, new, blk : Moves(S, size, loc, new, blk)
    BY <1>0 DEF CollectionInv
  <1>2. PICK G : G = Ahead(loc, compEnd)
    OBVIOUS
  <1>3. /\ oop = compEnd /\ compEnd \in Nat /\ endOfMemory \in Nat
        /\ compEnd \in S \cup {endOfMemory} /\ compEnd <= endOfMemory
        /\ G = Ahead(loc, oop) /\ G = Within(N, loc, compStart, compEnd)
        /\ \A n \in N : memory[new[n]] = Own(n, size, loc)
        /\ \A n \in N : size[loc[n]] = 2 => memory[new[n] + 1] = Oop(new[t])
        /\ \A n \in N \ G : new[n] = loc[n]
    BY <1>1, <1>2, MoveEndIs
  <1>4. /\ Plans(S, size, loc, new, blk, compEnd) /\ RangeEnds(loc)
        /\ RootsAre(new)
        /\ \A a \in FreeIn(N, S, loc) : a < compStart \/ a >= oop =>
              memory[a] = FreeChunk(size[a])
        /\ G # {} => \E n \in G : newOop = new[n] /\ \A k \in G : k <= n
        /\ G = {} => newOop = Null
    BY <1>1, <1>3 DEF Moves
  <1>5. /\ Passes(S, size, loc) /\ endOfMemory = freeBlock + 1
        /\ new \in [N -> Nat]
        /\ bytesFreed \in Nat /\ compStart <= compEnd - bytesFreed
        /\ compStart < compEnd => 1 <= bytesFreed
        /\ Slides(G, size, loc, new, compStart, compEnd - bytesFreed)
    BY <1>2, <1>4 DEF Plans
  <1>6. /\ Placed(N, S, size, loc, endOfMemory)
        /\ LastFree(N, S, size, loc, freeBlock, endOfMemory)
        /\ compStart \in FreeIn(N, S, loc)
        /\ operation = "full" => \A a \in FreeIn(N, S, loc) : a >= compStart
    BY <1>5 DEF Passes
  <1>7. /\ \A n \in N : /\ loc[n] \in Nat /\ size[loc[n]] \in {1, 2}
                        /\ n \in Nat
        /\ \A a \in FreeIn(N, S, loc) : a \in S /\ a \in Nat
        /\ compStart \in Nat
        /\ \A a \in S : /\ a \in Nat /\ size[a] \in Nat /\ 1 <= size[a]
                        /\ a + size[a] <= endOfMemory
    BY <1>6, PlacedAre
  <1>8. PICK last \in G : newOop = new[last] /\ \A k \in G : k <= last
    BY <1>4
  <1>9. /\ last \in N /\ compStart < compEnd
    BY <1>3, <1>7, <1>8 DEF Within
  <1>10. PICK c : c = compEnd - bytesFreed
    OBVIOUS
  <1>11. c \in Nat /\ compStart <= c /\ c < compEnd /\ compEnd - c = bytesFreed
    BY <1>3, <1>5, <1>7, <1>9, <1>10
  <1>12. SlidAs(N, S, size, loc, new, G, compStart, c, compEnd, endOfMemory)
    BY <1>3, <1>5, <1>6, <1>10, <1>11 DEF SlidAs
  <1>13. new[last] + size[loc[last]] = c
    <2>1. \A k \in G : new[k] = new[last] + size[loc[last]] => FALSE
      <3> SUFFICES ASSUME NEW k \in G, new[k] = new[last] + size[loc[last]]
                   PROVE  FALSE
        OBVIOUS
      <3>1. k \in N /\ k <= last /\ k \in Nat /\ last \in Nat
        BY <1>3, <1>7, <1>8 DEF Within
      <3>2. k < last => new[k] + size[loc[k]] <= new[last]
        BY <1>5 DEF Slides
      <3>3. /\ new[k] \in Nat /\ new[last] \in Nat
            /\ size[loc[k]] \in {1, 2} /\ size[loc[last]] \in {1, 2}
        BY <1>5, <1>7, <1>9, <3>1
      <3>4. k = last => new[k] = new[last]
        OBVIOUS
      <3>5. QED
        BY <3>1, <3>2, <3>3, <3>4
    <2>2. QED
      BY <1>5, <1>10, <2>1 DEF Slides
  <1>14. NewFreeChunk = c
    <2>1. memory[new[last]] = Header(last, size[loc[last]], last)
      BY <1>3, <1>9 DEF Own
    <2>2. /\ ~IsForwarded(memory, new[last])
          /\ RealHeader(memory, new[last]).size = size[loc[last]]
      BY <2>1, PlainHeaders
    <2>3. objectAfter(memory, newOop) = c
      BY <1>8, <1>13, <2>2 DEF objectAfter
    <2>4. QED
      BY <2>3 DEF NewFreeChunk
  <1>15. PICK S2 : S2 = SlidChunks(S, new, G, compStart, c, compEnd)
    OBVIOUS
  <1>16. PICK size2 :
            size2 = SlidSizes(S, size, loc, new, G, compStart, c, compEnd)
    OBVIOUS
  <1>17. /\ Placed(N, S2, size2, new, endOfMemory)
         /\ c \in FreeIn(N, S2, new) /\ size2[c] = compEnd - c
         /\ \A n \in N : size2[new[n]] = size[loc[n]]
         /\ \A a \in FreeIn(N, S2, new) :
               \/ a = c
               \/ /\ a \in FreeIn(N, S, loc) /\ size2[a] = size[a]
                  /\ a < compStart \/ a >= compEnd
         /\ \A a \in FreeIn(N, S, loc) :
               a >= compEnd => a \in FreeIn(N, S2, new) /\ size2[a] = size[a]
    BY <1>12, <1>15, <1>16, SlidPlaced
  <1>18. /\ \A n \in N : /\ new[n] \in Nat /\ size2[new[n]] \in {1, 2}
                         /\ new[n] + size2[new[n]] <= endOfMemory
                         /\ \/ c + size2[c] <= new[n]
                            \/ new[n] + size2[new[n]] <= c
         /\ \A a \in FreeIn(N, S2, new) : a \in Nat
    BY <1>17, PlacedAre
  <1>19. /\ DOMAIN memory = 0..memoryLimit /\ memoryLimit \in Nat
         /\ endOfMemory <= memoryLimit
    BY DEF Setting
  <1>20. /\ DOMAIN m = 0..memoryLimit /\ m[c] = FreeChunk(bytesFreed)
         /\ \A x \in 0..memoryLimit : x # c => m[x] = memory[x]
    <2>1. PICK u : u = FreeChunk(bytesFreed)
      OBVIOUS
    <2>2. m = [memory EXCEPT ![c] = u]
      BY <1>14, <2>1
    <2>3. c \in DOMAIN memory
      BY <1>3, <1>11, <1>19
    <2>4. QED
      BY <1>19, <2>1, <2>2, <2>3
  <1>21. ASSUME NEW n \in N
         PROVE  /\ m[new[n]] = Own(n, size2, new)
                /\ size2[new[n]] = 2 => m[new[n] + 1] = Oop(new[t])
    <2>1. /\ new[n] \in Nat /\ size2[new[n]] \in {1, 2}
          /\ new[n] + size2[new[n]] <= endOfMemory
          /\ \/ c + size2[c] <= new[n]
             \/ new[n] + size2[new[n]] <= c
      BY <1>18
    <2>2. size2[c] \in Nat /\ 1 <= size2[c]
      BY <1>3, <1>11, <1>17
    <2>3. new[n] # c /\ new[n] \in 0..memoryLimit
      BY <1>3, <1>11, <1>19, <2>1, <2>2
    <2>4. size2[new[n]] = 2 => new[n] + 1 # c /\ new[n] + 1 \in 0..memoryLimit
      BY <1>3, <1>11, <1>19, <2>1, <2>2, SMTT(30)
    <2>5. size2[new[n]] = size[loc[n]]
      BY <1>17
    <2>6. m[new[n]] = Own(n, size2, new)
      BY <1>3, <1>20, <2>3, <2>5 DEF Own
    <2>7. size2[new[n]] = 2 => m[new[n] + 1] = Oop(new[t])
      BY <1>3, <1>20, <2>4, <2>5
    <2>8. QED
      BY <2>6, <2>7
  <1>22. HeadersAre(m, N, size2, new) /\ FieldsAre(m, N, size2, new, new[t])
    BY <1>21 DEF HeadersAre, FieldsAre
  <1>23. FreeAre(m, N, S2, size2, new, Null)
    <2> SUFFICES ASSUME NEW a \in FreeIn(N, S2, new)
                 PROVE  m[a] = FreeChunk(size2[a])
      BY DEF FreeAre
    <2>1. CASE a = c
      BY <1>11, <1>17, <1>20, <2>1
    <2>2. CASE a # c
      <3>1. /\ a \in FreeIn(N, S, loc) /\ size2[a] = size[a]
            /\ a < compStart \/ a >= oop
        BY <1>3, <1>17, <2>2
      <3>2. memory[a] = FreeChunk(size[a])
        BY <1>4, <3>1
      <3>3. a \in 0..memoryLimit
        <4>1. a \in S
          BY <1>7, <3>1
        <4>2. a \in Nat /\ size[a] \in Nat /\ a + size[a] <= endOfMemory
          BY <1>7, <4>1
        <4>3. QED
          BY <1>3, <1>19, <4>2
      <3>4. QED
        BY <1>20, <2>2, <3>1, <3>2, <3>3
    <2>3. QED
      BY <2>1, <2>2
  <1>24. LastFree(N, S2, size2, new, freeBlock, endOfMemory)
    <2>1. PICK a \in FreeIn(N, S, loc) : /\ a <= freeBlock
                                         /\ freeBlock < endOfMemory
                                         /\ a + size[a] = endOfMemory
      BY <1>6 DEF LastFree
    <2>2. a \in S
      BY <1>7
    <2>3. a \in Nat /\ size[a] \in Nat /\ 1 <= size[a]
      BY <1>7, <2>2
    <2>4. CASE a >= compEnd
      <3>1. a \in FreeIn(N, S2, new) /\ size2[a] = size[a]
        BY <1>17, <2>4
      <3>2. QED
        BY <2>1, <3>1 DEF LastFree
    <2>5. CASE a < compEnd
      <3>1. compEnd = endOfMemory
        <4>1. ASSUME compEnd \in S PROVE endOfMemory <= compEnd
          <5>1. a + size[a] <= compEnd
            BY <1>6, <2>2, <2>5, <4>1, PlacedAre
          <5>2. QED
            BY <2>1, <5>1
        <4>2. QED
          BY <1>3, <4>1
      <3>2. c + size2[c] = endOfMemory
        BY <1>3, <1>11, <1>17, <3>1
      <3>3. c <= freeBlock
        BY <1>5, <1>11, <3>1 DEF Setting
      <3>4. QED
        BY <1>17, <2>1, <3>2, <3>3 DEF LastFree
    <2>6. QED
      BY <1>3, <2>3, <2>4, <2>5
  <1>25. ASSUME NEW a \in FreeIn(N, S2, new)
         PROVE  /\ a = c \/ a < compStart \/ a >= compEnd
                /\ operation = "full" => a >= c
    <2>1. a \in Nat
      BY <1>18
    <2>2. a = c \/ a < compStart \/ a >= compEnd
      BY <1>17
    <2>3. ASSUME operation = "full", a # c PROVE a >= c
      <3>1. a >= compStart
        BY <1>6, <1>17, <2>3
      <3>2. QED
        BY <1>3, <1>7, <1>11, <2>1, <2>2, <2>3, <3>1
    <2>4. QED
      BY <1>11, <2>2, <2>3
  <1>26. \/ compEnd = endOfMemory
         \/ operation = "full" /\ \E n \in N : new[n] = compEnd
    <2>1. CASE compEnd = endOfMemory
      BY <2>1
    <2>2. CASE operation = "full" /\ \E n \in N : loc[n] = compEnd
      <3>1. PICK n \in N : loc[n] = compEnd
        BY <2>2
      <3>2. n \notin G
        BY <1>3, <3>1 DEF Within
      <3>3. new[n] = compEnd
        BY <1>3, <3>1, <3>2
      <3>4. QED
        BY <2>2, <3>3
    <2>3. QED
      BY <1>4, <2>1, <2>2 DEF RangeEnds
  <1>27. c + size2[c] = compEnd
    BY <1>3, <1>11, <1>17
  <1>28. NewHeap(m, S2, size2, new, c)
    BY <1>4, <1>17, <1>20, <1>22, <1>23, <1>24, <1>25, <1>26, <1>27
       DEF NewHeap
  <1>29. QED
    BY <1>11, <1>14, <1>28

\* The collection is over, or another pass begins at the chunk.
LEMMA MoveEndSafe ==
    ASSUME Setting, operation \in Collections, CollectionInv, MoveEnd
    PROVE  Setting' /\ CollectionInv'
  <1> DEFINE N == before.live
             chunk == NewFreeChunk
             mm == IF newOop = Null THEN memory
                   ELSE [memory EXCEPT ![chunk] = FreeChunk(bytesFreed)]
  <1>0. PICK c, m : c = chunk /\ m = mm
    OBVIOUS
  <1>1. /\ pc = "move"
        /\ initializeMemoryFirstFree(
               m, IF objectAfter(m, c) = endOfMemory THEN c ELSE freeBlock,
               totalObjectCount)
        /\ compStart' = IF operation = "full" THEN c ELSE compStart
        /\ pc' = IF operation = "full" /\ c < freeBlock'
                 THEN "compact" ELSE "done"
        /\ UNCHANGED <<fixedVars, pointerVars, youngStart, totalObjectCount>>
    BY <1>0 DEF MoveEnd
  <1>2. /\ c \in Nat
        /\ \E S, size, loc : NewHeap(m, S, size, loc, c)
    <2>1. CASE newOop = Null
      <3>1. m = memory
        BY <1>0, <2>1
      <3>2. QED
        BY <1>0, <2>1, <3>1, MovedNothing
    <2>2. CASE newOop # Null
      <3>1. m = [memory EXCEPT ![NewFreeChunk] = FreeChunk(bytesFreed)]
        BY <1>0, <2>2
      <3>2. QED
        BY <1>0, <2>2, <3>1, MovedSome
    <2>3. QED
      BY <2>1, <2>2
  <1> HIDE DEF chunk, mm
  <1>3. PICK S, size, loc : NewHeap(m, S, size, loc, c)
    BY <1>2
  <1>4. /\ DOMAIN m = 0..memoryLimit
        /\ Placed(N, S, size, loc, endOfMemory)
        /\ LastFree(N, S, size, loc, freeBlock, endOfMemory)
        /\ c \in FreeIn(N, S, loc) /\ c + size[c] = compEnd
        /\ HeadersAre(m, N, size, loc)
        /\ FieldsAre(m, N, size, loc, loc[before.target])
        /\ FreeAre(m, N, S, size, loc, Null)
        /\ RootsAre(loc)
        /\ \A a \in FreeIn(N, S, loc) :
              /\ a = c \/ a < compStart \/ a >= compEnd
              /\ operation = "full" => a >= c
        /\ compEnd = endOfMemory
           \/ (operation = "full" /\ \E n \in N : loc[n] = compEnd)
    BY <1>3 DEF NewHeap
  <1>5. /\ \A a \in S : /\ a \in Nat /\ size[a] \in Nat /\ 1 <= size[a]
                        /\ a + size[a] <= endOfMemory
        /\ \A a, b \in S : a < b => a + size[a] <= b
        /\ \A n \in N : loc[n] \in Nat /\ size[loc[n]] \in {1, 2}
        /\ \A a \in FreeIn(N, S, loc) : a \in S /\ a \in Nat /\ 2 <= a
        /\ endOfMemory \in Nat
    BY <1>4, PlacedAre
  <1>6. /\ endOfMemory = freeBlock + 1 /\ freeBlock \in Nat /\ 2 <= freeBlock
        /\ totalObjectCount \in Nat
    <2>1. endOfMemory = freeBlock + 1
      BY <1>1 DEF CollectionInv, Moves, Plans
    <2>2. QED
      BY <2>1 DEF Setting
  <1>7. /\ c \in S /\ size[c] \in Nat /\ 1 <= size[c]
        /\ c + size[c] <= endOfMemory
    BY <1>4, <1>5
  <1>8. c <= freeBlock
    BY <1>2, <1>6, <1>7
  <1>9. FreeAre(m, N, S, size, loc, c) /\ FreeAre(m, N, S, size, loc, freeBlock)
    <2>1. \A a \in FreeIn(N, S, loc) : a # Null
      BY <1>5, MemoryAssumption
    <2>2. QED
      BY <1>4, <2>1 DEF FreeAre
  <1>10. objectAfter(m, c) = compEnd
    <2>1. m[c] = FreeChunk(size[c])
      <3>1. c # Null
        BY <1>2, MemoryAssumption
      <3>2. QED
        BY <1>4, <3>1 DEF FreeAre
    <2>2. m[c].type = "free" /\ m[c].size = size[c]
      BY <2>1, Words
    <2>3. QED
      BY <1>4, <2>2, After
  <1>11. /\ operation' = operation /\ before' = before
         /\ memoryLimit' = memoryLimit /\ BytesPerWord' = BytesPerWord
         /\ UNCHANGED <<rootTable, interpreterOops, methodCache, youngStart>>
    BY <1>1 DEF fixedVars, pointerVars
  <1>12. RootsAre(loc)'
    BY <1>4, <1>11 DEF RootsAre
  <1>13. Boundary' /\ before'.pairs = <<>>
    BY <1>1, <1>11 DEF CollectionInv, Boundary
  <1>14. CASE compEnd = endOfMemory
    <2>1. initializeMemoryFirstFree(m, c, totalObjectCount)
      BY <1>1, <1>10, <1>14
    <2>2. pc' = "done"
      <3>1. freeBlock' = c
        BY <2>1 DEF initializeMemoryFirstFree
      <3>2. ~(c < freeBlock')
        BY <1>2, <3>1
      <3>3. QED
        BY <1>1, <3>2
    <2>3. c + size[c] = endOfMemory
      BY <1>4, <1>14
    <2>4. \A a \in FreeIn(N, S, loc) : a = c \/ a < c
      <3> SUFFICES ASSUME NEW a \in FreeIn(N, S, loc), a # c PROVE a < c
        OBVIOUS
      <3>1. /\ a \in S /\ a \in Nat /\ size[a] \in Nat /\ 1 <= size[a]
            /\ a + size[a] <= endOfMemory
        BY <1>5
      <3>2. c < a => endOfMemory <= a
        BY <1>5, <1>7, <2>3, <3>1
      <3>3. QED
        BY <1>2, <1>5, <3>1, <3>2
    <2>5. \A a \in FreeIn(N, S, loc) :
             a = c \/ (operation = "incremental" /\ a < compStart')
      <3> SUFFICES ASSUME NEW a \in FreeIn(N, S, loc), a # c
                   PROVE  operation = "incremental" /\ a < compStart'
        OBVIOUS
      <3>1. a < c /\ a \in S /\ a \in Nat
        BY <1>5, <2>4
      <3>2. operation # "full"
        BY <1>2, <1>4, <3>1
      <3>3. operation = "incremental" /\ compStart' = compStart
        BY <1>1, <3>2 DEF Collections
      <3>4. ~(a >= compEnd)
        BY <1>2, <1>6, <1>8, <1>14, <3>1
      <3>5. QED
        BY <1>4, <3>3, <3>4
    <2>6. PICK count : count = totalObjectCount
      OBVIOUS
    <2>7. /\ count \in Nat /\ initializeMemoryFirstFree(m, c, count)
          /\ totalObjectCount' = count /\ UNCHANGED fixedVars
      BY <1>1, <1>6, <2>1, <2>6
    <2>8. Setting' /\ \E size2 : Collected(S, size2, loc)'
      BY <1>4, <1>8, <1>9, <1>12, <2>3, <2>5, <2>7, CollectedAfter
    <2>9. QED
      BY <1>13, <2>2, <2>8 DEF CollectionInv
  <1>15. CASE compEnd # endOfMemory
    <2>1. operation = "full" /\ \E n \in N : loc[n] = compEnd
      BY <1>4, <1>15
    <2>2. initializeMemoryFirstFree(m, freeBlock, totalObjectCount)
      BY <1>1, <1>10, <1>15
    <2>3. /\ Setting' /\ freeBlock' = freeBlock
          /\ \A x : x < freeBlock /\ x \in Nat => memory'[x] = m[x]
      <3>1. PICK count : count = totalObjectCount
        OBVIOUS
      <3>2. PICK fb : fb = freeBlock
        OBVIOUS
      <3>3. /\ count \in Nat /\ fb \in Nat /\ 2 <= fb /\ fb <= freeBlock
            /\ initializeMemoryFirstFree(m, fb, count)
            /\ totalObjectCount' = count /\ UNCHANGED fixedVars
            /\ DOMAIN m = 0..memoryLimit
        BY <1>1, <1>4, <1>6, <2>2, <3>1, <3>2
      <3>4. /\ Setting' /\ freeBlock' = fb
            /\ \A x : x < fb /\ x \in Nat => memory'[x] = m[x]
        BY <3>3, Initialized
      <3>5. QED
        BY <3>2, <3>4
    <2>4. c < freeBlock
      BY <1>2, <1>4, <1>6, <1>7, <1>15
    <2>5. pc' = "compact" /\ compStart' = c
      BY <1>1, <2>1, <2>3, <2>4
    <2>6. \A n \in N : loc[n] + size[loc[n]] <= freeBlock
      BY <1>4, <1>6, BelowFreeBlock
    <2>7. \A n \in N : /\ loc[n] \in Nat /\ loc[n] < freeBlock
                       /\ size[loc[n]] = 2 => /\ loc[n] + 1 \in Nat
                                              /\ loc[n] + 1 < freeBlock
      BY <1>5, <1>6, <2>6
    <2>8. HeadersAre(memory', N, size, loc)
      BY <1>4, <2>3, <2>7 DEF HeadersAre
    <2>9. FieldsAre(memory', N, size, loc, loc[before.target])
      BY <1>4, <2>3, <2>7 DEF FieldsAre
    <2>10. FreeAre(memory', N, S, size, loc, freeBlock)
      <3> SUFFICES ASSUME NEW a \in FreeIn(N, S, loc), a # freeBlock
                   PROVE  memory'[a] = FreeChunk(size[a])
        BY DEF FreeAre
      <3>1. /\ a \in Nat /\ a \in S
        BY <1>5
      <3>2. size[a] \in Nat /\ 1 <= size[a] /\ a + size[a] <= endOfMemory
        BY <1>5, <3>1
      <3>3. a < freeBlock
        BY <1>6, <3>1, <3>2
      <3>4. m[a] = FreeChunk(size[a])
        BY <1>9 DEF FreeAre
      <3>5. QED
        BY <2>3, <3>1, <3>3, <3>4
    <2>11. Passes(S, size, loc)'
      <3>1. /\ Placed(N, S, size, loc, freeBlock + 1)
            /\ LastFree(N, S, size, loc, freeBlock, freeBlock + 1)
        BY <1>4, <1>6
      <3>2. \E n \in N : loc[n] = c + size[c]
        BY <1>4, <2>1
      <3>3. operation # "incremental"
        BY <2>1
      <3>4. QED
        BY <1>4, <1>11, <2>3, <2>5, <3>1, <3>2, <3>3 DEF Passes
    <2>12. Compacts(S, size, loc)'
      BY <1>11, <1>12, <2>3, <2>8, <2>9, <2>10, <2>11 DEF Compacts
    <2>13. QED
      BY <1>13, <2>3, <2>5, <2>12 DEF CollectionInv
  <1>16. QED
    BY <1>14, <1>15
-----------------------------------------------------------------------------
(* The heap an operation finds is as the invariant says.                   *)

\* The chunks of a layout, with one word of the free block.
FoundChunks(start, n) == {0} \cup {start[i] : i \in 1..(n + 1)}

FoundSizes(layout, start, n) ==
    [a \in FoundChunks(start, n) |->
        IF a = 0 THEN 2
        ELSE IF a = start[n + 1] THEN 1
        ELSE layout[CHOOSE i \in 1..n : start[i] = a].size]

FoundPlaces(names, start) ==
    [x \in names |-> IF x = 0 THEN 0 ELSE start[x]]

\* Where they are, and their sizes.
FoundAt(layout, start, n, S, size) ==
    /\ 0 \in S /\ size[0] = 2 /\ size[start[n + 1]] = 1
    /\ \A i \in 1..n : size[start[i]] = layout[i].size
    /\ \A i \in 1..n : layout[i].size \in {1, 2}
    /\ \A i \in 1..(n + 1) : start[i] \in S /\ start[i] \in Nat
                             /\ 2 <= start[i]
    /\ \A i, j \in 1..(n + 1) : i < j <=> start[i] < start[j]
    /\ \A i \in 1..n : start[i + 1] = start[i] + layout[i].size
    /\ start[1] = 2 /\ start[n + 1] <= 2 * n + 2

\* The chunks of a layout lie end to end.
LEMMA FoundTiles ==
    ASSUME NEW n \in Nat \ {0}, NEW layout \in [1..n -> Chunk],
           NEW start, start = Starts(layout),
           NEW S, S = FoundChunks(start, n),
           NEW size, size = FoundSizes(layout, start, n)
    PROVE  /\ Tiles(S, size, start[n + 1] + 1)
           /\ FoundAt(layout, start, n, S, size)
  <1> DEFINE fb == start[n + 1]
  <1>1. /\ DOMAIN layout = 1..n
        /\ start \in [1..(n + 1) -> Nat]
        /\ start[1] = 2
        /\ \A i \in 1..n : start[i + 1] = start[i] + layout[i].size
        /\ \A i, j \in 1..(n + 1) : i < j =>
              start[i] + layout[i].size <= start[j]
        /\ start[n + 1] <= 2 * n + 2
    BY StartsAre
  <1>2. \A i \in 1..n : layout[i].size \in {1, 2}
    BY DEF Chunk
  <1>3. \A i \in 1..(n + 1) : start[i] \in Nat /\ start[i] \in S
    BY <1>1 DEF FoundChunks
  <1>4. \A i, j \in 1..(n + 1) : i < j => start[i] < start[j]
    <2> SUFFICES ASSUME NEW i \in 1..(n + 1), NEW j \in 1..(n + 1), i < j
                 PROVE  start[i] < start[j]
      OBVIOUS
    <2>1. i \in 1..n
      OBVIOUS
    <2>2. layout[i].size \in {1, 2} /\ start[i] + layout[i].size <= start[j]
      BY <1>1, <1>2, <2>1
    <2>3. start[i] \in Nat /\ start[j] \in Nat
      BY <1>3
    <2>4. QED
      BY <2>2, <2>3
  <1>5. \A i, j \in 1..(n + 1) : start[i] < start[j] => i < j
    <2> SUFFICES ASSUME NEW i \in 1..(n + 1), NEW j \in 1..(n + 1),
                        start[i] < start[j]
                 PROVE  i < j
      OBVIOUS
    <2>1. start[i] \in Nat /\ start[j] \in Nat
      BY <1>3
    <2>2. j < i => start[j] < start[i]
      BY <1>4
    <2>3. i = j => start[i] = start[j]
      OBVIOUS
    <2>4. QED
      BY <2>1, <2>2, <2>3
  <1>6. \A i, j \in 1..(n + 1) : start[i] = start[j] => i = j
    <2> SUFFICES ASSUME NEW i \in 1..(n + 1), NEW j \in 1..(n + 1),
                        start[i] = start[j]
                 PROVE  i = j
      OBVIOUS
    <2>1. ~(start[i] < start[j]) /\ ~(start[j] < start[i])
      BY <1>3
    <2>2. QED
      BY <1>4, <2>1
  <1>7. \A i \in 1..(n + 1) : 2 <= start[i]
    <2> SUFFICES ASSUME NEW i \in 1..(n + 1) PROVE 2 <= start[i]
      OBVIOUS
    <2>1. i = 1 \/ 1 < i
      OBVIOUS
    <2>2. 1 < i => start[1] < start[i]
      BY <1>4
    <2>3. QED
      BY <1>1, <1>3, <2>1, <2>2
  <1>8. /\ DOMAIN size = S /\ 0 \in S
        /\ \A a \in S : size[a] =
              IF a = 0 THEN 2
              ELSE IF a = start[n + 1] THEN 1
              ELSE layout[CHOOSE i \in 1..n : start[i] = a].size
        /\ size = [a \in S |-> size[a]]
    BY DEF FoundSizes, FoundChunks
  <1>9. size[0] = 2
    BY <1>8
  <1>10. fb \in S /\ fb \in Nat /\ 2 <= fb /\ size[fb] = 1
    <2>1. n + 1 \in 1..(n + 1)
      OBVIOUS
    <2>2. fb \in S /\ fb \in Nat /\ 2 <= fb
      BY <1>3, <1>7, <2>1
    <2>3. fb # 0
      BY <2>2
    <2>4. QED
      BY <1>8, <2>2, <2>3
  <1>11. ASSUME NEW i \in 1..n PROVE size[start[i]] = layout[i].size
    <2>1. i \in 1..(n + 1) /\ n + 1 \in 1..(n + 1) /\ i # n + 1
      OBVIOUS
    <2>2. start[i] \in S /\ start[i] # 0 /\ start[i] # start[n + 1]
      BY <1>3, <1>6, <1>7, <2>1
    <2>3. size[start[i]]
             = layout[CHOOSE j \in 1..n : start[j] = start[i]].size
      BY <1>8, <2>2
    <2>4. \A j \in 1..n : j \in 1..(n + 1)
      OBVIOUS
    <2>5. (CHOOSE j \in 1..n : start[j] = start[i]) = i
      BY <1>6, <2>1, <2>4
    <2>6. QED
      BY <2>3, <2>5
  <1>12. \A a \in S : \/ a = 0
                      \/ \E i \in 1..n : a = start[i]
                      \/ a = fb
    <2>1. \A i \in 1..(n + 1) : i \in 1..n \/ i = n + 1
      OBVIOUS
    <2>2. \A a \in S : a = 0 \/ \E i \in 1..(n + 1) : a = start[i]
      BY DEF FoundChunks
    <2>3. QED
      BY <2>1, <2>2
  <1>13. \A i \in 1..n : i \in 1..(n + 1) /\ i + 1 \in 1..(n + 1)
                         /\ i < i + 1 /\ i < n + 1
    OBVIOUS
  <1>14. ASSUME NEW a \in S
         PROVE  /\ a \in Nat /\ size[a] \in Nat \ {0}
                /\ a + size[a] \in S \cup {fb + 1}
                /\ a + size[a] <= fb + 1
    <2>1. CASE a = 0
      <3>1. start[1] \in S /\ 1 \in 1..(n + 1)
        BY <1>3
      <3>2. QED
        BY <1>1, <1>9, <1>10, <2>1, <3>1
    <2>2. CASE \E i \in 1..n : a = start[i]
      <3>1. PICK i \in 1..n : a = start[i]
        BY <2>2
      <3>2. /\ a \in Nat /\ size[a] \in {1, 2}
            /\ a + size[a] = start[i + 1]
        BY <1>1, <1>2, <1>3, <1>11, <1>13, <3>1
      <3>3. start[i + 1] \in S /\ start[i + 1] \in Nat /\ start[i + 1] <= fb
        <4>1. i + 1 \in 1..(n + 1) /\ n + 1 \in 1..(n + 1)
              /\ (i + 1 < n + 1 \/ i + 1 = n + 1)
          OBVIOUS
        <4>2. i + 1 < n + 1 => start[i + 1] < fb
          BY <1>4, <4>1
        <4>3. QED
          BY <1>3, <4>1, <4>2
      <3>4. QED
        BY <1>10, <3>2, <3>3
    <2>3. CASE a = fb
      BY <1>10, <2>3
    <2>4. QED
      BY <1>12, <2>1, <2>2, <2>3
  <1>15. ASSUME NEW a \in S, NEW b \in S, a < b PROVE a + size[a] <= b
    <2>1. a \in Nat /\ b \in Nat
      BY <1>14
    <2>2. b # 0 /\ 2 <= b
      <3>1. b # 0
        BY <1>15, <2>1
      <3>2. QED
        BY <1>7, <1>10, <1>12, <1>13, <3>1
    <2>3. PICK j \in 1..(n + 1) : b = start[j]
      BY <1>12, <1>13, <2>2
    <2>4. CASE a = 0
      BY <1>9, <2>2, <2>4
    <2>5. CASE \E i \in 1..n : a = start[i]
      <3>1. PICK i \in 1..n : a = start[i]
        BY <2>5
      <3>2. i < j
        BY <1>5, <1>13, <1>15, <2>3, <3>1
      <3>3. start[i] + layout[i].size <= start[j]
        BY <1>1, <1>13, <3>2
      <3>4. QED
        BY <1>11, <2>3, <3>1, <3>3
    <2>6. CASE a = fb
      <3>1. n + 1 < j
        BY <1>5, <1>15, <2>3, <2>6
      <3>2. QED
        BY <3>1
    <2>7. QED
      BY <1>12, <2>4, <2>5, <2>6
  <1>16. Tiles(S, size, fb + 1)
    <2>1. size \in [S -> Nat \ {0}]
      BY <1>8, <1>14
    <2>2. S \subseteq Nat /\ fb + 1 \in Nat
      BY <1>10, <1>14
    <2>3. QED
      BY <1>8, <1>14, <1>15, <2>1, <2>2 DEF Tiles
  <1>17. QED
    BY <1>1, <1>2, <1>3, <1>4, <1>5, <1>7, <1>8, <1>9, <1>10, <1>11, <1>16
       DEF FoundAt

\* The words of the heap.
LEMMA HeapOfIs ==
    ASSUME NEW n \in Nat \ {0}, NEW layout \in [1..n -> Chunk],
           NEW limit \in Nat, NEW target, NEW start, start = Starts(layout),
           start[n + 1] <= limit, NEW m, m = HeapOf(layout, limit, target),
           NEW t, t = IF target = 0 THEN 0 ELSE start[target]
    PROVE  /\ DOMAIN m = 0..limit
           /\ m[0] = Header(0, 2, 0) /\ m[1] = Oop(t)
           /\ \A i \in 1..n :
                 /\ m[start[i]] = IF layout[i].kind = "free"
                                  THEN FreeChunk(layout[i].size)
                                  ELSE Header(i, layout[i].size, i)
                 /\ layout[i].size = 2 => m[start[i] + 1] = Oop(t)
  <1> DEFINE end == start[n + 1]
             At(x) == CHOOSE i \in DOMAIN layout :
                          start[i] <= x /\ x < start[i + 1]
             Word(x, i) == IF x > start[i] THEN Oop(t)
                           ELSE IF layout[i].kind = "free"
                           THEN FreeChunk(layout[i].size)
                           ELSE ObjectHeader(i, layout[i].size)
             F(x) == CASE x = 0 -> ObjectHeader(0, 2)
                       [] x = 1 -> Oop(t)
                       [] x > 1 /\ x < end -> Word(x, At(x))
                       [] x = end -> FreeChunk(limit - end)
                       [] x = limit -> FreeChunk(1)
                       [] OTHER -> NotAnOop
  <1>0. PICK S : S = FoundChunks(start, n)
    OBVIOUS
  <1>00. PICK size : size = FoundSizes(layout, start, n)
    OBVIOUS
  <1>1. /\ \A i \in 1..n : layout[i].size \in {1, 2}
        /\ \A i \in 1..(n + 1) : start[i] \in Nat /\ 2 <= start[i]
        /\ \A i, j \in 1..(n + 1) : i < j <=> start[i] < start[j]
        /\ \A i \in 1..n : start[i + 1] = start[i] + layout[i].size
    <2>1. FoundAt(layout, start, n, S, size)
      BY <1>0, <1>00, FoundTiles
    <2>2. QED
      BY <2>1 DEF FoundAt
  <1>2. Len(layout) = n /\ DOMAIN layout = 1..n
    BY StartsAre
  <1>3. m = [x \in 0..limit |-> F(x)]
    BY <1>2 DEF HeapOf
  <1>4. 2 <= end /\ end \in Nat
    BY <1>1
  <1>5. /\ 0 \in 0..limit /\ 1 \in 0..limit
        /\ F(0) = ObjectHeader(0, 2) /\ F(1) = Oop(t)
    BY <1>4
  <1>6. ASSUME NEW i \in 1..n, NEW x \in Nat, start[i] <= x, x < start[i + 1]
        PROVE  x \in 0..limit /\ F(x) = Word(x, i)
    <2>1. \A j \in 1..n : start[j] <= x /\ x < start[j + 1] => j = i
      <3> SUFFICES ASSUME NEW j \in 1..n, start[j] <= x, x < start[j + 1]
                   PROVE  j = i
        OBVIOUS
      <3>0. /\ i \in 1..(n + 1) /\ j \in 1..(n + 1)
            /\ i + 1 \in 1..(n + 1) /\ j + 1 \in 1..(n + 1)
        OBVIOUS
      <3>1. start[i] < start[j + 1] /\ start[j] < start[i + 1]
        <4>1. /\ start[i] \in Nat /\ start[j] \in Nat
              /\ start[i + 1] \in Nat /\ start[j + 1] \in Nat
          BY <1>1, <3>0
        <4>2. QED
          BY <1>6, <3>0, <4>1, SMTT(30)
      <3>2. i < j + 1 /\ j < i + 1
        BY <1>1, <3>0, <3>1
      <3>3. QED
        BY <3>2
    <2>2. At(x) = i
      BY <1>2, <1>6, <2>1
    <2>3. x > 1 /\ x < end
      <3>1. i \in 1..(n + 1) /\ i + 1 \in 1..(n + 1) /\ n + 1 \in 1..(n + 1)
            /\ (i + 1 = n + 1 \/ i + 1 < n + 1)
        OBVIOUS
      <3>2. start[i] \in Nat /\ 2 <= start[i] /\ start[i + 1] \in Nat
        BY <1>1, <3>1
      <3>3. start[i + 1] <= end
        BY <1>1, <3>1, <1>4
      <3>4. QED
        BY <1>4, <1>6, <3>2, <3>3
    <2>4. x # 0 /\ x # 1 /\ x # end /\ x # limit /\ x \in 0..limit
      BY <1>4, <2>3
    <2> HIDE DEF At, Word, end
    <2>5. F(x) = Word(x, At(x))
      BY <2>3, <2>4, Zenon
    <2>6. QED
      BY <2>2, <2>4, <2>5
  <1>7. ASSUME NEW i \in 1..n
        PROVE  /\ m[start[i]] = IF layout[i].kind = "free"
                                THEN FreeChunk(layout[i].size)
                                ELSE Header(i, layout[i].size, i)
               /\ layout[i].size = 2 => m[start[i] + 1] = Oop(t)
    <2>1. /\ start[i] \in Nat /\ layout[i].size \in {1, 2}
          /\ start[i + 1] = start[i] + layout[i].size
      BY <1>1
    <2>2. start[i] <= start[i] /\ start[i] < start[i + 1]
      BY <2>1
    <2>3. start[i] \in 0..limit /\ F(start[i]) = Word(start[i], i)
      BY <1>6, <2>1, <2>2
    <2>4. ~(start[i] > start[i])
      BY <2>1
    <2>5. ObjectHeader(i, layout[i].size) = Header(i, layout[i].size, i)
      BY HeaderSet, Zenon
    <2>6. m[start[i]] = Word(start[i], i)
      BY <1>3, <2>3
    <2>7. m[start[i]] = IF layout[i].kind = "free"
                        THEN FreeChunk(layout[i].size)
                        ELSE Header(i, layout[i].size, i)
      BY <2>4, <2>5, <2>6
    <2>8. ASSUME layout[i].size = 2 PROVE m[start[i] + 1] = Oop(t)
      <3>1. /\ start[i] + 1 \in Nat /\ start[i] <= start[i] + 1
            /\ start[i] + 1 < start[i + 1] /\ start[i] + 1 > start[i]
        BY <2>1, <2>8, SMTT(30)
      <3>2. PICK x : x = start[i] + 1
        OBVIOUS
      <3>3. x \in Nat /\ start[i] <= x /\ x < start[i + 1] /\ x > start[i]
        BY <3>1, <3>2
      <3>4. x \in 0..limit /\ F(x) = Word(x, i)
        BY <1>6, <3>3
      <3>5. m[x] = Word(x, i)
        BY <1>3, <3>4
      <3>6. QED
        BY <3>2, <3>3, <3>5
    <2>9. QED
      BY <2>7, <2>8
  <1>8. ObjectHeader(0, 2) = Header(0, 2, 0)
    BY HeaderSet, Zenon
  <1> HIDE DEF F
  <1>9. QED
    BY <1>3, <1>5, <1>7, <1>8

\* Where the objects of a layout are, and that the rest is free.
LEMMA FoundPlaced ==
    ASSUME NEW n \in Nat \ {0}, NEW layout \in [1..n -> Chunk],
           NEW limit \in Nat, NEW start, start = Starts(layout),
           start[n + 1] <= limit,
           NEW N, N = LiveChunks(layout) \cup {0}, NEW target \in N,
           NEW m, m = HeapOf(layout, limit, target),
           NEW S, S = FoundChunks(start, n),
           NEW size, size = FoundSizes(layout, start, n),
           NEW loc, loc = FoundPlaces(N, start)
    PROVE  /\ IsFiniteSet(N)
           /\ Placed(N, S, size, loc, start[n + 1] + 1)
           /\ start[n + 1] \in FreeIn(N, S, loc)
           /\ \A a \in FreeIn(N, S, loc) :
                 a # start[n + 1] => Dead(m[a], size[a])
           /\ HeadersAre(m, N, size, loc)
           /\ FieldsAre(m, N, size, loc, loc[target])
           /\ LiveChunks(layout) = DOMAIN layout =>
                 FreeIn(N, S, loc) = {start[n + 1]}
  <1> DEFINE fb == start[n + 1]
  <1>1. /\ Tiles(S, size, fb + 1)
        /\ FoundAt(layout, start, n, S, size)
    BY FoundTiles
  <1>2. /\ 0 \in S /\ size[0] = 2 /\ size[start[n + 1]] = 1
        /\ \A i \in 1..n : size[start[i]] = layout[i].size
        /\ \A i \in 1..n : layout[i].size \in {1, 2}
        /\ \A i \in 1..(n + 1) : start[i] \in S /\ start[i] \in Nat
                                 /\ 2 <= start[i]
        /\ \A i, j \in 1..(n + 1) : i < j <=> start[i] < start[j]
    BY <1>1 DEF FoundAt
  <1>3. Len(layout) = n /\ DOMAIN layout = 1..n
    BY StartsAre
  <1>4. \A i \in 1..n : i \in 1..(n + 1) /\ n + 1 \in 1..(n + 1) /\ i < n + 1
    OBVIOUS
  <1>5. N \subseteq Nat /\ 0 \in N /\ \A x \in N : x # 0 => x \in 1..n
    BY <1>3 DEF LiveChunks
  <1>6. IsFiniteSet(N)
    <2>1. IsFiniteSet(0..n)
      BY FS_Interval
    <2>2. N \in SUBSET (0..n)
      BY <1>5
    <2>3. QED
      BY <2>1, <2>2, FS_Subset
  <1>7. /\ DOMAIN loc = N /\ loc[0] = 0 /\ loc = [x \in N |-> loc[x]]
        /\ \A x \in N : x # 0 => loc[x] = start[x]
    BY <1>5 DEF FoundPlaces
  <1>8. PICK t : t = IF target = 0 THEN 0 ELSE start[target]
    OBVIOUS
  <1>9. loc[target] = t
    BY <1>7, <1>8
  <1>10. /\ m[0] = Header(0, 2, 0) /\ m[1] = Oop(t)
         /\ \A i \in 1..n :
               /\ m[start[i]] = IF layout[i].kind = "free"
                                THEN FreeChunk(layout[i].size)
                                ELSE Header(i, layout[i].size, i)
               /\ layout[i].size = 2 => m[start[i] + 1] = Oop(t)
    BY <1>8, HeapOfIs
  <1>11. \A x \in N : loc[x] \in S
    BY <1>2, <1>4, <1>5, <1>7
  <1>12. loc \in [N -> S]
    BY <1>7, <1>11
  <1>13. ASSUME NEW x \in N, NEW y \in N, x < y PROVE loc[x] < loc[y]
    <2>1. y # 0 /\ y \in 1..n /\ y \in 1..(n + 1)
      BY <1>4, <1>5, <1>13
    <2>2. loc[y] = start[y] /\ start[y] \in Nat /\ 2 <= start[y]
      BY <1>2, <1>7, <2>1
    <2>3. CASE x = 0
      BY <1>7, <2>2, <2>3
    <2>4. CASE x # 0
      BY <1>2, <1>4, <1>5, <1>7, <1>13, <2>1, <2>2, <2>4
    <2>5. QED
      BY <2>3, <2>4
  <1>14. \A x \in N : size[loc[x]] \in {1, 2}
    <2> SUFFICES ASSUME NEW x \in N PROVE size[loc[x]] \in {1, 2}
      OBVIOUS
    <2>1. CASE x = 0
      BY <1>2, <1>7, <2>1
    <2>2. CASE x # 0
      <3>1. x \in 1..n /\ loc[x] = start[x]
        BY <1>5, <1>7, <2>2
      <3>2. size[start[x]] = layout[x].size /\ layout[x].size \in {1, 2}
        BY <1>2, <3>1
      <3>3. QED
        BY <3>1, <3>2
    <2>3. QED
      BY <2>1, <2>2
  <1>15. Placed(N, S, size, loc, fb + 1)
    BY <1>1, <1>2, <1>5, <1>7, <1>12, <1>13, <1>14 DEF Placed
  <1>16. \A i \in 1..n : start[i] # fb
    <2> SUFFICES ASSUME NEW i \in 1..n PROVE start[i] # fb
      OBVIOUS
    <2>1. start[i] < fb /\ start[i] \in Nat /\ fb \in Nat
      BY <1>2, <1>4
    <2>2. QED
      BY <2>1
  <1>17. fb \in FreeIn(N, S, loc)
    <2>1. fb \in S /\ fb \in Nat /\ 2 <= fb
      BY <1>2, <1>4
    <2>2. \A x \in N : loc[x] # fb
      <3> SUFFICES ASSUME NEW x \in N PROVE loc[x] # fb
        OBVIOUS
      <3>1. x = 0 \/ x \in 1..n
        BY <1>5
      <3>2. x = 0 => loc[x] = 0
        BY <1>7
      <3>3. x # 0 => loc[x] = start[x]
        BY <1>7
      <3>4. QED
        BY <1>16, <2>1, <3>1, <3>2, <3>3
    <2>3. QED
      BY <2>1, <2>2 DEF FreeIn
  <1>18. ASSUME NEW a \in FreeIn(N, S, loc), a # fb
         PROVE  \E i \in 1..n : a = start[i] /\ i \notin N
    <2>1. a \in S /\ \A x \in N : loc[x] # a
      BY DEF FreeIn
    <2>2. a # 0
      BY <1>5, <1>7, <2>1
    <2>3. PICK i \in 1..(n + 1) : a = start[i]
      BY <2>1, <2>2 DEF FoundChunks
    <2>4. i # n + 1
      BY <1>18, <2>3
    <2>5. i \in 1..n
      BY <2>4
    <2>6. i \notin N
      <3> SUFFICES ASSUME i \in N PROVE FALSE
        OBVIOUS
      <3>1. i # 0
        BY <2>5
      <3>2. loc[i] = start[i]
        BY <1>7, <3>1
      <3>3. QED
        BY <2>1, <2>3, <3>2
    <2>7. QED
      BY <2>3, <2>5, <2>6
  <1>19. ASSUME NEW a \in FreeIn(N, S, loc), a # fb
         PROVE  Dead(m[a], size[a])
    <2>1. PICK i \in 1..n : a = start[i] /\ i \notin N
      BY <1>18, <1>19
    <2>2. size[a] = layout[i].size
      BY <1>2, <2>1
    <2>3. m[a] = IF layout[i].kind = "free"
                 THEN FreeChunk(layout[i].size)
                 ELSE Header(i, layout[i].size, i)
      BY <1>10, <2>1
    <2>4. m[a].size = layout[i].size
      BY <2>3, Words
    <2>5. m[a].type = "free" \/ (m[a].type = "object" /\ m[a].mark = FALSE)
      BY <2>3, Words
    <2>6. QED
      BY <2>2, <2>4, <2>5 DEF Dead
  <1>20. \A x \in N : x # 0 => layout[x].kind = "live"
    BY DEF LiveChunks
  <1>21. HeadersAre(m, N, size, loc)
    <2> SUFFICES ASSUME NEW x \in N PROVE m[loc[x]] = Own(x, size, loc)
      BY DEF HeadersAre
    <2>1. CASE x = 0
      BY <1>2, <1>7, <1>10, <2>1 DEF Own
    <2>2. CASE x # 0
      <3>1. x \in 1..n /\ loc[x] = start[x] /\ layout[x].kind = "live"
        BY <1>5, <1>7, <1>20, <2>2
      <3>2. m[start[x]] = Header(x, layout[x].size, x)
        BY <1>10, <3>1
      <3>3. size[start[x]] = layout[x].size
        BY <1>2, <3>1
      <3>4. QED
        BY <3>1, <3>2, <3>3 DEF Own
    <2>3. QED
      BY <2>1, <2>2
  <1>22. FieldsAre(m, N, size, loc, loc[target])
    <2> SUFFICES ASSUME NEW x \in N, size[loc[x]] = 2
                 PROVE  m[loc[x] + 1] = Oop(t)
      BY <1>9 DEF FieldsAre
    <2>1. CASE x = 0
      <3>1. loc[x] + 1 = 1
        BY <1>7, <2>1
      <3>2. QED
        BY <1>10, <3>1
    <2>2. CASE x # 0
      <3>1. x \in 1..n /\ loc[x] = start[x]
        BY <1>5, <1>7, <2>2
      <3>2. layout[x].size = 2
        BY <1>2, <3>1
      <3>3. QED
        BY <1>10, <3>1, <3>2
    <2>3. QED
      BY <2>1, <2>2
  <1>23. ASSUME LiveChunks(layout) = DOMAIN layout
         PROVE  FreeIn(N, S, loc) = {fb}
    <2>1. \A i \in 1..n : i \in N
      BY <1>3, <1>23
    <2>2. QED
      BY <1>17, <1>18, <2>1
  <1>24. QED
    BY <1>6, <1>15, <1>17, <1>19, <1>21, <1>22, <1>23

\* The arguments of become: are the objects at these addresses.
ArraysAre(loc) ==
    arrays = [n \in 1..2 |-> [i \in DOMAIN before.pairs |->
                                 loc[before.pairs[i][n]]]]

PairsAreGiven ==
    /\ before.pairs \in Exchanges(operation, before.live)
    /\ operation \notin Collections => Distinct(operation, before.pairs)

\* What the pairs are.
LEMMA PairsAre ==
    ASSUME NEW op, NEW N, NEW pairs, pairs \in Exchanges(op, N)
    PROVE  /\ op \in Collections => pairs = <<>>
           /\ op \notin Collections =>
                 /\ Len(pairs) \in {1, 2}
                 /\ \A i \in DOMAIN pairs :
                       /\ pairs[i] \in N \X N
                       /\ op \in OneWays => pairs[i][1] # pairs[i][2]
                       /\ op \notin OneWays => pairs[i][1] < pairs[i][2]
           /\ DOMAIN pairs = 1..Len(pairs) /\ Len(pairs) \in Nat
           /\ \A i \in DOMAIN pairs, n \in 1..2 : pairs[i][n] \in N
  <1> DEFINE pair == {e \in N \X N :
                         IF op \in OneWays THEN e[1] # e[2] ELSE e[1] < e[2]}
  <1>1. op \in Collections => pairs = <<>>
    BY DEF Exchanges
  <1>2. ASSUME op \notin Collections
        PROVE  \/ \E e \in pair : pairs = <<e>>
               \/ \E e, f \in pair : pairs = <<e, f>>
    <2> HIDE DEF pair
    <2>1. pairs \in {<<e>> : e \in pair} \cup {<<e, f>> : e, f \in pair}
      BY <1>2 DEF Exchanges, pair
    <2>2. QED
      BY <2>1
  <1>3. \A e \in pair : /\ e \in N \X N
                        /\ op \in OneWays => e[1] # e[2]
                        /\ op \notin OneWays => e[1] < e[2]
                        /\ \A n \in 1..2 : e[n] \in N
    OBVIOUS
  <1> HIDE DEF pair
  <1>4. ASSUME op \notin Collections
        PROVE  /\ Len(pairs) \in {1, 2} /\ DOMAIN pairs = 1..Len(pairs)
               /\ \A i \in DOMAIN pairs : pairs[i] \in pair
    <2>1. CASE \E e \in pair : pairs = <<e>>
      BY <2>1
    <2>2. CASE \E e, f \in pair : pairs = <<e, f>>
      BY <2>2
    <2>3. QED
      BY <1>2, <1>4, <2>1, <2>2
  <1>5. op \in Collections =>
            Len(pairs) = 0 /\ DOMAIN pairs = 1..0
    BY <1>1
  <1>6. QED
    BY <1>1, <1>3, <1>4, <1>5

\* An operation finds a heap that is as the predicates above say.
LEMMA InitFound ==
    ASSUME Init
    PROVE  /\ Setting /\ PairsAreGiven
           /\ youngStart = 2 /\ rootTable = {0}
           /\ operation \in Collections \cup {"become"} \cup OneWays
           /\ operation \in OneWays => BytesPerWord \in OneWayWordSizes
           /\ pc = IF operation \in Collections THEN "mark" ELSE "prepare"
           /\ \E S, size, loc :
                 /\ Found(S, size, loc) /\ ArraysAre(loc)
                 /\ operation \notin Collections =>
                       FreeIn(before.live, S, loc) = {freeBlock}
  <1>1. PICK op \in Collections \cup {"become"} \cup OneWays,
             layout \in Layouts, limit \in MemoryLimits :
           LET start == Starts(layout)
               live == LiveChunks(layout)
               names == live \cup {0}
               Address(name) == IF name = 0 THEN 0 ELSE start[name]
           IN \E target \in names, pairs \in Exchanges(op, names) :
             (/\ op \notin Collections =>
                    /\ live = DOMAIN layout /\ Len(layout) <= MaxObjects
                    /\ Distinct(op, pairs)
              /\ operation = op
              /\ BytesPerWord \in IF op \in OneWays THEN OneWayWordSizes
                                                    ELSE WordSizes
              /\ memoryLimit = limit
              /\ memory = HeapOf(layout, limit, target)
              /\ youngStart = 2
              /\ freeBlock = start[Len(layout) + 1]
              /\ endOfMemory = limit
              /\ totalObjectCount = Cardinality(names)
              /\ rootTable = {0}
              /\ interpreterOops =
                    [i \in 1..Cardinality(names) |->
                        Address(SetToSeq(names)[i])]
              /\ methodCache = Address(target)
              /\ arrays = [n \in 1..2 |->
                             [i \in DOMAIN pairs |-> Address(pairs[i][n])]]
              /\ before = [live |-> names, target |-> target,
                           pairs |-> pairs]
              /\ pc = IF op \in Collections THEN "mark" ELSE "prepare")
             /\ fwdTableNext = 0 /\ fwdTableLast = 0
             /\ compStart = 0 /\ compEnd = 0 /\ bytesFreed = 0
             /\ sweep = NoSweep /\ oop = 0 /\ newOop = Null
    BY Zenon DEF Init
  <1> DEFINE start == Starts(layout)
             N == LiveChunks(layout) \cup {0}
             Address(name) == IF name = 0 THEN 0 ELSE start[name]
  <1>2. start = Starts(layout) /\ N = LiveChunks(layout) \cup {0}
    OBVIOUS
  <1>3. PICK target \in N, pairs \in Exchanges(op, N) :
             /\ op \notin Collections =>
                    /\ LiveChunks(layout) = DOMAIN layout
                    /\ Distinct(op, pairs)
             /\ operation = op
             /\ BytesPerWord \in IF op \in OneWays THEN OneWayWordSizes
                                                   ELSE WordSizes
             /\ memoryLimit = limit
             /\ memory = HeapOf(layout, limit, target)
             /\ youngStart = 2
             /\ freeBlock = start[Len(layout) + 1]
             /\ endOfMemory = limit
             /\ totalObjectCount = Cardinality(N)
             /\ rootTable = {0}
             /\ interpreterOops =
                    [i \in 1..Cardinality(N) |-> Address(SetToSeq(N)[i])]
             /\ methodCache = Address(target)
             /\ arrays = [n \in 1..2 |->
                             [i \in DOMAIN pairs |-> Address(pairs[i][n])]]
             /\ before = [live |-> N, target |-> target, pairs |-> pairs]
             /\ pc = IF op \in Collections THEN "mark" ELSE "prepare"
    BY <1>1, Zenon
  <1> HIDE DEF start, N
  <1>4. PICK n \in 1..MaxChunks : layout \in [1..n -> Chunk]
    BY DEF Layouts
  <1>5. MaxChunks \in Nat /\ limit \in Nat /\ 2 * MaxChunks + 8 <= limit
        /\ WordSizes \subseteq {4, 8} /\ OneWayWordSizes \subseteq {4, 8}
    BY MemoryAssumption
  <1>6. n \in Nat \ {0} /\ n <= MaxChunks
    BY <1>4, <1>5
  <1>7. PICK S, size : /\ S = FoundChunks(start, n)
                       /\ size = FoundSizes(layout, start, n)
    OBVIOUS
  <1>8. PICK loc : loc = FoundPlaces(N, start)
    OBVIOUS
  <1>9. Len(layout) = n
    BY <1>4, <1>6, StartsAre
  <1>10. FoundAt(layout, start, n, S, size)
    BY <1>2, <1>4, <1>6, <1>7, FoundTiles
  <1>11. freeBlock = start[n + 1]
    BY <1>3, <1>9
  <1>12. /\ freeBlock \in Nat /\ 2 <= freeBlock /\ freeBlock <= 2 * n + 2
    <2>1. n + 1 \in 1..(n + 1)
      BY <1>6
    <2>2. QED
      BY <1>10, <1>11, <2>1 DEF FoundAt
  <1>13. freeBlock <= 2 * MaxChunks + 2 /\ freeBlock < limit
    BY <1>5, <1>6, <1>12
  <1>14. /\ IsFiniteSet(N)
         /\ Placed(N, S, size, loc, freeBlock + 1)
         /\ freeBlock \in FreeIn(N, S, loc)
         /\ \A a \in FreeIn(N, S, loc) :
               a # freeBlock => Dead(memory[a], size[a])
         /\ HeadersAre(memory, N, size, loc)
         /\ FieldsAre(memory, N, size, loc, loc[target])
         /\ LiveChunks(layout) = DOMAIN layout =>
               FreeIn(N, S, loc) = {freeBlock}
    <2>1. start[n + 1] <= limit /\ memory = HeapOf(layout, limit, target)
      BY <1>3, <1>5, <1>11, <1>12, <1>13
    <2>2. QED
      BY <1>2, <1>4, <1>5, <1>6, <1>7, <1>8, <1>11, <2>1, FoundPlaced
  <1>15. before.live = N /\ before.target = target /\ before.pairs = pairs
    BY <1>3
  <1>16. DOMAIN memory = 0..memoryLimit
    <2>1. DOMAIN HeapOf(layout, limit, target) = 0..limit
      BY DEF HeapOf
    <2>2. QED
      BY <1>3, <2>1
  <1>17. Setting
    <2>1. BytesPerWord \in {4, 8}
      BY <1>3, <1>5
    <2>2. totalObjectCount \in Nat
      BY <1>3, <1>14, FS_CardinalityType
    <2>3. QED
      BY <1>3, <1>5, <1>12, <1>13, <1>14, <1>15, <1>16, <2>1, <2>2
         DEF Setting
  <1>18. \A x \in N : loc[x] = Address(x)
    BY <1>8 DEF FoundPlaces
  <1> HIDE DEF Address
  <1>19. RootsAre(loc)
    <2>1. SetToSeq(N) \in [1..Cardinality(N) -> N]
      BY <1>14, SetToSeqIs
    <2>2. \A i \in 1..Cardinality(N) :
             Address(SetToSeq(N)[i]) = loc[SetToSeq(N)[i]]
      BY <1>18, <2>1
    <2>3. interpreterOops = [i \in 1..Cardinality(N) |-> loc[SetToSeq(N)[i]]]
      BY <1>3, <2>2
    <2>4. methodCache = loc[target]
      BY <1>3, <1>18
    <2>5. QED
      BY <1>15, <2>3, <2>4 DEF RootsAre
  <1>20. ArraysAre(loc)
    <2>1. \A i \in DOMAIN pairs, k \in 1..2 : pairs[i][k] \in N
      BY PairsAre
    <2>2. \A i \in DOMAIN pairs, k \in 1..2 :
             Address(pairs[i][k]) = loc[pairs[i][k]]
      BY <1>18, <2>1
    <2>3. arrays = [k \in 1..2 |-> [i \in DOMAIN pairs |-> loc[pairs[i][k]]]]
      BY <1>3, <2>2
    <2>4. QED
      BY <1>15, <2>3 DEF ArraysAre
  <1>21. Found(S, size, loc)
    BY <1>14, <1>15, <1>19 DEF Found
  <1>22. PairsAreGiven
    BY <1>3, <1>15 DEF PairsAreGiven
  <1>23. QED
    BY <1>3, <1>14, <1>15, <1>17, <1>20, <1>21, <1>22
-----------------------------------------------------------------------------
(* What a heap in order says of the properties.                            *)

\* The last chunk is where the walk ends.
LEMMA LastChunk ==
    ASSUME NEW m, NEW N, NEW S, NEW size, NEW loc, NEW end,
           Walkable(m, N, S, size, loc, end), NEW c \in S, c + size[c] = end
    PROVE  /\ Max(Chunks(m, 0, end)) = c
           /\ objectAfter(m, Max(Chunks(m, 0, end))) = end
  <1>1. Placed(N, S, size, loc, end)
    BY DEF Walkable
  <1>2. /\ 0 \in S /\ S \subseteq Nat /\ end \in Nat
        /\ \A a \in S : /\ a \in Nat /\ size[a] \in Nat /\ 1 <= size[a]
                        /\ a + size[a] <= end
        /\ \A a, b \in S : a < b => a + size[a] <= b
    BY <1>1, PlacedAre
  <1>3. /\ \A a \in S : objectAfter(m, a) = a + size[a]
        /\ Chunks(m, 0, end) = S
    BY <1>2, HeapWalk
  <1>4. \A a \in S : a <= c
    <2> SUFFICES ASSUME NEW a \in S, c < a PROVE FALSE
      BY <1>2
    <2>1. a \in Nat /\ size[a] \in Nat /\ 1 <= size[a] /\ a + size[a] <= end
      BY <1>2
    <2>2. end <= a
      BY <1>2
    <2>3. QED
      BY <1>2, <2>1, <2>2
  <1>5. S \in SUBSET Int
    BY <1>2
  <1>6. Max(S) = c
    BY <1>4, <1>5, MaxMin
  <1>7. QED
    BY <1>3, <1>6

\* A heap at the end of an operation that exchanged the objects in this way.
Ends(S, size, loc, becomes, hash) ==
    /\ Placed(before.live, S, size, loc, endOfMemory)
    /\ freeBlock \in FreeIn(before.live, S, loc)
    /\ freeBlock + size[freeBlock] = endOfMemory
    /\ becomes \in [before.live -> before.live]
    /\ \A n \in before.live :
          /\ memory[loc[n]] = Header(n, size[loc[n]], hash[n])
          /\ hash[n] \in Hashes(n)
          /\ Becomes(n) = becomes[n]
    /\ FieldsAre(memory, before.live, size, loc, loc[becomes[before.target]])
    /\ FreeAre(memory, before.live, S, size, loc, Null)
    /\ interpreterOops = [i \in 1..Cardinality(before.live) |->
                             loc[becomes[SetToSeq(before.live)[i]]]]
    /\ methodCache \in {Null, loc[becomes[before.target]]}

\* Then the references are right and the objects are all there.
LEMMA EndsRight ==
    ASSUME Setting, NEW S, NEW size, NEW loc, NEW becomes, NEW hash,
           Ends(S, size, loc, becomes, hash)
    PROVE  /\ Walkable(memory, before.live, S, size, loc, endOfMemory)
           /\ ReferencesRight /\ ObjectsKept
  <1> DEFINE N == before.live
             t == before.target
             s == SetToSeq(N)
  <1>1. /\ Placed(N, S, size, loc, endOfMemory)
        /\ becomes \in [N -> N]
        /\ \A n \in N : /\ memory[loc[n]] = Header(n, size[loc[n]], hash[n])
                        /\ hash[n] \in Hashes(n)
                        /\ Becomes(n) = becomes[n]
        /\ FieldsAre(memory, N, size, loc, loc[becomes[t]])
        /\ FreeAre(memory, N, S, size, loc, Null)
        /\ interpreterOops = [i \in 1..Cardinality(N) |-> loc[becomes[s[i]]]]
        /\ methodCache \in {Null, loc[becomes[t]]}
    BY DEF Ends
  <1>2. /\ IsFiniteSet(N) /\ t \in N
    BY DEF Setting
  <1>3. /\ \A a \in FreeIn(N, S, loc) : a \in Nat
        /\ \A n, k \in N : loc[n] < loc[k] => n < k
        /\ 0 \in S /\ \A n \in N : loc[n] \in S /\ loc[n] \in Nat
    BY <1>1, PlacedAre
  <1>4. \A n \in N : /\ ~IsFree(memory, loc[n]) /\ ~IsForwarded(memory, loc[n])
                     /\ RealHeader(memory, loc[n]).size = size[loc[n]]
                     /\ memory[loc[n]].name = n
                     /\ memory[loc[n]].hash = hash[n] /\ ~memory[loc[n]].mark
                     /\ memory[loc[n]].size = size[loc[n]]
    <2> SUFFICES ASSUME NEW n \in N
                 PROVE  /\ ~IsFree(memory, loc[n])
                        /\ ~IsForwarded(memory, loc[n])
                        /\ RealHeader(memory, loc[n]).size = size[loc[n]]
                        /\ memory[loc[n]].name = n
                        /\ memory[loc[n]].hash = hash[n]
                        /\ ~memory[loc[n]].mark
                        /\ memory[loc[n]].size = size[loc[n]]
      OBVIOUS
    <2>1. memory[loc[n]] = Header(n, size[loc[n]], hash[n])
      BY <1>1
    <2>2. QED
      BY <2>1, PlainHeaders
  <1>5. Walkable(memory, N, S, size, loc, endOfMemory)
    <2>1. \A a \in FreeIn(N, S, loc) : memory[a] = FreeChunk(size[a])
      BY <1>1, <1>3, MemoryAssumption DEF FreeAre
    <2>2. QED
      BY <1>1, <1>4, <2>1 DEF Walkable
  <1>6. \A a \in Objects(memory, 0, endOfMemory) : \E n \in N : loc[n] = a
    BY <1>3, <1>5, HeapWalk
  <1>7. \A n \in N : loc[n] \in Objects(memory, 0, endOfMemory)
    <2>1. Objects(memory, 0, endOfMemory) =
             {a \in S : 0 <= a /\ \E n \in N : loc[n] = a}
      BY <1>3, <1>5, HeapWalk
    <2>2. QED
      BY <1>3, <2>1
  <1>8. \A n \in N : NameAt(loc[n]) = n
    BY <1>4 DEF NameAt
  <1>9. s \in [1..Cardinality(N) -> N]
    BY <1>2, SetToSeqIs
  <1>10. ReferencesRight
    <2>1. ASSUME NEW a \in Objects(memory, 0, endOfMemory), memory[a].size = 2
          PROVE  NameAt(memory[a + 1].at) = Becomes(t)
      <3>1. PICK n \in N : loc[n] = a
        BY <1>6
      <3>2. size[loc[n]] = 2
        BY <1>4, <2>1, <3>1
      <3>3. memory[loc[n] + 1] = Oop(loc[becomes[t]])
        BY <1>1, <3>2 DEF FieldsAre
      <3>4. memory[loc[n] + 1].at = loc[becomes[t]]
        BY <3>3, Words
      <3>5. becomes[t] \in N /\ Becomes(t) = becomes[t]
        BY <1>1, <1>2
      <3>6. QED
        BY <1>8, <3>1, <3>4, <3>5
    <2>2. [i \in DOMAIN interpreterOops |-> NameAt(interpreterOops[i])]
             = [i \in DOMAIN s |-> Becomes(s[i])]
      <3>1. DOMAIN s = 1..Cardinality(N)
            /\ DOMAIN interpreterOops = 1..Cardinality(N)
        BY <1>1, <1>9
      <3>2. ASSUME NEW i \in 1..Cardinality(N)
            PROVE  NameAt(interpreterOops[i]) = Becomes(s[i])
        <4>1. interpreterOops[i] = loc[becomes[s[i]]] /\ s[i] \in N
          BY <1>1, <1>9
        <4>2. becomes[s[i]] \in N /\ Becomes(s[i]) = becomes[s[i]]
          BY <1>1, <4>1
        <4>3. QED
          BY <1>8, <4>1, <4>2
      <3>3. QED
        BY <3>1, <3>2
    <2>3. ASSUME methodCache # Null PROVE NameAt(methodCache) = Becomes(t)
      <3>1. methodCache = loc[becomes[t]]
        BY <1>1, <2>3
      <3>2. QED
        BY <1>1, <1>2, <1>8, <3>1
    <2>4. QED
      BY <2>1, <2>2, <2>3 DEF ReferencesRight
  <1>11. ObjectsKept
    <2> DEFINE objects == Objects(memory, 0, endOfMemory)
    <2> HIDE DEF objects
    <2>0. /\ \A a \in objects : \E n \in N : loc[n] = a
          /\ \A n \in N : loc[n] \in objects
      BY <1>6, <1>7 DEF objects
    <2>1. \A a \in objects : ~IsForwarded(memory, a)
      BY <1>4, <2>0
    <2>2. {memory[a].name : a \in objects} = N
      BY <1>4, <2>0
    <2>3. \A a, b \in objects : a < b => memory[a].name < memory[b].name
      <3> SUFFICES ASSUME NEW a \in objects, NEW b \in objects, a < b
                   PROVE  memory[a].name < memory[b].name
        OBVIOUS
      <3>1. PICK n \in N : loc[n] = a
        BY <2>0
      <3>2. PICK k \in N : loc[k] = b
        BY <2>0
      <3>3. n < k
        BY <1>3, <3>1, <3>2
      <3>4. QED
        BY <1>4, <3>1, <3>2, <3>3
    <2>4. \A a \in objects : /\ ~memory[a].mark
                             /\ memory[a].hash \in Hashes(memory[a].name)
      <3> SUFFICES ASSUME NEW a \in objects
                   PROVE  /\ ~memory[a].mark
                          /\ memory[a].hash \in Hashes(memory[a].name)
        OBVIOUS
      <3>1. PICK n \in N : loc[n] = a
        BY <2>0
      <3>2. hash[n] \in Hashes(n)
        BY <1>1
      <3>3. memory[a].name = n /\ memory[a].hash = hash[n] /\ ~memory[a].mark
        BY <1>4, <3>1
      <3>4. QED
        BY <3>2, <3>3
    <2>5. QED
      BY <2>1, <2>2, <2>3, <2>4 DEF ObjectsKept, objects
  <1>12. QED
    BY <1>5, <1>10, <1>11

\* A collection gives no object the place of another.
LEMMA NothingExchanged ==
    ASSUME before.pairs = <<>>
    PROVE  \A n : Becomes(n) = n /\ Hashes(n) = {n}
  <1>1. \A n : Replacing(n) = {}
    <2> SUFFICES ASSUME NEW n PROVE Replacing(n) = {}
      OBVIOUS
    <2>1. DOMAIN before.pairs = {}
      OBVIOUS
    <2>2. QED
      BY <2>1 DEF Replacing
  <1>2. \A n : Becomes(n) = n
    BY <1>1 DEF Becomes
  <1>3. \A n : Hashes(n) = {n}
    <2> SUFFICES ASSUME NEW n PROVE Hashes(n) = {n}
      OBVIOUS
    <2>1. {other \in before.live \ {n} : Becomes(other) = n} = {}
      BY <1>2
    <2>2. QED
      BY <2>1 DEF Hashes
  <1>4. QED
    BY <1>2, <1>3

\* A collection ends in a heap that is in order.
LEMMA CollectionDone ==
    ASSUME Setting, operation \in Collections, CollectionInv, Ended
    PROVE  ReferencesRight /\ ObjectsKept /\ FreeBlockLast
  <1> DEFINE N == before.live
  <1>1. pc = "done" /\ before.pairs = <<>>
    BY DEF CollectionInv, Ended
  <1>2. PICK S, size, loc : Collected(S, size, loc)
    BY <1>1 DEF CollectionInv
  <1>3. /\ Placed(N, S, size, loc, endOfMemory)
        /\ freeBlock \in FreeIn(N, S, loc)
        /\ freeBlock + size[freeBlock] = endOfMemory
        /\ \A a \in FreeIn(N, S, loc) :
              a = freeBlock \/ (operation = "incremental" /\ a < compStart)
        /\ HeadersAre(memory, N, size, loc)
        /\ FieldsAre(memory, N, size, loc, loc[before.target])
        /\ FreeAre(memory, N, S, size, loc, Null)
        /\ RootsAre(loc)
    BY <1>2 DEF Collected
  <1>4. PICK same : same = [n \in N |-> n]
    OBVIOUS
  <1>5. \A n \in N : /\ same[n] = n /\ Becomes(n) = same[n]
                     /\ same[n] \in Hashes(n)
    BY <1>1, <1>4, NothingExchanged
  <1>6. before.target \in N /\ IsFiniteSet(N)
    BY DEF Setting
  <1>7. Ends(S, size, loc, same, same)
    <2>1. \A n \in N : memory[loc[n]] = Header(n, size[loc[n]], same[n])
      BY <1>3, <1>5 DEF HeadersAre, Own
    <2>2. same \in [N -> N]
      BY <1>4
    <2>3. SetToSeq(N) \in [1..Cardinality(N) -> N]
      BY <1>6, SetToSeqIs
    <2>4. \A i \in 1..Cardinality(N) :
             loc[same[SetToSeq(N)[i]]] = loc[SetToSeq(N)[i]]
      BY <1>5, <2>3
    <2>5. interpreterOops = [i \in 1..Cardinality(N) |->
                                loc[same[SetToSeq(N)[i]]]]
      BY <1>3, <2>4 DEF RootsAre
    <2>6. same[before.target] = before.target
      BY <1>5, <1>6
    <2>7. methodCache \in {Null, loc[same[before.target]]}
      BY <1>3, <2>6 DEF RootsAre
    <2>8. FieldsAre(memory, N, size, loc, loc[same[before.target]])
      BY <1>3, <2>6
    <2>9. QED
      BY <1>3, <1>5, <2>1, <2>2, <2>5, <2>7, <2>8 DEF Ends
  <1>8. /\ Walkable(memory, N, S, size, loc, endOfMemory)
        /\ ReferencesRight /\ ObjectsKept
    BY <1>7, EndsRight
  <1>9. freeBlock \in S /\ 0 \in S
    BY <1>3, PlacedAre
  <1>10. /\ Max(Chunks(memory, 0, endOfMemory)) = freeBlock
         /\ objectAfter(memory, freeBlock) = endOfMemory
    BY <1>3, <1>8, <1>9, LastChunk
  <1>11. {a \in Chunks(memory, 0, endOfMemory) : IsFree(memory, a)}
            = FreeIn(N, S, loc)
    BY <1>8, <1>9, HeapWalk
  <1>12. operation = "full" => FreeIn(N, S, loc) = {freeBlock}
    BY <1>3
  <1>13. operation = "incremental" =>
            \A a \in FreeIn(N, S, loc) \ {freeBlock} : a < compStart
    BY <1>3
  <1>14. FreeBlockLast
    BY <1>3, <1>10, <1>11, <1>12, <1>13 DEF FreeBlockLast
  <1>15. QED
    BY <1>8, <1>14

\* While the objects are forwarded a walk meets the end of memory.
LEMMA ForwardWalk ==
    ASSUME Setting, operation \in Collections, CollectionInv, ~Ended
    PROVE  ReferencesRight /\ ObjectsKept /\ FreeBlockLast
  <1> DEFINE N == before.live
  <1>1. ReferencesRight /\ ObjectsKept
    BY DEF ReferencesRight, ObjectsKept
  <1>2. CASE pc # "forward"
    BY <1>1, <1>2 DEF FreeBlockLast
  <1>3. CASE pc = "forward"
    <2>1. PICK S, size, loc, new, blk : Forwards(S, size, loc, new, blk)
      BY <1>3 DEF CollectionInv
    <2>2. /\ Plans(S, size, loc, new, blk, oop)
          /\ \A n \in Ahead(loc, oop) : InBlock(memory, n, size, loc, new, blk)
          /\ \A n \in N \ Ahead(loc, oop) : memory[loc[n]] = Own(n, size, loc)
          /\ FreeAre(memory, N, S, size, loc, Null)
      BY <2>1 DEF Forwards
    <2>3. Passes(S, size, loc) /\ endOfMemory = freeBlock + 1
      BY <2>2 DEF Plans
    <2>4. /\ Placed(N, S, size, loc, endOfMemory)
          /\ LastFree(N, S, size, loc, freeBlock, endOfMemory)
      BY <2>3 DEF Passes
    <2>5. \A n \in N : /\ ~IsFree(memory, loc[n])
                       /\ RealHeader(memory, loc[n]).size = size[loc[n]]
      <3> SUFFICES ASSUME NEW n \in N
                   PROVE  /\ ~IsFree(memory, loc[n])
                          /\ RealHeader(memory, loc[n]).size = size[loc[n]]
        OBVIOUS
      <3>1. CASE n \in Ahead(loc, oop)
        BY <2>2, <3>1, InBlockIs
      <3>2. CASE n \notin Ahead(loc, oop)
        <4>1. memory[loc[n]] = Header(n, size[loc[n]], n)
          BY <2>2, <3>2 DEF Own
        <4>2. QED
          BY <4>1, PlainHeaders
      <3>3. QED
        BY <3>1, <3>2
    <2>6. \A a \in FreeIn(N, S, loc) : a \in Nat /\ a \in S
      BY <2>4, PlacedAre
    <2>7. \A a \in FreeIn(N, S, loc) : memory[a] = FreeChunk(size[a])
      BY <2>2, <2>6, MemoryAssumption DEF FreeAre
    <2>8. Walkable(memory, N, S, size, loc, endOfMemory)
      BY <2>4, <2>5, <2>7 DEF Walkable
    <2>9. PICK c \in FreeIn(N, S, loc) : c + size[c] = endOfMemory
      BY <2>4 DEF LastFree
    <2>10. c \in S
      BY <2>6
    <2>11. objectAfter(memory, Max(Chunks(memory, 0, endOfMemory)))
              = endOfMemory
      BY <2>8, <2>9, <2>10, LastChunk
    <2>12. QED
      BY <1>1, <2>11 DEF FreeBlockLast
  <1>4. QED
    BY <1>2, <1>3

\* Every step of a collection keeps the invariant.
LEMMA CollectionStep ==
    ASSUME Setting, operation \in Collections, CollectionInv, [Next]_vars
    PROVE  Setting' /\ CollectionInv'
  <1>1. pc \in {"mark", "sweep", "compact", "forward", "map", "move", "done"}
    BY DEF CollectionInv
  <1>2. ~OneWay
    BY DEF OneWay, Collections
  <1>3. CASE markPhase
    BY <1>3, MarkPhaseSafe
  <1>4. CASE SweepChunk
    BY <1>4, SweepDeadFirst, SweepDeadMore, SweepLiveSafe
  <1>5. CASE SweepEnd
    BY <1>5, SweepEndSafe
  <1>6. CASE incCompBody
    BY <1>6, CompBodySafe
  <1>7. CASE incCompMakeFwd
    BY <1>7, MakeFwdSafe
  <1>8. CASE MapCompaction
    BY <1>8, MapCompactionSafe
  <1>9. CASE MoveChunk
    BY <1>9, MoveChunkSafe
  <1>10. CASE MoveEnd
    BY <1>10, MoveEndSafe
  <1>11. CASE prepareForwardingTableForBecoming
    BY <1>1, <1>11 DEF prepareForwardingTableForBecoming
  <1>12. CASE MapExchange
    BY <1>1, <1>12 DEF MapExchange
  <1>13. CASE \/ restoreHeadersAfterBecoming \/ RestoreBlock
              \/ restoreHeadersAfterForwardBecome
    BY <1>1, <1>13 DEF restoreHeadersAfterBecoming, RestoreBlock,
       restoreHeadersAfterForwardBecome
  <1>14. CASE UNCHANGED vars
    <2>1. Setting'
      BY <1>14 DEF vars, Setting
    <2>2. EntriesAvailable' = EntriesAvailable
      BY <1>14 DEF vars, EntriesAvailable, TableStart, BlockSize, OneWay
    <2>3. Boundary' <=> Boundary
      BY <1>14 DEF vars, Boundary
    <2>4. \A loc : RootsAre(loc)' <=> RootsAre(loc)
      BY <1>14 DEF vars, RootsAre
    <2>5. \A loc, to : Ahead(loc, to)' = Ahead(loc, to)
      BY <1>14 DEF vars, Ahead
    <2>6. \A S, size, loc : Passes(S, size, loc)' <=> Passes(S, size, loc)
      BY <1>14, <2>2 DEF vars, Passes
    <2>7. \A S, size, loc : Found(S, size, loc)' <=> Found(S, size, loc)
      BY <1>14, <2>4 DEF vars, Found
    <2>9. \A S, size, loc : Gathered(S, size, loc)' <=> Gathered(S, size, loc)
      BY <1>14, <2>2 DEF vars, Gathered
    <2>10. CloseChunk(memory)' = CloseChunk(memory)
      BY <1>14 DEF vars, CloseChunk
    <2>11. \A S, size, loc : Compacts(S, size, loc)' <=> Compacts(S, size, loc)
      BY <1>14, <2>4, <2>6 DEF vars, Compacts
    <2>12. \A S, size, loc, new, blk, to :
              Plans(S, size, loc, new, blk, to)'
                 <=> Plans(S, size, loc, new, blk, to)
      BY <1>14, <2>5, <2>6 DEF vars, Plans
    <2>13. \A loc, blk : Handed(loc, blk)' <=> Handed(loc, blk)
      BY <1>14, <2>5 DEF vars, Handed, TableStart
    <2>14. \A S, size, loc, new, blk :
              Forwards(S, size, loc, new, blk)'
                 <=> Forwards(S, size, loc, new, blk)
      BY <1>14, <2>4, <2>5, <2>12 DEF vars, Forwards
    <2>15. \A loc : RangeEnds(loc)' <=> RangeEnds(loc)
      BY <1>14, <2>5 DEF vars, RangeEnds
    <2>16. \A S, size, loc, new, blk :
              Moves(S, size, loc, new, blk)'
                 <=> Moves(S, size, loc, new, blk)
      BY <1>14, <2>4, <2>5, <2>12, <2>15 DEF vars, Moves
    <2>17. \A S, size, loc :
              Collected(S, size, loc)' <=> Collected(S, size, loc)
      BY <1>14, <2>4 DEF vars, Collected
    <2>18. pc' = pc /\ compEnd' = compEnd /\ oop' = oop /\ before' = before
           /\ endOfMemory' = endOfMemory /\ freeBlock' = freeBlock
      BY <1>14 DEF vars
    <2>19. pc' = "sweep" =>
              \E S, size, loc : /\ Swept(CloseChunk(memory), S, size, loc)'
                                /\ Gathered(S, size, loc)'
      <3>1. ASSUME pc = "sweep"
            PROVE  \E S, size, loc :
                      /\ Swept(CloseChunk(memory), S, size, loc)'
                      /\ Gathered(S, size, loc)'
        <4>1. PICK S, size, loc : /\ Swept(CloseChunk(memory), S, size, loc)
                                  /\ Gathered(S, size, loc)
          BY <3>1 DEF CollectionInv
        <4>2. Swept(CloseChunk(memory), S, size, loc)'
          BY <1>14, <2>4, <2>10, <4>1 DEF vars, Swept
        <4>3. QED
          BY <2>9, <4>1, <4>2
      <3>2. QED
        BY <2>18, <3>1
    <2>20. QED
      BY <2>1, <2>3, <2>7, <2>11, <2>13, <2>14, <2>15, <2>16, <2>17, <2>18,
         <2>19 DEF CollectionInv
  <1>15. QED
    BY <1>3, <1>4, <1>5, <1>6, <1>7, <1>8, <1>9, <1>10, <1>11, <1>12, <1>13,
       <1>14 DEF Next

-----------------------------------------------------------------------------
(* The exchange: what become: is given, by name.                           *)

\* The entries by name: an object that gets a block and what replaces it.
Entries == (IF OneWay THEN {1} ELSE 1..2) \X DOMAIN before.pairs
NameOf(e) == before.pairs[e[2]][e[1]]
PartnerOf(e) == before.pairs[e[2]][3 - e[1]]
Rank(e) ==
    IF OneWay THEN Len(before.pairs) - e[2] + 1
              ELSE 2 * (Len(before.pairs) - e[2]) + e[1]
Ranks == IF OneWay THEN Len(before.pairs) ELSE 2 * Len(before.pairs)

\* What replaces each object.
Given ==
    [n \in before.live |->
        IF Replacing(n) = {} THEN n ELSE CHOOSE k \in Replacing(n) : TRUE]

\* Where references to an object lead in the end.
Redirected(loc) == [n \in before.live |-> loc[Given[n]]]

\* No two entries are for one object.
LEMMA EntriesAre ==
    ASSUME PairsAreGiven, operation \notin Collections
    PROVE  /\ Len(before.pairs) \in {1, 2}
           /\ DOMAIN before.pairs = 1..Len(before.pairs)
           /\ \A e \in Entries :
                 /\ NameOf(e) \in before.live /\ PartnerOf(e) \in before.live
                 /\ NameOf(e) # PartnerOf(e)
                 /\ e[1] \in 1..2 /\ e[2] \in 1..Len(before.pairs)
                 /\ e = <<e[1], e[2]>> /\ (OneWay => e[1] = 1)
           /\ \A e, f \in Entries : NameOf(e) = NameOf(f) => e = f
           /\ OneWay => \A e, f \in Entries : NameOf(e) # PartnerOf(f)
  <1> DEFINE P == before.pairs
             N == before.live
             Names(k) == {P[i][k] : i \in DOMAIN P}
  <1>1. P \in Exchanges(operation, N) /\ Distinct(operation, P)
    BY DEF PairsAreGiven
  <1>2. OneWay <=> operation \in OneWays
    BY DEF OneWay, OneWays
  <1>3. /\ Len(P) \in {1, 2} /\ DOMAIN P = 1..Len(P)
        /\ \A i \in DOMAIN P :
              /\ P[i] \in N \X N
              /\ OneWay => P[i][1] # P[i][2]
              /\ ~OneWay => P[i][1] < P[i][2]
        /\ \A i \in DOMAIN P, k \in 1..2 : P[i][k] \in N
    BY <1>1, <1>2, PairsAre
  <1>4. /\ Cardinality(Names(1)) = Len(P)
        /\ ~OneWay => Cardinality(Names(2)) = Len(P)
        /\ Names(1) \cap Names(2) = {}
    BY <1>1, <1>2 DEF Distinct
  <1>5. ASSUME NEW k \in 1..2, Cardinality(Names(k)) = Len(P),
               NEW i \in DOMAIN P, NEW j \in DOMAIN P, P[i][k] = P[j][k]
        PROVE  i = j
    <2>1. CASE Len(P) = 1
      BY <1>3, <2>1
    <2>2. CASE Len(P) = 2
      <3>1. SUFFICES ASSUME i # j PROVE FALSE
        OBVIOUS
      <3>2. \A h \in DOMAIN P : h = i \/ h = j
        BY <1>3, <2>2, <3>1
      <3>3. Names(k) = {P[i][k]}
        BY <1>5, <3>2
      <3>4. Cardinality(Names(k)) = 1
        BY <3>3, FS_Singleton
      <3>5. QED
        BY <1>5, <2>2, <3>4
    <2>3. QED
      BY <1>3, <2>1, <2>2
  <1>6. \A i, j \in DOMAIN P : P[i][1] # P[j][2]
    BY <1>4
  <1>7. \A e \in Entries : /\ e[1] \in 1..2 /\ e[2] \in DOMAIN P
                           /\ OneWay => e[1] = 1
                           /\ e = <<e[1], e[2]>>
    BY DEF Entries
  <1> HIDE DEF P, N, Names
  <1>8. ASSUME NEW e \in Entries
        PROVE  /\ NameOf(e) \in N /\ PartnerOf(e) \in N
               /\ NameOf(e) # PartnerOf(e)
    <2>1. NameOf(e) = P[e[2]][e[1]] /\ PartnerOf(e) = P[e[2]][3 - e[1]]
      BY DEF NameOf, PartnerOf, P
    <2>2. 3 - e[1] \in 1..2 /\ e[1] \in 1..2 /\ e[2] \in DOMAIN P
      BY <1>7
    <2>3. CASE e[1] = 1
      BY <1>3, <1>6, <2>1, <2>2, <2>3
    <2>4. CASE e[1] = 2
      <3>1. 3 - e[1] = 1
        BY <2>4
      <3>2. QED
        BY <1>3, <1>6, <2>1, <2>2, <2>4, <3>1
    <2>5. QED
      BY <2>2, <2>3, <2>4
  <1>9. ASSUME NEW e \in Entries, NEW f \in Entries, NameOf(e) = NameOf(f)
        PROVE  e = f
    <2>1. P[e[2]][e[1]] = P[f[2]][f[1]]
      BY <1>9 DEF NameOf, P
    <2>2. e[1] = f[1]
      BY <1>6, <1>7, <2>1
    <2>3. e[1] = 1 \/ (e[1] = 2 /\ ~OneWay)
      BY <1>7
    <2>4. Cardinality(Names(e[1])) = Len(P)
      BY <1>4, <2>3
    <2>5. e[2] = f[2]
      BY <1>5, <1>7, <2>1, <2>2, <2>4
    <2>6. QED
      BY <1>7, <2>2, <2>5
  <1>10. ASSUME OneWay, NEW e \in Entries, NEW f \in Entries
         PROVE  NameOf(e) # PartnerOf(f)
    <2>1. NameOf(e) = P[e[2]][1] /\ PartnerOf(f) = P[f[2]][2]
      BY <1>7, <1>10 DEF NameOf, PartnerOf, P
    <2>2. QED
      BY <1>6, <1>7, <2>1
  <1>11. QED
    BY <1>3, <1>7, <1>8, <1>9, <1>10 DEF P, N

\* An object is replaced by its partner; one that has none stays what it is.
LEMMA GivenIs ==
    ASSUME PairsAreGiven, operation \notin Collections
    PROVE  /\ Given \in [before.live -> before.live]
           /\ \A e \in Entries : Given[NameOf(e)] = PartnerOf(e)
           /\ \A n \in before.live :
                 (\A e \in Entries : NameOf(e) # n) => Given[n] = n
           /\ \A n : pc # "failed" /\ n \in before.live =>
                 Becomes(n) = Given[n]
  <1> DEFINE P == before.pairs
             N == before.live
             L == Len(P)
  <1>1. /\ DOMAIN P = 1..L
        /\ \A e \in Entries :
              /\ NameOf(e) \in N /\ PartnerOf(e) \in N
              /\ NameOf(e) # PartnerOf(e)
              /\ e[1] \in 1..2 /\ e[2] \in 1..L
              /\ e = <<e[1], e[2]>> /\ (OneWay => e[1] = 1)
        /\ \A e, f \in Entries : NameOf(e) = NameOf(f) => e = f
    BY EntriesAre
  <1>2. \A n : Replacing(n) = {PartnerOf(e) : e \in {f \in Entries :
                                                       NameOf(f) = n}}
    <2> SUFFICES ASSUME NEW n, NEW k
                 PROVE  k \in Replacing(n) <=>
                           \E e \in Entries : NameOf(e) = n /\ PartnerOf(e) = k
      OBVIOUS
    <2>1. k \in Replacing(n) <=>
             \/ \E i \in DOMAIN P : P[i][1] = n /\ P[i][2] = k
             \/ ~OneWay /\ \E i \in DOMAIN P : P[i][2] = n /\ P[i][1] = k
      BY DEF Replacing
    <2>2. ASSUME NEW i \in DOMAIN P
          PROVE  /\ <<1, i>> \in Entries
                 /\ NameOf(<<1, i>>) = P[i][1]
                 /\ PartnerOf(<<1, i>>) = P[i][2]
                 /\ ~OneWay => <<2, i>> \in Entries
                 /\ NameOf(<<2, i>>) = P[i][2]
                 /\ PartnerOf(<<2, i>>) = P[i][1]
      BY DEF Entries, NameOf, PartnerOf
    <2>3. ASSUME NEW e \in Entries
          PROVE  \/ /\ e[2] \in DOMAIN P
                    /\ NameOf(e) = P[e[2]][1] /\ PartnerOf(e) = P[e[2]][2]
                 \/ /\ ~OneWay /\ e[2] \in DOMAIN P
                    /\ NameOf(e) = P[e[2]][2] /\ PartnerOf(e) = P[e[2]][1]
      <3>1. e[1] = 1 \/ (e[1] = 2 /\ ~OneWay)
        BY <1>1
      <3>2. QED
        BY <1>1, <3>1 DEF NameOf, PartnerOf
    <2>4. ASSUME k \in Replacing(n)
          PROVE  \E e \in Entries : NameOf(e) = n /\ PartnerOf(e) = k
      <3>1. CASE \E i \in DOMAIN P : P[i][1] = n /\ P[i][2] = k
        BY <2>2, <3>1
      <3>2. CASE ~OneWay /\ \E i \in DOMAIN P : P[i][2] = n /\ P[i][1] = k
        BY <2>2, <3>2
      <3>3. QED
        BY <2>1, <2>4, <3>1, <3>2
    <2>5. ASSUME NEW e \in Entries, NameOf(e) = n, PartnerOf(e) = k
          PROVE  k \in Replacing(n)
      BY <2>1, <2>3, <2>5
    <2>6. QED
      BY <2>4, <2>5
  <1>3. ASSUME NEW e \in Entries PROVE Replacing(NameOf(e)) = {PartnerOf(e)}
    BY <1>1, <1>2
  <1>4. \A e \in Entries : Given[NameOf(e)] = PartnerOf(e)
    <2> SUFFICES ASSUME NEW e \in Entries
                 PROVE  Given[NameOf(e)] = PartnerOf(e)
      OBVIOUS
    <2>1. Replacing(NameOf(e)) # {}
          /\ \A k \in Replacing(NameOf(e)) : k = PartnerOf(e)
      BY <1>3
    <2>2. (CHOOSE k \in Replacing(NameOf(e)) : TRUE) = PartnerOf(e)
      BY <2>1
    <2>3. QED
      BY <1>1, <2>1, <2>2 DEF Given
  <1>5. ASSUME NEW n \in N, \A e \in Entries : NameOf(e) # n
        PROVE  Given[n] = n
    <2>1. Replacing(n) = {}
      BY <1>2, <1>5
    <2>2. QED
      BY <2>1 DEF Given
  <1>6. \A n \in N : Given[n] \in N
    BY <1>1, <1>4, <1>5
  <1>7. Given \in [N -> N]
    BY <1>6 DEF Given
  <1>8. \A n : pc # "failed" /\ n \in N => Becomes(n) = Given[n]
    BY DEF Becomes, Given
  <1>9. QED
    BY <1>4, <1>5, <1>7, <1>8

\* The entries get the blocks in a row.
LEMMA RanksAre ==
    ASSUME PairsAreGiven, operation \notin Collections
    PROVE  /\ Ranks \in Nat /\ 1 <= Ranks /\ Cardinality(Entries) = Ranks
           /\ \A e \in Entries : Rank(e) \in Nat /\ 1 <= Rank(e)
                                 /\ Rank(e) <= Ranks
           /\ \A e, f \in Entries : Rank(e) = Rank(f) => e = f
           /\ OneWay => \A k \in Nat : 1 <= k /\ k <= Ranks =>
                           \E e \in Entries : Rank(e) = k
  <1> DEFINE L == Len(before.pairs)
             K == IF OneWay THEN {1} ELSE 1..2
  <1>1. /\ L \in {1, 2} /\ DOMAIN before.pairs = 1..L
        /\ \A e \in Entries : /\ e[1] \in 1..2 /\ e[2] \in 1..L
                              /\ e = <<e[1], e[2]>> /\ (OneWay => e[1] = 1)
    BY EntriesAre
  <1>2. Cardinality(Entries) = Ranks
    <2>0. \A k \in Int : k >= 1 =>
             IsFiniteSet(1..k) /\ Cardinality(1..k) = k
      <3> SUFFICES ASSUME NEW k \in Int, k >= 1
                   PROVE  IsFiniteSet(1..k) /\ Cardinality(1..k) = k
        OBVIOUS
      <3>1. /\ IsFiniteSet(1..k)
            /\ Cardinality(1..k) = IF 1 > k THEN 0 ELSE k - 1 + 1
        BY FS_Interval
      <3>2. QED
        BY <3>1
    <2>1. IsFiniteSet(1..L) /\ Cardinality(1..L) = L
      BY <1>1, <2>0
    <2>2. IsFiniteSet(1..2) /\ Cardinality(1..2) = 2
      <3>1. PICK k \in Int : k = 2
        OBVIOUS
      <3>2. k >= 1
        BY <3>1
      <3>3. IsFiniteSet(1..k) /\ Cardinality(1..k) = k
        BY <2>0, <3>2
      <3>4. QED
        BY <3>1, <3>3
    <2>3. IsFiniteSet({1}) /\ Cardinality({1}) = 1
      BY FS_Singleton
    <2>4. IsFiniteSet(K) /\ Cardinality(K) = IF OneWay THEN 1 ELSE 2
      BY <2>2, <2>3
    <2>5. Entries = K \X (1..L)
      BY <1>1 DEF Entries
    <2> HIDE DEF K, L
    <2>6. Cardinality(Entries) = Cardinality(K) * Cardinality(1..L)
      BY <2>1, <2>4, <2>5, FS_Product
    <2>7. QED
      BY <1>1, <2>1, <2>4, <2>6 DEF Ranks, L
  <1>3. ASSUME NEW e \in Entries
        PROVE  Rank(e) \in Nat /\ 1 <= Rank(e) /\ Rank(e) <= Ranks
    BY <1>1, SMTT(30) DEF Rank, Ranks
  <1>4. ASSUME NEW e \in Entries, NEW f \in Entries, Rank(e) = Rank(f)
        PROVE  e = f
    <2>1. /\ e[1] \in 1..2 /\ e[2] \in 1..L /\ (OneWay => e[1] = 1)
          /\ f[1] \in 1..2 /\ f[2] \in 1..L /\ (OneWay => f[1] = 1)
          /\ e = <<e[1], e[2]>> /\ f = <<f[1], f[2]>>
      BY <1>1
    <2>2. e[1] = f[1] /\ e[2] = f[2]
      <3> HIDE DEF L
      <3>1. CASE OneWay
        <4>1. L - e[2] + 1 = L - f[2] + 1
          BY <1>4, <3>1 DEF Rank, L
        <4>2. QED
          BY <1>1, <2>1, <3>1, <4>1
      <3>2. CASE ~OneWay
        <4>1. 2 * (L - e[2]) + e[1] = 2 * (L - f[2]) + f[1]
          BY <1>4, <3>2 DEF Rank, L
        <4>2. QED
          BY <1>1, <2>1, <4>1
      <3>3. QED
        BY <3>1, <3>2
    <2>3. QED
      BY <2>1, <2>2
  <1>5. ASSUME OneWay, NEW k \in Nat, 1 <= k, k <= Ranks
        PROVE  \E e \in Entries : Rank(e) = k
    <2>1. Ranks = L
      BY <1>5 DEF Ranks
    <2>2. L - k + 1 \in 1..L
      BY <1>1, <1>5, <2>1
    <2>3. <<1, L - k + 1>> \in Entries
      BY <1>1, <1>5, <2>2 DEF Entries
    <2>4. Rank(<<1, L - k + 1>>) = L - (L - k + 1) + 1
      BY <1>5 DEF Rank
    <2>5. L - (L - k + 1) + 1 = k
      BY <1>1
    <2>6. QED
      BY <2>3, <2>4, <2>5
  <1>6. Ranks \in Nat /\ 1 <= Ranks
    BY <1>1 DEF Ranks
  <1>7. QED
    BY <1>2, <1>3, <1>4, <1>5, <1>6

\* What the arrays say, if they hold the objects at these addresses.
LEMMA EntryIs ==
    ASSUME PairsAreGiven, operation \notin Collections,
           NEW loc, ArraysAre(loc)
    PROVE  /\ Entry = Entries /\ EntriesNeeded = Ranks
           /\ \A e \in Entries :
                 /\ Member(e) = loc[NameOf(e)]
                 /\ Partner(e) = loc[PartnerOf(e)]
                 /\ BlockOf(e)
                       = TableStart(freeBlock + 1) + BlockSize * Rank(e)
           /\ \A n \in DOMAIN arrays : n \in 1..2 /\
                 \A i \in DOMAIN arrays[n] :
                    /\ i \in DOMAIN before.pairs
                    /\ arrays[n][i] = loc[before.pairs[i][n]]
           /\ DOMAIN arrays = 1..2
           /\ \A n \in 1..2 : DOMAIN arrays[n] = DOMAIN before.pairs
  <1> DEFINE P == before.pairs
             L == Len(P)
  <1>1. /\ L \in {1, 2} /\ DOMAIN P = 1..L
        /\ \A e \in Entries :
              /\ e[1] \in 1..2 /\ e[2] \in 1..L
              /\ e = <<e[1], e[2]>> /\ (OneWay => e[1] = 1)
    BY EntriesAre
  <1>2. arrays = [n \in 1..2 |-> [i \in 1..L |-> loc[P[i][n]]]]
    BY <1>1 DEF ArraysAre
  <1>3. /\ DOMAIN arrays = 1..2
        /\ \A n \in 1..2 : DOMAIN arrays[n] = 1..L
        /\ \A n \in 1..2, i \in 1..L : arrays[n][i] = loc[P[i][n]]
    BY <1>2
  <1>4. Len(arrays[1]) = L
    <2>1. PICK a : a = arrays[1]
      OBVIOUS
    <2>2. a = [i \in 1..L |-> loc[P[i][1]]]
      BY <1>2, <2>1
    <2>3. Len(a) = L
      BY <1>1, <2>2
    <2>4. QED
      BY <2>1, <2>3
  <1>5. Entry = Entries
    BY <1>1, <1>3 DEF Entry, Entries
  <1>6. EntriesNeeded = Ranks
    BY <1>5, RanksAre DEF EntriesNeeded
  <1>7. ASSUME NEW e \in Entries
        PROVE  /\ Member(e) = loc[NameOf(e)] /\ Partner(e) = loc[PartnerOf(e)]
               /\ BlockOf(e)
                     = TableStart(freeBlock + 1) + BlockSize * Rank(e)
    <2>1. e[1] \in 1..2 /\ 3 - e[1] \in 1..2 /\ e[2] \in 1..L
      BY <1>1
    <2>2. Member(e) = loc[NameOf(e)] /\ Partner(e) = loc[PartnerOf(e)]
      BY <1>3, <2>1 DEF Member, Partner, NameOf, PartnerOf
    <2>3. BlockOf(e) = TableStart(freeBlock + 1) + BlockSize * Rank(e)
      BY <1>4 DEF BlockOf, Rank
    <2>4. QED
      BY <2>2, <2>3
  <1>8. QED
    BY <1>1, <1>3, <1>5, <1>6, <1>7
-----------------------------------------------------------------------------
(* The inductive invariant of become:.                                     *)

Block(e) == TableStart(freeBlock + 1) + BlockSize * Rank(e)

\* All blocks fit.
TableFits ==
    TableStart(freeBlock + 1) + BlockSize * Ranks <= memoryLimit - BlockSize

\* The object of an entry is forwarded to its partner; the way back is there.
Blocked(m, e, size, loc) ==
    /\ m[loc[NameOf(e)]] = Forwarded(Block(e))
    /\ m[Block(e)] = Oop(loc[PartnerOf(e)])
    /\ m[Block(e) + 1] = Own(NameOf(e), size, loc)
    /\ OneWay => m[Block(e) + 2] = Oop(loc[NameOf(e)])

\* The hashes there are after some entries have been restored: an object has
\* that of one it takes the place of.
Hashed(R, hash) ==
    \A n \in before.live :
       IF \/ operation = "becomeForwardKeepHash"
          \/ \A e \in R : PartnerOf(e) # n
       THEN hash[n] = n
       ELSE \E e \in R : PartnerOf(e) = n /\ hash[n] = NameOf(e)

\* The objects of these entries have their headers back, the others not yet.
Exchanging(m, S, size, loc, R, hash) ==
    /\ Placed(before.live, S, size, loc, freeBlock + 1)
    /\ FreeIn(before.live, S, loc) = {freeBlock}
    /\ m[freeBlock] = FreeChunk(1) /\ TableFits
    /\ R \subseteq Entries /\ Hashed(R, hash)
    /\ \A e \in Entries \ R : Blocked(m, e, size, loc)
    /\ \A n \in before.live :
          (\A e \in Entries \ R : NameOf(e) # n) =>
             m[loc[n]] = Header(n, size[loc[n]], hash[n])

\* Only the one-way become: restores one at a time.
Restored == IF OneWay THEN {e \in Entries : Block(e) < oop} ELSE {}

\* The walk through the blocks is at one of them, or past the last.
AtBlock ==
    /\ fwdTableNext = TableStart(freeBlock + 1) + 4 * Ranks
    /\ \E k \in Nat : /\ oop = TableStart(freeBlock + 1) + 4 * k
                      /\ 1 <= k /\ k <= Ranks + 1

Prepared(S, size, loc) ==
    /\ Found(S, size, loc) /\ ArraysAre(loc)
    /\ FreeIn(before.live, S, loc) = {freeBlock}

InExchange(S, size, loc, hash) ==
    /\ Exchanging(memory, S, size, loc, {}, hash)
    /\ endOfMemory = freeBlock + 1
    /\ FieldsAre(memory, before.live, size, loc, loc[before.target])
    /\ RootsAre(loc) /\ ArraysAre(loc)
    /\ OneWay => fwdTableNext = TableStart(freeBlock + 1) + 4 * Ranks

Restoring(S, size, loc, hash) ==
    /\ Exchanging(memory, S, size, loc, Restored, hash)
    /\ endOfMemory = freeBlock + 1
    /\ FieldsAre(memory, before.live, size, loc,
                 Redirected(loc)[before.target])
    /\ RootsAre(Redirected(loc))
    /\ OneWay => AtBlock
    /\ ~OneWay => ArraysAre(Redirected(loc))

\* The part of the invariant for a become:.
BecomeInv ==
    /\ pc \in {"prepare", "exchange", "restore", "done", "failed"}
    /\ PairsAreGiven /\ youngStart = 2 /\ rootTable = {0}
    /\ OneWay => BytesPerWord = 4
    /\ pc = "prepare" => \E S, size, loc : Prepared(S, size, loc)
    /\ pc = "exchange" => \E S, size, loc, hash : InExchange(S, size, loc, hash)
    /\ pc = "restore" => \E S, size, loc, hash : Restoring(S, size, loc, hash)
    /\ Ended => \E S, size, loc, becomes, hash :
                   Ends(S, size, loc, becomes, hash)

-----------------------------------------------------------------------------
(* Lemmas about become:.                                                   *)

\* Blocks are apart from each other and above the end of memory.
LEMMA BlocksApart ==
    ASSUME Setting, PairsAreGiven, operation \notin Collections, TableFits
    PROVE  /\ \A e \in Entries : /\ Block(e) \in Nat
                                 /\ freeBlock + 1 < Block(e)
                                 /\ Block(e) + 2 <= memoryLimit
           /\ \A e, f \in Entries : e # f =>
                 Block(e) + 1 < Block(f) \/ Block(f) + 1 < Block(e)
           /\ OneWay => \A e, f \in Entries : e # f =>
                 Block(e) + 2 < Block(f) \/ Block(f) + 2 < Block(e)
  <1>1. PICK T : T = TableStart(freeBlock + 1)
    OBVIOUS
  <1>2. PICK k : k = BlockSize
    OBVIOUS
  <1>3. /\ freeBlock \in Nat /\ BytesPerWord \in {4, 8} /\ memoryLimit \in Nat
    BY DEF Setting
  <1>4. T \in Nat /\ freeBlock + 2 <= T
    <2>1. freeBlock + 1 \in Nat
      BY <1>3
    <2>2. TableStart(freeBlock + 1) \in Nat
          /\ freeBlock + 1 + 1 <= TableStart(freeBlock + 1)
      BY <1>3, <2>1, TableStartIs
    <2>3. QED
      BY <1>1, <1>3, <2>2
  <1>5. k \in {2, 4} /\ (OneWay => k = 4)
    BY <1>2 DEF BlockSize
  <1>6. /\ Ranks \in Nat
        /\ \A e \in Entries : Rank(e) \in Nat /\ 1 <= Rank(e)
                              /\ Rank(e) <= Ranks
        /\ \A e, f \in Entries : Rank(e) = Rank(f) => e = f
    BY RanksAre
  <1>7. T + k * Ranks <= memoryLimit - k
    BY <1>1, <1>2 DEF TableFits
  <1>8. \A e \in Entries : Block(e) = T + k * Rank(e)
    BY <1>1, <1>2 DEF Block
  <1>9. ASSUME NEW r \in Nat, 1 <= r, r <= Ranks
        PROVE  /\ T + k * r \in Nat /\ freeBlock + 1 < T + k * r
               /\ T + k * r + 2 <= memoryLimit
    <2>1. CASE k = 2
      BY <1>3, <1>4, <1>6, <1>7, <1>9, <2>1
    <2>2. CASE k = 4
      BY <1>3, <1>4, <1>6, <1>7, <1>9, <2>2
    <2>3. QED
      BY <1>5, <2>1, <2>2
  <1>10. ASSUME NEW r \in Nat, NEW q \in Nat, r # q
         PROVE  /\ T + k * r + 1 < T + k * q \/ T + k * q + 1 < T + k * r
                /\ k = 4 => T + k * r + 2 < T + k * q
                            \/ T + k * q + 2 < T + k * r
    <2>1. CASE k = 2
      BY <1>4, <1>10, <2>1
    <2>2. CASE k = 4
      BY <1>4, <1>10, <2>2
    <2>3. QED
      BY <1>5, <2>1, <2>2
  <1>11. \A e \in Entries : /\ Block(e) \in Nat /\ freeBlock + 1 < Block(e)
                            /\ Block(e) + 2 <= memoryLimit
    BY <1>6, <1>8, <1>9
  <1>12. ASSUME NEW e \in Entries, NEW f \in Entries, e # f
         PROVE  /\ Block(e) + 1 < Block(f) \/ Block(f) + 1 < Block(e)
                /\ k = 4 => Block(e) + 2 < Block(f) \/ Block(f) + 2 < Block(e)
    <2>1. Rank(e) \in Nat /\ Rank(f) \in Nat /\ Rank(e) # Rank(f)
      BY <1>6, <1>12
    <2>2. QED
      BY <1>8, <1>10, <2>1
  <1>13. QED
    BY <1>5, <1>11, <1>12

\* Words at different addresses can all be written.
LEMMA WrittenIs ==
    ASSUME NEW m, NEW words, \A v, w \in words : v[1] = w[1] => v = w,
           NEW m2, m2 = Written(m, words)
    PROVE  /\ DOMAIN m2 = DOMAIN m
           /\ \A w \in words : w[1] \in DOMAIN m => m2[w[1]] = w[2]
           /\ \A x \in DOMAIN m : (\A w \in words : w[1] # x) => m2[x] = m[x]
  <1>1. m2 = [x \in DOMAIN m |->
                IF \E w \in words : w[1] = x
                THEN (CHOOSE w \in words : w[1] = x)[2] ELSE m[x]]
    BY DEF Written
  <1>2. ASSUME NEW w \in words
        PROVE  (CHOOSE v \in words : v[1] = w[1]) = w
    <2>1. PICK v : v = CHOOSE u \in words : u[1] = w[1]
      OBVIOUS
    <2>2. v \in words /\ v[1] = w[1]
      BY <2>1
    <2>3. v = w
      BY <2>2
    <2>4. QED
      BY <2>1, <2>3
  <1>3. ASSUME NEW w \in words, w[1] \in DOMAIN m PROVE m2[w[1]] = w[2]
    <2>1. m2[w[1]] = (CHOOSE v \in words : v[1] = w[1])[2]
      BY <1>1, <1>3
    <2>2. QED
      BY <1>2, <2>1
  <1>4. QED
    BY <1>1, <1>3

\* The hashes are right in the end.
LEMMA HashesAre ==
    ASSUME PairsAreGiven, operation \notin Collections, pc # "failed",
           NEW hash, Hashed(Entries, hash)
    PROVE  \A n \in before.live : hash[n] \in Hashes(n)
  <1> DEFINE N == before.live
  <1>1. /\ \A e \in Entries : Given[NameOf(e)] = PartnerOf(e)
        /\ \A n \in N : (\A e \in Entries : NameOf(e) # n) => Given[n] = n
        /\ \A n \in N : Becomes(n) = Given[n]
    BY GivenIs
  <1>2. \A e \in Entries : NameOf(e) \in N /\ NameOf(e) # PartnerOf(e)
    BY EntriesAre
  <1> SUFFICES ASSUME NEW n \in N PROVE hash[n] \in Hashes(n)
    OBVIOUS
  <1>3. PICK replaced : replaced = {k \in N \ {n} : Becomes(k) = n}
    OBVIOUS
  <1>4. replaced = {NameOf(e) : e \in {f \in Entries : PartnerOf(f) = n}}
    <2>1. ASSUME NEW k \in replaced
          PROVE  \E e \in Entries : PartnerOf(e) = n /\ NameOf(e) = k
      <3>1. k \in N /\ k # n /\ Given[k] = n
        BY <1>1, <1>3, <2>1
      <3>2. QED
        BY <1>1, <3>1
    <2>2. ASSUME NEW e \in Entries, PartnerOf(e) = n
          PROVE  NameOf(e) \in replaced
      BY <1>1, <1>2, <1>3, <2>2
    <2>3. QED
      BY <2>1, <2>2
  <1>5. Hashes(n) = IF replaced = {} \/ operation = "becomeForwardKeepHash"
                    THEN {n} ELSE replaced
    BY <1>3 DEF Hashes
  <1>6. CASE operation = "becomeForwardKeepHash"
    BY <1>5, <1>6 DEF Hashed
  <1>7. CASE operation # "becomeForwardKeepHash" /\ replaced = {}
    <2>1. \A e \in Entries : PartnerOf(e) # n
      BY <1>4, <1>7
    <2>2. hash[n] = n
      BY <2>1 DEF Hashed
    <2>3. QED
      BY <1>5, <1>7, <2>2
  <1>8. CASE operation # "becomeForwardKeepHash" /\ replaced # {}
    <2>1. \E e \in Entries : PartnerOf(e) = n
      BY <1>4, <1>8
    <2>2. PICK e \in Entries : PartnerOf(e) = n /\ hash[n] = NameOf(e)
      BY <1>8, <2>1 DEF Hashed
    <2>3. QED
      BY <1>4, <1>5, <1>8, <2>2
  <1>9. QED
    BY <1>6, <1>7, <1>8
-----------------------------------------------------------------------------
(* How become: ends.                                                       *)

\* All headers are back, and only the free block is still cut down.
HeadersBack(m, S, size, loc, becomes, hash) ==
    /\ DOMAIN m = 0..memoryLimit
    /\ Placed(before.live, S, size, loc, freeBlock + 1)
    /\ FreeIn(before.live, S, loc) = {freeBlock}
    /\ becomes \in [before.live -> before.live]
    /\ \A n \in before.live : m[loc[n]] = Header(n, size[loc[n]], hash[n])
    /\ FieldsAre(m, before.live, size, loc, loc[becomes[before.target]])
    /\ interpreterOops = [i \in 1..Cardinality(before.live) |->
                             loc[becomes[SetToSeq(before.live)[i]]]]
    /\ methodCache \in {Null, loc[becomes[before.target]]}

\* Then memory gets its free block again.
LEMMA BecomeEnds ==
    ASSUME Setting, NEW m, NEW S, NEW size, NEW loc, NEW becomes, NEW hash,
           HeadersBack(m, S, size, loc, becomes, hash),
           initializeMemoryFirstFree(m, freeBlock, totalObjectCount),
           UNCHANGED <<fixedVars, pointerVars, totalObjectCount>>,
           \A n \in before.live :
              hash[n] \in Hashes(n)' /\ Becomes(n)' = becomes[n]
    PROVE  Setting' /\ \E size2 : Ends(S, size2, loc, becomes, hash)'
  <1> DEFINE N == before.live
             t == before.target
  <1>0. /\ DOMAIN m = 0..memoryLimit
        /\ Placed(N, S, size, loc, freeBlock + 1)
        /\ FreeIn(N, S, loc) = {freeBlock}
        /\ becomes \in [N -> N]
        /\ \A n \in N : m[loc[n]] = Header(n, size[loc[n]], hash[n])
        /\ FieldsAre(m, N, size, loc, loc[becomes[t]])
        /\ interpreterOops = [i \in 1..Cardinality(N) |->
                                 loc[becomes[SetToSeq(N)[i]]]]
        /\ methodCache \in {Null, loc[becomes[t]]}
    BY DEF HeadersBack
  <1>1. before' = before /\ interpreterOops' = interpreterOops
        /\ methodCache' = methodCache
    BY DEF fixedVars, pointerVars
  <1>2. freeBlock \in FreeIn(N, S, loc) /\ totalObjectCount \in Nat
        /\ freeBlock \in Nat
    BY <1>0 DEF Setting
  <1>3. freeBlock + size[freeBlock] = freeBlock + 1
    <2>1. /\ freeBlock \in S /\ size[freeBlock] \in Nat
          /\ 1 <= size[freeBlock]
          /\ freeBlock + size[freeBlock] <= freeBlock + 1
      BY <1>0, <1>2, PlacedAre
    <2>2. QED
      BY <1>2, <2>1
  <1>4. PICK fb, end1, count :
           fb = freeBlock /\ end1 = freeBlock + 1 /\ count = totalObjectCount
    OBVIOUS
  <1>5. PICK size2 : SettledAs(m, N, S, size, loc, fb, size2)
    <2>1. /\ Placed(N, S, size, loc, end1) /\ fb \in FreeIn(N, S, loc)
          /\ fb + size[fb] = end1 /\ fb <= freeBlock /\ count \in Nat
          /\ initializeMemoryFirstFree(m, fb, count)
          /\ totalObjectCount' = count /\ UNCHANGED fixedVars
      BY <1>0, <1>2, <1>3, <1>4
    <2>2. QED
      BY <1>0, <2>1, Settled
  <1>6. /\ Setting' /\ freeBlock' = freeBlock
        /\ Placed(N, S, size2, loc, endOfMemory')
        /\ freeBlock + size2[freeBlock] = endOfMemory'
        /\ memory'[freeBlock] = FreeChunk(size2[freeBlock])
        /\ \A n \in N : size2[loc[n]] = size[loc[n]]
        /\ \A n \in N : memory'[loc[n]] = m[loc[n]]
        /\ \A n \in N : size[loc[n]] = 2 => memory'[loc[n] + 1] = m[loc[n] + 1]
    BY <1>4, <1>5 DEF SettledAs
  <1>7. \A n \in N : memory'[loc[n]] = Header(n, size2[loc[n]], hash[n])
    BY <1>0, <1>6
  <1>8. FieldsAre(memory', N, size2, loc, loc[becomes[t]])
    BY <1>0, <1>6 DEF FieldsAre
  <1>9. FreeAre(memory', N, S, size2, loc, Null)
    BY <1>0, <1>6 DEF FreeAre
  <1>10. Ends(S, size2, loc, becomes, hash)'
    BY <1>0, <1>1, <1>2, <1>6, <1>7, <1>8, <1>9 DEF Ends
  <1>11. QED
    BY <1>6, <1>10

\* Without enough blocks nothing has changed.
LEMMA TooFewSafe ==
    ASSUME Setting, operation \notin Collections, BecomeInv, pc = "prepare",
           TooFewEntries,
           UNCHANGED <<fixedVars, pointerVars, youngStart, totalObjectCount>>
    PROVE  Setting' /\ BecomeInv'
  <1> DEFINE N == before.live
             t == before.target
  <1>1. /\ initializeMemoryFirstFree(memory, freeBlock, totalObjectCount)
        /\ pc' = "failed"
    BY DEF TooFewEntries
  <1>2. /\ before' = before /\ operation' = operation
        /\ BytesPerWord' = BytesPerWord /\ rootTable' = rootTable
    BY DEF fixedVars, pointerVars
  <1>3. PICK S, size, loc : Prepared(S, size, loc)
    BY DEF BecomeInv
  <1>4. /\ Placed(N, S, size, loc, freeBlock + 1)
        /\ HeadersAre(memory, N, size, loc)
        /\ FieldsAre(memory, N, size, loc, loc[t])
        /\ RootsAre(loc) /\ FreeIn(N, S, loc) = {freeBlock}
    BY <1>3 DEF Prepared, Found
  <1>5. DOMAIN memory = 0..memoryLimit /\ t \in N /\ IsFiniteSet(N)
    BY DEF Setting
  <1>6. PICK same : same = [n \in N |-> n]
    OBVIOUS
  <1>7. \A n : Becomes(n)' = n
    BY <1>1 DEF Becomes
  <1>8. \A n : Hashes(n)' = {n}
    <2> SUFFICES ASSUME NEW n PROVE Hashes(n)' = {n}
      OBVIOUS
    <2>1. {k \in before'.live \ {n} : Becomes(k)' = n} = {}
      BY <1>7
    <2>2. QED
      BY <2>1 DEF Hashes
  <1>9. \A n \in N : /\ memory[loc[n]] = Header(n, size[loc[n]], same[n])
                     /\ same[n] \in Hashes(n)' /\ Becomes(n)' = same[n]
    BY <1>4, <1>6, <1>7, <1>8 DEF HeadersAre, Own
  <1>10. same \in [N -> N] /\ same[t] = t
    BY <1>5, <1>6
  <1>11. interpreterOops = [i \in 1..Cardinality(N) |->
                               loc[same[SetToSeq(N)[i]]]]
    <2>1. SetToSeq(N) \in [1..Cardinality(N) -> N]
      BY <1>5, SetToSeqIs
    <2>2. \A i \in 1..Cardinality(N) :
             loc[same[SetToSeq(N)[i]]] = loc[SetToSeq(N)[i]]
      BY <1>6, <2>1
    <2>3. QED
      BY <1>4, <2>2 DEF RootsAre
  <1>12. methodCache \in {Null, loc[same[t]]}
    BY <1>4, <1>10 DEF RootsAre
  <1>13. FieldsAre(memory, N, size, loc, loc[same[t]])
    BY <1>4, <1>10
  <1>14. Setting' /\ \E size2 : Ends(S, size2, loc, same, same)'
    <2>1. HeadersBack(memory, S, size, loc, same, same)
      BY <1>4, <1>5, <1>9, <1>10, <1>11, <1>12, <1>13 DEF HeadersBack
    <2>2. QED
      BY <1>1, <1>9, <2>1, BecomeEnds
  <1>15. PairsAreGiven' /\ (OneWay' <=> OneWay)
    <2>1. OneWay' <=> OneWay
      BY <1>2 DEF OneWay
    <2>2. PairsAreGiven'
      BY <1>2 DEF PairsAreGiven, BecomeInv
    <2>3. QED
      BY <2>1, <2>2
  <1>16. QED
    BY <1>1, <1>2, <1>14, <1>15 DEF BecomeInv, Ended
-----------------------------------------------------------------------------
(* The exchange.                                                           *)

\* What stays the same while the free block does.
LEMMA SameEntries ==
    ASSUME UNCHANGED fixedVars, freeBlock' = freeBlock
    PROVE  /\ OneWay' <=> OneWay
           /\ Entries' = Entries /\ Ranks' = Ranks /\ Given' = Given
           /\ \A loc : Redirected(loc)' = Redirected(loc)
           /\ \A e : Block(e)' = Block(e)
           /\ TableStart(freeBlock + 1)' = TableStart(freeBlock + 1)
           /\ \A m, S, size, loc, R, hash :
                 Exchanging(m, S, size, loc, R, hash)'
                    <=> Exchanging(m, S, size, loc, R, hash)
           /\ PairsAreGiven => PairsAreGiven'
  <1>1. /\ BytesPerWord' = BytesPerWord /\ memoryLimit' = memoryLimit
        /\ operation' = operation /\ before' = before
        /\ freeBlock' = freeBlock
    BY DEF fixedVars
  <1>2. OneWay' <=> OneWay
    BY <1>1 DEF OneWay
  <1>3. BlockSize' = BlockSize
    BY <1>2 DEF BlockSize
  <1>4. Entries' = Entries /\ Ranks' = Ranks
    BY <1>1, <1>2 DEF Entries, Ranks
  <1>6. Given' = Given
    BY <1>1 DEF Given, Replacing, OneWay
  <1>7. \A loc : Redirected(loc)' = Redirected(loc)
    BY <1>1, <1>6 DEF Redirected
  <1>8. \A e : /\ Rank(e)' = Rank(e) /\ NameOf(e)' = NameOf(e)
               /\ PartnerOf(e)' = PartnerOf(e)
    BY <1>1, <1>2 DEF Rank, NameOf, PartnerOf
  <1>9. TableStart(freeBlock + 1)' = TableStart(freeBlock + 1)
    BY <1>1 DEF TableStart
  <1>10. \A e : Block(e)' = Block(e)
    BY <1>3, <1>8, <1>9 DEF Block
  <1>11. TableFits' <=> TableFits
    BY <1>1, <1>3, <1>4, <1>9 DEF TableFits
  <1>12. \A R, hash : Hashed(R, hash)' <=> Hashed(R, hash)
    BY <1>1, <1>8 DEF Hashed
  <1>13. \A m, e, size, loc : Blocked(m, e, size, loc)'
                                 <=> Blocked(m, e, size, loc)
    BY <1>2, <1>8, <1>10 DEF Blocked
  <1>14. \A m, S, size, loc, R, hash :
            Exchanging(m, S, size, loc, R, hash)'
               <=> Exchanging(m, S, size, loc, R, hash)
    BY <1>1, <1>4, <1>8, <1>11, <1>12, <1>13 DEF Exchanging
  <1>15. PairsAreGiven => PairsAreGiven'
    BY <1>1 DEF PairsAreGiven
  <1>16. QED
    BY <1>2, <1>4, <1>6, <1>7, <1>9, <1>10, <1>14, <1>15

\* The words that an exchange writes.
WordsOf(e, size, loc) ==
    {<<loc[NameOf(e)], Forwarded(Block(e))>>,
     <<Block(e), Oop(loc[PartnerOf(e)])>>,
     <<Block(e) + 1, Own(NameOf(e), size, loc)>>}
    \cup IF OneWay THEN {<<Block(e) + 2, Oop(loc[NameOf(e)])>>} ELSE {}

\* They are written to different addresses.
LEMMA WordsApart ==
    ASSUME Setting, PairsAreGiven, operation \notin Collections, TableFits,
           NEW S, NEW size, NEW loc,
           Placed(before.live, S, size, loc, freeBlock + 1),
           FreeIn(before.live, S, loc) = {freeBlock},
           NEW e \in Entries, NEW f \in Entries,
           NEW v \in WordsOf(e, size, loc), NEW w \in WordsOf(f, size, loc),
           v[1] = w[1]
    PROVE  v = w
  <1>1. /\ \A g \in Entries : /\ Block(g) \in Nat /\ freeBlock + 1 < Block(g)
                              /\ Block(g) + 2 <= memoryLimit
        /\ e # f => Block(e) + 1 < Block(f) \/ Block(f) + 1 < Block(e)
        /\ OneWay /\ e # f =>
              Block(e) + 2 < Block(f) \/ Block(f) + 2 < Block(e)
    BY BlocksApart
  <1>2. /\ \A g \in Entries : NameOf(g) \in before.live
        /\ NameOf(e) = NameOf(f) => e = f
    BY EntriesAre
  <1>3. /\ \A n \in before.live : /\ loc[n] \in Nat
                                  /\ loc[n] < freeBlock + 1
        /\ \A n, k \in before.live : loc[n] = loc[k] => n = k
    <2>1. /\ \A n \in before.live : loc[n] \in S
          /\ \A n, k \in before.live : loc[n] = loc[k] => n = k
      BY PlacedAre
    <2>2. \A a \in S : a \in Nat /\ a < freeBlock + 1
      BY NotFields
    <2>3. QED
      BY <2>1, <2>2
  <1>4. freeBlock \in Nat
    BY DEF Setting
  <1>5. PICK a, b : a = loc[NameOf(e)] /\ b = loc[NameOf(f)]
    OBVIOUS
  <1>6. PICK x, y : x = Block(e) /\ y = Block(f)
    OBVIOUS
  <1>7. /\ a \in Nat /\ b \in Nat /\ x \in Nat /\ y \in Nat
        /\ a < freeBlock + 1 /\ b < freeBlock + 1
        /\ freeBlock + 1 < x /\ freeBlock + 1 < y
        /\ a = b => e = f
        /\ e # f => x + 1 < y \/ y + 1 < x
        /\ OneWay /\ e # f => x + 2 < y \/ y + 2 < x
    BY <1>1, <1>2, <1>3, <1>5, <1>6
  <1>8. /\ v[1] \in {a, x, x + 1} \cup IF OneWay THEN {x + 2} ELSE {}
        /\ w[1] \in {b, y, y + 1} \cup IF OneWay THEN {y + 2} ELSE {}
    BY <1>5, <1>6 DEF WordsOf
  <1>9. e = f
    <2>1. CASE OneWay
      BY <1>4, <1>7, <1>8, <2>1
    <2>2. CASE ~OneWay
      BY <1>4, <1>7, <1>8, <2>2
    <2>3. QED
      BY <2>1, <2>2
  <1>10. a # x /\ a # x + 1 /\ a # x + 2 /\ x # x + 1 /\ x # x + 2
         /\ x + 1 # x + 2
    BY <1>4, <1>7
  <1>11. QED
    BY <1>5, <1>6, <1>9, <1>10 DEF WordsOf

\* With enough entries available the table holds them all.
LEMMA EnoughEntries ==
    ASSUME Setting, PairsAreGiven, operation \notin Collections,
           EntriesAvailable >= Ranks
    PROVE  TableFits
  <1>1. PICK T, k, r : T = TableStart(freeBlock + 1) /\ k = BlockSize
                       /\ r = Ranks
    OBVIOUS
  <1>2. /\ freeBlock \in Nat /\ BytesPerWord \in {4, 8} /\ memoryLimit \in Nat
    BY DEF Setting
  <1>3. T \in Nat
    <2>1. freeBlock + 1 \in Nat
      BY <1>2
    <2>2. QED
      BY <1>1, <1>2, <2>1, TableStartIs
  <1>4. k \in {2, 4}
    BY <1>1 DEF BlockSize
  <1>5. r \in Nat
    BY <1>1, RanksAre
  <1>6. (memoryLimit - k - T) \div k >= r
    BY <1>1 DEF EntriesAvailable
  <1>7. T + k * r <= memoryLimit - k
    <2>1. CASE k = 2
      BY <1>2, <1>3, <1>5, <1>6, <2>1
    <2>2. CASE k = 4
      BY <1>2, <1>3, <1>5, <1>6, <2>2
    <2>3. QED
      BY <1>4, <2>1, <2>2
  <1>8. QED
    BY <1>1, <1>7 DEF TableFits

\* Each header goes into its block; the fields stay.
LEMMA ExchangedIs ==
    ASSUME Setting, PairsAreGiven, operation \notin Collections, TableFits,
           NEW S, NEW size, NEW loc, Prepared(S, size, loc),
           NEW m, m = [Exchanged EXCEPT ![freeBlock] = FreeChunk(1),
                                        ![freeBlock + 1] = FreeChunk(1)],
           NEW own, own = [n \in before.live |-> n]
    PROVE  /\ DOMAIN m = DOMAIN memory
           /\ Exchanging(m, S, size, loc, {}, own)
           /\ FieldsAre(m, before.live, size, loc, loc[before.target])
  <1> DEFINE N == before.live
             t == before.target
  <1>1. /\ Placed(N, S, size, loc, freeBlock + 1)
        /\ HeadersAre(memory, N, size, loc)
        /\ FieldsAre(memory, N, size, loc, loc[t])
        /\ ArraysAre(loc) /\ FreeIn(N, S, loc) = {freeBlock}
    BY DEF Prepared, Found
  <1>2. /\ Entry = Entries
        /\ \A e \in Entries : /\ Member(e) = loc[NameOf(e)]
                              /\ Partner(e) = loc[PartnerOf(e)]
                              /\ BlockOf(e) = Block(e)
    BY <1>1, EntryIs DEF Block
  <1>3. \A e \in Entries : NameOf(e) \in N
    BY EntriesAre
  <1>4. PICK words : words = UNION {WordsOf(e, size, loc) : e \in Entries}
    OBVIOUS
  <1>5. PICK m1 : m1 = Written(memory, words)
    OBVIOUS
  <1>6. Exchanged = m1
    <2> DEFINE Words2(e) ==
                  {<<Member(e), Forwarded(BlockOf(e))>>,
                   <<BlockOf(e), Oop(Partner(e))>>,
                   <<BlockOf(e) + 1, memory[Member(e)]>>}
                  \cup IF OneWay
                       THEN {<<BlockOf(e) + 2, Oop(Member(e))>>} ELSE {}
    <2>1. ASSUME NEW e \in Entries PROVE Words2(e) = WordsOf(e, size, loc)
      <3>1. memory[loc[NameOf(e)]] = Own(NameOf(e), size, loc)
        BY <1>1, <1>3 DEF HeadersAre
      <3>2. QED
        BY <1>2, <3>1 DEF WordsOf
    <2>2. Exchanged = Written(memory, UNION {Words2(e) : e \in Entries})
      BY <1>2 DEF Exchanged
    <2> HIDE DEF Words2
    <2>3. {Words2(e) : e \in Entries} = {WordsOf(e, size, loc) : e \in Entries}
      BY <2>1
    <2>4. QED
      BY <1>4, <1>5, <2>2, <2>3
  <1>7. \A w \in words : \E e \in Entries : w \in WordsOf(e, size, loc)
    BY <1>4
  <1>8. \A v, w \in words : v[1] = w[1] => v = w
    <2> SUFFICES ASSUME NEW v \in words, NEW w \in words, v[1] = w[1]
                 PROVE  v = w
      OBVIOUS
    <2>1. PICK e \in Entries : v \in WordsOf(e, size, loc)
      BY <1>7
    <2>2. PICK f \in Entries : w \in WordsOf(f, size, loc)
      BY <1>7
    <2>3. QED
      BY <1>1, <2>1, <2>2, WordsApart
  <1>9. /\ DOMAIN m1 = DOMAIN memory
        /\ \A w \in words : w[1] \in DOMAIN memory => m1[w[1]] = w[2]
        /\ \A x \in DOMAIN memory :
              (\A w \in words : w[1] # x) => m1[x] = memory[x]
    BY <1>5, <1>8, WrittenIs
  <1>10. \A e \in Entries : /\ Block(e) \in Nat /\ freeBlock + 1 < Block(e)
                            /\ Block(e) + 2 <= memoryLimit
    BY BlocksApart
  <1>11. /\ DOMAIN memory = 0..memoryLimit /\ memoryLimit \in Nat
         /\ freeBlock \in Nat /\ freeBlock + 1 < memoryLimit
         /\ IsFiniteSet(N) /\ t \in N
    <2>1. MaxChunks \in Nat
      BY MemoryAssumption
    <2>2. QED
      BY <2>1 DEF Setting
  <1>12. /\ \A n \in N : loc[n] \in Nat /\ loc[n] < freeBlock + 1
         /\ \A n \in N : loc[n] # freeBlock
         /\ \A n, k \in N : loc[n] = loc[k] => n = k
         /\ \A n \in N : size[loc[n]] = 2 =>
               /\ loc[n] + 1 \in Nat /\ loc[n] + 1 < freeBlock + 1
               /\ loc[n] + 1 # freeBlock
               /\ \A k \in N : loc[n] + 1 # loc[k]
    <2>1. /\ \A n \in N : loc[n] \in S
          /\ \A n, k \in N : loc[n] = loc[k] => n = k
      BY <1>1, PlacedAre
    <2>2. /\ \A a \in S : a \in Nat /\ a < freeBlock + 1
          /\ \A n \in N : size[loc[n]] = 2 =>
                /\ loc[n] + 1 \in Nat /\ loc[n] + 1 < freeBlock + 1
                /\ loc[n] + 1 \notin S
      BY <1>1, NotFields
    <2>3. freeBlock \in S /\ \A n \in N : loc[n] # freeBlock
      BY <1>1 DEF FreeIn
    <2>4. QED
      BY <2>1, <2>2, <2>3
  <1>13. \A w \in words :
            \/ \E e \in Entries : w[1] = loc[NameOf(e)]
            \/ w[1] \in Nat /\ w[1] > freeBlock + 1
    <2> SUFFICES ASSUME NEW w \in words, NEW e \in Entries,
                        w \in WordsOf(e, size, loc),
                        w[1] # loc[NameOf(e)]
                 PROVE  w[1] \in Nat /\ w[1] > freeBlock + 1
      BY <1>7
    <2>1. w[1] \in {Block(e), Block(e) + 1, Block(e) + 2}
      BY DEF WordsOf
    <2>2. QED
      BY <1>10, <1>11, <2>1
  <1>14. /\ DOMAIN m = DOMAIN memory /\ m[freeBlock] = FreeChunk(1)
         /\ \A x \in DOMAIN memory :
               x # freeBlock /\ x # freeBlock + 1 => m[x] = m1[x]
    <2>1. PICK u : u = FreeChunk(1)
      OBVIOUS
    <2>2. m = [m1 EXCEPT ![freeBlock] = u, ![freeBlock + 1] = u]
      BY <1>6, <2>1
    <2>3. freeBlock \in DOMAIN m1 /\ freeBlock # freeBlock + 1
      BY <1>9, <1>11
    <2>4. QED
      BY <1>9, <2>1, <2>2, <2>3
  <1>15. ASSUME NEW e \in Entries, NEW w \in WordsOf(e, size, loc)
         PROVE  m[w[1]] = w[2]
    <2>1. w \in words
      BY <1>4
    <2>2. w[1] \in {loc[NameOf(e)], Block(e), Block(e) + 1, Block(e) + 2}
      BY DEF WordsOf
    <2>3. w[1] \in DOMAIN memory /\ w[1] # freeBlock /\ w[1] # freeBlock + 1
      <3>1. CASE w[1] = loc[NameOf(e)]
        BY <1>3, <1>11, <1>12, <3>1
      <3>2. CASE w[1] \in {Block(e), Block(e) + 1, Block(e) + 2}
        BY <1>10, <1>11, <3>2
      <3>3. QED
        BY <2>2, <3>1, <3>2
    <2>4. QED
      BY <1>9, <1>14, <2>1, <2>3
  <1>16. \A e \in Entries : Blocked(m, e, size, loc)
    <2> SUFFICES ASSUME NEW e \in Entries PROVE Blocked(m, e, size, loc)
      OBVIOUS
    <2> DEFINE w1 == <<loc[NameOf(e)], Forwarded(Block(e))>>
               w2 == <<Block(e), Oop(loc[PartnerOf(e)])>>
               w3 == <<Block(e) + 1, Own(NameOf(e), size, loc)>>
               w4 == <<Block(e) + 2, Oop(loc[NameOf(e)])>>
    <2>1. /\ w1 \in WordsOf(e, size, loc) /\ w2 \in WordsOf(e, size, loc)
          /\ w3 \in WordsOf(e, size, loc)
          /\ OneWay => w4 \in WordsOf(e, size, loc)
      BY DEF WordsOf
    <2>2. /\ m[w1[1]] = w1[2] /\ m[w2[1]] = w2[2] /\ m[w3[1]] = w3[2]
          /\ OneWay => m[w4[1]] = w4[2]
      BY <1>15, <2>1
    <2>3. QED
      BY <2>2 DEF Blocked
  <1>17. ASSUME NEW n \in N, \A e \in Entries : NameOf(e) # n
         PROVE  m[loc[n]] = Header(n, size[loc[n]], own[n])
    <2>1. \A w \in words : w[1] # loc[n]
      BY <1>3, <1>11, <1>12, <1>13, <1>17
    <2>2. m[loc[n]] = memory[loc[n]]
      BY <1>9, <1>11, <1>12, <1>14, <2>1
    <2>3. QED
      BY <1>1, <2>2 DEF HeadersAre, Own
  <1>18. ASSUME NEW n \in N, size[loc[n]] = 2
         PROVE  m[loc[n] + 1] = memory[loc[n] + 1]
    <2>1. PICK x : x = loc[n] + 1
      OBVIOUS
    <2>2. /\ x \in Nat /\ x < freeBlock + 1 /\ x # freeBlock
          /\ \A k \in N : x # loc[k]
      BY <1>12, <1>18, <2>1
    <2>3. \A w \in words : w[1] # x
      BY <1>3, <1>11, <1>13, <2>2
    <2>4. x \in DOMAIN memory /\ x # freeBlock + 1
      BY <1>11, <2>2
    <2>5. m[x] = memory[x]
      BY <1>9, <1>14, <2>2, <2>3, <2>4
    <2>6. QED
      BY <2>1, <2>5
  <1>19. FieldsAre(m, N, size, loc, loc[t])
    BY <1>1, <1>18 DEF FieldsAre
  <1>20. Hashed({}, own)
    BY DEF Hashed
  <1>21. Exchanging(m, S, size, loc, {}, own)
    BY <1>1, <1>14, <1>16, <1>17, <1>20 DEF Exchanging
  <1>22. QED
    BY <1>14, <1>19, <1>21

\* become: gets its blocks, or fails.
LEMMA PrepareSafe ==
    ASSUME Setting, operation \notin Collections, BecomeInv,
           prepareForwardingTableForBecoming
    PROVE  Setting' /\ BecomeInv'
  <1> DEFINE N == before.live
             t == before.target
  <1>1. /\ pc = "prepare"
        /\ UNCHANGED <<fixedVars, pointerVars, compVars, youngStart,
                       totalObjectCount, sweep, oop, newOop>>
    BY DEF prepareForwardingTableForBecoming
  <1>2. CASE TooFewEntries
    BY <1>1, <1>2, TooFewSafe
  <1>3. CASE /\ EntriesAvailable >= EntriesNeeded
             /\ fwdTableInit(Exchanged, EntriesNeeded)
             /\ pc' = "exchange"
    <2>1. PICK S, size, loc : Prepared(S, size, loc)
      BY <1>1 DEF BecomeInv
    <2>2. ArraysAre(loc) /\ RootsAre(loc)
      BY <2>1 DEF Prepared, Found
    <2>3. PairsAreGiven /\ youngStart = 2 /\ rootTable = {0}
          /\ (OneWay => BytesPerWord = 4)
      BY DEF BecomeInv
    <2>4. EntriesNeeded = Ranks
      BY <2>2, <2>3, EntryIs
    <2>5. TableFits
      BY <1>3, <2>3, <2>4, EnoughEntries
    <2>6. PICK m : m = memory'
      OBVIOUS
    <2>7. PICK own : own = [n \in N |-> n]
      OBVIOUS
    <2>8. /\ m = [Exchanged EXCEPT ![freeBlock] = FreeChunk(1),
                                   ![freeBlock + 1] = FreeChunk(1)]
          /\ endOfMemory' = freeBlock + 1 /\ freeBlock' = freeBlock
          /\ fwdTableNext' = TableStart(freeBlock + 1) + BlockSize * Ranks
      BY <1>3, <2>4, <2>6 DEF fwdTableInit
    <2>9. /\ DOMAIN m = DOMAIN memory
          /\ Exchanging(m, S, size, loc, {}, own)
          /\ FieldsAre(m, N, size, loc, loc[t])
      BY <2>1, <2>3, <2>5, <2>7, <2>8, ExchangedIs
    <2>10. /\ OneWay' <=> OneWay
           /\ Ranks' = Ranks /\ PairsAreGiven'
           /\ TableStart(freeBlock + 1)' = TableStart(freeBlock + 1)
           /\ Exchanging(m, S, size, loc, {}, own)'
      BY <1>1, <2>3, <2>8, <2>9, SameEntries
    <2>11. /\ before' = before /\ operation' = operation
           /\ BytesPerWord' = BytesPerWord /\ memoryLimit' = memoryLimit
           /\ rootTable' = rootTable /\ interpreterOops' = interpreterOops
           /\ methodCache' = methodCache /\ arrays' = arrays
           /\ youngStart' = youngStart /\ totalObjectCount' = totalObjectCount
      BY <1>1 DEF fixedVars, pointerVars
    <2>12. RootsAre(loc)' /\ ArraysAre(loc)'
      BY <2>2, <2>11 DEF RootsAre, ArraysAre
    <2>13. OneWay => BlockSize = 4
      BY DEF BlockSize
    <2>14. InExchange(S, size, loc, own)'
      BY <2>6, <2>8, <2>9, <2>10, <2>11, <2>12, <2>13 DEF InExchange
    <2>15. Setting'
      <3>1. MaxChunks \in Nat
        BY MemoryAssumption
      <3>2. QED
        BY <2>6, <2>8, <2>9, <2>11, <3>1 DEF Setting
    <2>16. QED
      BY <1>3, <2>3, <2>10, <2>11, <2>14, <2>15 DEF BecomeInv, Ended
  <1>4. QED
    BY <1>2, <1>3 DEF prepareForwardingTableForBecoming

\* What is found of an object in the exchange, and where it leads.
LEMMA ExchangingIs ==
    ASSUME Setting, PairsAreGiven, operation \notin Collections,
           NEW S, NEW size, NEW loc, NEW hash,
           Exchanging(memory, S, size, loc, {}, hash)
    PROVE  /\ \A n \in before.live :
                 /\ ~IsFree(memory, loc[n])
                 /\ RealHeader(memory, loc[n]).size = size[loc[n]]
                 /\ remap(loc[n]) = Redirected(loc)[n]
           /\ \A a \in FreeIn(before.live, S, loc) :
                 memory[a] = FreeChunk(size[a])
  <1> DEFINE N == before.live
  <1>1. /\ Placed(N, S, size, loc, freeBlock + 1)
        /\ FreeIn(N, S, loc) = {freeBlock}
        /\ memory[freeBlock] = FreeChunk(1)
        /\ \A e \in Entries : Blocked(memory, e, size, loc)
        /\ \A n \in N : (\A e \in Entries : NameOf(e) # n) =>
              memory[loc[n]] = Header(n, size[loc[n]], hash[n])
    BY DEF Exchanging
  <1>2. /\ \A e \in Entries : Given[NameOf(e)] = PartnerOf(e)
        /\ \A n \in N : (\A e \in Entries : NameOf(e) # n) => Given[n] = n
    BY GivenIs
  <1>3. \A n \in N : Redirected(loc)[n] = loc[Given[n]]
    BY DEF Redirected
  <1>4. ASSUME NEW n \in N
        PROVE  /\ ~IsFree(memory, loc[n])
               /\ RealHeader(memory, loc[n]).size = size[loc[n]]
               /\ remap(loc[n]) = loc[Given[n]]
    <2>1. CASE \E e \in Entries : NameOf(e) = n
      <3>1. PICK e \in Entries : NameOf(e) = n
        BY <2>1
      <3>2. /\ memory[loc[n]] = Forwarded(Block(e))
            /\ memory[Block(e)] = Oop(loc[PartnerOf(e)])
            /\ memory[Block(e) + 1] = Own(n, size, loc)
        BY <1>1, <3>1 DEF Blocked
      <3>3. memory[loc[n]].type = "forwarded"
            /\ memory[loc[n]].block = Block(e)
        BY <3>2, Words
      <3>4. RealHeader(memory, loc[n]).size = size[loc[n]]
        BY <3>2, <3>3, Words DEF RealHeader, IsForwarded, Own
      <3>5. remap(loc[n]) = loc[PartnerOf(e)]
        BY <3>2, <3>3, Words DEF remap, IsForwarded
      <3>6. QED
        BY <1>2, <3>1, <3>3, <3>4, <3>5 DEF IsFree
    <2>2. CASE \A e \in Entries : NameOf(e) # n
      <3>1. memory[loc[n]] = Header(n, size[loc[n]], hash[n])
        BY <1>1, <2>2
      <3>2. Given[n] = n
        BY <1>2, <2>2
      <3>3. QED
        BY <3>1, <3>2, PlainHeaders DEF remap
    <2>3. QED
      BY <2>1, <2>2
  <1>5. size[freeBlock] = 1
    <2>1. /\ freeBlock \in S /\ size[freeBlock] \in Nat
          /\ 1 <= size[freeBlock]
          /\ freeBlock + size[freeBlock] <= freeBlock + 1
      BY <1>1, PlacedAre
    <2>2. freeBlock \in Nat
      BY DEF Setting
    <2>3. QED
      BY <2>1, <2>2
  <1>6. QED
    BY <1>1, <1>3, <1>4, <1>5

\* The fields have no part in it.
LEMMA ExchangingKept ==
    ASSUME Setting, PairsAreGiven, operation \notin Collections,
           NEW m, DOMAIN m = 0..memoryLimit,
           NEW S, NEW size, NEW loc, NEW R, NEW hash,
           Exchanging(m, S, size, loc, R, hash), NEW m2,
           \A x \in DOMAIN m :
              (\A n \in before.live : size[loc[n]] = 2 => x # loc[n] + 1)
                 => m2[x] = m[x]
    PROVE  Exchanging(m2, S, size, loc, R, hash)
  <1> DEFINE N == before.live
  <1>1. /\ Placed(N, S, size, loc, freeBlock + 1)
        /\ FreeIn(N, S, loc) = {freeBlock}
        /\ m[freeBlock] = FreeChunk(1) /\ TableFits
        /\ R \subseteq Entries /\ Hashed(R, hash)
        /\ \A e \in Entries \ R : Blocked(m, e, size, loc)
        /\ \A n \in N : (\A e \in Entries \ R : NameOf(e) # n) =>
              m[loc[n]] = Header(n, size[loc[n]], hash[n])
    BY DEF Exchanging
  <1>2. \A e \in Entries : NameOf(e) \in N
    BY EntriesAre
  <1>3. \A e \in Entries : /\ Block(e) \in Nat /\ freeBlock + 1 < Block(e)
                           /\ Block(e) + 2 <= memoryLimit
    BY <1>1, BlocksApart
  <1>4. /\ \A n \in N : loc[n] \in S
        /\ \A n \in N : size[loc[n]] = 2 =>
              /\ loc[n] + 1 \in Nat /\ loc[n] + 1 < freeBlock + 1
              /\ loc[n] + 1 \notin S
        /\ \A a \in S : a \in Nat /\ a < freeBlock + 1
        /\ freeBlock \in S
    BY <1>1, PlacedAre, NotFields
  <1>5. memoryLimit \in Nat /\ freeBlock \in Nat /\ freeBlock < memoryLimit
    BY DEF Setting
  <1>6. \A a \in S : m2[a] = m[a]
    <2> SUFFICES ASSUME NEW a \in S PROVE m2[a] = m[a]
      OBVIOUS
    <2>1. a \in DOMAIN m
      BY <1>4, <1>5
    <2>2. \A n \in N : size[loc[n]] = 2 => a # loc[n] + 1
      BY <1>4
    <2>3. QED
      BY <2>1, <2>2
  <1>7. ASSUME NEW x \in Nat, freeBlock + 1 < x, x <= memoryLimit
        PROVE  m2[x] = m[x]
    <2>1. x \in DOMAIN m
      BY <1>5, <1>7
    <2>2. \A n \in N : size[loc[n]] = 2 => x # loc[n] + 1
      BY <1>4, <1>5, <1>7
    <2>3. QED
      BY <2>1, <2>2
  <1>8. \A e \in Entries \ R : Blocked(m2, e, size, loc)
    <2> SUFFICES ASSUME NEW e \in Entries \ R PROVE Blocked(m2, e, size, loc)
      OBVIOUS
    <2>1. PICK b : b = Block(e)
      OBVIOUS
    <2>2. b \in Nat /\ freeBlock + 1 < b /\ b + 2 <= memoryLimit
      BY <1>3, <2>1
    <2>3. m2[b] = m[b] /\ m2[b + 1] = m[b + 1] /\ m2[b + 2] = m[b + 2]
      <3>1. /\ b \in Nat /\ freeBlock + 1 < b /\ b <= memoryLimit
            /\ b + 1 \in Nat /\ freeBlock + 1 < b + 1 /\ b + 1 <= memoryLimit
            /\ b + 2 \in Nat /\ freeBlock + 1 < b + 2 /\ b + 2 <= memoryLimit
        BY <1>5, <2>2
      <3>2. QED
        BY <1>7, <3>1
    <2>4. m2[loc[NameOf(e)]] = m[loc[NameOf(e)]]
      BY <1>2, <1>4, <1>6
    <2>5. QED
      BY <1>1, <2>1, <2>3, <2>4 DEF Blocked
  <1>9. m2[freeBlock] = FreeChunk(1)
    BY <1>1, <1>4, <1>6
  <1>10. \A n \in N : (\A e \in Entries \ R : NameOf(e) # n) =>
            m2[loc[n]] = Header(n, size[loc[n]], hash[n])
    BY <1>1, <1>4, <1>6
  <1>11. QED
    BY <1>1, <1>8, <1>9, <1>10 DEF Exchanging

\* Every pointer to an object is given to the one that replaces it.
LEMMA MapExchangeSafe ==
    ASSUME Setting, operation \notin Collections, BecomeInv, MapExchange
    PROVE  Setting' /\ BecomeInv'
  <1> DEFINE N == before.live
             t == before.target
  <1>1. /\ pc = "exchange" /\ pc' = "restore" /\ oop' = FirstBlock
        /\ UNCHANGED <<fixedVars, tableVars, compVars, youngStart, freeBlock,
                       endOfMemory, totalObjectCount, sweep, newOop>>
    BY DEF MapExchange
  <1>2. PICK memStart \in {0} \cup IF allYoung THEN {youngStart} ELSE {} :
           mapPointersInObjects(memStart, endOfMemory)
    BY DEF MapExchange
  <1>3. PICK S, size, loc, hash : InExchange(S, size, loc, hash)
    BY <1>1 DEF BecomeInv
  <1>4. /\ Exchanging(memory, S, size, loc, {}, hash)
        /\ endOfMemory = freeBlock + 1
        /\ FieldsAre(memory, N, size, loc, loc[t])
        /\ RootsAre(loc) /\ ArraysAre(loc)
        /\ OneWay => fwdTableNext = TableStart(freeBlock + 1) + 4 * Ranks
    BY <1>3 DEF InExchange
  <1>5. /\ PairsAreGiven /\ youngStart = 2 /\ rootTable = {0}
        /\ OneWay => BytesPerWord = 4
    BY DEF BecomeInv
  <1>6. Placed(N, S, size, loc, endOfMemory) /\ TableFits
    BY <1>4 DEF Exchanging
  <1>7. PICK to : to = Redirected(loc)
    OBVIOUS
  <1>8. /\ \A n \in N : /\ ~IsFree(memory, loc[n])
                        /\ RealHeader(memory, loc[n]).size = size[loc[n]]
                        /\ remap(loc[n]) = to[n]
        /\ \A a \in FreeIn(N, S, loc) : memory[a] = FreeChunk(size[a])
    BY <1>4, <1>5, <1>7, ExchangingIs
  <1>9. /\ DOMAIN arrays = 1..2
        /\ \A n \in 1..2 : DOMAIN arrays[n] = DOMAIN before.pairs
        /\ \A n \in 1..2, i \in DOMAIN before.pairs :
              arrays[n][i] = loc[before.pairs[i][n]]
    BY <1>4, <1>5, EntryIs
  <1>10. /\ DOMAIN before.pairs = 1..Len(before.pairs)
         /\ \A e \in Entries : e[1] \in 1..2 /\ e[2] \in 1..Len(before.pairs)
    BY <1>5, EntriesAre
  <1>11. /\ 0 \in N /\ loc[0] = 0
    BY <1>6, PlacedAre
  <1>12. \/ memStart = 0 /\ rootTable \subseteq {0}
         \/ memStart = 2 /\ rootTable = {0} /\ to[0] = loc[0]
    <2>1. CASE memStart = 0
      BY <1>5, <2>1
    <2>2. CASE memStart # 0
      <3>1. allYoung /\ memStart = 2
        BY <1>2, <1>5, <2>2
      <3>2. ASSUME NEW e \in Entries PROVE NameOf(e) # 0
        <4>1. arrays[e[1]][e[2]] = loc[NameOf(e)]
          BY <1>9, <1>10 DEF NameOf
        <4>2. arrays[e[1]][e[2]] >= 2
          BY <1>5, <1>9, <1>10, <3>1 DEF allYoung
        <4>3. QED
          BY <1>11, <4>1, <4>2
      <3>3. Given[0] = 0
        BY <1>5, <1>11, <3>2, GivenIs
      <3>4. to[0] = loc[0]
        BY <1>7, <1>11, <3>3 DEF Redirected
      <3>5. QED
        BY <1>5, <3>1, <3>4
    <2>3. QED
      BY <2>1, <2>2
  <1>13. before' = before /\ operation' = operation
         /\ BytesPerWord' = BytesPerWord /\ memoryLimit' = memoryLimit
         /\ fwdTableNext' = fwdTableNext
    BY <1>1 DEF fixedVars, tableVars
  <1>14. PICK m : m = memory'
    OBVIOUS
  <1>15. /\ DOMAIN m = DOMAIN memory
         /\ FieldsAre(m, N, size, loc, to[t])
         /\ \A x \in DOMAIN memory :
               (\A n \in N : size[loc[n]] = 2 => x # loc[n] + 1)
                  => m[x] = memory[x]
         /\ RootsAre(to)'
    BY <1>2, <1>4, <1>6, <1>8, <1>12, <1>13, <1>14, Mapped
  <1>16. DOMAIN memory = 0..memoryLimit
    BY DEF Setting
  <1>17. Exchanging(m, S, size, loc, {}, hash)
    BY <1>4, <1>5, <1>15, <1>16, ExchangingKept
  <1>18. /\ OneWay' <=> OneWay
         /\ Entries' = Entries /\ Ranks' = Ranks
         /\ Redirected(loc)' = to /\ PairsAreGiven'
         /\ \A e : Block(e)' = Block(e)
         /\ TableStart(freeBlock + 1)' = TableStart(freeBlock + 1)
         /\ Exchanging(m, S, size, loc, {}, hash)'
    BY <1>1, <1>5, <1>7, <1>17, SameEntries
  <1>19. ASSUME OneWay
         PROVE  oop' = TableStart(freeBlock + 1) + 4 * 1 /\ BlockSize = 4
    <2>1. oop' = TableStart(freeBlock + 1) + 16 \div 4
      BY <1>1, <1>4, <1>5, <1>19 DEF FirstBlock
    <2>2. QED
      BY <1>19, <2>1 DEF BlockSize
  <1>20. Restored' = {}
    <2>1. CASE ~OneWay
      BY <1>18, <2>1 DEF Restored
    <2>2. CASE OneWay
      <3>1. PICK T : T = TableStart(freeBlock + 1)
        OBVIOUS
      <3>2. T \in Nat
        <4>1. freeBlock + 1 \in Nat /\ BytesPerWord \in {4, 8}
          BY DEF Setting
        <4>2. QED
          BY <3>1, <4>1, TableStartIs
      <3>3. ASSUME NEW e \in Entries PROVE ~(Block(e) < oop')
        <4>1. Rank(e) \in Nat /\ 1 <= Rank(e)
          BY <1>5, RanksAre
        <4>2. Block(e) = T + 4 * Rank(e) /\ oop' = T + 4 * 1
          BY <1>19, <2>2, <3>1 DEF Block
        <4>3. QED
          BY <3>2, <4>1, <4>2
      <3>4. QED
        BY <1>18, <3>3 DEF Restored
    <2>3. QED
      BY <2>1, <2>2
  <1>21. OneWay => AtBlock'
    <2> SUFFICES ASSUME OneWay PROVE AtBlock'
      OBVIOUS
    <2>1. fwdTableNext' = TableStart(freeBlock + 1)' + 4 * Ranks'
      BY <1>4, <1>13, <1>18
    <2>2. Ranks \in Nat /\ 1 <= Ranks
      BY <1>5, RanksAre
    <2>3. PICK k \in Nat : k = 1
      OBVIOUS
    <2>4. /\ oop' = TableStart(freeBlock + 1)' + 4 * k
          /\ 1 <= k /\ k <= Ranks' + 1
      BY <1>18, <1>19, <2>2, <2>3
    <2>5. QED
      BY <2>1, <2>4 DEF AtBlock
  <1>22. ArraysAre(to)'
    <2>1. arrays' = [n \in 1..2 |-> [i \in DOMAIN before.pairs |->
                                       remap(arrays[n][i])]]
      BY <1>2, <1>9 DEF mapPointersInObjects
    <2>2. ASSUME NEW n \in 1..2, NEW i \in DOMAIN before.pairs
          PROVE  remap(arrays[n][i]) = to[before.pairs[i][n]]
      <3>1. before.pairs[i][n] \in N
        BY <1>5, PairsAre DEF PairsAreGiven
      <3>2. QED
        BY <1>8, <1>9, <3>1
    <2>3. arrays' = [n \in 1..2 |-> [i \in DOMAIN before.pairs |->
                                       to[before.pairs[i][n]]]]
      BY <2>1, <2>2
    <2>4. QED
      BY <1>13, <2>3 DEF ArraysAre
  <1>23. Restoring(S, size, loc, hash)'
    BY <1>1, <1>4, <1>13, <1>14, <1>15, <1>18, <1>20, <1>21, <1>22
    DEF Restoring
  <1>24. Setting'
    BY <1>1, <1>13, <1>14, <1>15 DEF Setting
  <1>25. youngStart' = 2 /\ rootTable' = {0}
    BY <1>1, <1>2, <1>5 DEF mapPointersInObjects
  <1>26. QED
    BY <1>1, <1>5, <1>13, <1>18, <1>23, <1>24, <1>25 DEF BecomeInv, Ended
-----------------------------------------------------------------------------
(* The headers go back.                                                    *)

\* The exchange has the same meaning until it has failed.
LEMMA SameMeaning ==
    ASSUME UNCHANGED fixedVars, pc # "failed", pc' # "failed"
    PROVE  \A n : Becomes(n)' = Becomes(n) /\ Hashes(n)' = Hashes(n)
  <1>1. operation' = operation /\ before' = before
    BY DEF fixedVars
  <1>2. \A n : Replacing(n)' = Replacing(n)
    BY <1>1 DEF Replacing, OneWay
  <1>3. \A n : Becomes(n)' = Becomes(n)
    <2> SUFFICES ASSUME NEW n PROVE Becomes(n)' = Becomes(n)
      OBVIOUS
    <2>1. PICK R : R = Replacing(n)
      OBVIOUS
    <2>2. Replacing(n)' = R
      BY <1>2, <2>1
    <2>3. Becomes(n) = IF R = {} THEN n ELSE CHOOSE k \in R : TRUE
      BY <2>1 DEF Becomes
    <2>4. Becomes(n)' = IF R = {} THEN n ELSE CHOOSE k \in R : TRUE
      BY <2>2 DEF Becomes
    <2>5. QED
      BY <2>3, <2>4
  <1>4. \A n : Hashes(n)' = Hashes(n)
    <2> SUFFICES ASSUME NEW n PROVE Hashes(n)' = Hashes(n)
      OBVIOUS
    <2>1. {k \in before'.live \ {n} : Becomes(k)' = n}
             = {k \in before.live \ {n} : Becomes(k) = n}
      BY <1>1, <1>3
    <2>2. QED
      BY <1>1, <2>1 DEF Hashes
  <1>5. QED
    BY <1>3, <1>4

\* The entry for the partner of a two-way exchange.
LEMMA Mutual ==
    ASSUME PairsAreGiven, operation \notin Collections, ~OneWay,
           NEW e \in Entries
    PROVE  \E f \in Entries :
              NameOf(f) = PartnerOf(e) /\ PartnerOf(f) = NameOf(e)
  <1>1. /\ DOMAIN before.pairs = 1..Len(before.pairs)
        /\ e[1] \in 1..2 /\ e[2] \in 1..Len(before.pairs)
    BY EntriesAre
  <1>2. PICK f : f = <<3 - e[1], e[2]>>
    OBVIOUS
  <1>3. f[1] = 3 - e[1] /\ f[2] = e[2] /\ 3 - e[1] \in 1..2
    BY <1>1, <1>2
  <1>4. f \in Entries
    BY <1>1, <1>2, <1>3 DEF Entries
  <1>5. 3 - f[1] = e[1]
    BY <1>1, <1>3
  <1>6. NameOf(f) = PartnerOf(e) /\ PartnerOf(f) = NameOf(e)
    BY <1>3, <1>5 DEF NameOf, PartnerOf
  <1>7. QED
    BY <1>4, <1>6

\* The way a restoration ends, whichever it is.
LEMMA RestoredAll ==
    ASSUME Setting, operation \notin Collections, BecomeInv, pc = "restore",
           NEW m, NEW S, NEW size, NEW loc, NEW hash,
           HeadersBack(m, S, size, loc, Given, hash), Hashed(Entries, hash),
           initializeMemoryFirstFree(m, freeBlock, totalObjectCount),
           pc' = "done",
           UNCHANGED <<fixedVars, pointerVars, youngStart, totalObjectCount>>
    PROVE  Setting' /\ BecomeInv'
  <1>1. PairsAreGiven /\ youngStart = 2 /\ rootTable = {0}
        /\ (OneWay => BytesPerWord = 4)
    BY DEF BecomeInv
  <1>2. \A n \in before.live : hash[n] \in Hashes(n) /\ Becomes(n) = Given[n]
    BY <1>1, HashesAre, GivenIs
  <1>3. \A n : Becomes(n)' = Becomes(n) /\ Hashes(n)' = Hashes(n)
    BY SameMeaning
  <1>4. PICK given : given = Given
    OBVIOUS
  <1>5. HeadersBack(m, S, size, loc, given, hash)
    BY <1>4
  <1>6. \A n \in before.live :
           hash[n] \in Hashes(n)' /\ Becomes(n)' = given[n]
    BY <1>2, <1>3, <1>4
  <1>7. Setting' /\ \E size2 : Ends(S, size2, loc, given, hash)'
    BY <1>5, <1>6, BecomeEnds
  <1>8. /\ before' = before /\ operation' = operation
        /\ BytesPerWord' = BytesPerWord /\ rootTable' = rootTable
    BY DEF fixedVars, pointerVars
  <1>9. PairsAreGiven' /\ (OneWay' <=> OneWay)
    <2>1. OneWay' <=> OneWay
      BY <1>8 DEF OneWay
    <2>2. PairsAreGiven'
      BY <1>1, <1>8 DEF PairsAreGiven
    <2>3. QED
      BY <2>1, <2>2
  <1>10. QED
    BY <1>1, <1>7, <1>8, <1>9 DEF BecomeInv, Ended

\* Each of two objects gets its header and the hash of the other.
LEMMA RestoreTwoWaySafe ==
    ASSUME Setting, operation \notin Collections, BecomeInv,
           restoreHeadersAfterBecoming
    PROVE  Setting' /\ BecomeInv'
  <1> DEFINE N == before.live
             t == before.target
  <1>1. /\ pc = "restore" /\ ~OneWay /\ pc' = "done"
        /\ initializeMemoryFirstFree(
              Written(memory, {<<Member(e), RestoredHeader(e)>> : e \in Entry}),
              freeBlock, totalObjectCount)
        /\ UNCHANGED <<fixedVars, pointerVars, youngStart, totalObjectCount>>
    BY DEF restoreHeadersAfterBecoming
  <1>2. PairsAreGiven
    BY DEF BecomeInv
  <1>3. PICK S, size, loc, hash : Restoring(S, size, loc, hash)
    BY <1>1 DEF BecomeInv
  <1>4. PICK to : to = Redirected(loc)
    OBVIOUS
  <1>5. /\ Exchanging(memory, S, size, loc, {}, hash)
        /\ FieldsAre(memory, N, size, loc, to[t])
        /\ RootsAre(to) /\ ArraysAre(to)
    BY <1>1, <1>3, <1>4 DEF Restoring, Restored
  <1>6. /\ Placed(N, S, size, loc, freeBlock + 1)
        /\ FreeIn(N, S, loc) = {freeBlock}
        /\ \A e \in Entries : Blocked(memory, e, size, loc)
        /\ \A n \in N : (\A e \in Entries : NameOf(e) # n) =>
              memory[loc[n]] = Header(n, size[loc[n]], hash[n])
        /\ Hashed({}, hash)
    BY <1>5 DEF Exchanging
  <1>7. /\ Given \in [N -> N]
        /\ \A e \in Entries : Given[NameOf(e)] = PartnerOf(e)
        /\ \A n \in N : (\A e \in Entries : NameOf(e) # n) => Given[n] = n
    BY <1>2, GivenIs
  <1>8. /\ \A e \in Entries : NameOf(e) \in N /\ PartnerOf(e) \in N
        /\ \A e, f \in Entries : NameOf(e) = NameOf(f) => e = f
    BY <1>2, EntriesAre
  <1>9. \A e \in Entries : \E f \in Entries :
           NameOf(f) = PartnerOf(e) /\ PartnerOf(f) = NameOf(e)
    BY <1>1, <1>2, Mutual
  <1>10. /\ Entry = Entries
         /\ \A e \in Entries : /\ Member(e) = to[NameOf(e)]
                               /\ Partner(e) = to[PartnerOf(e)]
    BY <1>2, <1>5, EntryIs
  <1>11. \A n \in N : to[n] = loc[Given[n]]
    BY <1>4 DEF Redirected
  <1>12. /\ \A n \in N : loc[n] \in S
         /\ \A n, k \in N : loc[n] = loc[k] => n = k
         /\ \A a \in S : a \in Nat /\ a < freeBlock + 1
         /\ \A n \in N : size[loc[n]] = 2 =>
               /\ loc[n] + 1 \in Nat /\ loc[n] + 1 < freeBlock + 1
               /\ loc[n] + 1 \notin S
    BY <1>6, PlacedAre, NotFields
  <1>13. ASSUME NEW e \in Entries
         PROVE  /\ Member(e) = loc[PartnerOf(e)]
                /\ RestoredHeader(e) = Header(PartnerOf(e),
                                          size[loc[PartnerOf(e)]], NameOf(e))
    <2>1. PICK f \in Entries :
             NameOf(f) = PartnerOf(e) /\ PartnerOf(f) = NameOf(e)
      BY <1>9
    <2>2. Member(e) = loc[NameOf(f)] /\ Partner(e) = loc[NameOf(e)]
      BY <1>7, <1>8, <1>10, <1>11, <2>1
    <2>3. ASSUME NEW g \in Entries
          PROVE  RealHeader(memory, loc[NameOf(g)])
                    = Header(NameOf(g), size[loc[NameOf(g)]], NameOf(g))
      <3>1. /\ memory[loc[NameOf(g)]] = Forwarded(Block(g))
            /\ memory[Block(g) + 1] = Own(NameOf(g), size, loc)
        BY <1>6 DEF Blocked
      <3>2. memory[loc[NameOf(g)]].type = "forwarded"
            /\ memory[loc[NameOf(g)]].block = Block(g)
        BY <3>1, Words
      <3>3. QED
        BY <3>1, <3>2 DEF RealHeader, IsForwarded, Own
    <2>4. PICK h : h = RealHeader(memory, loc[NameOf(f)])
      OBVIOUS
    <2>5. h = Header(NameOf(f), size[loc[NameOf(f)]], NameOf(f))
      BY <2>3, <2>4
    <2>6. RealHeader(memory, loc[NameOf(e)]).hash = NameOf(e)
      BY <2>3, Words
    <2>7. RestoredHeader(e) = [h EXCEPT !.hash = NameOf(e)]
      BY <2>2, <2>4, <2>6 DEF RestoredHeader
    <2>8. [h EXCEPT !.hash = NameOf(e)]
             = Header(NameOf(f), size[loc[NameOf(f)]], NameOf(e))
      BY <2>5, HeaderSet
    <2>9. QED
      BY <2>1, <2>2, <2>7, <2>8
  <1>14. PICK words :
            words = {<<Member(e), RestoredHeader(e)>> : e \in Entries}
    OBVIOUS
  <1>15. PICK m : m = Written(memory, words)
    OBVIOUS
  <1>16. \A v, w \in words : v[1] = w[1] => v = w
    <2> SUFFICES ASSUME NEW e \in Entries, NEW f \in Entries,
                        Member(e) = Member(f)
                 PROVE  e = f
      BY <1>14
    <2>1. PartnerOf(e) = PartnerOf(f)
      BY <1>8, <1>12, <1>13
    <2>2. PICK g \in Entries :
             NameOf(g) = PartnerOf(e) /\ PartnerOf(g) = NameOf(e)
      BY <1>9
    <2>3. PICK k \in Entries :
             NameOf(k) = PartnerOf(f) /\ PartnerOf(k) = NameOf(f)
      BY <1>9
    <2>4. g = k
      BY <1>8, <2>1, <2>2, <2>3
    <2>5. QED
      BY <1>8, <2>2, <2>3, <2>4
  <1>17. /\ DOMAIN m = DOMAIN memory
         /\ \A w \in words : w[1] \in DOMAIN memory => m[w[1]] = w[2]
         /\ \A x \in DOMAIN memory :
               (\A w \in words : w[1] # x) => m[x] = memory[x]
    BY <1>15, <1>16, WrittenIs
  <1>18. /\ DOMAIN memory = 0..memoryLimit /\ memoryLimit \in Nat
         /\ freeBlock \in Nat /\ freeBlock < memoryLimit
         /\ t \in N
    BY DEF Setting
  <1>19. \A a \in S : a \in DOMAIN memory
    BY <1>12, <1>18
  <1>20. \A w \in words : \E e \in Entries : w[1] = loc[PartnerOf(e)]
    BY <1>13, <1>14
  <1>21. \A n \in N : m[loc[n]] = Header(n, size[loc[n]], Given[n])
    <2> SUFFICES ASSUME NEW n \in N
                 PROVE  m[loc[n]] = Header(n, size[loc[n]], Given[n])
      OBVIOUS
    <2>1. CASE \E e \in Entries : NameOf(e) = n
      <3>1. PICK f \in Entries : NameOf(f) = n
        BY <2>1
      <3>2. PICK e \in Entries :
               NameOf(e) = PartnerOf(f) /\ PartnerOf(e) = NameOf(f)
        BY <1>9
      <3>3. Given[n] = NameOf(e) /\ PartnerOf(e) = n
        BY <1>7, <3>1, <3>2
      <3>4. PICK w \in words : /\ w[1] = loc[n]
                               /\ w[2] = Header(n, size[loc[n]], Given[n])
        <4>1. PICK w : w = <<Member(e), RestoredHeader(e)>>
          OBVIOUS
        <4>2. w \in words /\ w[1] = Member(e) /\ w[2] = RestoredHeader(e)
          BY <1>14, <4>1
        <4>3. QED
          BY <1>13, <3>3, <4>2
      <3>5. loc[n] \in DOMAIN memory
        BY <1>12, <1>19
      <3>6. QED
        BY <1>17, <3>4, <3>5
    <2>2. CASE \A e \in Entries : NameOf(e) # n
      <3>1. \A e \in Entries : PartnerOf(e) # n
        BY <1>9, <2>2
      <3>2. \A w \in words : w[1] # loc[n]
        BY <1>8, <1>12, <1>20, <3>1
      <3>3. m[loc[n]] = memory[loc[n]]
        BY <1>12, <1>17, <1>19, <3>2
      <3>4. hash[n] = n
        BY <1>6 DEF Hashed
      <3>5. QED
        BY <1>6, <1>7, <2>2, <3>3, <3>4
    <2>3. QED
      BY <2>1, <2>2
  <1>22. FieldsAre(m, N, size, loc, loc[Given[t]])
    <2> SUFFICES ASSUME NEW n \in N, size[loc[n]] = 2
                 PROVE  m[loc[n] + 1] = Oop(loc[Given[t]])
      BY DEF FieldsAre
    <2>1. PICK x : x = loc[n] + 1
      OBVIOUS
    <2>2. x \in Nat /\ x < freeBlock + 1 /\ x \notin S
      BY <1>12, <2>1
    <2>3. x \in DOMAIN memory
      BY <1>18, <2>2
    <2>4. \A w \in words : w[1] # x
      BY <1>8, <1>12, <1>20, <2>2
    <2>5. m[x] = memory[x]
      BY <1>17, <2>3, <2>4
    <2>6. memory[x] = Oop(to[t])
      BY <1>5, <2>1 DEF FieldsAre
    <2>7. QED
      BY <1>11, <1>18, <2>1, <2>5, <2>6
  <1>23. HeadersBack(m, S, size, loc, Given, Given)
    <2>1. interpreterOops = [i \in 1..Cardinality(N) |->
                                loc[Given[SetToSeq(N)[i]]]]
      <3>1. IsFiniteSet(N)
        BY DEF Setting
      <3>2. SetToSeq(N) \in [1..Cardinality(N) -> N]
        BY <3>1, SetToSeqIs
      <3>3. \A i \in 1..Cardinality(N) :
               to[SetToSeq(N)[i]] = loc[Given[SetToSeq(N)[i]]]
        BY <1>11, <3>2
      <3>4. QED
        BY <1>5, <3>3 DEF RootsAre
    <2>2. methodCache \in {Null, loc[Given[t]]}
      BY <1>5, <1>11, <1>18 DEF RootsAre
    <2>3. QED
      BY <1>6, <1>7, <1>17, <1>18, <1>21, <1>22, <2>1, <2>2 DEF HeadersBack
  <1>24. Hashed(Entries, Given)
    <2>1. operation # "becomeForwardKeepHash"
      BY <1>1 DEF OneWay
    <2>2. ASSUME NEW n \in N, \A e \in Entries : PartnerOf(e) # n
          PROVE  Given[n] = n
      BY <1>7, <1>9, <2>2
    <2>3. ASSUME NEW e \in Entries
          PROVE  Given[PartnerOf(e)] = NameOf(e)
      BY <1>7, <1>9
    <2>4. QED
      BY <2>1, <2>2, <2>3 DEF Hashed
  <1>25. initializeMemoryFirstFree(m, freeBlock, totalObjectCount)
    BY <1>1, <1>10, <1>14, <1>15
  <1>26. QED
    BY <1>1, <1>23, <1>24, <1>25, RestoredAll

\* A block gives its object the header back, and the hash to the partner.
LEMMA RestoreBlockSafe ==
    ASSUME Setting, operation \notin Collections, BecomeInv, RestoreBlock
    PROVE  Setting' /\ BecomeInv'
  <1> DEFINE N == before.live
             t == before.target
             keep == operation = "becomeForwardKeepHash"
  <1>1. /\ pc = "restore" /\ OneWay /\ pc' = "restore"
        /\ oop <= fwdTableNext
        /\ memory' = BlockRestored(memory, oop)
        /\ oop' = oop + BlockSize /\ BlockSize = 4
        /\ UNCHANGED <<fixedVars, freeBlock, endOfMemory, pointerVars,
                       tableVars, compVars, youngStart, totalObjectCount>>
    BY DEF RestoreBlock, BlockSize
  <1>2. PairsAreGiven /\ BytesPerWord = 4 /\ youngStart = 2 /\ rootTable = {0}
    BY <1>1 DEF BecomeInv
  <1>3. PICK S, size, loc, hash : Restoring(S, size, loc, hash)
    BY <1>1 DEF BecomeInv
  <1>4. PICK R : R = Restored
    OBVIOUS
  <1>5. PICK to : to = Redirected(loc)
    OBVIOUS
  <1>6. /\ Exchanging(memory, S, size, loc, R, hash)
        /\ endOfMemory = freeBlock + 1
        /\ FieldsAre(memory, N, size, loc, to[t]) /\ RootsAre(to)
        /\ AtBlock
    BY <1>1, <1>3, <1>4, <1>5 DEF Restoring
  <1>7. /\ Placed(N, S, size, loc, freeBlock + 1)
        /\ FreeIn(N, S, loc) = {freeBlock}
        /\ memory[freeBlock] = FreeChunk(1) /\ TableFits
        /\ R \subseteq Entries /\ Hashed(R, hash)
        /\ \A e \in Entries \ R : Blocked(memory, e, size, loc)
        /\ \A n \in N : (\A e \in Entries \ R : NameOf(e) # n) =>
              memory[loc[n]] = Header(n, size[loc[n]], hash[n])
    BY <1>6 DEF Exchanging
  <1>8. /\ \A e \in Entries : NameOf(e) \in N /\ PartnerOf(e) \in N
        /\ \A e, f \in Entries : NameOf(e) = NameOf(f) => e = f
        /\ \A e, f \in Entries : NameOf(e) # PartnerOf(f)
    BY <1>1, <1>2, EntriesAre
  <1>9. /\ Ranks \in Nat /\ 1 <= Ranks
        /\ \A e \in Entries : Rank(e) \in Nat /\ 1 <= Rank(e)
                              /\ Rank(e) <= Ranks
        /\ \A e, f \in Entries : Rank(e) = Rank(f) => e = f
        /\ \A k \in Nat : 1 <= k /\ k <= Ranks =>
              \E e \in Entries : Rank(e) = k
    BY <1>1, <1>2, RanksAre
  <1>10. PICK T : T = TableStart(freeBlock + 1)
    OBVIOUS
  <1>11. /\ T \in Nat /\ freeBlock \in Nat /\ memoryLimit \in Nat
         /\ freeBlock < memoryLimit
         /\ DOMAIN memory = 0..memoryLimit /\ t \in N
    <2>1. freeBlock + 1 \in Nat /\ BytesPerWord \in {4, 8}
      BY DEF Setting
    <2>2. T \in Nat
      BY <1>10, <2>1, TableStartIs
    <2>3. QED
      BY <2>2 DEF Setting
  <1>12. PICK k \in Nat : oop = T + 4 * k /\ 1 <= k /\ k <= Ranks + 1
    BY <1>6, <1>10 DEF AtBlock
  <1>13. k <= Ranks
    <2>1. fwdTableNext = T + 4 * Ranks
      BY <1>6, <1>10 DEF AtBlock
    <2>2. QED
      BY <1>1, <1>9, <1>11, <1>12, <2>1
  <1>14. \A e \in Entries : Block(e) = T + 4 * Rank(e)
    BY <1>1, <1>10 DEF Block
  <1>15. PICK e \in Entries : Rank(e) = k
    BY <1>9, <1>12, <1>13
  <1>16. Block(e) = oop
    BY <1>12, <1>14, <1>15
  <1>17. \A f \in Entries : f \in R <=> Rank(f) < k
    <2> SUFFICES ASSUME NEW f \in Entries PROVE f \in R <=> Rank(f) < k
      OBVIOUS
    <2>1. f \in R <=> Block(f) < oop
      BY <1>1, <1>4 DEF Restored
    <2>2. Rank(f) \in Nat /\ Block(f) = T + 4 * Rank(f)
      BY <1>9, <1>14
    <2>3. QED
      BY <1>11, <1>12, <2>1, <2>2
  <1>18. e \notin R /\ k < k + 1
    BY <1>15, <1>17
  <1>19. PICK a, b : a = loc[NameOf(e)] /\ b = loc[PartnerOf(e)]
    OBVIOUS
  <1>20. /\ \A n \in N : loc[n] \in S
         /\ \A n, j \in N : loc[n] = loc[j] => n = j
         /\ \A x \in S : x \in Nat /\ x < freeBlock + 1
         /\ \A n \in N : size[loc[n]] = 2 =>
               /\ loc[n] + 1 \in Nat /\ loc[n] + 1 < freeBlock + 1
               /\ loc[n] + 1 \notin S
         /\ freeBlock \in S /\ \A n \in N : loc[n] # freeBlock
    BY <1>7, PlacedAre, NotFields DEF FreeIn
  <1>21. /\ a \in S /\ b \in S /\ a # b
         /\ a \in DOMAIN memory /\ b \in DOMAIN memory
         /\ a # Null /\ b # Null
    <2>1. a \in S /\ b \in S /\ a # b
      BY <1>8, <1>19, <1>20
    <2>2. a \in Nat /\ b \in Nat /\ a < freeBlock + 1 /\ b < freeBlock + 1
      BY <1>20, <2>1
    <2>3. QED
      BY <1>11, <2>1, <2>2, MemoryAssumption
  <1>22. /\ memory[a] = Forwarded(oop) /\ memory[oop] = Oop(b)
         /\ memory[oop + 1] = Own(NameOf(e), size, loc)
         /\ memory[oop + 2] = Oop(a)
    <2>1. Blocked(memory, e, size, loc)
      BY <1>7, <1>18
    <2>2. QED
      BY <1>1, <1>16, <1>19, <2>1 DEF Blocked
  <1>23. PICK own : own = Header(NameOf(e), size[a], NameOf(e))
    OBVIOUS
  <1>24. /\ Target(memory[oop + 2]) = a /\ Target(memory[oop]) = b
         /\ RealHeader(memory, a) = own
    <2>1. memory[a].type = "forwarded" /\ memory[a].block = oop
      BY <1>22, Words
    <2>2. RealHeader(memory, a) = memory[oop + 1]
      BY <2>1 DEF RealHeader, IsForwarded
    <2>3. Target(memory[oop + 2]) = a /\ Target(memory[oop]) = b
      BY <1>22, Words DEF Target
    <2>4. QED
      BY <1>19, <1>22, <1>23, <2>2, <2>3 DEF Own
  <1>25. PICK restored : restored = [memory EXCEPT ![a] = own]
    OBVIOUS
  <1>26. own.hash = NameOf(e)
    BY <1>23, Words
  <1>27. memory' = IF keep THEN restored
                   ELSE [restored EXCEPT ![b].hash = NameOf(e)]
    BY <1>1, <1>21, <1>24, <1>25, <1>26 DEF BlockRestored
  <1>28. /\ DOMAIN restored = DOMAIN memory /\ restored[a] = own
         /\ \A x \in DOMAIN memory : x # a => restored[x] = memory[x]
    BY <1>21, <1>25
  <1>29. memory[b] = Header(PartnerOf(e), size[b], hash[PartnerOf(e)])
    BY <1>7, <1>8, <1>19
  <1>30. PICK m : m = memory'
    OBVIOUS
  <1>31. PICK hash2 : hash2 =
            [n \in N |-> IF keep \/ n # PartnerOf(e) THEN hash[n]
                                                     ELSE NameOf(e)]
    OBVIOUS
  <1>32. \A n \in N : /\ keep \/ n # PartnerOf(e) => hash2[n] = hash[n]
                      /\ ~keep => hash2[PartnerOf(e)] = NameOf(e)
    BY <1>8, <1>31
  <1>33. /\ DOMAIN m = DOMAIN memory
         /\ m[a] = own
         /\ m[b] = Header(PartnerOf(e), size[b], hash2[PartnerOf(e)])
         /\ \A x \in DOMAIN memory : x # a /\ x # b => m[x] = memory[x]
    <2>1. CASE keep
      BY <1>8, <1>21, <1>27, <1>28, <1>29, <1>30, <1>32, <2>1
    <2>2. CASE ~keep
      <3>1. restored[b] = Header(PartnerOf(e), size[b], hash[PartnerOf(e)])
        BY <1>21, <1>28, <1>29
      <3>2. PICK w : w = [restored[b] EXCEPT !.hash = NameOf(e)]
        OBVIOUS
      <3>3. w = Header(PartnerOf(e), size[b], NameOf(e))
        BY <3>1, <3>2, HeaderSet
      <3>4. m = [restored EXCEPT ![b] = w]
        BY <1>27, <1>30, <2>2, <3>2
      <3>5. m[b] = w
        BY <1>21, <1>28, <3>4
      <3>6. /\ DOMAIN m = DOMAIN memory
            /\ \A x \in DOMAIN memory : x # b => m[x] = restored[x]
        BY <1>28, <3>4
      <3>7. QED
        BY <1>8, <1>21, <1>28, <1>32, <2>2, <3>3, <3>5, <3>6
    <2>3. QED
      BY <2>1, <2>2
  <1> HIDE DEF keep
  <1>34. PICK R2 : R2 = R \cup {e}
    OBVIOUS
  <1>35. \A f \in Entries \ R2 : Blocked(m, f, size, loc)
    <2> SUFFICES ASSUME NEW f \in Entries, f \notin R, f # e
                 PROVE  Blocked(m, f, size, loc)
      BY <1>34
    <2>1. Blocked(memory, f, size, loc)
      BY <1>7
    <2>2. PICK c : c = Block(f)
      OBVIOUS
    <2>3. c \in Nat /\ freeBlock + 1 < c /\ c + 2 <= memoryLimit
      BY <1>2, <1>7, <2>2, BlocksApart
    <2>4. a \in Nat /\ b \in Nat /\ a < freeBlock + 1 /\ b < freeBlock + 1
      BY <1>20, <1>21
    <2>5. /\ c \in DOMAIN memory /\ c # a /\ c # b
          /\ c + 1 \in DOMAIN memory /\ c + 1 # a /\ c + 1 # b
          /\ c + 2 \in DOMAIN memory /\ c + 2 # a /\ c + 2 # b
      BY <1>11, <2>3, <2>4
    <2>6. m[c] = memory[c] /\ m[c + 1] = memory[c + 1]
          /\ m[c + 2] = memory[c + 2]
      BY <1>33, <2>5
    <2>7. loc[NameOf(f)] # a /\ loc[NameOf(f)] # b
          /\ loc[NameOf(f)] \in DOMAIN memory
      <3>1. NameOf(f) # NameOf(e) /\ NameOf(f) # PartnerOf(e)
            /\ NameOf(f) \in N /\ NameOf(e) \in N /\ PartnerOf(e) \in N
        BY <1>8
      <3>2. loc[NameOf(f)] \in Nat /\ loc[NameOf(f)] < freeBlock + 1
        BY <1>20, <3>1
      <3>3. QED
        BY <1>11, <1>19, <1>20, <3>1, <3>2
    <2>8. m[loc[NameOf(f)]] = memory[loc[NameOf(f)]]
      BY <1>33, <2>7
    <2>9. QED
      BY <2>1, <2>2, <2>6, <2>8 DEF Blocked
  <1>36. ASSUME NEW n \in N, \A f \in Entries \ R2 : NameOf(f) # n
         PROVE  m[loc[n]] = Header(n, size[loc[n]], hash2[n])
    <2>1. CASE n = NameOf(e)
      <3>1. \A f \in Entries : PartnerOf(f) # n
        BY <1>8, <2>1
      <3>2. hash[n] = n
        BY <1>7, <3>1 DEF Hashed
      <3>3. hash2[n] = n
        BY <1>32, <3>1, <3>2
      <3>4. QED
        BY <1>19, <1>23, <1>33, <2>1, <3>3
    <2>2. CASE n = PartnerOf(e)
      BY <1>19, <1>33, <2>2
    <2>3. CASE n # NameOf(e) /\ n # PartnerOf(e)
      <3>1. loc[n] # a /\ loc[n] # b
        BY <1>8, <1>19, <1>20, <2>3
      <3>2. loc[n] \in Nat /\ loc[n] < freeBlock + 1
        BY <1>20
      <3>3. loc[n] \in DOMAIN memory
        BY <1>11, <3>2
      <3>4. m[loc[n]] = memory[loc[n]]
        BY <1>33, <3>1, <3>3
      <3>5. \A f \in Entries \ R : NameOf(f) # n
        BY <1>34, <1>36, <2>3
      <3>6. QED
        BY <1>7, <1>32, <2>3, <3>4, <3>5
    <2>4. QED
      BY <2>1, <2>2, <2>3
  <1>37. Hashed(R2, hash2)
    <2> SUFFICES ASSUME NEW n \in N
                 PROVE  IF \/ keep \/ \A f \in R2 : PartnerOf(f) # n
                        THEN hash2[n] = n
                        ELSE \E f \in R2 : PartnerOf(f) = n
                                           /\ hash2[n] = NameOf(f)
      BY DEF Hashed, keep
    <2>1. IF \/ keep \/ \A f \in R : PartnerOf(f) # n
          THEN hash[n] = n
          ELSE \E f \in R : PartnerOf(f) = n /\ hash[n] = NameOf(f)
      BY <1>7 DEF Hashed, keep
    <2>2. CASE keep
      BY <1>32, <2>1, <2>2
    <2>3. CASE ~keep /\ n = PartnerOf(e)
      BY <1>32, <1>34, <2>3
    <2>4. CASE ~keep /\ n # PartnerOf(e)
      BY <1>32, <1>34, <2>1, <2>4
    <2>5. QED
      BY <2>2, <2>3, <2>4
  <1>38. m[freeBlock] = FreeChunk(1)
    <2>1. freeBlock # a /\ freeBlock # b
      BY <1>8, <1>19, <1>20
    <2>2. freeBlock \in DOMAIN memory
      BY <1>11
    <2>3. QED
      BY <1>7, <1>33, <2>1, <2>2
  <1>39. Exchanging(m, S, size, loc, R2, hash2)
    BY <1>7, <1>34, <1>35, <1>36, <1>37, <1>38 DEF Exchanging
  <1>40. FieldsAre(m, N, size, loc, to[t])
    <2> SUFFICES ASSUME NEW n \in N, size[loc[n]] = 2
                 PROVE  m[loc[n] + 1] = Oop(to[t])
      BY DEF FieldsAre
    <2>1. PICK x : x = loc[n] + 1
      OBVIOUS
    <2>2. x \in Nat /\ x < freeBlock + 1 /\ x \notin S
      BY <1>20, <2>1
    <2>3. x \in DOMAIN memory /\ x # a /\ x # b
      BY <1>11, <1>21, <2>2
    <2>4. m[x] = memory[x]
      BY <1>33, <2>3
    <2>5. QED
      BY <1>6, <2>1, <2>4 DEF FieldsAre
  <1>41. /\ OneWay' <=> OneWay
         /\ Entries' = Entries /\ Ranks' = Ranks
         /\ Redirected(loc)' = to /\ PairsAreGiven'
         /\ \A f : Block(f)' = Block(f)
         /\ TableStart(freeBlock + 1)' = T
         /\ Exchanging(m, S, size, loc, R2, hash2)'
    BY <1>1, <1>2, <1>5, <1>10, <1>39, SameEntries
  <1>42. oop' = T + 4 * (k + 1)
    BY <1>1, <1>11, <1>12
  <1>43. Restored' = R2
    <2>1. Restored' = {f \in Entries : Block(f) < oop'}
      BY <1>1, <1>41 DEF Restored
    <2>2. ASSUME NEW f \in Entries PROVE Block(f) < oop' <=> f \in R2
      <3>1. Rank(f) \in Nat /\ Block(f) = T + 4 * Rank(f)
        BY <1>9, <1>14
      <3>2. Block(f) < oop' <=> Rank(f) < k \/ Rank(f) = k
        BY <1>11, <1>42, <3>1
      <3>3. Rank(f) = k <=> f = e
        BY <1>9, <1>15
      <3>4. QED
        BY <1>17, <1>34, <3>2, <3>3
    <2>3. R2 \subseteq Entries
      BY <1>7, <1>34
    <2>4. QED
      BY <2>1, <2>2, <2>3
  <1>44. AtBlock'
    <2>1. fwdTableNext' = T + 4 * Ranks'
      BY <1>1, <1>6, <1>10, <1>41 DEF AtBlock, tableVars
    <2>2. k + 1 \in Nat /\ 1 <= k + 1 /\ k + 1 <= Ranks' + 1
      BY <1>9, <1>12, <1>13, <1>41
    <2>3. QED
      BY <1>41, <1>42, <2>1, <2>2 DEF AtBlock
  <1>45. /\ before' = before /\ operation' = operation
         /\ BytesPerWord' = BytesPerWord /\ memoryLimit' = memoryLimit
         /\ interpreterOops' = interpreterOops /\ methodCache' = methodCache
         /\ rootTable' = rootTable
    BY <1>1 DEF fixedVars, pointerVars
  <1>46. RootsAre(to)'
    BY <1>6, <1>45 DEF RootsAre
  <1>47. Restoring(S, size, loc, hash2)'
    BY <1>1, <1>6, <1>30, <1>40, <1>41, <1>43, <1>44, <1>45, <1>46
    DEF Restoring
  <1>48. Setting'
    BY <1>1, <1>30, <1>33, <1>45 DEF Setting
  <1>49. QED
    BY <1>1, <1>2, <1>41, <1>45, <1>47, <1>48 DEF BecomeInv, Ended

\* Past the last block all headers are back.
LEMMA RestoreEndSafe ==
    ASSUME Setting, operation \notin Collections, BecomeInv,
           restoreHeadersAfterForwardBecome
    PROVE  Setting' /\ BecomeInv'
  <1> DEFINE N == before.live
             t == before.target
  <1>1. /\ pc = "restore" /\ OneWay /\ pc' = "done"
        /\ oop > fwdTableNext
        /\ initializeMemoryFirstFree(memory, freeBlock, totalObjectCount)
        /\ UNCHANGED <<fixedVars, pointerVars, youngStart, totalObjectCount>>
    BY DEF restoreHeadersAfterForwardBecome
  <1>2. PairsAreGiven
    BY DEF BecomeInv
  <1>3. PICK S, size, loc, hash : Restoring(S, size, loc, hash)
    BY <1>1 DEF BecomeInv
  <1>4. PICK to : to = Redirected(loc)
    OBVIOUS
  <1>5. /\ Exchanging(memory, S, size, loc, Restored, hash)
        /\ FieldsAre(memory, N, size, loc, to[t]) /\ RootsAre(to)
        /\ AtBlock
    BY <1>1, <1>3, <1>4 DEF Restoring
  <1>6. PICK T : T = TableStart(freeBlock + 1)
    OBVIOUS
  <1>7. T \in Nat
    <2>1. freeBlock + 1 \in Nat /\ BytesPerWord \in {4, 8}
      BY DEF Setting
    <2>2. QED
      BY <1>6, <2>1, TableStartIs
  <1>8. Restored = Entries
    <2>1. PICK k \in Nat : oop = T + 4 * k
      BY <1>5, <1>6 DEF AtBlock
    <2>2. fwdTableNext = T + 4 * Ranks
      BY <1>5, <1>6 DEF AtBlock
    <2>3. ASSUME NEW e \in Entries PROVE Block(e) < oop
      <3>1. Rank(e) \in Nat /\ Rank(e) <= Ranks /\ Ranks \in Nat
        BY <1>2, RanksAre
      <3>2. Block(e) = T + 4 * Rank(e)
        BY <1>1, <1>6 DEF Block, BlockSize
      <3>3. QED
        BY <1>1, <1>7, <2>1, <2>2, <3>1, <3>2
    <2>4. QED
      BY <1>1, <2>3 DEF Restored
  <1>9. /\ Placed(N, S, size, loc, freeBlock + 1)
        /\ FreeIn(N, S, loc) = {freeBlock}
        /\ Hashed(Entries, hash)
        /\ \A n \in N : memory[loc[n]] = Header(n, size[loc[n]], hash[n])
    BY <1>5, <1>8 DEF Exchanging
  <1>10. Given \in [N -> N]
    BY <1>2, GivenIs
  <1>11. \A n \in N : to[n] = loc[Given[n]]
    BY <1>4 DEF Redirected
  <1>12. IsFiniteSet(N) /\ t \in N /\ DOMAIN memory = 0..memoryLimit
    BY DEF Setting
  <1>13. interpreterOops = [i \in 1..Cardinality(N) |->
                               loc[Given[SetToSeq(N)[i]]]]
    <2>1. SetToSeq(N) \in [1..Cardinality(N) -> N]
      BY <1>12, SetToSeqIs
    <2>2. \A i \in 1..Cardinality(N) :
             to[SetToSeq(N)[i]] = loc[Given[SetToSeq(N)[i]]]
      BY <1>11, <2>1
    <2>3. QED
      BY <1>5, <2>2 DEF RootsAre
  <1>14. methodCache \in {Null, loc[Given[t]]}
    BY <1>5, <1>11, <1>12 DEF RootsAre
  <1>15. FieldsAre(memory, N, size, loc, loc[Given[t]])
    BY <1>5, <1>11, <1>12
  <1>16. HeadersBack(memory, S, size, loc, Given, hash)
    BY <1>9, <1>10, <1>12, <1>13, <1>14, <1>15 DEF HeadersBack
  <1>17. QED
    BY <1>1, <1>9, <1>16, RestoredAll
-----------------------------------------------------------------------------
(* The theorems.                                                           *)

\* No action changes which operation it is.
LEMMA OperationStays ==
    ASSUME [Next]_vars
    PROVE  operation' = operation
  BY DEF Next, vars, fixedVars, markPhase, SweepChunk, SweepEnd, incCompBody,
     incCompMakeFwd, MapCompaction, MoveChunk, MoveEnd,
     prepareForwardingTableForBecoming, MapExchange,
     restoreHeadersAfterBecoming, RestoreBlock,
     restoreHeadersAfterForwardBecome

\* Every step of become: keeps its invariant.
LEMMA BecomeStep ==
    ASSUME Setting, operation \notin Collections, BecomeInv, [Next]_vars
    PROVE  Setting' /\ BecomeInv'
  <1>1. pc \in {"prepare", "exchange", "restore", "done", "failed"}
    BY DEF BecomeInv
  <1>2. CASE prepareForwardingTableForBecoming
    BY <1>2, PrepareSafe
  <1>3. CASE MapExchange
    BY <1>3, MapExchangeSafe
  <1>4. CASE restoreHeadersAfterBecoming
    BY <1>4, RestoreTwoWaySafe
  <1>5. CASE RestoreBlock
    BY <1>5, RestoreBlockSafe
  <1>6. CASE restoreHeadersAfterForwardBecome
    BY <1>6, RestoreEndSafe
  <1>7. CASE \/ markPhase \/ SweepChunk \/ SweepEnd \/ incCompBody
             \/ incCompMakeFwd \/ MapCompaction \/ MoveChunk \/ MoveEnd
    BY <1>1, <1>7 DEF markPhase, SweepChunk, SweepEnd, incCompBody,
       incCompMakeFwd, MapCompaction, MoveChunk, MoveEnd
  <1>8. CASE UNCHANGED vars
    <2>1. Setting'
      BY <1>8 DEF vars, Setting
    <2>2. UNCHANGED fixedVars /\ freeBlock' = freeBlock
      BY <1>8 DEF vars, fixedVars
    <2>3. PICK m : m = memory
      OBVIOUS
    <2>4. memory' = m
      BY <1>8, <2>3 DEF vars
    <2>5. /\ OneWay' <=> OneWay
          /\ Entries' = Entries /\ Ranks' = Ranks
          /\ \A loc : Redirected(loc)' = Redirected(loc)
          /\ \A e : Block(e)' = Block(e)
          /\ TableStart(freeBlock + 1)' = TableStart(freeBlock + 1)
          /\ \A S, size, loc, R, hash :
                Exchanging(m, S, size, loc, R, hash)'
                   <=> Exchanging(m, S, size, loc, R, hash)
          /\ PairsAreGiven'
      BY <2>2, SameEntries DEF BecomeInv
    <2>6. \A loc : /\ RootsAre(loc)' <=> RootsAre(loc)
                   /\ ArraysAre(loc)' <=> ArraysAre(loc)
      BY <1>8 DEF vars, RootsAre, ArraysAre
    <2>7. \A S, size, loc : Found(S, size, loc)' <=> Found(S, size, loc)
      BY <1>8, <2>6 DEF vars, Found
    <2>8. \A S, size, loc : Prepared(S, size, loc)' <=> Prepared(S, size, loc)
      BY <1>8, <2>6, <2>7 DEF vars, Prepared
    <2>9. \A S, size, loc, hash :
             InExchange(S, size, loc, hash) => InExchange(S, size, loc, hash)'
      BY <1>8, <2>3, <2>4, <2>5, <2>6 DEF vars, InExchange
    <2>10. Restored' = Restored
      BY <1>8, <2>5 DEF vars, Restored
    <2>11. AtBlock' <=> AtBlock
      BY <1>8, <2>5 DEF vars, AtBlock
    <2>12. ASSUME NEW S, NEW size, NEW loc, NEW hash,
                  Restoring(S, size, loc, hash)
           PROVE  Restoring(S, size, loc, hash)'
      <3>1. PICK to, R : to = Redirected(loc) /\ R = Restored
        OBVIOUS
      <3>2. Redirected(loc)' = to /\ Restored' = R
        BY <2>5, <2>10, <3>1
      <3>3. RootsAre(to)' /\ (~OneWay => ArraysAre(to)')
            /\ Exchanging(m, S, size, loc, R, hash)'
        BY <2>3, <2>5, <2>6, <2>12, <3>1 DEF Restoring
      <3>4. QED
        BY <1>8, <2>3, <2>4, <2>5, <2>11, <2>12, <3>1, <3>2, <3>3
        DEF vars, Restoring
    <2>13. Ended' <=> Ended
      BY <1>8 DEF vars, Ended
    <2>14. ASSUME NEW S, NEW size, NEW loc, NEW becomes, NEW hash,
                  Ends(S, size, loc, becomes, hash)
           PROVE  Ends(S, size, loc, becomes, hash)'
      <3>1. \A n : Replacing(n)' = Replacing(n)
        BY <1>8 DEF vars, Replacing, OneWay
      <3>2. \A n : Becomes(n)' = Becomes(n)
        <4> SUFFICES ASSUME NEW n PROVE Becomes(n)' = Becomes(n)
          OBVIOUS
        <4>1. PICK R : R = Replacing(n)
          OBVIOUS
        <4>2. Replacing(n)' = R /\ pc' = pc
          BY <1>8, <3>1, <4>1 DEF vars
        <4>3. Becomes(n) = IF pc = "failed" \/ R = {} THEN n
                           ELSE CHOOSE k \in R : TRUE
          BY <4>1 DEF Becomes
        <4>4. Becomes(n)' = IF pc = "failed" \/ R = {} THEN n
                            ELSE CHOOSE k \in R : TRUE
          BY <4>2 DEF Becomes
        <4>5. QED
          BY <4>3, <4>4
      <3>3. \A n : Hashes(n)' = Hashes(n)
        <4> SUFFICES ASSUME NEW n PROVE Hashes(n)' = Hashes(n)
          OBVIOUS
        <4>1. {k \in before'.live \ {n} : Becomes(k)' = n}
                 = {k \in before.live \ {n} : Becomes(k) = n}
          BY <1>8, <3>2 DEF vars
        <4>2. QED
          BY <1>8, <4>1 DEF vars, Hashes
      <3>4. QED
        BY <1>8, <2>14, <3>2, <3>3 DEF vars, Ends
    <2>15. pc' = pc /\ youngStart' = youngStart /\ rootTable' = rootTable
           /\ BytesPerWord' = BytesPerWord
      BY <1>8 DEF vars
    <2>16. QED
      BY <2>1, <2>5, <2>8, <2>9, <2>12, <2>13, <2>14, <2>15 DEF BecomeInv
  <1>9. QED
    BY <1>2, <1>3, <1>4, <1>5, <1>6, <1>7, <1>8 DEF Next

\* become: ends in a heap that is in order.
LEMMA BecomeDone ==
    ASSUME Setting, operation \notin Collections, BecomeInv
    PROVE  ReferencesRight /\ ObjectsKept /\ FreeBlockLast
  <1>1. pc # "forward"
    BY DEF BecomeInv
  <1>2. CASE ~Ended
    BY <1>1, <1>2 DEF ReferencesRight, ObjectsKept, FreeBlockLast
  <1>3. CASE Ended
    <2>1. PICK S, size, loc, becomes, hash :
             Ends(S, size, loc, becomes, hash)
      BY <1>3 DEF BecomeInv
    <2>2. /\ Walkable(memory, before.live, S, size, loc, endOfMemory)
          /\ ReferencesRight /\ ObjectsKept
      BY <2>1, EndsRight
    <2>3. /\ Placed(before.live, S, size, loc, endOfMemory)
          /\ freeBlock \in FreeIn(before.live, S, loc)
          /\ freeBlock + size[freeBlock] = endOfMemory
      BY <2>1 DEF Ends
    <2>4. freeBlock \in S /\ 0 \in S
      BY <2>3, PlacedAre
    <2>5. /\ Max(Chunks(memory, 0, endOfMemory)) = freeBlock
          /\ objectAfter(memory, freeBlock) = endOfMemory
      BY <2>2, <2>3, <2>4, LastChunk
    <2>6. {a \in Chunks(memory, 0, endOfMemory) : IsFree(memory, a)}
             = FreeIn(before.live, S, loc)
      BY <2>2, <2>4, HeapWalk
    <2>7. FreeBlockLast
      BY <2>3, <2>5, <2>6 DEF FreeBlockLast, Collections
    <2>8. QED
      BY <2>2, <2>7
  <1>4. QED
    BY <1>2, <1>3

\* The inductive invariant.
ForwardingInv ==
    /\ Setting
    /\ operation \in Collections => CollectionInv
    /\ operation \notin Collections => BecomeInv

\* It holds in the beginning.
LEMMA InitInv ==
    ASSUME OneWayWordSizes \subseteq {4}, Init
    PROVE  ForwardingInv
  <1>1. /\ Setting /\ PairsAreGiven
        /\ youngStart = 2 /\ rootTable = {0}
        /\ operation \in Collections \cup {"become"} \cup OneWays
        /\ operation \in OneWays => BytesPerWord \in OneWayWordSizes
        /\ pc = IF operation \in Collections THEN "mark" ELSE "prepare"
    BY InitFound
  <1>2. PICK S, size, loc :
           /\ Found(S, size, loc) /\ ArraysAre(loc)
           /\ operation \notin Collections =>
                 FreeIn(before.live, S, loc) = {freeBlock}
    BY InitFound
  <1>3. CASE operation \in Collections
    <2>1. before.pairs = <<>>
      BY <1>1, <1>3, PairsAre DEF PairsAreGiven
    <2>2. CollectionInv
      BY <1>1, <1>2, <1>3, <2>1 DEF CollectionInv, Boundary
    <2>3. QED
      BY <1>1, <1>3, <2>2 DEF ForwardingInv
  <1>4. CASE operation \notin Collections
    <2>1. OneWay => BytesPerWord = 4
      BY <1>1 DEF OneWay, OneWays
    <2>2. Prepared(S, size, loc)
      BY <1>2, <1>4 DEF Prepared
    <2>3. BecomeInv
      BY <1>1, <1>4, <2>1, <2>2 DEF BecomeInv, Ended
    <2>4. QED
      BY <1>1, <1>4, <2>3 DEF ForwardingInv
  <1>5. QED
    BY <1>3, <1>4

\* Every step keeps it.
LEMMA StepInv ==
    ASSUME ForwardingInv, [Next]_vars
    PROVE  ForwardingInv'
  <1>1. operation' = operation
    BY OperationStays
  <1>2. CASE operation \in Collections
    BY <1>1, <1>2, CollectionStep DEF ForwardingInv
  <1>3. CASE operation \notin Collections
    BY <1>1, <1>3, BecomeStep DEF ForwardingInv
  <1>4. QED
    BY <1>2, <1>3

\* And it implies what the runs check.
LEMMA InvImplies ==
    ASSUME ForwardingInv
    PROVE  ReferencesRight /\ ObjectsKept /\ FreeBlockLast
  <1>1. CASE operation \notin Collections
    BY <1>1, BecomeDone DEF ForwardingInv
  <1>2. CASE operation \in Collections /\ Ended
    BY <1>2, CollectionDone DEF ForwardingInv
  <1>3. CASE operation \in Collections /\ ~Ended
    BY <1>3, ForwardWalk DEF ForwardingInv
  <1>4. QED
    BY <1>1, <1>2, <1>3

\* If the one-way become: steps over its blocks as they are laid out, which
\* it does with words of four bytes, then at the end of a compaction or of
\* become: every reference names the object it named before or the one given
\* in exchange, whatever the size of memory and however many passes.
THEOREM ReferencesStayRight ==
    ASSUME OneWayWordSizes \subseteq {4}
    PROVE  Spec => []ReferencesRight
  <1>1. Init => ForwardingInv
    BY InitInv
  <1>2. ForwardingInv /\ [Next]_vars => ForwardingInv'
    BY StepInv
  <1>3. ForwardingInv => ReferencesRight
    BY InvImplies
  <1>4. QED
    BY <1>1, <1>2, <1>3, PTL DEF Spec

\* With the same assumption no object is lost, copied or put out of order by
\* a compaction or by become:, and each has its header back, with the hash
\* that goes with the references.
THEOREM ObjectsAreKept ==
    ASSUME OneWayWordSizes \subseteq {4}
    PROVE  Spec => []ObjectsKept
  <1>1. Init => ForwardingInv
    BY InitInv
  <1>2. ForwardingInv /\ [Next]_vars => ForwardingInv'
    BY StepInv
  <1>3. ForwardingInv => ObjectsKept
    BY InvImplies
  <1>4. QED
    BY <1>1, <1>2, <1>3, PTL DEF Spec

\* With the same assumption a walk through memory meets its end in every pass
\* and at the end, the free block is the last chunk, and a compaction leaves
\* no free chunk where it has been.
THEOREM FreeBlockIsLastAlways ==
    ASSUME OneWayWordSizes \subseteq {4}
    PROVE  Spec => []FreeBlockLast
  <1>1. Init => ForwardingInv
    BY InitInv
  <1>2. ForwardingInv /\ [Next]_vars => ForwardingInv'
    BY StepInv
  <1>3. ForwardingInv => FreeBlockLast
    BY InvImplies
  <1>4. QED
    BY <1>1, <1>2, <1>3, PTL DEF Spec
=============================================================================
