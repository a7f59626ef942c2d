--------------------------- MODULE Marking_proofs ---------------------------
(***************************************************************************)
(* markAndTrace puts back every word it reverses and marks what is         *)
(* reachable, for any memory: any objects, any graph, any entries.         *)
(***************************************************************************)
EXTENDS Marking, SequenceTheorems, TLAPS

-----------------------------------------------------------------------------
(* The inductive invariant.                                                *)

\* Where the loop stands in each of its actions.
Positions ==
    /\ action = StartField =>
          \E o \in Object : \E i \in 0 .. lastPointerOf[o] : field = <<o, i>>
    /\ action = StartObj => child \in Object /\ path # <<>>
    /\ action = Upward => \E o \in Object : field = header(o)
    /\ action # Done /\ path = <<>> => field[1] \in Entry
    /\ \A n \in 1 .. Len(toTrace) : toTrace[n] \in Entry

\* An object is entered once: the open objects differ from each other, all
\* but an old entry at the top are marked, and a marked one is not entered.
OpenOnce ==
    /\ \A m, n \in 1 .. Len(path) : path[m][1] = path[n][1] => m = n
    /\ action = StartField => \A n \in 1 .. Len(path) : path[n][1] # field[1]
    /\ \A o \in Open : o \in Young => o \in marked
    /\ \A n \in 2 .. Len(path) : path[n][1] \in Young
    /\ action = StartField /\ path # <<>> => field[1] \in Young
    /\ path # <<>> => path[1][1] \in Entry

\* The last field that is traced in an object met on the way.
LastStrong(o) == IF o \in Weak THEN FixedFields[graph[classWordOf(o)]]
                               ELSE lastPointerOf[o]

\* What is followed is to be followed.
FollowsStrong ==
    /\ \A n \in 1 .. Len(path) :
          path[n][1] \in Entry \/ path[n][2] <= LastStrong(path[n][1])
    /\ action = StartField =>
          field[1] \in Entry \/ field[2] <= LastStrong(field[1])

\* A set of young objects that tracing could stop at, if it keeps all that
\* those in Holders name.
Closed(Holders, S) ==
    /\ S \subseteq Young
    /\ Entry \cap Young \subseteq S
    /\ \A l \in Location :
          (l[1] \in Holders \/ (l[1] \in S /\ l[2] <= LastStrong(l[1])))
             => (graph[l] \in Young => graph[l] \in S)

\* Nothing is marked without need.
MarkedIsReachable == \A S \in SUBSET Young : Closed(Entry, S) => marked \subseteq S

\* The words the loop will still come to.
Pending(l) ==
    \/ action = StartField /\ field[1] = l[1] /\ l[2] <= field[2]
    \/ \E n \in 1 .. Len(path) :
          /\ path[n][1] = l[1]
          /\ \/ l[2] < path[n][2]
             \/ n = Len(path) /\ action = StartObj /\ l = path[n]

Begun(o) == o \in Entry /\ \A n \in 1 .. Len(toTrace) : toTrace[n] # o

\* What an old entry refers to, and a marked object strongly, is marked, or the loop will still come to
\* the reference.
TracedOrPending ==
    /\ \A o \in Young : Begun(o) => o \in marked
    /\ \A l \in Location :
          ((Begun(l[1]) /\ l[1] \notin Young)
              \/ (l[1] \in marked /\ l[2] <= LastStrong(l[1])))
             => (graph[l] \in Young => graph[l] \in marked \/ Pending(l))

Sound == /\ TypeOK /\ IsGraph(graph)
         /\ WayBackKept
         /\ Positions
         /\ OpenOnce
         /\ FollowsStrong
         /\ MarkedIsReachable
         /\ TracedOrPending
-----------------------------------------------------------------------------
(* Facts about locations and paths.                                        *)

\* A location is a field of an object or its class word.
LEMMA LocationShape ==
    ASSUME NEW l \in Location
    PROVE  /\ l[1] \in Object /\ l[2] \in Int
           /\ l = <<l[1], l[2]>>
           /\ l[2] # 0 /\ l[2] >= -1 /\ l[2] <= lastPointerOf[l[1]]
           /\ l[2] = ClassWord => l[1] \in HasClassWord
<1>1. CASE \E o \in Object : l \in Fields(o)
  <2>1. PICK o \in Object : \E i \in 1 .. lastPointerOf[o] : l = <<o, i>>
    BY <1>1 DEF Fields
  <2> QED BY <2>1, ObjectAssumption DEF ClassWord
<1>2. CASE \E o \in HasClassWord : l = classWordOf(o)
  <2>1. PICK o \in HasClassWord : l = <<o, -1>>
    BY <1>2 DEF classWordOf, ClassWord
  <2>2. l[1] = o /\ l[2] = -1 /\ l = <<l[1], l[2]>>
    BY <2>1
  <2>3. o \in Object /\ lastPointerOf[o] \in Nat
    BY ObjectAssumption DEF HasClassWord
  <2>4. l[2] \in Int /\ l[2] # 0 /\ l[2] >= -1 /\ l[2] <= lastPointerOf[o]
    BY <2>2, <2>3, SMT
  <2> QED BY <2>2, <2>3, <2>4, Zenon
<1> QED BY <1>1, <1>2 DEF Location

\* Every field and every class word is a location, no header is.
LEMMA LocationsAre ==
    /\ \A o \in Object : \A i \in 1 .. lastPointerOf[o] : <<o, i>> \in Location
    /\ \A o \in HasClassWord : classWordOf(o) \in Location /\ o \in Object
    /\ \A o \in Object : header(o) \notin Location
    /\ GCTopMarker \notin Location
<1>1. \A o \in Object : \A i \in 1 .. lastPointerOf[o] : <<o, i>> \in Location
  <2> SUFFICES ASSUME NEW o \in Object, NEW i \in 1 .. lastPointerOf[o]
               PROVE  <<o, i>> \in Location
    OBVIOUS
  <2>1. <<o, i>> \in Fields(o)
    BY DEF Fields
  <2> QED BY <2>1 DEF Location
<1>2. \A o \in HasClassWord : classWordOf(o) \in Location /\ o \in Object
  <2> SUFFICES ASSUME NEW o \in HasClassWord
               PROVE  classWordOf(o) \in Location /\ o \in Object
    OBVIOUS
  <2>1. classWordOf(o) \in {classWordOf(p) : p \in HasClassWord}
    OBVIOUS
  <2>2. classWordOf(o) \in Location
    BY <2>1 DEF Location
  <2> QED BY <2>2 DEF HasClassWord
<1>3. \A o \in Object : header(o) \notin Location
  BY LocationShape DEF header
<1> QED BY <1>1, <1>2, <1>3, WordAssumption

\* A location is known by its object and its offset.
LEMMA SameLocation ==
    ASSUME NEW l \in Location, NEW m \in Location,
           l[1] = m[1], l[2] = m[2]
    PROVE  l = m
BY LocationShape

\* The path is a sequence of locations.
LEMMA PathFacts ==
    ASSUME TypeOK
    PROVE  /\ Len(path) \in Nat
           /\ \A n \in 1 .. Len(path) : path[n] \in Location
           /\ path = <<>> <=> Len(path) = 0
BY DEF TypeOK

\* In a scan field is a field of an object or its header.
LEMMA FieldFacts ==
    ASSUME Sound, action = StartField
    PROVE  /\ field[1] \in Object
           /\ field[2] \in 0 .. lastPointerOf[field[1]]
           /\ field = <<field[1], field[2]>>
           /\ field \in Location <=> field[2] # 0
<1>0. PICK o \in Object :
            \E i \in 0 .. lastPointerOf[o] : field = <<o, i>>
  BY DEF Sound, Positions
<1>1. PICK i \in 0 .. lastPointerOf[o] : field = <<o, i>>
  BY <1>0
<1>2. i \in Int /\ lastPointerOf[o] \in Nat
  BY ObjectAssumption
<1>3. i # 0 => field \in Location
  BY <1>1, <1>2, LocationsAre
<1>4. i = 0 => field \notin Location
  BY <1>1, LocationsAre DEF header
<1> QED BY <1>1, <1>2, <1>3, <1>4

\* The strong fields of an object are among its fields.
LEMMA LimitFacts ==
    ASSUME IsGraph(graph), NEW o \in Object
    PROVE  LastStrong(o) \in 0 .. lastPointerOf[o]
<1>1. CASE o \in Weak
  <2>1. classWordOf(o) \in Location /\ o \in HasClassWord
    BY <1>1, WeakAssumption, LocationsAre
  <2>2. graph[classWordOf(o)] \in Object
    BY <2>1 DEF IsGraph
  <2> QED BY <1>1, <2>2, ObjectAssumption DEF LastStrong, IsGraph
<1>2. CASE o \notin Weak
  BY <1>2, ObjectAssumption DEF LastStrong
<1> QED BY <1>1, <1>2

-----------------------------------------------------------------------------
(* Entering an object.                                                     *)

\* Leaving the object at field through l, the next word that is pending.
LEMMA EnterStep ==
    ASSUME Sound, action = StartField,
           NEW l \in Location, l[1] = field[1], l[2] <= field[2],
           \A m \in Location : m[1] = l[1] /\ m[2] <= field[2] => m[2] <= l[2],
           memory[l] \in Object,
           enter(l)
    PROVE  Sound'
<1> USE DEF StartField, StartObj, Upward, Done
<1>1. TypeOK /\ IsGraph(graph) /\ WayBackKept /\ Positions /\ OpenOnce
      /\ FollowsStrong /\ MarkedIsReachable /\ TracedOrPending
  BY DEF Sound
<1>2. /\ Len(path) \in Nat
      /\ \A n \in 1 .. Len(path) : path[n] \in Location
  BY <1>1, PathFacts
<1>3. /\ Len(path') = Len(path) + 1
      /\ \A n \in 1 .. Len(path) : path'[n] = path[n]
      /\ path'[Len(path) + 1] = l
      /\ path' \in Seq(Location)
  BY <1>1, <1>2 DEF enter, TypeOK
<1>4. \A n \in 1 .. Len(path) : path[n][1] # l[1] /\ path[n] # l
  BY <1>1, <1>2 DEF OpenOnce
<1>5. l \notin Pathed /\ graph[l] = memory[l]
  BY <1>1, <1>4 DEF Pathed, WayBackKept
<1>6. Pathed' = Pathed \cup {l}
  BY <1>2, <1>3 DEF Pathed
<1>7. Open' = Open
  BY <1>2, <1>3 DEF Open, enter
<1>8. memory'[l] = parentField /\ \A m \in Location \ {l} : memory'[m] = memory[m]
  BY <1>1 DEF TypeOK, enter
<1>9. TypeOK' /\ IsGraph(graph)'
  BY <1>1, <1>3 DEF TypeOK, enter, IsGraph
<1>10. WayBackKept'
  <2>1. \A m, n \in 1 .. Len(path') : path'[m] = path'[n] => m = n
    BY <1>1, <1>2, <1>3, <1>4 DEF WayBackKept
  <2>2. parentField' = WayBack(Len(path))'
    BY <1>2, <1>3 DEF WayBack, enter
  <2>3. ASSUME NEW n \in 1 .. Len(path')
        PROVE  /\ memory'[path'[n]] = WayBack(n - 1)'
               /\ graph'[path'[n]] = NamedBy(n)'
    <3>1. CASE n = Len(path) + 1
      <4>1. path'[n] = l /\ memory'[l] = parentField
        BY <3>1, <1>3, <1>8
      <4>2. WayBack(n - 1)' = WayBack(Len(path))
        BY <3>1, <1>2, <1>3 DEF WayBack
      <4>3. NamedBy(n)' = memory[l] /\ graph' = graph
        BY <3>1, <1>3 DEF NamedBy, Current, enter
      <4> QED BY <4>1, <4>2, <4>3, <1>1, <1>5 DEF WayBackKept
    <3>2. CASE n # Len(path) + 1
      <4>1. n \in 1 .. Len(path) /\ path'[n] = path[n]
        BY <3>2, <1>2, <1>3
      <4>2. memory'[path[n]] = memory[path[n]] /\ graph' = graph
        BY <4>1, <1>2, <1>4, <1>8 DEF enter
      <4>3. WayBack(n - 1)' = WayBack(n - 1)
        BY <4>1, <1>2, <1>3 DEF WayBack
      <4>4. NamedBy(n)' = NamedBy(n)
        <5>1. CASE n = Len(path)
          <6>1. path'[n + 1] = l /\ Len(path') # n
            BY <5>1, <1>2, <1>3
          <6> QED BY <5>1, <6>1 DEF NamedBy, Current
        <5>2. CASE n # Len(path)
          <6>1. path'[n + 1] = path[n + 1] /\ Len(path') # n
            BY <5>2, <4>1, <1>2, <1>3
          <6> QED BY <5>2, <6>1 DEF NamedBy
        <5> QED BY <5>1, <5>2
      <4> QED BY <4>1, <4>2, <4>3, <4>4, <1>1 DEF WayBackKept
    <3> QED BY <3>1, <3>2
  <2>4. \A m \in Location \ Pathed' : memory'[m] = graph'[m]
    BY <1>1, <1>6, <1>8 DEF WayBackKept, enter
  <2>5. \A o \in Object : headerType'[o] =
                             IF o \in Open' THEN HeaderTypeGC ELSE rightType(o)
    BY <1>1, <1>7 DEF WayBackKept, enter
  <2>6. action' # Done
    BY DEF enter
  <2> QED BY <2>1, <2>2, <2>3, <2>4, <2>5, <2>6, <1>2, <1>3 DEF WayBackKept
<1>11. Positions'
  <2>1. field' = field /\ child' \in Object /\ path' # <<>> /\ action' = 2
    BY <1>2, <1>3 DEF enter
  <2>2. toTrace' = toTrace /\ Entry' = Entry
    BY DEF enter, Entry
  <2> QED BY <1>1, <2>1, <2>2 DEF Positions
<1>12. OpenOnce'
  <2>1. \A m, n \in 1 .. Len(path') : path'[m][1] = path'[n][1] => m = n
    BY <1>1, <1>2, <1>3, <1>4 DEF OpenOnce
  <2>2. \A n \in 2 .. Len(path') : path'[n][1] \in Young
    <3> SUFFICES ASSUME NEW n \in 2 .. Len(path') PROVE path'[n][1] \in Young
      OBVIOUS
    <3>1. CASE n = Len(path) + 1
      BY <3>1, <1>1, <1>2, <1>3 DEF OpenOnce
    <3>2. CASE n # Len(path) + 1
      BY <3>2, <1>1, <1>2, <1>3 DEF OpenOnce
    <3> QED BY <3>1, <3>2
  <2>3. path'[1][1] \in Entry'
    <3>1. Entry' = Entry
      BY DEF Entry, enter
    <3>2. CASE path = <<>>
      BY <3>1, <3>2, <1>1, <1>3 DEF Positions
    <3>3. CASE path # <<>>
      BY <3>1, <3>3, <1>1, <1>2, <1>3 DEF OpenOnce
    <3> QED BY <3>2, <3>3
  <2>4. action' = 2 /\ marked' = marked
    BY DEF enter
  <2> QED BY <2>1, <2>2, <2>3, <2>4, <1>1, <1>7 DEF OpenOnce
<1>13. FollowsStrong'
  <2>1. /\ Entry' = Entry
        /\ \A o : LastStrong(o)' = LastStrong(o)
    BY DEF Entry, LastStrong, enter
  <2>2. l[1] \in Object /\ l[2] \in Int
    BY LocationShape
  <2>3. l[1] \in Entry \/ l[2] <= LastStrong(l[1])
    BY <1>1, <2>2, FieldFacts, LimitFacts DEF FollowsStrong
  <2>4. \A n \in 1 .. Len(path') :
           path'[n][1] \in Entry \/ path'[n][2] <= LastStrong(path'[n][1])
    BY <2>3, <1>1, <1>2, <1>3 DEF FollowsStrong
  <2>5. action' = 2
    BY DEF enter
  <2> QED BY <2>1, <2>4, <2>5, <1>2, <1>3 DEF FollowsStrong
<1>14. MarkedIsReachable'
  <2>1. \A S : Closed(Entry, S)' <=> Closed(Entry, S)
    BY DEF Closed, Entry, LastStrong, enter
  <2> QED BY <2>1, <1>1 DEF MarkedIsReachable, enter
<1>15. TracedOrPending'
  <2>1. /\ \A o \in Object : (Begun(o)' <=> Begun(o))
                               /\ LastStrong(o)' = LastStrong(o)
        /\ marked' = marked /\ graph' = graph /\ action' = 2
    BY DEF Begun, Entry, LastStrong, enter
  <2>2. ASSUME NEW m \in Location, Pending(m) PROVE Pending(m)'
    <3>1. m[1] \in Object /\ m[2] \in Int /\ l[2] \in Int
      BY LocationShape
    <3>2. CASE field[1] = m[1] /\ m[2] <= field[2]
      <4>1. m[2] <= l[2] /\ m[1] = l[1]
        BY <3>2
      <4>2. m[2] < l[2] \/ m = l
        BY <3>1, <4>1, SameLocation
      <4>3. /\ Len(path') \in 1 .. Len(path')
            /\ path'[Len(path')] = l
        BY <1>2, <1>3
      <4> QED BY <4>1, <4>2, <4>3, <2>1 DEF Pending
    <3>3. CASE \E n \in 1 .. Len(path) : path[n][1] = m[1] /\ m[2] < path[n][2]
      <4>1. PICK n \in 1 .. Len(path) : path[n][1] = m[1] /\ m[2] < path[n][2]
        BY <3>3
      <4>2. n \in 1 .. Len(path') /\ path'[n] = path[n]
        BY <1>2, <1>3
      <4> QED BY <4>1, <4>2 DEF Pending
    <3> QED BY <2>2, <3>2, <3>3 DEF Pending
  <2> QED BY <2>1, <2>2, <1>1, LocationShape, ObjectAssumption
          DEF TracedOrPending
<1> QED BY <1>9, <1>10, <1>11, <1>12, <1>13, <1>14, <1>15 DEF Sound

\* A field with a pointer is followed.
LEMMA ScanPointerStep ==
    ASSUME Sound, scanPointer PROVE Sound'
<1>1. field[2] \in Int /\ action = StartField /\ field \in Location
  BY FieldFacts, LocationShape DEF scanPointer
<1>2. memory[field] \in Object /\ enter(field)
  BY DEF scanPointer
<1> QED BY <1>1, <1>2, EnterStep

\* The class word comes after the header: nothing is pending between them.
LEMMA ScanClassStep ==
    ASSUME Sound, scanClass PROVE Sound'
<1> DEFINE l == classWordOf(field[1])
<1>1. /\ action = StartField /\ field[2] = 0
      /\ l \in Location /\ l[1] = field[1] /\ l[2] = ClassWord
      /\ enter(l)
  BY LocationsAre DEF scanClass, AtHeader, header, classWordOf
<1>2. \A m \in Location : m[1] = l[1] /\ m[2] <= field[2] => m[2] <= l[2]
  BY <1>1, LocationShape DEF ClassWord
<1>3. l \notin Pathed
  BY <1>1, PathFacts DEF Sound, OpenOnce, Pathed
<1>4. memory[l] = graph[l] /\ field[1] \in HasClassWord
  BY <1>1, <1>3 DEF Sound, WayBackKept, scanClass
<1>5. memory[l] \in Object
  BY <1>4 DEF Sound, IsGraph
<1>6. l[2] <= field[2]
  BY <1>1 DEF ClassWord
<1> HIDE DEF l
<1> QED BY <1>1, <1>2, <1>5, <1>6, EnterStep

-----------------------------------------------------------------------------
(* The other steps of a scan.                                              *)

\* An integer is passed over.
LEMMA ScanIntegerStep ==
    ASSUME Sound, scanInteger PROVE Sound'
<1> USE DEF StartField, StartObj, Upward, Done
<1>1. TypeOK /\ IsGraph(graph) /\ WayBackKept /\ Positions /\ OpenOnce
      /\ FollowsStrong /\ MarkedIsReachable /\ TracedOrPending
  BY DEF Sound
<1>2. /\ action = StartField /\ field \in Location
      /\ memory[field] = SmallInteger
      /\ field' = <<field[1], field[2] - 1>>
      /\ UNCHANGED <<memory, headerType, marked, toTrace, parentField,
                     action, entries, graph, path>>
      /\ child' = SmallInteger
  BY DEF scanInteger, fieldBefore
<1>3. /\ field[1] \in Object /\ field[2] \in 1 .. lastPointerOf[field[1]]
      /\ lastPointerOf[field[1]] \in Nat
  BY <1>2, FieldFacts, ObjectAssumption
<1>4. field'[1] = field[1] /\ field'[2] = field[2] - 1
  BY <1>2
<1>5. field[2] - 1 \in 0 .. lastPointerOf[field[1]]
  BY <1>3
<1>6. field' \in Location \cup {header(o) : o \in Object}
  <2>1. CASE field[2] - 1 = 0
    BY <2>1, <1>2, <1>3 DEF header
  <2>2. CASE field[2] - 1 # 0
    BY <2>2, <1>2, <1>3, LocationsAre
  <2> QED BY <2>1, <2>2
<1>7. graph[field] = SmallInteger
  BY <1>1, <1>2, PathFacts DEF OpenOnce, WayBackKept, Pathed
<1>8. TypeOK' /\ IsGraph(graph)'
  BY <1>1, <1>2, <1>6 DEF TypeOK, IsGraph
<1>9. Open' = Open /\ Entry' = Entry /\ Pathed' = Pathed /\ Current' = Current
  BY <1>2, <1>4 DEF Open, Entry, Pathed, Current
<1>10. WayBackKept'
  <2>1. \A n : NamedBy(n)' = NamedBy(n) /\ WayBack(n)' = WayBack(n)
    BY <1>2, <1>9 DEF NamedBy, WayBack
  <2> QED BY <2>1, <1>1, <1>2, <1>9 DEF WayBackKept
<1>11. Positions'
  BY <1>1, <1>2, <1>3, <1>4, <1>5, <1>9 DEF Positions
<1>12. OpenOnce'
  BY <1>1, <1>2, <1>4, <1>9 DEF OpenOnce
<1>13. FollowsStrong'
  <2>1. \A o : LastStrong(o)' = LastStrong(o)
    BY <1>2 DEF LastStrong
  <2>2. LastStrong(field[1]) \in Int /\ field[2] \in Int
    BY <1>1, <1>3, LimitFacts
  <2> QED BY <2>1, <2>2, <1>1, <1>2, <1>4, <1>9 DEF FollowsStrong
<1>14. MarkedIsReachable'
  <2>1. \A S : Closed(Entry, S)' <=> Closed(Entry, S)
    BY <1>2, <1>9 DEF Closed, LastStrong
  <2> QED BY <2>1, <1>1, <1>2 DEF MarkedIsReachable
<1>15. TracedOrPending'
  <2>1. \A o : (Begun(o)' <=> Begun(o)) /\ LastStrong(o)' = LastStrong(o)
    BY <1>2, <1>9 DEF Begun, LastStrong
  <2>2. ASSUME NEW m \in Location, Pending(m), m # field PROVE Pending(m)'
    <3>1. m[2] \in Int /\ (m[1] # field[1] \/ m[2] # field[2])
      BY <1>2, <2>2, LocationShape, SameLocation
    <3> QED BY <2>2, <3>1, <1>2, <1>3, <1>4 DEF Pending
  <2>3. graph[field] \notin Young
    BY <1>7, WordAssumption, ObjectAssumption
  <2> QED BY <2>1, <2>2, <2>3, <1>1, <1>2 DEF TracedOrPending
<1> QED BY <1>8, <1>10, <1>11, <1>12, <1>13, <1>14, <1>15 DEF Sound

\* The header of an object without a class word ends its scan.
LEMMA ScanCompactHeaderStep ==
    ASSUME Sound, scanCompactHeader PROVE Sound'
<1> USE DEF StartField, StartObj, Upward, Done
<1>1. TypeOK /\ IsGraph(graph) /\ WayBackKept /\ Positions /\ OpenOnce
      /\ FollowsStrong /\ MarkedIsReachable /\ TracedOrPending
  BY DEF Sound
<1> DEFINE o == field[1]
<1>2. /\ action = StartField /\ action' = 3
      /\ o \in Compact /\ field = header(o)
      /\ headerType' = [headerType EXCEPT ![o] = rightType(o)]
      /\ UNCHANGED <<memory, marked, toTrace, child, field, parentField,
                     entries, graph, path>>
  BY DEF scanCompactHeader, AtHeader
<1>3. o \in Object /\ field[2] = 0
  BY <1>2, ObjectAssumption DEF header
<1>4. TypeOK' /\ IsGraph(graph)'
  <2>1. rightType(o) \in 0 .. 3
    BY DEF rightType, HeaderTypeSizeAndClass, HeaderTypeShort, HeaderTypeClass
  <2> QED BY <2>1, <1>1, <1>2 DEF TypeOK, IsGraph
<1>5. /\ Open = Open' \cup {o} /\ o \notin Open'
      /\ Entry' = Entry /\ Pathed' = Pathed /\ Current' = Current
  <2>1. o \notin Open'
    BY <1>1, <1>2 DEF Open, OpenOnce
  <2>2. Open = Open' \cup {o}
    BY <1>2 DEF Open
  <2>3. Entry' = Entry /\ Pathed' = Pathed /\ Current' = Current
    BY <1>2 DEF Entry, Pathed, Current
  <2> QED BY <2>1, <2>2, <2>3
<1>6. WayBackKept'
  <2>1. \A n : NamedBy(n)' = NamedBy(n) /\ WayBack(n)' = WayBack(n)
    BY <1>2, <1>5 DEF NamedBy, WayBack
  <2>2. \A p \in Object : headerType'[p] =
                             IF p \in Open' THEN HeaderTypeGC ELSE rightType(p)
    BY <1>1, <1>2, <1>3, <1>5 DEF WayBackKept, TypeOK
  <2> QED BY <2>1, <2>2, <1>1, <1>2, <1>5 DEF WayBackKept
<1>7. Positions'
  BY <1>1, <1>2, <1>3, <1>5 DEF Positions
<1>8. OpenOnce'
  BY <1>1, <1>2, <1>5 DEF OpenOnce
<1>9. \A p : LastStrong(p)' = LastStrong(p) /\ (Begun(p)' <=> Begun(p))
  BY <1>2, <1>5 DEF LastStrong, Begun
<1>10. FollowsStrong'
  BY <1>1, <1>2, <1>5, <1>9 DEF FollowsStrong
<1>11. MarkedIsReachable'
  <2>1. \A S : Closed(Entry, S)' <=> Closed(Entry, S)
    BY <1>2, <1>5, <1>9 DEF Closed
  <2> QED BY <2>1, <1>1, <1>2 DEF MarkedIsReachable
<1>12. TracedOrPending'
  <2>1. ASSUME NEW m \in Location, Pending(m) PROVE Pending(m)'
    <3>1. ~(m[1] = o /\ m[2] <= field[2])
      BY <1>2, <1>3, LocationShape DEF ClassWord, HasClassWord
    <3> QED BY <2>1, <3>1, <1>2 DEF Pending
  <2> QED BY <2>1, <1>1, <1>2, <1>9 DEF TracedOrPending
<1> QED BY <1>4, <1>6, <1>7, <1>8, <1>10, <1>11, <1>12 DEF Sound

-----------------------------------------------------------------------------
(* startObj.                                                               *)

\* An old or a marked object is not entered.
LEMMA StartObjSkips ==
    ASSUME Sound, startObj, ~(child \in Young /\ child \notin marked)
    PROVE  Sound'
<1> USE DEF StartField, StartObj, Upward, Done
<1>1. TypeOK /\ IsGraph(graph) /\ WayBackKept /\ Positions /\ OpenOnce
      /\ FollowsStrong /\ MarkedIsReachable /\ TracedOrPending
  BY DEF Sound
<1>2. /\ action = 2 /\ action' = 3
      /\ field' = header(child)
      /\ UNCHANGED <<headerType, marked, memory, toTrace, child, parentField,
                     entries, graph, path>>
  BY DEF startObj
<1>3. child \in Object /\ path # <<>> /\ Len(path) \in Nat \ {0}
  BY <1>1, <1>2, PathFacts DEF Positions
<1>4. TypeOK' /\ IsGraph(graph)'
  BY <1>1, <1>2, <1>3 DEF TypeOK, IsGraph
<1>5. Open' = Open /\ Entry' = Entry /\ Pathed' = Pathed /\ Current' = Current
  BY <1>2 DEF Open, Entry, Pathed, Current, header
<1>6. WayBackKept'
  <2>1. \A n : NamedBy(n)' = NamedBy(n) /\ WayBack(n)' = WayBack(n)
    BY <1>2, <1>5 DEF NamedBy, WayBack
  <2> QED BY <2>1, <1>1, <1>2, <1>5 DEF WayBackKept
<1>7. Positions'
  BY <1>1, <1>2, <1>3, <1>5 DEF Positions
<1>8. OpenOnce'
  BY <1>1, <1>2, <1>5 DEF OpenOnce
<1>9. \A p : LastStrong(p)' = LastStrong(p) /\ (Begun(p)' <=> Begun(p))
  BY <1>2, <1>5 DEF LastStrong, Begun
<1>10. FollowsStrong'
  BY <1>1, <1>2, <1>5, <1>9 DEF FollowsStrong
<1>11. MarkedIsReachable'
  <2>1. \A S : Closed(Entry, S)' <=> Closed(Entry, S)
    BY <1>2, <1>5, <1>9 DEF Closed
  <2> QED BY <2>1, <1>1, <1>2 DEF MarkedIsReachable
<1>12. TracedOrPending'
  <2>1. graph[path[Len(path)]] = child
    BY <1>1, <1>2, <1>3 DEF WayBackKept, NamedBy, Current
  <2>2. ASSUME NEW m \in Location, Pending(m), m # path[Len(path)]
        PROVE  Pending(m)'
    BY <2>2, <1>2 DEF Pending
  <2> QED BY <2>1, <2>2, <1>1, <1>2, <1>9 DEF TracedOrPending
<1> QED BY <1>4, <1>6, <1>7, <1>8, <1>10, <1>11, <1>12 DEF Sound

\* Another is marked, and its fields are scanned.
LEMMA StartObjEnters ==
    ASSUME Sound, startObj, child \in Young, child \notin marked
    PROVE  Sound'
<1> USE DEF StartField, StartObj, Upward, Done
<1>1. TypeOK /\ IsGraph(graph) /\ WayBackKept /\ Positions /\ OpenOnce
      /\ FollowsStrong /\ MarkedIsReachable /\ TracedOrPending
  BY DEF Sound
<1>2. /\ action = 2 /\ action' = 1
      /\ headerType' = [headerType EXCEPT ![child] = HeaderTypeGC]
      /\ marked' = marked \cup {child}
      /\ field' = lastFieldOf(child)
      /\ UNCHANGED <<memory, toTrace, child, parentField, entries, graph, path>>
  BY DEF startObj
<1>3. child \in Object /\ path # <<>> /\ Len(path) \in Nat \ {0}
  BY <1>1, <1>2, PathFacts DEF Positions
<1>4. \A n \in 1 .. Len(path) : path[n] \in Location
  BY <1>1, PathFacts
<1>5. child \notin Open
  BY <1>1 DEF OpenOnce
<1>6. field' = <<child, LastStrong(child)>>
  <2>1. CASE child \in Weak
    <3>1. classWordOf(child) \in Location \ Pathed
      BY <2>1, <1>5, LocationsAre, WeakAssumption
      DEF Pathed, Open, classWordOf
    <3>2. memory[classWordOf(child)] = graph[classWordOf(child)]
      BY <3>1, <1>1 DEF WayBackKept
    <3> QED BY <2>1, <3>2, <1>2 DEF lastFieldOf, nonWeakFieldsOf, LastStrong
  <2>2. CASE child \notin Weak
    BY <2>2, <1>2 DEF lastFieldOf, LastStrong
  <2> QED BY <2>1, <2>2
<1>7. /\ LastStrong(child) \in 0 .. lastPointerOf[child]
      /\ lastPointerOf[child] \in Nat
      /\ field'[1] = child /\ field'[2] = LastStrong(child)
  BY <1>1, <1>3, <1>6, LimitFacts, ObjectAssumption
<1>8. TypeOK' /\ IsGraph(graph)'
  <2>1. field' \in Location \cup {header(o) : o \in Object}
    <3>1. CASE LastStrong(child) = 0
      BY <3>1, <1>3, <1>6 DEF header
    <3>2. CASE LastStrong(child) # 0
      BY <3>2, <1>3, <1>6, <1>7, LocationsAre
    <3> QED BY <3>1, <3>2
  <2>2. headerType' \in [Object -> 0 .. 3]
    <3>1. headerType \in [Object -> 0 .. 3] /\ HeaderTypeGC \in 0 .. 3
      BY <1>1 DEF TypeOK, HeaderTypeGC
    <3> QED BY <3>1, <1>2
  <2> QED BY <2>1, <2>2, <1>1, <1>2 DEF TypeOK, IsGraph
<1>9. /\ Open' = Open \cup {child}
      /\ Entry' = Entry /\ Pathed' = Pathed /\ Current' = Current
  BY <1>2, <1>7 DEF Open, Entry, Pathed, Current
<1>10. WayBackKept'
  <2>1. \A n : NamedBy(n)' = NamedBy(n) /\ WayBack(n)' = WayBack(n)
    BY <1>2, <1>9 DEF NamedBy, WayBack
  <2>2. \A p \in Object : headerType'[p] =
                             IF p \in Open' THEN HeaderTypeGC ELSE rightType(p)
    BY <1>1, <1>2, <1>9 DEF WayBackKept, TypeOK
  <2> QED BY <2>1, <2>2, <1>1, <1>2, <1>9 DEF WayBackKept
<1>11. Positions'
  BY <1>1, <1>2, <1>3, <1>6, <1>7, <1>9 DEF Positions
<1>12. OpenOnce'
  <2>1. \A n \in 1 .. Len(path) : path[n][1] # child
    BY <1>5 DEF Open
  <2> QED BY <2>1, <1>1, <1>2, <1>7, <1>9 DEF OpenOnce
<1>13. \A p : LastStrong(p)' = LastStrong(p) /\ (Begun(p)' <=> Begun(p))
  BY <1>2, <1>9 DEF LastStrong, Begun
<1>14. FollowsStrong'
  BY <1>1, <1>2, <1>7, <1>9, <1>13 DEF FollowsStrong
<1> DEFINE l == path[Len(path)]
<1>15. l \in Location /\ graph[l] = child
  BY <1>1, <1>2, <1>3, <1>4 DEF WayBackKept, NamedBy, Current
<1>16. MarkedIsReachable'
  <2>1. \A S : Closed(Entry, S)' <=> Closed(Entry, S)
    BY <1>2, <1>9, <1>13 DEF Closed
  <2>2. l[1] \in Entry \/ (l[1] \in marked /\ l[2] <= LastStrong(l[1]))
    <3>1. CASE Len(path) = 1
      BY <3>1, <1>1, <1>3 DEF OpenOnce
    <3>2. CASE Len(path) # 1
      <4>0. ASSUME NEW k \in Nat \ {0, 1}
            PROVE  k \in 1 .. k /\ k \in 2 .. k
        OBVIOUS
      <4>1. Len(path) \in 1 .. Len(path) /\ Len(path) \in 2 .. Len(path)
        BY <3>2, <1>3, <4>0
      <4>2. l[1] \in Young
        BY <4>1, <1>1 DEF OpenOnce
      <4>3. l[1] \in Open
        BY <4>1 DEF Open
      <4> QED BY <4>1, <4>2, <4>3, <1>1 DEF OpenOnce, FollowsStrong
    <3> QED BY <3>1, <3>2
  <2>3. ASSUME NEW S \in SUBSET Young, Closed(Entry, S) PROVE child \in S
    <3>1. marked \subseteq S
      BY <2>3, <1>1 DEF MarkedIsReachable
    <3> QED BY <3>1, <2>2, <2>3, <1>15 DEF Closed
  <2> QED BY <2>1, <2>3, <1>1, <1>2 DEF MarkedIsReachable
<1>17. TracedOrPending'
  <2>1. ASSUME NEW m \in Location, Pending(m), m # l PROVE Pending(m)'
    BY <2>1, <1>2 DEF Pending
  <2>2. ASSUME NEW m \in Location, m[1] = child, m[2] <= LastStrong(child)
        PROVE  Pending(m)'
    BY <2>2, <1>2, <1>7 DEF Pending
  <2> QED BY <2>1, <2>2, <1>1, <1>2, <1>13, <1>15 DEF TracedOrPending
<1> QED BY <1>8, <1>10, <1>11, <1>12, <1>14, <1>16, <1>17 DEF Sound

-----------------------------------------------------------------------------
(* upward.                                                                 *)

\* At the top nothing is reversed any more.
LEMMA UpwardToTopStep ==
    ASSUME Sound, upwardToTop PROVE Sound'
<1> USE DEF StartField, StartObj, Upward, Done
<1>1. TypeOK /\ IsGraph(graph) /\ WayBackKept /\ Positions /\ OpenOnce
      /\ FollowsStrong /\ MarkedIsReachable /\ TracedOrPending
  BY DEF Sound
<1>2. /\ action = 3 /\ action' = 4 /\ parentField = GCTopMarker
      /\ headerType' = [headerType EXCEPT ![field[1]] = rightType(field[1])]
      /\ UNCHANGED <<memory, marked, toTrace, child, field, parentField,
                     entries, graph, path>>
  BY DEF upwardToTop
<1>3. path = <<>> /\ Len(path) = 0
  <2>1. Len(path) # 0 => path[Len(path)] \in Location
    BY <1>1, PathFacts
  <2>2. Len(path) # 0 => parentField = path[Len(path)]
    BY <1>1 DEF WayBackKept, WayBack
  <2> QED BY <2>1, <2>2, <1>1, <1>2, LocationsAre, PathFacts
<1>4. field[1] \in Object
  BY <1>1, <1>2 DEF Positions, header
<1>5. Open = {} /\ Open' = {} /\ Entry' = Entry /\ Pathed' = Pathed
  BY <1>2, <1>3 DEF Open, Entry, Pathed
<1>6. headerType' = headerType
  BY <1>1, <1>2, <1>4, <1>5 DEF WayBackKept, TypeOK
<1>7. TypeOK' /\ IsGraph(graph)'
  BY <1>1, <1>2, <1>6 DEF TypeOK, IsGraph
<1>8. WayBackKept'
  <2>1. parentField' = WayBack(Len(path))'
    BY <1>2, <1>3 DEF WayBack
  <2>2. path' = <<>> /\ \A n : n \notin 1 .. Len(path')
    BY <1>2, <1>3
  <2> QED BY <2>1, <2>2, <1>1, <1>2, <1>3, <1>5, <1>6 DEF WayBackKept
<1>9. Positions' /\ OpenOnce'
  BY <1>1, <1>2, <1>3, <1>5 DEF Positions, OpenOnce
<1>10. \A p : LastStrong(p)' = LastStrong(p) /\ (Begun(p)' <=> Begun(p))
  BY <1>2, <1>5 DEF LastStrong, Begun
<1>11. FollowsStrong'
  BY <1>2, <1>3 DEF FollowsStrong
<1>12. MarkedIsReachable'
  <2>1. \A S : Closed(Entry, S)' <=> Closed(Entry, S)
    BY <1>2, <1>5, <1>10 DEF Closed
  <2> QED BY <2>1, <1>1, <1>2 DEF MarkedIsReachable
<1>13. TracedOrPending'
  <2>1. \A m : ~Pending(m)
    BY <1>2, <1>3 DEF Pending
  <2> QED BY <2>1, <1>1, <1>2, <1>10 DEF TracedOrPending
<1> QED BY <1>7, <1>8, <1>9, <1>11, <1>12, <1>13 DEF Sound

\* What both ways up have in common: the last word of the path is restored,
\* and the object it is in becomes the current one.
LEMMA RestoreParent ==
    ASSUME Sound, action = Upward, parentField # GCTopMarker, restoreParent
    PROVE  /\ Len(path) \in Nat \ {0}
           /\ parentField = path[Len(path)] /\ parentField \in Location
           /\ path' \in Seq(Location)
           /\ Len(path') = Len(path) - 1
           /\ \A n \in 1 .. Len(path) - 1 : path'[n] = path[n]
           /\ child' \in Object
           /\ memory' \in [Location -> Object \cup {SmallInteger, GCTopMarker}
                                           \cup Location]
           /\ parentField' = WayBack(Len(path))'
           /\ parentField' \in Location \cup {GCTopMarker}
           /\ \A n \in 1 .. Len(path') :
                 memory'[path'[n]] = WayBack(n - 1)'
           /\ \A l \in Location \ Pathed' : memory'[l] = graph[l]
           /\ Pathed = Pathed' \cup {parentField}
<1> USE DEF StartField, StartObj, Upward, Done
<1>1. TypeOK /\ IsGraph(graph) /\ WayBackKept /\ Positions
  BY DEF Sound
<1>2. /\ child' = field[1]
      /\ memory' = [memory EXCEPT ![parentField] = field[1]]
      /\ parentField' = memory[parentField]
      /\ path' = SubSeq(path, 1, Len(path) - 1)
      /\ UNCHANGED <<marked, toTrace, entries, graph>>
  BY DEF restoreParent
<1>3. Len(path) \in Nat /\ \A n \in 1 .. Len(path) : path[n] \in Location
  BY <1>1, PathFacts
<1>4. Len(path) # 0 /\ parentField = path[Len(path)]
  BY <1>1 DEF WayBackKept, WayBack
<1>5. Len(path) \in Nat \ {0} /\ parentField \in Location
  BY <1>3, <1>4
<1>6. /\ path' \in Seq(Location)
      /\ Len(path') = Len(path) - 1
      /\ \A n \in 1 .. Len(path) - 1 : path'[n] = path[n]
  <2> DEFINE last == Len(path) - 1
  <2>1. last \in Nat /\ \A n \in 1 .. last : path[n] \in Location
    BY <1>3, <1>5
  <2>2. path' = SubSeq(path, 1, last)
    BY <1>2
  <2> HIDE DEF last
  <2>3. /\ path' \in Seq(Location)
        /\ Len(path') = IF 1 <= last THEN last - 1 + 1 ELSE 0
        /\ \A n \in 1 .. last - 1 + 1 : path'[n] = path[1 + n - 1]
    BY <2>1, <2>2, SubSeqProperties
  <2>4. Len(path') = last /\ \A n \in 1 .. last : path'[n] = path[n]
    BY <2>1, <2>3
  <2> QED BY <2>3, <2>4 DEF last
<1>7. field[1] \in Object
  BY <1>1 DEF Positions, header
<1>8. memory' \in [Location -> Object \cup {SmallInteger, GCTopMarker}
                                     \cup Location]
  BY <1>1, <1>2, <1>7 DEF TypeOK
<1>9. \A n \in 0 .. Len(path) - 1 : WayBack(n)' = WayBack(n)
  BY <1>5, <1>6 DEF WayBack
<1>10. parentField' = WayBack(Len(path))'
  BY <1>1, <1>2, <1>4, <1>5, <1>6, <1>9 DEF WayBackKept
<1>11. parentField' \in Location \cup {GCTopMarker}
  BY <1>3, <1>5, <1>6, <1>9, <1>10 DEF WayBack
<1>12. \A n \in 1 .. Len(path) - 1 : path[n] # parentField
  BY <1>1, <1>4, <1>5 DEF WayBackKept
<1>13. \A n \in 1 .. Len(path') : memory'[path'[n]] = WayBack(n - 1)'
  <2> SUFFICES ASSUME NEW n \in 1 .. Len(path')
               PROVE  memory'[path'[n]] = WayBack(n - 1)'
    OBVIOUS
  <2>1. n \in 1 .. Len(path) /\ n \in 1 .. Len(path) - 1
    BY <1>5, <1>6
  <2>2. memory'[path'[n]] = memory[path[n]]
    BY <2>1, <1>1, <1>2, <1>3, <1>6, <1>12 DEF TypeOK
  <2>3. n - 1 \in 0 .. Len(path) - 1
    BY <2>1, <1>5
  <2> QED BY <2>1, <2>2, <2>3, <1>1, <1>9 DEF WayBackKept
<1>14. Pathed = Pathed' \cup {parentField}
  <2>1. \A n : n \in 1 .. Len(path)
               <=> n \in 1 .. Len(path) - 1 \/ n = Len(path)
    BY <1>5
  <2> QED BY <2>1, <1>4, <1>6 DEF Pathed
<1>15. \A l \in Location \ Pathed' : memory'[l] = graph[l]
  <2>1. graph[parentField] = field[1]
    BY <1>1, <1>4, <1>5 DEF WayBackKept, NamedBy, Current
  <2>2. memory'[parentField] = field[1]
    BY <1>1, <1>2, <1>5 DEF TypeOK
  <2>3. \A l \in Location \ {parentField} : memory'[l] = memory[l]
    BY <1>1, <1>2 DEF TypeOK
  <2> QED BY <2>1, <2>2, <2>3, <1>1, <1>14 DEF WayBackKept
<1> QED BY <1>2, <1>4, <1>5, <1>6, <1>7, <1>8, <1>10, <1>11, <1>13, <1>14, <1>15

\* Back in the object whose field was followed: on to the field before it.
LEMMA UpwardToFieldStep ==
    ASSUME Sound, upwardToField PROVE Sound'
<1> USE DEF StartField, StartObj, Upward, Done
<1> DEFINE l == parentField
           k == Len(path)
<1>1. TypeOK /\ IsGraph(graph) /\ WayBackKept /\ Positions /\ OpenOnce
      /\ FollowsStrong /\ MarkedIsReachable /\ TracedOrPending
  BY DEF Sound
<1>2. /\ action = 3 /\ action' = 1 /\ l # GCTopMarker
      /\ l[2] # ClassWord
      /\ field' = <<l[1], l[2] - 1>>
      /\ restoreParent
      /\ UNCHANGED headerType
  BY DEF upwardToField, fieldBefore
<1>3. UNCHANGED <<marked, toTrace, entries, graph>>
  BY <1>2 DEF restoreParent
<1>4. /\ k \in Nat \ {0} /\ l = path[k] /\ l \in Location
      /\ path' \in Seq(Location) /\ Len(path') = k - 1
      /\ \A n \in 1 .. k - 1 : path'[n] = path[n]
  BY <1>2, RestoreParent
<1>5. /\ l[1] \in Object /\ lastPointerOf[l[1]] \in Nat
      /\ l[2] \in 1 .. lastPointerOf[l[1]]
      /\ field'[1] = l[1] /\ field'[2] = l[2] - 1
      /\ field'[2] \in 0 .. lastPointerOf[l[1]]
  BY <1>2, <1>4, LocationShape, ObjectAssumption DEF ClassWord
<1>6. k \in 1 .. k /\ \A n : n \in 1 .. k <=> n \in 1 .. k - 1 \/ n = k
  BY <1>4
<1>7. Open' = Open /\ Entry' = Entry
  <2>1. Open' = {path[n][1] : n \in 1 .. k - 1} \cup {l[1]}
    BY <1>2, <1>4, <1>5 DEF Open
  <2>2. Open = {path[n][1] : n \in 1 .. k}
    BY <1>2 DEF Open
  <2> QED BY <2>1, <2>2, <1>3, <1>4, <1>6 DEF Entry
<1>8. TypeOK' /\ IsGraph(graph)'
  <2>1. field' \in Location \cup {header(o) : o \in Object}
    <3>1. CASE l[2] - 1 = 0
      BY <3>1, <1>2, <1>5 DEF header
    <3>2. CASE l[2] - 1 # 0
      BY <3>2, <1>2, <1>5, LocationsAre
    <3> QED BY <3>1, <3>2
  <2> QED BY <2>1, <1>1, <1>2, <1>3, <1>4, RestoreParent DEF TypeOK, IsGraph
<1>9. WayBackKept'
  <2>1. \A m, n \in 1 .. Len(path') : path'[m] = path'[n] => m = n
    BY <1>1, <1>4, <1>6 DEF WayBackKept
  <2>2. \A n \in 1 .. Len(path') : graph'[path'[n]] = NamedBy(n)'
    <3> SUFFICES ASSUME NEW n \in 1 .. Len(path')
                 PROVE  graph'[path'[n]] = NamedBy(n)'
      OBVIOUS
    <3>1. n \in 1 .. k /\ n # k /\ path'[n] = path[n]
      BY <1>4, <1>6
    <3>2. graph[path[n]] = path[n + 1][1]
      BY <3>1, <1>1 DEF WayBackKept, NamedBy
    <3>3. CASE n = Len(path')
      <4>1. n + 1 = k
        BY <3>3, <1>4
      <4>2. Current' = l[1]
        BY <1>2, <1>5 DEF Current
      <4>3. NamedBy(n)' = l[1]
        BY <4>2, <3>3 DEF NamedBy
      <4>4. graph[path[n]] = l[1]
        BY <4>1, <3>2, <1>4
      <4> QED BY <4>3, <4>4, <3>1, <1>3
    <3>4. CASE n # Len(path')
      <4>1. path'[n + 1] = path[n + 1]
        BY <3>1, <3>4, <1>4
      <4> QED BY <4>1, <3>1, <3>2, <3>4, <1>3 DEF NamedBy
    <3> QED BY <3>3, <3>4
  <2>3. /\ \A o \in Object : headerType'[o] =
                              IF o \in Open' THEN HeaderTypeGC ELSE rightType(o)
        /\ action' # Done
    BY <1>1, <1>2, <1>7 DEF WayBackKept
  <2> QED BY <2>1, <2>2, <2>3, <1>2, <1>3, RestoreParent DEF WayBackKept
<1>10. Positions'
  <2>1. path' = <<>> => l[1] \in Entry
    <3>1. path' = <<>> => k = 1
      BY <1>4
    <3> QED BY <3>1, <1>1, <1>4 DEF OpenOnce
  <2> QED BY <2>1, <1>1, <1>2, <1>3, <1>5, <1>7 DEF Positions
<1>11. OpenOnce'
  <2>1. \A m, n \in 1 .. Len(path') : path'[m][1] = path'[n][1] => m = n
    BY <1>1, <1>4, <1>6 DEF OpenOnce
  <2>2. \A n \in 1 .. Len(path') : path'[n][1] # field'[1]
    BY <1>1, <1>4, <1>5, <1>6 DEF OpenOnce
  <2>3. \A n \in 2 .. Len(path') : path'[n][1] \in Young
    BY <1>1, <1>4 DEF OpenOnce
  <2>4. path' # <<>> => field'[1] \in Young /\ path'[1][1] \in Entry
    <3>1. CASE k = 1
      BY <3>1, <1>4
    <3>2. CASE k # 1
      <4>1. k \in 2 .. k /\ 1 \in 1 .. k - 1 /\ path # <<>>
        BY <3>2, <1>4
      <4> QED BY <4>1, <1>1, <1>4, <1>5 DEF OpenOnce
    <3> QED BY <3>1, <3>2
  <2> QED BY <2>1, <2>2, <2>3, <2>4, <1>1, <1>3, <1>7 DEF OpenOnce
<1>12. \A p : LastStrong(p)' = LastStrong(p) /\ (Begun(p)' <=> Begun(p))
  BY <1>3, <1>7 DEF LastStrong, Begun
<1>13. FollowsStrong'
  <2>1. \A n \in 1 .. Len(path') : n \in 1 .. k /\ path'[n] = path[n]
    BY <1>4, <1>6
  <2>2. l[1] \in Entry \/ l[2] <= LastStrong(l[1])
    BY <1>1, <1>4, <1>6 DEF FollowsStrong
  <2>3. LastStrong(l[1]) \in Int /\ l[2] \in Int
    BY <1>1, <1>5, LimitFacts
  <2> QED BY <2>1, <2>2, <2>3, <1>1, <1>5, <1>7, <1>12 DEF FollowsStrong
<1>14. MarkedIsReachable'
  <2>1. \A S : Closed(Entry, S)' <=> Closed(Entry, S)
    BY <1>3, <1>7, <1>12 DEF Closed
  <2> QED BY <2>1, <1>1, <1>3 DEF MarkedIsReachable
<1>15. TracedOrPending'
  <2>1. ASSUME NEW m \in Location, Pending(m) PROVE Pending(m)'
    <3>1. PICK n \in 1 .. k : path[n][1] = m[1] /\ m[2] < path[n][2]
      BY <2>1, <1>2 DEF Pending
    <3>2. CASE n = k
      <4>1. m[1] = field'[1] /\ m[2] <= field'[2]
        BY <3>1, <3>2, <1>4, <1>5, LocationShape
      <4> QED BY <4>1, <1>2 DEF Pending
    <3>3. CASE n # k
      <4>1. n \in 1 .. Len(path') /\ path'[n] = path[n]
        BY <3>3, <1>4, <1>6
      <4> QED BY <4>1, <3>1 DEF Pending
    <3> QED BY <3>2, <3>3
  <2> QED BY <2>1, <1>1, <1>3, <1>12 DEF TracedOrPending
<1> QED BY <1>8, <1>9, <1>10, <1>11, <1>13, <1>14, <1>15 DEF Sound

\* Back in the object whose class was followed: it is done.
LEMMA UpwardToClassWordStep ==
    ASSUME Sound, upwardToClassWord PROVE Sound'
<1> USE DEF StartField, StartObj, Upward, Done
<1> DEFINE l == parentField
           k == Len(path)
<1>1. TypeOK /\ IsGraph(graph) /\ WayBackKept /\ Positions /\ OpenOnce
      /\ FollowsStrong /\ MarkedIsReachable /\ TracedOrPending
  BY DEF Sound
<1>2. /\ action = 3 /\ action' = 3 /\ l # GCTopMarker
      /\ l[2] = ClassWord
      /\ field' = header(l[1])
      /\ restoreParent
      /\ headerType' = [headerType EXCEPT ![l[1]] = rightType(l[1])]
  BY DEF upwardToClassWord
<1>3. UNCHANGED <<marked, toTrace, entries, graph>>
  BY <1>2 DEF restoreParent
<1>4. /\ k \in Nat \ {0} /\ l = path[k] /\ l \in Location
      /\ path' \in Seq(Location) /\ Len(path') = k - 1
      /\ \A n \in 1 .. k - 1 : path'[n] = path[n]
  BY <1>2, RestoreParent
<1>5. l[1] \in Object /\ field'[1] = l[1]
  BY <1>2, <1>4, LocationShape DEF header
<1>6. k \in 1 .. k /\ \A n : n \in 1 .. k <=> n \in 1 .. k - 1 \/ n = k
  BY <1>4
<1>7. Open = Open' \cup {l[1]} /\ l[1] \notin Open' /\ Entry' = Entry
  <2>1. Open' = {path[n][1] : n \in 1 .. k - 1}
    BY <1>2, <1>4 DEF Open
  <2>2. Open = {path[n][1] : n \in 1 .. k}
    BY <1>2 DEF Open
  <2>3. \A n \in 1 .. k - 1 : path[n][1] # l[1]
    BY <1>1, <1>4, <1>6 DEF OpenOnce
  <2> QED BY <2>1, <2>2, <2>3, <1>3, <1>4, <1>6 DEF Entry
<1>8. TypeOK' /\ IsGraph(graph)'
  <2>1. field' \in {header(o) : o \in Object}
    BY <1>2, <1>5
  <2>2. headerType' \in [Object -> 0 .. 3]
    <3>1. headerType \in [Object -> 0 .. 3] /\ rightType(l[1]) \in 0 .. 3
      BY <1>1 DEF TypeOK, rightType, HeaderTypeSizeAndClass, HeaderTypeShort,
                  HeaderTypeClass
    <3> QED BY <3>1, <1>2
  <2> QED BY <2>1, <2>2, <1>1, <1>2, <1>3, <1>4, RestoreParent DEF TypeOK, IsGraph
<1>9. WayBackKept'
  <2>1. \A m, n \in 1 .. Len(path') : path'[m] = path'[n] => m = n
    BY <1>1, <1>4, <1>6 DEF WayBackKept
  <2>2. \A n \in 1 .. Len(path') : graph'[path'[n]] = NamedBy(n)'
    <3> SUFFICES ASSUME NEW n \in 1 .. Len(path')
                 PROVE  graph'[path'[n]] = NamedBy(n)'
      OBVIOUS
    <3>1. n \in 1 .. k /\ n # k /\ path'[n] = path[n]
      BY <1>4, <1>6
    <3>2. graph[path[n]] = path[n + 1][1]
      BY <3>1, <1>1 DEF WayBackKept, NamedBy
    <3>3. CASE n = Len(path')
      <4>1. n + 1 = k
        BY <3>3, <1>4
      <4>2. Current' = l[1]
        BY <1>2, <1>5 DEF Current
      <4>3. NamedBy(n)' = l[1]
        BY <4>2, <3>3 DEF NamedBy
      <4>4. graph[path[n]] = l[1]
        BY <4>1, <3>2, <1>4
      <4> QED BY <4>3, <4>4, <3>1, <1>3
    <3>4. CASE n # Len(path')
      <4>1. path'[n + 1] = path[n + 1]
        BY <3>1, <3>4, <1>4
      <4> QED BY <4>1, <3>1, <3>2, <3>4, <1>3 DEF NamedBy
    <3> QED BY <3>3, <3>4
  <2>3. /\ \A o \in Object : headerType'[o] =
                              IF o \in Open' THEN HeaderTypeGC ELSE rightType(o)
        /\ action' # Done
    BY <1>1, <1>2, <1>5, <1>7 DEF WayBackKept, TypeOK
  <2> QED BY <2>1, <2>2, <2>3, <1>2, <1>3, RestoreParent DEF WayBackKept
<1>10. Positions'
  <2>1. path' = <<>> => l[1] \in Entry
    <3>1. path' = <<>> => k = 1
      BY <1>4
    <3> QED BY <3>1, <1>1, <1>4 DEF OpenOnce
  <2> QED BY <2>1, <1>1, <1>2, <1>3, <1>5, <1>7 DEF Positions
<1>11. OpenOnce'
  <2>1. \A m, n \in 1 .. Len(path') : path'[m][1] = path'[n][1] => m = n
    BY <1>1, <1>4, <1>6 DEF OpenOnce
  <2>2. \A n \in 2 .. Len(path') : path'[n][1] \in Young
    BY <1>1, <1>4 DEF OpenOnce
  <2>3. path' # <<>> => path'[1][1] \in Entry
    <3>1. CASE k = 1
      BY <3>1, <1>4
    <3>2. CASE k # 1
      <4>1. 1 \in 1 .. k - 1 /\ path # <<>>
        BY <3>2, <1>4
      <4> QED BY <4>1, <1>1, <1>4 DEF OpenOnce
    <3> QED BY <3>1, <3>2
  <2> QED BY <2>1, <2>2, <2>3, <1>1, <1>2, <1>3, <1>7 DEF OpenOnce
<1>12. \A p : LastStrong(p)' = LastStrong(p) /\ (Begun(p)' <=> Begun(p))
  BY <1>3, <1>7 DEF LastStrong, Begun
<1>13. FollowsStrong'
  <2>1. \A n \in 1 .. Len(path') : n \in 1 .. k /\ path'[n] = path[n]
    BY <1>4, <1>6
  <2> QED BY <2>1, <1>1, <1>2, <1>7, <1>12 DEF FollowsStrong
<1>14. MarkedIsReachable'
  <2>1. \A S : Closed(Entry, S)' <=> Closed(Entry, S)
    BY <1>3, <1>7, <1>12 DEF Closed
  <2> QED BY <2>1, <1>1, <1>3 DEF MarkedIsReachable
<1>15. TracedOrPending'
  <2>1. ASSUME NEW m \in Location, Pending(m) PROVE Pending(m)'
    <3>1. PICK n \in 1 .. k : path[n][1] = m[1] /\ m[2] < path[n][2]
      BY <2>1, <1>2 DEF Pending
    <3>2. n # k
      BY <3>1, <1>2, <1>4, LocationShape DEF ClassWord
    <3>3. n \in 1 .. Len(path') /\ path'[n] = path[n]
      BY <3>2, <1>4, <1>6
    <3> QED BY <3>1, <3>3 DEF Pending
  <2> QED BY <2>1, <1>1, <1>3, <1>12 DEF TracedOrPending
<1> QED BY <1>8, <1>9, <1>10, <1>11, <1>13, <1>14, <1>15 DEF Sound

-----------------------------------------------------------------------------
(* markPhase.                                                              *)

\* What holds between two entries.
LEMMA BetweenEntries ==
    ASSUME Sound, markPhase
    PROVE  /\ Len(path) = 0 /\ path = <<>>
           /\ Pathed = {} /\ Open = {}
           /\ memory = graph
           /\ \A m : ~Pending(m)
           /\ toTrace' \in Seq(Object)
           /\ Head(toTrace) \in Object /\ Head(toTrace) \in Entry
           /\ \A n \in 1 .. Len(toTrace') : toTrace'[n] \in Entry
           /\ \A o : Begun(o)' => Begun(o) \/ o = Head(toTrace)
<1> USE DEF StartField, StartObj, Upward, Done
<1>1. /\ action = 4 /\ toTrace # <<>> /\ toTrace' = Tail(toTrace)
      /\ entries' = entries
  BY DEF markPhase
<1>2. Len(path) = 0 /\ path = <<>>
  BY <1>1 DEF Sound, WayBackKept
<1>3. Pathed = {} /\ Open = {}
  BY <1>1, <1>2 DEF Pathed, Open
<1>4. memory = graph
  <2>1. \A l \in Location : memory[l] = graph[l]
    BY <1>3 DEF Sound, WayBackKept
  <2> QED BY <2>1 DEF Sound, TypeOK, IsGraph
<1>5. \A m : ~Pending(m)
  BY <1>1, <1>2 DEF Pending
<1>6. /\ toTrace \in Seq(Object)
      /\ \A n \in 1 .. Len(toTrace) : toTrace[n] \in Entry
  BY DEF Sound, TypeOK, Positions
<1>7. /\ toTrace' \in Seq(Object) /\ Head(toTrace) = toTrace[1]
      /\ Len(toTrace) \in Nat \ {0} /\ Len(toTrace') = Len(toTrace) - 1
      /\ \A n \in 1 .. Len(toTrace') : toTrace'[n] = toTrace[n + 1]
  BY <1>1, <1>6, HeadTailProperties
<1>8. Head(toTrace) \in Object /\ Head(toTrace) \in Entry
  BY <1>6, <1>7
<1>9. \A n \in 1 .. Len(toTrace') : toTrace'[n] \in Entry
  BY <1>6, <1>7
<1>10. ASSUME NEW o, Begun(o)', o # Head(toTrace) PROVE Begun(o)
  <2>1. o \in Entry
    BY <1>1, <1>10 DEF Begun, Entry
  <2>2. ASSUME NEW n \in 1 .. Len(toTrace) PROVE toTrace[n] # o
    <3>1. CASE n = 1
      BY <3>1, <1>7, <1>10
    <3>2. CASE n # 1
      <4>1. n - 1 \in 1 .. Len(toTrace') /\ (n - 1) + 1 = n
        BY <3>2, <1>7
      <4> QED BY <4>1, <1>7, <1>10 DEF Begun
    <3> QED BY <3>1, <3>2
  <2> QED BY <2>1, <2>2 DEF Begun
<1> QED BY <1>2, <1>3, <1>4, <1>5, <1>7, <1>8, <1>9, <1>10

\* A marked entry is not traced again.
LEMMA MarkPhaseSkips ==
    ASSUME Sound, markPhase, Head(toTrace) \in marked
    PROVE  Sound'
<1> USE DEF StartField, StartObj, Upward, Done
<1> DEFINE o == Head(toTrace)
<1>1. TypeOK /\ IsGraph(graph) /\ WayBackKept /\ Positions /\ OpenOnce
      /\ FollowsStrong /\ MarkedIsReachable /\ TracedOrPending
  BY DEF Sound
<1>2. /\ action = 4
      /\ UNCHANGED <<memory, headerType, marked, child, field, parentField,
                     action, entries, graph, path>>
  BY DEF markPhase, markAndTrace
<1>3. /\ toTrace' \in Seq(Object) /\ o \in Object /\ o \in Entry
      /\ \A n \in 1 .. Len(toTrace') : toTrace'[n] \in Entry
      /\ \A p : Begun(p)' => Begun(p) \/ p = o
      /\ \A m : ~Pending(m)
  BY BetweenEntries
<1>4. Open' = Open /\ Entry' = Entry /\ Pathed' = Pathed /\ Current' = Current
  BY <1>2 DEF Open, Entry, Pathed, Current
<1>5. TypeOK' /\ IsGraph(graph)'
  BY <1>1, <1>2, <1>3 DEF TypeOK, IsGraph
<1>6. WayBackKept'
  <2>1. \A n : NamedBy(n)' = NamedBy(n) /\ WayBack(n)' = WayBack(n)
    BY <1>2, <1>4 DEF NamedBy, WayBack
  <2> QED BY <2>1, <1>1, <1>2, <1>4 DEF WayBackKept
<1>7. Positions'
  BY <1>2, <1>3, <1>4 DEF Positions
<1>8. OpenOnce'
  BY <1>1, <1>2, <1>4 DEF OpenOnce
<1>9. \A p : LastStrong(p)' = LastStrong(p)
  BY <1>2 DEF LastStrong
<1>10. FollowsStrong'
  BY <1>1, <1>2, <1>4, <1>9 DEF FollowsStrong
<1>11. MarkedIsReachable'
  <2>1. \A S : Closed(Entry, S)' <=> Closed(Entry, S)
    BY <1>2, <1>4, <1>9 DEF Closed
  <2> QED BY <2>1, <1>1, <1>2 DEF MarkedIsReachable
<1>12. TracedOrPending'
  <2> HIDE DEF o
  <2>1. o \in marked /\ o \in Young
    BY <1>1 DEF TypeOK, o
  <2>2. \A p \in Young : Begun(p)' => p \in marked
    BY <2>1, <1>1, <1>3 DEF TracedOrPending
  <2>3. ASSUME NEW l \in Location, graph[l] \in Young,
               \/ Begun(l[1])' /\ l[1] \notin Young
               \/ l[1] \in marked /\ l[2] <= LastStrong(l[1])
        PROVE  graph[l] \in marked
    BY <2>1, <2>3, <1>1, <1>3 DEF TracedOrPending
  <2> QED BY <2>2, <2>3, <1>2, <1>9 DEF TracedOrPending
<1> QED BY <1>5, <1>6, <1>7, <1>8, <1>10, <1>11, <1>12 DEF Sound

\* Another is, in all its fields.
LEMMA MarkPhaseTraces ==
    ASSUME Sound, markPhase, Head(toTrace) \notin marked
    PROVE  Sound'
<1> USE DEF StartField, StartObj, Upward, Done
<1> DEFINE o == Head(toTrace)
<1>1. TypeOK /\ IsGraph(graph) /\ WayBackKept /\ Positions /\ OpenOnce
      /\ FollowsStrong /\ MarkedIsReachable /\ TracedOrPending
  BY DEF Sound
<1>2. /\ action = 4 /\ action' = 1
      /\ headerType' = [headerType EXCEPT ![o] = HeaderTypeGC]
      /\ marked' = marked \cup ({o} \cap Young)
      /\ parentField' = GCTopMarker /\ child' = o
      /\ field' = <<o, lastPointerOf[o]>>
      /\ UNCHANGED <<memory, path, entries, graph>>
  BY DEF markPhase, markAndTrace
<1>3. /\ toTrace' \in Seq(Object) /\ o \in Object /\ o \in Entry
      /\ \A n \in 1 .. Len(toTrace') : toTrace'[n] \in Entry
      /\ \A p : Begun(p)' => Begun(p) \/ p = o
      /\ \A m : ~Pending(m)
      /\ Len(path) = 0 /\ path = <<>> /\ Pathed = {} /\ Open = {}
  BY BetweenEntries
<1> HIDE DEF o
<1>4. /\ lastPointerOf[o] \in Nat /\ lastPointerOf[o] \in 0 .. lastPointerOf[o]
      /\ field'[1] = o /\ field'[2] = lastPointerOf[o]
  BY <1>2, <1>3, ObjectAssumption
<1>5. Open' = {o} /\ Entry' = Entry /\ Pathed' = {}
  BY <1>2, <1>3, <1>4 DEF Open, Entry, Pathed
<1>6. TypeOK' /\ IsGraph(graph)'
  <2>1. field' \in Location \cup {header(p) : p \in Object}
    <3>1. CASE lastPointerOf[o] = 0
      BY <3>1, <1>2, <1>3 DEF header
    <3>2. CASE lastPointerOf[o] # 0
      BY <3>2, <1>2, <1>3, <1>4, LocationsAre
    <3> QED BY <3>1, <3>2
  <2>2. headerType' \in [Object -> 0 .. 3]
    <3>1. headerType \in [Object -> 0 .. 3] /\ HeaderTypeGC \in 0 .. 3
      BY <1>1 DEF TypeOK, HeaderTypeGC
    <3> QED BY <3>1, <1>2
  <2>3. marked' \subseteq Young
    BY <1>1, <1>2 DEF TypeOK
  <2> QED BY <2>1, <2>2, <2>3, <1>1, <1>2, <1>3 DEF TypeOK, IsGraph
<1>7. WayBackKept'
  <2>1. parentField' = WayBack(Len(path))'
    BY <1>2, <1>3 DEF WayBack
  <2>2. \A p \in Object : headerType'[p] =
                             IF p \in Open' THEN HeaderTypeGC ELSE rightType(p)
    BY <1>1, <1>2, <1>3, <1>5 DEF WayBackKept, TypeOK
  <2>3. path' = <<>> /\ \A n : n \notin 1 .. Len(path')
    BY <1>2, <1>3
  <2> QED BY <2>1, <2>2, <2>3, <1>1, <1>2, <1>3, <1>5 DEF WayBackKept
<1>8. Positions'
  BY <1>2, <1>3, <1>4, <1>5 DEF Positions
<1>9. OpenOnce'
  <2>1. path' = <<>> /\ \A n : n \notin 1 .. Len(path') /\ n \notin 2 .. Len(path')
    BY <1>2, <1>3
  <2> QED BY <2>1, <1>2, <1>5 DEF OpenOnce
<1>10. \A p : LastStrong(p)' = LastStrong(p)
  BY <1>2 DEF LastStrong
<1>11. FollowsStrong'
  <2>1. \A n : n \notin 1 .. Len(path')
    BY <1>2, <1>3
  <2> QED BY <2>1, <1>3, <1>4, <1>5 DEF FollowsStrong
<1>12. MarkedIsReachable'
  <2>1. \A S : Closed(Entry, S)' <=> Closed(Entry, S)
    BY <1>2, <1>5, <1>10 DEF Closed
  <2>2. \A S : Closed(Entry, S) => {o} \cap Young \subseteq S
    BY <1>3 DEF Closed
  <2> QED BY <2>1, <2>2, <1>1, <1>2 DEF MarkedIsReachable
<1>13. TracedOrPending'
  <2>1. \A p \in Young : Begun(p)' => p \in marked'
    BY <1>1, <1>2, <1>3 DEF TracedOrPending
  <2>2. ASSUME NEW l \in Location, l[1] = o PROVE Pending(l)'
    BY <2>2, <1>2, <1>4, LocationShape DEF Pending
  <2>3. ASSUME NEW l \in Location, l[1] # o, graph[l] \in Young,
               \/ Begun(l[1])' /\ l[1] \notin Young
               \/ l[1] \in marked' /\ l[2] <= LastStrong(l[1])
        PROVE  graph[l] \in marked'
    <3>1. \/ Begun(l[1]) /\ l[1] \notin Young
          \/ l[1] \in marked /\ l[2] <= LastStrong(l[1])
      BY <2>3, <1>2, <1>3
    <3> QED BY <2>3, <3>1, <1>1, <1>2, <1>3 DEF TracedOrPending
  <2> QED BY <2>1, <2>2, <2>3, <1>2, <1>10 DEF TracedOrPending
<1> QED BY <1>6, <1>7, <1>8, <1>9, <1>11, <1>12, <1>13 DEF Sound

\* A step that changes no variable keeps the invariant.
LEMMA StutterStep ==
    ASSUME Sound, UNCHANGED vars PROVE Sound'
<1>1. UNCHANGED <<memory, headerType, marked, toTrace, child, field,
                  parentField, action, entries, graph, path>>
  BY DEF vars
<1>2. Open' = Open /\ Entry' = Entry /\ Pathed' = Pathed /\ Current' = Current
  BY <1>1 DEF Open, Entry, Pathed, Current
<1>3. TypeOK' /\ IsGraph(graph)' /\ Positions'
  BY <1>1, <1>2 DEF Sound, TypeOK, IsGraph, Positions
<1>4. WayBackKept'
  <2>1. \A n : NamedBy(n)' = NamedBy(n) /\ WayBack(n)' = WayBack(n)
    BY <1>1, <1>2 DEF NamedBy, WayBack
  <2> QED BY <2>1, <1>1, <1>2 DEF Sound, WayBackKept
<1>5. OpenOnce'
  BY <1>1, <1>2 DEF Sound, OpenOnce
<1>6. \A p : /\ LastStrong(p)' = LastStrong(p) /\ (Begun(p)' <=> Begun(p))
             /\ (Pending(p)' <=> Pending(p))
  BY <1>1, <1>2 DEF LastStrong, Begun, Pending
<1>7. FollowsStrong'
  BY <1>1, <1>2, <1>6 DEF Sound, FollowsStrong
<1>8. MarkedIsReachable'
  <2>1. \A S : Closed(Entry, S)' <=> Closed(Entry, S)
    BY <1>1, <1>2, <1>6 DEF Closed
  <2> QED BY <2>1, <1>1 DEF Sound, MarkedIsReachable
<1>9. TracedOrPending'
  BY <1>1, <1>6 DEF Sound, TracedOrPending
<1> QED BY <1>3, <1>4, <1>5, <1>7, <1>8, <1>9 DEF Sound

-----------------------------------------------------------------------------
(* The theorems.                                                           *)

\* Before marking nothing is reversed, marked or begun.
LEMMA InitSound ==
    ASSUME Init PROVE Sound
<1> USE DEF StartField, StartObj, Upward, Done
<1>1. /\ IsGraph(graph) /\ memory = graph /\ marked = {}
      /\ headerType = [o \in Object |-> rightType(o)]
      /\ entries \in EntryLists /\ toTrace = entries
      /\ child = SmallInteger /\ field = GCTopMarker
      /\ parentField = GCTopMarker /\ action = 4 /\ path = <<>>
  BY DEF Init
<1>2. Len(path) = 0 /\ \A n : n \notin 1 .. Len(path) /\ n \notin 2 .. Len(path)
  BY <1>1
<1>3. entries \in Seq(Object)
  BY <1>1, ObjectAssumption
<1>4. \A n \in 1 .. Len(toTrace) : toTrace[n] \in Entry
  BY <1>1 DEF Entry
<1>5. Open = {} /\ Pathed = {}
  BY <1>1, <1>2 DEF Open, Pathed
<1>6. TypeOK
  <2>1. memory \in [Location -> Object \cup {SmallInteger, GCTopMarker}
                                     \cup Location]
    BY <1>1 DEF IsGraph
  <2>2. headerType \in [Object -> 0 .. 3]
    BY <1>1 DEF rightType, HeaderTypeSizeAndClass, HeaderTypeShort,
                HeaderTypeClass
  <2>3. path \in Seq(Location)
    BY <1>1
  <2> QED BY <2>1, <2>2, <2>3, <1>1, <1>3 DEF TypeOK
<1>7. WayBackKept
  <2>1. parentField = WayBack(Len(path))
    BY <1>1, <1>2 DEF WayBack
  <2>2. \A o \in Object : headerType[o] = rightType(o)
    BY <1>1
  <2> QED BY <2>1, <2>2, <1>1, <1>2, <1>5 DEF WayBackKept
<1>8. Positions
  BY <1>1, <1>4 DEF Positions
<1>9. OpenOnce /\ FollowsStrong
  BY <1>1, <1>2, <1>5 DEF OpenOnce, FollowsStrong
<1>10. MarkedIsReachable
  BY <1>1 DEF MarkedIsReachable
<1>11. TracedOrPending
  <2>1. \A o : ~Begun(o)
    BY <1>1 DEF Begun, Entry
  <2> QED BY <2>1, <1>1 DEF TracedOrPending
<1> QED BY <1>1, <1>6, <1>7, <1>8, <1>9, <1>10, <1>11 DEF Sound

\* The invariant holds of every memory and every list of entries.
THEOREM MarkingSound == Spec => []Sound
<1>1. Init => Sound
  BY InitSound
<1>2. Sound /\ [Next]_vars => Sound'
  <2> SUFFICES ASSUME Sound, [Next]_vars PROVE Sound'
    OBVIOUS
  <2>1. CASE markPhase
    BY <2>1, MarkPhaseSkips, MarkPhaseTraces
  <2>2. CASE scanPointer
    BY <2>2, ScanPointerStep
  <2>3. CASE scanInteger
    BY <2>3, ScanIntegerStep
  <2>4. CASE scanCompactHeader
    BY <2>4, ScanCompactHeaderStep
  <2>5. CASE scanClass
    BY <2>5, ScanClassStep
  <2>6. CASE startObj
    BY <2>6, StartObjSkips, StartObjEnters
  <2>7. CASE upwardToTop
    BY <2>7, UpwardToTopStep
  <2>8. CASE upwardToClassWord
    BY <2>8, UpwardToClassWordStep
  <2>9. CASE upwardToField
    BY <2>9, UpwardToFieldStep
  <2>10. CASE UNCHANGED vars
    BY <2>10, StutterStep
  <2> QED BY <2>1, <2>2, <2>3, <2>4, <2>5, <2>6, <2>7, <2>8, <2>9, <2>10
          DEF Next, markPhaseEnds
<1> QED BY <1>1, <1>2, PTL DEF Spec

\* The variables keep their types: a word holds a value, or the location of
\* another reversed word, and only young objects are marked.
THEOREM TypeCorrect == Spec => []TypeOK
<1>1. Sound => TypeOK
  BY DEF Sound
<1> QED BY <1>1, MarkingSound, PTL

\* At every moment the memory can be put back, and it is when markAndTrace
\* returns.
THEOREM MemoryRestored == Spec => []WayBackKept
<1>1. Sound => WayBackKept
  BY DEF Sound
<1> QED BY <1>1, MarkingSound, PTL

\* Closed says of a set of young objects what the definition of reachability
\* says.
LEMMA ClosedIsReached ==
    ASSUME TypeOK, IsGraph(graph), NEW Holders, NEW S \in SUBSET Young
    PROVE  LET Seen == Entry \cup
                          {graph[l] : l \in {m \in Location : m[1] \in Holders}}
               links == [o \in Object |-> [l \in Location |->
                            IF l \in StrongWords(o) THEN graph[l]
                                                     ELSE SmallInteger]]
           IN  Closed(Holders, S) <=>
                 /\ Seen \cap Young \subseteq S
                 /\ \A o \in S, l \in Location :
                       links[o][l] \in Young => links[o][l] \in S
<1> DEFINE Seen == Entry \cup
                      {graph[l] : l \in {m \in Location : m[1] \in Holders}}
           links == [o \in Object |-> [l \in Location |->
                        IF l \in StrongWords(o) THEN graph[l]
                                                 ELSE SmallInteger]]
<1>1. ASSUME NEW o \in Object, NEW l \in Location
      PROVE  l \in StrongWords(o) <=> l[1] = o /\ l[2] <= LastStrong(o)
  <2>1. /\ l[1] \in Object /\ l[2] \in Int /\ l = <<l[1], l[2]>>
        /\ l[2] # 0 /\ l[2] >= -1 /\ l[2] <= lastPointerOf[l[1]]
        /\ lastPointerOf[o] \in Nat /\ LastStrong(o) \in 0 .. lastPointerOf[o]
    BY LocationShape, LimitFacts, ObjectAssumption
  <2>2. CASE o \notin Weak
    BY <2>1, <2>2 DEF StrongWords, LastStrong
  <2>3. CASE o \in Weak
    <3>1. l[2] = -1 \/ l[2] \in 1 .. lastPointerOf[l[1]]
      BY <2>1, ObjectAssumption
    <3>2. CASE l[2] = -1
      <4>1. l = classWordOf(o) <=> l[1] = o
        BY <3>2, <2>1 DEF classWordOf, ClassWord
      <4>2. l \notin Fields(o)
        BY <3>2 DEF Fields
      <4> QED BY <4>1, <4>2, <3>2, <2>1, <2>3 DEF StrongWords
    <3>3. CASE l[2] \in 1 .. lastPointerOf[l[1]]
      <4>1. l # classWordOf(o)
        BY <3>3, ObjectAssumption, <2>1 DEF classWordOf, ClassWord
      <4>2. l \in Fields(o) <=> l[1] = o
        BY <3>3, <2>1 DEF Fields
      <4> QED BY <4>1, <4>2, <2>3 DEF StrongWords, LastStrong
    <3> QED BY <3>1, <3>2, <3>3
  <2> QED BY <2>2, <2>3
<1>2. SmallInteger \notin Young /\ S \subseteq Object
  BY WordAssumption, ObjectAssumption
<1>3. ASSUME NEW o \in S, NEW l \in Location
      PROVE  links[o][l] \in Young
               <=> l[1] = o /\ l[2] <= LastStrong(o) /\ graph[l] \in Young
  BY <1>1, <1>2
<1>4. ASSUME NEW o \in S, NEW l \in Location, links[o][l] \in Young
      PROVE  links[o][l] = graph[l]
  BY <1>4, <1>2
<1>5. ASSUME Closed(Holders, S)
      PROVE  /\ Seen \cap Young \subseteq S
             /\ \A o \in S, l \in Location :
                   links[o][l] \in Young => links[o][l] \in S
  <2> HIDE DEF links
  <2>1. Seen \cap Young \subseteq S
    BY <1>5 DEF Closed
  <2>2. ASSUME NEW o \in S, NEW l \in Location, links[o][l] \in Young
        PROVE  links[o][l] \in S
    BY <2>2, <1>3, <1>4, <1>5 DEF Closed
  <2> QED BY <2>1, <2>2
<1>6. ASSUME Seen \cap Young \subseteq S,
             \A o \in S, l \in Location :
                links[o][l] \in Young => links[o][l] \in S
      PROVE  Closed(Holders, S)
  <2> HIDE DEF links
  <2>1. Entry \cap Young \subseteq S
    BY <1>6
  <2>2. ASSUME NEW l \in Location, l[1] \in Holders, graph[l] \in Young
        PROVE  graph[l] \in S
    BY <2>2, <1>6
  <2>3. ASSUME NEW l \in Location, l[1] \in S, l[2] <= LastStrong(l[1]),
               graph[l] \in Young
        PROVE  graph[l] \in S
    <3>1. links[l[1]][l] \in Young
      BY <2>3, <1>3
    <3>2. links[l[1]][l] = graph[l]
      BY <2>3, <3>1, <1>4
    <3> QED BY <2>3, <3>1, <3>2, <1>6
  <2> QED BY <2>1, <2>2, <2>3 DEF Closed
<1> QED BY <1>5, <1>6

\* ReachedFrom is the least closed set.
LEMMA ReachedIsLeast ==
    ASSUME TypeOK, IsGraph(graph), NEW Holders
    PROVE  ReachedFrom(Holders) = {o \in Young : \A S \in SUBSET Young :
                                      Closed(Holders, S) => o \in S}
<1> DEFINE Seen == Entry \cup
                      {graph[l] : l \in {m \in Location : m[1] \in Holders}}
           links == [o \in Object |-> [l \in Location |->
                        IF l \in StrongWords(o) THEN graph[l]
                                                 ELSE SmallInteger]]
           Stops(S) == \A o \in S, l \in Location :
                          links[o][l] \in Young => links[o][l] \in S
<1>1. \A S \in SUBSET Young :
         Closed(Holders, S) <=> Seen \cap Young \subseteq S /\ Stops(S)
  BY ClosedIsReached
<1>2. ReachedFrom(Holders) =
         {o \in Young : \A S \in SUBSET Young :
                           (Seen \cap Young \subseteq S /\ Stops(S)) => o \in S}
  <2> DEFINE Within(S) == Seen \cap Young \subseteq S /\ Stops(S)
  <2>1. ReachedFrom(Holders) =
           {o \in Young : \A S \in SUBSET (Young \ {o}) : ~Within(S)}
    BY DEF ReachedFrom, Reached
  <2> HIDE DEF Within
  <2>2. ASSUME NEW o \in Young
        PROVE  (\A S \in SUBSET (Young \ {o}) : ~Within(S))
                  <=> \A S \in SUBSET Young : Within(S) => o \in S
    OBVIOUS
  <2> QED BY <2>1, <2>2 DEF Within
<1> HIDE DEF Seen, Stops
<1> QED BY <1>1, <1>2

\* What is marked at the end is what is reachable.
THEOREM MarkingCorrect == Spec => []MarksReachable
<1>1. Sound => MarksReachable
  <2> SUFFICES ASSUME Sound, action = Done, toTrace = <<>>
               PROVE  /\ ReachedFrom(Entry \ Young) \subseteq marked
                      /\ marked \subseteq ReachedFrom(Entry)
    BY DEF MarksReachable
  <2>1. TypeOK /\ IsGraph(graph) /\ marked \in SUBSET Young
    BY DEF Sound, TypeOK
  <2>2. path = <<>> /\ \A n : n \notin 1 .. Len(path) /\ n \notin 1 .. Len(toTrace)
    BY DEF Sound, WayBackKept
  <2>3. \A l : ~Pending(l)
    BY <2>2 DEF Pending, Done, StartField
  <2>4. \A o \in Entry : Begun(o)
    BY <2>2 DEF Begun
  <2>5. Closed(Entry \ Young, marked)
    BY <2>1, <2>3, <2>4 DEF Closed, Sound, TracedOrPending
  <2>6. \A S \in SUBSET Young : Closed(Entry, S) => marked \subseteq S
    BY DEF Sound, MarkedIsReachable
  <2>7. ReachedFrom(Entry \ Young) \subseteq marked
    BY <2>1, <2>5, ReachedIsLeast
  <2>8. marked \subseteq ReachedFrom(Entry)
    BY <2>1, <2>6, ReachedIsLeast
  <2> QED BY <2>7, <2>8
<1> QED BY <1>1, MarkingSound, PTL

\* If no young entry is weak, as for those of ObjectMemory, the two bounds
\* are the same set: the marks are its Marked.
THEOREM MarkingExact ==
    Spec => [](action = Done /\ toTrace = <<>> /\ Entry \cap Weak \cap Young = {}
                  => marked = ReachedFrom(Entry))
<1>1. Sound /\ MarksReachable =>
        (action = Done /\ toTrace = <<>> /\ Entry \cap Weak \cap Young = {}
            => marked = ReachedFrom(Entry))
  <2> SUFFICES ASSUME Sound, MarksReachable, action = Done, toTrace = <<>>,
                      Entry \cap Weak \cap Young = {}
               PROVE  marked = ReachedFrom(Entry)
    OBVIOUS
  <2>1. TypeOK /\ IsGraph(graph)
    BY DEF Sound
  <2>2. ASSUME NEW S \in SUBSET Young, Closed(Entry \ Young, S)
        PROVE  Closed(Entry, S)
    <3>1. ASSUME NEW l \in Location, l[1] \in Entry \cap Young
          PROVE  l[2] <= LastStrong(l[1]) /\ l[1] \in S
      BY <2>2, <3>1, LocationShape DEF LastStrong, Closed
    <3> QED BY <2>2, <3>1 DEF Closed
  <2>3. ReachedFrom(Entry) \subseteq ReachedFrom(Entry \ Young)
    BY <2>1, <2>2, ReachedIsLeast
  <2> QED BY <2>3 DEF MarksReachable
<1> QED BY <1>1, MarkingSound, MarkingCorrect, PTL
=============================================================================
