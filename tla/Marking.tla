------------------------------ MODULE Marking ------------------------------
(***************************************************************************)
(* The mark phase of interp.c.  markAndTrace has no stack: while it is     *)
(* inside an object it came to through a field, that field holds the way   *)
(* back (parentField) and not the object, and header type bits that no     *)
(* object has at rest (HeaderTypeGC) mark the end of the fields, which are *)
(* scanned from the last to the header.  What it is inside is then         *)
(* put back on the way out.                                                *)
(*                                                                         *)
(* A location is <<o, i>>: field i of o, or its header (i = 0, which is    *)
(* also the address that a pointer to o holds), or its class word.  The    *)
(* memory maps fields and class words to what they hold; mark and type     *)
(* bits have variables of their own.  A way back to a class word has the   *)
(* low bit set in the code; its location says as much here.                *)
(***************************************************************************)
EXTENDS Integers, Sequences, Reachability

CONSTANTS
    Object,
    Young,         \* the objects at or above youngStart
    Compact,       \* those with a compact class: no class word is traced
    Large,         \* those with a size word in front of the class word
    Weak,          \* those whose indexed fields are weak references
    lastPointerOf, \* Object -> Nat: how many words are pointers
    FixedFields,   \* Object -> Nat: what an object, as a class, says of the
                   \*   number of named fields of its instances
    EntryLists,    \* what markPhase may start from: the interpreter's oops and
                   \*   then the root table, where an object may come again
    SmallInteger,  \* any immediate integer
    GCTopMarker

HeaderTypeSizeAndClass == 0
HeaderTypeClass == 1
HeaderTypeGC == 2
HeaderTypeShort == 3

StartField == 1
StartObj == 2
Upward == 3
Done == 4

ClassWord == -1
header(o) == <<o, 0>>
classWordOf(o) == <<o, ClassWord>>
Fields(o) == {<<o, i>> : i \in 1 .. lastPointerOf[o]}
HasClassWord == Object \ Compact
Location == (UNION {Fields(o) : o \in Object})
                \cup {classWordOf(o) : o \in HasClassWord}

ASSUME ObjectAssumption ==
    /\ Young \subseteq Object /\ Compact \subseteq Object
    /\ Large \subseteq Object /\ EntryLists \subseteq Seq(Object)
    /\ lastPointerOf \in [Object -> Nat] /\ FixedFields \in [Object -> Nat]
\* No weak object has a compact class, whose lookup would pass through the
\* special objects array.
ASSUME WeakAssumption == Weak \subseteq HasClassWord
ASSUME WordAssumption ==
    /\ SmallInteger \notin Object
    /\ GCTopMarker \notin Object \cup Location \cup {SmallInteger}

\* What a word of a sound memory holds: a class word names a class, and a
\* weak object has the named fields its class gives it.
IsGraph(g) ==
    /\ g \in [Location -> Object \cup {SmallInteger}]
    /\ \A o \in HasClassWord : g[classWordOf(o)] \in Object
    /\ \A o \in Weak : FixedFields[g[classWordOf(o)]] <= lastPointerOf[o]

VARIABLES
    memory,        \* Location -> what the word holds
    headerType,    \* Object -> the type bits
    marked,        \* the objects with MarkBit
    toTrace,       \* the entries markPhase has still to trace
    child, field, parentField, action,  \* the locals of markAndTrace
    entries,       \* history: all the entries
    graph,         \* history: the memory before marking
    path           \* history: the words that hold ways back, newest last

vars == <<memory, headerType, marked, toTrace, child, field, parentField,
          action, entries, graph, path>>

-----------------------------------------------------------------------------
(* Helpers.                                                                *)

rightType(o) == IF o \in Large THEN HeaderTypeSizeAndClass
                ELSE IF o \in Compact THEN HeaderTypeShort
                ELSE HeaderTypeClass

\* Mutant: weak fields are traced like the others.
nonWeakFieldsOf_All(o) == lastPointerOf[o]

\* Read in the memory as it is, ways back included.
nonWeakFieldsOf(o) == FixedFields[memory[classWordOf(o)]]

lastFieldOf(o) == <<o, IF o \in Weak THEN nonWeakFieldsOf(o)
                                     ELSE lastPointerOf[o]>>

fieldBefore(l) == <<l[1], l[2] - 1>>

\* Leave through l the object that is being scanned, for the one l names.
enter(l) ==
    /\ child' = memory[l]
    /\ memory' = [memory EXCEPT ![l] = parentField]
    /\ parentField' = l
    /\ action' = StartObj
    /\ path' = Append(path, l)
    /\ UNCHANGED <<headerType, marked, toTrace, field, entries, graph>>

\* Put back what the word that led to the object of field named.
restoreParent ==
    /\ child' = field[1]
    /\ memory' = [memory EXCEPT ![parentField] = field[1]]
    /\ parentField' = memory[parentField]
    /\ path' = SubSeq(path, 1, Len(path) - 1)
    /\ UNCHANGED <<marked, toTrace, entries, graph>>

-----------------------------------------------------------------------------
Init ==
    /\ graph \in [Location -> Object \cup {SmallInteger}]
    /\ IsGraph(graph)
    /\ memory = graph
    /\ headerType = [o \in Object |-> rightType(o)]
    /\ marked = {}
    /\ entries \in EntryLists
    /\ toTrace = entries
    /\ child = SmallInteger /\ field = GCTopMarker
    /\ parentField = GCTopMarker
    /\ action = Done
    /\ path = <<>>

\* The fields of an entry are all traced, weak or not; an old one gets no
\* mark, so that a second call traces it again.
markAndTrace(o) ==
    /\ IF o \in marked
       THEN UNCHANGED <<memory, headerType, marked, child, field,
                        parentField, action, path>>
       ELSE /\ headerType' = [headerType EXCEPT ![o] = HeaderTypeGC]
            /\ marked' = marked \cup ({o} \cap Young)
            /\ parentField' = GCTopMarker
            /\ child' = o
            /\ field' = <<o, lastPointerOf[o]>>
            /\ action' = StartField
            /\ UNCHANGED <<memory, path>>

markPhase ==
    /\ action = Done
    /\ toTrace # <<>>
    /\ toTrace' = Tail(toTrace)
    /\ markAndTrace(Head(toTrace))
    /\ UNCHANGED <<entries, graph>>

\* The word at field is a pointer, an integer, or the header.
scanPointer ==
    /\ action = StartField
    /\ field \in Location
    /\ memory[field] \in Object
    /\ enter(field)

scanInteger ==
    /\ action = StartField
    /\ field \in Location
    /\ memory[field] = SmallInteger
    /\ child' = SmallInteger
    /\ field' = fieldBefore(field)
    /\ UNCHANGED <<memory, headerType, marked, toTrace, parentField, action,
                   entries, graph, path>>

AtHeader == /\ action = StartField
            /\ field = header(field[1])
            /\ headerType[field[1]] = HeaderTypeGC

\* child takes the header word, which nothing reads.
scanCompactHeader ==
    /\ AtHeader
    /\ field[1] \in Compact
    /\ headerType' = [headerType EXCEPT ![field[1]] = rightType(field[1])]
    /\ action' = Upward
    /\ UNCHANGED <<memory, marked, toTrace, child, field, parentField,
                   entries, graph, path>>

scanClass ==
    /\ AtHeader
    /\ field[1] \in HasClassWord
    /\ enter(classWordOf(field[1]))

startObj ==
    /\ action = StartObj
    /\ IF child \in Young /\ child \notin marked
       THEN /\ headerType' = [headerType EXCEPT ![child] = HeaderTypeGC]
            /\ marked' = marked \cup {child}
            /\ field' = lastFieldOf(child)
            /\ action' = StartField
       ELSE /\ field' = header(child)
            /\ action' = Upward
            /\ UNCHANGED <<headerType, marked>>
    /\ UNCHANGED <<memory, toTrace, child, parentField, entries, graph, path>>

upwardToTop ==
    /\ action = Upward
    /\ parentField = GCTopMarker
    /\ headerType' = [headerType EXCEPT ![field[1]] = rightType(field[1])]
    /\ action' = Done
    /\ UNCHANGED <<memory, marked, toTrace, child, field, parentField,
                   entries, graph, path>>

\* Mutant: the header of the object whose class was traced keeps its bits.
upwardToClassWord_NoHeader ==
    /\ action = Upward
    /\ parentField # GCTopMarker /\ parentField[2] = ClassWord
    /\ restoreParent
    /\ field' = header(parentField[1])
    /\ UNCHANGED <<headerType, action>>

\* The class word comes last: the object is done.
upwardToClassWord ==
    /\ action = Upward
    /\ parentField # GCTopMarker /\ parentField[2] = ClassWord
    /\ restoreParent
    /\ headerType' = [headerType EXCEPT ![parentField[1]] =
                                            rightType(parentField[1])]
    /\ field' = header(parentField[1])
    /\ UNCHANGED action

\* Mutant: the field just left is scanned again.
upwardToField_Again ==
    /\ action = Upward
    /\ parentField # GCTopMarker /\ parentField[2] # ClassWord
    /\ restoreParent
    /\ field' = parentField
    /\ action' = StartField
    /\ UNCHANGED headerType

upwardToField ==
    /\ action = Upward
    /\ parentField # GCTopMarker /\ parentField[2] # ClassWord
    /\ restoreParent
    /\ field' = fieldBefore(parentField)
    /\ action' = StartField
    /\ UNCHANGED headerType

\* sweepPhase follows, which is another module's.
markPhaseEnds ==
    /\ action = Done /\ toTrace = <<>>
    /\ UNCHANGED vars

Next == \/ markPhase
        \/ scanPointer \/ scanInteger \/ scanCompactHeader \/ scanClass
        \/ startObj
        \/ upwardToTop \/ upwardToClassWord \/ upwardToField
        \/ markPhaseEnds

\* One thread runs the loop to its end.
Spec == Init /\ [][Next]_vars /\ WF_vars(Next)

-----------------------------------------------------------------------------
(* Properties.                                                             *)

TypeOK ==
    /\ memory \in [Location -> Object \cup {SmallInteger, GCTopMarker}
                                   \cup Location]
    /\ headerType \in [Object -> 0 .. 3]
    /\ marked \subseteq Young
    /\ toTrace \in Seq(Object) /\ entries \in EntryLists
    /\ child \in Object \cup {SmallInteger}
    /\ field \in Location \cup {header(o) : o \in Object} \cup {GCTopMarker}
    /\ parentField \in Location \cup {GCTopMarker}
    /\ action \in {StartField, StartObj, Upward, Done}
    /\ path \in Seq(Location)

Pathed == {path[n] : n \in 1 .. Len(path)}
Current == IF action = StartObj THEN child ELSE field[1]

\* The object that word n of the path names in the unmarked memory: the one
\* being visited, or the one the next word is in.
NamedBy(n) == IF n = Len(path) THEN Current ELSE path[n + 1][1]
WayBack(n) == IF n = 0 THEN GCTopMarker ELSE path[n]

\* The objects that have been entered and not left.
Open == {path[n][1] : n \in 1 .. Len(path)}
            \cup (IF action = StartField THEN {field[1]} ELSE {})

\* Whatever the trace is inside of can be put back: every reversed word
\* occurs once on the way from parentField to the top and tells what it
\* held, all other words are untouched, and exactly the open objects have
\* the header type that ends a scan.  Between two entries nothing is
\* reversed, so that the memory is as before (10936-11086).
WayBackKept ==
    /\ \A m, n \in 1 .. Len(path) : path[m] = path[n] => m = n
    /\ parentField = WayBack(Len(path))
    /\ \A n \in 1 .. Len(path) : /\ memory[path[n]] = WayBack(n - 1)
                                 /\ graph[path[n]] = NamedBy(n)
    /\ \A l \in Location \ Pathed : memory[l] = graph[l]
    /\ \A o \in Object :
          headerType[o] = IF o \in Open THEN HeaderTypeGC ELSE rightType(o)
    /\ action = Done => path = <<>>

\* The words tracing follows in o when it meets it on the way.
StrongWords(o) ==
    IF o \in Weak
    THEN {l \in Fields(o) : l[2] <= FixedFields[graph[classWordOf(o)]]}
             \cup {classWordOf(o)}
    ELSE {l \in Location : l[1] = o}

Entry == {entries[n] : n \in 1 .. Len(entries)}

\* The young objects that the entries are, that those in Holders name in any
\* word, and what is strongly reached from there through young objects.
ReachedFrom(Holders) ==
    LET Seen == Entry \cup
                   {graph[l] : l \in {m \in Location : m[1] \in Holders}}
        links == [o \in Object |-> [l \in Location |->
                     IF l \in StrongWords(o) THEN graph[l] ELSE SmallInteger]]
    IN  Reached(links, Seen \cap Young, Location, Young)

\* The loop without a stack computes what the recursive definition says, in
\* whatever order the entries come: the sweep frees what has no mark, so
\* that a missing one is a dangling pointer and one too many a weak
\* reference that is not cleared.  Old entries keep what they refer to
\* weakly, young ones may, if no other has reached them before (10938-11050).
MarksReachable ==
    action = Done /\ toTrace = <<>> =>
        /\ ReachedFrom(Entry \ Young) \subseteq marked
        /\ marked \subseteq ReachedFrom(Entry)

\* Marking ends, cycles and all (10936).
MarkingEnds == <>(action = Done /\ toTrace = <<>>)
=============================================================================
