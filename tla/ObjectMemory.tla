---------------------------- MODULE ObjectMemory ----------------------------
(***************************************************************************)
(* The generational object memory of interp.c.  Objects below youngStart   *)
(* are old; an incremental collection marks and sweeps only the young ones *)
(* and finds the old objects that point to them in the root table.         *)
(*                                                                         *)
(* An object is known by its identity: compaction, which moves it and      *)
(* updates every pointer to it, does not appear, nor do the bytes of       *)
(* objects, or immediate integers (nilObj stands for them).  A context's   *)
(* variables and its stack are one or more slots.  heap is one record, and *)
(* the functions of the source are operators from a heap to the heap they  *)
(* leave.                                                                  *)
(***************************************************************************)
EXTENDS Integers, FiniteSets, Reachability

CONSTANTS
    Object,                 \* the objects there can be at one time
    Slot,                   \* the names of their fields
    SlotsOf,                \* Object -> SUBSET Slot
    WeakSlots,              \* the fields of weak objects that are weak
    Context,                \* the objects that are contexts
    SenderSlot,             \* the sender (caller) field of every context
    HomeSlot,               \* the home field of a block context
    nilObj,                 \* nil and everything else that is never moved
    specialObjectsOop,      \* the special objects array
    Image,                  \* the objects of the image file
    FirstContext,           \* the context the image resumes
    RootTableRedZone,       \* 2400 in interp.c
    RootTableSize,          \* 2500
    AllocationsBetweenGCs,  \* 4000, settable by the image
    TenuringThreshold,      \* 2000, settable by the image
    BecomeWithFullTable,    \* may become: run while the root table is full?
    BlockSendersRead        \* may a running block be asked for its sender?

Block == {c \in Context : HomeSlot \in SlotsOf[c]}
StrongSlots == Slot \ WeakSlots
\* What the bytecodes and primitives store into; sender and home have
\* operations of their own.
StackSlots(o) == SlotsOf[o] \ {SenderSlot, HomeSlot}
NoFields == [s \in Slot |-> nilObj]

ASSUME NilAssumption == nilObj \notin Object
ASSUME SlotsAssumption ==
    /\ SlotsOf \in [Object -> SUBSET Slot]
    /\ WeakSlots \subseteq Slot \ {SenderSlot, HomeSlot}
    /\ SenderSlot \in Slot /\ HomeSlot \in Slot /\ SenderSlot # HomeSlot
ASSUME ImageAssumption ==
    /\ IsFiniteSet(Object)
    /\ Context \subseteq Object
    /\ \A c \in Context : SlotsOf[c] \cap WeakSlots = {}
    /\ Image \subseteq Object
    /\ specialObjectsOop \in Image \ Context
    /\ FirstContext \in Image \cap (Context \ Block)
    /\ Image \cap Block = {}  \* every field starts as nil, which is no home
ASSUME LimitsAssumption ==
    /\ RootTableRedZone \in Nat \ {0} /\ RootTableSize \in Nat
    /\ RootTableRedZone < RootTableSize
    /\ AllocationsBetweenGCs \in Nat \ {0} /\ TenuringThreshold \in Nat
    /\ BecomeWithFullTable \in BOOLEAN /\ BlockSendersRead \in BOOLEAN

VARIABLE heap
(* heap.old, heap.young      the objects below and above youngStart        *)
(* heap.fields               what each field of each object holds          *)
(* heap.rootTable            the objects in rootTable[1..rootTableCount]   *)
(* heap.rootTableCount       its entries, duplicates counted               *)
(* heap.rootBit              the objects with RootBit in their header      *)
(* heap.allocationCount      allocations since the last collection         *)
(* heap.finalizationPending  pendingFinalizationSignals > 0                *)
(* heap.activeContext, heap.theHomeContext   the registers                 *)
(* heap.freeContexts         the contexts to be used again                 *)
(* heap.reclaimableContextCount   how many contexts, from the active one   *)
(*                           up the chain of senders, only the chain knows *)

Live(h) == h.old \cup h.young

-----------------------------------------------------------------------------
(* The spaces.                                                             *)

\* The contexts a return to target leaves, from the active one up its chain
\* of senders.
Returned(h, target) ==
    Reached(h.fields, {h.activeContext} \ {target}, {SenderSlot},
            Live(h) \ {target})

\* Is a context on the chain within the count?  A return reclaims those of
\* methods that are.
Reclaimable(h, c) ==
    Cardinality(Returned(h, c)) < h.reclaimableContextCount

\* What bytecodes push from: the stack of the active context, and the
\* temporaries of its home.
OnHand(h) ==
    UNION {{h.fields[c][s] : s \in StackSlots(c)} :
              c \in {h.activeContext, h.theHomeContext}}

\* A context is a value only after thisContext, which pushes it, but a block
\* is one from its creation.
Visible(h) ==
    LET hidden == IF BlockSendersRead THEN {}
                  ELSE {b \in Block \cap Live(h) : Reclaimable(h, b)}
    IN  [o \in Object |->
           IF o \in hidden THEN [h.fields[o] EXCEPT ![SenderSlot] = nilObj]
                          ELSE h.fields[o]]

\* What the running image can name: a weak field is read like any other.
Accessible(h) ==
    Reached(Visible(h), ({specialObjectsOop} \cup OnHand(h)) \cap Live(h),
            Slot, Live(h))

-----------------------------------------------------------------------------
(* The root table.                                                         *)

\* Mutant: an entry past the end of the table is written all the same.
noteAsRoot_Overrun(h, o) ==
    IF o \in h.rootBit \/ h.rootTableCount > RootTableSize
    THEN h
    ELSE [h EXCEPT !.rootTable = @ \cup {o},
                   !.rootTableCount = @ + 1,
                   !.rootBit = @ \cup {o},
                   !.allocationCount = IF h.rootTableCount < RootTableRedZone
                                       THEN @ ELSE AllocationsBetweenGCs + 1]

\* Past the red zone the next allocation collects; a full table takes no
\* more entries, and incrementalGC then collects everything.
noteAsRoot(h, o) ==
    IF o \in h.rootBit \/ h.rootTableCount >= RootTableSize
    THEN h
    ELSE [h EXCEPT !.rootTable = @ \cup {o},
                   !.rootTableCount = @ + 1,
                   !.rootBit = @ \cup {o},
                   !.allocationCount = IF h.rootTableCount < RootTableRedZone
                                       THEN @ ELSE AllocationsBetweenGCs + 1]

possibleRootStoreInto(h, o, v) ==
    IF o \in h.old /\ v \in h.young THEN noteAsRoot(h, o) ELSE h

beRootIfOld(h, o) == IF o \in h.old THEN noteAsRoot(h, o) ELSE h

clearRootsTable(h) ==
    [h EXCEPT !.rootTable = {}, !.rootTableCount = 0,
              !.rootBit = @ \ h.rootTable]

\* Mutant: the store is not checked.
storePointer_Unchecked(h, o, s, v) == [h EXCEPT !.fields[o][s] = v]

storePointer(h, o, s, v) ==
    [possibleRootStoreInto(h, o, v) EXCEPT !.fields[o][s] = v]

-----------------------------------------------------------------------------
(* Garbage collection.                                                     *)

\* markPhase.  The objects that tracing starts from are traced in all their
\* fields, weak or not and old or not; the young objects met from there in
\* their strong fields; an old one met on the way is not entered.
Marked(h) ==
    LET Entries == {specialObjectsOop, h.activeContext} \cup h.rootTable
        Seen == {h.fields[o][s] : o \in Entries, s \in Slot} \cup Entries
    IN  Reached(h.fields, Seen \cap h.young, StrongSlots, h.young)

\* Mutant: finalizeReference forgets the semaphore.
sweepPhase_Silent(h) ==
    LET marked == Marked(h)
        gone == h.young \ marked
        Cleared(o, s) == s \in WeakSlots /\ h.fields[o][s] \in gone \cup {o}
    IN  [h EXCEPT
           !.young = marked,
           !.freeContexts = {},
           !.fields = [o \in Object |->
              IF o \in gone THEN NoFields
              ELSE [s \in Slot |-> IF o \in marked /\ Cleared(o, s)
                                   THEN nilObj ELSE h.fields[o][s]]]]

\* sweepPhase frees the young objects that are not marked and calls
\* finalizeReference on each weak survivor, once the mark of the survivor
\* has been taken off: its weak references to itself name an object without
\* a mark and are emptied and signalled like those to the freed.  The free
\* contexts, which the mark phase has dropped from their lists, are free
\* space like the others.
sweepPhase(h) ==
    LET marked == Marked(h)
        gone == h.young \ marked
        Cleared(o, s) == s \in WeakSlots /\ h.fields[o][s] \in gone \cup {o}
    IN  [h EXCEPT
           !.young = marked,
           !.freeContexts = {},
           !.fields = [o \in Object |->
              IF o \in gone THEN NoFields
              ELSE [s \in Slot |-> IF o \in marked /\ Cleared(o, s)
                                   THEN nilObj ELSE h.fields[o][s]]],
           !.finalizationPending =
              @ \/ \E o \in marked, s \in Slot : Cleared(o, s)]

\* youngStart := freeBlock
tenure(h) == [h EXCEPT !.old = @ \cup h.young, !.young = {}]

\* Mutant: a collection leaves the contexts it made old unrecorded.
postGCAction_Nothing(h) == h

\* The registers may now hold old contexts, which are written unchecked.
postGCAction(h) ==
    beRootIfOld(beRootIfOld(h, h.activeContext), h.theHomeContext)

fullGC(h) ==
    LET everything == [clearRootsTable(h) EXCEPT !.young = @ \cup h.old,
                                                 !.old = {}]
        swept == [sweepPhase(everything) EXCEPT !.allocationCount = 0]
    IN  postGCAction(tenure(swept))

incrementalGC(h) ==
    IF h.rootTableCount >= RootTableSize
    THEN fullGC(h)
    ELSE LET swept == [sweepPhase(h) EXCEPT !.allocationCount = 0]
             TenureNow == \/ Cardinality(swept.young) > TenuringThreshold
                          \/ swept.rootTableCount >= RootTableRedZone
         IN  postGCAction(IF TenureNow THEN tenure(clearRootsTable(swept))
                                       ELSE swept)

\* How much collecting an allocation needs to find its space, after the
\* collection that is due every AllocationsBetweenGCs allocations.
SpaceFound == {"at once", "after incrementalGC", "after fullGC"}

allocateChunk(h, space) ==
    LET due == IF h.allocationCount >= AllocationsBetweenGCs
               THEN incrementalGC(h) ELSE h
        found == CASE space = "at once" -> due
                   [] space = "after incrementalGC" -> incrementalGC(due)
                   [] space = "after fullGC" -> fullGC(incrementalGC(due))
    IN  [found EXCEPT !.allocationCount = @ + 1]

\* The new object is above freeBlock, so it is young, and its fields are nil.
instantiate(h, space, o) ==
    [allocateChunk(h, space) EXCEPT !.young = @ \cup {o},
                                    !.fields[o] = NoFields]

-----------------------------------------------------------------------------
(* Contexts.                                                               *)

\* newActiveContext with fetchContextRegisters: both registers' contexts are
\* made roots, because bytecodes then store into them unchecked.
newActiveContext(h, c) ==
    LET home == IF c \in Block THEN h.fields[c][HomeSlot] ELSE c
    IN  [beRootIfOld(beRootIfOld(h, c), home) EXCEPT
            !.activeContext = c, !.theHomeContext = home]

\* A context for a method: one of the size it needs that is free, or a new
\* one (if all that are free have the other size).
allocateOrRecycleContext(h, space, c) ==
    IF c \in h.freeContexts
    THEN [h EXCEPT !.young = @ \cup {c}, !.freeContexts = @ \ {c},
                   !.fields[c] = NoFields]
    ELSE instantiate(h, space, c)

-----------------------------------------------------------------------------
(* become:                                                                 *)

\* Mutant: only young objects are updated whenever the arrays are young.
BecomeRange_ArraysOnly(h, a, b, arraysYoung) ==
    IF arraysYoung THEN h.young \cup h.rootTable ELSE Live(h)

\* The objects whose fields become: updates.
BecomeRange(h, a, b, arraysYoung) ==
    IF arraysYoung /\ {a, b} \subseteq h.young
    THEN h.young \cup h.rootTable
    ELSE Live(h)

Swapped(fields, Visited, a, b) ==
    LET Swap(v) == CASE v = a -> b [] v = b -> a [] OTHER -> v
    IN  [o \in Object |-> IF o \in Visited
                          THEN [s \in Slot |-> Swap(fields[o][s])]
                          ELSE fields[o]]

\* Noted is what beRootWhileForwarding added to the table: all that needed
\* it, or as many of them, whichever the sweep met first, as there was room.
become(h, a, b, arraysYoung, Noted) ==
    LET Visited == BecomeRange(h, a, b, arraysYoung)
        fields == Swapped(h.fields, Visited, a, b)
        Needed == {o \in (Visited \cap h.old) \ h.rootBit : \E s \in Slot :
                      fields[o][s] \in {a, b} \cap h.young}
        Room == RootTableSize - h.rootTableCount
    IN  /\ Noted \subseteq Needed
        /\ Cardinality(Noted) =
              IF Cardinality(Needed) <= Room THEN Cardinality(Needed) ELSE Room
        /\ heap' =
             [h EXCEPT
                !.fields = fields,
                !.rootTable = @ \cup Noted,
                !.rootBit = @ \cup Noted,
                !.rootTableCount = @ + Cardinality(Noted),
                !.allocationCount =
                   IF /\ Noted # {}
                      /\ h.rootTableCount + Cardinality(Noted)
                            > RootTableRedZone
                   THEN AllocationsBetweenGCs + 1 ELSE @]

-----------------------------------------------------------------------------
(* The operations of the running image.                                    *)

\* A primitive or a bytecode stores v into an object it holds.
StorePointer ==
    LET named == Accessible(heap)
    IN  \E o \in named, v \in named \cup {nilObj} :
        \E s \in StackSlots(o) :
            heap' = storePointer(heap, o, s, v)

\* A push, or a store into a temporary of the home context: not checked.
StoreUnchecked ==
    LET named == Accessible(heap)
    IN  \E o \in {heap.activeContext, heap.theHomeContext},
           v \in named \cup {nilObj} :
        \E s \in StackSlots(o) :
            heap' = [heap EXCEPT !.fields[o][s] = v]

\* primitiveNew: the new object replaces the receiver on the stack.
PrimitiveNew ==
    \E o \in Object \ (Live(heap) \cup Context), space \in SpaceFound :
    \E s \in StackSlots(heap.activeContext) :
        heap' = [instantiate(heap, space, o)
                    EXCEPT !.fields[heap.activeContext][s] = o]

\* Mutant: the context may still be reclaimed.
PushThisContext_Reclaimable ==
    \E s \in StackSlots(heap.activeContext) :
        heap' = [heap EXCEPT !.fields[heap.activeContext][s] =
                                heap.activeContext]

\* thisContext: nothing that is on the chain now will be reclaimed.
PushThisContext ==
    \E s \in StackSlots(heap.activeContext) :
        heap' = [heap EXCEPT !.fields[heap.activeContext][s] =
                                heap.activeContext,
                             !.reclaimableContextCount = 0]

\* primitiveBlockCopy replaces its receiver, a context, by the block.  The
\* block's home is the receiver, or its home when that is itself a block.
PrimitiveBlockCopy ==
    \E b \in Block \ Live(heap), space \in SpaceFound,
       s \in StackSlots(heap.activeContext) :
        LET context == heap.fields[heap.activeContext][s]
            methodContext == IF context \in Block
                             THEN heap.fields[context][HomeSlot] ELSE context
        IN  /\ context \in Context
            /\ heap' = [instantiate(heap, space, b) EXCEPT
                           !.fields[b][HomeSlot] = methodContext,
                           !.fields[heap.activeContext][s] = b]

\* A send: activateNewMethod, with a receiver from the stack.
ActivateNewMethod ==
    \E c \in (Context \ Block) \ Live(heap), space \in SpaceFound :
        LET h == allocateOrRecycleContext(heap, space, c)
        IN  \E from \in StackSlots(heap.activeContext), to \in StackSlots(c) :
               heap' = newActiveContext(
                  [h EXCEPT
                      !.fields[c][SenderSlot] = h.activeContext,
                      !.fields[c][to] = h.fields[h.activeContext][from],
                      !.reclaimableContextCount = @ + 1], c)

\* primitiveValue: a block that is not already running.  A block's context
\* is not counted.
PrimitiveValue ==
    \E b \in Accessible(heap) \cap Block :
        /\ heap.fields[b][SenderSlot] = nilObj
        /\ heap' = newActiveContext(
                     [heap EXCEPT !.fields[b][SenderSlot] =
                                      heap.activeContext], b)

\* commonReturn, to the sender or (a ^ in a block) to the home's sender: every
\* context on the way loses its sender, and a young one of a method is used
\* again if it was within the count.  Left out is that a return which finds no
\* way there, or a context on it that is marked for unwinding, sends
\* cannotReturn: or aboutToReturn:through: instead, and the contexts stay: a
\* send with contexts as arguments, which may be within the count.
CommonReturn ==
    \E c \in {heap.activeContext, heap.theHomeContext},
       v \in OnHand(heap) \cup {nilObj} :
        LET target == heap.fields[c][SenderSlot]
            left == Returned(heap, target)
            count == heap.reclaimableContextCount - Cardinality(left)
            recycled == {o \in (left \cap heap.young) \ Block :
                            Reclaimable(heap, o)}
            h == [heap EXCEPT
                    !.young = @ \ recycled,
                    !.freeContexts = @ \cup recycled,
                    !.reclaimableContextCount = IF count < 0 THEN 0 ELSE count,
                    !.fields = [o \in Object |->
                       IF o \in recycled THEN NoFields
                       ELSE IF o \in left
                            THEN [@[o] EXCEPT ![SenderSlot] = nilObj]
                            ELSE @[o]]]
        IN  /\ target # nilObj
            /\ \A o \in left : heap.fields[o][SenderSlot] # nilObj
            /\ \E s \in StackSlots(target) :
                  heap' = [newActiveContext(h, target)
                              EXCEPT !.fields[target][s] = v]

\* primitiveArrayBecome of two arrays of one element each, that are young or
\* old themselves.  Contexts are left out, and the special objects array.
PrimitiveBecome ==
    /\ BecomeWithFullTable \/ heap.rootTableCount < RootTableSize
    /\ \E a, b \in Accessible(heap) \ (Context \cup {specialObjectsOop}),
          arraysYoung \in BOOLEAN :
         \E Noted \in SUBSET heap.old :
             a # b /\ become(heap, a, b, arraysYoung, Noted)

PrimitiveIncrementalGC == heap' = incrementalGC(heap)

\* primitiveFullGC collects twice.
PrimitiveFullGC == heap' = fullGC(incrementalGC(heap))

\* checkForInterrupts signals the finalization semaphore.
SignalFinalization ==
    /\ heap.finalizationPending
    /\ heap' = [heap EXCEPT !.finalizationPending = FALSE]

\* readImageFromFile: everything is old.  loadInitialContext records the
\* active context and initialCleanup takes its RootBit off again.
Init ==
    heap = [beRootIfOld(
              [old |-> Image, young |-> {},
               fields |-> [o \in Object |-> NoFields],
               rootTable |-> {}, rootTableCount |-> 0, rootBit |-> {},
               allocationCount |-> 0, finalizationPending |-> FALSE,
               activeContext |-> FirstContext,
               theHomeContext |-> FirstContext,
               freeContexts |-> {}, reclaimableContextCount |-> 0],
              FirstContext)
              EXCEPT !.rootBit = {}]

Next ==
    \/ StorePointer
    \/ StoreUnchecked
    \/ PrimitiveNew
    \/ PushThisContext
    \/ PrimitiveBlockCopy
    \/ ActivateNewMethod
    \/ PrimitiveValue
    \/ CommonReturn
    \/ PrimitiveBecome
    \/ PrimitiveIncrementalGC
    \/ PrimitiveFullGC
    \/ SignalFinalization

Spec == Init /\ [][Next]_heap

-----------------------------------------------------------------------------
(* Properties.                                                             *)

HeapType ==
    [old : SUBSET Object, young : SUBSET Object,
     fields : [Object -> [Slot -> Object \cup {nilObj}]],
     rootTable : SUBSET Object, rootTableCount : 0..RootTableSize,
     rootBit : SUBSET Object, allocationCount : Nat,
     finalizationPending : BOOLEAN,
     activeContext : Context, theHomeContext : Context,
     freeContexts : SUBSET (Context \ Block), reclaimableContextCount : Nat]

\* heap keeps its type: the two spaces are apart, roots are old, the table
\* keeps its bound, and a root bit is on a recorded object.
TypeOK ==
    /\ heap \in HeapType
    /\ heap.old \cap heap.young = {}
    /\ heap.freeContexts \cap Live(heap) = {}
    /\ heap.rootTable \subseteq heap.old
    /\ heap.rootBit \subseteq heap.rootTable

Recorded(h, o) == o \in h.rootTable \/ h.rootTableCount = RootTableSize

\* Every old object that points to a young one is in the root table, unless
\* the table is full and the next collection will not rely on it: the old to
\* young pointers of stores, collections, become: and context switches.
OldPointersKnown ==
    \A o \in heap.old, s \in Slot :
        heap.fields[o][s] \in heap.young => Recorded(heap, o)

\* The contexts the bytecodes store into unchecked are young or recorded,
\* however they became current and whenever they became old.
ContextsRooted ==
    \A c \in {heap.activeContext, heap.theHomeContext} :
        c \in heap.old => Recorded(heap, c)

\* Nothing in memory, garbage included, and neither register holds an object
\* that a collection has freed.
NoDangling ==
    /\ {specialObjectsOop, heap.activeContext, heap.theHomeContext}
          \subseteq Live(heap)
    /\ \A o \in Live(heap), s \in Slot :
           heap.fields[o][s] \in Live(heap) \cup {nilObj}

\* A table beyond its red zone makes the very next allocation collect, so
\* the red zone is all that can be recorded between two allocations.
RedZoneForcesCollection ==
    heap.rootTableCount > RootTableRedZone =>
        heap.allocationCount > AllocationsBetweenGCs

\* When a collection empties a weak field of an object that stays, the
\* finalization semaphore is owed a signal.
FinalizationOwed ==
    [][ (\E o \in Live(heap) \cap Live(heap)', s \in WeakSlots :
             /\ heap.fields[o][s] \in Live(heap) \ Live(heap)'
             /\ heap'.fields[o][s] = nilObj)
        => heap'.finalizationPending ]_heap

\* The image sees a memory without generations in which only what it cannot
\* reach ever disappears, and its weak references with it; of those to what
\* stays a collection takes none but an object's own to itself.
Abstract == INSTANCE Heap WITH
    live <- Live(heap), fields <- heap.fields,
    activeContext <- heap.activeContext, theHomeContext <- heap.theHomeContext
Implements == Abstract!Spec

\* become: swaps all references to the two objects.  (A step that a plain
\* store could have made as well is given the benefit of the doubt.)
ReferencesSwapped ==
    [][PrimitiveBecome => Abstract!Become \/ Abstract!Store]_heap

\* A full collection leaves a weak reference to an object that stays alone:
\* finalizeReference empties it only if its object is gone or about to go.
WeakReferencesKept ==
    [][ PrimitiveFullGC =>
          \A o \in Live(heap)', s \in WeakSlots :
              heap.fields[o][s] \in Live(heap)' =>
                  heap'.fields[o][s] = heap.fields[o][s] ]_heap
=============================================================================
