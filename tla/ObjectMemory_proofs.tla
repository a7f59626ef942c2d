------------------------ MODULE ObjectMemory_proofs ------------------------
(***************************************************************************)
(* The safety of ObjectMemory for every set of objects and every setting   *)
(* of the collector.  Core is what holds of a heap even in the middle of   *)
(* an operation; Sound adds what a collection breaks until postGCAction    *)
(* and a context switch breaks until newActiveContext returns: that the    *)
(* current contexts, which are stored into unchecked, are recorded.  Safe  *)
(* adds what makes it right to use a context again: the first contexts of  *)
(* the chain of senders, as many as reclaimableContextCount says, are      *)
(* named by nothing but the chain (Chain).  Each function of the source    *)
(* gets a lemma that it keeps these, and each collection and operation one *)
(* of what the image sees of it, which is a step of Heap.  The theorems    *)
(* assume that no running block is asked for its sender, without which the *)
(* last part of Safe is false.                                             *)
(***************************************************************************)
EXTENDS ObjectMemory, FiniteSetTheorems, WellFoundedInduction, TLAPS

HomeOf(h, c) == IF c \in Block THEN h.fields[c][HomeSlot] ELSE c

Typed(h) ==
    /\ h \in HeapType
    /\ h.old \cap h.young = {}
    /\ h.freeContexts \cap Live(h) = {}
    /\ h.rootTable \subseteq h.old
    /\ h.rootBit \subseteq h.rootTable

Pointing(h) ==
    \A o \in Live(h), s \in Slot : h.fields[o][s] \in Live(h) \cup {nilObj}

Known(h) ==
    \A o \in h.old, s \in Slot :
        h.fields[o][s] \in h.young => Recorded(h, o)

\* The links between contexts lead to contexts, and a home is a method's.
Linked(h) ==
    /\ \A c \in Live(h) \cap Context :
          h.fields[c][SenderSlot] \in Context \cup {nilObj}
    /\ \A c \in Live(h) \cap Block : h.fields[c][HomeSlot] \in Context \ Block

Registers(h) ==
    /\ {specialObjectsOop, h.activeContext} \subseteq Live(h)
    /\ h.theHomeContext = HomeOf(h, h.activeContext)

RedZone(h) ==
    h.rootTableCount > RootTableRedZone =>
        h.allocationCount > AllocationsBetweenGCs

Core(h) ==
    Typed(h) /\ Pointing(h) /\ Known(h) /\ Linked(h) /\ Registers(h)

Rooted(h) ==
    \A c \in {h.activeContext, h.theHomeContext} :
        c \in h.old => Recorded(h, c)

Sound(h) == Core(h) /\ RedZone(h) /\ Rooted(h)

\* What a collection from h to g leaves to the image.
Kept(h, g) ==
    /\ g.activeContext = h.activeContext
    /\ g.theHomeContext = h.theHomeContext
    /\ g.reclaimableContextCount = h.reclaimableContextCount
    /\ g.freeContexts \subseteq h.freeContexts
    /\ Live(g) \subseteq Live(h)
    /\ \A o \in Live(g), s \in Slot :
          g.fields[o][s] \in {nilObj, h.fields[o][s]}
    /\ \A o \in Live(g), s \in StrongSlots : g.fields[o][s] = h.fields[o][s]

-----------------------------------------------------------------------------
(* Reached is the least closed set.                                        *)

LEMMA ReachedRoots ==
    ASSUME NEW fields, NEW Roots, NEW Via, NEW Within,
           Roots \subseteq Within
    PROVE  Roots \subseteq Reached(fields, Roots, Via, Within)
  BY DEF Reached

LEMMA ReachedWithin ==
    ASSUME NEW fields, NEW Roots, NEW Via, NEW Within
    PROVE  Reached(fields, Roots, Via, Within) \subseteq Within
  BY DEF Reached

LEMMA ReachedClosed ==
    ASSUME NEW fields, NEW Roots, NEW Via, NEW Within,
           NEW o \in Reached(fields, Roots, Via, Within), NEW s \in Via,
           fields[o][s] \in Within
    PROVE  fields[o][s] \in Reached(fields, Roots, Via, Within)
  BY DEF Reached

-----------------------------------------------------------------------------
(* The root table.                                                         *)

\* Nothing but the table differs, and what was recorded stays recorded.
SameButRoots(h, g) ==
    /\ g.old = h.old /\ g.young = h.young /\ g.fields = h.fields
    /\ g.activeContext = h.activeContext
    /\ g.theHomeContext = h.theHomeContext
    /\ g.freeContexts = h.freeContexts
    /\ g.reclaimableContextCount = h.reclaimableContextCount
    /\ \A o \in Object : Recorded(h, o) => Recorded(g, o)

LEMMA NoteAsRoot ==
    ASSUME NEW h, NEW o \in Object, Typed(h), o \in h.old
    PROVE  LET g == noteAsRoot(h, o)
           IN  /\ Typed(g) /\ SameButRoots(h, g) /\ Recorded(g, o)
               /\ RedZone(h) => RedZone(g)
  <1>1. CASE o \in h.rootBit \/ h.rootTableCount >= RootTableSize
    <2>1. noteAsRoot(h, o) = h
      BY <1>1 DEF noteAsRoot
    <2>2. Recorded(h, o)
      <3>1. h.rootTableCount \in 0..RootTableSize
        BY DEF Typed, HeapType
      <3>2. h.rootTableCount >= RootTableSize =>
               h.rootTableCount = RootTableSize
        BY <3>1, LimitsAssumption
      <3>3. QED
        BY <1>1, <3>2 DEF Recorded, Typed
    <2>3. QED
      BY <2>1, <2>2 DEF SameButRoots
  <1>2. CASE ~(o \in h.rootBit \/ h.rootTableCount >= RootTableSize)
    <2> DEFINE count == IF h.rootTableCount < RootTableRedZone
                        THEN h.allocationCount ELSE AllocationsBetweenGCs + 1
               g == [h EXCEPT !.rootTable = @ \cup {o},
                              !.rootTableCount = @ + 1,
                              !.rootBit = @ \cup {o},
                              !.allocationCount = count]
    <2>1. noteAsRoot(h, o) = g
      BY <1>2 DEF noteAsRoot, Typed, HeapType
    <2>2. /\ g.old = h.old /\ g.young = h.young /\ g.fields = h.fields
          /\ g.activeContext = h.activeContext
          /\ g.theHomeContext = h.theHomeContext
          /\ g.freeContexts = h.freeContexts
          /\ g.reclaimableContextCount = h.reclaimableContextCount
          /\ g.rootTable = h.rootTable \cup {o}
          /\ g.rootTableCount = h.rootTableCount + 1
          /\ g.rootBit = h.rootBit \cup {o}
          /\ g.allocationCount = count
      BY DEF Typed, HeapType
    <2>3. /\ h.rootTableCount \in Nat /\ h.rootTableCount + 1 \in 0..RootTableSize
          /\ count \in Nat
      BY <1>2, LimitsAssumption DEF Typed, HeapType
    <2>4. Typed(g)
      BY <2>2, <2>3, LimitsAssumption DEF Typed, HeapType, Live
    <2>5. SameButRoots(h, g) /\ Recorded(g, o)
      BY <1>2, <2>2, <2>3, LimitsAssumption DEF SameButRoots, Recorded
    <2>6. RedZone(h) => RedZone(g)
      BY <2>2, <2>3, LimitsAssumption DEF RedZone
    <2>7. QED
      BY <2>1, <2>4, <2>5, <2>6
  <1>3. QED
    BY <1>1, <1>2

LEMMA CoreSame ==
    ASSUME NEW h, NEW g, Core(h), Typed(g), SameButRoots(h, g)
    PROVE  Core(g)
  BY DEF Core, Typed, SameButRoots, Pointing, Known, Linked, Registers, Live,
         HomeOf, HeapType

LEMMA BeRootIfOld ==
    ASSUME NEW h, NEW o \in Object, Typed(h)
    PROVE  LET g == beRootIfOld(h, o)
           IN  /\ Typed(g) /\ SameButRoots(h, g)
               /\ o \in g.old => Recorded(g, o)
               /\ RedZone(h) => RedZone(g)
  <1>1. CASE o \in h.old
    BY <1>1, NoteAsRoot DEF beRootIfOld, SameButRoots
  <1>2. CASE o \notin h.old
    BY <1>2 DEF beRootIfOld, SameButRoots
  <1>3. QED
    BY <1>1, <1>2

-----------------------------------------------------------------------------
(* Garbage collection.                                                     *)

\* A sweep with a table that has not overflowed frees nothing in use: what a
\* survivor, an old object or the register names is marked.
LEMMA SweepPhase ==
    ASSUME NEW h, Core(h), h.rootTableCount < RootTableSize
    PROVE  LET g == [sweepPhase(h) EXCEPT !.allocationCount = 0]
           IN  /\ Core(g) /\ Kept(h, g)
               /\ g.rootTableCount = h.rootTableCount
               /\ g.allocationCount = 0
  <1> DEFINE marked == Marked(h)
             gone == h.young \ marked
             Cleared(o, s) ==
                s \in WeakSlots /\ h.fields[o][s] \in gone \cup {o}
             fields == [o \in Object |->
                          IF o \in gone THEN NoFields
                          ELSE [s \in Slot |-> IF o \in marked /\ Cleared(o, s)
                                               THEN nilObj ELSE h.fields[o][s]]]
             g == [sweepPhase(h) EXCEPT !.allocationCount = 0]
             Entries == {specialObjectsOop, h.activeContext} \cup h.rootTable
             Seen == {h.fields[o][s] : o \in Entries, s \in Slot} \cup Entries
  <1>1. /\ g.old = h.old /\ g.young = marked /\ g.fields = fields
        /\ g.activeContext = h.activeContext
        /\ g.theHomeContext = h.theHomeContext
        /\ g.freeContexts = {}
        /\ g.reclaimableContextCount = h.reclaimableContextCount
        /\ g.rootTable = h.rootTable /\ g.rootBit = h.rootBit
        /\ g.rootTableCount = h.rootTableCount
        /\ g.allocationCount = 0
        /\ g.finalizationPending =
             (h.finalizationPending \/ \E o \in marked, s \in Slot : Cleared(o, s))
        /\ g \in [old : {h.old}, young : {marked}, fields : {fields},
                  activeContext : {h.activeContext},
                  theHomeContext : {h.theHomeContext},
                  freeContexts : {{}},
                  reclaimableContextCount : {h.reclaimableContextCount},
                  rootTable : {h.rootTable}, rootBit : {h.rootBit},
                  rootTableCount : {h.rootTableCount},
                  allocationCount : {0},
                  finalizationPending : BOOLEAN]
    BY DEF sweepPhase, Core, Typed, HeapType
  <1>2. marked = Reached(h.fields, Seen \cap h.young, StrongSlots, h.young)
    BY DEF Marked
  <1> HIDE DEF marked
  <1>3. marked \subseteq h.young /\ Seen \cap h.young \subseteq marked
    BY <1>2, ReachedWithin, ReachedRoots
  <1>4. \A o \in marked, s \in StrongSlots :
           h.fields[o][s] \in h.young => h.fields[o][s] \in marked
    BY <1>2, ReachedClosed
  <1>5. fields \in [Object -> [Slot -> Object \cup {nilObj}]]
    BY DEF Core, Typed, HeapType, NoFields
  <1>6. Live(h) \subseteq Object
    BY DEF Core, Typed, HeapType, Live
  <1>7. \A o \in h.old \cup marked, s \in Slot :
           /\ fields[o][s] \in {nilObj, h.fields[o][s]}
           /\ s \in StrongSlots => fields[o][s] = h.fields[o][s]
           /\ o \in h.old => fields[o][s] = h.fields[o][s]
    BY <1>3, <1>6 DEF Live, StrongSlots, Core, Typed
  \* An old object's young reference is marked: the object is in the table.
  <1>8. \A o \in h.old, s \in Slot :
           h.fields[o][s] \in h.young => h.fields[o][s] \in marked
    <2> SUFFICES ASSUME NEW o \in h.old, NEW s \in Slot,
                        h.fields[o][s] \in h.young
                 PROVE  h.fields[o][s] \in marked
      OBVIOUS
    <2>1. o \in h.rootTable
      BY LimitsAssumption DEF Core, Known, Recorded, Typed, HeapType
    <2>2. h.fields[o][s] \in Seen
      BY <2>1
    <2>3. QED
      BY <2>2, <1>3
  <1> HIDE DEF g, fields, Entries, Seen
  <1>9. Typed(g)
    BY <1>1, <1>3, <1>5, <1>6, LimitsAssumption
       DEF Typed, HeapType, Core, Live
  <1>10. Pointing(g)
    <2> SUFFICES ASSUME NEW o \in h.old \cup marked, NEW s \in Slot
                 PROVE  fields[o][s] \in h.old \cup marked \cup {nilObj}
      BY <1>1 DEF Pointing, Live
    <2>1. h.fields[o][s] \in h.old \cup h.young \cup {nilObj}
      BY <1>3 DEF Core, Pointing, Live
    <2>2. CASE o \in h.old
      BY <2>1, <2>2, <1>7, <1>8
    <2>3. CASE o \in marked /\ s \in StrongSlots
      BY <2>1, <2>3, <1>7, <1>4
    <2>4. CASE o \in marked /\ s \in WeakSlots
      <3>1. fields[o][s] = IF h.fields[o][s] \in (h.young \ marked) \cup {o}
                           THEN nilObj ELSE h.fields[o][s]
        BY <2>4, <1>3, <1>6 DEF fields, gone, Cleared, Live
      <3>2. QED
        BY <3>1, <2>1
    <2>5. QED
      BY <2>2, <2>3, <2>4 DEF StrongSlots
  <1>11. Known(g)
    BY <1>1, <1>3, <1>7 DEF Known, Recorded, Core, Live
  <1>12. {SenderSlot, HomeSlot} \subseteq StrongSlots
    BY SlotsAssumption DEF StrongSlots
  <1>13. Linked(g)
    <2>1. Live(g) \subseteq Live(h)
      BY <1>1, <1>3 DEF Live
    <2>2. \A c \in Live(g), s \in {SenderSlot, HomeSlot} :
             g.fields[c][s] = h.fields[c][s]
      BY <1>1, <1>7, <1>12 DEF Live, StrongSlots
    <2>3. QED
      BY <2>1, <2>2 DEF Linked, Core
  <1>14. {specialObjectsOop, h.activeContext} \subseteq Live(g)
    BY <1>1, <1>3 DEF Core, Registers, Live, Entries, Seen
  <1>15. Registers(g)
    BY <1>1, <1>7, <1>12, <1>14
       DEF Registers, Core, HomeOf, Live, StrongSlots
  <1>16. Kept(h, g)
    BY <1>1, <1>3, <1>7 DEF Kept, Live, StrongSlots
  <1>17. QED
    BY <1>1, <1>9, <1>10, <1>11, <1>13, <1>15, <1>16 DEF Core, g

LEMMA ClearRootsTable ==
    ASSUME NEW h, Typed(h)
    PROVE  LET c == clearRootsTable(h)
           IN  /\ c \in HeapType /\ c.old = h.old /\ c.young = h.young
               /\ c.fields = h.fields /\ c.activeContext = h.activeContext
               /\ c.theHomeContext = h.theHomeContext
               /\ c.freeContexts = h.freeContexts
               /\ c.reclaimableContextCount = h.reclaimableContextCount
               /\ c.rootTable = {} /\ c.rootBit = {} /\ c.rootTableCount = 0
               /\ c.allocationCount = h.allocationCount
  <1> DEFINE c == [h EXCEPT !.rootTable = {}, !.rootTableCount = 0,
                            !.rootBit = {}]
  <1>1. h.rootBit \ h.rootTable = {}
    BY DEF Typed
  <1>2. h \in HeapType
    BY DEF Typed
  <1>3. clearRootsTable(h) = c
    BY <1>1, <1>2 DEF clearRootsTable, HeapType
  <1>4. 0 \in 0..RootTableSize
    BY LimitsAssumption
  <1>5. c \in HeapType
    BY <1>2, <1>4 DEF HeapType
  <1>6. QED
    BY <1>2, <1>3, <1>5 DEF HeapType

\* With no young object left there is nothing for the table to know.
LEMMA Tenure ==
    ASSUME NEW h, Core(h)
    PROVE  /\ Core(tenure(h)) /\ Core(tenure(clearRootsTable(h)))
           /\ Kept(h, tenure(h)) /\ Kept(h, tenure(clearRootsTable(h)))
           /\ tenure(h).rootTableCount = h.rootTableCount
           /\ tenure(clearRootsTable(h)).rootTableCount = 0
           /\ tenure(h).allocationCount = h.allocationCount
           /\ tenure(clearRootsTable(h)).allocationCount = h.allocationCount
  <1> DEFINE c == clearRootsTable(h)
  <1>1. /\ c \in HeapType /\ c.old = h.old /\ c.young = h.young
        /\ c.fields = h.fields /\ c.activeContext = h.activeContext
        /\ c.theHomeContext = h.theHomeContext
        /\ c.freeContexts = h.freeContexts
        /\ c.reclaimableContextCount = h.reclaimableContextCount
        /\ c.rootTable = {} /\ c.rootBit = {} /\ c.rootTableCount = 0
        /\ c.allocationCount = h.allocationCount
    BY ClearRootsTable DEF Core
  <1> HIDE DEF c
  <1>2. ASSUME NEW k, k \in HeapType, k.old = h.old, k.young = h.young,
               k.fields = h.fields, k.activeContext = h.activeContext,
               k.theHomeContext = h.theHomeContext,
               k.freeContexts = h.freeContexts,
               k.reclaimableContextCount = h.reclaimableContextCount,
               k.rootTable \subseteq k.old, k.rootBit \subseteq k.rootTable
        PROVE  /\ Core(tenure(k)) /\ Kept(h, tenure(k))
               /\ tenure(k).rootTableCount = k.rootTableCount
               /\ tenure(k).allocationCount = k.allocationCount
    <2> DEFINE g == tenure(k)
    <2>1. /\ g \in HeapType /\ g.old = h.old \cup h.young /\ g.young = {}
          /\ g.fields = h.fields /\ g.activeContext = h.activeContext
          /\ g.theHomeContext = h.theHomeContext
          /\ g.freeContexts = h.freeContexts
          /\ g.reclaimableContextCount = h.reclaimableContextCount
          /\ g.rootTable = k.rootTable /\ g.rootBit = k.rootBit
          /\ g.rootTableCount = k.rootTableCount
          /\ g.allocationCount = k.allocationCount
      BY <1>2 DEF tenure, HeapType
    <2> HIDE DEF g
    <2>2. Live(g) = Live(h)
      BY <2>1 DEF Live
    <2>3. Typed(g)
      BY <1>2, <2>1, <2>2 DEF Typed, Core
    <2>4. Pointing(g) /\ Known(g) /\ Linked(g) /\ Registers(g)
      BY <2>1, <2>2 DEF Core, Pointing, Known, Linked, Registers, HomeOf
    <2>5. QED
      BY <2>1, <2>2, <2>3, <2>4 DEF Core, Kept, g
  <1>3. QED
    BY <1>1, <1>2 DEF c, Core, Typed

LEMMA PostGCAction ==
    ASSUME NEW h, Core(h), RedZone(h)
    PROVE  Sound(postGCAction(h)) /\ SameButRoots(h, postGCAction(h))
  <1> DEFINE k == beRootIfOld(h, h.activeContext)
             g == beRootIfOld(k, h.theHomeContext)
  <1>1. /\ h.activeContext \in Object /\ h.theHomeContext \in Object
        /\ Typed(h)
    BY ImageAssumption DEF Core, Typed, HeapType
  <1>2. /\ Typed(k) /\ SameButRoots(h, k) /\ RedZone(k)
        /\ h.activeContext \in k.old => Recorded(k, h.activeContext)
    BY <1>1, BeRootIfOld
  <1> HIDE DEF k
  <1>3. /\ Typed(g) /\ SameButRoots(k, g) /\ RedZone(g)
        /\ h.theHomeContext \in g.old => Recorded(g, h.theHomeContext)
    BY <1>1, <1>2, BeRootIfOld
  <1>4. postGCAction(h) = g
    BY DEF postGCAction, k
  <1> HIDE DEF g
  <1>5. SameButRoots(h, g)
    BY <1>2, <1>3 DEF SameButRoots
  <1>6. Core(g)
    BY <1>3, <1>5, CoreSame
  <1>7. Rooted(g)
    BY <1>1, <1>2, <1>3, <1>5 DEF Rooted, SameButRoots
  <1>8. QED
    BY <1>3, <1>4, <1>5, <1>6, <1>7 DEF Sound

LEMMA KeptTransitive ==
    ASSUME NEW h, NEW k, NEW g, Kept(h, k), Kept(k, g)
    PROVE  Kept(h, g)
  BY DEF Kept

LEMMA KeptSame ==
    ASSUME NEW h, NEW k, NEW g, Kept(h, k), SameButRoots(k, g)
    PROVE  Kept(h, g)
  BY DEF Kept, SameButRoots, Live

LEMMA FullGC ==
    ASSUME NEW h, Sound(h)
    PROVE  Sound(fullGC(h)) /\ Kept(h, fullGC(h))
  <1> DEFINE c == clearRootsTable(h)
             everything == [c EXCEPT !.young = @ \cup h.old, !.old = {}]
             swept == [sweepPhase(everything) EXCEPT !.allocationCount = 0]
  <1>1. /\ c \in HeapType /\ c.old = h.old /\ c.young = h.young
        /\ c.fields = h.fields /\ c.activeContext = h.activeContext
        /\ c.theHomeContext = h.theHomeContext
        /\ c.freeContexts = h.freeContexts
        /\ c.reclaimableContextCount = h.reclaimableContextCount
        /\ c.rootTable = {} /\ c.rootBit = {} /\ c.rootTableCount = 0
    BY ClearRootsTable DEF Sound, Core
  <1> HIDE DEF c
  <1>2. /\ everything \in HeapType /\ everything.old = {}
        /\ everything.young = h.old \cup h.young
        /\ everything.fields = h.fields
        /\ everything.activeContext = h.activeContext
        /\ everything.theHomeContext = h.theHomeContext
        /\ everything.freeContexts = h.freeContexts
        /\ everything.reclaimableContextCount = h.reclaimableContextCount
        /\ everything.rootTable = {} /\ everything.rootBit = {}
        /\ everything.rootTableCount = 0
    BY <1>1 DEF HeapType
  <1>3. fullGC(h) = postGCAction(tenure(swept))
    BY DEF fullGC, c
  <1> HIDE DEF everything
  <1>4. Live(everything) = Live(h)
    BY <1>2 DEF Live
  <1>5. Core(everything)
    BY <1>2, <1>4 DEF Sound, Core, Typed, Pointing, Known, Linked, Registers,
                      HomeOf
  <1>6. Kept(h, everything)
    BY <1>2, <1>4 DEF Kept
  <1>7. /\ Core(swept) /\ Kept(everything, swept) /\ swept.rootTableCount = 0
    BY <1>2, <1>5, SweepPhase, LimitsAssumption
  <1> HIDE DEF swept
  <1>8. /\ Core(tenure(swept)) /\ Kept(swept, tenure(swept))
        /\ tenure(swept).rootTableCount = 0
    BY <1>7, Tenure
  <1>9. RedZone(tenure(swept))
    BY <1>8, LimitsAssumption DEF RedZone
  <1>10. /\ Sound(fullGC(h)) /\ SameButRoots(tenure(swept), fullGC(h))
    BY <1>3, <1>8, <1>9, PostGCAction
  <1>11. Kept(h, tenure(swept))
    BY <1>6, <1>7, <1>8, KeptTransitive
  <1>12. QED
    BY <1>10, <1>11, KeptSame

LEMMA IncrementalGC ==
    ASSUME NEW h, Sound(h)
    PROVE  Sound(incrementalGC(h)) /\ Kept(h, incrementalGC(h))
  <1> DEFINE swept == [sweepPhase(h) EXCEPT !.allocationCount = 0]
             TenureNow == \/ Cardinality(swept.young) > TenuringThreshold
                          \/ swept.rootTableCount >= RootTableRedZone
             next == IF TenureNow THEN tenure(clearRootsTable(swept)) ELSE swept
  <1>1. CASE h.rootTableCount >= RootTableSize
    BY <1>1, FullGC DEF incrementalGC
  <1>2. CASE ~(h.rootTableCount >= RootTableSize)
    <2>1. h.rootTableCount < RootTableSize
      BY <1>2, LimitsAssumption DEF Sound, Core, Typed, HeapType
    <2>2. /\ Core(swept) /\ Kept(h, swept)
      BY <2>1, SweepPhase DEF Sound
    <2>3. incrementalGC(h) = postGCAction(next)
      BY <1>2 DEF incrementalGC
    <2> HIDE DEF swept
    <2>4. Core(next) /\ Kept(h, next) /\ RedZone(next)
      <3>1. CASE TenureNow
        <4>1. next = tenure(clearRootsTable(swept))
          BY <3>1
        <4>2. /\ Core(next) /\ Kept(swept, next)
              /\ next.rootTableCount = 0
          BY <4>1, <2>2, Tenure
        <4>3. QED
          BY <4>2, <2>2, KeptTransitive, LimitsAssumption DEF RedZone
      <3>2. CASE ~TenureNow
        <4>1. next = swept /\ ~(swept.rootTableCount >= RootTableRedZone)
          BY <3>2
        <4>2. swept.rootTableCount \in Nat
          BY <2>2 DEF Core, Typed, HeapType
        <4>3. QED
          BY <4>1, <4>2, <2>2, LimitsAssumption DEF RedZone
      <3>3. QED
        BY <3>1, <3>2
    <2> HIDE DEF next
    <2>5. Sound(incrementalGC(h)) /\ SameButRoots(next, incrementalGC(h))
      BY <2>3, <2>4, PostGCAction
    <2>6. QED
      BY <2>4, <2>5, KeptSame
  <1>3. QED
    BY <1>1, <1>2

LEMMA AllocateChunk ==
    ASSUME NEW h, Sound(h), NEW space \in SpaceFound
    PROVE  Sound(allocateChunk(h, space)) /\ Kept(h, allocateChunk(h, space))
  <1> DEFINE due == IF h.allocationCount >= AllocationsBetweenGCs
                    THEN incrementalGC(h) ELSE h
             found == CASE space = "at once" -> due
                        [] space = "after incrementalGC" -> incrementalGC(due)
                        [] space = "after fullGC" -> fullGC(incrementalGC(due))
             g == [found EXCEPT !.allocationCount = @ + 1]
  <1>1. Kept(h, h)
    BY DEF Kept
  <1>2. Sound(due) /\ Kept(h, due)
    BY <1>1, IncrementalGC
  <1>3. allocateChunk(h, space) = g
    BY DEF allocateChunk
  <1> HIDE DEF due
  <1>4. /\ Sound(incrementalGC(due)) /\ Kept(h, incrementalGC(due))
    BY <1>2, IncrementalGC, KeptTransitive
  <1>5. /\ Sound(fullGC(incrementalGC(due)))
        /\ Kept(h, fullGC(incrementalGC(due)))
    BY <1>4, FullGC, KeptTransitive
  <1>6. Sound(found) /\ Kept(h, found)
    BY <1>2, <1>4, <1>5 DEF SpaceFound
  <1> HIDE DEF found
  <1>heap. found \in HeapType
    BY <1>6 DEF Sound, Core, Typed
  <1>7. /\ g \in HeapType /\ g.allocationCount = found.allocationCount + 1
        /\ g.old = found.old /\ g.young = found.young
        /\ g.fields = found.fields /\ g.activeContext = found.activeContext
        /\ g.theHomeContext = found.theHomeContext
        /\ g.freeContexts = found.freeContexts
        /\ g.reclaimableContextCount = found.reclaimableContextCount
        /\ g.rootTable = found.rootTable /\ g.rootBit = found.rootBit
        /\ g.rootTableCount = found.rootTableCount
        /\ found.allocationCount \in Nat
    BY <1>heap DEF HeapType
  <1> HIDE DEF g
  <1>8. Typed(g) /\ SameButRoots(found, g)
    BY <1>6, <1>7 DEF Sound, Core, Typed, SameButRoots, Recorded, Live
  <1>9. Core(g)
    BY <1>6, <1>8, CoreSame DEF Sound
  <1>10. RedZone(g) /\ Rooted(g)
    BY <1>6, <1>7, LimitsAssumption DEF Sound, RedZone, Rooted, Recorded
  <1>11. QED
    BY <1>3, <1>6, <1>8, <1>9, <1>10, KeptSame DEF Sound

-----------------------------------------------------------------------------
(* Storing and creating.                                                   *)

\* g differs from h in its young objects and its fields, if at all.
Updated(h, g, young, fields) ==
    /\ g \in HeapType
    /\ g.old = h.old /\ g.young = young /\ g.fields = fields
    /\ g.rootTable = h.rootTable /\ g.rootBit = h.rootBit
    /\ g.rootTableCount = h.rootTableCount
    /\ g.allocationCount = h.allocationCount
    /\ g.activeContext = h.activeContext
    /\ g.theHomeContext = h.theHomeContext
    /\ g.freeContexts = h.freeContexts
    /\ g.reclaimableContextCount = h.reclaimableContextCount

LEMMA LiveObjects ==
    ASSUME NEW h, Typed(h)
    PROVE  Live(h) \subseteq Object
  BY DEF Typed, HeapType, Live

LEMMA RegistersLive ==
    ASSUME NEW h, Core(h)
    PROVE  /\ h.activeContext \in Live(h) \cap Context
           /\ h.theHomeContext \in Live(h) \cap (Context \ Block)
  BY NilAssumption, ImageAssumption, SlotsAssumption
     DEF Core, Typed, HeapType, Registers, HomeOf, Pointing, Linked, Block

LEMMA StackSlotsAreSlots ==
    ASSUME NEW o \in Object
    PROVE  StackSlots(o) \subseteq Slot \ {SenderSlot, HomeSlot}
  BY SlotsAssumption DEF StackSlots

\* A store outside the links of contexts, of which the table knows.
LEMMA Write ==
    ASSUME NEW h, Sound(h), NEW o \in Live(h),
           NEW s \in Slot \ {SenderSlot, HomeSlot},
           NEW v \in Live(h) \cup {nilObj},
           (o \in h.old /\ v \in h.young) => Recorded(h, o)
    PROVE  Sound([h EXCEPT !.fields[o][s] = v])
  <1> DEFINE fields == [h.fields EXCEPT ![o][s] = v]
             g == [h EXCEPT !.fields[o][s] = v]
  <1>1. h \in HeapType /\ Live(h) \subseteq Object
    BY LiveObjects DEF Sound, Core, Typed
  <1>2. fields \in [Object -> [Slot -> Object \cup {nilObj}]]
    BY <1>1 DEF HeapType
  <1>3. \A p \in Object, t \in Slot :
           fields[p][t] = IF p = o /\ t = s THEN v ELSE h.fields[p][t]
    BY <1>1 DEF HeapType
  <1>4. g = [h EXCEPT !.fields = fields]
    BY <1>1 DEF HeapType
  <1> HIDE DEF fields
  <1>5. Updated(h, g, h.young, fields)
    BY <1>1, <1>2, <1>4 DEF HeapType, Updated
  <1> HIDE DEF g
  <1>6. Live(g) = Live(h)
    BY <1>5 DEF Live, Updated
  <1>7. Typed(g)
    BY <1>5, <1>6 DEF Updated, Sound, Core, Typed
  <1>8. Pointing(g)
    BY <1>1, <1>3, <1>5, <1>6 DEF Updated, Sound, Core, Pointing
  <1>9. Known(g)
    BY <1>1, <1>3, <1>5 DEF Updated, Sound, Core, Known, Recorded, Live
  <1>10. Linked(g)
    BY <1>1, <1>3, <1>5, <1>6, SlotsAssumption
       DEF Updated, Sound, Core, Linked
  <1>11. Registers(g)
    BY <1>1, <1>3, <1>5, <1>6, SlotsAssumption
       DEF Updated, Sound, Core, Registers, HomeOf
  <1>12. RedZone(g) /\ Rooted(g)
    BY <1>5 DEF Updated, Sound, RedZone, Rooted, Recorded
  <1>13. QED
    BY <1>7, <1>8, <1>9, <1>10, <1>11, <1>12 DEF Sound, Core, g

\* A new object is young: whatever it refers to, the table need not know.
LEMMA NewObject ==
    ASSUME NEW h, Sound(h), NEW b \in Object,
           b \notin Live(h) \cup h.freeContexts,
           NEW f \in [Slot -> Live(h) \cup {nilObj}],
           b \in Context => f[SenderSlot] \in Context \cup {nilObj},
           b \in Block => f[HomeSlot] \in Context \ Block
    PROVE  LET g == [h EXCEPT !.young = @ \cup {b}, !.fields[b] = f]
           IN  /\ Sound(g)
               /\ Updated(h, g, h.young \cup {b}, [h.fields EXCEPT ![b] = f])
  <1> DEFINE fields == [h.fields EXCEPT ![b] = f]
             g == [h EXCEPT !.young = @ \cup {b}, !.fields[b] = f]
  <1>1. h \in HeapType /\ Live(h) \subseteq Object
    BY LiveObjects DEF Sound, Core, Typed
  <1>2. f \in [Slot -> Object \cup {nilObj}]
    BY <1>1
  <1>3. fields \in [Object -> [Slot -> Object \cup {nilObj}]]
    BY <1>1, <1>2 DEF HeapType
  <1>4. \A p \in Object : fields[p] = IF p = b THEN f ELSE h.fields[p]
    BY <1>1 DEF HeapType
  <1>5. g = [h EXCEPT !.young = h.young \cup {b}, !.fields = fields]
    BY <1>1 DEF HeapType
  <1> HIDE DEF fields
  <1>6. Updated(h, g, h.young \cup {b}, fields)
    BY <1>1, <1>3, <1>5 DEF HeapType, Updated
  <1> HIDE DEF g
  <1>7. Live(g) = Live(h) \cup {b}
    BY <1>6 DEF Live, Updated
  <1>8. Typed(g)
    BY <1>6 DEF Updated, Sound, Core, Typed, Live
  <1>9. Pointing(g)
    BY <1>1, <1>4, <1>6, <1>7 DEF Updated, Sound, Core, Pointing
  <1>10. Known(g)
    <2> SUFFICES ASSUME NEW o \in h.old, NEW s \in Slot,
                        fields[o][s] \in h.young \cup {b}
                 PROVE  Recorded(h, o)
      BY <1>6 DEF Known, Updated, Recorded
    <2>1. o \in Live(h) /\ o # b /\ fields[o][s] = h.fields[o][s]
      BY <1>1, <1>4 DEF Live
    <2>2. h.fields[o][s] # b
      BY <2>1, NilAssumption DEF Sound, Core, Pointing
    <2>3. QED
      BY <2>1, <2>2 DEF Sound, Core, Known
  <1>11. Linked(g)
    BY <1>1, <1>4, <1>6, <1>7, SlotsAssumption
       DEF Updated, Sound, Core, Linked
  <1>12. Registers(g)
    BY <1>1, <1>4, <1>6, <1>7 DEF Updated, Sound, Core, Registers, HomeOf
  <1>13. RedZone(g) /\ Rooted(g)
    BY <1>6 DEF Updated, Sound, RedZone, Rooted, Recorded
  <1>14. QED
    BY <1>6, <1>8, <1>9, <1>10, <1>11, <1>12, <1>13
       DEF Sound, Core, g, fields

\* The same objects, referring to the same, and as many contexts counted.
SameMemory(h, g) ==
    /\ g.old = h.old /\ g.young = h.young /\ g.fields = h.fields
    /\ g.reclaimableContextCount = h.reclaimableContextCount

\* Entering a context records it and its home.  Its own fields may have been
\* stored into before, unchecked.
LEMMA NewActiveContext ==
    ASSUME NEW h, NEW c \in Live(h) \cap Context, Typed(h), Pointing(h),
           Linked(h), RedZone(h), specialObjectsOop \in Live(h),
           \A o \in h.old \ {c}, s \in Slot :
               h.fields[o][s] \in h.young => Recorded(h, o)
    PROVE  LET g == newActiveContext(h, c)
           IN  /\ Sound(g) /\ SameMemory(h, g) /\ g.activeContext = c
  <1> DEFINE home == HomeOf(h, c)
             k1 == beRootIfOld(h, c)
             k == beRootIfOld(k1, home)
             g == [k EXCEPT !.activeContext = c, !.theHomeContext = home]
  <1>1. newActiveContext(h, c) = g
    BY DEF newActiveContext, HomeOf
  <1>2. home \in Context
    BY DEF HomeOf, Linked, Block
  <1>3. c \in Object /\ home \in Object
    BY <1>2, ImageAssumption
  <1> HIDE DEF home
  <1>4. /\ Typed(k1) /\ SameButRoots(h, k1) /\ RedZone(k1)
        /\ c \in k1.old => Recorded(k1, c)
    BY <1>3, BeRootIfOld
  <1> HIDE DEF k1
  <1>5. /\ Typed(k) /\ SameButRoots(k1, k) /\ RedZone(k)
        /\ home \in k.old => Recorded(k, home)
    BY <1>3, <1>4, BeRootIfOld
  <1> HIDE DEF k
  <1>6. SameButRoots(h, k) /\ (c \in k.old => Recorded(k, c))
    BY <1>3, <1>4, <1>5 DEF SameButRoots
  <1>7. /\ g \in HeapType
        /\ g.old = k.old /\ g.young = k.young /\ g.fields = k.fields
        /\ g.rootTable = k.rootTable /\ g.rootBit = k.rootBit
        /\ g.rootTableCount = k.rootTableCount
        /\ g.allocationCount = k.allocationCount
        /\ g.activeContext = c /\ g.theHomeContext = home
        /\ g.freeContexts = k.freeContexts
        /\ g.reclaimableContextCount = k.reclaimableContextCount
    BY <1>2, <1>5 DEF Typed, HeapType
  <1> HIDE DEF g
  <1>8. Live(g) = Live(h) /\ Live(h) \subseteq Object
    BY <1>6, <1>7, LiveObjects DEF SameButRoots, Live
  <1>9. Typed(g)
    BY <1>5, <1>7 DEF Typed, Live
  <1>10. Pointing(g) /\ Linked(g)
    BY <1>6, <1>7, <1>8 DEF SameButRoots, Pointing, Linked
  <1>11. \A o \in Object : Recorded(h, o) => Recorded(g, o)
    BY <1>6, <1>7 DEF SameButRoots, Recorded
  <1>12. Known(g)
    BY <1>6, <1>7, <1>8, <1>11 DEF SameButRoots, Known, Live, Recorded
  <1>13. Registers(g)
    BY <1>6, <1>7, <1>8 DEF SameButRoots, Registers, HomeOf, home
  <1>14. RedZone(g) /\ Rooted(g)
    BY <1>5, <1>6, <1>7 DEF RedZone, Rooted, Recorded
  <1>15. SameMemory(h, g) /\ g.activeContext = c
    BY <1>6, <1>7 DEF SameButRoots, SameMemory
  <1>16. QED
    BY <1>1, <1>9, <1>10, <1>12, <1>13, <1>14, <1>15 DEF Sound, Core

-----------------------------------------------------------------------------
(* The chain of senders.                                                   *)

\* The contexts that a return may reclaim are the first of the chain, as
\* many as are counted, and nothing but the chain knows those of methods:
\* each is referred to by the context below it, as its sender.
Links(h, c, top) ==
    LET count == h.reclaimableContextCount
    IN  /\ top \in [0..count -> Live(h) \cap Context]
        /\ top[0] = c
        /\ \A i \in 0..(count - 1) :
              h.fields[top[i]][SenderSlot] = top[i + 1]

Distinct(h, top) ==
    \A i, j \in 0..h.reclaimableContextCount : top[i] = top[j] => i = j

Unnamed(h, top) ==
    \A i \in 0..(h.reclaimableContextCount - 1), o \in Live(h), s \in Slot :
        (top[i] \notin Block /\ h.fields[o][s] = top[i]) =>
            (i > 0 /\ o = top[i - 1] /\ s = SenderSlot)

Chain(h, c, top) == Links(h, c, top) /\ Distinct(h, top) /\ Unnamed(h, top)

Prefix(top, m) == {top[i] : i \in 0..(m - 1)}

\* What no value is, and so nothing can get to refer to.
Hidden(h, top) == Prefix(top, h.reclaimableContextCount) \ Block

\* The inductive invariant.
Safe(h) == Sound(h) /\ \E top : Chain(h, h.activeContext, top)

\* A set that holds 0, and with each number below n the next, holds 0..n.
LEMMA Counting ==
    ASSUME NEW n \in Nat, NEW S, 0 \in S,
           \A i \in 0..(n - 1) : i \in S => i + 1 \in S
    PROVE  0..n \subseteq S
  <1> DEFINE T == (0..n) \ S
             Less == OpToRel(<, Nat)
  <1> SUFFICES ASSUME T # {}
               PROVE  FALSE
    OBVIOUS
  <1>1. T \subseteq Nat
    OBVIOUS
  <1>2. \E x \in T : \A y \in T : ~(<<y, x>> \in Less)
    <2> HIDE DEF T, Less
    <2>1. IsWellFoundedOn(Less, Nat)
      BY NatLessThanWellFounded DEF Less
    <2>2. QED
      BY <1>1, <2>1, WFMin
  <1>3. PICK x \in T : \A y \in T : ~(<<y, x>> \in Less)
    BY <1>2
  <1>4. \A y \in T : ~(y < x)
    BY <1>1, <1>3 DEF OpToRel
  <1>5. x \in 1..n
    OBVIOUS
  <1>6. x - 1 \in S
    BY <1>4, <1>5
  <1>7. QED
    BY <1>5, <1>6

LEMMA PrefixSize ==
    ASSUME NEW k \in Nat, NEW top, NEW m \in 0..(k + 1),
           \A i, j \in 0..k : top[i] = top[j] => i = j
    PROVE  /\ IsFiniteSet(Prefix(top, m))
           /\ Cardinality(Prefix(top, m)) = m
  <1> DEFINE D == 0..(m - 1)
             f == [i \in D |-> top[i]]
  <1>1. IsFiniteSet(D) /\ Cardinality(D) = m
    BY FS_Interval
  <1>2. f \in Surjection(D, Prefix(top, m)) /\ f \in Injection(D, Prefix(top, m))
    BY DEF Prefix, Surjection, Injection, IsInjective
  <1> HIDE DEF D, f
  <1>3. QED
    BY <1>1, <1>2, FS_Surjection

LEMMA ReachedLeast ==
    ASSUME NEW fields, NEW Roots, NEW Via, NEW Within,
           NEW S \in SUBSET Within, Roots \subseteq S,
           \A o \in S, s \in Via :
               fields[o][s] \in Within => fields[o][s] \in S
    PROVE  Reached(fields, Roots, Via, Within) \subseteq S
  BY DEF Reached

\* What a return leaves if its target is not among the first of the chain.
LEMMA ReturnedMore ==
    ASSUME NEW h, NEW top, Links(h, h.activeContext, top),
           h.reclaimableContextCount \in Nat,
           NEW m \in 0..(h.reclaimableContextCount + 1),
           NEW c, c \notin Prefix(top, m)
    PROVE  Prefix(top, m) \subseteq Returned(h, c)
  <1> DEFINE left == Returned(h, c)
             S == {i \in 0..(m - 1) : top[i] \in left}
             Roots == {h.activeContext} \ {c}
             Within == Live(h) \ {c}
  <1>1. CASE m = 0
    BY <1>1 DEF Prefix
  <1>2. CASE m # 0
    <2>1. \A i \in 0..(m - 1) : top[i] \in Within
      BY DEF Links, Prefix
    <2>2. left = Reached(h.fields, Roots, {SenderSlot}, Within)
      BY DEF Returned
    <2>3. 0 \in S
      <3>1. top[0] \in Roots /\ Roots \subseteq Within
        BY <1>2, <2>1 DEF Links, Prefix
      <3>2. QED
        BY <1>2, <2>2, <3>1, ReachedRoots
    <2>4. ASSUME NEW i \in 0..(m - 2), i \in S
          PROVE  i + 1 \in S
      <3>1. h.fields[top[i]][SenderSlot] = top[i + 1] /\ i + 1 \in 0..(m - 1)
        BY DEF Links
      <3>2. top[i + 1] \in left
        BY <2>1, <2>2, <2>4, <3>1, ReachedClosed
      <3>3. QED
        BY <3>1, <3>2
    <2> HIDE DEF S
    <2>5. 0..(m - 1) \subseteq S
      <3>1. m - 1 \in Nat /\ (m - 1) - 1 = m - 2
        BY <1>2
      <3>2. QED
        BY <2>3, <2>4, <3>1, Counting
    <2>6. QED
      BY <2>5 DEF Prefix, S
  <1>3. QED
    BY <1>1, <1>2

LEMMA ReturnedPrefix ==
    ASSUME NEW h, NEW top, Chain(h, h.activeContext, top),
           h.reclaimableContextCount \in Nat,
           NEW m \in 0..h.reclaimableContextCount
    PROVE  Returned(h, top[m]) = Prefix(top, m)
  <1>1. top[m] \notin Prefix(top, m)
    BY DEF Chain, Distinct, Prefix
  <1>2. Prefix(top, m) \subseteq Returned(h, top[m])
    BY <1>1, ReturnedMore DEF Chain
  <1>3. Prefix(top, m) \subseteq Live(h) \ {top[m]}
    BY <1>1 DEF Chain, Links, Prefix
  <1>4. {h.activeContext} \ {top[m]} \subseteq Prefix(top, m)
    <2>1. CASE m = 0
      BY <2>1 DEF Chain, Links
    <2>2. CASE m # 0
      <3>1. 0 \in 0..(m - 1) /\ top[0] = h.activeContext
        BY <2>2 DEF Chain, Links
      <3>2. QED
        BY <3>1 DEF Prefix
    <2>3. QED
      BY <2>1, <2>2
  <1>5. \A o \in Prefix(top, m), s \in {SenderSlot} :
           h.fields[o][s] \in Live(h) \ {top[m]} =>
               h.fields[o][s] \in Prefix(top, m)
    <2> SUFFICES ASSUME NEW i \in 0..(m - 1),
                        h.fields[top[i]][SenderSlot] # top[m]
                 PROVE  h.fields[top[i]][SenderSlot] \in Prefix(top, m)
      BY DEF Prefix
    <2>1. h.fields[top[i]][SenderSlot] = top[i + 1]
      BY DEF Chain, Links
    <2>2. i + 1 # m
      BY <2>1
    <2>3. i + 1 \in 0..(m - 1)
      BY <2>2
    <2>4. QED
      BY <2>1, <2>3 DEF Prefix
  <1>6. Returned(h, top[m]) \subseteq Prefix(top, m)
    BY <1>3, <1>4, <1>5, ReachedLeast DEF Returned
  <1>7. QED
    BY <1>2, <1>6

\* The test by counting finds exactly the first contexts of the chain.
LEMMA ReclaimableFirst ==
    ASSUME NEW h, Sound(h), NEW top, Chain(h, h.activeContext, top), NEW c
    PROVE  Reclaimable(h, c) <=>
              c \in Prefix(top, h.reclaimableContextCount)
  <1> DEFINE count == h.reclaimableContextCount
  <1>1. count \in Nat /\ IsFiniteSet(Live(h))
    BY LiveObjects, ImageAssumption, FS_Subset DEF Sound, Core, Typed, HeapType
  <1>2. ASSUME c \in Prefix(top, count)
        PROVE  Cardinality(Returned(h, c)) < count
    <2>1. PICK m \in 0..(count - 1) : c = top[m]
      BY <1>2 DEF Prefix
    <2>2. m \in 0..count /\ m \in 0..(count + 1)
      BY <1>1
    <2>3. Returned(h, c) = Prefix(top, m)
      BY <1>1, <2>1, <2>2, ReturnedPrefix
    <2>4. Cardinality(Prefix(top, m)) = m
      BY <1>1, <2>2, PrefixSize DEF Chain, Distinct
    <2>5. QED
      BY <1>1, <2>3, <2>4
  <1>3. ASSUME c \notin Prefix(top, count)
        PROVE  ~(Cardinality(Returned(h, c)) < count)
    <2>1. count \in 0..(count + 1)
      BY <1>1
    <2>2. Prefix(top, count) \subseteq Returned(h, c)
      BY <1>1, <1>3, <2>1, ReturnedMore DEF Chain
    <2>3. Cardinality(Prefix(top, count)) = count
      BY <1>1, <2>1, PrefixSize DEF Chain, Distinct
    <2>4. Returned(h, c) \subseteq Live(h)
      BY ReachedWithin DEF Returned
    <2>5. IsFiniteSet(Returned(h, c))
      BY <1>1, <2>4, FS_Subset
    <2>6. /\ Cardinality(Prefix(top, count)) <= Cardinality(Returned(h, c))
          /\ Cardinality(Returned(h, c)) \in Nat
      BY <2>2, <2>5, FS_Subset, FS_CardinalityType
    <2>7. QED
      BY <1>1, <2>3, <2>6
  <1>4. QED
    BY <1>2, <1>3 DEF Reclaimable

\* What the image can name is never a context that a return may reclaim: its
\* way there would be the sender of a block that is running.
LEMMA NothingHiddenNamed ==
    ASSUME ~BlockSendersRead, NEW h, Sound(h),
           NEW top, Chain(h, h.activeContext, top)
    PROVE  /\ Accessible(h) \cap Hidden(h, top) = {}
           /\ OnHand(h) \cap Hidden(h, top) = {}
           /\ OnHand(h) \subseteq Live(h) \cup {nilObj}
  <1> DEFINE count == h.reclaimableContextCount
             hidden == {b \in Block \cap Live(h) : Reclaimable(h, b)}
             S == Live(h) \ Hidden(h, top)
             Roots == ({specialObjectsOop} \cup OnHand(h)) \cap Live(h)
  <1>1. /\ h \in HeapType /\ Live(h) \subseteq Object
        /\ {h.activeContext, h.theHomeContext} \subseteq Live(h)
    BY LiveObjects, RegistersLive DEF Sound, Core, Typed
  <1>2. count \in Nat /\ \A i \in 0..(count - 1) : top[i] \in Context
    BY <1>1 DEF Chain, Links, HeapType
  <1>3. OnHand(h) \cap Hidden(h, top) = {}
    <2> SUFFICES ASSUME NEW c \in {h.activeContext, h.theHomeContext},
                        NEW s \in StackSlots(c), NEW i \in 0..(count - 1),
                        h.fields[c][s] = top[i], top[i] \notin Block
                 PROVE  FALSE
      BY DEF OnHand, Hidden, Prefix
    <2>1. s \in Slot \ {SenderSlot, HomeSlot} /\ c \in Live(h)
      BY <1>1, StackSlotsAreSlots
    <2>2. QED
      BY <2>1 DEF Chain, Unnamed
  <1>4. OnHand(h) \subseteq Live(h) \cup {nilObj}
    BY <1>1, StackSlotsAreSlots DEF OnHand, Sound, Core, Pointing
  <1>5. specialObjectsOop \notin Hidden(h, top)
    BY <1>2, ImageAssumption DEF Hidden, Prefix
  <1>6. Roots \subseteq S
    BY <1>3, <1>5
  <1>7. ASSUME NEW o \in S, NEW s \in Slot, Visible(h)[o][s] \in Live(h)
        PROVE  Visible(h)[o][s] \in S
    <2> SUFFICES ASSUME NEW i \in 0..(count - 1), top[i] \notin Block,
                        Visible(h)[o][s] = top[i]
                 PROVE  FALSE
      BY <1>7 DEF Hidden, Prefix
    <2>1. Visible(h)[o] = IF o \in hidden
                          THEN [h.fields[o] EXCEPT ![SenderSlot] = nilObj]
                          ELSE h.fields[o]
      BY <1>1 DEF Visible
    <2>2. h.fields[o] \in [Slot -> Object \cup {nilObj}]
      BY <1>1 DEF HeapType
    <2> HIDE DEF hidden
    <2>3. /\ Visible(h)[o][s] = h.fields[o][s]
          /\ ~(s = SenderSlot /\ o \in hidden)
      BY <1>1, <1>7, <2>1, <2>2, NilAssumption
    <2>4. i > 0 /\ o = top[i - 1] /\ s = SenderSlot
      BY <2>3 DEF Chain, Unnamed
    <2>5. i - 1 \in 0..(count - 1)
      BY <1>2, <2>4
    <2>6. o \in Prefix(top, count)
      BY <2>4, <2>5 DEF Prefix
    <2>7. o \in Block
      BY <2>6 DEF Hidden
    <2>8. Reclaimable(h, o)
      BY <2>6, ReclaimableFirst
    <2>9. QED
      BY <2>3, <2>4, <2>7, <2>8 DEF hidden
  <1>8. Accessible(h) \subseteq S
    <2> HIDE DEF S, Roots
    <2>1. Accessible(h) = Reached(Visible(h), Roots, Slot, Live(h))
      BY DEF Accessible, Roots
    <2>2. S \subseteq Live(h)
      BY DEF S
    <2>3. QED
      BY <1>6, <1>7, <2>1, <2>2, ReachedLeast
  <1>9. QED
    BY <1>3, <1>4, <1>8

LEMMA HiddenContexts ==
    ASSUME NEW h, h \in HeapType, NEW c, NEW top, Chain(h, c, top)
    PROVE  /\ Hidden(h, top) \subseteq (Context \ Block) \cap Live(h)
           /\ nilObj \notin Hidden(h, top)
  <1>1. h.reclaimableContextCount \in Nat
    BY DEF HeapType
  <1>2. \A i \in 0..(h.reclaimableContextCount - 1) :
           top[i] \in Live(h) \cap Context
    BY <1>1 DEF Chain, Links
  <1>3. QED
    BY <1>2, NilAssumption, ImageAssumption DEF Hidden, Prefix

LEMMA ChainSame ==
    ASSUME NEW h, NEW g, SameMemory(h, g), NEW c, NEW top, Chain(h, c, top)
    PROVE  Chain(g, c, top) /\ Hidden(g, top) = Hidden(h, top)
  BY DEF SameMemory, Chain, Links, Distinct, Unnamed, Live, Hidden

\* The chain survives a collection: the sender's field is a strong one.
LEMMA ChainKept ==
    ASSUME NEW h, Sound(h), NEW g, Sound(g), Kept(h, g),
           NEW top, Chain(h, h.activeContext, top)
    PROVE  Chain(g, g.activeContext, top)
  <1> DEFINE count == h.reclaimableContextCount
             S == {i \in 0..count : top[i] \in Live(g)}
  <1>1. /\ count \in Nat /\ g.reclaimableContextCount = count
        /\ g.activeContext = h.activeContext /\ Live(g) \subseteq Live(h)
        /\ top \in [0..count -> Live(h) \cap Context]
        /\ top[0] = h.activeContext
        /\ SenderSlot \in StrongSlots
    BY SlotsAssumption
       DEF Sound, Core, Typed, HeapType, Kept, Chain, Links, StrongSlots
  <1>2. 0 \in S
    BY <1>1, RegistersLive DEF Sound
  <1>3. ASSUME NEW i \in 0..(count - 1), i \in S
        PROVE  i + 1 \in S /\ g.fields[top[i]][SenderSlot] = top[i + 1]
    <2>1. i + 1 \in 0..count
      BY <1>1
    <2>2. g.fields[top[i]][SenderSlot] = h.fields[top[i]][SenderSlot]
      BY <1>1, <1>3 DEF Kept
    <2>3. h.fields[top[i]][SenderSlot] = top[i + 1]
      BY DEF Chain, Links
    <2>4. top[i + 1] # nilObj
      BY <1>1, <2>1, NilAssumption, ImageAssumption
    <2>5. QED
      BY <1>1, <1>3, <2>1, <2>2, <2>3, <2>4, SlotsAssumption
         DEF Sound, Core, Pointing
  <1> HIDE DEF S
  <1>4. 0..count \subseteq S
    BY <1>1, <1>2, <1>3, Counting
  <1>5. Links(g, g.activeContext, top)
    <2>1. \A i \in 0..(count - 1) : i \in S
      BY <1>1, <1>4
    <2>2. \A i \in 0..count : top[i] \in Live(g) \cap Context
      BY <1>1, <1>4 DEF S
    <2>3. QED
      BY <1>1, <1>3, <2>1, <2>2 DEF Links
  <1>6. Distinct(g, top)
    BY <1>1 DEF Chain, Distinct
  <1>7. Unnamed(g, top)
    <2> SUFFICES ASSUME NEW i \in 0..(count - 1), NEW o \in Live(g),
                        NEW s \in Slot, top[i] \notin Block,
                        g.fields[o][s] = top[i]
                 PROVE  i > 0 /\ o = top[i - 1] /\ s = SenderSlot
      BY <1>1 DEF Unnamed
    <2>1. top[i] # nilObj
      BY <1>1, NilAssumption, ImageAssumption
    <2>2. h.fields[o][s] = top[i]
      BY <2>1 DEF Kept
    <2>3. QED
      BY <1>1, <2>2 DEF Chain, Unnamed
  <1>8. QED
    BY <1>5, <1>6, <1>7 DEF Chain

\* A store of anything that is not hidden, outside the chain's own field.
LEMMA ChainWrite ==
    ASSUME NEW h, h \in HeapType, NEW c, NEW top, Chain(h, c, top),
           NEW o \in Object, NEW s \in Slot \ {SenderSlot, HomeSlot},
           NEW v, v \notin Hidden(h, top)
    PROVE  Chain([h EXCEPT !.fields[o][s] = v], c, top)
  <1> DEFINE g == [h EXCEPT !.fields[o][s] = v]
             count == h.reclaimableContextCount
  <1>1. /\ Live(g) = Live(h) /\ g.reclaimableContextCount = count
        /\ g.fields = [h.fields EXCEPT ![o][s] = v]
    BY DEF HeapType, Live
  <1>2. \A p, t : g.fields[p][t] = IF p = o /\ t = s THEN v
                                                     ELSE h.fields[p][t]
    BY <1>1 DEF HeapType
  <1> HIDE DEF g
  <1>3. Links(g, c, top)
    BY <1>1, <1>2 DEF Chain, Links
  <1>4. Distinct(g, top)
    BY <1>1 DEF Chain, Distinct
  <1>5. Unnamed(g, top)
    <2> SUFFICES ASSUME NEW i \in 0..(count - 1), NEW p \in Live(h),
                        NEW t \in Slot, top[i] \notin Block,
                        g.fields[p][t] = top[i]
                 PROVE  i > 0 /\ p = top[i - 1] /\ t = SenderSlot
      BY <1>1 DEF Unnamed
    <2>1. top[i] \in Hidden(h, top)
      BY DEF Hidden, Prefix
    <2>2. h.fields[p][t] = top[i]
      BY <1>2, <2>1
    <2>3. QED
      BY <2>2 DEF Chain, Unnamed
  <1>6. QED
    BY <1>3, <1>4, <1>5 DEF Chain, g

LEMMA WriteSafe ==
    ASSUME NEW h, Sound(h), NEW top, Chain(h, h.activeContext, top),
           NEW o \in Live(h), NEW s \in Slot \ {SenderSlot, HomeSlot},
           NEW v \in Live(h) \cup {nilObj}, v \notin Hidden(h, top),
           (o \in h.old /\ v \in h.young) => Recorded(h, o)
    PROVE  Safe([h EXCEPT !.fields[o][s] = v])
  <1>1. h \in HeapType /\ o \in Object
    BY LiveObjects DEF Sound, Core, Typed
  <1>2. Sound([h EXCEPT !.fields[o][s] = v])
    BY Write
  <1>3. Chain([h EXCEPT !.fields[o][s] = v], h.activeContext, top)
    BY <1>1, ChainWrite
  <1>4. [h EXCEPT !.fields[o][s] = v].activeContext = h.activeContext
    BY <1>1 DEF HeapType
  <1>5. QED
    BY <1>2, <1>3, <1>4 DEF Safe

\* A new object that refers to nothing hidden.
LEMMA ChainNew ==
    ASSUME NEW h, h \in HeapType, NEW c, NEW top, Chain(h, c, top),
           NEW b \in Object, b \notin Live(h), NEW f,
           \A s \in Slot : f[s] \notin Hidden(h, top)
    PROVE  Chain([h EXCEPT !.young = @ \cup {b}, !.fields[b] = f], c, top)
  <1> DEFINE g == [h EXCEPT !.young = @ \cup {b}, !.fields[b] = f]
             count == h.reclaimableContextCount
  <1>1. /\ Live(g) = Live(h) \cup {b} /\ g.reclaimableContextCount = count
        /\ g.fields = [h.fields EXCEPT ![b] = f]
    BY DEF HeapType, Live
  <1>2. \A p \in Object : g.fields[p] = IF p = b THEN f ELSE h.fields[p]
    BY <1>1 DEF HeapType
  <1>3. Live(h) \subseteq Object
    BY DEF HeapType, Live
  <1> HIDE DEF g
  <1>4. Links(g, c, top)
    <2>1. /\ top \in [0..count -> Live(h) \cap Context] /\ top[0] = c
          /\ \A i \in 0..(count - 1) :
                h.fields[top[i]][SenderSlot] = top[i + 1]
      BY DEF Chain, Links
    <2>2. \A i \in 0..(count - 1) : top[i] \in Live(h)
      BY <2>1 DEF HeapType
    <2>3. \A i \in 0..(count - 1) : g.fields[top[i]] = h.fields[top[i]]
      BY <1>2, <1>3, <2>2
    <2>4. QED
      BY <1>1, <2>1, <2>3 DEF Links
  <1>5. Distinct(g, top)
    BY <1>1 DEF Chain, Distinct
  <1>6. Unnamed(g, top)
    <2> SUFFICES ASSUME NEW i \in 0..(count - 1), NEW p \in Live(h) \cup {b},
                        NEW t \in Slot, top[i] \notin Block,
                        g.fields[p][t] = top[i]
                 PROVE  i > 0 /\ p = top[i - 1] /\ t = SenderSlot
      BY <1>1 DEF Unnamed
    <2>1. top[i] \in Hidden(h, top)
      BY DEF Hidden, Prefix
    <2>2. p \in Live(h) /\ h.fields[p][t] = top[i]
      BY <1>2, <1>3, <2>1
    <2>3. QED
      BY <2>2 DEF Chain, Unnamed
  <1>7. QED
    BY <1>4, <1>5, <1>6 DEF Chain, g

\* A method's context is entered: it is counted, and knows the active one as
\* its sender.
LEMMA ChainEnter ==
    ASSUME NEW h, h \in HeapType, Pointing(h),
           NEW a, NEW top, Chain(h, a, top),
           NEW c \in Context, c \notin Live(h), NEW f, f[SenderSlot] = a,
           \A s \in Slot : f[s] \in Live(h) \cup {nilObj},
           \A s \in Slot \ {SenderSlot} : f[s] \notin Hidden(h, top),
           NEW g, Live(g) = Live(h) \cup {c},
           g.fields = [h.fields EXCEPT ![c] = f],
           g.reclaimableContextCount = h.reclaimableContextCount + 1
    PROVE  \E longer : Chain(g, c, longer)
  <1> DEFINE n == h.reclaimableContextCount
             longer == [i \in 0..(n + 1) |-> IF i = 0 THEN c ELSE top[i - 1]]
  <1>1. /\ n \in Nat /\ c \in Object /\ Live(h) \subseteq Object
        /\ c # nilObj
    BY NilAssumption, ImageAssumption DEF HeapType, Live
  <1>2. \A p \in Object : g.fields[p] = IF p = c THEN f ELSE h.fields[p]
    BY <1>1 DEF HeapType
  <1>3. /\ top \in [0..n -> Live(h) \cap Context] /\ top[0] = a
        /\ \A i \in 0..(n - 1) : h.fields[top[i]][SenderSlot] = top[i + 1]
        /\ \A i, j \in 0..n : top[i] = top[j] => i = j
    BY DEF Chain, Links, Distinct
  <1>4. longer[0] = c /\ \A i \in 1..(n + 1) : longer[i] = top[i - 1]
    BY <1>1
  <1>range. \A i \in 1..(n + 1) : i - 1 \in 0..n
    BY <1>1
  <1>5. longer \in [0..(n + 1) -> Live(g) \cap Context]
    BY <1>1, <1>3
  <1> HIDE DEF longer
  <1>6. ASSUME NEW i \in 0..n
        PROVE  g.fields[longer[i]][SenderSlot] = longer[i + 1]
    <2>1. i + 1 \in 1..(n + 1) /\ longer[i + 1] = top[i]
      BY <1>1, <1>4
    <2>2. CASE i = 0
      BY <1>1, <1>2, <1>3, <1>4, <2>1, <2>2
    <2>3. CASE i # 0
      <3>1. longer[i] = top[i - 1] /\ i - 1 \in 0..(n - 1)
        BY <1>1, <1>4, <2>3
      <3>2. h.fields[top[i - 1]][SenderSlot] = top[i]
        BY <1>3, <3>1
      <3>3. top[i - 1] \in Live(h)
        BY <1>1, <1>3, <3>1
      <3>4. QED
        BY <1>1, <1>2, <2>1, <3>1, <3>2, <3>3
    <2>4. QED
      BY <2>2, <2>3
  <1>7. ASSUME NEW i \in 0..(n + 1), NEW j \in 0..(n + 1),
               longer[i] = longer[j]
        PROVE  i = j
    <2>1. \A k \in 1..(n + 1) : longer[k] \in Live(h)
      BY <1>3, <1>4, <1>range
    <2>2. CASE i = 0 \/ j = 0
      BY <1>1, <1>4, <1>7, <2>1, <2>2
    <2>3. CASE i # 0 /\ j # 0
      <3>1. i \in 1..(n + 1) /\ j \in 1..(n + 1)
        BY <1>1, <2>3
      <3>2. i - 1 = j - 1
        BY <1>3, <1>4, <1>7, <1>range, <3>1
      <3>3. QED
        BY <3>1, <3>2
    <2>4. QED
      BY <2>2, <2>3
  <1>8. ASSUME NEW i \in 0..n, NEW o \in Live(g), NEW s \in Slot,
               longer[i] \notin Block, g.fields[o][s] = longer[i]
        PROVE  i > 0 /\ o = longer[i - 1] /\ s = SenderSlot
    <2>1. i # 0
      <3>1. g.fields[o][s] \in Live(h) \cup {nilObj}
        BY <1>1, <1>2 DEF Pointing
      <3>2. QED
        BY <1>1, <1>4, <1>8, <3>1
    <2>2. i \in 1..(n + 1) /\ i - 1 \in 0..(n - 1)
      BY <1>1, <2>1
    <2>3. longer[i] = top[i - 1]
      BY <1>4, <2>2
    <2>4. CASE o = c
      <3>1. top[i - 1] \in Hidden(h, top)
        BY <1>8, <2>2, <2>3 DEF Hidden, Prefix
      <3>2. s = SenderSlot
        BY <1>1, <1>2, <1>8, <2>3, <2>4, <3>1
      <3>3. top[i - 1] = top[0]
        BY <1>1, <1>2, <1>3, <1>8, <2>3, <2>4, <3>2
      <3>4. 0 \in 0..n /\ i - 1 \in 0..n
        BY <1>1, <2>2
      <3>5. i - 1 = 0
        BY <1>3, <3>3, <3>4
      <3>6. QED
        BY <1>4, <2>2, <2>4, <3>2, <3>5
    <2>5. CASE o # c
      <3>1. o \in Live(h) /\ h.fields[o][s] = top[i - 1]
        BY <1>1, <1>2, <1>8, <2>3, <2>5
      <3>2. i - 1 > 0 /\ o = top[(i - 1) - 1] /\ s = SenderSlot
        BY <1>8, <2>2, <2>3, <3>1 DEF Chain, Unnamed
      <3>3. i - 1 \in 1..(n + 1)
        BY <1>1, <2>2, <3>2
      <3>4. QED
        BY <1>4, <2>2, <3>2, <3>3
    <2>6. QED
      BY <2>4, <2>5
  <1>9. (n + 1) - 1 = n
    BY <1>1
  <1>10. Links(g, c, longer)
    BY <1>4, <1>5, <1>6, <1>9 DEF Links
  <1>11. Distinct(g, longer)
    BY <1>7 DEF Distinct
  <1>12. Unnamed(g, longer)
    BY <1>8, <1>9 DEF Unnamed
  <1>13. QED
    BY <1>10, <1>11, <1>12 DEF Chain

\* A block is entered: it is not counted, so that the last of those that
\* were is one no more.
LEMMA ChainValue ==
    ASSUME NEW h, h \in HeapType,
           NEW a, NEW top, Chain(h, a, top),
           NEW b \in Block \cap Live(h), h.fields[b][SenderSlot] = nilObj,
           NEW g, Live(g) = Live(h),
           g.fields = [h.fields EXCEPT ![b][SenderSlot] = a],
           g.reclaimableContextCount = h.reclaimableContextCount
    PROVE  \E other : Chain(g, b, other)
  <1> DEFINE n == h.reclaimableContextCount
             other == [i \in 0..n |-> IF i = 0 THEN b ELSE top[i - 1]]
  <1>1. n \in Nat /\ b \in Context /\ Live(h) \subseteq Object
    BY DEF HeapType, Live, Block
  <1>2. \A p \in Object, t \in Slot :
           g.fields[p][t] = IF p = b /\ t = SenderSlot THEN a
                                                       ELSE h.fields[p][t]
    BY DEF HeapType
  <1>3. /\ top \in [0..n -> Live(h) \cap Context] /\ top[0] = a
        /\ \A i \in 0..(n - 1) : h.fields[top[i]][SenderSlot] = top[i + 1]
        /\ \A i, j \in 0..n : top[i] = top[j] => i = j
    BY DEF Chain, Links, Distinct
  <1>4. other[0] = b /\ \A i \in 1..n : other[i] = top[i - 1]
    BY <1>1
  <1>range. \A i \in 1..n : i - 1 \in 0..n /\ i - 1 \in 0..(n - 1)
    BY <1>1
  <1>5. other \in [0..n -> Live(g) \cap Context]
    BY <1>1, <1>3, <1>range
  <1> HIDE DEF other
  \* The block had no sender, as all those counted have.
  <1>6. \A i \in 0..(n - 1) : top[i] # b
    <2> SUFFICES ASSUME NEW i \in 0..(n - 1)
                 PROVE  h.fields[top[i]][SenderSlot] # nilObj
      OBVIOUS
    <2>1. i + 1 \in 0..n
      BY <1>1
    <2>2. top[i + 1] \in Object
      BY <1>1, <1>3, <2>1
    <2>3. QED
      BY <1>3, <2>2, NilAssumption
  <1>7. ASSUME NEW i \in 0..(n - 1)
        PROVE  g.fields[other[i]][SenderSlot] = other[i + 1]
    <2>1. i + 1 \in 1..n /\ other[i + 1] = top[i]
      BY <1>1, <1>4
    <2>2. CASE i = 0
      BY <1>1, <1>2, <1>3, <1>4, <2>1, <2>2, SlotsAssumption
    <2>3. CASE i # 0
      <3>1. i \in 1..n /\ other[i] = top[i - 1] /\ i - 1 \in 0..(n - 1)
        BY <1>1, <1>4, <2>3
      <3>2. h.fields[top[i - 1]][SenderSlot] = top[i]
        BY <1>3, <3>1
      <3>3. top[i - 1] \in Object /\ top[i - 1] # b
        BY <1>1, <1>3, <1>6, <3>1
      <3>4. QED
        BY <1>2, <2>1, <3>1, <3>2, <3>3, SlotsAssumption
    <2>4. QED
      BY <2>2, <2>3
  <1>8. ASSUME NEW i \in 0..n, NEW j \in 0..n, other[i] = other[j]
        PROVE  i = j
    <2>1. \A k \in 1..n : other[k] # b
      BY <1>4, <1>6, <1>range
    <2>2. CASE i = 0 \/ j = 0
      <3>1. i = 0 \/ i \in 1..n
        BY <1>1
      <3>2. j = 0 \/ j \in 1..n
        BY <1>1
      <3>3. QED
        BY <1>4, <1>8, <2>1, <2>2, <3>1, <3>2
    <2>3. CASE i # 0 /\ j # 0
      <3>1. i \in 1..n /\ j \in 1..n
        BY <1>1, <2>3
      <3>2. i - 1 = j - 1
        BY <1>3, <1>4, <1>8, <1>range, <3>1
      <3>3. QED
        BY <3>1, <3>2
    <2>4. QED
      BY <2>2, <2>3
  <1>9. ASSUME NEW i \in 0..(n - 1), NEW o \in Live(g), NEW s \in Slot,
               other[i] \notin Block, g.fields[o][s] = other[i]
        PROVE  i > 0 /\ o = other[i - 1] /\ s = SenderSlot
    <2>1. i \in 1..n
      BY <1>1, <1>4, <1>9
    <2>2. other[i] = top[i - 1] /\ i - 1 \in 0..(n - 1)
      BY <1>4, <1>range, <2>1
    <2>3. o \in Object
      BY <1>1
    <2>4. CASE o = b /\ s = SenderSlot
      <3>1. top[i - 1] = top[0]
        BY <1>2, <1>3, <1>9, <2>2, <2>3, <2>4
      <3>2. 0 \in 0..n /\ i - 1 \in 0..n
        BY <1>1, <2>2
      <3>3. i - 1 = 0
        BY <1>3, <3>1, <3>2
      <3>4. QED
        BY <1>4, <2>1, <2>4, <3>3
    <2>5. CASE ~(o = b /\ s = SenderSlot)
      <3>1. h.fields[o][s] = top[i - 1]
        BY <1>2, <1>9, <2>2, <2>3, <2>5
      <3>2. i - 1 > 0 /\ o = top[(i - 1) - 1] /\ s = SenderSlot
        BY <1>9, <2>2, <3>1 DEF Chain, Unnamed
      <3>3. i - 1 \in 1..n
        BY <1>1, <2>1, <3>2
      <3>4. QED
        BY <1>4, <2>1, <3>2, <3>3
    <2>6. QED
      BY <2>4, <2>5
  <1>10. Links(g, b, other)
    BY <1>4, <1>5, <1>7 DEF Links
  <1>11. Distinct(g, other)
    BY <1>8 DEF Distinct
  <1>12. Unnamed(g, other)
    BY <1>9 DEF Unnamed
  <1>13. QED
    BY <1>10, <1>11, <1>12 DEF Chain

\* With nothing counted, the active context is all there is of the chain.
LEMMA ChainEmpty ==
    ASSUME NEW h, h.reclaimableContextCount = 0,
           NEW c \in Live(h) \cap Context
    PROVE  Chain(h, c, [i \in 0..0 |-> c])
  BY DEF Chain, Links, Distinct, Unnamed

LEMMA Recount ==
    ASSUME NEW h, Sound(h), NEW n \in Nat
    PROVE  LET g == [h EXCEPT !.reclaimableContextCount = n]
           IN  /\ Sound(g) /\ g.reclaimableContextCount = n
               /\ g.old = h.old /\ g.young = h.young /\ g.fields = h.fields
               /\ g.activeContext = h.activeContext
  <1> DEFINE g == [h EXCEPT !.reclaimableContextCount = n]
  <1>1. h \in HeapType
    BY DEF Sound, Core, Typed
  <1>2. /\ g \in HeapType /\ g.old = h.old /\ g.young = h.young
        /\ g.fields = h.fields /\ g.activeContext = h.activeContext
        /\ g.theHomeContext = h.theHomeContext
        /\ g.freeContexts = h.freeContexts
        /\ g.rootTable = h.rootTable /\ g.rootBit = h.rootBit
        /\ g.rootTableCount = h.rootTableCount
        /\ g.allocationCount = h.allocationCount
        /\ g.reclaimableContextCount = n
    BY <1>1 DEF HeapType
  <1> HIDE DEF g
  <1>3. Live(g) = Live(h)
    BY <1>2 DEF Live
  <1>4. Core(g)
    BY <1>2, <1>3 DEF Sound, Core, Typed, Pointing, Known, Linked, Registers,
                      HomeOf, Recorded
  <1>5. RedZone(g) /\ Rooted(g)
    BY <1>2 DEF Sound, RedZone, Rooted, Recorded
  <1>6. QED
    BY <1>2, <1>4, <1>5 DEF Sound, g

LEMMA CollectionSafe ==
    ASSUME NEW h, Safe(h), NEW g, Sound(g), Kept(h, g)
    PROVE  Safe(g)
  BY ChainKept DEF Safe

-----------------------------------------------------------------------------
(* The operations.                                                         *)

LEMMA AccessibleLive ==
    ASSUME NEW h
    PROVE  Accessible(h) \subseteq Live(h)
  BY ReachedWithin DEF Accessible

LEMMA StorePointerSafe ==
    ASSUME ~BlockSendersRead, Safe(heap), StorePointer
    PROVE  Safe(heap')
  <1>1. PICK o \in Accessible(heap), v \in Accessible(heap) \cup {nilObj} :
           \E s \in StackSlots(o) : heap' = storePointer(heap, o, s, v)
    BY DEF StorePointer
  <1>2. PICK s \in StackSlots(o) : heap' = storePointer(heap, o, s, v)
    BY <1>1
  <1> DEFINE k == possibleRootStoreInto(heap, o, v)
  <1>3. /\ o \in Live(heap) /\ v \in Live(heap) \cup {nilObj}
        /\ o \in Object
        /\ s \in Slot \ {SenderSlot, HomeSlot}
    BY <1>1, <1>2, AccessibleLive, LiveObjects, StackSlotsAreSlots
       DEF Safe, Sound, Core
  <1>4. /\ Typed(k) /\ SameButRoots(heap, k) /\ RedZone(k)
        /\ (o \in k.old /\ v \in k.young) => Recorded(k, o)
    <2>1. CASE o \in heap.old /\ v \in heap.young
      BY <1>3, <2>1, NoteAsRoot DEF possibleRootStoreInto, Safe, Sound, Core
    <2>2. CASE ~(o \in heap.old /\ v \in heap.young)
      BY <2>2 DEF possibleRootStoreInto, Safe, Sound, Core, SameButRoots
    <2>3. QED
      BY <2>1, <2>2
  <1>5. heap' = [k EXCEPT !.fields[o][s] = v]
    BY <1>2 DEF storePointer
  <1> HIDE DEF k
  <1>6. Core(k)
    BY <1>4, CoreSame DEF Safe, Sound
  <1>7. Rooted(k)
    BY <1>4, RegistersLive, LiveObjects, ImageAssumption
       DEF Safe, Sound, Core, Rooted, SameButRoots
  <1>8. Live(k) = Live(heap) /\ k.activeContext = heap.activeContext
    BY <1>4 DEF SameButRoots, Live
  <1>9. PICK top : Chain(heap, heap.activeContext, top)
    BY DEF Safe
  <1>10. v \notin Hidden(heap, top)
    BY <1>9, NothingHiddenNamed, HiddenContexts DEF Safe, Sound, Core, Typed
  <1>11. Chain(k, k.activeContext, top) /\ v \notin Hidden(k, top)
    BY <1>4, <1>8, <1>9, <1>10, ChainSame DEF SameButRoots, SameMemory
  <1>12. QED
    BY <1>3, <1>4, <1>5, <1>6, <1>7, <1>8, <1>11, WriteSafe DEF Sound

LEMMA StoreUncheckedSafe ==
    ASSUME ~BlockSendersRead, Safe(heap), StoreUnchecked
    PROVE  Safe(heap')
  <1>1. PICK o \in {heap.activeContext, heap.theHomeContext},
             v \in Accessible(heap) \cup {nilObj} :
           \E s \in StackSlots(o) :
               heap' = [heap EXCEPT !.fields[o][s] = v]
    BY DEF StoreUnchecked
  <1>2. PICK s \in StackSlots(o) : heap' = [heap EXCEPT !.fields[o][s] = v]
    BY <1>1
  <1>3. /\ o \in Live(heap) /\ v \in Live(heap) \cup {nilObj}
        /\ o \in Object
        /\ s \in Slot \ {SenderSlot, HomeSlot}
    BY <1>1, <1>2, AccessibleLive, RegistersLive, LiveObjects,
       StackSlotsAreSlots DEF Safe, Sound, Core
  <1>4. (o \in heap.old /\ v \in heap.young) => Recorded(heap, o)
    BY <1>1 DEF Safe, Sound, Rooted
  <1>5. PICK top : Chain(heap, heap.activeContext, top)
    BY DEF Safe
  <1>6. v \notin Hidden(heap, top)
    BY <1>5, NothingHiddenNamed, HiddenContexts DEF Safe, Sound, Core, Typed
  <1>7. QED
    BY <1>2, <1>3, <1>4, <1>5, <1>6, WriteSafe DEF Safe

\* From here on the active context is known.
LEMMA PushThisContextSafe ==
    ASSUME Safe(heap), PushThisContext
    PROVE  Safe(heap')
  <1>1. PICK s \in StackSlots(heap.activeContext) :
           heap' = [heap EXCEPT !.fields[heap.activeContext][s] =
                                    heap.activeContext,
                                !.reclaimableContextCount = 0]
    BY DEF PushThisContext
  <1> DEFINE g == [heap EXCEPT !.reclaimableContextCount = 0]
             c == heap.activeContext
             top == [i \in 0..0 |-> c]
  <1>2. /\ Sound(heap) /\ heap \in HeapType
        /\ c \in Live(heap) \cap Context /\ c \in Object
    BY RegistersLive, ImageAssumption DEF Safe, Sound, Core, Typed
  <1>3. heap' = [g EXCEPT !.fields[c][s] = c]
    BY <1>1, <1>2 DEF HeapType
  <1>4. /\ Sound(g) /\ g.reclaimableContextCount = 0
        /\ Live(g) = Live(heap) /\ g.activeContext = c
    BY <1>2, Recount DEF Live
  <1> HIDE DEF g
  <1>5. Chain(g, g.activeContext, top)
    BY <1>2, <1>4, ChainEmpty
  <1>6. Hidden(g, top) = {}
    BY <1>4 DEF Hidden, Prefix
  <1>7. s \in Slot \ {SenderSlot, HomeSlot}
    BY <1>1, <1>2, StackSlotsAreSlots
  <1>8. c \in g.old => Recorded(g, c)
    BY <1>4 DEF Sound, Rooted
  <1> HIDE DEF top
  <1>9. QED
    BY <1>2, <1>3, <1>4, <1>5, <1>6, <1>7, <1>8, WriteSafe

\* A fresh object with the fields f, and the register's context in place.
LEMMA Instantiate ==
    ASSUME NEW h, Sound(h), NEW b \in Object,
           b \notin Live(h) \cup h.freeContexts, NEW space \in SpaceFound,
           NEW top, Chain(h, h.activeContext, top)
    PROVE  LET k == allocateChunk(h, space)
           IN  /\ Sound(k) /\ Kept(h, k)
               /\ b \notin Live(k) \cup k.freeContexts
               /\ k.activeContext = h.activeContext
               /\ h.activeContext \in Live(k) \cap Context
               /\ Chain(k, k.activeContext, top)
  <1>1. Sound(allocateChunk(h, space)) /\ Kept(h, allocateChunk(h, space))
    BY AllocateChunk
  <1>2. QED
    BY <1>1, RegistersLive, ChainKept DEF Kept, Sound

\* One field of the fresh object set after its creation, or with it.
SetField(h, o, s, v) == [h EXCEPT !.fields[o][s] = v]
Fresh(h, o, f) == [h EXCEPT !.young = @ \cup {o}, !.fields[o] = f]
OneField(s, v) == [NoFields EXCEPT ![s] = v]

LEMMA FreshWithField ==
    ASSUME NEW k, k \in HeapType, NEW b \in Object, NEW s, NEW v
    PROVE  SetField(Fresh(k, b, NoFields), b, s, v) = Fresh(k, b, OneField(s, v))
  <1> DEFINE i == Fresh(k, b, NoFields)
             f == OneField(s, v)
             j == SetField(i, b, s, v)
  <1>1. i.fields = [k.fields EXCEPT ![b] = NoFields] /\ i.fields[b] = NoFields
    BY DEF HeapType, Fresh
  <1>2. [i.fields[b] EXCEPT ![s] = v] = f
    BY <1>1 DEF OneField
  <1>3. j = [i EXCEPT !.fields = [i.fields EXCEPT ![b] = f]]
    BY <1>2 DEF SetField
  <1>4. [i.fields EXCEPT ![b] = f] = [k.fields EXCEPT ![b] = f]
    BY <1>1 DEF HeapType
  <1>5. j = [i EXCEPT !.fields = [k.fields EXCEPT ![b] = f]]
    BY <1>3, <1>4
  <1>6. QED
    BY <1>5 DEF HeapType, Fresh

\* Two fields of an object whose fields are nil, and the count of contexts.
SetTwo(h, c, s, a, t, r) ==
    [h EXCEPT !.fields[c][s] = a, !.fields[c][t] = r,
              !.reclaimableContextCount = @ + 1]
SetAtOnce(h, c, s, a, t, r) ==
    [h EXCEPT !.fields = [h.fields EXCEPT
                            ![c] = [NoFields EXCEPT ![s] = a, ![t] = r]],
              !.reclaimableContextCount = h.reclaimableContextCount + 1]

LEMMA TwoFields ==
    ASSUME NEW h, h \in HeapType, NEW c \in Object, h.fields[c] = NoFields,
           NEW s, NEW a, NEW t, NEW r
    PROVE  SetTwo(h, c, s, a, t, r) = SetAtOnce(h, c, s, a, t, r)
  <1> DEFINE f1 == [NoFields EXCEPT ![s] = a]
             f2 == [f1 EXCEPT ![t] = r]
             h1 == [h EXCEPT !.fields[c][s] = a]
             h2 == [h1 EXCEPT !.fields[c][t] = r]
             fields == [h.fields EXCEPT ![c] = f2]
  <1>1. h1 = [h EXCEPT !.fields = [h.fields EXCEPT ![c] = f1]]
    OBVIOUS
  <1> HIDE DEF f1
  <1>2. h1.fields = [h.fields EXCEPT ![c] = f1]
    BY <1>1 DEF HeapType
  <1>3. h1.fields[c] = f1
    BY <1>2 DEF HeapType
  <1>4. h2 = [h1 EXCEPT !.fields = [h1.fields EXCEPT ![c] = f2]]
    BY <1>3
  <1> HIDE DEF f2
  <1>5. [h1.fields EXCEPT ![c] = f2] = fields
    BY <1>2 DEF HeapType
  <1> HIDE DEF fields
  <1>6. h2 = [h EXCEPT !.fields = fields]
    BY <1>1, <1>4, <1>5 DEF HeapType
  <1> HIDE DEF h2
  <1>7. [h2 EXCEPT !.reclaimableContextCount = @ + 1] =
        [h EXCEPT !.fields = fields,
                  !.reclaimableContextCount = h.reclaimableContextCount + 1]
    BY <1>6 DEF HeapType
  <1>8. QED
    BY <1>7 DEF SetTwo, SetAtOnce, h2, h1, fields, f2, f1

LEMMA PrimitiveNewSafe ==
    ASSUME Safe(heap), PrimitiveNew
    PROVE  Safe(heap')
  <1>1. PICK o \in Object \ (Live(heap) \cup Context), space \in SpaceFound :
           \E s \in StackSlots(heap.activeContext) :
               heap' = [instantiate(heap, space, o)
                           EXCEPT !.fields[heap.activeContext][s] = o]
    BY DEF PrimitiveNew
  <1>2. PICK s \in StackSlots(heap.activeContext) :
           heap' = [instantiate(heap, space, o)
                       EXCEPT !.fields[heap.activeContext][s] = o]
    BY <1>1
  <1> DEFINE k == allocateChunk(heap, space)
             g == [k EXCEPT !.young = @ \cup {o}, !.fields[o] = NoFields]
             c == heap.activeContext
  <1>chain. PICK top : Chain(heap, heap.activeContext, top)
    BY DEF Safe
  <1>free. o \notin heap.freeContexts
    BY <1>1 DEF Safe, Sound, Core, Typed, HeapType
  <1>3. /\ Sound(k) /\ Kept(heap, k) /\ o \notin Live(k) \cup k.freeContexts
        /\ k.activeContext = c /\ c \in Live(k) \cap Context
        /\ Chain(k, c, top)
    BY <1>1, <1>chain, <1>free, Instantiate DEF Safe
  <1>fresh. instantiate(heap, space, o) = g
    BY DEF instantiate
  <1> HIDE DEF k
  <1>4. NoFields \in [Slot -> Live(k) \cup {nilObj}]
    BY DEF NoFields
  <1>5. /\ Sound(g)
        /\ Updated(k, g, k.young \cup {o}, [k.fields EXCEPT ![o] = NoFields])
    BY <1>1, <1>3, <1>4, NewObject DEF Block
  <1>new. Chain(g, c, top)
    <2>1. k \in HeapType
      BY <1>3 DEF Sound, Core, Typed
    <2>2. \A t \in Slot : NoFields[t] \notin Hidden(k, top)
      BY <1>3, <2>1, HiddenContexts DEF NoFields
    <2>3. QED
      BY <1>1, <1>3, <2>1, <2>2, ChainNew
  <1> HIDE DEF g
  <1>6. /\ o \in Live(g) /\ c \in Live(g) /\ g.activeContext = c
    BY <1>3, <1>5 DEF Updated, Live
  <1>hidden. o \notin Hidden(g, top)
    BY <1>1, <1>5, <1>new, HiddenContexts DEF Sound, Core, Typed
  <1>7. s \in Slot \ {SenderSlot, HomeSlot}
    BY <1>2, <1>3, StackSlotsAreSlots, ImageAssumption
  <1>8. c \in g.old => Recorded(g, c)
    BY <1>5, <1>6 DEF Sound, Rooted
  <1>9. QED
    BY <1>2, <1>fresh, <1>5, <1>new, <1>6, <1>hidden, <1>7, <1>8, WriteSafe

LEMMA PrimitiveBlockCopySafe ==
    ASSUME Safe(heap), PrimitiveBlockCopy
    PROVE  Safe(heap')
  <1>1. PICK b \in Block \ Live(heap), space \in SpaceFound,
             s \in StackSlots(heap.activeContext) :
           LET context == heap.fields[heap.activeContext][s]
           IN  /\ context \in Context
               /\ heap' = [instantiate(heap, space, b) EXCEPT
                              !.fields[b][HomeSlot] = HomeOf(heap, context),
                              !.fields[heap.activeContext][s] = b]
    BY DEF PrimitiveBlockCopy, HomeOf
  <1> DEFINE k == allocateChunk(heap, space)
             active == heap.activeContext
             c == heap.fields[active][s]
             home == HomeOf(heap, c)
             f == [NoFields EXCEPT ![HomeSlot] = home]
             g == [k EXCEPT !.young = @ \cup {b}, !.fields[b] = f]
  <1>2. b \in Object /\ b \in Context /\ c \in Context /\ c # nilObj
    BY <1>1, NilAssumption, ImageAssumption DEF Block
  <1>chain. PICK top : Chain(heap, heap.activeContext, top)
    BY DEF Safe
  <1>free. b \notin heap.freeContexts
    BY <1>1 DEF Safe, Sound, Core, Typed, HeapType
  <1>3. /\ Sound(k) /\ Kept(heap, k) /\ b \notin Live(k) \cup k.freeContexts
        /\ k.activeContext = active /\ active \in Live(k) \cap Context
        /\ Chain(k, active, top)
    BY <1>1, <1>2, <1>chain, <1>free, Instantiate DEF Safe
  <1>fresh. instantiate(heap, space, b) =
            [k EXCEPT !.young = @ \cup {b}, !.fields[b] = NoFields]
    BY DEF instantiate
  <1>slot. s \in Slot \ {SenderSlot, HomeSlot} /\ active \in Object
    BY <1>1, <1>3, StackSlotsAreSlots, ImageAssumption
  <1> HIDE DEF k
  <1>4. HomeSlot \in StrongSlots /\ HomeSlot \in Slot
    BY SlotsAssumption DEF StrongSlots
  \* What the active context holds, and its home, has survived: contexts have
  \* no weak fields.
  <1>5. c \in Live(k) /\ c = k.fields[active][s]
    <2>1. s \in StrongSlots
      BY <1>1, <1>3, <1>slot, ImageAssumption DEF StackSlots, StrongSlots
    <2>2. c = k.fields[active][s]
      BY <1>3, <2>1 DEF Kept
    <2>3. QED
      BY <1>2, <1>3, <1>slot, <2>2 DEF Sound, Core, Pointing
  <1> HIDE DEF c
  <1>6. home = HomeOf(k, c)
    BY <1>3, <1>4, <1>5 DEF HomeOf, Kept
  <1>7. home \in Live(k) \cap (Context \ Block) /\ home \notin Hidden(k, top)
    <2>1. CASE c \in Block
      <3>1. home = k.fields[c][HomeSlot]
        BY <1>6, <2>1 DEF HomeOf
      <3>2. home \in Context \ Block
        BY <1>3, <1>5, <2>1, <3>1 DEF Sound, Core, Linked
      <3>3. home # nilObj
        BY <3>2, NilAssumption, ImageAssumption
      <3>4. home \notin Hidden(k, top)
        BY <1>3, <1>4, <1>5, <3>1, SlotsAssumption
           DEF Chain, Unnamed, Hidden, Prefix
      <3>5. QED
        BY <1>3, <1>4, <1>5, <3>1, <3>2, <3>3, <3>4 DEF Sound, Core, Pointing
    <2>2. CASE c \notin Block
      <3>1. home = c
        BY <2>2 DEF HomeOf
      <3>2. c \notin Hidden(k, top)
        BY <1>3, <1>5, <1>slot DEF Chain, Unnamed, Hidden, Prefix
      <3>3. QED
        BY <1>2, <1>5, <2>2, <3>1, <3>2
    <2>3. QED
      BY <2>1, <2>2
  <1> HIDE DEF home
  <1>8. f \in [Slot -> Live(k) \cup {nilObj}] /\ f[HomeSlot] = home
    BY <1>4, <1>7 DEF NoFields
  <1>9. f[SenderSlot] = nilObj
    BY SlotsAssumption DEF NoFields
  <1> HIDE DEF f
  <1>10. /\ Sound(g)
         /\ Updated(k, g, k.young \cup {b}, [k.fields EXCEPT ![b] = f])
    BY <1>2, <1>3, <1>7, <1>8, <1>9, NewObject
  <1>new. Chain(g, active, top)
    <2>1. k \in HeapType
      BY <1>3 DEF Sound, Core, Typed
    <2>2. \A t \in Slot : f[t] \notin Hidden(k, top)
      BY <1>3, <1>7, <2>1, HiddenContexts DEF NoFields, f
    <2>3. QED
      BY <1>2, <1>3, <2>1, <2>2, ChainNew
  <1>11. heap' = [g EXCEPT !.fields[active][s] = b]
    <2>1. k \in HeapType
      BY <1>3 DEF Sound, Core, Typed
    <2>2. instantiate(heap, space, b) = Fresh(k, b, NoFields)
      BY <1>fresh DEF Fresh
    <2>3. SetField(instantiate(heap, space, b), b, HomeSlot, home) =
             Fresh(k, b, OneField(HomeSlot, home))
      BY <1>2, <2>1, <2>2, FreshWithField
    <2>4. SetField(instantiate(heap, space, b), b, HomeSlot, home) = g
      BY <2>3 DEF Fresh, OneField, f
    <2>5. QED
      BY <1>1, <2>4 DEF SetField, home, c
  <1> HIDE DEF g
  <1>12. b \in Live(g) /\ active \in Live(g) /\ g.activeContext = active
    BY <1>3, <1>10 DEF Updated, Live
  <1>13. b \notin Hidden(g, top)
    BY <1>1, <1>10, <1>new, HiddenContexts DEF Sound, Core, Typed
  <1>14. active \in g.old => Recorded(g, active)
    BY <1>10, <1>12 DEF Sound, Rooted
  <1>15. QED
    BY <1>10, <1>11, <1>new, <1>12, <1>13, <1>14, <1>slot, WriteSafe

\* The context of a method, fresh or recycled, with all its fields nil.
LEMMA AllocateOrRecycleContext ==
    ASSUME NEW h, Sound(h), NEW c \in Context \ Block, c \notin Live(h),
           NEW space \in SpaceFound, NEW top, Chain(h, h.activeContext, top)
    PROVE  \E k : /\ Sound(k) /\ c \notin Live(k) \cup k.freeContexts
                  /\ k.activeContext = h.activeContext
                  /\ h.activeContext \in Live(k) \cap Context
                  /\ Chain(k, k.activeContext, top)
                  /\ allocateOrRecycleContext(h, space, c) =
                        Fresh(k, c, NoFields)
  <1>1. CASE c \in h.freeContexts
    <2> DEFINE k == [h EXCEPT !.freeContexts = @ \ {c}]
    <2>1. h \in HeapType
      BY DEF Sound, Core, Typed
    <2>2. /\ k \in HeapType /\ k.old = h.old /\ k.young = h.young
          /\ k.fields = h.fields /\ k.activeContext = h.activeContext
          /\ k.theHomeContext = h.theHomeContext
          /\ k.freeContexts = h.freeContexts \ {c}
          /\ k.rootTable = h.rootTable /\ k.rootBit = h.rootBit
          /\ k.rootTableCount = h.rootTableCount
          /\ k.allocationCount = h.allocationCount
          /\ k.reclaimableContextCount = h.reclaimableContextCount
      BY <2>1 DEF HeapType
    <2>3. allocateOrRecycleContext(h, space, c) = Fresh(k, c, NoFields)
      BY <1>1, <2>1 DEF allocateOrRecycleContext, Fresh, HeapType
    <2> HIDE DEF k
    <2>4. Live(k) = Live(h)
      BY <2>2 DEF Live
    <2>5. Core(k)
      BY <2>2, <2>4 DEF Sound, Core, Typed, Pointing, Known, Linked,
                        Registers, HomeOf, Recorded
    <2>6. Sound(k)
      BY <2>2, <2>5 DEF Sound, RedZone, Rooted, Recorded
    <2>7. SameMemory(h, k)
      BY <2>2 DEF SameMemory
    <2>8. QED
      BY <2>2, <2>3, <2>4, <2>6, <2>7, ChainSame, RegistersLive DEF Sound
  <1>2. CASE c \notin h.freeContexts
    <2>1. c \in Object
      BY ImageAssumption
    <2>2. allocateOrRecycleContext(h, space, c) =
             Fresh(allocateChunk(h, space), c, NoFields)
      BY <1>2 DEF allocateOrRecycleContext, instantiate, Fresh
    <2>3. QED
      BY <1>2, <2>1, <2>2, Instantiate
  <1>3. QED
    BY <1>1, <1>2

LEMMA ActivateNewMethodSafe ==
    ASSUME Safe(heap), ActivateNewMethod
    PROVE  Safe(heap')
  <1> DEFINE active == heap.activeContext
  <1>1. PICK c \in (Context \ Block) \ Live(heap), space \in SpaceFound :
           LET h == allocateOrRecycleContext(heap, space, c)
           IN  \E from \in StackSlots(active), to \in StackSlots(c) :
                  heap' = newActiveContext(
                     [h EXCEPT
                         !.fields[c][SenderSlot] = h.activeContext,
                         !.fields[c][to] = h.fields[h.activeContext][from],
                         !.reclaimableContextCount = @ + 1], c)
    BY DEF ActivateNewMethod
  <1> DEFINE h == allocateOrRecycleContext(heap, space, c)
  <1>2. PICK from \in StackSlots(active), to \in StackSlots(c) :
           heap' = newActiveContext(
              [h EXCEPT
                  !.fields[c][SenderSlot] = h.activeContext,
                  !.fields[c][to] = h.fields[h.activeContext][from],
                  !.reclaimableContextCount = @ + 1], c)
    BY <1>1
  <1>3. PICK top : Chain(heap, active, top)
    BY DEF Safe
  <1>4. PICK k : /\ Sound(k) /\ c \notin Live(k) \cup k.freeContexts
                 /\ k.activeContext = active
                 /\ active \in Live(k) \cap Context
                 /\ Chain(k, k.activeContext, top)
                 /\ h = Fresh(k, c, NoFields)
    BY <1>1, <1>3, AllocateOrRecycleContext DEF Safe
  <1> DEFINE receiver == k.fields[active][from]
             f == [NoFields EXCEPT ![SenderSlot] = active, ![to] = receiver]
             i == Fresh(k, c, f)
             n == k.reclaimableContextCount
             g == [i EXCEPT !.reclaimableContextCount = n + 1]
  <1>5. /\ c \in Object /\ c \in Context \ Block /\ active \in Object
        /\ k \in HeapType /\ Live(k) \subseteq Object /\ n \in Nat
    BY <1>1, <1>4, ImageAssumption, LiveObjects
       DEF Sound, Core, Typed, HeapType
  <1>6. /\ from \in Slot \ {SenderSlot, HomeSlot}
        /\ to \in Slot \ {SenderSlot, HomeSlot}
    BY <1>2, <1>5, StackSlotsAreSlots
  <1>7. receiver \in Live(k) \cup {nilObj} /\ receiver \notin Hidden(k, top)
    BY <1>4, <1>6 DEF Sound, Core, Pointing, Chain, Unnamed, Hidden, Prefix
  <1>8. /\ f \in [Slot -> Live(k) \cup {nilObj}]
        /\ f[SenderSlot] = active /\ f[to] = receiver
        /\ \A s \in Slot \ {SenderSlot, to} : f[s] = nilObj
    BY <1>4, <1>6, <1>7, SlotsAssumption DEF NoFields
  <1> HIDE DEF h
  <1>9. heap' = newActiveContext(g, c)
    <2>1. /\ h.activeContext = active /\ h.fields[active] = k.fields[active]
          /\ h.reclaimableContextCount = n /\ h.fields[c] = NoFields
          /\ h.fields = [k.fields EXCEPT ![c] = NoFields]
      BY <1>4, <1>5 DEF Fresh, HeapType
    <2> DEFINE fields == [h.fields EXCEPT
                            ![c] = [NoFields EXCEPT ![SenderSlot] = active,
                                                    ![to] = receiver]]
    <2>heap. h \in HeapType
      BY <1>4, <1>5, <1>8 DEF Fresh, HeapType, NoFields
    <2>2. [h EXCEPT !.fields[c][SenderSlot] = h.activeContext,
                    !.fields[c][to] = h.fields[h.activeContext][from],
                    !.reclaimableContextCount = @ + 1] =
          [h EXCEPT !.fields = fields, !.reclaimableContextCount = n + 1]
      <3> HIDE DEF receiver
      <3>1. h.fields[h.activeContext][from] = receiver
        BY <2>1 DEF receiver
      <3>2. SetTwo(h, c, SenderSlot, active, to, receiver) =
               SetAtOnce(h, c, SenderSlot, active, to, receiver)
        <4>1. c \in Object /\ h \in HeapType /\ h.fields[c] = NoFields
          BY <1>5, <2>1, <2>heap
        <4>2. QED
          BY ONLY <4>1, TwoFields, Zenon
      <3>3. QED
        BY <2>1, <3>1, <3>2 DEF SetTwo, SetAtOnce
    <2>3. fields = [k.fields EXCEPT ![c] = f]
      BY <1>5, <2>1 DEF HeapType
    <2> HIDE DEF fields, f, receiver
    <2>4. [h EXCEPT !.fields = fields, !.reclaimableContextCount = n + 1] = g
      BY <1>4, <1>5, <2>3 DEF Fresh, HeapType
    <2>5. QED
      BY <1>2, <2>2, <2>4 DEF receiver
  <1> HIDE DEF f, receiver
  <1>10. /\ Sound(i)
         /\ Updated(k, i, k.young \cup {c}, [k.fields EXCEPT ![c] = f])
    BY <1>4, <1>5, <1>8, NewObject DEF Fresh
  <1> HIDE DEF i
  <1>11. /\ Sound(g) /\ g.reclaimableContextCount = n + 1
         /\ Live(g) = Live(k) \cup {c}
         /\ g.fields = [k.fields EXCEPT ![c] = f]
    BY <1>5, <1>10, Recount DEF Updated, Live
  <1> HIDE DEF g
  <1>12. PICK longer : Chain(g, c, longer)
    <2>1. \A s \in Slot \ {SenderSlot} : f[s] \notin Hidden(k, top)
      BY <1>4, <1>5, <1>7, <1>8, HiddenContexts
    <2>2. QED
      BY <1>4, <1>5, <1>8, <1>11, <2>1, ChainEnter DEF Sound, Core
  <1>13. /\ Sound(heap') /\ SameMemory(g, heap')
         /\ (heap').activeContext = c
    <2>1. /\ Typed(g) /\ Pointing(g) /\ Linked(g) /\ RedZone(g)
          /\ specialObjectsOop \in Live(g) /\ c \in Live(g) \cap Context
          /\ \A o \in g.old \ {c}, s \in Slot :
                g.fields[o][s] \in g.young => Recorded(g, o)
      BY <1>5, <1>11 DEF Sound, Core, Known, Registers
    <2>2. QED
      BY <1>9, <2>1, NewActiveContext
  <1>14. QED
    BY <1>12, <1>13, ChainSame DEF Safe

\* The sender is stored unchecked into a block's context that may be old: it
\* is recorded when it becomes the active one.
LEMMA PrimitiveValueSafe ==
    ASSUME Safe(heap), PrimitiveValue
    PROVE  Safe(heap')
  <1>1. PICK b \in Accessible(heap) \cap Block :
           /\ heap.fields[b][SenderSlot] = nilObj
           /\ heap' = newActiveContext(
                        [heap EXCEPT !.fields[b][SenderSlot] =
                                         heap.activeContext], b)
    BY DEF PrimitiveValue
  <1> DEFINE active == heap.activeContext
             fields == [heap.fields EXCEPT ![b][SenderSlot] = active]
             g == [heap EXCEPT !.fields[b][SenderSlot] = active]
  <1>2. /\ b \in Live(heap) /\ b \in Context /\ b \in Object
        /\ active \in Live(heap) \cap Context
        /\ heap \in HeapType /\ Live(heap) \subseteq Object
    BY <1>1, AccessibleLive, RegistersLive, LiveObjects, ImageAssumption
       DEF Safe, Sound, Core, Typed, Block
  <1> HIDE DEF active
  <1>3. fields \in [Object -> [Slot -> Object \cup {nilObj}]]
    BY <1>2 DEF HeapType
  <1>4. \A p \in Object, t \in Slot :
           fields[p][t] = IF p = b /\ t = SenderSlot THEN active
                                                     ELSE heap.fields[p][t]
    BY <1>2 DEF HeapType
  <1>5. g = [heap EXCEPT !.fields = fields]
    BY <1>2 DEF HeapType
  <1> HIDE DEF fields
  <1>6. Updated(heap, g, heap.young, fields)
    BY <1>2, <1>3, <1>5 DEF HeapType, Updated
  <1>7. heap' = newActiveContext(g, b)
    BY <1>1 DEF active
  <1> HIDE DEF g
  <1>8. Live(g) = Live(heap)
    BY <1>6 DEF Live, Updated
  <1>9. Typed(g) /\ RedZone(g)
    BY <1>6, <1>8 DEF Updated, Safe, Sound, Core, Typed, RedZone
  <1>10. Pointing(g)
    BY <1>2, <1>4, <1>6, <1>8 DEF Updated, Safe, Sound, Core, Pointing
  <1>11. Linked(g)
    BY <1>2, <1>4, <1>6, <1>8, SlotsAssumption
       DEF Updated, Safe, Sound, Core, Linked
  <1>12. \A o \in g.old \ {b}, s \in Slot :
            g.fields[o][s] \in g.young => Recorded(g, o)
    BY <1>2, <1>4, <1>6 DEF Updated, Safe, Sound, Core, Known, Recorded, Live
  <1>13. specialObjectsOop \in Live(g)
    BY <1>8 DEF Safe, Sound, Core, Registers
  <1>14. /\ Sound(heap') /\ SameMemory(g, heap')
         /\ (heap').activeContext = b
    BY <1>2, <1>7, <1>8, <1>9, <1>10, <1>11, <1>12, <1>13, NewActiveContext
  <1>15. PICK top : Chain(heap, active, top)
    BY DEF Safe, active
  <1>16. PICK other : Chain(g, b, other)
    BY <1>1, <1>2, <1>6, <1>8, <1>15, ChainValue DEF Updated, fields
  <1>17. QED
    BY <1>14, <1>16, ChainSame DEF Safe

\* What a return reclaims is hidden: only the context below it on the chain
\* refers to it, and that one is left as well and forgets its sender.
LEMMA CommonReturnSafe ==
    ASSUME ~BlockSendersRead, Safe(heap), CommonReturn
    PROVE  Safe(heap')
  <1> DEFINE n == heap.reclaimableContextCount
  <1>1. PICK c \in {heap.activeContext, heap.theHomeContext},
             v \in OnHand(heap) \cup {nilObj} :
           LET target == heap.fields[c][SenderSlot]
               left == Returned(heap, target)
               count == n - Cardinality(left)
               recycled == {o \in (left \cap heap.young) \ Block :
                               Reclaimable(heap, o)}
               h == [heap EXCEPT
                       !.young = @ \ recycled,
                       !.freeContexts = @ \cup recycled,
                       !.reclaimableContextCount =
                           IF count < 0 THEN 0 ELSE count,
                       !.fields = [o \in Object |->
                          IF o \in recycled THEN NoFields
                          ELSE IF o \in left
                               THEN [@[o] EXCEPT ![SenderSlot] = nilObj]
                               ELSE @[o]]]
           IN  /\ target # nilObj
               /\ \E s \in StackSlots(target) :
                     heap' = [newActiveContext(h, target)
                                 EXCEPT !.fields[target][s] = v]
    BY DEF CommonReturn
  <1> DEFINE target == heap.fields[c][SenderSlot]
             left == Returned(heap, target)
             count == n - Cardinality(left)
             recycled == {o \in (left \cap heap.young) \ Block :
                             Reclaimable(heap, o)}
             fields == [o \in Object |->
                          IF o \in recycled THEN NoFields
                          ELSE IF o \in left
                               THEN [heap.fields[o] EXCEPT
                                        ![SenderSlot] = nilObj]
                               ELSE heap.fields[o]]
             g == [heap EXCEPT
                     !.young = @ \ recycled,
                     !.freeContexts = @ \cup recycled,
                     !.reclaimableContextCount =
                         IF count < 0 THEN 0 ELSE count,
                     !.fields = fields]
  <1>2. PICK s \in StackSlots(target) :
           heap' = [newActiveContext(g, target) EXCEPT !.fields[target][s] = v]
    BY <1>1
  <1>3. /\ Sound(heap) /\ heap \in HeapType /\ Live(heap) \subseteq Object
        /\ n \in Nat /\ target # nilObj
    BY <1>1, LiveObjects DEF Safe, Sound, Core, Typed, HeapType
  <1>4. PICK top : Chain(heap, heap.activeContext, top)
    BY DEF Safe
  <1>5. target \in Live(heap) \cap Context
    BY <1>1, <1>3, RegistersLive, SlotsAssumption
       DEF Sound, Core, Pointing, Linked
  <1> HIDE DEF target
  <1>6. left \subseteq Live(heap) \ {target} /\ IsFiniteSet(left)
    <2>1. left \subseteq Live(heap) \ {target}
      BY ReachedWithin DEF Returned
    <2>2. QED
      BY <1>3, <2>1, ImageAssumption, FS_Subset
  <1>7. /\ top \in [0..n -> Live(heap) \cap Context]
        /\ \A i \in 0..(n - 1) : heap.fields[top[i]][SenderSlot] = top[i + 1]
        /\ \A i, j \in 0..n : top[i] = top[j] => i = j
    BY <1>4 DEF Chain, Links, Distinct
  \* How far the return goes.
  <1>8. \/ \E m \in 0..n : target = top[m] /\ left = Prefix(top, m)
        \/ Prefix(top, n + 1) \subseteq left
    <2>1. ASSUME NEW m \in 0..n, target = top[m]
          PROVE  left = Prefix(top, m)
      BY <1>3, <1>4, <2>1, ReturnedPrefix
    <2>2. ASSUME \A m \in 0..n : target # top[m]
          PROVE  Prefix(top, n + 1) \subseteq left
      <3>1. (n + 1) - 1 = n /\ n + 1 \in 0..(n + 1)
        BY <1>3
      <3>2. target \notin Prefix(top, n + 1)
        BY <2>2, <3>1 DEF Prefix
      <3>3. QED
        BY <1>3, <1>4, <3>1, <3>2, ReturnedMore DEF Chain
    <2>3. QED
      BY <2>1, <2>2
  <1> HIDE DEF left
  <1>9. \A i \in 1..(n - 1) : top[i] \in left => top[i - 1] \in left
    <2> SUFFICES ASSUME NEW i \in 1..(n - 1), top[i] \in left
                 PROVE  top[i - 1] \in left
      OBVIOUS
    <2>1. i \in 0..n /\ i - 1 \in 0..n /\ i - 1 < i
      BY <1>3
    <2>2. CASE \E m \in 0..n : left = Prefix(top, m)
      <3>1. PICK m \in 0..n : left = Prefix(top, m)
        BY <2>2
      <3>2. PICK j \in 0..(m - 1) : top[i] = top[j]
        BY <3>1 DEF Prefix
      <3>3. j \in 0..n
        BY <1>3
      <3>4. i = j
        BY <1>7, <2>1, <3>2, <3>3
      <3>5. i - 1 \in 0..(m - 1)
        BY <3>4
      <3>6. QED
        BY <3>1, <3>5 DEF Prefix
    <2>3. CASE Prefix(top, n + 1) \subseteq left
      <3>1. i - 1 \in 0..((n + 1) - 1)
        BY <1>3
      <3>2. QED
        BY <2>3, <3>1 DEF Prefix
    <2>4. QED
      BY <1>8, <2>2, <2>3
  <1>10. recycled \subseteq Hidden(heap, top) /\ recycled \subseteq left
    BY <1>3, <1>4, ReclaimableFirst DEF Hidden
  <1>11. recycled \subseteq (Context \ Block) \cap heap.young
    BY <1>3, <1>4, <1>10, HiddenContexts
  <1> HIDE DEF recycled
  <1>12. \A p \in Object, t \in Slot :
            fields[p][t] = IF p \in recycled \/ (p \in left /\ t = SenderSlot)
                           THEN nilObj ELSE heap.fields[p][t]
    BY <1>3 DEF HeapType, NoFields
  <1>13. fields \in [Object -> [Slot -> Object \cup {nilObj}]]
    BY <1>3 DEF HeapType, NoFields
  <1>count. (IF count < 0 THEN 0 ELSE count) \in Nat
    BY <1>3, <1>6, FS_CardinalityType
  <1> DEFINE newCount == IF count < 0 THEN 0 ELSE count
  <1> HIDE DEF fields, newCount
  <1>14. /\ g \in HeapType
         /\ g.old = heap.old /\ g.young = heap.young \ recycled
         /\ g.fields = fields
         /\ g.freeContexts = heap.freeContexts \cup recycled
         /\ g.reclaimableContextCount = newCount
         /\ g.rootTable = heap.rootTable /\ g.rootBit = heap.rootBit
         /\ g.rootTableCount = heap.rootTableCount
         /\ g.allocationCount = heap.allocationCount
    BY <1>3, <1>11, <1>13, <1>count DEF HeapType, newCount
  <1> HIDE DEF g
  <1>15. Live(g) = Live(heap) \ recycled
    BY <1>3, <1>11, <1>14 DEF Live, Sound, Core, Typed
  \* Nothing that stays refers to a context that is reclaimed.
  <1>16. \A o \in Live(g), t \in Slot : g.fields[o][t] \notin recycled
    <2> SUFFICES ASSUME NEW o \in Live(g), NEW t \in Slot,
                        g.fields[o][t] \in recycled
                 PROVE  FALSE
      OBVIOUS
    <2>1. /\ o \in Live(heap) \ recycled /\ o \in Object
          /\ g.fields[o][t] \in Hidden(heap, top) \cap left
          /\ g.fields[o][t] # nilObj
      BY <1>3, <1>4, <1>10, <1>15, HiddenContexts
    <2>2. /\ g.fields[o][t] = heap.fields[o][t]
          /\ ~(o \in left /\ t = SenderSlot)
      BY <1>12, <1>14, <2>1
    <2>3. PICK i \in 0..(n - 1) : top[i] = heap.fields[o][t]
      BY <2>1, <2>2 DEF Hidden, Prefix
    <2>4. i > 0 /\ o = top[i - 1] /\ t = SenderSlot
      BY <1>4, <2>1, <2>2, <2>3 DEF Chain, Unnamed, Hidden
    <2>5. i \in 1..(n - 1)
      BY <2>4
    <2>6. top[i - 1] \in left
      BY <1>9, <2>1, <2>2, <2>3, <2>5
    <2>7. QED
      BY <2>2, <2>4, <2>6
  <1>17. Typed(g) /\ RedZone(g)
    BY <1>3, <1>11, <1>14, <1>15 DEF Sound, Core, Typed, RedZone
  <1>18. Pointing(g)
    <2> SUFFICES ASSUME NEW o \in Live(g), NEW t \in Slot
                 PROVE  g.fields[o][t] \in Live(heap) \cup {nilObj}
      BY <1>15, <1>16 DEF Pointing
    <2>1. o \in Live(heap) /\ o \in Object
      BY <1>3, <1>15
    <2>2. QED
      BY <1>3, <1>12, <1>14, <2>1 DEF Sound, Core, Pointing
  <1>19. Linked(g)
    BY <1>3, <1>12, <1>14, <1>15, SlotsAssumption DEF Sound, Core, Linked
  <1>20. \A o \in g.old \ {target}, t \in Slot :
            g.fields[o][t] \in g.young => Recorded(g, o)
    BY <1>3, <1>12, <1>14, NilAssumption
       DEF Sound, Core, Known, Recorded, Live
  <1>21. specialObjectsOop \in Live(g) /\ target \in Live(g) \cap Context
    BY <1>3, <1>5, <1>6, <1>10, <1>11, <1>15, ImageAssumption
       DEF Sound, Core, Registers
  <1>22. \E rest : /\ Chain(g, target, rest)
                   /\ Hidden(g, rest) \subseteq Hidden(heap, top)
    <2>1. CASE \E m \in 0..n : target = top[m] /\ left = Prefix(top, m)
      <3>1. PICK m \in 0..n : target = top[m] /\ left = Prefix(top, m)
        BY <2>1
      <3>2. m \in 0..(n + 1)
        BY <1>3
      <3>3. Cardinality(left) = m
        BY <1>3, <1>7, <3>1, <3>2, PrefixSize
      <3>4. newCount = n - m /\ n - m \in Nat
        BY <1>3, <3>3 DEF newCount
      <3> DEFINE rest == [i \in 0..(n - m) |-> top[i + m]]
      <3>5. \A i \in 0..(n - m) : i + m \in 0..n /\ rest[i] = top[i + m]
        BY <1>3
      <3>6. \A i \in 0..(n - m) : top[i + m] \notin left
        <4> SUFFICES ASSUME NEW i \in 0..(n - m), NEW j \in 0..(m - 1),
                            top[i + m] = top[j]
                     PROVE  FALSE
          BY <3>1 DEF Prefix
        <4>1. j \in 0..n
          BY <1>3
        <4>2. i + m = j
          BY <1>7, <3>5, <4>1
        <4>3. QED
          BY <4>2
      <3>7. \A i \in 0..(n - m) : top[i + m] \in Live(g) \cap Context
        BY <1>7, <1>10, <1>15, <3>5, <3>6
      <3>8. rest \in [0..(n - m) -> Live(g) \cap Context]
        BY <3>7
      <3>9. rest[0] = target
        BY <3>1, <3>4
      <3> HIDE DEF rest
      <3>10. ASSUME NEW i \in 0..((n - m) - 1)
             PROVE  g.fields[rest[i]][SenderSlot] = rest[i + 1]
        <4>1. /\ i \in 0..(n - m) /\ i + 1 \in 0..(n - m)
              /\ i + m \in 0..(n - 1) /\ (i + 1) + m = (i + m) + 1
          BY <1>3, <3>4
        <4>2. heap.fields[top[i + m]][SenderSlot] = top[(i + 1) + m]
          BY <1>7, <4>1
        <4>3. top[i + m] \in Object /\ top[i + m] \notin recycled \cup left
          BY <1>3, <1>10, <1>15, <3>6, <3>7, <4>1
        <4>4. g.fields[top[i + m]][SenderSlot] =
                 heap.fields[top[i + m]][SenderSlot]
          BY <1>12, <1>14, <4>3, SlotsAssumption
        <4>5. QED
          BY <3>5, <4>1, <4>2, <4>4
      <3>11. Links(g, target, rest)
        BY <1>14, <3>4, <3>8, <3>9, <3>10 DEF Links
      <3>12. Distinct(g, rest)
        <4> SUFFICES ASSUME NEW i \in 0..(n - m), NEW j \in 0..(n - m),
                            rest[i] = rest[j]
                     PROVE  i = j
          BY <1>14, <3>4 DEF Distinct
        <4>1. i + m = j + m
          BY <1>7, <3>5
        <4>2. QED
          BY <4>1
      <3>13. Unnamed(g, rest)
        <4> SUFFICES ASSUME NEW i \in 0..((n - m) - 1), NEW o \in Live(g),
                            NEW t \in Slot, rest[i] \notin Block,
                            g.fields[o][t] = rest[i]
                     PROVE  i > 0 /\ o = rest[i - 1] /\ t = SenderSlot
          BY <1>14, <3>4 DEF Unnamed
        <4>1. /\ i \in 0..(n - m) /\ i + m \in 0..(n - 1)
              /\ rest[i] = top[i + m]
          BY <1>3, <3>4, <3>5
        <4>2. rest[i] # nilObj /\ o \in Live(heap) /\ o \in Object
          BY <1>3, <1>7, <1>15, <3>5, <4>1, NilAssumption
        <4>3. /\ heap.fields[o][t] = top[i + m]
              /\ ~(o \in left /\ t = SenderSlot)
          BY <1>12, <1>14, <4>1, <4>2
        <4>4. i + m > 0 /\ o = top[(i + m) - 1] /\ t = SenderSlot
          BY <1>4, <4>1, <4>2, <4>3 DEF Chain, Unnamed
        <4>5. i > 0
          <5> SUFFICES ASSUME i = 0
                       PROVE  o \in left
            BY <4>1, <4>3, <4>4
          <5>1. (i + m) - 1 \in 0..(m - 1)
            BY <4>4
          <5>2. QED
            BY <3>1, <4>4, <5>1 DEF Prefix
        <4>6. i - 1 \in 0..(n - m) /\ (i - 1) + m = (i + m) - 1
          BY <1>3, <4>1, <4>5
        <4>7. QED
          BY <3>5, <4>4, <4>5, <4>6
      <3>14. Hidden(g, rest) \subseteq Hidden(heap, top)
        <4> SUFFICES ASSUME NEW i \in 0..((n - m) - 1), rest[i] \notin Block
                     PROVE  rest[i] \in Hidden(heap, top)
          BY <1>14, <3>4 DEF Hidden, Prefix
        <4>1. i \in 0..(n - m) /\ i + m \in 0..(n - 1)
          BY <1>3, <3>4
        <4>2. rest[i] = top[i + m]
          BY <3>5, <4>1
        <4>3. QED
          BY <4>1, <4>2 DEF Hidden, Prefix
      <3>15. QED
        BY <3>11, <3>12, <3>13, <3>14 DEF Chain
    <2>2. CASE Prefix(top, n + 1) \subseteq left
      <3>1. PICK m \in 0..(n + 1) : m = n + 1
        BY <1>3
      <3>m. Cardinality(Prefix(top, m)) = m
        <4>1. n \in Nat /\ \A i, j \in 0..n : top[i] = top[j] => i = j
          BY <1>3, <1>7
        <4>2. QED
          BY ONLY <4>1, PrefixSize, m \in 0..(n + 1)
      <3>2. Cardinality(Prefix(top, n + 1)) = n + 1
        BY <3>1, <3>m
      <3>3. /\ Cardinality(left) \in Nat
            /\ Cardinality(Prefix(top, n + 1)) <= Cardinality(left)
        BY <1>6, <2>2, FS_Subset, FS_CardinalityType
      <3>4. newCount = 0
        BY <1>3, <3>2, <3>3 DEF newCount
      <3> DEFINE rest == [i \in 0..0 |-> target]
      <3>5. Chain(g, target, rest)
        BY <1>14, <1>21, <3>4, ChainEmpty
      <3>6. Hidden(g, rest) = {}
        BY <1>14, <3>4 DEF Hidden, Prefix
      <3> HIDE DEF rest
      <3>7. QED
        BY <3>5, <3>6
    <2>3. QED
      BY <1>8, <2>1, <2>2
  <1>23. PICK rest : /\ Chain(g, target, rest)
                     /\ Hidden(g, rest) \subseteq Hidden(heap, top)
    BY <1>22
  <1> DEFINE k == newActiveContext(g, target)
  <1>24. Sound(k) /\ SameMemory(g, k) /\ k.activeContext = target
    BY <1>17, <1>18, <1>19, <1>20, <1>21, NewActiveContext
  <1> HIDE DEF k
  <1>25. /\ Chain(k, k.activeContext, rest) /\ Live(k) = Live(g)
         /\ Hidden(k, rest) = Hidden(g, rest)
    BY <1>23, <1>24, ChainSame DEF SameMemory, Live
  <1>26. v \in Live(heap) \cup {nilObj} /\ v \notin Hidden(heap, top)
    <2>1. /\ OnHand(heap) \cap Hidden(heap, top) = {}
          /\ OnHand(heap) \subseteq Live(heap) \cup {nilObj}
      BY <1>3, <1>4, NothingHiddenNamed
    <2>2. nilObj \notin Hidden(heap, top)
      BY <1>3, <1>4, HiddenContexts
    <2>3. QED
      BY <2>1, <2>2
  <1>27. v \in Live(k) \cup {nilObj} /\ v \notin Hidden(k, rest)
    BY <1>10, <1>15, <1>23, <1>25, <1>26
  <1>28. s \in Slot \ {SenderSlot, HomeSlot}
    BY <1>2, <1>5, StackSlotsAreSlots, ImageAssumption
  <1>29. target \in k.old => Recorded(k, target)
    BY <1>24 DEF Sound, Rooted
  <1>30. heap' = [k EXCEPT !.fields[target][s] = v]
    BY <1>2 DEF k
  <1>31. QED
    BY <1>21, <1>24, <1>25, <1>27, <1>28, <1>29, <1>30, WriteSafe

\* Either every old object that become: gave a young reference is now in the
\* table, or the table is full.
LEMMA PrimitiveBecomeSafe ==
    ASSUME Safe(heap), PrimitiveBecome
    PROVE  Safe(heap')
  <1>1. PICK a \in Accessible(heap) \ (Context \cup {specialObjectsOop}),
             b \in Accessible(heap) \ (Context \cup {specialObjectsOop}),
             arraysYoung \in BOOLEAN, Noted \in SUBSET heap.old :
           become(heap, a, b, arraysYoung, Noted)
    BY DEF PrimitiveBecome
  <1> DEFINE Visited == BecomeRange(heap, a, b, arraysYoung)
             fields == Swapped(heap.fields, Visited, a, b)
             Needed == {o \in (Visited \cap heap.old) \ heap.rootBit :
                          \E s \in Slot :
                              fields[o][s] \in {a, b} \cap heap.young}
             Room == RootTableSize - heap.rootTableCount
             count == heap.rootTableCount + Cardinality(Noted)
             collect == Noted # {} /\ count > RootTableRedZone
             allocations == IF collect THEN AllocationsBetweenGCs + 1
                                       ELSE heap.allocationCount
             g == [heap EXCEPT !.fields = fields,
                               !.rootTable = @ \cup Noted,
                               !.rootBit = @ \cup Noted,
                               !.rootTableCount = @ + Cardinality(Noted),
                               !.allocationCount = allocations]
  <1>2. /\ heap' = g /\ Noted \subseteq Needed
        /\ Cardinality(Noted) = IF Cardinality(Needed) <= Room
                                THEN Cardinality(Needed) ELSE Room
    BY <1>1 DEF become
  <1>3. /\ a \in Live(heap) \ Context /\ b \in Live(heap) \ Context
        /\ heap \in HeapType /\ Live(heap) \subseteq Object
    BY <1>1, AccessibleLive, LiveObjects DEF Safe, Sound, Core, Typed
  <1>4. IsFiniteSet(Needed) /\ IsFiniteSet(Noted)
    BY <1>2, <1>3, ImageAssumption, FS_Subset DEF Live
  <1>5. Cardinality(Noted) \in Nat /\ Cardinality(Needed) \in Nat
    BY <1>4, FS_CardinalityType
  <1>6. /\ Room \in Nat /\ count \in 0..RootTableSize
        /\ Noted = Needed \/ count = RootTableSize
        /\ count # heap.rootTableCount => Noted # {}
    <2>1. heap.rootTableCount \in 0..RootTableSize /\ RootTableSize \in Nat
      BY <1>3, LimitsAssumption DEF HeapType
    <2>2. Cardinality(Needed) <= Room => Noted = Needed
      BY <1>2, <1>4, FS_Subset
    <2>3. Cardinality({}) = 0
      BY FS_EmptySet
    <2> HIDE DEF Needed
    <2>4. Room \in Nat /\ count \in 0..RootTableSize
      BY <1>2, <1>5, <2>1
    <2>5. ~(Cardinality(Needed) <= Room) => count = RootTableSize
      BY <1>2, <1>5, <2>1
    <2>6. Noted = {} => count = heap.rootTableCount
      BY <2>1, <2>3
    <2>7. QED
      BY <2>2, <2>4, <2>5, <2>6
  \* What a field refers to, before and after.
  <1>7. \A o \in Object, s \in Slot :
           /\ o \notin Visited => fields[o][s] = heap.fields[o][s]
           /\ fields[o][s] \notin {a, b} => fields[o][s] = heap.fields[o][s]
           /\ heap.fields[o][s] \notin {a, b} => fields[o][s] = heap.fields[o][s]
           /\ heap.fields[o][s] \in {a, b} => fields[o][s] \in {a, b}
    BY <1>3 DEF Swapped, HeapType
  <1>8. fields \in [Object -> [Slot -> Object \cup {nilObj}]]
    BY <1>3, <1>7 DEF Swapped, HeapType
  <1>9. Visited \subseteq Live(heap)
    BY DEF BecomeRange, Live, Safe, Sound, Core, Typed
  <1> HIDE DEF Visited, fields
  <1>10. allocations \in Nat
    BY <1>3, LimitsAssumption DEF HeapType
  <1>11. /\ g \in HeapType
         /\ g.old = heap.old /\ g.young = heap.young /\ g.fields = fields
         /\ g.rootTable = heap.rootTable \cup Noted
         /\ g.rootBit = heap.rootBit \cup Noted
         /\ g.rootTableCount = count /\ g.allocationCount = allocations
         /\ g.activeContext = heap.activeContext
         /\ g.theHomeContext = heap.theHomeContext
         /\ g.freeContexts = heap.freeContexts
         /\ g.reclaimableContextCount = heap.reclaimableContextCount
    <2>1. Noted \subseteq Object
      BY <1>1, <1>3 DEF Live
    <2> HIDE DEF allocations, Needed, Room
    <2>2. QED
      BY <1>3, <1>6, <1>8, <1>10, <2>1 DEF HeapType
  <1> HIDE DEF g
  <1>12. Live(g) = Live(heap)
    BY <1>11 DEF Live
  <1>13. Typed(g)
    BY <1>1, <1>11, <1>12 DEF Typed, Safe, Sound, Core
  <1>14. Pointing(g)
    BY <1>3, <1>7, <1>11, <1>12 DEF Pointing, Safe, Sound, Core
  <1>15. \A o \in Object : Recorded(heap, o) => Recorded(g, o)
    <2>1. heap.rootTableCount = RootTableSize => count = RootTableSize
      BY <1>5, <1>6, LimitsAssumption
    <2>2. QED
      BY <1>11, <2>1 DEF Recorded
  <1>16. Known(g)
    <2> SUFFICES ASSUME NEW o \in heap.old, NEW s \in Slot,
                        fields[o][s] \in heap.young
                 PROVE  Recorded(g, o)
      BY <1>11 DEF Known
    <2>1. o \in Object
      BY <1>3 DEF Live
    <2>2. CASE fields[o][s] = heap.fields[o][s]
      BY <2>1, <2>2, <1>15 DEF Safe, Sound, Core, Known
    <2>3. CASE fields[o][s] # heap.fields[o][s]
      <3>1. o \in Visited /\ fields[o][s] \in {a, b}
        BY <1>7, <2>1, <2>3
      <3>2. CASE o \in heap.rootBit
        BY <3>2, <1>11 DEF Recorded, Safe, Sound, Core, Typed
      <3>3. CASE o \notin heap.rootBit
        <4>1. o \in Needed
          BY <3>1, <3>3
        <4>2. QED
          BY <4>1, <1>6, <1>11 DEF Recorded
      <3>4. QED
        BY <3>2, <3>3
    <2>4. QED
      BY <2>2, <2>3
  \* Neither a nor b is a context, so the links stay.
  <1>17. \A o \in Object, s \in Slot :
            heap.fields[o][s] \in Context \cup {nilObj} =>
                fields[o][s] = heap.fields[o][s]
    BY <1>3, <1>7, NilAssumption
  <1>18. Linked(g)
    BY <1>3, <1>11, <1>12, <1>17, SlotsAssumption DEF Linked, Safe, Sound, Core
  <1>19. Registers(g)
    <2>1. HomeOf(g, heap.activeContext) = HomeOf(heap, heap.activeContext)
      BY <1>3, <1>11, <1>17, RegistersLive, SlotsAssumption
         DEF HomeOf, Linked, Safe, Sound, Core
    <2>2. QED
      BY <1>11, <1>12, <2>1 DEF Registers, Safe, Sound, Core
  <1>20. RedZone(g)
    <2>1. CASE Noted = {}
      BY <1>6, <1>11, <2>1 DEF RedZone, Safe, Sound
    <2>2. CASE Noted # {}
      BY <1>11, <2>2, LimitsAssumption DEF RedZone
    <2>3. QED
      BY <2>1, <2>2
  <1>21. Rooted(g)
    BY <1>3, <1>11, <1>15, RegistersLive DEF Rooted, Safe, Sound
  <1>22. PICK top : Chain(heap, heap.activeContext, top)
    BY DEF Safe
  <1>23. Chain(g, g.activeContext, top)
    <2> DEFINE n == heap.reclaimableContextCount
    <2>1. n \in Nat /\ top \in [0..n -> Live(heap) \cap Context]
      BY <1>3, <1>22 DEF HeapType, Chain, Links
    <2>2. \A i \in 0..(n - 1) :
             i + 1 \in 0..n /\ top[i] \in Object /\ top[i] \in Context
      BY <1>3, <2>1
    <2>3. \A i \in 0..(n - 1) :
             heap.fields[top[i]][SenderSlot] = top[i + 1]
      BY <1>22 DEF Chain, Links
    <2>4. \A i \in 0..(n - 1) : fields[top[i]][SenderSlot] = top[i + 1]
      <3> SUFFICES ASSUME NEW i \in 0..(n - 1)
                   PROVE  fields[top[i]][SenderSlot] = top[i + 1]
        OBVIOUS
      <3>1. top[i + 1] \in Context
        BY <2>1, <2>2
      <3>2. QED
        BY <1>17, <2>2, <2>3, <3>1, SlotsAssumption
    \* A reference to a context is the one there was.
    <2>5. \A o \in Object, s \in Slot :
             fields[o][s] \in Context => heap.fields[o][s] = fields[o][s]
      BY <1>3, <1>7
    <2>6. Unnamed(g, top)
      <3> SUFFICES ASSUME NEW i \in 0..(n - 1), NEW o \in Live(heap),
                          NEW s \in Slot, top[i] \notin Block,
                          fields[o][s] = top[i]
                   PROVE  i > 0 /\ o = top[i - 1] /\ s = SenderSlot
        BY <1>11, <1>12 DEF Unnamed
      <3>1. heap.fields[o][s] = top[i]
        BY <1>3, <2>2, <2>5
      <3>2. QED
        BY <1>22, <3>1 DEF Chain, Unnamed
    <2>7. QED
      BY <1>11, <1>12, <1>22, <2>1, <2>4, <2>6 DEF Chain, Links, Distinct
  <1>24. Sound(g)
    BY <1>13, <1>14, <1>16, <1>18, <1>19, <1>20, <1>21 DEF Sound, Core
  <1>25. QED
    BY <1>2, <1>23, <1>24 DEF Safe

LEMMA SignalFinalizationSafe ==
    ASSUME Safe(heap), SignalFinalization
    PROVE  Safe(heap')
  <1>1. heap \in HeapType /\ heap' = [heap EXCEPT !.finalizationPending = FALSE]
    BY DEF SignalFinalization, Safe, Sound, Core, Typed
  <1>2. Updated(heap, heap', heap.young, heap.fields)
    BY <1>1 DEF HeapType, Updated
  <1>3. Typed(heap') /\ SameButRoots(heap, heap')
    BY <1>2 DEF Updated, SameButRoots, Recorded, Safe, Sound, Core, Typed, Live
  <1>4. Core(heap')
    BY <1>3, CoreSame DEF Safe, Sound
  <1>5. RedZone(heap') /\ Rooted(heap')
    BY <1>2 DEF Updated, Safe, Sound, RedZone, Rooted, Recorded
  <1>6. SameMemory(heap, heap') /\ (heap').activeContext = heap.activeContext
    BY <1>2 DEF Updated, SameMemory
  <1>7. QED
    BY <1>4, <1>5, <1>6, ChainSame DEF Safe, Sound

\* An image starts with everything old and the context it resumes recorded.
LEMMA InitSafe ==
    ASSUME Init
    PROVE  Safe(heap)
  <1> DEFINE h == [old |-> Image, young |-> {},
                   fields |-> [o \in Object |-> NoFields],
                   rootTable |-> {}, rootTableCount |-> 0, rootBit |-> {},
                   allocationCount |-> 0, finalizationPending |-> FALSE,
                   activeContext |-> FirstContext,
                   theHomeContext |-> FirstContext,
                   freeContexts |-> {}, reclaimableContextCount |-> 0]
             k == beRootIfOld(h, FirstContext)
  <1>1. NoFields \in [Slot -> {nilObj}]
    BY DEF NoFields
  <1>2. h \in HeapType
    BY <1>1, ImageAssumption, LimitsAssumption DEF HeapType
  <1>3. Typed(h)
    BY <1>2 DEF Typed
  <1>4. /\ Typed(k) /\ SameButRoots(h, k)
        /\ RedZone(h) => RedZone(k)
        /\ FirstContext \in k.old => Recorded(k, FirstContext)
    BY <1>3, BeRootIfOld, ImageAssumption
  <1>5. RedZone(k)
    BY <1>4, LimitsAssumption DEF RedZone
  <1>6. /\ k.old = Image /\ k.young = {}
        /\ k.fields = [o \in Object |-> NoFields]
        /\ k.activeContext = FirstContext /\ k.theHomeContext = FirstContext
        /\ k.freeContexts = {} /\ k.reclaimableContextCount = 0
    BY <1>4 DEF SameButRoots
  <1>7. heap = [k EXCEPT !.rootBit = {}]
    BY DEF Init
  <1> HIDE DEF k
  <1>8. /\ heap \in HeapType
        /\ heap.old = Image /\ heap.young = {} /\ heap.fields = k.fields
        /\ heap.activeContext = FirstContext
        /\ heap.theHomeContext = FirstContext
        /\ heap.freeContexts = {} /\ heap.reclaimableContextCount = 0
        /\ heap.rootTable = k.rootTable /\ heap.rootBit = {}
        /\ heap.rootTableCount = k.rootTableCount
        /\ heap.allocationCount = k.allocationCount
    BY <1>4, <1>6, <1>7 DEF Typed, HeapType
  <1>9. Typed(heap)
    BY <1>4, <1>6, <1>8 DEF Typed
  <1>10. \A o \in Object, s \in Slot : heap.fields[o][s] = nilObj
    BY <1>6, <1>8 DEF NoFields
  <1>11. Pointing(heap)
    BY <1>8, <1>10, ImageAssumption DEF Pointing, Live
  <1>12. Known(heap)
    BY <1>8 DEF Known
  <1>13. Live(heap) = Image
    BY <1>8 DEF Live
  <1>14. Registers(heap)
    BY <1>8, <1>13, ImageAssumption DEF Registers, HomeOf
  <1>15. RedZone(heap) /\ Rooted(heap)
    <2>1. RedZone(heap)
      BY <1>5, <1>8 DEF RedZone
    <2>2. FirstContext \in heap.old => Recorded(heap, FirstContext)
      BY <1>4, <1>6, <1>8 DEF Recorded
    <2>3. QED
      BY <1>8, <2>1, <2>2 DEF Rooted
  <1>16. Linked(heap)
    BY <1>10, <1>13, ImageAssumption, SlotsAssumption DEF Linked, Block
  <1>17. Sound(heap)
    BY <1>9, <1>11, <1>12, <1>14, <1>15, <1>16 DEF Sound, Core
  <1>18. Chain(heap, heap.activeContext, [i \in 0..0 |-> FirstContext])
    BY <1>8, <1>13, ImageAssumption, ChainEmpty
  <1>19. QED
    BY <1>17, <1>18 DEF Safe

-----------------------------------------------------------------------------
(* The theorems.                                                           *)

LEMMA NextSafe ==
    ASSUME ~BlockSendersRead, Safe(heap), [Next]_heap
    PROVE  Safe(heap')
  <1>1. CASE StorePointer
    BY <1>1, StorePointerSafe
  <1>2. CASE StoreUnchecked
    BY <1>2, StoreUncheckedSafe
  <1>3. CASE PrimitiveNew
    BY <1>3, PrimitiveNewSafe
  <1>4. CASE PushThisContext
    BY <1>4, PushThisContextSafe
  <1>5. CASE PrimitiveBlockCopy
    BY <1>5, PrimitiveBlockCopySafe
  <1>6. CASE ActivateNewMethod
    BY <1>6, ActivateNewMethodSafe
  <1>7. CASE PrimitiveValue
    BY <1>7, PrimitiveValueSafe
  <1>8. CASE CommonReturn
    BY <1>8, CommonReturnSafe
  <1>9. CASE PrimitiveBecome
    BY <1>9, PrimitiveBecomeSafe
  <1>10. CASE PrimitiveIncrementalGC
    BY <1>10, IncrementalGC, CollectionSafe DEF PrimitiveIncrementalGC, Safe
  <1>11. CASE PrimitiveFullGC
    BY <1>11, IncrementalGC, FullGC, CollectionSafe DEF PrimitiveFullGC, Safe
  <1>12. CASE SignalFinalization
    BY <1>12, SignalFinalizationSafe
  <1>13. CASE UNCHANGED heap
    BY <1>13
  <1>14. QED
    BY <1>1, <1>2, <1>3, <1>4, <1>5, <1>6, <1>7, <1>8, <1>9, <1>10, <1>11,
       <1>12, <1>13 DEF Next

\* The inductive invariant: after every operation of the running image the
\* memory is sound, however full the root table and whenever it collected,
\* and nothing knows a context that the next return may reclaim.
THEOREM MemorySafe == ~BlockSendersRead => (Spec => []Safe(heap))
  <1> SUFFICES ASSUME ~BlockSendersRead
               PROVE  Spec => []Safe(heap)
    OBVIOUS
  <1>1. Init => Safe(heap)
    BY InitSafe
  <1>2. Safe(heap) /\ [Next]_heap => Safe(heap)'
    BY NextSafe DEF Safe, Sound, Core, Typed, Pointing, Known, Linked,
       Registers, RedZone, Rooted, HomeOf, Recorded, Live,
       Chain, Links, Distinct, Unnamed
  <1>3. QED
    BY <1>1, <1>2, PTL DEF Spec

\* The heap record keeps its type: the root table within its bounds, the
\* spaces apart, every root old and every root bit on a root, and no free
\* context in use.
THEOREM TypeCorrect == ~BlockSendersRead => (Spec => []TypeOK)
  <1>1. Safe(heap) => TypeOK
    BY DEF Safe, Sound, Core, Typed, TypeOK
  <1>2. QED
    BY <1>1, MemorySafe, PTL

\* The root table never misses an old object that refers to a young one,
\* except by being full, which noteAsRoot leaves for incrementalGC to see.
THEOREM RememberedSetComplete ==
    ~BlockSendersRead => (Spec => []OldPointersKnown)
  <1>1. Safe(heap) => OldPointersKnown
    BY DEF Safe, Sound, Core, Known, OldPointersKnown
  <1>2. QED
    BY <1>1, MemorySafe, PTL

\* The contexts that bytecodes store into without a check are young or in
\* the table, at every point where a bytecode may run.
THEOREM CurrentContextsRooted ==
    ~BlockSendersRead => (Spec => []ContextsRooted)
  <1>1. Safe(heap) => ContextsRooted
    BY DEF Safe, Sound, Rooted, ContextsRooted
  <1>2. QED
    BY <1>1, MemorySafe, PTL

\* No collection, incremental or full, no root table that overflowed and no
\* return that reclaims contexts frees an object that something in memory
\* still refers to, as long as no running block is asked for its sender.
THEOREM NothingDangles == ~BlockSendersRead => (Spec => []NoDangling)
  <1>1. Safe(heap) => NoDangling
    BY RegistersLive DEF Safe, Sound, Core, Pointing, Registers, NoDangling
  <1>2. QED
    BY <1>1, MemorySafe, PTL

\* Past its red zone the table makes the next allocation collect.
THEOREM RedZoneCollects ==
    ~BlockSendersRead => (Spec => []RedZoneForcesCollection)
  <1>1. Safe(heap) => RedZoneForcesCollection
    BY DEF Safe, Sound, RedZone, RedZoneForcesCollection
  <1>2. QED
    BY <1>1, MemorySafe, PTL

-----------------------------------------------------------------------------
(* What the image sees of a collection.                                    *)

\* An identity that is free names nothing.
Blank(h) == \A o \in Object \ Live(h) : h.fields[o] = NoFields

\* What Heap says must stay.
Held(h) == Reached(h.fields, {specialObjectsOop, h.activeContext},
                   StrongSlots, Live(h))

\* What names the objects in gone is lost when they are freed, and with it the
\* weak references of the objects in emptied to themselves.
Severed(h, gone, emptied, o, s) ==
    \/ h.fields[o][s] \in gone
    \/ o \in emptied /\ s \in WeakSlots /\ h.fields[o][s] = o

\* The fields after the objects in gone were freed: nothing names them.
Cut(h, gone, emptied) ==
    [o \in Object |->
        IF o \in gone THEN NoFields
        ELSE [s \in Slot |-> IF Severed(h, gone, emptied, o, s) THEN nilObj
                                                  ELSE h.fields[o][s]]]

\* From h to g only what is not held was freed, and who had a weak reference
\* to it gets to hear of it.
Clears(h, g) ==
    LET gone == Live(h) \ Live(g)
    IN  /\ gone \cap Held(h) = {}
        /\ \E emptied \in SUBSET Live(h) : g.fields = Cut(h, gone, emptied)
        /\ g.activeContext = h.activeContext
        /\ g.theHomeContext = h.theHomeContext
        /\ \/ h.finalizationPending
           \/ \E o \in Live(g), s \in WeakSlots : h.fields[o][s] \in gone
           => g.finalizationPending

Shrinks(h, g) == Live(g) \subseteq Live(h) /\ Clears(h, g)

SameView(h, g) ==
    /\ Live(g) = Live(h) /\ g.fields = h.fields
    /\ g.activeContext = h.activeContext
    /\ g.theHomeContext = h.theHomeContext
    /\ g.finalizationPending = h.finalizationPending

LEMMA CutNothing ==
    ASSUME NEW h, h \in HeapType
    PROVE  Cut(h, {}, {}) = h.fields
  BY DEF Cut, Severed, HeapType

LEMMA CutFields ==
    ASSUME NEW h, NEW gone, NEW emptied, NEW o \in Object
    PROVE  /\ o \in gone => Cut(h, gone, emptied)[o] = NoFields
           /\ o \notin gone => \A s \in Slot :
                 Cut(h, gone, emptied)[o][s] =
                    IF Severed(h, gone, emptied, o, s) THEN nilObj
                    ELSE h.fields[o][s]
  BY DEF Cut

LEMMA ViewShrinks ==
    ASSUME NEW h, NEW g, h \in HeapType, SameView(h, g)
    PROVE  Shrinks(h, g)
  <1>1. Live(h) \ Live(g) = {} /\ Live(g) = Live(h)
    BY DEF SameView
  <1>2. \E emptied \in SUBSET Live(h) : g.fields = Cut(h, {}, emptied)
    BY CutNothing DEF SameView
  <1>3. QED
    BY <1>1, <1>2 DEF Shrinks, Clears, SameView

\* What is freed leaves nil fields.
LEMMA ShrinksBlank ==
    ASSUME NEW h, NEW g, Blank(h), Typed(h), Shrinks(h, g)
    PROVE  Blank(g)
  <1> DEFINE gone == Live(h) \ Live(g)
  <1>1. PICK emptied \in SUBSET Live(h) : g.fields = Cut(h, gone, emptied)
    BY DEF Shrinks, Clears
  <1> SUFFICES ASSUME NEW o \in Object \ Live(g)
               PROVE  g.fields[o] = NoFields
    BY DEF Blank
  <1>2. CASE o \in gone
    BY <1>1, <1>2, CutFields
  <1>3. CASE o \notin Live(h)
    <2>1. h.fields[o] = NoFields
      BY <1>3 DEF Blank
    <2>2. g.fields[o] =
             [s \in Slot |-> IF Severed(h, gone, emptied, o, s) THEN nilObj
                             ELSE h.fields[o][s]]
      BY <1>1, <1>3 DEF Cut
    <2> HIDE DEF gone
    <2>3. QED
      BY <2>1, <2>2 DEF NoFields
  <1>4. QED
    BY <1>2, <1>3

\* What is held stays so.
LEMMA ShrinksHeld ==
    ASSUME NEW h, NEW g, Core(h), Shrinks(h, g)
    PROVE  Held(h) \subseteq Held(g)
  <1> DEFINE gone == Live(h) \ Live(g)
             Roots == {specialObjectsOop, h.activeContext}
             S == Held(g) \cap Held(h)
  <1>1. /\ gone \cap Held(h) = {}
        /\ \E emptied \in SUBSET Live(h) : g.fields = Cut(h, gone, emptied)
        /\ g.activeContext = h.activeContext /\ Live(g) \subseteq Live(h)
    BY DEF Shrinks, Clears
  <1>2. /\ Held(h) \subseteq Live(h) /\ Roots \subseteq Held(h)
        /\ Live(h) \subseteq Object
    BY ReachedWithin, ReachedRoots, LiveObjects
       DEF Held, Core, Registers
  <1>3. Held(h) \subseteq Live(g)
    BY <1>1, <1>2
  <1>4. Roots \subseteq Held(g)
    BY <1>1, <1>2, <1>3, ReachedRoots DEF Held
  <1>5. ASSUME NEW o \in S, NEW s \in StrongSlots, h.fields[o][s] \in Live(h)
        PROVE  h.fields[o][s] \in S
    <2>1. h.fields[o][s] \in Held(h)
      BY <1>5, ReachedClosed DEF Held
    <2>2. h.fields[o][s] \in Live(g) /\ h.fields[o][s] \notin gone
      BY <1>3, <2>1
    <2>3. o \in Object /\ o \notin gone /\ s \in Slot /\ s \notin WeakSlots
      BY <1>1, <1>2, <1>5 DEF StrongSlots
    <2>4. g.fields[o][s] = h.fields[o][s]
      BY <1>1, <2>2, <2>3, CutFields DEF Severed
    <2>5. g.fields[o][s] \in Held(g)
      BY <1>5, <2>2, <2>4, ReachedClosed DEF Held
    <2>6. QED
      BY <2>1, <2>4, <2>5
  <1>6. S \subseteq Live(h) /\ Roots \subseteq S
    BY <1>2, <1>4
  <1> HIDE DEF S, Roots
  <1>7. Reached(h.fields, Roots, StrongSlots, Live(h)) \subseteq S
    BY <1>5, <1>6, ReachedLeast
  <1>8. QED
    BY <1>7 DEF S, Roots, Held

LEMMA ShrinksTransitive ==
    ASSUME NEW h, NEW k, NEW g, Core(h), Shrinks(h, k), Shrinks(k, g)
    PROVE  Shrinks(h, g)
  <1> DEFINE first == Live(h) \ Live(k)
             second == Live(k) \ Live(g)
             gone == Live(h) \ Live(g)
  <1>1. /\ Live(k) \subseteq Live(h) /\ first \cap Held(h) = {}
        /\ \E emptied \in SUBSET Live(h) : k.fields = Cut(h, first, emptied)
        /\ k.activeContext = h.activeContext
        /\ k.theHomeContext = h.theHomeContext
        /\ h.finalizationPending => k.finalizationPending
        /\ \A o \in Live(k), s \in WeakSlots :
              h.fields[o][s] \in first => k.finalizationPending
    BY DEF Shrinks, Clears
  <1>2. /\ Live(g) \subseteq Live(k) /\ second \cap Held(k) = {}
        /\ \E emptied \in SUBSET Live(k) : g.fields = Cut(k, second, emptied)
        /\ g.activeContext = k.activeContext
        /\ g.theHomeContext = k.theHomeContext
        /\ k.finalizationPending => g.finalizationPending
        /\ \A o \in Live(g), s \in WeakSlots :
              k.fields[o][s] \in second => g.finalizationPending
    BY DEF Shrinks, Clears
  <1>3. /\ Live(h) \subseteq Object /\ nilObj \notin Object
        /\ WeakSlots \subseteq Slot
    BY LiveObjects, NilAssumption, SlotsAssumption DEF Core
  <1>4. /\ gone = first \cup second /\ Live(g) \subseteq Live(h)
        /\ first \cap second = {} /\ nilObj \notin gone
    BY <1>1, <1>2, <1>3
  <1>5. gone \cap Held(h) = {}
    BY <1>1, <1>2, <1>4, ShrinksHeld
  <1> HIDE DEF first, second, gone
  <1>6. PICK early \in SUBSET Live(h) : k.fields = Cut(h, first, early)
    BY <1>1
  <1>7. PICK late \in SUBSET Live(k) : g.fields = Cut(k, second, late)
    BY <1>2
  <1> DEFINE emptied == early \cup late
  \* A field emptied twice is emptied once and for all.
  <1>8. ASSUME NEW o \in Object \ first, NEW s \in Slot
        PROVE  /\ k.fields[o][s] =
                     IF Severed(h, first, early, o, s) THEN nilObj
                     ELSE h.fields[o][s]
               /\ (IF Severed(k, second, late, o, s) THEN nilObj
                   ELSE k.fields[o][s]) =
                  (IF Severed(h, gone, emptied, o, s) THEN nilObj
                   ELSE h.fields[o][s])
    <2>1. k.fields[o][s] = IF Severed(h, first, early, o, s) THEN nilObj
                           ELSE h.fields[o][s]
      BY <1>6, CutFields
    <2>2. CASE Severed(h, first, early, o, s)
      <3>1. Severed(h, gone, emptied, o, s)
        BY <1>4, <2>2 DEF Severed
      <3>2. QED
        BY <2>1, <2>2, <3>1
    <2>3. CASE ~Severed(h, first, early, o, s)
      <3>1. k.fields[o][s] = h.fields[o][s]
        BY <2>1, <2>3
      <3>2. Severed(h, gone, emptied, o, s) <=> Severed(k, second, late, o, s)
        BY <1>4, <2>3, <3>1 DEF Severed
      <3>3. QED
        BY <2>1, <3>1, <3>2
    <2>4. QED
      BY <2>1, <2>2, <2>3
  <1> HIDE DEF emptied
  <1>9. g.fields = Cut(h, gone, emptied)
    <2>1. ASSUME NEW o \in Object
          PROVE  g.fields[o] = Cut(h, gone, emptied)[o]
      <3>1. CASE o \in second
        BY <1>4, <1>7, <3>1, CutFields
      <3>2. CASE o \notin second
        <4>1. g.fields[o] =
                 [s \in Slot |-> IF Severed(k, second, late, o, s)
                                 THEN nilObj ELSE k.fields[o][s]]
          BY <1>7, <3>2 DEF Cut
        <4>2. CASE o \in first
          <5>1. /\ k.fields[o] = NoFields
                /\ Cut(h, gone, emptied)[o] = NoFields
            BY <1>4, <1>6, <4>2, CutFields
          <5>2. QED
            BY <4>1, <5>1 DEF NoFields
        <4>3. CASE o \notin first
          <5>1. Cut(h, gone, emptied)[o] =
                   [s \in Slot |-> IF Severed(h, gone, emptied, o, s)
                                   THEN nilObj ELSE h.fields[o][s]]
            BY <1>4, <3>2, <4>3 DEF Cut
          <5>2. QED
            BY <1>8, <4>1, <4>3, <5>1
        <4>4. QED
          BY <4>2, <4>3
      <3>3. QED
        BY <3>1, <3>2
    <2>2. /\ g.fields = [o \in Object |-> g.fields[o]]
          /\ Cut(h, gone, emptied) =
                [o \in Object |-> Cut(h, gone, emptied)[o]]
      BY <1>7 DEF Cut
    <2>3. QED
      BY <2>1, <2>2
  <1>10. ASSUME NEW o \in Live(g), NEW s \in WeakSlots, h.fields[o][s] \in gone
         PROVE  g.finalizationPending
    <2>1. o \in Live(k) /\ o \in Object /\ o \notin first /\ s \in Slot
      BY <1>1, <1>2, <1>3 DEF first
    <2>2. CASE h.fields[o][s] \in first
      BY <1>1, <1>2, <2>1, <2>2
    <2>3. CASE h.fields[o][s] \in second /\ h.fields[o][s] \notin first
      <3>1. CASE h.fields[o][s] = o
        BY <1>10, <3>1 DEF gone
      <3>2. CASE h.fields[o][s] # o
        <4>1. k.fields[o][s] = h.fields[o][s]
          BY <1>8, <2>1, <2>3, <3>2 DEF Severed
        <4>2. QED
          BY <1>2, <2>3, <4>1
      <3>3. QED
        BY <3>1, <3>2
    <2>4. QED
      BY <1>4, <1>10, <2>2, <2>3
  <1>11. emptied \in SUBSET Live(h)
    BY <1>1 DEF emptied
  <1>12. QED
    BY <1>1, <1>2, <1>4, <1>5, <1>9, <1>10, <1>11 DEF Shrinks, Clears, gone

LEMMA SameViewTransitive ==
    ASSUME NEW h, NEW k, NEW g, SameView(h, k), SameView(k, g)
    PROVE  SameView(h, g)
  BY DEF SameView

LEMMA ViewOfRoots ==
    ASSUME NEW h, h \in HeapType, NEW o
    PROVE  SameView(h, beRootIfOld(h, o))
  BY DEF beRootIfOld, noteAsRoot, HeapType, SameView, Live

LEMMA ViewOfPostGCAction ==
    ASSUME NEW h, Typed(h)
    PROVE  SameView(h, postGCAction(h))
  <1> DEFINE k == beRootIfOld(h, h.activeContext)
             g == beRootIfOld(k, h.theHomeContext)
  <1>1. h \in HeapType /\ h.activeContext \in Object
    BY ImageAssumption DEF Typed, HeapType
  <1>2. k \in HeapType /\ SameView(h, k)
    BY <1>1, BeRootIfOld, ViewOfRoots DEF Typed
  <1>3. postGCAction(h) = g
    BY DEF postGCAction
  <1> HIDE DEF k
  <1>4. SameView(k, g)
    BY <1>2, ViewOfRoots
  <1>5. QED
    BY <1>2, <1>3, <1>4, SameViewTransitive

LEMMA ViewOfClearRootsTable ==
    ASSUME NEW h, h \in HeapType
    PROVE  SameView(h, clearRootsTable(h))
  BY DEF clearRootsTable, HeapType, SameView, Live

LEMMA ViewOfTenure ==
    ASSUME NEW h, h \in HeapType
    PROVE  SameView(h, tenure(h))
  BY DEF tenure, HeapType, SameView, Live

LEMMA ViewAfterTenure ==
    ASSUME NEW h, Typed(h)
    PROVE  SameView(h, tenure(clearRootsTable(h)))
  <1>1. h \in HeapType
    BY DEF Typed
  <1>2. clearRootsTable(h) \in HeapType
    BY ClearRootsTable
  <1>3. QED
    BY <1>1, <1>2, ViewOfClearRootsTable, ViewOfTenure, SameViewTransitive

\* A sweep frees nothing that the image holds, and clears what it frees.
LEMMA SweepShrinks ==
    ASSUME NEW h, Core(h), Blank(h), h.rootTableCount < RootTableSize
    PROVE  Shrinks(h, [sweepPhase(h) EXCEPT !.allocationCount = 0])
  <1> DEFINE marked == Marked(h)
             gone == h.young \ marked
             Cleared(o, s) ==
                s \in WeakSlots /\ h.fields[o][s] \in gone \cup {o}
             fields == [o \in Object |->
                          IF o \in gone THEN NoFields
                          ELSE [s \in Slot |-> IF o \in marked /\ Cleared(o, s)
                                               THEN nilObj ELSE h.fields[o][s]]]
             g == [sweepPhase(h) EXCEPT !.allocationCount = 0]
             Entries == {specialObjectsOop, h.activeContext} \cup h.rootTable
             Seen == {h.fields[o][s] : o \in Entries, s \in Slot} \cup Entries
  <1>1. /\ g.old = h.old /\ g.young = marked /\ g.fields = fields
        /\ g.activeContext = h.activeContext
        /\ g.theHomeContext = h.theHomeContext
        /\ g.finalizationPending =
             \/ h.finalizationPending
             \/ \E o \in marked, s \in Slot : Cleared(o, s)
    BY DEF sweepPhase, Core, Typed, HeapType
  <1>2. marked = Reached(h.fields, Seen \cap h.young, StrongSlots, h.young)
    BY DEF Marked
  <1> HIDE DEF marked
  <1>3. marked \subseteq h.young /\ Seen \cap h.young \subseteq marked
    BY <1>2, ReachedWithin, ReachedRoots
  <1>4. \A o \in marked, s \in StrongSlots :
           h.fields[o][s] \in h.young => h.fields[o][s] \in marked
    BY <1>2, ReachedClosed
  <1>5. \A o \in h.old, s \in Slot :
           h.fields[o][s] \in h.young => h.fields[o][s] \in marked
    <2> SUFFICES ASSUME NEW o \in h.old, NEW s \in Slot,
                        h.fields[o][s] \in h.young
                 PROVE  h.fields[o][s] \in marked
      OBVIOUS
    <2>1. o \in h.rootTable
      BY LimitsAssumption DEF Core, Known, Recorded, Typed, HeapType
    <2>2. h.fields[o][s] \in Seen
      BY <2>1
    <2>3. QED
      BY <2>2, <1>3
  <1>6. /\ Live(h) \subseteq Object /\ h.old \cap h.young = {}
        /\ {specialObjectsOop, h.activeContext} \subseteq Live(h)
        /\ nilObj \notin Object /\ WeakSlots \subseteq Slot
        /\ \A o \in Object : h.fields[o] \in [Slot -> Object \cup {nilObj}]
    BY LiveObjects, NilAssumption, SlotsAssumption
       DEF Core, Typed, Registers, HeapType
  <1>7. {specialObjectsOop, h.activeContext} \subseteq h.old \cup marked
    BY <1>3, <1>6 DEF Live, Entries, Seen
  <1> HIDE DEF g, fields, Entries, Seen
  <1>8. Held(h) \subseteq h.old \cup marked
    <2> DEFINE S == h.old \cup marked
    <2>1. \A o \in S, s \in StrongSlots :
             h.fields[o][s] \in Live(h) => h.fields[o][s] \in S
      BY <1>4, <1>5 DEF Live, StrongSlots
    <2>2. /\ S \in SUBSET Live(h)
          /\ {specialObjectsOop, h.activeContext} \subseteq S
      BY <1>3, <1>7 DEF Live
    <2> HIDE DEF S
    <2>3. Held(h) \subseteq S
      BY <2>1, <2>2, ReachedLeast DEF Held
    <2>4. QED
      BY <2>3 DEF S
  <1>9. /\ Live(h) \ Live(g) = gone /\ Live(g) = h.old \cup marked
        /\ Live(g) \subseteq Live(h)
    BY <1>1, <1>3, <1>6 DEF Live
  <1>10. gone \cap Held(h) = {}
    BY <1>6, <1>8 DEF Live
  \* A field that names what was freed is a weak one of a marked object.
  <1>11. ASSUME NEW o \in Object \ gone, NEW s \in Slot
         PROVE  fields[o][s] = IF Severed(h, gone, marked, o, s) THEN nilObj
                               ELSE h.fields[o][s]
    <2>1. fields[o][s] = IF o \in marked /\ Cleared(o, s) THEN nilObj
                         ELSE h.fields[o][s]
      BY DEF fields
    <2>2. CASE h.fields[o][s] \notin gone
      <3>1. o \in marked /\ Cleared(o, s) <=> Severed(h, gone, marked, o, s)
        BY <2>2 DEF Severed
      <3>2. QED
        BY <2>1, <3>1
    <2>3. CASE h.fields[o][s] \in gone
      <3>1. h.fields[o][s] # nilObj
        BY <1>6, <2>3 DEF Live
      <3>2. o \in Live(h)
        BY <3>1 DEF Blank, NoFields
      <3>3. o \in marked
        BY <1>5, <2>3, <3>2 DEF Live
      <3>4. s \in WeakSlots
        BY <1>4, <2>3, <3>3 DEF StrongSlots
      <3>5. QED
        BY <2>1, <2>3, <3>3, <3>4 DEF Severed
    <2>4. QED
      BY <2>2, <2>3
  <1>12. fields = Cut(h, gone, marked)
    <2>1. \A o \in Object : fields[o] = Cut(h, gone, marked)[o]
      <3> SUFFICES ASSUME NEW o \in Object
                   PROVE  fields[o] = Cut(h, gone, marked)[o]
        OBVIOUS
      <3>1. CASE o \in gone
        BY <3>1 DEF fields, Cut
      <3>2. CASE o \notin gone
        <4>1. fields[o] = [s \in Slot |-> fields[o][s]]
          BY <3>2 DEF fields
        <4>2. Cut(h, gone, marked)[o] =
                 [s \in Slot |-> IF Severed(h, gone, marked, o, s) THEN nilObj
                                 ELSE h.fields[o][s]]
          BY <3>2 DEF Cut
        <4>3. QED
          BY <1>11, <3>2, <4>1, <4>2
      <3>3. QED
        BY <3>1, <3>2
    <2>2. /\ fields = [o \in Object |-> fields[o]]
          /\ Cut(h, gone, marked) =
                [o \in Object |-> Cut(h, gone, marked)[o]]
      BY DEF fields, Cut
    <2> HIDE DEF gone
    <2>3. QED
      BY <2>1, <2>2
  <1>13. ASSUME \/ h.finalizationPending
                \/ \E o \in Live(g), s \in WeakSlots : h.fields[o][s] \in gone
         PROVE  g.finalizationPending
    <2>1. CASE h.finalizationPending
      BY <1>1, <2>1
    <2>2. CASE \E o \in Live(g), s \in WeakSlots : h.fields[o][s] \in gone
      <3>1. PICK o \in Live(g), s \in WeakSlots : h.fields[o][s] \in gone
        BY <2>2
      <3>2. o \in marked
        BY <1>5, <1>6, <1>9, <3>1
      <3>3. QED
        BY <1>1, <1>6, <3>1, <3>2
    <2>3. QED
      BY <1>13, <2>1, <2>2
  <1>14. QED
    <2>1. /\ g.activeContext = h.activeContext
          /\ g.theHomeContext = h.theHomeContext
      BY <1>1
    <2>2. /\ gone \cap Held(h) = {} /\ g.fields = Cut(h, gone, marked)
          /\ marked \in SUBSET Live(h)
      BY <1>1, <1>3, <1>10, <1>12 DEF Live
    <2> HIDE DEF gone
    <2>3. Shrinks(h, g)
      BY <1>9, <1>13, <2>1, <2>2 DEF Shrinks, Clears
    <2>4. QED
      BY <2>3 DEF g

LEMMA FullGCShrinks ==
    ASSUME NEW h, Sound(h), Blank(h)
    PROVE  Shrinks(h, fullGC(h)) /\ Blank(fullGC(h))
  <1> DEFINE c == clearRootsTable(h)
             everything == [c EXCEPT !.young = @ \cup h.old, !.old = {}]
             swept == [sweepPhase(everything) EXCEPT !.allocationCount = 0]
  <1>1. /\ h \in HeapType /\ c \in HeapType /\ c.old = h.old
        /\ c.young = h.young /\ c.fields = h.fields
        /\ c.activeContext = h.activeContext
        /\ c.theHomeContext = h.theHomeContext
        /\ c.freeContexts = h.freeContexts
        /\ c.reclaimableContextCount = h.reclaimableContextCount
        /\ c.rootTable = {} /\ c.rootBit = {} /\ c.rootTableCount = 0
        /\ c.finalizationPending = h.finalizationPending
    BY ClearRootsTable, ViewOfClearRootsTable
       DEF Sound, Core, Typed, SameView
  <1> HIDE DEF c
  <1>2. /\ everything \in HeapType /\ everything.old = {}
        /\ everything.young = h.old \cup h.young
        /\ everything.fields = h.fields
        /\ everything.activeContext = h.activeContext
        /\ everything.theHomeContext = h.theHomeContext
        /\ everything.freeContexts = h.freeContexts
        /\ everything.reclaimableContextCount = h.reclaimableContextCount
        /\ everything.rootTable = {} /\ everything.rootBit = {}
        /\ everything.rootTableCount = 0
        /\ everything.finalizationPending = h.finalizationPending
    BY <1>1 DEF HeapType
  <1>3. fullGC(h) = postGCAction(tenure(swept))
    BY DEF fullGC, c
  <1> HIDE DEF everything
  <1>4. Live(everything) = Live(h)
    BY <1>2 DEF Live
  <1>5. Core(everything)
    BY <1>2, <1>4 DEF Sound, Core, Typed, Pointing, Known, Linked, Registers,
                      HomeOf
  <1>6. SameView(h, everything) /\ Blank(everything)
    BY <1>2, <1>4 DEF SameView, Blank
  <1>7. Core(swept)
    BY <1>2, <1>5, SweepPhase, LimitsAssumption
  <1>8. Shrinks(everything, swept)
    BY <1>2, <1>5, <1>6, SweepShrinks, LimitsAssumption
  <1> HIDE DEF swept
  <1>9. Typed(swept) /\ swept \in HeapType
    BY <1>7 DEF Core, Typed
  <1>10. Core(tenure(swept)) /\ Typed(tenure(swept))
    BY <1>7, Tenure DEF Core
  <1>11. SameView(swept, fullGC(h))
    BY <1>3, <1>9, <1>10, ViewOfTenure, ViewOfPostGCAction, SameViewTransitive
  <1>12. Shrinks(h, everything) /\ Shrinks(swept, fullGC(h))
    BY <1>1, <1>6, <1>9, <1>11, ViewShrinks
  <1>13. Shrinks(h, swept)
    BY <1>8, <1>12, ShrinksTransitive DEF Sound
  <1>14. Shrinks(h, fullGC(h))
    BY <1>12, <1>13, ShrinksTransitive DEF Sound
  <1>15. QED
    BY <1>14, ShrinksBlank DEF Sound, Core

LEMMA IncrementalGCShrinks ==
    ASSUME NEW h, Sound(h), Blank(h)
    PROVE  Shrinks(h, incrementalGC(h)) /\ Blank(incrementalGC(h))
  <1> DEFINE swept == [sweepPhase(h) EXCEPT !.allocationCount = 0]
             TenureNow == \/ Cardinality(swept.young) > TenuringThreshold
                          \/ swept.rootTableCount >= RootTableRedZone
             next == IF TenureNow THEN tenure(clearRootsTable(swept)) ELSE swept
  <1>1. CASE h.rootTableCount >= RootTableSize
    BY <1>1, FullGCShrinks DEF incrementalGC
  <1>2. CASE ~(h.rootTableCount >= RootTableSize)
    <2>1. h.rootTableCount < RootTableSize
      BY <1>2, LimitsAssumption DEF Sound, Core, Typed, HeapType
    <2>2. Core(swept) /\ Shrinks(h, swept)
      BY <2>1, SweepPhase, SweepShrinks DEF Sound
    <2>3. incrementalGC(h) = postGCAction(next)
      BY <1>2 DEF incrementalGC
    <2> HIDE DEF swept
    <2>4. Typed(swept)
      BY <2>2 DEF Core
    <2>5. Typed(next) /\ SameView(swept, next)
      BY <2>2, <2>4, Tenure, ViewAfterTenure DEF Core, SameView
    <2> HIDE DEF next
    <2>6. SameView(swept, incrementalGC(h))
      BY <2>3, <2>5, ViewOfPostGCAction, SameViewTransitive
    <2>7. Shrinks(swept, incrementalGC(h))
      BY <2>4, <2>6, ViewShrinks DEF Typed
    <2>8. Shrinks(h, incrementalGC(h))
      BY <2>2, <2>7, ShrinksTransitive DEF Sound
    <2>9. QED
      BY <2>8, ShrinksBlank DEF Sound, Core
  <1>3. QED
    BY <1>1, <1>2

LEMMA AllocateChunkShrinks ==
    ASSUME NEW h, Sound(h), Blank(h), NEW space \in SpaceFound
    PROVE  Shrinks(h, allocateChunk(h, space)) /\ Blank(allocateChunk(h, space))
  <1> DEFINE due == IF h.allocationCount >= AllocationsBetweenGCs
                    THEN incrementalGC(h) ELSE h
             found == CASE space = "at once" -> due
                        [] space = "after incrementalGC" -> incrementalGC(due)
                        [] space = "after fullGC" -> fullGC(incrementalGC(due))
             g == [found EXCEPT !.allocationCount = @ + 1]
  <1>1. Shrinks(h, h)
    BY ViewShrinks DEF Sound, Core, Typed, SameView
  <1>2. Sound(due) /\ Shrinks(h, due) /\ Blank(due)
    BY <1>1, IncrementalGC, IncrementalGCShrinks
  <1>3. allocateChunk(h, space) = g
    BY DEF allocateChunk
  <1> HIDE DEF due
  <1> DEFINE once == incrementalGC(due)
             full == fullGC(once)
  <1>4. Sound(once) /\ Shrinks(h, once) /\ Blank(once)
    BY <1>2, IncrementalGC, IncrementalGCShrinks, ShrinksTransitive DEF Sound
  <1> HIDE DEF once
  <1>5. Sound(full) /\ Shrinks(h, full) /\ Blank(full)
    BY <1>4, FullGC, FullGCShrinks, ShrinksTransitive DEF Sound
  <1>6. Sound(found) /\ Shrinks(h, found) /\ Blank(found)
    BY <1>2, <1>4, <1>5 DEF SpaceFound, once
  <1> HIDE DEF found
  <1>7. found \in HeapType
    BY <1>6 DEF Sound, Core, Typed
  <1>8. SameView(found, g)
    BY <1>7 DEF HeapType, SameView, Live
  <1> HIDE DEF g
  <1>9. Shrinks(h, g)
    BY <1>6, <1>7, <1>8, ViewShrinks, ShrinksTransitive DEF Sound
  <1>10. QED
    BY <1>3, <1>9, ShrinksBlank DEF Sound, Core

-----------------------------------------------------------------------------
(* The memory that the image sees.                                         *)

\* What the image can name in Heap.
InView(h) ==
    Reached(h.fields, {specialObjectsOop, h.activeContext}, Slot, Live(h))

LEMMA SameReached ==
    ASSUME NEW fields, NEW Roots, NEW Via, NEW Within
    PROVE  Abstract!Reached(fields, Roots, Via, Within) =
              Reached(fields, Roots, Via, Within)
  BY DEF Abstract!Reached, Reached

LEMMA AbstractView ==
    /\ Abstract!Block = Block /\ Abstract!NoFields = NoFields
    /\ \A o : Abstract!StackSlots(o) = StackSlots(o)
    /\ Abstract!Accessible = InView(heap)
    /\ Abstract!Held = Held(heap)
    /\ Live(heap)' = Live(heap')
    /\ Abstract!Gone = Live(heap) \ Live(heap')
    /\ \A emptied : Abstract!Without(emptied) =
                       Cut(heap, Live(heap) \ Live(heap'), emptied)
  <1>1. Live(heap)' = Live(heap')
    BY DEF Live
  <1>2. Abstract!Gone = Live(heap) \ Live(heap')
    BY <1>1 DEF Abstract!Gone
  <1>3. Abstract!NoFields = NoFields
    BY DEF Abstract!NoFields, NoFields
  <1>4. ASSUME NEW emptied
        PROVE  Abstract!Without(emptied) =
                  Cut(heap, Live(heap) \ Live(heap'), emptied)
    BY <1>2, <1>3 DEF Abstract!Without, Cut, Severed
  <1>5. Abstract!Accessible = InView(heap)
    BY SameReached DEF Abstract!Accessible, Abstract!Registers, InView
  <1>6. Abstract!Held = Held(heap)
    BY SameReached DEF Abstract!Held, Abstract!Registers, Held, StrongSlots
  <1>7. QED
    BY <1>1, <1>2, <1>3, <1>4, <1>5, <1>6
       DEF Abstract!Block, Block, Abstract!StackSlots, StackSlots

\* Whatever the image can name in ObjectMemory it can name in Heap.
LEMMA AccessibleSeen ==
    ASSUME NEW h, Sound(h)
    PROVE  /\ Accessible(h) \subseteq InView(h)
           /\ OnHand(h) \cap Live(h) \subseteq InView(h)
           /\ {specialObjectsOop, h.activeContext, h.theHomeContext}
                 \subseteq InView(h)
  <1> DEFINE S == InView(h)
             Roots == {specialObjectsOop, h.activeContext}
             Start == ({specialObjectsOop} \cup OnHand(h)) \cap Live(h)
  <1>1. /\ Roots \subseteq Live(h) /\ h.theHomeContext \in Live(h)
        /\ h.theHomeContext = HomeOf(h, h.activeContext)
        /\ Live(h) \subseteq Object /\ nilObj \notin Live(h)
        /\ HomeSlot \in Slot
    BY RegistersLive, LiveObjects, NilAssumption, SlotsAssumption
       DEF Sound, Core, Registers
  <1>2. Roots \subseteq S /\ S \subseteq Live(h)
    BY <1>1, ReachedRoots, ReachedWithin DEF InView
  <1>3. \A o \in S, s \in Slot : h.fields[o][s] \in Live(h) =>
                                    h.fields[o][s] \in S
    BY ReachedClosed DEF InView
  <1> HIDE DEF S
  <1>4. h.theHomeContext \in S
    BY <1>1, <1>2, <1>3 DEF HomeOf
  <1>5. OnHand(h) \cap Live(h) \subseteq S
    <2> SUFFICES ASSUME NEW c \in {h.activeContext, h.theHomeContext},
                        NEW s \in StackSlots(c), h.fields[c][s] \in Live(h)
                 PROVE  h.fields[c][s] \in S
      BY DEF OnHand
    <2>1. c \in S /\ c \in Object
      BY <1>1, <1>2, <1>4
    <2>2. s \in Slot
      BY <2>1, StackSlotsAreSlots
    <2>3. QED
      BY <1>3, <2>1, <2>2
  <1>6. ASSUME NEW o \in S, NEW s \in Slot, Visible(h)[o][s] \in Live(h)
        PROVE  Visible(h)[o][s] \in S
    <2>1. o \in Object /\ h.fields[o] \in [Slot -> Object \cup {nilObj}]
      BY <1>1, <1>2 DEF Sound, Core, Typed, HeapType
    <2>2. \/ Visible(h)[o] = h.fields[o]
          \/ Visible(h)[o] = [h.fields[o] EXCEPT ![SenderSlot] = nilObj]
      BY <2>1 DEF Visible
    <2>3. Visible(h)[o][s] \in {nilObj, h.fields[o][s]}
      BY <2>1, <2>2
    <2>4. QED
      BY <1>1, <1>3, <1>6, <2>3
  <1>7. Accessible(h) = Reached(Visible(h), Start, Slot, Live(h))
    BY DEF Accessible
  <1>8. Start \subseteq S
    BY <1>2, <1>5
  <1> HIDE DEF Start
  <1>9. Accessible(h) \subseteq S
    BY <1>2, <1>6, <1>7, <1>8, ReachedLeast
  <1>10. QED
    BY <1>2, <1>4, <1>5, <1>9 DEF S

\* A context is entered: the registers change and nothing else that shows.
LEMMA ViewOfNewActiveContext ==
    ASSUME NEW h, Typed(h), NEW c \in Context, HomeOf(h, c) \in Context
    PROVE  LET g == newActiveContext(h, c)
           IN  /\ Live(g) = Live(h) /\ g.fields = h.fields
               /\ g.finalizationPending = h.finalizationPending
               /\ g.activeContext = c /\ g.theHomeContext = HomeOf(h, c)
               /\ g \in HeapType
  <1> DEFINE home == HomeOf(h, c)
             k1 == beRootIfOld(h, c)
             k == beRootIfOld(k1, home)
             g == [k EXCEPT !.activeContext = c, !.theHomeContext = home]
  <1>1. newActiveContext(h, c) = g
    BY DEF newActiveContext, HomeOf
  <1>2. c \in Object /\ home \in Object
    BY ImageAssumption
  <1> HIDE DEF home
  <1>3. Typed(k1) /\ SameView(h, k1)
    BY <1>2, BeRootIfOld, ViewOfRoots DEF Typed
  <1> HIDE DEF k1
  <1>4. Typed(k) /\ SameView(h, k)
    BY <1>2, <1>3, BeRootIfOld, ViewOfRoots, SameViewTransitive DEF Typed
  <1> HIDE DEF k
  <1>5. /\ Live(g) = Live(k) /\ g.fields = k.fields
        /\ g.finalizationPending = k.finalizationPending
        /\ g.activeContext = c /\ g.theHomeContext = home
        /\ g \in HeapType
    BY <1>4 DEF Typed, HeapType, Live, home
  <1> HIDE DEF g
  <1>6. QED
    BY <1>1, <1>4, <1>5 DEF SameView, home

-----------------------------------------------------------------------------
(* Each operation, as the image sees it.                                   *)

\* Who stays and had a weak reference to what goes gets to hear of it.
Owed(h, g) ==
    (\E o \in Live(h) \cap Live(g), s \in WeakSlots :
        h.fields[o][s] \in Live(h) \ Live(g)) => g.finalizationPending

\* The fields after a store.
Put(fields, o, s, v) == [fields EXCEPT ![o][s] = v]

LEMMA WriteView ==
    ASSUME NEW h, h \in HeapType, NEW o, NEW s, NEW v
    PROVE  LET g == SetField(h, o, s, v)
           IN  /\ Live(g) = Live(h)
               /\ g.fields = Put(h.fields, o, s, v)
               /\ g.activeContext = h.activeContext
               /\ g.theHomeContext = h.theHomeContext
               /\ g.finalizationPending = h.finalizationPending
               /\ Blank(h) /\ o \in Live(h) => Blank(g)
  <1> DEFINE g == SetField(h, o, s, v)
  <1>1. /\ Live(g) = Live(h)
        /\ g.fields = Put(h.fields, o, s, v)
        /\ g.activeContext = h.activeContext
        /\ g.theHomeContext = h.theHomeContext
        /\ g.finalizationPending = h.finalizationPending
    BY DEF SetField, Put, HeapType, Live
  <1> HIDE DEF g
  <1>2. \A p \in Object \ {o} : g.fields[p] = h.fields[p]
    BY <1>1 DEF Put, HeapType
  <1>3. Blank(h) /\ o \in Live(h) => Blank(g)
    BY <1>1, <1>2 DEF Blank
  <1>4. QED
    BY <1>1, <1>3 DEF g

LEMMA StoreStep ==
    ASSUME NEW o \in InView(heap), NEW v \in InView(heap) \cup {nilObj},
           NEW s \in StackSlots(o),
           Live(heap') = Live(heap),
           (heap').activeContext = heap.activeContext,
           (heap').theHomeContext = heap.theHomeContext,
           (heap').fields = Put(heap.fields, o, s, v)
    PROVE  Abstract!Store /\ Owed(heap, heap')
  <1>1. Owed(heap, heap')
    BY DEF Owed
  <1>2. Live(heap)' = Live(heap)
    BY AbstractView
  <1>3. /\ o \in Abstract!Accessible
        /\ v \in Abstract!Accessible \cup {nilObj}
        /\ s \in Abstract!StackSlots(o)
    BY AbstractView
  <1>4. Abstract!Store
    BY <1>2, <1>3 DEF Abstract!Store, Put
  <1>5. QED
    BY <1>1, <1>4

LEMMA StorePointerView ==
    ASSUME Safe(heap), Blank(heap), StorePointer
    PROVE  Abstract!Store /\ Owed(heap, heap') /\ Blank(heap')
  <1>1. PICK o \in Accessible(heap), v \in Accessible(heap) \cup {nilObj} :
           \E s \in StackSlots(o) : heap' = storePointer(heap, o, s, v)
    BY DEF StorePointer
  <1>2. PICK s \in StackSlots(o) : heap' = storePointer(heap, o, s, v)
    BY <1>1
  <1> DEFINE k == possibleRootStoreInto(heap, o, v)
  <1>3. /\ o \in InView(heap) /\ v \in InView(heap) \cup {nilObj}
        /\ o \in Live(heap) /\ o \in Object /\ Typed(heap)
    BY <1>1, AccessibleSeen, AccessibleLive, LiveObjects
       DEF Safe, Sound, Core
  <1>4. k = heap \/ k = noteAsRoot(heap, o)
    BY DEF possibleRootStoreInto
  <1>5. SameView(heap, k) /\ k \in HeapType
    <2>1. CASE o \in heap.old /\ v \in heap.young
      <3>1. k = beRootIfOld(heap, o)
        BY <2>1 DEF possibleRootStoreInto, beRootIfOld
      <3>2. QED
        BY <1>3, <3>1, BeRootIfOld, ViewOfRoots DEF Typed
    <2>2. CASE ~(o \in heap.old /\ v \in heap.young)
      BY <1>3, <2>2 DEF possibleRootStoreInto, Typed, SameView
    <2>3. QED
      BY <2>1, <2>2
  <1>6. heap' = [k EXCEPT !.fields[o][s] = v]
    BY <1>2 DEF storePointer
  <1> HIDE DEF k
  <1>7. Blank(k) /\ o \in Live(k)
    BY <1>3, <1>5 DEF Blank, SameView
  <1>8. /\ Live(heap') = Live(heap)
        /\ (heap').activeContext = heap.activeContext
        /\ (heap').theHomeContext = heap.theHomeContext
        /\ (heap').fields = Put(heap.fields, o, s, v)
        /\ Blank(heap')
    <2>1. k \in HeapType /\ Blank(k) /\ o \in Live(k)
      BY <1>5, <1>7
    <2>2. heap' = SetField(k, o, s, v)
      BY <1>6 DEF SetField
    <2>3. /\ Live(heap') = Live(k)
          /\ (heap').activeContext = k.activeContext
          /\ (heap').theHomeContext = k.theHomeContext
          /\ (heap').fields = Put(k.fields, o, s, v)
          /\ Blank(heap')
      BY <2>1, <2>2, WriteView
    <2>4. QED
      BY <1>5, <2>3 DEF SameView
  <1>9. QED
    BY <1>2, <1>3, <1>8, StoreStep

LEMMA StoreUncheckedView ==
    ASSUME Safe(heap), Blank(heap), StoreUnchecked
    PROVE  Abstract!Store /\ Owed(heap, heap') /\ Blank(heap')
  <1>1. PICK o \in {heap.activeContext, heap.theHomeContext},
             v \in Accessible(heap) \cup {nilObj} :
           \E s \in StackSlots(o) :
               heap' = [heap EXCEPT !.fields[o][s] = v]
    BY DEF StoreUnchecked
  <1>2. PICK s \in StackSlots(o) : heap' = [heap EXCEPT !.fields[o][s] = v]
    BY <1>1
  <1>3. /\ o \in InView(heap) /\ v \in InView(heap) \cup {nilObj}
        /\ o \in Live(heap) /\ heap \in HeapType
    BY <1>1, AccessibleSeen, RegistersLive DEF Safe, Sound, Core, Typed
  <1>4. /\ Live(heap') = Live(heap)
        /\ (heap').activeContext = heap.activeContext
        /\ (heap').theHomeContext = heap.theHomeContext
        /\ (heap').fields = Put(heap.fields, o, s, v)
        /\ Blank(heap')
    <2>1. heap' = SetField(heap, o, s, v)
      BY <1>2 DEF SetField
    <2>2. QED
      BY <1>3, <2>1, WriteView
  <1>5. QED
    BY <1>2, <1>3, <1>4, StoreStep

LEMMA PushThisContextView ==
    ASSUME Safe(heap), Blank(heap), PushThisContext
    PROVE  Abstract!Store /\ Owed(heap, heap') /\ Blank(heap')
  <1> DEFINE c == heap.activeContext
  <1>1. PICK s \in StackSlots(c) :
           heap' = [heap EXCEPT !.fields[c][s] = c,
                                !.reclaimableContextCount = 0]
    BY DEF PushThisContext
  <1>2. c \in InView(heap) /\ c \in Live(heap) /\ heap \in HeapType
    BY AccessibleSeen, RegistersLive DEF Safe, Sound, Core, Typed
  <1> HIDE DEF c
  <1> DEFINE k == SetField(heap, c, s, c)
  <1>3. /\ Live(k) = Live(heap)
        /\ k.activeContext = heap.activeContext
        /\ k.theHomeContext = heap.theHomeContext
        /\ k.fields = Put(heap.fields, c, s, c)
        /\ Blank(k)
    BY <1>2, WriteView
  <1>4. /\ Live(heap') = Live(k)
        /\ (heap').activeContext = k.activeContext
        /\ (heap').theHomeContext = k.theHomeContext
        /\ (heap').fields = k.fields
    BY <1>1, <1>2 DEF c, SetField, Live, HeapType
  <1> HIDE DEF k
  <1>5. Blank(heap')
    BY <1>3, <1>4 DEF Blank
  <1>6. QED
    BY <1>1, <1>2, <1>3, <1>4, <1>5, StoreStep DEF c

LEMMA CollectStep ==
    ASSUME Shrinks(heap, heap')
    PROVE  Abstract!Collect /\ Owed(heap, heap')
  <1> DEFINE gone == Live(heap) \ Live(heap')
  <1>1. /\ Live(heap') \subseteq Live(heap) /\ gone \cap Held(heap) = {}
        /\ \E emptied \in SUBSET Live(heap) :
              (heap').fields = Cut(heap, gone, emptied)
        /\ (heap').activeContext = heap.activeContext
        /\ (heap').theHomeContext = heap.theHomeContext
        /\ \A o \in Live(heap'), s \in WeakSlots :
              heap.fields[o][s] \in gone => (heap').finalizationPending
    BY DEF Shrinks, Clears
  <1>2. Owed(heap, heap')
    BY <1>1 DEF Owed
  <1>3. /\ Live(heap)' = Live(heap') /\ Abstract!Gone = gone
        /\ Abstract!Held = Held(heap)
        /\ \A emptied : Abstract!Without(emptied) = Cut(heap, gone, emptied)
    BY AbstractView
  <1> HIDE DEF gone
  <1>4. Abstract!Collect
    BY <1>1, <1>3 DEF Abstract!Collect, Abstract!CollectsGarbage
  <1>5. QED
    BY <1>2, <1>4

LEMMA CollectionsView ==
    ASSUME Safe(heap), Blank(heap),
           PrimitiveIncrementalGC \/ PrimitiveFullGC
    PROVE  Abstract!Collect /\ Owed(heap, heap') /\ Blank(heap')
  <1> DEFINE once == incrementalGC(heap)
  <1>1. Sound(once) /\ Shrinks(heap, once) /\ Blank(once)
    BY IncrementalGC, IncrementalGCShrinks DEF Safe
  <1>2. heap' = once \/ heap' = fullGC(once)
    BY DEF PrimitiveIncrementalGC, PrimitiveFullGC
  <1> HIDE DEF once
  <1>3. Shrinks(heap, fullGC(once)) /\ Blank(fullGC(once))
    BY <1>1, FullGCShrinks, ShrinksTransitive DEF Safe, Sound
  <1>4. Shrinks(heap, heap') /\ Blank(heap')
    BY <1>1, <1>2, <1>3
  <1>5. QED
    BY <1>4, CollectStep

LEMMA SignalFinalizationView ==
    ASSUME Safe(heap), Blank(heap), SignalFinalization
    PROVE  /\ UNCHANGED Abstract!heapVars
           /\ Owed(heap, heap') /\ Blank(heap')
  <1>1. heap \in HeapType /\ heap' = [heap EXCEPT !.finalizationPending = FALSE]
    BY DEF SignalFinalization, Safe, Sound, Core, Typed
  <1>2. /\ Live(heap') = Live(heap) /\ (heap').fields = heap.fields
        /\ (heap').activeContext = heap.activeContext
        /\ (heap').theHomeContext = heap.theHomeContext
    BY <1>1 DEF Live, HeapType
  <1>3. Live(heap)' = Live(heap)
    BY <1>2, AbstractView
  <1>4. UNCHANGED Abstract!heapVars
    BY <1>2, <1>3 DEF Abstract!heapVars
  <1>5. QED
    BY <1>2, <1>4 DEF Owed, Blank

\* From h to g, of which b is a new object, only what is not held was freed.
Made(h, g, b) ==
    /\ Live(g) \ Live(h) = {b}
    /\ Clears(h, g)
    /\ Blank(g)
    /\ g.activeContext \in Live(g)

\* The fields of a new object.
Emptied(fields, b) == [fields EXCEPT ![b] = NoFields]

\* What follows a collection that a new object needed.
LEMMA FreshMade ==
    ASSUME NEW h, Core(h), Blank(h), NEW k, Core(k), Blank(k), Shrinks(h, k),
           NEW b \in Object, b \notin Live(h), NEW g,
           Live(g) = Live(k) \cup {b}, g.fields = Emptied(k.fields, b),
           g.activeContext = k.activeContext,
           g.theHomeContext = k.theHomeContext,
           g.finalizationPending = k.finalizationPending
    PROVE  Made(h, g, b) /\ g.fields = k.fields
  <1>1. /\ Live(k) \subseteq Live(h) /\ b \notin Live(k)
        /\ k.activeContext \in Live(k) /\ nilObj \notin Live(h)
        /\ k.fields \in [Object -> [Slot -> Object \cup {nilObj}]]
        /\ WeakSlots \subseteq Slot
    BY RegistersLive, LiveObjects, NilAssumption, SlotsAssumption
       DEF Shrinks, Core, Typed, HeapType
  <1>2. k.fields[b] = NoFields
    BY <1>1 DEF Blank
  <1>3. g.fields = k.fields
    BY <1>1, <1>2 DEF Emptied
  <1>4. /\ Live(h) \ Live(g) = Live(h) \ Live(k) /\ Live(g) \ Live(h) = {b}
    BY <1>1
  <1>5. Blank(g)
    BY <1>3 DEF Blank
  <1>6. ASSUME NEW o \in Live(g), NEW s \in WeakSlots,
               h.fields[o][s] \in Live(h) \ Live(k)
        PROVE  o \in Live(k)
    <2> SUFFICES ASSUME o = b
                 PROVE  FALSE
      OBVIOUS
    <2>1. h.fields[o][s] = nilObj
      BY <1>1 DEF Blank, NoFields
    <2>2. QED
      BY <1>1, <1>6, <2>1
  <1>7. Clears(h, g)
    <2>1. /\ (Live(h) \ Live(k)) \cap Held(h) = {}
          /\ \E emptied \in SUBSET Live(h) :
                k.fields = Cut(h, Live(h) \ Live(k), emptied)
          /\ k.activeContext = h.activeContext
          /\ k.theHomeContext = h.theHomeContext
          /\ \/ h.finalizationPending
             \/ \E o \in Live(k), s \in WeakSlots :
                   h.fields[o][s] \in Live(h) \ Live(k)
             => k.finalizationPending
      BY DEF Shrinks, Clears
    <2>2. (\E o \in Live(g), s \in WeakSlots :
              h.fields[o][s] \in Live(h) \ Live(k)) =>
          (\E o \in Live(k), s \in WeakSlots :
              h.fields[o][s] \in Live(h) \ Live(k))
      BY <1>6
    <2>3. QED
      BY <1>3, <1>4, <2>1, <2>2 DEF Clears
  <1>8. QED
    BY <1>1, <1>3, <1>4, <1>5, <1>7 DEF Made

LEMMA FreshView ==
    ASSUME NEW k, k \in HeapType, NEW b
    PROVE  LET g == Fresh(k, b, NoFields)
           IN  /\ Live(g) = Live(k) \cup {b}
               /\ g.fields = Emptied(k.fields, b)
               /\ g.activeContext = k.activeContext
               /\ g.theHomeContext = k.theHomeContext
               /\ g.finalizationPending = k.finalizationPending
  BY DEF Fresh, Emptied, HeapType, Live

LEMMA FreshType ==
    ASSUME NEW k, k \in HeapType, NEW b \in Object
    PROVE  Fresh(k, b, NoFields) \in HeapType
  BY DEF Fresh, HeapType, NoFields

LEMMA InstantiateMade ==
    ASSUME NEW h, Sound(h), Blank(h), NEW b \in Object, b \notin Live(h),
           NEW space \in SpaceFound
    PROVE  LET g == instantiate(h, space, b)
           IN  Made(h, g, b) /\ g \in HeapType
  <1> DEFINE k == allocateChunk(h, space)
             g == Fresh(k, b, NoFields)
  <1>1. /\ Sound(k) /\ Blank(k) /\ Shrinks(h, k)
    BY AllocateChunk, AllocateChunkShrinks
  <1>2. instantiate(h, space, b) = g
    BY DEF instantiate, Fresh
  <1> HIDE DEF k
  <1>3. Core(h) /\ Core(k) /\ k \in HeapType
    BY <1>1 DEF Sound, Core, Typed
  <1>4. /\ Live(g) = Live(k) \cup {b}
        /\ g.fields = Emptied(k.fields, b)
        /\ g.activeContext = k.activeContext
        /\ g.theHomeContext = k.theHomeContext
        /\ g.finalizationPending = k.finalizationPending
        /\ g \in HeapType
    BY <1>3, FreshView, FreshType
  <1> HIDE DEF g
  <1>5. Made(h, g, b)
    BY <1>1, <1>3, <1>4, FreshMade
  <1>6. QED
    BY <1>2, <1>4, <1>5

\* A context that is used again is as good as new: it was free space.
LEMMA ContextMade ==
    ASSUME NEW h, Sound(h), Blank(h), NEW c \in Context, c \notin Live(h),
           NEW space \in SpaceFound
    PROVE  LET g == allocateOrRecycleContext(h, space, c)
           IN  Made(h, g, c) /\ g \in HeapType
  <1>1. c \in Object /\ h \in HeapType /\ Core(h)
    BY ImageAssumption DEF Sound, Core, Typed
  <1>2. CASE c \in h.freeContexts
    <2> DEFINE k == [h EXCEPT !.freeContexts = @ \ {c}]
               g == Fresh(k, c, NoFields)
    <2>1. /\ k \in HeapType /\ Live(k) = Live(h) /\ k.fields = h.fields
          /\ k.activeContext = h.activeContext
          /\ k.theHomeContext = h.theHomeContext
          /\ k.finalizationPending = h.finalizationPending
      BY <1>1 DEF HeapType, Live
    <2>2. allocateOrRecycleContext(h, space, c) = g
      BY <1>1, <1>2 DEF allocateOrRecycleContext, Fresh, HeapType
    <2> HIDE DEF k
    <2>3. /\ Live(g) = Live(h) \cup {c}
          /\ g.fields = Emptied(h.fields, c)
          /\ g.activeContext = h.activeContext
          /\ g.theHomeContext = h.theHomeContext
          /\ g.finalizationPending = h.finalizationPending
          /\ g \in HeapType
      BY <1>1, <2>1, FreshView, FreshType
    <2> HIDE DEF g
    <2>4. Shrinks(h, h)
      BY <1>1, ViewShrinks DEF SameView
    <2>5. Made(h, g, c)
      BY <1>1, <2>3, <2>4, FreshMade
    <2>6. QED
      BY <2>2, <2>3, <2>5
  <1>3. CASE c \notin h.freeContexts
    <2>1. allocateOrRecycleContext(h, space, c) = instantiate(h, space, c)
      BY <1>3 DEF allocateOrRecycleContext
    <2>2. QED
      BY <1>1, <2>1, InstantiateMade
  <1>4. QED
    BY <1>2, <1>3

\* What Heap says of every step that makes an object.
LEMMA MadeStep ==
    ASSUME NEW g, NEW b, Made(heap, g, b), Live(heap') = Live(g),
           (heap').finalizationPending = g.finalizationPending
    PROVE  /\ Live(heap)' \ Live(heap) = {b}
           /\ Abstract!CollectsGarbage
           /\ \E emptied \in SUBSET Live(heap) :
                 Abstract!Without(emptied) = g.fields
           /\ Owed(heap, heap')
  <1> DEFINE gone == Live(heap) \ Live(heap')
  <1>1. /\ Live(g) \ Live(heap) = {b} /\ gone \cap Held(heap) = {}
        /\ \E emptied \in SUBSET Live(heap) :
              g.fields = Cut(heap, gone, emptied)
        /\ \A o \in Live(g), s \in WeakSlots :
              heap.fields[o][s] \in gone => g.finalizationPending
    BY DEF Made, Clears
  <1>2. Owed(heap, heap')
    BY <1>1 DEF Owed
  <1>3. /\ Live(heap)' = Live(heap') /\ Abstract!Gone = gone
        /\ Abstract!Held = Held(heap)
        /\ \A emptied : Abstract!Without(emptied) = Cut(heap, gone, emptied)
    BY AbstractView
  <1> HIDE DEF gone
  <1>4. Abstract!CollectsGarbage
    BY <1>1, <1>3 DEF Abstract!CollectsGarbage
  <1>5. QED
    BY <1>1, <1>2, <1>3, <1>4

LEMMA SetFieldType ==
    ASSUME NEW h, h \in HeapType, NEW o, NEW s, NEW v \in Object \cup {nilObj}
    PROVE  SetField(h, o, s, v) \in HeapType
  BY DEF SetField, HeapType

LEMMA PrimitiveNewView ==
    ASSUME Safe(heap), Blank(heap), PrimitiveNew
    PROVE  Abstract!New /\ Owed(heap, heap') /\ Blank(heap')
  <1> DEFINE c == heap.activeContext
  <1>1. PICK o \in Object \ (Live(heap) \cup Context), space \in SpaceFound :
           \E s \in StackSlots(c) :
               heap' = [instantiate(heap, space, o) EXCEPT !.fields[c][s] = o]
    BY DEF PrimitiveNew
  <1>2. PICK s \in StackSlots(c) :
           heap' = [instantiate(heap, space, o) EXCEPT !.fields[c][s] = o]
    BY <1>1
  <1> DEFINE g == instantiate(heap, space, o)
  <1>3. Made(heap, g, o) /\ g \in HeapType
    BY <1>1, InstantiateMade DEF Safe
  <1>4. heap' = SetField(g, c, s, o)
    BY <1>2 DEF SetField
  <1> HIDE DEF g
  <1>5. /\ g.activeContext = c /\ g.theHomeContext = heap.theHomeContext
        /\ c \in Live(g) /\ Blank(g)
    BY <1>3 DEF Made, Clears
  <1> HIDE DEF c
  <1>6. /\ Live(heap') = Live(g)
        /\ (heap').fields = Put(g.fields, c, s, o)
        /\ (heap').activeContext = g.activeContext
        /\ (heap').theHomeContext = g.theHomeContext
        /\ (heap').finalizationPending = g.finalizationPending
        /\ Blank(heap')
    BY <1>3, <1>4, <1>5, WriteView
  <1>7. /\ Live(heap)' \ Live(heap) = {o}
        /\ Abstract!CollectsGarbage
        /\ \E emptied \in SUBSET Live(heap) :
              Abstract!Without(emptied) = g.fields
        /\ Owed(heap, heap')
    BY <1>3, <1>6, MadeStep
  <1>8. PICK emptied \in SUBSET Live(heap) :
           Abstract!Without(emptied) = g.fields
    BY <1>7
  <1>9. s \in Abstract!StackSlots(heap.activeContext)
    BY <1>2, AbstractView DEF c
  <1>10. (heap').fields =
            [Abstract!Without(emptied) EXCEPT ![heap.activeContext][s] = o]
    BY <1>6, <1>8 DEF Put, c
  <1>11. Abstract!New
    BY <1>1, <1>5, <1>6, <1>7, <1>9, <1>10 DEF Abstract!New, c
  <1>12. QED
    BY <1>6, <1>7, <1>11

LEMMA PrimitiveBlockCopyView ==
    ASSUME Safe(heap), Blank(heap), PrimitiveBlockCopy
    PROVE  Abstract!NewBlock /\ Owed(heap, heap') /\ Blank(heap')
  <1> DEFINE a == heap.activeContext
  <1>1. PICK b \in Block \ Live(heap), space \in SpaceFound,
             s \in StackSlots(a) :
           LET context == heap.fields[a][s]
           IN  /\ context \in Context
               /\ heap' = [instantiate(heap, space, b) EXCEPT
                              !.fields[b][HomeSlot] = HomeOf(heap, context),
                              !.fields[a][s] = b]
    BY DEF PrimitiveBlockCopy, HomeOf
  <1> DEFINE c == heap.fields[a][s]
             home == HomeOf(heap, c)
             i == instantiate(heap, space, b)
             g == SetField(i, b, HomeSlot, home)
  <1>2. b \in Object /\ b \in Context /\ c \in Context
    BY <1>1, ImageAssumption DEF Block
  <1>3. Made(heap, i, b) /\ i \in HeapType
    BY <1>1, <1>2, InstantiateMade DEF Safe
  <1>4. heap' = SetField(g, a, s, b)
    BY <1>1 DEF SetField
  <1>5. /\ s \in StrongSlots /\ c \in Live(heap)
        /\ home \in Object
    <2>1. /\ a \in Live(heap) /\ a \in Context /\ a \in Object
      BY RegistersLive, ImageAssumption DEF Safe, Sound
    <2>2. s \in StrongSlots
      BY <1>1, <2>1, StackSlotsAreSlots, ImageAssumption
         DEF StackSlots, StrongSlots
    <2>3. c \in Live(heap)
      BY <1>2, <2>1, <2>2, NilAssumption, ImageAssumption
         DEF StrongSlots, Safe, Sound, Core, Pointing
    <2> HIDE DEF c
    <2>4. home \in Context
      BY <1>2, <2>3 DEF HomeOf, Block, Safe, Sound, Core, Linked
    <2>5. QED
      BY <2>2, <2>3, <2>4, ImageAssumption
  <1>6. home = IF c \in Block THEN heap.fields[c][HomeSlot] ELSE c
    BY DEF HomeOf
  <1>7. c \in Abstract!OnStack
    BY <1>5 DEF Abstract!OnStack, StrongSlots
  <1> HIDE DEF i
  <1>8. /\ i.activeContext = a /\ i.theHomeContext = heap.theHomeContext
        /\ a \in Live(i) /\ b \in Live(i) /\ Blank(i)
    BY <1>3 DEF Made, Clears
  <1> HIDE DEF a, home
  <1>9. /\ Live(g) = Live(i)
        /\ g.fields = Put(i.fields, b, HomeSlot, home)
        /\ g.activeContext = i.activeContext
        /\ g.theHomeContext = i.theHomeContext
        /\ g.finalizationPending = i.finalizationPending
        /\ Blank(g) /\ g \in HeapType
    BY <1>3, <1>5, <1>8, WriteView, SetFieldType
  <1> HIDE DEF g
  <1>10. /\ Live(heap') = Live(g)
         /\ (heap').fields = Put(g.fields, a, s, b)
         /\ (heap').activeContext = g.activeContext
         /\ (heap').theHomeContext = g.theHomeContext
         /\ (heap').finalizationPending = g.finalizationPending
         /\ Blank(heap')
    BY <1>4, <1>8, <1>9, WriteView
  <1>11. /\ Live(heap') = Live(i)
         /\ (heap').finalizationPending = i.finalizationPending
         /\ (heap').activeContext = heap.activeContext
         /\ (heap').theHomeContext = heap.theHomeContext
         /\ (heap').fields = Put(Put(i.fields, b, HomeSlot, home), a, s, b)
    BY <1>8, <1>9, <1>10 DEF a
  <1>12. /\ Live(heap)' \ Live(heap) = {b}
         /\ Abstract!CollectsGarbage
         /\ \E emptied \in SUBSET Live(heap) :
               Abstract!Without(emptied) = i.fields
         /\ Owed(heap, heap')
    BY <1>3, <1>11, MadeStep
  <1>13. /\ b \in Abstract!Block \ Live(heap)
         /\ c \in Abstract!OnStack \cap Context
         /\ s \in Abstract!StackSlots(heap.activeContext)
         /\ home = IF c \in Abstract!Block
                    THEN heap.fields[c][HomeSlot] ELSE c
    BY <1>1, <1>2, <1>6, <1>7, AbstractView DEF a
  <1> HIDE DEF c
  <1>14. PICK emptied \in SUBSET Live(heap) :
            Abstract!Without(emptied) = i.fields
    BY <1>12
  <1>15. (heap.fields)' =
            [Abstract!Without(emptied) EXCEPT
               ![b][HomeSlot] = IF c \in Abstract!Block
                                THEN heap.fields[c][HomeSlot] ELSE c,
               ![heap.activeContext][s] = b]
    BY <1>11, <1>13, <1>14 DEF Put, a
  <1>16. Abstract!NewBlock
    <2>1. UNCHANGED <<heap.activeContext, heap.theHomeContext>>
      BY <1>11
    <2>2. \E d \in Abstract!OnStack \cap Context,
             t \in Abstract!StackSlots(heap.activeContext),
             e \in SUBSET Live(heap) :
             (heap.fields)' =
                [Abstract!Without(e) EXCEPT
                   ![b][HomeSlot] = IF d \in Abstract!Block
                                    THEN heap.fields[d][HomeSlot] ELSE d,
                   ![heap.activeContext][t] = b]
      BY <1>13, <1>14, <1>15
    <2>3. QED
      BY <1>12, <1>13, <2>1, <2>2, ZenonT(60) DEF Abstract!NewBlock
  <1>17. QED
    BY <1>10, <1>12, <1>16

LEMMA SetFieldTyped ==
    ASSUME NEW h, Typed(h), NEW o, NEW s, NEW v \in Object \cup {nilObj}
    PROVE  Typed(SetField(h, o, s, v))
  <1> DEFINE g == SetField(h, o, s, v)
  <1>1. h \in HeapType /\ g \in HeapType
    BY SetFieldType DEF Typed
  <1>2. /\ g.old = h.old /\ g.young = h.young
        /\ g.freeContexts = h.freeContexts
        /\ g.rootTable = h.rootTable /\ g.rootBit = h.rootBit
    BY <1>1 DEF SetField, HeapType
  <1> HIDE DEF g
  <1>3. Typed(g)
    BY <1>1, <1>2 DEF Typed, Live
  <1>4. QED
    BY <1>3 DEF g

LEMMA SetTwoView ==
    ASSUME NEW h, Typed(h), NEW c, NEW s, NEW t,
           NEW a \in Object, NEW r \in Object \cup {nilObj}
    PROVE  LET g == SetTwo(h, c, s, a, t, r)
           IN  /\ Typed(g)
               /\ Live(g) = Live(h)
               /\ g.fields = Put(Put(h.fields, c, s, a), c, t, r)
               /\ g.finalizationPending = h.finalizationPending
               /\ Blank(h) /\ c \in Live(h) => Blank(g)
  <1> DEFINE i == SetField(h, c, s, a)
             k == SetField(i, c, t, r)
             g == SetTwo(h, c, s, a, t, r)
  <1>1. h \in HeapType
    BY DEF Typed
  <1>2. /\ Typed(i) /\ Live(i) = Live(h)
        /\ i.fields = Put(h.fields, c, s, a)
        /\ i.finalizationPending = h.finalizationPending
        /\ Blank(h) /\ c \in Live(h) => Blank(i)
    BY <1>1, WriteView, SetFieldTyped
  <1>3. g = [k EXCEPT !.reclaimableContextCount = @ + 1]
    BY DEF SetTwo, SetField
  <1> HIDE DEF i
  <1>4. i \in HeapType
    BY <1>2 DEF Typed
  <1>5. /\ Typed(k) /\ Live(k) = Live(i)
        /\ k.fields = Put(i.fields, c, t, r)
        /\ k.finalizationPending = i.finalizationPending
        /\ Blank(i) /\ c \in Live(i) => Blank(k)
    BY <1>2, <1>4, WriteView, SetFieldTyped
  <1> HIDE DEF k
  <1>6. k \in HeapType
    BY <1>5 DEF Typed
  <1>7. /\ g \in HeapType /\ g.old = k.old /\ g.young = k.young
        /\ g.freeContexts = k.freeContexts
        /\ g.rootTable = k.rootTable /\ g.rootBit = k.rootBit
        /\ g.fields = k.fields
        /\ g.finalizationPending = k.finalizationPending
    BY <1>3, <1>6 DEF HeapType
  <1> HIDE DEF g
  <1>8. Live(g) = Live(k)
    BY <1>7 DEF Live
  <1>9. Typed(g) /\ (Blank(k) => Blank(g))
    BY <1>5, <1>7, <1>8 DEF Typed, Blank
  <1>10. QED
    BY <1>2, <1>5, <1>7, <1>8, <1>9 DEF g

LEMMA ContextTyped ==
    ASSUME Safe(heap), NEW c \in (Context \ Block) \ Live(heap),
           NEW space \in SpaceFound
    PROVE  Typed(allocateOrRecycleContext(heap, space, c))
  <1>1. PICK top : Chain(heap, heap.activeContext, top)
    BY DEF Safe
  <1>2. PICK k : /\ Sound(k) /\ c \notin Live(k) \cup k.freeContexts
                 /\ allocateOrRecycleContext(heap, space, c) =
                       Fresh(k, c, NoFields)
    BY <1>1, AllocateOrRecycleContext DEF Safe
  <1>3. /\ c \in Object /\ NoFields \in [Slot -> Live(k) \cup {nilObj}]
        /\ NoFields[SenderSlot] = nilObj
    BY ImageAssumption, SlotsAssumption DEF NoFields
  <1>4. Sound(Fresh(k, c, NoFields))
    BY <1>2, <1>3, NewObject DEF Fresh
  <1>5. QED
    BY <1>2, <1>4 DEF Sound, Core

LEMMA ActivateNewMethodView ==
    ASSUME Safe(heap), Blank(heap), ActivateNewMethod
    PROVE  Abstract!Send /\ Owed(heap, heap') /\ Blank(heap')
  <1> DEFINE a == heap.activeContext
  <1>1. PICK c \in (Context \ Block) \ Live(heap), space \in SpaceFound :
           LET h == allocateOrRecycleContext(heap, space, c)
           IN  \E from \in StackSlots(a), to \in StackSlots(c) :
                  heap' = newActiveContext(
                     [h EXCEPT
                         !.fields[c][SenderSlot] = h.activeContext,
                         !.fields[c][to] = h.fields[h.activeContext][from],
                         !.reclaimableContextCount = @ + 1], c)
    BY DEF ActivateNewMethod
  <1> DEFINE h == allocateOrRecycleContext(heap, space, c)
  <1>2. PICK from \in StackSlots(a), to \in StackSlots(c) :
           heap' = newActiveContext(
              [h EXCEPT
                  !.fields[c][SenderSlot] = h.activeContext,
                  !.fields[c][to] = h.fields[h.activeContext][from],
                  !.reclaimableContextCount = @ + 1], c)
    BY <1>1
  <1>3. Made(heap, h, c) /\ h \in HeapType /\ Typed(h)
    BY <1>1, ContextMade, ContextTyped DEF Safe
  <1> HIDE DEF h
  <1>4. /\ h.activeContext = a /\ c \in Live(h) /\ Blank(h)
        /\ a \in Object /\ c \in Context /\ c \notin Block
        /\ from \in Slot
    <2>1. a \in Context
      BY RegistersLive DEF Safe, Sound
    <2>2. a \in Object
      BY <2>1, ImageAssumption
    <2>3. from \in Slot
      BY <1>2, <2>2, StackSlotsAreSlots
    <2>4. QED
      BY <1>1, <1>3, <2>2, <2>3 DEF Made, Clears
  <1> DEFINE receiver == h.fields[a][from]
             g == SetTwo(h, c, SenderSlot, a, to, receiver)
  <1>5. receiver \in Object \cup {nilObj}
    BY <1>3, <1>4 DEF HeapType
  <1>6. heap' = newActiveContext(g, c)
    BY <1>2, <1>4 DEF SetTwo
  <1> HIDE DEF receiver, a
  <1>7. /\ Typed(g) /\ Live(g) = Live(h)
        /\ g.fields = Put(Put(h.fields, c, SenderSlot, a), c, to, receiver)
        /\ g.finalizationPending = h.finalizationPending
        /\ Blank(g)
    BY <1>3, <1>4, <1>5, SetTwoView
  <1> HIDE DEF g
  <1>8. HomeOf(g, c) = c
    BY <1>4 DEF HomeOf
  <1>9. /\ Live(heap') = Live(g) /\ (heap').fields = g.fields
        /\ (heap').finalizationPending = g.finalizationPending
        /\ (heap').activeContext = c /\ (heap').theHomeContext = c
    BY <1>4, <1>6, <1>7, <1>8, ViewOfNewActiveContext
  <1>10. Blank(heap')
    BY <1>7, <1>9 DEF Blank
  <1>11. /\ Live(heap') = Live(h)
         /\ (heap').finalizationPending = h.finalizationPending
    BY <1>7, <1>9
  <1>12. /\ Live(heap)' \ Live(heap) = {c}
         /\ Abstract!CollectsGarbage
         /\ \E emptied \in SUBSET Live(heap) :
               Abstract!Without(emptied) = h.fields
         /\ Owed(heap, heap')
    BY <1>3, <1>11, MadeStep
  <1>13. PICK emptied \in SUBSET Live(heap) :
            Abstract!Without(emptied) = h.fields
    BY <1>12
  <1> DEFINE fields == [Abstract!Without(emptied) EXCEPT
               ![c][SenderSlot] = heap.activeContext,
               ![c][to] = Abstract!Without(emptied)[heap.activeContext][from]]
  <1>14. (heap.fields)' = fields
    BY <1>7, <1>9, <1>13 DEF Put, receiver, a
  <1>15. /\ c \in (Context \ Abstract!Block) \ Live(heap)
         /\ c \notin Abstract!Block
         /\ from \in Abstract!StackSlots(heap.activeContext)
         /\ to \in Abstract!StackSlots(c)
    BY <1>1, <1>2, AbstractView DEF a
  <1>16. /\ (heap.activeContext)' = c
         /\ (heap.theHomeContext)' = c
    BY <1>9
  <1>17. Abstract!Enter(c, fields)
    <2> HIDE DEF fields
    <2>1. QED
      BY <1>14, <1>15, <1>16 DEF Abstract!Enter
  <1>18. Abstract!Send
    BY <1>12, <1>13, <1>15, <1>17, ZenonT(60) DEF Abstract!Send
  <1>19. QED
    BY <1>10, <1>12, <1>18

LEMMA PrimitiveValueView ==
    ASSUME Safe(heap), Blank(heap), PrimitiveValue
    PROVE  Abstract!Value /\ Owed(heap, heap') /\ Blank(heap')
  <1> DEFINE a == heap.activeContext
  <1>1. PICK b \in Accessible(heap) \cap Block :
           /\ heap.fields[b][SenderSlot] = nilObj
           /\ heap' = newActiveContext(
                        [heap EXCEPT !.fields[b][SenderSlot] = a], b)
    BY DEF PrimitiveValue
  <1> DEFINE g == SetField(heap, b, SenderSlot, a)
  <1>2. /\ heap' = newActiveContext(g, b)
        /\ heap.fields[b][SenderSlot] = nilObj
    BY <1>1 DEF SetField
  <1>3. /\ b \in InView(heap) /\ b \in Live(heap) /\ b \in Context
        /\ b \in Block /\ b \in Object
        /\ a \in Object /\ Typed(heap) /\ heap \in HeapType
    BY <1>1, AccessibleSeen, AccessibleLive, RegistersLive, ImageAssumption
       DEF Block, Safe, Sound, Core, Typed
  <1> HIDE DEF a
  <1>4. /\ Typed(g) /\ Live(g) = Live(heap)
        /\ g.fields = Put(heap.fields, b, SenderSlot, a)
        /\ g.finalizationPending = heap.finalizationPending
        /\ Blank(g)
    BY <1>3, WriteView, SetFieldTyped
  <1> HIDE DEF g
  <1>5. g.fields[b][HomeSlot] = heap.fields[b][HomeSlot]
    BY <1>3, <1>4, SlotsAssumption DEF Put, HeapType
  <1>6. HomeOf(g, b) = g.fields[b][HomeSlot] /\ HomeOf(g, b) \in Context
    BY <1>3, <1>5 DEF HomeOf, Safe, Sound, Core, Linked
  <1>7. /\ Live(heap') = Live(g) /\ (heap').fields = g.fields
        /\ (heap').finalizationPending = g.finalizationPending
        /\ (heap').activeContext = b
        /\ (heap').theHomeContext = g.fields[b][HomeSlot]
    BY <1>2, <1>3, <1>4, <1>6, ViewOfNewActiveContext
  <1>8. Owed(heap, heap') /\ Blank(heap')
    BY <1>4, <1>7 DEF Owed, Blank
  <1> DEFINE fields == [heap.fields EXCEPT ![b][SenderSlot] =
                                               heap.activeContext]
  <1>9. g.fields = fields
    BY <1>4 DEF Put, a
  <1> HIDE DEF fields
  <1>10. /\ b \in Abstract!Accessible \cap Abstract!Block
         /\ Live(heap)' = Live(heap)
    BY <1>3, <1>4, <1>7, AbstractView
  <1>11. Abstract!Enter(b, fields)
    BY <1>7, <1>9, <1>10 DEF Abstract!Enter
  <1>12. Abstract!Value
    BY <1>2, <1>10, <1>11, ZenonT(60) DEF Abstract!Value, fields
  <1>13. QED
    BY <1>8, <1>12

\* The contexts that a return reclaims vanish, and it leaves no field naming
\* them.
LEMMA CommonReturnView ==
    ASSUME ~BlockSendersRead, Safe(heap), Blank(heap), CommonReturn
    PROVE  Abstract!Return /\ Owed(heap, heap') /\ Blank(heap')
  <1> DEFINE n == heap.reclaimableContextCount
  <1>1. PICK c \in {heap.activeContext, heap.theHomeContext},
             v \in OnHand(heap) \cup {nilObj} :
           LET target == heap.fields[c][SenderSlot]
               left == Returned(heap, target)
               count == n - Cardinality(left)
               recycled == {o \in (left \cap heap.young) \ Block :
                               Reclaimable(heap, o)}
               h == [heap EXCEPT
                       !.young = @ \ recycled,
                       !.freeContexts = @ \cup recycled,
                       !.reclaimableContextCount =
                           IF count < 0 THEN 0 ELSE count,
                       !.fields = [o \in Object |->
                          IF o \in recycled THEN NoFields
                          ELSE IF o \in left
                               THEN [@[o] EXCEPT ![SenderSlot] = nilObj]
                               ELSE @[o]]]
           IN  /\ target # nilObj
               /\ \A o \in left : heap.fields[o][SenderSlot] # nilObj
               /\ \E s \in StackSlots(target) :
                     heap' = [newActiveContext(h, target)
                                 EXCEPT !.fields[target][s] = v]
    BY DEF CommonReturn
  <1> DEFINE target == heap.fields[c][SenderSlot]
             left == Returned(heap, target)
             count == n - Cardinality(left)
             recycled == {o \in (left \cap heap.young) \ Block :
                             Reclaimable(heap, o)}
             newCount == IF count < 0 THEN 0 ELSE count
             fields == [o \in Object |->
                          IF o \in recycled THEN NoFields
                          ELSE IF o \in left
                               THEN [heap.fields[o] EXCEPT
                                        ![SenderSlot] = nilObj]
                               ELSE heap.fields[o]]
             g == [heap EXCEPT
                     !.young = @ \ recycled,
                     !.freeContexts = @ \cup recycled,
                     !.reclaimableContextCount = newCount,
                     !.fields = fields]
             k == newActiveContext(g, target)
  <1>2. PICK s \in StackSlots(target) :
           heap' = [k EXCEPT !.fields[target][s] = v]
    BY <1>1
  <1>3. /\ target # nilObj
        /\ \A o \in left : heap.fields[o][SenderSlot] # nilObj
    BY <1>1
  <1>4. /\ heap \in HeapType /\ Live(heap) \subseteq Object /\ n \in Nat
        /\ nilObj \notin Object /\ SenderSlot \in Slot
        /\ \A o \in Object :
              heap.fields[o] \in [Slot -> Object \cup {nilObj}]
    BY LiveObjects, NilAssumption, SlotsAssumption
       DEF Safe, Sound, Core, Typed, HeapType
  <1>5. target \in Live(heap) \cap Context /\ target \in Object
    <2>1. c \in Live(heap) \cap Context
      BY RegistersLive DEF Safe, Sound
    <2>2. target \in Live(heap)
      BY <1>3, <1>4, <2>1 DEF Safe, Sound, Core, Pointing
    <2>3. target \in Context
      BY <1>3, <2>1 DEF Safe, Sound, Core, Linked
    <2>4. QED
      BY <1>4, <2>2, <2>3
  <1>6. HomeOf(heap, target) \in Context
    BY <1>5 DEF HomeOf, Block, Safe, Sound, Core, Linked
  <1>7. heap' = SetField(k, target, s, v)
    BY <1>2 DEF SetField
  <1> HIDE DEF target
  <1>8. left \subseteq Live(heap) \ {target} /\ IsFiniteSet(left)
    <2>1. left \subseteq Live(heap) \ {target}
      BY ReachedWithin DEF Returned
    <2>2. QED
      BY <1>4, <2>1, ImageAssumption, FS_Subset
  <1>9. recycled \subseteq left \cap heap.young
    OBVIOUS
  <1>10. recycled \subseteq Context \ Block
    <2>1. PICK top : Chain(heap, heap.activeContext, top)
      BY DEF Safe
    <2>2. recycled \subseteq Hidden(heap, top)
      BY <1>4, <2>1, ReclaimableFirst DEF Hidden, Safe
    <2>3. QED
      BY <1>4, <2>1, <2>2, HiddenContexts
  <1>11. newCount \in Nat
    BY <1>4, <1>8, FS_CardinalityType
  <1>12. /\ s \in Slot \ {SenderSlot, HomeSlot} /\ s \notin WeakSlots
         /\ SenderSlot \notin WeakSlots /\ WeakSlots \subseteq Slot
    BY <1>2, <1>5, StackSlotsAreSlots, SlotsAssumption, ImageAssumption
       DEF StackSlots
  <1>13. v \in InView(heap) \cup {nilObj} /\ v \in Object \cup {nilObj}
    <2>1. OnHand(heap) \subseteq Live(heap) \cup {nilObj}
      BY NothingHiddenNamed DEF Safe
    <2>2. QED
      BY <1>4, <2>1, AccessibleSeen DEF Safe
  <1> HIDE DEF left, recycled, newCount
  \* The fields that the return leaves.
  <1>14. /\ \A o \in recycled : fields[o] = NoFields
         /\ \A o \in left \ recycled :
               fields[o] = [heap.fields[o] EXCEPT ![SenderSlot] = nilObj]
         /\ \A o \in Object \ (recycled \cup left) :
               fields[o] = heap.fields[o]
         /\ fields = [o \in Object |-> fields[o]]
    BY <1>4, <1>8, <1>9
  <1>15. fields \in [Object -> [Slot -> Object \cup {nilObj}]]
    BY <1>4 DEF NoFields
  <1> HIDE DEF fields
  <1>16. /\ g \in HeapType
         /\ g.old = heap.old /\ g.young = heap.young \ recycled
         /\ g.fields = fields
         /\ g.freeContexts = heap.freeContexts \cup recycled
         /\ g.rootTable = heap.rootTable /\ g.rootBit = heap.rootBit
         /\ g.finalizationPending = heap.finalizationPending
    BY <1>4, <1>10, <1>11, <1>15 DEF HeapType
  <1> HIDE DEF g
  <1>17. Live(g) = Live(heap) \ recycled
    BY <1>9, <1>16 DEF Live, Safe, Sound, Core, Typed
  <1>18. Typed(g)
    BY <1>9, <1>16, <1>17 DEF Live, Safe, Sound, Core, Typed
  <1>19. /\ target \notin left /\ target \notin recycled
         /\ fields[target] = heap.fields[target]
    BY <1>5, <1>8, <1>9, <1>14
  <1>20. HomeOf(g, target) = HomeOf(heap, target)
    BY <1>16, <1>19 DEF HomeOf
  <1>21. /\ Live(k) = Live(g) /\ k.fields = fields
         /\ k.finalizationPending = heap.finalizationPending
         /\ k.activeContext = target
         /\ k.theHomeContext = HomeOf(g, target)
         /\ k \in HeapType
    BY <1>5, <1>6, <1>16, <1>18, <1>20, ViewOfNewActiveContext
  <1> HIDE DEF k
  <1>22. Blank(k)
    <2> SUFFICES ASSUME NEW o \in Object \ Live(g)
                 PROVE  fields[o] = NoFields
      BY <1>21 DEF Blank
    <2>1. CASE o \in recycled
      BY <1>14, <2>1
    <2>2. CASE o \notin recycled
      BY <1>8, <1>14, <1>17, <2>2 DEF Blank
    <2>3. QED
      BY <2>1, <2>2
  <1>23. /\ Live(heap') = Live(k)
         /\ (heap').fields = Put(k.fields, target, s, v)
         /\ (heap').activeContext = k.activeContext
         /\ (heap').theHomeContext = k.theHomeContext
         /\ (heap').finalizationPending = k.finalizationPending
         /\ Blank(heap')
    BY <1>5, <1>7, <1>17, <1>19, <1>21, <1>22, WriteView
  <1> DEFINE new == Put(fields, target, s, v)
  <1>24. /\ Live(heap') = Live(heap) \ recycled
         /\ (heap').fields = new
         /\ (heap').activeContext = target
         /\ (heap').theHomeContext = HomeOf(heap, target)
         /\ Live(heap) \ Live(heap') = recycled
         /\ Live(heap') \subseteq Live(heap)
    BY <1>8, <1>9, <1>17, <1>20, <1>21, <1>23
  <1>25. /\ new = [o \in Object |-> new[o]]
         /\ \A o \in Object \ {target} : new[o] = fields[o]
         /\ new[target] = [heap.fields[target] EXCEPT ![s] = v]
    BY <1>5, <1>14, <1>15, <1>19 DEF Put
  <1> HIDE DEF new
  \* Nothing is left to name what was reclaimed.
  <1>26. /\ \A o \in Live(heap'), t \in Slot :
               new[o][t] \in Live(heap') \cup {nilObj}
         /\ {specialObjectsOop, target} \subseteq Live(heap')
    <2>1. Safe(heap')
      BY CommonReturnSafe
    <2>2. Pointing(heap') /\ Registers(heap')
      BY <2>1 DEF Safe, Sound, Core
    <2>3. QED
      BY <1>24, <2>2 DEF Pointing, Registers
  <1>27. Owed(heap, heap')
    <2> SUFFICES ASSUME NEW o \in Live(heap) \cap Live(heap'),
                        NEW t \in WeakSlots, heap.fields[o][t] \in recycled
                 PROVE  FALSE
      BY <1>24 DEF Owed
    <2>1. o \in Object /\ o \notin recycled /\ t \in Slot /\ t # SenderSlot
          /\ t # s
      BY <1>4, <1>12, <1>24
    <2>2. new[o][t] = heap.fields[o][t]
      <3>1. CASE o = target
        BY <1>4, <1>12, <1>25, <2>1, <3>1
      <3>2. CASE o \in left
        <4>1. new[o] = [heap.fields[o] EXCEPT ![SenderSlot] = nilObj]
          BY <1>14, <1>19, <1>25, <2>1, <3>2
        <4>2. QED
          BY <1>4, <2>1, <4>1
      <3>3. CASE o # target /\ o \notin left
        BY <1>14, <1>25, <2>1, <3>3
      <3>4. QED
        BY <3>1, <3>2, <3>3
    <2>3. new[o][t] \in Live(heap') \cup {nilObj}
      BY <1>26, <2>1
    <2>4. QED
      BY <1>4, <1>24, <2>2, <2>3
  <1> DEFINE Left == [o \in Object |->
                        IF o \in left
                        THEN [heap.fields[o] EXCEPT ![SenderSlot] = nilObj]
                        ELSE IF o = target
                             THEN [heap.fields[o] EXCEPT ![s] = v]
                             ELSE heap.fields[o]]
             Entered == [o \in Object |->
                           IF o \in recycled THEN NoFields ELSE Left[o]]
  <1>28. \A o \in Object : o \notin recycled => new[o] = Left[o]
    <2> SUFFICES ASSUME NEW o \in Object, o \notin recycled
                 PROVE  new[o] = Left[o]
      OBVIOUS
    <2>1. CASE o \in left
      BY <1>14, <1>19, <1>25, <2>1
    <2>2. CASE o = target
      BY <1>19, <1>25, <2>2
    <2>3. CASE o # target /\ o \notin left
      BY <1>14, <1>25, <2>3
    <2>4. QED
      BY <2>1, <2>2, <2>3
  <1>29. new = Entered
    <2>1. \A o \in Object : new[o] = Entered[o]
      <3> SUFFICES ASSUME NEW o \in Object
                   PROVE  new[o] = Entered[o]
        OBVIOUS
      <3>1. CASE o \in recycled
        BY <1>14, <1>19, <1>25, <3>1
      <3>2. CASE o \notin recycled
        BY <1>28, <3>2
      <3>3. QED
        BY <3>1, <3>2
    <2> HIDE DEF Left
    <2>2. Entered = [o \in Object |-> Entered[o]]
      OBVIOUS
    <2>3. QED
      BY <1>25, <2>1, <2>2
  <1> HIDE DEF Left
  <1>30. recycled \cap Reached(Left, {specialObjectsOop, target}, Slot,
                               Live(heap)) = {}
    <2> DEFINE S == Live(heap')
    <2>1. /\ S \in SUBSET Live(heap)
          /\ {specialObjectsOop, target} \subseteq S
      BY <1>24, <1>26
    <2>2. \A o \in S, t \in Slot :
             Left[o][t] \in Live(heap) => Left[o][t] \in S
      BY <1>4, <1>24, <1>26, <1>28
    <2> HIDE DEF S
    <2>3. Reached(Left, {specialObjectsOop, target}, Slot, Live(heap))
             \subseteq S
      BY <2>1, <2>2, ReachedLeast
    <2>4. QED
      BY <1>24, <2>3 DEF S
  <1>31. Abstract!Return
    <2>1. /\ Live(heap)' = Live(heap') /\ Abstract!Gone = recycled
          /\ s \in Abstract!StackSlots(target)
          /\ v \in Abstract!Accessible \cup {nilObj}
      BY <1>2, <1>13, <1>24, AbstractView
    <2>2. /\ Live(heap)' \subseteq Live(heap) /\ recycled \subseteq left
          /\ target \notin recycled
      BY <1>9, <1>19, <1>24
    <2>3. Abstract!Enter(target, Entered)
      <3>1. (heap.fields)' = Entered
        BY <1>24, <1>29
      <3>2. (heap.activeContext)' = target
        BY <1>24
      <3>3. (heap.theHomeContext)' =
               IF target \in Abstract!Block THEN Entered[target][HomeSlot]
                                            ELSE target
        <4>1. new[target][HomeSlot] = heap.fields[target][HomeSlot]
          BY <1>4, <1>5, <1>12, <1>25, SlotsAssumption
        <4>2. Abstract!Block = Block
          BY AbstractView
        <4>3. QED
          BY <1>24, <1>29, <4>1, <4>2 DEF HomeOf
      <3> HIDE DEF Entered
      <3>4. QED
        BY <3>1, <3>2, <3>3 DEF Abstract!Enter
    <2>4. left = Reached(heap.fields, {heap.activeContext} \ {target},
                         {SenderSlot}, Live(heap) \ {target})
      BY DEF left, Returned
    <2> DEFINE onWay == Abstract!Reached(heap.fields,
                                  {heap.activeContext} \ {target},
                                  {SenderSlot}, Live(heap) \ {target})
               Lost(t) == [o \in Object |->
                             IF o \in onWay
                             THEN [heap.fields[o] EXCEPT
                                      ![SenderSlot] = nilObj]
                             ELSE IF o = target
                                  THEN [heap.fields[o] EXCEPT ![t] = v]
                                  ELSE heap.fields[o]]
    <2>5. onWay = left
      BY <2>4, SameReached
    <2> HIDE DEF onWay
    <2>6. Lost(s) = Left
      BY <2>5 DEF Left
    <2>7. Abstract!Gone \cap
             Abstract!Reached(Lost(s), {specialObjectsOop, target}, Slot,
                              Live(heap)) = {}
      BY <1>30, <2>1, <2>6, SameReached
    <2>8. Entered = [o \in Object |-> IF o \in Abstract!Gone
                                      THEN Abstract!NoFields
                                      ELSE Lost(s)[o]]
      BY <2>1, <2>6, AbstractView
    <2> HIDE DEF Entered, Severed
    <2>9. /\ target # nilObj
          /\ \A o \in onWay : heap.fields[o][SenderSlot] # nilObj
          /\ Live(heap)' \subseteq Live(heap) /\ Abstract!Gone \subseteq onWay
      BY <1>3, <2>1, <2>2, <2>5
    <2>10. Abstract!Enter(target,
                [o \in Object |-> IF o \in Abstract!Gone
                                  THEN Abstract!NoFields ELSE Lost(s)[o]])
      BY <2>3, <2>8
    <2>11. QED
      BY <2>1, <2>7, <2>9, <2>10, ZenonT(60)
         DEF Abstract!Return, target, onWay, Severed
  <1>32. QED
    BY <1>23, <1>27, <1>31

\* Whatever become: does to the fields, nobody is born and nobody dies.
LEMMA BecomeOwed ==
    ASSUME Safe(heap), Blank(heap), PrimitiveBecome
    PROVE  Owed(heap, heap') /\ Blank(heap')
  <1>1. PICK a \in Accessible(heap) \ (Context \cup {specialObjectsOop}),
             b \in Accessible(heap) \ (Context \cup {specialObjectsOop}),
             arraysYoung \in BOOLEAN, Noted \in SUBSET heap.old :
           become(heap, a, b, arraysYoung, Noted)
    BY DEF PrimitiveBecome
  <1> DEFINE Visited == BecomeRange(heap, a, b, arraysYoung)
             fields == Swapped(heap.fields, Visited, a, b)
  <1>2. /\ heap \in HeapType /\ a \in Object /\ b \in Object
        /\ Visited \subseteq Live(heap)
    BY <1>1, AccessibleLive, LiveObjects
       DEF BecomeRange, Live, Safe, Sound, Core, Typed
  <1>3. /\ Live(heap') = Live(heap) /\ (heap').fields = fields
    BY <1>1, <1>2 DEF become, HeapType, Live
  <1> HIDE DEF Visited
  <1>4. \A o \in Object \ Visited : fields[o] = heap.fields[o]
    BY DEF Swapped
  <1> HIDE DEF fields
  <1>5. QED
    BY <1>2, <1>3, <1>4 DEF Owed, Blank

\* While there is room in the root table, the objects become: does not visit
\* refer to neither object: old ones that might are recorded.
LEMMA PrimitiveBecomeView ==
    ASSUME ~BecomeWithFullTable, Safe(heap), Blank(heap), PrimitiveBecome
    PROVE  Abstract!Become
  <1>1. PICK a \in Accessible(heap) \ (Context \cup {specialObjectsOop}),
             b \in Accessible(heap) \ (Context \cup {specialObjectsOop}),
             arraysYoung \in BOOLEAN, Noted \in SUBSET heap.old :
           a # b /\ become(heap, a, b, arraysYoung, Noted)
    BY DEF PrimitiveBecome
  <1> DEFINE Visited == BecomeRange(heap, a, b, arraysYoung)
             fields == Swapped(heap.fields, Visited, a, b)
             Swap(v) == CASE v = a -> b [] v = b -> a [] OTHER -> v
  <1>2. /\ heap \in HeapType
        /\ a \in InView(heap) /\ b \in InView(heap)
        /\ a \in Live(heap) /\ b \in Live(heap)
        /\ a # nilObj /\ b # nilObj
        /\ heap.rootTableCount # RootTableSize
    BY <1>1, AccessibleLive, AccessibleSeen, LiveObjects, NilAssumption,
       LimitsAssumption
       DEF PrimitiveBecome, Safe, Sound, Core, Typed, HeapType
  <1>3. /\ Live(heap') = Live(heap) /\ (heap').fields = fields
        /\ (heap').activeContext = heap.activeContext
        /\ (heap').theHomeContext = heap.theHomeContext
    BY <1>1, <1>2 DEF become, HeapType, Live
  <1>4. ASSUME NEW o \in Object \ Visited, NEW s \in Slot
        PROVE  heap.fields[o][s] \notin {a, b}
    <2>1. CASE o \notin Live(heap)
      BY <1>2, <2>1 DEF Blank, NoFields
    <2>2. CASE o \in Live(heap)
      <3>1. /\ {a, b} \subseteq heap.young /\ o \in heap.old
            /\ o \notin heap.rootTable
        BY <2>2 DEF BecomeRange, Live
      <3>2. ~Recorded(heap, o)
        BY <1>2, <3>1 DEF Recorded
      <3>3. QED
        BY <3>1, <3>2 DEF Safe, Sound, Core, Known
    <2>3. QED
      BY <2>1, <2>2
  <1> HIDE DEF Visited
  <1>5. fields = [o \in Object |-> [s \in Slot |-> Swap(heap.fields[o][s])]]
    <2> DEFINE all == [o \in Object |->
                         [s \in Slot |-> Swap(heap.fields[o][s])]]
    <2>1. ASSUME NEW o \in Object
          PROVE  fields[o] = all[o]
      <3>1. CASE o \in Visited
        BY <3>1 DEF Swapped
      <3>2. CASE o \notin Visited
        <4>1. fields[o] = heap.fields[o]
          BY <3>2 DEF Swapped
        <4>2. heap.fields[o] \in [Slot -> Object \cup {nilObj}]
          BY <1>2 DEF HeapType
        <4>3. \A s \in Slot : heap.fields[o][s] = Swap(heap.fields[o][s])
          BY <1>4, <3>2
        <4>4. heap.fields[o] = [s \in Slot |-> Swap(heap.fields[o][s])]
          BY <4>2, <4>3
        <4>5. QED
          BY <4>1, <4>4
      <3>3. QED
        BY <3>1, <3>2
    <2>2. fields = [o \in Object |-> fields[o]]
      BY DEF Swapped
    <2> HIDE DEF fields, all
    <2>3. QED
      BY <2>1, <2>2 DEF all
  <1>6. /\ a \in Abstract!Accessible \ (Context \cup {specialObjectsOop})
        /\ b \in Abstract!Accessible \ (Context \cup {specialObjectsOop})
        /\ Live(heap)' = Live(heap)
        /\ UNCHANGED <<heap.activeContext, heap.theHomeContext>>
    BY <1>1, <1>2, <1>3, AbstractView
  <1>7. (heap.fields)' =
            [o \in Object |-> [s \in Slot |-> Swap(heap.fields[o][s])]]
    BY <1>3, <1>5
  <1>8. QED
    BY <1>1, <1>6, <1>7, ZenonT(60) DEF Abstract!Become

\* An image has the objects it was saved with and no others.
LEMMA InitView ==
    ASSUME Init
    PROVE  Abstract!Init /\ Blank(heap)
  <1> DEFINE h == [old |-> Image, young |-> {},
                   fields |-> [o \in Object |-> NoFields],
                   rootTable |-> {}, rootTableCount |-> 0, rootBit |-> {},
                   allocationCount |-> 0, finalizationPending |-> FALSE,
                   activeContext |-> FirstContext,
                   theHomeContext |-> FirstContext,
                   freeContexts |-> {}, reclaimableContextCount |-> 0]
             k == beRootIfOld(h, FirstContext)
  <1>1. NoFields \in [Slot -> {nilObj}]
    BY DEF NoFields
  <1>2. h \in HeapType
    BY <1>1, ImageAssumption, LimitsAssumption DEF HeapType
  <1>3. Typed(h)
    BY <1>2 DEF Typed
  <1>4. Typed(k) /\ SameView(h, k)
    <2>1. FirstContext \in Object
      BY ImageAssumption
    <2> HIDE DEF h
    <2>2. Typed(k)
      BY <1>3, <2>1, BeRootIfOld
    <2>3. SameView(h, k)
      BY <1>2, ViewOfRoots
    <2>4. QED
      BY <2>2, <2>3
  <1>5. /\ Live(k) = Image /\ k.fields = [o \in Object |-> NoFields]
        /\ k.activeContext = FirstContext /\ k.theHomeContext = FirstContext
    BY <1>4 DEF SameView, Live
  <1>6. heap = [k EXCEPT !.rootBit = {}]
    BY DEF Init
  <1> HIDE DEF k
  <1>7. /\ Live(heap) = Image /\ heap.fields = [o \in Object |-> NoFields]
        /\ heap.activeContext = FirstContext
        /\ heap.theHomeContext = FirstContext
    BY <1>4, <1>5, <1>6 DEF Typed, HeapType, Live
  <1>8. Abstract!Init
    BY <1>7, AbstractView DEF Abstract!Init
  <1>9. Blank(heap)
    BY <1>7 DEF Blank
  <1>10. QED
    BY <1>8, <1>9

-----------------------------------------------------------------------------
(* The theorems about what the image sees.                                 *)

\* Every step is one of Heap, or becomes one where become: has room.
LEMMA StepView ==
    ASSUME ~BlockSendersRead, Safe(heap), Blank(heap), [Next]_heap
    PROVE  /\ Blank(heap')
           /\ heap' # heap => Owed(heap, heap')
           /\ \/ [Abstract!Next]_Abstract!heapVars
              \/ PrimitiveBecome
  <1>1. CASE StorePointer
    BY <1>1, StorePointerView DEF Abstract!Next
  <1>2. CASE StoreUnchecked
    BY <1>2, StoreUncheckedView DEF Abstract!Next
  <1>3. CASE PrimitiveNew
    BY <1>3, PrimitiveNewView DEF Abstract!Next
  <1>4. CASE PushThisContext
    BY <1>4, PushThisContextView DEF Abstract!Next
  <1>5. CASE PrimitiveBlockCopy
    BY <1>5, PrimitiveBlockCopyView DEF Abstract!Next
  <1>6. CASE ActivateNewMethod
    BY <1>6, ActivateNewMethodView DEF Abstract!Next
  <1>7. CASE PrimitiveValue
    BY <1>7, PrimitiveValueView DEF Abstract!Next
  <1>8. CASE CommonReturn
    BY <1>8, CommonReturnView DEF Abstract!Next
  <1>9. CASE PrimitiveBecome
    BY <1>9, BecomeOwed
  <1>10. CASE PrimitiveIncrementalGC \/ PrimitiveFullGC
    BY <1>10, CollectionsView DEF Abstract!Next
  <1>11. CASE SignalFinalization
    BY <1>11, SignalFinalizationView
  <1>12. CASE UNCHANGED heap
    BY <1>12 DEF Abstract!heapVars, Live
  <1>13. QED
    BY <1>1, <1>2, <1>3, <1>4, <1>5, <1>6, <1>7, <1>8, <1>9, <1>10, <1>11,
       <1>12 DEF Next

\* An identity that is free stays blank: the second inductive invariant.
LEMMA BlankAlways ==
    ~BlockSendersRead => (Spec => [](Safe(heap) /\ Blank(heap)))
  <1> SUFFICES ASSUME ~BlockSendersRead
               PROVE  Spec => [](Safe(heap) /\ Blank(heap))
    OBVIOUS
  <1>1. Init => Blank(heap)
    BY InitView
  <1>2. Safe(heap) /\ Blank(heap) /\ [Next]_heap => Blank(heap)'
    BY StepView DEF Blank, Live
  <1>3. Spec => []Safe(heap)
    BY MemorySafe
  <1>4. QED
    BY <1>1, <1>2, <1>3, PTL DEF Spec

\* No weak reference is lost in silence: a collection that frees what a weak
\* field of a surviving object names leaves the finalization semaphore owed
\* a signal (finalizeReference), whichever operation it happened in.
THEOREM FinalizationSignalled ==
    ~BlockSendersRead => (Spec => FinalizationOwed)
  <1> SUFFICES ASSUME ~BlockSendersRead
               PROVE  Spec => FinalizationOwed
    OBVIOUS
  <1> DEFINE Silent ==
                \E o \in Live(heap) \cap Live(heap)', s \in WeakSlots :
                    /\ heap.fields[o][s] \in Live(heap) \ Live(heap)'
                    /\ heap'.fields[o][s] = nilObj
  <1>1. Safe(heap) /\ Blank(heap) /\ [Next]_heap =>
            [Silent => heap'.finalizationPending]_heap
    BY StepView DEF Owed, Live
  <1>2. QED
    BY <1>1, BlankAlways, PTL DEF Spec, FinalizationOwed

\* The running image sees a memory without generations, root table, free
\* contexts or collector, from which only what it cannot reach disappears:
\* every operation, with whatever collecting it does, is a step of Heap.  Of
\* what it can reach, weak references of objects to themselves may go: they
\* are emptied by the sweep.  Left out are become: while the root table is full, which overlooks
\* references, and reading the sender of a running block.
THEOREM ImplementsHeap ==
    ~BlockSendersRead /\ ~BecomeWithFullTable => (Spec => Implements)
  <1> SUFFICES ASSUME ~BlockSendersRead, ~BecomeWithFullTable
               PROVE  Spec => Implements
    OBVIOUS
  <1>1. Init => Abstract!Init
    BY InitView
  <1>2. Safe(heap) /\ Blank(heap) /\ [Next]_heap =>
            [Abstract!Next]_Abstract!heapVars
    BY StepView, PrimitiveBecomeView DEF Abstract!Next
  <1>3. QED
    BY <1>1, <1>2, BlankAlways, PTL DEF Spec, Implements, Abstract!Spec

\* become: overlooks no reference to either object, though it does not visit
\* every old one: those that refer to a young object are in the root table.
THEOREM BecomeSwapsReferences ==
    ~BlockSendersRead /\ ~BecomeWithFullTable => (Spec => ReferencesSwapped)
  <1> SUFFICES ASSUME ~BlockSendersRead, ~BecomeWithFullTable
               PROVE  Spec => ReferencesSwapped
    OBVIOUS
  <1>1. Safe(heap) /\ Blank(heap) =>
            [PrimitiveBecome => Abstract!Become \/ Abstract!Store]_heap
    BY PrimitiveBecomeView
  <1>2. QED
    BY <1>1, BlankAlways, PTL DEF ReferencesSwapped
=============================================================================
