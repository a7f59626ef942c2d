----------------------------- MODULE Forwarding -----------------------------
(***************************************************************************)
(* Forwarding blocks: how the virtual machine moves objects (compaction)   *)
(* and exchanges their identities (become:) while other words point at     *)
(* them.                                                                   *)
(*                                                                         *)
(* A forwarding block says where the object will be and keeps the header   *)
(* that the object's first word held; that word then names the block.      *)
(* Blocks live in the free space above the last object, so there are as    *)
(* many as there is room, and a compaction takes as many passes as it      *)
(* needs: get blocks for a run of objects, update every pointer, slide the *)
(* run down over the free chunk before it.                                 *)
(*                                                                         *)
(* Memory is modelled word by word; addresses count words.  A word is the  *)
(* header of an object, the header of a free chunk, the name of a block,   *)
(* or a value: an oop, or what is not one, like a small integer.  Every    *)
(* object has the one-word header.  A behaviour is one operation on one    *)
(* heap; what comes before (marking) and after it (the boundary between    *)
(* old and young, the root table) is in Marking and ObjectMemory.          *)
(***************************************************************************)
EXTENDS Integers, SequencesExt

CONSTANTS
    Null,           \* no address
    MemoryLimits,   \* the values of memoryLimit, in words
    MaxChunks,      \* the most chunks a heap has above its old object
    MaxObjects,     \* the most objects of these if become: is called
    WordSizes,      \* the values of BytesPerWord: 4 in src-32, 8 in src-64
    OneWayWordSizes \* those of them with which become: may be one-way

ASSUME MemoryAssumption ==
    /\ MemoryLimits \subseteq Nat
    /\ MaxChunks \in Nat /\ MaxObjects \in 0..MaxChunks
    /\ WordSizes \subseteq {4, 8} /\ OneWayWordSizes \subseteq {4, 8}
    /\ \A limit \in MemoryLimits : limit >= 2 * MaxChunks + 8
    /\ Null \notin Nat

VARIABLES
    BytesPerWord,       \* which never changes
    memory,             \* the words from 0 to memoryLimit
    memoryLimit,
    youngStart,         \* the boundary between old and young objects
    freeBlock,          \* the free chunk objects are allocated from
    endOfMemory,        \* where the sentinel after the last chunk is
    totalObjectCount,
    rootTable,          \* old objects that may point at young ones
    interpreterOops,    \* the interpreter's registers and the remap buffer
    methodCache,        \* the oop of the one cached method, or Null
    arrays,             \* the two arguments of become:
    fwdTableNext, fwdTableLast,
    compStart, compEnd, bytesFreed,
    sweep,              \* the local variables of sweepPhase
    oop, newOop,        \* where a walk through memory is; where it moved to
    operation, pc,
    before              \* the heap at the start, by the names of its objects

vars == <<BytesPerWord, memory, memoryLimit, youngStart, freeBlock,
          endOfMemory, totalObjectCount, rootTable, interpreterOops,
          methodCache, arrays, fwdTableNext, fwdTableLast, compStart, compEnd,
          bytesFreed, sweep, oop, newOop, operation, pc, before>>

heapVars == <<memory, freeBlock, endOfMemory>>
pointerVars == <<rootTable, interpreterOops, methodCache, arrays>>
tableVars == <<fwdTableNext, fwdTableLast>>
compVars == <<compStart, compEnd, bytesFreed>>
fixedVars == <<BytesPerWord, memoryLimit, operation, before>>
-----------------------------------------------------------------------------
(* Words and chunks.                                                       *)

FreeChunk(size) == [type |-> "free", size |-> size]
ObjectHeader(name, size) ==
    [type |-> "object", size |-> size, mark |-> FALSE, hash |-> name,
     name |-> name]
Forwarded(block) == [type |-> "forwarded", block |-> block]
Oop(a) == [type |-> "oop", at |-> a]
NotAnOop == [type |-> "integer"]

IsFree(m, a) == m[a].type = "free"
IsForwarded(m, a) == m[a].type = "forwarded"

\* The second word of a block is the header its object had.
RealHeader(m, a) == IF IsForwarded(m, a) THEN m[m[a].block + 1] ELSE m[a]

objectAfter(m, a) == a + RealHeader(m, a).size

\* The chunks a walk from one address to another meets.
Chunks(m, from, to) ==
    LET met[a \in 0..to] ==
            IF a = to THEN {}
            ELSE {a} \cup IF objectAfter(m, a) \in (a + 1)..to
                          THEN met[objectAfter(m, a)] ELSE {}
    IN met[from]

Objects(m, from, to) == {a \in Chunks(m, from, to) : ~IsFree(m, a)}

\* One byte for each object is kept above endOfMemory, in whole words.
ReservedWords(firstFree, count) ==
    LET wanted == count \div BytesPerWord
    IN IF memoryLimit - wanted >= firstFree + 1
       THEN wanted ELSE memoryLimit - (firstFree + 1)

initializeMemoryFirstFree(m, firstFree, count) ==
    LET end == memoryLimit - ReservedWords(firstFree, count)
    IN /\ freeBlock' = firstFree
       /\ endOfMemory' = end
       /\ memory' = [m EXCEPT ![firstFree] = FreeChunk(end - firstFree),
                              ![end] = FreeChunk(1)]
-----------------------------------------------------------------------------
(* The table of forwarding blocks.  A block has two words, or four with    *)
(* the way back that the one-way become: needs.                            *)

OneWay == operation \in {"becomeForward", "becomeForwardKeepHash"}

BlockSize == IF OneWay THEN 4 ELSE 2

\* The table begins at a multiple of 8 bytes.
TableStart(end) ==
    ((((end + 1) * BytesPerWord + 7) \div 8) * 8) \div BytesPerWord

\* The table after its first blocks have been handed out.
fwdTableInit(m, used) ==
    /\ memory' = [m EXCEPT ![freeBlock] = FreeChunk(1),
                           ![freeBlock + 1] = FreeChunk(1)]
    /\ endOfMemory' = freeBlock + 1
    /\ fwdTableNext' = TableStart(freeBlock + 1) + BlockSize * used
    /\ fwdTableLast' = memoryLimit - BlockSize
    /\ UNCHANGED freeBlock

EntriesAvailable ==
    (memoryLimit - BlockSize - TableStart(freeBlock + 1)) \div BlockSize

\* Mutant: the last block is not used.
IsBlock_NotLast(block) == block < fwdTableLast

\* The next block, which there may not be room for.
NextBlock == fwdTableNext + BlockSize
IsBlock(block) == block <= fwdTableLast

initForwardBlock(m, block, from, to) ==
    [m EXCEPT ![block] = Oop(to), ![block + 1] = m[from],
              ![from] = Forwarded(block)]

remap(a) ==
    IF IsForwarded(memory, a) THEN memory[memory[a].block].at ELSE a

remapField(word) == IF word.type = "oop" THEN Oop(remap(word.at)) ELSE word

\* The words of m with the fields of these objects updated.
RemapFields(m, objects) ==
    LET fields == UNION {(a + 1)..(objectAfter(memory, a) - 1) : a \in objects}
    IN [x \in DOMAIN m |-> IF x \in fields THEN remapField(m[x]) ELSE m[x]]

\* Mutant: every root, also those the walk comes to.
RootsOutside_All(memStart, memEnd) == rootTable

\* Roots the walk through the range does not come to.
RootsOutside(memStart, memEnd) ==
    {a \in rootTable : a < memStart \/ a >= memEnd}

flushMethodCache(memStart, memEnd) ==
    IF methodCache # Null /\ methodCache >= memStart /\ methodCache < memEnd
    THEN Null ELSE methodCache

mapPointersInObjects(memStart, memEnd) ==
    /\ interpreterOops' =
           [i \in DOMAIN interpreterOops |-> remap(interpreterOops[i])]
    /\ methodCache' = flushMethodCache(memStart, memEnd)
    /\ arrays' = [n \in DOMAIN arrays |->
                     [i \in DOMAIN arrays[n] |-> remap(arrays[n][i])]]
    /\ memory' = RemapFields(
                     RemapFields(memory, RootsOutside(memStart, memEnd)),
                     Objects(memory, memStart, memEnd))
    /\ UNCHANGED rootTable
-----------------------------------------------------------------------------
(* Sweeping: what is not marked becomes free, and the compaction is told   *)
(* where to begin.                                                         *)

NoSweep == [entriesAvailable |-> 0, firstFree |-> Null, freeChunk |-> Null,
            freeChunkSize |-> 0, survivors |-> 0]

\* The interpreter's oops name every object that is alive.
MarkedHeap(from) ==
    [x \in DOMAIN memory |->
        IF x >= from /\ \E i \in DOMAIN interpreterOops :
                            interpreterOops[i] = x
        THEN [memory[x] EXCEPT !.mark = TRUE] ELSE memory[x]]

\* fullGC takes all of memory to be young and forgets the roots.
markPhase ==
    /\ pc = "mark"
    /\ youngStart' = IF operation = "full" THEN 0 ELSE youngStart
    /\ rootTable' = IF operation = "full" THEN {} ELSE rootTable
    /\ fwdTableInit(MarkedHeap(youngStart'), 0)
    /\ sweep' = [NoSweep EXCEPT !.entriesAvailable = EntriesAvailable]
    /\ oop' = youngStart'
    /\ pc' = "sweep"
    /\ UNCHANGED <<fixedVars, totalObjectCount, interpreterOops, methodCache,
                   arrays, compVars, newOop>>

\* The free chunk the sweep was gathering is complete.
CloseChunk(m) ==
    IF sweep.freeChunk = Null THEN m
    ELSE [m EXCEPT ![sweep.freeChunk] = FreeChunk(sweep.freeChunkSize)]

SweepDead ==
    /\ memory' = [memory EXCEPT ![oop] = FreeChunk(0)]
    /\ sweep' = [sweep EXCEPT
                    !.freeChunk = IF @ = Null THEN oop ELSE @,
                    !.freeChunkSize = @ + memory[oop].size,
                    !.firstFree = IF @ = Null THEN oop ELSE @]

\* Mutant: the compaction begins at the first free chunk.
FirstFreeBefore_First(object) == sweep.firstFree

\* With every block spoken for, the compaction cannot begin before the last
\* free chunk.
FirstFreeBefore(object) ==
    IF sweep.entriesAvailable > 0 THEN sweep.firstFree ELSE sweep.freeChunk

SweepLive ==
    /\ memory' = CloseChunk([memory EXCEPT ![oop].mark = FALSE])
    /\ sweep' = [entriesAvailable |-> Max({sweep.entriesAvailable - 1, 0}),
                 firstFree |-> FirstFreeBefore(oop),
                 freeChunk |-> Null, freeChunkSize |-> 0,
                 survivors |-> sweep.survivors + 1]

SweepChunk ==
    /\ pc = "sweep" /\ oop < endOfMemory
    /\ IF IsFree(memory, oop) \/ ~memory[oop].mark
       THEN SweepDead ELSE SweepLive
    /\ oop' = objectAfter(memory, oop)
    /\ UNCHANGED <<fixedVars, pointerVars, tableVars, compVars, youngStart,
                   freeBlock, endOfMemory, totalObjectCount, newOop, pc>>

lowestFreeAfter(m, chunk) ==
    LET free == {a \in Chunks(m, chunk, endOfMemory) : IsFree(m, a)}
    IN IF free = {} THEN endOfMemory ELSE Min(free)

\* A full compaction begins at the lowest free chunk, an incremental one
\* where the sweep said.
SweepEnd ==
    LET swept == CloseChunk(memory)
        start == IF operation = "full" THEN lowestFreeAfter(swept, 0)
                                       ELSE sweep.firstFree
        count == IF operation = "full" THEN sweep.survivors
                                       ELSE totalObjectCount
    IN /\ pc = "sweep" /\ oop = endOfMemory
       /\ totalObjectCount' = count
       /\ compStart' = start
       /\ IF start = freeBlock
          THEN /\ initializeMemoryFirstFree(swept, freeBlock, count)
               /\ pc' = "done"
          ELSE /\ memory' = swept
               /\ pc' = "compact"
               /\ UNCHANGED <<freeBlock, endOfMemory>>
       /\ UNCHANGED <<fixedVars, pointerVars, tableVars, youngStart, compEnd,
                      bytesFreed, sweep, oop, newOop>>
-----------------------------------------------------------------------------
(* One pass of a compaction (incCompBody): forward, map, move.             *)

incCompBody ==
    /\ pc = "compact"
    /\ fwdTableInit(memory, 0)
    /\ bytesFreed' = 0 /\ oop' = compStart
    /\ pc' = "forward"
    /\ UNCHANGED <<fixedVars, pointerVars, youngStart, totalObjectCount,
                   compStart, compEnd, sweep, newOop>>

ForwardFree ==
    /\ IsFree(memory, oop)
    /\ bytesFreed' = bytesFreed + memory[oop].size
    /\ oop' = objectAfter(memory, oop)
    /\ UNCHANGED <<memory, fwdTableNext, compEnd, pc>>

ForwardObject ==
    /\ ~IsFree(memory, oop) /\ IsBlock(NextBlock)
    /\ fwdTableNext' = NextBlock
    /\ memory' = initForwardBlock(memory, NextBlock, oop, oop - bytesFreed)
    /\ oop' = objectAfter(memory, oop)
    /\ UNCHANGED <<bytesFreed, compEnd, pc>>

\* The blocks are used up: the pass ends below this object.
ForwardExhausted ==
    /\ ~IsFree(memory, oop) /\ ~IsBlock(NextBlock)
    /\ fwdTableNext' = NextBlock
    /\ compEnd' = oop
    /\ pc' = "map"
    /\ UNCHANGED <<memory, bytesFreed, oop>>

ForwardEnd ==
    /\ oop >= endOfMemory
    /\ compEnd' = endOfMemory
    /\ pc' = "map"
    /\ UNCHANGED <<memory, fwdTableNext, bytesFreed, oop>>

incCompMakeFwd ==
    /\ pc = "forward"
    /\ \/ oop < endOfMemory
          /\ (ForwardFree \/ ForwardObject \/ ForwardExhausted)
       \/ ForwardEnd
    /\ UNCHANGED <<fixedVars, pointerVars, fwdTableLast, youngStart,
                   freeBlock, endOfMemory, totalObjectCount, compStart,
                   sweep, newOop>>

MapCompaction ==
    /\ pc = "map"
    /\ mapPointersInObjects(youngStart, endOfMemory)
    /\ oop' = compStart /\ newOop' = Null
    /\ pc' = "move"
    /\ UNCHANGED <<fixedVars, tableVars, compVars, youngStart, freeBlock,
                   endOfMemory, totalObjectCount, sweep>>

\* The object's words slide down, with its own header in front.
Moved(m, from, to) ==
    LET header == RealHeader(m, from)
    IN [x \in DOMAIN m |->
           IF x = to THEN header
           ELSE IF x > to /\ x < to + header.size THEN m[x + (from - to)]
           ELSE IF x = from THEN header
           ELSE m[x]]

MoveChunk ==
    /\ pc = "move" /\ oop < compEnd
    /\ IF IsFree(memory, oop)
       THEN UNCHANGED <<memory, newOop>>
       ELSE /\ newOop' = remap(oop)
            /\ memory' = Moved(memory, oop, newOop')
    /\ oop' = objectAfter(memory, oop)
    /\ UNCHANGED <<fixedVars, pointerVars, tableVars, compVars, youngStart,
                   freeBlock, endOfMemory, totalObjectCount, sweep, pc>>

\* The chunk the pass has freed, which holds all the words it has freed.
NewFreeChunk ==
    IF newOop # Null THEN objectAfter(memory, newOop)
    ELSE IF IsFree(memory, compStart)
            /\ objectAfter(memory, compStart) = compEnd
    THEN compStart ELSE freeBlock

\* Only a chunk that reaches the end of memory is the new free block; a full
\* compaction goes on from any other.
MoveEnd ==
    LET chunk == NewFreeChunk
        m == IF newOop = Null THEN memory
             ELSE [memory EXCEPT ![chunk] = FreeChunk(bytesFreed)]
    IN /\ pc = "move" /\ oop >= compEnd
       /\ initializeMemoryFirstFree(
              m, IF objectAfter(m, chunk) = endOfMemory
                 THEN chunk ELSE freeBlock, totalObjectCount)
       /\ compStart' = IF operation = "full" THEN chunk ELSE compStart
       /\ pc' = IF operation = "full" /\ chunk < freeBlock'
                THEN "compact" ELSE "done"
       /\ UNCHANGED <<fixedVars, pointerVars, tableVars, youngStart,
                      totalObjectCount, compEnd, bytesFreed, sweep, oop,
                      newOop>>
-----------------------------------------------------------------------------
(* become:, on two arrays of as many objects.                              *)

\* An entry is an array and an index into it, for an object that gets a
\* block; its partner is the other array's object at that index.
Entry == (IF OneWay THEN {1} ELSE 1..2) \X DOMAIN arrays[1]
Member(e) == arrays[e[1]][e[2]]
Partner(e) == arrays[3 - e[1]][e[2]]

EntriesNeeded == Cardinality(Entry)

\* Blocks are handed out from the last pair to the first.
BlockOf(e) ==
    LET after == Len(arrays[1]) - e[2]
        rank == IF OneWay THEN after + 1 ELSE 2 * after + e[1]
    IN TableStart(freeBlock + 1) + BlockSize * rank

\* The words of m with these <<address, word>> pairs written.
Written(m, words) ==
    [x \in DOMAIN m |->
        IF \E w \in words : w[1] = x
        THEN (CHOOSE w \in words : w[1] = x)[2] ELSE m[x]]

\* Each header goes into its block, over which the object is forwarded.
Exchanged ==
    Written(memory, UNION {{<<Member(e), Forwarded(BlockOf(e))>>,
                            <<BlockOf(e), Oop(Partner(e))>>,
                            <<BlockOf(e) + 1, memory[Member(e)]>>}
                           \cup IF OneWay
                                THEN {<<BlockOf(e) + 2, Oop(Member(e))>>}
                                ELSE {} : e \in Entry})

\* Without enough blocks the primitive fails and has changed nothing.
TooFewEntries ==
    /\ EntriesAvailable < EntriesNeeded
    /\ initializeMemoryFirstFree(memory, freeBlock, totalObjectCount)
    /\ pc' = "failed"
    /\ UNCHANGED tableVars

prepareForwardingTableForBecoming ==
    /\ pc = "prepare"
    /\ \/ TooFewEntries
       \/ /\ EntriesAvailable >= EntriesNeeded
          /\ fwdTableInit(Exchanged, EntriesNeeded)
          /\ pc' = "exchange"
    /\ UNCHANGED <<fixedVars, pointerVars, compVars, youngStart,
                   totalObjectCount, sweep, oop, newOop>>

allYoung ==
    \A n \in 1..2 : \A i \in DOMAIN arrays[n] : arrays[n][i] >= youngStart

\* The first block, 16 bytes after the start of the table.
FirstBlock == TableStart(endOfMemory) + 16 \div BytesPerWord

\* If the arrays themselves are old, all of memory is mapped.
MapExchange ==
    /\ pc = "exchange"
    /\ \E memStart \in {0} \cup IF allYoung THEN {youngStart} ELSE {} :
          mapPointersInObjects(memStart, endOfMemory)
    /\ oop' = FirstBlock
    /\ pc' = "restore"
    /\ UNCHANGED <<fixedVars, tableVars, compVars, youngStart, freeBlock,
                   endOfMemory, totalObjectCount, sweep, newOop>>

\* Mutant: the identity hash stays with the object.
RestoredHeader_OwnHash(e) == RealHeader(memory, Member(e))

\* Each object gets its header back, with the hash of the object it was
\* exchanged with: the identity hash goes with the references.
RestoredHeader(e) ==
    [RealHeader(memory, Member(e)) EXCEPT
        !.hash = RealHeader(memory, Partner(e)).hash]

restoreHeadersAfterBecoming ==
    /\ pc = "restore" /\ ~OneWay
    /\ initializeMemoryFirstFree(
           Written(memory, {<<Member(e), RestoredHeader(e)>> : e \in Entry}),
           freeBlock, totalObjectCount)
    /\ pc' = "done"
    /\ UNCHANGED <<fixedVars, pointerVars, tableVars, compVars, youngStart,
                   totalObjectCount, sweep, oop, newOop>>

\* Where an oop leads, and what is no oop leads nowhere in this memory.
Target(word) == IF word.type = "oop" THEN word.at ELSE Null

\* What the code takes for a block at this address: its third word is the way
\* back to the object.  The header of one that has no block is, at best, left
\* as it was; the hash goes to the object that replaces it.
BlockRestored(m, block) ==
    LET object == Target(m[block + 2])
        other == Target(m[block])
        header == RealHeader(m, object)
        restored == [m EXCEPT ![object] = header]
    IN IF object = Null THEN m
       ELSE IF operation = "becomeForwardKeepHash" \/ other = Null
       THEN restored ELSE [restored EXCEPT ![other].hash = header.hash]

\* Nothing refers to the objects any more, the arrays neither: the blocks say
\* which they are.
RestoreBlock ==
    /\ pc = "restore" /\ OneWay /\ oop <= fwdTableNext
    /\ memory' = BlockRestored(memory, oop)
    /\ oop' = oop + BlockSize
    /\ UNCHANGED <<fixedVars, freeBlock, endOfMemory, pointerVars, tableVars,
                   compVars, youngStart, totalObjectCount, sweep, newOop, pc>>

restoreHeadersAfterForwardBecome ==
    /\ pc = "restore" /\ OneWay /\ oop > fwdTableNext
    /\ initializeMemoryFirstFree(memory, freeBlock, totalObjectCount)
    /\ pc' = "done"
    /\ UNCHANGED <<fixedVars, pointerVars, tableVars, compVars, youngStart,
                   totalObjectCount, sweep, oop, newOop>>
-----------------------------------------------------------------------------
(* The heaps an operation may find: an old object of two words, then up to *)
(* MaxChunks chunks, then the free block.                                  *)

\* What a chunk is, and its words.
Chunk == {[kind |-> "live", size |-> 1], [kind |-> "live", size |-> 2],
          [kind |-> "garbage", size |-> 1], [kind |-> "free", size |-> 2]}

Layouts == UNION {[1..n -> Chunk] : n \in 1..MaxChunks}

\* Where the chunks of a layout begin; the old object, 0, is at 0.
Starts(layout) ==
    LET start[i \in 1..(Len(layout) + 1)] ==
            IF i = 1 THEN 2 ELSE start[i - 1] + layout[i - 1].size
    IN start

LiveChunks(layout) == {i \in DOMAIN layout : layout[i].kind = "live"}

\* The objects of two words all point at one object, the target.
HeapOf(layout, limit, target) ==
    LET start == Starts(layout)
        end == start[Len(layout) + 1]
        pointer == Oop(IF target = 0 THEN 0 ELSE start[target])
        At(x) == CHOOSE i \in DOMAIN layout :
                     start[i] <= x /\ x < start[i + 1]
        Word(x, i) == IF x > start[i] THEN pointer
                      ELSE IF layout[i].kind = "free"
                      THEN FreeChunk(layout[i].size)
                      ELSE ObjectHeader(i, layout[i].size)
    IN [x \in 0..limit |->
           CASE x = 0 -> ObjectHeader(0, 2)
             [] x = 1 -> pointer
             [] x > 1 /\ x < end -> Word(x, At(x))
             [] x = end -> FreeChunk(limit - end)
             [] x = limit -> FreeChunk(1)
             [] OTHER -> NotAnOop]

Collections == {"full", "incremental"}
OneWays == {"becomeForward", "becomeForwardKeepHash"}

\* The pairs of names become: is given; a collection is given none.
Exchanges(op, names) ==
    LET pair == {e \in names \X names :
                    IF op \in OneWays THEN e[1] # e[2] ELSE e[1] < e[2]}
    IN IF op \in Collections THEN {<<>>}
       ELSE {<<e>> : e \in pair} \cup {<<e, f>> : e, f \in pair}

\* No object is in the arrays twice, but one may replace several.
Distinct(op, pairs) ==
    LET Names(n) == {pairs[i][n] : i \in DOMAIN pairs}
    IN /\ Cardinality(Names(1)) = Len(pairs)
       /\ op \notin OneWays => Cardinality(Names(2)) = Len(pairs)
       /\ Names(1) \cap Names(2) = {}

Init ==
    \E op \in Collections \cup {"become"} \cup OneWays, layout \in Layouts,
       limit \in MemoryLimits :
       LET start == Starts(layout)
           live == LiveChunks(layout)
           names == live \cup {0}
           Address(name) == IF name = 0 THEN 0 ELSE start[name]
       IN \E target \in names, pairs \in Exchanges(op, names) :
             /\ op \notin Collections =>
                    /\ live = DOMAIN layout /\ Len(layout) <= MaxObjects
                    /\ Distinct(op, pairs)
             /\ operation = op
             /\ BytesPerWord \in IF op \in OneWays THEN OneWayWordSizes
                                                   ELSE WordSizes
             /\ memoryLimit = limit
             /\ memory = HeapOf(layout, limit, target)
             /\ youngStart = 2
             /\ freeBlock = start[Len(layout) + 1]
             /\ endOfMemory = limit
             /\ totalObjectCount = Cardinality(names)
             /\ rootTable = {0}
             /\ interpreterOops =
                    [i \in 1..Cardinality(names) |->
                        Address(SetToSeq(names)[i])]
             /\ methodCache = Address(target)
             /\ arrays = [n \in 1..2 |->
                             [i \in DOMAIN pairs |-> Address(pairs[i][n])]]
             /\ before = [live |-> names, target |-> target, pairs |-> pairs]
             /\ pc = IF op \in Collections THEN "mark" ELSE "prepare"
    /\ fwdTableNext = 0 /\ fwdTableLast = 0
    /\ compStart = 0 /\ compEnd = 0 /\ bytesFreed = 0
    /\ sweep = NoSweep /\ oop = 0 /\ newOop = Null

Next ==
    \/ markPhase \/ SweepChunk \/ SweepEnd
    \/ incCompBody \/ incCompMakeFwd \/ MapCompaction
    \/ MoveChunk \/ MoveEnd
    \/ prepareForwardingTableForBecoming \/ MapExchange
    \/ restoreHeadersAfterBecoming
    \/ RestoreBlock \/ restoreHeadersAfterForwardBecome

\* The interpreter does nothing else until the operation has ended.
Spec == Init /\ [][Next]_vars /\ WF_vars(Next)
-----------------------------------------------------------------------------
(* Properties.                                                             *)

Ended == pc \in {"done", "failed"}

NameAt(a) == memory[a].name

\* The objects that take the place of this one.
Replacing(name) ==
    LET pairs == before.pairs
    IN {pairs[i][2] : i \in {j \in DOMAIN pairs : pairs[j][1] = name}}
       \cup IF OneWay THEN {}
            ELSE {pairs[i][1] : i \in {j \in DOMAIN pairs :
                                           pairs[j][2] = name}}

\* The object that references to this one should name in the end.
Becomes(name) ==
    IF pc = "failed" \/ Replacing(name) = {} THEN name
    ELSE CHOOSE other \in Replacing(name) : TRUE

\* The hash that this object should have in the end, one of these: that of an
\* object it takes the place of.
Hashes(name) ==
    LET replaced == {other \in before.live \ {name} : Becomes(other) = name}
    IN IF replaced = {} \/ operation = "becomeForwardKeepHash"
       THEN {name} ELSE replaced

\* When an operation has ended, every field, register and remapped oop names
\* the object it named before, or the one that object was exchanged with; a
\* method cache entry that is still there too.  A pointer updated twice, not
\* at all, or from a block of an earlier pass would name another.
ReferencesRight ==
    Ended =>
        /\ \A a \in Objects(memory, 0, endOfMemory) :
               memory[a].size = 2 =>
                   NameAt(memory[a + 1].at) = Becomes(before.target)
        /\ [i \in DOMAIN interpreterOops |-> NameAt(interpreterOops[i])]
               = [i \in DOMAIN SetToSeq(before.live) |->
                     Becomes(SetToSeq(before.live)[i])]
        /\ methodCache # Null => NameAt(methodCache) = Becomes(before.target)

\* No object that is alive is lost, copied or put out of order, whatever
\* passes moved it; each has its own header back, unmarked, and the identity
\* hash stays with the references.
ObjectsKept ==
    Ended =>
        LET objects == Objects(memory, 0, endOfMemory)
        IN /\ \A a \in objects : ~IsForwarded(memory, a)
           /\ {memory[a].name : a \in objects} = before.live
           /\ \A a, b \in objects : a < b => memory[a].name < memory[b].name
           /\ \A a \in objects :
                  /\ ~memory[a].mark
                  /\ memory[a].hash \in Hashes(memory[a].name)

\* In every pass and at the end a walk through memory meets the end of
\* memory exactly.  At the end the free block is the last chunk; a full
\* compaction leaves no other free chunk, and an incremental one none above
\* where the sweep told it to begin: its one pass reaches the end of memory.
FreeBlockLast ==
    /\ Ended \/ pc = "forward" =>
           objectAfter(memory, Max(Chunks(memory, 0, endOfMemory)))
               = endOfMemory
    /\ Ended =>
           LET free == {a \in Chunks(memory, 0, endOfMemory) :
                           IsFree(memory, a)}
           IN /\ freeBlock = Max(Chunks(memory, 0, endOfMemory))
              /\ freeBlock \in free
              /\ operation = "full" => free = {freeBlock}
              /\ operation = "incremental" =>
                     \A a \in free \ {freeBlock} : a < compStart

\* A full compaction ends, however few blocks a pass has.
CompactionEnds == <>Ended
=============================================================================
