# TLA+ models of the 64-bit Squeak virtual machine

The repository holds Squeak's virtual machine: the interpreter translated to C
(`src-64/vm/interp.c`, `src-32/vm/interp.c`), the support code for Unix
(`platforms/unix`), and the plugins, of which some are generated
(`src-*/vm/intplugins`) and some written by hand (`platforms/*/plugins`). This
directory models the parts whose correctness depends on the order of events and
not on one computation: who runs, which signals arrive, what the collector may
free. Paths below are relative to the directory `src` of the project; line
numbers without a file are lines of `src-64/vm/interp.c`.

- [1. Inventory](#1-inventory): the parts, their state, how they interact
- [2. Plan](#2-plan): the modules, in order, and what is still to come
- [3. Modules and code](#3-modules-and-code): what corresponds to what
- [4. Runs](#4-runs): what TLC checks, the bounds, the fairness
- [5. Proofs](#5-proofs): what TLAPS proves, and along which argument
- [6. Disagreements found](#6-disagreements-found)
- [7. Limits](#7-limits): what is only model-checked, abstracted or left out

Run a check with `tlc -config <file>.cfg <module>`, a proof with
`tlapm <module>_proofs.tla`. `PROJECT.json` lists the runs, the lines each
definition models, the hazards and the theorems.

## 1. Inventory

### The interpreter

| Part | State | Operations | What makes it correct |
|---|---|---|---|
| Process scheduler | `activeProcess`, the ready lists of Processor, each semaphore's list and `excessSignals`, the links of the processes, the context registers | `primitiveSignal/Wait/Resume/Suspend/Yield`, `synchronousSignal`, `resume`, `transferTo`, `wakeHighestPriority` | a process is in one place; the highest priority runs; lists are FIFO; no signal is lost; a process continues where it was |
| Interrupt check | `interruptCheckCounter`, `nextWakeupTick`, `lastTick`, `interruptPending`, `signalLowSpace`, `pendingFinalizationSignals`, the two buffers of semaphore indices | `checkForInterrupts`, `quickCheckForInterrupts` (in every send and backward jump), `signalSemaphoreWithIndex` (from anywhere) | each request is signalled, once, soon, and never early |
| Object memory | `youngStart`, `freeBlock`, `endOfMemory`, the root table, `allocationCount`, header bits (mark, root), the remap buffer | `allocateChunk`, stores, `incrementalGC`, `fullGC`, weak references, `become:` | nothing in use is freed; everything that refers to a young object is known; the collector is invisible |
| Compaction and forwarding | `compStart`, `compEnd`, the forwarding table above `endOfMemory`, forwarded headers | `incCompBody`, `mapPointersInObjects`, `becomewithtwoWaycopyHash` | every pointer is updated once, every header restored |
| Contexts and sends | `activeContext`, `theHomeContext`, `freeContexts`, `freeLargeContexts`, `reclaimableContextCount`, method and at caches | sends, block activation, `thisContext`, returns, `commonSend`, cache flushes | current contexts are recorded, recycled contexts are unreferenced, caches are not stale |
| Image and segments | the image file, `specialObjectsOop` | load, snapshot, image segments | what is saved is what is loaded |
| Named primitives | the module list (`sqNamedPrims.c`), the external primitive table | load, unload, lookup | no function of an unloaded module is called |
| Primitives | none of their own | arithmetic, floats, strings | sequential functions |

### The Unix support code

| Part | State | Operations | What makes it correct |
|---|---|---|---|
| Main program (`vm/sqUnixMain.c`) | the clock base, the drivers chosen | `ioMSecs`, `ioRelinquishProcessorForMicroseconds` | the idle sleep ends when the next timer is due |
| Memory (`vm/sqUnixMemory.c`) | the reserved and the committed heap | grow, shrink | never beyond the reservation |
| aio (`vm/aio.c`) | descriptor masks, one-shot handlers, client data | `aioPoll`, `aioEnable/Handle/Suspend/Disable` | a ready descriptor reaches its present handler |
| Events (`vm/sqUnixEvent.c`) | the event ring, the key buffer | `recordXEvent`, `ioGetNextEvent` | order kept, the oldest dropped |
| Sockets (`SocketPlugin/sqUnixSocket.c`) | per socket: state, descriptor, error, semaphores; the session | create, listen, connect, accept, close, abort, destroy; the handlers of aio | each change of state is notified |
| Asynchronous files, serial ports, pseudo-terminals | handles and the aio registrations | open, read, write, close; the SIGCHLD handler | completion is signalled once |
| Displays and sound | windows, frame buffers, device queues | draw, play, record | I/O, mostly outside |
| Browser plugin | a pipe to the browser | stream requests | protocol order |

### How they interact

Bytecodes execute in one thread. Every send and backward jump decrements
`interruptCheckCounter`; at zero or below `checkForInterrupts` runs, polls the
I/O (`ioProcessEvents` calls `aioPoll`, which calls the plugins' handlers), and
signals semaphores through `synchronousSignal`, which may switch processes. I/O
handlers, the SIGCHLD handler and (on Mac OS X) audio threads record semaphore
indices with `signalSemaphoreWithIndex`; the object memory raises flags
(`signalLowSpace`, `pendingFinalizationSignals`) and forces a check by making the
counter negative. The idle process gives the processor up until the next wakeup
tick or an event. Any allocation may collect, which moves objects and makes
young objects old; the contexts the registers name are stored into without a
check because the collector and every context switch record them as roots.

### What is hard

Interleaving of signal handlers with the drain of the double buffer; the order
of steps inside `checkForInterrupts`; the wrap of the millisecond clock; stores
that must not miss the root table and a table that overflows silently; weak
references; process switches in the middle of a signal; state kept twice (root
bit and root table, chain and `lastLink`); handlers that close descriptors whose
numbers the kernel gives out again at once; headers that are taken away and
brought back in several passes; contexts that are used again. Section "hazards" of `PROJECT.json`
has each at its line, with the properties that watch it, or the reason why none
does yet.

## 2. Plan

Order, most important first. The first ten rows are done.

| # | Module | Composes or implements | Why |
|---|---|---|---|
| 1 | `ProcessScheduler` | abstract specification of the scheduler | everything else signals through it |
| 2 | `LinkedScheduler` | implements `ProcessScheduler` | the pointer manipulation of interp.c |
| 3 | `Interrupts` | composes `ProcessScheduler` with the check | lost, doubled and late signals |
| 4 | `ExternalSemaphores`, `WakeupTimer` | the two parts of 3 whose steps are finer than an action | statements interleaved with handlers; numbers that wrap |
| 5 | `Heap` | abstract specification of the memory | what the image relies on |
| 6 | `ObjectMemory` | implements `Heap` | the remembered set and the collector |
| 7 | `Marking` | pointer reversal computes the `Marked` of `ObjectMemory` | a non-recursive traversal that mutates what it traverses |
| 8 | `Aio`, `AsyncFiles`, `Sockets`, `AsyncIO` | `AsyncIO` composes the multiplexer with its two clients | handlers and closing in any order |
| 9 | `Forwarding` | the moving and exchanging of objects that `ObjectMemory` abstracts from | a bounded table, several passes, restored headers |
| 10 | recycling of contexts, in `ObjectMemory` and `Heap` | a return frees what a collection would have freed | reuse of something still referred to |
| 11 | `MethodCache`, `NamedPrimitives` | caches against the dictionaries and modules they stand for | stale entries |
| 12 | `EventQueue`, memory growth | small modules | limits of rings and reservations |

Every invariant and action property that a passing run checks is proved, and so are
the refinements. Still worth proving: what is left of `AsyncIO` when `close` may
fail.

## 3. Modules and code

### ProcessScheduler and LinkedScheduler

`ProcessScheduler` is what the primitives promise: `queue` maps each priority
and each semaphore to a FIFO sequence, `activeContext` and `suspendedContext`
stand for the stack a process is on. One action per primitive; the helpers
`resume`, `synchronousSignal`, `transferTo`, `wakeHighestPriority`,
`addLastLink`, `removeFirstLinkOfList` have the source's names and are composed
as the source composes them, preemption in `resume` included. `halted` is the
exit in `wakeHighestPriority` when it finds nothing to run. `activateNewMethod`
moves the active process to another of its contexts, so that a context saved too
early shows.

`LinkedScheduler` has the slots `firstLink`, `lastLink`, `nextLink`, `myList`
and the assignments of interp.c in their order. `queue` is there a history
variable that records what is linked; the refinement mapping is the identity on
it, and `WellLinked` relates it to the chain.

The primitives are called as the image's `Process` and `Semaphore` classes call
them: `primitiveResume` for a suspended process (the code does not check),
`primitiveWait` and `primitiveSuspend` never from the idle process.

### Interrupts, ExternalSemaphores, WakeupTimer

`Interrupts` extends `ProcessScheduler`. `check` is the program counter of
`checkForInterrupts`; each stage (low space, events, interrupt key, timer,
finalization, flip, drain) is one action and signals at most one semaphore.
`signalSemaphoreWithIndex` may come between any two stages; the scheduling
primitives only between checks. `owed` is a history variable. The check
interval, which the code adapts to take about a millisecond, is a constant.

`ExternalSemaphores` opens up what `Interrupts` does in one step: the increment
of the count, the write of the slot, the test, the flip, the drain and the
reset. `Handler` callers run to their end inside anything; `Polled` callers are
the interpreter's own thread; callers that are neither are threads.
`signalled` stands for the call of `synchronousSignal`.

`WakeupTimer` has real time (`now`) and the clock (`now % ClockPeriod`), the
adjustment of `nextWakeupTick` at a wrap and the idle sleep of
`sqUnixMain.c`, which computes with the tick without adjusting it.

### Heap and ObjectMemory

`Heap` is the memory as Smalltalk code sees it: objects, fields, the active
context; anything not strongly reachable may vanish in a step that allocates or
collects, and weak references to it are nil from then on. Such a step may also
empty the weak references of any object to itself (`emptied`): the
comment of `finalizeReference` does not say so, but it is what the sweep does (see
6). A context that is left by a return may vanish at once, if nothing the image can
name from then on refers to it.

`ObjectMemory` has the generations. `heap` is one record (`old`, `young`,
`fields`, `rootTable`, `rootTableCount`, `rootBit`, `allocationCount`,
`finalizationPending`, `freeContexts`, `reclaimableContextCount` and the two
registers), and the functions of the source
(`noteAsRoot`, `possibleRootStoreInto`, `beRootIfOld`, `sweepPhase`, `tenure`,
`postGCAction`, `incrementalGC`, `fullGC`, `allocateChunk`, `newActiveContext`,
`become`) are operators from a heap to a heap that are composed as the code
composes them. The actions are the operations through which the image changes
memory: a checked store, an unchecked store into the current contexts, `new`,
`thisContext`, block copy, send, `value`, return, `become:`, the two collections, the
finalization signal. An allocation nondeterministically finds its space at once,
after one more incremental collection, or after a full one.

`sweepPhase` frees what is not marked and empties, in the survivors it meets, the
weak fields that name what is freed. It takes the mark of a survivor off before it
calls `finalizeReference`, which asks for the mark of what a weak field names: so
`Cleared` also holds of a weak field that names its own object.

`Marked` is the set the mark phase marks, with the two irregularities of the
code: the objects that tracing starts from are traced in their weak fields too,
and an old object met on the way is not entered. `rootTable` is a set and
`rootTableCount` counts its entries, because an object can be entered twice: the
image loader takes the root bit of the active context off again (20829).
`BecomeWithFullTable` tells whether `become:` may run while the table is full.

Contexts are used again. Every send adds one to `reclaimableContextCount`
(`ActivateNewMethod`), `thisContext` sets it to zero (`PushThisContext`), a return
counts down once for each context it leaves and puts the young ones of methods on
the free list as long as the count lasts (`CommonReturn`), and the next send takes
one from there (`allocateOrRecycleContext`). `Reclaimable` is the test that a
context is within the count. What the image can name (`Accessible`) starts from
the special objects and what the current contexts hold, not from the active
context itself: a bytecode has no other name for it than `thisContext`. `Visible`
leaves out the sender of a running block that is within the count, unless
`BlockSendersRead`: a block is a value from its creation, and sent `sender` it
would answer a context that may still be reclaimed (see 6). The free list is a
set; which of the two sizes a context has is left to the choice between taking
one from there and `instantiate`.

### Marking

`Marking` opens up what `Marked` says in one line: `markAndTrace`, a loop of
three states (`action`) without a stack. A word of memory is a location, an
object and an offset; `memory` holds pointers, integers and the ways back that
the loop stores into fields (`enter`) and takes out again (`restoreParent`).
`headerType` has the two type bits of each header, whose value `HeaderTypeGC`
stops the scan, `lastPointerOf` how many words of an object are scanned, and
`nonWeakFieldsOf` is read through the memory as it is at that moment, because
the class word it looks at may be a way back. `graph` and `path` are history
variables: the memory before marking, and the reversed words in the order in
which they lead back to the top.

`ReachedFrom` is `Marked` of `ObjectMemory` said of words, with the same `Reached`
and the same two irregularities; what `ObjectMemory` leaves out, the class of an
object, is one more word here. `MarksReachable` has a lower and an upper bound,
which differ only when a young entry is weak. An old entry keeps what it refers
to weakly; a young one does if nothing reached it before, so that there the order
of the entries decides. Young weak entries come from the remap buffer only
(11117): such a reference may outlive one collection, and none is lost.

### Aio, AsyncFiles, Sockets, AsyncIO

`Aio` is `aio.c`: `aio` is a record of the masks, the handlers, the client data
and `maxFd`, and `aioEnable`, `aioHandle`, `aioSuspend`, `aioDisable` are
operators on it; `os` is what the kernel knows of a descriptor, whose number it
gives out again, lowest first, as soon as it is closed. `aioPoll` selects once;
`ready` is what is left to dispatch, from the lowest descriptor up, as the loop
goes. Between polls, the kernel brings data, ends of connections, out-of-band
data and room.

`AsyncFiles` is `sqUnixAsynchFile.c`: `asyncFileOpen/Close/ReadStart/WriteStart`
and the two handlers; a write goes on in as many pieces as the kernel takes.
`Sockets` is `sqUnixSocket.c`, TCP: create, listen (for one connection or
several), connect, accept, receive, send, close, abort, destroy, the status test
and the four handlers. `awaiting` is the set of semaphores that the image waits
for, by event, and `notify` signals them. A primitive runs only while no poll is
dispatching. The image calls the primitives as its class `Socket` does; the head
of `Sockets` says how. The primitives that transfer data or ask for it check only
that the handle is valid (256). `sqSocketReceiveDataAvailable` arms `dataHandler`
on whatever it is called for, and the model has it do so: on a listener
`acceptHandler` is replaced, a fresh descriptor is armed without being enabled.
Whether the image makes such calls is the constant `TransfersUnconnected`, since
its class `Socket` is not in the repository; with FALSE, `MayTransfer` has these
primitives called only on sockets that are or were connected.

`AsyncIO` composes them: `Dispatch` takes the next ready descriptor and calls the
handler that is registered at that moment, for the client data of that moment.

### Forwarding

`Forwarding` is the memory word by word. A behaviour is one operation on one heap:
it begins with a heap as the mark phase leaves it, of live, dead and free chunks in
any order, goes through `sweepPhase` (which reserves the forwarding table and counts
what fits), and then through as many passes of `incCompBody` as it takes:
`ForwardObject` gives an object its block and its new address, until the table is
full (`ForwardExhausted`), `MapCompaction` updates every pointer, `MoveChunk` slides
the objects down and brings their headers back. Or it is a `become:` (`Exchanged`,
`MapExchange`), which fails before it changes anything if the table is too small
(`TooFewEntries`). The two-way form gives both objects of a pair a block of two
words, finds them again through the arrays and exchanges their hashes
(`restoreHeadersAfterBecoming`). The one-way form gives a block to the object that
is replaced only; since the arrays no longer name that object when its header is to
come back, its block has four words, one of them the way back, and a walk of the
table brings one header back a step (`RestoreBlock`, from `FirstBlock` on, until
`restoreHeadersAfterForwardBecome` is past the last). An object may replace several.
The size of a word, `BytesPerWord`, is 8 here and 4 in `src-32/vm/interp.c`, which
has the same code; it matters where the code counts in bytes: where the table
starts, what is reserved, where the walk begins. `BlockRestored` is kind to a walk
that meets what is no block: memory stays as it is, where the code writes through an
address that means nothing. `before` is the heap at the start by the names of its
objects, which the properties compare with the end. What an operation does to
boundary and root table afterwards is in `ObjectMemory`.

Mutated forms, named `<definition>_<change>` and introduced by "Mutant:", stand
before the definitions they are variants of; no specification uses them.

## 4. Runs

| Run | Instance | What it shows |
|---|---|---|
| `scheduler` | 4 processes, 2 priorities, 2 semaphores, `excessSignals` at most 1, 2 contexts each | `InOnePlace`, `HighestPriorityRuns`, `NoWaiterWhileSignalled`, `NeverOutOfProcesses`, `OwnContext`; as action properties `ContinuationKept`, `SignalsConserved`, `NoOvertaking` |
| `linked_scheduler` | the same with 3 priorities | `WellLinked`, and `Implements`: the linked lists are the FIFO lists |
| `interrupts` | 2 processes, 2 semaphores, indices 1 and 3 (one outside the array), buffers of 2, interval 2 | `OwedIsBuffered`, `PendingForcesCheck`, `Spec` (the composition only does what the scheduler allows), `WaiterWakes`, `TimerWakes` |
| `external_handler` | two handlers, 3 calls each, buffers of 2 | `WritesInBounds`, `RecordedIsSignalled` |
| `external_nested` | a handler inside a polled call | violates `RecordedIsSignalled`, see 6 |
| `wakeup_timer` | clock period 6, delays up to 4, time to 15: two wraps | `NeverEarly`, `NeverMissed`, `NeverOversleeps` if no tick is set between a wrap and the check that sees it |
| `memory_contexts` | special objects array, a method context of the image, one more method's and a block's; red zone 1, table of 2, a collection every allocation | `TypeOK`, `ContextsRooted`, `NoDangling`, `Implements` under sends, blocks, `thisContext`, returns and recycling |
| `memory` | special objects array, a context, a weak array, a plain object; red zone 2, table of 3, collections every 2 allocations, tenuring above 1 survivor | `OldPointersKnown`, `FinalizationOwed`, `Implements` under stores, weak references, `become:` |
| `marking` | every graph of an old weak object, a young weak one and a third, each with a field or two and a class, compact or not, large or not; four lists of entries, one with a repetition, one with a young weak entry | `WayBackKept`, `MarksReachable`, `MarkingEnds` |
| `async_io` | descriptors 1 and 2, an asynchronous file with writes of up to 2 pieces, two sockets, a `close` that completes, `TransfersUnconnected` FALSE | `RightOwner`, `NoStrayCall`, `AwaitedIsArmed`, `SignalledOnce`, `TransferSignalled`, `EventTold` |
| `forwarding` | every heap of an old object and up to 4 chunks, in 16 or 20 words; a full or an incremental compaction, or a `become:` of one or two pairs of up to 4 objects, two-way or one-way, with or without the hashes; words of 4 and 8 bytes, for the one-way form of 4 | `ReferencesRight`, `ObjectsKept`, `FreeBlockLast`, `CompactionEnds` |
| `become_one_way` | the same heaps, the one-way `become:` with words of 8 bytes | violates `ObjectsKept`, see 6 |

*Bounds.* Buffers and the root table of two entries fill, overflow and are one
below full within a few steps; a red zone of one leaves a table that is beyond
its red zone and not full. Four processes on two priorities are enough for a
preemption by a third while two share a list: the invariants about lists speak
of at most two neighbours. Two contexts per process tell a right saved context
from a wrong one. Two wraps of the clock cover a tick set before the first and
due after it, and the next period. Four objects allow a chain from the roots
over an old to a young object with one more to become garbage; identities are
reused, so an object that was freed too early is soon confused with another.
With a red zone of one the recorded active context is already beyond it and every
collection tenures, which `memory_contexts` takes for the sake of a table that
overflows; in `memory`, with one more entry, survivors stay young.
For the invariants that are proved the bounds do not matter.

Three objects are every shape of a cycle that the trace can close: on itself,
through a class, through the top; one of them is the class whose number of named
fields decides what is weak in the others.

Two descriptors for three clients make the kernel give a number out again while a
poll is dispatching (accept) and make it run out of numbers; a third descriptor
exceeds the time of a run. 16 words of memory leave room for one or two
forwarding blocks after the objects, so that a compaction of three moved objects
takes several passes, and a `become:` of two pairs finds the table too small; 20
words leave room for the two blocks of four words of a one-way `become:`. That
needs `MaxObjects` = 3 objects beside the old one: two pairs are four objects, or
three of which one replaces two.

*Deadlock* is checked except in `external_handler` and `external_nested`, where
callers have a bounded number of calls and the model may come to rest, and in
`forwarding` and `become_one_way`, where a behaviour is one operation.

*Fairness.* Only where a liveness property needs it. `Interrupts`: bytecodes go
on being executed, every loop of which contains a send or a backward jump and so
counts down to a check (weak fairness of `quickCheckForInterrupts`), and a check,
which contains no wait, runs to its end (weak fairness of `checkForInterrupts`).
No fairness is assumed of the handlers, the clock or the primitives.
`ExternalSemaphores`: a call that began returns, and the interpreter goes on.
`Marking` and `Forwarding`: a loop that one thread runs without waiting for
anything goes on. `AsyncIO`: the interpreter polls again and again (at every
check for interrupts), and a poll calls every handler it has to; nothing is
assumed of the kernel, the other end or the image.

## 5. Proofs

`Interrupts_proofs`, in its first part, proves of `ProcessScheduler`, for every
finite or infinite set of processes and semaphores and every number of priorities,
each invariant of the `scheduler` run: `OnePlaceEach` (`InOnePlace`),
`PriorityScheduling` (`HighestPriorityRuns`), `NoLostWakeup`
(`NoWaiterWhileSignalled`), `AlwaysRunnable` (`NeverOutOfProcesses`), `ContextsKept`
(`OwnContext`) and `TypeCorrect`. None of them is inductive by itself: that the
highest priority runs after `wakeHighestPriority` needs that each process is linked
once and from the list of its own priority, and that a process is always found needs
that the idle process is running or ready. `IInv` is their conjunction with these
two facts; one lemma per list operation says what it leaves in each list, one lemma
per action that `IInv` is kept (`Invariance`). From it follow the three action
properties: `ContinuationsKept` (a process is resumed where it was), `SignalsKept`
(a signal wakes one process or is counted) and `FirstComeFirstServed`
(`NoOvertaking`).

`LinkedScheduler_proofs` proves, for the same constants, that the linked lists are
well formed (`ListsWellLinked`, the property `WellLinked`) and that they implement
the FIFO lists (`ImplementsScheduler`, the property `Implements`), so that all that
is proved of `ProcessScheduler` holds of the pointers of interp.c. The invariant
`LInv` says of the slots what `WellLinked` does; that no two links, of one list or
of two, lead to the same process; and that a process on no list has no `nextLink`
left over. The first two are needed to see that writing one `nextLink` changes one
list. `addLastLink` and `removeFirstLinkOfList` each have a lemma that holds in
the middle of a primitive too, where the active process is on no list and a second
one may just have been taken off. The mapping is the identity, as `queue` is a
history variable; the work is that the branches of the code, which look at
`firstLink` and compare pointers, are those of the sequences.

The second part of `Interrupts_proofs` proves, for all sizes of the buffers and any
set of indices, `IndicesSignalledOnce` (`OwedIsBuffered`), `NothingOverlooked`
(`PendingForcesCheck`), `CheckTypeCorrect`, and `ImplementsScheduler`: the
composition is a behaviour of `ProcessScheduler`, so that all theorems about the
scheduler hold of it (`SchedulingUnderInterrupts`). The invariant `CheckInv` has
three parts: the types of the registers; for each index, that what is owed is the
number of its entries in the filling buffer plus those of the leaving one not yet
drained (`Buffers`); and that a flag is up only if the counter forces a check or the
check has not passed the stage that clears it (`Pending`).

`ExternalSemaphores_proofs` proves, for every size of the buffers, any finite number
of callers and any interleaving of their statements with those of the drain,
`BoundedWrites` (`WritesInBounds`: although the count is incremented before the slot
is written), `DoubleBufferTypes`, and `NothingLost`: a call that has recorded its
index was signalled once, or its index is in just one slot that the drain will
still read. That is the safety half of `RecordedIsSignalled`. The hypothesis is
`OneKind`: all callers are handlers, which run to their end, or all are polled by
the interpreter; with both, `external_nested` refutes it. The invariant `EInv` has
`InTurn` (at most one caller is in the middle of a call, and the buffer it chose is
still the one in use), `Drain` (where the interpreter is in the loop, and that the
buffer it drains is not the one in use) and `RecordedIsKept`, which counts the
slots (`Live`) an index still waits in.

`WakeupTimer_proofs` proves, for every clock period, delay, time slice and end of
time, `TimerNeverEarly`, `TimerNeverMissed`, `TimerNeverOversleeps` (the properties
without `Timer`) and `TimerTypeCorrect`, if the image does not set the timer
between a wrap and the check that sees it (`WrapSeenFirst`; without it `NeverEarly`
is false, see 6). The invariant `TInv` ties the tick to real time: an armed tick is
`due` minus the time at which the clock period of the last check began
(`Began(checked)`). The period is not a number here, so the lemmas about `%` go by
way of multiples of the period (`NearMultiples`).

`AsyncIO_proofs` proves, for every number of descriptors, files, sockets and pieces
of a write, `OwnersRight` (`RightOwner`), `StrayCallsNever` (`NoStrayCall`),
`AwaitedArmed` (`AwaitedIsArmed`), `SignalsOnce` (`SignalledOnce`) and
`AioTypesCorrect`. The hypothesis `ClosesDone` is that `close` completes, as in the
run `async_io`; when it fails or would block, the number stays in the socket or
the handlers on a descriptor that is not enabled. The other hypothesis, again as in
the run, is `~TransfersUnconnected`; without it `OwnersRight` and `AwaitedArmed`
are false (see 6), and of the others only their proofs, which go through the same
invariant, depend on it. The invariant `AInv` says for each
state of a file or a socket what its descriptor is for the kernel, whether it is
enabled for it and which of its three handlers can be armed (`FileOK`; `Unused`,
`Listening`, `Connecting`, `Keeping`, `Transferring` for sockets); that a client
claims its own descriptor and perhaps an accepted one, which are open, not standard
input, and claimed by nobody else (`ClaimsOK`, `Apart`); that an enabled descriptor
is the one its client uses (`OwnedAt`); and that what select found is armed
(`ReadyOK`). An action touches one client, or two when an accepted connection
is handed over, and the descriptors they claim or have just opened: the lemma
`Step` reduces the whole to these. `KernelStep` is about the environment. For a
handler in the middle of a poll, `SafeCall` says when the rest of the poll stays
valid: a descriptor it opened was not enabled before, so it cannot be in the set
(`ReadyStep`), and of its own descriptor the flags that come later and were found
ready stay armed, which is why out-of-band data, the only exceptional
condition, must be known to come on connected sockets only.

`ObjectMemory_proofs` proves for every finite set of objects, every set of
fields and every setting of the limits: `TypeCorrect`, `RememberedSetComplete`
(`OldPointersKnown`), `CurrentContextsRooted` (`ContextsRooted`),
`NothingDangles` (`NoDangling`), `RedZoneCollects`
(`RedZoneForcesCollection`, that a table beyond its red zone makes the next
allocation collect; no run lists it). The inductive invariant is `Safe`
(`MemorySafe`), in three layers. `Core` holds in the middle of an operation as
well: the type, no dangling field (`Pointing`), a complete or full table (`Known`),
senders and homes that are contexts (`Linked`), and `theHomeContext` the home of
the active context (`Registers`). `Sound` adds what a collection breaks until
`postGCAction` and a context switch breaks until `newActiveContext` is through:
`Rooted` and `RedZone`. Every operator of the source gets a lemma that it keeps
`Core` or `Sound`. The heart is `SweepPhase`: if the table has not overflowed, what
an old object refers to is marked, because the old object is in the table
(`Known`), the table is where marking starts, and the marked set is closed; hence
nothing dangles. `IncrementalGC` then only has to see that an overflowed table
leads to `FullGC`. `Kept` carries across a collection what the caller of an
allocation relies on afterwards: the registers, and the strong fields of what is
live. The case of `PrimitiveValue` is why `Known` alone is not enough: it stores
the sender into a block's context that may be old, unchecked, and the block is
recorded only when it becomes active.

The third layer is about recycling: `Chain(h, c, top)` says that `top` is the
chain of senders from the active context `c` on, `reclaimableContextCount` links
long, without a repetition, that no method's context within the count is named by
any field but the sender of the one above it (`Unnamed`), and that the image
cannot reach one (`Hidden`). A send makes the chain one longer, a return drops its
first part (`ReturnedPrefix`: the contexts that are left are just that part, or
all of it), `thisContext` empties it, a block's activation shifts it without
counting, and a store only stores what can be named, which `Hidden` excludes. So
what a return recycles is referred to by nothing that stays. That the chain has no
repetition is proved by following it (`Counting`, which takes the least
counterexample). All theorems of this module have the hypothesis
`~BlockSendersRead`; without it the third layer is false, and TLC shows how.

Two more results of the module are about what the image sees. `ImplementsHeap`
says that every operation, with whatever collecting it does, is a step of `Heap`
(`Implements`), and `FinalizationSignalled` that no weak reference is emptied in
silence (`FinalizationOwed`). The refinement mapping is `Live(heap)` for `live`
and the identity for the fields and the registers; a finalization signal is a
stutter, the other operations take one step. Beside `Safe` the argument needs
`Blank`: an identity that is free has no fields left (`BlankAlways`). `Clears(h, g)`
says of a collection what `Heap` allows in any step that allocates: what went was
not held by strong references (`Held`), the fields are the old ones with nothing
naming what went and, for a set `emptied` of the objects that stay, without their
weak references to themselves (`Cut`; `Severed` says which fields these are), the
registers are the same, and a weak reference that was
cut has left a signal pending. `SweepShrinks` proves it for a sweep, with the same
argument as `SweepPhase`: the old objects and what was marked are closed under
strong references, so they contain everything held. It is transitive
(`ShrinksTransitive`), which gives the full and the incremental collection and all
that `allocateChunk` may do; and each operation has a lemma (`...View`) that it does
the abstract step on top of that. A return is the hard one: what it recycles must
be out of reach in the fields it leaves, which follows from `CommonReturnSafe`,
because the objects that remain name only each other. `Heap` lets the image name
no less than `ObjectMemory` does (`AccessibleSeen`). For `become:`
`BecomeSwapsReferences` (`ReferencesSwapped`; no run lists it) proves that the old
objects it does not visit refer to neither object, as `Known` has them in the
table; it and `ImplementsHeap` have the further hypothesis `~BecomeWithFullTable`,
without which that is false (see 6).

`Marking_proofs` proves that a pointer-reversing traversal, of any finite or
infinite memory, is right: `MemoryRestored` (`WayBackKept`), `MarkingCorrect`
(`MarksReachable`) and `TypeCorrect`; `MarkingExact` adds that without a young weak
entry the marks are exactly the reachable objects. Its invariant `Sound` has the way back
(`WayBackKept`); that no object is open twice (`OpenOnce`), which is why a word
that is reversed is not among those yet to be reversed; and the two halves of the
result. `MarkedIsReachable`: any set closed under strong references that contains
the entries contains the marked objects, because only strong words are followed
(`FollowsStrong`). `TracedOrPending`: what a marked object or an entry refers to
is marked or the loop will still come to the reference, where "still to come"
(`Pending`) is read off the way back: the words before each reversed one. When the
way back is empty nothing is pending, the marked set is closed, and it is the
least closed set. There is no induction over the graph. Termination is not proved:
on a finite memory TLC checks it (`MarkingEnds`).

`Forwarding_proofs` proves, for memories and heaps of every size, any layout of
live, dead and free chunks, any choice of references and as many passes as it
takes, `ReferencesStayRight` (`ReferencesRight`), `ObjectsAreKept` (`ObjectsKept`)
and `FreeBlockIsLastAlways` (`FreeBlockLast`), of compaction and of both forms of
`become:`. None of the three is inductive: they speak of what a walk of the memory
finds, and two of them of the end only. The invariant
`ForwardingInv` describes the heap in every state by the set `S` of the addresses
where chunks begin, their sizes, and the address `loc` of each object: `Placed`
says that the chunks lie end to end (`Tiles`) and the objects are among them, in
the order in which they were found. The words are then known: `FieldsAre` says what
each field holds, `HeadersAre` what each header is, `FreeAre` that the other
chunks are free. `CollectionInv` has one part for each phase:

- `Found`: the heap as the operation finds it. `Swept` and `Gathered`: below the
  sweep there are no two free chunks in a row, once `CloseChunk` has closed the one
  that is still growing, and the table has a block for each object from `firstFree`
  on.
- `Compacts`: a pass begins at a free chunk that an object follows. In a full
  collection every free chunk is this one or above it, so that further passes can
  close the gaps; an incremental one makes one pass, and the table has a block for
  every object above (`Passes`).
- `Forwards` and `Moves`, in a pass: where each object is going (`new`), and which
  block says so (`blk`). `Plans` says that the new addresses are those of objects
  slid down one after the other (`Slides`), so that each goes below itself and
  above the one before; `BlocksAre` that the blocks are above all chunks and no two
  objects have the same. After `MapCompaction` the fields name the new addresses,
  while the objects are moved one at a time.
- `Collected`: the end, with the free block last.

The hard lemmas are those about loops that the model writes as operators of the
whole heap. A walk of the memory is a function on addresses (`Chunks`); that there
is one, and that it finds the set `S` (`WalkExists`, `HeapWalk`), is shown with
sets closed under the walk and least counterexamples, with no induction over data.
`RemapFieldsIs` says what a pass over the fields changes. `MoveObjectSafe` is the
centre: sliding an object overwrites words of free chunks and of itself only, and
the words between what has moved and what has not are one free chunk (`SlidAs`).

For a `become:` nothing moves and `BecomeInv` says which objects have a block and
which have their header back: `Exchanging(m, S, size, loc, R, hash)` is a heap in
which the entries `R` are restored, with the hashes `Hashed(R, hash)`; the others
are `Blocked`. The two-way form restores all in a step, through arrays that now
name the partners (`Redirected`); the one-way form has restored those whose
blocks the walk has passed (`Restored`), and is itself at a block or past the last
(`AtBlock`). At the end `Ends` gives the exchange that `Becomes` asks for. The
hypothesis of the three theorems is `OneWayWordSizes \subseteq {4}`, as in the run
`forwarding`: the walk of the one-way form skips 16 bytes at the start of the
table, which is right for words of 4 bytes only. Collections and the two-way form
are proved for words of 4 and of 8 bytes. With 8 for the one-way form, the run
`become_one_way` violates `ObjectsKept`. That a compaction ends (`CompactionEnds`)
is not proved.

The assumptions are those on the constants, which TLC evaluates in the runs:
object identities are finite and do not contain nil; sender and home slots are
distinct and strong; contexts have no weak fields; the special objects array is
not a context; the image
starts with a method context and with every field nil (the states of a loaded
image with contents are reached from there by stores, sends and collections); for
`Marking`, that a weak object has a class word (one with a compact class would
have its class looked up in words that may be reversed); for
`ExternalSemaphores`, that there are finitely many callers; for `AsyncIO`, that
files, sockets and the null client data are different; for `Forwarding`, that
memory has room for the largest heap it begins with and 8 words more, that words
have 4 or 8 bytes, and that nil is no address.

## 6. Disagreements found

- *A nested `signalSemaphoreWithIndex` loses a signal* (`external_nested`). The
  count is incremented before the slot it names is computed again and written
  (21180-21186). When the SIGCHLD handler of the pseudo-terminal plugin
  interrupts a polled call between the two, both write the same slot.
- *The one-way `become:` does not restore headers on 64 bits* (`become_one_way`).
  The loop begins 16 bytes after the start of the table (2520). `fwdBlockGet`
  increments first, so that the first block of four words is 32 bytes after it,
  and the loop is off by half a block: the replaced objects stay forwarded.
  `changes/All64BitChanges.1.cs:3871-3878` says that the loop enumerates the blocks
  with the ways back, and shows the number 16 where the rest of the method was
  changed to words. With words of 4 bytes 16 is right, and `ObjectsKept` holds.

Met while modelling, without a run of their own:

- *The timer can fire early at the wrap.* `checkForInterrupts` subtracts a clock
  period from any pending tick when it sees the clock behind `lastTick` (2772),
  also from one the image computed after the wrap; the comment on 18532 promises
  that the semaphore is signalled when the clock is at or past the tick. With
  `WrapSeenFirst = FALSE` in `MCWakeupTimer.cfg` TLC finds `NeverEarly` violated.
- *A context can be recycled while something refers to it.* A method M pushes
  `thisContext`, makes a block of it and sends N with the block; N sends C with it,
  and C evaluates it. The block asks itself for its sender, which is C, stores it
  in a temporary of M and returns; the return from C then recycles C, to which M
  refers, because nothing but `thisContext` (7824) and a process switch stops the
  count. With `BlockSendersRead = TRUE`, `Object = {S, M, N, B, C}` and
  `Context = {M, N, B, C}` in `MCObjectMemoryContexts.cfg` TLC finds `NoDangling`
  violated within seconds.
- *A failed asynchronous write is never signalled.* `writeBuffer` sets the status
  to `Error` (`sqUnixAsynchFile.c:296`) and returns; the head of the file
  (lines 20-21) says that the semaphore tells completion. `TransferSignalled`
  leaves the case out.
- `acceptFrom` tests `acceptedSock` for a negative number (`sqUnixSocket.c:727`),
  but a socket made by `calloc` has zero there; `Init` has that zero.
- A comment says a failed connection leaves the socket unhandled
  (`sqUnixSocket.c:364`), yet the handler for exceptional conditions that was
  armed with it (681) stays.
- When accept fails, the descriptor is closed but its number stays in the socket
  (336-342); later calls are kept from it only because the image asks for the
  status. `close` that would block arms a handler after `aioDisable`, and
  `sqSocketDestroy` does not close an accepted connection that nobody took. With
  `"failed"` or `"blocked"` among the `CloseResults` of `MCAsyncIO.cfg` TLC finds
  `RightOwner` violated.
- *`become:` with an overflowed root table misses references.* With young arrays
  and elements only young objects and those in the table are updated (2425);
  `incrementalGC` checks for an overflowed table before it relies on it, `become:`
  does not. The comment on 2379 says all references are swapped. With
  `BecomeWithFullTable = TRUE`, `Object = {S, M, W, A, C}`, `MoreSlots = {var}`,
  `RootTableRedZone = 1`, `RootTableSize = 2`, `AllocationsBetweenGCs = 3` and
  `TenuringThreshold = 2` in `MCObjectMemory.cfg` TLC finds `ReferencesSwapped`
  violated.
- *A weak reference of a living object to itself is emptied.* `sweepPhase` takes
  the mark of a survivor off (22131) before it calls `finalizeReference`, which
  takes an object without a mark for one that is about to go (3984). Its comment
  (3905) says "Check if  its object has gone away (or is about to) and if so,
  signal a semaphore". With `WeakReferencesKept` as the only property of
  `MCObjectMemory.cfg` (it says that a full collection leaves a weak reference to
  an object that stays alone) TLC finds the violation in four states: a weak array
  is made, refers to itself, and is collected.
- *Data asked of a socket that is not connected takes the place of what it waits
  for.* `sqSocketReceiveDataAvailable` arms `dataHandler` in every state
  (`sqUnixSocket.c:944-948`), where its comment (918-924) only has it answer
  false. With `TransfersUnconnected = TRUE` in `MCAsyncIO.cfg` TLC finds
  `AwaitedIsArmed` violated in three steps, by a listener (create, listen, ask for
  data: `acceptHandler` is gone) or by a new socket in two, `RightOwner` in two
  (the descriptor of a new socket is armed without being enabled), and a refused
  connection reported as `Connected`: the image reads from the socket, the read
  takes the error, and `connectHandler` then finds none. `TypeOK`, `NoStrayCall`
  and `SignalledOnce` hold in all of the 1.8 million states; they take longer than
  a run should.
- A comment counts on forwarding blocks of 8 bytes and at most 8 passes
  (`initializeMemoryFirstFree`); blocks are 16 bytes, and `fullGC` counts with
  blocks of 8. `Forwarding` checks that every pass makes progress all the same.
- The comment on `sweepPhase` (22065-22073) says that compaction starts at the
  last free chunk before the object for which no forwarding block was left; the
  code sets `firstFree` anew for every later live object (22137), so that it
  starts near the last of them and gets by with fewer blocks in the first pass.

## 7. Limits

Only model-checked: all liveness, which is out of the prover's reach here:
`WaiterWakes`, `TimerWakes`, `RecordedIsSignalled` but for its safety half,
`TransferSignalled`, `EventTold`, `MarkingEnds` and `CompactionEnds`. The behaviour
outside the hypotheses of the theorems
(`OneKind`, `WrapSeenFirst`, `ClosesDone`, `~TransfersUnconnected`,
`~BlockSendersRead`, `~BecomeWithFullTable`, `OneWayWordSizes \subseteq {4}`) is a matter for TLC, which
finds a violation outside each of them: see 6.

Abstracted in `ObjectMemory`: addresses (that compaction moves objects and updates
every pointer is `Forwarding`); the bytes of objects; the instruction pointers that
returns clear; a process switch, whose effect on memory is that of a store and
`newActiveContext`, and on the count that of `thisContext`; the low-space margins;
the remap buffer (the operators name objects by identity across a collection, as
the code does through the buffer); `new` takes an identity that was free before
the step; returns that send a message instead, `cannotReturn:` (7128-7150) or, past
a context that is marked for unwinding, `aboutToReturn:through:` (7151-7175): their
arguments are contexts on the stack, the count of reclaimable contexts is not reset
for them, and no property here says that none of them is recycled too early. In
`Interrupts`: the feedback on the check interval, and the profile of
`ioProcessEvents`, which is the handlers that come between bytecodes.

In `AsyncIO`: UDP, the resolver, addresses, error numbers, linger times, the
session number and the shutdown of the network (`aioFini`), descriptors that
belong to others (`AIO_EXT`); the kernel changes between polls, not within one;
out-of-band data is the only exceptional condition; `close` completes, as it does
on Linux. `AwaitedIsArmed`, `RightOwner` and `EventTold` are checked for an image
that transfers only on sockets that are or were connected. In `Forwarding`: every
object has a one-word header; one cached method
stands for the caches that are remapped; memory does not grow in the middle of a
collection; no object is twice in the arrays of a `become:`, except one that
replaces several in the one-way form.

Hazards that no model reaches yet: the event ring, which drops the oldest event
when it is full (`sqUnixEvent.c:64`); the product of milliseconds and 1000 in an
`int` (`sqUnixMain.c:444`); `allocationsBetweenGCs` set to a larger number by the
image after the red zone has raised the count (19909); `become:` with an object
twice in its arrays (11949).

Not modelled, and why, is in the table of components of `PROJECT.json`; rows
11 and 12 of the plan are the parts that are to come. Pixel, sound and float
arithmetic, vendored codecs, build files and the 32-bit interpreter, which is
generated from the same source, are left out for good.
