----------------------------- MODULE Interrupts -----------------------------
(***************************************************************************)
(* The interpreter's interrupt check over the process scheduler: the flags *)
(* and counters that the object memory, the event code and the I/O         *)
(* handlers raise, the double buffer of external semaphore indices, and    *)
(* checkForInterrupts, which turns them into signals.  One step of the     *)
(* check signals at most one semaphore; bytecodes run only while no check  *)
(* is in progress, but a signal handler may call signalSemaphoreWithIndex  *)
(* between any two steps.  The composition implements ProcessScheduler.    *)
(***************************************************************************)
EXTENDS ProcessScheduler, FiniteSets

CONSTANTS
    nilObj,             \* nilObj where a semaphore may be registered
    externalObjects,    \* the image's ExternalObjectsArray: 1..n -> object
    Index,              \* the indices handlers pass (some beyond the array)
    SemaphoresToSignalSize, \* capacity of each buffer (500 in interp.c)
    CheckInterval,      \* interruptCheckCounterFeedBackReset (>= 1000)
    MaxFinalizations,   \* bound of pendingFinalizationSignals
    SemaphoreArgs,      \* what the image passes to the registering primitives
    theFinalizationSemaphore \* what the image put in the special objects

ASSUME InterruptsAssumption ==
    /\ SemaphoresToSignalSize \in Nat \ {0}
    /\ CheckInterval \in Nat \ {0}
    /\ MaxFinalizations \in Nat \ {0}
    /\ Index \subseteq Nat \ {0}
    /\ SemaphoreArgs \subseteq Semaphore \cup {nilObj}
    /\ theFinalizationSemaphore \in Semaphore \cup {nilObj}
    /\ nilObj \notin Semaphore

VARIABLES
    check,                  \* the step of checkForInterrupts, or "run"
    interruptCheckCounter,  \* -1 stands for -1000, a forced check
    signalLowSpace,
    interruptPending,
    timer,                  \* nextWakeupTick: "off", "armed" or "due"
    pendingFinalizationSignals,
    theLowSpaceSemaphore, theInterruptSemaphore, theTimerSemaphore,
    semaphoresUseBufferA,   \* which buffer handlers write to
    buffer,                 \* [BOOLEAN -> Seq(Index)]: TRUE is buffer A
    drained,                \* i - 1 of the drain loop
    owed                    \* history: recorded and not yet signalled

flagVars == <<signalLowSpace, interruptPending, timer,
              pendingFinalizationSignals>>
registryVars == <<theLowSpaceSemaphore, theInterruptSemaphore,
                  theTimerSemaphore>>
bufferVars == <<semaphoresUseBufferA, buffer, drained, owed>>
checkVars == <<check, interruptCheckCounter>>
vars == <<schedulerVars, checkVars, flagVars, registryVars, bufferVars>>

IInit ==
    /\ Init
    /\ check = "run"
    /\ interruptCheckCounter = 0
    /\ signalLowSpace = FALSE
    /\ interruptPending = FALSE
    /\ timer = "off"
    /\ pendingFinalizationSignals = 0
    /\ theLowSpaceSemaphore \in SemaphoreArgs
    /\ theInterruptSemaphore \in SemaphoreArgs
    /\ theTimerSemaphore = nilObj
    /\ semaphoresUseBufferA = TRUE
    /\ buffer = [b \in BOOLEAN |-> <<>>]
    /\ drained = 0
    /\ owed = [i \in Index |-> 0]

running == check = "run" /\ ~halted

-----------------------------------------------------------------------------
(* What raises interrupts.                                                 *)

\* Mutant: the check is not forced.
signalSemaphoreWithIndex_NotForced(index) ==
    /\ ~halted
    /\ IF Len(buffer[semaphoresUseBufferA]) < SemaphoresToSignalSize
       THEN /\ buffer' = [buffer EXCEPT
                   ![semaphoresUseBufferA] = Append(@, index)]
            /\ owed' = [owed EXCEPT ![index] = @ + 1]
       ELSE UNCHANGED <<buffer, owed>>
    /\ UNCHANGED <<schedulerVars, checkVars, flagVars, registryVars,
                   semaphoresUseBufferA, drained>>

\* Called by I/O handlers, at any point: full buffers drop the index.
signalSemaphoreWithIndex(index) ==
    /\ ~halted
    /\ IF Len(buffer[semaphoresUseBufferA]) < SemaphoresToSignalSize
       THEN /\ buffer' = [buffer EXCEPT
                   ![semaphoresUseBufferA] = Append(@, index)]
            /\ owed' = [owed EXCEPT ![index] = @ + 1]
       ELSE UNCHANGED <<buffer, owed>>
    /\ interruptCheckCounter' = -1
    /\ UNCHANGED <<schedulerVars, check, flagVars, registryVars,
                   semaphoresUseBufferA, drained>>

\* sufficientSpaceToAllocate: fell below lowSpaceThreshold.
runLowOnSpace ==
    /\ running
    /\ ~signalLowSpace
    /\ signalLowSpace' = TRUE
    /\ interruptCheckCounter' = -1
    /\ UNCHANGED <<schedulerVars, check, interruptPending, timer,
                   pendingFinalizationSignals, registryVars, bufferVars>>

\* The interrupt key was pressed (recordKeystroke, during ioProcessEvents).
setInterruptPending ==
    /\ check = "events"
    /\ ~interruptPending
    /\ interruptPending' = TRUE
    /\ interruptCheckCounter' = 0
    /\ UNCHANGED <<schedulerVars, check, signalLowSpace, timer,
                   pendingFinalizationSignals, registryVars, bufferVars>>

\* finalizeReference, during a garbage collection.
signalFinalization ==
    /\ running
    /\ pendingFinalizationSignals < MaxFinalizations
    /\ pendingFinalizationSignals' = pendingFinalizationSignals + 1
    /\ interruptCheckCounter' = -1
    /\ UNCHANGED <<schedulerVars, check, signalLowSpace, interruptPending,
                   timer, registryVars, bufferVars>>

\* The millisecond clock reaches nextWakeupTick.
clockTicks ==
    /\ timer = "armed"
    /\ timer' = "due"
    /\ UNCHANGED <<schedulerVars, checkVars, signalLowSpace, interruptPending,
                   pendingFinalizationSignals, registryVars, bufferVars>>

-----------------------------------------------------------------------------
(* The primitives that register semaphores.                                *)

primitiveLowSpaceSemaphore(arg) ==
    /\ running
    /\ theLowSpaceSemaphore' = arg
    /\ UNCHANGED <<schedulerVars, checkVars, flagVars, theInterruptSemaphore,
                   theTimerSemaphore, bufferVars>>

primitiveInterruptSemaphore(arg) ==
    /\ running
    /\ theInterruptSemaphore' = arg
    /\ UNCHANGED <<schedulerVars, checkVars, flagVars, theLowSpaceSemaphore,
                   theTimerSemaphore, bufferVars>>

\* Whatever the timer was set to is replaced.
primitiveSignalAtMilliseconds(arg) ==
    /\ running
    /\ theTimerSemaphore' = arg
    /\ timer' = IF arg = nilObj THEN "off" ELSE "armed"
    /\ UNCHANGED <<schedulerVars, checkVars, signalLowSpace, interruptPending,
                   pendingFinalizationSignals, theLowSpaceSemaphore,
                   theInterruptSemaphore, bufferVars>>

-----------------------------------------------------------------------------
(* checkForInterrupts, step by step.                                       *)

goto(from, to) == ~halted /\ check = from /\ check' = to

\* Mutant: the semaphore is not signalled.
signalRegistered_Forgets(sema) == UNCHANGED schedulerVars

\* Mutant: the semaphore's processes stay where they are, the signal is kept.
signalRegistered_Counts(sema) ==
    IF sema = nilObj THEN UNCHANGED schedulerVars
    ELSE /\ excessSignals' = [excessSignals EXCEPT ![sema] = MaxSmallInteger]
         /\ UNCHANGED <<activeProcess, queue, activeContext,
                        suspendedContext, halted>>

\* Signal a registered semaphore; nil is passed over.
signalRegistered(sema) ==
    IF sema = nilObj THEN UNCHANGED schedulerVars ELSE synchronousSignal(sema)

\* A send or a backward jump: every one counts down to the next check.
quickCheckForInterrupts ==
    /\ running
    /\ activateNewMethod
    /\ IF interruptCheckCounter - 1 <= 0
       THEN /\ check' = "lowSpace"
            /\ interruptCheckCounter' = CheckInterval
       ELSE /\ check' = check
            /\ interruptCheckCounter' = interruptCheckCounter - 1
    /\ UNCHANGED <<flagVars, registryVars, bufferVars>>

checkLowSpace ==
    /\ goto("lowSpace", "events")
    /\ IF signalLowSpace THEN signalRegistered(theLowSpaceSemaphore)
                         ELSE UNCHANGED schedulerVars
    /\ signalLowSpace' = FALSE
    /\ UNCHANGED <<interruptCheckCounter, interruptPending, timer,
                   pendingFinalizationSignals, registryVars, bufferVars>>

\* ioProcessEvents is called or not yet due; handlers run in its place.
pollEvents ==
    /\ goto("events", "interrupt")
    /\ UNCHANGED <<schedulerVars, interruptCheckCounter, flagVars,
                   registryVars, bufferVars>>

checkInterruptPending ==
    /\ goto("interrupt", "timer")
    /\ IF interruptPending THEN signalRegistered(theInterruptSemaphore)
                           ELSE UNCHANGED schedulerVars
    /\ interruptPending' = FALSE
    /\ UNCHANGED <<interruptCheckCounter, signalLowSpace, timer,
                   pendingFinalizationSignals, registryVars, bufferVars>>

checkTimer ==
    /\ goto("timer", "finalization")
    /\ IF timer = "due"
       THEN timer' = "off" /\ signalRegistered(theTimerSemaphore)
       ELSE UNCHANGED <<timer, schedulerVars>>
    /\ UNCHANGED <<interruptCheckCounter, signalLowSpace, interruptPending,
                   pendingFinalizationSignals, registryVars, bufferVars>>

\* However many references were finalized, one signal.
checkFinalization ==
    /\ goto("finalization", "external")
    /\ IF pendingFinalizationSignals > 0
       THEN signalRegistered(theFinalizationSemaphore)
       ELSE UNCHANGED schedulerVars
    /\ pendingFinalizationSignals' = 0
    /\ UNCHANGED <<interruptCheckCounter, signalLowSpace, interruptPending,
                   timer, registryVars, bufferVars>>

\* Mutant: a check never looks at the buffers.
flipBuffers_Skipped ==
    /\ goto("external", "run")
    /\ UNCHANGED <<schedulerVars, interruptCheckCounter, flagVars,
                   registryVars, bufferVars>>

\* signalExternalSemaphores: with an index in either buffer, the handlers are
\* given the other buffer and the one they wrote to is drained.
flipBuffers ==
    /\ ~halted
    /\ check = "external"
    /\ IF buffer[TRUE] # <<>> \/ buffer[FALSE] # <<>>
       THEN /\ check' = "drain"
            /\ semaphoresUseBufferA' = ~semaphoresUseBufferA
       ELSE check' = "run" /\ UNCHANGED semaphoresUseBufferA
    /\ UNCHANGED <<schedulerVars, interruptCheckCounter, flagVars,
                   registryVars, buffer, drained, owed>>

draining == ~semaphoresUseBufferA

\* One turn of the loop: an index beyond the array, or an object that is not
\* a Semaphore, is passed over.
drainOne ==
    /\ ~halted
    /\ check = "drain"
    /\ drained < Len(buffer[draining])
    /\ LET index == buffer[draining][drained + 1]
       IN  /\ IF index \in DOMAIN externalObjects
                 /\ externalObjects[index] \in Semaphore
              THEN synchronousSignal(externalObjects[index])
              ELSE UNCHANGED schedulerVars
           /\ owed' = [owed EXCEPT ![index] = @ - 1]
    /\ drained' = drained + 1
    /\ UNCHANGED <<checkVars, flagVars, registryVars,
                   semaphoresUseBufferA, buffer>>

\* Mutant: the count of the drained buffer is reset before the loop ends.
emptyBuffer_Early ==
    /\ goto("drain", "run")
    /\ buffer' = [buffer EXCEPT ![draining] = <<>>]
    /\ drained' = 0
    /\ UNCHANGED <<schedulerVars, interruptCheckCounter, flagVars,
                   registryVars, semaphoresUseBufferA, owed>>

emptyBuffer ==
    /\ goto("drain", "run")
    /\ drained = Len(buffer[draining])
    /\ buffer' = [buffer EXCEPT ![draining] = <<>>]
    /\ drained' = 0
    /\ UNCHANGED <<schedulerVars, interruptCheckCounter, flagVars,
                   registryVars, semaphoresUseBufferA, owed>>

checkForInterrupts ==
    \/ checkLowSpace
    \/ pollEvents
    \/ checkInterruptPending
    \/ checkTimer
    \/ checkFinalization
    \/ flipBuffers
    \/ drainOne
    \/ emptyBuffer

-----------------------------------------------------------------------------
\* The scheduling primitives run between two checks.
schedule ==
    /\ running
    /\ \/ \E s \in Semaphore : primitiveSignal(s) \/ primitiveWait(s)
       \/ \E p \in Process : primitiveResume(p) \/ primitiveSuspend(p)
       \/ primitiveYield
    /\ UNCHANGED <<checkVars, flagVars, registryVars, bufferVars>>

\* ioRelinquishProcessorForMicroseconds: the idle process asks for a check.
primitiveRelinquishProcessor ==
    /\ running
    /\ interruptCheckCounter' = 0
    /\ UNCHANGED <<schedulerVars, check, flagVars, registryVars, bufferVars>>

INext ==
    \/ \E index \in Index : signalSemaphoreWithIndex(index)
    \/ runLowOnSpace
    \/ setInterruptPending
    \/ signalFinalization
    \/ clockTicks
    \/ \E arg \in SemaphoreArgs :
          \/ primitiveLowSpaceSemaphore(arg)
          \/ primitiveInterruptSemaphore(arg)
          \/ primitiveSignalAtMilliseconds(arg)
    \/ quickCheckForInterrupts
    \/ checkForInterrupts
    \/ schedule
    \/ primitiveRelinquishProcessor

\* The interpreter goes on executing bytecodes, every loop of which sends or
\* jumps backwards, and a check runs to its end.
Fairness == WF_vars(quickCheckForInterrupts) /\ WF_vars(checkForInterrupts)

ISpec == IInit /\ [][INext]_vars /\ Fairness

-----------------------------------------------------------------------------
(* What the interrupt check promises.                                      *)

\* Every variable has its type.
ITypeOK ==
    /\ check \in {"run", "lowSpace", "events", "interrupt", "timer",
                  "finalization", "external", "drain"}
    /\ interruptCheckCounter \in -1..CheckInterval
    /\ signalLowSpace \in BOOLEAN
    /\ interruptPending \in BOOLEAN
    /\ timer \in {"off", "armed", "due"}
    /\ pendingFinalizationSignals \in 0..MaxFinalizations
    /\ theLowSpaceSemaphore \in SemaphoreArgs
    /\ theInterruptSemaphore \in SemaphoreArgs
    /\ theTimerSemaphore \in SemaphoreArgs \cup {nilObj}
    /\ semaphoresUseBufferA \in BOOLEAN
    /\ \A b \in BOOLEAN :
         /\ buffer[b] \in Seq(Index)
         /\ Len(buffer[b]) <= SemaphoresToSignalSize
    /\ drained \in 0..SemaphoresToSignalSize
    /\ owed \in [Index -> 0..(2 * SemaphoresToSignalSize)]

\* How often an index stands in a buffer from position from on.
Occurrences(b, from, index) ==
    Cardinality({i \in from..Len(buffer[b]) : buffer[b][i] = index})

\* An index recorded by a handler is signalled exactly once: what is owed is
\* what stands in the handlers' buffer and, during a check, in the part of
\* the other buffer that is yet to be drained; between checks that buffer is
\* empty.  (The two buffers and the flip of signalExternalSemaphores.)
OwedIsBuffered ==
    /\ \A index \in Index :
         owed[index] = Occurrences(semaphoresUseBufferA, 1, index)
                       + Occurrences(draining, drained + 1, index)
    /\ check # "drain" => buffer[draining] = <<>>

\* No signal is overlooked until the check after next: with an index in the
\* handlers' buffer or a flag raised by the object memory, the next send or
\* backward jump starts a check, unless one is in progress already.
PendingForcesCheck ==
    check = "run" /\ (\/ buffer[semaphoresUseBufferA] # <<>>
                      \/ signalLowSpace
                      \/ pendingFinalizationSignals > 0)
        => interruptCheckCounter <= 0

\* The first process waiting on an external semaphore whose index a handler
\* recorded stops waiting: somebody always drains the buffer it is in.
WaiterWakes ==
    \A p \in Process : \A index \in Index \cap DOMAIN externalObjects :
       LET s == externalObjects[index]
       IN  s \in Semaphore =>
             ((owed[index] > 0 /\ queue[s] # <<>> /\ Head(queue[s]) = p)
                ~> (halted \/ queue[s] = <<>> \/ Head(queue[s]) # p))

\* A process waiting first for the timer wakes once the clock has reached the
\* tick, unless the image sets the timer anew or takes the semaphore away.
TimerWakes ==
    \A p \in Process : \A s \in Semaphore :
       (/\ timer = "due" /\ theTimerSemaphore = s
        /\ queue[s] # <<>> /\ Head(queue[s]) = p)
          ~> (\/ halted
              \/ queue[s] = <<>> \/ Head(queue[s]) # p
              \/ timer = "armed" \/ theTimerSemaphore # s)
=============================================================================
