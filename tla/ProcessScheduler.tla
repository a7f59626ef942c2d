-------------------------- MODULE ProcessScheduler --------------------------
(***************************************************************************)
(* The process scheduler of the interpreter as its primitives promise it:  *)
(* one active process, one FIFO list of ready processes per priority (the  *)
(* LinkedLists in Processor quiescentProcessLists) and one FIFO list of    *)
(* waiting processes per Semaphore.  A list is a sequence here; the module *)
(* LinkedScheduler has the pointers of interp.c and is shown to implement  *)
(* this one.                                                               *)
(***************************************************************************)
EXTENDS Integers, Sequences

CONSTANTS
    Process,         \* the Process objects of the image
    Semaphore,       \* the Semaphore objects of the image
    NumPriorities,   \* how many lists Processor has
    priority,        \* Process -> 1..NumPriorities, the priority slot
    IdleProcess,     \* the image's idle process, which never blocks
    MaxSmallInteger, \* bound of excessSignals (1073741823 in interp.c)
    NumContexts,     \* contexts told apart in one process (a bound)
    NilContext       \* nilObj in a suspendedContext slot

Priority == 1..NumPriorities
List == Priority \cup Semaphore

\* A context is named by the process whose stack it is on and a number.
Context == Process \X (1..NumContexts)

ASSUME NumPrioritiesAssumption == NumPriorities \in Nat \ {0}
ASSUME PriorityAssumption == priority \in [Process -> Priority]
ASSUME IdleAssumption == IdleProcess \in Process
ASSUME MaxSmallIntegerAssumption == MaxSmallInteger \in Nat \ {0}
ASSUME NumContextsAssumption == NumContexts \in Nat \ {0}
ASSUME ListsAssumption == Priority \cap Semaphore = {}
ASSUME NilContextAssumption == NilContext \notin Context

VARIABLES
    activeProcess,    \* Processor's activeProcess slot
    queue,            \* the processes linked from each list, first to last
    excessSignals,    \* the excessSignals slot of each Semaphore
    activeContext,    \* the interpreter's activeContext register
    suspendedContext, \* the suspendedContext slot of each Process
    halted            \* error() was called: the program has exited

schedulerVars == <<activeProcess, queue, excessSignals,
                   activeContext, suspendedContext, halted>>

Init ==
    /\ activeProcess = IdleProcess
    /\ queue = [l \in List |-> <<>>]
    /\ excessSignals = [s \in Semaphore |-> 0]
    /\ activeContext = <<IdleProcess, 1>>
    /\ suspendedContext =
         [p \in Process |-> IF p = IdleProcess THEN NilContext ELSE <<p, 1>>]
    /\ halted = FALSE

-----------------------------------------------------------------------------
(* Helpers shared by the primitives.  q is a value of queue.               *)

\* Mutant: the process is linked at the front.
addLastLink_Front(q, p, l) == [q EXCEPT ![l] = <<p>> \o @]

addLastLink(q, p, l) == [q EXCEPT ![l] = Append(@, p)]

removeFirstLinkOfList(q, l) == [q EXCEPT ![l] = Tail(@)]

\* The priorities that have a process ready to run.
ReadyPriorities(q) == {i \in Priority : q[i] # <<>>}

highestReady(q) ==
    CHOOSE i \in ReadyPriorities(q) : \A j \in ReadyPriorities(q) : j <= i

\* p is linked from some list.
Queued(q, p) == \E l \in List : \E i \in DOMAIN q[l] : q[l][i] = p

\* Mutant: the old process's context is not saved.
transferTo_NotSaved(p) ==
    /\ activeProcess' = p
    /\ activeContext' = suspendedContext[p]
    /\ suspendedContext' = [suspendedContext EXCEPT ![p] = NilContext]

\* Mutant: the old process is saved in the first of its contexts.
transferTo_Stale(p) ==
    LET saved == [suspendedContext EXCEPT
                     ![activeProcess] = <<activeProcess, 1>>]
    IN  /\ activeProcess' = p
        /\ activeContext' = saved[p]
        /\ suspendedContext' = [saved EXCEPT ![p] = NilContext]

\* Give the processor to p: the old process keeps the context it is in and p
\* continues in the context it was suspended in.
transferTo(p) ==
    LET saved == [suspendedContext EXCEPT ![activeProcess] = activeContext]
    IN  /\ activeProcess' = p
        /\ activeContext' = saved[p]
        /\ suspendedContext' = [saved EXCEPT ![p] = NilContext]

keepRunning == UNCHANGED <<activeProcess, activeContext, suspendedContext>>

\* Mutant: the process woken stays linked from its list.
wakeHighestPriority_Linked(q) ==
    /\ ReadyPriorities(q) # {}
    /\ queue' = q
    /\ transferTo(Head(q[highestReady(q)]))
    /\ UNCHANGED halted

\* transferTo(wakeHighestPriority()), with q the lists it finds: with every
\* list empty the program calls error() and exits.
wakeHighestPriority(q) ==
    IF ReadyPriorities(q) = {}
    THEN /\ halted' = TRUE
         /\ queue' = q
         /\ keepRunning
    ELSE LET l == highestReady(q)
         IN  /\ queue' = removeFirstLinkOfList(q, l)
             /\ transferTo(Head(q[l]))
             /\ UNCHANGED halted

\* Mutant: a process of higher priority has to wait.
resume_NoPreemption(q, p) ==
    /\ UNCHANGED halted
    /\ queue' = addLastLink(q, p, priority[p])
    /\ keepRunning

\* Mutant: the preempted process is not put to sleep on its list.
resume_Dropped(q, p) ==
    /\ UNCHANGED halted
    /\ IF priority[p] > priority[activeProcess]
       THEN queue' = q /\ transferTo(p)
       ELSE queue' = addLastLink(q, p, priority[p]) /\ keepRunning

\* resume(p), with q the lists it finds.
resume(q, p) ==
    /\ UNCHANGED halted
    /\ IF priority[p] > priority[activeProcess]
       THEN /\ queue' = addLastLink(q, activeProcess, priority[activeProcess])
            /\ transferTo(p)
       ELSE /\ queue' = addLastLink(q, p, priority[p])
            /\ keepRunning

\* Mutant: a signal is counted even with a process waiting.
synchronousSignal_Counts(s) ==
    /\ excessSignals' = [excessSignals EXCEPT
            ![s] = IF @ < MaxSmallInteger THEN @ + 1 ELSE @]
    /\ UNCHANGED <<queue, halted>>
    /\ keepRunning

\* Mutant: a signal is counted and wakes a process too.
synchronousSignal_Twice(s) ==
    /\ excessSignals' = [excessSignals EXCEPT
            ![s] = IF @ < MaxSmallInteger THEN @ + 1 ELSE @]
    /\ IF queue[s] = <<>>
       THEN UNCHANGED <<queue, halted>> /\ keepRunning
       ELSE resume(removeFirstLinkOfList(queue, s), Head(queue[s]))

\* synchronousSignal(s): count the signal, or resume the first waiter.  At
\* MaxSmallInteger the count stays and the primitive fails.
synchronousSignal(s) ==
    IF queue[s] = <<>>
    THEN /\ excessSignals' = [excessSignals EXCEPT
                ![s] = IF @ < MaxSmallInteger THEN @ + 1 ELSE @]
         /\ UNCHANGED <<queue, halted>>
         /\ keepRunning
    ELSE /\ resume(removeFirstLinkOfList(queue, s), Head(queue[s]))
         /\ UNCHANGED excessSignals

-----------------------------------------------------------------------------
(* The primitives, executed by the active process.                         *)

primitiveSignal(s) == ~halted /\ synchronousSignal(s)

\* The image never lets its idle process block.
primitiveWait(s) ==
    /\ ~halted
    /\ activeProcess # IdleProcess
    /\ IF excessSignals[s] > 0
       THEN /\ excessSignals' = [excessSignals EXCEPT ![s] = @ - 1]
            /\ UNCHANGED <<queue, halted>>
            /\ keepRunning
       ELSE /\ wakeHighestPriority(addLastLink(queue, activeProcess, s))
            /\ UNCHANGED excessSignals

\* The code does not look where p is: the image resumes a process that is
\* neither running nor linked from a list.
primitiveResume(p) ==
    /\ ~halted
    /\ p # activeProcess
    /\ ~Queued(queue, p)
    /\ resume(queue, p)
    /\ UNCHANGED excessSignals

\* Succeeds only for the active process.
primitiveSuspend(p) ==
    /\ ~halted
    /\ p = activeProcess
    /\ p # IdleProcess
    /\ wakeHighestPriority(queue)
    /\ UNCHANGED excessSignals

primitiveYield ==
    /\ ~halted
    /\ queue[priority[activeProcess]] # <<>>
    /\ wakeHighestPriority(
           addLastLink(queue, activeProcess, priority[activeProcess]))
    /\ UNCHANGED excessSignals

\* A send or a return leaves the active process in one of its contexts.
activateNewMethod ==
    /\ ~halted
    /\ \E n \in 1..NumContexts : activeContext' = <<activeContext[1], n>>
    /\ UNCHANGED <<activeProcess, queue, excessSignals,
                   suspendedContext, halted>>

Next ==
    \/ \E s \in Semaphore : primitiveSignal(s) \/ primitiveWait(s)
    \/ \E p \in Process : primitiveResume(p) \/ primitiveSuspend(p)
    \/ primitiveYield
    \/ activateNewMethod

Spec == Init /\ [][Next]_schedulerVars

-----------------------------------------------------------------------------
(* What the scheduler promises.                                            *)

\* Every variable has its type.
TypeOK ==
    /\ activeProcess \in Process
    /\ queue \in [List -> Seq(Process)]
    /\ excessSignals \in [Semaphore -> 0..MaxSmallInteger]
    /\ activeContext \in Context
    /\ suspendedContext \in [Process -> Context \cup {NilContext}]
    /\ halted \in BOOLEAN

\* A process is in one place: it is linked at most once, from at most one
\* list, and the active process is linked from none (resume, putToSleep,
\* primitiveWait and wakeHighestPriority move a process, never copy it).
InOnePlace ==
    /\ \A k, l \in List : \A i \in DOMAIN queue[k], j \in DOMAIN queue[l] :
         queue[k][i] = queue[l][j] => k = l /\ i = j
    /\ ~halted => ~Queued(queue, activeProcess)

\* Scheduling is by priority: a ready process is linked from the list of its
\* own priority, and none has a higher priority than the active process, at
\* any point where the interpreter runs bytecodes.
HighestPriorityRuns ==
    \A l \in Priority : \A i \in DOMAIN queue[l] :
        /\ priority[queue[l][i]] = l
        /\ ~halted => l <= priority[activeProcess]

\* No lost wakeup: no process waits on a semaphore that holds a signal.
NoWaiterWhileSignalled ==
    \A s \in Semaphore : excessSignals[s] > 0 => queue[s] = <<>>

\* "scheduler could not find a runnable process" is never reached as long as
\* the image has a process that never blocks.
NeverOutOfProcesses == ~halted

\* The interpreter runs a context of the active process, and every other
\* process keeps one of its own contexts to continue in.
OwnContext ==
    /\ activeContext[1] = activeProcess
    /\ \A p \in Process :
         IF p = activeProcess THEN suspendedContext[p] = NilContext
                              ELSE suspendedContext[p] # NilContext
                                   /\ suspendedContext[p][1] = p

\* The context p is in: the register while it runs, its slot otherwise.
Continuation(p) ==
    IF p = activeProcess THEN activeContext ELSE suspendedContext[p]

\* However often the processor changes hands, a process finds itself in the
\* context it left: only its own bytecodes move it to another one.
ContinuationKept ==
    [][\A p \in Process :
          Continuation(p)' # Continuation(p) =>
             activeProcess = p /\ activeProcess' = p]_schedulerVars

\* Signals are neither lost nor invented: the signals a semaphore holds less
\* the processes waiting on it go up by one with a signal, down by one with a
\* wait of the active process, and change in no other way.
Balance(s) == excessSignals[s] - Len(queue[s])

SignalsConserved ==
    [][\A s \in Semaphore :
          \/ Balance(s)' = Balance(s)
          \/ Balance(s)' = Balance(s) + 1
          \/ /\ Balance(s)' = Balance(s) - 1
             /\ \/ activeProcess' = activeProcess /\ excessSignals[s] > 0
                \/ queue'[s] = Append(queue[s], activeProcess)]_schedulerVars

\* r is linked from l ahead of p.
Before(q, l, r, p) ==
    \E i, j \in DOMAIN q[l] : i < j /\ q[l][i] = r /\ q[l][j] = p

\* Lists are first come, first served: nobody gets ahead of a process that is
\* linked from a list, neither one that is behind it nor one that arrives.
NoOvertaking ==
    [][\A l \in List : \A p, r \in Process :
          /\ \E i \in DOMAIN queue[l] : queue[l][i] = p
          /\ ~Before(queue, l, r, p)
          => ~Before(queue', l, r, p)]_schedulerVars
=============================================================================
