--------------------------- MODULE LinkedScheduler ---------------------------
(***************************************************************************)
(* The scheduler of src-64/vm/interp.c with its lists as the code has      *)
(* them: a list is the firstLink and lastLink slot of a Semaphore or of    *)
(* one of Processor's LinkedLists, and the nextLink and myList slots of    *)
(* the processes.  Every action reads and writes those slots in the order  *)
(* of the code.  queue is a history variable: it records, and never        *)
(* decides, which processes each list holds.  With it the module           *)
(* implements ProcessScheduler, the promise of FIFO lists.                 *)
(***************************************************************************)
EXTENDS Integers, Sequences

CONSTANTS
    Process, Semaphore, NumPriorities, priority, IdleProcess,
    MaxSmallInteger, NumContexts,
    NilContext,     \* nilObj in a suspendedContext slot
    nilObj          \* nilObj in a link slot

VARIABLES
    firstLink,        \* the firstLink slot of each list
    lastLink,         \* the lastLink slot of each list
    nextLink,         \* the nextLink slot of each Process
    myList,           \* the myList slot of each Process
    activeProcess, excessSignals, activeContext, suspendedContext, halted,
    queue             \* history: the processes linked from each list

links == <<firstLink, lastLink, nextLink, myList>>
vars == <<links, activeProcess, excessSignals, activeContext,
          suspendedContext, halted, queue>>

\* The lists, the contexts and what is promised about them.
Abstract == INSTANCE ProcessScheduler

Priority == 1..NumPriorities
List == Priority \cup Semaphore
Context == Process \X (1..NumContexts)

ASSUME LinkAssumption ==
    /\ nilObj \notin Process
    /\ nilObj \notin List
    /\ NilContext \notin Context
    /\ Priority \cap Semaphore = {}
    /\ NumPriorities \in Nat \ {0}
    /\ NumContexts \in Nat \ {0}
    /\ MaxSmallInteger \in Nat \ {0}
    /\ priority \in [Process -> Priority]
    /\ IdleProcess \in Process

Init ==
    /\ Abstract!Init
    /\ firstLink = [l \in List |-> nilObj]
    /\ lastLink = [l \in List |-> nilObj]
    /\ nextLink = [p \in Process |-> nilObj]
    /\ myList = [p \in Process |-> nilObj]

-----------------------------------------------------------------------------
(* The slots as one value, so that two list operations of one primitive    *)
(* compose: h.first, h.last, h.next, h.my, and the history h.queue.        *)

Heap == [first |-> firstLink, last |-> lastLink, next |-> nextLink,
         my |-> myList, queue |-> queue]

store(h) == /\ firstLink' = h.first /\ lastLink' = h.last
            /\ nextLink' = h.next   /\ myList' = h.my
            /\ queue' = h.queue

\* addLastLink:toList: only an empty list gets a firstLink; otherwise the old
\* last process is linked to the new one.  nextLink of p is not touched.
addLastLink(h, p, l) ==
    [first |-> IF h.first[l] = nilObj THEN [h.first EXCEPT ![l] = p]
                                      ELSE h.first,
     next  |-> IF h.first[l] = nilObj THEN h.next
                                      ELSE [h.next EXCEPT ![h.last[l]] = p],
     last  |-> [h.last EXCEPT ![l] = p],
     my    |-> [h.my EXCEPT ![p] = l],
     queue |-> [h.queue EXCEPT ![l] = Append(@, p)]]

\* Mutant: the nextLink of the process taken off is not cleared.
removeFirstLinkOfList_Dangling(h, l) ==
    LET first == h.first[l]
        only  == first = h.last[l]
    IN  [h EXCEPT !.first[l] = IF only THEN nilObj ELSE h.next[first],
                  !.last[l] = IF only THEN nilObj ELSE @,
                  !.queue[l] = Tail(@)]

\* removeFirstLinkOfList: the process removed is h.first[l]; its nextLink is
\* cleared, its myList is not.
removeFirstLinkOfList(h, l) ==
    LET first == h.first[l]
        only  == first = h.last[l]
    IN  [first |-> [h.first EXCEPT ![l] =
                       IF only THEN nilObj ELSE h.next[first]],
         last  |-> IF only THEN [h.last EXCEPT ![l] = nilObj] ELSE h.last,
         next  |-> [h.next EXCEPT ![first] = nilObj],
         my    |-> h.my,
         queue |-> [h.queue EXCEPT ![l] = Tail(@)]]

transferTo(p) ==
    LET saved == [suspendedContext EXCEPT ![activeProcess] = activeContext]
    IN  /\ activeProcess' = p
        /\ activeContext' = saved[p]
        /\ suspendedContext' = [saved EXCEPT ![p] = NilContext]

keepRunning == UNCHANGED <<activeProcess, activeContext, suspendedContext>>

ReadyPriorities(h) == {i \in Priority : h.first[i] # nilObj}

\* Mutant: the scan starts at the lowest priority.
highestReady_Lowest(h) ==
    CHOOSE i \in ReadyPriorities(h) : \A j \in ReadyPriorities(h) : j >= i

\* The list the downward scan of wakeHighestPriority stops at.
highestReady(h) ==
    CHOOSE i \in ReadyPriorities(h) : \A j \in ReadyPriorities(h) : j <= i

\* transferTo(wakeHighestPriority()) after h was stored.
wakeHighestPriority(h) ==
    IF ReadyPriorities(h) = {}
    THEN halted' = TRUE /\ store(h) /\ keepRunning
    ELSE LET l == highestReady(h)
         IN  /\ store(removeFirstLinkOfList(h, l))
             /\ transferTo(h.first[l])
             /\ UNCHANGED halted

resume(h, p) ==
    /\ UNCHANGED halted
    /\ IF priority[p] > priority[activeProcess]
       THEN /\ store(addLastLink(h, activeProcess, priority[activeProcess]))
            /\ transferTo(p)
       ELSE /\ store(addLastLink(h, p, priority[p]))
            /\ keepRunning

synchronousSignal(s) ==
    IF firstLink[s] = nilObj
    THEN /\ excessSignals' = [excessSignals EXCEPT
                ![s] = IF @ < MaxSmallInteger THEN @ + 1 ELSE @]
         /\ UNCHANGED <<links, queue, halted>>
         /\ keepRunning
    ELSE /\ resume(removeFirstLinkOfList(Heap, s), firstLink[s])
         /\ UNCHANGED excessSignals

-----------------------------------------------------------------------------
(* The primitives.                                                         *)

primitiveSignal(s) == ~halted /\ synchronousSignal(s)

primitiveWait(s) ==
    /\ ~halted
    /\ activeProcess # IdleProcess
    /\ IF excessSignals[s] > 0
       THEN /\ excessSignals' = [excessSignals EXCEPT ![s] = @ - 1]
            /\ UNCHANGED <<links, queue, halted>>
            /\ keepRunning
       ELSE /\ wakeHighestPriority(addLastLink(Heap, activeProcess, s))
            /\ UNCHANGED excessSignals

\* The code checks nothing of p.  The image resumes a process that neither
\* runs nor is linked from a list.
primitiveResume(p) ==
    /\ ~halted
    /\ p # activeProcess
    /\ ~Abstract!Queued(queue, p)
    /\ resume(Heap, p)
    /\ UNCHANGED excessSignals

primitiveSuspend(p) ==
    /\ ~halted
    /\ p = activeProcess
    /\ p # IdleProcess
    /\ wakeHighestPriority(Heap)
    /\ UNCHANGED excessSignals

primitiveYield ==
    /\ ~halted
    /\ firstLink[priority[activeProcess]] # nilObj
    /\ wakeHighestPriority(
           addLastLink(Heap, activeProcess, priority[activeProcess]))
    /\ UNCHANGED excessSignals

activateNewMethod ==
    /\ ~halted
    /\ \E n \in 1..NumContexts : activeContext' = <<activeContext[1], n>>
    /\ UNCHANGED <<links, activeProcess, queue, excessSignals,
                   suspendedContext, halted>>

Next ==
    \/ \E s \in Semaphore : primitiveSignal(s) \/ primitiveWait(s)
    \/ \E p \in Process : primitiveResume(p) \/ primitiveSuspend(p)
    \/ primitiveYield
    \/ activateNewMethod

Spec == Init /\ [][Next]_vars

-----------------------------------------------------------------------------
\* Every slot has its type.
TypeOK ==
    /\ firstLink \in [List -> Process \cup {nilObj}]
    /\ lastLink \in [List -> Process \cup {nilObj}]
    /\ nextLink \in [Process -> Process \cup {nilObj}]
    /\ myList \in [Process -> List \cup {nilObj}]
    /\ Abstract!TypeOK

\* The pointers of every list spell its queue: firstLink is the head, each
\* nextLink the process behind, lastLink the tail, whose nextLink is nil, and
\* an empty list has neither end (no chain is cut, shared or circular).  A
\* process that is on no list has no nextLink: addLastLink:toList: relies on
\* it, it never clears the slot of the process it makes the last one.
LinkedAs(h) ==
    /\ \A l \in List :
         IF h.queue[l] = <<>>
         THEN h.first[l] = nilObj /\ h.last[l] = nilObj
         ELSE /\ h.first[l] = h.queue[l][1]
              /\ h.last[l] = h.queue[l][Len(h.queue[l])]
              /\ \A i \in 1..(Len(h.queue[l]) - 1) :
                   h.next[h.queue[l][i]] = h.queue[l][i + 1]
              /\ h.next[h.queue[l][Len(h.queue[l])]] = nilObj
              /\ \A i \in 1..Len(h.queue[l]) : h.my[h.queue[l][i]] = l

WellLinked ==
    /\ LinkedAs(Heap)
    /\ \A p \in Process : ~Abstract!Queued(queue, p) => nextLink[p] = nilObj

\* The linked lists keep every promise of the FIFO scheduler.
Implements == Abstract!Spec
=============================================================================
