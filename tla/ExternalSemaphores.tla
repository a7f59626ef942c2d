------------------------- MODULE ExternalSemaphores -------------------------
(***************************************************************************)
(* signalSemaphoreWithIndex and signalExternalSemaphores statement by      *)
(* statement.  The callers are the interpreter's own thread (I/O handlers  *)
(* polled by the interpreter) and callers that come at any time: the       *)
(* SIGCHLD handler of the pseudo-terminal plugin, which runs to its end in *)
(* the middle of whatever the interpreter does, and the audio threads of   *)
(* the Mac OS X sound driver.                                              *)
(***************************************************************************)
EXTENDS Integers, FiniteSets

CONSTANTS
    Caller,       \* who calls signalSemaphoreWithIndex; each has its index
    Polled,       \* callers run by the interpreter's thread when it polls
    Handler,      \* signal handlers: nobody runs before they return
    SemaphoresToSignalSize,
    Calls,        \* how often a caller calls (a bound)
    Free          \* what a slot never written holds

ASSUME CallersAssumption ==
    /\ IsFiniteSet(Caller)
    /\ Polled \subseteq Caller /\ Handler \subseteq Caller
    /\ Polled \cap Handler = {}
    /\ SemaphoresToSignalSize \in Nat \ {0}
    /\ Calls \in Nat \ {0}
    /\ Free \notin Caller

Buffer == {"A", "B"}
Other(b) == CHOOSE c \in Buffer : c # b

VARIABLES
    inUse,       \* the buffer semaphoresUseBufferA names
    count,       \* semaphoresToSignalCountA and -B
    slot,        \* semaphoresToSignalA and -B
    forced,      \* interruptCheckCounter is negative
    at,          \* where each caller is in signalSemaphoreWithIndex
    chosen,      \* the buffer it found in use
    kept,        \* the count it incremented, in a register
    left,        \* the calls it has left
    interp,      \* where the interpreter is
    i,           \* the drain loop's index
    called, signalled  \* history: calls completed, signals delivered

vars == <<inUse, count, slot, forced, at, chosen, kept, left, interp,
          i, called, signalled>>
callerVars == <<at, chosen, kept, left, called>>
interpVars == <<inUse, interp, i, signalled>>

Init ==
    /\ inUse = "A"
    /\ count = [b \in Buffer |-> 0]
    /\ slot = [b \in Buffer |->
                 [n \in 1..(SemaphoresToSignalSize + Cardinality(Caller)) |->
                     Free]]
    /\ forced = FALSE
    /\ at = [c \in Caller |-> "out"]
    /\ chosen = [c \in Caller |-> "A"]
    /\ kept = [c \in Caller |-> 0]
    /\ left = [c \in Caller |-> Calls]
    /\ interp = "run"
    /\ i = 1
    /\ called = [c \in Caller |-> 0]
    /\ signalled = [c \in Caller |-> 0]

-----------------------------------------------------------------------------
InCall(c) == at[c] # "out"

\* c may take a step: a handler that is in a call stops everyone but another
\* thread, and a polled caller holds the interpreter's thread.
MayStep(c) ==
    /\ c \notin Handler =>
         c \notin Polled \/ \A h \in Handler : ~InCall(h)
    /\ c \in Handler => \A h \in Handler \ {c} : ~InCall(h)

step(c, from, to) ==
    /\ MayStep(c)
    /\ at[c] = from
    /\ at' = [at EXCEPT ![c] = to]

\* Polled callers are called one at a time, between bytecodes or while
\* ioProcessEvents runs, which is before the buffers flip.
call(c) ==
    /\ left[c] > 0
    /\ c \in Polled => /\ interp \in {"run", "test"}
                       /\ \A d \in Polled : ~InCall(d)
    /\ step(c, "out", "choose")
    /\ left' = [left EXCEPT ![c] = @ - 1]
    /\ UNCHANGED <<interpVars, count, slot, forced, chosen, kept, called>>

\* Mutant: the limit is compared with <=.
choose_OneMore(c) ==
    /\ step(c, "choose", IF count[inUse] <= SemaphoresToSignalSize
                         THEN "load" ELSE "force")
    /\ chosen' = [chosen EXCEPT ![c] = inUse]
    /\ UNCHANGED <<interpVars, count, slot, forced, kept, left, called>>

\* if (semaphoresUseBufferA) { if (count < SemaphoresToSignalSize) ...
choose(c) ==
    /\ step(c, "choose", IF count[inUse] < SemaphoresToSignalSize
                         THEN "load" ELSE "force")
    /\ chosen' = [chosen EXCEPT ![c] = inUse]
    /\ UNCHANGED <<interpVars, count, slot, forced, kept, left, called>>

\* count += 1 is a load and a store: one instruction on some processors, two
\* on others, and nothing in the code forbids a call between them.
load(c) ==
    /\ step(c, "load", "store")
    /\ kept' = [kept EXCEPT ![c] = count[chosen[c]] + 1]
    /\ UNCHANGED <<interpVars, count, slot, forced, chosen, left, called>>

store(c) ==
    /\ step(c, "store", "write")
    /\ count' = [count EXCEPT ![chosen[c]] = kept[c]]
    /\ UNCHANGED <<interpVars, slot, forced, chosen, kept, left, called>>

\* The compiler may read the count again or use the value it has.
write(c) ==
    /\ step(c, "write", "force")
    /\ \E n \in {kept[c], count[chosen[c]]} :
         slot' = [slot EXCEPT ![chosen[c]][n] = c]
    /\ called' = [called EXCEPT ![c] = @ + 1]
    /\ UNCHANGED <<interpVars, count, forced, chosen, kept, left>>

force(c) ==
    /\ step(c, "force", "out")
    /\ forced' = TRUE
    /\ UNCHANGED <<interpVars, count, slot, chosen, kept, left, called>>

finish(c) == choose(c) \/ load(c) \/ store(c) \/ write(c) \/ force(c)

signalSemaphoreWithIndex(c) ==
    call(c) \/ finish(c)

-----------------------------------------------------------------------------
\* The interpreter's thread is its own: no handler and no polled caller.
Interpreting == \A c \in Handler \cup Polled : ~InCall(c)

\* checkForInterrupts begins: the counter is set before anything is read.
beginCheck ==
    /\ Interpreting
    /\ interp = "run" /\ forced
    /\ forced' = FALSE
    /\ interp' = "test"
    /\ UNCHANGED <<callerVars, inUse, count, slot, i, signalled>>

testCounts ==
    /\ Interpreting
    /\ interp = "test"
    /\ interp' = IF \E b \in Buffer : count[b] > 0 THEN "flip" ELSE "run"
    /\ UNCHANGED <<callerVars, inUse, count, slot, forced, i, signalled>>

\* Mutant: the buffer in use is drained itself, and stays in use.
flip_Skipped ==
    /\ Interpreting
    /\ interp = "flip"
    /\ i' = 1
    /\ interp' = "loop"
    /\ UNCHANGED <<callerVars, inUse, count, slot, forced, signalled>>

flip ==
    /\ Interpreting
    /\ interp = "flip"
    /\ inUse' = Other(inUse)
    /\ i' = 1
    /\ interp' = "loop"
    /\ UNCHANGED <<callerVars, count, slot, forced, signalled>>

\* One turn of the loop; a slot never written holds no semaphore's index.
loop ==
    /\ Interpreting
    /\ interp = "loop"
    /\ IF i <= count[Other(inUse)]
       THEN LET c == slot[Other(inUse)][i]
            IN  /\ i' = i + 1
                /\ signalled' = IF c = Free THEN signalled
                                ELSE [signalled EXCEPT ![c] = @ + 1]
                /\ UNCHANGED interp
       ELSE interp' = "reset" /\ UNCHANGED <<i, signalled>>
    /\ UNCHANGED <<callerVars, inUse, count, slot, forced>>

reset ==
    /\ Interpreting
    /\ interp = "reset"
    /\ count' = [count EXCEPT ![Other(inUse)] = 0]
    /\ interp' = "run"
    /\ UNCHANGED <<callerVars, inUse, slot, forced, i, signalled>>

signalExternalSemaphores ==
    beginCheck \/ testCounts \/ flip \/ loop \/ reset

Next ==
    \/ \E c \in Caller : signalSemaphoreWithIndex(c)
    \/ signalExternalSemaphores

\* A call that began returns, and the interpreter goes on.
Fairness ==
    /\ \A c \in Caller : WF_vars(finish(c))
    /\ WF_vars(signalExternalSemaphores)

Spec == Init /\ [][Next]_vars /\ Fairness

-----------------------------------------------------------------------------
\* Every variable has its type; the slots are as many as may be written.
TypeOK ==
    /\ inUse \in Buffer
    /\ count \in [Buffer -> 0..(SemaphoresToSignalSize + Cardinality(Caller))]
    /\ forced \in BOOLEAN
    /\ at \in [Caller -> {"out", "choose", "load", "store", "write", "force"}]
    /\ chosen \in [Caller -> Buffer]
    /\ left \in [Caller -> 0..Calls]
    /\ interp \in {"run", "test", "flip", "loop", "reset"}

\* A write stays inside the array: slots 1 to SemaphoresToSignalSize.
WritesInBounds ==
    \A c \in Caller :
       at[c] = "write" =>
          {kept[c], count[chosen[c]]} \subseteq 1..SemaphoresToSignalSize

\* "Record the given semaphore index in the double buffer semaphores array to
\* be signaled at the next convenient moment": every index recorded is
\* signalled in the end.
RecordedIsSignalled ==
    \A c \in Caller : \A n \in 1..Calls : called[c] >= n ~> signalled[c] >= n
=============================================================================
