-------------------------------- MODULE Aio ---------------------------------
(***************************************************************************)
(* aio.c: descriptors, the handlers their clients ask for, and the poll    *)
(* that calls them.  aio is one record, and the functions of the source    *)
(* that change it are operators from a record to a record.  os is what the *)
(* kernel knows of each descriptor; it is as much of Unix as the code      *)
(* looks at.                                                               *)
(*                                                                         *)
(* The microseconds that a poll may wait, and the difference between       *)
(* descriptors the multiplexer may close and external ones, which only     *)
(* aioFini looks at, are left out.                                         *)
(***************************************************************************)
EXTENDS Integers, FiniteSets

CONSTANTS
    MaxDescriptor,   \* the process may have this many open besides 0
    Null             \* the client data of a descriptor that has no client

ASSUME DescriptorAssumption == MaxDescriptor \in Nat

Descriptor == 0 .. MaxDescriptor
Flag == {"R", "W", "X"}

VARIABLES
    os,      \* what the kernel knows of each descriptor
    aio,     \* fdMask, the three masks and their handlers, clientData, maxFd
    ready    \* what select found and the poll has not yet dispatched

-----------------------------------------------------------------------------
(* The kernel.  A listening descriptor has "data" when a connection waits, *)
(* a connected one has "urgent" when only out-of-band data is there; a     *)
(* terminal is what an asynchronous file is opened on.                     *)

Kind == {"closed", "terminal", "fresh", "listening", "connecting", "refused",
         "connected"}

OsType == [kind : Kind, input : {"none", "data", "eof", "urgent"},
           room : BOOLEAN]

Opened(kind) ==
    [kind |-> kind, input |-> "none",
     room |-> kind \in {"terminal", "connected"}]

IsOpen(fd) == os[fd].kind # "closed"

FreeDescriptors == {fd \in Descriptor : ~IsOpen(fd)}

\* open, socket and accept take the lowest number.
Lowest == CHOOSE fd \in FreeDescriptors : \A o \in FreeDescriptors : fd <= o

\* A socket that was never connected, or failed to, never blocks.
Readable(fd) == \/ os[fd].input \in {"data", "eof"}
                \/ os[fd].kind \in {"fresh", "refused"}
Writable(fd) == os[fd].room \/ os[fd].kind \in {"fresh", "refused"}

\* Select reports out-of-band data as the only exceptional condition.
Ready(fd, flag) == CASE flag = "R" -> Readable(fd)
                     [] flag = "W" -> Writable(fd)
                     [] flag = "X" -> os[fd].input = "urgent"

\* Between polls: what happens while one dispatches, the next one finds.
KernelActs(fd) ==
    /\ ready = {}
    /\ \/ /\ os[fd].kind \in {"listening", "connected", "terminal"}
          /\ fd # 0
          /\ os[fd].input = "none"
          /\ os' = [os EXCEPT ![fd].input = "data"]
       \/ /\ os[fd].kind = "connected"
          /\ os[fd].input = "none"
          /\ \E input \in {"eof", "urgent"} :
                os' = [os EXCEPT ![fd].input = input]
       \/ /\ os[fd].kind \in {"connected", "terminal"}
          /\ ~os[fd].room
          /\ os' = [os EXCEPT ![fd].room = TRUE]
       \/ /\ os[fd].kind = "connecting"
          /\ \E kind \in {"connected", "refused"} :
                os' = [os EXCEPT ![fd] = Opened(kind)]
    /\ UNCHANGED <<aio, ready>>

-----------------------------------------------------------------------------
(* The functions the clients call.                                         *)

\* A descriptor that is enabled already keeps its client.
aioEnable(a, fd, data) ==
    IF fd < 0 \/ fd \in a.enabled
    THEN a
    ELSE [enabled |-> a.enabled \cup {fd},
          mask |-> [flag \in Flag |-> a.mask[flag] \ {fd}],
          handler |-> [flag \in Flag |->
                         [a.handler[flag] EXCEPT ![fd] = "undefinedHandler"]],
          clientData |-> [a.clientData EXCEPT ![fd] = data],
          maxFd |-> IF fd >= a.maxFd THEN fd + 1 ELSE a.maxFd]

\* Cumulative: flags that were set before stay set.
aioHandle(a, fd, handlerFn, flags) ==
    IF fd < 0
    THEN a
    ELSE [a EXCEPT
            !.mask = [flag \in Flag |-> IF flag \in flags
                                        THEN a.mask[flag] \cup {fd}
                                        ELSE a.mask[flag]],
            !.handler = [flag \in Flag |->
                            IF flag \in flags
                            THEN [a.handler[flag] EXCEPT ![fd] = handlerFn]
                            ELSE a.handler[flag]]]

\* Mutant: the last enabled descriptor is not counted.
Above_Short(fds) == IF fds = {} THEN 0
                    ELSE CHOOSE fd \in fds : \A o \in fds : o <= fd

\* One more than the last enabled descriptor, or 0.
Above(fds) == IF fds = {} THEN 0
              ELSE 1 + CHOOSE fd \in fds : \A o \in fds : o <= fd

aioDisable(a, fd) ==
    IF fd < 0
    THEN a
    ELSE [enabled |-> a.enabled \ {fd},
          mask |-> [flag \in Flag |-> a.mask[flag] \ {fd}],
          handler |-> [flag \in Flag |-> [a.handler[flag] EXCEPT ![fd] = "0"]],
          clientData |-> [a.clientData EXCEPT ![fd] = Null],
          maxFd |-> Above({e \in a.enabled \ {fd} : e < a.maxFd})]

-----------------------------------------------------------------------------
(* The poll: select once, then call a handler for everything it found.     *)

\* One closed descriptor among those asked about makes select fail.
Selected ==
    LET asked == {e \in Descriptor \X Flag :
                     e[1] \in aio.mask[e[2]] /\ e[1] < aio.maxFd}
    IN  IF \E e \in asked : ~IsOpen(e[1])
        THEN {}
        ELSE {e \in asked : Ready(e[1], e[2])}

aioPoll ==
    /\ ready = {}
    /\ Selected # {}
    /\ ready' = Selected
    /\ UNCHANGED <<os, aio>>

\* Mutant: exceptions are looked at before the other flags.
Precedes_ExceptionsFirst(e, o) ==
    \/ e[1] < o[1]
    \/ /\ e[1] = o[1]
       /\ <<e[2], o[2]>> \in {<<"X", "R">>, <<"X", "W">>, <<"R", "W">>}

\* By descriptor, and for one descriptor reading, writing, exceptions.
Precedes(e, o) ==
    \/ e[1] < o[1]
    \/ /\ e[1] = o[1]
       /\ <<e[2], o[2]>> \in {<<"R", "W">>, <<"R", "X">>, <<"W", "X">>}

NextUp == CHOOSE e \in ready : \A o \in ready \ {e} : Precedes(e, o)

\* Mutant: a handler is called until it is taken off.
Disarmed_Persistent(fd, flag) == aio

\* Before its call a handler is taken off: it must ask again.
Disarmed(fd, flag) ==
    [aio EXCEPT !.mask[flag] = @ \ {fd},
                !.handler[flag][fd] = "undefinedHandler"]

\* The loop looks at maxFd, which handlers change, for each descriptor but
\* not for each flag.
DispatchContinues(a, fd, flag) ==
    /\ aio' = a
    /\ ready' = {e \in ready \ {<<fd, flag>>} : e[1] = fd \/ e[1] < a.maxFd}

AioInit ==
    /\ os = [fd \in Descriptor |-> Opened(IF fd = 0 THEN "terminal"
                                          ELSE "closed")]
    /\ aio = [enabled |-> {}, mask |-> [flag \in Flag |-> {}],
              handler |-> [flag \in Flag |-> [fd \in Descriptor |-> "0"]],
              clientData |-> [fd \in Descriptor |-> Null], maxFd |-> 0]
    /\ ready = {}
=============================================================================
