--------------------------- MODULE AsyncIO_proofs ---------------------------
(***************************************************************************)
(* The multiplexer and its clients for every number of descriptors, files  *)
(* and sockets, if a close succeeds at once and the image transfers only   *)
(* on sockets that are or were connected.  The inductive invariant says of *)
(* each client what its state means for its descriptor: what kind the      *)
(* kernel has it as, whether it is enabled, and which handlers are armed.  *)
(* A client claims at most two descriptors, nobody else claims these, and  *)
(* an action touches one client and what it claims or has just opened: the *)
(* lemma Step says that it is enough to look there.  The parts of the      *)
(* invariant are operators of the values fl, sk, o and a of the variables  *)
(* file, sock, os and aio.                                                 *)
(***************************************************************************)
EXTENDS AsyncIO, FiniteSetTheorems, WellFoundedInduction, TLAPS

\* A close neither fails nor would block.
ClosesDone == CloseResults \subseteq {"done"}

Client == File \cup Socket

\* The descriptor a client uses, and the connection a listening socket keeps
\* for the image to accept; -1 is none.
OwnOf(p) == IF p.live /\ p.sockState # "Invalid" THEN p.s ELSE -1
SpareOf(p) == IF p.live /\ p.multiListen /\ p.sockState = "Connected"
              THEN p.acceptedSock ELSE -1

Own(c, fl, sk) == IF c \in File THEN (IF fl[c].open THEN fl[c].fd ELSE -1)
                                ELSE OwnOf(sk[c])
Spare(c, fl, sk) == IF c \in File THEN -1 ELSE SpareOf(sk[c])
Claims(c, fl, sk) == {Own(c, fl, sk), Spare(c, fl, sk)} \ {-1}

HandlerName == {"0", "undefinedHandler"} \cup FileHandlers \cup SocketHandlers

AioType == [enabled : SUBSET Descriptor,
            mask : [Flag -> SUBSET Descriptor],
            handler : [Flag -> [Descriptor -> HandlerName]],
            clientData : [Descriptor -> Client \cup {Null}],
            maxFd : 0 .. MaxDescriptor + 1]

\* maxFd is above every enabled descriptor, and nothing is armed on another.
AioOK(a) ==
    /\ a \in AioType
    /\ \A fd \in a.enabled : fd < a.maxFd
    /\ \A flag \in Flag : a.mask[flag] \subseteq a.enabled

\* What the kernel says of a descriptor.
Sound(w) ==
    /\ w \in OsType
    /\ w.kind = "connecting" => w.input = "none" /\ ~w.room
    /\ w.input = "urgent" => w.kind = "connected"

OsOK(o) ==
    /\ o \in [Descriptor -> OsType]
    /\ \A fd \in Descriptor : Sound(o[fd])
    /\ o[0].kind = "terminal"

IfArmed(a, fd, flag, h) == fd \in a.mask[flag] => a.handler[flag][fd] = h
ArmedAs(a, fd, flag, h) == fd \in a.mask[flag] /\ a.handler[flag][fd] = h
EnabledFor(a, fd, c) == fd \in a.enabled /\ a.clientData[fd] = c

FileOK(c, q, o, a) ==
    q.open =>
      /\ q.fd \in Descriptor /\ EnabledFor(a, q.fd, c)
      /\ o[q.fd].kind = "terminal"
      /\ IfArmed(a, q.fd, "R", "readHandler")
      /\ IfArmed(a, q.fd, "W", "writeHandler")
      /\ q.fd \in a.mask["R"] => q.reads = 1
      /\ q.fd \in a.mask["W"] => q.writes = 1
      /\ q.fd \notin a.mask["X"]

\* What a socket may have armed, and who waits for it, in each of its states.
Unused(p, o, a) ==
    /\ p.awaiting = {} /\ ~p.multiListen
    /\ o[p.s].kind \in {"fresh", "connected"}
    /\ p.s \notin a.mask["R"] /\ p.s \notin a.mask["W"]
    /\ IfArmed(a, p.s, "X", "connectHandler")

Listening(p, o, a) ==
    /\ p.awaiting = {"conn"}
    /\ o[p.s].kind = "listening"
    /\ ArmedAs(a, p.s, "R", "acceptHandler") /\ p.s \notin a.mask["W"]
    /\ IfArmed(a, p.s, "X", "acceptHandler")

Connecting(p, o, a) ==
    /\ p.awaiting = {"conn"} /\ ~p.multiListen
    /\ o[p.s].kind \in {"connecting", "connected", "refused"}
    /\ p.s \notin a.mask["R"] /\ ArmedAs(a, p.s, "W", "connectHandler")
    /\ IfArmed(a, p.s, "X", "connectHandler")

Keeping(p, o, a) ==
    /\ p.awaiting = {} /\ p.multiListen
    /\ o[p.s].kind = "listening"
    /\ p.s \notin a.mask["R"] /\ p.s \notin a.mask["W"]
    /\ IfArmed(a, p.s, "X", "acceptHandler")

Transferring(p, o, a) ==
    /\ p.awaiting \subseteq {"read", "write"} /\ ~p.multiListen
    /\ o[p.s].kind = "connected"
    /\ IfArmed(a, p.s, "R", "dataHandler")
    /\ IfArmed(a, p.s, "W", "dataHandler")
    /\ p.s \in a.mask["X"] =>
          \/ a.handler["X"][p.s] = "dataHandler"
          \/ a.handler["X"][p.s] = "connectHandler" /\ p.awaiting = {}
    /\ "read" \in p.awaiting => p.s \in a.mask["R"]
    /\ "write" \in p.awaiting => p.s \in a.mask["W"]

SockOK(c, p, o, a) ==
    IF ~p.live \/ p.sockState = "Invalid" THEN p.awaiting = {}
    ELSE IF p.s = -1 THEN p.awaiting = {} /\ p.sockState = "Unconnected"
    ELSE \/ p.sockState = "Unconnected" /\ Unused(p, o, a)
         \/ /\ EnabledFor(a, p.s, c)
            /\ \/ p.sockState = "WaitingForConnection"
                  /\ (Listening(p, o, a) \/ Connecting(p, o, a))
               \/ p.sockState = "Connected"
                  /\ (Keeping(p, o, a) \/ Transferring(p, o, a))
               \/ p.sockState = "OtherEndClosed" /\ Transferring(p, o, a)

ClaimsOK(c, fl, sk, o) ==
    /\ Own(c, fl, sk) = Spare(c, fl, sk) => Own(c, fl, sk) = -1
    /\ \A fd \in Claims(c, fl, sk) :
          fd \in Descriptor /\ fd # 0 /\ o[fd].kind # "closed"
    /\ Spare(c, fl, sk) # -1 => o[Spare(c, fl, sk)].kind = "connected"

ClientOK(c, fl, sk, o, a) ==
    /\ c \in File => FileOK(c, fl[c], o, a)
    /\ c \in Socket => SockOK(c, sk[c], o, a)
    /\ ClaimsOK(c, fl, sk, o)

\* An enabled descriptor is the one its client uses.
OwnedAt(fd, fl, sk, a) ==
    fd \in a.enabled =>
        a.clientData[fd] \in Client /\ Own(a.clientData[fd], fl, sk) = fd

Apart(fl, sk) ==
    \A c, d \in Client : c # d => Claims(c, fl, sk) \cap Claims(d, fl, sk) = {}

\* What select found and is still to be dispatched is armed.
ReadyOK(r, o, a) ==
    \A e \in r : /\ e[1] \in a.mask[e[2]]
                 /\ o[e[1]].kind # "connecting"
                 /\ e[2] = "X" => o[e[1]].input = "urgent"

AI(fl, sk, o, a) ==
    /\ fl \in [File -> FileType] /\ sk \in [Socket -> SocketType]
    /\ OsOK(o) /\ AioOK(a)
    /\ \A c \in Client : ClientOK(c, fl, sk, o, a)
    /\ \A fd \in Descriptor : OwnedAt(fd, fl, sk, a)
    /\ Apart(fl, sk)

AInv ==
    /\ AI(file, sock, os, aio)
    /\ ready \subseteq Descriptor \X Flag
    /\ ReadyOK(ready, os, aio)

-----------------------------------------------------------------------------
(* Descriptors.                                                            *)

LEMMA DescriptorFacts ==
    /\ MaxDescriptor \in Nat
    /\ Descriptor \subseteq Nat /\ 0 \in Descriptor /\ -1 \notin Descriptor
    /\ \A fd \in Descriptor : fd <= MaxDescriptor
BY DescriptorAssumption DEF Descriptor

LEMMA ClientFacts ==
    /\ File \subseteq Client /\ Socket \subseteq Client
    /\ \A c \in Client : c \in Socket <=> c \notin File
    /\ Null \notin Client
BY ClientsAssumption DEF Client

\* A set of numbers that is not empty has a least.
LEMMA LeastExists ==
    ASSUME NEW S \in SUBSET Nat, S # {}
    PROVE  \E m \in S : \A n \in S : m <= n
<1>1. PICK m \in S : \A n \in S : ~(<<n, m>> \in OpToRel(<, Nat))
  BY NatLessThanWellFounded, WFMin, Zenon
<1>2. \A n \in S : m <= n
  <2> TAKE n \in S
  <2>1. ~ (n < m)
    BY <1>1 DEF OpToRel
  <2> QED BY <2>1
<1> QED BY <1>2

\* And one of descriptors a last.
LEMMA LastExists ==
    ASSUME NEW S \in SUBSET Descriptor, S # {}
    PROVE  \E m \in S : \A n \in S : n <= m
<1> DEFINE D == {n \in Nat : \E x \in S : n = MaxDescriptor - x}
<1>1. D \in SUBSET Nat /\ D # {}
  <2>1. PICK x \in S : TRUE
    OBVIOUS
  <2>2. MaxDescriptor - x \in D
    BY DescriptorFacts
  <2> QED BY <2>2
<1>2. PICK k \in D : \A n \in D : k <= n
  <2> HIDE DEF D
  <2> QED BY <1>1, LeastExists
<1>3. PICK m \in S : k = MaxDescriptor - m
  BY <1>2
<1>4. ASSUME NEW n \in S PROVE n <= m
  <2>1. MaxDescriptor - n \in D
    BY DescriptorFacts
  <2>2. k <= MaxDescriptor - n
    BY <1>2, <2>1
  <2> QED BY <1>3, <2>2, DescriptorFacts
<1> QED BY <1>4

LEMMA AboveAll ==
    ASSUME NEW S \in SUBSET Descriptor
    PROVE  /\ Above(S) \in 0 .. MaxDescriptor + 1
           /\ \A fd \in S : fd < Above(S)
<1>1. CASE S = {}
  BY <1>1, DescriptorFacts DEF Above
<1>2. CASE S # {}
  <2> DEFINE m == CHOOSE fd \in S : \A n \in S : n <= fd
  <2>1. m \in S /\ \A n \in S : n <= m
    BY <1>2, LastExists
  <2>2. Above(S) = 1 + m
    BY <1>2 DEF Above
  <2> HIDE DEF m
  <2> QED BY <2>1, <2>2, DescriptorFacts
<1> QED BY <1>1, <1>2

LEMMA LowestFree ==
    ASSUME FreeDescriptors # {}
    PROVE  Lowest \in Descriptor /\ os[Lowest].kind = "closed"
<1>1. FreeDescriptors \in SUBSET Nat
  BY DescriptorFacts DEF FreeDescriptors
<1>2. Lowest \in FreeDescriptors
  BY <1>1, LeastExists DEF Lowest
<1> QED BY <1>2 DEF FreeDescriptors, IsOpen

\* The poll starts with the first of what select found: nothing that is ready
\* on the same descriptor precedes it.
LEMMA NextUpFirst ==
    ASSUME ready \subseteq Descriptor \X Flag, ready # {}
    PROVE  NextUp \in ready /\ \A e \in ready \ {NextUp} : Precedes(NextUp, e)
<1> DEFINE Low(f) == IF f = "R" THEN 0 ELSE IF f = "W" THEN 1 ELSE 2
           Code(e) == 3 * e[1] + Low(e[2])
           D == {n \in Nat : \E e \in ready : n = Code(e)}
<1>0. \A e \in ready : /\ e = <<e[1], e[2]>> /\ e[1] \in Nat /\ e[2] \in Flag
                       /\ Low(e[2]) \in 0..2 /\ Code(e) \in Nat
  <2> TAKE e \in ready
  <2>1. e \in Descriptor \X Flag
    OBVIOUS
  <2>2. e = <<e[1], e[2]>> /\ e[1] \in Descriptor /\ e[2] \in Flag
    BY <2>1
  <2>3. e[1] \in Nat
    BY <2>2, DescriptorFacts
  <2>4. Low(e[2]) \in 0..2
    BY <2>2 DEF Flag
  <2>5. Code(e) \in Nat
    BY <2>3, <2>4
  <2> QED BY <2>2, <2>3, <2>4, <2>5
<1>1. D \in SUBSET Nat /\ D # {}
  BY <1>0
<1>2. PICK k \in D : \A n \in D : k <= n
  <2> HIDE DEF D
  <2> QED BY <1>1, LeastExists
<1>3. PICK m \in ready : k = Code(m)
  BY <1>2
<1>4. ASSUME NEW e \in ready, e # m PROVE Precedes(m, e)
  <2>1. Code(m) <= Code(e)
    BY <1>0, <1>2, <1>3
  <2>2. m[1] < e[1] \/ (m[1] = e[1] /\ Low(m[2]) <= Low(e[2]))
    <3> HIDE DEF Low
    <3> QED BY <1>0, <2>1
  <2>3. CASE m[1] < e[1]
    BY <2>3 DEF Precedes
  <2>4. CASE m[1] = e[1] /\ Low(m[2]) <= Low(e[2])
    <3>1. m[2] # e[2]
      BY <1>0, <1>4, <2>4
    <3> QED BY <1>0, <2>4, <3>1 DEF Precedes, Flag
  <2> QED BY <2>2, <2>3, <2>4
<1>5. \E e \in ready : \A n \in ready \ {e} : Precedes(e, n)
  BY <1>4
<1> QED BY <1>5 DEF NextUp

-----------------------------------------------------------------------------
(* What the functions of aio.c do to one descriptor, and leave alone.      *)

SameAt(a, b, fd) ==
    /\ fd \in b.enabled <=> fd \in a.enabled
    /\ b.clientData[fd] = a.clientData[fd]
    /\ \A flag \in Flag : /\ fd \in b.mask[flag] <=> fd \in a.mask[flag]
                          /\ b.handler[flag][fd] = a.handler[flag][fd]

LEMMA Enable ==
    ASSUME NEW a, AioOK(a), NEW fd \in Descriptor, NEW c \in Client
    PROVE  LET b == aioEnable(a, fd, c) IN
           /\ AioOK(b)
           /\ fd \in a.enabled => b = a
           /\ fd \notin a.enabled =>
                 /\ EnabledFor(b, fd, c)
                 /\ \A flag \in Flag : fd \notin b.mask[flag]
                 /\ \A x \in Descriptor : x # fd => SameAt(a, b, x)
<1> DEFINE b == aioEnable(a, fd, c)
<1>0. ~(fd < 0) /\ fd \in Nat /\ fd <= MaxDescriptor
  BY DescriptorFacts
<1>1. CASE fd \in a.enabled
  BY <1>0, <1>1 DEF aioEnable
<1>2. CASE fd \notin a.enabled
  <2>1. /\ b.enabled = a.enabled \cup {fd}
        /\ b.mask = [flag \in Flag |-> a.mask[flag] \ {fd}]
        /\ b.handler = [flag \in Flag |->
                          [a.handler[flag] EXCEPT ![fd] = "undefinedHandler"]]
        /\ b.clientData = [a.clientData EXCEPT ![fd] = c]
        /\ b.maxFd = IF fd >= a.maxFd THEN fd + 1 ELSE a.maxFd
    BY <1>0, <1>2 DEF aioEnable
  <2>2. b = [enabled |-> b.enabled, mask |-> b.mask, handler |-> b.handler,
             clientData |-> b.clientData, maxFd |-> b.maxFd]
    BY <1>0, <1>2 DEF aioEnable
  <2>3. a.maxFd \in Nat /\ a.maxFd <= MaxDescriptor + 1
    BY DescriptorFacts DEF AioOK, AioType
  <2>4. b.maxFd \in 0 .. MaxDescriptor + 1 /\ fd < b.maxFd
        /\ a.maxFd <= b.maxFd
    BY <1>0, <2>1, <2>3, DescriptorFacts
  <2>5. /\ b.enabled \in SUBSET Descriptor
        /\ b.mask \in [Flag -> SUBSET Descriptor]
        /\ b.clientData \in [Descriptor -> Client \cup {Null}]
    BY <2>1 DEF AioOK, AioType
  <2>6. b.handler \in [Flag -> [Descriptor -> HandlerName]]
    BY <2>1 DEF AioOK, AioType, HandlerName
  <2>7. b \in AioType
    <3> HIDE DEF b
    <3> QED BY <2>2, <2>4, <2>5, <2>6 DEF AioType
  <2>8. \A x \in b.enabled : x < b.maxFd
    <3> TAKE x \in b.enabled
    <3>1. CASE x = fd
      BY <3>1, <2>4
    <3>2. CASE x # fd
      <4>1. x \in Descriptor /\ x < a.maxFd /\ x \in Nat
        BY <2>1, <2>5, <3>2, DescriptorFacts DEF AioOK
      <4> HIDE DEF b
      <4> QED BY <4>1, <2>3, <2>4, DescriptorFacts
    <3> QED BY <3>1, <3>2
  <2>9. \A flag \in Flag : b.mask[flag] \subseteq b.enabled
    BY <2>1 DEF AioOK
  <2>10. AioOK(b)
    <3> HIDE DEF b
    <3> QED BY <2>7, <2>8, <2>9 DEF AioOK
  <2>11. \A x \in Descriptor : x # fd => SameAt(a, b, x)
    BY <2>1 DEF SameAt, AioOK, AioType
  <2>12. EnabledFor(b, fd, c) /\ \A flag \in Flag : fd \notin b.mask[flag]
    BY <2>1 DEF EnabledFor, AioOK, AioType
  <2> QED BY <1>2, <2>10, <2>11, <2>12
<1> QED BY <1>1, <1>2

LEMMA Handle ==
    ASSUME NEW a, AioOK(a), NEW fd \in a.enabled, NEW h \in HandlerName,
           NEW flags \in SUBSET Flag
    PROVE  LET b == aioHandle(a, fd, h, flags) IN
           /\ AioOK(b)
           /\ b.enabled = a.enabled /\ b.clientData = a.clientData
           /\ \A flag \in flags : ArmedAs(b, fd, flag, h)
           /\ \A flag \in Flag \ flags :
                 /\ fd \in b.mask[flag] <=> fd \in a.mask[flag]
                 /\ b.handler[flag][fd] = a.handler[flag][fd]
           /\ \A x \in Descriptor : x # fd => SameAt(a, b, x)
<1> DEFINE b == aioHandle(a, fd, h, flags)
<1>0. fd \in Descriptor /\ ~(fd < 0)
  BY DescriptorFacts DEF AioOK, AioType
<1>1. b = [a EXCEPT
            !.mask = [flag \in Flag |-> IF flag \in flags
                                        THEN a.mask[flag] \cup {fd}
                                        ELSE a.mask[flag]],
            !.handler = [flag \in Flag |->
                            IF flag \in flags
                            THEN [a.handler[flag] EXCEPT ![fd] = h]
                            ELSE a.handler[flag]]]
  BY <1>0 DEF aioHandle
<1>2. /\ b.enabled = a.enabled /\ b.clientData = a.clientData
      /\ b.maxFd = a.maxFd
      /\ b.mask = [flag \in Flag |-> IF flag \in flags
                                     THEN a.mask[flag] \cup {fd}
                                     ELSE a.mask[flag]]
      /\ b.handler = [flag \in Flag |->
                         IF flag \in flags
                         THEN [a.handler[flag] EXCEPT ![fd] = h]
                         ELSE a.handler[flag]]
      /\ b = [enabled |-> b.enabled, mask |-> b.mask, handler |-> b.handler,
              clientData |-> b.clientData, maxFd |-> b.maxFd]
  BY <1>1 DEF AioOK, AioType
<1>3. b.handler \in [Flag -> [Descriptor -> HandlerName]]
  BY <1>2 DEF AioOK, AioType
<1>4. b.mask \in [Flag -> SUBSET Descriptor]
  BY <1>0, <1>2 DEF AioOK, AioType
<1>5. b \in AioType
  <2>1. b.enabled \in SUBSET Descriptor /\ b.maxFd \in 0 .. MaxDescriptor + 1
        /\ b.clientData \in [Descriptor -> Client \cup {Null}]
    BY <1>2 DEF AioOK, AioType
  <2> HIDE DEF b
  <2> QED BY <1>2, <1>3, <1>4, <2>1 DEF AioType
<1>6. AioOK(b)
  <2> HIDE DEF b
  <2> QED BY <1>2, <1>5 DEF AioOK
<1> HIDE DEF b
<1>7. \A x \in Descriptor : x # fd => SameAt(a, b, x)
  BY <1>0, <1>2 DEF SameAt, AioOK, AioType
<1>8. \A flag \in flags : ArmedAs(b, fd, flag, h)
  BY <1>0, <1>2 DEF ArmedAs, AioOK, AioType
<1>9. \A flag \in Flag \ flags :
         /\ fd \in b.mask[flag] <=> fd \in a.mask[flag]
         /\ b.handler[flag][fd] = a.handler[flag][fd]
  BY <1>2
<1> QED BY <1>2, <1>6, <1>7, <1>8, <1>9 DEF b

LEMMA Disable ==
    ASSUME NEW a, AioOK(a), NEW fd \in Descriptor
    PROVE  LET b == aioDisable(a, fd) IN
           /\ AioOK(b)
           /\ fd \notin b.enabled
           /\ \A flag \in Flag : fd \notin b.mask[flag]
           /\ \A x \in Descriptor : x # fd => SameAt(a, b, x)
<1> DEFINE b == aioDisable(a, fd)
           S == {e \in a.enabled \ {fd} : e < a.maxFd}
<1>0. ~(fd < 0)
  BY DescriptorFacts
<1>11. b = [enabled |-> a.enabled \ {fd},
            mask |-> [flag \in Flag |-> a.mask[flag] \ {fd}],
            handler |-> [flag \in Flag |->
                           [a.handler[flag] EXCEPT ![fd] = "0"]],
            clientData |-> [a.clientData EXCEPT ![fd] = Null],
            maxFd |-> Above(S)]
  BY <1>0 DEF aioDisable
<1>1. /\ b.enabled = a.enabled \ {fd}
      /\ b.mask = [flag \in Flag |-> a.mask[flag] \ {fd}]
      /\ b.handler = [flag \in Flag |-> [a.handler[flag] EXCEPT ![fd] = "0"]]
      /\ b.clientData = [a.clientData EXCEPT ![fd] = Null]
      /\ b.maxFd = Above(S)
      /\ b = [enabled |-> b.enabled, mask |-> b.mask, handler |-> b.handler,
              clientData |-> b.clientData, maxFd |-> b.maxFd]
  <2> HIDE DEF b, S
  <2> QED BY <1>11
<1>2. S \in SUBSET Descriptor /\ S = b.enabled
  <2> HIDE DEF b
  <2> QED BY <1>1 DEF AioOK, AioType
<1> HIDE DEF b, S
<1>3. /\ b.maxFd \in 0 .. MaxDescriptor + 1
      /\ \A x \in b.enabled : x < b.maxFd
  BY <1>1, <1>2, AboveAll
<1>4. b.handler \in [Flag -> [Descriptor -> HandlerName]]
  BY <1>1 DEF AioOK, AioType, HandlerName
<1>5. b \in AioType
  <2>1. /\ b.enabled \in SUBSET Descriptor
        /\ b.mask \in [Flag -> SUBSET Descriptor]
        /\ b.clientData \in [Descriptor -> Client \cup {Null}]
    BY <1>1 DEF AioOK, AioType
  <2> QED BY <1>1, <1>3, <1>4, <2>1 DEF AioType
<1>6. AioOK(b)
  BY <1>1, <1>3, <1>5 DEF AioOK
<1>7. \A x \in Descriptor : x # fd => SameAt(a, b, x)
  BY <1>1 DEF SameAt, AioOK, AioType
<1>8. fd \notin b.enabled /\ \A flag \in Flag : fd \notin b.mask[flag]
  BY <1>1
<1> QED BY <1>6, <1>7, <1>8 DEF b

LEMMA Disarm ==
    ASSUME AioOK(aio), NEW fd \in Descriptor, NEW flag \in Flag
    PROVE  LET b == Disarmed(fd, flag) IN
           /\ AioOK(b)
           /\ b.enabled = aio.enabled /\ b.clientData = aio.clientData
           /\ fd \notin b.mask[flag]
           /\ \A g \in Flag \ {flag} :
                 /\ fd \in b.mask[g] <=> fd \in aio.mask[g]
                 /\ b.handler[g][fd] = aio.handler[g][fd]
           /\ \A x \in Descriptor : x # fd => SameAt(aio, b, x)
<1> DEFINE b == Disarmed(fd, flag)
<1>0. b = [aio EXCEPT !.mask[flag] = @ \ {fd},
                     !.handler[flag][fd] = "undefinedHandler"]
  BY DEF Disarmed
<1> HIDE DEF b
<1>1. /\ b.enabled = aio.enabled /\ b.clientData = aio.clientData
      /\ b.maxFd = aio.maxFd
      /\ b.mask = [aio.mask EXCEPT ![flag] = @ \ {fd}]
      /\ b.handler = [aio.handler EXCEPT ![flag][fd] = "undefinedHandler"]
      /\ b = [enabled |-> b.enabled, mask |-> b.mask, handler |-> b.handler,
              clientData |-> b.clientData, maxFd |-> b.maxFd]
  BY <1>0 DEF AioOK, AioType
<1>2. b.handler \in [Flag -> [Descriptor -> HandlerName]]
  BY <1>1 DEF AioOK, AioType, HandlerName
<1>3. b.mask \in [Flag -> SUBSET Descriptor]
      /\ \A g \in Flag : b.mask[g] \subseteq b.enabled
  BY <1>1 DEF AioOK, AioType
<1>4. AioOK(b)
  BY <1>1, <1>2, <1>3 DEF AioOK, AioType
<1>5. \A x \in Descriptor : x # fd => SameAt(aio, b, x)
  BY <1>1 DEF SameAt, AioOK, AioType
<1>6. /\ fd \notin b.mask[flag]
      /\ \A g \in Flag \ {flag} :
            /\ fd \in b.mask[g] <=> fd \in aio.mask[g]
            /\ b.handler[g][fd] = aio.handler[g][fd]
  BY <1>1 DEF AioOK, AioType
<1> QED BY <1>1, <1>4, <1>5, <1>6 DEF b

-----------------------------------------------------------------------------
(* Steps that touch few clients and few descriptors.                       *)

\* The clients C are changed, and the descriptors T: nobody else claims one of
\* these, what is enabled outside T is not of C, and C claims nothing new
\* outside T.
Touches(C, T, fl, sk, o, b) ==
    /\ C \subseteq Client /\ T \subseteq Descriptor
    /\ \A x \in Descriptor \ T : o[x] = os[x] /\ SameAt(aio, b, x)
    /\ \A f \in File \ C : fl[f] = file[f]
    /\ \A s \in Socket \ C : sk[s] = sock[s]
    /\ \A c \in Client \ C : Claims(c, file, sock) \cap T = {}
    /\ \A c \in C : /\ Own(c, file, sock) \in T \cup {-1}
                    /\ Claims(c, fl, sk) \subseteq T \cup Claims(c, file, sock)

LEMMA Claimed ==
    ASSUME NEW c \in Client, NEW fl, NEW sk, NEW x, x # -1
    PROVE  /\ Own(c, fl, sk) = x => x \in Claims(c, fl, sk)
           /\ Spare(c, fl, sk) = x => x \in Claims(c, fl, sk)
BY DEF Claims

\* A client that is not touched is as sound as before.
LEMMA Untouched ==
    ASSUME AI(file, sock, os, aio),
           NEW fl, NEW sk, NEW o, NEW b, NEW C, NEW T,
           Touches(C, T, fl, sk, o, b),
           NEW c \in Client \ C
    PROVE  /\ Own(c, fl, sk) = Own(c, file, sock)
           /\ Spare(c, fl, sk) = Spare(c, file, sock)
           /\ Claims(c, fl, sk) = Claims(c, file, sock)
           /\ ClientOK(c, fl, sk, o, b)
<1>1. /\ c \in File => fl[c] = file[c]
      /\ c \in Socket => sk[c] = sock[c]
      /\ c \in Client /\ (c \in Socket <=> c \notin File)
  BY ClientFacts DEF Touches, Client
<1>2. /\ Own(c, fl, sk) = Own(c, file, sock)
      /\ Spare(c, fl, sk) = Spare(c, file, sock)
  BY <1>1 DEF Own, Spare
<1>3. Claims(c, fl, sk) = Claims(c, file, sock)
  BY <1>2 DEF Claims
<1>4. ClientOK(c, file, sock, os, aio)
  BY DEF AI
<1>5. \A x \in Claims(c, file, sock) :
         x \in Descriptor /\ o[x] = os[x] /\ SameAt(aio, b, x)
  BY <1>4 DEF Touches, ClientOK, ClaimsOK
<1>6. ClaimsOK(c, fl, sk, o)
  <2>1. Spare(c, file, sock) # -1 =>
           Spare(c, file, sock) \in Claims(c, file, sock)
    BY <1>1, Claimed
  <2> QED BY <1>2, <1>3, <1>4, <1>5, <2>1 DEF ClientOK, ClaimsOK
<1>7. ASSUME c \in File PROVE FileOK(c, fl[c], o, b)
  <2> DEFINE q == file[c]
  <2>1. FileOK(c, q, os, aio) /\ fl[c] = q
    BY <1>1, <1>4, <1>7 DEF ClientOK
  <2>2. ASSUME q.open PROVE o[q.fd] = os[q.fd] /\ SameAt(aio, b, q.fd)
    <3>1. Own(c, file, sock) = q.fd /\ q.fd \in Descriptor
      BY <1>7, <2>1, <2>2 DEF Own, FileOK
    <3>2. q.fd \in Claims(c, file, sock)
      BY <1>1, <3>1, Claimed, DescriptorFacts
    <3> QED BY <1>5, <3>2
  <2> HIDE DEF q
  <2> QED BY <2>1, <2>2 DEF FileOK, SameAt, EnabledFor, IfArmed, Flag
<1>8. ASSUME c \in Socket PROVE SockOK(c, sk[c], o, b)
  <2> DEFINE p == sock[c]
  <2>1. SockOK(c, p, os, aio) /\ sk[c] = p
    BY <1>1, <1>4, <1>8 DEF ClientOK
  <2>2. CASE ~p.live \/ p.sockState = "Invalid" \/ p.s = -1
    BY <2>1, <2>2 DEF SockOK
  <2>3. CASE ~(~p.live \/ p.sockState = "Invalid" \/ p.s = -1)
    <3>1. Own(c, file, sock) = p.s
      BY <1>1, <1>8, <2>3 DEF Own, OwnOf
    <3>2. p.s \in Claims(c, file, sock)
      BY <1>1, <2>3, <3>1, Claimed
    <3>3. o[p.s] = os[p.s] /\ SameAt(aio, b, p.s)
      BY <1>5, <3>2
    <3> HIDE DEF p
    <3>4. \A flag \in Flag : /\ p.s \in b.mask[flag] <=> p.s \in aio.mask[flag]
                             /\ b.handler[flag][p.s] = aio.handler[flag][p.s]
      BY <3>3 DEF SameAt
    <3>5. EnabledFor(aio, p.s, c) <=> EnabledFor(b, p.s, c)
      BY <3>3 DEF SameAt, EnabledFor
    <3>6. /\ Unused(p, os, aio) => Unused(p, o, b)
          /\ Listening(p, os, aio) => Listening(p, o, b)
          /\ Connecting(p, os, aio) => Connecting(p, o, b)
          /\ Keeping(p, os, aio) => Keeping(p, o, b)
          /\ Transferring(p, os, aio) => Transferring(p, o, b)
      BY <3>3, <3>4 DEF Unused, Listening, Connecting, Keeping, Transferring,
                        IfArmed, ArmedAs, Flag
    <3> QED BY <2>1, <2>3, <3>5, <3>6 DEF SockOK
  <2> QED BY <2>2, <2>3
<1> QED BY <1>2, <1>3, <1>6, <1>7, <1>8 DEF ClientOK

\* So it is enough to look at what is touched.
LEMMA Step ==
    ASSUME AI(file, sock, os, aio),
           NEW fl \in [File -> FileType], NEW sk \in [Socket -> SocketType],
           NEW o, NEW b, OsOK(o), AioOK(b), NEW C, NEW T,
           Touches(C, T, fl, sk, o, b),
           \A c \in C : ClientOK(c, fl, sk, o, b),
           \A c, d \in C : c # d =>
               Claims(c, fl, sk) \cap Claims(d, fl, sk) = {},
           \A x \in T : OwnedAt(x, fl, sk, b)
    PROVE  AI(fl, sk, o, b)
<1>1. \A c \in Client : ClientOK(c, fl, sk, o, b)
  BY Untouched
<1>2. ASSUME NEW x \in Descriptor PROVE OwnedAt(x, fl, sk, b)
  <2>1. CASE x \in T
    BY <2>1
  <2>2. CASE x \notin T
    <3> SUFFICES ASSUME x \in b.enabled
                 PROVE  /\ b.clientData[x] \in Client
                        /\ Own(b.clientData[x], fl, sk) = x
      BY DEF OwnedAt
    <3> DEFINE c == b.clientData[x]
    <3>1. x \in aio.enabled /\ aio.clientData[x] = c
      BY <2>2 DEF Touches, SameAt
    <3>2. c \in Client /\ Own(c, file, sock) = x
      BY <3>1 DEF AI, OwnedAt
    <3>3. x # -1
      BY DescriptorFacts
    <3>4. c \notin C
      BY <2>2, <3>2, <3>3 DEF Touches
    <3> QED BY <3>2, <3>4, Untouched
  <2> QED BY <2>1, <2>2
<1>3. ASSUME NEW c \in C, NEW d \in Client \ C
      PROVE  Claims(c, fl, sk) \cap Claims(d, fl, sk) = {}
  <2>0. d \in Client /\ c \in Client /\ c # d
    BY DEF Touches
  <2>1. Claims(d, fl, sk) = Claims(d, file, sock)
    BY Untouched
  <2>2. Claims(c, fl, sk) \subseteq T \cup Claims(c, file, sock)
    BY DEF Touches
  <2>3. Claims(d, file, sock) \cap T = {}
    BY DEF Touches
  <2>4. Claims(c, file, sock) \cap Claims(d, file, sock) = {}
    BY <2>0 DEF AI, Apart
  <2> QED BY <2>1, <2>2, <2>3, <2>4
<1>4. ASSUME NEW c \in Client \ C, NEW d \in Client \ C, c # d
      PROVE  Claims(c, fl, sk) \cap Claims(d, fl, sk) = {}
  <2>1. Claims(c, file, sock) \cap Claims(d, file, sock) = {}
    BY <1>4 DEF AI, Apart
  <2> QED BY <2>1, Untouched
<1>5. Apart(fl, sk)
  BY <1>3, <1>4 DEF Apart
<1> QED BY <1>1, <1>2, <1>5 DEF AI

\* The descriptor a client uses, or one it may take, is nobody else's.
MayUse(c, x) == \/ Own(c, file, sock) = x
                \/ Own(c, file, sock) = -1 /\ os[x].kind = "closed"

LEMMA Mine ==
    ASSUME AI(file, sock, os, aio),
           NEW c \in Client, NEW x \in Descriptor, MayUse(c, x)
    PROVE  /\ x # 0 /\ x # -1
           /\ \A d \in Client \ {c} : x \notin Claims(d, file, sock)
           /\ Spare(c, file, sock) # x
<1>1. x # -1
  BY DescriptorFacts
<1>2. ClaimsOK(c, file, sock, os)
  BY DEF AI, ClientOK
<1>3. CASE Own(c, file, sock) = x
  <2>1. x \in Claims(c, file, sock)
    BY <1>1, <1>3, Claimed
  <2>2. \A d \in Client \ {c} : x \notin Claims(d, file, sock)
    BY <2>1 DEF AI, Apart
  <2> QED BY <1>1, <1>2, <1>3, <2>1, <2>2 DEF ClaimsOK
<1>4. CASE os[x].kind = "closed"
  <2>1. x # 0
    BY <1>4 DEF AI, OsOK
  <2>2. \A d \in Client : x \notin Claims(d, file, sock)
    BY <1>4 DEF AI, ClientOK, ClaimsOK
  <2>3. Spare(c, file, sock) # x
    BY <1>1, <2>2, Claimed
  <2> QED BY <1>1, <2>1, <2>2, <2>3
<1> QED BY <1>3, <1>4 DEF MayUse

LEMMA FreeOne ==
    ASSUME AI(file, sock, os, aio), FreeDescriptors # {}
    PROVE  /\ Lowest \in Descriptor /\ os[Lowest].kind = "closed"
           /\ Lowest # 0 /\ Lowest # -1
           /\ Lowest \notin aio.enabled
           /\ \A c \in Client : Lowest \notin Claims(c, file, sock)
<1>1. Lowest \in Descriptor /\ os[Lowest].kind = "closed"
  BY LowestFree
<1>2. Lowest # 0 /\ Lowest # -1
  BY <1>1, DescriptorFacts DEF AI, OsOK
<1>3. \A c \in Client : Lowest \notin Claims(c, file, sock)
  BY <1>1 DEF AI, ClientOK, ClaimsOK
<1>4. Lowest \notin aio.enabled
  <2> SUFFICES ASSUME Lowest \in aio.enabled PROVE FALSE
    OBVIOUS
  <2> DEFINE c == aio.clientData[Lowest]
  <2>1. c \in Client /\ Own(c, file, sock) = Lowest
    BY <1>1 DEF AI, OwnedAt
  <2> QED BY <1>2, <1>3, <2>1, Claimed
<1> QED BY <1>1, <1>2, <1>3, <1>4

\* Who enables its descriptor is its client, whether it was enabled before or
\* not.
LEMMA EnableOwn ==
    ASSUME AI(file, sock, os, aio),
           NEW c \in Client, NEW x \in Descriptor, Own(c, file, sock) = x
    PROVE  LET b == aioEnable(aio, x, c) IN
           /\ AioOK(b) /\ EnabledFor(b, x, c)
           /\ \A flag \in Flag : x \in b.mask[flag] =>
                  /\ x \in aio.mask[flag]
                  /\ b.handler[flag][x] = aio.handler[flag][x]
           /\ \A y \in Descriptor \ {x} : SameAt(aio, b, y)
<1> DEFINE b == aioEnable(aio, x, c)
<1>1. AioOK(aio)
  BY DEF AI
<1>2. CASE x \in aio.enabled
  <2>1. b = aio
    BY <1>1, <1>2, Enable
  <2> DEFINE d == aio.clientData[x]
  <2>2. d \in Client /\ Own(d, file, sock) = x
    BY <1>2 DEF AI, OwnedAt
  <2>3. x # -1
    BY DescriptorFacts
  <2>4. x \in Claims(d, file, sock) /\ x \in Claims(c, file, sock)
    BY <2>2, <2>3, Claimed
  <2>5. d = c
    BY <2>2, <2>4 DEF AI, Apart
  <2>6. EnabledFor(aio, x, c) /\ \A y \in Descriptor : SameAt(aio, aio, y)
    BY <1>2, <2>5 DEF EnabledFor, SameAt
  <2> QED BY <1>1, <2>1, <2>6
<1>3. CASE x \notin aio.enabled
  BY <1>1, <1>3, Enable
<1> QED BY <1>2, <1>3

\* A file opens, closes or goes on.
LEMMA FileStep ==
    ASSUME AI(file, sock, os, aio),
           NEW c \in File, NEW q \in FileType, NEW x \in Descriptor,
           NEW o, NEW b, OsOK(o), AioOK(b),
           MayUse(c, x),
           \A y \in Descriptor \ {x} : o[y] = os[y] /\ SameAt(aio, b, y),
           FileOK(c, q, o, b),
           IF q.open THEN q.fd = x ELSE x \notin b.enabled
    PROVE  AI([file EXCEPT ![c] = q], sock, o, b)
<1> DEFINE fl == [file EXCEPT ![c] = q]
<1>1. /\ fl \in [File -> FileType] /\ fl[c] = q
      /\ \A f \in File \ {c} : fl[f] = file[f]
  BY DEF AI
<1>2. c \in Client
  BY ClientFacts
<1>3. /\ x # 0 /\ x # -1
      /\ \A d \in Client \ {c} : x \notin Claims(d, file, sock)
  BY <1>2, Mine
<1> HIDE DEF fl
<1>4. Own(c, fl, sock) = (IF q.open THEN x ELSE -1) /\ Spare(c, fl, sock) = -1
  BY <1>1 DEF Own, Spare
<1>5. Claims(c, fl, sock) = IF q.open THEN {x} ELSE {}
  BY <1>3, <1>4 DEF Claims
<1>6. ClaimsOK(c, fl, sock, o)
  BY <1>3, <1>4, <1>5 DEF ClaimsOK, FileOK
<1>7. ClientOK(c, fl, sock, o, b)
  BY <1>1, <1>2, <1>6, ClientFacts DEF ClientOK
<1>8. OwnedAt(x, fl, sock, b)
  BY <1>1, <1>2, <1>4 DEF OwnedAt, FileOK, EnabledFor
<1>9. Touches({c}, {x}, fl, sock, o, b)
  <2>1. Own(c, file, sock) \in {x} \cup {-1}
    BY DEF MayUse
  <2> QED BY <1>1, <1>2, <1>3, <1>5, <2>1 DEF Touches
<1>10. sock \in [Socket -> SocketType]
  BY DEF AI
<1>11. AI(fl, sock, o, b)
  BY <1>1, <1>7, <1>8, <1>9, <1>10, Step
<1> QED BY <1>11 DEF fl

\* A socket opens, closes or goes on, keeping what it has accepted or not.
LEMMA SockStep ==
    ASSUME AI(file, sock, os, aio),
           NEW c \in Socket, NEW p \in SocketType, NEW x \in Descriptor,
           NEW o, NEW b, OsOK(o), AioOK(b),
           MayUse(c, x),
           \A y \in Descriptor \ {x} : o[y] = os[y] /\ SameAt(aio, b, y),
           SockOK(c, p, o, b),
           SpareOf(p) \in {SpareOf(sock[c]), -1},
           \/ OwnOf(p) = x /\ o[x].kind # "closed"
              /\ (x \in b.enabled => b.clientData[x] = c)
           \/ OwnOf(p) = -1 /\ x \notin b.enabled
    PROVE  AI(file, [sock EXCEPT ![c] = p], o, b)
<1> DEFINE sk == [sock EXCEPT ![c] = p]
<1>1. /\ sk \in [Socket -> SocketType] /\ sk[c] = p
      /\ \A s \in Socket \ {c} : sk[s] = sock[s]
  BY DEF AI
<1>2. c \in Client /\ c \notin File
  BY ClientFacts
<1>3. /\ x # 0 /\ x # -1
      /\ \A d \in Client \ {c} : x \notin Claims(d, file, sock)
      /\ Spare(c, file, sock) # x
  BY <1>2, Mine
<1> HIDE DEF sk
<1>4. Own(c, file, sk) = OwnOf(p) /\ Spare(c, file, sk) = SpareOf(p)
  BY <1>1, <1>2 DEF Own, Spare
<1>5. Own(c, file, sk) \in {x, -1}
      /\ Spare(c, file, sk) \in {Spare(c, file, sock), -1}
  BY <1>2, <1>4 DEF Spare
<1>6. Claims(c, file, sk) \subseteq {x} \cup Claims(c, file, sock)
  BY <1>5 DEF Claims
<1>7. ClaimsOK(c, file, sk, o)
  <2>1. ClaimsOK(c, file, sock, os)
    BY <1>2 DEF AI, ClientOK
  <2>2. Own(c, file, sk) = Spare(c, file, sk) => Own(c, file, sk) = -1
    BY <1>3, <1>5
  <2>3. ASSUME NEW y \in Claims(c, file, sk)
        PROVE  y \in Descriptor /\ y # 0 /\ o[y].kind # "closed"
    <3>1. CASE y = x
      <4>1. Own(c, file, sk) = x
        BY <1>3, <1>5, <2>3, <3>1 DEF Claims
      <4> QED BY <1>3, <1>4, <3>1, <4>1
    <3>2. CASE y # x
      <4>1. y \in Claims(c, file, sock)
        BY <1>6, <2>3, <3>2
      <4> QED BY <2>1, <3>2, <4>1 DEF ClaimsOK
    <3> QED BY <3>1, <3>2
  <2>4. ASSUME Spare(c, file, sk) # -1
        PROVE  o[Spare(c, file, sk)].kind = "connected"
    <3>1. Spare(c, file, sk) = Spare(c, file, sock)
      BY <1>5, <2>4
    <3>2. Spare(c, file, sk) \in Claims(c, file, sock)
      BY <1>2, <2>4, <3>1, Claimed
    <3>3. /\ Spare(c, file, sk) \in Descriptor \ {x}
          /\ os[Spare(c, file, sk)].kind = "connected"
      BY <1>3, <2>1, <2>4, <3>1, <3>2 DEF ClaimsOK
    <3> QED BY <3>3
  <2> QED BY <2>2, <2>3, <2>4 DEF ClaimsOK
<1>8. ClientOK(c, file, sk, o, b)
  BY <1>1, <1>2, <1>7 DEF ClientOK
<1>9. OwnedAt(x, file, sk, b)
  BY <1>2, <1>3, <1>4 DEF OwnedAt
<1>10. Touches({c}, {x}, file, sk, o, b)
  <2>1. Own(c, file, sock) \in {x} \cup {-1}
    BY DEF MayUse
  <2> QED BY <1>1, <1>2, <1>3, <1>6, <2>1 DEF Touches
<1>11. file \in [File -> FileType]
  BY DEF AI
<1>12. AI(file, sk, o, b)
  BY <1>1, <1>8, <1>9, <1>10, <1>11, Step
<1> QED BY <1>12 DEF sk

-----------------------------------------------------------------------------
(* What the kernel knows.                                                  *)

LEMMA OpenedSound ==
    \A kind \in Kind : Sound(Opened(kind)) /\ Opened(kind).kind = kind
<1> TAKE kind \in Kind
<1>1. /\ Opened(kind).kind = kind /\ Opened(kind).input = "none"
      /\ kind = "connecting" => ~Opened(kind).room
  BY DEF Opened
<1>2. (kind \in {"terminal", "connected"}) \in BOOLEAN
  OBVIOUS
<1>3. Opened(kind) \in OsType
  BY <1>2 DEF Opened, OsType
<1> QED BY <1>1, <1>3 DEF Sound

LEMMA OsStep ==
    ASSUME NEW o, OsOK(o), NEW x \in Descriptor, NEW w, Sound(w),
           x = 0 => w.kind = "terminal"
    PROVE  /\ OsOK([o EXCEPT ![x] = w])
           /\ [o EXCEPT ![x] = w][x] = w
           /\ \A y \in Descriptor \ {x} : [o EXCEPT ![x] = w][y] = o[y]
<1>1. w \in OsType /\ o \in [Descriptor -> OsType] /\ o[0].kind = "terminal"
  BY DEF OsOK, Sound
<1> DEFINE n == [o EXCEPT ![x] = w]
<1>2. /\ n \in [Descriptor -> OsType] /\ n[x] = w
      /\ \A y \in Descriptor \ {x} : n[y] = o[y]
  BY <1>1
<1>3. n[0].kind = "terminal"
  BY <1>1, <1>2, DescriptorFacts
<1>4. \A y \in Descriptor : Sound(n[y])
  BY <1>2 DEF OsOK
<1> HIDE DEF n
<1>5. OsOK(n)
  BY <1>1, <1>2, <1>3, <1>4 DEF OsOK
<1> QED BY <1>2, <1>5 DEF n

\* A connection is made or refused; else the kind of a descriptor is what a
\* client made it.
LEMMA KindsKept ==
    ASSUME AI(file, sock, os, aio), NEW o, OsOK(o),
           \A x \in Descriptor :
              \/ o[x].kind = os[x].kind
              \/ os[x].kind = "connecting"
                 /\ o[x].kind \in {"connected", "refused"}
    PROVE  AI(file, sock, o, aio)
<1>1. ASSUME NEW c \in Client PROVE ClientOK(c, file, sock, o, aio)
  <2>1. ClientOK(c, file, sock, os, aio)
    BY DEF AI
  <2>2. ClaimsOK(c, file, sock, o)
    <3>1. Spare(c, file, sock) # -1 =>
             Spare(c, file, sock) \in Claims(c, file, sock)
      BY Claimed
    <3> QED BY <2>1, <3>1 DEF ClientOK, ClaimsOK
  <2>3. ASSUME c \in Socket PROVE SockOK(c, sock[c], o, aio)
    <3> DEFINE p == sock[c]
    <3> SUFFICES SockOK(c, p, o, aio)
      OBVIOUS
    <3>1. SockOK(c, p, os, aio)
      BY <2>1, <2>3 DEF ClientOK
    <3>2. p.s \in Descriptor \cup {-1}
      BY <2>3 DEF AI, SocketType
    <3> HIDE DEF p
    <3>3. CASE ~p.live \/ p.sockState = "Invalid" \/ p.s = -1
      BY <3>1, <3>3 DEF SockOK
    <3>4. CASE ~(~p.live \/ p.sockState = "Invalid" \/ p.s = -1)
      <4>1. /\ Unused(p, os, aio) => Unused(p, o, aio)
            /\ Listening(p, os, aio) => Listening(p, o, aio)
            /\ Connecting(p, os, aio) => Connecting(p, o, aio)
            /\ Keeping(p, os, aio) => Keeping(p, o, aio)
            /\ Transferring(p, os, aio) => Transferring(p, o, aio)
        BY <3>2, <3>4
           DEF Unused, Listening, Connecting, Keeping, Transferring
      <4> QED BY <3>1, <3>4, <4>1 DEF SockOK
    <3> QED BY <3>3, <3>4
  <2>4. ASSUME c \in File PROVE FileOK(c, file[c], o, aio)
    BY <2>1, <2>4 DEF ClientOK, FileOK
  <2> QED BY <2>1, <2>2, <2>3, <2>4 DEF ClientOK
<1> QED BY <1>1 DEF AI

\* While no poll dispatches nothing is ready.
LEMMA Quiet ==
    ASSUME AI(file', sock', os', aio'), ready = {}, ready' = ready
    PROVE  AInv'
BY DEF AInv, ReadyOK

LEMMA KernelStep ==
    ASSUME AInv, NEW fd \in Descriptor, KernelActs(fd),
           UNCHANGED <<file, sock>>
    PROVE  AInv'
<1> DEFINE w == os[fd]
<1>1. /\ Sound(w) /\ AI(file, sock, os, aio) /\ OsOK(os)
      /\ fd = 0 => w.kind = "terminal"
      /\ w \in OsType
  BY DEF AInv, AI, OsOK
<1>2. ASSUME NEW n, Sound(n), os' = [os EXCEPT ![fd] = n],
             \/ n.kind = w.kind
             \/ w.kind = "connecting" /\ n.kind \in {"connected", "refused"}
      PROVE  AInv'
  <2>0. OsOK(os) /\ Sound(n) /\ (fd = 0 => n.kind = "terminal")
    BY <1>1, <1>2
  <2>1. /\ OsOK([os EXCEPT ![fd] = n]) /\ [os EXCEPT ![fd] = n][fd] = n
        /\ \A y \in Descriptor \ {fd} : [os EXCEPT ![fd] = n][y] = os[y]
    BY <2>0, OsStep
  <2>2. AI(file, sock, os', aio)
    BY <1>1, <1>2, <2>1, KindsKept
  <2> QED BY <2>2, Quiet DEF KernelActs
<1>3. CASE /\ w.kind \in {"listening", "connected", "terminal"}
           /\ w.input = "none"
           /\ os' = [os EXCEPT ![fd].input = "data"]
  <2>1. os' = [os EXCEPT ![fd] = [w EXCEPT !.input = "data"]]
    BY <1>3
  <2>2. /\ Sound([w EXCEPT !.input = "data"])
        /\ [w EXCEPT !.input = "data"].kind = w.kind
    BY <1>1, <1>3 DEF Sound, OsType
  <2> QED BY <1>2, <2>1, <2>2
<1>4. CASE /\ w.kind = "connected" /\ w.input = "none"
           /\ \E input \in {"eof", "urgent"} :
                 os' = [os EXCEPT ![fd].input = input]
  <2>1. PICK input \in {"eof", "urgent"} :
                 os' = [os EXCEPT ![fd] = [w EXCEPT !.input = input]]
    BY <1>4
  <2>2. /\ Sound([w EXCEPT !.input = input])
        /\ [w EXCEPT !.input = input].kind = w.kind
    BY <1>1, <1>4 DEF Sound, OsType
  <2> QED BY <1>2, <2>1, <2>2
<1>5. CASE /\ w.kind \in {"connected", "terminal"}
           /\ os' = [os EXCEPT ![fd].room = TRUE]
  <2>1. os' = [os EXCEPT ![fd] = [w EXCEPT !.room = TRUE]]
    BY <1>5
  <2>2. /\ Sound([w EXCEPT !.room = TRUE])
        /\ [w EXCEPT !.room = TRUE].kind = w.kind
    BY <1>1, <1>5 DEF Sound, OsType
  <2> QED BY <1>2, <2>1, <2>2
<1>6. CASE /\ w.kind = "connecting"
           /\ \E kind \in {"connected", "refused"} :
                 os' = [os EXCEPT ![fd] = Opened(kind)]
  <2>1. PICK kind \in {"connected", "refused"} :
                 os' = [os EXCEPT ![fd] = Opened(kind)]
    BY <1>6
  <2>2. Sound(Opened(kind)) /\ Opened(kind).kind = kind
    BY OpenedSound DEF Kind
  <2> QED BY <1>2, <1>6, <2>1, <2>2
<1> QED BY <1>3, <1>4, <1>5, <1>6 DEF KernelActs

\* What select finds is armed, and no connection that is being made is ready
\* for anything.
LEMMA PollStep ==
    ASSUME AInv, aioPoll, UNCHANGED <<file, sock>>
    PROVE  AInv'
<1>1. AI(file', sock', os', aio')
  BY DEF AInv, aioPoll
<1>2. ready' = Selected /\ OsOK(os)
  BY DEF AInv, aioPoll, AI
<1>3. Selected \subseteq Descriptor \X Flag
  BY DEF Selected
<1>4. ReadyOK(Selected, os, aio)
  <2> SUFFICES ASSUME NEW e \in Selected
               PROVE  /\ e[1] \in aio.mask[e[2]]
                      /\ os[e[1]].kind # "connecting"
                      /\ e[2] = "X" => os[e[1]].input = "urgent"
    BY DEF ReadyOK
  <2>1. /\ e[1] \in Descriptor /\ e[2] \in Flag
        /\ e[1] \in aio.mask[e[2]] /\ Ready(e[1], e[2])
    BY <1>3 DEF Selected
  <2>2. Sound(os[e[1]])
    BY <1>2, <2>1 DEF OsOK
  <2> QED BY <2>1, <2>2 DEF Ready, Readable, Writable, Sound, Flag
<1>5. /\ ready' \subseteq Descriptor \X Flag
      /\ ReadyOK(ready', os', aio')
  BY <1>2, <1>3, <1>4 DEF aioPoll
<1> QED BY <1>1, <1>5 DEF AInv

-----------------------------------------------------------------------------
(* Files.                                                                  *)

LEMMA OpenFile ==
    ASSUME AI(file, sock, os, aio), NEW f \in File, file[f].open
    PROVE  /\ file[f] \in FileType /\ FileOK(f, file[f], os, aio)
           /\ file[f].fd \in Descriptor /\ MayUse(f, file[f].fd)
           /\ file[f].fd \in aio.enabled /\ file[f].fd # 0
           /\ os[file[f].fd].kind = "terminal"
           /\ OsOK(os) /\ AioOK(aio)
           /\ f \in Client /\ f \in Client \cup {Null}
<1>1. f \in Client /\ file[f] \in FileType /\ OsOK(os) /\ AioOK(aio)
  BY ClientFacts DEF AI
<1>2. FileOK(f, file[f], os, aio) /\ ClaimsOK(f, file, sock, os)
  BY <1>1 DEF AI, ClientOK
<1>3. Own(f, file, sock) = file[f].fd
  BY DEF Own
<1>4. file[f].fd \in Descriptor /\ file[f].fd \in aio.enabled
  BY <1>2 DEF FileOK, EnabledFor
<1>5. file[f].fd \in Claims(f, file, sock)
  BY <1>1, <1>3, <1>4, Claimed, DescriptorFacts
<1> QED BY <1>1, <1>2, <1>3, <1>4, <1>5 DEF ClaimsOK, MayUse, FileOK

LEMMA FileOpenStep ==
    ASSUME AInv, NEW f \in File, asyncFileOpen(f), UNCHANGED sock
    PROVE  AInv'
<1> DEFINE x == Lowest
           q == [ClosedFile EXCEPT !.open = TRUE, !.fd = x]
           o == [os EXCEPT ![x] = Opened("terminal")]
           b == aioEnable(aio, x, f)
<1>1. /\ AI(file, sock, os, aio) /\ OsOK(os) /\ AioOK(aio) /\ f \in Client
      /\ ready = {} /\ ready' = ready
      /\ ~file[f].open /\ FreeDescriptors # {}
      /\ os' = o /\ aio' = b /\ file' = [file EXCEPT ![f] = q] /\ sock' = sock
  BY ClientFacts DEF AInv, AI, asyncFileOpen
<1>2. /\ x \in Descriptor /\ os[x].kind = "closed" /\ x # 0
      /\ x \notin aio.enabled /\ OsOK(os) /\ AioOK(aio) /\ f \in Client
  BY <1>1, FreeOne
<1>3. MayUse(f, x)
  BY <1>1, <1>2 DEF MayUse, Own
<1>4. Sound(Opened("terminal")) /\ Opened("terminal").kind = "terminal"
  BY OpenedSound DEF Kind
<1> HIDE DEF x
<1>5. /\ OsOK(o) /\ o[x] = Opened("terminal")
      /\ \A y \in Descriptor \ {x} : o[y] = os[y]
  BY <1>2, <1>4, OsStep
<1>6. /\ AioOK(b) /\ EnabledFor(b, x, f)
      /\ \A flag \in Flag : x \notin b.mask[flag]
      /\ \A y \in Descriptor \ {x} : SameAt(aio, b, y)
  BY <1>2, Enable
<1>7. /\ q.open /\ q.fd = x /\ q \in FileType
  <2>1. ClosedFile \in FileType
    BY TransferAssumption DEF ClosedFile, FileType
  <2> QED BY <1>2, <2>1 DEF FileType
<1> HIDE DEF q, o, b
<1>8. FileOK(f, q, o, b)
  BY <1>2, <1>4, <1>5, <1>6, <1>7 DEF FileOK, IfArmed, Flag
<1>9. AI([file EXCEPT ![f] = q], sock, o, b)
  BY <1>1, <1>2, <1>3, <1>4, <1>5, <1>6, <1>7, <1>8, FileStep
<1> QED BY <1>1, <1>9, Quiet

LEMMA FileCloseStep ==
    ASSUME AInv, NEW f \in File, asyncFileClose(f), UNCHANGED sock
    PROVE  AInv'
<1> DEFINE x == file[f].fd
           q == ClosedFile
           o == [os EXCEPT ![x] = Opened("closed")]
           b == aioDisable(aio, x)
<1>1. /\ AI(file, sock, os, aio) /\ ready = {} /\ ready' = ready
      /\ file[f].open
      /\ os' = o /\ aio' = b /\ file' = [file EXCEPT ![f] = q] /\ sock' = sock
  BY DEF AInv, asyncFileClose
<1>2. /\ x \in Descriptor /\ x # 0 /\ MayUse(f, x) /\ OsOK(os) /\ AioOK(aio)
  BY <1>1, OpenFile
<1>3. Sound(Opened("closed"))
  BY OpenedSound DEF Kind
<1> HIDE DEF x
<1>4. OsOK(o) /\ \A y \in Descriptor \ {x} : o[y] = os[y]
  BY <1>2, <1>3, OsStep
<1>5. /\ AioOK(b) /\ x \notin b.enabled
      /\ \A y \in Descriptor \ {x} : SameAt(aio, b, y)
  BY <1>2, Disable
<1>6. ~q.open /\ q \in FileType
  BY TransferAssumption DEF ClosedFile, FileType
<1> HIDE DEF q, o, b
<1>7. FileOK(f, q, o, b)
  BY <1>6 DEF FileOK
<1>8. AI([file EXCEPT ![f] = q], sock, o, b)
  BY <1>1, <1>2, <1>4, <1>5, <1>6, <1>7, FileStep
<1> QED BY <1>1, <1>8, Quiet

\* An open file goes on with its descriptor.
LEMMA FileGoesOn ==
    ASSUME AI(file, sock, os, aio), NEW f \in File, file[f].open,
           NEW q \in FileType, q.open, q.fd = file[f].fd,
           NEW o, OsOK(o),
           NEW b, AioOK(b), FileOK(f, q, o, b),
           \A y \in Descriptor \ {q.fd} : o[y] = os[y] /\ SameAt(aio, b, y)
    PROVE  AI([file EXCEPT ![f] = q], sock, o, b)
<1>1. q.fd \in Descriptor /\ MayUse(f, q.fd)
  BY OpenFile
<1> QED BY <1>1, FileStep

LEMMA Unchanging ==
    /\ \A x : SameAt(aio, aio, x)
    /\ AI(file, sock, os, aio) =>
          /\ \A f \in File : [file EXCEPT ![f] = file[f]] = file
          /\ \A s \in Socket : [sock EXCEPT ![s] = sock[s]] = sock
BY DEF SameAt, AI

\* The status of a write changes and nothing else.
LEMMA FileStatusStep ==
    ASSUME AInv, NEW f \in File, file[f].open, NEW failed \in BOOLEAN,
           file' = [file EXCEPT ![f].failed = failed],
           ready = {}, UNCHANGED <<sock, os, aio, ready>>
    PROVE  AInv'
<1> DEFINE q == [file[f] EXCEPT !.failed = failed]
<1>1. AI(file, sock, os, aio) /\ file' = [file EXCEPT ![f] = q]
  BY DEF AInv
<1>2. /\ file[f] \in FileType /\ FileOK(f, file[f], os, aio)
      /\ OsOK(os) /\ AioOK(aio)
  BY <1>1, OpenFile
<1>3. /\ q \in FileType /\ q.open /\ q.fd = file[f].fd
      /\ q.reads = file[f].reads /\ q.writes = file[f].writes
  BY <1>2 DEF FileType
<1> HIDE DEF q
<1>4. FileOK(f, q, os, aio)
  BY <1>2, <1>3 DEF FileOK
<1>5. AI([file EXCEPT ![f] = q], sock, os, aio)
  BY <1>1, <1>2, <1>3, <1>4, FileGoesOn, Unchanging
<1> QED BY <1>1, <1>5, Quiet

LEMMA ReadStartStep ==
    ASSUME AInv, NEW f \in File, asyncFileReadStart(f), UNCHANGED sock
    PROVE  AInv'
<1> DEFINE x == file[f].fd
           q == [file[f] EXCEPT !.reads = @ + 1]
           b == aioHandle(aio, x, "readHandler", {"R"})
<1>1. /\ AI(file, sock, os, aio) /\ ready = {} /\ ready' = ready
      /\ file[f].open /\ file[f].reads + file[f].writes = 0
      /\ os' = os /\ aio' = b /\ file' = [file EXCEPT ![f] = q] /\ sock' = sock
  BY DEF AInv, asyncFileReadStart, Idle
<1>2. /\ file[f] \in FileType /\ FileOK(f, file[f], os, aio)
      /\ x \in aio.enabled /\ x \in Descriptor
      /\ os[x].kind = "terminal" /\ OsOK(os) /\ AioOK(aio)
  BY <1>1, OpenFile
<1>3. /\ q \in FileType /\ q.open /\ q.fd = x
      /\ q.reads = 1 /\ q.writes = file[f].writes
  BY <1>1, <1>2 DEF FileType
<1> HIDE DEF x, q
<1>4. /\ AioOK(b) /\ b.enabled = aio.enabled /\ b.clientData = aio.clientData
      /\ ArmedAs(b, x, "R", "readHandler")
      /\ \A flag \in Flag \ {"R"} :
            /\ x \in b.mask[flag] <=> x \in aio.mask[flag]
            /\ b.handler[flag][x] = aio.handler[flag][x]
      /\ \A y \in Descriptor \ {x} : SameAt(aio, b, y)
  <2>1. "readHandler" \in HandlerName /\ {"R"} \in SUBSET Flag
    BY DEF HandlerName, FileHandlers, Flag
  <2> QED BY <1>2, <2>1, Handle
<1> HIDE DEF b
<1>5. FileOK(f, q, os, b)
  BY <1>1, <1>2, <1>3, <1>4
     DEF FileOK, EnabledFor, IfArmed, ArmedAs, Flag, x
<1>6. AI([file EXCEPT ![f] = q], sock, os, b)
  BY <1>1, <1>2, <1>3, <1>4, <1>5, FileGoesOn DEF x
<1> QED BY <1>1, <1>6, Quiet

LEMMA ReadResultStep ==
    ASSUME AInv, NEW f \in File, asyncFileReadResult(f), UNCHANGED sock
    PROVE  AInv'
<1> DEFINE x == file[f].fd
           w == [os[x] EXCEPT !.input = "none"]
<1>1. /\ AI(file, sock, os, aio) /\ ready = {} /\ ready' = ready
      /\ file[f].open
      /\ os' = [os EXCEPT ![x] = w] /\ UNCHANGED <<aio, file, sock>>
  BY DEF AInv, asyncFileReadResult, Idle
<1>2. x \in Descriptor /\ x # 0 /\ OsOK(os)
  BY <1>1, OpenFile
<1>3. Sound(w) /\ w.kind = os[x].kind
  BY <1>2 DEF OsOK, Sound, OsType
<1> HIDE DEF x, w
<1>4. /\ OsOK([os EXCEPT ![x] = w]) /\ [os EXCEPT ![x] = w][x] = w
      /\ \A y \in Descriptor \ {x} : [os EXCEPT ![x] = w][y] = os[y]
  BY <1>2, <1>3, OsStep
<1>5. AI(file, sock, os', aio)
  BY <1>1, <1>3, <1>4, KindsKept
<1> QED BY <1>1, <1>5, Quiet

\* What a file is left with when writeBuffer has written, failed, or would
\* block: nothing is armed but what it waits for.
LEMMA WriteBuffer ==
    ASSUME AI(file, sock, os, aio),
           NEW f \in File, NEW p \in FileType, p.open, p.writes = 1,
           NEW a, AioOK(a), FileOK(f, p, os, a), p.fd \notin a.mask["W"],
           NEW result \in writeBuffer(p, a)
    PROVE  /\ result.file \in FileType /\ result.file.open
           /\ result.file.fd = p.fd
           /\ AioOK(result.aio) /\ FileOK(f, result.file, os, result.aio)
           /\ result.room \in BOOLEAN
           /\ \A y \in Descriptor \ {p.fd} : SameAt(a, result.aio, y)
<1> DEFINE x == p.fd
<1>1. x \in Descriptor /\ x \in a.enabled
  BY DEF FileOK, EnabledFor
<1>2. os[x].room \in BOOLEAN
  BY <1>1 DEF AI, OsOK, OsType
<1>3. \A y : SameAt(a, a, y)
  BY DEF SameAt
<1>7. 0 \in 0 .. MaxTransfer
  BY TransferAssumption
<1>4. CASE result \in Blocks(p, a)
  <2> DEFINE b == aioHandle(a, x, "writeHandler", {"W"})
  <2>1. PICK left \in 1 .. p.unwritten :
               result = [file |-> [p EXCEPT !.unwritten = left],
                         room |-> FALSE, aio |-> b]
    BY <1>4 DEF Blocks
  <2>2. p.unwritten \in 0 .. MaxTransfer
    BY DEF FileType
  <2>3. left \in 0 .. MaxTransfer
    BY <2>1, <2>2, TransferAssumption
  <2>4. /\ AioOK(b) /\ b.enabled = a.enabled /\ b.clientData = a.clientData
        /\ ArmedAs(b, x, "W", "writeHandler")
        /\ \A flag \in Flag \ {"W"} :
              /\ x \in b.mask[flag] <=> x \in a.mask[flag]
              /\ b.handler[flag][x] = a.handler[flag][x]
        /\ \A y \in Descriptor \ {x} : SameAt(a, b, y)
    <3>1. "writeHandler" \in HandlerName /\ {"W"} \in SUBSET Flag
      BY DEF HandlerName, FileHandlers, Flag
    <3> QED BY <1>1, <3>1, Handle
  <2> DEFINE q == [p EXCEPT !.unwritten = left]
  <2>5. /\ q \in FileType /\ q.open /\ q.fd = x
        /\ q.reads = p.reads /\ q.writes = 1
    BY <2>3 DEF FileType
  <2>6. result.file = q /\ result.room = FALSE /\ result.aio = b
    BY <2>1
  <2> HIDE DEF q, b, x
  <2>7. FileOK(f, q, os, b)
    BY <1>1, <2>4, <2>5 DEF FileOK, EnabledFor, IfArmed, ArmedAs, Flag, x
  <2> QED BY <2>4, <2>5, <2>6, <2>7 DEF x
<1>5. CASE result = [file |-> [p EXCEPT !.failed = TRUE, !.unwritten = 0],
                     room |-> os[x].room, aio |-> a]
  <2> DEFINE q == [p EXCEPT !.failed = TRUE, !.unwritten = 0]
  <2>1. result.file = q /\ result.room = os[x].room /\ result.aio = a
    BY <1>5
  <2>2. q.open /\ q.fd = x /\ q.reads = p.reads /\ q.writes = 1
    BY DEF FileType
  <2>3. q \in FileType
    BY <1>7 DEF FileType
  <2> HIDE DEF q
  <2>4. FileOK(f, q, os, a)
    BY <2>2 DEF FileOK
  <2> QED BY <1>2, <1>3, <2>1, <2>2, <2>3, <2>4
<1>6. CASE result = [file |-> [p EXCEPT !.unwritten = 0, !.writes = @ - 1],
                     room |-> TRUE, aio |-> a]
  <2> DEFINE q == [p EXCEPT !.unwritten = 0, !.writes = @ - 1]
  <2>1. result.file = q /\ result.room = TRUE /\ result.aio = a
    BY <1>6
  <2>2. q.open /\ q.fd = x /\ q.reads = p.reads /\ q.writes = 0
    BY DEF FileType
  <2>3. q \in FileType
    <3>1. q = [p EXCEPT !.unwritten = 0, !.writes = 0]
      OBVIOUS
    <3> HIDE DEF q
    <3> QED BY <1>7, <3>1 DEF FileType
  <2> HIDE DEF q
  <2>4. FileOK(f, q, os, a)
    BY <2>2 DEF FileOK
  <2> QED BY <1>3, <2>1, <2>2, <2>3, <2>4
<1> QED BY <1>4, <1>5, <1>6 DEF writeBuffer

LEMMA WriteStartStep ==
    ASSUME AInv, NEW f \in File, NEW count \in 0 .. MaxTransfer,
           asyncFileWriteStart(f, count), UNCHANGED sock
    PROVE  AInv'
<1> DEFINE x == file[f].fd
           p == [file[f] EXCEPT !.unwritten = count, !.failed = FALSE,
                                !.writes = @ + 1]
<1>1. /\ AI(file, sock, os, aio) /\ ready = {} /\ ready' = ready
      /\ file[f].open /\ file[f].reads + file[f].writes = 0
      /\ sock' = sock
  BY DEF AInv, asyncFileWriteStart, Idle
<1>2. /\ file[f] \in FileType /\ FileOK(f, file[f], os, aio)
      /\ x \in Descriptor /\ x # 0
      /\ os[x].kind = "terminal" /\ OsOK(os) /\ AioOK(aio)
  BY <1>1, OpenFile
<1>3. CASE count < 1
  BY <1>1, <1>3, FileStatusStep DEF asyncFileWriteStart
<1>4. CASE ~(count < 1)
  <2>1. PICK result \in writeBuffer(p, aio) :
               /\ file' = [file EXCEPT ![f] = result.file]
               /\ os' = [os EXCEPT ![x].room = result.room]
               /\ aio' = result.aio
    BY <1>4 DEF asyncFileWriteStart
  <2>2. file[f].reads = 0 /\ file[f].writes = 0
    BY <1>1, <1>2 DEF FileType
  <2>3. /\ p \in FileType /\ p.open /\ p.fd = x
        /\ p.reads = 0 /\ p.writes = 1
    <3>1. p = [file[f] EXCEPT !.unwritten = count, !.failed = FALSE,
                              !.writes = 1]
      BY <2>2
    <3> HIDE DEF p
    <3> QED BY <1>1, <1>2, <2>2, <3>1 DEF FileType
  <2> HIDE DEF p
  <2>4. FileOK(f, p, os, aio) /\ p.fd \notin aio.mask["W"]
    BY <1>1, <1>2, <2>2, <2>3 DEF FileOK
  <2>5. /\ result.file \in FileType /\ result.file.open
        /\ result.file.fd = x
        /\ AioOK(result.aio) /\ FileOK(f, result.file, os, result.aio)
        /\ result.room \in BOOLEAN
        /\ \A y \in Descriptor \ {x} : SameAt(aio, result.aio, y)
    BY <1>1, <1>2, <2>3, <2>4, WriteBuffer
  <2> DEFINE w == [os[x] EXCEPT !.room = result.room]
  <2>6. Sound(w) /\ w.kind = os[x].kind
    BY <1>2, <2>5 DEF OsOK, Sound, OsType
  <2>7. os' = [os EXCEPT ![x] = w]
    BY <2>1
  <2> HIDE DEF x, w
  <2>8. /\ OsOK([os EXCEPT ![x] = w]) /\ [os EXCEPT ![x] = w][x] = w
        /\ \A y \in Descriptor \ {x} : [os EXCEPT ![x] = w][y] = os[y]
    BY <1>2, <2>6, OsStep
  <2> DEFINE o == [os EXCEPT ![x] = w]
  <2> HIDE DEF o
  <2>9. FileOK(f, result.file, o, result.aio)
    BY <2>5, <2>6, <2>8 DEF FileOK, o
  <2>10. AI([file EXCEPT ![f] = result.file], sock, o, result.aio)
    BY <1>1, <2>5, <2>8, <2>9, FileGoesOn DEF x, o
  <2> QED BY <1>1, <2>1, <2>7, <2>10, Quiet DEF o
<1> QED BY <1>3, <1>4

LEMMA FilesStep ==
    ASSUME AInv, FilesNext, UNCHANGED sock
    PROVE  AInv'
<1>1. PICK f \in File :
         \/ asyncFileOpen(f)
         \/ asyncFileClose(f)
         \/ asyncFileReadStart(f)
         \/ asyncFileReadResult(f)
         \/ \E count \in 0 .. MaxTransfer : asyncFileWriteStart(f, count)
         \/ WriteFails(f)
         \/ asyncFileWriteResult(f)
  BY DEF FilesNext
<1>2. CASE WriteFails(f)
  BY <1>2, FileStatusStep DEF WriteFails, Idle
<1>3. CASE asyncFileWriteResult(f)
  BY <1>3, FileStatusStep DEF asyncFileWriteResult, Idle
<1> QED BY <1>1, <1>2, <1>3, FileOpenStep, FileCloseStep, ReadStartStep,
           ReadResultStep, WriteStartStep

-----------------------------------------------------------------------------
(* Dispatching.                                                            *)

\* The client of the descriptor that is next uses it, and the handler that is
\* called for it is armed.
LEMMA Next1 ==
    ASSUME AInv, ready # {}
    PROVE  LET fd == NextUp[1]
               flag == NextUp[2]
           IN  /\ NextUp \in ready /\ NextUp = <<fd, flag>>
               /\ fd \in Descriptor /\ flag \in Flag
               /\ fd \in aio.mask[flag] /\ fd \in aio.enabled
               /\ os[fd].kind # "connecting"
               /\ flag = "X" => os[fd].input = "urgent"
               /\ aio.clientData[fd] \in Client
               /\ Own(aio.clientData[fd], file, sock) = fd
<1> DEFINE fd == NextUp[1]
           flag == NextUp[2]
<1>1. ready \subseteq Descriptor \X Flag
  BY DEF AInv
<1>2. NextUp \in ready
  BY <1>1, NextUpFirst
<1>3. NextUp \in Descriptor \X Flag
  BY <1>1, <1>2
<1>4. NextUp = <<fd, flag>> /\ fd \in Descriptor /\ flag \in Flag
  BY <1>3
<1>5. /\ fd \in aio.mask[flag] /\ os[fd].kind # "connecting"
      /\ flag = "X" => os[fd].input = "urgent"
  BY <1>2 DEF AInv, ReadyOK
<1>6. fd \in aio.enabled
  BY <1>4, <1>5 DEF AInv, AI, AioOK
<1>7. OwnedAt(fd, file, sock, aio)
  BY <1>4 DEF AInv, AI
<1> QED BY <1>2, <1>4, <1>5, <1>6, <1>7 DEF OwnedAt

\* After a handler, what is still to be dispatched on other descriptors is as
\* it was: a handler changes its own, and one that was free.  On its own only
\* later flags are left.
LEMMA ReadyStep ==
    ASSUME AInv, ready # {}, NEW o, NEW b, NEW x \in Descriptor,
           NextUp[1] # x => x \notin aio.enabled,
           \A y \in Descriptor \ {NextUp[1], x} :
              o[y] = os[y] /\ SameAt(aio, b, y),
           \A g \in Flag :
              /\ <<NextUp[2], g>> \in {<<"R", "W">>, <<"R", "X">>, <<"W", "X">>}
              /\ NextUp[1] \in aio.mask[g]
              /\ g = "X" => os[NextUp[1]].input = "urgent"
              => /\ NextUp[1] \in b.mask[g]
                 /\ o[NextUp[1]].kind # "connecting"
                 /\ g = "X" => o[NextUp[1]].input = "urgent",
           NEW r \in SUBSET (ready \ {NextUp})
    PROVE  r \subseteq Descriptor \X Flag /\ ReadyOK(r, o, b)
<1>1. ready \subseteq Descriptor \X Flag /\ ReadyOK(ready, os, aio)
  BY DEF AInv
<1>2. \A e \in ready \ {NextUp} : Precedes(NextUp, e)
  BY <1>1, NextUpFirst
<1> SUFFICES ASSUME NEW e \in r
             PROVE  /\ e[1] \in b.mask[e[2]]
                    /\ o[e[1]].kind # "connecting"
                    /\ e[2] = "X" => o[e[1]].input = "urgent"
  BY <1>1 DEF ReadyOK
<1>3. /\ e \in ready /\ e # NextUp /\ Precedes(NextUp, e)
      /\ e[1] \in Descriptor /\ e[2] \in Flag
      /\ e[1] \in aio.mask[e[2]] /\ os[e[1]].kind # "connecting"
      /\ e[2] = "X" => os[e[1]].input = "urgent"
  BY <1>1, <1>2 DEF ReadyOK
<1>4. CASE e[1] = NextUp[1]
  <2>0. e[1] \in Nat
    BY <1>3, DescriptorFacts
  <2>1. ~ (NextUp[1] < e[1])
    BY <1>4, <2>0
  <2>2. <<NextUp[2], e[2]>> \in {<<"R", "W">>, <<"R", "X">>, <<"W", "X">>}
    BY <1>3, <2>1 DEF Precedes
  <2> QED BY <1>3, <1>4, <2>2
<1>5. CASE e[1] # NextUp[1]
  <2>1. e[1] \in aio.enabled
    BY <1>3 DEF AInv, AI, AioOK
  <2>2. e[1] # x
    BY <1>5, <2>1
  <2>3. o[e[1]] = os[e[1]] /\ SameAt(aio, b, e[1])
    BY <1>3, <1>5, <2>2
  <2> QED BY <1>3, <2>3 DEF SameAt
<1> QED BY <1>4, <1>5

\* A handler of a file is called with the file that armed it.
LEMMA FileHandlerStep ==
    ASSUME AInv, Dispatch, aio.clientData[NextUp[1]] \in File
    PROVE  AInv'
<1> DEFINE fd == NextUp[1]
           flag == NextUp[2]
           f == aio.clientData[fd]
           q == file[f]
           a == Disarmed(fd, flag)
<1>1. /\ ready # {} /\ AI(file, sock, os, aio)
      /\ f \in File /\ OsOK(os) /\ AioOK(aio)
  BY DEF AInv, AI, Dispatch
<1>2. /\ NextUp = <<fd, flag>> /\ fd \in Descriptor /\ flag \in Flag
      /\ fd \in aio.mask[flag] /\ fd \in aio.enabled
      /\ Own(f, file, sock) = fd /\ fd # -1
  BY <1>1, Next1, DescriptorFacts
<1>3. q.open /\ q.fd = fd
  BY <1>1, <1>2 DEF Own
<1>4. /\ q \in FileType /\ FileOK(f, q, os, aio) /\ fd # 0
      /\ os[fd].kind = "terminal"
  BY <1>1, <1>3, OpenFile
<1>5. /\ AioOK(a)
      /\ a.enabled = aio.enabled /\ a.clientData = aio.clientData
      /\ fd \notin a.mask[flag]
      /\ \A g \in Flag \ {flag} :
            /\ fd \in a.mask[g] <=> fd \in aio.mask[g]
            /\ a.handler[g][fd] = aio.handler[g][fd]
      /\ \A y \in Descriptor \ {fd} : SameAt(aio, a, y)
  BY <1>1, <1>2, Disarm
<1>6. \/ flag = "R" /\ aio.handler[flag][fd] = "readHandler" /\ q.reads = 1
      \/ flag = "W" /\ aio.handler[flag][fd] = "writeHandler" /\ q.writes = 1
  BY <1>2, <1>3, <1>4 DEF FileOK, IfArmed, Flag
<1>7. fd \notin aio.mask["X"]
  BY <1>3, <1>4 DEF FileOK
<1>8. CASE flag = "R" /\ aio.handler[flag][fd] = "readHandler" /\ q.reads = 1
  <2> DEFINE n == [q EXCEPT !.reads = @ - 1]
  <2>1. /\ file' = [file EXCEPT ![f] = n]
        /\ DispatchContinues(a, fd, flag) /\ os' = os /\ sock' = sock
    BY <1>8 DEF Dispatch, readHandler
  <2>2. aio' = a /\ ready' \subseteq ready \ {NextUp}
    BY <1>2, <2>1 DEF DispatchContinues
  <2>3. /\ n \in FileType /\ n.open /\ n.fd = fd
        /\ n.reads = 0 /\ n.writes = q.writes
    <3>1. n = [q EXCEPT !.reads = 0]
      BY <1>8
    <3> HIDE DEF n, q
    <3> QED BY <1>3, <1>4, <3>1 DEF FileType
  <2> HIDE DEF n, a, fd, flag, f
  <2>4. FileOK(f, n, os, a)
    BY <1>3, <1>4, <1>5, <1>8, <2>3 DEF FileOK, EnabledFor, IfArmed, Flag
  <2>5. AI([file EXCEPT ![f] = n], sock, os, a)
    BY <1>1, <1>3, <1>5, <2>3, <2>4, FileGoesOn
  <2>6. \A g \in Flag : fd \in aio.mask[g] /\ g # "R" =>
              fd \in a.mask[g] /\ os[fd].kind # "connecting"
    BY <1>4, <1>5, <1>8
  <2>7. /\ ready' \subseteq Descriptor \X Flag
        /\ ReadyOK(ready', os, a)
    <3>1. \A y \in Descriptor \ {fd, fd} : os[y] = os[y] /\ SameAt(aio, a, y)
      BY <1>5
    <3> QED BY <1>1, <1>2, <2>2, <2>6, <3>1, ReadyStep DEF fd, flag
  <2> QED BY <2>1, <2>2, <2>5, <2>7 DEF AInv
<1>9. CASE flag = "W" /\ aio.handler[flag][fd] = "writeHandler" /\ q.writes = 1
  <2>1. PICK result \in writeBuffer(q, a) :
               /\ file' = [file EXCEPT ![f] = result.file]
               /\ os' = [os EXCEPT ![fd].room = result.room]
               /\ DispatchContinues(result.aio, fd, flag) /\ sock' = sock
    BY <1>9 DEF Dispatch, writeHandler
  <2>2. aio' = result.aio /\ ready' \subseteq ready \ {NextUp}
    BY <1>2, <2>1 DEF DispatchContinues
  <2> HIDE DEF a, fd, flag, f, q
  <2>3. FileOK(f, q, os, a) /\ q.fd \notin a.mask["W"]
    BY <1>3, <1>4, <1>5, <1>9 DEF FileOK, EnabledFor, IfArmed, Flag
  <2>4. /\ result.file \in FileType /\ result.file.open
        /\ result.file.fd = fd
        /\ AioOK(result.aio) /\ FileOK(f, result.file, os, result.aio)
        /\ result.room \in BOOLEAN
        /\ \A y \in Descriptor \ {fd} : SameAt(a, result.aio, y)
    BY <1>1, <1>3, <1>4, <1>5, <1>9, <2>3, WriteBuffer
  <2> DEFINE w == [os[fd] EXCEPT !.room = result.room]
  <2>5. Sound(w) /\ w.kind = os[fd].kind
    BY <1>1, <1>2, <1>4, <2>4 DEF OsOK, Sound, OsType
  <2>6. os' = [os EXCEPT ![fd] = w]
    BY <2>1
  <2> HIDE DEF w
  <2> DEFINE o == [os EXCEPT ![fd] = w]
  <2>7. /\ OsOK(o) /\ o[fd] = w /\ \A y \in Descriptor \ {fd} : o[y] = os[y]
    BY <1>1, <1>2, <1>4, <2>5, OsStep
  <2> HIDE DEF o
  <2>8. FileOK(f, result.file, o, result.aio)
    BY <2>4, <2>5, <2>7 DEF FileOK
  <2>9. \A y \in Descriptor \ {fd} : o[y] = os[y] /\ SameAt(aio, result.aio, y)
    BY <1>5, <2>4, <2>7 DEF SameAt
  <2>10. AI([file EXCEPT ![f] = result.file], sock, o, result.aio)
    BY <1>1, <1>3, <2>4, <2>7, <2>8, <2>9, FileGoesOn DEF q
  <2>11. /\ ready' \subseteq Descriptor \X Flag
         /\ ReadyOK(ready', o, result.aio)
    <3>1. \A y \in Descriptor \ {fd, fd} :
             o[y] = os[y] /\ SameAt(aio, result.aio, y)
      BY <2>9
    <3> QED BY <1>1, <1>2, <1>7, <1>9, <2>2, <3>1, ReadyStep DEF fd, flag
  <2> QED BY <2>1, <2>2, <2>6, <2>10, <2>11 DEF AInv, o
<1> QED BY <1>6, <1>8, <1>9

-----------------------------------------------------------------------------
(* Sockets.                                                                *)

SockOpen(p) == p.live /\ p.sockState # "Invalid" /\ p.s # -1

LEMMA OpenSocket ==
    ASSUME AI(file, sock, os, aio), NEW s \in Socket, SockOpen(sock[s])
    PROVE  /\ sock[s] \in SocketType /\ SockOK(s, sock[s], os, aio)
           /\ sock[s].s \in Descriptor /\ sock[s].s # 0
           /\ MayUse(s, sock[s].s) /\ Own(s, file, sock) = sock[s].s
           /\ os[sock[s].s].kind # "closed" /\ Sound(os[sock[s].s])
           /\ OsOK(os) /\ AioOK(aio) /\ s \in Client
<1>1. /\ s \in Client /\ s \notin File
      /\ sock[s] \in SocketType /\ OsOK(os) /\ AioOK(aio)
  BY ClientFacts DEF AI
<1>2. SockOK(s, sock[s], os, aio) /\ ClaimsOK(s, file, sock, os)
  BY <1>1 DEF AI, ClientOK
<1>3. Own(s, file, sock) = sock[s].s
  BY <1>1 DEF Own, OwnOf, SockOpen
<1>4. sock[s].s \in Claims(s, file, sock)
  BY <1>1, <1>3, Claimed DEF SockOpen
<1>5. /\ sock[s].s \in Descriptor /\ sock[s].s # 0
      /\ os[sock[s].s].kind # "closed"
  BY <1>2, <1>4 DEF ClaimsOK
<1> QED BY <1>1, <1>2, <1>3, <1>5 DEF MayUse, OsOK

\* An open socket goes on with its descriptor.
LEMMA SockGoesOn ==
    ASSUME AI(file, sock, os, aio), NEW s \in Socket, SockOpen(sock[s]),
           NEW p \in SocketType, SockOpen(p), p.s = sock[s].s,
           SpareOf(p) \in {SpareOf(sock[s]), -1},
           NEW o, OsOK(o), o[p.s].kind # "closed",
           NEW b, AioOK(b), SockOK(s, p, o, b),
           p.s \in b.enabled => b.clientData[p.s] = s,
           \A y \in Descriptor \ {p.s} : o[y] = os[y] /\ SameAt(aio, b, y)
    PROVE  AI(file, [sock EXCEPT ![s] = p], o, b)
<1>1. p.s \in Descriptor /\ MayUse(s, p.s)
  BY OpenSocket
<1>2. OwnOf(p) = p.s
  BY DEF OwnOf, SockOpen
<1> QED BY <1>1, <1>2, SockStep

\* Or gives it up: it is invalid, closed or freed.
GivenUp(p) ==
    /\ p.awaiting = {}
    /\ \/ ~p.live
       \/ p.sockState = "Invalid"
       \/ p.s = -1 /\ p.sockState = "Unconnected"

LEMMA SockShuts ==
    ASSUME AI(file, sock, os, aio), NEW s \in Socket, SockOpen(sock[s]),
           NEW p \in SocketType, GivenUp(p),
           NEW o, OsOK(o), NEW b, AioOK(b), sock[s].s \notin b.enabled,
           \A y \in Descriptor \ {sock[s].s} : o[y] = os[y] /\ SameAt(aio, b, y)
    PROVE  AI(file, [sock EXCEPT ![s] = p], o, b)
<1>1. sock[s].s \in Descriptor /\ MayUse(s, sock[s].s)
  BY OpenSocket
<1>2. OwnOf(p) = -1 /\ SpareOf(p) = -1
  BY DEF OwnOf, SpareOf, GivenUp
<1>3. SockOK(s, p, o, b)
  BY DEF SockOK, GivenUp
<1> QED BY <1>1, <1>2, <1>3, SockStep

\* A socket that has no descriptor changes to another such state.
LEMMA SockForgets ==
    ASSUME AI(file, sock, os, aio), NEW s \in Socket, OwnOf(sock[s]) = -1,
           NEW p \in SocketType, ~p.live, p.awaiting = {}
    PROVE  AI(file, [sock EXCEPT ![s] = p], os, aio)
<1> DEFINE sk == [sock EXCEPT ![s] = p]
<1>1. /\ sk \in [Socket -> SocketType] /\ sk[s] = p
      /\ \A t \in Socket \ {s} : sk[t] = sock[t]
      /\ file \in [File -> FileType] /\ OsOK(os) /\ AioOK(aio)
  BY DEF AI
<1>2. s \in Client /\ s \notin File
  BY ClientFacts
<1> HIDE DEF sk
<1>3. Own(s, file, sk) = -1 /\ Spare(s, file, sk) = -1
  BY <1>1, <1>2 DEF Own, OwnOf, Spare, SpareOf
<1>4. Claims(s, file, sk) = {}
  BY <1>3 DEF Claims
<1>5. ClientOK(s, file, sk, os, aio)
  BY <1>1, <1>2, <1>3, <1>4 DEF ClientOK, ClaimsOK, SockOK
<1>6. Touches({s}, {}, file, sk, os, aio)
  <2>1. Own(s, file, sock) = -1
    BY <1>2 DEF Own
  <2> QED BY <1>1, <1>2, <1>4, <2>1, Unchanging DEF Touches
<1>7. AI(file, sk, os, aio)
  BY <1>1, <1>5, <1>6, Step
<1> QED BY <1>7 DEF sk

LEMMA CreateStep ==
    ASSUME AInv, NEW s \in Socket, sqSocketCreate(s), UNCHANGED file
    PROVE  AInv'
<1> DEFINE x == Lowest
           p == [Freed EXCEPT !.live = TRUE, !.s = x]
           o == [os EXCEPT ![x] = Opened("fresh")]
<1>1. /\ AI(file, sock, os, aio) /\ ready = {} /\ ready' = ready
      /\ ~sock[s].live /\ FreeDescriptors # {}
      /\ os' = o /\ aio' = aio /\ sock' = [sock EXCEPT ![s] = p]
      /\ file' = file
  BY DEF AInv, sqSocketCreate
<1>2. /\ x \in Descriptor /\ os[x].kind = "closed" /\ x # 0 /\ x # -1
      /\ x \notin aio.enabled /\ OsOK(os) /\ AioOK(aio)
  BY <1>1, FreeOne DEF AI
<1>3. MayUse(s, x)
  BY <1>1, <1>2, ClientFacts DEF MayUse, Own, OwnOf
<1>4. Sound(Opened("fresh")) /\ Opened("fresh").kind = "fresh"
  BY OpenedSound DEF Kind
<1>5. \A flag \in Flag : x \notin aio.mask[flag]
  BY <1>2 DEF AioOK
<1> HIDE DEF x
<1>6. /\ OsOK(o) /\ o[x] = Opened("fresh")
      /\ \A y \in Descriptor \ {x} : o[y] = os[y]
  BY <1>2, <1>4, OsStep
<1>7. /\ p \in SocketType /\ p.live /\ p.s = x /\ p.sockState = "Unconnected"
      /\ p.awaiting = {} /\ ~p.multiListen
  <2>1. Freed \in SocketType
    BY DescriptorFacts DEF Freed, SocketType, Event
  <2>2. p \in SocketType
    BY <1>2, <2>1 DEF SocketType
  <2> QED BY <2>2 DEF Freed
<1> HIDE DEF p, o
<1>8. SockOK(s, p, o, aio)
  BY <1>2, <1>4, <1>5, <1>6, <1>7 DEF SockOK, Unused, IfArmed, Flag
<1>9. OwnOf(p) = x /\ SpareOf(p) = -1
  BY <1>7 DEF OwnOf, SpareOf
<1>10. AI(file, [sock EXCEPT ![s] = p], o, aio)
  BY <1>1, <1>2, <1>3, <1>4, <1>6, <1>7, <1>8, <1>9, SockStep, Unchanging
<1> QED BY <1>1, <1>10, Quiet

LEMMA FreedType == Freed \in SocketType /\ ~Freed.live /\ Freed.awaiting = {}
BY DescriptorFacts DEF Freed, SocketType, Event

LEMMA StatusStep ==
    ASSUME AInv, NEW s \in Socket, sqSocketConnectionStatus(s), UNCHANGED file
    PROVE  AInv'
<1>1. /\ AI(file, sock, os, aio) /\ ready = {} /\ ready' = ready
      /\ sock[s].sockState = "Invalid"
      /\ os' = os /\ aio' = aio /\ sock' = [sock EXCEPT ![s] = Freed]
      /\ file' = file
  BY DEF AInv, sqSocketConnectionStatus
<1>2. OwnOf(sock[s]) = -1
  BY <1>1 DEF OwnOf
<1>3. AI(file, [sock EXCEPT ![s] = Freed], os, aio)
  BY <1>1, <1>2, FreedType, SockForgets
<1> QED BY <1>1, <1>3, Quiet

\* A socket that was never listened on or connected may be enabled, after an
\* attempt to connect that failed.
LEMMA NewSocket ==
    ASSUME AInv, NEW s \in Socket, Valid(s), IsNew(s)
    PROVE  LET x == sock[s].s
               b == aioEnable(aio, x, s)
           IN  /\ AI(file, sock, os, aio) /\ SockOpen(sock[s])
               /\ ready = {} /\ s \in Client
               /\ sock[s] \in SocketType /\ x \in Descriptor /\ x # 0
               /\ sock[s].awaiting = {} /\ ~sock[s].multiListen
               /\ os[x].kind = "fresh" /\ OsOK(os) /\ AioOK(aio)
               /\ AioOK(b) /\ EnabledFor(b, x, s)
               /\ x \notin b.mask["R"] /\ x \notin b.mask["W"]
               /\ IfArmed(b, x, "X", "connectHandler")
               /\ \A y \in Descriptor \ {x} : SameAt(aio, b, y)
<1> DEFINE x == sock[s].s
           b == aioEnable(aio, x, s)
<1>1. /\ AI(file, sock, os, aio) /\ ready = {} /\ sock[s].live
      /\ sock[s].sockState = "Unconnected" /\ x >= 0
      /\ os[x].kind = "fresh"
  BY DEF AInv, Valid, IsNew
<1>2. SockOpen(sock[s])
  BY <1>1 DEF SockOpen
<1>3. /\ sock[s] \in SocketType /\ SockOK(s, sock[s], os, aio) /\ x # 0
      /\ x \in Descriptor /\ Own(s, file, sock) = x
      /\ OsOK(os) /\ AioOK(aio) /\ s \in Client
  BY <1>1, <1>2, OpenSocket
<1>4. Unused(sock[s], os, aio)
  BY <1>1, <1>2, <1>3 DEF SockOK, SockOpen
<1>5. /\ AioOK(b) /\ EnabledFor(b, x, s)
      /\ \A flag \in Flag : x \in b.mask[flag] =>
            /\ x \in aio.mask[flag]
            /\ b.handler[flag][x] = aio.handler[flag][x]
      /\ \A y \in Descriptor \ {x} : SameAt(aio, b, y)
  BY <1>1, <1>3, EnableOwn
<1>6. /\ x \notin b.mask["R"] /\ x \notin b.mask["W"]
      /\ IfArmed(b, x, "X", "connectHandler")
  <2> HIDE DEF b
  <2> QED BY <1>4, <1>5 DEF Unused, IfArmed, Flag
<1> QED BY <1>1, <1>2, <1>3, <1>4, <1>5, <1>6 DEF Unused

LEMMA ListenStep ==
    ASSUME AInv, NEW s \in Socket, NEW several \in BOOLEAN,
           sqSocketListenOnPort(s, several), UNCHANGED file
    PROVE  AInv'
<1> DEFINE x == sock[s].s
           a == aioEnable(aio, x, s)
           b == aioHandle(a, x, "acceptHandler", {"R", "X"})
           p == [sock[s] EXCEPT !.sockState = "WaitingForConnection",
                                !.multiListen = several,
                                !.awaiting = @ \cup {"conn"}]
           o == [os EXCEPT ![x] = Opened("listening")]
<1>1. /\ Valid(s) /\ IsNew(s) /\ os' = o /\ aio' = b /\ file' = file
      /\ ready' = ready
  BY DEF sqSocketListenOnPort
<1>2. sock' = [sock EXCEPT ![s] = p]
  BY DEF sqSocketListenOnPort
<1>3. /\ AI(file, sock, os, aio) /\ SockOpen(sock[s]) /\ ready = {}
      /\ sock[s] \in SocketType /\ x \in Descriptor /\ x # 0
      /\ sock[s].awaiting = {}
      /\ OsOK(os) /\ AioOK(a) /\ EnabledFor(a, x, s)
      /\ x \notin a.mask["W"]
      /\ \A y \in Descriptor \ {x} : SameAt(aio, a, y)
  BY <1>1, NewSocket
<1>4. Sound(Opened("listening")) /\ Opened("listening").kind = "listening"
  BY OpenedSound DEF Kind
<1>5. /\ p \in SocketType /\ SockOpen(p) /\ p.s = x
      /\ p.sockState = "WaitingForConnection" /\ p.awaiting = {"conn"}
  BY <1>3 DEF SocketType, SockOpen, Event
<1> HIDE DEF x, a, p
<1>6. /\ OsOK(o) /\ o[x] = Opened("listening")
      /\ \A y \in Descriptor \ {x} : o[y] = os[y]
  BY <1>3, <1>4, OsStep
<1>7. /\ AioOK(b) /\ b.enabled = a.enabled /\ b.clientData = a.clientData
      /\ \A flag \in {"R", "X"} : ArmedAs(b, x, flag, "acceptHandler")
      /\ \A flag \in Flag \ {"R", "X"} :
            x \in b.mask[flag] <=> x \in a.mask[flag]
      /\ \A y \in Descriptor \ {x} : SameAt(a, b, y)
  <2>1. "acceptHandler" \in HandlerName /\ {"R", "X"} \in SUBSET Flag
    BY DEF HandlerName, SocketHandlers, Flag
  <2>2. x \in a.enabled
    BY <1>3 DEF EnabledFor
  <2> QED BY <1>3, <2>1, <2>2, Handle
<1> HIDE DEF b, o
<1>8. EnabledFor(b, x, s) /\ Listening(p, o, b)
  BY <1>3, <1>4, <1>5, <1>6, <1>7
     DEF EnabledFor, Listening, ArmedAs, IfArmed, Flag
<1>9. SockOK(s, p, o, b) /\ SpareOf(p) = -1
  BY <1>5, <1>8 DEF SockOK, SockOpen, SpareOf
<1>10. \A y \in Descriptor \ {x} : o[y] = os[y] /\ SameAt(aio, b, y)
  BY <1>3, <1>6, <1>7 DEF SameAt
<1>11. AI(file, [sock EXCEPT ![s] = p], o, b)
  BY <1>3, <1>4, <1>5, <1>6, <1>7, <1>8, <1>9, <1>10, SockGoesOn
     DEF EnabledFor, x
<1> QED BY <1>1, <1>2, <1>3, <1>11, Quiet

LEMMA ConnectStep ==
    ASSUME AInv, NEW s \in Socket, sqSocketConnectToPort(s), UNCHANGED file
    PROVE  AInv'
<1> DEFINE x == sock[s].s
           a == aioEnable(aio, x, s)
<1>1. /\ Valid(s) /\ IsNew(s) /\ file' = file /\ ready' = ready
  BY DEF sqSocketConnectToPort
<1>2. /\ AI(file, sock, os, aio) /\ SockOpen(sock[s]) /\ ready = {}
      /\ sock[s] \in SocketType /\ x \in Descriptor /\ x # 0
      /\ sock[s].awaiting = {} /\ ~sock[s].multiListen
      /\ os[x].kind = "fresh" /\ OsOK(os) /\ AioOK(a) /\ EnabledFor(a, x, s)
      /\ x \notin a.mask["R"] /\ x \notin a.mask["W"]
      /\ IfArmed(a, x, "X", "connectHandler")
      /\ \A y \in Descriptor \ {x} : SameAt(aio, a, y)
  BY <1>1, NewSocket
<1>3. sock[s].live /\ sock[s].s = x
  BY <1>2 DEF SockOpen
<1>4. CASE /\ os' = [os EXCEPT ![x] = Opened("connected")]
           /\ sock' = [sock EXCEPT ![s] =
                 notify([sock[s] EXCEPT !.sockState = "Connected"], {"conn"})]
           /\ aio' = a
  <2> DEFINE p == notify([sock[s] EXCEPT !.sockState = "Connected"], {"conn"})
             o == [os EXCEPT ![x] = Opened("connected")]
  <2>1. Sound(Opened("connected")) /\ Opened("connected").kind = "connected"
    BY OpenedSound DEF Kind
  <2>2. /\ p \in SocketType /\ SockOpen(p) /\ p.s = x
        /\ p.sockState = "Connected" /\ p.awaiting = {} /\ ~p.multiListen
    BY <1>2 DEF SocketType, SockOpen, notify
  <2> HIDE DEF x, a, p
  <2>3. /\ OsOK(o) /\ o[x] = Opened("connected")
        /\ \A y \in Descriptor \ {x} : o[y] = os[y]
    BY <1>2, <2>1, OsStep
  <2> HIDE DEF o
  <2>4. Transferring(p, o, a)
    BY <1>2, <2>1, <2>2, <2>3 DEF Transferring, IfArmed
  <2>5. SockOK(s, p, o, a) /\ SpareOf(p) = -1
    BY <1>2, <2>2, <2>4 DEF SockOK, SockOpen, SpareOf
  <2>6. AI(file, [sock EXCEPT ![s] = p], o, a)
    BY <1>2, <1>3, <2>1, <2>2, <2>3, <2>5, SockGoesOn DEF EnabledFor
  <2> QED BY <1>1, <1>2, <1>4, <2>6, Quiet DEF o, p
<1>5. CASE /\ os' = [os EXCEPT ![x] = Opened("connecting")]
           /\ sock' = [sock EXCEPT ![s].sockState = "WaitingForConnection",
                                   ![s].awaiting = @ \cup {"conn"}]
           /\ aio' = aioHandle(a, x, "connectHandler", {"W", "X"})
  <2> DEFINE p == [sock[s] EXCEPT !.sockState = "WaitingForConnection",
                                  !.awaiting = @ \cup {"conn"}]
             o == [os EXCEPT ![x] = Opened("connecting")]
             b == aioHandle(a, x, "connectHandler", {"W", "X"})
  <2>0. sock' = [sock EXCEPT ![s] = p]
    BY <1>5
  <2>1. Sound(Opened("connecting")) /\ Opened("connecting").kind = "connecting"
    BY OpenedSound DEF Kind
  <2>2. /\ p \in SocketType /\ SockOpen(p) /\ p.s = x /\ ~p.multiListen
        /\ p.sockState = "WaitingForConnection" /\ p.awaiting = {"conn"}
    BY <1>2 DEF SocketType, SockOpen, Event
  <2> HIDE DEF x, a, p
  <2>3. /\ OsOK(o) /\ o[x] = Opened("connecting")
        /\ \A y \in Descriptor \ {x} : o[y] = os[y]
    BY <1>2, <2>1, OsStep
  <2>4. /\ AioOK(b) /\ b.enabled = a.enabled /\ b.clientData = a.clientData
        /\ \A flag \in {"W", "X"} : ArmedAs(b, x, flag, "connectHandler")
        /\ \A flag \in Flag \ {"W", "X"} :
              x \in b.mask[flag] <=> x \in a.mask[flag]
        /\ \A y \in Descriptor \ {x} : SameAt(a, b, y)
    <3>1. "connectHandler" \in HandlerName /\ {"W", "X"} \in SUBSET Flag
      BY DEF HandlerName, SocketHandlers, Flag
    <3>2. x \in a.enabled
      BY <1>2 DEF EnabledFor
    <3> QED BY <1>2, <3>1, <3>2, Handle
  <2> HIDE DEF o, b
  <2>5. EnabledFor(b, x, s) /\ Connecting(p, o, b)
    BY <1>2, <2>1, <2>2, <2>3, <2>4
       DEF EnabledFor, Connecting, IfArmed, ArmedAs, Flag
  <2>6. SockOK(s, p, o, b) /\ SpareOf(p) = -1
    BY <2>2, <2>5 DEF SockOK, SockOpen, SpareOf
  <2>7. \A y \in Descriptor \ {x} : o[y] = os[y] /\ SameAt(aio, b, y)
    BY <1>2, <2>3, <2>4 DEF SameAt
  <2>8. AI(file, [sock EXCEPT ![s] = p], o, b)
    BY <1>2, <1>3, <2>1, <2>2, <2>3, <2>4, <2>5, <2>6, <2>7, SockGoesOn
       DEF EnabledFor
  <2> QED BY <1>1, <1>2, <1>5, <2>0, <2>8, Quiet DEF o, b
<1>6. CASE /\ os' = os
           /\ sock' = [sock EXCEPT ![s] =
                 notify([sock[s] EXCEPT !.sockState = "Unconnected"],
                        {"conn"})]
           /\ aio' = a
  <2> DEFINE p == notify([sock[s] EXCEPT !.sockState = "Unconnected"],
                         {"conn"})
  <2>1. /\ p \in SocketType /\ SockOpen(p) /\ p.s = x
        /\ p.sockState = "Unconnected" /\ p.awaiting = {} /\ ~p.multiListen
    BY <1>2 DEF SocketType, SockOpen, notify
  <2> HIDE DEF x, a, p
  <2>2. SockOK(s, p, os, a) /\ SpareOf(p) = -1
    BY <1>2, <2>1 DEF SockOK, SockOpen, Unused, SpareOf
  <2>3. AI(file, [sock EXCEPT ![s] = p], os, a)
    BY <1>2, <1>3, <2>1, <2>2, SockGoesOn DEF EnabledFor
  <2> QED BY <1>1, <1>2, <1>6, <2>3, Quiet DEF p
<1> QED BY <1>4, <1>5, <1>6 DEF sqSocketConnectToPort

\* What is left of a socket that was closed: its descriptor is disabled, and
\* may be another's the next moment.
LEMMA Closing ==
    ASSUME ClosesDone, AI(file, sock, os, aio),
           NEW s \in Socket, sock[s].live, sock[s].sockState # "Invalid",
           NEW closing \in closeConnection(s)
    PROVE  IF sock[s].s = -1
           THEN /\ closing.sock = sock[s]
                /\ closing.os = os /\ closing.aio = aio
           ELSE /\ closing.sock \in SocketType
                /\ closing.sock.sockState = "Unconnected"
                /\ closing.sock.s = -1 /\ closing.sock.awaiting = {}
                /\ OsOK(closing.os) /\ AioOK(closing.aio)
                /\ sock[s].s \notin closing.aio.enabled
                /\ \A y \in Descriptor \ {sock[s].s} :
                      /\ closing.os[y] = os[y]
                      /\ SameAt(aio, closing.aio, y)
<1> DEFINE x == sock[s].s
           p == [[sock[s] EXCEPT !.awaiting = {}]
                    EXCEPT !.sockState = "Unconnected", !.s = -1]
           o == [os EXCEPT ![x] = Opened("closed")]
           b == aioDisable(aio, x)
<1>1. sock[s] \in SocketType
  BY DEF AI
<1>2. CASE x = -1
  <2>1. closing = Outcome(sock[s], os, aio)
    BY <1>1, <1>2 DEF closeConnection, SocketType
  <2> QED BY <1>2, <2>1 DEF Outcome
<1>3. CASE x # -1
  <2>1. SockOpen(sock[s])
    BY <1>3 DEF SockOpen
  <2>2. x \in Descriptor /\ x # 0 /\ OsOK(os) /\ AioOK(aio)
    BY <2>1, OpenSocket
  <2>3. ~(x < 0)
    BY <2>2, DescriptorFacts
  <2>4. [sock[s] EXCEPT !.awaiting = {}].s = x
    BY <1>1 DEF SocketType
  <2>5. closing = Outcome(p, o, b)
    BY <2>3, <2>4 DEF closeConnection, ClosesDone
  <2>6. Sound(Opened("closed"))
    BY OpenedSound DEF Kind
  <2>7. /\ p \in SocketType /\ p.sockState = "Unconnected" /\ p.s = -1
        /\ p.awaiting = {}
    BY <1>1 DEF SocketType
  <2> HIDE DEF x, p
  <2>8. OsOK(o) /\ \A y \in Descriptor \ {x} : o[y] = os[y]
    BY <2>2, <2>6, OsStep
  <2>9. /\ AioOK(b) /\ x \notin b.enabled
        /\ \A y \in Descriptor \ {x} : SameAt(aio, b, y)
    BY <2>2, Disable
  <2> HIDE DEF o, b
  <2>10. closing.sock = p /\ closing.os = o /\ closing.aio = b
    BY <2>5 DEF Outcome
  <2> QED BY <1>3, <2>7, <2>8, <2>9, <2>10 DEF x
<1> QED BY <1>2, <1>3

LEMMA CloseStep ==
    ASSUME AInv, ClosesDone, NEW s \in Socket, sqSocketCloseConnection(s),
           UNCHANGED file
    PROVE  AInv'
<1>1. /\ AI(file, sock, os, aio) /\ ready = {} /\ ready' = ready
      /\ sock[s].live /\ sock[s].sockState # "Invalid" /\ file' = file
  BY DEF AInv, sqSocketCloseConnection, Valid
<1>2. PICK closing \in closeConnection(s) :
         /\ sock' = [sock EXCEPT ![s] = closing.sock]
         /\ os' = closing.os
         /\ aio' = closing.aio
  BY DEF sqSocketCloseConnection
<1>3. CASE sock[s].s = -1
  <2>1. closing.sock = sock[s] /\ closing.os = os /\ closing.aio = aio
    BY <1>1, <1>3, Closing
  <2>2. sock' = sock /\ os' = os /\ aio' = aio
    BY <1>1, <1>2, <2>1, Unchanging
  <2> QED BY <1>1, <2>2, Quiet
<1>4. CASE sock[s].s # -1
  <2>1. /\ closing.sock \in SocketType
        /\ closing.sock.sockState = "Unconnected"
        /\ closing.sock.s = -1 /\ closing.sock.awaiting = {}
        /\ OsOK(closing.os) /\ AioOK(closing.aio)
        /\ sock[s].s \notin closing.aio.enabled
        /\ \A y \in Descriptor \ {sock[s].s} :
              closing.os[y] = os[y] /\ SameAt(aio, closing.aio, y)
    BY <1>1, <1>4, Closing
  <2>2. SockOpen(sock[s])
    BY <1>1, <1>4 DEF SockOpen
  <2>3. AI(file, [sock EXCEPT ![s] = closing.sock], closing.os, closing.aio)
    BY <1>1, <2>1, <2>2, SockShuts DEF GivenUp
  <2> QED BY <1>1, <1>2, <2>3, Quiet
<1> QED BY <1>3, <1>4

LEMMA DestroyStep ==
    ASSUME AInv, ClosesDone, NEW s \in Socket, sqSocketDestroy(s),
           UNCHANGED file
    PROVE  AInv'
<1>1. /\ AI(file, sock, os, aio) /\ ready = {} /\ ready' = ready
      /\ sock[s].live /\ sock[s].sockState # "Invalid" /\ file' = file
      /\ sock' = [sock EXCEPT ![s] = Freed]
  BY DEF AInv, sqSocketDestroy, Valid
<1>2. PICK closing \in closeConnection(s) :
         os' = closing.os /\ aio' = closing.aio
  BY DEF sqSocketDestroy
<1>3. CASE sock[s].s = -1
  <2>1. closing.os = os /\ closing.aio = aio
    BY <1>1, <1>3, Closing
  <2>2. OwnOf(sock[s]) = -1
    BY <1>3 DEF OwnOf
  <2>3. AI(file, [sock EXCEPT ![s] = Freed], os, aio)
    BY <1>1, <2>2, FreedType, SockForgets
  <2> QED BY <1>1, <1>2, <2>1, <2>3, Quiet
<1>4. CASE sock[s].s # -1
  <2>1. /\ OsOK(closing.os) /\ AioOK(closing.aio)
        /\ sock[s].s \notin closing.aio.enabled
        /\ \A y \in Descriptor \ {sock[s].s} :
              closing.os[y] = os[y] /\ SameAt(aio, closing.aio, y)
    BY <1>1, <1>4, Closing
  <2>2. SockOpen(sock[s])
    BY <1>1, <1>4 DEF SockOpen
  <2>3. GivenUp(Freed)
    BY FreedType DEF GivenUp
  <2>4. AI(file, [sock EXCEPT ![s] = Freed], closing.os, closing.aio)
    BY <1>1, <2>1, <2>2, <2>3, FreedType, SockShuts
  <2> QED BY <1>1, <1>2, <2>4, Quiet
<1> QED BY <1>3, <1>4

\* What is read and written is connected.
LEMMA ConnectedSocket ==
    ASSUME AInv, ~TransfersUnconnected, NEW s \in Socket, MayTransfer(s)
    PROVE  LET x == sock[s].s
           IN  /\ AI(file, sock, os, aio) /\ SockOpen(sock[s]) /\ ready = {}
               /\ sock[s].sockState \in {"Connected", "OtherEndClosed"}
               /\ sock[s] \in SocketType /\ x \in Descriptor /\ x # 0
               /\ EnabledFor(aio, x, s) /\ Transferring(sock[s], os, aio)
               /\ OsOK(os) /\ AioOK(aio) /\ Sound(os[x])
<1>1. /\ AI(file, sock, os, aio) /\ ready = {} /\ sock[s].live
      /\ sock[s].sockState \in {"Connected", "OtherEndClosed"}
      /\ ~sock[s].multiListen
  BY DEF AInv, MayTransfer, Valid
<1>2. SockOK(s, sock[s], os, aio)
  BY <1>1, ClientFacts DEF AI, ClientOK
<1>3. SockOpen(sock[s])
  BY <1>1, <1>2 DEF SockOpen, SockOK
<1>4. EnabledFor(aio, sock[s].s, s) /\ Transferring(sock[s], os, aio)
  BY <1>1, <1>2, <1>3 DEF SockOpen, SockOK, Keeping
<1> QED BY <1>1, <1>3, <1>4, OpenSocket

\* A connected socket asks for an event, or finds the other end closed.
LEMMA AskingStep ==
    ASSUME AInv, ~TransfersUnconnected, NEW s \in Socket, MayTransfer(s),
           NEW p \in SocketType, SockOpen(p), p.s = sock[s].s,
           p.sockState \in {"Connected", "OtherEndClosed"}, ~p.multiListen,
           NEW b, AioOK(b), EnabledFor(b, p.s, s), Transferring(p, os, b),
           \A y \in Descriptor \ {p.s} : SameAt(aio, b, y),
           sock' = [sock EXCEPT ![s] = p], aio' = b,
           UNCHANGED <<file, os, ready>>
    PROVE  AInv'
<1>1. /\ AI(file, sock, os, aio) /\ SockOpen(sock[s]) /\ ready = {}
      /\ OsOK(os) /\ Transferring(sock[s], os, aio)
  BY ConnectedSocket
<1>2. SockOK(s, p, os, b) /\ SpareOf(p) = -1
  BY DEF SockOK, SockOpen, SpareOf
<1>3. os[p.s].kind # "closed"
  BY <1>1 DEF Transferring
<1>4. p.s \in b.enabled => b.clientData[p.s] = s
  BY DEF EnabledFor
<1>5. AI(file, [sock EXCEPT ![s] = p], os, b)
  BY <1>1, <1>2, <1>3, <1>4, SockGoesOn
<1> QED BY <1>1, <1>5, Quiet

LEMMA ReceiveAvailableStep ==
    ASSUME AInv, ~TransfersUnconnected, NEW s \in Socket,
           sqSocketReceiveDataAvailable(s), UNCHANGED file
    PROVE  AInv'
<1> DEFINE x == sock[s].s
           b == aioHandle(aio, x, "dataHandler", {"R", "X"})
           state == IF sock[s].sockState = "Connected" /\ socketReadable(x) = -1
                    THEN "OtherEndClosed" ELSE sock[s].sockState
           p == [sock[s] EXCEPT !.sockState = state,
                                !.awaiting = @ \cup {"read"}]
<1>1. /\ MayTransfer(s) /\ aio' = b /\ sock' = [sock EXCEPT ![s] = p]
      /\ UNCHANGED <<file, os, ready>>
  BY DEF sqSocketReceiveDataAvailable
<1>2. /\ AI(file, sock, os, aio) /\ SockOpen(sock[s])
      /\ sock[s].sockState \in {"Connected", "OtherEndClosed"}
      /\ sock[s] \in SocketType /\ x \in Descriptor
      /\ EnabledFor(aio, x, s) /\ Transferring(sock[s], os, aio)
      /\ AioOK(aio)
  BY <1>1, ConnectedSocket
<1>3. state \in {"Connected", "OtherEndClosed"}
  BY <1>2
<1> HIDE DEF state
<1>4. /\ p \in SocketType /\ SockOpen(p) /\ p.s = x /\ p.sockState = state
      /\ ~p.multiListen
      /\ p.awaiting = sock[s].awaiting \cup {"read"}
  BY <1>2, <1>3 DEF SocketType, SockOpen, Event, Transferring
<1> HIDE DEF p
<1>5. /\ AioOK(b) /\ b.enabled = aio.enabled /\ b.clientData = aio.clientData
      /\ \A flag \in {"R", "X"} : ArmedAs(b, x, flag, "dataHandler")
      /\ \A flag \in Flag \ {"R", "X"} :
            /\ x \in b.mask[flag] <=> x \in aio.mask[flag]
            /\ b.handler[flag][x] = aio.handler[flag][x]
      /\ \A y \in Descriptor \ {x} : SameAt(aio, b, y)
  <2>1. "dataHandler" \in HandlerName /\ {"R", "X"} \in SUBSET Flag
    BY DEF HandlerName, SocketHandlers, Flag
  <2>2. x \in aio.enabled
    BY <1>2 DEF EnabledFor
  <2> QED BY <1>2, <2>1, <2>2, Handle
<1> HIDE DEF b
<1>6. Transferring(p, os, b) /\ EnabledFor(b, x, s)
  BY <1>2, <1>4, <1>5 DEF Transferring, IfArmed, ArmedAs, EnabledFor, Flag
<1> QED BY <1>1, <1>3, <1>4, <1>5, <1>6, AskingStep

LEMMA SendDoneStep ==
    ASSUME AInv, ~TransfersUnconnected, NEW s \in Socket,
           sqSocketSendDone(s), UNCHANGED file
    PROVE  AInv'
<1> DEFINE x == sock[s].s
           b == aioHandle(aio, x, "dataHandler", {"W", "X"})
           p == [sock[s] EXCEPT !.awaiting = @ \cup {"write"}]
<1>1. /\ MayTransfer(s) /\ aio' = b /\ sock' = [sock EXCEPT ![s] = p]
      /\ UNCHANGED <<file, os, ready>>
  BY DEF sqSocketSendDone
<1>2. /\ AI(file, sock, os, aio) /\ SockOpen(sock[s])
      /\ sock[s].sockState \in {"Connected", "OtherEndClosed"}
      /\ sock[s] \in SocketType /\ x \in Descriptor
      /\ EnabledFor(aio, x, s) /\ Transferring(sock[s], os, aio)
      /\ AioOK(aio)
  BY <1>1, ConnectedSocket
<1>3. /\ p \in SocketType /\ SockOpen(p) /\ p.s = x
      /\ p.sockState = sock[s].sockState /\ ~p.multiListen
      /\ p.awaiting = sock[s].awaiting \cup {"write"}
  BY <1>2 DEF SocketType, SockOpen, Event, Transferring
<1> HIDE DEF p
<1>4. /\ AioOK(b) /\ b.enabled = aio.enabled /\ b.clientData = aio.clientData
      /\ \A flag \in {"W", "X"} : ArmedAs(b, x, flag, "dataHandler")
      /\ \A flag \in Flag \ {"W", "X"} :
            /\ x \in b.mask[flag] <=> x \in aio.mask[flag]
            /\ b.handler[flag][x] = aio.handler[flag][x]
      /\ \A y \in Descriptor \ {x} : SameAt(aio, b, y)
  <2>1. "dataHandler" \in HandlerName /\ {"W", "X"} \in SUBSET Flag
    BY DEF HandlerName, SocketHandlers, Flag
  <2>2. x \in aio.enabled
    BY <1>2 DEF EnabledFor
  <2> QED BY <1>2, <2>1, <2>2, Handle
<1> HIDE DEF b
<1>5. Transferring(p, os, b) /\ EnabledFor(b, x, s)
  BY <1>2, <1>3, <1>4 DEF Transferring, IfArmed, ArmedAs, EnabledFor, Flag
<1> QED BY <1>1, <1>2, <1>3, <1>4, <1>5, AskingStep

\* Reading and writing change what the kernel has for a connection, but not
\* that it is one.
LEMMA SameKind ==
    ASSUME AI(file, sock, os, aio), NEW x \in Descriptor, x # 0,
           NEW w, Sound(w), w.kind = os[x].kind
    PROVE  AI(file, sock, [os EXCEPT ![x] = w], aio)
<1>1. OsOK(os)
  BY DEF AI
<1>2. /\ OsOK([os EXCEPT ![x] = w]) /\ [os EXCEPT ![x] = w][x] = w
      /\ \A y \in Descriptor \ {x} : [os EXCEPT ![x] = w][y] = os[y]
  BY <1>1, OsStep
<1> QED BY <1>2, KindsKept

LEMMA TransferStep ==
    ASSUME AInv, ~TransfersUnconnected, NEW s \in Socket, MayTransfer(s),
           NEW w, Sound(w), w.kind = os[sock[s].s].kind,
           os' = [os EXCEPT ![sock[s].s] = w],
           UNCHANGED <<file, sock, aio, ready>>
    PROVE  AInv'
<1>1. /\ AI(file, sock, os, aio) /\ ready = {} /\ sock[s].s \in Descriptor
      /\ sock[s].s # 0
  BY ConnectedSocket
<1>2. AI(file, sock, [os EXCEPT ![sock[s].s] = w], aio)
  BY <1>1, SameKind
<1> QED BY <1>1, <1>2, Quiet

LEMMA OtherEndClosedStep ==
    ASSUME AInv, ~TransfersUnconnected, NEW s \in Socket, MayTransfer(s),
           NEW p \in SocketType, SockOpen(p), p.s = sock[s].s,
           p.sockState = "OtherEndClosed", ~p.multiListen,
           p.awaiting = sock[s].awaiting,
           sock' = [sock EXCEPT ![s] = p], UNCHANGED <<file, os, aio, ready>>
    PROVE  AInv'
<1>1. /\ EnabledFor(aio, p.s, s) /\ Transferring(sock[s], os, aio)
      /\ AioOK(aio)
  BY ConnectedSocket
<1>2. Transferring(p, os, aio)
  BY <1>1 DEF Transferring
<1> QED BY <1>1, <1>2, AskingStep, Unchanging

LEMMA ReceiveDataStep ==
    ASSUME AInv, ~TransfersUnconnected, NEW s \in Socket,
           sqSocketReceiveData(s), UNCHANGED file
    PROVE  AInv'
<1> DEFINE x == sock[s].s
           p == notify([sock[s] EXCEPT !.sockState = "OtherEndClosed"],
                       {"conn"})
           w == [os[x] EXCEPT !.input = "none"]
<1>1. MayTransfer(s) /\ UNCHANGED <<file, aio, ready>>
  BY DEF sqSocketReceiveData
<1>2. /\ SockOpen(sock[s]) /\ sock[s] \in SocketType /\ Sound(os[x])
      /\ Transferring(sock[s], os, aio)
  BY <1>1, ConnectedSocket
<1>3. CASE os' = [os EXCEPT ![x].input = "none"] /\ UNCHANGED sock
  <2>1. Sound(w) /\ w.kind = os[x].kind
    BY <1>2 DEF Sound, OsType
  <2>2. os' = [os EXCEPT ![x] = w]
    BY <1>3
  <2> HIDE DEF w
  <2> QED BY <1>1, <1>3, <2>1, <2>2, TransferStep
<1>4. CASE sock' = [sock EXCEPT ![s] = p] /\ UNCHANGED os
  <2>1. /\ p \in SocketType /\ SockOpen(p) /\ p.s = x
        /\ p.sockState = "OtherEndClosed" /\ ~p.multiListen
        /\ p.awaiting = sock[s].awaiting \ {"conn"}
    BY <1>2 DEF SocketType, SockOpen, notify, Transferring
  <2>2. p.awaiting = sock[s].awaiting
    BY <1>2, <2>1 DEF Transferring
  <2> HIDE DEF p
  <2> QED BY <1>1, <1>4, <2>1, <2>2, OtherEndClosedStep
<1>5. ErrorAnswered(x) = os
  BY <1>2 DEF ErrorAnswered, Transferring
<1> QED BY <1>3, <1>4, <1>5 DEF sqSocketReceiveData

LEMMA SendDataStep ==
    ASSUME AInv, ~TransfersUnconnected, NEW s \in Socket,
           sqSocketSendData(s), UNCHANGED file
    PROVE  AInv'
<1> DEFINE x == sock[s].s
           p == [sock[s] EXCEPT !.sockState = "OtherEndClosed"]
           w == [os[x] EXCEPT !.room = FALSE]
<1>1. MayTransfer(s) /\ UNCHANGED <<file, aio, ready>>
  BY DEF sqSocketSendData
<1>2. /\ SockOpen(sock[s]) /\ sock[s] \in SocketType /\ Sound(os[x])
      /\ Transferring(sock[s], os, aio)
  BY <1>1, ConnectedSocket
<1>3. CASE os' = [os EXCEPT ![x].room = FALSE] /\ UNCHANGED sock
  <2>1. Sound(w) /\ w.kind = os[x].kind
    BY <1>2 DEF Sound, OsType
  <2>2. os' = [os EXCEPT ![x] = w]
    BY <1>3
  <2> HIDE DEF w
  <2> QED BY <1>1, <1>3, <2>1, <2>2, TransferStep
<1>4. CASE sock' = [sock EXCEPT ![s].sockState = "OtherEndClosed"]
           /\ UNCHANGED os
  <2>1. /\ p \in SocketType /\ SockOpen(p) /\ p.s = x
        /\ p.sockState = "OtherEndClosed" /\ ~p.multiListen
        /\ p.awaiting = sock[s].awaiting
    BY <1>2 DEF SocketType, SockOpen, Transferring
  <2>2. sock' = [sock EXCEPT ![s] = p]
    BY <1>4
  <2> HIDE DEF p
  <2> QED BY <1>1, <1>4, <2>1, <2>2, OtherEndClosedStep
<1>5. ErrorAnswered(x) = os
  BY <1>2 DEF ErrorAnswered, Transferring
<1> QED BY <1>3, <1>4, <1>5 DEF sqSocketSendData

\* The server gives up the connection it kept and listens again; the new
\* socket takes the connection, which nobody had enabled.
LEMMA AcceptFromStep ==
    ASSUME AInv, NEW s \in Socket, NEW server \in Socket \ {s},
           sqSocketAcceptFrom(s, server), UNCHANGED file
    PROVE  AInv'
<1> DEFINE x == sock[server].s
           fd == sock[server].acceptedSock
           p == [Freed EXCEPT !.live = TRUE, !.s = fd,
                              !.sockState = "Connected"]
           q == [sock[server] EXCEPT !.acceptedSock = -1,
                                     !.awaiting = @ \cup {"conn"},
                                     !.sockState = "WaitingForConnection"]
           a == aioHandle(aio, x, "acceptHandler", {"R", "X"})
           b == aioEnable(a, fd, s)
           sk == [sock EXCEPT ![s] = p, ![server] = q]
<1>1. /\ AI(file, sock, os, aio) /\ ready = {} /\ ready' = ready
      /\ ~sock[s].live /\ sock[server].live /\ sock[server].multiListen
      /\ sock[server].sockState = "Connected" /\ fd >= 0
      /\ sock' = sk /\ aio' = b /\ os' = os /\ file' = file
  BY DEF AInv, sqSocketAcceptFrom, Valid
<1>2. /\ sock \in [Socket -> SocketType] /\ file \in [File -> FileType]
      /\ OsOK(os) /\ AioOK(aio) /\ sock[server] \in SocketType
      /\ SockOK(server, sock[server], os, aio)
      /\ ClaimsOK(server, file, sock, os)
      /\ s \in Client /\ server \in Client /\ s # server
      /\ s \notin File /\ server \notin File
  BY <1>1, ClientFacts DEF AI, ClientOK
<1>3. /\ SockOpen(sock[server]) /\ EnabledFor(aio, x, server)
      /\ Keeping(sock[server], os, aio)
  BY <1>1, <1>2 DEF SockOK, SockOpen, Transferring
<1>4. /\ Own(server, file, sock) = x /\ Spare(server, file, sock) = fd
      /\ Own(s, file, sock) = -1 /\ Spare(s, file, sock) = -1
  BY <1>1, <1>2 DEF Own, OwnOf, Spare, SpareOf
<1>5. fd # -1 /\ x # -1
  BY <1>1, <1>3 DEF SockOpen
<1>6. Claims(server, file, sock) = {x, fd} /\ Claims(s, file, sock) = {}
  BY <1>4, <1>5 DEF Claims
<1>7. /\ x \in Descriptor /\ fd \in Descriptor /\ x # fd /\ x # 0 /\ fd # 0
      /\ os[x].kind = "listening" /\ os[fd].kind = "connected"
  BY <1>2, <1>3, <1>4, <1>5, <1>6 DEF ClaimsOK, Keeping
<1>8. fd \notin aio.enabled
  <2> SUFFICES ASSUME fd \in aio.enabled PROVE FALSE
    OBVIOUS
  <2> DEFINE d == aio.clientData[fd]
  <2>1. d \in Client /\ Own(d, file, sock) = fd
    BY <1>1, <1>7 DEF AI, OwnedAt
  <2>2. fd \in Claims(d, file, sock)
    BY <1>5, <2>1, Claimed
  <2>3. d = server
    BY <1>1, <1>2, <1>6, <2>1, <2>2 DEF AI, Apart
  <2> QED BY <1>4, <1>7, <2>1, <2>3
<1>9. /\ p \in SocketType /\ p.live /\ p.s = fd /\ p.sockState = "Connected"
      /\ p.awaiting = {} /\ ~p.multiListen
  <2>1. p \in SocketType
    BY <1>7, FreedType DEF SocketType
  <2> QED BY <2>1 DEF Freed
<1>10. /\ q \in SocketType /\ q.live /\ q.s = x
       /\ q.sockState = "WaitingForConnection" /\ q.awaiting = {"conn"}
  BY <1>1, <1>2, <1>3 DEF SocketType, Event, Keeping
<1> HIDE DEF p, q
<1>11. /\ sk \in [Socket -> SocketType] /\ sk[s] = p /\ sk[server] = q
       /\ \A t \in Socket \ {s, server} : sk[t] = sock[t]
  BY <1>2, <1>9, <1>10
<1> HIDE DEF sk, x, fd
<1>12. /\ AioOK(a) /\ a.enabled = aio.enabled /\ a.clientData = aio.clientData
       /\ \A flag \in {"R", "X"} : ArmedAs(a, x, flag, "acceptHandler")
       /\ \A flag \in Flag \ {"R", "X"} :
             x \in a.mask[flag] <=> x \in aio.mask[flag]
       /\ \A y \in Descriptor \ {x} : SameAt(aio, a, y)
  <2>1. "acceptHandler" \in HandlerName /\ {"R", "X"} \in SUBSET Flag
    BY DEF HandlerName, SocketHandlers, Flag
  <2>2. x \in aio.enabled
    BY <1>3 DEF EnabledFor, x
  <2> QED BY <1>2, <2>1, <2>2, Handle
<1>13. x \notin aio.mask["W"] /\ EnabledFor(aio, x, server)
  BY <1>3 DEF Keeping, x
<1> HIDE DEF a
<1>14. /\ AioOK(b) /\ EnabledFor(b, fd, s)
       /\ \A flag \in Flag : fd \notin b.mask[flag]
       /\ \A y \in Descriptor \ {fd} : SameAt(a, b, y)
  BY <1>2, <1>7, <1>8, <1>12, Enable
<1> HIDE DEF b
<1>15. SameAt(a, b, x)
  BY <1>7, <1>14
<1>16. /\ \A flag \in {"R", "X"} : ArmedAs(b, x, flag, "acceptHandler")
       /\ x \notin b.mask["W"] /\ EnabledFor(b, x, server)
  BY <1>12, <1>13, <1>15 DEF SameAt, ArmedAs, EnabledFor, Flag
<1>17. SockOK(server, q, os, b)
  <2>1. Listening(q, os, b)
    BY <1>7, <1>10, <1>16 DEF Listening, IfArmed, ArmedAs
  <2>2. q.s # -1
    BY <1>5, <1>10 DEF x
  <2> QED BY <1>10, <1>16, <2>1, <2>2 DEF SockOK
<1>18. SockOK(s, p, os, b)
  <2>1. Transferring(p, os, b)
    BY <1>7, <1>9, <1>14 DEF Transferring, IfArmed, Flag
  <2>2. p.s # -1
    BY <1>5, <1>9 DEF fd
  <2> QED BY <1>9, <1>14, <2>1, <2>2 DEF SockOK
<1>19. /\ Own(server, file, sk) = x /\ Spare(server, file, sk) = -1
       /\ Own(s, file, sk) = fd /\ Spare(s, file, sk) = -1
  BY <1>2, <1>9, <1>10, <1>11 DEF Own, OwnOf, Spare, SpareOf
<1>20. Claims(server, file, sk) = {x} /\ Claims(s, file, sk) = {fd}
  BY <1>5, <1>19 DEF Claims, x, fd
<1>21. ClientOK(s, file, sk, os, b) /\ ClientOK(server, file, sk, os, b)
  <2>1. x # -1 /\ fd # -1
    BY <1>5 DEF x, fd
  <2> QED BY <1>2, <1>7, <1>11, <1>17, <1>18, <1>19, <1>20, <2>1
          DEF ClientOK, ClaimsOK
<1>22. OwnedAt(x, file, sk, b) /\ OwnedAt(fd, file, sk, b)
  BY <1>2, <1>14, <1>16, <1>19 DEF OwnedAt, EnabledFor
<1>23. Touches({s, server}, {x, fd}, file, sk, os, b)
  <2>1. \A y \in Descriptor \ {x, fd} : SameAt(aio, b, y)
    BY <1>12, <1>14 DEF SameAt
  <2>2. \A c \in Client \ {s, server} :
           Claims(c, file, sock) \cap {x, fd} = {}
    BY <1>1, <1>2, <1>6 DEF AI, Apart, x, fd
  <2>3. /\ Own(s, file, sock) \in {x, fd} \cup {-1}
        /\ Own(server, file, sock) \in {x, fd} \cup {-1}
    BY <1>4 DEF x
  <2> QED BY <1>2, <1>7, <1>11, <1>20, <2>1, <2>2, <2>3 DEF Touches
<1>24. \A c, d \in {s, server} : c # d =>
          Claims(c, file, sk) \cap Claims(d, file, sk) = {}
  BY <1>7, <1>20
<1>25. AI(file, sk, os, b)
  BY <1>1, <1>2, <1>11, <1>14, <1>21, <1>22, <1>23, <1>24, Step
<1> QED BY <1>1, <1>25, Quiet

LEMMA SocketsStep ==
    ASSUME AInv, ClosesDone, ~TransfersUnconnected, SocketsNext,
           UNCHANGED file
    PROVE  AInv'
BY CreateStep, StatusStep, ListenStep, ConnectStep, AcceptFromStep, CloseStep,
   DestroyStep, ReceiveAvailableStep, SendDoneStep, ReceiveDataStep,
   SendDataStep DEF SocketsNext

-----------------------------------------------------------------------------
(* The handlers of sockets.                                                *)

\* Which handler may be called for a socket in which of its states.
LEMMA Called ==
    ASSUME AInv, ready # {}, aio.clientData[NextUp[1]] \in Socket
    PROVE  LET fd == NextUp[1]
               flag == NextUp[2]
               s == aio.clientData[fd]
               p == sock[s]
               h == aio.handler[flag][fd]
           IN  /\ SockOpen(p) /\ p.s = fd
               /\ \/ /\ h = "acceptHandler" /\ flag = "R"
                     /\ p.sockState = "WaitingForConnection"
                     /\ Listening(p, os, aio)
                  \/ /\ h = "connectHandler" /\ flag = "W"
                     /\ Connecting(p, os, aio)
                  \/ /\ h = "connectHandler" /\ flag = "X"
                     /\ os[fd].kind = "connected"
                     /\ p.awaiting \subseteq {"conn"} /\ ~p.multiListen
                  \/ /\ h = "dataHandler"
                     /\ p.sockState \in {"Connected", "OtherEndClosed"}
                     /\ Transferring(p, os, aio)
<1> DEFINE fd == NextUp[1]
           flag == NextUp[2]
           s == aio.clientData[fd]
           p == sock[s]
           h == aio.handler[flag][fd]
<1>1. /\ fd \in Descriptor /\ flag \in Flag /\ fd \in aio.mask[flag]
      /\ flag = "X" => os[fd].input = "urgent"
      /\ Own(s, file, sock) = fd /\ AI(file, sock, os, aio)
      /\ s \in Socket
  BY Next1 DEF AInv
<1>2. fd # -1 /\ s \notin File
  BY <1>1, DescriptorFacts, ClientFacts
<1>3. SockOpen(p) /\ p.s = fd
  BY <1>1, <1>2 DEF Own, OwnOf, SockOpen
<1>4. SockOK(s, p, os, aio) /\ Sound(os[fd])
  BY <1>1, <1>3, OpenSocket
<1> SUFFICES \/ /\ h = "acceptHandler" /\ flag = "R"
                /\ p.sockState = "WaitingForConnection"
                /\ Listening(p, os, aio)
             \/ /\ h = "connectHandler" /\ flag = "W"
                /\ Connecting(p, os, aio)
             \/ /\ h = "connectHandler" /\ flag = "X"
                /\ os[fd].kind = "connected"
                /\ p.awaiting \subseteq {"conn"} /\ ~p.multiListen
             \/ /\ h = "dataHandler"
                /\ p.sockState \in {"Connected", "OtherEndClosed"}
                /\ Transferring(p, os, aio)
  BY <1>3
<1> HIDE DEF fd, flag, s, p, h
<1>5. flag = "X" => os[fd].kind = "connected"
  BY <1>1, <1>4 DEF Sound
<1>6. h = aio.handler[flag][fd] /\ flag \in {"R", "W", "X"}
  BY <1>1 DEF h, Flag
<1>7. CASE Unused(p, os, aio)
  BY <1>1, <1>3, <1>5, <1>6, <1>7 DEF Unused, IfArmed
<1>8. CASE Listening(p, os, aio) /\ p.sockState = "WaitingForConnection"
  BY <1>1, <1>3, <1>5, <1>6, <1>8 DEF Listening, IfArmed, ArmedAs
<1>9. CASE Connecting(p, os, aio)
  BY <1>1, <1>3, <1>5, <1>6, <1>9 DEF Connecting, IfArmed, ArmedAs
<1>10. CASE Keeping(p, os, aio)
  BY <1>1, <1>3, <1>5, <1>6, <1>10 DEF Keeping, IfArmed
<1>11. CASE /\ Transferring(p, os, aio)
            /\ p.sockState \in {"Connected", "OtherEndClosed"}
  BY <1>1, <1>3, <1>5, <1>6, <1>11 DEF Transferring, IfArmed
<1>12. \/ Unused(p, os, aio)
       \/ Listening(p, os, aio) /\ p.sockState = "WaitingForConnection"
       \/ Connecting(p, os, aio) \/ Keeping(p, os, aio)
       \/ /\ Transferring(p, os, aio)
          /\ p.sockState \in {"Connected", "OtherEndClosed"}
  BY <1>3, <1>4 DEF SockOK, SockOpen
<1> QED BY <1>3, <1>7, <1>8, <1>9, <1>10, <1>11, <1>12

\* The handler of flag of descriptor fd, which socket s has armed, is called;
\* it is taken off before that, which leaves a.
Calls(fd, flag, s, a) ==
    /\ ready # {} /\ fd = NextUp[1] /\ flag = NextUp[2]
    /\ s = aio.clientData[fd] /\ s \in Socket
    /\ a = Disarmed(fd, flag)

LEMMA CallFacts ==
    ASSUME AInv, NEW fd, NEW flag, NEW s, NEW a, Calls(fd, flag, s, a)
    PROVE  /\ AI(file, sock, os, aio) /\ OsOK(os)
           /\ fd \in Descriptor /\ fd # 0 /\ flag \in Flag /\ s \in Socket
           /\ SockOpen(sock[s]) /\ sock[s].s = fd /\ sock[s] \in SocketType
           /\ Sound(os[fd]) /\ os[fd].kind \notin {"connecting", "closed"}
           /\ AioOK(a) /\ EnabledFor(a, fd, s) /\ fd \in a.enabled
           /\ a.enabled = aio.enabled
           /\ fd \notin a.mask[flag]
           /\ \A g \in Flag \ {flag} :
                 /\ fd \in a.mask[g] <=> fd \in aio.mask[g]
                 /\ a.handler[g][fd] = aio.handler[g][fd]
           /\ \A y \in Descriptor \ {fd} : SameAt(aio, a, y)
<1>1. /\ AI(file, sock, os, aio) /\ OsOK(os) /\ AioOK(aio) /\ s \in Socket
      /\ ready # {} /\ fd = NextUp[1] /\ flag = NextUp[2]
      /\ s = aio.clientData[fd] /\ a = Disarmed(fd, flag)
  BY DEF AInv, AI, Calls
<1>2. /\ fd \in Descriptor /\ flag \in Flag /\ os[fd].kind # "connecting"
      /\ fd \in aio.enabled
  BY <1>1, Next1
<1>3. SockOpen(sock[s]) /\ sock[s].s = fd
  BY <1>1, Called
<1>4. /\ sock[s] \in SocketType /\ fd # 0 /\ Sound(os[fd])
      /\ os[fd].kind # "closed"
  BY <1>1, <1>3, OpenSocket
<1>5. /\ AioOK(a) /\ a.enabled = aio.enabled
      /\ a.clientData = aio.clientData
      /\ fd \notin a.mask[flag]
      /\ \A g \in Flag \ {flag} :
            /\ fd \in a.mask[g] <=> fd \in aio.mask[g]
            /\ a.handler[g][fd] = aio.handler[g][fd]
      /\ \A y \in Descriptor : y # fd => SameAt(aio, a, y)
  BY <1>1, <1>2, Disarm
<1>6. EnabledFor(a, fd, s)
  BY <1>1, <1>2, <1>5 DEF EnabledFor
<1> QED BY <1>1, <1>2, <1>3, <1>4, <1>5, <1>6

\* An outcome is safe if it leaves the clients sound and does not touch what is
\* still to be dispatched: another descriptor it changes was free before, and
\* of its own flags the later ones that are ready stay armed.
Later(fd, flag, g) ==
    /\ <<flag, g>> \in {<<"R", "W">>, <<"R", "X">>, <<"W", "X">>}
    /\ fd \in aio.mask[g]
    /\ g = "X" => os[fd].input = "urgent"

Safe(fd, flag, s, p, o, b) ==
    /\ AI(file, [sock EXCEPT ![s] = p], o, b)
    /\ \E x \in Descriptor :
          /\ fd # x => x \notin aio.enabled
          /\ \A y \in Descriptor \ {fd, x} : o[y] = os[y] /\ SameAt(aio, b, y)
    /\ \A g \in Flag : Later(fd, flag, g) =>
          /\ fd \in b.mask[g] /\ o[fd].kind # "connecting"
          /\ g = "X" => o[fd].input = "urgent"

LEMMA SafeCall ==
    ASSUME AInv, NEW fd, NEW flag, NEW s, NEW a, Calls(fd, flag, s, a),
           NEW p, NEW o, NEW b, Safe(fd, flag, s, p, o, b),
           sock' = [sock EXCEPT ![s] = p], os' = o, file' = file,
           DispatchContinues(b, fd, flag)
    PROVE  AInv'
<1>1. ready # {} /\ fd = NextUp[1] /\ flag = NextUp[2]
  BY DEF Calls
<1>2. aio' = b /\ ready' \in SUBSET (ready \ {NextUp})
  <2>1. NextUp = <<fd, flag>>
    BY <1>1, Next1
  <2> QED BY <2>1 DEF DispatchContinues
<1>3. PICK x \in Descriptor :
         /\ fd # x => x \notin aio.enabled
         /\ \A y \in Descriptor \ {fd, x} : o[y] = os[y] /\ SameAt(aio, b, y)
  BY DEF Safe
<1>4. \A g \in Flag :
         /\ <<flag, g>> \in {<<"R", "W">>, <<"R", "X">>, <<"W", "X">>}
         /\ fd \in aio.mask[g]
         /\ g = "X" => os[fd].input = "urgent"
         => /\ fd \in b.mask[g] /\ o[fd].kind # "connecting"
            /\ g = "X" => o[fd].input = "urgent"
  BY DEF Safe, Later
<1>5. \A r \in SUBSET (ready \ {NextUp}) :
         r \subseteq Descriptor \X Flag /\ ReadyOK(r, o, b)
  BY <1>1, <1>3, <1>4, ReadyStep
<1>6. AI(file, [sock EXCEPT ![s] = p], o, b)
  BY DEF Safe
<1> QED BY <1>2, <1>5, <1>6 DEF AInv

\* A listener takes a new connection, to keep it or to become it.
LEMMA SockTakes ==
    ASSUME AI(file, sock, os, aio), NEW s \in Socket, SockOpen(sock[s]),
           FreeDescriptors # {},
           NEW p \in SocketType, SockOpen(p),
           NEW o, OsOK(o), NEW b, AioOK(b), SockOK(s, p, o, b),
           o[Lowest].kind = "connected",
           \A y \in Descriptor \ {sock[s].s, Lowest} :
              o[y] = os[y] /\ SameAt(aio, b, y),
           \/ /\ p.s = sock[s].s /\ SpareOf(p) = Lowest
              /\ o[p.s].kind # "closed"
              /\ EnabledFor(b, p.s, s) /\ Lowest \notin b.enabled
           \/ /\ p.s = Lowest /\ SpareOf(p) = -1
              /\ EnabledFor(b, p.s, s) /\ sock[s].s \notin b.enabled
    PROVE  AI(file, [sock EXCEPT ![s] = p], o, b)
<1> DEFINE x == sock[s].s
           y == Lowest
           sk == [sock EXCEPT ![s] = p]
<1>1. /\ x \in Descriptor /\ x # 0 /\ os[x].kind # "closed"
      /\ MayUse(s, x) /\ Own(s, file, sock) = x /\ x # -1
      /\ s \in Client /\ s \notin File
  BY OpenSocket, ClientFacts DEF SockOpen
<1>2. /\ y \in Descriptor /\ y # 0 /\ y # -1 /\ os[y].kind = "closed"
      /\ \A c \in Client : y \notin Claims(c, file, sock)
  BY FreeOne
<1>3. \A d \in Client \ {s} : x \notin Claims(d, file, sock)
  BY <1>1, Mine
<1>4. /\ sk \in [Socket -> SocketType] /\ sk[s] = p
      /\ \A t \in Socket \ {s} : sk[t] = sock[t]
      /\ file \in [File -> FileType]
  BY DEF AI
<1> HIDE DEF sk, x, y
<1>5. Own(s, file, sk) = p.s /\ Spare(s, file, sk) = SpareOf(p)
  BY <1>1, <1>4 DEF Own, OwnOf, Spare, SockOpen
<1>6. x # y
  BY <1>1, <1>2
<1>7. \/ /\ p.s = x /\ SpareOf(p) = y /\ o[x].kind # "closed"
         /\ EnabledFor(b, x, s) /\ y \notin b.enabled
      \/ /\ p.s = y /\ SpareOf(p) = -1
         /\ EnabledFor(b, y, s) /\ x \notin b.enabled
  BY DEF x, y
<1>8. Claims(s, file, sk) \subseteq {x, y}
  BY <1>5, <1>7 DEF Claims
<1>9. ClaimsOK(s, file, sk, o)
  <2>1. o[y].kind = "connected"
    BY DEF y
  <2>2. CASE p.s = x /\ SpareOf(p) = y /\ o[x].kind # "closed"
    <3>1. Claims(s, file, sk) = {x, y}
      BY <1>1, <1>2, <1>5, <2>2 DEF Claims
    <3> QED BY <1>1, <1>2, <1>5, <1>6, <2>1, <2>2, <3>1 DEF ClaimsOK
  <2>3. CASE p.s = y /\ SpareOf(p) = -1
    <3>1. Claims(s, file, sk) = {y}
      BY <1>2, <1>5, <2>3 DEF Claims
    <3> QED BY <1>2, <1>5, <2>1, <2>3, <3>1 DEF ClaimsOK
  <2> QED BY <1>7, <2>2, <2>3
<1>10. ClientOK(s, file, sk, o, b)
  BY <1>1, <1>4, <1>9 DEF ClientOK
<1>11. OwnedAt(x, file, sk, b) /\ OwnedAt(y, file, sk, b)
  BY <1>1, <1>5, <1>7 DEF OwnedAt, EnabledFor
<1>12. Touches({s}, {x, y}, file, sk, o, b)
  <2>1. \A z \in Descriptor \ {x, y} : o[z] = os[z] /\ SameAt(aio, b, z)
    BY DEF x, y
  <2>2. \A c \in Client \ {s} : Claims(c, file, sock) \cap {x, y} = {}
    BY <1>2, <1>3 DEF x
  <2>3. Own(s, file, sock) \in {x, y} \cup {-1}
    BY <1>1 DEF x
  <2> QED BY <1>1, <1>2, <1>4, <1>8, <2>1, <2>2, <2>3 DEF Touches, x
<1>13. AI(file, sk, o, b)
  BY <1>4, <1>10, <1>11, <1>12, Step
<1> QED BY <1>13 DEF sk

\* Accepting: what a listener has armed besides is not ready.
LEMMA Listener ==
    ASSUME AInv, NEW fd, NEW flag, NEW s, NEW a, Calls(fd, flag, s, a),
           Listening(sock[s], os, aio), flag = "R"
    PROVE  /\ \A g \in Flag : ~Later(fd, flag, g)
           /\ fd \notin a.mask["R"] /\ fd \notin a.mask["W"]
           /\ IfArmed(a, fd, "X", "acceptHandler")
           /\ os[fd].kind = "listening" /\ sock[s].awaiting = {"conn"}
<1>1. /\ sock[s].s = fd /\ Sound(os[fd]) /\ fd \notin a.mask[flag]
      /\ \A g \in Flag \ {flag} :
            /\ fd \in a.mask[g] <=> fd \in aio.mask[g]
            /\ a.handler[g][fd] = aio.handler[g][fd]
  BY CallFacts
<1> QED BY <1>1 DEF Listening, Later, IfArmed, Sound, Flag

LEMMA AbortedSafe ==
    ASSUME AInv, NEW fd, NEW flag, NEW s, NEW a, Calls(fd, flag, s, a),
           Listening(sock[s], os, aio), flag = "R",
           NEW c, c = Aborted(sock[s], fd, a)
    PROVE  Safe(fd, flag, s, c.sock, c.os, c.aio)
<1> DEFINE p == notify([sock[s] EXCEPT !.sockState = "Invalid"], {"conn"})
           o == [os EXCEPT ![fd] = Opened("closed")]
           b == aioDisable(a, fd)
<1>1. c.sock = p /\ c.os = o /\ c.aio = b
  BY DEF Aborted, Outcome
<1>2. /\ AI(file, sock, os, aio) /\ OsOK(os) /\ s \in Socket
      /\ fd \in Descriptor /\ fd # 0
      /\ SockOpen(sock[s]) /\ sock[s].s = fd /\ sock[s] \in SocketType
      /\ AioOK(a) /\ \A y \in Descriptor \ {fd} : SameAt(aio, a, y)
  BY CallFacts
<1>3. /\ \A g \in Flag : ~Later(fd, flag, g)
      /\ sock[s].awaiting = {"conn"}
  BY Listener
<1>4. p \in SocketType /\ GivenUp(p)
  BY <1>2, <1>3 DEF SocketType, GivenUp, notify
<1>5. Sound(Opened("closed"))
  BY OpenedSound DEF Kind
<1> HIDE DEF p
<1>6. OsOK(o) /\ \A y \in Descriptor \ {fd} : o[y] = os[y]
  BY <1>2, <1>5, OsStep
<1>7. /\ AioOK(b) /\ fd \notin b.enabled
      /\ \A y \in Descriptor \ {fd} : SameAt(a, b, y)
  BY <1>2, Disable
<1> HIDE DEF o, b
<1>8. \A y \in Descriptor \ {fd} : o[y] = os[y] /\ SameAt(aio, b, y)
  BY <1>2, <1>6, <1>7 DEF SameAt
<1>9. AI(file, [sock EXCEPT ![s] = p], o, b)
  BY <1>2, <1>4, <1>6, <1>7, <1>8, SockShuts
<1> QED BY <1>1, <1>2, <1>3, <1>8, <1>9 DEF Safe

LEMMA IgnoredSafe ==
    ASSUME AInv, NEW fd, NEW flag, NEW s, NEW a, Calls(fd, flag, s, a),
           Listening(sock[s], os, aio), flag = "R",
           sock[s].sockState = "WaitingForConnection",
           NEW c, c = Ignored(sock[s], fd, a)
    PROVE  Safe(fd, flag, s, c.sock, c.os, c.aio)
<1> DEFINE w == [os[fd] EXCEPT !.input = "none"]
           o == [os EXCEPT ![fd] = w]
           b == aioHandle(a, fd, "acceptHandler", {"R", "X"})
           p == sock[s]
<1>1. c.sock = p /\ c.os = o /\ c.aio = b
  BY DEF Ignored, Outcome
<1>2. /\ AI(file, sock, os, aio) /\ OsOK(os) /\ s \in Socket
      /\ fd \in Descriptor /\ fd # 0 /\ Sound(os[fd])
      /\ SockOpen(p) /\ p.s = fd /\ p \in SocketType
      /\ AioOK(a) /\ EnabledFor(a, fd, s) /\ fd \in a.enabled
      /\ \A y \in Descriptor \ {fd} : SameAt(aio, a, y)
  BY CallFacts
<1>3. /\ \A g \in Flag : ~Later(fd, flag, g)
      /\ fd \notin a.mask["W"]
      /\ os[fd].kind = "listening" /\ p.awaiting = {"conn"}
  BY Listener
<1>4. Sound(w) /\ w.kind = "listening"
  BY <1>2, <1>3 DEF Sound, OsType
<1> HIDE DEF w
<1>5. OsOK(o) /\ o[fd] = w /\ \A y \in Descriptor \ {fd} : o[y] = os[y]
  BY <1>2, <1>4, OsStep
<1>6. /\ AioOK(b) /\ b.enabled = a.enabled /\ b.clientData = a.clientData
      /\ \A g \in {"R", "X"} : ArmedAs(b, fd, g, "acceptHandler")
      /\ \A g \in Flag \ {"R", "X"} : fd \in b.mask[g] <=> fd \in a.mask[g]
      /\ \A y \in Descriptor \ {fd} : SameAt(a, b, y)
  <2>1. "acceptHandler" \in HandlerName /\ {"R", "X"} \in SUBSET Flag
    BY DEF HandlerName, SocketHandlers, Flag
  <2> QED BY <1>2, <2>1, Handle
<1> HIDE DEF o, b
<1>7. EnabledFor(b, fd, s) /\ Listening(p, o, b)
  BY <1>2, <1>3, <1>4, <1>5, <1>6
     DEF EnabledFor, Listening, ArmedAs, IfArmed, Flag
<1>8. SockOK(s, p, o, b)
  BY <1>2, <1>7 DEF SockOK, SockOpen
<1>9. \A y \in Descriptor \ {fd} : o[y] = os[y] /\ SameAt(aio, b, y)
  BY <1>2, <1>5, <1>6 DEF SameAt
<1> HIDE DEF p
<1>10. AI(file, [sock EXCEPT ![s] = p], o, b)
  BY <1>2, <1>4, <1>5, <1>6, <1>7, <1>8, <1>9, SockGoesOn
     DEF EnabledFor, p
<1> QED BY <1>1, <1>2, <1>3, <1>9, <1>10 DEF Safe

LEMMA KeptSafe ==
    ASSUME AInv, NEW fd, NEW flag, NEW s, NEW a, Calls(fd, flag, s, a),
           Listening(sock[s], os, aio), flag = "R",
           FreeDescriptors # {}, sock[s].multiListen,
           NEW c, c = Kept(sock[s], fd, a)
    PROVE  Safe(fd, flag, s, c.sock, c.os, c.aio)
<1> DEFINE y == Lowest
           p == notify([sock[s] EXCEPT !.sockState = "Connected",
                                       !.acceptedSock = y], {"conn"})
           w == [os[fd] EXCEPT !.input = "none"]
           v == [os EXCEPT ![fd] = w]
           o == [v EXCEPT ![y] = Opened("connected")]
<1>1. c.sock = p /\ c.os = o /\ c.aio = a
  BY DEF Kept, Outcome
<1>2. /\ AI(file, sock, os, aio) /\ OsOK(os) /\ s \in Socket
      /\ fd \in Descriptor /\ fd # 0 /\ Sound(os[fd])
      /\ os[fd].kind # "closed" /\ a.enabled = aio.enabled
      /\ SockOpen(sock[s]) /\ sock[s].s = fd /\ sock[s] \in SocketType
      /\ AioOK(a) /\ EnabledFor(a, fd, s)
      /\ \A z \in Descriptor \ {fd} : SameAt(aio, a, z)
  BY CallFacts
<1>3. /\ \A g \in Flag : ~Later(fd, flag, g)
      /\ fd \notin a.mask["R"] /\ fd \notin a.mask["W"]
      /\ IfArmed(a, fd, "X", "acceptHandler")
      /\ os[fd].kind = "listening" /\ sock[s].awaiting = {"conn"}
  BY Listener
<1>4. /\ y \in Descriptor /\ os[y].kind = "closed" /\ y # 0 /\ y # -1
      /\ y \notin aio.enabled
  BY <1>2, FreeOne
<1>5. y # fd
  BY <1>2, <1>4
<1>6. Sound(w) /\ w.kind = "listening"
  BY <1>2, <1>3 DEF Sound, OsType
<1>7. Sound(Opened("connected")) /\ Opened("connected").kind = "connected"
  BY OpenedSound DEF Kind
<1>8. /\ p \in SocketType /\ SockOpen(p) /\ p.s = fd
      /\ p.sockState = "Connected" /\ p.awaiting = {} /\ p.multiListen
      /\ SpareOf(p) = y
  <2>1. /\ p \in SocketType /\ p.live /\ p.s = fd /\ fd # -1
        /\ p.sockState = "Connected" /\ p.awaiting = {} /\ p.multiListen
        /\ p.acceptedSock = y
    BY <1>2, <1>3, <1>4 DEF SocketType, SockOpen, notify
  <2> HIDE DEF p
  <2> QED BY <2>1 DEF SockOpen, SpareOf
<1> HIDE DEF y, p, w
<1>9. OsOK(v) /\ v[fd] = w /\ \A z \in Descriptor \ {fd} : v[z] = os[z]
  BY <1>2, <1>6, OsStep
<1> HIDE DEF v
<1>10. /\ OsOK(o) /\ o[y] = Opened("connected")
       /\ \A z \in Descriptor \ {y} : o[z] = v[z]
  BY <1>4, <1>7, <1>9, OsStep
<1> HIDE DEF o
<1>11. /\ o[fd].kind = "listening" /\ o[y].kind = "connected"
       /\ \A z \in Descriptor \ {fd, y} : o[z] = os[z] /\ SameAt(aio, a, z)
  BY <1>2, <1>5, <1>6, <1>7, <1>9, <1>10
<1>12. Keeping(p, o, a)
  BY <1>3, <1>8, <1>11 DEF Keeping
<1>13. SockOK(s, p, o, a)
  BY <1>2, <1>8, <1>12 DEF SockOK, SockOpen
<1>14. o[fd].kind # "closed" /\ y \notin a.enabled
  BY <1>2, <1>4, <1>11
<1>15. AI(file, [sock EXCEPT ![s] = p], o, a)
  BY <1>2, <1>8, <1>10, <1>11, <1>13, <1>14, SockTakes DEF y
<1> QED BY <1>1, <1>3, <1>4, <1>11, <1>15 DEF Safe

LEMMA ReplacedSafe ==
    ASSUME AInv, NEW fd, NEW flag, NEW s, NEW a, Calls(fd, flag, s, a),
           Listening(sock[s], os, aio), flag = "R",
           FreeDescriptors # {}, ~sock[s].multiListen,
           NEW c, c = Replaced(sock[s], s, fd, a)
    PROVE  Safe(fd, flag, s, c.sock, c.os, c.aio)
<1> DEFINE y == Lowest
           p == notify([sock[s] EXCEPT !.sockState = "Connected", !.s = y],
                       {"conn"})
           v == [os EXCEPT ![fd] = Opened("closed")]
           o == [v EXCEPT ![y] = Opened("connected")]
           d == aioDisable(a, fd)
           b == aioEnable(d, y, s)
<1>1. c.sock = p /\ c.os = o /\ c.aio = b
  BY DEF Replaced, Outcome
<1>2. /\ AI(file, sock, os, aio) /\ OsOK(os) /\ s \in Socket
      /\ fd \in Descriptor /\ fd # 0
      /\ os[fd].kind # "closed" /\ a.enabled = aio.enabled
      /\ SockOpen(sock[s]) /\ sock[s].s = fd /\ sock[s] \in SocketType
      /\ AioOK(a) /\ \A z \in Descriptor \ {fd} : SameAt(aio, a, z)
      /\ s \in Client
  BY CallFacts, ClientFacts
<1>3. /\ \A g \in Flag : ~Later(fd, flag, g)
      /\ sock[s].awaiting = {"conn"}
  BY Listener
<1>4. /\ y \in Descriptor /\ os[y].kind = "closed" /\ y # 0 /\ y # -1
      /\ y \notin aio.enabled
  BY <1>2, FreeOne
<1>5. y # fd
  BY <1>2, <1>4
<1>6. /\ Sound(Opened("connected")) /\ Opened("connected").kind = "connected"
      /\ Sound(Opened("closed"))
  BY OpenedSound DEF Kind
<1>7. /\ p \in SocketType /\ p.live /\ p.s = y
      /\ p.sockState = "Connected" /\ p.awaiting = {} /\ ~p.multiListen
  BY <1>2, <1>3, <1>4 DEF SocketType, SockOpen, notify
<1> HIDE DEF y, p
<1>8. SockOpen(p) /\ SpareOf(p) = -1
  BY <1>4, <1>7 DEF SockOpen, SpareOf
<1>9. OsOK(v) /\ \A z \in Descriptor \ {fd} : v[z] = os[z]
  BY <1>2, <1>6, OsStep
<1> HIDE DEF v
<1>10. /\ OsOK(o) /\ o[y] = Opened("connected")
       /\ \A z \in Descriptor \ {y} : o[z] = v[z]
  BY <1>4, <1>6, <1>9, OsStep
<1> HIDE DEF o
<1>11. /\ AioOK(d) /\ fd \notin d.enabled
       /\ \A z \in Descriptor \ {fd} : SameAt(a, d, z)
  BY <1>2, Disable
<1> HIDE DEF d
<1>12. y \notin d.enabled
  BY <1>2, <1>4, <1>5, <1>11 DEF SameAt
<1>13. /\ AioOK(b) /\ EnabledFor(b, y, s)
       /\ \A g \in Flag : y \notin b.mask[g]
       /\ \A z \in Descriptor \ {y} : SameAt(d, b, z)
  BY <1>2, <1>4, <1>11, <1>12, Enable
<1> HIDE DEF b
<1>14. fd \notin b.enabled
  BY <1>2, <1>5, <1>11, <1>13 DEF SameAt
<1>15. \A z \in Descriptor \ {fd, y} : o[z] = os[z] /\ SameAt(aio, b, z)
  <2>1. \A z \in Descriptor \ {fd, y} : SameAt(aio, d, z)
    BY <1>2, <1>11 DEF SameAt
  <2> QED BY <1>9, <1>10, <1>13, <2>1 DEF SameAt
<1>16. Transferring(p, o, b)
  BY <1>6, <1>7, <1>10, <1>13 DEF Transferring, IfArmed, Flag
<1>17. SockOK(s, p, o, b)
  BY <1>7, <1>8, <1>13, <1>16 DEF SockOK, SockOpen
<1>18. AI(file, [sock EXCEPT ![s] = p], o, b)
  BY <1>2, <1>6, <1>7, <1>8, <1>10, <1>13, <1>14, <1>15, <1>17, SockTakes
     DEF y
<1> QED BY <1>1, <1>3, <1>4, <1>15, <1>18 DEF Safe

\* Connecting: out-of-band data comes with a connection.
LEMMA ConnectExceptionSafe ==
    ASSUME AInv, NEW fd, NEW flag, NEW s, NEW a, Calls(fd, flag, s, a),
           flag = "X", os[fd].kind = "connected",
           sock[s].awaiting \subseteq {"conn"}, ~sock[s].multiListen,
           NEW c \in connectHandler(s, fd, flag, a)
    PROVE  Safe(fd, flag, s, c.sock, c.os, c.aio)
<1> DEFINE p == notify([sock[s] EXCEPT !.sockState = "Unconnected"], {"conn"})
           b == aioDisable(a, fd)
<1>1. c.sock = p /\ c.os = os /\ c.aio = b
  BY DEF connectHandler, Outcome
<1>2. /\ AI(file, sock, os, aio) /\ OsOK(os) /\ s \in Socket
      /\ fd \in Descriptor
      /\ SockOpen(sock[s]) /\ sock[s].s = fd /\ sock[s] \in SocketType
      /\ AioOK(a) /\ \A y \in Descriptor \ {fd} : SameAt(aio, a, y)
  BY CallFacts
<1>3. \A g \in Flag : ~Later(fd, flag, g)
  BY DEF Later
<1>4. /\ p \in SocketType /\ SockOpen(p) /\ p.s = fd
      /\ p.sockState = "Unconnected" /\ p.awaiting = {} /\ ~p.multiListen
  BY <1>2 DEF SocketType, SockOpen, notify
<1> HIDE DEF p
<1>5. /\ AioOK(b) /\ fd \notin b.enabled
      /\ \A g \in Flag : fd \notin b.mask[g]
      /\ \A y \in Descriptor \ {fd} : SameAt(a, b, y)
  BY <1>2, Disable
<1> HIDE DEF b
<1>6. Unused(p, os, b)
  BY <1>4, <1>5 DEF Unused, IfArmed, Flag
<1>7. SockOK(s, p, os, b) /\ SpareOf(p) = -1
  BY <1>4, <1>6 DEF SockOK, SockOpen, SpareOf
<1>8. \A y \in Descriptor \ {fd} : SameAt(aio, b, y)
  BY <1>2, <1>5 DEF SameAt
<1>9. AI(file, [sock EXCEPT ![s] = p], os, b)
  BY <1>2, <1>4, <1>5, <1>7, <1>8, SockGoesOn
<1> QED BY <1>1, <1>2, <1>3, <1>8, <1>9 DEF Safe

LEMMA ConnectWriteSafe ==
    ASSUME AInv, NEW fd, NEW flag, NEW s, NEW a, Calls(fd, flag, s, a),
           flag = "W", Connecting(sock[s], os, aio),
           NEW c \in connectHandler(s, fd, flag, a)
    PROVE  Safe(fd, flag, s, c.sock, c.os, c.aio)
<1>1. /\ AI(file, sock, os, aio) /\ OsOK(os) /\ s \in Socket
      /\ fd \in Descriptor /\ fd # 0 /\ Sound(os[fd])
      /\ os[fd].kind \notin {"connecting", "closed"}
      /\ SockOpen(sock[s]) /\ sock[s].s = fd /\ sock[s] \in SocketType
      /\ AioOK(a) /\ EnabledFor(a, fd, s)
      /\ fd \notin a.mask[flag]
      /\ \A g \in Flag \ {flag} :
            /\ fd \in a.mask[g] <=> fd \in aio.mask[g]
            /\ a.handler[g][fd] = aio.handler[g][fd]
      /\ \A y \in Descriptor \ {fd} : SameAt(aio, a, y)
  BY CallFacts
<1>2. /\ sock[s].awaiting = {"conn"} /\ ~sock[s].multiListen
      /\ os[fd].kind \in {"connected", "refused"}
      /\ fd \notin a.mask["R"] /\ fd \notin a.mask["W"]
      /\ IfArmed(a, fd, "X", "connectHandler")
  BY <1>1 DEF Connecting, IfArmed, Flag
<1>3. CASE os[fd].kind = "refused"
  <2> DEFINE p == notify([sock[s] EXCEPT !.sockState = "Unconnected"],
                         {"conn"})
             o == [os EXCEPT ![fd] = Opened("fresh")]
  <2>1. c.sock = p /\ c.os = o /\ c.aio = a
    BY <1>3 DEF connectHandler, Outcome
  <2>2. /\ p \in SocketType /\ SockOpen(p) /\ p.s = fd
        /\ p.sockState = "Unconnected" /\ p.awaiting = {} /\ ~p.multiListen
    BY <1>1, <1>2 DEF SocketType, SockOpen, notify
  <2>3. Sound(Opened("fresh")) /\ Opened("fresh").kind = "fresh"
    BY OpenedSound DEF Kind
  <2> HIDE DEF p
  <2>4. /\ OsOK(o) /\ o[fd] = Opened("fresh")
        /\ \A y \in Descriptor \ {fd} : o[y] = os[y]
    BY <1>1, <2>3, OsStep
  <2> HIDE DEF o
  <2>5. Unused(p, o, a)
    BY <1>2, <2>2, <2>3, <2>4 DEF Unused
  <2>6. SockOK(s, p, o, a) /\ SpareOf(p) = -1
    BY <2>2, <2>5 DEF SockOK, SockOpen, SpareOf
  <2>7. AI(file, [sock EXCEPT ![s] = p], o, a)
    BY <1>1, <2>2, <2>3, <2>4, <2>6, SockGoesOn DEF EnabledFor
  <2>8. \A g \in Flag : ~Later(fd, flag, g)
    BY <1>1, <1>3 DEF Later, Sound
  <2> QED BY <1>1, <2>1, <2>4, <2>7, <2>8 DEF Safe
<1>4. CASE os[fd].kind = "connected"
  <2> DEFINE p == notify([sock[s] EXCEPT !.sockState = "Connected"], {"conn"})
  <2>1. c.sock = p /\ c.os = os /\ c.aio = a
    BY <1>4 DEF connectHandler, Outcome
  <2>2. /\ p \in SocketType /\ SockOpen(p) /\ p.s = fd
        /\ p.sockState = "Connected" /\ p.awaiting = {} /\ ~p.multiListen
    BY <1>1, <1>2 DEF SocketType, SockOpen, notify
  <2> HIDE DEF p
  <2>3. Transferring(p, os, a)
    BY <1>2, <1>4, <2>2 DEF Transferring, IfArmed
  <2>4. SockOK(s, p, os, a) /\ SpareOf(p) = -1
    BY <1>1, <2>2, <2>3 DEF SockOK, SockOpen, SpareOf
  <2>5. AI(file, [sock EXCEPT ![s] = p], os, a)
    BY <1>1, <1>4, <2>2, <2>4, SockGoesOn DEF EnabledFor
  <2>6. \A g \in Flag : Later(fd, flag, g) =>
           fd \in a.mask[g] /\ (g = "X" => os[fd].input = "urgent")
    BY <1>1 DEF Later
  <2> QED BY <1>1, <2>1, <2>5, <2>6 DEF Safe
<1> QED BY <1>2, <1>3, <1>4

\* Reading and writing: what is armed besides stays.
LEMMA DataSafe ==
    ASSUME AInv, NEW fd, NEW flag, NEW s, NEW a, Calls(fd, flag, s, a),
           Transferring(sock[s], os, aio),
           sock[s].sockState \in {"Connected", "OtherEndClosed"},
           NEW c \in dataHandler(s, fd, flag, a)
    PROVE  Safe(fd, flag, s, c.sock, c.os, c.aio)
<1>1. /\ AI(file, sock, os, aio) /\ OsOK(os) /\ s \in Socket
      /\ fd \in Descriptor /\ fd # 0 /\ Sound(os[fd]) /\ flag \in Flag
      /\ SockOpen(sock[s]) /\ sock[s].s = fd /\ sock[s] \in SocketType
      /\ AioOK(a) /\ EnabledFor(a, fd, s)
      /\ fd \notin a.mask[flag]
      /\ \A g \in Flag \ {flag} :
            /\ fd \in a.mask[g] <=> fd \in aio.mask[g]
            /\ a.handler[g][fd] = aio.handler[g][fd]
      /\ \A y \in Descriptor \ {fd} : SameAt(aio, a, y)
  BY CallFacts
<1>2. ASSUME NEW p \in SocketType, SockOpen(p), p.s = fd, ~p.multiListen,
             p.sockState \in {"Connected", "OtherEndClosed"},
             p.awaiting \subseteq sock[s].awaiting,
             flag = "R" => "read" \notin p.awaiting,
             flag = "W" => "write" \notin p.awaiting,
             NEW o, OsOK(o), o[fd].kind = "connected",
             \A y \in Descriptor \ {fd} : o[y] = os[y]
      PROVE  AI(file, [sock EXCEPT ![s] = p], o, a)
  <2>1. Transferring(p, o, a)
    BY <1>1, <1>2 DEF Transferring, IfArmed, Flag
  <2>2. SockOK(s, p, o, a) /\ SpareOf(p) = -1
    BY <1>1, <1>2, <2>1 DEF SockOK, SockOpen, SpareOf
  <2> QED BY <1>1, <1>2, <2>2, SockGoesOn DEF EnabledFor
<1>3. os[fd].kind = "connected" /\ ~sock[s].multiListen
  BY <1>1 DEF Transferring
<1>4. CASE flag = "R"
  <2> DEFINE q == IF socketReadable(fd) = 1 THEN sock[s]
                  ELSE [sock[s] EXCEPT !.sockState = "OtherEndClosed"]
             p == notify(q, {"read"})
  <2>1. c.sock = p /\ c.os = os /\ c.aio = a
    BY <1>3, <1>4 DEF dataHandler, Outcome, ErrorAnswered
  <2>2. /\ q \in SocketType /\ SockOpen(q) /\ q.s = fd /\ ~q.multiListen
        /\ q.sockState \in {"Connected", "OtherEndClosed"}
        /\ q.awaiting = sock[s].awaiting
    BY <1>1, <1>3 DEF SocketType, SockOpen
  <2> HIDE DEF q
  <2>3. /\ p \in SocketType /\ SockOpen(p) /\ p.s = fd /\ ~p.multiListen
        /\ p.sockState \in {"Connected", "OtherEndClosed"}
        /\ p.awaiting = sock[s].awaiting \ {"read"}
    BY <2>2 DEF SocketType, SockOpen, notify
  <2> HIDE DEF p
  <2>4. AI(file, [sock EXCEPT ![s] = p], os, a)
    BY <1>1, <1>2, <1>3, <1>4, <2>3
  <2>5. \A g \in Flag : Later(fd, flag, g) =>
           fd \in a.mask[g] /\ (g = "X" => os[fd].input = "urgent")
    BY <1>1, <1>4 DEF Later
  <2> QED BY <1>1, <1>3, <2>1, <2>4, <2>5 DEF Safe
<1>5. CASE flag = "W"
  <2> DEFINE p == notify(sock[s], {"write"})
  <2>1. c.sock = p /\ c.os = os /\ c.aio = a
    BY <1>5 DEF dataHandler, Outcome
  <2>2. /\ p \in SocketType /\ SockOpen(p) /\ p.s = fd /\ ~p.multiListen
        /\ p.sockState \in {"Connected", "OtherEndClosed"}
        /\ p.awaiting = sock[s].awaiting \ {"write"}
    BY <1>1, <1>3 DEF SocketType, SockOpen, notify
  <2> HIDE DEF p
  <2>3. AI(file, [sock EXCEPT ![s] = p], os, a)
    BY <1>1, <1>2, <1>3, <1>5, <2>2
  <2>4. \A g \in Flag : Later(fd, flag, g) =>
           fd \in a.mask[g] /\ (g = "X" => os[fd].input = "urgent")
    BY <1>1, <1>5 DEF Later
  <2> QED BY <1>1, <1>3, <2>1, <2>3, <2>4 DEF Safe
<1>6. CASE flag = "X"
  <2> DEFINE w == [os[fd] EXCEPT !.input = "none"]
             o == [os EXCEPT ![fd] = w]
             p == sock[s]
  <2>1. c.sock = p /\ c.os = o /\ c.aio = a
    BY <1>6 DEF dataHandler, Outcome
  <2>2. Sound(w) /\ w.kind = "connected"
    BY <1>1, <1>3 DEF Sound, OsType
  <2> HIDE DEF w
  <2>3. /\ OsOK(o) /\ o[fd] = w
        /\ \A y \in Descriptor \ {fd} : o[y] = os[y]
    BY <1>1, <2>2, OsStep
  <2> HIDE DEF o
  <2>4. AI(file, [sock EXCEPT ![s] = p], o, a)
    BY <1>1, <1>2, <1>3, <1>6, <2>2, <2>3
  <2>5. \A g \in Flag : ~Later(fd, flag, g)
    BY <1>6 DEF Later
  <2> QED BY <1>1, <2>1, <2>3, <2>4, <2>5 DEF Safe
<1> QED BY <1>1, <1>4, <1>5, <1>6 DEF Flag

\* Whatever a handler of a socket comes to is safe.
LEMMA OutcomesSafe ==
    ASSUME AInv, NEW fd, NEW flag, NEW s, NEW a, Calls(fd, flag, s, a),
           NEW c \in SocketHandler(aio.handler[flag][fd], s, fd, flag, a)
    PROVE  Safe(fd, flag, s, c.sock, c.os, c.aio)
<1> DEFINE h == aio.handler[flag][fd]
           p == sock[s]
<1>1. \/ /\ h = "acceptHandler" /\ flag = "R"
         /\ p.sockState = "WaitingForConnection"
         /\ Listening(p, os, aio)
      \/ h = "connectHandler" /\ flag = "W" /\ Connecting(p, os, aio)
      \/ /\ h = "connectHandler" /\ flag = "X"
         /\ os[fd].kind = "connected"
         /\ p.awaiting \subseteq {"conn"} /\ ~p.multiListen
      \/ /\ h = "dataHandler"
         /\ p.sockState \in {"Connected", "OtherEndClosed"}
         /\ Transferring(p, os, aio)
  BY Called DEF Calls
<1>2. CASE /\ h = "acceptHandler" /\ flag = "R"
           /\ p.sockState = "WaitingForConnection"
           /\ Listening(p, os, aio)
  <2>1. c \in acceptHandler(s, fd, flag, a)
    BY <1>2 DEF SocketHandler
  <2>2. \/ c = Aborted(p, fd, a)
        \/ c = Ignored(p, fd, a)
        \/ FreeDescriptors # {} /\ p.multiListen /\ c = Kept(p, fd, a)
        \/ FreeDescriptors # {} /\ ~p.multiListen /\ c = Replaced(p, s, fd, a)
    <3> HIDE DEF p
    <3>1. flag # "X"
      BY <1>2
    <3> QED BY <2>1, <3>1, Zenon DEF acceptHandler, p
  <2> QED BY <1>2, <2>2, AbortedSafe, IgnoredSafe, KeptSafe, ReplacedSafe
<1>3. CASE h = "connectHandler" /\ flag = "W" /\ Connecting(p, os, aio)
  <2>1. c \in connectHandler(s, fd, flag, a)
    BY <1>3 DEF SocketHandler
  <2> QED BY <1>3, <2>1, ConnectWriteSafe
<1>4. CASE /\ h = "connectHandler" /\ flag = "X"
           /\ os[fd].kind = "connected"
           /\ p.awaiting \subseteq {"conn"} /\ ~p.multiListen
  <2>1. c \in connectHandler(s, fd, flag, a)
    BY <1>4 DEF SocketHandler
  <2> QED BY <1>4, <2>1, ConnectExceptionSafe
<1>5. CASE /\ h = "dataHandler"
           /\ p.sockState \in {"Connected", "OtherEndClosed"}
           /\ Transferring(p, os, aio)
  <2>1. c \in dataHandler(s, fd, flag, a)
    BY <1>5 DEF SocketHandler
  <2> QED BY <1>5, <2>1, DataSafe
<1> QED BY <1>1, <1>2, <1>3, <1>4, <1>5

\* A handler of a socket is called with the socket that armed it.
LEMMA SocketHandlerStep ==
    ASSUME AInv, Dispatch, aio.clientData[NextUp[1]] \in Socket
    PROVE  AInv'
<1> DEFINE fd == NextUp[1]
           flag == NextUp[2]
           s == aio.clientData[fd]
           h == aio.handler[flag][fd]
           a == Disarmed(fd, flag)
<1>0. s # Null
  BY ClientFacts
<1>1. ready # {} /\ Calls(fd, flag, s, a)
  BY DEF Dispatch, Calls
<1>2. h \in {"acceptHandler", "connectHandler", "dataHandler"}
  BY <1>1, Called
<1>3. /\ \E c \in SocketHandler(h, s, fd, flag, a) :
            /\ sock' = [sock EXCEPT ![s] = c.sock]
            /\ os' = c.os
            /\ DispatchContinues(c.aio, fd, flag)
      /\ UNCHANGED file
  BY <1>2, <1>0, Zenon DEF Dispatch
<1> HIDE DEF fd, flag, s, a
<1>4. PICK c \in SocketHandler(h, s, fd, flag, a) :
            /\ sock' = [sock EXCEPT ![s] = c.sock]
            /\ os' = c.os
            /\ DispatchContinues(c.aio, fd, flag)
  BY <1>3
<1>5. Safe(fd, flag, s, c.sock, c.os, c.aio)
  BY <1>1, <1>4, OutcomesSafe
<1> QED BY <1>1, <1>3, <1>4, <1>5, SafeCall

LEMMA DispatchStep ==
    ASSUME AInv, Dispatch
    PROVE  AInv'
<1>1. aio.clientData[NextUp[1]] \in File \cup Socket
  BY Next1 DEF Dispatch, Client
<1> QED BY <1>1, FileHandlerStep, SocketHandlerStep

-----------------------------------------------------------------------------
(* The invariant.                                                          *)

LEMMA InitStep == Init => AInv
<1> SUFFICES ASSUME Init PROVE AInv
  OBVIOUS
<1>1. /\ os = [fd \in Descriptor |-> Opened(IF fd = 0 THEN "terminal"
                                            ELSE "closed")]
      /\ aio = [enabled |-> {}, mask |-> [flag \in Flag |-> {}],
                handler |-> [flag \in Flag |-> [fd \in Descriptor |-> "0"]],
                clientData |-> [fd \in Descriptor |-> Null], maxFd |-> 0]
      /\ ready = {}
      /\ file = [f \in File |-> ClosedFile]
      /\ sock = [s \in Socket |-> Freed]
  BY DEF Init, AioInit, FilesInit, SocketsInit
<1>2. Sound(Opened("terminal")) /\ Sound(Opened("closed"))
  BY OpenedSound DEF Kind
<1>3. OsOK(os)
  <2>1. \A fd \in Descriptor : Sound(os[fd])
    BY <1>1, <1>2
  <2>2. os \in [Descriptor -> OsType]
    BY <1>1, <1>2 DEF Sound
  <2>3. os[0].kind = "terminal"
    BY <1>1, DescriptorFacts DEF Opened
  <2> QED BY <2>1, <2>2, <2>3 DEF OsOK
<1>4. AioOK(aio)
  <2>1. 0 \in 0 .. MaxDescriptor + 1
    BY DescriptorFacts
  <2>2. aio \in AioType
    BY <1>1, <2>1 DEF AioType, HandlerName
  <2> QED BY <1>1, <2>2 DEF AioOK
<1>5. /\ file \in [File -> FileType] /\ \A f \in File : ~file[f].open
  BY <1>1, TransferAssumption DEF ClosedFile, FileType
<1>6. /\ sock \in [Socket -> SocketType]
      /\ \A s \in Socket : ~sock[s].live /\ sock[s].awaiting = {}
  BY <1>1, FreedType
<1>7. \A c \in Client : /\ Claims(c, file, sock) = {}
                        /\ Own(c, file, sock) = -1
                        /\ Spare(c, file, sock) = -1
  BY <1>5, <1>6, ClientFacts DEF Claims, Own, Spare, OwnOf, SpareOf, Client
<1>8. \A c \in Client : ClientOK(c, file, sock, os, aio)
  BY <1>5, <1>6, <1>7 DEF ClientOK, FileOK, SockOK, ClaimsOK
<1>9. \A fd \in Descriptor : OwnedAt(fd, file, sock, aio)
  BY <1>1 DEF OwnedAt
<1>10. Apart(file, sock)
  BY <1>7 DEF Apart
<1> QED BY <1>1, <1>3, <1>4, <1>5, <1>6, <1>8, <1>9, <1>10
        DEF AInv, AI, ReadyOK

LEMMA NextStep ==
    ASSUME ClosesDone, ~TransfersUnconnected, AInv, [Next]_vars
    PROVE  AInv'
<1>1. CASE UNCHANGED vars
  BY <1>1 DEF vars, AInv
<1>2. CASE Next
  BY <1>2, PollStep, DispatchStep, FilesStep, SocketsStep, KernelStep DEF Next
<1> QED BY <1>1, <1>2

LEMMA Invariance ==
    ASSUME ClosesDone, ~TransfersUnconnected
    PROVE  Spec => []AInv
<1>1. AInv /\ [Next]_vars => AInv'
  BY NextStep
<1> QED BY <1>1, InitStep, PTL DEF Spec

-----------------------------------------------------------------------------
(* What the invariant says of the clients.                                 *)

\* Who believes a descriptor is his claims it.
LEMMA HoldersClaim ==
    ASSUME AI(file, sock, os, aio), NEW fd \in Descriptor
    PROVE  Holders(fd) = {c \in Client : fd \in Claims(c, file, sock)}
<1>0. fd # -1
  BY DescriptorFacts
<1>1. \A c \in File : c \in Client /\ c \notin Socket
  BY ClientFacts
<1>2. \A c \in Socket : c \in Client /\ c \notin File
  BY ClientFacts
<1>3. \A c \in File : c \in Holders(fd) <=> fd \in Claims(c, file, sock)
  BY <1>0, <1>1 DEF Holders, Claims, Own, Spare
<1>4. \A c \in Socket : c \in Holders(fd) <=> fd \in Claims(c, file, sock)
  BY <1>0, <1>2 DEF Holders, Claims, Own, Spare, OwnOf, SpareOf
<1>5. \A c \in Holders(fd) : c \in Client
  BY <1>1, <1>2 DEF Holders
<1> QED BY <1>3, <1>4, <1>5 DEF Client

\* What is armed is of the kind of its client.
LEMMA ArmedKind ==
    ASSUME AI(file, sock, os, aio), NEW fd \in aio.enabled, NEW flag \in Flag,
           fd \in aio.mask[flag]
    PROVE  aio.handler[flag][fd] \in
              IF aio.clientData[fd] \in File THEN FileHandlers
              ELSE SocketHandlers
<1> DEFINE c == aio.clientData[fd]
<1>1. fd \in Descriptor
  BY DEF AI, AioOK, AioType
<1>2. c \in Client /\ Own(c, file, sock) = fd /\ fd # -1
  BY <1>1, DescriptorFacts DEF AI, OwnedAt
<1>3. CASE c \in File
  <2>1. file[c].open /\ file[c].fd = fd
    BY <1>2, <1>3 DEF Own
  <2>2. FileOK(c, file[c], os, aio)
    BY <1>3, <2>1, OpenFile
  <2> QED BY <1>3, <2>1, <2>2 DEF FileOK, IfArmed, Flag, FileHandlers
<1>4. CASE c \notin File
  <2>1. c \in Socket
    BY <1>2, <1>4 DEF Client
  <2>2. SockOpen(sock[c]) /\ sock[c].s = fd
    BY <1>2, <1>4 DEF Own, OwnOf, SockOpen
  <2>3. SockOK(c, sock[c], os, aio)
    BY <2>1, <2>2, OpenSocket
  <2>4. \/ Unused(sock[c], os, aio) \/ Listening(sock[c], os, aio)
        \/ Connecting(sock[c], os, aio) \/ Keeping(sock[c], os, aio)
        \/ Transferring(sock[c], os, aio)
    BY <2>2, <2>3 DEF SockOK, SockOpen
  <2>5. aio.handler[flag][fd]
           \in {"acceptHandler", "connectHandler", "dataHandler"}
    BY <2>2, <2>4 DEF Unused, Listening, Connecting, Keeping, Transferring,
       IfArmed, ArmedAs, Flag
  <2> QED BY <1>4, <2>5 DEF SocketHandlers
<1> QED BY <1>3, <1>4

LEMMA InvOwners == AInv => RightOwner
<1> SUFFICES ASSUME AInv, NEW fd \in Descriptor
             PROVE  /\ \A c, d \in Holders(fd) : c = d
                    /\ Holders(fd) # {} => IsOpen(fd) /\ fd # 0
                    /\ fd \in aio.enabled => aio.clientData[fd] \in Holders(fd)
                    /\ \A flag \in Flag :
                          fd \in aio.mask[flag] =>
                             /\ fd \in aio.enabled
                             /\ aio.handler[flag][fd] \in
                                   IF aio.clientData[fd] \in File
                                   THEN FileHandlers ELSE SocketHandlers
  BY DEF RightOwner
<1>1. AI(file, sock, os, aio)
  BY DEF AInv
<1>2. Holders(fd) = {c \in Client : fd \in Claims(c, file, sock)}
  BY <1>1, HoldersClaim
<1>3. \A c, d \in Holders(fd) : c = d
  BY <1>1, <1>2 DEF AI, Apart
<1>4. Holders(fd) # {} => IsOpen(fd) /\ fd # 0
  BY <1>1, <1>2 DEF AI, ClientOK, ClaimsOK, IsOpen
<1>5. fd \in aio.enabled => aio.clientData[fd] \in Holders(fd)
  <2>1. fd \in aio.enabled => /\ aio.clientData[fd] \in Client
                              /\ Own(aio.clientData[fd], file, sock) = fd
    BY <1>1 DEF AI, OwnedAt
  <2>2. fd # -1
    BY DescriptorFacts
  <2> QED BY <1>2, <2>1, <2>2 DEF Claims
<1>6. \A flag \in Flag : fd \in aio.mask[flag] => fd \in aio.enabled
  BY <1>1 DEF AI, AioOK
<1> QED BY <1>1, <1>3, <1>4, <1>5, <1>6, ArmedKind

LEMMA InvCalls == AInv => NoStrayCall
<1> SUFFICES ASSUME AInv, ready # {}
             PROVE  LET fd == NextUp[1]
                        flag == NextUp[2]
                    IN  /\ fd \in aio.mask[flag]
                        /\ aio.handler[flag][fd] \in
                              FileHandlers \cup SocketHandlers
  BY DEF NoStrayCall
<1> DEFINE fd == NextUp[1]
           flag == NextUp[2]
<1>1. flag \in Flag /\ fd \in aio.mask[flag] /\ fd \in aio.enabled
  BY Next1
<1>2. AI(file, sock, os, aio)
  BY DEF AInv
<1> HIDE DEF fd, flag
<1>3. aio.handler[flag][fd] \in FileHandlers \cup SocketHandlers
  BY <1>1, <1>2, ArmedKind
<1> QED BY <1>1, <1>3 DEF fd, flag

LEMMA InvAwaited == AInv => AwaitedIsArmed
<1> SUFFICES ASSUME AInv, NEW s \in Socket, NEW event \in sock[s].awaiting
             PROVE  LET fd == sock[s].s
                        Fits(flag, h) ==
                            /\ fd \in aio.mask[flag] /\ fd < aio.maxFd
                            /\ aio.handler[flag][fd] = h
                    IN  CASE event = "read" -> Fits("R", "dataHandler")
                          [] event = "write" -> Fits("W", "dataHandler")
                          [] event = "conn" ->
                                /\ sock[s].sockState = "WaitingForConnection"
                                /\ \/ Fits("R", "acceptHandler")
                                   \/ Fits("W", "connectHandler")
  BY ZenonT(60) DEF AwaitedIsArmed
<1> DEFINE p == sock[s]
<1>0. AI(file, sock, os, aio)
  BY DEF AInv
<1>1. AI(file, sock, os, aio) /\ SockOK(s, p, os, aio) /\ p \in SocketType
  BY <1>0, ClientFacts DEF AI, ClientOK
<1> HIDE DEF p
<1>2. event \in p.awaiting
  BY DEF p
<1>3. /\ EnabledFor(aio, p.s, s)
      /\ \/ p.sockState = "WaitingForConnection" /\ Listening(p, os, aio)
         \/ p.sockState = "WaitingForConnection" /\ Connecting(p, os, aio)
         \/ Transferring(p, os, aio)
  BY <1>1, <1>2 DEF SockOK, Unused, Keeping
<1>4. p.s < aio.maxFd
  BY <1>1, <1>3 DEF EnabledFor, AI, AioOK
<1>5. \/ /\ event = "conn" /\ p.sockState = "WaitingForConnection"
         /\ \/ ArmedAs(aio, p.s, "R", "acceptHandler")
            \/ ArmedAs(aio, p.s, "W", "connectHandler")
      \/ event = "read" /\ ArmedAs(aio, p.s, "R", "dataHandler")
      \/ event = "write" /\ ArmedAs(aio, p.s, "W", "dataHandler")
  BY <1>2, <1>3 DEF Listening, Connecting, Transferring, IfArmed, ArmedAs
<1> QED BY <1>4, <1>5 DEF ArmedAs, p

LEMMA InvOnce == AInv => SignalledOnce
BY DEF AInv, AI, SignalledOnce, FileType

LEMMA InvTypes == AInv => TypeOK
BY DEF AInv, AI, OsOK, AioOK, AioType, Client, TypeOK

-----------------------------------------------------------------------------
(* The theorems.                                                           *)

\* What the kernel and aio.c keep of a descriptor, and each file and socket of
\* its own, has its type; maxFd does not leave the arrays of aio.c.
THEOREM AioTypesCorrect ==
    ASSUME ClosesDone, ~TransfersUnconnected
    PROVE  Spec => []TypeOK
BY Invariance, InvTypes, PTL

\* Through every open, close and open again under the same number, in handlers
\* in the middle of a poll too, a descriptor has one client, which believes
\* rightly that it is open, and the handlers armed on it are this client's.
THEOREM OwnersRight ==
    ASSUME ClosesDone, ~TransfersUnconnected
    PROVE  Spec => []RightOwner
BY Invariance, InvOwners, PTL

\* The poll selects once and then calls handlers that change what is armed;
\* it still never calls one that was taken off: neither undefinedHandler nor
\* a null pointer.
THEOREM StrayCallsNever ==
    ASSUME ClosesDone, ~TransfersUnconnected
    PROVE  Spec => []NoStrayCall
BY Invariance, InvCalls, PTL

\* Handlers are one-shot, and yet whenever the image waits for a semaphore of
\* a socket the handler that signals it is armed, below maxFd, where select
\* looks, and is the one of the state the socket is in.  The second assumption
\* cannot be dropped: sqSocketReceiveDataAvailable does not look whether it is
\* called for a listener, and puts dataHandler in the place of acceptHandler.
THEOREM AwaitedArmed ==
    ASSUME ClosesDone, ~TransfersUnconnected
    PROVE  Spec => []AwaitedIsArmed
BY Invariance, InvAwaited, PTL

\* A file is signalled for a transfer it started, and once: no handler armed
\* for an earlier file of the same descriptor is left.
THEOREM SignalsOnce ==
    ASSUME ClosesDone, ~TransfersUnconnected
    PROVE  Spec => []SignalledOnce
BY Invariance, InvOnce, PTL
=============================================================================
