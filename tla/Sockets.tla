------------------------------ MODULE Sockets -------------------------------
(***************************************************************************)
(* sqUnixSocket.c: TCP sockets, the primitives that the image calls, and   *)
(* the handlers the multiplexer calls for them.                            *)
(*                                                                         *)
(* Addresses, ports, error numbers, data, linger times and the resolver    *)
(* are left out, and so is the session number: the network is not shut     *)
(* down.  The image calls a primitive as its class Socket does: it listens *)
(* or connects with a new socket, accepts when the status says that a      *)
(* connection is there, and after an error asks for the status before it   *)
(* does anything else.  Whether it also reads and writes sockets that were *)
(* never connected, which the primitives do not check, is a constant.      *)
(***************************************************************************)
EXTENDS Aio

CONSTANTS
    Socket,        \* the socket handles of the image
    CloseResults,  \* what close may do: "done", "failed", "blocked"
    TransfersUnconnected   \* does the image read, write, or ask for data or
                           \* room, on sockets that were never connected?

ASSUME TransfersAssumption == TransfersUnconnected \in BOOLEAN

ASSUME CloseAssumption == CloseResults \subseteq {"done", "failed", "blocked"}

VARIABLE sock
(* sock[s].live            privateSocketPtr # 0                            *)
(* sock[s].s               its descriptor, or -1                           *)
(* sock[s].sockState       the connection state                            *)
(* sock[s].multiListen     does it listen for several connections?         *)
(* sock[s].acceptedSock    an accepted connection, or -1; 0 from calloc    *)
(* sock[s].awaiting        the semaphores the image waits for, by event    *)

Event == {"conn", "read", "write"}

Freed == [live |-> FALSE, s |-> -1, sockState |-> "Unconnected",
          multiListen |-> FALSE, acceptedSock |-> 0, awaiting |-> {}]

SocketType == [live : BOOLEAN, s : Descriptor \cup {-1},
               sockState : {"Invalid", "Unconnected", "WaitingForConnection",
                            "Connected", "OtherEndClosed", "ThisEndClosed"},
               multiListen : BOOLEAN, acceptedSock : Descriptor \cup {-1},
               awaiting : SUBSET Event]

\* A primitive is called between polls, for a socket the status of which is
\* not known to be invalid.
Valid(s) == ready = {} /\ sock[s].live /\ sock[s].sockState # "Invalid"

\* Signal the semaphores of these events.
notify(p, events) == [p EXCEPT !.awaiting = @ \ events]

\* 1 if there is data to read, 0 if reading would block, and -1 if it would
\* fail or find the end of the stream.
socketReadable(fd) ==
    IF fd < 0 THEN -1
    ELSE LET d == os[fd]
         IN  CASE d.kind = "connected" /\ d.input = "data" -> 1
               [] \/ d.kind = "connected" /\ d.input \in {"none", "urgent"}
                  \/ d.kind = "connecting" -> 0
               [] OTHER -> -1

\* The kernel answers the error of a refused connection once.
ErrorAnswered(fd) == IF fd >= 0 /\ os[fd].kind = "refused"
                     THEN [os EXCEPT ![fd] = Opened("fresh")] ELSE os

-----------------------------------------------------------------------------
(* The handlers: the outcomes of a call for socket s on descriptor fd, once *)
(* the multiplexer has taken the handler off and is left as a.             *)

Outcome(p, o, a) == [sock |-> p, os |-> o, aio |-> a]

\* Accept failed: the descriptor is closed, but its number stays in p.s.
Aborted(p, fd, a) ==
    Outcome(notify([p EXCEPT !.sockState = "Invalid"], {"conn"}),
            [os EXCEPT ![fd] = Opened("closed")],
            aioDisable(a, fd))

\* Mutant: a connection that went away is forgotten, and with it the next.
Ignored_Forgotten(p, fd, a) ==
    Outcome(p, [os EXCEPT ![fd].input = "none"], a)

\* The connection went away before it was accepted: wait for the next.
Ignored(p, fd, a) ==
    Outcome(p, [os EXCEPT ![fd].input = "none"],
            aioHandle(a, fd, "acceptHandler", {"R", "X"}))

\* Several connections: keep this one until the image takes it.
Kept(p, fd, a) ==
    Outcome(notify([p EXCEPT !.sockState = "Connected",
                             !.acceptedSock = Lowest], {"conn"}),
            [os EXCEPT ![fd].input = "none", ![Lowest] = Opened("connected")],
            a)

\* Mutant: the multiplexer is not told that the listener is gone.
Replaced_Enabled(p, s, fd, a) ==
    Outcome(notify([p EXCEPT !.sockState = "Connected", !.s = Lowest],
                   {"conn"}),
            [os EXCEPT ![fd] = Opened("closed"),
                       ![Lowest] = Opened("connected")],
            aioEnable(a, Lowest, s))

\* One connection: it takes the place of the listener.
Replaced(p, s, fd, a) ==
    Outcome(notify([p EXCEPT !.sockState = "Connected", !.s = Lowest],
                   {"conn"}),
            [os EXCEPT ![fd] = Opened("closed"),
                       ![Lowest] = Opened("connected")],
            aioEnable(aioDisable(a, fd), Lowest, s))

acceptHandler(s, fd, flag, a) ==
    LET p == sock[s]
    IN  IF flag = "X"
        THEN {[Aborted(p, fd, a) EXCEPT !.sock.s = -1]}
        ELSE {Aborted(p, fd, a), Ignored(p, fd, a)}
             \cup IF FreeDescriptors = {} THEN {}
                  ELSE IF p.multiListen THEN {Kept(p, fd, a)}
                  ELSE {Replaced(p, s, fd, a)}

\* The handler of the other flag stays.  Asking for the error of a socket
\* clears it.
connectHandler(s, fd, flag, a) ==
    LET p == sock[s]
        Unconnected == notify([p EXCEPT !.sockState = "Unconnected"], {"conn"})
    IN  {CASE flag = "X" -> Outcome(Unconnected, os, aioDisable(a, fd))
           [] flag # "X" /\ os[fd].kind = "refused" ->
                Outcome(Unconnected, [os EXCEPT ![fd] = Opened("fresh")], a)
           [] flag # "X" /\ os[fd].kind # "refused" ->
                Outcome(notify([p EXCEPT !.sockState = "Connected"], {"conn"}),
                        os, a)}

\* Out-of-band data is thrown away.
dataHandler(s, fd, flag, a) ==
    LET p == sock[s]
        told == CASE flag = "R" ->
                       notify(IF socketReadable(fd) = 1 THEN p
                              ELSE [p EXCEPT !.sockState = "OtherEndClosed"],
                              {"read"})
                  [] flag = "W" -> notify(p, {"write"})
                  [] flag = "X" -> p
    IN  {Outcome(told,
                 CASE flag = "R" -> ErrorAnswered(fd)
                   [] flag = "W" -> os
                   [] flag = "X" -> [os EXCEPT ![fd].input = "none"],
                 a)}

closeHandler(s, fd, flag, a) ==
    {Outcome(notify([sock[s] EXCEPT !.sockState = "Unconnected", !.s = -1],
                    {"conn"}), os, aioDisable(a, fd))}

SocketHandler(h, s, fd, flag, a) ==
    CASE h = "acceptHandler" -> acceptHandler(s, fd, flag, a)
      [] h = "connectHandler" -> connectHandler(s, fd, flag, a)
      [] h = "dataHandler" -> dataHandler(s, fd, flag, a)
      [] h = "closeHandler" -> closeHandler(s, fd, flag, a)

-----------------------------------------------------------------------------
(* The primitives.                                                         *)

\* The new descriptor is not enabled, nor made non-blocking, before it is
\* listened on or connected.
sqSocketCreate(s) ==
    /\ ready = {}
    /\ ~sock[s].live
    /\ FreeDescriptors # {}
    /\ sock' = [sock EXCEPT ![s] = [Freed EXCEPT !.live = TRUE, !.s = Lowest]]
    /\ os' = [os EXCEPT ![Lowest] = Opened("fresh")]
    /\ UNCHANGED <<aio, ready>>

\* The status of an invalid socket is answered once.
sqSocketConnectionStatus(s) ==
    /\ ready = {}
    /\ sock[s].live
    /\ sock[s].sockState = "Invalid"
    /\ sock' = [sock EXCEPT ![s] = Freed]
    /\ UNCHANGED <<os, aio, ready>>

\* Created, and not yet connected or listening.
IsNew(s) == /\ sock[s].sockState = "Unconnected"
            /\ sock[s].s >= 0
            /\ os[sock[s].s].kind = "fresh"

\* Whatever bind and listen answer.
sqSocketListenOnPort(s, several) ==
    LET fd == sock[s].s
    IN  /\ Valid(s)
        /\ IsNew(s)
        /\ sock' = [sock EXCEPT ![s].sockState = "WaitingForConnection",
                                ![s].multiListen = several,
                                ![s].awaiting = @ \cup {"conn"}]
        /\ os' = [os EXCEPT ![fd] = Opened("listening")]
        /\ aio' = aioHandle(aioEnable(aio, fd, s), fd, "acceptHandler",
                            {"R", "X"})
        /\ UNCHANGED ready

sqSocketConnectToPort(s) ==
    LET fd == sock[s].s
        a == aioEnable(aio, fd, s)
    IN  /\ Valid(s)
        /\ IsNew(s)
        /\ \E result \in {"connected", "connecting", "error"} :
              /\ os' = IF result = "error" THEN os
                       ELSE [os EXCEPT ![fd] = Opened(result)]
              /\ CASE result = "connected" ->
                        /\ sock' = [sock EXCEPT ![s] =
                              notify([@ EXCEPT !.sockState = "Connected"],
                                     {"conn"})]
                        /\ aio' = a
                   [] result = "connecting" ->
                        /\ sock' = [sock EXCEPT
                              ![s].sockState = "WaitingForConnection",
                              ![s].awaiting = @ \cup {"conn"}]
                        /\ aio' = aioHandle(a, fd, "connectHandler",
                                            {"W", "X"})
                   [] result = "error" ->
                        /\ sock' = [sock EXCEPT ![s] =
                              notify([@ EXCEPT !.sockState = "Unconnected"],
                                     {"conn"})]
                        /\ aio' = a
        /\ UNCHANGED ready

\* The image accepts when the status of the server says Connected.
sqSocketAcceptFrom(s, server) ==
    LET fd == sock[server].acceptedSock
    IN  /\ Valid(server)
        /\ ~sock[s].live
        /\ sock[server].multiListen
        /\ sock[server].sockState = "Connected"
        /\ fd >= 0
        /\ sock' = [sock EXCEPT
              ![s] = [Freed EXCEPT !.live = TRUE, !.s = fd,
                                   !.sockState = "Connected"],
              ![server] = [sock[server] EXCEPT
                              !.acceptedSock = -1,
                              !.awaiting = @ \cup {"conn"},
                              !.sockState = "WaitingForConnection"]]
        /\ aio' = aioEnable(aioHandle(aio, sock[server].s, "acceptHandler",
                                      {"R", "X"}), fd, s)
        /\ UNCHANGED <<os, ready>>

\* Who waits for this socket is the image's own affair when it closes it.  A
\* close that fails leaves the number in p.s; one that would block leaves
\* handlers on a descriptor that is no longer enabled.
closeConnection(s) ==
    LET p == [sock[s] EXCEPT !.awaiting = {}]
        fd == p.s
        a == aioDisable(aio, fd)
        closed == [os EXCEPT ![fd] = Opened("closed")]
        After(result) ==
            CASE result = "done" ->
                   Outcome([p EXCEPT !.sockState = "Unconnected", !.s = -1],
                           closed, a)
              [] result = "failed" ->
                   Outcome([p EXCEPT !.sockState = "Unconnected"], closed, a)
              [] result = "blocked" ->
                   Outcome([p EXCEPT !.sockState = "ThisEndClosed"], os,
                           aioHandle(a, fd, "closeHandler", Flag))
    IN  IF fd < 0 THEN {Outcome(sock[s], os, aio)}
        ELSE {After(result) : result \in CloseResults}

\* An abort does not linger, and is otherwise the same.
sqSocketCloseConnection(s) ==
    /\ Valid(s)
    /\ \E closing \in closeConnection(s) :
          /\ sock' = [sock EXCEPT ![s] = closing.sock]
          /\ os' = closing.os
          /\ aio' = closing.aio
    /\ UNCHANGED ready

\* A connection that was accepted and not yet taken is not closed.
sqSocketDestroy(s) ==
    /\ Valid(s)
    /\ \E closing \in closeConnection(s) :
          /\ sock' = [sock EXCEPT ![s] = Freed]
          /\ os' = closing.os
          /\ aio' = closing.aio
    /\ UNCHANGED ready

\* The primitives that follow check no more than Valid does; for what the
\* image calls them on see TransfersUnconnected.
MayTransfer(s) ==
    /\ Valid(s)
    /\ \/ TransfersUnconnected
       \/ /\ sock[s].sockState \in {"Connected", "OtherEndClosed"}
          /\ ~sock[s].multiListen

\* Asks to be told, unless there is something to read.  What is not connected
\* is armed all the same, a listener included: dataHandler then takes the
\* place of acceptHandler.
sqSocketReceiveDataAvailable(s) ==
    LET fd == sock[s].s
        IsConnected == sock[s].sockState = "Connected"
        n == socketReadable(fd)
    IN  /\ MayTransfer(s)
        /\ ~(IsConnected /\ n = 1)
        /\ sock' = [sock EXCEPT
                      ![s].sockState = IF IsConnected /\ n = -1
                                       THEN "OtherEndClosed" ELSE @,
                      ![s].awaiting = @ \cup {"read"}]
        /\ aio' = aioHandle(aio, fd, "dataHandler", {"R", "X"})
        /\ UNCHANGED <<os, ready>>

\* Asks to be told, unless there is room.
sqSocketSendDone(s) ==
    LET fd == sock[s].s
    IN  /\ MayTransfer(s)
        /\ sock[s].sockState = "Connected"
        /\ ~Writable(fd)
        /\ sock' = [sock EXCEPT ![s].awaiting = @ \cup {"write"}]
        /\ aio' = aioHandle(aio, fd, "dataHandler", {"W", "X"})
        /\ UNCHANGED <<os, ready>>

\* Reading takes what there is, or finds the end of the stream or an error.
sqSocketReceiveData(s) ==
    LET fd == sock[s].s
        n == socketReadable(fd)
    IN  /\ MayTransfer(s)
        /\ \/ /\ n = 1
              /\ os' = [os EXCEPT ![fd].input = "none"]
              /\ UNCHANGED sock
           \/ /\ n = -1
              /\ sock' = [sock EXCEPT ![s] =
                    notify([@ EXCEPT !.sockState = "OtherEndClosed"],
                           {"conn"})]
              /\ os' = ErrorAnswered(fd)
        /\ UNCHANGED <<aio, ready>>

\* Writing takes room, or finds that the other end has closed or an error;
\* without room it would block.
sqSocketSendData(s) ==
    LET fd == sock[s].s
        IsOf(kind) == fd >= 0 /\ os[fd].kind = kind
    IN  /\ MayTransfer(s)
        /\ \/ /\ IsOf("connected") /\ os[fd].room /\ os[fd].input # "eof"
              /\ os' = [os EXCEPT ![fd].room = FALSE]
              /\ UNCHANGED sock
           \/ /\ ~IsOf("connecting")
              /\ IsOf("connected") => os[fd].room /\ os[fd].input = "eof"
              /\ sock' = [sock EXCEPT ![s].sockState = "OtherEndClosed"]
              /\ os' = ErrorAnswered(fd)
        /\ UNCHANGED <<aio, ready>>

-----------------------------------------------------------------------------
SocketsInit == sock = [s \in Socket |-> Freed]

SocketsNext ==
    \E s \in Socket :
        \/ sqSocketCreate(s)
        \/ sqSocketConnectionStatus(s)
        \/ \E several \in BOOLEAN : sqSocketListenOnPort(s, several)
        \/ sqSocketConnectToPort(s)
        \/ \E server \in Socket \ {s} : sqSocketAcceptFrom(s, server)
        \/ sqSocketCloseConnection(s)
        \/ sqSocketDestroy(s)
        \/ sqSocketReceiveDataAvailable(s)
        \/ sqSocketSendDone(s)
        \/ sqSocketReceiveData(s)
        \/ sqSocketSendData(s)
=============================================================================
