------------------------------- MODULE AsyncIO ------------------------------
(***************************************************************************)
(* The multiplexer with its clients: sockets and asynchronous files share  *)
(* the descriptors of the process, the numbers of which the kernel uses    *)
(* again as soon as they are closed.                                       *)
(***************************************************************************)
EXTENDS AsyncFiles, Sockets

ASSUME ClientsAssumption == File \cap Socket = {} /\ Null \notin File \cup Socket

vars == <<os, aio, ready, file, sock>>

\* The next handler of a poll is called.  undefinedHandler only complains, and
\* so does dataHandler on a descriptor that has no client; a null handler
\* would crash.
Dispatch ==
    /\ ready # {}
    /\ LET fd == NextUp[1]
           flag == NextUp[2]
           client == aio.clientData[fd]
           handler == aio.handler[flag][fd]
       IN  CASE \/ handler = "undefinedHandler"
                \/ handler = "dataHandler" /\ client = Null ->
                  /\ DispatchContinues(Disarmed(fd, flag), fd, flag)
                  /\ UNCHANGED <<os, file, sock>>
             [] handler = "readHandler" ->
                  /\ readHandler(client, fd, flag)
                  /\ UNCHANGED sock
             [] handler = "writeHandler" ->
                  /\ writeHandler(client, fd, flag)
                  /\ UNCHANGED sock
             [] OTHER ->
                  /\ \E outcome \in SocketHandler(handler, client, fd, flag,
                                                  Disarmed(fd, flag)) :
                        /\ sock' = [sock EXCEPT ![client] = outcome.sock]
                        /\ os' = outcome.os
                        /\ DispatchContinues(outcome.aio, fd, flag)
                  /\ UNCHANGED file

Init == AioInit /\ FilesInit /\ SocketsInit

Next ==
    \/ aioPoll /\ UNCHANGED <<file, sock>>
    \/ Dispatch
    \/ FilesNext /\ UNCHANGED sock
    \/ SocketsNext /\ UNCHANGED file
    \/ \E fd \in Descriptor : KernelActs(fd) /\ UNCHANGED <<file, sock>>

\* The interpreter polls at every interrupt check, and a poll calls all the
\* handlers it has to.
Spec == Init /\ [][Next]_vars
             /\ WF_vars(aioPoll /\ UNCHANGED <<file, sock>>)
             /\ WF_vars(Dispatch)

-----------------------------------------------------------------------------
TypeOK ==
    /\ os \in [Descriptor -> OsType]
    /\ aio.enabled \subseteq Descriptor
    /\ aio.mask \in [Flag -> SUBSET Descriptor]
    /\ aio.clientData \in [Descriptor -> File \cup Socket \cup {Null}]
    /\ aio.maxFd \in 0 .. MaxDescriptor + 1
    /\ ready \subseteq Descriptor \X Flag
    /\ file \in [File -> FileType]
    /\ sock \in [Socket -> SocketType]

\* The clients that think a descriptor is theirs.
Holders(fd) ==
    {f \in File : file[f].open /\ file[f].fd = fd}
    \cup {s \in Socket : /\ sock[s].live
                         /\ sock[s].sockState # "Invalid"
                         /\ sock[s].s = fd}
    \cup {s \in Socket : /\ sock[s].live
                         /\ sock[s].multiListen
                         /\ sock[s].sockState = "Connected"
                         /\ sock[s].acceptedSock = fd}

FileHandlers == {"readHandler", "writeHandler"}
SocketHandlers == {"acceptHandler", "connectHandler", "dataHandler",
                   "closeHandler"}

\* Whatever is opened, closed and opened again under the same number, by
\* handlers in the middle of a poll too: a descriptor has one client, which
\* believes it is open rightly, and the handlers armed on it are of this
\* client and no other (aioEnable does nothing if the number is still
\* enabled).
RightOwner ==
    \A fd \in Descriptor :
        /\ \A c, d \in Holders(fd) : c = d
        /\ Holders(fd) # {} => IsOpen(fd) /\ fd # 0
        /\ fd \in aio.enabled => aio.clientData[fd] \in Holders(fd)
        /\ \A flag \in Flag :
              fd \in aio.mask[flag] =>
                 /\ fd \in aio.enabled
                 /\ aio.handler[flag][fd] \in
                       IF aio.clientData[fd] \in File THEN FileHandlers
                       ELSE SocketHandlers

\* A handler that disables its descriptor leaves null pointers, and one that
\* was called leaves undefinedHandler: the poll, which selected once, never
\* comes to call either.
NoStrayCall ==
    ready # {} =>
        LET fd == NextUp[1]
            flag == NextUp[2]
        IN  /\ fd \in aio.mask[flag]
            /\ aio.handler[flag][fd] \in FileHandlers \cup SocketHandlers

\* Handlers are called once and must be armed again: whenever the image waits
\* for a semaphore of a socket, the handler that will signal it is armed and
\* within the descriptors that select looks at.  It holds of an image that
\* asks for data and room only on sockets that are or were connected: on a
\* listener dataHandler would take the place of acceptHandler.
AwaitedIsArmed ==
    \A s \in Socket : \A event \in sock[s].awaiting :
        LET fd == sock[s].s
            Armed(flag, h) == /\ fd \in aio.mask[flag]
                              /\ fd < aio.maxFd
                              /\ aio.handler[flag][fd] = h
        IN  CASE event = "read" -> Armed("R", "dataHandler")
              [] event = "write" -> Armed("W", "dataHandler")
              [] event = "conn" ->
                    /\ sock[s].sockState = "WaitingForConnection"
                    /\ \/ Armed("R", "acceptHandler")
                       \/ Armed("W", "connectHandler")

\* A transfer is signalled at most once, and no file is signalled for a
\* transfer it did not start: not by a handler armed for an earlier file with
\* the same descriptor, either.
SignalledOnce ==
    \A f \in File : file[f].reads \in {0, 1} /\ file[f].writes \in {0, 1}

\* A transfer that can go on is signalled in the end, unless a write failed.
TransferSignalled ==
    \A f \in File :
        /\ []<>~(file[f].reads = 1 /\ Readable(file[f].fd))
        /\ []<>~(/\ file[f].writes = 1
                 /\ ~file[f].failed
                 /\ Writable(file[f].fd))

\* Who waits for a connection, data or room is told once there is some: one
\* closed descriptor in the masks would stop select, and with it everybody.
EventTold ==
    \A s \in Socket :
        LET Waits(event) == event \in sock[s].awaiting
            fd == sock[s].s
        IN  /\ []<>~(Waits("read") /\ Readable(fd))
            /\ []<>~(Waits("write") /\ Writable(fd))
            /\ []<>~(/\ Waits("conn")
                     /\ IF os[fd].kind = "listening" THEN Readable(fd)
                        ELSE Writable(fd))
=============================================================================
