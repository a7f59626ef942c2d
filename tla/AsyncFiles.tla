----------------------------- MODULE AsyncFiles -----------------------------
(***************************************************************************)
(* sqUnixAsynchFile.c: transfers that are started by the image, continued  *)
(* by handlers, and answered by one signal of the file's semaphore.        *)
(*                                                                         *)
(* A file is opened on something that may block: a terminal, a pipe.  The  *)
(* status of a read is only answered to the image, never looked at, and is *)
(* left out with file positions and contents.  The image keeps to the      *)
(* rule at the head of the source, one operation at a time on a file.      *)
(***************************************************************************)
EXTENDS Aio

CONSTANTS
    File,         \* the AsyncFile handles of the image
    MaxTransfer   \* the longest write, in pieces the kernel may take alone

ASSUME TransferAssumption == MaxTransfer \in Nat

VARIABLE file
(* file[f].open        f.state # 0                                         *)
(* file[f].fd          its descriptor                                      *)
(* file[f].unwritten   buf.size - buf.pos                                  *)
(* file[f].failed      wr.status = Error                                   *)
(* file[f].reads       reads started and not yet signalled                 *)
(* file[f].writes      writes started and not yet signalled                *)

ClosedFile == [open |-> FALSE, fd |-> -1, unwritten |-> 0, failed |-> FALSE,
               reads |-> 0, writes |-> 0]

FileType == [open : BOOLEAN, fd : Descriptor \cup {-1},
             unwritten : 0 .. MaxTransfer, failed : BOOLEAN,
             reads : {0, 1}, writes : {0, 1}]

\* The image runs only while no poll is dispatching, and with a file that is
\* open and has no operation in progress.
Idle(f) == /\ ready = {}
           /\ file[f].open
           /\ file[f].reads + file[f].writes = 0

asyncFileOpen(f) ==
    /\ ready = {}
    /\ ~file[f].open
    /\ FreeDescriptors # {}
    /\ os' = [os EXCEPT ![Lowest] = Opened("terminal")]
    /\ aio' = aioEnable(aio, Lowest, f)
    /\ file' = [file EXCEPT ![f] = [ClosedFile EXCEPT !.open = TRUE,
                                                     !.fd = Lowest]]
    /\ UNCHANGED ready

\* Also in the middle of a transfer, whose signal then never comes.
asyncFileClose(f) ==
    /\ ready = {}
    /\ file[f].open
    /\ aio' = aioDisable(aio, file[f].fd)
    /\ os' = [os EXCEPT ![file[f].fd] = Opened("closed")]
    /\ file' = [file EXCEPT ![f] = ClosedFile]
    /\ UNCHANGED ready

-----------------------------------------------------------------------------
(* Reading.                                                                *)

\* Without the case that the seek fails, which starts nothing.
asyncFileReadStart(f) ==
    /\ Idle(f)
    /\ file' = [file EXCEPT ![f].reads = @ + 1]
    /\ aio' = aioHandle(aio, file[f].fd, "readHandler", {"R"})
    /\ UNCHANGED <<os, ready>>

\* The handler only signals: the image reads.
readHandler(f, fd, flag) ==
    /\ file' = [file EXCEPT ![f].reads = @ - 1]
    /\ DispatchContinues(Disarmed(fd, flag), fd, flag)
    /\ UNCHANGED os

\* A read takes what there is or leaves some.
asyncFileReadResult(f) ==
    /\ Idle(f)
    /\ os[file[f].fd].input = "data"
    /\ os' = [os EXCEPT ![file[f].fd].input = "none"]
    /\ UNCHANGED <<aio, ready, file>>

-----------------------------------------------------------------------------
(* Writing.                                                                *)

(* writeBuffer writes until all is written, the kernel would block, or it  *)
(* fails: the answers are its possible outcomes.                           *)

\* Mutant: what could not be written is not asked about again.
Blocks_NotArmed(p, a) ==
    {[file |-> [p EXCEPT !.unwritten = left], room |-> FALSE, aio |-> a] :
        left \in {n \in 1 .. p.unwritten : n < p.unwritten <=> Writable(p.fd)}}

Blocks(p, a) ==
    {[file |-> [p EXCEPT !.unwritten = left], room |-> FALSE,
      aio |-> aioHandle(a, p.fd, "writeHandler", {"W"})] :
        left \in {n \in 1 .. p.unwritten : n < p.unwritten <=> Writable(p.fd)}}

\* A write that fails is not signalled.
writeBuffer(p, a) ==
    Blocks(p, a)
    \cup {[file |-> [p EXCEPT !.failed = TRUE, !.unwritten = 0],
           room |-> os[p.fd].room, aio |-> a]}
    \cup IF Writable(p.fd)
         THEN {[file |-> [p EXCEPT !.unwritten = 0, !.writes = @ - 1],
                room |-> TRUE, aio |-> a]}
         ELSE {}

writeHandler(f, fd, flag) ==
    \E result \in writeBuffer(file[f], Disarmed(fd, flag)) :
        /\ file' = [file EXCEPT ![f] = result.file]
        /\ os' = [os EXCEPT ![fd].room = result.room]
        /\ DispatchContinues(result.aio, fd, flag)

\* Nothing to write is signalled at once.
asyncFileWriteStart(f, count) ==
    /\ Idle(f)
    /\ IF count < 1
       THEN /\ file' = [file EXCEPT ![f].failed = FALSE]
            /\ UNCHANGED <<os, aio>>
       ELSE \E result \in writeBuffer([file[f] EXCEPT !.unwritten = count,
                                                      !.failed = FALSE,
                                                      !.writes = @ + 1], aio) :
                /\ file' = [file EXCEPT ![f] = result.file]
                /\ os' = [os EXCEPT ![file[f].fd].room = result.room]
                /\ aio' = result.aio
    /\ UNCHANGED ready

\* The position cannot be set, or there is no memory: nothing is started.
WriteFails(f) ==
    /\ Idle(f)
    /\ file' = [file EXCEPT ![f].failed = TRUE]
    /\ UNCHANGED <<os, aio, ready>>

asyncFileWriteResult(f) ==
    /\ Idle(f)
    /\ file' = [file EXCEPT ![f].failed = FALSE]
    /\ UNCHANGED <<os, aio, ready>>

-----------------------------------------------------------------------------
FilesInit == file = [f \in File |-> ClosedFile]

FilesNext ==
    \E f \in File :
        \/ asyncFileOpen(f)
        \/ asyncFileClose(f)
        \/ asyncFileReadStart(f)
        \/ asyncFileReadResult(f)
        \/ \E count \in 0 .. MaxTransfer : asyncFileWriteStart(f, count)
        \/ WriteFails(f)
        \/ asyncFileWriteResult(f)
=============================================================================
