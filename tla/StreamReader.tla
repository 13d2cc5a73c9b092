---------------------------- MODULE StreamReader ----------------------------
(***************************************************************************)
(* The read half of gspp::StreamClient: StartReceiveLoop over              *)
(* bacs::async_read_sp_loop and bacs::async_read_sp.  A loop reads the     *)
(* size of a frame, allocates a buffer of that size, reads the data and    *)
(* hands the packet to on_handle; it goes on while on_handle says so, and  *)
(* ends through on_death when a read fails.                                *)
(*                                                                         *)
(* No lock is taken.  Each handler is an action, on_handle and on_death    *)
(* are left and entered in separate actions, and the connection, the peer  *)
(* and CloseSocket act in between.  The peer sends well-formed frames      *)
(* 1, 2, 3, ...; StartReceiveLoop is not called while a loop is running,   *)
(* which the code leaves to its caller.                                    *)
(***************************************************************************)
EXTENDS StreamSocket, ReaderBounds

VARIABLES
    stage,      \* "idle", the part being read, "handling" or "dying"
    status,     \* of the read in flight, when there is one
    inbound,    \* parts of frames that have arrived
    rpos,       \* parts of frames that have been read
    starts,     \* number of loops started
    delivered,  \* history: the packets handed to on_handle
    synced,     \* history: reads begin where a part begins
    died,       \* history: on_death has been called
    late        \* history: packets this loop handed over on a closed socket,
                \* counted up to 2

loopVars == <<stage, status, starts>>
inVars == <<inbound, rpos>>
historyVars == <<delivered, synced, died, late>>
readerVars == <<loopVars, inVars, historyVars>>
vars == <<socketVars, readerVars>>

(* What on_handle is given when the bytes are not those of one frame. *)
Junk == 0

TypeOK ==
    /\ SocketTypeOK
    /\ stage \in Parts \cup {"idle", "handling", "dying"}
    /\ status \in Status
    /\ inbound \in 0 .. 2 * MaxFrames
    /\ rpos \in 0 .. inbound
    /\ starts \in 0 .. MaxStarts
    /\ delivered \in Seq(Junk .. MaxFrames)
    /\ synced \in BOOLEAN
    /\ died \in BOOLEAN
    /\ late \in 0 .. 2

Init ==
    /\ SocketInit
    /\ stage = "idle"
    /\ status = "pending"
    /\ inbound = 0
    /\ rpos = 0
    /\ starts = 0
    /\ delivered = <<>>
    /\ synced = TRUE
    /\ died = FALSE
    /\ late = 0

-----------------------------------------------------------------------------

AsyncRead(part) ==
    /\ stage' = part
    /\ status' = ReadStatus(socket)

(* Where the loop reads on when on_handle asked for more. *)
LoopResumesAt_Data == "data"
LoopResumesAt == "size"

StartReceiveLoop ==
    /\ stage = "idle"
    /\ starts < MaxStarts
    /\ starts' = starts + 1
    /\ late' = 0
    /\ AsyncRead("size")
    /\ UNCHANGED <<socketVars, inVars, delivered, synced, died>>

(* The loop's handler: on_death on an error, on_handle otherwise. *)
Invoke(isError, packet) ==
    /\ UNCHANGED <<status, starts>>
    /\ IF isError
       THEN /\ stage' = "dying"
            /\ died' = TRUE
            /\ UNCHANGED <<delivered, late>>
       ELSE /\ stage' = "handling"
            /\ delivered' = Append(delivered, packet)
            /\ late' = IF socket = "closed" /\ late < 2 THEN late + 1 ELSE late
            /\ UNCHANGED died

(* The size has been read and the buffer allocated: read the data. *)
SizeRead ==
    /\ stage = "size"
    /\ status = "ok"
    /\ AsyncRead("data")
    /\ UNCHANGED <<socketVars, inVars, starts, historyVars>>

(* The allocation fails: catch (...) passes an empty buffer on with the    *)
(* error code of the read, which succeeded.  The data stays unread.        *)
FailureIsError_Yes == TRUE
FailureIsError == FALSE

AllocationFails ==
    /\ AllocFails
    /\ stage = "size"
    /\ status = "ok"
    /\ Invoke(FailureIsError, Junk)
    /\ synced' = FALSE
    /\ UNCHANGED <<socketVars, inVars>>

(* The loop's handler tests the error code first. *)
IsError_Ignored(s) == FALSE
IsError(s) == s = "failed"

(* The packet whose data is in the buffer. *)
PacketRead_Next == IF synced THEN rpos \div 2 + 1 ELSE Junk
PacketRead == IF synced THEN rpos \div 2 ELSE Junk

(* The data has been read, or one of the two reads has failed. *)
ReadDone ==
    /\ stage \in Parts
    /\ status = "failed" \/ (stage = "data" /\ status = "ok")
    /\ Invoke(IsError(status), PacketRead)
    /\ UNCHANGED <<socketVars, inVars, synced>>

(* on_handle returns: go on, or leave the loop. *)
HandleReturns ==
    /\ stage = "handling"
    /\ \/ AsyncRead(LoopResumesAt)
       \/ stage' = "idle" /\ UNCHANGED status
    /\ UNCHANGED <<socketVars, inVars, starts, historyVars>>

(* on_death returns: the loop's handler answers false. *)
GoesOnAfterDeath_Yes == TRUE
GoesOnAfterDeath == FALSE

DeathReturns ==
    /\ stage = "dying"
    /\ IF GoesOnAfterDeath
       THEN AsyncRead("size")
       ELSE stage' = "idle" /\ UNCHANGED status
    /\ UNCHANGED <<socketVars, inVars, starts, historyVars>>

-----------------------------------------------------------------------------

PartArrives ==
    /\ link = "up"
    /\ inbound < 2 * MaxFrames
    /\ inbound' = inbound + 1
    /\ UNCHANGED <<socketVars, loopVars, rpos, historyVars>>

(* Bound: how many packets are handed over once reads are out of step. *)
MoreJunk == Len(delivered) < 2 * MaxFrames

(* A pending read is completed by what has arrived.  Out of step, the      *)
(* bytes taken for a size or for data may be any.                          *)
ReadCompletes ==
    /\ stage \in Parts
    /\ status = "pending"
    /\ socket = "open"
    /\ rpos < inbound
    /\ IF synced
       THEN rpos' = rpos + 1
       ELSE MoreJunk /\ rpos' \in rpos .. inbound
    /\ status' = "ok"
    /\ UNCHANGED <<socketVars, stage, starts, inbound, historyVars>>

(* A pending read fails when the socket is closed, or with the last bytes  *)
(* that arrived before the connection broke.                               *)
ReadFails ==
    /\ stage \in Parts
    /\ status = "pending"
    /\ IF socket = "closed"
       THEN UNCHANGED rpos
       ELSE link = "down" /\ (synced => rpos = inbound) /\ rpos' = inbound
    /\ status' = "failed"
    /\ UNCHANGED <<socketVars, stage, starts, inbound, historyVars>>

(* The connection breaks; what was not read yet may be discarded. *)
LinkDown ==
    /\ link = "up"
    /\ link' = "down"
    /\ inbound' \in rpos .. inbound
    /\ UNCHANGED <<socket, loopVars, rpos, historyVars>>

(* The write half, or the owner through it, closes the socket. *)
SocketCloses ==
    /\ socket' = "closed"
    /\ UNCHANGED <<link, readerVars>>

-----------------------------------------------------------------------------

Handlers == SizeRead \/ AllocationFails \/ ReadDone

Callbacks == HandleReturns \/ DeathReturns

Kernel == ReadCompletes \/ ReadFails

Peer == PartArrives \/ LinkDown

Next == StartReceiveLoop \/ Handlers \/ Callbacks \/ Kernel \/ Peer \/ SocketCloses

Spec == Init /\ [][Next]_vars

-----------------------------------------------------------------------------
(***************************************************************************)
(* Properties                                                              *)
(***************************************************************************)

(* How many packets must have been handed over: all that have been read,   *)
(* but for the one whose handler is still to run.                          *)
Handed == IF stage = "data" /\ status = "ok" THEN rpos \div 2 - 1 ELSE rpos \div 2

(* Across all loops started one after the other, on_handle is given every  *)
(* packet read from the connection, once, in order, as long as no buffer   *)
(* allocation failed.                                                      *)
PacketsInOrder ==
    synced => delivered = [i \in 1 .. Handed |-> i]

(* A loop hands over at most one packet after the socket is closed: the    *)
(* one whose read had completed before.                                    *)
OneLatePacket == late <= 1
=============================================================================
