---------------------------- MODULE StreamClient ----------------------------
(***************************************************************************)
(* gspp::StreamClient: both halves over one socket, and the life of the    *)
(* SharedStateBlock they share.  The block is kept by the StreamClient     *)
(* object and by every handler that waits to be run; when the last of them *)
(* goes, ~SharedStateBlock closes the socket.  A connection that breaks    *)
(* breaks for both halves, and a close by either path ends both.           *)
(*                                                                         *)
(* A Send that runs out of memory behind its push leaves a packet that     *)
(* nobody writes (stalled); StreamWriter leaves that out.                  *)
(***************************************************************************)
EXTENDS StreamSocket, ReaderBounds

CONSTANTS MaxSends, TransientErrors  \* see StreamWriter

ASSUME ClientAssumption ==
    /\ MaxSends \in Nat
    /\ TransientErrors \in BOOLEAN

VARIABLES
    write_queue, shutdown, owned, ops, wire, sent, closing, horizon,
    stage, status, inbound, rpos, starts, delivered, synced, died, late,
    stalled  \* history: a Send has thrown behind its push

Writer == INSTANCE StreamWriter
Reader == INSTANCE StreamReader

writerVars == <<write_queue, shutdown, owned, ops, wire, sent, closing, horizon>>
readerVars == <<stage, status, inbound, rpos, starts, delivered, synced, died, late>>
vars == <<socketVars, writerVars, readerVars, stalled>>

(* No shared_ptr to the state block is left. *)
Released_OwnerOnly == ~ owned
Released == ~ owned /\ ops = {} /\ stage = "idle"

TypeOK == Writer!TypeOK /\ Reader!TypeOK /\ stalled \in BOOLEAN

Init == Writer!Init /\ Reader!Init /\ stalled = FALSE

-----------------------------------------------------------------------------

Writing ==
    /\ Writer!User \/ Writer!Handlers \/ Writer!Kernel
    /\ UNCHANGED <<readerVars, stalled>>

(* Send when async_write_sp or the operation it starts cannot be allocated: *)
(* the packet is pushed, no write is started, and the exception goes to    *)
(* the caller.  (In a handler the same exception ends the process.)        *)
SendThrows ==
    /\ AllocFails
    /\ owned
    /\ sent < MaxSends
    /\ Writer!StartsChain(Append(write_queue, sent + 1))
    /\ sent' = sent + 1
    /\ write_queue' = Append(write_queue, sent + 1)
    /\ stalled' = TRUE
    /\ UNCHANGED <<socketVars, shutdown, owned, ops, wire, closing, horizon, readerVars>>

(* StartReceiveLoop needs the object; a running loop does not. *)
Reading ==
    /\ \/ owned /\ Reader!StartReceiveLoop
       \/ Reader!Handlers
       \/ Reader!Callbacks
       \/ Reader!Kernel
       \/ Reader!PartArrives
    /\ UNCHANGED <<writerVars, stalled>>

LinkDown == Reader!LinkDown /\ UNCHANGED <<writerVars, stalled>>

Next == Writing \/ SendThrows \/ Reading \/ LinkDown

Spec == Init /\ [][Next]_vars

(* As for each half, see there. *)
FairSpec ==
    /\ Spec
    /\ WF_vars(Writer!Handlers /\ UNCHANGED <<readerVars, stalled>>)
    /\ WF_vars(Writer!Kernel /\ UNCHANGED <<readerVars, stalled>>)
    /\ WF_vars(Reader!Handlers /\ UNCHANGED <<writerVars, stalled>>)
    /\ WF_vars(Reader!Callbacks /\ UNCHANGED <<writerVars, stalled>>)
    /\ WF_vars(Reader!Kernel /\ UNCHANGED <<writerVars, stalled>>)
-----------------------------------------------------------------------------
(***************************************************************************)
(* Properties                                                              *)
(***************************************************************************)

(* When the state block is released nothing is left to do: the socket is   *)
(* closed already (the close of ~SharedStateBlock finds it closed) and no  *)
(* packet is still queued, unless a Send had thrown.                       *)
ReleaseFindsClosed ==
    Released => stalled \/ (socket = "closed" /\ write_queue = <<>>)

(* Dropping the StreamClient while a loop runs and packets are queued      *)
(* releases the state block in the end: the handlers that keep it alive do *)
(* not keep each other alive for ever, unless a Send has thrown and the    *)
(* socket was not closed before: then a receive loop keeps both for good.  *)
NothingLeaks == ~ owned ~> (Released \/ (stalled /\ socket = "open"))

(* A close by the write half, however long deferred, reaches the read half *)
(* too: after CloseSocket the receive loop ends, unless a Send has thrown  *)
(* on the open socket, which then is never closed.                         *)
CloseEndsBoth ==
    closing ~> (IF socket = "closed" THEN stage = "idle" ELSE stalled)

(* The write half of a client in use, whose writes may fail on a           *)
(* connection that lives on and whose Sends may throw, keeps the wire in   *)
(* the order of Send.                                                      *)
WireInOrder == Writer!WireInOrder

(* After CloseSocket or the destructor nothing follows the packet that was *)
(* being written, a receive loop or not.                                   *)
NothingBeyondHorizon == Writer!NothingBeyondHorizon

(* Every packet sent leaves the queue, also when the client is dropped,    *)
(* unless a Send has thrown.                                               *)
QueueDrains ==
    \A p \in 1 .. MaxSends :
        sent >= p ~> (sent - Len(write_queue) >= p \/ stalled)
=============================================================================
