------------------------- MODULE StreamClientProofs -------------------------
(***************************************************************************)
(* Proofs about StreamClient, for every number of packets, frames and      *)
(* loops.  Each half does in the client what it does alone: the read half  *)
(* always, the write half until a Send throws.  So the invariants of       *)
(* StreamReaderProofs and StreamWriterProofs hold here, and what is to be  *)
(* proved is what a Send that threw leaves behind, and that the owner      *)
(* never goes without closing.                                             *)
(***************************************************************************)
EXTENDS StreamClient, TLAPS

WP == INSTANCE StreamWriterProofs
RP == INSTANCE StreamReaderProofs

(* A packet stays in the queue that nobody writes, and no write is started *)
(* any more: the wire is what it was.  A close would have to wait for that *)
(* packet, which lies behind all that is on the wire.                      *)
Stuck ==
    /\ Writer!TypeOK
    /\ ops = {}
    /\ write_queue # <<>>
    /\ Writer!WireInOrder
    /\ ~ closing => \A i \in 1 .. Len(wire) : wire[i].pkt <= Head(write_queue)
    /\ Writer!NothingBeyondHorizon

WriteHalf == IF stalled THEN Stuck ELSE WP!IInv

(* The destructor calls CloseSocket. *)
OwnerCloses == ~ owned => closing

IInv ==
    /\ stalled \in BOOLEAN
    /\ WriteHalf
    /\ OwnerCloses
    /\ RP!IInv

-----------------------------------------------------------------------------
(***************************************************************************)
(* The halves as StreamClient and as the proofs about them name them       *)
(***************************************************************************)

LEMMA SameReader ==
    /\ Reader!Init => RP!Init
    /\ RP!TypeOK => Reader!TypeOK
    /\ RP!PacketsInOrder => Reader!PacketsInOrder
    /\ RP!OneLatePacket => Reader!OneLatePacket
    /\ UNCHANGED <<socketVars, readerVars>> => UNCHANGED RP!vars
BY DEF Reader!Init, RP!Init, Reader!SocketInit, RP!SocketInit,
       Reader!TypeOK, RP!TypeOK, Reader!SocketTypeOK, RP!SocketTypeOK,
       Reader!Parts, RP!Parts, Reader!Status, RP!Status, Reader!Junk, RP!Junk,
       Reader!PacketsInOrder, RP!PacketsInOrder, Reader!Handed, RP!Handed,
       Reader!OneLatePacket, RP!OneLatePacket,
       socketVars, readerVars, RP!vars, RP!socketVars, RP!readerVars,
       RP!loopVars, RP!inVars, RP!historyVars

LEMMA SameStart == Reader!StartReceiveLoop => RP!StartReceiveLoop
BY DEF Reader!StartReceiveLoop, RP!StartReceiveLoop, Reader!AsyncRead, RP!AsyncRead,
       Reader!ReadStatus, RP!ReadStatus, Reader!socketVars, RP!socketVars, Reader!inVars, RP!inVars

LEMMA SameReadHandlers == Reader!Handlers => RP!Handlers
BY DEF Reader!Handlers, RP!Handlers, Reader!SizeRead, RP!SizeRead,
       Reader!AllocationFails, RP!AllocationFails, Reader!ReadDone, RP!ReadDone,
       Reader!Invoke, RP!Invoke, Reader!AsyncRead, RP!AsyncRead,
       Reader!ReadStatus, RP!ReadStatus, Reader!IsError, RP!IsError,
       Reader!PacketRead, RP!PacketRead, Reader!FailureIsError, RP!FailureIsError,
       Reader!Junk, RP!Junk, Reader!Parts, RP!Parts,
       Reader!socketVars, RP!socketVars, Reader!inVars, RP!inVars,
       Reader!historyVars, RP!historyVars

LEMMA SameCallbacks == Reader!Callbacks => RP!Callbacks
BY DEF Reader!Callbacks, RP!Callbacks,
       Reader!HandleReturns, Reader!DeathReturns, RP!HandleReturns, RP!DeathReturns,
       Reader!LoopResumesAt, RP!LoopResumesAt, Reader!GoesOnAfterDeath, RP!GoesOnAfterDeath,
       Reader!AsyncRead, RP!AsyncRead, Reader!ReadStatus, RP!ReadStatus,
       Reader!socketVars, RP!socketVars, Reader!inVars, RP!inVars,
       Reader!historyVars, RP!historyVars

LEMMA SameReadKernel == Reader!Kernel => RP!Kernel
BY DEF Reader!Kernel, RP!Kernel, Reader!ReadCompletes, RP!ReadCompletes,
       Reader!ReadFails, RP!ReadFails, Reader!MoreJunk, RP!MoreJunk, Reader!Parts, RP!Parts,
       Reader!socketVars, RP!socketVars, Reader!historyVars, RP!historyVars

LEMMA SamePeer ==
    /\ Reader!PartArrives => RP!Peer
    /\ Reader!LinkDown => RP!Peer
BY DEF RP!Peer, Reader!PartArrives, RP!PartArrives, Reader!LinkDown, RP!LinkDown,
       Reader!socketVars, RP!socketVars, Reader!loopVars, RP!loopVars,
       Reader!historyVars, RP!historyVars

LEMMA SameWriter ==
    /\ Writer!Init => WP!Init
    /\ WP!TypeOK <=> Writer!TypeOK
    /\ WP!WireInOrder <=> Writer!WireInOrder
    /\ WP!NothingBeyondHorizon <=> Writer!NothingBeyondHorizon
    /\ UNCHANGED <<socketVars, writerVars>> => UNCHANGED WP!vars
BY DEF Writer!Init, WP!Init, Writer!SocketInit, WP!SocketInit,
       Writer!TypeOK, WP!TypeOK, Writer!SocketTypeOK, WP!SocketTypeOK,
       Writer!Packets, WP!Packets, Writer!Op, WP!Op, Writer!Token, WP!Token,
       Writer!Parts, WP!Parts, Writer!Status, WP!Status,
       Writer!WireInOrder, WP!WireInOrder, Writer!Slot, WP!Slot,
       Writer!NothingBeyondHorizon, WP!NothingBeyondHorizon,
       socketVars, writerVars, WP!vars, WP!socketVars, WP!writerVars

LEMMA SameUser == Writer!User => WP!User
BY DEF Writer!User, WP!User, Writer!Send, WP!Send, Writer!Close, WP!Close,
       Writer!Destroy, WP!Destroy, Writer!CloseSocket, WP!CloseSocket,
       Writer!ClosesAtOnce, WP!ClosesAtOnce, Writer!StartsChain, WP!StartsChain,
       Writer!WriteAsync, WP!WriteAsync, Writer!AsyncWrite, WP!AsyncWrite,
       Writer!WriteStatus, WP!WriteStatus, Writer!Usable, WP!Usable,
       Writer!socketVars, WP!socketVars

LEMMA SameWriteHandlers == Writer!Handlers => WP!Handlers
BY DEF Writer!Handlers, WP!Handlers, Writer!SizeWritten, WP!SizeWritten,
       Writer!WriteDone, WP!WriteDone, Writer!Popped, WP!Popped,
       Writer!SocketWhenDone, WP!SocketWhenDone, Writer!ChainGoesOn, WP!ChainGoesOn,
       Writer!WriteAsync, WP!WriteAsync, Writer!AsyncWrite, WP!AsyncWrite,
       Writer!WriteStatus, WP!WriteStatus, Writer!Usable, WP!Usable,
       Writer!socketVars, WP!socketVars

LEMMA SameWriteKernel == Writer!Kernel => WP!Kernel
BY DEF Writer!Kernel, WP!Kernel, Writer!Transmit, WP!Transmit,
       Writer!WriteFails, WP!WriteFails, Writer!SetStatus, WP!SetStatus,
       Writer!Usable, WP!Usable, Writer!socketVars, WP!socketVars

LEMMA SameLinkDown ==
    ASSUME Reader!LinkDown, UNCHANGED writerVars
    PROVE  WP!LinkDown
BY DEF Reader!LinkDown, WP!LinkDown, WP!writerVars, writerVars

-----------------------------------------------------------------------------
(***************************************************************************)
(* Every step of the client is one of each half, or none                   *)
(***************************************************************************)

(* What the write half does to the state it shares with the read half and  *)
(* with the owner.                                                         *)
LEMMA WritingEffect ==
    ASSUME Writer!User \/ Writer!Handlers \/ Writer!Kernel
    PROVE  /\ link' = link
           /\ socket' = socket \/ socket' = "closed"
           /\ closing' = closing \/ closing' = TRUE
           /\ owned' = owned \/ closing' = TRUE
BY DEF Writer!User, Writer!Send, Writer!Close, Writer!Destroy, Writer!CloseSocket,
       Writer!Handlers, Writer!SizeWritten, Writer!WriteDone, Writer!SocketWhenDone,
       Writer!Kernel, Writer!Transmit, Writer!WriteFails, Writer!socketVars

LEMMA ReadingEffect ==
    ASSUME Reading
    PROVE  UNCHANGED <<socketVars, writerVars, stalled>>
BY DEF Reading, Reader!StartReceiveLoop, Reader!Handlers, Reader!SizeRead,
       Reader!AllocationFails, Reader!ReadDone, Reader!Callbacks, Reader!HandleReturns,
       Reader!DeathReturns, Reader!Kernel, Reader!ReadCompletes, Reader!ReadFails,
       Reader!PartArrives, Reader!socketVars, socketVars

LEMMA ReaderStep == [Next]_vars => [RP!Next]_(RP!vars)
<1> SUFFICES ASSUME [Next]_vars PROVE [RP!Next]_(RP!vars)
  OBVIOUS
<1>1. CASE UNCHANGED vars
  BY <1>1, SameReader DEF vars
<1>2. CASE Writing
  <2>1. UNCHANGED readerVars /\ link' = link /\ (socket' = socket \/ socket' = "closed")
    BY <1>2, WritingEffect DEF Writing
  <2>2. CASE socket' = socket
    BY <2>1, <2>2, SameReader DEF socketVars
  <2>3. CASE socket' = "closed"
    <3>1. RP!SocketCloses
      BY <2>1, <2>3 DEF RP!SocketCloses, readerVars, RP!readerVars, RP!loopVars, RP!inVars,
         RP!historyVars
    <3> QED BY <3>1 DEF RP!Next
  <2> QED BY <2>1, <2>2, <2>3
<1>3. CASE SendThrows
  BY <1>3, SameReader DEF SendThrows
<1>4. CASE Reading
  BY <1>4, SameStart, SameReadHandlers, SameCallbacks, SameReadKernel, SamePeer
     DEF Reading, RP!Next
<1>5. CASE LinkDown
  BY <1>5, SamePeer DEF LinkDown, RP!Next
<1> QED BY <1>1, <1>2, <1>3, <1>4, <1>5 DEF Next

(* A Send that throws is no step of the write half alone. *)
LEMMA WriterStep == [Next]_vars => SendThrows \/ [WP!Next]_(WP!vars)
<1> SUFFICES ASSUME [Next]_vars PROVE SendThrows \/ [WP!Next]_(WP!vars)
  OBVIOUS
<1>1. CASE UNCHANGED vars
  BY <1>1, SameWriter DEF vars
<1>2. CASE Writing
  BY <1>2, SameUser, SameWriteHandlers, SameWriteKernel DEF Writing, WP!Next
<1>3. CASE Reading
  BY <1>3, ReadingEffect, SameWriter
<1>4. CASE LinkDown
  BY <1>4, SameLinkDown DEF LinkDown, WP!Next
<1> QED BY <1>1, <1>2, <1>3, <1>4 DEF Next

-----------------------------------------------------------------------------
(***************************************************************************)
(* The invariant                                                           *)
(***************************************************************************)

LEMMA InitIInv == Init => IInv
<1> SUFFICES ASSUME Init PROVE IInv
  OBVIOUS
<1>1. WP!Init /\ RP!Init /\ stalled = FALSE /\ owned = TRUE
  BY SameWriter, SameReader DEF Init, Writer!Init
<1>2. WP!IInv
  BY <1>1, WP!InitIInv, ClientAssumption
<1>3. RP!IInv
  BY <1>1, RP!InitIInv, ReaderAssumption
<1> QED BY <1>1, <1>2, <1>3 DEF IInv, WriteHalf, OwnerCloses

(* A Send that throws had found the queue empty, so that its packet lies   *)
(* behind the wire and no write is in flight.                              *)
LEMMA SendThrowsStep ==
    ASSUME IInv, SendThrows
    PROVE  stalled' /\ WriteHalf'
<1>1. /\ sent < MaxSends /\ sent' = sent + 1
      /\ write_queue' = Append(write_queue, sent + 1)
      /\ Len(Append(write_queue, sent + 1)) = 1
      /\ stalled' = TRUE
      /\ UNCHANGED <<socket, link, shutdown, owned, ops, wire, closing, horizon>>
  BY DEF SendThrows, Writer!StartsChain, socketVars
<1>2. Writer!TypeOK
  BY SameWriter DEF IInv, WriteHalf, Stuck, WP!IInv
<1>3. /\ write_queue \in Seq(Writer!Packets) /\ sent \in Nat /\ sent + 1 \in Writer!Packets
      /\ sent + 1 \in 0 .. MaxSends
  BY <1>1, <1>2, ClientAssumption DEF Writer!TypeOK, Writer!Packets
<1>4. write_queue = <<>> /\ write_queue' # <<>> /\ Head(write_queue') = sent + 1
      /\ write_queue' \in Seq(Writer!Packets)
  <2>1. Len(write_queue) = 0
    BY <1>1, <1>3
  <2>2. write_queue = <<>>
    BY <1>3, <2>1
  <2> QED BY <1>1, <1>3, <2>2
<1>5. ~ stalled /\ WP!IInv
  BY <1>4 DEF IInv, WriteHalf, Stuck
<1>6. ops = {}
  BY <1>4, <1>5 DEF WP!IInv, WP!OneWriteInFlight
<1>7. Writer!TypeOK'
  BY <1>1, <1>2, <1>3, <1>4 DEF Writer!TypeOK, Writer!SocketTypeOK
<1>8. Writer!WireInOrder' /\ Writer!NothingBeyondHorizon'
  BY <1>1, <1>5, SameWriter DEF WP!IInv, Writer!WireInOrder, Writer!NothingBeyondHorizon
<1>9. ASSUME NEW i \in 1 .. Len(wire)
      PROVE  wire[i].pkt <= sent + 1
  <2>1. /\ wire[i].pkt \in WP!Packets
        /\ WP!Slot(wire[i]) \in Int
        /\ 2 * wire[i].pkt - 1 <= WP!Slot(wire[i])
    BY <1>5, WP!WireTypes, ClientAssumption DEF WP!IInv
  <2>2. WP!Slot(wire[i]) <= 2 * sent
    BY <1>5, <1>6 DEF WP!IInv, WP!WireBounded
  <2>3. wire[i].pkt \in Int
    BY <2>1, ClientAssumption DEF WP!Packets
  <2> QED BY <1>3, <2>1, <2>2, <2>3
<1> QED BY <1>1, <1>4, <1>6, <1>7, <1>8, <1>9 DEF WriteHalf, Stuck

(* Behind the stuck packet Send only queues. *)
LEMMA StuckSend ==
    ASSUME Stuck, Writer!Send
    PROVE  Stuck'
<1>1. /\ sent < MaxSends /\ sent' = sent + 1
      /\ write_queue' = Append(write_queue, sent + 1)
      /\ UNCHANGED <<socket, link, shutdown, owned, closing, horizon>>
  BY DEF Writer!Send, Writer!socketVars
<1>2. /\ write_queue \in Seq(Writer!Packets) /\ write_queue # <<>>
      /\ sent + 1 \in Writer!Packets /\ sent + 1 \in 0 .. MaxSends
  BY <1>1, ClientAssumption DEF Stuck, Writer!TypeOK, Writer!Packets
<1>3. /\ write_queue' \in Seq(Writer!Packets) /\ write_queue' # <<>>
      /\ Head(write_queue') = Head(write_queue) /\ Len(write_queue') # 1
  BY <1>1, <1>2
<1>4. UNCHANGED <<ops, wire>>
  BY <1>3 DEF Writer!Send, Writer!StartsChain
<1>5. Writer!TypeOK'
  BY <1>1, <1>2, <1>3, <1>4 DEF Stuck, Writer!TypeOK, Writer!SocketTypeOK
<1>6. Writer!WireInOrder' /\ Writer!NothingBeyondHorizon'
  BY <1>1, <1>4 DEF Stuck, Writer!WireInOrder, Writer!NothingBeyondHorizon
<1> QED BY <1>1, <1>3, <1>4, <1>5, <1>6 DEF Stuck

(* A close is left to a handler that will not be run.  The packet it waits *)
(* for lies behind the wire.                                               *)
LEMMA StuckClose ==
    ASSUME Stuck, Writer!CloseSocket, owned' \in BOOLEAN
    PROVE  Stuck'
<1>1. /\ UNCHANGED <<socket, link, write_queue, ops, wire, sent>>
      /\ shutdown' = TRUE /\ closing' = TRUE
      /\ horizon' = IF closing THEN horizon ELSE Head(write_queue)
  BY DEF Stuck, Writer!CloseSocket, Writer!ClosesAtOnce
<1>2. write_queue \in Seq(Writer!Packets) /\ write_queue # <<>>
  BY DEF Stuck, Writer!TypeOK
<1>3. Head(write_queue) \in Writer!Packets
  BY <1>2
<1>4. horizon' \in 0 .. MaxSends
  BY <1>1, <1>3, ClientAssumption DEF Stuck, Writer!TypeOK, Writer!Packets
<1>5. Writer!TypeOK'
  BY <1>1, <1>4 DEF Stuck, Writer!TypeOK, Writer!SocketTypeOK
<1>6. Writer!WireInOrder' /\ Writer!NothingBeyondHorizon'
  BY <1>1 DEF Stuck, Writer!WireInOrder, Writer!NothingBeyondHorizon
<1> QED BY <1>1, <1>5, <1>6 DEF Stuck

LEMMA StuckStep ==
    ASSUME IInv, stalled, [Next]_vars
    PROVE  stalled' /\ Stuck'
<1>1. Stuck
  BY DEF IInv, WriteHalf
<1>2. CASE Writing
  <2>1. Writer!User /\ stalled' = stalled
    BY <1>1, <1>2 DEF Writing, Writer!Handlers, Writer!Kernel, Stuck
  <2>2. CASE Writer!Send
    BY <1>1, <2>1, <2>2, StuckSend
  <2>3. CASE Writer!Close \/ Writer!Destroy
    <3>1. Writer!CloseSocket /\ owned' \in BOOLEAN
      BY <1>1, <2>3 DEF Writer!Close, Writer!Destroy, Stuck, Writer!TypeOK
    <3> QED BY <1>1, <2>1, <3>1, StuckClose
  <2> QED BY <2>1, <2>2, <2>3 DEF Writer!User
<1>3. CASE SendThrows
  BY <1>3, SendThrowsStep DEF WriteHalf
<1>4. CASE UNCHANGED vars \/ Reading \/ LinkDown
  <2>1. /\ UNCHANGED <<socket, writerVars, stalled>>
        /\ link' = link \/ link' = "down"
    BY <1>4, ReadingEffect DEF vars, LinkDown, Reader!LinkDown, socketVars
  <2>2. Writer!TypeOK'
    BY <1>1, <2>1 DEF Stuck, Writer!TypeOK, Writer!SocketTypeOK, writerVars
  <2> QED BY <1>1, <2>1, <2>2
          DEF Stuck, Writer!WireInOrder, Writer!NothingBeyondHorizon, writerVars
<1> QED BY <1>2, <1>3, <1>4 DEF Next

LEMMA NextStep == IInv /\ [Next]_vars => IInv'
<1> SUFFICES ASSUME IInv, [Next]_vars PROVE IInv'
  OBVIOUS
<1>1. RP!IInv'
  BY ReaderStep, RP!NextStep, ReaderAssumption DEF IInv
<1>2. OwnerCloses'
  BY WritingEffect, ReadingEffect
     DEF IInv, OwnerCloses, Next, Writing, SendThrows, LinkDown, vars, writerVars
<1>3. CASE stalled
  BY <1>1, <1>2, <1>3, StuckStep DEF IInv, WriteHalf
<1>4. CASE ~ stalled /\ SendThrows
  <2>1. stalled' = TRUE
    BY <1>4 DEF SendThrows
  <2> QED BY <1>1, <1>2, <1>4, <2>1, SendThrowsStep DEF IInv
<1>5. CASE ~ stalled /\ ~ SendThrows
  <2>1. stalled' = stalled
    BY <1>5 DEF Next, Writing, Reading, LinkDown, vars
  <2>2. WP!IInv'
    BY <1>5, WriterStep, WP!NextStep, ClientAssumption DEF IInv, WriteHalf
  <2> QED BY <1>1, <1>2, <1>5, <2>1, <2>2 DEF IInv, WriteHalf
<1> QED BY <1>3, <1>4, <1>5

(* The invariant holds in every reachable state, whatever the bounds are   *)
(* and whatever fails.                                                     *)
THEOREM ClientInvariant == Spec => []IInv
<1> QED BY InitIInv, NextStep, PTL DEF Spec

(* Every variable of the client stays in its type. *)
THEOREM ClientTypeOK == Spec => []TypeOK
<1>1. IInv => TypeOK
  BY SameReader, SameWriter DEF IInv, WriteHalf, Stuck, WP!IInv, RP!IInv, TypeOK
<1> QED BY <1>1, ClientInvariant, PTL

(* The last shared_ptr to the state block goes only when the socket is     *)
(* closed and the queue is empty, unless a Send has thrown behind its      *)
(* push: what ~SharedStateBlock does then has been done.                   *)
THEOREM ClientRelease == Spec => []ReleaseFindsClosed
<1>1. IInv => ReleaseFindsClosed
  <2>1. SUFFICES ASSUME IInv, Released, ~ stalled
                 PROVE  socket = "closed" /\ write_queue = <<>>
    BY DEF ReleaseFindsClosed
  <2>2. ~ owned /\ ops = {} /\ WP!IInv
    BY <2>1 DEF Released, IInv, WriteHalf
  <2>3. write_queue = <<>>
    BY <2>2 DEF WP!IInv, WP!OneWriteInFlight
  <2>4. closing
    BY <2>1, <2>2 DEF IInv, OwnerCloses
  <2> QED BY <2>2, <2>3, <2>4 DEF WP!IInv, WP!CloseState
<1> QED BY <1>1, ClientInvariant, PTL

(* The wire carries the parts of frames in the order of Send, none twice,  *)
(* also of a client whose writes fail or whose Sends throw.                *)
THEOREM ClientOrder == Spec => []WireInOrder
<1>1. IInv => WireInOrder
  BY SameWriter DEF IInv, WriteHalf, Stuck, WP!IInv, WireInOrder
<1> QED BY <1>1, ClientInvariant, PTL

(* Nothing follows the packet that was being written when CloseSocket was  *)
(* first called, also when that packet is one a Send threw behind.         *)
THEOREM ClientHorizon == Spec => []NothingBeyondHorizon
<1>1. IInv => NothingBeyondHorizon
  BY SameWriter DEF IInv, WriteHalf, Stuck, WP!IInv, NothingBeyondHorizon
<1> QED BY <1>1, ClientInvariant, PTL

(* In a client in use, whose socket the write half closes at any time, the *)
(* receive loop hands over the packets that arrive, once and in order, and *)
(* at most one after the socket is closed.                                 *)
THEOREM ClientReads == Spec => [](Reader!PacketsInOrder /\ Reader!OneLatePacket)
<1>1. IInv => Reader!PacketsInOrder /\ Reader!OneLatePacket
  BY SameReader DEF IInv, RP!IInv
<1> QED BY <1>1, ClientInvariant, PTL

(* Without a Send that throws and with errors that are final, the client   *)
(* with a receive loop still is, seen from the wire, the abstract stream.  *)
THEOREM ClientImplements ==
    ASSUME ~ AllocFails, ~ TransientErrors
    PROVE  Spec => WP!Stream!SafeSpec
<1>1. Init => WP!Init
  BY SameWriter DEF Init
<1>2. [Next]_vars => [WP!Next]_(WP!vars)
  BY WriterStep DEF SendThrows
<1>3. WP!Spec => WP!Stream!SafeSpec
  BY WP!WriterImplements, ClientAssumption
<1> QED BY <1>1, <1>2, <1>3, PTL DEF Spec, WP!Spec
=============================================================================
