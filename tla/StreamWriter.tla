---------------------------- MODULE StreamWriter ----------------------------
(***************************************************************************)
(* The write half of gspp::StreamClient: Send, CloseSocket, the destructor *)
(* and the chain of asynchronous writes that empties write_queue           *)
(* (SharedStateBlock::WriteAsync over bacs::async_write_sp).               *)
(*                                                                         *)
(* Send, CloseSocket and the last handler of a write each run under        *)
(* write_lock, so each is one action.  The handler between the two writes  *)
(* of a frame takes no lock and is an action of its own.  Packets are      *)
(* named by the order in which Send pushed them: 1, 2, 3, ...              *)
(***************************************************************************)
EXTENDS StreamSocket

CONSTANTS
    MaxSends,        \* bound: how many packets are ever sent
    TransientErrors  \* whether a write may fail on a connection that lives on

ASSUME WriterAssumption ==
    /\ MaxSends \in Nat
    /\ TransientErrors \in BOOLEAN

VARIABLES
    write_queue,  \* packets pushed and not yet popped
    shutdown,     \* close as soon as the write in flight is done
    owned,        \* the StreamClient object exists
    ops,          \* the asynchronous writes in flight
    wire,         \* what the transport has accepted: parts of frames
    sent,         \* history: number of packets pushed
    closing,      \* history: CloseSocket has been called
    horizon       \* history: the last packet queued when it was first called
                  \* that was either written or being written

writerVars == <<write_queue, shutdown, owned, ops, wire, sent, closing, horizon>>
vars == <<socketVars, writerVars>>

Packets == 1 .. MaxSends

(* async_write_sp in progress: which of its two writes is in flight. *)
Op == [part : Parts, pkt : Packets, status : Status]

(* intact is FALSE when the bytes were read from memory already released. *)
Token == [part : Parts, pkt : Packets, intact : BOOLEAN]

TypeOK ==
    /\ SocketTypeOK
    /\ write_queue \in Seq(Packets)
    /\ shutdown \in BOOLEAN
    /\ owned \in BOOLEAN
    /\ ops \in SUBSET Op
    /\ wire \in Seq(Token)
    /\ sent \in 0 .. MaxSends
    /\ closing \in BOOLEAN
    /\ horizon \in 0 .. MaxSends

Init ==
    /\ SocketInit
    /\ write_queue = <<>>
    /\ shutdown = FALSE
    /\ owned = TRUE
    /\ ops = {}
    /\ wire = <<>>
    /\ sent = 0
    /\ closing = FALSE
    /\ horizon = 0

-----------------------------------------------------------------------------

(* boost::asio::async_write of one part on a socket in state sock, started *)
(* when the operations in rest are in flight.  What the kernel takes       *)
(* inside the call is read while its buffer is owned.                      *)
AsyncWrite(part, p, sock, rest) ==
    \E s \in WriteStatus(sock) :
        /\ ops' = rest \cup {[part |-> part, pkt |-> p, status |-> s]}
        /\ wire' = IF s = "ok"
                   THEN Append(wire, [part |-> part, pkt |-> p, intact |-> TRUE])
                   ELSE wire

(* SharedStateBlock::WriteAsync: async_write_sp begins with the size. *)
WriteAsync(p, sock, rest) == AsyncWrite("size", p, sock, rest)

(* Send starts the chain of writes when the packet pushed is the only one. *)
StartsChain_Always(q) == TRUE
StartsChain(q) == Len(q) = 1

(* StreamClient::Send, by any thread that holds the client. *)
Send ==
    /\ owned
    /\ sent < MaxSends
    /\ sent' = sent + 1
    /\ write_queue' = Append(write_queue, sent + 1)
    /\ IF StartsChain(write_queue')
       THEN WriteAsync(Head(write_queue'), socket, ops)
       ELSE UNCHANGED <<ops, wire>>
    /\ UNCHANGED <<socketVars, shutdown, owned, closing, horizon>>

(* CloseSocket closes at once when nothing is queued.  What is queued is    *)
(* never empty while a write is in flight.                                 *)
ClosesAtOnce_Always == TRUE
ClosesAtOnce_Never == FALSE
ClosesAtOnce == write_queue = <<>>

(* StreamClient::CloseSocket; otherwise closing is left to the handler. *)
CloseSocket ==
    /\ IF ClosesAtOnce
       THEN socket' = "closed" /\ UNCHANGED shutdown
       ELSE shutdown' = TRUE /\ UNCHANGED socket
    /\ closing' = TRUE
    /\ horizon' = IF closing THEN horizon
                  ELSE IF write_queue = <<>> THEN sent ELSE Head(write_queue)
    /\ UNCHANGED <<link, write_queue, ops, wire, sent>>

Close == owned /\ CloseSocket /\ UNCHANGED owned

(* ~StreamClient calls CloseSocket; the state block lives on in handlers. *)
Destroy == owned /\ owned' = FALSE /\ CloseSocket

-----------------------------------------------------------------------------

(* The handler of the size write, on success: write the container. *)
SizeWritten(o) ==
    /\ o.part = "size"
    /\ o.status = "ok"
    /\ AsyncWrite("data", o.pkt, socket, ops \ {o})
    /\ UNCHANGED <<socketVars, write_queue, shutdown, owned, sent, closing, horizon>>

(* write_queue.pop(), which takes the packet whose write is done. *)
Popped_Back == SubSeq(write_queue, 1, Len(write_queue) - 1)
Popped == Tail(write_queue)

(* The handler closes the socket if CloseSocket left that to it, whatever  *)
(* is queued behind the packet just written.                               *)
SocketWhenDone_OnlyShutDown == IF shutdown THEN "shutdown_both" ELSE socket
SocketWhenDone_IfDrained ==
    IF shutdown /\ Len(write_queue) = 1 THEN "closed" ELSE socket
SocketWhenDone == IF shutdown THEN "closed" ELSE socket

(* The handler restarts the chain when packets are left. *)
ChainGoesOn_Never(q) == FALSE
ChainGoesOn(q) == q # <<>>

(* The handler WriteAsync passes on: after the data, or after any failure. *)
(* The error code is not looked at.                                        *)
WriteDone(o) ==
    /\ o.status = "failed" \/ (o.part = "data" /\ o.status = "ok")
    /\ write_queue' = Popped
    /\ socket' = SocketWhenDone
    /\ IF ChainGoesOn(write_queue')
       THEN WriteAsync(Head(write_queue'), socket', ops \ {o})
       ELSE ops' = ops \ {o} /\ UNCHANGED wire
    /\ UNCHANGED <<link, shutdown, owned, sent, closing, horizon>>

-----------------------------------------------------------------------------

SetStatus(o, s) == ops' = (ops \ {o}) \cup {[o EXCEPT !.status = s]}

(* The kernel takes the rest of a buffer after the call that started the   *)
(* write has returned.  By then neither the size (pSize) nor the container *)
(* (pContainer) has an owner: what is sent is what the memory holds.       *)
Transmit(o) ==
    /\ o.status = "pending"
    /\ Usable(socket)
    /\ SetStatus(o, "ok")
    /\ \E intact \in BOOLEAN :
        wire' = Append(wire, [part |-> o.part, pkt |-> o.pkt, intact |-> intact])
    /\ UNCHANGED <<socketVars, write_queue, shutdown, owned, sent, closing, horizon>>

(* A pending write is aborted by close(), or the connection fails it. *)
WriteFails(o) ==
    /\ o.status = "pending"
    /\ ~ Usable(socket) \/ TransientErrors
    /\ SetStatus(o, "failed")
    /\ UNCHANGED <<socketVars, write_queue, shutdown, owned, wire, sent, closing, horizon>>

LinkDown ==
    /\ link = "up"
    /\ link' = "down"
    /\ UNCHANGED <<socket, writerVars>>

-----------------------------------------------------------------------------

User == Send \/ Close \/ Destroy

Handlers == \E o \in ops : SizeWritten(o) \/ WriteDone(o)

Kernel == \E o \in ops : Transmit(o) \/ WriteFails(o)

Next == User \/ Handlers \/ Kernel \/ LinkDown

Spec == Init /\ [][Next]_vars

(* Threads run the io_context, so a posted handler is run; a write that    *)
(* stays pending is one whose peer keeps the connection and never reads,   *)
(* which is excluded.  Nothing is assumed of the users.                    *)
FairSpec == Spec /\ WF_vars(Handlers) /\ WF_vars(Kernel)
-----------------------------------------------------------------------------
(***************************************************************************)
(* Properties                                                              *)
(***************************************************************************)

(* A write is in flight exactly while write_queue is not empty, it is the  *)
(* only one, and it is the write of the front packet.  The code restarts   *)
(* the chain in two places (Send when it pushed the only packet, the last  *)
(* handler when packets are left), under the lock but far apart.           *)
OneWriteInFlight ==
    /\ ops = {} <=> write_queue = <<>>
    /\ \A o \in ops : o.pkt = Head(write_queue)
    /\ \A o1, o2 \in ops : o1 = o2

(* Whatever fails, the parts on the wire are in the order of Send, the     *)
(* size of a packet before its data, and nothing is written twice.         *)
WireInOrder ==
    \A i, j \in 1 .. Len(wire) : i < j => Slot(wire[i]) < Slot(wire[j])

(* When errors are final, no packet is left out either: what is on the     *)
(* wire is a prefix of the frames of packets 1, 2, 3, ...                  *)
WireIsPrefix ==
    ~ TransientErrors => \A i \in 1 .. Len(wire) : Slot(wire[i]) = i

(* A requested close is never forgotten: the socket is closed, or a write  *)
(* is in flight whose handler is going to close it.                        *)
CloseIsArmed ==
    closing => socket = "closed" \/ (shutdown /\ ops # {})

(* Close never cuts a frame: no write is pending on a closed socket, so    *)
(* close() has no write to abort.                                          *)
CloseCutsNoWrite ==
    socket = "closed" => \A o \in ops : o.status = "failed"

(* No packet behind the one that was being written when CloseSocket was    *)
(* first called ever reaches the wire, those queued before it included.    *)
NothingBeyondHorizon ==
    closing => \A i \in 1 .. Len(wire) : wire[i].pkt <= horizon

(* A close on a connection that did not break leaves whole frames on the   *)
(* wire, up to the one that was being written: the deferred close of       *)
(* CloseSocket is a flush of exactly that packet.                          *)
GracefulClose ==
    (socket = "closed" /\ link = "up" /\ ~ TransientErrors)
        => Len(wire) = 2 * horizon

(* What the receiver is meant to find: no part was read from memory that   *)
(* had been released.                                                      *)
FramesIntact == \A i \in 1 .. Len(wire) : wire[i].intact

(* The writer implements the abstract frame stream. *)
Stream == INSTANCE FrameStream WITH
    accepted <- sent,
    stream <- [i \in 1 .. Len(wire) |-> [part |-> wire[i].part, pkt |-> wire[i].pkt]],
    state <- IF socket = "closed" THEN "closed"
             ELSE IF link = "down" THEN "broken" ELSE "live"

ImplementsFrameStream == Stream!Spec
=============================================================================
