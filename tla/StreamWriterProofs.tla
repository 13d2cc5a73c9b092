------------------------- MODULE StreamWriterProofs -------------------------
(***************************************************************************)
(* Proofs about StreamWriter, for every MaxSends and with or without       *)
(* errors that a connection survives.  The safety properties follow from   *)
(* one inductive invariant, which says what the queue holds, how far the   *)
(* write in flight has brought the wire, and what a close has to wait for. *)
(***************************************************************************)
EXTENDS StreamWriter, TLAPS

(* The queue holds the last packets sent, in order. *)
QueueIsTail ==
    /\ Len(write_queue) <= sent
    /\ \A i \in 1 .. Len(write_queue) : write_queue[i] = sent - Len(write_queue) + i

(* The slot up to which the wire may be filled when o is in flight. *)
Filled(o) == IF o.status = "ok" THEN Slot(o) ELSE Slot(o) - 1

WireBounded ==
    /\ ops = {} => \A i \in 1 .. Len(wire) : Slot(wire[i]) <= 2 * sent
    /\ \A o \in ops : \A i \in 1 .. Len(wire) : Slot(wire[i]) <= Filled(o)

(* With final errors a usable connection has taken all it was given. *)
WireFilled ==
    (~ TransientErrors /\ Usable(socket)) =>
        /\ ops = {} => Len(wire) = 2 * sent
        /\ \A o \in ops : o.status # "failed" /\ Len(wire) = Filled(o)

(* What is left to do after CloseSocket, and who asked for it. *)
CloseState ==
    /\ closing => socket = "closed"
                  \/ (shutdown /\ write_queue # <<>> /\ Head(write_queue) = horizon)
    /\ socket = "closed" \/ shutdown => closing

IInv ==
    /\ TypeOK
    /\ QueueIsTail
    /\ OneWriteInFlight
    /\ WireInOrder
    /\ WireBounded
    /\ WireIsPrefix
    /\ WireFilled
    /\ CloseState
    /\ CloseCutsNoWrite
    /\ NothingBeyondHorizon
    /\ GracefulClose

-----------------------------------------------------------------------------

(* What Append adds to the wire, and that it leaves the rest alone. *)
LEMMA AppendToken ==
    ASSUME NEW w \in Seq(Token), NEW t \in Token
    PROVE  /\ Append(w, t) \in Seq(Token)
           /\ Len(Append(w, t)) = Len(w) + 1
           /\ \A i \in 1 .. Len(w) : Append(w, t)[i] = w[i]
           /\ Append(w, t)[Len(w) + 1] = t
OBVIOUS

LEMMA SlotType ==
    ASSUME NEW t, t.pkt \in Packets
    PROVE  Slot(t) \in Int /\ 2 * t.pkt - 1 <= Slot(t) /\ Slot(t) <= 2 * t.pkt
<1>1. t.pkt \in Int
  BY WriterAssumption DEF Packets
<1> QED BY <1>1 DEF Slot

(* A token whose slot lies behind the whole wire may be appended. *)
LEMMA OrderedAppend ==
    ASSUME TypeOK, WireInOrder, NEW t \in Token,
           \A i \in 1 .. Len(wire) : Slot(wire[i]) < Slot(t),
           wire' = Append(wire, t)
    PROVE  /\ wire' \in Seq(Token)
           /\ WireInOrder'
           /\ \A i \in 1 .. Len(wire') : Slot(wire'[i]) <= Slot(t)
           /\ \A i \in 1 .. Len(wire') : wire'[i].pkt = t.pkt
                                          \/ (i \in 1 .. Len(wire) /\ wire'[i] = wire[i])
<1>1. wire \in Seq(Token) /\ Len(wire) \in Nat
  BY DEF TypeOK
<1>2. /\ wire' \in Seq(Token)
      /\ Len(wire') = Len(wire) + 1
      /\ \A i \in 1 .. Len(wire) : wire'[i] = wire[i]
      /\ wire'[Len(wire) + 1] = t
  BY <1>1, AppendToken
<1>3. \A i \in 1 .. Len(wire') : i \in 1 .. Len(wire) \/ i = Len(wire) + 1
  BY <1>1, <1>2
<1>4. Slot(t) \in Int /\ \A i \in 1 .. Len(wire) : Slot(wire[i]) \in Int
  <2>1. \A i \in 1 .. Len(wire) : wire[i] \in Token
    BY <1>1
  <2>2. \A u \in Token : u.pkt \in Packets
    BY DEF Token
  <2> QED BY <2>1, <2>2, SlotType
<1>5. \A i \in 1 .. Len(wire) : Slot(wire'[i]) = Slot(wire[i])
  BY <1>2
<1>6. Slot(wire'[Len(wire) + 1]) = Slot(t)
  BY <1>2
<1>7. \A i \in 1 .. Len(wire') : Slot(wire'[i]) <= Slot(t)
  BY <1>1, <1>3, <1>4, <1>5, <1>6
<1>8. ASSUME NEW i \in 1 .. Len(wire'), NEW j \in 1 .. Len(wire'), i < j
      PROVE  Slot(wire'[i]) < Slot(wire'[j])
  <2>1. i \in 1 .. Len(wire)
    BY <1>1, <1>2, <1>8
  <2>2. CASE j \in 1 .. Len(wire)
    BY <2>1, <2>2, <1>5, <1>8 DEF WireInOrder
  <2>3. CASE j = Len(wire) + 1
    BY <2>1, <2>3, <1>5, <1>6
  <2> QED BY <2>2, <2>3, <1>3
<1>9. WireInOrder'
  BY <1>8 DEF WireInOrder
<1> QED BY <1>2, <1>3, <1>7, <1>9

(* What a write that starts when none is in flight does to the wire.  Its  *)
(* slot lies behind the wire, and right behind it when nothing was lost.   *)
LEMMA WriteStarts ==
    ASSUME TypeOK, WireInOrder, WireIsPrefix,
           NEW part \in Parts, NEW p \in Packets, NEW sock,
           AsyncWrite(part, p, sock, {}),
           NEW slot \in Int, slot = IF part = "size" THEN 2 * p - 1 ELSE 2 * p,
           \A i \in 1 .. Len(wire) : Slot(wire[i]) < slot,
           ~ TransientErrors /\ Usable(sock) => Len(wire) = slot - 1
    PROVE  /\ \E s \in WriteStatus(sock) :
                  ops' = {[part |-> part, pkt |-> p, status |-> s]}
           /\ ops' \in SUBSET Op
           /\ wire' \in Seq(Token)
           /\ WireInOrder'
           /\ WireIsPrefix'
           /\ \A o \in ops' : \A i \in 1 .. Len(wire') : Slot(wire'[i]) <= Filled(o)
           /\ ~ TransientErrors /\ Usable(sock) =>
                  \A o \in ops' : o.status # "failed" /\ Len(wire') = Filled(o)
           /\ ~ Usable(sock) => wire' = wire /\ \A o \in ops' : o.status = "failed"
           /\ \A i \in 1 .. Len(wire') : wire'[i].pkt = p
                                          \/ (i \in 1 .. Len(wire) /\ wire'[i] = wire[i])
<1> DEFINE op(s) == [part |-> part, pkt |-> p, status |-> s]
           t == [part |-> part, pkt |-> p, intact |-> TRUE]
<1>1. PICK s \in WriteStatus(sock) :
          /\ ops' = {} \cup {op(s)}
          /\ wire' = IF s = "ok" THEN Append(wire, t) ELSE wire
  BY DEF AsyncWrite
<1>2. s \in Status /\ (Usable(sock) => s # "failed") /\ (~ Usable(sock) => s = "failed")
  BY DEF WriteStatus, Status
<1>3. ops' = {op(s)} /\ op(s) \in Op /\ op(s).status = s
  BY <1>1, <1>2 DEF Op
<1>4. t \in Token /\ t.pkt = p /\ Slot(t) = slot /\ Slot(op(s)) = slot
  BY DEF Token, Slot
<1>5. wire \in Seq(Token) /\ Len(wire) \in Nat
  BY DEF TypeOK
<1>6. \A i \in 1 .. Len(wire) : Slot(wire[i]) \in Int
  <2>1. \A u \in Token : u.pkt \in Packets
    BY DEF Token
  <2> QED BY <1>5, <2>1, SlotType
<1> HIDE DEF t, op
<1>7. CASE s = "ok"
  <2>1. Usable(sock)
    BY <1>2, <1>7
  <2>2. wire' = Append(wire, t)
    BY <1>1, <1>7
  <2>3. /\ wire' \in Seq(Token)
        /\ WireInOrder'
        /\ \A i \in 1 .. Len(wire') : Slot(wire'[i]) <= Slot(t)
        /\ \A i \in 1 .. Len(wire') : wire'[i].pkt = t.pkt
                                       \/ (i \in 1 .. Len(wire) /\ wire'[i] = wire[i])
    BY <1>4, <2>2, OrderedAppend
  <2>4. \A o \in ops' : Filled(o) = slot
    BY <1>3, <1>4, <1>7 DEF Filled
  <2>5. Len(wire') = Len(wire) + 1
    BY <2>2, <1>4, <1>5, AppendToken
  <2>6. WireIsPrefix'
    <3>1. SUFFICES ASSUME ~ TransientErrors, NEW i \in 1 .. Len(wire')
                   PROVE  Slot(wire'[i]) = i
      BY DEF WireIsPrefix
    <3>2. CASE i \in 1 .. Len(wire)
      BY <3>1, <3>2, <2>2, <1>4, <1>5, AppendToken DEF WireIsPrefix
    <3>3. CASE i = Len(wire) + 1
      BY <3>1, <3>3, <2>1, <2>2, <1>4, <1>5, AppendToken
    <3> QED BY <3>2, <3>3, <2>5, <1>5
  <2>7. ~ TransientErrors => Len(wire') = slot
    BY <2>1, <2>5, <1>5
  <2> QED BY <1>1, <1>3, <1>4, <1>7, <2>1, <2>3, <2>4, <2>6, <2>7 DEF op
<1>8. CASE s # "ok"
  <2>1. wire' = wire
    BY <1>1, <1>8
  <2>2. WireInOrder' /\ WireIsPrefix' /\ wire' \in Seq(Token)
    BY <2>1, <1>5 DEF WireInOrder, WireIsPrefix
  <2>3. \A o \in ops' : Filled(o) = slot - 1
    BY <1>3, <1>4, <1>8 DEF Filled
  <2>4. \A o \in ops' : \A i \in 1 .. Len(wire') : Slot(wire'[i]) <= Filled(o)
    BY <2>1, <2>3, <1>6
  <2>5. \A o \in ops' : o.status = s
    BY <1>3
  <2> QED BY <1>1, <1>2, <1>3, <2>1, <2>2, <2>3, <2>4, <2>5 DEF op
<1> QED BY <1>7, <1>8

-----------------------------------------------------------------------------

(* What push and pop do to the queue. *)
LEMMA Push ==
    ASSUME NEW q \in Seq(Packets), NEW p \in Packets
    PROVE  /\ Append(q, p) \in Seq(Packets)
           /\ Len(Append(q, p)) = Len(q) + 1
           /\ Append(q, p) # <<>>
           /\ \A i \in 1 .. Len(q) : Append(q, p)[i] = q[i]
           /\ Append(q, p)[Len(q) + 1] = p
           /\ Head(Append(q, p)) = IF q = <<>> THEN p ELSE Head(q)
OBVIOUS

LEMMA Pop ==
    ASSUME NEW q \in Seq(Packets), q # <<>>
    PROVE  /\ Tail(q) \in Seq(Packets)
           /\ Len(q) \in Nat \ {0}
           /\ Len(Tail(q)) = Len(q) - 1
           /\ \A i \in 1 .. Len(q) - 1 : Tail(q)[i] = q[i + 1]
           /\ Head(q) = q[1]
           /\ Head(q) \in Packets
           /\ Tail(q) # <<>> => Len(q) >= 2 /\ Head(Tail(q)) = q[2]
           /\ Tail(q) = <<>> => Len(q) = 1
<1>1. Len(q) \in Nat \ {0}
  OBVIOUS
<1>2. /\ Tail(q) \in Seq(Packets)
      /\ Len(Tail(q)) = Len(q) - 1
      /\ \A i \in 1 .. Len(q) - 1 : Tail(q)[i] = q[i + 1]
  BY <1>1
<1>3. Head(q) = q[1] /\ Head(q) \in Packets
  BY <1>1
<1>4. Tail(q) = <<>> => Len(q) = 1
  BY <1>1, <1>2
<1>5. ASSUME Tail(q) # <<>>
      PROVE  Len(q) >= 2 /\ Head(Tail(q)) = q[2]
  <2>1. Len(Tail(q)) >= 1 /\ Head(Tail(q)) = Tail(q)[1]
    BY <1>2, <1>5
  <2> QED BY <1>1, <1>2, <2>1
<1> QED BY <1>1, <1>2, <1>3, <1>4, <1>5

(* Every part on the wire belongs to a packet that was sent. *)
LEMMA WireTypes ==
    ASSUME TypeOK
    PROVE  /\ wire \in Seq(Token)
           /\ Len(wire) \in Nat
           /\ \A i \in 1 .. Len(wire) :
                  /\ wire[i].pkt \in Packets
                  /\ Slot(wire[i]) \in Int
                  /\ 2 * wire[i].pkt - 1 <= Slot(wire[i])
<1>1. wire \in Seq(Token) /\ Len(wire) \in Nat
  BY DEF TypeOK
<1>2. \A u \in Token : u.pkt \in Packets
  BY DEF Token
<1>3. \A i \in 1 .. Len(wire) : wire[i].pkt \in Packets
  BY <1>1, <1>2
<1> QED BY <1>1, <1>3, SlotType

LEMMA InitIInv == Init => IInv
<1> SUFFICES ASSUME Init PROVE IInv
  OBVIOUS
<1>1. TypeOK
  <2>1. SocketTypeOK
    BY DEF Init, SocketInit, SocketTypeOK
  <2>2. write_queue \in Seq(Packets) /\ wire \in Seq(Token)
    BY DEF Init
  <2>3. sent \in 0 .. MaxSends /\ horizon \in 0 .. MaxSends
    BY WriterAssumption DEF Init
  <2> QED BY <2>1, <2>2, <2>3 DEF Init, TypeOK
<1>2. QueueIsTail /\ OneWriteInFlight /\ WireInOrder /\ WireBounded
  BY DEF Init, QueueIsTail, OneWriteInFlight, WireInOrder, WireBounded
<1>3. WireIsPrefix /\ WireFilled
  BY DEF Init, WireIsPrefix, WireFilled
<1>4. CloseState /\ CloseCutsNoWrite /\ NothingBeyondHorizon /\ GracefulClose
  BY DEF Init, SocketInit, CloseState, CloseCutsNoWrite, NothingBeyondHorizon, GracefulClose
<1> QED BY <1>1, <1>2, <1>3, <1>4 DEF IInv

(* Send on an empty queue starts a write; behind others it only queues. *)
LEMMA SendStep == IInv /\ Send => IInv'
<1> SUFFICES ASSUME IInv, Send PROVE IInv'
  OBVIOUS
<1> USE DEF IInv
<1>1. sent \in Nat /\ sent + 1 \in Packets /\ write_queue \in Seq(Packets)
  BY WriterAssumption DEF Send, TypeOK, Packets
<1>2. /\ sent' = sent + 1
      /\ write_queue' = Append(write_queue, sent + 1)
      /\ UNCHANGED <<socket, link, shutdown, owned, closing, horizon>>
  BY DEF Send, socketVars
<1>3. /\ write_queue' \in Seq(Packets)
      /\ Len(write_queue') = Len(write_queue) + 1
      /\ write_queue' # <<>>
      /\ Head(write_queue') = IF write_queue = <<>> THEN sent + 1 ELSE Head(write_queue)
      /\ \A i \in 1 .. Len(write_queue) : write_queue'[i] = write_queue[i]
      /\ write_queue'[Len(write_queue) + 1] = sent + 1
  BY <1>1, <1>2, Push
<1>4. Len(write_queue) \in Nat /\ (write_queue = <<>> <=> Len(write_queue) = 0)
  BY <1>1
<1>5. sent' \in 0 .. MaxSends
  BY <1>1, <1>2 DEF Packets
<1>6. QueueIsTail'
  <2>1. Len(write_queue') <= sent'
    BY <1>1, <1>2, <1>3, <1>4 DEF QueueIsTail
  <2>2. ASSUME NEW i \in 1 .. Len(write_queue')
        PROVE  write_queue'[i] = sent' - Len(write_queue') + i
    <3>1. i \in 1 .. Len(write_queue) \/ i = Len(write_queue) + 1
      BY <1>3, <1>4
    <3>2. CASE i \in 1 .. Len(write_queue)
      <4>1. write_queue'[i] = sent - Len(write_queue) + i
        BY <1>3, <3>2 DEF QueueIsTail
      <4> QED BY <4>1, <1>1, <1>2, <1>3, <1>4, <3>2
    <3>3. CASE i = Len(write_queue) + 1
      BY <1>1, <1>2, <1>3, <1>4, <3>3
    <3> QED BY <3>1, <3>2, <3>3
  <2> QED BY <2>1, <2>2 DEF QueueIsTail
<1>7. CASE write_queue = <<>>
  <2>1. ops = {} /\ Head(write_queue') = sent + 1
    BY <1>3, <1>7 DEF OneWriteInFlight
  <2>2. AsyncWrite("size", sent + 1, socket, {})
    BY <1>3, <1>4, <1>7, <2>1 DEF Send, StartsChain, WriteAsync
  <2>3. \A i \in 1 .. Len(wire) : Slot(wire[i]) < 2 * (sent + 1) - 1
    BY <1>1, <2>1, WireTypes DEF WireBounded
  <2>4. ~ TransientErrors /\ Usable(socket) => Len(wire) = 2 * (sent + 1) - 1 - 1
    BY <1>1, <2>1 DEF WireFilled
  <2> DEFINE slot == 2 * (sent + 1) - 1
  <2>5. "size" \in Parts /\ slot \in Int
        /\ slot = IF "size" = "size" THEN 2 * (sent + 1) - 1 ELSE 2 * (sent + 1)
    BY <1>1 DEF Parts
  <2>6. /\ \E s \in WriteStatus(socket) :
               ops' = {[part |-> "size", pkt |-> sent + 1, status |-> s]}
        /\ ops' \in SUBSET Op
        /\ wire' \in Seq(Token)
        /\ WireInOrder'
        /\ WireIsPrefix'
        /\ \A o \in ops' : \A i \in 1 .. Len(wire') : Slot(wire'[i]) <= Filled(o)
        /\ ~ TransientErrors /\ Usable(socket) =>
               \A o \in ops' : o.status # "failed" /\ Len(wire') = Filled(o)
        /\ ~ Usable(socket) => wire' = wire /\ \A o \in ops' : o.status = "failed"
    <3> HIDE DEF slot
    <3>1. /\ \A i \in 1 .. Len(wire) : Slot(wire[i]) < slot
          /\ ~ TransientErrors /\ Usable(socket) => Len(wire) = slot - 1
      BY <2>3, <2>4 DEF slot
    <3> QED BY <1>1, <2>2, <2>5, <3>1, WriteStarts
  <2>7. ops' # {} /\ OneWriteInFlight'
    BY <2>1, <2>6, <1>3 DEF OneWriteInFlight
  <2>8. TypeOK'
    BY <1>2, <1>3, <1>5, <2>6 DEF TypeOK, SocketTypeOK
  <2>9. WireBounded'
    BY <2>6, <2>7 DEF WireBounded, Filled
  <2>10. Usable(socket)' = Usable(socket)
    BY <1>2 DEF Usable
  <2>11. WireFilled'
    BY <2>6, <2>7, <2>10 DEF WireFilled, Filled
  <2>12. closing => socket = "closed"
    BY <1>7 DEF CloseState
  <2>13. CloseState'
    BY <1>2, <2>12 DEF CloseState
  <2>14. socket = "closed" => ~ Usable(socket)
    BY DEF Usable
  <2>15. CloseCutsNoWrite'
    BY <1>2, <2>6, <2>14 DEF CloseCutsNoWrite
  <2>16. NothingBeyondHorizon'
    BY <1>2, <2>6, <2>12, <2>14 DEF NothingBeyondHorizon
  <2>17. GracefulClose'
    BY <1>2, <2>6, <2>14 DEF GracefulClose
  <2> QED BY <1>6, <2>6, <2>7, <2>8, <2>9, <2>11, <2>13, <2>15, <2>16, <2>17
<1>8. CASE write_queue # <<>>
  <2>1. UNCHANGED <<ops, wire>>
    BY <1>3, <1>4, <1>8 DEF Send, StartsChain
  <2>2. Head(write_queue') = Head(write_queue) /\ ops # {}
    BY <1>3, <1>8 DEF OneWriteInFlight
  <2>3. TypeOK'
    BY <1>2, <1>3, <1>5, <2>1 DEF TypeOK, SocketTypeOK
  <2>4. OneWriteInFlight'
    BY <1>3, <1>8, <2>1, <2>2 DEF OneWriteInFlight
  <2>5. WireInOrder' /\ WireIsPrefix'
    BY <2>1 DEF WireInOrder, WireIsPrefix
  <2>6. WireBounded'
    BY <2>1, <2>2 DEF WireBounded
  <2>7. WireFilled'
    BY <1>2, <2>1, <2>2 DEF WireFilled, Usable
  <2>8. CloseState'
    BY <1>2, <1>3, <2>2 DEF CloseState
  <2>9. CloseCutsNoWrite' /\ NothingBeyondHorizon' /\ GracefulClose'
    BY <1>2, <2>1 DEF CloseCutsNoWrite, NothingBeyondHorizon, GracefulClose
  <2> QED BY <1>6, <2>3, <2>4, <2>5, <2>6, <2>7, <2>8, <2>9
<1> QED BY <1>7, <1>8

(* CloseSocket, by Close or by the destructor. *)
LEMMA CloseSocketStep ==
    ASSUME IInv, CloseSocket, owned' \in BOOLEAN
    PROVE  IInv'
<1> USE DEF IInv
<1>1. /\ UNCHANGED <<link, write_queue, ops, wire, sent>>
      /\ closing' = TRUE
      /\ closing => horizon' = horizon
      /\ ~ closing => horizon' = IF write_queue = <<>> THEN sent ELSE Head(write_queue)
  BY DEF CloseSocket
<1>2. sent \in Nat /\ sent \in 0 .. MaxSends /\ write_queue \in Seq(Packets)
      /\ closing \in BOOLEAN /\ socket \in {"open", "closed"}
  BY WriterAssumption DEF TypeOK, SocketTypeOK
<1>3. write_queue # <<>> => Head(write_queue) \in Packets
  BY <1>2, Pop
<1>4. horizon' \in 0 .. MaxSends
  BY <1>1, <1>2, <1>3, WriterAssumption DEF TypeOK, Packets
<1>5. QueueIsTail' /\ OneWriteInFlight' /\ WireInOrder' /\ WireBounded' /\ WireIsPrefix'
  BY <1>1 DEF QueueIsTail, OneWriteInFlight, WireInOrder, WireBounded, WireIsPrefix
<1>6. CASE write_queue = <<>>
  <2>1. socket' = "closed" /\ shutdown' = shutdown /\ ops = {}
    BY <1>6 DEF CloseSocket, ClosesAtOnce, OneWriteInFlight
  <2>2. TypeOK'
    BY <1>1, <1>4, <2>1 DEF TypeOK, SocketTypeOK
  <2>3. WireFilled' /\ CloseState' /\ CloseCutsNoWrite'
    BY <1>1, <2>1 DEF WireFilled, Usable, CloseState, CloseCutsNoWrite
  <2>4. NothingBeyondHorizon'
    <3>1. CASE closing
      BY <1>1, <3>1 DEF NothingBeyondHorizon
    <3>2. CASE ~ closing
      BY <1>1, <1>2, <1>6, <2>1, <3>2, WireTypes
      DEF NothingBeyondHorizon, WireBounded, Packets
    <3> QED BY <3>1, <3>2
  <2>5. GracefulClose'
    <3>1. CASE closing
      BY <1>1, <1>6, <3>1 DEF GracefulClose, CloseState
    <3>2. CASE ~ closing
      BY <1>1, <1>2, <1>6, <2>1, <3>2 DEF GracefulClose, CloseState, WireFilled, Usable
    <3> QED BY <3>1, <3>2
  <2> QED BY <1>5, <2>2, <2>3, <2>4, <2>5
<1>7. CASE write_queue # <<>>
  <2>1. shutdown' = TRUE /\ socket' = socket
    BY <1>7 DEF CloseSocket, ClosesAtOnce
  <2>2. TypeOK'
    BY <1>1, <1>4, <2>1 DEF TypeOK, SocketTypeOK
  <2>3. WireFilled' /\ CloseCutsNoWrite'
    BY <1>1, <2>1 DEF WireFilled, Usable, CloseCutsNoWrite
  <2>4. CloseState'
    BY <1>1, <1>7, <2>1 DEF CloseState
  <2>5. NothingBeyondHorizon'
    <3>1. CASE closing
      BY <1>1, <3>1 DEF NothingBeyondHorizon
    <3>2. CASE ~ closing
      <4>1. PICK o \in ops : o.pkt = Head(write_queue)
        BY <1>7 DEF OneWriteInFlight
      <4>2. Filled(o) <= 2 * Head(write_queue)
        BY <1>3, <1>7, <4>1 DEF Filled, Slot, Packets
      <4>3. Filled(o) \in Int /\ Head(write_queue) \in Int
        BY <1>3, <1>7, <4>1, SlotType DEF Filled, Packets
      <4>4. ASSUME NEW i \in 1 .. Len(wire)
            PROVE  wire[i].pkt <= Head(write_queue)
        <5>1. Slot(wire[i]) <= Filled(o)
          BY <4>1 DEF WireBounded
        <5>2. /\ wire[i].pkt \in Int /\ Slot(wire[i]) \in Int
              /\ 2 * wire[i].pkt - 1 <= Slot(wire[i])
          BY WireTypes DEF Packets
        <5> QED BY <4>2, <4>3, <5>1, <5>2
      <4> QED BY <1>1, <1>7, <3>2, <4>4 DEF NothingBeyondHorizon
    <3> QED BY <3>1, <3>2
  <2>6. GracefulClose'
    BY <1>1, <2>1 DEF GracefulClose, CloseState
  <2> QED BY <1>5, <2>2, <2>3, <2>4, <2>5, <2>6
<1> QED BY <1>6, <1>7

-----------------------------------------------------------------------------

(* A write in flight is alone, and it is the write of the front packet. *)
LEMMA OnlyWrite ==
    ASSUME IInv, NEW o \in ops
    PROVE  /\ ops = {o} /\ ops \ {o} = {}
           /\ write_queue # <<>>
           /\ o \in Op /\ o.part \in Parts /\ o.status \in Status
           /\ o.pkt = Head(write_queue) /\ o.pkt \in Packets /\ o.pkt \in Nat
           /\ Slot(o) \in Int /\ Filled(o) \in Int /\ Filled(o) <= 2 * o.pkt
<1>1. ops = {o} /\ write_queue # <<>> /\ o.pkt = Head(write_queue)
  BY DEF IInv, OneWriteInFlight
<1>2. o \in Op
  BY DEF IInv, TypeOK
<1>3. o.part \in Parts /\ o.status \in Status /\ o.pkt \in Packets
  BY <1>2 DEF Op
<1>4. o.pkt \in Nat
  BY <1>3, WriterAssumption DEF Packets
<1>5. Slot(o) \in Int /\ Slot(o) <= 2 * o.pkt
  BY <1>3, SlotType
<1>6. Filled(o) \in Int /\ Filled(o) <= 2 * o.pkt
  BY <1>4, <1>5 DEF Filled
<1> QED BY <1>1, <1>2, <1>3, <1>4, <1>5, <1>6

(* The data of the front packet follows its size. *)
LEMMA SizeWrittenStep ==
    ASSUME IInv, NEW o \in ops, SizeWritten(o)
    PROVE  IInv'
<1> USE DEF IInv
<1>1. /\ o.part = "size" /\ o.status = "ok"
      /\ UNCHANGED <<socket, link, write_queue, shutdown, owned, sent, closing, horizon>>
  BY DEF SizeWritten, socketVars
<1>2. ops = {o} /\ o.pkt \in Packets /\ o.pkt \in Nat /\ o.pkt = Head(write_queue)
      /\ write_queue # <<>>
  BY OnlyWrite
<1>3. AsyncWrite("data", o.pkt, socket, {})
  BY OnlyWrite DEF SizeWritten
<1>4. Filled(o) = 2 * o.pkt - 1
  BY <1>1, <1>2 DEF Filled, Slot
<1>5. socket # "closed"
  BY <1>1 DEF CloseCutsNoWrite
<1> DEFINE slot == 2 * o.pkt
<1>6. /\ slot \in Int
      /\ slot = IF "data" = "size" THEN 2 * o.pkt - 1 ELSE 2 * o.pkt
      /\ \A i \in 1 .. Len(wire) : Slot(wire[i]) < slot
      /\ ~ TransientErrors /\ Usable(socket) => Len(wire) = slot - 1
  BY <1>2, <1>4, WireTypes DEF WireBounded, WireFilled
<1>7. /\ \E s \in WriteStatus(socket) :
             ops' = {[part |-> "data", pkt |-> o.pkt, status |-> s]}
      /\ ops' \in SUBSET Op
      /\ wire' \in Seq(Token)
      /\ WireInOrder'
      /\ WireIsPrefix'
      /\ \A u \in ops' : \A i \in 1 .. Len(wire') : Slot(wire'[i]) <= Filled(u)
      /\ ~ TransientErrors /\ Usable(socket) =>
             \A u \in ops' : u.status # "failed" /\ Len(wire') = Filled(u)
      /\ \A i \in 1 .. Len(wire') : wire'[i].pkt = o.pkt
                                     \/ (i \in 1 .. Len(wire) /\ wire'[i] = wire[i])
  <2> HIDE DEF slot
  <2>1. "data" \in Parts
    BY DEF Parts
  <2> QED BY <1>2, <1>3, <1>6, <2>1, WriteStarts
<1>8. TypeOK'
  BY <1>1, <1>7 DEF TypeOK, SocketTypeOK
<1>9. OneWriteInFlight' /\ ops' # {}
  BY <1>1, <1>2, <1>7 DEF OneWriteInFlight
<1>10. WireBounded' /\ WireFilled'
  BY <1>1, <1>7, <1>9 DEF WireBounded, WireFilled, Usable, Filled
<1>11. QueueIsTail' /\ CloseState'
  BY <1>1 DEF QueueIsTail, CloseState
<1>12. CloseCutsNoWrite' /\ GracefulClose'
  BY <1>1, <1>5 DEF CloseCutsNoWrite, GracefulClose
<1>13. NothingBeyondHorizon'
  <2>1. closing => o.pkt = horizon
    BY <1>2, <1>5 DEF CloseState
  <2>2. closing => \A i \in 1 .. Len(wire') : wire'[i].pkt <= horizon
    BY <1>2, <1>7, <2>1 DEF NothingBeyondHorizon
  <2> QED BY <1>1, <2>2 DEF NothingBeyondHorizon
<1> QED BY <1>7, <1>8, <1>9, <1>10, <1>11, <1>12, <1>13

(* The front packet is popped; its successor is written or, after a        *)
(* deferred close, fails on the closed socket.                             *)
LEMMA WriteDoneStep ==
    ASSUME IInv, NEW o \in ops, WriteDone(o)
    PROVE  IInv'
<1> USE DEF IInv
<1>1. /\ o.status = "failed" \/ (o.part = "data" /\ o.status = "ok")
      /\ write_queue' = Tail(write_queue)
      /\ socket' = IF shutdown THEN "closed" ELSE socket
      /\ UNCHANGED <<link, shutdown, owned, sent, closing, horizon>>
  BY DEF WriteDone, Popped, SocketWhenDone
<1>2. /\ ops = {o} /\ ops \ {o} = {}
      /\ o.pkt \in Packets /\ o.pkt \in Nat /\ o.pkt = Head(write_queue)
      /\ write_queue # <<>> /\ o.status \in Status
      /\ Filled(o) \in Int /\ Filled(o) <= 2 * o.pkt
  BY OnlyWrite
<1>3. sent \in Nat /\ write_queue \in Seq(Packets) /\ socket \in {"open", "closed"}
  BY WriterAssumption DEF TypeOK, SocketTypeOK
<1>4. /\ write_queue' \in Seq(Packets)
      /\ Len(write_queue) \in Nat \ {0}
      /\ Len(write_queue') = Len(write_queue) - 1
      /\ \A i \in 1 .. Len(write_queue) - 1 : write_queue'[i] = write_queue[i + 1]
      /\ o.pkt = write_queue[1]
      /\ write_queue' # <<>> => Len(write_queue) >= 2 /\ Head(write_queue') = write_queue[2]
      /\ write_queue' = <<>> => Len(write_queue) = 1
  BY <1>1, <1>2, <1>3, Pop
<1>5. o.pkt = sent - Len(write_queue) + 1
  BY <1>4 DEF QueueIsTail
<1>6. QueueIsTail'
  <2>1. Len(write_queue') <= sent'
    BY <1>1, <1>3, <1>4 DEF QueueIsTail
  <2>2. ASSUME NEW i \in 1 .. Len(write_queue')
        PROVE  write_queue'[i] = sent' - Len(write_queue') + i
    <3>1. write_queue'[i] = sent - Len(write_queue) + (i + 1)
      BY <1>3, <1>4 DEF QueueIsTail
    <3> QED BY <3>1, <1>1, <1>3, <1>4
  <2> QED BY <2>1, <2>2 DEF QueueIsTail
<1>7. shutdown => closing
  BY DEF CloseState
<1>8. closing => socket' = "closed"
  BY <1>1, <1>2 DEF CloseState
<1>9. CloseState'
  BY <1>1, <1>7, <1>8 DEF CloseState
<1>10. SocketTypeOK'
  BY <1>1 DEF TypeOK, SocketTypeOK
<1>11. Usable(socket') /\ ~ TransientErrors => Len(wire) = 2 * o.pkt
  <2>1. SUFFICES ASSUME Usable(socket'), ~ TransientErrors PROVE Len(wire) = 2 * o.pkt
    OBVIOUS
  <2>2. Usable(socket)
    BY <1>1, <2>1 DEF Usable
  <2>3. o.part = "data" /\ o.status = "ok" /\ Len(wire) = Filled(o)
    BY <1>1, <2>1, <2>2 DEF WireFilled
  <2> QED BY <2>3 DEF Filled, Slot
<1>12. wire' = wire => GracefulClose'
  <2>1. SUFFICES ASSUME wire' = wire, socket' = "closed", link = "up", ~ TransientErrors
                 PROVE  Len(wire) = 2 * horizon
    BY <1>1 DEF GracefulClose
  <2>2. CASE socket = "closed"
    BY <2>1, <2>2 DEF GracefulClose
  <2>3. CASE socket = "open"
    <3>1. shutdown /\ closing /\ o.pkt = horizon
      BY <1>1, <1>2, <1>7, <2>1, <2>3 DEF CloseState
    <3>2. o.part = "data" /\ o.status = "ok" /\ Len(wire) = Filled(o)
      BY <1>1, <2>1, <2>3 DEF WireFilled, Usable
    <3> QED BY <3>1, <3>2 DEF Filled, Slot
  <2> QED BY <1>3, <2>2, <2>3
<1>13. CASE write_queue' = <<>>
  <2>1. ops' = {} /\ wire' = wire
    BY <1>2, <1>13 DEF WriteDone, ChainGoesOn
  <2>2. TypeOK'
    BY <1>1, <1>4, <1>10, <2>1 DEF TypeOK
  <2>3. OneWriteInFlight' /\ CloseCutsNoWrite'
    BY <1>13, <2>1 DEF OneWriteInFlight, CloseCutsNoWrite
  <2>4. WireInOrder' /\ WireIsPrefix' /\ NothingBeyondHorizon'
    BY <1>1, <2>1 DEF WireInOrder, WireIsPrefix, NothingBeyondHorizon
  <2>5. o.pkt = sent
    <3>1. Len(write_queue) = 1
      BY <1>4, <1>13
    <3> QED BY <1>3, <1>5, <3>1
  <2>6. WireBounded'
    <3>1. \A i \in 1 .. Len(wire) : Slot(wire[i]) <= 2 * sent
      BY <1>2, <2>5, WireTypes DEF WireBounded
    <3> QED BY <1>1, <2>1, <3>1 DEF WireBounded
  <2>7. WireFilled'
    BY <1>1, <1>11, <2>1, <2>5 DEF WireFilled, Usable
  <2> QED BY <1>6, <1>9, <1>12, <2>1, <2>2, <2>3, <2>4, <2>6, <2>7
<1>14. CASE write_queue' # <<>>
  <2> DEFINE p == Head(write_queue')
             slot == 2 * p - 1
  <2>1. AsyncWrite("size", p, socket', {})
    BY <1>2, <1>14 DEF WriteDone, ChainGoesOn, WriteAsync
  <2>2. p \in Packets /\ p = o.pkt + 1
    <3>1. p \in Packets
      BY <1>4, <1>14, Pop
    <3>2. write_queue[2] = sent - Len(write_queue) + 2
      BY <1>3, <1>4, <1>14 DEF QueueIsTail
    <3> QED BY <1>3, <1>4, <1>5, <1>14, <3>1, <3>2
  <2>3. /\ slot \in Int
        /\ slot = IF "size" = "size" THEN 2 * p - 1 ELSE 2 * p
        /\ ~ TransientErrors /\ Usable(socket') => Len(wire) = slot - 1
    BY <1>2, <1>11, <2>2
  <2>4. \A i \in 1 .. Len(wire) : Slot(wire[i]) < slot
    BY <1>2, <2>2, WireTypes DEF WireBounded
  <2>5. /\ \E s \in WriteStatus(socket') :
               ops' = {[part |-> "size", pkt |-> p, status |-> s]}
        /\ ops' \in SUBSET Op
        /\ wire' \in Seq(Token)
        /\ WireInOrder'
        /\ WireIsPrefix'
        /\ \A u \in ops' : \A i \in 1 .. Len(wire') : Slot(wire'[i]) <= Filled(u)
        /\ ~ TransientErrors /\ Usable(socket') =>
               \A u \in ops' : u.status # "failed" /\ Len(wire') = Filled(u)
        /\ ~ Usable(socket') => wire' = wire /\ \A u \in ops' : u.status = "failed"
    <3> HIDE DEF p, slot
    <3>1. "size" \in Parts
      BY DEF Parts
    <3> QED BY <2>1, <2>2, <2>3, <2>4, <3>1, WriteStarts
  <2>6. socket' = "closed" => ~ Usable(socket')
    BY DEF Usable
  <2>7. TypeOK'
    BY <1>1, <1>4, <1>10, <2>5 DEF TypeOK
  <2>8. OneWriteInFlight' /\ ops' # {}
    BY <1>14, <2>5 DEF OneWriteInFlight
  <2>9. CloseCutsNoWrite'
    BY <2>5, <2>6 DEF CloseCutsNoWrite
  <2>10. WireBounded'
    BY <2>5, <2>8 DEF WireBounded, Filled
  <2>11. WireFilled'
    BY <1>1, <2>5, <2>8 DEF WireFilled, Usable, Filled
  <2>12. NothingBeyondHorizon'
    BY <1>1, <1>8, <2>5, <2>6 DEF NothingBeyondHorizon
  <2>13. GracefulClose'
    <3>1. CASE socket' = "closed"
      BY <1>12, <2>5, <2>6, <3>1
    <3>2. CASE socket' # "closed"
      BY <3>2 DEF GracefulClose
    <3> QED BY <3>1, <3>2
  <2> QED BY <1>6, <1>9, <2>5, <2>7, <2>8, <2>9, <2>10, <2>11, <2>12, <2>13
<1> QED BY <1>13, <1>14

-----------------------------------------------------------------------------

LEMMA TransmitStep ==
    ASSUME IInv, NEW o \in ops, Transmit(o)
    PROVE  IInv'
<1> USE DEF IInv
<1>1. /\ o.status = "pending"
      /\ Usable(socket)
      /\ UNCHANGED <<socket, link, write_queue, shutdown, owned, sent, closing, horizon>>
  BY DEF Transmit, socketVars
<1>2. /\ ops = {o} /\ o \in Op /\ o.part \in Parts
      /\ o.pkt \in Packets /\ o.pkt \in Nat /\ o.pkt = Head(write_queue)
      /\ write_queue # <<>> /\ Slot(o) \in Int
  BY OnlyWrite
<1> DEFINE done == [o EXCEPT !.status = "ok"]
<1>3. ops' = {done} /\ done \in Op /\ done.pkt = o.pkt /\ done.status = "ok"
      /\ done.part = o.part
  BY <1>2 DEF Transmit, SetStatus, Op, Status
<1>4. PICK intact \in BOOLEAN :
          wire' = Append(wire, [part |-> o.part, pkt |-> o.pkt, intact |-> intact])
  BY DEF Transmit
<1> DEFINE t == [part |-> o.part, pkt |-> o.pkt, intact |-> intact]
<1>5. t \in Token /\ t.pkt = o.pkt /\ Slot(t) = Slot(o) /\ Slot(done) = Slot(o)
  BY <1>2, <1>3 DEF Token, Slot
<1>6. Filled(o) = Slot(o) - 1 /\ Filled(done) = Slot(o)
  BY <1>1, <1>3, <1>5 DEF Filled
<1> HIDE DEF t, done
<1>7. \A i \in 1 .. Len(wire) : Slot(wire[i]) < Slot(t)
  BY <1>2, <1>5, <1>6, WireTypes DEF WireBounded
<1>8. /\ wire' \in Seq(Token)
      /\ WireInOrder'
      /\ \A i \in 1 .. Len(wire') : Slot(wire'[i]) <= Slot(t)
      /\ \A i \in 1 .. Len(wire') : wire'[i].pkt = t.pkt
                                     \/ (i \in 1 .. Len(wire) /\ wire'[i] = wire[i])
  BY <1>4, <1>5, <1>7, OrderedAppend DEF t
<1>9. /\ Len(wire) \in Nat
      /\ Len(wire') = Len(wire) + 1
      /\ \A i \in 1 .. Len(wire) : wire'[i] = wire[i]
      /\ wire'[Len(wire) + 1] = t
  BY <1>4, <1>5, AppendToken, WireTypes DEF t
<1>10. ~ TransientErrors => Len(wire) = Slot(o) - 1
  BY <1>1, <1>2, <1>6 DEF WireFilled
<1>11. TypeOK'
  BY <1>1, <1>3, <1>8 DEF TypeOK, SocketTypeOK
<1>12. OneWriteInFlight'
  BY <1>1, <1>2, <1>3 DEF OneWriteInFlight
<1>13. WireBounded'
  BY <1>3, <1>5, <1>6, <1>8 DEF WireBounded, Filled
<1>14. WireFilled'
  <2>1. ~ TransientErrors => Len(wire') = Filled(done)
    BY <1>2, <1>6, <1>9, <1>10
  <2> QED BY <1>3, <2>1 DEF WireFilled, Filled
<1>15. WireIsPrefix'
  <2>1. SUFFICES ASSUME ~ TransientErrors, NEW i \in 1 .. Len(wire')
                 PROVE  Slot(wire'[i]) = i
    BY DEF WireIsPrefix
  <2>2. CASE i \in 1 .. Len(wire)
    BY <1>9, <2>1, <2>2 DEF WireIsPrefix
  <2>3. CASE i = Len(wire) + 1
    BY <1>2, <1>5, <1>9, <1>10, <2>1, <2>3
  <2> QED BY <1>9, <2>2, <2>3
<1>16. QueueIsTail' /\ CloseState'
  BY <1>1 DEF QueueIsTail, CloseState
<1>17. socket # "closed"
  BY <1>1 DEF Usable
<1>18. CloseCutsNoWrite' /\ GracefulClose'
  BY <1>1, <1>17 DEF CloseCutsNoWrite, GracefulClose
<1>19. NothingBeyondHorizon'
  <2>1. closing => o.pkt = horizon
    BY <1>2, <1>17 DEF CloseState
  <2>2. closing => \A i \in 1 .. Len(wire') : wire'[i].pkt <= horizon
    BY <1>2, <1>5, <1>8, <2>1 DEF NothingBeyondHorizon
  <2> QED BY <1>1, <2>2 DEF NothingBeyondHorizon
<1> QED BY <1>8, <1>11, <1>12, <1>13, <1>14, <1>15, <1>16, <1>18, <1>19

LEMMA WriteFailsStep ==
    ASSUME IInv, NEW o \in ops, WriteFails(o)
    PROVE  IInv'
<1> USE DEF IInv
<1>1. /\ o.status = "pending"
      /\ ~ Usable(socket) \/ TransientErrors
      /\ UNCHANGED <<socket, link, write_queue, shutdown, owned, wire, sent, closing, horizon>>
  BY DEF WriteFails, socketVars
<1>2. ops = {o} /\ o \in Op /\ o.pkt = Head(write_queue) /\ write_queue # <<>>
  BY OnlyWrite
<1> DEFINE done == [o EXCEPT !.status = "failed"]
<1>3. ops' = {done} /\ done \in Op /\ done.pkt = o.pkt /\ done.status = "failed"
      /\ done.part = o.part
  BY <1>2 DEF WriteFails, SetStatus, Op, Status
<1>4. Filled(done) = Filled(o)
  BY <1>1, <1>3 DEF Filled, Slot
<1> HIDE DEF done
<1>5. TypeOK'
  BY <1>1, <1>3 DEF TypeOK, SocketTypeOK
<1>6. OneWriteInFlight'
  BY <1>1, <1>2, <1>3 DEF OneWriteInFlight
<1>7. WireBounded'
  BY <1>1, <1>3, <1>4 DEF WireBounded, Filled
<1>8. WireFilled' /\ CloseCutsNoWrite'
  BY <1>1, <1>3 DEF WireFilled, Usable, CloseCutsNoWrite
<1>9. QueueIsTail' /\ WireInOrder' /\ WireIsPrefix' /\ CloseState'
  BY <1>1 DEF QueueIsTail, WireInOrder, WireIsPrefix, CloseState
<1>10. NothingBeyondHorizon' /\ GracefulClose'
  BY <1>1 DEF NothingBeyondHorizon, GracefulClose
<1> QED BY <1>5, <1>6, <1>7, <1>8, <1>9, <1>10

LEMMA LinkDownStep == IInv /\ LinkDown => IInv'
<1> SUFFICES ASSUME IInv, LinkDown PROVE IInv'
  OBVIOUS
<1> USE DEF IInv
<1>1. link' = "down" /\ UNCHANGED <<socket, writerVars>>
  BY DEF LinkDown
<1>2. TypeOK'
  BY <1>1 DEF TypeOK, SocketTypeOK, writerVars
<1>3. QueueIsTail' /\ OneWriteInFlight' /\ WireInOrder' /\ WireBounded' /\ WireIsPrefix'
  BY <1>1 DEF QueueIsTail, OneWriteInFlight, WireInOrder, WireBounded, WireIsPrefix, writerVars
<1>4. WireFilled' /\ CloseState' /\ CloseCutsNoWrite'
  BY <1>1 DEF WireFilled, Usable, CloseState, CloseCutsNoWrite, writerVars
<1>5. NothingBeyondHorizon' /\ GracefulClose'
  BY <1>1 DEF NothingBeyondHorizon, GracefulClose, writerVars
<1> QED BY <1>2, <1>3, <1>4, <1>5

-----------------------------------------------------------------------------

LEMMA NextStep == IInv /\ [Next]_vars => IInv'
<1> SUFFICES ASSUME IInv, [Next]_vars PROVE IInv'
  OBVIOUS
<1>1. CASE Send
  BY <1>1, SendStep
<1>2. CASE Close \/ Destroy
  <2>1. CloseSocket /\ owned' \in BOOLEAN
    BY <1>2 DEF Close, Destroy, IInv, TypeOK
  <2> QED BY <2>1, CloseSocketStep
<1>3. CASE Handlers
  BY <1>3, SizeWrittenStep, WriteDoneStep DEF Handlers
<1>4. CASE Kernel
  BY <1>4, TransmitStep, WriteFailsStep DEF Kernel
<1>5. CASE LinkDown
  BY <1>5, LinkDownStep
<1>6. CASE UNCHANGED vars
  BY <1>6 DEF vars, socketVars, writerVars, IInv, TypeOK, SocketTypeOK, QueueIsTail,
     OneWriteInFlight, WireInOrder, WireBounded, WireIsPrefix, WireFilled, Usable,
     CloseState, CloseCutsNoWrite, NothingBeyondHorizon, GracefulClose
<1> QED BY <1>1, <1>2, <1>3, <1>4, <1>5, <1>6 DEF Next, User

(* The invariant holds in every reachable state, whatever MaxSends is. *)
THEOREM WriterInvariant == Spec => []IInv
<1>1. Init => IInv
  BY InitIInv
<1>2. IInv /\ [Next]_vars => IInv'
  BY NextStep
<1> QED BY <1>1, <1>2, PTL DEF Spec

(* Every variable of the write half stays in its type. *)
THEOREM WriterTypeOK == Spec => []TypeOK
<1>1. IInv => TypeOK
  BY DEF IInv
<1> QED BY <1>1, WriterInvariant, PTL

(* The chain of writes: exactly one write in flight while anything is      *)
(* queued, that of the front packet, whatever fails.                       *)
THEOREM WriterSingle == Spec => []OneWriteInFlight
<1>1. IInv => OneWriteInFlight
  BY DEF IInv
<1> QED BY <1>1, WriterInvariant, PTL

(* The wire carries the parts of frames in the order of Send, none twice,  *)
(* and a prefix of all frames when errors are final.                       *)
THEOREM WriterOrder == Spec => [](WireInOrder /\ WireIsPrefix)
<1>1. IInv => WireInOrder /\ WireIsPrefix
  BY DEF IInv
<1> QED BY <1>1, WriterInvariant, PTL

(* A requested close is armed until it is carried out, and it cuts no      *)
(* write.                                                                  *)
THEOREM WriterClose == Spec => [](CloseIsArmed /\ CloseCutsNoWrite)
<1>1. IInv => CloseIsArmed /\ CloseCutsNoWrite
  BY DEF IInv, CloseState, CloseIsArmed, OneWriteInFlight
<1> QED BY <1>1, WriterInvariant, PTL

(* A close is a flush of the packet that was being written: nothing behind *)
(* it reaches the wire, and on a connection that did not break all of it   *)
(* does.                                                                   *)
THEOREM WriterHorizon == Spec => [](NothingBeyondHorizon /\ GracefulClose)
<1>1. IInv => NothingBeyondHorizon /\ GracefulClose
  BY DEF IInv
<1> QED BY <1>1, WriterInvariant, PTL

-----------------------------------------------------------------------------
(***************************************************************************)
(* The write half implements FrameStream, for every number of packets: the *)
(* safety part of ImplementsFrameStream.  Errors are final here; a write   *)
(* that fails on a connection that lives on leaves its frame out, and then *)
(* the write half promises less (WireInOrder).                             *)
(*                                                                         *)
(* By the invariant the wire is a prefix of all frames, so that its length *)
(* says it all: a step either leaves it alone or makes it longer by the    *)
(* one part the abstract stream puts out next.                             *)
(***************************************************************************)

(* The stream as the refinement mapping has it. *)
Frames(w) == [i \in 1 .. Len(w) |-> [part |-> w[i].part, pkt |-> w[i].pkt]]

(* The last packet that may still come out. *)
Last == IF closing THEN horizon ELSE sent

-----------------------------------------------------------------------------

LEMMA Halves ==
    ASSUME NEW n \in Nat, n >= 1
    PROVE  /\ (2 * n - 1) % 2 = 1 /\ (2 * n - 1 + 1) \div 2 = n
           /\ (2 * n) % 2 = 0 /\ (2 * n + 1) \div 2 = n
<1> DEFINE k == n - 1
<1>1. k \in Nat /\ 2 * n - 1 = 2 * k + 1
  OBVIOUS
<1>2. (2 * k + 1) % 2 = 1
  OBVIOUS
<1>3. 2 * n - 1 + 1 = 2 * n
  OBVIOUS
<1> HIDE DEF k
<1> QED BY <1>1, <1>2, <1>3

(* A wire that is a prefix of all frames holds the first parts of the      *)
(* endless stream.                                                         *)
LEMMA FramesOfPrefix ==
    ASSUME NEW w \in Seq(Token), \A i \in 1 .. Len(w) : Slot(w[i]) = i
    PROVE  Frames(w) = [i \in 1 .. Len(w) |-> Stream!PartAt(i)]
<1>1. ASSUME NEW i \in 1 .. Len(w)
      PROVE  [part |-> w[i].part, pkt |-> w[i].pkt] = Stream!PartAt(i)
  <2>0. w[i] \in Token
    OBVIOUS
  <2>1. w[i].part \in Parts /\ w[i].pkt \in Nat /\ w[i].pkt >= 1
    <3>1. w[i].part \in Parts /\ w[i].pkt \in Packets
      BY <2>0 DEF Token
    <3> QED BY <3>1, WriterAssumption DEF Packets
  <2>2. Slot(w[i]) = i
    OBVIOUS
  <2>3. CASE w[i].part = "size"
    <3>1. i = 2 * w[i].pkt - 1
      BY <2>2, <2>3 DEF Slot
    <3>2. i % 2 = 1 /\ (i + 1) \div 2 = w[i].pkt
      BY <2>1, <3>1, Halves
    <3> QED BY <2>3, <3>2 DEF Stream!PartAt
  <2>4. CASE w[i].part = "data"
    <3>1. i = 2 * w[i].pkt
      BY <2>2, <2>4 DEF Slot
    <3>2. i % 2 = 0 /\ (i + 1) \div 2 = w[i].pkt
      BY <2>1, <3>1, Halves
    <3>3. i % 2 # 1
      BY <3>2
    <3> QED BY <2>4, <3>2, <3>3 DEF Stream!PartAt
  <2> QED BY <2>1, <2>3, <2>4 DEF Parts
<1> QED BY <1>1 DEF Frames

LEMMA StreamIsPrefix ==
    ASSUME IInv, ~ TransientErrors
    PROVE  /\ Len(wire) \in Nat
           /\ Len(Frames(wire)) = Len(wire)
           /\ Frames(wire) = [i \in 1 .. Len(wire) |-> Stream!PartAt(i)]
<1>1. wire \in Seq(Token) /\ \A i \in 1 .. Len(wire) : Slot(wire[i]) = i
  BY DEF IInv, TypeOK, WireIsPrefix
<1>2. Frames(wire) = [i \in 1 .. Len(wire) |-> Stream!PartAt(i)]
  BY <1>1, FramesOfPrefix
<1> QED BY <1>1, <1>2

(* One part more on the wire is the next part of the endless stream. *)
LEMMA StreamGrows ==
    ASSUME IInv, IInv', ~ TransientErrors, Len(wire') = Len(wire) + 1
    PROVE  Frames(wire') = Append(Frames(wire), Stream!PartAt(Len(Frames(wire)) + 1))
<1>1. /\ Len(wire) \in Nat /\ Len(Frames(wire)) = Len(wire)
      /\ Frames(wire) = [i \in 1 .. Len(wire) |-> Stream!PartAt(i)]
  BY StreamIsPrefix
<1>2. wire' \in Seq(Token) /\ \A i \in 1 .. Len(wire') : Slot(wire'[i]) = i
  BY DEF IInv, TypeOK, WireIsPrefix
<1>3. Frames(wire') = [i \in 1 .. Len(wire') |-> Stream!PartAt(i)]
  BY <1>2, FramesOfPrefix
<1> HIDE DEF Stream!PartAt
<1> QED BY <1>1, <1>3

(* The parts of a write in flight: those that are out, and the packet.     *)
LEMMA WriteParts ==
    ASSUME IInv, NEW o \in ops
    PROVE  /\ o.pkt \in Nat /\ 1 <= o.pkt /\ o.pkt <= sent
           /\ (closing /\ socket = "open") => o.pkt = horizon
           /\ (~ TransientErrors /\ Usable(socket)) => Len(wire) = Filled(o)
<1>1. o.pkt \in Packets /\ o.pkt = Head(write_queue) /\ write_queue # <<>>
  BY OnlyWrite
<1>2. o.pkt \in Nat /\ 1 <= o.pkt
  BY <1>1, WriterAssumption DEF Packets
<1>3. write_queue \in Seq(Packets) /\ sent \in Nat
  BY WriterAssumption DEF IInv, TypeOK
<1>4. o.pkt <= sent
  <2>1. Len(write_queue) \in Nat \ {0} /\ Head(write_queue) = write_queue[1]
    BY <1>1, <1>3, Pop
  <2>2. write_queue[1] = sent - Len(write_queue) + 1
    BY <2>1 DEF IInv, QueueIsTail
  <2> QED BY <1>1, <1>3, <2>1, <2>2
<1>5. (closing /\ socket = "open") => o.pkt = horizon
  BY <1>1 DEF IInv, CloseState
<1> QED BY <1>2, <1>4, <1>5 DEF IInv, WireFilled

-----------------------------------------------------------------------------

LEMMA Stutters ==
    ASSUME UNCHANGED <<sent, wire, closing, horizon, socket, link>>
    PROVE  UNCHANGED Stream!fsVars
BY DEF Stream!fsVars

(* A write that starts takes its part to the wire at once, on a usable     *)
(* connection, or leaves the wire alone.                                   *)
LEMMA WriteGrows ==
    ASSUME TypeOK, NEW part, part \in Parts, NEW p \in Packets, NEW sock, NEW rest,
           AsyncWrite(part, p, sock, rest)
    PROVE  wire' = wire \/ (Usable(sock) /\ Len(wire') = Len(wire) + 1)
<1> DEFINE t == [part |-> part, pkt |-> p, intact |-> TRUE]
<1>1. PICK s \in WriteStatus(sock) : wire' = IF s = "ok" THEN Append(wire, t) ELSE wire
  BY DEF AsyncWrite
<1>2. s = "ok" => Usable(sock)
  BY DEF WriteStatus
<1>3. wire \in Seq(Token) /\ t \in Token
  BY DEF TypeOK, Token
<1> HIDE DEF t
<1>4. Len(Append(wire, t)) = Len(wire) + 1
  BY <1>3, AppendToken
<1> QED BY <1>1, <1>2, <1>4

(* The part of a write that was in flight already reaches the wire. *)
LEMMA WriteEmits ==
    ASSUME IInv, IInv', ~ TransientErrors, NEW o \in ops, Usable(socket),
           UNCHANGED <<sent, closing, horizon, socket, link>>,
           Len(wire') = Len(wire) + 1, Len(wire) < 2 * o.pkt
    PROVE  Stream!Emit
<1>1. /\ o.pkt \in Nat /\ o.pkt <= sent
      /\ closing => o.pkt = horizon
  BY WriteParts DEF Usable
<1>2. sent \in Nat /\ horizon \in Nat /\ Len(wire) \in Nat
  BY WriterAssumption DEF IInv, TypeOK
<1>3. Last \in Nat /\ Len(wire) < 2 * Last
  BY <1>1, <1>2 DEF Last
<1>4. /\ Frames(wire') = Append(Frames(wire), Stream!PartAt(Len(Frames(wire)) + 1))
      /\ Len(Frames(wire)) < 2 * Last
  BY <1>3, StreamGrows, StreamIsPrefix
<1>5. socket # "closed" /\ link # "down"
  BY DEF Usable
<1> QED BY <1>4, <1>5 DEF Stream!Emit, Stream!EmitUpTo, Frames, Last

-----------------------------------------------------------------------------

(* Send accepts a packet, whose size may come out in the same step. *)
LEMMA SendImplements ==
    ASSUME IInv, IInv', ~ TransientErrors, Send
    PROVE  Stream!Accept
<1>1. /\ sent < MaxSends /\ sent' = sent + 1
      /\ write_queue' = Append(write_queue, sent + 1)
      /\ UNCHANGED <<socket, link, closing, horizon>>
  BY DEF Send, socketVars
<1>2. sent \in Nat /\ sent + 1 \in Packets /\ write_queue \in Seq(Packets)
  BY <1>1, WriterAssumption DEF IInv, TypeOK, Packets
<1>3. CASE wire' = wire
  BY <1>1, <1>3 DEF Stream!Accept
<1>4. CASE wire' # wire
  <2>1. Len(write_queue') = 1 /\ AsyncWrite("size", Head(write_queue'), socket, ops)
    BY <1>4 DEF Send, StartsChain, WriteAsync
  <2>2. write_queue = <<>> /\ Head(write_queue') = sent + 1
    <3>1. Len(write_queue) \in Nat /\ Len(write_queue') = Len(write_queue) + 1
      BY <1>1, <1>2, Push
    <3>2. Len(write_queue) = 0
      BY <2>1, <3>1
    <3>3. write_queue = <<>>
      BY <1>2, <3>2
    <3> QED BY <1>1, <1>2, <3>3, Push
  <2>3. Usable(socket) /\ Len(wire') = Len(wire) + 1
    <3>1. "size" \in Parts /\ TypeOK
      BY DEF Parts, IInv
    <3> QED BY <1>2, <1>4, <2>1, <2>2, <3>1, WriteGrows
  <2>4. ~ closing
    BY <2>2, <2>3 DEF IInv, CloseState, Usable
  <2>5. Len(wire) = 2 * sent
    BY <2>2, <2>3 DEF IInv, OneWriteInFlight, WireFilled
  <2>6. /\ Frames(wire') = Append(Frames(wire), Stream!PartAt(Len(Frames(wire)) + 1))
        /\ Len(Frames(wire)) < 2 * (sent + 1)
    <3>1. Len(wire) < 2 * (sent + 1)
      BY <1>2, <2>5
    <3> QED BY <2>3, <3>1, StreamGrows, StreamIsPrefix
  <2>7. socket # "closed" /\ link # "down"
    BY <2>3 DEF Usable
  <2> QED BY <1>1, <2>4, <2>6, <2>7 DEF Stream!Accept, Stream!EmitUpTo, Frames
<1> QED BY <1>3, <1>4

(* CloseSocket requests the close, the first time. *)
LEMMA CloseImplements ==
    ASSUME IInv, IInv', ~ TransientErrors, CloseSocket
    PROVE  Stream!RequestClose \/ UNCHANGED Stream!fsVars
<1>1. /\ UNCHANGED <<link, write_queue, ops, wire, sent>>
      /\ closing' = TRUE
      /\ horizon' = IF closing THEN horizon
                    ELSE IF write_queue = <<>> THEN sent ELSE Head(write_queue)
  BY DEF CloseSocket
<1>2. /\ sent \in Nat /\ Len(wire) \in Nat /\ horizon' \in Nat
      /\ closing \in BOOLEAN /\ socket \in {"open", "closed"} /\ link \in {"up", "down"}
  BY WriterAssumption DEF IInv, TypeOK, SocketTypeOK
<1>3. Len(Frames(wire)) = Len(wire)
  BY StreamIsPrefix
<1>4. CASE closing
  <2>1. socket' = socket
    BY <1>4 DEF CloseSocket, ClosesAtOnce, IInv, CloseState
  <2> QED BY <1>1, <1>4, <2>1, Stutters
<1>5. CASE ~ closing /\ write_queue = <<>>
  <2>1. socket' = "closed" /\ horizon' = sent /\ ops = {} /\ socket = "open"
    BY <1>1, <1>2, <1>5 DEF CloseSocket, ClosesAtOnce, IInv, OneWriteInFlight, CloseState
  <2>2. Len(wire) <= 2 * sent
    <3>1. CASE Len(wire) = 0
      BY <1>2, <3>1
    <3>2. CASE Len(wire) # 0
      <4>1. Len(wire) \in 1 .. Len(wire)
        BY <1>2, <3>2
      <4>2. Slot(wire[Len(wire)]) = Len(wire)
        BY <4>1 DEF IInv, WireIsPrefix
      <4>3. Slot(wire[Len(wire)]) <= 2 * sent
        BY <2>1, <4>1 DEF IInv, WireBounded
      <4> QED BY <4>2, <4>3
    <3> QED BY <3>1, <3>2
  <2>3. link = "up" => Len(wire) = 2 * sent
    BY <2>1 DEF IInv, WireFilled, Usable
  <2>4. Len(Frames(wire)) <= 2 * horizon'
    BY <1>3, <2>1, <2>2
  <2>5. link = "up" => Len(Frames(wire)) = 2 * horizon'
    BY <1>3, <2>1, <2>3
  <2>6. horizon' \in 0 .. sent
    BY <1>2, <2>1
  <2>7. link = "up" => 2 * horizon' <= Len(Frames(wire)) + 2
    BY <1>2, <2>5
  <2> QED BY <1>1, <1>2, <1>5, <2>1, <2>4, <2>5, <2>6, <2>7
          DEF Stream!RequestClose, Stream!Flushed, Frames
<1>6. CASE ~ closing /\ write_queue # <<>>
  <2>1. socket' = socket /\ horizon' = Head(write_queue) /\ socket = "open"
    BY <1>1, <1>2, <1>6 DEF CloseSocket, ClosesAtOnce, IInv, CloseState
  <2>2. PICK o \in ops : o.pkt = Head(write_queue)
    BY <1>6, OnlyWrite DEF IInv, OneWriteInFlight
  <2>3. /\ o.pkt \in Nat /\ o.pkt <= sent /\ Slot(o) \in Int
        /\ Filled(o) \in Int /\ Filled(o) <= 2 * o.pkt
        /\ o.part \in Parts
    BY WriteParts, OnlyWrite
  <2>4. 2 * o.pkt <= Filled(o) + 2
    BY <2>3 DEF Filled, Slot
  <2>5. Len(wire) <= 2 * o.pkt
    <3>1. CASE Len(wire) = 0
      BY <2>3, <3>1
    <3>2. CASE Len(wire) # 0
      <4>1. Len(wire) \in 1 .. Len(wire)
        BY <1>2, <3>2
      <4>2. Slot(wire[Len(wire)]) = Len(wire)
        BY <4>1 DEF IInv, WireIsPrefix
      <4>3. Slot(wire[Len(wire)]) <= Filled(o)
        BY <4>1 DEF IInv, WireBounded
      <4> QED BY <1>2, <2>3, <4>2, <4>3
    <3> QED BY <3>1, <3>2
  <2>6. link = "up" => Len(wire) = Filled(o)
    BY <2>1 DEF IInv, WireFilled, Usable
  <2>7. Len(Frames(wire)) <= 2 * horizon'
    BY <1>3, <2>1, <2>2, <2>5
  <2>8. horizon' \in 0 .. sent
    BY <1>2, <2>1, <2>2, <2>3
  <2>9. link = "up" => 2 * horizon' <= Len(Frames(wire)) + 2
    BY <1>3, <2>1, <2>2, <2>4, <2>6
  <2> QED BY <1>1, <1>2, <1>6, <2>1, <2>7, <2>8, <2>9 DEF Stream!RequestClose, Frames
<1> QED BY <1>4, <1>5, <1>6

(* The data follows the size of its packet. *)
LEMMA SizeWrittenImplements ==
    ASSUME IInv, IInv', ~ TransientErrors, NEW o \in ops, SizeWritten(o)
    PROVE  Stream!Emit \/ UNCHANGED Stream!fsVars
<1>1. /\ o.part = "size" /\ o.status = "ok"
      /\ AsyncWrite("data", o.pkt, socket, ops \ {o})
      /\ UNCHANGED <<sent, closing, horizon, socket, link>>
  BY DEF SizeWritten, socketVars
<1>2. CASE wire' = wire
  BY <1>1, <1>2, Stutters
<1>3. CASE wire' # wire
  <2>1. "data" \in Parts /\ TypeOK /\ o.pkt \in Packets /\ o.pkt \in Nat
    BY OnlyWrite DEF Parts, IInv
  <2>2. Usable(socket) /\ Len(wire') = Len(wire) + 1
    BY <1>1, <1>3, <2>1, WriteGrows
  <2>3. Len(wire) = 2 * o.pkt - 1
    BY <1>1, <2>2, WriteParts DEF Filled, Slot
  <2>4. Len(wire) < 2 * o.pkt
    BY <2>1, <2>3
  <2> QED BY <1>1, <2>2, <2>4, WriteEmits
<1> QED BY <1>2, <1>3

(* The kernel takes a part of a write that was pending. *)
LEMMA TransmitImplements ==
    ASSUME IInv, IInv', ~ TransientErrors, NEW o \in ops, Transmit(o)
    PROVE  Stream!Emit
<1>1. /\ o.status = "pending" /\ Usable(socket)
      /\ UNCHANGED <<sent, closing, horizon, socket, link>>
  BY DEF Transmit, socketVars
<1>2. PICK intact \in BOOLEAN :
          wire' = Append(wire, [part |-> o.part, pkt |-> o.pkt, intact |-> intact])
  BY DEF Transmit
<1>3. o.part \in Parts /\ o.pkt \in Packets /\ o.pkt \in Nat /\ Slot(o) \in Int
  BY OnlyWrite
<1>4. Len(wire') = Len(wire) + 1
  <2> DEFINE t == [part |-> o.part, pkt |-> o.pkt, intact |-> intact]
  <2>1. t \in Token /\ wire \in Seq(Token)
    BY <1>3 DEF Token, IInv, TypeOK
  <2> HIDE DEF t
  <2>2. wire' = Append(wire, t)
    BY <1>2 DEF t
  <2> QED BY <2>1, <2>2, AppendToken
<1>5. Len(wire) = Slot(o) - 1
  BY <1>1, WriteParts DEF Filled
<1>6. Len(wire) < 2 * o.pkt
  BY <1>3, <1>5, SlotType
<1> QED BY <1>1, <1>4, <1>6, WriteEmits

(* The handler of a whole packet starts the next one, or shuts the socket. *)
LEMMA WriteDoneImplements ==
    ASSUME IInv, IInv', ~ TransientErrors, NEW o \in ops, WriteDone(o)
    PROVE  Stream!Emit \/ Stream!Shut \/ UNCHANGED Stream!fsVars
<1>1. /\ o.status = "failed" \/ (o.part = "data" /\ o.status = "ok")
      /\ write_queue' = Tail(write_queue)
      /\ socket' = IF shutdown THEN "closed" ELSE socket
      /\ IF write_queue' # <<>>
         THEN AsyncWrite("size", Head(write_queue'), socket', ops \ {o})
         ELSE ops' = ops \ {o} /\ UNCHANGED wire
      /\ UNCHANGED <<link, shutdown, owned, sent, closing, horizon>>
  BY DEF WriteDone, Popped, SocketWhenDone, ChainGoesOn, WriteAsync
<1>2. /\ write_queue # <<>> /\ write_queue \in Seq(Packets)
      /\ o.pkt = Head(write_queue) /\ o.pkt \in Packets /\ o.pkt \in Nat
      /\ socket \in {"open", "closed"} /\ link \in {"up", "down"}
      /\ sent \in Nat /\ Len(wire) \in Nat
  BY OnlyWrite, WriterAssumption DEF IInv, TypeOK, SocketTypeOK
<1>3. Len(Frames(wire)) = Len(wire)
  BY StreamIsPrefix
<1>4. wire' = wire \/ (Usable(socket') /\ Len(wire') = Len(wire) + 1)
  <2>1. CASE write_queue' = <<>>
    BY <1>1, <2>1
  <2>2. CASE write_queue' # <<>>
    <3>1. write_queue' \in Seq(Packets)
      BY <1>1, <1>2, Pop
    <3>2. Head(write_queue') \in Packets
      BY <2>2, <3>1, Pop
    <3>3. "size" \in Parts /\ TypeOK
      BY DEF Parts, IInv
    <3>4. AsyncWrite("size", Head(write_queue'), socket', ops \ {o})
      BY <1>1, <2>2
    <3> QED BY <3>2, <3>3, <3>4, WriteGrows
  <2> QED BY <2>1, <2>2
<1>5. CASE socket = "closed"
  <2>1. socket' = "closed" /\ wire' = wire
    BY <1>1, <1>4, <1>5 DEF Usable
  <2> QED BY <1>1, <1>5, <2>1, Stutters
<1>6. CASE socket = "open" /\ shutdown
  <2>1. socket' = "closed" /\ wire' = wire
    BY <1>1, <1>4, <1>6 DEF Usable
  <2>2. closing
    BY <1>6 DEF IInv, CloseState
  <2>3. link = "up" => Len(wire) = 2 * horizon
    BY <1>1, <2>1 DEF IInv, GracefulClose
  <2>4. link = "up" => Len(Frames(wire)) = 2 * horizon
    BY <1>3, <2>3
  <2> QED BY <1>1, <1>2, <1>6, <2>1, <2>2, <2>4 DEF Stream!Shut, Stream!Flushed, Frames
<1>7. CASE socket = "open" /\ ~ shutdown
  <2>1. socket' = socket
    BY <1>1, <1>7
  <2>2. CASE wire' = wire
    BY <1>1, <2>1, <2>2, Stutters
  <2>3. CASE wire' # wire
    <3>1. Usable(socket) /\ Len(wire') = Len(wire) + 1
      BY <1>4, <2>1, <2>3
    <3>2. ~ closing
      BY <1>7 DEF IInv, CloseState
    <3>3. Len(wire) = 2 * o.pkt
      BY <1>1, <3>1, WriteParts DEF Filled, Slot, IInv, WireFilled
    <3>4. o.pkt < sent
      <4>1. Len(write_queue) >= 2 /\ Len(write_queue) \in Nat /\ o.pkt = write_queue[1]
        BY <1>1, <1>2, <2>3, Pop
      <4>2. o.pkt = sent - Len(write_queue) + 1
        BY <4>1 DEF IInv, QueueIsTail
      <4> QED BY <1>2, <4>1, <4>2
    <3>5. Len(wire) < 2 * sent
      BY <1>2, <3>3, <3>4
    <3>6. /\ Frames(wire') = Append(Frames(wire), Stream!PartAt(Len(Frames(wire)) + 1))
          /\ Len(Frames(wire)) < 2 * sent
      BY <3>1, <3>5, StreamGrows, StreamIsPrefix
    <3>7. socket # "closed" /\ link # "down"
      BY <3>1 DEF Usable
    <3> QED BY <1>1, <2>1, <3>2, <3>6, <3>7 DEF Stream!Emit, Stream!EmitUpTo, Frames
  <2> QED BY <2>2, <2>3
<1> QED BY <1>2, <1>5, <1>6, <1>7

(* The connection breaks. *)
LEMMA LinkDownImplements ==
    ASSUME IInv, LinkDown
    PROVE  Stream!Break \/ UNCHANGED Stream!fsVars
<1>1. link = "up" /\ link' = "down"
      /\ UNCHANGED <<socket, wire, sent, closing, horizon>>
  BY DEF LinkDown, writerVars
<1> QED BY <1>1 DEF Stream!Break, Stream!fsVars

-----------------------------------------------------------------------------

LEMMA InitImplements == Init => Stream!Init
<1> SUFFICES ASSUME Init PROVE Stream!Init
  OBVIOUS
<1>1. wire = <<>> /\ sent = 0 /\ ~ closing /\ horizon = 0 /\ socket = "open" /\ link = "up"
      /\ closing = FALSE
  BY DEF Init, SocketInit
<1>2. [i \in 1 .. Len(wire) |-> [part |-> wire[i].part, pkt |-> wire[i].pkt]] = <<>>
  BY <1>1
<1> QED BY <1>1, <1>2 DEF Stream!Init

LEMMA NextImplements ==
    IInv /\ IInv' /\ ~ TransientErrors /\ [Next]_vars => [Stream!Next]_(Stream!fsVars)
<1> SUFFICES ASSUME IInv, IInv', ~ TransientErrors, [Next]_vars
             PROVE  Stream!Next \/ UNCHANGED Stream!fsVars
  OBVIOUS
<1>1. CASE Send
  BY <1>1, SendImplements DEF Stream!Next
<1>2. CASE Close \/ Destroy
  BY <1>2, CloseImplements DEF Close, Destroy, Stream!Next
<1>3. CASE Handlers
  BY <1>3, SizeWrittenImplements, WriteDoneImplements DEF Handlers, Stream!Next
<1>4. CASE Kernel
  <2>1. ASSUME NEW o \in ops, WriteFails(o)
        PROVE  UNCHANGED Stream!fsVars
    BY <2>1, Stutters DEF WriteFails, socketVars
  <2> QED BY <1>4, <2>1, TransmitImplements DEF Kernel, Stream!Next
<1>5. CASE LinkDown
  BY <1>5, LinkDownImplements DEF Stream!Next
<1>6. CASE UNCHANGED vars
  BY <1>6, Stutters DEF vars, socketVars, writerVars
<1> QED BY <1>1, <1>2, <1>3, <1>4, <1>5, <1>6 DEF Next, User

(* With errors that are final, whatever MaxSends is: every behaviour of    *)
(* Send, CloseSocket, the destructor and the chain of writes is, seen from *)
(* the wire, one of the abstract stream: frames come out in the order of   *)
(* acceptance, none twice and none left out, and the socket is closed      *)
(* behind a whole frame or not at all, unless the connection broke.        *)
THEOREM WriterImplements ==
    ASSUME ~ TransientErrors
    PROVE  Spec => Stream!SafeSpec
<1>1. Init => Stream!Init
  BY InitImplements
<1>2. IInv /\ IInv' /\ [Next]_vars => [Stream!Next]_(Stream!fsVars)
  BY NextImplements
<1> QED BY <1>1, <1>2, WriterInvariant, PTL DEF Spec, Stream!SafeSpec
=============================================================================
