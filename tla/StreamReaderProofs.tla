------------------------- MODULE StreamReaderProofs -------------------------
(***************************************************************************)
(* Proofs about StreamReader, for every number of frames and of loops, and *)
(* with or without allocations that fail.  They are of the read half by    *)
(* itself; DualConnection and StreamClient, whose steps all are steps of   *)
(* the read half or leave it alone, take them over from here.              *)
(***************************************************************************)
EXTENDS StreamReader, TLAPS

Even(n) == \E k \in Nat : n = 2 * k

Odd(n) == \E k \in Nat : n = 2 * k + 1

(* A read is in flight, or has been completed and its handler waits. *)
Reading == stage \in Parts

(* No read can complete any more: what has been read is all there is. *)
Exhausted == socket = "closed" \/ (link = "down" /\ rpos = inbound)

(* While reads are in step the parity of rpos is that of the part the loop *)
(* is at; only behind a loop that died it may be any.                      *)
InStep ==
    synced =>
        /\ stage = "size" => IF status = "ok" THEN Odd(rpos) ELSE Even(rpos) \/ died
        /\ stage = "data" => IF status = "ok" THEN Even(rpos) /\ rpos >= 2 ELSE Odd(rpos)
        /\ stage \in {"idle", "handling"} => Even(rpos) \/ died

(* A read fails for good, and a loop that was told so leaves a connection  *)
(* on which nothing can be read.                                           *)
DeathIsFinal ==
    /\ stage = "dying" => died
    /\ died \/ (Reading /\ status = "failed") => Exhausted
    /\ died => stage # "handling" /\ (Reading => status # "ok")

(* The late packet is the last: the reads that follow find the socket      *)
(* closed and fail.                                                        *)
LateIsLast ==
    late # 0 => late = 1 /\ socket = "closed" /\ (Reading => status = "failed")

IInv ==
    /\ TypeOK
    /\ InStep
    /\ DeathIsFinal
    /\ LateIsLast
    /\ PacketsInOrder
    /\ OneLatePacket

-----------------------------------------------------------------------------

(* How parity and half change as parts are read. *)
LEMMA Parity ==
    ASSUME NEW n \in Nat
    PROVE  /\ Even(n) => Odd(n + 1) /\ n = 2 * (n \div 2) /\ n \div 2 \in Nat
           /\ Odd(n) => /\ Even(n + 1) /\ n >= 1
                        /\ n \div 2 \in Nat
                        /\ (n + 1) \div 2 = n \div 2 + 1
<1>1. ASSUME Even(n)
      PROVE  Odd(n + 1) /\ n = 2 * (n \div 2) /\ n \div 2 \in Nat
  <2>1. PICK k \in Nat : n = 2 * k
    BY <1>1 DEF Even
  <2> QED BY <2>1 DEF Odd
<1>2. ASSUME Odd(n)
      PROVE  /\ Even(n + 1) /\ n >= 1
             /\ n \div 2 \in Nat
             /\ (n + 1) \div 2 = n \div 2 + 1
  <2>1. PICK k \in Nat : n = 2 * k + 1
    BY <1>2 DEF Odd
  <2>2. n + 1 = 2 * (k + 1) /\ k + 1 \in Nat
    BY <2>1
  <2>3. n \div 2 = k /\ (n + 1) \div 2 = k + 1
    BY <2>1, <2>2
  <2> QED BY <2>1, <2>2, <2>3 DEF Even
<1> QED BY <1>1, <1>2

(* What Append does to the packets handed over, if it adds the next one. *)
LEMMA NextDelivered ==
    ASSUME NEW n \in Nat
    PROVE  Append([i \in 1 .. n |-> i], n + 1) = [i \in 1 .. n + 1 |-> i]
OBVIOUS

LEMMA ReaderTypes ==
    ASSUME TypeOK
    PROVE  /\ rpos \in Nat /\ inbound \in Nat /\ rpos <= inbound
           /\ inbound <= 2 * MaxFrames /\ MaxFrames \in Nat
           /\ starts \in Nat /\ late \in {0, 1, 2}
           /\ "size" \in Parts /\ "data" \in Parts
BY ReaderAssumption DEF TypeOK, Parts

LEMMA InitIInv == Init => IInv
<1> SUFFICES ASSUME Init PROVE IInv
  OBVIOUS
<1>1. TypeOK
  <2>1. delivered \in Seq(Junk .. MaxFrames)
    BY DEF Init
  <2>2. SocketTypeOK
    BY DEF Init, SocketInit, SocketTypeOK
  <2>3. inbound \in 0 .. 2 * MaxFrames /\ rpos \in 0 .. inbound /\ starts \in 0 .. MaxStarts
    BY ReaderAssumption DEF Init
  <2>4. stage \in {"idle"} /\ status \in Status /\ late \in 0 .. 2
    BY DEF Init, Status
  <2>5. synced \in BOOLEAN /\ died \in BOOLEAN
    BY DEF Init
  <2> QED BY <2>1, <2>2, <2>3, <2>4, <2>5 DEF TypeOK
<1>2. Even(rpos)
  BY DEF Init, Even
<1>3. PacketsInOrder
  <2>1. Handed = 0
    BY DEF Init, Handed
  <2> QED BY <2>1 DEF Init, PacketsInOrder
<1>4. InStep /\ DeathIsFinal /\ LateIsLast /\ OneLatePacket
  BY <1>2 DEF Init, InStep, DeathIsFinal, LateIsLast, OneLatePacket, Reading, Parts
<1> QED BY <1>1, <1>3, <1>4 DEF IInv

(* A loop that is started, or goes on, reads the size of the next frame.   *)
LEMMA ReadsNext ==
    ASSUME IInv, stage \in {"idle", "handling"}, AsyncRead("size"),
           UNCHANGED <<socketVars, inVars, delivered, synced, died>>,
           starts' \in 0 .. MaxStarts,
           late' = late \/ late' = 0
    PROVE  IInv'
<1> USE DEF IInv
<1>1. /\ stage' = "size" /\ status' = ReadStatus(socket)
      /\ UNCHANGED <<socket, link, inbound, rpos, delivered, synced, died>>
  BY DEF AsyncRead, socketVars, inVars
<1>2. status' \in {"pending", "failed"} /\ (status' = "failed" <=> socket = "closed")
  BY <1>1 DEF ReadStatus, TypeOK, SocketTypeOK
<1>3. TypeOK'
  BY <1>1, <1>2, ReaderTypes DEF TypeOK, SocketTypeOK, Status
<1>4. InStep'
  BY <1>1, <1>2 DEF InStep, Even
<1>5. DeathIsFinal'
  BY <1>1, <1>2 DEF DeathIsFinal, Exhausted, Reading
<1>6. LateIsLast' /\ OneLatePacket'
  BY <1>1, <1>2 DEF LateIsLast, OneLatePacket, Reading
<1>7. PacketsInOrder'
  <2>1. Handed' = Handed
    BY <1>1 DEF Handed
  <2> QED BY <1>1, <2>1 DEF PacketsInOrder
<1> QED BY <1>3, <1>4, <1>5, <1>6, <1>7

LEMMA StartStep == IInv /\ StartReceiveLoop => IInv'
<1> SUFFICES ASSUME IInv, StartReceiveLoop PROVE IInv'
  OBVIOUS
<1>1. starts' \in 0 .. MaxStarts
  BY ReaderAssumption DEF StartReceiveLoop, IInv, TypeOK
<1> QED BY <1>1, ReadsNext DEF StartReceiveLoop

(* A callback that returns: the loop reads on or is left. *)
LEMMA CallbacksStep == IInv /\ Callbacks => IInv'
<1> SUFFICES ASSUME IInv, Callbacks PROVE IInv'
  OBVIOUS
<1> USE DEF IInv
<1>1. UNCHANGED <<socketVars, inVars, starts, historyVars>>
  BY DEF Callbacks, HandleReturns, DeathReturns
<1>2. CASE stage = "handling" /\ AsyncRead("size")
  <2>1. starts' \in 0 .. MaxStarts /\ late' = late
    BY <1>1 DEF TypeOK, historyVars
  <2> QED BY <1>1, <1>2, <2>1, ReadsNext DEF historyVars
<1>3. CASE stage \in {"handling", "dying"} /\ stage' = "idle" /\ UNCHANGED status
  <2>1. UNCHANGED <<socket, link, status, inbound, rpos, starts, delivered, synced, died, late>>
    BY <1>1, <1>3 DEF socketVars, inVars, historyVars
  <2>2. TypeOK'
    BY <1>3, <2>1 DEF TypeOK, SocketTypeOK
  <2>3. InStep'
    BY <1>3, <2>1 DEF InStep, DeathIsFinal, Even
  <2>4. DeathIsFinal' /\ LateIsLast' /\ OneLatePacket'
    BY <1>3, <2>1 DEF DeathIsFinal, Exhausted, Reading, Parts, LateIsLast, OneLatePacket
  <2>5. PacketsInOrder'
    <3>1. Handed' = Handed
      BY <1>3, <2>1 DEF Handed
    <3> QED BY <2>1, <3>1 DEF PacketsInOrder
  <2> QED BY <2>2, <2>3, <2>4, <2>5
<1> QED BY <1>2, <1>3 DEF Callbacks, HandleReturns, DeathReturns, LoopResumesAt, GoesOnAfterDeath

(* The size has been read: the read of the data starts. *)
LEMMA SizeReadStep == IInv /\ SizeRead => IInv'
<1> SUFFICES ASSUME IInv, SizeRead PROVE IInv'
  OBVIOUS
<1> USE DEF IInv
<1>1. /\ stage = "size" /\ status = "ok"
      /\ stage' = "data" /\ status' = ReadStatus(socket)
      /\ UNCHANGED <<socket, link, inbound, rpos, starts, delivered, synced, died, late>>
  BY DEF SizeRead, AsyncRead, socketVars, inVars, historyVars
<1>2. status' \in {"pending", "failed"} /\ (status' = "failed" <=> socket = "closed")
  BY <1>1 DEF ReadStatus, TypeOK, SocketTypeOK
<1>3. TypeOK'
  BY <1>1, <1>2, ReaderTypes DEF TypeOK, SocketTypeOK, Status
<1>4. InStep'
  BY <1>1, <1>2 DEF InStep, Odd
<1>5. DeathIsFinal' /\ LateIsLast' /\ OneLatePacket'
  BY <1>1, <1>2 DEF DeathIsFinal, Exhausted, Reading, Parts, LateIsLast, OneLatePacket
<1>6. PacketsInOrder'
  <2>1. Handed' = Handed
    BY <1>1, <1>2 DEF Handed
  <2> QED BY <1>1, <2>1 DEF PacketsInOrder
<1> QED BY <1>3, <1>4, <1>5, <1>6

(* The loop's handler calls on_handle.  On a closed socket this is the     *)
(* late packet: none was late before, because a read has just succeeded.   *)
LEMMA Hands ==
    ASSUME IInv, stage \in Parts, status = "ok",
           NEW packet \in Junk .. MaxFrames, Invoke(FALSE, packet),
           UNCHANGED <<socketVars, inVars>>, synced' \in BOOLEAN,
           synced' => synced /\ stage = "data" /\ packet = rpos \div 2
    PROVE  IInv'
<1> USE DEF IInv
<1>1. /\ stage' = "handling" /\ delivered' = Append(delivered, packet)
      /\ late' = IF socket = "closed" /\ late < 2 THEN late + 1 ELSE late
      /\ UNCHANGED <<socket, link, status, inbound, rpos, starts, died>>
  BY DEF Invoke, socketVars, inVars
<1>2. late = 0 /\ late' \in {0, 1} /\ (late' = 1 => socket = "closed")
  BY <1>1, ReaderTypes DEF LateIsLast, Reading
<1>3. delivered' \in Seq(Junk .. MaxFrames)
  BY <1>1 DEF TypeOK
<1>4. TypeOK'
  BY <1>1, <1>2, <1>3 DEF TypeOK, SocketTypeOK
<1>5. InStep'
  BY <1>1 DEF InStep, Even, Parts
<1>6. DeathIsFinal' /\ LateIsLast' /\ OneLatePacket'
  BY <1>1, <1>2 DEF DeathIsFinal, Exhausted, Reading, Parts, LateIsLast, OneLatePacket
<1>7. PacketsInOrder'
  <2>1. SUFFICES ASSUME synced' PROVE delivered' = [i \in 1 .. Handed' |-> i]
    BY DEF PacketsInOrder
  <2>2. synced /\ stage = "data" /\ packet = rpos \div 2
    BY <2>1
  <2>3. rpos = 2 * (rpos \div 2) /\ rpos \div 2 \in Nat /\ rpos >= 2
    BY <2>2, ReaderTypes, Parity DEF InStep
  <2> DEFINE n == rpos \div 2 - 1
  <2>4. n \in Nat /\ n + 1 = rpos \div 2 /\ Handed = n /\ Handed' = n + 1
    BY <1>1, <2>2, <2>3 DEF Handed
  <2>5. delivered = [i \in 1 .. n |-> i]
    BY <2>2, <2>4 DEF PacketsInOrder
  <2> QED BY <1>1, <2>2, <2>4, <2>5, NextDelivered
<1> QED BY <1>4, <1>5, <1>6, <1>7

(* The buffer cannot be allocated. *)
LEMMA AllocationFailsStep == IInv /\ AllocationFails => IInv'
<1> SUFFICES ASSUME IInv, AllocationFails PROVE IInv'
  OBVIOUS
<1>1. Junk \in Junk .. MaxFrames
  BY ReaderAssumption DEF Junk
<1>2. stage \in Parts /\ status = "ok" /\ synced' = FALSE
  BY DEF AllocationFails, Parts
<1>3. Invoke(FALSE, Junk) /\ UNCHANGED <<socketVars, inVars>>
  BY DEF AllocationFails, FailureIsError
<1> QED BY <1>1, <1>2, <1>3, Hands

(* A packet is complete, or a read has failed. *)
LEMMA ReadDoneStep == IInv /\ ReadDone => IInv'
<1> SUFFICES ASSUME IInv, ReadDone PROVE IInv'
  OBVIOUS
<1> USE DEF IInv
<1>1. stage \in Parts /\ UNCHANGED <<socketVars, inVars, synced>>
      /\ Invoke(status = "failed", PacketRead)
  BY DEF ReadDone, IsError
<1>2. CASE stage = "data" /\ status = "ok"
  <2>1. PacketRead \in Junk .. MaxFrames
    <3>1. ASSUME synced PROVE rpos \div 2 \in 0 .. MaxFrames
      BY <1>2, <3>1, ReaderTypes, Parity DEF InStep
    <3> QED BY <3>1, ReaderTypes DEF PacketRead, Junk
  <2>2. Invoke(FALSE, PacketRead)
    BY <1>1, <1>2
  <2>3. synced' \in BOOLEAN /\ (synced' => synced /\ stage = "data" /\ PacketRead = rpos \div 2)
    BY <1>1, <1>2 DEF TypeOK, PacketRead
  <2> QED BY <1>1, <1>2, <2>1, <2>2, <2>3, Hands
<1>3. CASE status = "failed"
  <2>1. /\ stage' = "dying" /\ died' = TRUE
        /\ UNCHANGED <<socket, link, status, inbound, rpos, starts, delivered, synced, late>>
    BY <1>1, <1>3 DEF Invoke, socketVars, inVars
  <2>2. TypeOK'
    BY <2>1 DEF TypeOK, SocketTypeOK
  <2>3. InStep' /\ DeathIsFinal' /\ LateIsLast' /\ OneLatePacket'
    BY <1>1, <1>3, <2>1 DEF InStep, DeathIsFinal, Exhausted, Reading, Parts, LateIsLast, OneLatePacket
  <2>4. PacketsInOrder'
    <3>1. Handed' = Handed
      BY <1>3, <2>1 DEF Handed
    <3> QED BY <2>1, <3>1 DEF PacketsInOrder
  <2> QED BY <2>2, <2>3, <2>4
<1> QED BY <1>2, <1>3 DEF ReadDone

(* What has arrived completes a pending read; nothing has been read for    *)
(* good then, and no loop has died.                                        *)
LEMMA ReadCompletesStep == IInv /\ ReadCompletes => IInv'
<1> SUFFICES ASSUME IInv, ReadCompletes PROVE IInv'
  OBVIOUS
<1> USE DEF IInv
<1>1. /\ stage \in Parts /\ status = "pending" /\ socket = "open" /\ rpos < inbound
      /\ status' = "ok"
      /\ UNCHANGED <<socket, link, stage, starts, inbound, delivered, synced, died, late>>
      /\ synced => rpos' = rpos + 1
      /\ rpos' \in rpos .. inbound
  BY ReaderTypes DEF ReadCompletes, socketVars, historyVars
<1>2. ~ Exhausted /\ ~ died /\ late = 0
  BY <1>1, ReaderTypes DEF DeathIsFinal, Exhausted, LateIsLast
<1>3. TypeOK'
  BY <1>1, ReaderTypes DEF TypeOK, SocketTypeOK, Status
<1>4. InStep'
  BY <1>1, <1>2, ReaderTypes, Parity DEF InStep, Parts
<1>5. DeathIsFinal' /\ LateIsLast' /\ OneLatePacket'
  BY <1>1, <1>2 DEF DeathIsFinal, Exhausted, Reading, Parts, LateIsLast, OneLatePacket
<1>6. PacketsInOrder'
  <2>1. SUFFICES ASSUME synced PROVE Handed' = Handed
    BY <1>1 DEF PacketsInOrder
  <2>2. rpos' = rpos + 1
    BY <1>1, <2>1
  <2>3. CASE stage = "size"
    BY <1>1, <1>2, <2>1, <2>2, <2>3, ReaderTypes, Parity DEF InStep, Handed, Even
  <2>4. CASE stage = "data"
    BY <1>1, <2>1, <2>2, <2>4, ReaderTypes, Parity DEF InStep, Handed
  <2> QED BY <1>1, <2>3, <2>4 DEF Parts
<1> QED BY <1>3, <1>4, <1>5, <1>6

(* A read that fails leaves nothing to be read. *)
LEMMA ReadFailsStep == IInv /\ ReadFails => IInv'
<1> SUFFICES ASSUME IInv, ReadFails PROVE IInv'
  OBVIOUS
<1> USE DEF IInv
<1>1. /\ stage \in Parts /\ status = "pending" /\ status' = "failed"
      /\ UNCHANGED <<socket, link, stage, starts, inbound, delivered, synced, died, late>>
      /\ socket = "closed" \/ (link = "down" /\ rpos' = inbound)
      /\ synced \/ socket = "closed" => rpos' = rpos
      /\ rpos' \in 0 .. inbound
  BY ReaderTypes DEF ReadFails, socketVars, historyVars
<1>2. TypeOK'
  BY <1>1, ReaderTypes DEF TypeOK, SocketTypeOK, Status
<1>3. InStep'
  BY <1>1 DEF InStep, Parts
<1>4. DeathIsFinal' /\ LateIsLast' /\ OneLatePacket'
  BY <1>1 DEF DeathIsFinal, Exhausted, Reading, Parts, LateIsLast, OneLatePacket
<1>5. PacketsInOrder'
  <2>1. synced => Handed' = Handed
    BY <1>1 DEF Handed
  <2> QED BY <1>1, <2>1 DEF PacketsInOrder
<1> QED BY <1>2, <1>3, <1>4, <1>5

(* The peer sends, the connection breaks, the socket is closed: what the   *)
(* loop is at does not change, and what is exhausted stays so.             *)
LEMMA EnvironmentStep == IInv /\ (Peer \/ SocketCloses) => IInv'
<1> SUFFICES ASSUME IInv, Peer \/ SocketCloses PROVE IInv'
  OBVIOUS
<1> USE DEF IInv
<1>1. /\ UNCHANGED <<stage, status, rpos, starts, delivered, synced, died, late>>
      /\ Exhausted => Exhausted'
      /\ socket = "closed" => socket' = "closed"
      /\ inbound' \in 0 .. 2 * MaxFrames /\ rpos <= inbound'
      /\ socket' \in {"open", "closed"} /\ link' \in {"up", "down"}
  BY ReaderTypes DEF Peer, PartArrives, LinkDown, SocketCloses, Exhausted, TypeOK, SocketTypeOK,
                     socketVars, readerVars, loopVars, inVars, historyVars
<1>2. TypeOK'
  BY <1>1, ReaderTypes DEF TypeOK, SocketTypeOK
<1>3. InStep' /\ DeathIsFinal' /\ LateIsLast' /\ OneLatePacket'
  BY <1>1 DEF InStep, DeathIsFinal, Reading, LateIsLast, OneLatePacket
<1>4. PacketsInOrder'
  <2>1. Handed' = Handed
    BY <1>1 DEF Handed
  <2> QED BY <1>1, <2>1 DEF PacketsInOrder
<1> QED BY <1>2, <1>3, <1>4

LEMMA NextStep == IInv /\ [Next]_vars => IInv'
<1> SUFFICES ASSUME IInv, [Next]_vars PROVE IInv'
  OBVIOUS
<1>1. CASE UNCHANGED vars
  BY <1>1 DEF vars, socketVars, readerVars, loopVars, inVars, historyVars, IInv, TypeOK, SocketTypeOK,
              InStep, DeathIsFinal, Exhausted, Reading, LateIsLast, PacketsInOrder, Handed, OneLatePacket
<1> QED BY <1>1, StartStep, CallbacksStep, SizeReadStep, AllocationFailsStep, ReadDoneStep,
           ReadCompletesStep, ReadFailsStep, EnvironmentStep
        DEF Next, Handlers, Kernel

-----------------------------------------------------------------------------

(* The invariant of the read half: where reads begin while they are in     *)
(* step, that a failed read is the last word of a connection, and that the *)
(* packet handed over on a closed socket is followed by no other.          *)
THEOREM ReaderInvariant == Spec => []IInv
<1> QED BY InitIInv, NextStep, PTL DEF Spec
=============================================================================
