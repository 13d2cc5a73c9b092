---------------------- MODULE DatagramConnectionProofs ----------------------
(***************************************************************************)
(* Theorems about DatagramConnection, for any number of datagrams sent and *)
(* received.                                                               *)
(***************************************************************************)
EXTENDS DatagramConnection, TLAPS

(* Exactly one of two things is going on: a receive is in flight or its    *)
(* handler waits, or onHandle runs on the buffer that was filled last.     *)
IInv ==
    /\ TypeOK
    /\ receive = "none" <=> handling > 0
    /\ handling > 0 => holds = handling
    /\ receive = "ok" => holds > 0

(* What RecvLoopAsync leaves behind it. *)
LEMMA Rearmed ==
    ASSUME TypeOK, RecvLoopAsync
    PROVE  receive' \in {"pending", "failed"}
BY DEF RecvLoopAsync

LEMMA InitIInv == Init => IInv
<1> SUFFICES ASSUME Init PROVE IInv
  OBVIOUS
<1>1. /\ arrived \in 0 .. MaxArrivals
      /\ sent \in 0 .. MaxSends
      /\ holds \in 0 .. arrived
      /\ handling \in 0 .. arrived
  BY DatagramAssumption DEF Init
<1>2. sending \in SUBSET (1 .. sent)
  BY DEF Init
<1>3. /\ owned \in BOOLEAN /\ crashed \in BOOLEAN
      /\ socket \in {"open", "closed"}
      /\ receive \in {"none", "pending", "ok", "failed"}
  BY DEF Init
<1>4. TypeOK
  BY <1>1, <1>2, <1>3 DEF TypeOK
<1> QED BY <1>4 DEF Init, IInv

(* The steps of the owner, which leave the loop alone. *)
LEMMA OwnerStep ==
    ASSUME IInv, Send \/ SendDone \/ Destroy
    PROVE  IInv'
<1>1. CASE Send
  <2>1. sent' \in 0 .. MaxSends /\ sending' \in SUBSET (1 .. sent')
    BY <1>1, DatagramAssumption DEF Send, IInv, TypeOK
  <2> QED BY <1>1, <2>1 DEF Send, IInv, TypeOK
<1>2. CASE SendDone
  BY <1>2 DEF SendDone, IInv, TypeOK
<1>3. CASE Destroy
  BY <1>3 DEF Destroy, IInv, TypeOK
<1> QED BY <1>1, <1>2, <1>3

(* The steps of the loop. *)
LEMMA LoopStep ==
    ASSUME IInv, Loop
    PROVE  IInv'
<1>1. CASE ReceiveDone
  <2>1. /\ receive' = "none"
        /\ handling' = holds
        /\ UNCHANGED <<owned, socket, holds, arrived, sending, sent, crashed>>
    BY <1>1 DEF ReceiveDone, BeforeHandler, Handed
  <2>2. holds > 0 /\ holds \in 0 .. arrived
    BY <1>1 DEF ReceiveDone, IInv, TypeOK
  <2> QED BY <2>1, <2>2 DEF IInv, TypeOK
<1>2. CASE HandlerThrows
  BY <1>2 DEF HandlerThrows, IInv, TypeOK
<1>3. CASE HandlerReturns
  <2>1. /\ receive' \in {"pending", "failed"}
        /\ handling' = 0
        /\ UNCHANGED <<owned, socket, holds, arrived, sending, sent, crashed>>
    BY <1>3, Rearmed DEF HandlerReturns, IInv
  <2>2. arrived \in Nat
    BY DatagramAssumption DEF IInv, TypeOK
  <2> QED BY <2>1, <2>2 DEF IInv, TypeOK
<1>4. CASE ReceiveFailed
  <2>1. /\ receive = "failed"
        /\ receive' \in {"pending", "failed"}
        /\ UNCHANGED <<owned, socket, holds, arrived, handling, sending, sent, crashed>>
    BY <1>4, Rearmed DEF ReceiveFailed, AfterError, IInv
  <2> QED BY <2>1 DEF IInv, TypeOK
<1> QED BY <1>1, <1>2, <1>3, <1>4 DEF Loop

(* The steps of network and kernel. *)
LEMMA NetworkStep ==
    ASSUME IInv, Arrives \/ ReceiveFails
    PROVE  IInv'
<1>1. CASE Arrives
  <2>1. /\ receive = "pending"
        /\ receive' = "ok"
        /\ arrived' = arrived + 1
        /\ holds' = arrived + 1
        /\ arrived < MaxArrivals
        /\ UNCHANGED <<owned, socket, handling, sending, sent, crashed>>
    BY <1>1 DEF Arrives
  <2>2. arrived \in Nat /\ handling = 0
    BY <2>1, DatagramAssumption DEF IInv, TypeOK
  <2>3. arrived' \in 0 .. MaxArrivals /\ holds' \in 0 .. arrived' /\ handling' \in 0 .. arrived'
    BY <2>1, <2>2, DatagramAssumption
  <2> QED BY <2>1, <2>2, <2>3 DEF IInv, TypeOK
<1>2. CASE ReceiveFails
  BY <1>2 DEF ReceiveFails, IInv, TypeOK
<1> QED BY <1>1, <1>2

LEMMA NextStep == IInv /\ [Next]_vars => IInv'
<1> SUFFICES ASSUME IInv, [Next]_vars PROVE IInv'
  OBVIOUS
<1>1. CASE Next
  BY <1>1, OwnerStep, LoopStep, NetworkStep DEF Next
<1>2. CASE UNCHANGED vars
  BY <1>2 DEF vars, IInv, TypeOK
<1> QED BY <1>1, <1>2

(* The invariant of the receive loop. *)
THEOREM DatagramInvariant == Spec => []IInv
<1> QED BY InitIInv, NextStep, PTL DEF Spec

(* Type correctness of the datagram connection. *)
THEOREM DatagramTypeOK == Spec => []TypeOK
<1>1. IInv => TypeOK
  BY DEF IInv
<1> QED BY <1>1, DatagramInvariant, PTL

(* The one buffer is never filled while onHandle works on it. *)
THEOREM DatagramBufferIsQuiet == Spec => []BufferIsQuiet
<1>1. IInv => BufferIsQuiet
  BY DEF IInv, BufferIsQuiet
<1> QED BY <1>1, DatagramInvariant, PTL

(* The loop goes on for ever, with or without an owner, on an open socket  *)
(* and on a closed one.                                                    *)
THEOREM DatagramLoopGoesOn == Spec => []LoopGoesOn
<1>1. IInv => LoopGoesOn
  BY DEF IInv, LoopGoesOn
<1> QED BY <1>1, DatagramInvariant, PTL
=============================================================================
