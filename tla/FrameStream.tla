----------------------------- MODULE FrameStream -----------------------------
(***************************************************************************)
(* What the write half of gspp::StreamClient promises, with no queue, no   *)
(* lock, no handlers and no socket: packets are accepted, and the frames   *)
(* of the accepted packets come out on one stream, in the order of         *)
(* acceptance, size before data, none twice and none left out.  Once a     *)
(* close is requested, one frame at most is finished after those already   *)
(* out; the stream is closed when it is, or when the connection broke.     *)
(***************************************************************************)
EXTENDS Integers, Sequences

CONSTANT MaxSends

VARIABLES
    accepted,  \* number of packets accepted
    stream,    \* the parts of frames that are out
    closing,   \* a close was requested
    horizon,   \* the last packet to come out then
    state      \* "live", "broken" or "closed"

fsVars == <<accepted, stream, closing, horizon, state>>

Init ==
    /\ accepted = 0
    /\ stream = <<>>
    /\ closing = FALSE
    /\ horizon = 0
    /\ state = "live"

(* The i-th part of the endless stream of frames. *)
PartAt(i) ==
    [part |-> IF i % 2 = 1 THEN "size" ELSE "data", pkt |-> (i + 1) \div 2]

(* One more part comes out, of a packet not beyond last. *)
EmitUpTo(last) ==
    /\ state = "live"
    /\ Len(stream) < 2 * last
    /\ stream' = Append(stream, PartAt(Len(stream) + 1))

Emit ==
    /\ EmitUpTo(IF closing THEN horizon ELSE accepted)
    /\ UNCHANGED <<accepted, closing, horizon, state>>

(* A packet accepted while nothing is waiting may start to come out. *)
Accept ==
    /\ accepted < MaxSends
    /\ accepted' = accepted + 1
    /\ UNCHANGED stream \/ (~ closing /\ EmitUpTo(accepted'))
    /\ UNCHANGED <<closing, horizon, state>>

(* With h the last packet to come out, the stream may close. *)
Flushed(h) == state = "live" => Len(stream) = 2 * h

RequestClose ==
    /\ ~ closing
    /\ closing' = TRUE
    /\ horizon' \in 0 .. accepted
    /\ Len(stream) <= 2 * horizon'
    /\ state = "live" => 2 * horizon' <= Len(stream) + 2
    /\ UNCHANGED state \/ (Flushed(horizon') /\ state' = "closed")
    /\ UNCHANGED <<accepted, stream>>

Shut ==
    /\ closing
    /\ state # "closed"
    /\ Flushed(horizon)
    /\ state' = "closed"
    /\ UNCHANGED <<accepted, stream, closing, horizon>>

Break ==
    /\ state = "live"
    /\ state' = "broken"
    /\ UNCHANGED <<accepted, stream, closing, horizon>>

Next == Emit \/ Accept \/ RequestClose \/ Shut \/ Break

(* What may happen, and with fairness what must. *)
SafeSpec == Init /\ [][Next]_fsVars

Spec == SafeSpec /\ WF_fsVars(Emit) /\ WF_fsVars(Shut)
=============================================================================
