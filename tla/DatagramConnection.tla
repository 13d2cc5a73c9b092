------------------------- MODULE DatagramConnection -------------------------
(***************************************************************************)
(* gspp::DatagramConnection, used directly or shared by DatagramClients:   *)
(* a receive loop that fills one buffer over and over, sends that do not   *)
(* wait for each other, and a socket that the destructor closes under      *)
(* both.  The state block with socket and buffer is kept by the object and *)
(* by the handlers that wait to be run.                                    *)
(*                                                                         *)
(* The network may lose, duplicate and reorder datagrams; a receive may    *)
(* also fail on a socket that stays open.                                  *)
(***************************************************************************)
EXTENDS Integers

CONSTANTS
    MaxSends,    \* bound: datagrams sent
    MaxArrivals  \* bound: datagrams that arrive

ASSUME DatagramAssumption ==
    /\ MaxSends \in Nat
    /\ MaxArrivals \in Nat

VARIABLES
    owned,     \* the DatagramConnection object exists
    socket,    \* "open" or "closed"
    receive,   \* status of the receive in flight, "none" while its handler runs
    holds,     \* the arrival the buffer was last filled with, 0 at first
    arrived,   \* number of datagrams that have arrived
    handling,  \* the arrival onHandle was called with, 0 when it is not running
    sending,   \* the datagrams whose send is in flight
    sent,      \* number of datagrams sent
    crashed    \* an exception left a handler: std::terminate

vars == <<owned, socket, receive, holds, arrived, handling, sending, sent, crashed>>

TypeOK ==
    /\ owned \in BOOLEAN
    /\ socket \in {"open", "closed"}
    /\ receive \in {"none", "pending", "ok", "failed"}
    /\ arrived \in 0 .. MaxArrivals
    /\ holds \in 0 .. arrived
    /\ handling \in 0 .. arrived
    /\ sending \in SUBSET (1 .. sent)
    /\ sent \in 0 .. MaxSends
    /\ crashed \in BOOLEAN

(* The constructor starts the receive loop. *)
Init ==
    /\ owned = TRUE
    /\ socket = "open"
    /\ receive = "pending"
    /\ holds = 0
    /\ arrived = 0
    /\ handling = 0
    /\ sending = {}
    /\ sent = 0
    /\ crashed = FALSE

-----------------------------------------------------------------------------

(* SendAsync: the handler keeps state block and bytes until it is run. *)
Send ==
    /\ owned /\ ~ crashed
    /\ sent < MaxSends
    /\ sent' = sent + 1
    /\ sending' = sending \cup {sent + 1}
    /\ UNCHANGED <<owned, socket, receive, holds, arrived, handling, crashed>>

(* Sent or failed, the handler does nothing. *)
SendDone ==
    /\ ~ crashed
    /\ \E d \in sending : sending' = sending \ {d}
    /\ UNCHANGED <<owned, socket, receive, holds, arrived, handling, sent, crashed>>

(* ~DatagramConnection *)
Destroy ==
    /\ owned /\ ~ crashed
    /\ owned' = FALSE
    /\ socket' = "closed"
    /\ UNCHANGED <<receive, holds, arrived, handling, sending, sent, crashed>>

-----------------------------------------------------------------------------

(* RecvLoopAsync starts a receive into the one buffer. *)
RecvLoopAsync == receive' = IF socket = "open" THEN "pending" ELSE "failed"

(* The handler of a receive calls the loop's handler before it starts the  *)
(* next receive.                                                           *)
BeforeHandler_Rearms == RecvLoopAsync
BeforeHandler == receive' = "none"

(* What onHandle is given. *)
Handed_Next == holds + 1
Handed == holds

ReceiveDone ==
    /\ ~ crashed
    /\ receive = "ok"
    /\ BeforeHandler
    /\ handling' = Handed
    /\ UNCHANGED <<owned, socket, holds, arrived, sending, sent, crashed>>

(* Nothing catches what onHandle throws.  The empty onHandle that is the   *)
(* default throws on every datagram.                                       *)
HandlerThrows ==
    /\ ~ crashed
    /\ handling > 0
    /\ crashed' = TRUE
    /\ UNCHANGED <<owned, socket, receive, holds, arrived, handling, sending, sent>>

(* onHandle returns, and the loop goes on. *)
HandlerReturns ==
    /\ ~ crashed
    /\ handling > 0
    /\ handling' = 0
    /\ RecvLoopAsync
    /\ UNCHANGED <<owned, socket, holds, arrived, sending, sent, crashed>>

(* An error is passed over, and the loop goes on whatever it was. *)
AfterError_Stops == receive' = "none"
AfterError == RecvLoopAsync

ReceiveFailed ==
    /\ ~ crashed
    /\ receive = "failed"
    /\ AfterError
    /\ UNCHANGED <<owned, socket, holds, arrived, handling, sending, sent, crashed>>

-----------------------------------------------------------------------------

(* A datagram fills the buffer of a receive in flight. *)
Arrives ==
    /\ ~ crashed
    /\ receive = "pending"
    /\ socket = "open"
    /\ arrived < MaxArrivals
    /\ arrived' = arrived + 1
    /\ holds' = arrived + 1
    /\ receive' = "ok"
    /\ UNCHANGED <<owned, socket, handling, sending, sent, crashed>>

(* A receive in flight fails: aborted by close(), or with an error that is *)
(* reported on the open socket, at any time: an unreachable peer of an     *)
(* earlier send, a datagram that is too long, an interface that is down.   *)
ReceiveFails ==
    /\ ~ crashed
    /\ receive = "pending"
    /\ receive' = "failed"
    /\ UNCHANGED <<owned, socket, holds, arrived, handling, sending, sent, crashed>>

-----------------------------------------------------------------------------

Loop == ReceiveDone \/ HandlerThrows \/ HandlerReturns \/ ReceiveFailed

Next == Send \/ SendDone \/ Destroy \/ Loop \/ Arrives \/ ReceiveFails

Spec == Init /\ [][Next]_vars

-----------------------------------------------------------------------------
(***************************************************************************)
(* Properties                                                              *)
(***************************************************************************)

(* The buffer onHandle works on is not filled again before it returns: one *)
(* buffer serves all receives.                                             *)
BufferIsQuiet == handling > 0 => holds = handling /\ receive = "none"

(* No error ends the loop, and the owner's end does not either: a receive  *)
(* is in flight, its handler waits to be run, or onHandle runs.  On an     *)
(* open socket that is as it should be.  On the closed one it keeps state  *)
(* block, socket and buffer for good: each handler starts the next         *)
(* receive, which fails, and so on.                                        *)
LoopGoesOn == receive # "none" \/ handling > 0
=============================================================================
