---------------------------- MODULE StreamSocket ----------------------------
(***************************************************************************)
(* The asio stream socket that gspp::StreamClient keeps in its shared      *)
(* state block, as the code under src/ uses it.  Asio itself is not part   *)
(* of the repository: what is defined here is the contract of              *)
(* boost::asio::async_write / async_read on a socket that may be closed or *)
(* whose peer may be gone.                                                 *)
(*                                                                         *)
(* An asynchronous operation is an object with a status:                   *)
(*   "pending"  the operation is queued, its handler has not been posted;  *)
(*   "ok"       it has succeeded, its handler waits to be run;             *)
(*   "failed"   it has failed (error, end of file, closed socket), its     *)
(*              handler waits to be run with that error.                   *)
(* A handler is never run inside the call that starts its operation.       *)
(***************************************************************************)
EXTENDS Integers, Sequences

VARIABLES
    socket,  \* "open" until close() is called, then "closed"
    link     \* "up" until the connection breaks or the peer is gone, then "down"

socketVars == <<socket, link>>

SocketTypeOK ==
    /\ socket \in {"open", "closed"}
    /\ link \in {"up", "down"}

SocketInit ==
    /\ socket = "open"
    /\ link = "up"

Status == {"pending", "ok", "failed"}

(* A write can make progress only on an open socket with a live peer. *)
Usable(sock) == sock = "open" /\ link = "up"

(* What async_write may have achieved when it returns: the kernel took all *)
(* of the buffer at once, or part of it, or the operation failed outright. *)
WriteStatus(sock) == IF Usable(sock) THEN {"ok", "pending"} ELSE {"failed"}

(* A read is queued, unless the socket is closed already. *)
ReadStatus(sock) == IF sock = "open" THEN "pending" ELSE "failed"

(* The two parts of a size-prefixed frame, in the order they travel. *)
Parts == {"size", "data"}

(* The place of a part in the stream of all frames 1, 2, 3, ... *)
Slot(t) == IF t.part = "size" THEN 2 * t.pkt - 1 ELSE 2 * t.pkt
=============================================================================
