----------------------------- MODULE WorkerPool -----------------------------
(***************************************************************************)
(* bacs::io_worker, io_worker_pool and async_accept_loop: threads that run *)
(* one io_context, and the loop that accepts connections on them.          *)
(*                                                                         *)
(* An io_context stops when stop() is called, and also when a thread that  *)
(* runs it finds no work, or finishes the last; nothing here restarts it.  *)
(* Work is an operation in flight or a handler that waits or runs.  The    *)
(* accept loop puts every connection into one socket, out of which the     *)
(* caller's handler has to move it; a session stands for the operations of *)
(* the client that is made of it.  Once stop() was called, waiting         *)
(* handlers are never run.                                                 *)
(***************************************************************************)
EXTENDS Integers, FiniteSets

CONSTANTS
    Threads,     \* of a pool; an io_worker has one of them
    MaxArrivals  \* bound: connections that arrive

VARIABLES
    kind,     \* "worker" or "pool"
    owner,    \* what the owner of the worker or pool is at
    moved,    \* history: the pool was moved from
    thread,   \* where each thread is
    conn,     \* the session whose handler a thread runs, or 0
    stopped,  \* the io_context is stopped
    started,  \* async_accept_loop has been called
    late,     \* history: it was called on a stopped io_context
    accept,   \* status of the accept in flight, "none" when there is none
    failed,   \* history: an accept has failed
    peer,     \* the connection in the loop's socket, or 0
    arrived,  \* number of connections that have arrived
    handed,   \* number of connections the loop's handler was called with
    session,  \* state of the client made of each connection
    crashed   \* std::terminate

ownerVars == <<kind, owner, moved>>
threadVars == <<thread, conn>>
loopVars == <<started, late, accept, failed, peer, handed>>
vars == <<ownerVars, threadVars, stopped, loopVars, arrived, session, crashed>>

Connections == 1 .. MaxArrivals

Handling == {"accepting", "refused", "serving"}

TypeOK ==
    /\ kind \in {"worker", "pool"}
    /\ owner \in {"none", "up", "run", "ran", "stopping", "gone"}
    /\ thread \in [Threads -> Handling \cup {"none", "entering", "running", "returned", "joined"}]
    /\ conn \in [Threads -> 0 .. handed]
    /\ accept \in {"none", "pending", "ok", "failed"}
    /\ arrived \in 0 .. MaxArrivals
    /\ handed \in 0 .. arrived
    /\ peer \in {0, handed, handed + 1}
    /\ session \in [Connections -> {"none", "reading", "ready", "served", "ended"}]
    /\ {moved, stopped, started, late, failed, crashed} \subseteq BOOLEAN

Init ==
    /\ kind \in {"worker", "pool"}
    /\ owner = "none"
    /\ thread = [t \in Threads |-> "none"]
    /\ conn = [t \in Threads |-> 0]
    /\ accept = "none"
    /\ arrived = 0 /\ handed = 0 /\ peer = 0
    /\ session = [c \in Connections |-> "none"]
    /\ moved = FALSE /\ stopped = FALSE /\ crashed = FALSE
    /\ started = FALSE /\ late = FALSE /\ failed = FALSE

(* The threads of an io_worker, and of an io_worker_pool. *)
Workers_All == Threads
Workers == IF kind = "pool" THEN Threads ELSE {CHOOSE t \in Threads : TRUE}

Terminate ==
    /\ crashed' = TRUE
    /\ UNCHANGED <<ownerVars, threadVars, stopped, loopVars, arrived, session>>

-----------------------------------------------------------------------------
(***************************************************************************)
(* The owner                                                               *)
(***************************************************************************)

Create ==
    /\ owner = "none"
    /\ owner' = "up"
    /\ thread' = [t \in Threads |-> IF t \in Workers THEN "entering" ELSE "none"]
    /\ UNCHANGED <<kind, moved, conn, stopped, loopVars, arrived, session, crashed>>

(* A thread of a pool cannot be created: the exception destroys those that *)
(* were, unjoined.                                                         *)
CreateFails == owner = "none" /\ Cardinality(Workers) > 1 /\ Terminate

(* asio refuses to accept into a socket that is open. *)
Accepting == IF peer = 0 THEN "pending" ELSE "failed"

(* Before or after Create, by the same thread. *)
StartAcceptLoop ==
    /\ owner \in {"none", "up"}
    /\ ~ started
    /\ started' = TRUE
    /\ late' = stopped
    /\ accept' = Accepting
    /\ UNCHANGED <<ownerVars, threadVars, stopped, failed, peer, handed, arrived, session, crashed>>

(* io_worker::run joins the thread; the destructor will join it again. *)
Run ==
    /\ kind = "worker"
    /\ \/ owner = "up" /\ owner' = "run" /\ UNCHANGED thread
       \/ /\ owner = "run"
          /\ \E t \in Workers :
              thread[t] = "returned" /\ thread' = [thread EXCEPT ![t] = "joined"]
          /\ owner' = "ran"
    /\ UNCHANGED <<kind, moved, conn, stopped, loopVars, arrived, session, crashed>>

(* A moved-from object is destroyed too: it stops the io_context.  An      *)
(* io_worker then joins no thread, which throws; the threads of a pool     *)
(* keep the address of the moved-from object until they have called run(). *)
Move ==
    /\ owner = "up"
    /\ \/ /\ kind = "pool"
          /\ stopped' = TRUE
          /\ moved' = TRUE
          /\ UNCHANGED <<kind, owner, threadVars, loopVars, arrived, session, crashed>>
       \/ /\ kind = "worker" \/ \E t \in Workers : thread[t] = "entering"
          /\ Terminate

(* The destructor stops the io_context and joins every thread. *)
StoppedByDestructor_Not == stopped
StoppedByDestructor == TRUE

Destroy ==
    \/ /\ owner = "up"
       /\ owner' = "stopping"
       /\ stopped' = StoppedByDestructor
       /\ UNCHANGED <<kind, moved, threadVars, loopVars, arrived, session, crashed>>
    \/ owner = "ran" /\ Terminate

Joins_Any == \E t \in Workers : thread[t] = "joined"
Joins == \A t \in Workers : thread[t] = "joined"

Join ==
    /\ owner = "stopping"
    /\ IF Joins
       THEN owner' = "gone" /\ UNCHANGED thread
       ELSE /\ \E t \in Workers :
                thread[t] = "returned" /\ thread' = [thread EXCEPT ![t] = "joined"]
            /\ UNCHANGED owner
    /\ UNCHANGED <<kind, moved, conn, stopped, loopVars, arrived, session, crashed>>

-----------------------------------------------------------------------------
(***************************************************************************)
(* The threads, in io_context::run                                         *)
(***************************************************************************)

HasWork ==
    \/ accept # "none"
    \/ \E c \in Connections : session[c] \in {"reading", "ready"}
    \/ \E t \in Threads : thread[t] \in Handling

(* A thread that finds no work stops the io_context. *)
EnterRun(t) ==
    /\ thread[t] = "entering"
    /\ stopped' = (stopped \/ ~ HasWork)
    /\ thread' = [thread EXCEPT ![t] = IF stopped' THEN "returned" ELSE "running"]
    /\ UNCHANGED <<ownerVars, conn, loopVars, arrived, session, crashed>>

LeaveRun(t) ==
    /\ thread[t] = "running"
    /\ stopped
    /\ thread' = [thread EXCEPT ![t] = "returned"]
    /\ UNCHANGED <<ownerVars, conn, stopped, loopVars, arrived, session, crashed>>

(* A thread takes up a handler that waits. *)
TakesUp(t, what) ==
    /\ thread[t] = "running"
    /\ ~ stopped
    /\ thread' = [thread EXCEPT ![t] = what]
    /\ UNCHANGED <<ownerVars, stopped, arrived, crashed>>

(* A handler is done; with the last work the io_context stops. *)
Finishes(t) ==
    /\ thread' = [thread EXCEPT ![t] = "running"]
    /\ stopped' = (stopped \/ ~ HasWork')
    /\ UNCHANGED <<ownerVars, arrived, crashed>>

(* The loop calls its handler, error or not, before it accepts again. *)
BeforeHandler_Rearms == accept' = Accepting
BeforeHandler == accept' = "none"

(* Only without an error is there a connection in the socket. *)
HandedBy_Any == handed + 1
HandedBy == IF accept = "ok" THEN handed + 1 ELSE handed

RunAcceptHandler(t) ==
    /\ accept \in {"ok", "failed"}
    /\ TakesUp(t, IF accept = "ok" THEN "accepting" ELSE "refused")
    /\ BeforeHandler
    /\ failed' = (failed \/ accept = "failed")
    /\ handed' = HandedBy
    /\ UNCHANGED <<conn, started, late, peer, session>>

(* The caller's handler moves the socket into a client and starts it. *)
HandlerTakes(t) ==
    /\ thread[t] = "accepting"
    /\ peer # 0
    /\ peer' = 0
    /\ session' = [session EXCEPT ![peer] = "reading"]
    /\ UNCHANGED <<ownerVars, threadVars, stopped, started, late, accept, failed, handed, arrived, crashed>>

(* The loop goes on unless there was an error. *)
GoesOn_Once(ec) == FALSE
GoesOn(ec) == ~ ec

AcceptHandlerReturns(t) ==
    /\ thread[t] \in {"accepting", "refused"}
    /\ accept' = IF GoesOn(thread[t] = "refused") THEN Accepting ELSE accept
    /\ UNCHANGED <<conn, started, late, failed, peer, handed, session>>
    /\ Finishes(t)

RunSessionHandler(t) ==
    /\ \E c \in Connections :
        /\ session[c] = "ready"
        /\ session' = [session EXCEPT ![c] = "served"]
        /\ conn' = [conn EXCEPT ![t] = c]
    /\ TakesUp(t, "serving")
    /\ UNCHANGED loopVars

(* The client reads on, or is done. *)
SessionHandlerReturns(t) ==
    /\ thread[t] = "serving"
    /\ \E s \in {"reading", "ended"} : session' = [session EXCEPT ![conn[t]] = s]
    /\ conn' = [conn EXCEPT ![t] = 0]
    /\ UNCHANGED loopVars
    /\ Finishes(t)

(* Nothing between the caller's handler and the thread's function catches  *)
(* what it throws.  (For the handlers of sessions see DualConnection and   *)
(* DatagramConnection.)                                                    *)
HandlerThrows(t) == thread[t] \in {"accepting", "refused"} /\ Terminate

-----------------------------------------------------------------------------

Arrive ==
    /\ arrived < MaxArrivals
    /\ arrived' = arrived + 1
    /\ UNCHANGED <<ownerVars, threadVars, stopped, loopVars, session, crashed>>

AcceptCompletes ==
    /\ accept = "pending"
    /\ handed < arrived
    /\ accept' = "ok"
    /\ peer' = handed + 1
    /\ UNCHANGED <<ownerVars, threadVars, stopped, started, late, failed, handed, arrived, session, crashed>>

(* No descriptors are left, or the connection was given up meanwhile. *)
AcceptFails ==
    /\ accept = "pending"
    /\ accept' = "failed"
    /\ UNCHANGED <<ownerVars, threadVars, stopped, started, late, failed, peer, handed, arrived, session, crashed>>

SessionReady ==
    /\ \E c \in Connections :
        session[c] = "reading" /\ session' = [session EXCEPT ![c] = "ready"]
    /\ UNCHANGED <<ownerVars, threadVars, stopped, loopVars, arrived, crashed>>

-----------------------------------------------------------------------------

Owner == Create \/ CreateFails \/ StartAcceptLoop \/ Run \/ Move \/ Destroy \/ Join

RunLoop(t) == EnterRun(t) \/ LeaveRun(t) \/ RunAcceptHandler(t) \/ RunSessionHandler(t)

Returns(t) == AcceptHandlerReturns(t) \/ SessionHandlerReturns(t)

Kernel == Arrive \/ AcceptCompletes \/ AcceptFails \/ SessionReady
=============================================================================
