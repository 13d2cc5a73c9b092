------------------------------- MODULE Server -------------------------------
(***************************************************************************)
(* A server made of these parts: a worker or a pool runs the accept loop   *)
(* and the handlers of sessions, and those handlers work on the components *)
(* of one connection, on whichever thread they run.                        *)
(***************************************************************************)
EXTENDS Integers, FiniteSets

CONSTANTS
    Threads, MaxArrivals,  \* see WorkerPool
    Types, MaxObjects      \* see Componentable

ASSUME ServerAssumption ==
    /\ IsFiniteSet(Threads) /\ Threads # {}
    /\ MaxArrivals \in Nat
    /\ MaxObjects \in Nat

VARIABLES
    kind, owner, moved, thread, conn, stopped, started, late, accept, failed,
    peer, arrived, handed, session, crashed,
    components, call, ref, made, destroyed, removed

poolVars == <<kind, owner, moved, thread, conn, stopped, started, late, accept,
              failed, peer, arrived, handed, session, crashed>>
componentVars == <<components, call, ref, made, destroyed, removed>>
vars == <<poolVars, componentVars>>

Pool == INSTANCE WorkerPool
Registry == INSTANCE Componentable WITH Users <- Threads

TypeOK == Pool!TypeOK /\ Registry!TypeOK

Init == Pool!Init /\ Registry!Init

-----------------------------------------------------------------------------

Owner == ~ crashed /\ Pool!Owner /\ UNCHANGED componentVars

RunLoop(t) == ~ crashed /\ Pool!RunLoop(t) /\ UNCHANGED componentVars

(* A handler returns when no call of its own is in progress. *)
HandlerReturns(t) == ~ crashed /\ Pool!Returns(t) /\ Registry!Forgets(t)

HandlerThrows(t) == ~ crashed /\ Pool!HandlerThrows(t) /\ UNCHANGED componentVars

HandlerTakes(t) == ~ crashed /\ Pool!HandlerTakes(t) /\ UNCHANGED componentVars

CallsComponents(t) ==
    /\ ~ crashed
    /\ thread[t] = "serving"
    /\ Registry!Calls(t) \/ Registry!DestructorCallsBack(t)
    /\ UNCHANGED poolVars

DestructorOfComponentReturns(t) ==
    ~ crashed /\ Registry!DestructorReturns(t) /\ UNCHANGED poolVars

Kernel == ~ crashed /\ Pool!Kernel /\ UNCHANGED componentVars

Next ==
    \/ Owner
    \/ \E t \in Threads :
        \/ RunLoop(t)
        \/ HandlerReturns(t) \/ HandlerThrows(t) \/ HandlerTakes(t)
        \/ CallsComponents(t) \/ DestructorOfComponentReturns(t)
    \/ Kernel

Spec == Init /\ [][Next]_vars

(* Threads run and are joined, what has arrived is accepted.  A handler    *)
(* makes finitely many calls, and a handler that waits is taken up in      *)
(* turn: neither is put off for ever by what comes and goes.               *)
FairSpec ==
    /\ Spec
    /\ \A t \in Threads :
        /\ WF_vars(RunLoop(t))
        /\ SF_vars(HandlerReturns(t))
        /\ WF_vars(DestructorOfComponentReturns(t))
    /\ SF_vars(\E t \in Threads : Pool!RunAcceptHandler(t) /\ UNCHANGED componentVars)
    /\ WF_vars(~ crashed /\ Pool!Join /\ UNCHANGED componentVars)
    /\ WF_vars(~ crashed /\ Pool!AcceptCompletes /\ UNCHANGED componentVars)
-----------------------------------------------------------------------------
(***************************************************************************)
(* Properties                                                              *)
(***************************************************************************)

(* While the accept loop's handler has the shared socket nothing is        *)
(* accepted into it, and no second thread is in that handler.              *)
SocketIsQuiet ==
    \A t \in Threads :
        thread[t] = "accepting" =>
            /\ accept = "none"
            /\ \A u \in Threads \ {t} : thread[u] \notin {"accepting", "refused"}

(* The io_context of a running server stops by itself only when the accept *)
(* loop came too late, or has ended with an error.                         *)
StopsOnlyWithoutLoop ==
    (stopped /\ owner \in {"up", "run", "ran"} /\ ~ moved) => ~ started \/ late \/ failed

(* When the destructor is back, no thread runs a handler any more: what    *)
(* handlers use may go next.                                               *)
NoHandlerAfterDestructor ==
    owner = "gone" => \A t \in Threads : thread[t] \in {"none", "joined"}

(* A component reference that a handler keeps on an io_worker, a single    *)
(* thread, is good until that handler itself removes the component.  On a  *)
(* pool any other handler may remove it.                                   *)
WorkerKeepsReferences ==
    kind = "worker" => \A t \in Threads : ref[t] \in destroyed => ref[t] \in removed[t]

(* A thread that hangs because a destructor locked its own lock again. *)
Hung == \E t \in Threads : call[t] = "stuck"

(* A connection that arrives at a running server is handed over, as long   *)
(* as no accept has failed: one error, however transient, ends the loop.   *)
ConnectionServed ==
    \A c \in 1 .. MaxArrivals :
        (started /\ owner # "none" /\ arrived >= c)
            ~> (handed >= c \/ failed \/ stopped \/ crashed \/ Hung)

(* The destructor comes back whatever operations are in flight, unless a   *)
(* component's destructor hangs on the lock it is called under.            *)
DestructorReturns == owner = "stopping" ~> (owner = "gone" \/ crashed \/ Hung)
=============================================================================
