---------------------------- MODULE ServerProofs ----------------------------
(***************************************************************************)
(* Proofs about Server, for any number of threads, connections, component  *)
(* types and components.  The invariant has two parts: what the accept     *)
(* loop, the threads and the owner know of each other (PoolInv), and that  *)
(* the map of components holds live ones, which on a single thread nobody  *)
(* else removes (RegistryInv).                                             *)
(***************************************************************************)
EXTENDS Server, TLAPS

(* The accept in flight, and what is in the socket it is to fill. *)
AcceptState ==
    /\ accept = "ok" => peer = handed + 1 /\ handed < arrived
    /\ accept # "ok" => peer \in {0, handed}
    /\ accept = "pending" => peer = 0

InAcceptHandler(t) == thread[t] \in {"accepting", "refused"}

(* One thread at most is in the caller's handler; no accept is in flight   *)
(* then, and none before the loop is started.                              *)
OneAcceptHandler ==
    /\ \A t \in Threads :
        InAcceptHandler(t) =>
            /\ started
            /\ accept = "none"
            /\ \A u \in Threads \ {t} : ~ InAcceptHandler(u)
    /\ ~ started => accept = "none"

(* A loop that was started and has not failed always is work. *)
LoopIsWork ==
    started /\ ~ failed => accept # "none" \/ \E t \in Threads : thread[t] = "accepting"

(* Nothing runs before Create, nor ever on a thread that is not one of the *)
(* worker's.                                                               *)
OnlyWorkersRun ==
    /\ \A t \in Threads : t \notin Pool!Workers => thread[t] = "none"
    /\ owner = "none" => ~ stopped /\ \A t \in Threads : thread[t] = "none"

(* Only connections that were handed over have sessions. *)
SessionsAreHanded ==
    \A c \in Pool!Connections : session[c] # "none" => c <= handed

PoolInv ==
    /\ Pool!TypeOK
    /\ AcceptState
    /\ OneAcceptHandler
    /\ LoopIsWork
    /\ OnlyWorkersRun
    /\ SessionsAreHanded
    /\ StopsOnlyWithoutLoop
    /\ NoHandlerAfterDestructor

(* A component that is in the map has not been destroyed, and is there     *)
(* under one type only.                                                    *)
MapIsLive ==
    /\ \A k \in DOMAIN components : components[k] \notin destroyed
    /\ \A k, l \in DOMAIN components :
        components[k] = components[l] /\ components[k] # 0 => k = l

RegistryInv ==
    /\ Registry!TypeOK
    /\ MapIsLive
    /\ \A t \in Threads : t \notin Pool!Workers => ref[t] = 0
    /\ WorkerKeepsReferences

-----------------------------------------------------------------------------
(***************************************************************************)
(* The threads and the accept loop                                         *)
(***************************************************************************)

States == Pool!Handling \cup {"none", "entering", "running", "returned", "joined"}

LEMMA PoolTypes ==
    ASSUME Pool!TypeOK
    PROVE  /\ handed \in Nat /\ arrived \in Nat /\ handed <= arrived /\ arrived <= MaxArrivals
           /\ MaxArrivals \in Nat
           /\ thread \in [Threads -> States]
           /\ conn \in [Threads -> 0 .. handed]
           /\ peer \in {0, handed, handed + 1}
BY ServerAssumption DEF Pool!TypeOK, States

(* The invariant looks at the history of crashes nowhere. *)
LEMMA Frame ==
    ASSUME PoolInv, crashed' \in BOOLEAN,
           UNCHANGED <<kind, owner, moved, thread, conn, stopped, started, late, accept, failed,
                       peer, arrived, handed, session>>
    PROVE  PoolInv'
BY DEF PoolInv, Pool!TypeOK, AcceptState, OneAcceptHandler, InAcceptHandler, LoopIsWork,
       OnlyWorkersRun, Pool!Workers, SessionsAreHanded, Pool!Connections,
       StopsOnlyWithoutLoop, NoHandlerAfterDestructor

LEMMA InitPoolInv == Init => PoolInv
<1> SUFFICES ASSUME Init PROVE PoolInv
  OBVIOUS
<1> USE DEF Init, Pool!Init
<1>1. Pool!TypeOK
  <2>1. {moved, stopped, started, late, failed, crashed} \subseteq BOOLEAN
    BY Zenon
  <2> QED BY <2>1, ServerAssumption DEF Pool!TypeOK, Pool!Handling
<1>2. AcceptState /\ OneAcceptHandler /\ LoopIsWork
  BY DEF AcceptState, OneAcceptHandler, InAcceptHandler, LoopIsWork
<1>3. OnlyWorkersRun /\ SessionsAreHanded /\ StopsOnlyWithoutLoop /\ NoHandlerAfterDestructor
  BY DEF OnlyWorkersRun, SessionsAreHanded, StopsOnlyWithoutLoop, NoHandlerAfterDestructor
<1> QED BY <1>1, <1>2, <1>3 DEF PoolInv

(* What moving thread t to state s does. *)
LEMMA ThreadMoves ==
    ASSUME NEW f \in [Threads -> States], NEW t \in Threads, NEW s \in States
    PROVE  /\ [f EXCEPT ![t] = s] \in [Threads -> States]
           /\ \A u \in Threads : [f EXCEPT ![t] = s][u] = IF u = t THEN s ELSE f[u]
OBVIOUS

LEMMA OwnerStep == PoolInv /\ Pool!Owner => PoolInv'
<1> SUFFICES ASSUME PoolInv, Pool!Owner PROVE PoolInv'
  OBVIOUS
<1> USE DEF PoolInv, Pool!ownerVars, Pool!threadVars, Pool!loopVars
<1>1. CASE Pool!Create
  <2>1. /\ owner = "none" /\ owner' = "up"
        /\ thread' = [t \in Threads |-> IF t \in Pool!Workers THEN "entering" ELSE "none"]
        /\ UNCHANGED <<kind, moved, conn, stopped, started, late, accept, failed, peer, handed,
                       arrived, session, crashed>>
    BY <1>1 DEF Pool!Create
  <2>2. \A t \in Threads : thread'[t] \in {"entering", "none"}
    BY <2>1
  <2>3. Pool!TypeOK'
    BY <2>1 DEF Pool!TypeOK, Pool!Handling
  <2>4. AcceptState' /\ OneAcceptHandler' /\ SessionsAreHanded'
    BY <2>1, <2>2 DEF AcceptState, OneAcceptHandler, InAcceptHandler, SessionsAreHanded, Pool!Connections
  <2>5. LoopIsWork'
    BY <2>1 DEF LoopIsWork, OnlyWorkersRun
  <2>6. OnlyWorkersRun'
    BY <2>1 DEF OnlyWorkersRun, Pool!Workers
  <2>7. StopsOnlyWithoutLoop' /\ NoHandlerAfterDestructor'
    BY <2>1 DEF StopsOnlyWithoutLoop, NoHandlerAfterDestructor, OnlyWorkersRun
  <2> QED BY <2>3, <2>4, <2>5, <2>6, <2>7
<1>2. CASE Pool!CreateFails \/ (owner = "ran" /\ Pool!Terminate)
  BY <1>2, Frame DEF Pool!CreateFails, Pool!Terminate
<1>3. CASE Pool!StartAcceptLoop
  <2>1. /\ owner \in {"none", "up"} /\ ~ started /\ started' = TRUE /\ late' = stopped
        /\ accept' = (IF peer = 0 THEN "pending" ELSE "failed")
        /\ UNCHANGED <<kind, owner, moved, thread, conn, stopped, failed, peer, handed,
                       arrived, session, crashed>>
    BY <1>3 DEF Pool!StartAcceptLoop, Pool!Accepting
  <2>2. Pool!TypeOK'
    BY <2>1 DEF Pool!TypeOK
  <2>3. AcceptState' /\ OneAcceptHandler' /\ LoopIsWork'
    BY <2>1 DEF AcceptState, OneAcceptHandler, InAcceptHandler, LoopIsWork
  <2>4. OnlyWorkersRun' /\ SessionsAreHanded'
    BY <2>1 DEF OnlyWorkersRun, Pool!Workers, SessionsAreHanded, Pool!Connections
  <2>5. StopsOnlyWithoutLoop' /\ NoHandlerAfterDestructor'
    BY <2>1 DEF StopsOnlyWithoutLoop, NoHandlerAfterDestructor
  <2> QED BY <2>2, <2>3, <2>4, <2>5
<1>4. CASE Pool!Run \/ Pool!Join
  <2>1. UNCHANGED <<kind, moved, conn, stopped, started, late, accept, failed, peer, handed,
                    arrived, session, crashed>>
    BY <1>4 DEF Pool!Run, Pool!Join
  <2>2. \/ thread' = thread
        \/ \E t \in Pool!Workers :
               thread[t] = "returned" /\ thread' = [thread EXCEPT ![t] = "joined"]
    BY <1>4 DEF Pool!Run, Pool!Join
  <2>3. Pool!Workers \subseteq Threads
    BY ServerAssumption DEF Pool!Workers
  <2>4. /\ thread' \in [Threads -> States]
        /\ \A u \in Threads :
               thread'[u] = thread[u] \/ (thread[u] = "returned" /\ thread'[u] = "joined")
    BY <2>2, <2>3, ThreadMoves, PoolTypes DEF States
  <2>5. /\ owner # "none" /\ owner' \in {"up", "run", "ran", "stopping", "gone"}
        /\ owner' \in {"up", "run", "ran"} => owner \in {"up", "run", "ran"}
        /\ owner' = "gone" => Pool!Joins /\ thread' = thread
    BY <1>4 DEF Pool!Run, Pool!Join
  <2>6. Pool!TypeOK'
    BY <2>1, <2>4, <2>5 DEF Pool!TypeOK, States
  <2>7. AcceptState' /\ OneAcceptHandler' /\ LoopIsWork' /\ SessionsAreHanded'
    BY <2>1, <2>4 DEF AcceptState, OneAcceptHandler, InAcceptHandler, LoopIsWork,
                      SessionsAreHanded, Pool!Connections
  <2>8. OnlyWorkersRun'
    BY <2>1, <2>4, <2>5 DEF OnlyWorkersRun, Pool!Workers
  <2>9. StopsOnlyWithoutLoop'
    BY <2>1, <2>5 DEF StopsOnlyWithoutLoop
  <2>10. NoHandlerAfterDestructor'
    BY <2>5 DEF NoHandlerAfterDestructor, Pool!Joins, OnlyWorkersRun
  <2> QED BY <2>6, <2>7, <2>8, <2>9, <2>10
<1>5. CASE Pool!Move
  <2>1. CASE Pool!Terminate
    BY <2>1, Frame DEF Pool!Terminate
  <2>2. CASE /\ owner = "up" /\ stopped' = TRUE /\ moved' = TRUE
             /\ UNCHANGED <<kind, owner, thread, conn, started, late, accept, failed, peer, handed,
                            arrived, session, crashed>>
    <3>1. Pool!TypeOK'
      BY <2>2 DEF Pool!TypeOK
    <3>2. AcceptState' /\ OneAcceptHandler' /\ LoopIsWork' /\ SessionsAreHanded'
      BY <2>2 DEF AcceptState, OneAcceptHandler, InAcceptHandler, LoopIsWork,
                  SessionsAreHanded, Pool!Connections
    <3>3. OnlyWorkersRun' /\ StopsOnlyWithoutLoop' /\ NoHandlerAfterDestructor'
      BY <2>2 DEF OnlyWorkersRun, Pool!Workers, StopsOnlyWithoutLoop, NoHandlerAfterDestructor
    <3> QED BY <3>1, <3>2, <3>3
  <2> QED BY <1>5, <2>1, <2>2 DEF Pool!Move
<1>6. CASE /\ owner = "up" /\ owner' = "stopping" /\ stopped' = TRUE
           /\ UNCHANGED <<kind, moved, thread, conn, started, late, accept, failed, peer, handed,
                          arrived, session, crashed>>
  <2>1. Pool!TypeOK'
    BY <1>6 DEF Pool!TypeOK
  <2>2. AcceptState' /\ OneAcceptHandler' /\ LoopIsWork' /\ SessionsAreHanded'
    BY <1>6 DEF AcceptState, OneAcceptHandler, InAcceptHandler, LoopIsWork,
                SessionsAreHanded, Pool!Connections
  <2>3. OnlyWorkersRun' /\ StopsOnlyWithoutLoop' /\ NoHandlerAfterDestructor'
    BY <1>6 DEF OnlyWorkersRun, Pool!Workers, StopsOnlyWithoutLoop, NoHandlerAfterDestructor
  <2> QED BY <2>1, <2>2, <2>3
<1> QED BY <1>1, <1>2, <1>3, <1>4, <1>5, <1>6
        DEF Pool!Owner, Pool!Destroy, Pool!StoppedByDestructor

(* A started loop that has not failed keeps the io_context busy. *)
LEMMA LoopHasWork ==
    /\ LoopIsWork => (started /\ ~ failed => Pool!HasWork)
    /\ LoopIsWork' => (started' /\ ~ failed' => Pool!HasWork')
BY DEF LoopIsWork, Pool!HasWork, Pool!Handling

(* A thread that enters or leaves run() touches the io_context only. *)
LEMMA EntersOrLeaves ==
    ASSUME PoolInv, NEW t \in Threads, Pool!EnterRun(t) \/ Pool!LeaveRun(t)
    PROVE  PoolInv'
<1> USE DEF PoolInv
<1>1. /\ thread[t] \in {"entering", "running"}
      /\ \E s \in {"returned", "running"} : thread' = [thread EXCEPT ![t] = s]
      /\ stopped' \in BOOLEAN
      /\ stopped' => stopped \/ ~ Pool!HasWork
      /\ UNCHANGED <<kind, owner, moved, conn, started, late, accept, failed, peer, handed,
                     arrived, session, crashed>>
  BY DEF Pool!EnterRun, Pool!LeaveRun, Pool!TypeOK, Pool!ownerVars, Pool!loopVars
<1>2. PICK s \in {"returned", "running"} : thread' = [thread EXCEPT ![t] = s]
  BY <1>1
<1>3. /\ thread' \in [Threads -> States]
      /\ \A u \in Threads : thread'[u] = IF u = t THEN s ELSE thread[u]
  BY <1>2, ThreadMoves, PoolTypes DEF States
<1>4. Pool!TypeOK'
  BY <1>1, <1>3 DEF Pool!TypeOK, States
<1>5. AcceptState' /\ OneAcceptHandler' /\ LoopIsWork' /\ SessionsAreHanded'
  BY <1>1, <1>3 DEF AcceptState, OneAcceptHandler, InAcceptHandler, LoopIsWork,
                    SessionsAreHanded, Pool!Connections
<1>6. OnlyWorkersRun'
  BY <1>1, <1>3 DEF OnlyWorkersRun, Pool!Workers
<1>7. StopsOnlyWithoutLoop'
  BY <1>1, LoopHasWork DEF StopsOnlyWithoutLoop
<1>8. NoHandlerAfterDestructor'
  BY <1>1, <1>3 DEF NoHandlerAfterDestructor
<1> QED BY <1>4, <1>5, <1>6, <1>7, <1>8

(* The loop's handler begins: the one accept in flight is used up. *)
LEMMA AcceptHandlerBegins ==
    ASSUME PoolInv, NEW t \in Threads, Pool!RunAcceptHandler(t)
    PROVE  PoolInv'
<1> USE DEF PoolInv
<1> DEFINE s == IF accept = "ok" THEN "accepting" ELSE "refused"
<1>1. /\ accept \in {"ok", "failed"} /\ thread[t] = "running" /\ ~ stopped
      /\ thread' = [thread EXCEPT ![t] = s]
      /\ accept' = "none"
      /\ failed' = (failed \/ accept = "failed")
      /\ handed' = IF accept = "ok" THEN handed + 1 ELSE handed
      /\ UNCHANGED <<kind, owner, moved, conn, stopped, started, late, peer, arrived, session, crashed>>
  BY DEF Pool!RunAcceptHandler, Pool!TakesUp, Pool!BeforeHandler, Pool!HandedBy, Pool!ownerVars
<1>2. /\ thread' \in [Threads -> States]
      /\ \A u \in Threads : thread'[u] = IF u = t THEN s ELSE thread[u]
  <2>1. s \in States
    BY DEF States, Pool!Handling
  <2> QED BY <1>1, <2>1, ThreadMoves, PoolTypes
<1>3. /\ handed' \in 0 .. arrived /\ handed <= handed'
      /\ peer' \in {0, handed'}
      /\ conn' \in [Threads -> 0 .. handed']
  BY <1>1, PoolTypes DEF AcceptState
<1>4. Pool!TypeOK'
  BY <1>1, <1>2, <1>3, PoolTypes DEF Pool!TypeOK, States
<1>5. AcceptState'
  BY <1>1, <1>3 DEF AcceptState
<1>6. OneAcceptHandler' /\ LoopIsWork'
  <2>1. started /\ \A u \in Threads : ~ InAcceptHandler(u)
    BY <1>1 DEF OneAcceptHandler
  <2>2. s \in {"accepting", "refused"} /\ (accept = "ok" => s = "accepting")
    OBVIOUS
  <2>3. OneAcceptHandler'
    BY <1>1, <1>2, <2>1, <2>2 DEF OneAcceptHandler, InAcceptHandler
  <2>4. LoopIsWork'
    BY <1>1, <1>2, <2>2 DEF LoopIsWork
  <2> QED BY <2>3, <2>4
<1>7. SessionsAreHanded'
  BY <1>1, <1>3, PoolTypes DEF SessionsAreHanded, Pool!Connections
<1>8. OnlyWorkersRun' /\ NoHandlerAfterDestructor'
  BY <1>1, <1>2 DEF OnlyWorkersRun, Pool!Workers, NoHandlerAfterDestructor
<1>9. StopsOnlyWithoutLoop'
  BY <1>1 DEF StopsOnlyWithoutLoop
<1> QED BY <1>4, <1>5, <1>6, <1>7, <1>8, <1>9

(* The handler of a session is taken up by a thread. *)
LEMMA SessionHandlerBegins ==
    ASSUME PoolInv, NEW t \in Threads, Pool!RunSessionHandler(t)
    PROVE  PoolInv'
<1> USE DEF PoolInv
<1>1. PICK c \in Pool!Connections :
          /\ session[c] = "ready"
          /\ session' = [session EXCEPT ![c] = "served"]
          /\ conn' = [conn EXCEPT ![t] = c]
  BY DEF Pool!RunSessionHandler
<1>2. /\ thread[t] = "running" /\ ~ stopped
      /\ thread' = [thread EXCEPT ![t] = "serving"]
      /\ UNCHANGED <<kind, owner, moved, stopped, started, late, accept, failed, peer, handed,
                     arrived, crashed>>
  BY DEF Pool!RunSessionHandler, Pool!TakesUp, Pool!ownerVars, Pool!loopVars
<1>3. /\ thread' \in [Threads -> States]
      /\ \A u \in Threads : thread'[u] = IF u = t THEN "serving" ELSE thread[u]
  BY <1>2, ThreadMoves, PoolTypes DEF States, Pool!Handling
<1>4. c \in 0 .. handed
  BY <1>1, PoolTypes DEF SessionsAreHanded, Pool!Connections
<1>5. Pool!TypeOK'
  BY <1>1, <1>2, <1>3, <1>4 DEF Pool!TypeOK, States
<1>6. SessionsAreHanded'
  BY <1>1, <1>2 DEF SessionsAreHanded, Pool!TypeOK
<1>7. AcceptState' /\ OneAcceptHandler' /\ LoopIsWork'
  BY <1>2, <1>3 DEF AcceptState, OneAcceptHandler, InAcceptHandler, LoopIsWork
<1>8. OnlyWorkersRun' /\ NoHandlerAfterDestructor' /\ StopsOnlyWithoutLoop'
  BY <1>2, <1>3 DEF OnlyWorkersRun, Pool!Workers, NoHandlerAfterDestructor, StopsOnlyWithoutLoop
<1> QED BY <1>5, <1>6, <1>7, <1>8

(* The caller's handler takes the connection out of the socket. *)
LEMMA HandlerTakesStep ==
    ASSUME PoolInv, NEW t \in Threads, Pool!HandlerTakes(t)
    PROVE  PoolInv'
<1> USE DEF PoolInv
<1>1. /\ thread[t] = "accepting" /\ peer # 0 /\ peer' = 0
      /\ session' = [session EXCEPT ![peer] = "reading"]
      /\ UNCHANGED <<kind, owner, moved, thread, conn, stopped, started, late, accept, failed, handed,
                     arrived, crashed>>
  BY DEF Pool!HandlerTakes, Pool!ownerVars, Pool!threadVars
<1>2. accept = "none" /\ peer = handed
  BY <1>1 DEF OneAcceptHandler, InAcceptHandler, AcceptState
<1>3. Pool!TypeOK'
  BY <1>1 DEF Pool!TypeOK
<1>4. SessionsAreHanded'
  BY <1>1, <1>2, PoolTypes DEF SessionsAreHanded, Pool!Connections, Pool!TypeOK
<1>5. AcceptState' /\ OneAcceptHandler' /\ LoopIsWork'
  BY <1>1, <1>2 DEF AcceptState, OneAcceptHandler, InAcceptHandler, LoopIsWork
<1>6. OnlyWorkersRun' /\ NoHandlerAfterDestructor' /\ StopsOnlyWithoutLoop'
  BY <1>1 DEF OnlyWorkersRun, Pool!Workers, NoHandlerAfterDestructor, StopsOnlyWithoutLoop
<1> QED BY <1>3, <1>4, <1>5, <1>6

(* The loop's handler is done: the loop accepts again, unless it failed. *)
LEMMA AcceptHandlerEnds ==
    ASSUME PoolInv, NEW t \in Threads, Pool!AcceptHandlerReturns(t)
    PROVE  PoolInv'
<1> USE DEF PoolInv
<1>1. /\ InAcceptHandler(t)
      /\ thread' = [thread EXCEPT ![t] = "running"]
      /\ accept' = IF thread[t] = "accepting" THEN (IF peer = 0 THEN "pending" ELSE "failed") ELSE accept
      /\ stopped' = (stopped \/ ~ Pool!HasWork')
      /\ UNCHANGED <<kind, owner, moved, conn, started, late, failed, peer, handed,
                     arrived, session, crashed>>
  BY DEF Pool!AcceptHandlerReturns, Pool!Finishes, Pool!GoesOn, Pool!Accepting, InAcceptHandler,
         Pool!ownerVars
<1>2. /\ thread' \in [Threads -> States]
      /\ \A u \in Threads : thread'[u] = IF u = t THEN "running" ELSE thread[u]
  BY <1>1, ThreadMoves, PoolTypes DEF States
<1>3. /\ started /\ accept = "none" /\ peer \in {0, handed}
      /\ \A u \in Threads \ {t} : ~ InAcceptHandler(u)
  BY <1>1 DEF OneAcceptHandler, AcceptState
<1>4. Pool!TypeOK'
  <2>1. stopped' \in BOOLEAN
    BY <1>1, Zenon DEF Pool!TypeOK
  <2> QED BY <1>1, <1>2, <1>3, <2>1 DEF Pool!TypeOK, States
<1>5. AcceptState'
  BY <1>1, <1>3 DEF AcceptState
<1>6. OneAcceptHandler'
  BY <1>1, <1>2, <1>3 DEF OneAcceptHandler, InAcceptHandler
<1>7. LoopIsWork'
  <2>1. CASE thread[t] = "accepting"
    BY <1>1, <2>1 DEF LoopIsWork
  <2>2. CASE thread[t] = "refused"
    BY <1>1, <1>3, <2>2 DEF LoopIsWork, InAcceptHandler
  <2> QED BY <1>1, <2>1, <2>2 DEF InAcceptHandler
<1>8. SessionsAreHanded'
  BY <1>1 DEF SessionsAreHanded
<1>9. OnlyWorkersRun' /\ NoHandlerAfterDestructor'
  BY <1>1, <1>2 DEF OnlyWorkersRun, Pool!Workers, NoHandlerAfterDestructor, InAcceptHandler
<1>10. StopsOnlyWithoutLoop'
  BY <1>1, <1>7, LoopHasWork DEF StopsOnlyWithoutLoop
<1> QED BY <1>4, <1>5, <1>6, <1>7, <1>8, <1>9, <1>10

(* The handler of a session is done. *)
LEMMA SessionHandlerEnds ==
    ASSUME PoolInv, NEW t \in Threads, Pool!SessionHandlerReturns(t)
    PROVE  PoolInv'
<1> USE DEF PoolInv
<1>1. /\ thread[t] = "serving"
      /\ thread' = [thread EXCEPT ![t] = "running"]
      /\ conn' = [conn EXCEPT ![t] = 0]
      /\ stopped' = (stopped \/ ~ Pool!HasWork')
      /\ UNCHANGED <<kind, owner, moved, started, late, accept, failed, peer, handed, arrived, crashed>>
  BY DEF Pool!SessionHandlerReturns, Pool!Finishes, Pool!ownerVars, Pool!loopVars
<1>2. PICK s \in {"reading", "ended"} : session' = [session EXCEPT ![conn[t]] = s]
  BY DEF Pool!SessionHandlerReturns
<1>3. /\ thread' \in [Threads -> States]
      /\ \A u \in Threads : thread'[u] = IF u = t THEN "running" ELSE thread[u]
  BY <1>1, ThreadMoves, PoolTypes DEF States
<1>4. conn[t] \in 0 .. handed
  BY DEF Pool!TypeOK
<1>5. Pool!TypeOK'
  <2>1. stopped' \in BOOLEAN
    BY <1>1, Zenon DEF Pool!TypeOK
  <2>2. session' \in [Pool!Connections -> {"none", "reading", "ready", "served", "ended"}]
    BY <1>2 DEF Pool!TypeOK
  <2>3. conn' \in [Threads -> 0 .. handed']
    BY <1>1, PoolTypes
  <2> QED BY <1>1, <1>3, <2>1, <2>2, <2>3 DEF Pool!TypeOK, States
<1>6. SessionsAreHanded'
  BY <1>1, <1>2, <1>4, PoolTypes DEF SessionsAreHanded, Pool!TypeOK
<1>7. AcceptState' /\ OneAcceptHandler' /\ LoopIsWork'
  BY <1>1, <1>3 DEF AcceptState, OneAcceptHandler, InAcceptHandler, LoopIsWork
<1>8. OnlyWorkersRun' /\ NoHandlerAfterDestructor'
  BY <1>1, <1>3 DEF OnlyWorkersRun, Pool!Workers, NoHandlerAfterDestructor
<1>9. StopsOnlyWithoutLoop'
  BY <1>1, <1>7, LoopHasWork DEF StopsOnlyWithoutLoop
<1> QED BY <1>5, <1>6, <1>7, <1>8, <1>9

(* Connections arrive, accepts complete or fail, clients have read. *)
LEMMA KernelStep == PoolInv /\ Pool!Kernel => PoolInv'
<1> SUFFICES ASSUME PoolInv, Pool!Kernel PROVE PoolInv'
  OBVIOUS
<1> USE DEF PoolInv, Pool!ownerVars, Pool!threadVars, Pool!loopVars
<1>1. UNCHANGED <<kind, owner, moved, thread, conn, stopped, started, late, failed, handed, crashed>>
  BY DEF Pool!Kernel, Pool!Arrive, Pool!AcceptCompletes, Pool!AcceptFails, Pool!SessionReady
<1>2. /\ arrived' \in 0 .. MaxArrivals /\ arrived <= arrived'
      /\ \/ UNCHANGED <<accept, peer>>
         \/ accept = "pending" /\ accept' = "ok" /\ peer' = handed + 1 /\ handed < arrived'
         \/ accept = "pending" /\ accept' = "failed" /\ UNCHANGED peer
  BY PoolTypes DEF Pool!Kernel, Pool!Arrive, Pool!AcceptCompletes, Pool!AcceptFails, Pool!SessionReady
<1>3. \/ UNCHANGED session
      \/ \E c \in Pool!Connections :
             session[c] = "reading" /\ session' = [session EXCEPT ![c] = "ready"]
  BY DEF Pool!Kernel, Pool!Arrive, Pool!AcceptCompletes, Pool!AcceptFails, Pool!SessionReady
<1>4. /\ session' \in [Pool!Connections -> {"none", "reading", "ready", "served", "ended"}]
      /\ \A c \in Pool!Connections : session'[c] # "none" => session[c] # "none"
  BY <1>3 DEF Pool!TypeOK
<1>5. Pool!TypeOK'
  BY <1>1, <1>2, <1>4, PoolTypes DEF Pool!TypeOK
<1>6. AcceptState'
  BY <1>1, <1>2, PoolTypes DEF AcceptState
<1>7. OneAcceptHandler' /\ LoopIsWork'
  BY <1>1, <1>2 DEF OneAcceptHandler, InAcceptHandler, LoopIsWork
<1>8. SessionsAreHanded'
  BY <1>1, <1>4 DEF SessionsAreHanded
<1>9. OnlyWorkersRun' /\ NoHandlerAfterDestructor' /\ StopsOnlyWithoutLoop'
  BY <1>1 DEF OnlyWorkersRun, Pool!Workers, NoHandlerAfterDestructor, StopsOnlyWithoutLoop
<1> QED BY <1>5, <1>6, <1>7, <1>8, <1>9

LEMMA NextPoolInv == PoolInv /\ [Next]_vars => PoolInv'
<1> SUFFICES ASSUME PoolInv, [Next]_vars PROVE PoolInv'
  OBVIOUS
<1>1. CASE UNCHANGED poolVars
  <2>1. crashed' \in BOOLEAN
    BY <1>1 DEF poolVars, PoolInv, Pool!TypeOK
  <2> QED BY <1>1, <2>1, Frame DEF poolVars
<1>2. CASE Owner
  BY <1>2, OwnerStep DEF Owner
<1>3. CASE Kernel
  BY <1>3, KernelStep DEF Kernel
<1>4. ASSUME NEW t \in Threads,
             \/ RunLoop(t) \/ HandlerReturns(t) \/ HandlerThrows(t) \/ HandlerTakes(t)
             \/ CallsComponents(t) \/ DestructorOfComponentReturns(t)
      PROVE  PoolInv'
  <2>1. CASE RunLoop(t)
    BY <2>1, EntersOrLeaves, AcceptHandlerBegins, SessionHandlerBegins DEF RunLoop, Pool!RunLoop
  <2>2. CASE HandlerReturns(t)
    BY <2>2, AcceptHandlerEnds, SessionHandlerEnds DEF HandlerReturns, Pool!Returns
  <2>3. CASE HandlerThrows(t)
    BY <2>3, Frame DEF HandlerThrows, Pool!HandlerThrows, Pool!Terminate,
                       Pool!ownerVars, Pool!threadVars, Pool!loopVars
  <2>4. CASE HandlerTakes(t)
    BY <2>4, HandlerTakesStep DEF HandlerTakes
  <2>5. CASE CallsComponents(t) \/ DestructorOfComponentReturns(t)
    BY <2>5, <1>1 DEF CallsComponents, DestructorOfComponentReturns
  <2> QED BY <1>4, <2>1, <2>2, <2>3, <2>4, <2>5
<1> QED BY <1>1, <1>2, <1>3, <1>4 DEF Next, vars

-----------------------------------------------------------------------------
(***************************************************************************)
(* The components                                                          *)
(***************************************************************************)

LEMMA RegistryTypes ==
    ASSUME Registry!TypeOK
    PROVE  /\ made \in Nat /\ made <= MaxObjects /\ MaxObjects \in Nat
           /\ destroyed \subseteq 1 .. made
           /\ \A k \in DOMAIN components : components[k] \in 0 .. made
           /\ ref \in [Threads -> 0 .. made]
           /\ removed \in [Threads -> SUBSET destroyed]
           /\ \A k \in Types : Registry!Find(k) \in 0 .. made
BY ServerAssumption DEF Registry!TypeOK, Registry!Range, Registry!Find

(* On an io_worker all handlers run on one thread. *)
LEMMA OneWorker ==
    ASSUME kind = "worker", NEW t \in Pool!Workers, NEW u \in Pool!Workers
    PROVE  t = u
BY DEF Pool!Workers

LEMMA InitRegistryInv == Init => RegistryInv
<1> SUFFICES ASSUME Init PROVE RegistryInv
  OBVIOUS
<1>1. /\ components = <<>> /\ DOMAIN components = {} /\ made = 0 /\ destroyed = {}
      /\ call = [t \in Threads |-> "none"]
      /\ ref = [t \in Threads |-> 0]
      /\ removed = [t \in Threads |-> {}]
  BY DEF Init, Registry!Init
<1>2. Registry!TypeOK
  BY <1>1, ServerAssumption DEF Registry!TypeOK, Registry!Range
<1>3. MapIsLive /\ WorkerKeepsReferences
  BY <1>1 DEF MapIsLive, WorkerKeepsReferences
<1> QED BY <1>1, <1>2, <1>3 DEF RegistryInv

(* What the map gives up is destroyed by the user that gave it up, unless  *)
(* others share it, and by then is in the map no more.                     *)
LEMMA GivesUpEffect ==
    ASSUME RegistryInv, NEW t \in Threads, NEW o \in 0 .. made, Registry!GivesUp(t, o)
    PROVE  /\ call' \in [Threads -> {"none", "destroying", "stuck"}]
           /\ destroyed \subseteq destroyed'
           /\ destroyed' \subseteq destroyed \cup ({o} \ {0})
           /\ removed' \in [Threads -> SUBSET destroyed']
           /\ \A u \in Threads : removed[u] \subseteq removed'[u]
           /\ \A d \in destroyed' \ destroyed : d \in removed'[t]
<1> USE DEF RegistryInv
<1>1. CASE UNCHANGED <<call, destroyed, removed>>
  BY <1>1, RegistryTypes DEF Registry!TypeOK
<1>2. CASE /\ o # 0
           /\ call' = [call EXCEPT ![t] = "destroying"]
           /\ destroyed' = destroyed \cup {o}
           /\ removed' = [removed EXCEPT ![t] = @ \cup {o}]
  <2>1. removed \in [Threads -> SUBSET destroyed] /\ call \in [Threads -> {"none", "destroying", "stuck"}]
    BY DEF Registry!TypeOK
  <2>2. \A u \in Threads : removed'[u] = IF u = t THEN removed[u] \cup {o} ELSE removed[u]
    BY <1>2, <2>1
  <2>3. removed' \in [Threads -> SUBSET destroyed']
    BY <1>2, <2>1, <2>2
  <2> QED BY <1>2, <2>1, <2>2, <2>3
<1> QED BY <1>1, <1>2 DEF Registry!GivesUp

(* A call that changes type k of the map and gives up what was there.      *)
LEMMA MapChanges ==
    ASSUME RegistryInv, PoolInv, NEW t \in Pool!Workers, NEW k \in Types,
           Registry!GivesUp(t, Registry!Find(k)),
           UNCHANGED <<kind, ref>>,
           made' \in made .. MaxObjects,
           DOMAIN components' \subseteq Types,
           \A l \in DOMAIN components' :
               \/ l # k /\ l \in DOMAIN components /\ components'[l] = components[l]
               \/ l = k /\ components'[l] = 0
               \/ l = k /\ components'[l] = made + 1 /\ made' = made + 1
    PROVE  RegistryInv'
<1> USE DEF RegistryInv
<1> DEFINE o == Registry!Find(k)
<1>1. t \in Threads /\ o \in 0 .. made
  BY RegistryTypes, ServerAssumption DEF Pool!Workers
<1>2. /\ call' \in [Threads -> {"none", "destroying", "stuck"}]
      /\ destroyed \subseteq destroyed'
      /\ destroyed' \subseteq destroyed \cup ({o} \ {0})
      /\ removed' \in [Threads -> SUBSET destroyed']
      /\ \A u \in Threads : removed[u] \subseteq removed'[u]
      /\ \A d \in destroyed' \ destroyed : d \in removed'[t]
  BY <1>1, GivesUpEffect
<1>3. made' \in 0 .. MaxObjects /\ made <= made' /\ made \in Nat
  BY RegistryTypes
<1>4. \A l \in DOMAIN components' : components'[l] \in 0 .. made'
  BY <1>3, RegistryTypes
<1>5. Registry!TypeOK'
  <2>1. Registry!Range(components') \subseteq 0 .. made'
    BY <1>4 DEF Registry!Range
  <2>2. destroyed' \subseteq 1 .. made'
    BY <1>1, <1>2, <1>3, RegistryTypes
  <2>3. ref' \in [Threads -> 0 .. made']
    BY <1>3, RegistryTypes
  <2> QED BY <1>2, <1>3, <2>1, <2>2, <2>3 DEF Registry!TypeOK
<1>6. MapIsLive'
  <2>1. ASSUME NEW l \in DOMAIN components' PROVE components'[l] \notin destroyed'
    <3>1. CASE l # k /\ l \in DOMAIN components /\ components'[l] = components[l]
      <4>1. components[l] \notin destroyed
        BY <3>1 DEF MapIsLive
      <4>2. components[l] = o => o = 0
        BY <3>1 DEF MapIsLive, Registry!Find
      <4> QED BY <3>1, <4>1, <4>2, <1>2
    <3>2. CASE components'[l] = 0
      BY <3>2, <1>2, RegistryTypes
    <3>3. CASE components'[l] = made + 1
      BY <3>3, <1>1, <1>2, <1>3, RegistryTypes
    <3> QED BY <3>1, <3>2, <3>3
  <2>2. ASSUME NEW l \in DOMAIN components', NEW m \in DOMAIN components',
               components'[l] = components'[m], components'[l] # 0
        PROVE  l = m
    <3>1. \A n \in DOMAIN components : components[n] # made + 1
      BY <1>3, RegistryTypes
    <3> QED BY <2>2, <3>1 DEF MapIsLive
  <2> QED BY <2>1, <2>2 DEF MapIsLive
<1>7. Pool!Workers' = Pool!Workers
  BY DEF Pool!Workers
<1>8. \A u \in Threads : u \notin Pool!Workers' => ref'[u] = 0
  BY <1>7
<1>9. WorkerKeepsReferences'
  <2>1. SUFFICES ASSUME kind = "worker", NEW u \in Threads, ref[u] \in destroyed'
                 PROVE  ref[u] \in removed'[u]
    BY DEF WorkerKeepsReferences
  <2>2. CASE ref[u] \in destroyed
    BY <2>1, <2>2, <1>2 DEF WorkerKeepsReferences
  <2>3. CASE ref[u] \notin destroyed
    <3>1. ref[u] \in removed'[t] /\ ref[u] # 0
      BY <2>1, <2>3, <1>2
    <3>2. u \in Pool!Workers
      BY <3>1
    <3> QED BY <2>1, <3>1, <3>2, OneWorker
  <2> QED BY <2>2, <2>3
<1> QED BY <1>5, <1>6, <1>8, <1>9

(* A handler calls a member function. *)
LEMMA CallsStep ==
    ASSUME RegistryInv, PoolInv, NEW t \in Threads, CallsComponents(t)
    PROVE  RegistryInv'
<1> USE DEF RegistryInv
<1>1. t \in Pool!Workers /\ UNCHANGED kind
  BY DEF CallsComponents, poolVars, PoolInv, OnlyWorkersRun
<1>2. CASE Registry!CreateComponent(t)
  <2>1. PICK k \in Types, o \in {0, made + 1} \cap (0 .. MaxObjects) :
            /\ components' = Registry!WithEntry(k, o)
            /\ made' = IF o = 0 THEN made ELSE o
            /\ Registry!GivesUp(t, Registry!Find(k))
    BY <1>2 DEF Registry!CreateComponent
  <2>2. /\ DOMAIN components' = DOMAIN components \cup {k}
        /\ \A l \in DOMAIN components' : components'[l] = IF l = k THEN o ELSE components[l]
    BY <2>1 DEF Registry!WithEntry
  <2>3. made' \in made .. MaxObjects /\ (o # 0 => o = made + 1 /\ made' = made + 1)
    BY <2>1, RegistryTypes
  <2>4. DOMAIN components' \subseteq Types
    BY <2>2 DEF Registry!TypeOK
  <2>5. UNCHANGED ref
    BY <1>2 DEF Registry!CreateComponent
  <2> QED BY <1>1, <2>1, <2>2, <2>3, <2>4, <2>5, MapChanges
<1>3. CASE Registry!DestroyComponent(t)
  <2>1. PICK k \in Types :
            /\ components' = Registry!Restrict(components, DOMAIN components \ {k})
            /\ Registry!GivesUp(t, Registry!Find(k))
    BY <1>3 DEF Registry!DestroyComponent
  <2>2. /\ DOMAIN components' = DOMAIN components \ {k}
        /\ \A l \in DOMAIN components' : components'[l] = components[l]
    BY <2>1 DEF Registry!Restrict
  <2>3. made' \in made .. MaxObjects
    BY <1>3, RegistryTypes DEF Registry!DestroyComponent
  <2>4. DOMAIN components' \subseteq Types
    BY <2>2 DEF Registry!TypeOK
  <2>5. UNCHANGED ref
    BY <1>3 DEF Registry!DestroyComponent
  <2> QED BY <1>1, <2>1, <2>2, <2>3, <2>4, <2>5, MapChanges
<1>4. CASE Registry!GetComponent(t)
  <2>1. PICK k \in Types : ref' = [ref EXCEPT ![t] = Registry!Find(k)]
    BY <1>4 DEF Registry!GetComponent
  <2>2. UNCHANGED <<components, call, made, destroyed, removed>>
    BY <1>4 DEF Registry!GetComponent
  <2>3. /\ ref' \in [Threads -> 0 .. made]
        /\ \A u \in Threads : ref'[u] = IF u = t THEN Registry!Find(k) ELSE ref[u]
    BY <2>1, RegistryTypes
  <2>4. Registry!Find(k) \notin destroyed
    BY RegistryTypes DEF Registry!Find, MapIsLive
  <2>5. Registry!TypeOK'
    BY <2>2, <2>3 DEF Registry!TypeOK, Registry!Range
  <2>6. MapIsLive'
    BY <2>2 DEF MapIsLive
  <2>7. \A u \in Threads : u \notin Pool!Workers' => ref'[u] = 0
    BY <1>1, <2>3 DEF Pool!Workers
  <2>8. WorkerKeepsReferences'
    BY <1>1, <2>2, <2>3, <2>4 DEF WorkerKeepsReferences
  <2> QED BY <2>5, <2>6, <2>7, <2>8
<1>5. CASE Registry!DestructorCallsBack(t)
  <2>1. /\ call' = [call EXCEPT ![t] = "stuck"]
        /\ UNCHANGED <<components, ref, made, destroyed, removed>>
    BY <1>5 DEF Registry!DestructorCallsBack
  <2>2. Registry!TypeOK'
    BY <2>1 DEF Registry!TypeOK, Registry!Range
  <2> QED BY <1>1, <2>1, <2>2 DEF MapIsLive, WorkerKeepsReferences, Pool!Workers
<1> QED BY <1>2, <1>3, <1>4, <1>5 DEF CallsComponents, Registry!Calls

(* A destructor returns, or a handler and with it its references.          *)
LEMMA ReturnsStep ==
    ASSUME RegistryInv, NEW t \in Threads,
           DestructorOfComponentReturns(t) \/ HandlerReturns(t)
    PROVE  RegistryInv'
<1> USE DEF RegistryInv
<1>1. UNCHANGED kind
  BY DEF DestructorOfComponentReturns, poolVars, HandlerReturns, Pool!Returns,
         Pool!AcceptHandlerReturns, Pool!SessionHandlerReturns, Pool!Finishes, Pool!ownerVars
<1>2. CASE DestructorOfComponentReturns(t)
  <2>1. /\ call' = [call EXCEPT ![t] = "none"]
        /\ UNCHANGED <<components, ref, made, destroyed, removed>>
    BY <1>2 DEF DestructorOfComponentReturns, Registry!DestructorReturns
  <2>2. Registry!TypeOK'
    BY <2>1 DEF Registry!TypeOK, Registry!Range
  <2> QED BY <1>1, <2>1, <2>2 DEF MapIsLive, WorkerKeepsReferences, Pool!Workers
<1>3. CASE HandlerReturns(t)
  <2>1. /\ ref' = [ref EXCEPT ![t] = 0]
        /\ removed' = [removed EXCEPT ![t] = {}]
        /\ UNCHANGED <<components, call, made, destroyed>>
    BY <1>3 DEF HandlerReturns, Registry!Forgets
  <2>2. /\ ref' \in [Threads -> 0 .. made]
        /\ removed' \in [Threads -> SUBSET destroyed]
        /\ \A u \in Threads : /\ ref'[u] = IF u = t THEN 0 ELSE ref[u]
                              /\ u # t => removed'[u] = removed[u]
    BY <2>1, RegistryTypes
  <2>3. Registry!TypeOK'
    BY <2>1, <2>2 DEF Registry!TypeOK, Registry!Range
  <2>4. MapIsLive'
    BY <2>1 DEF MapIsLive
  <2>5. WorkerKeepsReferences'
    BY <1>1, <2>1, <2>2, RegistryTypes DEF WorkerKeepsReferences
  <2> QED BY <1>1, <2>2, <2>3, <2>4, <2>5 DEF Pool!Workers
<1> QED BY <1>2, <1>3

LEMMA NextRegistryInv == PoolInv /\ RegistryInv /\ [Next]_vars => RegistryInv'
<1> SUFFICES ASSUME PoolInv, RegistryInv, [Next]_vars PROVE RegistryInv'
  OBVIOUS
<1>1. ASSUME UNCHANGED <<kind, componentVars>> PROVE RegistryInv'
  BY <1>1 DEF componentVars, RegistryInv, Registry!TypeOK, Registry!Range, MapIsLive,
              WorkerKeepsReferences, Pool!Workers
<1>2. CASE UNCHANGED vars
  BY <1>2, <1>1 DEF vars, poolVars
<1>3. CASE Owner
  BY <1>3, <1>1 DEF Owner, Pool!Owner, Pool!Create, Pool!CreateFails, Pool!StartAcceptLoop, Pool!Run,
                    Pool!Move, Pool!Destroy, Pool!Join, Pool!Terminate, Pool!ownerVars
<1>4. CASE Kernel
  BY <1>4, <1>1 DEF Kernel, Pool!Kernel, Pool!Arrive, Pool!AcceptCompletes, Pool!AcceptFails,
                    Pool!SessionReady, Pool!ownerVars
<1>5. ASSUME NEW t \in Threads,
             \/ RunLoop(t) \/ HandlerReturns(t) \/ HandlerThrows(t) \/ HandlerTakes(t)
             \/ CallsComponents(t) \/ DestructorOfComponentReturns(t)
      PROVE  RegistryInv'
  <2>1. CASE RunLoop(t) \/ HandlerThrows(t) \/ HandlerTakes(t)
    BY <2>1, <1>1 DEF RunLoop, Pool!RunLoop, Pool!EnterRun, Pool!LeaveRun, Pool!RunAcceptHandler,
                      Pool!RunSessionHandler, Pool!TakesUp, HandlerThrows, Pool!HandlerThrows,
                      Pool!Terminate, HandlerTakes, Pool!HandlerTakes, Pool!ownerVars
  <2>2. CASE CallsComponents(t)
    BY <2>2, CallsStep
  <2>3. CASE HandlerReturns(t) \/ DestructorOfComponentReturns(t)
    BY <2>3, ReturnsStep
  <2> QED BY <1>5, <2>1, <2>2, <2>3
<1> QED BY <1>2, <1>3, <1>4, <1>5 DEF Next

-----------------------------------------------------------------------------

(* The invariant of a server: accept loop, threads, owner and components,  *)
(* for any number of each.                                                 *)
THEOREM ServerInvariant == Spec => [](PoolInv /\ RegistryInv)
<1> QED BY InitPoolInv, InitRegistryInv, NextPoolInv, NextRegistryInv, PTL DEF Spec

(* Type correctness of the worker pool and of the components. *)
THEOREM ServerTypeOK == Spec => []TypeOK
<1>1. PoolInv /\ RegistryInv => TypeOK
  BY DEF PoolInv, RegistryInv, TypeOK
<1> QED BY <1>1, ServerInvariant, PTL

(* The socket that all connections pass through is never filled, and no    *)
(* second thread is in the accept loop's handler, while one thread is.     *)
THEOREM ServerSocketIsQuiet == Spec => []SocketIsQuiet
<1>1. PoolInv => SocketIsQuiet
  BY DEF PoolInv, OneAcceptHandler, InAcceptHandler, SocketIsQuiet
<1> QED BY <1>1, ServerInvariant, PTL

(* A running server stops by itself only without a live accept loop. *)
THEOREM ServerStops == Spec => []StopsOnlyWithoutLoop
<1>1. PoolInv => StopsOnlyWithoutLoop
  BY DEF PoolInv
<1> QED BY <1>1, ServerInvariant, PTL

(* Behind the destructor no thread of the worker or pool runs. *)
THEOREM ServerDestructor == Spec => []NoHandlerAfterDestructor
<1>1. PoolInv => NoHandlerAfterDestructor
  BY DEF PoolInv
<1> QED BY <1>1, ServerInvariant, PTL

(* On an io_worker a handler's component reference is good until that      *)
(* handler removes the component itself.                                   *)
THEOREM ServerReferences == Spec => []WorkerKeepsReferences
<1>1. RegistryInv => WorkerKeepsReferences
  BY DEF RegistryInv
<1> QED BY <1>1, ServerInvariant, PTL
=============================================================================
