------------------------ MODULE DualConnectionProofs ------------------------
(***************************************************************************)
(* Proofs about DualConnection.  Every step of the connection is a step of *)
(* its receive loop or leaves the loop alone, so the invariant of          *)
(* StreamReaderProofs holds here too; on top of it come what on_handle     *)
(* knows of the kill flag, and whom the end of the loop was told to.       *)
(***************************************************************************)
EXTENDS DualConnection, TLAPS

Loop == INSTANCE StreamReaderProofs

(* on_handle runs exactly while the loop waits for its answer. *)
InCallback == phase = "out" <=> stage # "handling"

(* The flag is set as soon as an exception has been dealt with, and the    *)
(* loop that handles a packet in spite of it does not ask for another.     *)
KillIsSeen ==
    /\ threw => killed \/ phase = "exception"
    /\ afterKill # 0 => /\ afterKill = 1 /\ killed
                        /\ stage \in {"handling", "idle"}
                        /\ phase = "return" => ~ goOn

(* A loop that reads has not been told to have ended; one about to stop    *)
(* has, or was killed.                                                     *)
EndIsTold ==
    /\ stage \in Parts => ~ told
    /\ stage = "dying" \/ phase = "notifyDead" => told
    /\ phase = "packet" => ~ told
    /\ phase = "notify" => (told <=> result = "Disconnect")
    /\ phase = "return" => (told => ~ goOn) /\ (goOn \/ told \/ killed)

-----------------------------------------------------------------------------
(***************************************************************************)
(* The loop as DualConnection and as the proofs about it name it           *)
(***************************************************************************)

LEMMA SameState ==
    /\ Reader!Init => Loop!Init
    /\ Loop!TypeOK => Reader!TypeOK
    /\ Loop!PacketsInOrder => PacketsInOrder
    /\ Loop!OneLatePacket => OneLatePacket
    /\ UNCHANGED <<socketVars, readerVars>> => UNCHANGED Loop!vars
BY DEF Reader!Init, Loop!Init, Reader!SocketInit, Loop!SocketInit,
       Reader!TypeOK, Loop!TypeOK, Reader!SocketTypeOK, Loop!SocketTypeOK,
       Reader!Parts, Loop!Parts, Reader!Status, Loop!Status, Reader!Junk, Loop!Junk,
       PacketsInOrder, Reader!PacketsInOrder, Loop!PacketsInOrder, Reader!Handed, Loop!Handed,
       OneLatePacket, Reader!OneLatePacket, Loop!OneLatePacket,
       socketVars, readerVars, Loop!vars, Loop!socketVars, Loop!readerVars,
       Loop!loopVars, Loop!inVars, Loop!historyVars

LEMMA SameStart == Reader!StartReceiveLoop => Loop!StartReceiveLoop
BY DEF Reader!StartReceiveLoop, Loop!StartReceiveLoop, Reader!AsyncRead, Loop!AsyncRead,
       Reader!ReadStatus, Loop!ReadStatus, Reader!socketVars, Loop!socketVars, Reader!inVars, Loop!inVars

LEMMA SameHandlers == Reader!Handlers => Loop!Handlers
BY DEF Reader!Handlers, Loop!Handlers, Reader!SizeRead, Loop!SizeRead,
       Reader!AllocationFails, Loop!AllocationFails, Reader!ReadDone, Loop!ReadDone,
       Reader!Invoke, Loop!Invoke, Reader!AsyncRead, Loop!AsyncRead,
       Reader!ReadStatus, Loop!ReadStatus, Reader!IsError, Loop!IsError,
       Reader!PacketRead, Loop!PacketRead, Reader!FailureIsError, Loop!FailureIsError,
       Reader!Junk, Loop!Junk, Reader!Parts, Loop!Parts,
       Reader!socketVars, Loop!socketVars, Reader!inVars, Loop!inVars,
       Reader!historyVars, Loop!historyVars

LEMMA SameCallbacks ==
    (Reader!HandleReturns \/ Reader!DeathReturns) => Loop!Callbacks
BY DEF Reader!HandleReturns, Reader!DeathReturns, Loop!Callbacks, Loop!HandleReturns, Loop!DeathReturns,
       Reader!LoopResumesAt, Loop!LoopResumesAt, Reader!GoesOnAfterDeath, Loop!GoesOnAfterDeath,
       Reader!AsyncRead, Loop!AsyncRead, Reader!ReadStatus, Loop!ReadStatus,
       Reader!socketVars, Loop!socketVars, Reader!inVars, Loop!inVars,
       Reader!historyVars, Loop!historyVars

LEMMA SameKernel == Reader!Kernel => Loop!Kernel
BY DEF Reader!Kernel, Loop!Kernel, Reader!ReadCompletes, Loop!ReadCompletes,
       Reader!ReadFails, Loop!ReadFails, Reader!MoreJunk, Loop!MoreJunk, Reader!Parts, Loop!Parts,
       Reader!socketVars, Loop!socketVars, Reader!historyVars, Loop!historyVars

LEMMA SameEnvironment == (Reader!Peer \/ Reader!SocketCloses) => (Loop!Peer \/ Loop!SocketCloses)
BY DEF Reader!Peer, Loop!Peer, Reader!PartArrives, Loop!PartArrives, Reader!LinkDown, Loop!LinkDown,
       Reader!SocketCloses, Loop!SocketCloses, Reader!socketVars, Loop!socketVars,
       Reader!readerVars, Loop!readerVars, Reader!loopVars, Loop!loopVars, Reader!inVars, Loop!inVars,
       Reader!historyVars, Loop!historyVars

(* Every step of the connection is one of its receive loop, or none. *)
LEMMA LoopStep == [Next]_vars => [Loop!Next]_(Loop!vars)
<1> SUFFICES ASSUME [Next]_vars PROVE [Loop!Next]_(Loop!vars)
  OBVIOUS
<1>1. CASE UNCHANGED vars
  BY <1>1, SameState DEF vars
<1>2. CASE Owner
  BY <1>2, SameStart, SameState
     DEF Owner, StartReceiveLoop, ScheduleDisconnect, Close, Destroy, AsksToClose, Loop!Next
<1>3. CASE SocketCloses
  BY <1>3, SameEnvironment DEF SocketCloses, Loop!Next
<1>4. CASE Callbacks
  <2>1. CASE HandlerRuns
    BY <2>1, SameHandlers DEF HandlerRuns, Loop!Next
  <2>2. CASE Returns \/ OnDeathReturns
    BY <2>2, SameCallbacks DEF Returns, OnDeathReturns, Loop!Next
  <2>3. CASE PacketHandled \/ Throws \/ ExceptionHandled \/ Escapes \/ Decides
    BY <2>3, SameState DEF PacketHandled, Throws, ExceptionHandled, Escapes, Decides, InHandler
  <2> QED BY <1>4, <2>1, <2>2, <2>3 DEF Callbacks
<1>5. CASE Kernel \/ Peer
  BY <1>5, SameKernel, SameEnvironment DEF Kernel, Peer, Loop!Next
<1> QED BY <1>1, <1>2, <1>3, <1>4, <1>5 DEF Next

LEMMA LoopInvariant == Spec => []Loop!IInv
<1>1. Init => Loop!IInv
  BY SameState, Loop!InitIInv, ReaderAssumption DEF Init
<1>2. Loop!IInv /\ [Next]_vars => Loop!IInv'
  BY LoopStep, Loop!NextStep, ReaderAssumption
<1> QED BY <1>1, <1>2, PTL DEF Spec

-----------------------------------------------------------------------------
(***************************************************************************)
(* What the steps of the loop do to the variables on_handle looks at       *)
(***************************************************************************)

LEMMA HandlersEffect ==
    ASSUME Reader!Handlers
    PROVE  /\ stage \in Parts
           /\ stage' \in {"data", "handling", "dying"}
           /\ starts' = starts
           /\ stage' # "handling" => delivered' = delivered
           /\ stage' = "dying" \/ died' = died
BY DEF Reader!Handlers, Reader!SizeRead, Reader!AllocationFails, Reader!ReadDone, Reader!Invoke,
       Reader!AsyncRead, Reader!FailureIsError, Reader!Parts, Parts, Reader!historyVars

LEMMA CallbacksEffect ==
    /\ Reader!HandleReturns =>
           stage = "handling" /\ stage' \in {"size", "idle"}
    /\ Reader!DeathReturns => stage = "dying" /\ stage' = "idle"
    /\ Reader!HandleReturns \/ Reader!DeathReturns =>
           starts' = starts /\ delivered' = delivered
BY DEF Reader!HandleReturns, Reader!DeathReturns, Reader!LoopResumesAt, Reader!GoesOnAfterDeath,
       Reader!AsyncRead, Reader!historyVars

LEMMA StartEffect ==
    ASSUME Reader!StartReceiveLoop
    PROVE  stage = "idle" /\ stage' = "size" /\ delivered' = delivered
BY DEF Reader!StartReceiveLoop, Reader!AsyncRead

LEMMA EnvironmentEffect ==
    ASSUME Reader!Kernel \/ Reader!Peer \/ Reader!SocketCloses
    PROVE  UNCHANGED <<stage, starts, delivered>>
BY DEF Reader!Kernel, Reader!ReadCompletes, Reader!ReadFails, Reader!Peer, Reader!PartArrives,
       Reader!LinkDown, Reader!SocketCloses, Reader!loopVars, Reader!historyVars, Reader!readerVars

-----------------------------------------------------------------------------

(* What the invariant says beyond the loop's. *)
CallTypes ==
    /\ phase \in Phases
    /\ result \in HandlerResult
    /\ goOn \in BOOLEAN /\ killed \in BOOLEAN /\ alive \in BOOLEAN
    /\ closing \in BOOLEAN /\ crashed \in BOOLEAN /\ threw \in BOOLEAN /\ told \in BOOLEAN
    /\ afterKill \in 0 .. 2

CallInv == CallTypes /\ InCallback /\ KillIsSeen /\ EndIsTold /\ SilentStopMeansKilled

LEMMA InitCallInv == Init => CallInv
<1> SUFFICES ASSUME Init PROVE CallInv
  OBVIOUS
<1>1. stage = "idle" /\ starts = 0
  BY DEF Init, Reader!Init
<1>2. /\ goOn \in BOOLEAN /\ killed \in BOOLEAN /\ alive \in BOOLEAN
      /\ closing \in BOOLEAN /\ crashed \in BOOLEAN /\ threw \in BOOLEAN /\ told \in BOOLEAN
  BY Zenon DEF Init
<1>3. CallTypes
  BY <1>2 DEF Init, CallTypes, Phases, HandlerResult
<1> QED BY <1>1, <1>3 DEF Init, CallInv, InCallback, KillIsSeen, EndIsTold, SilentStopMeansKilled, Parts

(* The owner starts a loop, kills, closes or destroys the connection. *)
LEMMA OwnerStep == CallInv /\ Owner => CallInv'
<1> SUFFICES ASSUME CallInv, Owner PROVE CallInv'
  OBVIOUS
<1> USE DEF CallInv, InCallback, KillIsSeen, EndIsTold, SilentStopMeansKilled, Parts
<1>1. CASE StartReceiveLoop
  <2>1. told' \in BOOLEAN
    BY <1>1, Zenon DEF StartReceiveLoop
  <2>2. CallTypes'
    BY <1>1, <2>1 DEF StartReceiveLoop, callVars, flagVars, CallTypes
  <2> QED BY <1>1, <2>2, StartEffect DEF StartReceiveLoop, callVars, flagVars
<1>2. CASE ScheduleDisconnect
  <2>1. CallTypes'
    BY <1>2 DEF ScheduleDisconnect, callVars, noteVars, CallTypes
  <2> QED BY <1>2, <2>1 DEF ScheduleDisconnect, readerVars, callVars, noteVars
<1>3. CASE Close \/ Destroy
  <2>1. CallTypes'
    BY <1>3 DEF Close, Destroy, AsksToClose, callVars, noteVars, CallTypes
  <2> QED BY <1>3, <2>1 DEF Close, Destroy, AsksToClose, readerVars, callVars, noteVars
<1> QED BY <1>1, <1>2, <1>3 DEF Owner

(* The loop's handler is run: on_handle is entered, or on_death. *)
LEMMA HandlerRunsStep == CallInv /\ HandlerRuns => CallInv'
<1> SUFFICES ASSUME CallInv, HandlerRuns PROVE CallInv'
  OBVIOUS
<1> USE DEF CallInv, InCallback, KillIsSeen, EndIsTold, SilentStopMeansKilled, Parts
<1>1. /\ stage \in Parts /\ phase = "out" /\ ~ told /\ afterKill = 0
      /\ stage' \in {"data", "handling", "dying"} /\ starts' = starts
      /\ threw => killed
      /\ UNCHANGED <<result, goOn, killed, alive, closing, crashed, threw>>
  BY HandlersEffect DEF HandlerRuns, flagVars
<1>2. phase' = (IF stage' = "handling" THEN "packet" ELSE "out") /\ told' = (stage' = "dying")
  BY <1>1 DEF HandlerRuns
<1>3. afterKill' \in {0, 1} /\ (afterKill' = 1 => killed /\ stage' = "handling")
  BY <1>1 DEF HandlerRuns
<1>4. CallTypes'
  BY <1>1, <1>2, <1>3 DEF CallTypes, Phases
<1> QED BY <1>1, <1>2, <1>3, <1>4

(* Inside on_handle, one step after the other. *)
LEMMA OnHandleStep ==
    CallInv /\ (PacketHandled \/ Throws \/ ExceptionHandled \/ Escapes \/ Decides) => CallInv'
<1> SUFFICES ASSUME CallInv, PacketHandled \/ Throws \/ ExceptionHandled \/ Escapes \/ Decides
             PROVE  CallInv'
  OBVIOUS
<1> USE DEF CallInv, InCallback, KillIsSeen, EndIsTold, SilentStopMeansKilled, Parts,
            InHandler, readerVars, Phases, CallTypes
<1>1. CASE PacketHandled
  BY <1>1 DEF PacketHandled, HandlerResult
<1>2. CASE Throws
  BY <1>2 DEF Throws
<1>3. CASE ExceptionHandled
  BY <1>3 DEF ExceptionHandled, AfterException
<1>4. CASE Escapes
  BY <1>4 DEF Escapes, callVars, noteVars
<1>5. CASE Decides
  BY <1>5 DEF Decides, WantsMore, noteVars, HandlerResult
<1> QED BY <1>1, <1>2, <1>3, <1>4, <1>5

(* on_handle or on_death has returned to the loop. *)
LEMMA ReturnsStep == CallInv /\ (Returns \/ OnDeathReturns) => CallInv'
<1> SUFFICES ASSUME CallInv, Returns \/ OnDeathReturns PROVE CallInv'
  OBVIOUS
<1> USE DEF CallInv, InCallback, KillIsSeen, EndIsTold, SilentStopMeansKilled, Parts
<1>1. CASE Returns
  BY <1>1, CallbacksEffect DEF Returns, flagVars, noteVars, Phases, CallTypes
<1>2. CASE OnDeathReturns
  BY <1>2, CallbacksEffect DEF OnDeathReturns, callVars, flagVars, noteVars, CallTypes
<1> QED BY <1>1, <1>2

LEMMA EnvironmentStep == CallInv /\ (SocketCloses \/ Kernel \/ Peer) => CallInv'
<1> SUFFICES ASSUME CallInv, SocketCloses \/ Kernel \/ Peer PROVE CallInv'
  OBVIOUS
<1>1. UNCHANGED <<stage, starts, callVars, flagVars, noteVars>>
  BY EnvironmentEffect DEF SocketCloses, Kernel, Peer
<1> QED BY <1>1 DEF CallInv, CallTypes, InCallback, KillIsSeen, EndIsTold, SilentStopMeansKilled,
                    callVars, flagVars, noteVars

LEMMA NextCallInv == CallInv /\ [Next]_vars => CallInv'
<1> SUFFICES ASSUME CallInv, [Next]_vars PROVE CallInv'
  OBVIOUS
<1>1. CASE UNCHANGED vars
  BY <1>1 DEF vars, readerVars, callVars, flagVars, noteVars, CallInv, CallTypes, InCallback, KillIsSeen,
              EndIsTold, SilentStopMeansKilled
<1> QED BY <1>1, OwnerStep, HandlerRunsStep, OnHandleStep, ReturnsStep, EnvironmentStep
        DEF Next, Callbacks

-----------------------------------------------------------------------------

(* The invariant of the connection: that of its receive loop, and what     *)
(* on_handle makes of the kill flag and of the end of the loop.            *)
THEOREM ConnectionInvariant == Spec => [](Loop!IInv /\ CallInv)
<1> QED BY LoopInvariant, InitCallInv, NextCallInv, PTL DEF Spec

(* Type correctness of the connection and of the loop under it. *)
THEOREM ConnectionTypeOK == Spec => []TypeOK
<1>1. Loop!IInv /\ CallInv => TypeOK
  BY SameState DEF Loop!IInv, CallInv, CallTypes, TypeOK
<1> QED BY <1>1, ConnectionInvariant, PTL

(* However many loops are started and packets sent, and whatever thread    *)
(* kills when: a loop handles at most one packet after the kill.           *)
THEOREM ConnectionKill == Spec => []OnePacketAfterKill
<1>1. CallInv => OnePacketAfterKill
  BY DEF CallInv, KillIsSeen, OnePacketAfterKill
<1> QED BY <1>1, ConnectionInvariant, PTL

(* A loop that ends without a word was killed. *)
THEOREM ConnectionSilentStop == Spec => []SilentStopMeansKilled
<1>1. CallInv => SilentStopMeansKilled
  BY DEF CallInv
<1> QED BY <1>1, ConnectionInvariant, PTL

(* Every packet read is handed to on_handle once, in order, across loops,  *)
(* for any number of frames.                                               *)
THEOREM ConnectionOrder == Spec => []PacketsInOrder
<1>1. Loop!IInv => PacketsInOrder
  BY SameState DEF Loop!IInv
<1> QED BY <1>1, ConnectionInvariant, PTL

(* At most one packet of a loop is handed over on a closed socket. *)
THEOREM ConnectionLatePacket == Spec => []OneLatePacket
<1>1. Loop!IInv => OneLatePacket
  BY SameState DEF Loop!IInv
<1> QED BY <1>1, ConnectionInvariant, PTL

(* What has been announced as the end hands over nothing more: Disconnect  *)
(* within the loop, death in any loop.                                     *)
THEOREM ConnectionEndIsFinal == Spec => AnnouncedEndIsFinal
<1> DEFINE Ended == (told /\ stage # "idle") \/ died
<1>1. ASSUME Loop!IInv, CallInv, [Next]_vars, Ended
      PROVE  delivered' = delivered
  <2>1. CASE UNCHANGED vars
    BY <2>1 DEF vars, readerVars
  <2>2. CASE Owner
    BY <2>2, StartEffect DEF Owner, StartReceiveLoop, ScheduleDisconnect, Close, Destroy, AsksToClose,
                             readerVars
  <2>3. CASE HandlerRuns
    <3>1. Loop!Reading /\ ~ told
      BY <2>3, <1>1, HandlersEffect DEF HandlerRuns, CallInv, EndIsTold, Loop!Reading, Loop!Parts, Parts
    <3>2. died /\ status # "ok"
      BY <1>1, <3>1 DEF Loop!IInv, Loop!DeathIsFinal
    <3>3. delivered' = delivered
      BY <2>3, <3>2 DEF HandlerRuns, Reader!Handlers, Reader!SizeRead, Reader!AllocationFails,
                        Reader!ReadDone, Reader!Invoke, Reader!IsError
    <3> QED BY <3>3
  <2>4. CASE PacketHandled \/ Throws \/ ExceptionHandled \/ Escapes \/ Decides
    BY <2>4 DEF PacketHandled, Throws, ExceptionHandled, Escapes, Decides, InHandler, readerVars
  <2>5. CASE Returns \/ OnDeathReturns
    BY <2>5, CallbacksEffect DEF Returns, OnDeathReturns
  <2>6. CASE SocketCloses \/ Kernel \/ Peer
    BY <2>6, EnvironmentEffect DEF SocketCloses, Kernel, Peer
  <2> QED BY <1>1, <2>1, <2>2, <2>3, <2>4, <2>5, <2>6 DEF Next, Callbacks
<1>2. Loop!IInv /\ CallInv /\ [Next]_vars => [Ended => delivered' = delivered]_vars
  BY <1>1
<1> QED BY <1>2, ConnectionInvariant, PTL DEF Spec, AnnouncedEndIsFinal
=============================================================================
