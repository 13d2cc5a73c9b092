--------------------------- MODULE DualConnection ---------------------------
(***************************************************************************)
(* gspp::DualConnection over the receive loop of its StreamClient: the     *)
(* on_handle and on_death that SetupStreamClient installs, and the owner's *)
(* StartReceiveLoop, ScheduleDisconnect, Close and destructor, which may   *)
(* run on any thread between any two steps of a callback.                  *)
(*                                                                         *)
(* The stage "handling" of StreamReader is unfolded into the steps of      *)
(* on_handle.  The read and the store of _killed are atomic here: a store  *)
(* takes place when it becomes visible to the thread that runs on_handle.  *)
(* How the write half defers a close is left open: the socket closes at    *)
(* some time after it was asked to.                                        *)
(***************************************************************************)
EXTENDS StreamSocket, ReaderBounds

VARIABLES
    stage, status, inbound, rpos, starts, delivered, synced, died, late,
    phase,     \* where on_handle is, "out" when it is not running
    result,    \* what HandlePacket returned
    goOn,      \* what on_handle is about to return
    killed,    \* _killed
    alive,     \* the DualConnection object exists
    closing,   \* CloseSocket has been called
    crashed,   \* an exception left a handler: std::terminate
    threw,     \* history: on_handle has caught an exception
    told,      \* history: this loop's end was told to onHandle or onDeath
    afterKill  \* history: packets this loop began to handle when killed or
               \* after an exception, counted up to 2

readerVars == <<stage, status, inbound, rpos, starts, delivered, synced, died, late>>
callVars == <<phase, result, goOn>>
flagVars == <<killed, alive, closing, crashed>>
noteVars == <<threw, told, afterKill>>
vars == <<socketVars, readerVars, callVars, flagVars, noteVars>>

Reader == INSTANCE StreamReader

HandlerResult == {"Continue", "Disconnect"}

Phases == {"out", "packet", "notify", "exception", "notifyDead", "return"}

TypeOK ==
    /\ Reader!TypeOK
    /\ phase \in Phases
    /\ result \in HandlerResult
    /\ {goOn, killed, alive, closing, crashed, threw, told} \subseteq BOOLEAN
    /\ afterKill \in 0 .. 2

(* SetupStreamClient has been called; its callbacks are all given. *)
Init ==
    /\ Reader!Init
    /\ phase = "out"
    /\ result = "Continue"
    /\ goOn = TRUE
    /\ killed = FALSE
    /\ alive = TRUE
    /\ closing = FALSE
    /\ crashed = FALSE
    /\ threw = FALSE
    /\ told = FALSE
    /\ afterKill = 0

-----------------------------------------------------------------------------
(***************************************************************************)
(* The owner                                                               *)
(***************************************************************************)

StartReceiveLoop ==
    /\ alive /\ ~ crashed
    /\ Reader!StartReceiveLoop
    /\ told' = FALSE
    /\ afterKill' = 0
    /\ UNCHANGED <<callVars, flagVars, threw>>

ScheduleDisconnect ==
    /\ alive /\ ~ crashed
    /\ killed' = TRUE
    /\ UNCHANGED <<socketVars, readerVars, callVars, alive, closing, crashed, noteVars>>

(* Close, and the destructor through ~StreamClient, call CloseSocket; the  *)
(* socket is closed by SocketCloses.                                       *)
AsksToClose ==
    /\ alive /\ ~ crashed
    /\ closing' = TRUE
    /\ UNCHANGED <<socketVars, readerVars, callVars, killed, crashed, noteVars>>

Close == AsksToClose /\ UNCHANGED alive

Destroy == AsksToClose /\ alive' = FALSE

SocketCloses ==
    /\ closing /\ ~ crashed
    /\ socket = "open"
    /\ Reader!SocketCloses
    /\ UNCHANGED <<callVars, flagVars, noteVars>>

-----------------------------------------------------------------------------
(***************************************************************************)
(* on_handle                                                               *)
(***************************************************************************)

(* A step inside on_handle. *)
InHandler(from) ==
    /\ ~ crashed
    /\ stage = "handling"
    /\ phase = from
    /\ UNCHANGED <<socketVars, readerVars, alive, closing>>

(* The loop's handler is run; when it calls on_handle, HandlePacket begins *)
(* with the packet, killed or not; when it calls on_death, onDeath is      *)
(* told.                                                                   *)
HandlerRuns ==
    /\ ~ crashed
    /\ Reader!Handlers
    /\ phase' = IF stage' = "handling" THEN "packet" ELSE phase
    /\ told' = (told \/ stage' = "dying")
    /\ afterKill' = IF stage' = "handling" /\ (killed \/ threw) /\ afterKill < 2
                    THEN afterKill + 1 ELSE afterKill
    /\ UNCHANGED <<result, goOn, flagVars, threw>>

(* HandlePacket returns, and onHandle is called with the result. *)
PacketHandled ==
    /\ InHandler("packet")
    /\ result' \in HandlerResult
    /\ phase' = "notify"
    /\ told' = (told \/ result' = "Disconnect")
    /\ UNCHANGED <<goOn, killed, crashed, threw, afterKill>>

(* HandlePacket or onHandle throws a std::exception: onHandleException is  *)
(* called.                                                                 *)
Throws ==
    /\ InHandler("packet") \/ InHandler("notify")
    /\ phase' = "exception"
    /\ threw' = TRUE
    /\ UNCHANGED <<result, goOn, killed, crashed, told, afterKill>>

(* onHandleException has returned: ScheduleDisconnect, then onHandle.      *)
AfterException_ReturnsOnly == UNCHANGED <<killed, told>>
AfterException == killed' = TRUE /\ told' = TRUE

ExceptionHandled ==
    /\ InHandler("exception")
    /\ AfterException
    /\ phase' = "notifyDead"
    /\ UNCHANGED <<result, goOn, crashed, threw, afterKill>>

(* Something thrown that is not a std::exception, and anything thrown by a *)
(* callback inside the catch block, is caught nowhere.                     *)
Escapes ==
    /\ ~ crashed
    /\ phase \in Phases \ {"out", "return"} \/ stage = "dying"
    /\ crashed' = TRUE
    /\ UNCHANGED <<socketVars, readerVars, callVars, killed, alive, closing, noteVars>>

(* onHandle has returned: the value on_handle returns. *)
WantsMore_KilledOnly == ~ killed
WantsMore_IgnoresKilled == result = "Continue"
WantsMore == result = "Continue" /\ ~ killed

Decides ==
    /\ \/ InHandler("notify") /\ goOn' = WantsMore
       \/ InHandler("notifyDead") /\ goOn' = FALSE
    /\ phase' = "return"
    /\ UNCHANGED <<result, killed, crashed, noteVars>>

(* Back in the loop of StreamReader, which acts on that value. *)
Returns ==
    /\ phase = "return"
    /\ ~ crashed
    /\ Reader!HandleReturns
    /\ (stage' # "idle") = goOn
    /\ phase' = "out"
    /\ UNCHANGED <<result, goOn, flagVars, noteVars>>

OnDeathReturns ==
    /\ ~ crashed
    /\ Reader!DeathReturns
    /\ UNCHANGED <<callVars, flagVars, noteVars>>

Kernel ==
    /\ ~ crashed
    /\ Reader!Kernel
    /\ UNCHANGED <<callVars, flagVars, noteVars>>

Peer ==
    /\ ~ crashed
    /\ Reader!Peer
    /\ UNCHANGED <<callVars, flagVars, noteVars>>

-----------------------------------------------------------------------------

Owner == StartReceiveLoop \/ ScheduleDisconnect \/ Close \/ Destroy

Callbacks ==
    \/ HandlerRuns
    \/ PacketHandled \/ Throws \/ ExceptionHandled \/ Escapes \/ Decides
    \/ Returns \/ OnDeathReturns

Next == Owner \/ SocketCloses \/ Callbacks \/ Kernel \/ Peer

Spec == Init /\ [][Next]_vars

(* Handlers are run and callbacks return, what has arrived is read, and a  *)
(* close is carried out (CloseEndsBoth of StreamClient).                   *)
FairSpec ==
    /\ Spec
    /\ WF_vars(Callbacks)
    /\ WF_vars(Kernel)
    /\ WF_vars(SocketCloses)
-----------------------------------------------------------------------------
(***************************************************************************)
(* Properties                                                              *)
(***************************************************************************)

(* After ScheduleDisconnect, or after a packet handler threw, a loop, also *)
(* one started later, handles at most one more packet: the flag is tested  *)
(* behind the packet, not before it.                                       *)
OnePacketAfterKill == afterKill <= 1

(* A loop that stops without a word to onHandle or onDeath was killed. *)
SilentStopMeansKilled ==
    (stage = "idle" /\ starts > 0 /\ ~ told) => killed

(* Once onHandle was told Disconnect the loop does not hand over another   *)
(* packet; once onDeath was called, no loop does that is started later.    *)
AnnouncedEndIsFinal ==
    [][(told /\ stage # "idle") \/ died => delivered' = delivered]_vars

(* A killed connection that has a whole packet waiting stops its loop, if  *)
(* no failed allocation has put its reads out of step.                     *)
KilledLoopEnds ==
    (killed /\ stage # "idle" /\ inbound >= rpos + 2)
        ~> (stage = "idle" \/ ~ synced \/ crashed)

(* Across loops, and whatever the callbacks do, on_handle is given every   *)
(* packet read, once and in order, until a buffer allocation fails.        *)
PacketsInOrder == Reader!PacketsInOrder

(* A loop hands over at most one packet after the socket is closed: the    *)
(* one whose read had completed before.                                    *)
OneLatePacket == Reader!OneLatePacket

(* While a loop runs, a frame that has arrived is handed over, or the loop *)
(* ends, or reads are out of step after a failed allocation.               *)
FramesDelivered ==
    \A p \in 1 .. MaxFrames :
        (stage # "idle" /\ inbound >= 2 * p)
            ~> (Len(delivered) >= p \/ stage = "idle" \/ ~ synced \/ crashed)

(* A comment in the catch block has it that returning false disconnects    *)
(* the peer right away.                                                    *)
ExceptionDisconnects == threw ~> (socket = "closed" \/ crashed)

(* The callbacks capture this: whenever one of them runs, the object must  *)
(* be alive.                                                               *)
CallbackFindsConnection ==
    (phase # "out" \/ stage = "dying") => alive
=============================================================================
