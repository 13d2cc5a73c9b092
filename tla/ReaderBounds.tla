---------------------------- MODULE ReaderBounds ----------------------------
(***************************************************************************)
(* The parameters of StreamReader, apart from it so that the modules that  *)
(* compose it state the same assumption.                                   *)
(***************************************************************************)
EXTENDS Naturals

CONSTANTS
    MaxFrames,  \* bound: how many frames the peer sends
    MaxStarts,  \* bound: how often StartReceiveLoop is called
    AllocFails  \* whether the allocation of a packet buffer may fail

ASSUME ReaderAssumption ==
    /\ MaxFrames \in Nat
    /\ MaxStarts \in Nat
    /\ AllocFails \in BOOLEAN
=============================================================================
