CONSTANTS
    MaxFrames = 3
    MaxStarts = 2
    AllocFails = TRUE
SPECIFICATION FairSpec
INVARIANT TypeOK OnePacketAfterKill SilentStopMeansKilled PacketsInOrder OneLatePacket
PROPERTY AnnouncedEndIsFinal KilledLoopEnds FramesDelivered
CHECK_DEADLOCK FALSE
