CONSTANTS
    MaxSends = 2
    TransientErrors = TRUE
    MaxFrames = 1
    MaxStarts = 2
    AllocFails = TRUE
SPECIFICATION FairSpec
INVARIANT ReleaseFindsClosed WireInOrder NothingBeyondHorizon
PROPERTY NothingLeaks CloseEndsBoth QueueDrains
CHECK_DEADLOCK FALSE
