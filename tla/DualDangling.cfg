CONSTANTS
    MaxFrames = 2
    MaxStarts = 1
    AllocFails = FALSE
SPECIFICATION Spec
INVARIANT CallbackFindsConnection
CHECK_DEADLOCK FALSE
