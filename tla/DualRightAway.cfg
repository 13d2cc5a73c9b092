CONSTANTS
    MaxFrames = 2
    MaxStarts = 1
    AllocFails = FALSE
SPECIFICATION FairSpec
PROPERTY ExceptionDisconnects
CHECK_DEADLOCK FALSE
