CONSTANTS
    MaxSends = 3
    MaxArrivals = 4
SPECIFICATION Spec
INVARIANT BufferIsQuiet LoopGoesOn
CHECK_DEADLOCK FALSE
