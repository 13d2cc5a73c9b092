CONSTANTS
    MaxSends = 2
    TransientErrors = FALSE
SPECIFICATION Spec
INVARIANT FramesIntact
CHECK_DEADLOCK FALSE
