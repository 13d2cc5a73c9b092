CONSTANTS
    MaxSends = 4
    TransientErrors = FALSE
SPECIFICATION FairSpec
INVARIANT TypeOK OneWriteInFlight WireIsPrefix CloseIsArmed GracefulClose
PROPERTY ImplementsFrameStream
CHECK_DEADLOCK FALSE
