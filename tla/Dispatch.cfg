CONSTANTS
    WordSize = 32
    Ids = {a, b}
    Schemas <- MCSchemas
    HeaderWidth = 2
    MinBytes = 4
    MaxBytes = 8
SPECIFICATION DispatchSpec
INVARIANT ReadsInside HandlerSeesWholePacket
PROPERTY ThrowsExactlyWhenShort
CHECK_DEADLOCK FALSE
