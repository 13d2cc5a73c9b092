CONSTANTS
    WordSize = 32
    Ids = {a, b}
    Schemas <- MCSchemas
    HeaderWidth = 2
    MinBytes = 0
    MaxBytes = 8
SPECIFICATION DispatchSpec
INVARIANT ReadsInside
CHECK_DEADLOCK FALSE
