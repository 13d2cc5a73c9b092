CONSTANTS
    WordSize = 64
    Base = 2
    SizeWidth = 2
    SpLimit = 2
    Junk = 1
    MaxForeign = 7
    MaxLength = 4
    Declared <- MCDeclared
    Samples <- MCSamples
SPECIFICATION Spec
INVARIANT RoundTrip CutIsNoticed Canonical LimitsAreKept
CHECK_DEADLOCK FALSE
