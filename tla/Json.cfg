CONSTANTS
    MaxNumber = 1
    Depth = 4
    Name = {"a", "b"}
    Text = {"", "x"}
    Declared <- MCDeclared
    Samples <- MCSamples
    Used <- MCUsed
    Documents <- MCDocuments
SPECIFICATION Spec
INVARIANT RoundTrip ThrowsOnMissing ReplacesTarget NothingUnset
CHECK_DEADLOCK FALSE
