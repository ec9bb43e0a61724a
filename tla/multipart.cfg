SPECIFICATION Spec
CONSTANTS
    Byte <- MCByte
    Boundary <- MCBoundary
    Openings <- MCOpenings
    Headers <- MCHeaders
    DataChunks <- MCDataChunks
    MaxData = 3
    MaxParts = 2
    Null = Null
INVARIANT DataExact
INVARIANT OwnHeaders
INVARIANT TablesExact
CHECK_DEADLOCK FALSE
