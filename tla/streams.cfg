SPECIFICATION FairSpec
CONSTANTS
    Sent <- MCSent
    BufferSize = 2
    Octets <- MCOctets
    Wrap = 32
    Null = Null
INVARIANT ScgiExact
INVARIANT HttpExact
INVARIANT EnvExact
INVARIANT WholeRequestsParsed
PROPERTY ReaderEnds
CHECK_DEADLOCK FALSE
