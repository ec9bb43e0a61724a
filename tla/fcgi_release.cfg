SPECIFICATION Spec
CONSTANTS
    Req = {r1}
    Id = {i1}
    ManagementId = zero
    Worker = {w1, w2}
    NoReq = NoReq
    NoOne = NoOne
    Moves = {"keep"}
    Recycle = FALSE
    MaxWire = 2
    MaxData = 1
    MaxChunks = 1
    MaxOut = 3
SYMMETRY Symmetry
INVARIANT
    ReleasedAfterUse
