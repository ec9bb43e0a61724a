SPECIFICATION Spec
CONSTANTS
    Req = {r1, r2, r3}
    Id = {i1, i2}
    ManagementId = zero
    Worker = {w1, w2}
    NoReq = NoReq
    NoOne = NoOne
    Moves = {"keep", "nokeep", "hangup"}
    Recycle = TRUE
    MaxWire = 2
    MaxData = 1
    MaxChunks = 1
    MaxOut = 3
SYMMETRY Symmetry
INVARIANTS
    TypeOK
    PoolOwnsRequests
    FewFaults
    AnswersMatch
    RequestComplete
    ClosedForAReason
PROPERTIES
    ImplementsService
