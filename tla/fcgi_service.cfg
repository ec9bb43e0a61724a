SPECIFICATION FairSpec
CONSTANTS
    Req = {r1, r2}
    Id = {i1, i2}
    ManagementId = zero
    Worker = {w1, w2}
    NoReq = NoReq
    NoOne = NoOne
    Moves = {"keep", "nokeep", "hangup"}
    Recycle = FALSE
    MaxWire = 1
    MaxData = 1
    MaxChunks = 1
    MaxOut = 3
PROPERTIES
    ServesAll
    NoLostWakeup
