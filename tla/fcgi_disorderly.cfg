SPECIFICATION Spec
CONSTANTS
    Req = {r1, r2}
    Id = {i1}
    ManagementId = zero
    Worker = {w1, w2}
    NoReq = NoReq
    NoOne = NoOne
    Moves = {"management", "abort", "stray"}
    Recycle = FALSE
    MaxWire = 1
    MaxData = 0
    MaxChunks = 0
    MaxOut = 2
SYMMETRY Symmetry
INVARIANTS
    Framed
    
