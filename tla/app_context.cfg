CONSTANTS
    Thread = {t1, t2}
    Datum = {d1, d2}
    Name = {n1}
    Cell = {c1, c2}
    MaxRules = 2
    Null = Null
SYMMETRY Symmetry
SPECIFICATION Spec
INVARIANTS
    TypeOK
    DestroyedOnce
    NothingLost
    PointersValid
