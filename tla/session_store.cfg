SPECIFICATION Spec
CONSTANTS
    Request = {r1, r2}
    Key = {k1, k2}
    Value = {v1}
    Lifetime = 2
    Wrap = 8
    MaxTime = 3
    MaxRestarts = 1
    Junk = Junk
    Null = Null
INVARIANT TypeOK
INVARIANT KeptLongEnough
PROPERTY KeptAsStored
PROPERTY BadCookieReplaced
CHECK_DEADLOCK FALSE
