CONSTANTS
    Caller = {c1, c2}
    Host = {h1, h2, h3}
    Cap = 2
    TTL = 2
    LocalTTL = 3
    Lifetime = {1, 3}
    MaxNow = 4
SPECIFICATION Spec
INVARIANT ServedIsValid
SYMMETRY Symmetry
CHECK_DEADLOCK FALSE
