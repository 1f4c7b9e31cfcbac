\* Two requests in two threads, keys that come and go, fetches that fail.
SPECIFICATION Spec
CONSTANTS
    q1 = q1  q2 = q2  k1 = k1  k2 = k2
    Requests = {q1, q2}
    Startup = Startup
    Kids = {k1, k2}
    Nothing = Nothing
    Lifespan = 1
    MaxNow = 2
    MaxFaults = 1
    MaxRotations = 2
SYMMETRY Symmetry
INVARIANTS
    TypeOK
    GoodTokensAreAccepted
PROPERTIES
    PublishedKeysAreWarm
CHECK_DEADLOCK FALSE
