\* Two threads with two queries each, two faults.
SPECIFICATION FairSpec
CONSTANTS
    q1 = q1  q2 = q2
    Requests = {q1, q2}
    MaxAttempts = 2
    MaxCalls = 2
    MaxFaults = 2
INVARIANTS
    TypeOK
    ClosedIsBeingCleared
    CloseOnlyAfterBreak
    RetryFindsOpenClient
PROPERTIES
    CallsKeepTheContract
    EveryRequestEnds
CHECK_DEADLOCK FALSE
