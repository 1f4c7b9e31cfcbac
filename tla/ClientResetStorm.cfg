\* Violated by two requests: one broken connection, and resets in turn exhaust an attempt budget.
SPECIFICATION Spec
CONSTANTS
    q1 = q1  q2 = q2
    Requests = {q1, q2}
    MaxAttempts = 3
    MaxCalls = 1
    MaxFaults = 1
INVARIANTS
    UpstreamOnlyIfPersistent
CHECK_DEADLOCK FALSE
