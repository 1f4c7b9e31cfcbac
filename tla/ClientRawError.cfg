\* Violated by one request: the query after a retried one uses the closed client.
SPECIFICATION Spec
CONSTANTS
    q1 = q1  q2 = q2
    Requests = {q1}
    MaxAttempts = 3
    MaxCalls = 2
    MaxFaults = 1
INVARIANTS
    NoRawError
CHECK_DEADLOCK FALSE
