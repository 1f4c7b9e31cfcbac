\* Two requests in two workers, links of every site, every configuration, one fault.
SPECIFICATION Spec
CONSTANTS
    q1 = q1  q2 = q2  w1 = w1  w2 = w2  post = post  clip = clip  page = page  odd = odd
    Requests = {q1, q2}
    Workers = {w1, w2}
    Worker <- WorkerOf
    Keys = {post, clip, page, odd}
    Unkeyable = {odd}
    Site <- SiteOf
    MaxAttempts = 2
    Nothing = Nothing
    MaxFaults = 1
INVARIANTS
    TypeOK
    AsksInTurn
    FailsOnlyWhenExhausted
    CacheNeverFailsRequest
PROPERTIES
    CachedMetadataIsStable
CHECK_DEADLOCK FALSE
