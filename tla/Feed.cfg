\* Scrolls over three events, in pages of one or two and batches of two, with an edit and a failure.
SPECIFICATION FairSpec
CONSTANTS
    me0 = me0  u1 = u1  u2 = u2  e1 = e1  e2 = e2  e3 = e3  e4 = e4
    Users = {me0, u1, u2}
    Viewer = me0
    Events = {e1, e2, e3, e4}
    Days = {0, 1}
    NoDay = NoDay
    NoRow = NoRow
    Limits = {1, 3}
    MaxLimit = 2
    Batch = 2
    FetchCap = 2
    MaxItems = 1
    InitialTables <- Tables
    MaxEdits = 1
    MaxFaults = 1
    MaxPages = 4
INVARIANTS
    TypeOK
    NoRepeats
    FinishedScrollIsComplete
    PagesAreFull
PROPERTIES
    ShowsOnlyWhatMayBeSeen
    RequestsEnd
CHECK_DEADLOCK FALSE
