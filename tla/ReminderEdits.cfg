\* Two calls in two workers, pages of one row, an edit and a fault anywhere.
SPECIFICATION FairSpec
CONSTANTS
    e1 = e1  e2 = e2  u1 = u1  u2 = u2  t1 = t1  t2 = t2
    r1 = r1  r2 = r2  p1 = p1  p2 = p2  h1 = h1  here = here  home = home  away = away
    Events = {e1}
    Users = {u1, u2}
    Tokens = {t1}
    Reminders = {h1}
    Author <- OneAuthor
    OffsetLen <- Offsets
    Instants = {1, None}
    Zones = {here, away}
    TzData <- TimeZones
    DefaultZone = home
    None = None
    Window = 2
    BatchSize = 2
    PageSize = 1
    MaxAttempts = 2
    Runs = {r1, r2}
    Processes = {p1, p2}
    Process <- TwoProcesses
    NoUser = NoUser
    NoReminder = NoReminder
    NoItem = NoItem
    MaxNow = 0
    MaxFaults = 1
    MaxEdits = 1
    MaxMixed = 1
INVARIANTS
    OnlyOwnDevices
PROPERTIES
    RunsEnd
CHECK_DEADLOCK FALSE
