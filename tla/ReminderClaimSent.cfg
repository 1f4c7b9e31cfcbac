\* Violated without any fault: the abort leaves claims nobody will send.
SPECIFICATION Spec
CONSTANTS
    e1 = e1  e2 = e2  u1 = u1  u2 = u2  t1 = t1  t2 = t2
    r1 = r1  r2 = r2  p1 = p1  p2 = p2  h1 = h1  here = here  home = home  away = away
    Events = {e1, e2}
    Users = {u1}
    Tokens = {t1, t2}
    Reminders = {h1}
    Author <- OneAuthor
    OffsetLen <- Offsets
    Instants = {2}
    Zones = {away}
    TzData <- TimeZones
    DefaultZone = home
    None = None
    Window = 2
    BatchSize = 2
    PageSize = 3
    MaxAttempts = 2
    Runs = {r1, r2}
    Processes = {p1}
    Process <- OneProcess
    NoUser = NoUser
    NoReminder = NoReminder
    NoItem = NoItem
    MaxNow = 0
    MaxFaults = 0
    MaxEdits = 0
    MaxMixed = 0
INVARIANTS
    ClaimMeansSent
CHECK_DEADLOCK FALSE
