\* Two requests of any kind of two users, one device, one user name, one fault.
SPECIFICATION Spec
CONSTANTS
    u1 = u1  u2 = u2  t1 = t1  n1 = n1  q1 = q1  q2 = q2
    Users = {u1, u2}
    Tokens = {t1}
    Names = {n1}
    Requests = {q1, q2}
    NoUser = NoUser
    NoToken = NoToken
    NoName = NoName
    NoProfile = NoProfile
    Same = Same
    MaxAttempts = 2
    MaxFaults = 1
INVARIANTS
    TypeOK
    AnswersWereTrue
    ErrorsHaveACause
PROPERTIES
    DevicesKeepTheirUser
    NamesSurvive
CHECK_DEADLOCK FALSE
SYMMETRY Symmetry
