\* Two requests of any kind over two events, with one fault.
SPECIFICATION Spec
CONSTANTS
    u1 = u1  u2 = u2  e1 = e1  e2 = e2  a = a  aa = aa  c = c
    oa = oa  oc = oc  q1 = q1  q2 = q2
    Users = {u1, u2}
    Events = {e1, e2}
    Urls = {a, aa, c}
    Objects = {oa, oc}
    Folder <- FolderOf
    ObjectOf <- PublicUrl
    Requests = {q1, q2}
    NoUser = NoUser
    NoEvent = NoEvent
    NoRow = NoRow
    NoUrl = NoUrl
    NoObject = NoObject
    Same = Same
    MaxAttempts = 2
    MaxFaults = 1
INVARIANTS
    TypeOK
    OthersObjectsStay
    NoOrphanObject
PROPERTIES
    OnlyAuthorWrites
    RemovedImageIsUnused
CHECK_DEADLOCK FALSE
SYMMETRY Symmetry
