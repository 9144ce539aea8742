CONSTANTS
    r1 = r1
    r2 = r2
    r3 = r3
    p1 = p1
    p2 = p2
    Requests = {r1, r3}
    Processes = {p1, p2}
    Process <- MCProcess
    MaxStarted = 3
    MaxHops = 3
    StartsAt = 1
    ExpiresAt = 2
    Inodes = {i1, i2}
    NoLock = NoLock
    MaxTime = 2
SYMMETRY Perms
SPECIFICATION Spec
CHECK_DEADLOCK FALSE
INVARIANTS
    HopsAreBought
    OneLease
    DoubtCloses
