CONSTANTS
    a = a
    a2 = a2
    b = b
    b2 = b2
    m = m
    u = u
    k1 = k1
    k2 = k2
    k3 = k3
    k4 = k4
    c1 = c1
    c2 = c2
    c3 = c3
    c4 = c4
    NoCred = NoCred
    NoRequest = NoRequest
    Bindings = {a, b2}
    Dated = {a, b2}
    X402 = {a, b2}
    Required = {}
    Named = {a, b2}
    Requests = {r1, r2, r3}
    Epochs = {e1}
    Key <- MCKey
    Cred <- MCCred
    Until <- MCUntil
    TTL = 1
    Grace = 1
    MaxEntries = 2
    MaxTime = 7
SYMMETRY Perms
SPECIFICATION Spec
CHECK_DEADLOCK FALSE
INVARIANTS
    SpendIsQuarantined
