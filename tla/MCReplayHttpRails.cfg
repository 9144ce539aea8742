CONSTANTS
    a = a
    a2 = a2
    b = b
    b2 = b2
    m = m
    u = u
    k1 = k1
    k2 = k2
    k3 = k3
    k4 = k4
    c1 = c1
    c2 = c2
    c3 = c3
    c4 = c4
    NoCred = NoCred
    NoRequest = NoRequest
    Bindings = {a, a2, b, m, u}
    Dated = {a, a2, b, m}
    X402 = {a, a2, b, u}
    Required = {u}
    Named = {a, a2, b, u}
    Requests = {r1, r2, r3}
    Epochs = {e1}
    Key <- MCKey
    Cred <- MCCred
    Until <- MCUntil
    TTL = 2
    Grace = 1
    MaxEntries = 1
    MaxTime = 6
SYMMETRY Perms
SPECIFICATION Spec
CHECK_DEADLOCK FALSE
INVARIANT
    ResultHasRoom
PROPERTIES
    ImplementsPaidOperation
