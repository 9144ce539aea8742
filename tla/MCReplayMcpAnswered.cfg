CONSTANTS
    b1 = b1
    b2 = b2
    b3 = b3
    k1 = k1
    k2 = k2
    c1 = c1
    c2 = c2
    c3 = c3
    NoCred = NoCred
    NoRequest = NoRequest
    Bindings = {b1, b2}
    Dated = {b1, b2}
    X402 = {b1, b2}
    Required = {}
    Named = {b1, b2}
    Requests = {r1, r2, r3}
    Recoveries = {r3}
    Epochs = {e1}
    Key <- MCKey
    Cred <- MCCred
    Until <- MCUntil
    TTL = 1
    Grace = 1
    MaxEntries = 2
    MaxKept = 2
    MaxTime = 1
SPECIFICATION FairSpec
CHECK_DEADLOCK FALSE
PROPERTIES
    EveryCallAnswered
