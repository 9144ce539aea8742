CONSTANTS
    telemetry = telemetry
    reuse = reuse
    r1 = r1
    r2 = r2
    TornLine = TornLine
    Unloaded = Unloaded
    Refs = {r1, r2}
    RefWriters = {telemetry, reuse}
    Offers <- SharedOffers
    RefLimit = 2
    MaxRefFaults = 0
SPECIFICATION Spec
INVARIANT OneLinePerTaskRef
