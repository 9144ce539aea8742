CONSTANTS
    a1 = a1
    a2 = a2
    NoRecord = NoRecord
    Operations = {o1}
    Artifacts = {a1, a2}
    Authorities = {readback}
    Writers = {w1, w2}
    Limit = 2
    MaxFaults = 1
    MaxRestarts = 1
    telemetry = telemetry
    reuse = reuse
    r1 = r1
    r2 = r2
    r3 = r3
    TornLine = TornLine
    Unloaded = Unloaded
    Refs = {r1, r2, r3}
    RefWriters = {telemetry, reuse}
    Offers <- BothWriters
    RefLimit = 2
    MaxRefFaults = 2
    None = None
    Processes = {p, q}
    MaxRuns = 3
    LastSegment = 2
    SegmentLimit = 2
    MaxAge = 2
    MaxEvents = 7
    MaxTime = 3
    MaxSegmentFaults = 2
    k1 = k1
    k2 = k2
    Keys = {k1, k2}
    MaxRecords = 1
    MaxProspectiveFaults = 0
    Inodes = {i1, i2, i3}
    MaxRows = 3
    PlaneLimit = 2
    MaxForeign = 1
    NoFile = NoFile
    NoCut = NoCut
    MaxPlaneFaults = 1
SYMMETRY Perms
SPECIFICATION JournalsSpec
CHECK_DEADLOCK FALSE
INVARIANTS
    OneRetainedSettlement
    SettledOnce
    AcceptedIsDurable
    PlanesTypeOK
    OneLinePerWriter
    NoCutUnderContention
    CompleteIsTrue
    CleanIsComplete
PROPERTIES
    RemovesOldestFirst
