CONSTANTS
    c1 = c1
    c2 = c2
    c3 = c3
    f1 = f1
    f2 = f2
    Results = {p1, p2, p3}
    McpResults = {p2}
    Dispositions = {useful, wrong}
    SaysLimit = 2
    MaxPolls = 1
    MaxSaysFaults = 2
    Jobs = {j1, j2, j3}
    MaxConcurrent = 1
    HttpJobs = {j1}
    ProfileJobs = {j2}
    Claims = {c1, c2, c3}
    Referrals = {f1, f2}
    ReferralOf <- MCReferralOf
    Writes = {w1}
    Notes = {n1, n2}
    Flushes = {u1}
    Drains = {d1}
    Keys = {k1}
    MaxRecords = 1
    MaxProspectiveFaults = 1
SPECIFICATION FairSpec
CHECK_DEADLOCK FALSE
INVARIANTS
    ServicesTypeOK
    OneStatement
    AcceptedIsReadable
    NoStrayWorker
    OneRecheck
    FlushIsComplete
PROPERTIES
    RecordsOnlyAdvance
    WaitEnds
    ComparisonEnds
    FlushReturns
    CaptureAdvances
