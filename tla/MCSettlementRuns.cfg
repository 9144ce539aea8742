CONSTANTS
    None = None
    p = p
    q = q
    Processes = {p, q}
    MaxRuns = 3
SPECIFICATION Spec
INVARIANT CompleteMeansSucceeded
CHECK_DEADLOCK FALSE
