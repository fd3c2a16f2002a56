CONSTANTS
    c1 = c1
    c2 = c2
    p1 = p1
    p2 = p2
    Calls = {c1, c2}
    Procs = {p1, p2}
    ProcOf <- MCProcOf
    Keys = {k1, k2}
    Values = {v1}
    None = None
    Orphan = Orphan
    NoData = NoData
    Missing = Missing
    Null = Null
    Torn = Torn
    MaxCrashes = 1
SPECIFICATION FairSpec
INVARIANTS Exclusion LastWriterPrevails LockIsReleased
PROPERTIES DeletedOnlyAfterFailure CallsEnd
