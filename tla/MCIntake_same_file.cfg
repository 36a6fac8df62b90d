SPECIFICATION Spec
CONSTANTS
    None = None
    f = f
    i1 = i1
    i2 = i2
    q1 = q1
    r1 = r1
    r2 = r2
    Files = {f}
    Contents <- MCContents
    Imports = {i1, i2}
    Requests = {q1}
    Asked <- MCAsked
    Resolutions = {r1, r2}
    Candidates <- MCCandidates
    MaxFaults = 1
CHECK_DEADLOCK FALSE
INVARIANT OneBatchPerFile
