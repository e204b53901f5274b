SPECIFICATION FairSpec
CONSTANTS
    Steps = {s1, s2}
    Collectives = {c1, c2}
    Chunks = 2
    MaxPending = 1
    MaxFailures = 1
    NoFile = NoFile
    NoStep = NoStep
CHECK_DEADLOCK FALSE
INVARIANTS
    ActiveWhileInFlight
