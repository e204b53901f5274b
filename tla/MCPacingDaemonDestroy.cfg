SPECIFICATION Spec
CONSTANTS
    Launchers = {l1}
    Blocks = {b1, b2, b3}
    NoBlock = NoBlock
    Capacity = 2
    StrictGate = TRUE
    BlockBytes = 2
    Burst = 2
    UringDepth = 1
    MaxSubmitErrors = 2
INVARIANT
    DestroyWaitsForIo
CHECK_DEADLOCK FALSE
