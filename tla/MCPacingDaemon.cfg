SPECIFICATION FairSpec
CONSTANTS
    Launchers = {l1}
    Blocks = {b1, b2, b3}
    NoBlock = NoBlock
    Capacity = 2
    StrictGate = TRUE
    BlockBytes = 2
    Burst = 2
    UringDepth = 1
    MaxSubmitErrors = 2
INVARIANTS
    TypeOK
    NoLostWakeup
    
    OnePlace
    TeardownAfterThread
PROPERTIES
    StopReturns
    BlocksAreFlushed
CHECK_DEADLOCK FALSE
