SPECIFICATION GpuSpec
CONSTANTS
    Transfers = {1, 2, 3}
    SmallTransfers = {3}
CHECK_DEADLOCK FALSE
INVARIANTS
    DoneMeansSent
