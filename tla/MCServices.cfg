SPECIFICATION ServicesSpec
CONSTANTS
    k1 = k1
    k2 = k2
    k3 = k3
    KvKeys = {k1, k2}
    MaxTensors = 2
    MaxBackingFails = 1
    Keys = {k1, k2, k3}
    Ranks = {1, 2, 3}
    Me = 1
    Size <- MCSize
    Points <- MCPoints
    Hash <- MCHash
    Replication = 2
    Simulation = FALSE
    DramLimit = 2
    NvmeLimit = 3
    MaxPuts = 2
    MaxIOErrors = 1
    Layers = {1, 2}
    MaxChunks = 3
    MaxNanoSteps = 2
    WorldSize = 2
    Loads = {0, 1, 2}
    BaseWindow = 200
    FlushTimes = {0, 3000}
    MaxWindowRounds = 2
    GateLayers = {1, 2}
    MaxGateSteps = 3
    Transfers = {1, 2, 3}
    SmallTransfers = {3}
    NodeGpus = {0, 1}
    HomeGpu = 1
    LinkLevel = 3
    TopLevel = 4
    SaturatedLevel = 2
    RerouteMargin = 0
    CkptSteps = {10, 35, 85, 10000}
    MaxEgressSteps = 2
    CxiNics = {1, 2}
    MaxEvents = 2
    SeqLen = 5
    Levels = {0, 1, 2}
    HotScore = 1
    Second = 2
    MinTokens = 2
    RatioCount = 1
CHECK_DEADLOCK FALSE
INVARIANTS
    PendingIsTheRest
    DramShadowsOlder
    BudgetsHold
    ChunksInOrder
    
    SlotsDisjoint
    PassMeansReduced
    OneAtATimeIsSafe
    
    
PROPERTIES
    PutsLand
