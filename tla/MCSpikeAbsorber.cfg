SPECIFICATION FairSpec
CONSTANTS
    Producers = {p1, p2, p3}
    Capacity = 2
    MaxCalls = 2
    NoBlock = NoBlock
INVARIANTS
    TypeOK
    RingInv
    DeliversInClaimOrder
    NoSlotRace
    
PROPERTIES
    ImplementsFifo
    ClaimedIsDrained
