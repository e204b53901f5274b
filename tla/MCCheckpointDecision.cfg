SPECIFICATION DecisionSpec
CONSTANTS
    Rails = {r1, r2}
    Modes = {"tempo", "baseline"}
    MaxStep = 2
    MaxTries = 2
    Milestone = 2
    LowProgress = 3
    SloSteps = 4
    FullSize = 40
    PcieCeiling = 20
    NcclLevels = {0, 19}
    OtherRanks = {1}
    Owned = {1}
    r1 = r1
    r2 = r2
CHECK_DEADLOCK FALSE
INVARIANTS
    
    RaisedIsRetried
SYMMETRY RailSymmetry
