SPECIFICATION GateSpec
CONSTANTS
    Collectives = {c1, c2}
    MaxWindows = 3
CHECK_DEADLOCK FALSE
INVARIANTS
    
    OneArmedTimer
PROPERTIES
    WindowCloses
