CONSTANTS
    Ticks = {t1, t2}
    MaxTime = 3
    MaxOps = 2
    MaxFaults = 1
SPECIFICATION FairSpec
INVARIANTS
    FiredAsArmed
    FiringHasTick
PROPERTIES
    PauseStands
    
CHECK_DEADLOCK FALSE
