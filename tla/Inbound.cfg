CONSTANTS
    Msgs = {1, 2}
    MaxRefused = 1
    Handlers = {h1, h2}
    Mixes <- MCMixes
    Second = 10
    MaxTime = 1
    MaxFaults = 1
SPECIFICATION FairSpec
INVARIANTS
    TypeOK
    StoredOnce
    NotBuried
    HeldSomewhere
PROPERTIES
    Arrives
CHECK_DEADLOCK FALSE
