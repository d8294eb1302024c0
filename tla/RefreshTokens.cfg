SPECIFICATION FairSpec
CONSTANTS
    Families = {f1}
    NoFamily = NoFamily
    Requests = {r1, r2}
    MaxTokens = 4
    MaxGrants = 1
    MaxFaults = 1
INVARIANTS
    OneUnused
    FreshScope
PROPERTIES
    DeadStaysDead
    ReuseEndsSession
CHECK_DEADLOCK FALSE
