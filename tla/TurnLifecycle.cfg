CONSTANTS
    maxTurnRetry = 2
    MaxCrashes = 2
SPECIFICATION FairSpec
INVARIANTS
    SilentOnlyAfterError
    LineEndsWithTurn
PROPERTIES
    
    NoticeAfterNudge
    TurnEnds
CHECK_DEADLOCK FALSE
