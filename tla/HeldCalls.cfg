SPECIFICATION HeldFairSpec
CONSTANTS
    Gated = {c1, c2}
    Pinned = {c1, c2}
    Reviewers = {v1, v2}
    MaxFaults = 1
INVARIANTS
    RunsOnlyApproved
    DecidedOnce
PROPERTIES
    VerdictStands
    ApprovedRuns
    HeldRowCloses
CHECK_DEADLOCK FALSE
