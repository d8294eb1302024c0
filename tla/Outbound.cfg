CONSTANTS
    Rows = {r1}
    Calls = {c1, c2}
    NoRow = NoRow
    Kinds = {"text", "status", "file", "daemon", "notice"}
    Chunks = 2
    maxOutboundRetry = 2
    MaxReplays = 2
    MaxFaults = 2
SPECIFICATION FairSpec
INVARIANTS
    ShownOnce
PROPERTIES
    OwedSettles
    ImplementsDelivery
CHECK_DEADLOCK FALSE
