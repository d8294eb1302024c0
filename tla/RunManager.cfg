CONSTANTS
    Runs = {r1, r2}
    Folders = {f, g}
    Killers = {k1}
    NoRun = NoRun
    MaxRun = 1
    circuitBreakerThreshold = 1
SPECIFICATION FairSpec
INVARIANTS
    ClaimsBounded
PROPERTIES
    TerminalIsFinal
    SlotFreed
