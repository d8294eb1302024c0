CONSTANTS
    Runs = {r1, r2, r3}
    Folders = {f, g}
    Killers = {k1}
    NoRun = NoRun
    MaxRun = 2
    circuitBreakerThreshold = 1
SPECIFICATION SpecOrderly
SYMMETRY Symmetry
INVARIANTS
    OneGuestPerFolder
    GuestHoldsSlot
    CidForEveryTurn
