CONSTANTS
    Runs = {r1, r2}
    Folders = {f}
    Killers = {k1}
    NoRun = NoRun
    MaxRun = 2
    circuitBreakerThreshold = 1
SPECIFICATION Spec
INVARIANTS
    OneGuestPerFolder
