SPECIFICATION Spec
CONSTANTS
    Reapers = {r1, r2}
    Local = {r1}
    Stale = 1
    ClaimTtl = 1
    Cap = 2
    MaxFrames = 1
    MaxStalls = 0
    MaxFaults = 0
    MaxClock = 5
INVARIANTS NoGhostPlaceholder

CHECK_DEADLOCK FALSE
