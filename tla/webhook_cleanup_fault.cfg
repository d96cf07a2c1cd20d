SPECIFICATION FairSpec
CONSTANTS
    Events = {inv}
    Funding = {inv}
    Workers = {w1}
    Lease = 2
    MaxFaults = 2
    CleanupMayFail = TRUE
    MaxClock = 3
PROPERTIES EventuallyApplied
