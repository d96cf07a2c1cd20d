SPECIFICATION FairSpec
CONSTANTS
    Events = {inv}
    Funding = {inv}
    Workers = {w1, w2, w3}
    Lease = 2
    MaxFaults = 1
    CleanupMayFail = TRUE
    MaxClock = 4
INVARIANTS TypeOK ClaimsApart
PROPERTIES EventuallyApplied
