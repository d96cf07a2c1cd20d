SPECIFICATION FairSpec
CONSTANTS
    Reapers = {r1, r2}
    Local = {r1}
    Stale = 1
    ClaimTtl = 1
    Cap = 2
    MaxFrames = 1
    MaxStalls = 1
    MaxFaults = 1
    MaxClock = 5
INVARIANTS TypeOK OneReaper OwnerHasLastWord SettledMeansSaved
PROPERTIES OnlySilentReaped HealthyKeepsRow RecoveryKeepsLongest DeadIsRecovered
CHECK_DEADLOCK FALSE
