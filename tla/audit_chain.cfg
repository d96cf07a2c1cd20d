SPECIFICATION FairSpec
CONSTANTS
    Activities = {2}
    Events = {1, 3}
    Chainers = {c1, c2}
    Runs = {r1, r2}
    ChainBatch = 1
    Batch = 1
    MaxRetries = 1
    MaxClock = 2
    MaxFaults = 1
    None = None
INVARIANTS TypeOK ChainLinear CursorAttested AlarmsHaveCause OldestFirst
PROPERTIES EventuallyDelivered
CHECK_DEADLOCK FALSE
