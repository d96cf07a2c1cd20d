SPECIFICATION Spec
CONSTANTS
    Activities = {2}
    Events = {1, 3}
    Chainers = {c1}
    Runs = {r1}
    ChainBatch = 1
    Batch = 1
    MaxRetries = 0
    MaxClock = 2
    MaxFaults = 0
    None = None
INVARIANTS NoFalseAlarm
CHECK_DEADLOCK FALSE
