SPECIFICATION FairSpec
CONSTANTS
    s1 = s1
    s2 = s2
    p1 = p1
    i1 = i1
    i2 = i2
    u1 = u1
    u2 = u2
    Sends = {s1, s2}
    Stops = {p1}
    Instances = {i1, i2}
    Users = {u1, u2}
    InstanceOf <- MCSharedInstanceOf
    UserOf <- MCSharedUserOf
    Prompt = {s2}
    MaxRetries = 1
    MaxFaults = 1
    None = None
INVARIANTS TypeOK OneGeneration TerminalMeansStopped StopIsHonest
PROPERTIES MarkReaches SendNeverBlocks
CHECK_DEADLOCK FALSE
