SPECIFICATION FairSpec
CONSTANTS
    u1 = u1
    u2 = u2
    a1 = a1
    r1 = r1
    r2 = r2
    c1 = c1
    c2 = c2
    p1 = p1
    p2 = p2
    p3 = p3
    Users = {u1, u2}
    Contents = {c1, c2}
    SizeOf <- MCSizeOf
    Uploads = {p1, p2, p3}
    UploaderOf <- MCUploaderOf
    ContentOf <- MCContentOf
    Knows = {p2}
    Reapers = {r1, r2}
    AskedFor <- MCAskedFor
    Admins = {a1}
    WhoOf <- MCWhoOf
    Cron = cron
    Tolerance = 1
    MaxFaults = 1
    None = None
INVARIANTS TypeOK Accurate
PROPERTIES EventuallyAccurate
CHECK_DEADLOCK FALSE
