SPECIFICATION FairSpec
CONSTANTS
    Calls = {c1, c2}
    Ungated = {c2}
    Invoices = {}
    Packs = {}
    Sweepers = {s1}
    Reconcilers = {r1}
    Paid = FALSE
    Allowance = 4
    PackCents = 2
    ReserveFloor = 0
    HoldEstimates = {1}
    MaxInFlight = 2
    DailyCap <- NullCap
    Costs = {5000}
    CostSources = {"openrouter"}
    MarkupBps = 15000
    TolCents = 0
    TolBps = 0
    MaxAttempts = 2
    HoldTTL = 1
    Grace = 1
    ReconcileGrace = 0
    Period = 9
    InvoiceLags = {0}
    DayLength = 9
    SettleLag = 1
    Horizon = 0
    MaxClock = 3
PROPERTIES EventuallyBilled HoldsReleased
