SPECIFICATION Spec
CONSTANTS
    Calls = {c1}
    Ungated = {c1}
    Invoices = {}
    Packs = {}
    Sweepers = {}
    Reconcilers = {r1, r2}
    Paid = FALSE
    Allowance = 4
    PackCents = 2
    ReserveFloor = 0
    HoldEstimates = {1}
    MaxInFlight = 2
    DailyCap <- NullCap
    Costs = {40000}
    CostSources = {"openrouter"}
    MarkupBps = 15000
    TolCents = 0
    TolBps = 0
    MaxAttempts = 2
    HoldTTL = 2
    Grace = 1
    ReconcileGrace = 0
    Period = 9
    InvoiceLags = {0}
    DayLength = 9
    SettleLag = 1
    Horizon = 1
    MaxClock = 3
INVARIANTS NoStuckReconcile
CHECK_DEADLOCK FALSE
