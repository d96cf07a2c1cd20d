SPECIFICATION Spec
CONSTANTS
    Calls = {c1, c2}
    Ungated = {c2}
    Invoices = {}
    Packs = {}
    Sweepers = {s1, s2}
    Reconcilers = {}
    Paid = FALSE
    Allowance = 4
    PackCents = 2
    ReserveFloor = 0
    HoldEstimates = {1}
    MaxInFlight = 2
    DailyCap <- NullCap
    Costs = {0, 5000, 40000}
    CostSources = {"estimate"}
    MarkupBps = 15000
    TolCents = 0
    TolBps = 0
    MaxAttempts = 1
    HoldTTL = 2
    Grace = 1
    ReconcileGrace = 0
    Period = 9
    InvoiceLags = {0}
    DayLength = 9
    SettleLag = 1
    Horizon = 1
    MaxClock = 4
INVARIANTS TypeOK BilledOnce
SYMMETRY SweeperSymmetry
