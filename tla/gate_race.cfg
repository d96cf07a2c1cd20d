SPECIFICATION Spec
CONSTANTS
    Calls = {c1, c2, c3}
    Ungated = {}
    Invoices = {}
    Packs = {}
    Sweepers = {}
    Reconcilers = {}
    Paid = FALSE
    Allowance = 4
    PackCents = 0
    ReserveFloor = 0
    HoldEstimates = {1, 2, 3}
    MaxInFlight = 2
    DailyCap = 5
    Costs = {4000, 20000}
    CostSources = {"estimate"}
    MarkupBps = 15000
    TolCents = 0
    TolBps = 0
    MaxAttempts = 1
    HoldTTL = 1
    Grace = 1
    ReconcileGrace = 0
    Period = 1
    InvoiceLags = {0}
    DayLength = 2
    SettleLag = 3
    Horizon = 2
    MaxClock = 2
SYMMETRY CallSymmetry
INVARIANTS HeldSpendIsFunded InFlightCapHolds DailyCapHolds
PROPERTIES GateGrantsApart
CHECK_DEADLOCK FALSE
