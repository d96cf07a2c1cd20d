SPECIFICATION Spec
CONSTANTS
    Calls = {c1}
    Ungated = {}
    Invoices = {i1}
    Packs = {p1}
    Sweepers = {s1}
    Reconcilers = {r1, r2}
    Paid = TRUE
    Allowance = 4
    PackCents = 2
    ReserveFloor = 0
    HoldEstimates = {1}
    MaxInFlight = 2
    DailyCap <- NullCap
    Costs = {5000, 40000}
    CostSources = {"openrouter"}
    MarkupBps = 15000
    TolCents = 0
    TolBps = 0
    MaxAttempts = 1
    HoldTTL = 1
    Grace = 1
    ReconcileGrace = 0
    Period = 2
    InvoiceLags = {0, 1}
    DayLength = 9
    SettleLag = 1
    Horizon = 1
    MaxClock = 3
INVARIANTS DebtOnlyWhenDrained BooksBalance OrphansStayVisible LedgerExplainsBooks
PROPERTIES ImplementsAccount
CHECK_DEADLOCK FALSE
