\* Requests, validation and the sweeper, no edits of the limits; no symmetry,
\* it is unsound for liveness.
SPECIFICATION FairSpec
CONSTANTS
    tokens = tokens
    costs = costs
    m1 = m1
    none = none
    NoModel = none
    Models = {m1, none}
    Price <- Prices
    UnknownPrice = 1
    Budgets <- BudgetPairs
    Usages <- OverUsage
    StaleAge = 1
    BatchSize = 2
    MaxSweepFaults = 1
    Limits = {tokens, costs}
    LimitType <- TwoTypes
    Window <- TwoWindows
    ModelFilter <- TwoFilters
    Requests = {r1, r2}
    MaxTime = 4
    MaxEdits = 0
    EditResets = {}
    MaxValues = {3}
    InitialMax = 3
INVARIANTS
    LedgerBalanced
    AdmittedWithinMax
    WindowsOnSchedule
PROPERTIES
    SettledOnce
    HeartbeatKept
    AbandonedReleased
