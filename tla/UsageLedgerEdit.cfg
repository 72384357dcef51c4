\* The same with edits of the limits that keep or reset usage.
SPECIFICATION Spec
CONSTANTS
    tokens = tokens
    costs = costs
    m1 = m1
    none = none
    NoModel = none
    Models = {none}
    Price <- NoPrices
    UnknownPrice = 1
    Budgets <- BudgetPairs
    Usages <- UnderUsage
    StaleAge = 0
    BatchSize = 1
    MaxSweepFaults = 0
    Limits = {tokens}
    LimitType <- OneType
    Window <- OneWindow
    ModelFilter <- OneFilter
    Requests = {r1, r2}
    MaxTime = 3
    MaxEdits = 1
    EditResets = {TRUE, FALSE}
    MaxValues = {3}
    InitialMax = 3
SYMMETRY RequestSymmetry
INVARIANTS
    TypeOK
    NeverUndercounts
