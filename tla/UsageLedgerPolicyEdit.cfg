SPECIFICATION Spec
CONSTANTS
    tokens = tokens
    costs = costs
    m1 = m1
    none = none
    NoModel = none
    Models = {m1, none}
    Price <- Prices
    UnknownPrice = 1
    Budgets <- BudgetPairs
    Usages <- UsagePairs
    StaleAge = 0
    BatchSize = 1
    MaxSweepFaults = 0
    Limits = {tokens}
    LimitType <- OneType
    Window <- OneWindow
    ModelFilter <- OneFilter
    Requests = {r1}
    MaxTime = 3
    MaxEdits = 1
    EditResets = {FALSE}
    MaxValues = {3}
    InitialMax = 3
PROPERTIES
    PolicyEditPreservesUsage
