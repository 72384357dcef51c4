SPECIFICATION Spec
CONSTANTS
    p1 = p1
    p2 = p2
    a1 = a1
    a2 = a2
    None = None
    Accounts = {a1}
    Requests = {p1}
    StickyKinds <- Both
    MaxAttempts = 2
    Grace = 1
    QuotaCooldown = 1
    PrimaryWindow = 2
    QuotaDefault = 2
    Recent = 1
    BackoffBase = 1
    BackoffMax = 2
    ResetDelays = {1}
    RetryDelays = {1}
    ErrorCounts = {1}
    Reports <- AnyReport
    UsageWindow = 1
    MaxTime = 2
    MaxErrors = 1
    MaxGen = 2
    MaxClosings = 0
PROPERTIES
    ExhaustedNotServed
