SPECIFICATION Spec
CONSTANTS
    a1 = a1
    a2 = a2
    None = None
    Accounts = {a1, a2}
    Handlers = {"chat"}
    MaxAccountAttempts = 3
    MaxTransientRetries = 3
    HttpErrors <- Refusals
INVARIANTS
    EarlyExitReleases
