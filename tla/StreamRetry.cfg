SPECIFICATION FairSpec
CONSTANTS
    a1 = a1
    a2 = a2
    None = None
    Accounts = {a1, a2}
    Handlers = {"responses"}
    MaxAccountAttempts = 3
    MaxTransientRetries = 2
    HttpErrors <- Refusals
INVARIANTS
    TypeOK
    ReservationSettled
    ChargedExactly
    OneAnswer
    Answered
    CallsBounded
    LateTryOnce
PROPERTIES
    NoReplay
    ExcludedNotUsed
    OwnerOnly
    RequestEnds
