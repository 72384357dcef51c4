\* HTTP and websocket calls together; no symmetry, it is unsound for liveness.
SPECIFICATION FairSpec
CONSTANTS
    Calls = {c1, c2, c3}
    Kinds = {"http", "ws"}
    FailureThreshold = 2
    SuccessThreshold = 2
    RecoveryTimeout = 2
\* A leaked probe slot (see CircuitBreakerWsProbe) leaves nothing to do.
CHECK_DEADLOCK FALSE
INVARIANTS
    TypeOK
    ProbeSingleFlight
    CountersMatchState
PROPERTIES
    NoEarlyClose
    HttpProbeFreed
