\* Websocket calls: the probe slot of a failed handshake.
CONSTANTS
    Calls = {c1, c2}
    Kinds = {"ws"}
    FailureThreshold = 2
    SuccessThreshold = 2
    RecoveryTimeout = 2
SPECIFICATION Spec
INVARIANTS ProbeSlotHasHolder
