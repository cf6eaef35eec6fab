\* The receiver connects the game after the session began to stop it.
CONSTANTS
    Clients = {c1}
    Keys = {k1}
    NoClient = NoClient
    NoKey = NoKey
    Capacity = 1
    WriteTimeouts = FALSE
    MaxRuns = 1
    MaxQueue = 1
    Lossy = FALSE
SPECIFICATION Spec
INVARIANT
    NoClaimAfterStop
CHECK_DEADLOCK FALSE
