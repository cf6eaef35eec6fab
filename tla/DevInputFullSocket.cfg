\* A game that is suspended long enough for a control write to time out.
CONSTANTS
    Clients = {c1}
    Keys = {k1}
    NoClient = NoClient
    NoKey = NoKey
    Capacity = 2
    WriteTimeouts = TRUE
    MaxRuns = 1
    MaxQueue = 1
    Lossy = FALSE
SPECIFICATION FairSpec
PROPERTY
    VanishedControllerReleased
CHECK_DEADLOCK FALSE
