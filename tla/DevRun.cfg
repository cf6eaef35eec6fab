\* speck dev: failing host, foreign connections, a game that may hang.
CONSTANTS
    Keys = {k1}
    Clients = {c1}
    NoClient = NoClient
    NoKey = NoKey
    NoFrame = NoFrame
    Capacity = 1
    WriteTimeouts = TRUE
    Watch = FALSE
    MaxRuns = 1
    MaxFrames = 2
    MaxStream = 2
    HostErrors = TRUE
    Stranger = TRUE
SPECIFICATION FairSessionSpec
INVARIANTS
    SuccessIsEarned
PROPERTIES
    RunEnds
