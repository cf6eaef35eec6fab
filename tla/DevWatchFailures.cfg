\* speck dev --watch: failing host, foreign connections.
CONSTANTS
    Keys = {k1}
    Clients = {c1}
    NoClient = NoClient
    NoKey = NoKey
    NoFrame = NoFrame
    Capacity = 1
    WriteTimeouts = TRUE
    Watch = TRUE
    MaxRuns = 1
    MaxFrames = 1
    MaxStream = 1
    HostErrors = TRUE
    Stranger = TRUE
SPECIFICATION FairSessionSpec
INVARIANTS
    NothingLeftBehind
    ServerFailureReported
PROPERTIES
    CancelEndsSession
    EndedGameIsNoticed
