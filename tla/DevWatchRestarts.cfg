\* speck dev --watch: two runs, edits at any time.
CONSTANTS
    Keys = {k1}
    Clients = {c1}
    NoClient = NoClient
    NoKey = NoKey
    NoFrame = NoFrame
    Capacity = 1
    WriteTimeouts = TRUE
    Watch = TRUE
    MaxRuns = 2
    MaxFrames = 1
    MaxStream = 1
    HostErrors = FALSE
    Stranger = FALSE
SPECIFICATION SessionSpec
INVARIANTS
    RunsDoNotOverlap
    IdleWatcherSaysWhy
PROPERTIES
    SessionImplementsViewerFeed
