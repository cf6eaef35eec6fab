\* speck dev --watch: Ctrl-C with control records in flight.
CONSTANTS
    Keys = {k1}
    Clients = {c1}
    NoClient = NoClient
    NoKey = NoKey
    NoFrame = NoFrame
    Capacity = 1
    WriteTimeouts = TRUE
    Watch = TRUE
    MaxRuns = 1
    MaxFrames = 1
    MaxStream = 2
    HostErrors = FALSE
    Stranger = FALSE
SPECIFICATION SessionSpec
INVARIANTS
    InterruptSucceeds
