\* One page across a restart of the game with its requests delayed, and across
\* three runs of up to two frames each with its answers lost.
CONSTANTS
    Clients = {c1}
    Keys = {k1}
    NoClient = NoClient
    NoKey = NoKey
    Capacity = 2
    WriteTimeouts = FALSE
    MaxRuns = 2
    MaxQueue = 1
    Lossy = FALSE
    Viewers = {v1}
    LastRun = 3
    MaxFrames = 2
    NoFrame = NoFrame
    Unlearned = Unlearned
SPECIFICATION PagesSpec
INVARIANTS
    InputOfThisRun
    LivePictureMatchesGeneration
PROPERTIES
    VanishedControllerReleased
    NoStuckKey
    PagesNeverGoBack
    OfferedPictureIsShown
    ImplementsViewerFeed
CHECK_DEADLOCK FALSE
