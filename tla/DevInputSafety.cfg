\* Two pages fight over one key of one run; the network loses requests and
\* the game's socket can fill up.
CONSTANTS
    Clients = {c1, c2}
    Keys = {k1}
    NoClient = NoClient
    NoKey = NoKey
    Capacity = 2
    WriteTimeouts = TRUE
    MaxRuns = 1
    MaxQueue = 1
    Lossy = TRUE
SYMMETRY ClientSymmetry
SPECIFICATION Spec
INVARIANTS
    InputInv
    KeysAnswerToOwner
    EdgesTellWhatHappened
PROPERTY
    ImplementsKeyLease
CHECK_DEADLOCK FALSE
