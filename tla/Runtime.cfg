CONSTANTS
    Procs = {p1, p2}
    Slots = {0, 1}
    BadSlots = {16}
    Values <- SavedValues
    Pid <- SamePid
    Files = {1, 2, 3, 4, 5, 6}
    MaxAttempts = 2
    Magnitude = 128
    ForeignTexts <- ShortTexts
    Fallback = Fallback
    None = None
    MaxCalls = 2
    MaxFaults = 1
    SlotCount <- RingSizes
    Voices = {1}
    EffectSamples = 2
    TrackSamples = 1
    BufferSamples = 1
    MaxAudioCalls = 4
    Width = 2
    Height = 2
    MaxInt = 3
    MaxColor = 2
    Second = 5
    Frame = 2
    MaxWork = 6
    MaxLate = 2
    MaxTime = 24
SPECIFICATION Spec
SYMMETRY ProcSymmetry
INVARIANTS
    SlotsNeverTorn TemporariesAccountedFor ParseIsStrict
    RingsKeepCommands StopSilencesEarlierTracks LastPlayIsTheTrack ResetIsAlone
    DrawingIsExact
    FramesArePaced
PROPERTY
    ImplementsSaveSlots
CHECK_DEADLOCK FALSE
