\* The watcher whose embedded sound is missing, appears for the analysis and is removed again.
CONSTANTS
    Files <- WatchedFiles
    Root = "game.spk"
    Resources = {"song.wav"}
    Texts <- TextsOf
    Imports <- ImportsOf
    Broken = {"bad lib"}
    Missing = "missing"
    Unread = "unread"
    MaxEdits = 2
SPECIFICATION WatchSpec
INVARIANT
    EditsAreNoticed
CHECK_DEADLOCK FALSE
