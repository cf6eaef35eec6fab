\* Files change while the watcher stamps, analyses, builds and waits.
CONSTANTS
    Files <- WatchedFiles
    Root = "game.spk"
    Resources = {"song.wav"}
    Texts <- TextsOf
    Imports <- ImportsOf
    Broken = {"bad lib"}
    Missing = "missing"
    Unread = "unread"
    MaxEdits = 2
SPECIFICATION FairWatchSpec
INVARIANT
    GameMatchesSnapshot
PROPERTIES
    WatcherCatchesUp
    CancelStopsEverything
CHECK_DEADLOCK FALSE
