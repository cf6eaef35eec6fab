-------------------------------- MODULE Watch --------------------------------
(* speck dev --watch (src/dev/watch.rs): the loop that stamps the files a    *)
(* game depends on, analyses and builds it when they change, and launches    *)
(* only what still matches them.  Somebody edits the files at any moment.    *)
(* Every file is stamped, and read by the analysis, in a step of its own.    *)
(* How a game runs and stops is DevSession's; here it is one variable.       *)
EXTENDS BuildProcess, Sequences

CONSTANTS Files,      \* all paths, in the order of a snapshot
          Root,       \* the entry file
          Resources,  \* paths stamped by metadata: sound files
          Texts,      \* path -> texts it may have
          Imports,    \* text -> paths it refers to
          Broken,     \* texts the analysis rejects
          Missing, Unread,
          MaxEdits    \* bound on the edits

Paths == {Files[i] : i \in DOMAIN Files}
AllTexts == UNION {Texts[f] : f \in Paths}

\* Unread is no text, and what a text refers to is among the paths.
ASSUME WatchConstants ==
    /\ DOMAIN Files = 1..Len(Files) /\ Len(Files) \in Nat
    /\ Root \in Paths /\ MaxEdits \in Nat
    /\ Missing # Unread
    /\ \A f \in Paths : \A text \in Texts[f] : text # Unread /\ Imports[text] \subseteq Paths

VARIABLES disk, time,   \* path -> text, and its modification time
          snapshot, before, next,  \* path -> stamp
          todo,         \* paths still to be stamped or read
          deps, read,   \* the analysis: paths recorded, path -> text read
          pc, analysis, rebuild, changedAt,
          game,         \* "none", "running", "ended"
          program,      \* texts the running or last started game was built from
          shown,        \* the viewer's state
          tried,        \* history: texts of the last attempt that was concluded
          edits

fileVars == <<disk, time, edits>>
loopVars == <<snapshot, before, next, todo, deps, read, pc, analysis, rebuild, changedAt>>
gameVars == <<game, program, shown, tried>>
watchVars == <<fileVars, loopVars, gameVars, buildVars, cancelled>>
-----------------------------------------------------------------------------
First(paths) == Files[CHOOSE i \in DOMAIN Files :
                        Files[i] \in paths /\ \A j \in 1..i - 1 : Files[j] \notin paths]

NoStamp == [kind |-> "none", text |-> Unread, time |-> 0]
ContentsStamp(f) == [kind |-> "contents", text |-> disk[f], time |-> 0]

(* Deviation: metadata without a time does not tell two versions apart. *)
MetadataStampTimeless(f) ==
    [kind |-> "metadata", text |-> IF disk[f] = Missing THEN Missing ELSE Unread, time |-> 0]

(* A missing file is stamped with the error alone: it has no time. *)
MetadataStamp(f) ==
    IF disk[f] = Missing THEN [kind |-> "metadata", text |-> Missing, time |-> 0]
                         ELSE [kind |-> "metadata", text |-> Unread, time |-> time[f]]
Refresh(f, stamp) == IF stamp.kind = "metadata" THEN MetadataStamp(f) ELSE ContentsStamp(f)

Stamped(snap) == {f \in Paths : snap[f] # NoStamp}
Empty == [f \in Paths |-> NoStamp]
NothingRead == [f \in Paths |-> Unread]
Sources == {f \in deps \ Resources : read[f] \notin {Unread, Missing}}

WatchInit ==
    /\ disk \in [Paths -> AllTexts \cup {Missing}]
    /\ \A f \in Paths : disk[f] \in Texts[f] \cup {Missing}
    /\ time = [f \in Paths |-> 0] /\ edits = 0
    /\ snapshot = [Empty EXCEPT ![Root] = ContentsStamp(Root)]
    /\ before = Empty /\ next = Empty /\ todo = {} /\ deps = {} /\ read = NothingRead
    /\ pc = "top" /\ analysis = "none" /\ rebuild = TRUE /\ changedAt = "none"
    /\ game = "none" /\ program = NothingRead /\ shown = "watching" /\ tried = NothingRead
    /\ BuildInit /\ cancelled = FALSE

(* External: an edit, a removal or a new file; Ctrl-C; the end of a game. *)
Edit ==
    /\ edits < MaxEdits
    /\ \E f \in Paths : \E text \in (Texts[f] \cup {Missing}) \ {disk[f]} :
         disk' = [disk EXCEPT ![f] = text] /\ time' = [time EXCEPT ![f] = @ + 1]
    /\ edits' = edits + 1
    /\ UNCHANGED <<loopVars, gameVars, buildVars, cancelled>>

Interrupt ==
    /\ ~cancelled /\ cancelled' = TRUE
    /\ UNCHANGED <<fileVars, loopVars, gameVars, buildVars>>

GameEnds ==
    /\ game = "running" /\ game' = "ended"
    /\ UNCHANGED <<fileVars, loopVars, program, shown, tried, buildVars, cancelled>>

QuietPasses ==
    /\ changedAt = "recent" /\ changedAt' = "quiet"
    /\ UNCHANGED <<fileVars, snapshot, before, next, todo, deps, read, pc, analysis, rebuild,
                   gameVars, buildVars, cancelled>>

keeps == <<fileVars, buildVars, cancelled>>

(* The head of the loop. *)
LoopEnds ==
    /\ pc = "top" /\ cancelled
    /\ pc' = "stopped" /\ game' = "none"
    /\ UNCHANGED <<keeps, snapshot, before, next, todo, deps, read, analysis, rebuild, changedAt,
                   program, shown, tried>>

BeginRebuild ==
    /\ pc = "top" /\ ~cancelled /\ rebuild
    /\ game' = "none" /\ shown' = "building"
    /\ rebuild' = FALSE /\ changedAt' = "none"
    /\ pc' = "before" /\ todo' = Stamped(snapshot) /\ next' = Empty
    /\ UNCHANGED <<keeps, snapshot, before, deps, read, analysis, program, tried>>

SkipRebuild ==
    /\ pc = "top" /\ ~cancelled /\ ~rebuild
    /\ pc' = "poll"
    /\ UNCHANGED <<keeps, snapshot, before, next, todo, deps, read, analysis, rebuild, changedAt,
                   gameVars>>

(* One file of current(snapshot). *)
StampOne ==
    /\ pc \in {"before", "recheck", "compare"} /\ todo # {}
    /\ LET f == First(todo) IN
         next' = [next EXCEPT ![f] = Refresh(f, snapshot[f])] /\ todo' = todo \ {f}
    /\ UNCHANGED <<keeps, snapshot, before, deps, read, pc, analysis, rebuild, changedAt, gameVars>>

StartAnalysis ==
    /\ pc = "before" /\ todo = {}
    /\ before' = next /\ deps' = {} /\ read' = NothingRead
    /\ pc' = "analyze" /\ todo' = {Root}
    /\ UNCHANGED <<keeps, snapshot, next, analysis, rebuild, changedAt, gameVars>>

(* analyze_path records a path, then reads it, then follows its imports; the *)
(* first file it cannot use ends it.                                         *)
StampAfter(paths, result) ==
    /\ pc' = "after" /\ analysis' = result /\ next' = Empty
    /\ todo' = IF result = "ok" THEN paths ELSE Stamped(before) \cup paths

AnalyzeOne ==
    /\ pc = "analyze" /\ todo # {}
    /\ LET f == First(todo)
           seen == deps \cup {f}
           rest == (todo \ {f}) \cup (Imports[disk[f]] \ seen) IN
         /\ deps' = seen
         /\ read' = [read EXCEPT ![f] = disk[f]]
         /\ IF disk[f] \in Broken \cup {Missing} THEN StampAfter(seen, "error")
            ELSE IF rest = {} THEN StampAfter(seen, "ok")
            ELSE todo' = rest /\ UNCHANGED <<pc, analysis, next>>
    /\ UNCHANGED <<keeps, snapshot, before, rebuild, changedAt, gameVars>>

(* after_analysis: sources by contents, everything else by metadata. *)
StampAfterOne ==
    /\ pc = "after" /\ todo # {}
    /\ LET f == First(todo) IN
         /\ next' = [next EXCEPT ![f] = IF f \notin deps THEN Refresh(f, before[f])
                                        ELSE IF f \in Sources THEN ContentsStamp(f)
                                        ELSE MetadataStamp(f)]
         /\ todo' = todo \ {f}
    /\ UNCHANGED <<keeps, snapshot, before, deps, read, pc, analysis, rebuild, changedAt, gameVars>>

Changed == \/ \E f \in Stamped(next) : before[f] # next[f]
           \/ \E f \in Sources : next[f].text # read[f]

AnalysisFailed ==
    /\ pc = "after" /\ todo = {} /\ analysis = "error"
    /\ snapshot' = next /\ rebuild' = Changed
    /\ shown' = "failed" /\ tried' = read
    /\ pc' = "poll"
    /\ UNCHANGED <<keeps, before, next, todo, deps, read, analysis, changedAt, game, program>>

AnalysisStale ==
    /\ pc = "after" /\ todo = {} /\ analysis = "ok" /\ Changed
    /\ snapshot' = next /\ rebuild' = TRUE
    /\ pc' = "top"
    /\ UNCHANGED <<keeps, before, next, todo, deps, read, analysis, changedAt, gameVars>>

StartBuild ==
    /\ pc = "after" /\ todo = {} /\ analysis = "ok" /\ ~Changed
    /\ snapshot' = next
    /\ BuildStarts
    /\ pc' = "build"
    /\ UNCHANGED <<fileVars, cancelled, before, next, todo, deps, read, analysis, rebuild, changedAt,
                   gameVars>>

BuildEnds ==
    /\ pc = "build" /\ stage = "idle"
    /\ pc' = "recheck" /\ todo' = Stamped(snapshot) /\ next' = Empty
    /\ UNCHANGED <<keeps, snapshot, before, deps, read, analysis, rebuild, changedAt, gameVars>>

BuildStale ==
    /\ pc = "recheck" /\ todo = {} /\ next # snapshot
    /\ rebuild' = TRUE /\ pc' = "top"
    /\ UNCHANGED <<keeps, snapshot, before, next, todo, deps, read, analysis, changedAt, gameVars>>

(* Deviation: what was built is launched whatever happened to its files. *)
LaunchUnchecked ==
    /\ pc = "recheck" /\ todo = {} /\ ~cancelled /\ built = "ok"
    /\ pc' = "poll" /\ tried' = read
    /\ game' = "running" /\ program' = read /\ shown' = "playing"
    /\ snapshot' = next
    /\ UNCHANGED <<keeps, before, next, todo, deps, read, analysis, rebuild, changedAt>>

(* Launch, or report the failed build; Ctrl-C leaves the loop instead. *)
Launch ==
    /\ pc = "recheck" /\ todo = {} /\ next = snapshot
    /\ IF cancelled THEN pc' = "stopped" /\ UNCHANGED gameVars
       ELSE /\ pc' = "poll" /\ tried' = read
            /\ IF built = "ok"
               THEN game' = "running" /\ program' = read /\ shown' = "playing"
               ELSE shown' = "failed" /\ UNCHANGED <<game, program>>
    /\ UNCHANGED <<keeps, snapshot, before, next, todo, deps, read, analysis, rebuild, changedAt>>

PollGame ==
    /\ pc = "poll"
    /\ IF game = "ended" THEN game' = "none" /\ shown' = "watching" ELSE UNCHANGED <<game, shown>>
    /\ pc' = "compare" /\ todo' = Stamped(snapshot) /\ next' = Empty
    /\ UNCHANGED <<keeps, snapshot, before, deps, read, analysis, rebuild, changedAt, program, tried>>

(* An edit stops the game at once; the rebuild waits for a quiet interval. *)
Compared ==
    /\ pc = "compare" /\ todo = {}
    /\ IF next # snapshot
       THEN /\ game' = "none" /\ shown' = "building"
            /\ snapshot' = next /\ changedAt' = "recent"
            /\ UNCHANGED rebuild
       ELSE /\ rebuild' = (rebuild \/ changedAt = "quiet")
            /\ UNCHANGED <<game, shown, snapshot, changedAt>>
    /\ pc' = "top"
    /\ UNCHANGED <<keeps, before, next, todo, deps, read, analysis, program, tried>>

WatcherStep == \/ LoopEnds \/ BeginRebuild \/ SkipRebuild \/ StampOne \/ StartAnalysis
               \/ AnalyzeOne \/ StampAfterOne \/ AnalysisFailed \/ AnalysisStale \/ StartBuild
               \/ BuildEnds \/ BuildStale \/ Launch \/ PollGame \/ Compared

Building == BuildStep /\ UNCHANGED <<fileVars, loopVars, gameVars, cancelled>>
Compiling == ToolStep /\ UNCHANGED <<fileVars, loopVars, gameVars, cancelled>>
CompilerEnds == ToolExits /\ UNCHANGED <<fileVars, loopVars, gameVars, cancelled>>

WatchNext == \/ WatcherStep \/ Building \/ Compiling
             \/ Edit \/ Interrupt \/ GameEnds \/ QuietPasses

WatchSpec == WatchInit /\ [][WatchNext]_watchVars
(* The watcher's thread and the supervisor run, time passes, and a compiler  *)
(* ends (its helpers need not).                                              *)
FairWatchSpec == /\ WatchSpec
                 /\ WF_watchVars(WatcherStep) /\ WF_watchVars(Building)
                 /\ WF_watchVars(QuietPasses) /\ WF_watchVars(CompilerEnds)
-----------------------------------------------------------------------------
\* A resource is stamped as present, with the time it has now.
Unedited(f, stamp) ==
    stamp.kind = "metadata" /\ stamp.text # Missing /\ stamp.time = time[f]

(* A running game was built from exactly the files as the watcher knows      *)
(* them: of every source the text it was built from, of every resource that  *)
(* is stamped as present the version.  No build that the stamps show to be   *)
(* outdated is launched, and a game never outlives the detection of an edit. *)
(* The stamp of a missing resource shows nothing: EditsAreNoticed.           *)
Matches(texts) ==
    \A f \in Paths :
        /\ texts[f] # Unread <=> snapshot[f] # NoStamp
        /\ snapshot[f].kind = "contents" => snapshot[f].text = texts[f]
        /\ Unedited(f, snapshot[f]) => texts[f] = disk[f]

GameMatchesSnapshot == game # "none" => Matches(program)

(* watch.rs:182: "An edit during analysis/native compilation must never be   *)
(* marked as compiled."  While no comparison of stamps would find an edit,   *)
(* the game was built from the files on disk.                                *)
EditsAreNoticed ==
    game # "none" /\ (\A f \in Stamped(snapshot) : snapshot[f] = Refresh(f, snapshot[f]))
        => \A f \in Paths : program[f] # Unread => program[f] = disk[f]

(* A compiler lives only while its command is being carried out: between two *)
(* commands of a build, after a build however it ended, and when the watcher *)
(* has stopped, no process of its group and no reader thread is left, though *)
(* helpers may outlive their compiler.  A watcher that stopped has no game.  *)
CompilersLeaveNothing ==
    /\ command \in {"idle", "begin", "returned"} => group = {} /\ readers = "none"
    /\ pc # "build" => stage = "idle" /\ command = "idle"
    /\ pc = "stopped" => game = "none"

(* Its strengthening: the readers are joined only once the group is killed.  *)
BuildInv == /\ CompilersLeaveNothing
            /\ stage = "idle" <=> command = "idle"
            /\ command = "join" => group = {}

(* The strengthening of GameMatchesSnapshot.  Attempting: no game runs from  *)
(* the beginning of a rebuild to the launch that ends it, and what was built *)
(* matches the snapshot already when the build starts.                       *)
TextsRead == AllTexts \cup {Missing, Unread}
Stamps == [kind : {"none", "contents", "metadata"}, text : TextsRead, time : Nat]

WatchTypeOK ==
    /\ disk \in [Paths -> TextsRead] /\ \A f \in Paths : disk[f] \in Texts[f] \cup {Missing}
    /\ time \in [Paths -> Nat]
    /\ snapshot \in [Paths -> Stamps] /\ before \in [Paths -> Stamps] /\ next \in [Paths -> Stamps]
    /\ todo \in SUBSET Paths /\ deps \in SUBSET Paths
    /\ read \in [Paths -> TextsRead] /\ program \in [Paths -> TextsRead]
    /\ pc \in {"top", "before", "analyze", "after", "build", "recheck", "poll", "compare", "stopped"}
    /\ game \in {"none", "running", "ended"}

\* No stamp is newer than its file.
StampsArePast ==
    \A f \in Paths : /\ snapshot[f].time <= time[f]
                     /\ before[f].time <= time[f] /\ next[f].time <= time[f]

Attempting ==
    /\ pc \in {"before", "analyze", "after", "build", "recheck"} => game = "none"
    /\ pc \in {"build", "recheck"} => Matches(read)

(* A resource that still has the time it was stamped with before the         *)
(* analysis has the text the analysis read: an edit in between is not        *)
(* missed, unless the resource was missing before it.                        *)
AnalysisKnows ==
    pc \in {"analyze", "after"} => \A f \in Paths :
        /\ f \in deps <=> read[f] # Unread
        /\ Unedited(f, before[f]) /\ f \in deps => read[f] = disk[f]

\* After a successful analysis every dependency is stamped in its own way.
StampedAsRead ==
    /\ pc = "analyze" => \A f \in deps : read[f] # Missing
    /\ pc = "after" /\ analysis = "ok" =>
          /\ todo \subseteq deps
          /\ \A f \in deps : read[f] # Missing
          /\ \A f \in Paths :
                /\ next[f] # NoStamp <=> f \in deps \ todo
                /\ next[f].kind = "contents" => f \in Sources

WatchInv == /\ WatchTypeOK /\ StampsArePast /\ AnalysisKnows /\ StampedAsRead
            /\ Attempting /\ GameMatchesSnapshot

(* The last attempt read a resource that is stamped as missing: it came      *)
(* after the stamps before the analysis and went before those after it.      *)
Vanished(f) ==
    /\ snapshot[f].kind = "metadata" /\ snapshot[f].text = Missing
    /\ tried[f] \notin {Unread, Missing}

(* The files as the watcher can know them, and what their analysis finds.    *)
Known == [f \in Paths |-> IF Vanished(f) THEN tried[f] ELSE disk[f]]
Needed == LET roots == {Root} \cup Imports[Known[Root]]
          IN  roots \cup UNION {Imports[Known[f]] : f \in roots}
Loads == \A f \in Needed : Known[f] \notin Broken \cup {Missing}

(* Once nobody edits any more, what the viewer shows is about the files on   *)
(* disk: the last attempt read exactly them, also when an import was missing *)
(* or an edit came while stamping, analysing, building or waiting; and it    *)
(* says failed when they do not load.  All but a resource that vanished      *)
(* again: that one stands as it was read.                                    *)
UpToDate ==
    /\ \A f \in Paths : tried[f] # Unread => tried[f] = Known[f]
    /\ tried[Root] # Unread
    /\ Loads => tried = [f \in Paths |-> IF f \in Needed THEN Known[f] ELSE Unread]
    /\ ~Loads => shown = "failed" /\ game = "none"
    /\ shown # "building"
WatcherCatchesUp == <>[](cancelled \/ UpToDate)

(* Ctrl-C ends the watcher with no game and no compiler process left, though *)
(* a compiler's helper may hold the output pipes and never end by itself.    *)
CancelStopsEverything ==
    cancelled ~> pc = "stopped" /\ game = "none" /\ group = {} /\ stage = "idle"
=============================================================================
