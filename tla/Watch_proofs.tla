---------------------------- MODULE Watch_proofs ----------------------------
(***************************************************************************)
(* TLAPS proofs about `speck dev --watch', for every set of files and      *)
(* texts, any number of edits, and edits at any moment.                    *)
(***************************************************************************)
EXTENDS Watch, TLAPS, WellFoundedInduction

USE WatchConstants DEF WatchConstants

\* The paths of a snapshot are ordered, so each pass has a first file.
LEMMA FirstIsOne ==
    ASSUME NEW S \in SUBSET Paths, S # {}
    PROVE  First(S) \in S
  <1> DEFINE T == {i \in DOMAIN Files : Files[i] \in S}
  <1>1. T \subseteq Nat /\ T # {}
    BY DEF Paths
  <1>2. \E x \in T : \A y \in T : ~ (<<y, x>> \in OpToRel(<, Nat))
    <2> HIDE DEF T
    <2> QED
      BY <1>1, WFMin, NatLessThanWellFounded
  <1>3. PICK x \in T : \A y \in T : ~ (<<y, x>> \in OpToRel(<, Nat))
    BY <1>2
  <1>4. \A y \in T : ~(y < x)
    BY <1>1, <1>3 DEF OpToRel
  <1>5. \A j \in 1..x - 1 : Files[j] \notin S
    BY <1>4
  <1> QED
    BY <1>5 DEF First

----------------------------------------------------------------------------
(* Stamps. *)

\* The texts of every path are texts, and so are the marks of a missing or unread one.
LEMMA TextKinds ==
    /\ Missing \in TextsRead /\ Unread \in TextsRead
    /\ \A f \in Paths : Texts[f] \subseteq TextsRead
  <1>1. \A f \in Paths : Texts[f] \subseteq AllTexts
    BY DEF AllTexts
  <1> QED
    BY <1>1 DEF TextsRead

\* What a stamp says of its file now.
LEMMA StampTypes ==
    ASSUME WatchTypeOK, NEW f \in Paths, NEW stamp \in Stamps
    PROVE  /\ ContentsStamp(f) \in Stamps /\ ContentsStamp(f).time <= time[f]
           /\ ContentsStamp(f).kind = "contents"
           /\ MetadataStamp(f) \in Stamps /\ MetadataStamp(f).time <= time[f]
           /\ MetadataStamp(f).kind = "metadata"
           /\ Refresh(f, stamp) \in Stamps /\ Refresh(f, stamp).time <= time[f]
  <1>1. disk[f] \in TextsRead /\ time[f] \in Nat /\ Missing \in TextsRead /\ Unread \in TextsRead
    BY TextKinds DEF WatchTypeOK
  <1>2. ContentsStamp(f) \in Stamps /\ MetadataStamp(f) \in Stamps
    BY <1>1 DEF ContentsStamp, MetadataStamp, Stamps
  <1> QED
    BY <1>1, <1>2 DEF ContentsStamp, MetadataStamp, Refresh

\* An empty snapshot is one, and nothing is stamped in it.
LEMMA EmptyType == Empty \in [Paths -> Stamps] /\ \A f \in Paths : Empty[f] = NoStamp
  BY TextKinds DEF Empty, NoStamp, Stamps

\* A stamp of a file is not the absence of one.
LEMMA StampKinds ==
    ASSUME NEW stamp \in Stamps
    PROVE  stamp.kind \in {"contents", "metadata"} => stamp # NoStamp
  BY DEF NoStamp

----------------------------------------------------------------------------
(* Steps.  A step that leaves the files alone can only disturb what it writes. *)

\* Steps of the compiler's processes and of the game touch none of the loop's state.
LEMMA LoopUnchanged ==
    ASSUME WatchInv, UNCHANGED <<disk, time, snapshot, before, next, todo, deps, read, pc,
                                 analysis, program>>,
           game' \in {"none", game} \/ (game = "running" /\ game' = "ended")
    PROVE  WatchInv'
  BY DEF WatchInv, WatchTypeOK, StampsArePast, AnalysisKnows, StampedAsRead, Attempting,
     GameMatchesSnapshot, Matches, Sources, NoStamp, Unedited

\* The loop moves between steps in which nothing is being attempted.
LEMMA Relocated ==
    ASSUME WatchInv, UNCHANGED <<disk, time, before, deps, read, program>>,
           pc' \in {"top", "poll", "compare", "stopped"},
           next' \in {next, Empty}, todo' \in SUBSET Paths, snapshot' \in {snapshot, next},
           game' \in {"none", game},
           snapshot' # snapshot => game' = "none"
    PROVE  WatchInv'
  <1>1. WatchTypeOK'
    BY EmptyType DEF WatchInv, WatchTypeOK
  <1>2. StampsArePast'
    BY EmptyType DEF WatchInv, StampsArePast, WatchTypeOK, NoStamp
  <1>3. GameMatchesSnapshot'
    BY DEF WatchInv, GameMatchesSnapshot, Matches, NoStamp, Unedited
  <1> QED
    BY <1>1, <1>2, <1>3 DEF WatchInv, AnalysisKnows, StampedAsRead, Attempting

\* An edit makes every earlier stamp of its file older than the file.
LEMMA EditInv ==
    ASSUME WatchInv, Edit
    PROVE  WatchInv'
  <1>0. PICK f \in Paths : \E text \in Texts[f] \cup {Missing} :
            disk' = [disk EXCEPT ![f] = text] /\ time' = [time EXCEPT ![f] = @ + 1]
    BY DEF Edit
  <1>1. PICK text \in Texts[f] \cup {Missing} :
            disk' = [disk EXCEPT ![f] = text] /\ time' = [time EXCEPT ![f] = @ + 1]
    BY <1>0
  <1>2. UNCHANGED <<loopVars, gameVars>>
    BY DEF Edit
  <1>3. text \in TextsRead /\ disk \in [Paths -> TextsRead] /\ time \in [Paths -> Nat]
    BY TextKinds DEF WatchInv, WatchTypeOK
  <1>4. /\ disk' \in [Paths -> TextsRead] /\ time' \in [Paths -> Nat]
        /\ \A g \in Paths : g # f => disk'[g] = disk[g] /\ time'[g] = time[g]
        /\ disk'[f] = text /\ time'[f] = time[f] + 1
    BY <1>1, <1>3
  <1>5. WatchTypeOK'
    BY <1>2, <1>4 DEF WatchInv, WatchTypeOK, loopVars, gameVars
  <1>6. \A g \in Paths : /\ snapshot[g].time \in Nat /\ before[g].time \in Nat
                         /\ next[g].time \in Nat /\ time[g] \in Nat
    BY <1>3 DEF WatchInv, WatchTypeOK, Stamps
  <1>7. \A g \in Paths :
            /\ snapshot[g].time <= time[g] /\ before[g].time <= time[g] /\ next[g].time <= time[g]
            /\ time'[g] >= time[g]
            /\ snapshot[g].time = time'[g] => time'[g] = time[g] /\ disk'[g] = disk[g]
            /\ before[g].time = time'[g] => time'[g] = time[g] /\ disk'[g] = disk[g]
    BY <1>4, <1>6 DEF WatchInv, StampsArePast
  <1>8. StampsArePast'
    <2> SUFFICES ASSUME NEW g \in Paths
                 PROVE  /\ snapshot[g].time <= time'[g]
                        /\ before[g].time <= time'[g] /\ next[g].time <= time'[g]
      BY <1>2 DEF StampsArePast, loopVars
    <2>1. time'[g] \in Nat
      BY <1>4
    <2> QED
      BY <1>6, <1>7, <2>1
  <1>9. AnalysisKnows' /\ StampedAsRead'
    BY <1>2, <1>7 DEF WatchInv, AnalysisKnows, StampedAsRead, Sources, loopVars, NoStamp, Unedited
  <1>10. Attempting' /\ GameMatchesSnapshot'
    BY <1>2, <1>7 DEF WatchInv, Attempting, GameMatchesSnapshot, Matches, loopVars, gameVars, NoStamp, Unedited
  <1> QED
    BY <1>5, <1>8, <1>9, <1>10 DEF WatchInv

\* One file is stamped outside the analysis.
LEMMA StampOneInv ==
    ASSUME WatchInv, StampOne
    PROVE  WatchInv'
  <1>0. todo \in SUBSET Paths /\ snapshot \in [Paths -> Stamps] /\ next \in [Paths -> Stamps]
    BY DEF WatchInv, WatchTypeOK
  <1> DEFINE f == First(todo)
  <1>1. f \in todo /\ f \in Paths
    BY <1>0, FirstIsOne DEF StampOne
  <1> HIDE DEF f
  <1>2. /\ next' = [next EXCEPT ![f] = Refresh(f, snapshot[f])] /\ todo' = todo \ {f}
        /\ pc \in {"before", "recheck", "compare"}
        /\ UNCHANGED <<disk, time, snapshot, before, deps, read, pc, analysis, game, program>>
    BY DEF StampOne, f, keeps, fileVars, gameVars
  <1>3. Refresh(f, snapshot[f]) \in Stamps /\ Refresh(f, snapshot[f]).time <= time[f]
    BY <1>0, <1>1, StampTypes DEF WatchInv
  <1>4. /\ next' \in [Paths -> Stamps]
        /\ \A g \in Paths : next'[g].time <= time[g]
    BY <1>0, <1>1, <1>2, <1>3 DEF WatchInv, StampsArePast
  <1>5. WatchTypeOK'
    BY <1>2, <1>4 DEF WatchInv, WatchTypeOK
  <1> QED
    BY <1>2, <1>4, <1>5 DEF WatchInv, StampsArePast, AnalysisKnows, StampedAsRead, Attempting,
       GameMatchesSnapshot, Matches, NoStamp, Unedited

\* A rebuild begins: no game runs any more.
LEMMA BeginInv ==
    ASSUME WatchInv, BeginRebuild
    PROVE  WatchInv'
  <1>1. /\ game' = "none" /\ pc' = "before" /\ next' = Empty /\ todo' \in SUBSET Paths
        /\ UNCHANGED <<disk, time, snapshot, before, deps, read, program>>
    BY DEF BeginRebuild, keeps, fileVars, Stamped
  <1>2. WatchTypeOK'
    BY <1>1, EmptyType DEF WatchInv, WatchTypeOK
  <1>3. StampsArePast'
    BY <1>1, EmptyType DEF WatchInv, StampsArePast, WatchTypeOK, NoStamp
  <1> QED
    BY <1>1, <1>2, <1>3 DEF WatchInv, AnalysisKnows, StampedAsRead, Attempting,
       GameMatchesSnapshot

\* The stamps from before the analysis are complete and nothing is read yet.
LEMMA StartAnalysisInv ==
    ASSUME WatchInv, StartAnalysis
    PROVE  WatchInv'
  <1>1. /\ pc = "before" /\ pc' = "analyze" /\ before' = next /\ deps' = {} /\ read' = NothingRead
        /\ todo' = {Root}
        /\ UNCHANGED <<disk, time, snapshot, next, game, program>>
    BY DEF StartAnalysis, keeps, fileVars, gameVars
  <1>2. NothingRead \in [Paths -> TextsRead] /\ \A f \in Paths : NothingRead[f] = Unread
    BY TextKinds DEF NothingRead
  <1>3. WatchTypeOK'
    BY <1>1, <1>2 DEF WatchInv, WatchTypeOK
  <1> QED
    BY <1>1, <1>2, <1>3 DEF WatchInv, StampsArePast, AnalysisKnows, StampedAsRead, Attempting,
       GameMatchesSnapshot

\* analyze_path reads one file as it is now.
LEMMA AnalyzeOneInv ==
    ASSUME WatchInv, AnalyzeOne
    PROVE  WatchInv'
  <1>0. /\ todo \in SUBSET Paths /\ deps \in SUBSET Paths /\ read \in [Paths -> TextsRead]
        /\ disk \in [Paths -> TextsRead]
    BY DEF WatchInv, WatchTypeOK
  <1> DEFINE f == First(todo)
             seen == deps \cup {f}
             rest == (todo \ {f}) \cup (Imports[disk[f]] \ seen)
  <1>1. f \in todo /\ f \in Paths
    BY <1>0, FirstIsOne DEF AnalyzeOne
  <1>2. /\ pc = "analyze" /\ deps' = seen /\ read' = [read EXCEPT ![f] = disk[f]]
        /\ UNCHANGED <<disk, time, snapshot, before, game, program>>
        /\ \/ disk[f] \in Broken \cup {Missing} /\ StampAfter(seen, "error")
           \/ disk[f] # Missing /\ StampAfter(seen, "ok")
           \/ disk[f] # Missing /\ todo' = rest /\ UNCHANGED <<pc, analysis, next>>
    BY DEF AnalyzeOne, keeps, fileVars, gameVars
  <1>3. disk[f] # Missing => rest \in SUBSET Paths
    BY <1>0, <1>1 DEF WatchInv, WatchTypeOK
  <1>4. seen \in SUBSET Paths /\ disk[f] # Unread
    BY <1>0, <1>1 DEF WatchInv, WatchTypeOK
  <1> HIDE DEF f, rest
  <1>5. Stamped(before) \in SUBSET Paths
    BY DEF Stamped
  <1>6. read' \in [Paths -> TextsRead] /\ read'[f] = disk[f]
        /\ \A g \in Paths : g # f => read'[g] = read[g]
    BY <1>0, <1>1, <1>2
  <1>7. WatchTypeOK'
    BY <1>2, <1>3, <1>4, <1>5, <1>6, EmptyType DEF WatchInv, WatchTypeOK, StampAfter
  <1>8. StampsArePast'
    <2>1. next' \in {next, Empty}
      BY <1>2 DEF StampAfter
    <2>2. \A g \in Paths : Empty[g].time = 0 /\ time[g] \in Nat
      BY EmptyType DEF NoStamp, WatchInv, WatchTypeOK
    <2>3. \A g \in Paths : next'[g].time <= time[g]
      BY <2>1, <2>2 DEF WatchInv, StampsArePast
    <2> QED
      BY <1>2, <2>3 DEF WatchInv, StampsArePast
  <1>9. \A g \in Paths :
            /\ g \in seen <=> read'[g] # Unread
            /\ Unedited(g, before[g]) /\ g \in seen => read'[g] = disk[g]
    BY <1>1, <1>2, <1>4, <1>6 DEF WatchInv, AnalysisKnows, Unedited
  <1>10. AnalysisKnows'
    BY <1>2, <1>9 DEF AnalysisKnows, Unedited
  <1>11. StampedAsRead'
    <2>1. disk[f] # Missing => \A g \in seen : read'[g] # Missing
      BY <1>0, <1>2, <1>6 DEF WatchInv, StampedAsRead
    <2>2. CASE StampAfter(seen, "error")
      BY <2>2 DEF StampAfter, StampedAsRead
    <2>3. CASE disk[f] # Missing /\ StampAfter(seen, "ok")
      <3>1. pc' = "after" /\ analysis' = "ok" /\ next' = Empty /\ todo' = deps'
        BY <1>2, <2>3 DEF StampAfter
      <3> QED
        BY <1>2, <2>1, <2>3, <3>1, EmptyType DEF StampedAsRead, NoStamp
    <2>4. CASE disk[f] # Missing /\ todo' = rest /\ UNCHANGED <<pc, analysis, next>>
      BY <1>2, <2>1, <2>4 DEF StampedAsRead
    <2> QED
      BY <1>2, <2>2, <2>3, <2>4
  <1> QED
    BY <1>2, <1>7, <1>8, <1>10, <1>11 DEF WatchInv, Attempting, GameMatchesSnapshot, StampAfter

\* after_analysis stamps one dependency: a source by contents, else by metadata.
LEMMA StampAfterOneInv ==
    ASSUME WatchInv, StampAfterOne
    PROVE  WatchInv'
  <1>0. /\ todo \in SUBSET Paths /\ before \in [Paths -> Stamps] /\ next \in [Paths -> Stamps]
        /\ WatchTypeOK
    BY DEF WatchInv, WatchTypeOK
  <1> DEFINE f == First(todo)
             stamp == IF f \notin deps THEN Refresh(f, before[f])
                      ELSE IF f \in Sources THEN ContentsStamp(f) ELSE MetadataStamp(f)
  <1>1. f \in todo /\ f \in Paths
    BY <1>0, FirstIsOne DEF StampAfterOne
  <1>2. /\ next' = [next EXCEPT ![f] = stamp] /\ todo' = todo \ {f} /\ pc = "after"
        /\ UNCHANGED <<disk, time, snapshot, before, deps, read, pc, analysis, game, program>>
    BY DEF StampAfterOne, keeps, fileVars, gameVars
  <1> HIDE DEF f
  <1>3. /\ stamp \in Stamps /\ stamp.time <= time[f]
        /\ f \in deps => /\ stamp.kind \in {"contents", "metadata"}
                         /\ stamp.kind = "contents" => f \in Sources
    BY <1>0, <1>1, StampTypes
  <1> HIDE DEF stamp
  <1>4. /\ next' \in [Paths -> Stamps] /\ next'[f] = stamp
        /\ \A g \in Paths : g # f => next'[g] = next[g]
    BY <1>0, <1>1, <1>2, <1>3
  <1>5. WatchTypeOK'
    BY <1>2, <1>4 DEF WatchInv, WatchTypeOK
  <1>6. StampsArePast'
    BY <1>2, <1>3, <1>4 DEF WatchInv, StampsArePast
  <1>7. StampedAsRead'
    <2> SUFFICES ASSUME analysis = "ok" PROVE StampedAsRead'
      BY <1>2 DEF StampedAsRead
    <2>1. stamp # NoStamp /\ f \in deps
      BY <1>1, <1>2, <1>3, StampKinds DEF WatchInv, StampedAsRead
    <2>2. Sources' = Sources
      BY <1>2 DEF Sources
    <2>3. \A g \in Paths : next'[g] # NoStamp <=> g \in deps \ todo'
      BY <1>1, <1>2, <1>4, <2>1 DEF WatchInv, StampedAsRead
    <2>4. \A g \in Paths : next'[g].kind = "contents" => g \in Sources
      BY <1>2, <1>3, <1>4, <2>1 DEF WatchInv, StampedAsRead
    <2> QED
      BY <1>2, <2>2, <2>3, <2>4 DEF WatchInv, StampedAsRead, NoStamp
  <1>8. AnalysisKnows' /\ Attempting' /\ GameMatchesSnapshot'
    BY <1>2 DEF WatchInv, AnalysisKnows, Attempting, GameMatchesSnapshot, Unedited
  <1> QED
    BY <1>5, <1>6, <1>7, <1>8 DEF WatchInv

\* A build starts only of texts that match the snapshot it is checked against.
LEMMA StartBuildInv ==
    ASSUME WatchInv, StartBuild
    PROVE  WatchInv'
  <1>1. /\ pc = "after" /\ todo = {} /\ analysis = "ok" /\ ~Changed
        /\ snapshot' = next /\ pc' = "build"
        /\ UNCHANGED <<disk, time, before, next, todo, deps, read, analysis, game, program>>
    BY DEF StartBuild, fileVars, gameVars
  <1>2. WatchTypeOK'
    BY <1>1 DEF WatchInv, WatchTypeOK
  <1>3. ASSUME NEW f \in Paths
        PROVE  /\ read[f] # Unread <=> next[f] # NoStamp
               /\ next[f].kind = "contents" => next[f].text = read[f]
               /\ Unedited(f, next[f]) => read[f] = disk[f]
    <2>1. next[f] # NoStamp <=> f \in deps
      BY <1>1 DEF WatchInv, StampedAsRead
    <2>2. f \in deps <=> read[f] # Unread
      BY <1>1 DEF WatchInv, AnalysisKnows
    <2>3. next[f].kind = "contents" => next[f].text = read[f]
      BY <1>1 DEF WatchInv, StampedAsRead, Changed
    <2>4. next[f] # NoStamp => before[f] = next[f]
      BY <1>1 DEF Changed, Stamped
    <2>5. next[f].kind = "metadata" => next[f] # NoStamp
      BY DEF NoStamp
    <2>6. Unedited(f, next[f]) => read[f] = disk[f]
      BY <1>1, <2>1, <2>4, <2>5 DEF WatchInv, AnalysisKnows, Unedited
    <2> QED
      BY <2>1, <2>2, <2>3, <2>6
  <1>4. Matches(read)'
    BY <1>1, <1>3 DEF Matches, NoStamp, Unedited
  <1> QED
    BY <1>1, <1>2, <1>4 DEF WatchInv, StampsArePast, AnalysisKnows, StampedAsRead, Attempting,
       GameMatchesSnapshot

\* The build has ended; its files are about to be stamped again.
LEMMA BuildEndsInv ==
    ASSUME WatchInv, BuildEnds
    PROVE  WatchInv'
  <1>1. /\ pc = "build" /\ pc' = "recheck" /\ todo' \in SUBSET Paths /\ next' = Empty
        /\ UNCHANGED <<disk, time, snapshot, before, deps, read, game, program>>
    BY DEF BuildEnds, keeps, fileVars, gameVars, Stamped
  <1>2. WatchTypeOK'
    BY <1>1, EmptyType DEF WatchInv, WatchTypeOK
  <1>3. StampsArePast'
    BY <1>1, EmptyType DEF WatchInv, StampsArePast, WatchTypeOK, NoStamp
  <1> QED
    BY <1>1, <1>2, <1>3 DEF WatchInv, AnalysisKnows, StampedAsRead, Attempting,
       GameMatchesSnapshot, Matches, NoStamp, Unedited

\* What was built is launched, and it matches.
LEMMA LaunchInv ==
    ASSUME WatchInv, Launch
    PROVE  WatchInv'
  <1>1. /\ pc = "recheck" /\ pc' \in {"stopped", "poll"}
        /\ UNCHANGED <<disk, time, snapshot, before, next, todo, deps, read>>
        /\ \/ UNCHANGED <<game, program>>
           \/ game' = "running" /\ program' = read
    BY DEF Launch, keeps, fileVars, gameVars
  <1>2. WatchTypeOK'
    BY <1>1 DEF WatchInv, WatchTypeOK
  <1>3. GameMatchesSnapshot'
    BY <1>1 DEF WatchInv, Attempting, GameMatchesSnapshot, Matches, NoStamp, Unedited
  <1> QED
    BY <1>1, <1>2, <1>3 DEF WatchInv, StampsArePast, AnalysisKnows, StampedAsRead, Attempting

\* The watcher starts with one stamp and no game.
LEMMA WatchInitInv == WatchInit => WatchInv
  <1> SUFFICES ASSUME WatchInit PROVE WatchInv
    OBVIOUS
  <1>1. /\ disk \in [Paths -> TextsRead] /\ time \in [Paths -> Nat]
        /\ \A f \in Paths : disk[f] \in Texts[f] \cup {Missing} /\ time[f] = 0
    BY DEF WatchInit, TextsRead, AllTexts
  <1>2. NothingRead \in [Paths -> TextsRead]
    BY TextKinds DEF NothingRead
  <1>3. ContentsStamp(Root) \in Stamps /\ ContentsStamp(Root).time = 0
    BY <1>1 DEF ContentsStamp, Stamps
  <1>4. snapshot \in [Paths -> Stamps] /\ \A f \in Paths : snapshot[f].time = 0
    BY <1>3, EmptyType DEF WatchInit, NoStamp
  <1>5. WatchTypeOK
    BY <1>1, <1>2, <1>4, EmptyType DEF WatchInit, WatchTypeOK
  <1>6. StampsArePast
    BY <1>1, <1>4, EmptyType DEF WatchInit, StampsArePast, NoStamp
  <1> QED
    BY <1>5, <1>6 DEF WatchInit, WatchInv, AnalysisKnows, StampedAsRead, Attempting,
       GameMatchesSnapshot

\* The invariant is inductive.
LEMMA WatchNextInv == WatchInv /\ [WatchNext]_watchVars => WatchInv'
  <1> SUFFICES ASSUME WatchInv, [WatchNext]_watchVars PROVE WatchInv'
    OBVIOUS
  <1> USE DEF keeps, fileVars, loopVars, gameVars
  <1>1. CASE UNCHANGED watchVars
    BY <1>1, LoopUnchanged DEF watchVars
  <1>2. CASE Building \/ Compiling \/ Interrupt
    BY <1>2, LoopUnchanged DEF Building, Compiling, Interrupt
  <1>3. CASE GameEnds \/ QuietPasses
    BY <1>3, LoopUnchanged DEF GameEnds, QuietPasses
  <1>4. CASE LoopEnds \/ SkipRebuild
    BY <1>4, Relocated DEF LoopEnds, SkipRebuild, WatchInv, WatchTypeOK
  <1>5. CASE AnalysisFailed \/ AnalysisStale
    <2>1. game = "none"
      BY <1>5 DEF AnalysisFailed, AnalysisStale, WatchInv, Attempting
    <2> QED
      BY <1>5, <2>1, Relocated DEF AnalysisFailed, AnalysisStale, WatchInv, WatchTypeOK
  <1>6. CASE BuildStale
    BY <1>6, Relocated DEF BuildStale, WatchInv, WatchTypeOK
  <1>7. CASE PollGame
    <2>1. Stamped(snapshot) \in SUBSET Paths
      BY DEF Stamped
    <2> QED
      BY <1>7, <2>1, Relocated DEF PollGame
  <1>8. CASE Compared
    BY <1>8, Relocated DEF Compared, WatchInv, WatchTypeOK
  <1> QED
    BY <1>1, <1>2, <1>3, <1>4, <1>5, <1>6, <1>7, <1>8, EditInv, StampOneInv, BeginInv,
       StartAnalysisInv, AnalyzeOneInv, StampAfterOneInv, StartBuildInv, BuildEndsInv, LaunchInv
       DEF WatchNext, WatcherStep

(* The invariant that carries the watcher's promise about running games. *)
THEOREM WatchSafety == WatchSpec => []WatchInv
  BY WatchInitInv, WatchNextInv, PTL DEF WatchSpec

(* Whatever is edited while the watcher stamps, analyses, builds or waits, *)
(* a running game was built from the files as the snapshot has them:       *)
(* src/dev/watch.rs launches no outdated build, and stops the game of one. *)
THEOREM GamesMatch == WatchSpec => []GameMatchesSnapshot
  <1>1. WatchInv => GameMatchesSnapshot
    BY DEF WatchInv
  <1> QED
    BY <1>1, WatchSafety, PTL

----------------------------------------------------------------------------
(* The build's processes and threads. *)

LEMMA BuildStepInv ==
    ASSUME BuildInv, BuildStep, UNCHANGED <<pc, game>>
    PROVE  BuildInv'
  <1> USE DEF BuildInv, CompilersLeaveNothing
  <1>1. CASE CommandRefused
    BY <1>1 DEF CommandRefused
  <1>2. CASE CommandSpawned
    BY <1>2 DEF CommandSpawned
  <1>3. CASE PollCancelled \/ PollEnded \/ PollFails
    BY <1>3 DEF PollCancelled, PollEnded, PollFails
  <1>4. CASE DropCommand
    BY <1>4 DEF DropCommand
  <1>5. CASE ReadersEnd
    BY <1>5 DEF ReadersEnd
  <1>6. CASE JoinReaders
    BY <1>6 DEF JoinReaders
  <1>7. CASE NextCommand
    <2>1. /\ command = "returned" /\ command' = IF stage' = "idle" THEN "idle" ELSE "begin"
          /\ UNCHANGED <<group, readers>>
      BY <1>7 DEF NextCommand
    <2> QED
      BY <2>1
  <1> QED
    BY <1>1, <1>2, <1>3, <1>4, <1>5, <1>6, <1>7 DEF BuildStep

\* A helper is only ever seen while its command is under way.
LEMMA ToolStepInv ==
    ASSUME BuildInv, ToolStep, UNCHANGED <<pc, game>>
    PROVE  BuildInv'
  BY DEF BuildInv, CompilersLeaveNothing, ToolStep, ToolForks, ToolExits, HelperExits

LEMMA BuildNextInv ==
    ASSUME WatchInv, BuildInv, [WatchNext]_watchVars
    PROVE  BuildInv'
  <1> USE DEF keeps, fileVars, loopVars, gameVars, buildVars, BuildInv, CompilersLeaveNothing
  <1>1. CASE Building \/ Compiling
    BY <1>1, BuildStepInv, ToolStepInv DEF Building, Compiling
  <1>2. CASE StartBuild
    BY <1>2 DEF StartBuild, BuildStarts
  <1>3. CASE Launch
    <2>1. game = "none"
      BY <1>3 DEF Launch, WatchInv, Attempting
    <2> QED
      BY <1>3, <2>1 DEF Launch
  <1>4. CASE BuildEnds
    BY <1>4 DEF BuildEnds
  <1>5. CASE \/ LoopEnds \/ BeginRebuild \/ SkipRebuild \/ StampOne \/ StartAnalysis
             \/ StampAfterOne \/ AnalysisFailed \/ AnalysisStale \/ BuildStale
             \/ PollGame \/ Compared
    BY <1>5 DEF LoopEnds, BeginRebuild, SkipRebuild, StampOne, StartAnalysis, StampAfterOne,
                AnalysisFailed, AnalysisStale, BuildStale, PollGame, Compared
  <1>6. CASE AnalyzeOne
    BY <1>6 DEF AnalyzeOne, StampAfter
  <1>7. CASE Edit \/ Interrupt \/ GameEnds \/ QuietPasses
    BY <1>7 DEF Edit, Interrupt, GameEnds, QuietPasses
  <1>8. CASE UNCHANGED watchVars
    BY <1>8 DEF watchVars
  <1> QED
    BY <1>1, <1>2, <1>3, <1>4, <1>5, <1>6, <1>7, <1>8 DEF WatchNext, WatcherStep

(* No compiler, no helper of one and no reader thread outlives its command, *)
(* and a watcher that stopped has no game: OwnedCommand's drop kills the    *)
(* group before the readers are joined (src/toolchain/process.rs), on every *)
(* way out of a build.                                                      *)
THEOREM CompilersEnd == WatchSpec => []CompilersLeaveNothing
  <1>1. WatchInit => BuildInv
    BY DEF WatchInit, BuildInit, BuildInv, CompilersLeaveNothing
  <1>2. WatchInv /\ BuildInv /\ [WatchNext]_watchVars => BuildInv'
    BY BuildNextInv
  <1>3. BuildInv => CompilersLeaveNothing
    BY DEF BuildInv
  <1> QED
    BY <1>1, <1>2, <1>3, WatchSafety, PTL DEF WatchSpec

=============================================================================
