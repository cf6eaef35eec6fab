------------------------ MODULE FrameDelivery_proofs ------------------------
(***************************************************************************)
(* TLAPS proofs about the delivery of frames, for every set of pages, any  *)
(* number of runs and frames, and any loss of polls and answers.           *)
(***************************************************************************)
EXTENDS FrameDelivery, TLAPS

USE BoundsAssumption, UnlearnedAssumption DEF BoundsAssumption, UnlearnedAssumption

PageType == [phase : {Idle, Asked, "answered", "reading"}, answer : Answers \cup {NoFrame},
             sequence : Nat, generation : Nat \cup {Unlearned},
             canvas : Nat, status : PageStatus]

\* The initial state satisfies the invariant.
LEMMA DeliveryInitInv == DeliveryInit => DeliveryInv
  <1> SUFFICES ASSUME DeliveryInit PROVE DeliveryInv
    OBVIOUS
  <1>1. StoreTypeOK /\ drawn \in 0..MaxFrames
    BY DEF DeliveryInit, StoreInit, StoreTypeOK, ViewerStates
  <1>2. active = FALSE
    BY DEF DeliveryInit
  <1>3. StoreCounts
    BY <1>2 DEF DeliveryInit, StoreInit, StoreCounts
  <1>4. views \in [Viewers -> PageType]
    BY DEF DeliveryInit, PageType, PageStatus
  <1>5. ASSUME NEW v \in Viewers PROVE PageFollowsStore(views[v]) /\ AnswerIsNews(views[v])
    BY DEF DeliveryInit, StoreInit, PageFollowsStore, AnswerIsNews, Idle
  <1> QED
    BY <1>1, <1>2, <1>3, <1>4, <1>5 DEF DeliveryInv, DeliveryTypeOK, PageType

\* What wait_after answers is typed, and newer than the page that asked.
LEMMA SnapshotIsNews ==
    ASSUME StoreTypeOK, StoreCounts, NEW after \in Nat
    PROVE  /\ Snapshot(after) \in Answers
           /\ Snapshot(after).generation = store.generation
           /\ Snapshot(after).frame # NoFrame =>
                /\ Snapshot(after).frame.run = store.generation
                /\ after < Snapshot(after).frame.sequence
                /\ Snapshot(after).frame.sequence <= store.sequence
  BY DEF StoreTypeOK, StoreCounts, Snapshot, Answers, Frames, ViewerStates

\* The session's steps keep the store's numbers in order and only raise them.
LEMMA SessionKeepsInv ==
    ASSUME DeliveryInv, StartRun \/ ReceiveFrame \/ EndRun \/ ChangeState
    PROVE  DeliveryInv'
  <1>0. StoreTypeOK /\ StoreCounts /\ drawn \in 0..MaxFrames /\ active \in BOOLEAN
    BY DEF DeliveryInv, DeliveryTypeOK
  <1>1. /\ StoreTypeOK' /\ StoreCounts' /\ UNCHANGED views
        /\ drawn' \in 0..MaxFrames /\ active' \in BOOLEAN
        /\ store.sequence <= store'.sequence /\ store.generation <= store'.generation
    <2>1. CASE StartRun
      <3>1. active' = TRUE
        BY <2>1 DEF StartRun
      <3>2. store' = [latest |-> NoFrame, state |-> "Running", generation |-> store.generation + 1,
                      sequence |-> store.sequence, deliveryOffset |-> store.sequence]
            /\ drawn' = 0 /\ UNCHANGED views
        BY <1>0, <2>1 DEF StartRun, StoreBeginRun, StoreTypeOK
      <3>3. StoreTypeOK' /\ StoreCounts' /\ drawn' \in 0..MaxFrames
            /\ store.sequence <= store'.sequence /\ store.generation <= store'.generation
        BY <1>0, <3>1, <3>2 DEF StoreTypeOK, StoreCounts, ViewerStates
      <3> QED
        BY <3>1, <3>2, <3>3
    <2>2. CASE ReceiveFrame
      <3>1. active' = active /\ UNCHANGED views
        BY <2>2 DEF ReceiveFrame
      <3>2. PICK n \in (drawn + 1)..MaxFrames : drawn' = n /\ Publish(n, store.generation)
        BY <2>2 DEF ReceiveFrame
      <3>3. store' = [latest |-> [sequence |-> n + store.deliveryOffset, run |-> store.generation],
                      state |-> store.state, generation |-> store.generation,
                      sequence |-> n + store.deliveryOffset,
                      deliveryOffset |-> store.deliveryOffset]
        BY <1>0, <3>2 DEF Publish, StoreTypeOK
      <3>4. n \in Nat /\ drawn < n /\ n <= MaxFrames
        BY <1>0, <3>2
      <3>5. StoreTypeOK' /\ drawn' \in 0..MaxFrames
            /\ store.sequence <= store'.sequence /\ store.generation <= store'.generation
        BY <1>0, <3>2, <3>3, <3>4 DEF StoreTypeOK, StoreCounts, Frames
      <3>6. StoreCounts'
        BY <1>0, <3>1, <3>2, <3>3, <3>4 DEF StoreTypeOK, StoreCounts
      <3> QED
        BY <1>0, <3>1, <3>5, <3>6
    <2>3. CASE EndRun
      <3>1. active' = FALSE
        BY <2>3 DEF EndRun
      <3>2. StoreTypeOK' /\ StoreCounts' /\ drawn' \in 0..MaxFrames /\ UNCHANGED views
            /\ store.sequence <= store'.sequence /\ store.generation <= store'.generation
        BY <1>0, <2>3, <3>1 DEF EndRun, StoreStop, ViewerStates, StoreTypeOK, StoreCounts
      <3> QED
        BY <3>1, <3>2
    <2>4. CASE ChangeState
      <3>1. active' = active /\ active # TRUE
        BY <2>4 DEF ChangeState
      <3>2. PICK s \in {"Building", "BuildFailed", "Watching"}, kept \in {store.latest, NoFrame} :
              store' = [latest |-> kept, state |-> s, generation |-> store.generation,
                        sequence |-> store.sequence, deliveryOffset |-> store.deliveryOffset]
        BY <1>0, <2>4 DEF ChangeState, SetState, StoreTypeOK
      <3>3. drawn' = drawn /\ UNCHANGED views
        BY <2>4 DEF ChangeState
      <3>4. StoreTypeOK' /\ store.sequence <= store'.sequence /\ store.generation <= store'.generation
        BY <1>0, <3>2 DEF StoreTypeOK, ViewerStates
      <3>5. StoreCounts'
        BY <1>0, <3>1, <3>2, <3>3 DEF StoreTypeOK, StoreCounts
      <3> QED
        BY <1>0, <3>1, <3>3, <3>4, <3>5
    <2> QED
      BY <2>1, <2>2, <2>3, <2>4
  <1>2. ASSUME NEW v \in Viewers
        PROVE  PageFollowsStore(views[v])' /\ AnswerIsNews(views[v])'
    <2>1. /\ views[v] \in PageType /\ PageFollowsStore(views[v]) /\ AnswerIsNews(views[v])
      BY <1>2 DEF PageType, DeliveryInv, DeliveryTypeOK
    <2>2. views'[v] = views[v] /\ store.sequence \in Nat /\ store'.sequence \in Nat
          /\ store.generation \in Nat /\ store'.generation \in Nat
      BY <1>0, <1>1 DEF StoreTypeOK
    <2>3. PageFollowsStore(views[v])'
      BY <1>1, <2>1, <2>2 DEF PageType, PageFollowsStore
    <2>4. AnswerIsNews(views[v])'
      BY <1>1, <2>1, <2>2 DEF AnswerIsNews, Answers, Frames
    <2> QED
      BY <2>3, <2>4
  <1> QED
    BY <1>1, <1>2 DEF DeliveryInv, DeliveryTypeOK

\* A step of one page: the other pages and the store stay as they are.
LEMMA PageKeepsInv ==
    ASSUME DeliveryInv, NEW v \in Viewers, NEW page \in PageType,
           PageFollowsStore(page), AnswerIsNews(page),
           views' = [views EXCEPT ![v] = page], UNCHANGED <<store, drawn, active>>
    PROVE  DeliveryInv'
  <1> USE DEF DeliveryInv, DeliveryTypeOK
  <1>1. views' \in [Viewers -> PageType]
    BY DEF PageType
  <1>2. ASSUME NEW w \in Viewers
        PROVE  PageFollowsStore(views[w])' /\ AnswerIsNews(views[w])'
    BY <1>2 DEF PageFollowsStore, AnswerIsNews
  <1>3. StoreTypeOK' /\ StoreCounts'
    BY DEF StoreTypeOK, StoreCounts
  <1> QED
    BY <1>1, <1>2, <1>3 DEF PageType

\* A page's steps, as one new value for its record.
PageSteps(v) == AskFrame(v) \/ AnswerNews(v) \/ AnswerTimeout(v)
                \/ ShowState(v) \/ ReadHeaders(v) \/ DrawPicture(v) \/ LoseAnswer(v)

\* Every step of a page leaves it with a well-typed record that follows the
\* store, and never takes it back.
LEMMA PageMoves ==
    ASSUME DeliveryInv, NEW v \in Viewers, PageSteps(v)
    PROVE  \E page \in PageType :
             /\ PageFollowsStore(page) /\ AnswerIsNews(page)
             /\ views' = [views EXCEPT ![v] = page] /\ UNCHANGED <<store, drawn, active>>
             /\ page.sequence >= views[v].sequence
             /\ views[v].generation # Unlearned => page.generation >= views[v].generation
             /\ page.canvas > views[v].canvas => page.sequence > views[v].sequence
  <1> USE DEF PageFollowsStore, AnswerIsNews
  <1>1. /\ views \in [Viewers -> PageType] /\ views[v] \in PageType
        /\ PageFollowsStore(views[v]) /\ AnswerIsNews(views[v]) /\ StoreTypeOK /\ StoreCounts
    BY DEF DeliveryInv, DeliveryTypeOK, PageType
  <1>2. CASE AskFrame(v)
    <2> DEFINE page == [views[v] EXCEPT !.phase = Asked]
    <2>1. page \in PageType /\ PageFollowsStore(page) /\ AnswerIsNews(page)
      BY <1>1, <1>2 DEF AskFrame, PageType, Asked, Idle
    <2>2. views' = [views EXCEPT ![v] = page] /\ UNCHANGED <<store, drawn, active>>
      BY <1>1, <1>2 DEF AskFrame
    <2>3. page.sequence = views[v].sequence /\ page.generation = views[v].generation
          /\ page.canvas = views[v].canvas
      BY <1>1 DEF PageType
    <2> HIDE DEF page
    <2>4. /\ page.sequence >= views[v].sequence
          /\ views[v].generation # Unlearned => page.generation >= views[v].generation
          /\ page.canvas > views[v].canvas => page.sequence > views[v].sequence
      BY <1>1, <2>3 DEF PageType
    <2> QED
      BY <2>1, <2>2, <2>4
  <1>3. CASE AnswerNews(v) \/ AnswerTimeout(v)
    <2> DEFINE a == Snapshot(views[v].sequence)
               page == [views[v] EXCEPT !.phase = "answered", !.answer = a]
    <2>1. /\ a \in Answers /\ a.generation = store.generation
          /\ a.frame # NoFrame => /\ a.frame.run = store.generation
                                  /\ views[v].sequence < a.frame.sequence
                                  /\ a.frame.sequence <= store.sequence
      BY <1>1, SnapshotIsNews DEF PageType
    <2>2. views' = [views EXCEPT ![v] = page] /\ UNCHANGED <<store, drawn, active>>
      BY <1>1, <1>3 DEF AnswerNews, AnswerTimeout, Answer, PageType
    <2> HIDE DEF a
    <2>3. page \in PageType /\ page.answer = a /\ page.phase = "answered"
          /\ page.sequence = views[v].sequence /\ page.generation = views[v].generation
          /\ page.canvas = views[v].canvas /\ page.status = views[v].status
      BY <1>1, <2>1 DEF PageType
    <2> HIDE DEF page
    <2>4. views[v].phase = Asked
      BY <1>3 DEF AnswerNews, AnswerTimeout
    <2>5. PageFollowsStore(page) /\ AnswerIsNews(page)
      BY <1>1, <2>1, <2>3, <2>4 DEF PageType, StoreTypeOK, Asked
    <2>6. /\ page.sequence >= views[v].sequence
          /\ views[v].generation # Unlearned => page.generation >= views[v].generation
          /\ page.canvas > views[v].canvas => page.sequence > views[v].sequence
      BY <1>1, <2>3 DEF PageType
    <2> QED
      BY <2>2, <2>3, <2>5, <2>6
  <1>4. CASE ShowState(v)
    <2> DEFINE a == views[v].answer
               page == [Done(views[v]) EXCEPT !.generation = a.generation, !.status = StatusOf(a.state)]
    <2>1. a \in Answers /\ a.generation <= store.generation
          /\ (views[v].generation # Unlearned => views[v].generation <= a.generation)
      BY <1>1, <1>4 DEF ShowState
    <2>2. StatusOf(a.state) \in PageStatus \ {"live"}
      BY <2>1 DEF Answers, ViewerStates, StatusOf, PageStatus
    <2>3. page \in PageType /\ page.sequence = views[v].sequence
          /\ page.generation = a.generation /\ page.canvas = views[v].canvas
          /\ page.status # "live" /\ page.phase = Idle
      BY <1>1, <2>1, <2>2 DEF PageType, Answers, PageStatus, Done
    <2>4. views' = [views EXCEPT ![v] = page] /\ UNCHANGED <<store, drawn, active>>
      BY <1>1, <1>4 DEF ShowState
    <2> HIDE DEF page
    <2>5. PageFollowsStore(page) /\ AnswerIsNews(page)
      BY <1>1, <2>1, <2>3 DEF Idle
    <2>6. /\ page.sequence >= views[v].sequence
          /\ views[v].generation # Unlearned => page.generation >= views[v].generation
          /\ page.canvas > views[v].canvas => page.sequence > views[v].sequence
      BY <1>1, <2>1, <2>3 DEF PageType, Answers
    <2> QED
      BY <2>3, <2>4, <2>5, <2>6
  <1>5. CASE ReadHeaders(v)
    <2> DEFINE a == views[v].answer
               page == [views[v] EXCEPT !.phase = "reading", !.generation = a.generation]
    <2>1. a \in Answers /\ a.frame # NoFrame /\ a.generation <= store.generation
          /\ (views[v].generation # Unlearned => views[v].generation <= a.generation)
          /\ a.frame.run = a.generation /\ views[v].sequence < a.frame.sequence
          /\ a.frame.sequence <= store.sequence
      BY <1>1, <1>5 DEF ReadHeaders
    <2>2. page \in PageType /\ page.sequence = views[v].sequence
          /\ page.generation = a.generation /\ page.canvas = views[v].canvas
          /\ page.status = views[v].status /\ page.answer = a /\ page.phase = "reading"
      BY <1>1, <2>1 DEF PageType, Answers
    <2>3. views' = [views EXCEPT ![v] = page] /\ UNCHANGED <<store, drawn, active>>
      BY <1>1, <1>5 DEF ReadHeaders, PageType
    <2> HIDE DEF page
    <2>4. /\ a.generation \in Nat /\ a.generation # Unlearned /\ views[v].canvas \in Nat
          /\ views[v].status = "live" => views[v].canvas <= a.generation
      BY <1>1, <2>1 DEF PageType, Answers
    <2>5. PageFollowsStore(page)
      BY <1>1, <2>1, <2>2, <2>4
    <2>6. AnswerIsNews(page)
      BY <1>1, <2>1, <2>2, <2>4
    <2>7. /\ page.sequence >= views[v].sequence
          /\ views[v].generation # Unlearned => page.generation >= views[v].generation
          /\ page.canvas > views[v].canvas => page.sequence > views[v].sequence
      BY <1>1, <2>1, <2>2, <2>4 DEF PageType
    <2> QED
      BY <2>2, <2>3, <2>5, <2>6, <2>7
  <1>6. CASE DrawPicture(v)
    <2> DEFINE frame == views[v].answer.frame
               page == [Done(views[v]) EXCEPT !.canvas = frame.run, !.status = "live",
                                              !.sequence = frame.sequence]
    <2>1. views[v].answer \in Answers /\ frame \in Frames
          /\ frame.run = views[v].generation /\ frame.run <= store.generation
          /\ views[v].sequence < frame.sequence /\ frame.sequence <= store.sequence
      BY <1>1, <1>6 DEF DrawPicture, Answers
    <2>2. page \in PageType /\ page.sequence = frame.sequence
          /\ page.generation = views[v].generation /\ page.canvas = frame.run
          /\ page.status = "live" /\ page.phase = Idle
      BY <1>1, <2>1 DEF PageType, PageStatus, Done, Frames
    <2>3. views' = [views EXCEPT ![v] = page] /\ UNCHANGED <<store, drawn, active>>
      BY <1>6 DEF DrawPicture
    <2>4. frame.run \in Nat /\ frame.run # Unlearned /\ frame.sequence \in Nat
      BY <2>1 DEF Frames
    <2> HIDE DEF page, frame
    <2>5. PageFollowsStore(page) /\ AnswerIsNews(page)
      BY <1>1, <2>1, <2>2, <2>4 DEF Idle
    <2>6. /\ page.sequence >= views[v].sequence
          /\ views[v].generation # Unlearned => page.generation >= views[v].generation
          /\ page.canvas > views[v].canvas => page.sequence > views[v].sequence
      BY <1>1, <2>1, <2>2, <2>4 DEF PageType
    <2> QED
      BY <2>2, <2>3, <2>5, <2>6
  <1>7. CASE LoseAnswer(v)
    <2> DEFINE page == [Done(views[v]) EXCEPT !.status = "disconnected"]
    <2>1. page \in PageType /\ page.sequence = views[v].sequence
          /\ page.generation = views[v].generation /\ page.canvas = views[v].canvas
          /\ page.status = "disconnected" /\ page.phase = Idle
      BY <1>1 DEF PageType, PageStatus, Done
    <2>2. views' = [views EXCEPT ![v] = page] /\ UNCHANGED <<store, drawn, active>>
      BY <1>7 DEF LoseAnswer
    <2> HIDE DEF page
    <2>3. PageFollowsStore(page) /\ AnswerIsNews(page)
      BY <1>1, <2>1 DEF Idle
    <2>4. /\ page.sequence >= views[v].sequence
          /\ views[v].generation # Unlearned => page.generation >= views[v].generation
          /\ page.canvas > views[v].canvas => page.sequence > views[v].sequence
      BY <1>1, <2>1 DEF PageType
    <2> QED
      BY <2>1, <2>2, <2>3, <2>4
  <1> QED
    BY <1>2, <1>3, <1>4, <1>5, <1>6, <1>7 DEF PageSteps

\* Every step keeps the invariant.
LEMMA DeliveryNextInv == DeliveryInv /\ [DeliveryNext]_deliveryVars => DeliveryInv'
  <1> SUFFICES ASSUME DeliveryInv, [DeliveryNext]_deliveryVars
               PROVE  DeliveryInv'
    OBVIOUS
  <1>1. CASE StartRun \/ ReceiveFrame \/ EndRun \/ ChangeState
    BY <1>1, SessionKeepsInv
  <1>2. ASSUME NEW v \in Viewers, PageSteps(v) PROVE DeliveryInv'
    BY <1>2, PageMoves, PageKeepsInv
  <1>3. CASE UNCHANGED deliveryVars
    BY <1>3 DEF deliveryVars, DeliveryInv, DeliveryTypeOK, StoreTypeOK, StoreCounts,
                PageFollowsStore, AnswerIsNews
  <1> QED
    BY <1>1, <1>2, <1>3 DEF DeliveryNext, PageSteps

(* Store and pages stay in the relation DeliveryInv describes. *)
THEOREM DeliverySafety == DeliverySpec => []DeliveryInv
  BY DeliveryInitInv, DeliveryNextInv, PTL DEF DeliverySpec

(* A page that says it is live shows a picture of the run it believes in,  *)
(* so the input it sends is meant for the game its user sees; between the  *)
(* headers and the pixels of the next run's first picture it may still     *)
(* show the run before.                                                    *)
THEOREM LivePicturesMatch == DeliverySpec => []LivePictureMatchesGeneration
  <1>1. DeliveryInv => LivePictureMatchesGeneration
    <2> SUFFICES ASSUME DeliveryInv, NEW v \in Viewers, views[v].status = "live"
                 PROVE  \/ views[v].canvas = views[v].generation
                        \/ /\ views[v].phase = "reading"
                           /\ views[v].answer.frame.run = views[v].generation
                           /\ views[v].canvas < views[v].generation
      BY DEF LivePictureMatchesGeneration
    <2>1. PageFollowsStore(views[v]) /\ AnswerIsNews(views[v]) /\ views[v] \in PageType
      BY DEF DeliveryInv, DeliveryTypeOK, PageType
    <2>2. /\ views[v].canvas \in Nat /\ views[v].generation \in Nat
          /\ views[v].canvas <= views[v].generation
      BY <2>1 DEF PageFollowsStore, PageType
    <2>3. CASE views[v].phase # "reading"
      BY <2>1, <2>3 DEF PageFollowsStore
    <2>4. CASE views[v].phase = "reading"
      BY <2>1, <2>2, <2>4 DEF AnswerIsNews
    <2> QED
      BY <2>3, <2>4
  <1> QED
    BY <1>1, DeliverySafety, PTL

\* One step never takes a page back.
LEMMA StepNeverGoesBack ==
    ASSUME DeliveryInv, [DeliveryNext]_deliveryVars, NEW v \in Viewers
    PROVE  /\ views'[v].sequence >= views[v].sequence
           /\ views[v].generation # Unlearned => views'[v].generation >= views[v].generation
           /\ views'[v].canvas > views[v].canvas => views'[v].sequence > views[v].sequence
  <1>1. views \in [Viewers -> PageType]
    BY DEF DeliveryInv, DeliveryTypeOK, PageType
  <1>2. CASE UNCHANGED views
    BY <1>1, <1>2 DEF PageType
  <1>3. ASSUME NEW w \in Viewers, PageSteps(w)
        PROVE  /\ views'[v].sequence >= views[v].sequence
               /\ views[v].generation # Unlearned => views'[v].generation >= views[v].generation
               /\ views'[v].canvas > views[v].canvas => views'[v].sequence > views[v].sequence
    <2>1. PICK page \in PageType :
             /\ views' = [views EXCEPT ![w] = page]
             /\ page.sequence >= views[w].sequence
             /\ views[w].generation # Unlearned => page.generation >= views[w].generation
             /\ page.canvas > views[w].canvas => page.sequence > views[w].sequence
      BY <1>3, PageMoves
    <2>2. CASE v = w
      BY <1>1, <2>1, <2>2
    <2>3. CASE v # w
      BY <1>1, <2>1, <2>3 DEF PageType
    <2> QED
      BY <2>2, <2>3
  <1> QED
    BY <1>2, <1>3 DEF DeliveryNext, PageSteps, deliveryVars,
       StartRun, ReceiveFrame, EndRun, ChangeState

(* A page never returns to an older run or to a frame it has shown. *)
THEOREM PagesOnlyAdvance == DeliverySpec => PagesNeverGoBack
  <1>1. DeliveryInv /\ [DeliveryNext]_deliveryVars =>
          [\A v \in Viewers :
             /\ views'[v].sequence >= views[v].sequence
             /\ views[v].generation # Unlearned => views'[v].generation >= views[v].generation
             /\ views'[v].canvas > views[v].canvas => views'[v].sequence > views[v].sequence
          ]_deliveryVars
    BY StepNeverGoesBack
  <1> QED
    BY <1>1, DeliverySafety, PTL DEF DeliverySpec, PagesNeverGoBack

\* A step of the session or of a page is a step of the feed, or leaves it alone.
LEMMA StepFeeds ==
    ASSUME DeliveryInv, [DeliveryNext]_deliveryVars
    PROVE  [Feed!FeedNext]_(Feed!feedVars)
  <1> USE DEF DeliveryInv, DeliveryTypeOK, StoreTypeOK, StoreCounts, Feed!FeedNext, Feed!feedVars
  <1>1. CASE StartRun
    BY <1>1 DEF StartRun, StoreBeginRun, Feed!StartRun
  <1>2. CASE ReceiveFrame
    BY <1>2 DEF ReceiveFrame, Publish, Feed!Show
  <1>3. CASE EndRun
    BY <1>3 DEF EndRun, StoreStop, Feed!EndRun
  <1>4. CASE ChangeState
    BY <1>4 DEF ChangeState, SetState, Feed!EndRun, Feed!Rebuild
  <1>5. CASE UNCHANGED store
    BY <1>5
  <1>6. ASSUME NEW v \in Viewers, PageSteps(v) PROVE UNCHANGED store
    BY <1>6 DEF PageSteps, AskFrame, AnswerNews, AnswerTimeout, Answer, ShowState,
                ReadHeaders, DrawPicture, LoseAnswer
  <1> QED
    BY <1>1, <1>2, <1>3, <1>4, <1>5, <1>6 DEF DeliveryNext, PageSteps, deliveryVars

(* The store, called in the session's order, is a viewer feed. *)
THEOREM DeliveryFeeds == DeliverySpec => ImplementsViewerFeed
  <1>1. DeliveryInit => Feed!FeedInit
    BY DEF DeliveryInit, StoreInit, Feed!FeedInit
  <1> QED
    BY <1>1, StepFeeds, DeliverySafety, PTL DEF DeliverySpec, ImplementsViewerFeed, Feed!FeedSpec
=============================================================================
