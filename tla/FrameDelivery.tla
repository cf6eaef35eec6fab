--------------------------- MODULE FrameDelivery ---------------------------
(***************************************************************************)
(* The pages' side of the frame store: the long polls of handle_http       *)
(* (src/dev/server.rs) and the receiveFrames loop of src/dev/viewer.html,  *)
(* over any sequence of runs.  What happens inside a run is reduced to     *)
(* what its receiver publishes; module DevSession shows that a session     *)
(* calls the store in this order.                                          *)
(***************************************************************************)
EXTENDS FrameStore

CONSTANTS
    Viewers,         \* pages
    LastRun,         \* bound: runs in one behaviour
    MaxFrames,       \* bound: the highest number of a frame in one run
    Unlearned        \* `generation === null'

ASSUME BoundsAssumption == LastRun \in Nat /\ MaxFrames \in Nat
ASSUME UnlearnedAssumption == Unlearned \notin Nat

VARIABLES
    drawn,           \* number of the last frame received from the current game
    active,          \* has the current run a receiver?
    views            \* what each page remembers and displays

deliveryVars == <<store, drawn, active, views>>

(* A page waits for its poll (`asked'), has an answer on its way to it     *)
(* (`answered'), has seen the headers of a picture and awaits its pixels   *)
(* (`reading'), or is between polls.                                       *)
Idle == "idle"
Asked == "asked"

PageStatus == {"connecting", "live", "waiting", "building", "error", "watching", "stopped",
               "disconnected"}

Answers == [frame : Frames \cup {NoFrame}, state : ViewerStates, generation : Nat]

DeliveryTypeOK ==
    /\ StoreTypeOK
    /\ drawn \in 0..MaxFrames /\ active \in BOOLEAN
    /\ views \in [Viewers -> [phase : {Idle, Asked, "answered", "reading"},
                              answer : Answers \cup {NoFrame},
                              sequence : Nat, generation : Nat \cup {Unlearned},
                              canvas : Nat, status : PageStatus]]

DeliveryInit ==
    /\ StoreInit
    /\ drawn = 0 /\ active = FALSE
    /\ views = [v \in Viewers |->
                  [phase |-> Idle, answer |-> NoFrame, sequence |-> 0,
                   generation |-> Unlearned, canvas |-> 0, status |-> "connecting"]]

----------------------------------------------------------------------------
(* The session, as the store sees it. *)

StartRun ==
    /\ ~active
    /\ store.state = "Building" \/ store.generation = 0
    /\ store.generation < LastRun
    /\ StoreBeginRun
    /\ active' = TRUE /\ drawn' = 0
    /\ UNCHANGED views

\* The receiver asks of a frame's number only that it is higher than the last one.
ReceiveFrame ==
    /\ active
    /\ \E n \in (drawn + 1)..MaxFrames : drawn' = n /\ Publish(n, store.generation)
    /\ UNCHANGED <<active, views>>

EndRun ==
    /\ active
    /\ StoreStop
    /\ active' = FALSE
    /\ UNCHANGED <<drawn, views>>

ChangeState ==
    /\ ~active
    /\ \E s \in {"Building", "BuildFailed", "Watching"} : s # store.state /\ SetState(s)
    /\ UNCHANGED <<drawn, active, views>>

----------------------------------------------------------------------------
(* A page. *)

\* fetch(`/frame?after=${sequence}`)
AskFrame(v) ==
    /\ views[v].phase = Idle
    /\ views' = [views EXCEPT ![v].phase = Asked]
    /\ UNCHANGED <<store, drawn, active>>

Answer(v) ==
    /\ views' = [views EXCEPT ![v].phase = "answered",
                              ![v].answer = Snapshot(views[v].sequence)]
    /\ UNCHANGED <<store, drawn, active>>

\* handle_http: wait_after wakes up because its condition ended.
AnswerNews(v) ==
    /\ views[v].phase = Asked
    /\ ~KeepsWaiting(views[v].sequence)
    /\ Answer(v)

\* handle_http: wait_after reaches its two-second timeout.
AnswerTimeout(v) ==
    /\ views[v].phase = Asked
    /\ KeepsWaiting(views[v].sequence)
    /\ Answer(v)

\* The status line of a 204 answer, from X-Speck-State (ViewerState::wire).
StatusOf(state) ==
    CASE state = "Building"    -> "building"
      [] state = "BuildFailed" -> "error"
      [] state = "Watching"    -> "watching"
      [] state = "Stopped"     -> "stopped"
      [] state = "Running"     -> "waiting"

\* A page with its answer taken.
Done(page) == [page EXCEPT !.phase = Idle, !.answer = NoFrame]

\* A 204 answer: generation and status line at once.
ShowState(v) ==
    LET a == views[v].answer IN
    /\ views[v].phase = "answered" /\ a.frame = NoFrame
    /\ views' = [views EXCEPT ![v] = [Done(@) EXCEPT !.generation = a.generation,
                                                     !.status = StatusOf(a.state)]]
    /\ UNCHANGED <<store, drawn, active>>

\* Deviation: the generation is learned once and never again.
ReadHeadersOnce(v) ==
    /\ views[v].phase = "answered" /\ views[v].answer.frame # NoFrame
    /\ views' = [views EXCEPT ![v].phase = "reading",
                              ![v].generation = IF @ = Unlearned THEN views[v].answer.generation ELSE @]
    /\ UNCHANGED <<store, drawn, active>>

(* The headers of a picture: the page adopts their generation, then awaits *)
(* the pixels.  What it shows stays as it is.                              *)
ReadHeaders(v) ==
    /\ views[v].phase = "answered" /\ views[v].answer.frame # NoFrame
    /\ views' = [views EXCEPT ![v].phase = "reading",
                              ![v].generation = views[v].answer.generation]
    /\ UNCHANGED <<store, drawn, active>>

\* Deviation: the picture is drawn and its number forgotten.
DrawPictureUncounted(v) ==
    /\ views[v].phase = "reading"
    /\ views' = [views EXCEPT ![v] = [Done(@) EXCEPT !.canvas = views[v].answer.frame.run,
                                                     !.status = "live"]]
    /\ UNCHANGED <<store, drawn, active>>

\* The last pixel has arrived.
DrawPicture(v) ==
    LET frame == views[v].answer.frame IN
    /\ views[v].phase = "reading"
    /\ views' = [views EXCEPT ![v] = [Done(@) EXCEPT !.canvas = frame.run, !.status = "live",
                                                     !.sequence = frame.sequence]]
    /\ UNCHANGED <<store, drawn, active>>

\* The fetch or the reading of its body fails; what the headers said is not undone.
LoseAnswer(v) ==
    /\ views[v].phase # Idle
    /\ views' = [views EXCEPT ![v] = [Done(@) EXCEPT !.status = "disconnected"]]
    /\ UNCHANGED <<store, drawn, active>>

DeliveryNext ==
    \/ StartRun \/ ReceiveFrame \/ EndRun \/ ChangeState
    \/ \E v \in Viewers :
         \/ AskFrame(v) \/ AnswerNews(v) \/ AnswerTimeout(v)
         \/ ShowState(v) \/ ReadHeaders(v) \/ DrawPicture(v) \/ LoseAnswer(v)

(* The page's loop never stops, the server answers every poll, and the     *)
(* network does not lose every one of infinitely many polls, answers with  *)
(* a picture and bodies.                                                   *)
DeliveryFairness ==
    \A v \in Viewers :
        /\ WF_deliveryVars(AskFrame(v)) /\ WF_deliveryVars(AnswerTimeout(v))
        /\ SF_deliveryVars(AnswerNews(v))
        /\ SF_deliveryVars(ReadHeaders(v)) /\ SF_deliveryVars(DrawPicture(v))
        /\ WF_deliveryVars(ShowState(v))

DeliverySpec == DeliveryInit /\ [][DeliveryNext]_deliveryVars
FairDeliverySpec == DeliverySpec /\ DeliveryFairness

----------------------------------------------------------------------------
(* Properties. *)

(* A page that says "Live - frame n" shows a picture drawn by the run it   *)
(* believes is on, although runs were replaced while its polls were under  *)
(* way: input it sends is tagged with the generation of what the user      *)
(* sees.  The one exception lasts from the headers of a picture to its     *)
(* last pixel: then an earlier run's picture may still say "Live", and     *)
(* what the page is reading is a picture of the run it already believes    *)
(* in, never of another one.                                               *)
LivePictureMatchesGeneration ==
    \A v \in Viewers :
        views[v].status = "live" =>
            \/ views[v].canvas = views[v].generation
            \/ /\ views[v].phase = "reading"
               /\ views[v].answer.frame.run = views[v].generation
               /\ views[v].canvas < views[v].generation

(* A page never goes back: neither to an older generation nor to a frame   *)
(* number it has shown, and a new generation never reuses a number.        *)
PagesNeverGoBack ==
    [][\A v \in Viewers :
         /\ views'[v].sequence >= views[v].sequence
         /\ views[v].generation # Unlearned => views'[v].generation >= views[v].generation
         /\ views'[v].canvas > views[v].canvas => views'[v].sequence > views[v].sequence
      ]_deliveryVars

(* What makes the two inductive.  The picture on offer is of the current   *)
(* run; numbers go on where the previous run stopped; a page knows nothing *)
(* newer than the store, and an answer under way is newer than the page it *)
(* is for.                                                                 *)
StoreCounts ==
    /\ store.sequence = store.deliveryOffset + drawn
    /\ active => store.state = "Running" /\ store.generation > 0
    /\ store.latest # NoFrame => /\ store.latest.run = store.generation
                                 /\ store.latest.sequence <= store.sequence
PageFollowsStore(page) ==
    /\ page.sequence <= store.sequence /\ page.canvas <= store.generation
    /\ page.generation # Unlearned => page.generation <= store.generation
    /\ page.status = "live" =>
          /\ page.generation # Unlearned /\ page.canvas <= page.generation
          /\ page.canvas = page.generation \/ page.phase = "reading"
AnswerIsNews(page) ==
    page.phase \in {"answered", "reading"} =>
        /\ page.answer \in Answers
        /\ page.phase = "reading" =>
              page.answer.frame # NoFrame /\ page.generation = page.answer.generation
        /\ page.answer.generation <= store.generation
        /\ page.generation # Unlearned => page.generation <= page.answer.generation
        /\ page.answer.frame # NoFrame =>
             /\ page.answer.frame.run = page.answer.generation
             /\ page.sequence < page.answer.frame.sequence
             /\ page.answer.frame.sequence <= store.sequence
DeliveryInv ==
    /\ DeliveryTypeOK /\ StoreCounts
    /\ \A v \in Viewers : PageFollowsStore(views[v]) /\ AnswerIsNews(views[v])

(* A page is up to date again and again: a picture that stays on offer is  *)
(* eventually shown, or a later one is, also by a page that counted        *)
(* further in an earlier run.                                              *)
OfferedPictureIsShown ==
    \A v \in Viewers :
        []<>(store.latest # NoFrame => /\ views[v].canvas >= store.latest.run
                                       /\ views[v].sequence >= store.latest.sequence)

(* The store, called in this order, is a viewer feed. *)
Feed == INSTANCE ViewerFeed WITH
    generation <- store.generation, latest <- store.latest,
    state <- store.state, high <- store.sequence

ImplementsViewerFeed == Feed!FeedSpec

=============================================================================
