----------------------------- MODULE DevInput -----------------------------
(***************************************************************************)
(* Browser input of `speck dev', from a key of a page to a key of a game:  *)
(* the pages of src/dev/viewer.html, the server's InputControl, the socket *)
(* to the game, and the game's own polling loop, across restarts of the    *)
(* game.  What the session and the receiver thread do between restarts is  *)
(* reduced to the steps that touch input; module DevSession has them all.  *)
(***************************************************************************)
EXTENDS InputControl

CONSTANTS
    MaxRuns,         \* bound: runs of the game in one behaviour
    MaxQueue,        \* bound: requests a page has waiting
    Lossy            \* may the network lose a request?

ASSUME MaxRunsAssumption == MaxRuns \in Nat
ASSUME MaxQueueAssumption == MaxQueue \in Nat \ {0}
ASSUME LossyAssumption == Lossy \in BOOLEAN

VARIABLES
    generation,      \* FrameStore's generation: the number of the latest run
    session,         \* the main thread: "idle", "live", "stopping"
    receiver,        \* this run's frame receiver: "none", "accepting", "reading"
    proc,            \* the game: "none", "booting", "polling", "updating", "exited"
    linked,          \* did this run's game connect to the frame listener?
    input,           \* the game's key state
    before,          \* history: the keys held when the game's frame began
    source,          \* history: the client whose keydown a held key answers to
    pages,           \* the browser pages
    beacons          \* release requests of closed pages, not yet delivered

hostVars == <<generation, session, receiver, linked>>
gameVars == <<proc, input, before, source>>
pageVars == <<pages, beacons>>
vars == <<control, wire, hostVars, gameVars, pageVars>>

\* A page that has seen no X-Speck-Generation header has `generation === null'.
NoGen == MaxRuns + 1
Generations == 0..MaxRuns

Pages == [alive : BOOLEAN, gen : Generations \cup {NoGen},
          held : SUBSET Keys, queue : Seq(Requests)]

TypeOK ==
    /\ ControlTypeOK
    /\ generation \in Generations
    /\ session \in {"idle", "live", "stopping"}
    /\ receiver \in {"none", "accepting", "reading"}
    /\ proc \in {"none", "booting", "polling", "updating", "exited"}
    /\ linked \in BOOLEAN
    /\ input \in InputStates
    /\ before \in SUBSET Keys
    /\ source \in [Keys -> Clients \cup {NoClient}]
    /\ pages \in [Clients -> Pages]
    /\ beacons \in SUBSET Requests

Init ==
    /\ ControlInit
    /\ generation = 0 /\ session = "idle" /\ receiver = "none" /\ linked = FALSE
    /\ proc = "none" /\ input = InputReset /\ before = {}
    /\ source = [k \in Keys |-> NoClient]
    /\ pages = [c \in Clients |->
                  [alive |-> TRUE, gen |-> NoGen, held |-> {}, queue |-> << >>]]
    /\ beacons = {}

ProcAlive == proc \in {"booting", "polling", "updating"}

----------------------------------------------------------------------------
(* The pages.  The head of a page's queue is the request it has sent; the  *)
(* promise chain `inputQueue' sends the next one after its answer.         *)

Request(c, kind, key, gen) == [client |-> c, kind |-> kind, key |-> key, gen |-> gen]

\* sendInput captures the generation the page knows when the event happens.
Queued(c, kind, key, gen) ==
    IF gen = NoGen THEN pages[c].queue
    ELSE Append(pages[c].queue, Request(c, kind, key, gen))

\* The request under way, if any, of a queue whose page is gone.
Sent(queue) == IF queue = << >> THEN << >> ELSE << Head(queue) >>

CanQueue(c) == pages[c].alive /\ Len(pages[c].queue) < MaxQueue

KeyDown(c, k) ==
    /\ CanQueue(c)
    /\ k \notin pages[c].held
    /\ pages' = [pages EXCEPT ![c].held = @ \cup {k},
                              ![c].queue = Queued(c, "down", k, pages[c].gen)]
    /\ UNCHANGED <<control, wire, hostVars, gameVars, beacons>>

KeyUp(c, k) ==
    /\ CanQueue(c)
    /\ pages' = [pages EXCEPT ![c].held = @ \ {k},
                              ![c].queue = Queued(c, "up", k, pages[c].gen)]
    /\ UNCHANGED <<control, wire, hostVars, gameVars, beacons>>

\* Deviation: the page forgets its keys and tells nobody.
BlurSilently(c) ==
    /\ CanQueue(c)
    /\ pages' = [pages EXCEPT ![c].held = {}]
    /\ UNCHANGED <<control, wire, hostVars, gameVars, beacons>>

\* blur and visibilitychange: releaseAll.
Blur(c) ==
    /\ CanQueue(c)
    /\ pages' = [pages EXCEPT ![c].held = {},
                              ![c].queue = Queued(c, "release", NoKey, pages[c].gen)]
    /\ UNCHANGED <<control, wire, hostVars, gameVars, beacons>>

Heartbeat(c) ==
    /\ CanQueue(c)
    /\ pages' = [pages EXCEPT ![c].queue = Queued(c, "heartbeat", NoKey, pages[c].gen)]
    /\ UNCHANGED <<control, wire, hostVars, gameVars, beacons>>

(* A /frame answer arrives whose generation header differs.  Its snapshot  *)
(* was taken at any time since the previous answer's.                      *)
LearnGeneration(c) ==
    /\ CanQueue(c)
    /\ \E g \in Generations :
         /\ g <= generation
         /\ pages[c].gen = NoGen \/ g > pages[c].gen
         /\ pages' = [pages EXCEPT ![c].gen = g, ![c].held = {},
                                   ![c].queue = Queued(c, "release", NoKey, g)]
    /\ UNCHANGED <<control, wire, hostVars, gameVars, beacons>>

\* A page that is gone: only a request it had sent is still under way.
Gone(c) == [alive |-> FALSE, gen |-> NoGen, held |-> {}, queue |-> Sent(pages[c].queue)]

\* The page is closed: pagehide posts a release outside the queue.
PageHide(c) ==
    /\ pages[c].alive
    /\ pages' = [pages EXCEPT ![c] = Gone(c)]
    /\ beacons' = IF pages[c].gen = NoGen THEN beacons
                  ELSE beacons \cup {Request(c, "release", NoKey, pages[c].gen)}
    /\ UNCHANGED <<control, wire, hostVars, gameVars>>

\* The browser, tunnel or network vanishes: no page event runs.
Vanish(c) ==
    /\ pages[c].alive
    /\ pages' = [pages EXCEPT ![c] = Gone(c)]
    /\ UNCHANGED <<control, wire, hostVars, gameVars, beacons>>

Answered(c) == pages' = [pages EXCEPT ![c].queue = Tail(@)]

\* POST /input: handle_http calls apply and answers; the page sends its next request.
HandleInput(c) ==
    /\ pages[c].queue # << >>
    /\ Apply(Head(pages[c].queue), ProcAlive)
    /\ Answered(c)
    /\ UNCHANGED <<hostVars, gameVars, beacons>>

HandleBeacon(c) ==
    \E b \in beacons :
        /\ b.client = c
        /\ Apply(b, ProcAlive)
        /\ beacons' = beacons \ {b}
        /\ UNCHANGED <<hostVars, gameVars, pages>>

LoseRequest(c) ==
    /\ Lossy
    /\ pages[c].queue # << >>
    /\ Answered(c)
    /\ UNCHANGED <<control, wire, hostVars, gameVars, beacons>>

LoseBeacon(c) ==
    /\ Lossy
    /\ \E b \in beacons : b.client = c /\ beacons' = beacons \ {b}
    /\ UNCHANGED <<control, wire, hostVars, gameVars, pages>>

PageStep(c) ==
    \/ \E k \in Keys : KeyDown(c, k) \/ KeyUp(c, k)
    \/ Blur(c) \/ Heartbeat(c) \/ LearnGeneration(c)
    \/ PageHide(c) \/ Vanish(c)
    \/ HandleInput(c) \/ HandleBeacon(c)
    \/ LoseRequest(c) \/ LoseBeacon(c)

----------------------------------------------------------------------------
(* The lease watchdog and the clock. *)

WatchdogPoll ==
    /\ ExpireLease(ProcAlive)
    /\ UNCHANGED <<hostVars, gameVars, pageVars>>

TimePasses ==
    /\ LeaseAges
    /\ UNCHANGED <<hostVars, gameVars, pageVars>>

----------------------------------------------------------------------------
(* The session and the receiver thread of the current run. *)

(* launch: the game is spawned, the generation begins, the receiver starts. *)
BeginRun ==
    /\ session = "idle"
    /\ generation < MaxRuns
    /\ generation' = generation + 1
    /\ session' = "live" /\ receiver' = "accepting" /\ linked' = FALSE
    /\ proc' = "booting" /\ wire' = << >>
    /\ UNCHANGED <<control, input, before, source, pageVars>>

\* receive_frames: accept, then connect_game with the generation it reads.
AcceptGame ==
    /\ receiver = "accepting"
    /\ linked
    /\ ConnectGame(generation, generation)
    /\ receiver' = "reading"
    /\ UNCHANGED <<generation, session, linked, gameVars, pageVars>>

\* stop_game: the boundary after which the run is being stopped.
StopGame ==
    /\ session = "live"
    /\ session' = "stopping"
    /\ DisconnectGame
    /\ UNCHANGED <<generation, receiver, linked, gameVars, pageVars>>

(* The stream ended, or the game was reaped and never connected: the       *)
(* receiver detaches input and returns.                                    *)
ReceiverEnds ==
    /\ proc = "exited"
    /\ \/ receiver = "reading"
       \/ receiver = "accepting" /\ ~linked /\ session = "stopping"
    /\ receiver' = "none"
    /\ DisconnectGame
    /\ UNCHANGED <<generation, session, linked, gameVars, pageVars>>

\* stop_game: the child was waited on and the receiver joined.
GameStopped ==
    /\ session = "stopping" /\ proc = "exited" /\ receiver = "none"
    /\ session' = "idle"
    /\ UNCHANGED <<control, wire, generation, receiver, linked, gameVars, pageVars>>

----------------------------------------------------------------------------
(* The game process. *)

\* crumb_init: the key state is reset, then the presenter connects.
GameConnects ==
    /\ proc = "booting"
    /\ proc' = "updating" /\ linked' = TRUE
    /\ input' = InputReset /\ before' = {}
    /\ source' = [k \in Keys |-> NoClient]
    /\ UNCHANGED <<control, wire, generation, session, receiver, pageVars>>

\* crumb_run: a new frame forgets the old edges and polls for input.
GameBeginsFrame ==
    /\ proc = "updating"
    /\ proc' = "polling"
    /\ input' = InputBeginFrame(input)
    /\ before' = input.down
    /\ UNCHANGED <<control, wire, hostVars, source, pageVars>>

AppliedRecord(record) ==
    CASE record.kind = "down"    -> SetKeyDown(input, record.key)
      [] record.kind = "up"      -> SetKeyUp(input, record.key)
      [] record.kind = "release" -> InputReleaseAll(input)

\* crumb_present_poll: one complete control record is read and applied.
GameReceives ==
    /\ proc = "polling"
    /\ wire # << >>
    /\ input' = AppliedRecord(Head(wire))
    /\ wire' = Tail(wire)
    /\ source' = [k \in Keys |->
                    IF k \notin input'.down THEN NoClient
                    ELSE IF k \in input.down THEN source[k] ELSE Head(wire).by]
    /\ UNCHANGED <<control, hostVars, proc, before, pageVars>>

(* The socket has no more bytes for the poll (records may still be on      *)
(* their way); spk_update and spk_draw run and the frame is presented.     *)
GameUpdates ==
    /\ proc = "polling"
    /\ proc' = "updating"
    /\ UNCHANGED <<control, wire, hostVars, input, before, source, pageVars>>

\* The process ends, with its memory and whatever its socket held unread.
GameExits ==
    /\ ProcAlive
    /\ proc' = "exited" /\ wire' = << >>
    /\ input' = InputReset /\ before' = {}
    /\ source' = [k \in Keys |-> NoClient]
    /\ UNCHANGED <<control, hostVars, pageVars>>

GameStep == GameConnects \/ GameBeginsFrame \/ GameReceives \/ GameUpdates \/ GameExits

HostStep ==
    \/ WatchdogPoll \/ TimePasses
    \/ BeginRun \/ AcceptGame \/ StopGame \/ ReceiverEnds \/ GameStopped

Next == HostStep \/ GameStep \/ \E c \in Clients : PageStep(c)

Spec == Init /\ [][Next]_vars

(* Fairness.  The kernel schedules every thread of the server and delivers *)
(* what a socket holds; the game's frame loop is paced but never stops;    *)
(* time passes.  Nothing makes a page act, a user release a key, a session *)
(* restart a game, or the owner of a lease fall silent while its page is   *)
(* there: the lease of a page that is gone is the only one sure to expire. *)
SilentOwnerAges ==
    /\ \E c \in Clients : control.owner = c /\ ~pages[c].alive
    /\ TimePasses

\* SIGINT, or SIGKILL after two seconds, ends the game that is being stopped.
StoppedGameExits == session = "stopping" /\ GameExits

Fairness ==
    /\ WF_vars(SilentOwnerAges) /\ WF_vars(WatchdogPoll)
    /\ WF_vars(GameBeginsFrame) /\ WF_vars(GameUpdates) /\ SF_vars(GameReceives)
    /\ WF_vars(AcceptGame) /\ WF_vars(ReceiverEnds) /\ WF_vars(GameStopped)
    /\ WF_vars(StoppedGameExits)
    /\ \A c \in Clients : SF_vars(HandleInput(c)) /\ SF_vars(HandleBeacon(c))

FairSpec == Spec /\ Fairness

----------------------------------------------------------------------------
(* Properties. *)

IsRelease(record) == record.kind = "release"

Lifts(record, k) == IsRelease(record) \/ (record.kind = "up" /\ record.key = k)

\* Once the game has read what is on the wire it holds k, pressed by c.
WillHold(k, c) ==
    \/ /\ k \in input.down
       /\ source[k] = c
       /\ \A i \in DOMAIN wire : ~Lifts(wire[i], k)
    \/ \E i \in DOMAIN wire :
         /\ wire[i].kind = "down" /\ wire[i].key = k /\ wire[i].by = c
         /\ \A j \in (i + 1)..Len(wire) : ~Lifts(wire[j], k)

(* The game that InputControl writes to is the run the FrameStore counts   *)
(* as current, and requests are tested against that run's generation: a    *)
(* receiver that connects late, or an old one that is still winding down,  *)
(* never makes the controller mistake one run for another.                 *)
AttachedGameIsCurrent ==
    control.game # NoGame =>
        /\ control.game = generation /\ control.generation = generation
        /\ receiver = "reading"

(* docs/development-viewer.md: requests from older runs cannot affect the  *)
(* new game.  Every record on its way to the current game was caused by a  *)
(* request that named this game's own generation, however long the request *)
(* was delayed in a page's queue or in the network.                        *)
InputOfThisRun == \A i \in DOMAIN wire : wire[i].gen = generation

(* While the controller has a game, every key that game is going to hold   *)
(* was pressed by the present owner of the lease.  With no owner it is     *)
(* going to hold nothing: whatever frees the lease (a release, expiry, a   *)
(* new connection) also lifts the keys.                                    *)
KeysAnswerToOwner ==
    control.game # NoGame =>
        \A k \in Keys, c \in Clients : WillHold(k, c) => control.owner = c

(* A handover reaches the game as a release-all before anything else the   *)
(* next owner sends: a key the game holds, or will hold on account of one  *)
(* client, is never touched by a record of another client unless a         *)
(* release-all lies between them on the wire.  So no game ever holds keys  *)
(* of two clients, whatever expired, failed or was lost in between.        *)
HandoverReleasesFirst ==
    LET FromOther(i, c) == ~IsRelease(wire[i]) /\ wire[i].by # c
        Separated(i, j) == \E m \in DOMAIN wire : i < m /\ m < j /\ IsRelease(wire[m])
    IN  \A j \in DOMAIN wire :
          /\ \A k \in input.down : FromOther(j, source[k]) => Separated(0, j)
          /\ \A i \in 1..(j - 1) :
                ~IsRelease(wire[i]) /\ FromOther(j, wire[i].by) => Separated(i, j)

(* A lease has an age, so that the watchdog can end it, and a game, so     *)
(* that its end can be sent; there is no age without a lease.              *)
LeaseCanExpire ==
    /\ control.owner # NoClient <=> control.lastSeen # "none"
    /\ control.owner # NoClient => control.game # NoGame

(* What a Speck program sees in one frame (docs/language.md): a key with   *)
(* no edge is as it was when the frame began, and a key with one edge made *)
(* exactly that transition, even when one poll reads several records of    *)
(* the key.                                                                *)
EdgesTellWhatHappened ==
    \A k \in Keys :
        LET pressed == k \in input.pressed
            released == k \in input.released IN
        proc \in {"polling", "updating"} =>
            /\ ~pressed /\ ~released => (k \in input.down <=> k \in before)
            /\ pressed /\ ~released => k \in input.down /\ k \notin before
            /\ ~pressed /\ released => k \notin input.down /\ k \in before

(* The strengthening that makes the invariants above inductive: a socket   *)
(* is clean until its game is connected and after it exited, and whatever  *)
(* no release-all follows on the wire belongs to the owner of the lease.   *)
RunShape ==
    /\ session = "idle" => receiver = "none" /\ proc \in {"none", "exited"}
    /\ proc = "booting" => receiver = "accepting" /\ ~linked
    /\ receiver = "accepting" \/ ~ProcAlive => wire = << >> /\ input.down = {}
    /\ \A k \in input.down : source[k] \in Clients

UnreleasedBelongToOwner ==
    control.game # NoGame =>
        /\ \A i \in DOMAIN wire :
              ~IsRelease(wire[i]) /\ (\A j \in DOMAIN wire : j > i => ~IsRelease(wire[j]))
                  => wire[i].by = control.owner
        /\ \A k \in input.down :
              (\A j \in DOMAIN wire : ~IsRelease(wire[j])) => source[k] = control.owner

(* All of it together: while pages, network, receiver and game interleave, *)
(* the attached game is the current run, a lease can expire, handovers are *)
(* separated on the wire and edges are sound.  It is inductive.            *)
InputInv ==
    /\ TypeOK
    /\ RunShape
    /\ AttachedGameIsCurrent
    /\ InputOfThisRun
    /\ LeaseCanExpire
    /\ UnreleasedBelongToOwner
    /\ HandoverReleasesFirst
    /\ EdgesTellWhatHappened

(* src/dev/session.rs, stop_game: "No request can claim or write to this   *)
(* run after this boundary."  Once disconnect_game has detached the run    *)
(* that is being stopped, no client owns input and nothing is on its wire  *)
(* that was not there already.                                             *)
NoClaimAfterStop == session = "stopping" => control.owner = NoClient

(* docs/development-viewer.md: "a disconnected controller cannot leave a   *)
(* key held indefinitely."  From some time after a page is gone, no key of *)
(* any game is down on its account, although its last request and its      *)
(* pagehide beacon may arrive in either order, late or never.              *)
VanishedControllerReleased ==
    \A c \in Clients :
        ~pages[c].alive ~> [](\A k \in Keys : source[k] # c)

(* With a network that loses nothing, no key stays down forever while no   *)
(* page holds it: keyup, blur, restarts and the expiry of a lease that was  *)
(* won back too late always end in a lifted key.                           *)
NoStuckKey ==
    \A k \in Keys :
        []<>(k \notin input.down \/ \E c \in Clients : k \in pages[c].held)

(* Browser input implements the lease it promises: the holder is the       *)
(* controller's owner, and the held keys are those the attached game has   *)
(* after reading its wire.                                                 *)
Lease == INSTANCE KeyLease WITH
    holder <- control.owner,
    held <- IF control.game = NoGame THEN {}
            ELSE {k \in Keys : \E c \in Clients : WillHold(k, c)}

ImplementsKeyLease == Lease!LeaseSpec

=============================================================================
