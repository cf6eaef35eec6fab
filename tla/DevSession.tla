---------------------------- MODULE DevSession ----------------------------
(***************************************************************************)
(* A development session of `speck dev' and `speck dev --watch': the main  *)
(* thread (src/dev/mod.rs, src/dev/watch.rs, src/dev/session.rs), the      *)
(* frame receiver of every run, the HTTP server and the input watchdog     *)
(* (src/dev/server.rs), the Ctrl-C handler, and the game processes         *)
(* (runtime/crumb), with the frame store and the input controller they     *)
(* share.  One action is one step of one thread between two operations     *)
(* another thread can observe.                                             *)
(*                                                                         *)
(* Runs are indexed by number, each with its own process, connection and   *)
(* receiver, so that two of them could overlap.                            *)
(***************************************************************************)
EXTENDS FrameStore, InputControl

CONSTANTS
    Watch,           \* TRUE: watch::run, FALSE: dev::run
    MaxRuns,         \* bound: games launched in one session
    MaxFrames,       \* bound: frames one game draws
    MaxStream,       \* bound: half frames the game's connection buffers
    HostErrors,      \* may sockets, threads and processes fail to be set up?
    Stranger         \* may another local process connect to the frame port?

ASSUME SessionAssumption ==
    /\ Watch \in BOOLEAN /\ HostErrors \in BOOLEAN /\ Stranger \in BOOLEAN
    /\ MaxRuns \in Nat \ {0} /\ MaxFrames \in Nat /\ MaxStream \in Nat

VARIABLES
    pc,              \* the main thread
    back,            \* where the main thread goes on after stop_game
    result,          \* what the command returns: "none", "ok", "err"
    rebuild,         \* watch::run's flag
    settling,        \* watch::run's `changed_at.is_some()'
    game,            \* Session.game: the run it owns, or 0
    stopping,        \* stop_game's or drop's own GameRun, or 0
    runs,            \* every run: process, connection, receiver
    cancelled, interrupted,          \* the session's two flags
    ctrlc,           \* the Ctrl-C handler: "idle", "half", "done"
    http,            \* the HTTP server thread: "run", "failing", "done"
    serverFatal,     \* is the HTTP server's error waiting in `fatal'?
    serverFailed,    \* history: the HTTP server failed
    watchdog         \* the input watchdog: "run", "done"

mainVars == <<pc, back, result, rebuild, settling, game, stopping>>
flagVars == <<cancelled, interrupted>>
threadVars == <<ctrlc, http, serverFatal, serverFailed, watchdog>>
sessionVars == <<mainVars, runs, flagVars, threadVars, store, control, wire>>

Runs == 1..MaxRuns

(* A process is "boot" until it handles SIGINT, "ready" until it connects, *)
(* "frame" at the head of its loop, "draw" from its poll to the header,    *)
(* "half" between the two writes of a frame, "closing" after its loop.     *)
Running == {"boot", "ready", "frame", "draw", "half", "closing"}

ProcStates == Running \cup {"none", "exited"}

ReceiverStates ==
    {"none", "look", "accept", "generation", "connect", "head", "body",
     "fail", "detach", "stop", "done"}

NewRun ==
    [proc |-> "none", status |-> "none", sigint |-> FALSE, drawn |-> 0,
     backlog |-> << >>, peer |-> "none", stream |-> << >>, closed |-> "open",
     talks |-> FALSE, rx |-> "none", sawReaped |-> FALSE, gen |-> 0, head |-> 0, last |-> 0,
     reaped |-> FALSE, fatal |-> FALSE]

SessionInit ==
    /\ StoreInit /\ ControlInit
    /\ pc = IF Watch THEN "top" ELSE "build"
    /\ back = "none" /\ result = "none" /\ rebuild = TRUE /\ settling = FALSE
    /\ game = 0 /\ stopping = 0
    /\ runs = [r \in Runs |-> NewRun]
    /\ cancelled = FALSE /\ interrupted = FALSE
    /\ ctrlc = "idle" /\ http = "run" /\ watchdog = "run"
    /\ serverFatal = FALSE /\ serverFailed = FALSE

Goto(next) == pc' = next

----------------------------------------------------------------------------
(* Processes and their sockets. *)

Alive(r) == runs[r].proc \in Running

(* A process that ends closes its socket.  Unread input makes the kernel   *)
(* reset the connection instead, and then any part of what the receiver    *)
(* has not read yet may be gone.                                           *)
Unread(r) == wire # << >> /\ runs[r].peer = "game"

Prefixes(s) == {SubSeq(s, 1, n) : n \in 0..Len(s)}

Left(r) == IF Unread(r) THEN Prefixes(runs[r].stream) ELSE {runs[r].stream}

\* Run r once its socket is closed with `left' to read.
Closed(r, left) ==
    [runs[r] EXCEPT !.closed = IF @ # "open" THEN @ ELSE IF Unread(r) THEN "reset" ELSE "fin",
                    !.stream = left]

Exited(r, status, left) == [Closed(r, left) EXCEPT !.proc = "exited", !.status = status]

\* The controller's stream leads to a game that can still read it.
PeerOpen ==
    control.game # NoGame =>
        runs[control.game].peer = "game" /\ runs[control.game].closed = "open"

WireAfterClose(r) == wire' = IF runs[r].peer = "game" THEN << >> ELSE wire

\* SIGKILL, or a crash: the process is gone at once.
Killed(r) ==
    IF Alive(r)
    THEN /\ \E left \in Left(r) : runs' = [runs EXCEPT ![r] = Exited(r, "bad", left)]
         /\ WireAfterClose(r)
    ELSE UNCHANGED <<runs, wire>>

Unowned == <<mainVars, flagVars, threadVars, store, control>>

(* What SIGINT may make of run r.  Before crumb_platform_init and after    *)
(* crumb_platform_shutdown the default action kills the process; the       *)
(* handler in between only sets stop_requested.                            *)
Signalled(r) ==
    LET p == runs[r].proc
        killed == {Exited(r, "bad", left) : left \in Left(r)}
        noted == {[runs[r] EXCEPT !.sigint = TRUE]} IN
    CASE p = "boot"                        -> killed
      [] p = "closing"                     -> killed \cup noted
      [] p \in {"ready", "frame", "draw", "half"} -> noted
      [] p \in {"none", "exited"}          -> {runs[r]}

Delivered(r, run) ==
    /\ runs' = [runs EXCEPT ![r] = run]
    /\ IF run.closed # "open" THEN WireAfterClose(r) ELSE UNCHANGED wire

\* crumb_platform_init.
GameBoots(r) ==
    /\ runs[r].proc = "boot"
    /\ runs' = [runs EXCEPT ![r].proc = "ready"]
    /\ UNCHANGED <<Unowned, wire>>

\* crumb_present_init: the connection waits in the listener's backlog.
GameConnects(r) ==
    /\ runs[r].proc = "ready"
    /\ runs' = [runs EXCEPT ![r].proc = "frame", ![r].backlog = Append(@, "game")]
    /\ UNCHANGED <<Unowned, wire>>

\* The host has no descriptor of the game's connection left.
HostGone(r) ==
    \/ runs[r].rx = "done"
    \/ /\ runs[r].rx \in {"fail", "detach", "stop"}
       /\ runs[r].peer = "game" /\ control.game # r

(* The head of the loop: no stop was requested, and crumb_present_poll     *)
(* reads every control record that has arrived.                            *)
GamePolls(r) ==
    /\ runs[r].proc = "frame" /\ ~runs[r].sigint /\ ~HostGone(r)
    /\ runs[r].drawn < MaxFrames
    /\ runs' = [runs EXCEPT ![r].proc = "draw"]
    /\ WireAfterClose(r)
    /\ UNCHANGED Unowned

\* One half of frame n goes into the socket; a full one makes send_all wait.
SendHalf(r, part, n, next) ==
    /\ ~HostGone(r)
    /\ Len(runs[r].stream) < MaxStream
    /\ runs' = [runs EXCEPT ![r].proc = next, ![r].drawn = n,
                            ![r].stream = Append(@, [part |-> part, sequence |-> n])]
    /\ UNCHANGED <<Unowned, wire>>

\* crumb_present: a header with the next frame number, then the pixels.
GameSendsHead(r) ==
    /\ runs[r].proc = "draw"
    /\ SendHalf(r, "head", runs[r].drawn + 1, "half")

GameSendsBody(r) ==
    /\ runs[r].proc = "half"
    /\ SendHalf(r, "body", runs[r].drawn, "frame")

(* The frame loop ends (SIGINT, quit(), the frame limit, or end of file    *)
(* from the host) and crumb_shutdown closes the socket.  SIGINT is seen    *)
(* once more between the poll and the update.                              *)
GameCloses(r) ==
    /\ runs[r].proc = "frame" \/ (runs[r].proc = "draw" /\ runs[r].sigint)
    /\ \E left \in Left(r) :
         runs' = [runs EXCEPT ![r] = [Closed(r, left) EXCEPT !.proc = "closing"]]
    /\ WireAfterClose(r)
    /\ UNCHANGED Unowned

\* crumb_run returns 0.
GameReturns(r) ==
    /\ runs[r].proc = "closing"
    /\ runs' = [runs EXCEPT ![r] = Exited(r, "ok", runs[r].stream)]
    /\ UNCHANGED <<Unowned, wire>>

\* A write or poll fails because the host closed the connection: crumb_run returns 1.
GameLosesHost(r) ==
    /\ runs[r].proc \in {"frame", "draw", "half"}
    /\ HostGone(r)
    /\ runs' = [runs EXCEPT ![r] = Exited(r, "bad", runs[r].stream)]
    /\ WireAfterClose(r)
    /\ UNCHANGED Unowned

(* A guard of the program fails, or the process is killed from outside.    *)
(* A game that hangs, or that a debugger holds, just takes no step.        *)
GameCrashes(r) ==
    /\ Alive(r)
    /\ Killed(r)
    /\ UNCHANGED Unowned

StrangerConnects(r) ==
    /\ Stranger
    /\ runs[r].rx \in {"look", "accept"} /\ runs[r].backlog = << >>
    /\ runs' = [runs EXCEPT ![r].backlog = Append(@, "stranger")]
    /\ UNCHANGED <<Unowned, wire>>

GameStep(r) ==
    \/ GameBoots(r) \/ GameConnects(r) \/ GamePolls(r)
    \/ GameSendsHead(r) \/ GameSendsBody(r) \/ GameCloses(r) \/ GameReturns(r)
    \/ GameLosesHost(r) \/ GameCrashes(r) \/ StrangerConnects(r)

----------------------------------------------------------------------------
(* The frame receiver of run r (spawn_frame_receiver, receive_frames).     *)

ReceiverAt(r, at) == runs[r].rx = at

NotReceiver == <<mainVars, flagVars, threadVars>>

\* Deviation: a reaped game's queued connection is not drained.
RxLooksAtExitFirst(r) ==
    /\ ReceiverAt(r, "look")
    /\ runs' = [runs EXCEPT ![r].rx = IF runs[r].reaped THEN "detach" ELSE "accept"]
    /\ UNCHANGED <<NotReceiver, store, control, wire>>

\* `reaped' is read before accept, so a game that exits meanwhile is retried once.
RxLooks(r) ==
    /\ ReceiverAt(r, "look")
    /\ runs' = [runs EXCEPT ![r].sawReaped = runs[r].reaped, ![r].rx = "accept"]
    /\ UNCHANGED <<NotReceiver, store, control, wire>>

RxAccepts(r) ==
    /\ ReceiverAt(r, "accept")
    /\ runs[r].backlog # << >>
    /\ runs' = [runs EXCEPT ![r].peer = Head(runs[r].backlog), ![r].rx = "generation"]
    /\ UNCHANGED <<NotReceiver, store, control, wire>>

RxFindsNothing(r) ==
    /\ ReceiverAt(r, "accept")
    /\ runs[r].backlog = << >>
    /\ runs' = [runs EXCEPT ![r].rx = IF runs[r].sawReaped THEN "detach" ELSE "look"]
    /\ UNCHANGED <<NotReceiver, store, control, wire>>

\* accept, a socket option or try_clone fails.
RxSetupFails(r) ==
    /\ HostErrors
    /\ ReceiverAt(r, "accept") \/ ReceiverAt(r, "generation")
    /\ runs' = [runs EXCEPT ![r].rx = "fail"]
    /\ UNCHANGED <<NotReceiver, store, control, wire>>

\* frames.generation() is read before connect_game takes the controller's lock.
RxReadsGeneration(r) ==
    /\ ReceiverAt(r, "generation")
    /\ runs' = [runs EXCEPT ![r].gen = store.generation, ![r].rx = "connect"]
    /\ UNCHANGED <<NotReceiver, store, control, wire>>

RxConnects(r) ==
    /\ ReceiverAt(r, "connect")
    /\ ConnectGame(r, runs[r].gen)
    /\ runs' = [runs EXCEPT ![r].rx = "head"]
    /\ UNCHANGED <<NotReceiver, store>>

(* What the next read returns: bytes of the game, its end, or silence.     *)
(* While a foreign connection sends something in every FRAME_SILENCE_POLL  *)
(* (`talks') no read times out.                                            *)
Readable(r) == runs[r].peer = "game" /\ runs[r].stream # << >>
AtEnd(r) == runs[r].peer = "game" /\ runs[r].stream = << >> /\ runs[r].closed # "open"
Silent(r) == ~Readable(r) /\ ~AtEnd(r) /\ ~runs[r].talks

\* receive_frames returns: nobody reads its connection any more.
StopsReading(r, next) ==
    runs' = [runs EXCEPT ![r].rx = next, ![r].head = 0, ![r].talks = FALSE]

RxReadsHead(r) ==
    /\ ReceiverAt(r, "head") /\ Readable(r)
    /\ runs' = [runs EXCEPT ![r].head = Head(runs[r].stream).sequence,
                            ![r].stream = Tail(@), ![r].rx = "body"]
    /\ UNCHANGED <<NotReceiver, store, control, wire>>

(* A complete frame is published if its number is higher than the last     *)
(* one's; `left' is what the game's stream holds then.                     *)
FrameComplete(r, left) ==
    /\ ReceiverAt(r, "body")
    /\ IF runs[r].head > runs[r].last
       THEN /\ Publish(runs[r].head, r)
            /\ runs' = [runs EXCEPT ![r].last = runs[r].head, ![r].head = 0,
                                    ![r].stream = left, ![r].rx = "head"]
       ELSE StopsReading(r, "fail") /\ UNCHANGED store
    /\ UNCHANGED <<NotReceiver, control, wire>>

RxReadsBody(r) == Readable(r) /\ FrameComplete(r, Tail(runs[r].stream))

\* End of file or a reset: between frames the stream is over, inside one it is truncated.
RxReadsEnd(r) ==
    /\ ReceiverAt(r, "head") \/ ReceiverAt(r, "body")
    /\ AtEnd(r)
    /\ StopsReading(r, IF ReceiverAt(r, "head") THEN "detach" ELSE "fail")
    /\ UNCHANGED <<NotReceiver, store, control, wire>>

\* Deviation: the grace bounds the silence inside a frame only.
RxGraceEndsInsideFrame(r) ==
    /\ ReceiverAt(r, "body")
    /\ Silent(r) /\ runs[r].reaped
    /\ StopsReading(r, "fail")
    /\ UNCHANGED <<NotReceiver, store, control, wire>>

\* GameStream: REAPED_GAME_GRACE of silence after the game was reaped.
RxGraceEnds(r) ==
    /\ ReceiverAt(r, "head") \/ ReceiverAt(r, "body")
    /\ Silent(r) /\ runs[r].reaped
    /\ StopsReading(r, "fail")
    /\ UNCHANGED <<NotReceiver, store, control, wire>>

(* A connection that is not the game's.  It sends when it likes, and what  *)
(* it sends may be frames: these are published as pictures of the run.     *)
Foreign(r, at) == ReceiverAt(r, at) /\ runs[r].peer = "stranger"

StrangerTalks(r) ==
    /\ Foreign(r, "head") \/ Foreign(r, "body")
    /\ runs' = [runs EXCEPT ![r].talks = ~@]
    /\ UNCHANGED <<Unowned, wire>>

StrangerSendsHead(r) ==
    /\ Foreign(r, "head")
    /\ \E n \in 1..MaxFrames : runs' = [runs EXCEPT ![r].head = n, ![r].rx = "body"]
    /\ UNCHANGED <<NotReceiver, store, control, wire>>

StrangerSendsBody(r) == Foreign(r, "body") /\ FrameComplete(r, runs[r].stream)

\* It ends, between frames or inside one, or sends what is no frame.
StrangerEnds(r) ==
    /\ \/ Foreign(r, "head") /\ \E next \in {"detach", "fail"} : StopsReading(r, next)
       \/ Foreign(r, "body") /\ StopsReading(r, "fail")
    /\ UNCHANGED <<NotReceiver, store, control, wire>>

StrangerStep(r) ==
    \/ StrangerTalks(r) \/ StrangerSendsHead(r) \/ StrangerSendsBody(r) \/ StrangerEnds(r)

RxFails(r) ==
    /\ ReceiverAt(r, "fail")
    /\ runs' = [runs EXCEPT ![r].fatal = TRUE, ![r].rx = "detach"]
    /\ UNCHANGED <<NotReceiver, store, control, wire>>

RxDetaches(r) ==
    /\ ReceiverAt(r, "detach")
    /\ DisconnectGame
    /\ runs' = [runs EXCEPT ![r].rx = "stop"]
    /\ UNCHANGED <<NotReceiver, store>>

RxStops(r) ==
    /\ ReceiverAt(r, "stop")
    /\ StoreStop
    /\ runs' = [runs EXCEPT ![r].rx = "done"]
    /\ UNCHANGED <<NotReceiver, control, wire>>

ReceiverStep(r) ==
    \/ RxLooks(r) \/ RxAccepts(r) \/ RxFindsNothing(r) \/ RxReadsGeneration(r)
    \/ RxConnects(r) \/ RxReadsHead(r) \/ RxReadsBody(r) \/ RxReadsEnd(r)
    \/ RxGraceEnds(r) \/ RxFails(r) \/ RxDetaches(r) \/ RxStops(r)

----------------------------------------------------------------------------
(* The Ctrl-C handler, the HTTP server and the input watchdog.             *)

(* `interrupted' is stored before `cancelled'.  A terminal sends SIGINT to *)
(* the game too; `kill' sends it to the session alone.                     *)
CtrlC ==
    /\ ctrlc = "idle" /\ pc # "done"
    /\ interrupted' = TRUE /\ ctrlc' = "half"
    /\ \/ UNCHANGED <<runs, wire>>
       \/ \E r \in Runs : Alive(r) /\ \E run \in Signalled(r) : Delivered(r, run)
    /\ UNCHANGED <<mainVars, cancelled, http, serverFatal, serverFailed, watchdog,
                   store, control>>

CtrlCCancels ==
    /\ ctrlc = "half"
    /\ cancelled' = TRUE /\ ctrlc' = "done"
    /\ UNCHANGED <<mainVars, runs, interrupted, http, serverFatal, serverFailed,
                   watchdog, store, control, wire>>

\* accept fails: the error is sent first, the session cancelled after it.
HttpFails ==
    /\ HostErrors
    /\ http = "run"
    /\ http' = "failing" /\ serverFatal' = TRUE /\ serverFailed' = TRUE
    /\ UNCHANGED <<mainVars, runs, flagVars, ctrlc, watchdog, store, control, wire>>

HttpCancels ==
    /\ http = "failing"
    /\ cancelled' = TRUE /\ http' = "done"
    /\ UNCHANGED <<mainVars, runs, interrupted, ctrlc, serverFatal, serverFailed,
                   watchdog, store, control, wire>>

HttpStops ==
    /\ http = "run" /\ cancelled
    /\ http' = "done"
    /\ UNCHANGED <<mainVars, runs, flagVars, ctrlc, serverFatal, serverFailed,
                   watchdog, store, control, wire>>

(* POST /input: the threads that handle requests are nobody's to join, so  *)
(* they may write until the command returns.                               *)
Post ==
    /\ pc # "done"
    /\ \E c \in Clients, k \in Keys, g \in 1..store.generation :
         Apply([client |-> c, kind |-> "down", key |-> k, gen |-> g], PeerOpen)
    /\ UNCHANGED <<mainVars, runs, flagVars, threadVars, store>>

WatchdogEnds ==
    /\ watchdog = "run" /\ cancelled
    /\ ReleaseAndDisconnect(PeerOpen)
    /\ watchdog' = "done"
    /\ UNCHANGED <<mainVars, runs, flagVars, ctrlc, http, serverFatal, serverFailed, store>>

ThreadStep ==
    \/ CtrlC \/ CtrlCCancels \/ HttpFails \/ HttpCancels \/ HttpStops
    \/ Post \/ WatchdogEnds

----------------------------------------------------------------------------
(* The main thread.  Its program counter names what it does next.          *)

NotMain == <<flagVars, ctrlc, http, serverFailed, watchdog>>
Shared == <<store, control, wire>>

At(here) == pc = here

\* Nothing but the program counter changes.
Jump(here, next) ==
    /\ At(here) /\ Goto(next)
    /\ UNCHANGED <<back, result, rebuild, settling, game, stopping,
                   runs, serverFatal, NotMain, Shared>>

CallStop(then) == pc' = "stop" /\ back' = then

(* check_server: a server error is taken out of the channel and returned.  *)
CheckServer(here, next, failed) ==
    /\ At(here)
    /\ IF serverFatal
       THEN /\ serverFatal' = FALSE
            /\ result' = "err"
            /\ IF failed = "stop" THEN CallStop("final") ELSE Goto(failed) /\ UNCHANGED back
       ELSE Goto(next) /\ UNCHANGED <<back, result, serverFatal>>
    /\ UNCHANGED <<rebuild, settling, game, stopping, runs, NotMain, Shared>>

\* Deviation: the receiver is started before begin_run.
LaunchSpawnsReceiver ==
    /\ At("launch")
    /\ runs' = [runs EXCEPT ![store.generation + 1].proc = "boot",
                            ![store.generation + 1].rx = "look"]
    /\ Goto("begin")
    /\ UNCHANGED <<back, result, rebuild, settling, game, stopping, serverFatal,
                   NotMain, Shared>>

(* Session::launch.  The child runs before begin_run and before its        *)
(* receiver exists; its connection waits in the listener's backlog.        *)
LaunchSpawns ==
    /\ At("launch")
    /\ runs' = [runs EXCEPT ![store.generation + 1].proc = "boot"]
    /\ Goto("begin")
    /\ UNCHANGED <<back, result, rebuild, settling, game, stopping, serverFatal,
                   NotMain, Shared>>

LaunchFails ==
    /\ HostErrors
    /\ At("launch")
    /\ result' = "err"
    /\ IF Watch THEN Goto("drop") /\ UNCHANGED back ELSE CallStop("final")
    /\ UNCHANGED <<rebuild, settling, game, stopping, runs, serverFatal, NotMain, Shared>>

LaunchBegins ==
    /\ At("begin")
    /\ StoreBeginRun
    /\ game' = store.generation + 1
    /\ runs' = [runs EXCEPT ![game'].rx = "look"]
    /\ Goto(IF Watch THEN "watchpoll" ELSE "check")
    /\ UNCHANGED <<back, result, rebuild, settling, stopping, serverFatal, NotMain,
                   control, wire>>

Launch == LaunchSpawns \/ LaunchFails \/ LaunchBegins

----------------------------------------------------------------------------
(* Session::stop_game, called with `back' telling what its caller does     *)
(* with the outcome.                                                       *)

\* What the caller does once stop_game has returned, as an error or not.
StopReturns(then, failed) ==
    CASE then = "finished" ->
           /\ result' = IF failed \/ runs[stopping].status = "bad" THEN "err" ELSE "ok"
           /\ Goto("verdict")
      [] then = "final" ->
           IF failed THEN result' = "err" /\ Goto("drop")
                     ELSE UNCHANGED result /\ Goto("verdict")
      [] then = "finalwatch" ->
           /\ result' = IF failed THEN "err" ELSE "ok"
           /\ Goto("drop")
      [] OTHER -> Goto(then) /\ UNCHANGED result

StopWithoutGame ==
    /\ At("stop") /\ game = 0
    /\ StopReturns(back, FALSE)
    /\ UNCHANGED <<back, rebuild, settling, game, stopping, runs, serverFatal,
                   NotMain, Shared>>

\* The game leaves the session, and input is detached before it is signalled.
StopTakes ==
    /\ At("stop") /\ game # 0
    /\ stopping' = game /\ game' = 0
    /\ DisconnectGame
    /\ Goto("signal")
    /\ UNCHANGED <<back, result, rebuild, settling, runs, serverFatal, NotMain, store>>

\* interrupt_child, unless try_wait finds that the game has exited already.
StopSignals ==
    /\ At("signal") /\ Alive(stopping)
    /\ \E run \in Signalled(stopping) : Delivered(stopping, run)
    /\ Goto("wait")
    /\ UNCHANGED <<back, result, rebuild, settling, game, stopping, serverFatal,
                   NotMain, store, control>>

\* try_wait reports the exit, and the receiver is told.
StopReaps ==
    /\ At("signal") \/ At("wait")
    /\ runs[stopping].proc = "exited"
    /\ runs' = [runs EXCEPT ![stopping].reaped = TRUE]
    /\ Goto("join")
    /\ UNCHANGED <<back, result, rebuild, settling, game, stopping, serverFatal,
                   NotMain, Shared>>

\* GameRun's drop: the process is killed and the receiver is told.
DropsGame(r) ==
    /\ IF Alive(r)
       THEN /\ \E left \in Left(r) :
                 runs' = [runs EXCEPT ![r] = [Exited(r, "bad", left) EXCEPT !.reaped = TRUE]]
            /\ WireAfterClose(r)
       ELSE /\ runs' = [runs EXCEPT ![r].reaped = TRUE]
            /\ UNCHANGED wire

\* Deviation: there is no deadline.
StopWaitsOn ==
    /\ At("wait") /\ Alive(stopping)
    /\ UNCHANGED sessionVars

\* The two-second deadline: stop_game returns an error and drops the game.
StopGivesUp ==
    /\ At("wait") /\ Alive(stopping)
    /\ DropsGame(stopping)
    /\ Goto("killed")
    /\ UNCHANGED <<back, result, rebuild, settling, game, stopping, serverFatal,
                   NotMain, store, control>>

\* Deviation: the receiver is left to finish by itself.
StopDoesNotJoin ==
    /\ At("join") \/ At("killed")
    /\ StopReturns(back, At("killed") \/ runs[stopping].fatal)
    /\ runs' = [runs EXCEPT ![stopping].fatal = FALSE]
    /\ stopping' = 0
    /\ UNCHANGED <<back, rebuild, settling, game, serverFatal, NotMain, Shared>>

\* The receiver is joined, and only then is its error looked for.
StopJoins ==
    /\ At("join") \/ At("killed")
    /\ runs[stopping].rx = "done"
    /\ StopReturns(back, At("killed") \/ runs[stopping].fatal)
    /\ runs' = [runs EXCEPT ![stopping].fatal = FALSE]
    /\ stopping' = 0
    /\ UNCHANGED <<back, rebuild, settling, game, serverFatal, NotMain, Shared>>

StopGame ==
    \/ StopWithoutGame \/ StopTakes \/ StopSignals \/ StopReaps
    \/ StopGivesUp \/ StopJoins

----------------------------------------------------------------------------
(* dev::run: build once, launch, poll until the game or the session ends.  *)

Build ==
    \/ Jump("build", "prelaunch")
    \/ /\ At("build")
       /\ result' = "err" /\ CallStop("final")
       /\ UNCHANGED <<rebuild, settling, game, stopping, runs, serverFatal, NotMain, Shared>>

\* `return Ok(())' and `break' alike: the closure's result is Ok.
StopsIfCancelled(here, next) ==
    \/ cancelled = FALSE /\ Jump(here, next)
    \/ /\ At(here) /\ cancelled
       /\ result' = "ok" /\ CallStop("final")
       /\ UNCHANGED <<rebuild, settling, game, stopping, runs, serverFatal, NotMain, Shared>>

\* poll_game: the receiver's error comes before the exit status.
PollGame ==
    /\ At("poll")
    /\ CASE runs[game].fatal ->
              /\ runs' = [runs EXCEPT ![game].fatal = FALSE]
              /\ result' = "err" /\ CallStop("final")
         [] ~runs[game].fatal /\ runs[game].proc = "exited" ->
              CallStop("finished") /\ UNCHANGED <<runs, result>>
         [] OTHER -> Goto("check") /\ UNCHANGED <<runs, result, back>>
    /\ UNCHANGED <<rebuild, settling, game, stopping, serverFatal, NotMain, Shared>>

\* After the last stop_game an interrupt outweighs the closure's result.
Verdict ==
    /\ At("verdict")
    /\ result' = IF interrupted THEN "ok" ELSE result
    /\ Goto("drop")
    /\ UNCHANGED <<back, rebuild, settling, game, stopping, runs, serverFatal,
                   NotMain, Shared>>

DevRun ==
    \/ Build
    \/ StopsIfCancelled("prelaunch", "launch")
    \/ CheckServer("check", "cancel", "stop")
    \/ StopsIfCancelled("cancel", "poll")
    \/ PollGame
    \/ Verdict

----------------------------------------------------------------------------
(* watch::run: stop, build and launch again after every stable edit.  What *)
(* the files hold is left open: any comparison of them may find an edit.   *)

\* Deviation: the server's error is not looked for after the loop.
LoopTopSkipsCheck ==
    \/ cancelled /\ Jump("top", "laststop")
    \/ ~cancelled /\ Jump("top", "loopcheck")

LoopTop ==
    \/ cancelled /\ Jump("top", "endcheck")
    \/ ~cancelled /\ Jump("top", "loopcheck")

\* stop_for_edit precedes every build.
LoopRebuilds ==
    /\ At("rebuild")
    /\ IF rebuild THEN CallStop("building") ELSE Goto("watchpoll") /\ UNCHANGED back
    /\ UNCHANGED <<result, rebuild, settling, game, stopping, runs, serverFatal,
                   NotMain, Shared>>

EnterState(here, status, next) ==
    /\ At(here)
    /\ SetState(status)
    /\ Goto(next)
    /\ UNCHANGED <<back, result, game, stopping, runs, serverFatal, NotMain, control, wire>>

Building ==
    /\ EnterState("building", "Building", "analyze")
    /\ rebuild' = FALSE /\ settling' = FALSE

\* An edit during analysis or native compilation: `rebuild = true; continue'.
EditedMeanwhile ==
    /\ At("analyze") \/ At("compiled")
    /\ rebuild' = TRUE
    /\ Goto("top")
    /\ UNCHANGED <<back, result, settling, game, stopping, runs, serverFatal,
                   NotMain, Shared>>

AnalysisFails ==
    /\ EnterState("analyze", "BuildFailed", "watchpoll")
    /\ rebuild' \in BOOLEAN
    /\ UNCHANGED settling

BuildFails ==
    /\ EnterState("built", "BuildFailed", "watchpoll")
    /\ UNCHANGED <<rebuild, settling>>

AfterBuild ==
    \/ cancelled /\ Jump("uncancelled", "endcheck")
    \/ ~cancelled /\ Jump("uncancelled", "built")

BuildSucceeds == store.generation < MaxRuns /\ Jump("built", "launch")

\* Deviation: only the receiver's error is looked for.
WatchPollErrorsOnly ==
    /\ At("watchpoll")
    /\ IF game # 0 /\ runs[game].fatal
       THEN /\ CallStop("ended")
            /\ runs' = [runs EXCEPT ![game].fatal = FALSE]
       ELSE Goto("scan") /\ UNCHANGED <<runs, back>>
    /\ UNCHANGED <<result, rebuild, settling, game, stopping, serverFatal, NotMain, Shared>>

\* A game that ended, or whose receiver failed, is stopped; the watcher goes on.
WatchPoll ==
    /\ At("watchpoll")
    /\ IF game # 0 /\ (runs[game].fatal \/ runs[game].proc = "exited")
       THEN /\ CallStop("ended")
            /\ runs' = [runs EXCEPT ![game].fatal = FALSE]
       ELSE Goto("scan") /\ UNCHANGED <<runs, back>>
    /\ UNCHANGED <<result, rebuild, settling, game, stopping, serverFatal, NotMain, Shared>>

\* Deviation: the viewer is not told that the watcher waits.
GameEndedSilently == Jump("ended", "scan")

GameEnded ==
    /\ EnterState("ended", "Watching", "scan")
    /\ UNCHANGED <<rebuild, settling>>

\* The snapshot differs: stop at once, build when the files have been quiet.
ScanFindsEdit ==
    /\ At("scan")
    /\ CallStop("edited")
    /\ UNCHANGED <<result, rebuild, settling, game, stopping, runs, serverFatal,
                   NotMain, Shared>>

Edited ==
    /\ EnterState("edited", "Building", "sleep")
    /\ settling' = TRUE
    /\ UNCHANGED rebuild

Sleep ==
    /\ At("sleep")
    /\ rebuild' \in IF settling THEN {rebuild, TRUE} ELSE {rebuild}
    /\ Goto("top")
    /\ UNCHANGED <<back, result, settling, game, stopping, runs, serverFatal,
                   NotMain, Shared>>

\* After the loop: the server's error once more, then the last stop_game.
WatchEnds ==
    /\ At("laststop")
    /\ CallStop("finalwatch")
    /\ UNCHANGED <<result, rebuild, settling, game, stopping, runs, serverFatal,
                   NotMain, Shared>>

WatchRun ==
    \/ LoopTop \/ CheckServer("loopcheck", "rebuild", "drop") \/ LoopRebuilds
    \/ Building \/ EditedMeanwhile \/ AnalysisFails
    \/ Jump("analyze", "compiled") \/ Jump("compiled", "uncancelled")
    \/ AfterBuild \/ BuildFails \/ BuildSucceeds
    \/ WatchPoll \/ GameEnded \/ ScanFindsEdit \/ Jump("scan", "sleep")
    \/ Edited \/ Sleep
    \/ CheckServer("endcheck", "laststop", "drop") \/ WatchEnds

----------------------------------------------------------------------------
(* Session's drop: the game if there still is one, then every thread.      *)

\* Deviation: the game is forgotten, not dropped.
DropForgetsGame ==
    /\ At("drop")
    /\ Goto("cancelall") /\ game' = 0
    /\ UNCHANGED <<back, result, rebuild, settling, stopping, runs, serverFatal,
                   NotMain, Shared>>

DropTakes ==
    /\ At("drop")
    /\ IF game = 0
       THEN Goto("cancelall") /\ UNCHANGED <<game, stopping, runs, wire>>
       ELSE /\ game' = 0 /\ stopping' = game
            /\ DropsGame(game)
            /\ Goto("dropjoin")
    /\ UNCHANGED <<back, result, rebuild, settling, serverFatal, NotMain, store, control>>

DropJoins ==
    /\ At("dropjoin")
    /\ runs[stopping].rx = "done"
    /\ stopping' = 0
    /\ Goto("cancelall")
    /\ UNCHANGED <<back, result, rebuild, settling, game, runs, serverFatal,
                   NotMain, Shared>>

DropCancels ==
    /\ At("cancelall")
    /\ cancelled' = TRUE
    /\ Goto("stopframes")
    /\ UNCHANGED <<back, result, rebuild, settling, game, stopping, runs, interrupted,
                   threadVars, Shared>>

DropStops ==
    /\ At("stopframes")
    /\ StoreStop
    /\ Goto("jointhreads")
    /\ UNCHANGED <<back, result, rebuild, settling, game, stopping, runs, serverFatal,
                   NotMain, control, wire>>

DropEnds == http = "done" /\ watchdog = "done" /\ Jump("jointhreads", "done")

DropSession == DropTakes \/ DropJoins \/ DropCancels \/ DropStops \/ DropEnds

MainStep == DevRun \/ WatchRun \/ Launch \/ StopGame \/ DropSession

\* A command that has returned stays that way.
Terminated == pc = "done" /\ UNCHANGED sessionVars

SessionNext ==
    \/ MainStep \/ ThreadStep \/ Terminated
    \/ \E r \in Runs : GameStep(r) \/ ReceiverStep(r) \/ RxSetupFails(r) \/ StrangerStep(r)

(* The threads the session owns are scheduled, its timers run out and the  *)
(* write timeout bounds the watchdog's last write.  Nothing is assumed of  *)
(* the games: one that never takes another step is what the two-second     *)
(* deadline is for.                                                        *)
SessionFairness ==
    /\ WF_sessionVars(MainStep)
    /\ WF_sessionVars(CtrlCCancels) /\ WF_sessionVars(HttpCancels)
    /\ WF_sessionVars(HttpStops) /\ WF_sessionVars(WatchdogEnds)
    /\ \A r \in Runs : WF_sessionVars(ReceiverStep(r))

SessionSpec == SessionInit /\ [][SessionNext]_sessionVars
FairSessionSpec == SessionSpec /\ SessionFairness

----------------------------------------------------------------------------
(* Properties. *)

Stops == {"stop", "signal", "wait", "join", "killed"}
Drops == {"drop", "dropjoin", "cancelall", "stopframes", "jointhreads", "done"}

Locations ==
    Stops \cup Drops \cup
    {"build", "prelaunch", "launch", "begin", "check", "cancel", "poll", "verdict",
     "top", "loopcheck", "rebuild", "building", "analyze", "compiled", "uncancelled",
     "built", "watchpoll", "ended", "scan", "edited", "sleep", "endcheck", "laststop"}

RunStates ==
    [proc : ProcStates, status : {"none", "ok", "bad"}, sigint : BOOLEAN, drawn : Nat,
     backlog : Seq({"game", "stranger"}), peer : {"none", "game", "stranger"},
     stream : Seq([part : {"head", "body"}, sequence : Nat]),
     closed : {"open", "fin", "reset"}, talks : BOOLEAN,
     rx : ReceiverStates, sawReaped : BOOLEAN,
     gen : Nat, head : Nat, last : Nat, reaped : BOOLEAN, fatal : BOOLEAN]

(* Every variable holds a value of its kind. *)
SessionTypeOK ==
    /\ StoreTypeOK /\ ControlTypeOK
    /\ pc \in Locations /\ result \in {"none", "ok", "err"}
    /\ back \in {"none", "final", "finished", "finalwatch", "building", "ended", "edited"}
    /\ {rebuild, settling, cancelled, interrupted, serverFatal, serverFailed} \subseteq BOOLEAN
    /\ game \in 0..MaxRuns /\ stopping \in 0..MaxRuns
    /\ runs \in [Runs -> RunStates]
    /\ ctrlc \in {"idle", "half", "done"} /\ http \in {"run", "failing", "done"}
    /\ watchdog \in {"run", "done"}

Active(r) == Alive(r) \/ runs[r].rx \notin {"none", "done"}

(* A game and its receiver are over before the next game exists, whichever *)
(* of them ended first and however the stop went (session.rs:160, "Join    *)
(* the old receiver before a new generation begins").  While a game is     *)
(* attached for input it is the run the session is in: the generation read *)
(* before connect_game takes the lock is never stale, and a receiver that  *)
(* ends late detaches no successor.                                        *)
RunsDoNotOverlap ==
    /\ \A r, s \in Runs : Active(r) /\ Active(s) => r = s
    /\ control.game # NoGame =>
          /\ control.generation = control.game /\ control.game = store.generation
          /\ runs[control.game].rx \notin {"none", "stop", "done"}

(* When the command has returned, no process, receiver or server thread is *)
(* left, input is detached and viewers are told that the game stopped, on  *)
(* every path, the early errors included (Session's drop).                 *)
NothingLeftBehind ==
    pc = "done" =>
        /\ \A r \in Runs : ~Active(r)
        /\ http = "done" /\ watchdog = "done"
        /\ control.game = NoGame /\ store.state = "Stopped"

(* dev::run succeeds without an interrupt only if its game returned 0, and *)
(* then every frame of a connection that was closed in order has been      *)
(* published, also those of a game that had connected, drawn and exited    *)
(* before the receiver first called accept.                                *)
SuccessIsEarned ==
    pc = "done" /\ result = "ok" /\ ~interrupted /\ ~serverFailed =>
        \E r \in Runs :
            /\ runs[r].status = "ok"
            /\ runs[r].closed = "fin" /\ runs[r].peer # "stranger"
                  => runs[r].last = runs[r].drawn

(* The watcher never sleeps without a game while viewers are told that one *)
(* runs or merely stopped: the receiver's last `stop' never overwrites the *)
(* state the watcher set after it.                                         *)
IdleWatcherSaysWhy ==
    pc = "sleep" /\ game = 0 => store.state \in {"Building", "BuildFailed", "Watching"}

(* The watcher reports a failure of the HTTP server that ended it, even if *)
(* it came between its two looks at the channel and the flag.              *)
ServerFailureReported ==
    pc = "done" /\ serverFailed /\ ~interrupted => result = "err"

(* What viewers are shown is a viewer feed: pictures of the current run    *)
(* only, in numbers that never repeat, none after the run was replaced.    *)
Feed == INSTANCE ViewerFeed WITH
    generation <- store.generation, latest <- store.latest,
    state <- store.state, high <- store.sequence

SessionImplementsViewerFeed == Feed!FeedSpec

(* No foreign connection that a receiver serves keeps talking for ever.    *)
ForeignersFallSilent ==
    \A r \in Runs : <>[]~(runs[r].talks /\ (Foreign(r, "head") \/ Foreign(r, "body")))

(* Ctrl-C, or a failure of the HTTP server, ends the command, whatever the *)
(* game and the build do, and whatever other connections to the frame port *)
(* send, as long as they do not send for ever.                             *)
CancelEndsSession == ForeignersFallSilent => (interrupted \/ serverFailed ~> pc = "done")

(* dev::run ends for every reason it has to end: Ctrl-C, a failure of the  *)
(* HTTP server, and the end of its game (docs/development-viewer.md:49,    *)
(* "Normal game completion or a game crash stops the server"), although    *)
(* another connection may hold the frame port as long as it does not send  *)
(* for ever.                                                               *)
RunEnds ==
    ForeignersFallSilent =>
        (interrupted \/ serverFailed \/ (\E r \in Runs : runs[r].status # "none") ~> pc = "done")

(* In watch mode a game that ends, by itself or for an edit, is eventually *)
(* replaced or reported: no viewer is left waiting for its frames, unless  *)
(* a foreign connection goes on sending.                                   *)
EndedGameIsNoticed ==
    ForeignersFallSilent =>
        \A r \in Runs :
            (runs[r].status # "none" /\ store.generation = r)
                ~> (store.state # "Running" \/ store.generation > r)

(* What tests/dev_watch.rs:129-141 asserts of an interrupted session with  *)
(* input in flight: if its games ended with status 0 it succeeds.          *)
InterruptSucceeds ==
    pc = "done" /\ interrupted /\ (\A r \in Runs : runs[r].status # "bad") => result = "ok"

----------------------------------------------------------------------------
(* Strengthening.  RunsDoNotOverlap and its like only speak of some        *)
(* threads at some moments; the parts below say, for every position of     *)
(* every thread, what it may rely on.                                      *)

\* The main thread holds a game of its own, or none anywhere.
Taken == {"signal", "wait", "join", "killed", "dropjoin"}

Gameless ==
    {"build", "prelaunch", "launch", "begin", "verdict", "building", "analyze",
     "compiled", "uncancelled", "built", "ended", "edited",
     "cancelall", "stopframes", "jointhreads", "done"}

\* Positions of dev::run alone, and of watch::run alone.
OneShot == {"build", "prelaunch", "check", "cancel", "poll", "verdict"}

Watching ==
    {"top", "loopcheck", "rebuild", "building", "analyze", "compiled", "uncancelled",
     "built", "watchpoll", "ended", "scan", "edited", "sleep", "endcheck", "laststop"}

(* The session owns at most its latest run, and where it is told which     *)
(* callers of stop_game there are.                                         *)
MainShape ==
    /\ store.generation <= MaxRuns
    /\ game \in {0, store.generation} /\ stopping \in {0, store.generation}
    /\ pc \in Taken <=> stopping # 0
    /\ pc \in Taken \cup Gameless => game = 0
    /\ pc \in {"check", "cancel", "poll"} => game # 0
    /\ pc = "stop" /\ back = "finished" => game # 0
    /\ pc \in {"build", "prelaunch"} => store.generation = 0
    /\ pc \in {"launch", "begin"} => store.generation < MaxRuns
    /\ pc \in Stops => back \in IF Watch THEN {"building", "ended", "edited", "finalwatch"}
                                ELSE {"final", "finished"}
    /\ pc \notin IF Watch THEN OneShot ELSE Watching

Receiving(r) == runs[r].rx \notin {"none", "done"}

(* A process or a receiver that is not over belongs to the run the main    *)
(* thread owns, except for the child that was spawned and not yet begun.   *)
RunOwned(r) ==
    /\ Receiving(r) => r = store.generation /\ r \in {game, stopping}
    /\ Alive(r) => \/ r = store.generation /\ r \in {game, stopping}
                   \/ r = store.generation + 1 /\ pc = "begin"
    /\ Alive(r) => pc \notin {"join", "killed", "dropjoin"}
    /\ r > store.generation => runs[r].rx = "none" /\ runs[r].last = 0 /\ ~runs[r].reaped
    /\ r <= store.generation => runs[r].proc # "none"
    /\ r > store.generation + 1 => runs[r].proc = "none"
    /\ r = store.generation + 1 => (runs[r].proc = "none" <=> pc # "begin")
    /\ runs[r].rx = "connect" => runs[r].gen = store.generation

\* Input goes to the run the session is in, whose receiver is past connect_game.
InputFollowsRun ==
    control.game # NoGame =>
        /\ control.game = store.generation /\ control.generation = store.generation
        /\ store.generation \in Runs
        /\ runs[control.game].rx \in {"head", "body", "fail", "detach"}

Told == {"Building", "BuildFailed", "Watching"}

\* A receiver publishes into a running feed, and the numbers go on from its last frame.
FramesFlow ==
    \A r \in Runs : Receiving(r) =>
        store.state = "Running" /\ store.sequence = store.deliveryOffset + runs[r].last

\* What viewers are told suits what the main thread does.
ViewersTold ==
    /\ pc \in {"analyze", "compiled", "uncancelled", "built", "launch", "begin"} =>
          store.state = "Building" \/ store.generation = 0
    /\ game = 0 /\ (\/ pc \in {"watchpoll", "scan", "sleep"}
                    \/ pc \in {"top", "loopcheck", "rebuild"} /\ ~rebuild)
          => store.state \in Told
    /\ pc \in {"jointhreads", "done"} => store.state = "Stopped"

(* `cancelled' has a reason until the session itself is dropped, the       *)
(* server's error is not lost, and the watcher ends for a reason.          *)
CancelHasReason ==
    /\ ctrlc # "idle" => interrupted
    /\ http = "failing" => serverFailed
    /\ cancelled => \/ interrupted \/ serverFailed
                    \/ pc \in {"stopframes", "jointhreads", "done"}
    /\ pc = "done" => http = "done" /\ watchdog = "done"
    /\ Watch /\ serverFailed => serverFatal \/ pc \in Drops
    /\ pc \in {"endcheck", "laststop"} => cancelled
    /\ pc = "laststop" \/ (pc \in Stops /\ back = "finalwatch") => interrupted
    /\ Watch /\ pc \in Drops => interrupted \/ result = "err"
    /\ Watch /\ pc \notin Drops => result = "none"
    /\ ~Watch /\ result # "none" =>
          pc \in Drops \cup {"verdict"} \/ (pc \in Stops /\ back = "final")

\* What a process has left of its socket, by how far it got.
ProcessShape(run) ==
    /\ run.status # "none" <=> run.proc = "exited"
    /\ run.proc \in {"none", "boot", "ready", "frame", "draw", "half"}
          => run.closed = "open"
    /\ run.proc = "closing" => run.closed # "open"
    /\ run.proc = "none" => run.drawn = 0 /\ run.stream = << >>
    /\ (\/ run.proc \in {"frame", "draw", "half", "closing"}
        \/ run.status = "ok" \/ run.drawn > 0)
          => run.backlog # << >>
    /\ run.sawReaped => run.reaped
    /\ run.reaped => run.proc = "exited"
    /\ run.rx \in {"none", "look", "accept", "generation", "connect"} =>
          run.last = 0
    /\ run.rx \in {"none", "look", "accept"} => run.peer = "none"

\* Half frames the receiver has read, and the game has sent.
Received(run) == 2 * run.last + (IF run.rx = "body" THEN 1 ELSE 0)
Sent(run) == 2 * run.drawn - (IF run.proc = "half" THEN 1 ELSE 0)

(* While the receiver reads, what it has read and what the socket holds    *)
(* are the game's half frames in order; none is missing unless the         *)
(* connection was reset or the game died.                                  *)
StreamAccounted(run) ==
    run.rx \notin {"fail", "detach", "stop", "done"} /\ run.peer # "stranger" =>
        /\ run.rx = "body" => run.head = run.last + 1
        /\ \A i \in 1..Len(run.stream) :
              2 * run.stream[i].sequence \in {Received(run) + i, Received(run) + i + 1}
        /\ run.status # "bad" /\ run.closed # "reset" =>
              Received(run) + Len(run.stream) = Sent(run)

\* The receiver met an error that dev::run was told of, or will be.
Faulty(r) == runs[r].fatal \/ result = "err" \/ interrupted \/ Watch

Complete(run) ==
    /\ run.proc \in {"closing", "exited"}
    /\ run.status # "bad" /\ run.closed = "fin" => run.last = run.drawn

\* A receiver that has ended has failed, served a stranger, or read everything.
ReceiverFinished(r) ==
    runs[r].rx \in {"detach", "stop", "done"} =>
        Faulty(r) \/ runs[r].peer = "stranger" \/ Complete(runs[r])

Earned(run) ==
    /\ run.status = "ok"
    /\ run.closed = "fin" /\ run.peer # "stranger" => run.last = run.drawn

\* A success that is on its way to be returned.
SuccessHeld ==
    result = "ok" /\ ~interrupted /\ ~serverFailed =>
        /\ pc \in Drops \cup {"verdict"} /\ game = 0 /\ stopping = 0
        /\ \E r \in Runs : Earned(runs[r])

SessionInv ==
    /\ SessionTypeOK /\ MainShape /\ InputFollowsRun /\ FramesFlow /\ ViewersTold
    /\ CancelHasReason /\ SuccessHeld
    /\ \A r \in Runs : /\ RunOwned(r) /\ ProcessShape(runs[r])
                       /\ StreamAccounted(runs[r]) /\ ReceiverFinished(r)

=============================================================================
