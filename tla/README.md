# A TLA+ model of Speck

Speck is a small language for games: a compiler (`src/*.rs`), a C runtime that
is linked into every game (`runtime/crumb`), and a development command,
`speck dev [--watch]`, that runs a game behind a browser viewer and restarts it
when its sources are saved (`src/dev`). The project has three parts:

* *the development command*, where threads, processes, sockets and browser pages
  meet, and where files change while they are read and compiled;
* *the runtime services* a game calls: saves that must survive a crash, audio
  rings shared with a callback thread, drawing, frame pacing;
* *the compiler*, which is sequential: its algorithms are checked against
  reference definitions over families of small programs, from tokens to a run of
  the emitted code.

Paths below are relative to the repository.

## Inventory

| Part | State it keeps | Operations | Talks to | What makes it correct |
|---|---|---|---|---|
| Frame store (`server.rs` 19-150) | latest frame, viewer state, generation, delivery numbers; one mutex and condvar | `publish`, `begin_run`, `set_state`, `stop`, `wait_after` | receiver and main thread write, HTTP threads wait | pictures of the current run only, numbers that never repeat |
| Input controller (`server.rs` 152-293) | attached game socket and its generation, owner of the lease, age of the lease; one mutex | `connect_game`, `disconnect_game`, `apply`, `expire_lease`, `release_and_disconnect` | HTTP threads, watchdog, receiver, main thread | one controller at a time, no key left held, no input for another run |
| Frame receiver (`server.rs` 385-495), one per run | its socket, last frame number, `reaped` | accept, attach, read frames, detach, stop | game, frame store, controller | every frame of an orderly end is published; always ends once the game has |
| HTTP server (`server.rs` 342-373, 497-781) | one detached thread per request | `/frame`, `/input`, `/` | frame store, controller | ends with the session, its failure is reported |
| Viewer page (`viewer.html`) | known generation and frame number, held keys, queue of requests | key, blur, visibility, pagehide, heartbeat, frame loop | HTTP server | shows and controls one and the same run |
| Session (`session.rs`) | `cancelled`, `interrupted`, the game it owns | `launch`, `poll_game`, `stop_game`, drops | all of the above | runs never overlap, nothing is left behind |
| `dev::run` (`mod.rs`), `watch::run` (`watch.rs`) | program counter; `rebuild`, `changed_at`, snapshot of files | build, launch, poll, stop | session | ends when asked to, reports what happened |
| Runtime loop, presenter, input (`crumb.c`, `present_stream.c`, `input.c`, `posix_main.c`) | keys and edges, socket, `stop_requested` | start, poll, update, present, shut down | receiver, controller | edges tell what happened in a frame |
| Watcher's files (`watch.rs` 18-144) | snapshots: a stamp per path | stamp, compare, analyse | file system, loader, toolchain | only what matches the files is launched; no edit is forgotten |
| Process supervision, build (`toolchain/process.rs`, `toolchain.rs`) | process group, two reader threads, stage of the build | start, poll, kill, join | clang, Ctrl-C flag | cancelling leaves no process and never hangs |
| Runtime storage (`storage.c`) | files of a directory | `save_i32`, `load_i32` | file system, other games | a slot is old or new, never torn |
| Runtime audio (`audio.c`, `audio_macos.c`) | two rings, epoch and flags; track and voices | play, seek, stop, pause, tone; callback; start, shutdown | audio callback thread | nothing lost, a stop is a stop, reset is alone |
| Runtime framebuffer (`framebuffer.c`) | pixels | `clear_rgb`, `fill_rect` | game | exactly the clipped rectangle |
| Frame pacing (`crumb.c` 25-89) | deadline | advance, sleep, resynchronise | clock, signals | one frame per frame time, no bursts |
| Lexer, parser (`lexer.rs`, `parser*.rs`) | tokens, scopes, nesting | parse | loader | inverts the grammar, up to a limit |
| Module loader (`modules.rs`, `modules/resolve.rs`) | modules, active path, sources | visit, resolve, flatten | parser, watcher | accepts acyclic, shallow imports; names keep their meaning |
| Semantic analysis (`sema.rs`, `sema/*`) | types, scopes, task stacks, failures | check, evaluate constants, resolve lengths, find recursive structs | loader, code generation | accepts exactly the language; constants have the value their code would have |
| Code generation (`codegen/llvm.rs`) | blocks, temporaries, slots | emit | checked program | the code does what the program means |

The hard behaviours: a request, an answer or an attach that arrives after the
run it belongs to was replaced; a lease that expires while its owner's request
is on the way; a socket that fills up or is reset; a game that hangs, crashes,
or is so short that it ends before anyone accepts its connection; a process
that is not the game connecting to the frame port; Ctrl-C, an edit, a server
failure and the game's own end racing each other; a file that changes between
being stamped, read and compiled; a compiler's child that holds a pipe; a crash
or a power loss between two system calls of a save; a callback that runs while
the game submits, stops or shuts down; the limits of integers, of nesting and of
import depth. `PROJECT.json` lists them as hazards, each at its line and with the properties that would catch it.

## Modules

| Module | Models |
|---|---|
| `CrumbInput` | `input.c`: the key state of a game, as operators |
| `InputControl` | the input controller; one action per method, because each holds the mutex throughout |
| `KeyLease` | abstract: what browser input promises a game |
| `DevInput` | pages + controller + socket + game loop, across restarts |
| `FrameStore` | the frame store; one action per method |
| `ViewerFeed` | abstract: what a session promises its viewers |
| `FrameDelivery` | frame store + the long polls and the frame loop of pages |
| `DevSession` | main thread (both commands), receivers, HTTP server, watchdog, Ctrl-C handler and game processes, over `FrameStore` and `InputControl` |
| `BuildProcess` | a native build: the chain of commands, and for each the supervisor, its process group and its reader threads |
| `Watch` | `watch::run` over files that change: stamps, analysis, build, launch; extends `BuildProcess` |
| `SaveSlots` | abstract: atomic save slots |
| `Storage` | `storage.c` over a file system that loses what was not synced |
| `Audio` | `audio.c` and `audio_macos.c`: game thread and callback, one action per atomic access |
| `Framebuffer`, `FramePacing` | `framebuffer.c`; the pacing of `crumb.c` |
| `Syntax` | `ast.rs`: trees, types, values; i32 at `Width` bits |
| `Constants` | `sema/constants/evaluation.rs`: one expression on a task stack that can be suspended |
| `Declarations` | the scheduler of constants, array lengths in types, the struct graph |
| `Sema` | `sema.rs`: what a program must satisfy |
| `Codegen` | `codegen/llvm.rs`: instructions as records |
| `Parser` | `parser.rs`, `parser/*.rs`: from tokens to trees |
| `Modules` | `modules.rs`, `modules/resolve.rs`: from files to one program |
| `Machine` | external: the LLVM instructions that are emitted, with undefined behaviour as a stuck state |
| `Compiler` | load, validate, emit and run as four steps; the first three are operator constants that `Compiler.cfg` gives as `LoadModules`, `Check` and `EmitProgram` |
| `Language`, `Grammar` | reference: what a program means and how it is written, from `docs/language.md` |
| `StructSearch` | `struct_graph.rs`, loop iteration by loop iteration: both passes of `recursive_members`, and the spread of invalid lengths |
| `ConstantSchedule` | `ConstantCache`'s scheduler in `sema/constants/dependencies.rs`, lookup by lookup |
| `ImportWalk` | `Loader::visit` in `modules.rs`, import by import |
| `Reachability`, `Searches` | what a node of a graph leads to, without a search; the three searches together |
| `CompilerProperties` | the properties of the compiler and their reference definitions |
| `SlotText` | the text of a saved integer, every text of up to five characters for TLC; extends `Storage` |
| `DevSession_proofs`, `DevInput_proofs`, `FrameDelivery_proofs`, `Watch_proofs`, `Storage_proofs`, `Searches_proofs` | TLAPS proofs about the module they are named for |
| `Runtime_proofs` | TLAPS proofs about `Audio`, `Framebuffer` and `FramePacing` |
| `MCDevInput`, `MCPages`, `MCDevSession`, `MCWatch`, `MCRuntime`, `MCCompiler` | instances for TLC; `MCPages` has the keys (`DevInput`) and the pictures (`FrameDelivery`) of a page side by side |

`InputControl` and `FrameStore` are shared: `DevInput` and `DevSession` extend
the first, `FrameDelivery` and `DevSession` the second. `DevInput` reduces the
session to the steps that touch input; `DevSession` has all steps of the session
and reduces the pages to "some page posts a keydown that names some generation".
`FrameDelivery` assumes an order of calls to the store; `DevSession` shows that
a session calls it in such an order, both by implementing `ViewerFeed`.
`Watch` and `DevSession` model the same loop: `DevSession` with everything a
session does and "some comparison finds an edit", `Watch` with the files, the
analysis and the build and a game that is one variable. The compiler's modules
are layers: `Syntax`, `Constants`, `Declarations`, `Sema`, then `Codegen` and
`Machine` on one side and `Parser` and `Modules` on the other. The compiler's
algorithms recurse over trees, so these modules use RECURSIVE operators and are
model-checked only.

Three of these algorithms are searches over graphs that the code writes out
with explicit stacks, or that recurse with a cache, and the reasons why they are
right are subtle. They are modelled twice. `Declarations` and `Modules` have
them as functions from a program to a result, which the whole compiler uses.
`StructSearch`, `ConstantSchedule` and `ImportWalk` have them as machines whose
steps are the iterations of the loops and whose variables are the vectors and
maps of the code; the program is abstracted to a graph, nothing is recursive,
and what they compute is proved for every graph.

Definitions whose comment begins with "Deviation" are not part of any
specification. Each is a plausible mistake in the operation that follows it;
substituting it for that operation must make TLC find a named property violated
(the `mutants` of `PROJECT.json`), which shows that the property depends on what
the code does.

### Correspondence

*DevInput.* `pages[c]` is one page: its `generation` (or none), `heldCodes`, and
the promise chain `inputQueue` as a sequence whose head is the request under
way. `beacons` are the pagehide requests, which bypass the queue. `control` is
`InputControlState`; the `Instant` of the last request is kept as younger
("fresh") or not younger ("expired") than the timeout, because nothing else is
asked of it. `wire` is the socket to the game: complete 8-byte records, at most
`Capacity` of them; a partly written record is never followed by anything, so it
never completes and is left out. `proc`, `input` and `before` are the game, with
`GameBeginsFrame` the start of a frame (edges forgotten), `GameReceives` one
record of `crumb_present_poll`, `GameUpdates` the rest of the frame. `source`
and the fields `by` and `gen` of a record are history.

*FrameDelivery.* A page is `idle`, has `asked`, has an answer on its way
(`answered`), or is `reading` the body of one whose headers it has seen. A poll
is answered as soon as `wait_after`'s condition ends, or by its timeout; an
answer may be lost before its headers or between them and its last pixel. The
page adopts the generation with the headers and draws with the last pixel
(`await response.arrayBuffer()` lies in between), so for that long it may still
say "Live" over the previous run's picture while its input is tagged with the
new generation. `LivePictureMatchesGeneration` allows this window and no other:
what is being read in it is a picture of the run the page believes in.

*DevSession.* `pc` is the main thread. `stop_game` is called from six places, so
`back` says what its caller does afterwards. `runs[r]` is run `r` with its
process (`proc`, `status`, `sigint`, frames `drawn`), its connection (`backlog`,
`peer`, `stream`, `closed`) and its receiver (`rx` and the receiver's locals).
A frame is sent and read in two halves. Steps between which no other thread can
observe a difference are merged (for example `try_wait` and the `kill` after it:
signalling a process that has exited meanwhile has no effect). A socket that is
closed with unread input is reset, and then any suffix of what the receiver has
not received may be missing: the kernel drops what it has not transmitted. The
contents of source files are left open; any comparison of snapshots may find an
edit. A build may fail or succeed. A connection to the frame port that is not the
game's may be silent, end, send what is no frame, or send frames with any numbers,
which are published as the run's; `talks` says that it sends something often
enough for no read to time out.

*Watch.* `disk` and `time` are the files as they are; every stamp and every read
of the analysis is a step, so that an edit can fall between any two. A stamp is
by contents or by metadata, as in `Stamp`; metadata tells versions apart by
`time`, which stands for the identity, size and timestamps the code compares.
The stamp of a file that is not there has no time: two of them are equal whatever
happened in between.
`changedAt` is "recent" until the quiet interval has passed. `program` is what
the running game was built from, `tried` (history) what the last concluded
attempt had read.

*BuildProcess.* `stage` is the command of the build, `command` the position in
`process::output`, `group` the live processes of its group: the tool, and a
helper that stands for all its descendants.

*Storage.* `proc[p]` is one game process and the call it is in, `dir` the
directory and `file` its files, both as a reader sees them; `crashDir` holds for
each name every entry a power loss may leave (until the directory is synced, the
entries are lost or kept one by one), `synced` how much of a file is certainly on
disk. A crash ends one process, a power loss all of them. `litter` (history)
names the temporary files that no process will remove. The text of a save is a
sequence of characters: a header token, sign, digits, newline; `Parse` follows
`crumb_storage_parse_i32` with its overflow test.

*Audio.* `game.pc` and `callback.pc` are the two threads between two atomic
accesses. Data accesses (a slot, the track) are steps of their own where the
other thread could interfere. Atomics are sequentially consistent in the model;
the code's acquire and release pairs order the same accesses for the rings.
`submitted` and `received` are history. `heard` is the epoch when the callback
began.

*The compiler.* A program is a record of sequences of declarations, a name a
sequence of one or two words. The parser's state is a record that every parsing
operator takes and returns, as are the loader, the evaluator (a stack of tasks
and a stack of values) and the emitter; `ok` or `failed` in it stands for a
diagnostic, of which nothing else is modelled. Emitted instructions are records;
`Machine` runs them and is `Stuck` where LLVM is undefined, which no property
allows. `f32` is a fixed-point toy with infinities and NaN: it is the operation
applied and the limits of the conversions that folding and code must agree on,
not rounding.

*StructSearch.* A struct is its position, `graph` is `dependencies`, and
`Containers` is `dependents`. `stack` holds the frames `(node, next_edge)`;
`finished` is read from its end in the second pass, as `into_iter().rev()` does.
Only which elements `pending` and `component` hold matters, so they are sets and
`pop` takes any: the proof covers every order. `wrong` are the structs whose own
fields have an invalid length.

*ConstantSchedule.* An initializer is the sequence of names it looks up, in its
type's lengths and in its expression, up to where it fails by itself if it is
`faulty`; `awaiting` is `pending` (and `active`, its names). Which length or
expression asks for a constant next is left open.

*ImportWalk.* A file is its canonical path. `visits` is the stack of calls of
`visit`, whose files are `active`; `opened` and `heights` are `identities` and
`modules`, a module without a height being the `None` it has while it is visited.
An import that is an error by itself (a repeated alias, an absolute path, another
extension, nothing there) is `refused`, a file that cannot be read or lexed
`broken`.

## Runs

| Run | Instance | Shows |
|---|---|---|
| `input_safety` | 2 pages (symmetric), 1 key, 2 records, 1 run, losses and write timeouts | the inductive invariant of the proofs, held keys and edges; implements `KeyLease` |
| `pages` | 1 page; for its keys 2 runs, for its pictures 3 runs of 2 frames; fairness | nothing crosses a restart, a page that is gone leaves no key down, no stuck key; pages show one run at a time, in order, and all that stays on offer; implements `ViewerFeed` |
| `dev_run` | `speck dev`, 2 frames, host failures, foreign connections, fairness | ends (unless a foreign connection sends for ever), and succeeds only if the game did |
| `watch_restarts` | `--watch`, 2 runs of 1 frame | runs never overlap, input follows the run, the viewer is told; implements `ViewerFeed` |
| `watch_failures` | `--watch`, 1 run, host failures, foreign connections, fairness | every early return leaves nothing behind, a server failure is reported; unless a foreign connection sends for ever, Ctrl-C ends it and the end of its game is noticed |
| `watch_builds` | 3 files (an entry file that imports a library or embeds a sound), 2 edits, every edit, removal and failure, fairness | a game matches the files as the stamps tell them, the last edit is always caught up with but for a sound that vanished, Ctrl-C ends everything |
| `runtime_services` | storage: 2 processes with one pid, 2 slots, 2 calls, 1 crash or power loss; audio: rings of 2 and 3 slots, 4 calls; 2x2 pixels, 3-bit integers; a second of 5 and a frame of 2 ticks | saves are atomic and accounted for, parsing is strict; rings, stops, plays and reset; exact drawing; paced frames |
| `compiler` | about 17 000 programs: expressions, statements, shapes, folded constants, constants and structs that need each other, import graphs, names; beside them graphs of up to 4 structs, 4 constants and 4 files | from tokens to a run of the code, against reference definitions; the searches find exactly what they should |
| `input_stop_boundary` | 1 page, 1 run | **violated**: see findings |
| `input_full_socket` | 1 page, 1 run, write timeouts, fairness | **violated**: see findings |
| `watch_interrupt` | `--watch`, 1 run of 1 frame | **violated**: see findings |
| `watch_missing_sound` | the instance of `watch_builds`, without fairness | **violated**: see findings |

*Bounds.* Two pages are what a handover needs, and a third would behave like
either; one key is enough because no operation relates two keys except
release-all. `Capacity` 2 lets a record follow another that is unread; a full
socket is reached. `MaxQueue` is 1: a page has one request under way, beside it
its beacon, and events that would wait behind it do not occur. Two runs are what
a restart needs; three (`LastRun`) for the pictures of `pages` let a page miss a
whole run. `pages` has one page, so a handover between live pages is a matter of
`input_safety`, not of `NoStuckKey`. `MaxFrames` 2 gives a frame with a predecessor, `MaxStream` (half
frames in the socket) lets the receiver fall behind and the game block. The
bounds `MaxRuns`, `MaxFrames`, `MaxQueue`, `MaxStream` stand in guards and name
themselves there. `CHECK_DEADLOCK FALSE` in the runs of `DevInput`: once every
page is gone and the last game has exited, nothing happens any more. The runs
`watch_builds`, `runtime_services` and `compiler` end too: with the watcher, with
the last call, with the program's run.

`MaxEdits` 2 lets a second edit fall into the handling of the first; three files
give a source, an import and a resource stamped by metadata, each of which may be
missing. Storage: two processes with the same pid collide on every temporary
name; `MaxAttempts` 2 lets a save find the first name taken and succeed, or both
taken and fail; six files are enough for every name and every file a crash can
leave. `Magnitude` 128 makes the limits of integers three digits long, and all
texts of up to five characters are parsed. Audio: a ring of 2 slots holds one
command, one of 3 wraps with two in flight; four calls are enough for play, stop,
play and one more. `MaxInt` 3 with a 2x2 screen has every sign, every clipping
and every overflow of position plus size. `Second` 5 and `Frame` 2 make the carry
of seconds fall at every position of a frame. The services share no state, so one
instance explores each while the others rest. Compiler: `Width` 3 bits have all
boundary cases of i32 arithmetic within reach of every operand;
`MaxAggregateDepth` 2, `MaxImportDepth` 3 and `MaxNesting` 8 stand for larger
limits and are met, exceeded by one and passed by; the fuel of 300 steps bounds
loops that do not end (of a program that exhausts it, only that both the code and
the definition do so is compared).

In the run `compiler`, `focus` says what a behaviour is about: the compiler or
one of the searches, which share no state, while the rest keeps its smallest
input. Four structs give two components with an edge between them; three
declared, undeclared, faulty or predefined constants and one more name give every
way to fail, under a constant that waits or not; four files give a chain over a
limit of three, directly and through a file that is loaded already, with any of
them broken and any import refused.

*What the compiler's properties say.* `CodeMeansProgram`: the code of every
accepted program is well formed, never undefined, and calls the same builtins
with the same arguments, leaves the same globals and stops with the same run-time
error as `Language` says. `FoldingAgrees`: a folded constant is what the same
expression computes at run time. `DeclarationsResolve`: the scheduler gives every
constant the value of plain recursion or marks it failed, whatever the order of
declarations, and exactly the structs that contain themselves are recursive.
`LoaderAcceptsExactly`: the walk with its cached heights accepts exactly the
import graphs without a cycle and within the limit, and records enough sources to
notice that a failed load could succeed. `NamesStayHome`: flattening never lets a
name be captured. `ParseInverts`: the parser reads back what `Grammar` writes with
the fewest parentheses, and refuses exactly what nests too deeply.
`SearchesAreExact`: each search ends with what a definition says that does not
search: the structs that contain themselves and those of unknown size
(`SearchIsExact`), the constants under which something has no value
(`ConstantsSettle`), and the programs without a chain of imports over the limit
or an unsound file (`WalkIsExact`). The two-pass search is right only because of
the order in which the first pass leaves the nodes; the deviation that follows
the unreversed graph in the second pass is found. Likewise for an initializer that
ends before its last lookup, and for a loaded file that counts for itself only.

*Fairness.* `DevInput!Fairness`: server threads are scheduled, the game's paced
loop goes on and reads its socket, a request under way is answered or its
connection breaks, time passes for the lease of a page that is gone, and SIGINT
or SIGKILL ends a game that is being stopped. Nothing makes a user or a page
act. `SessionFairness`: the main thread, receivers, HTTP and watchdog threads
and the second half of the Ctrl-C handler are scheduled, and timeouts run out
(`stop_game`'s deadline, `REAPED_GAME_GRACE`, the write timeout). No fairness is
assumed of a game or of a foreign connection. `RunEnds`, `CancelEndsSession` and
`EndedGameIsNoticed` are stated of behaviours in which no foreign connection that
is being read sends for ever (`ForeignersFallSilent`): without this the code does
not keep them, see *Findings*. `DeliveryFairness`: the page's loop does not stop
and, of infinitely many polls, headers and bodies, not every one is lost.
`MCPages` states the conditions of `DevInput` and `FrameDelivery` in pairs, which
is the same: only one of the two sides of a behaviour ever moves.
`FairWatchSpec`: the watcher's thread and the supervisor's threads are scheduled,
the quiet interval passes, and a compiler ends (its helpers need not: the group is
killed). Nothing is assumed of editors, of Ctrl-C or of the game.

## Findings

* `input_stop_boundary`: `stop_game` says that no request can claim or write to
  the run after it detached input. The run's own receiver may attach it
  afterwards, if it had accepted the connection but not yet called
  `connect_game`; a request then claims the stopping run. The effect ends with
  the run, so no other property suffers.
* `input_full_socket`: the viewer's documentation says that a disconnected
  controller cannot leave a key held indefinitely. A control write that times
  out detaches input without a release-all, and the game, when it goes on, keeps
  the key.
* `watch_interrupt`: a test interrupts the watcher with input in flight and
  expects success. If the game closes its socket before it reads that input
  (or the watchdog's own last release-all), the reset can cut a frame short,
  and the watcher ends with the receiver's error.
* `watch_missing_sound`: `watch.rs` says that an edit during analysis or
  compilation must never be marked as compiled. The stamp of a missing file says
  nothing but that it is missing. An embedded sound that is missing when it is
  stamped before the analysis, there when it is read, and missing again when it
  is stamped afterwards compares equal: the game is launched from a file that is
  not there, and no later comparison finds the removal. `WatcherCatchesUp` is
  therefore stated of the files as the watcher can know them (`Known`).

Two weaknesses have no run of their own. A foreign connection to the frame port
that sends often enough, frames with rising numbers or single bytes, is read
for ever: `receive_frames` looks at `reaped` only when a read times out
(`server.rs` 443-495), so `stop_game` never returns from its join (`session.rs`
197). `docs/development-viewer.md:57-58` says "After the game exits, a frame
connection that stays open is abandoned with an error after about two seconds";
the model has these connections (`StrangerTalks`, `StrangerSendsHead`,
`StrangerSendsBody`), and the liveness properties of `DevSession` exclude in
their premise the ones that send for ever. And `dev::run` looks for a server error and then at `cancelled`. A server that fails
in between ends the command with success. `watch::run` looks once more after its
loop (`ServerFailureReported`).

## Proofs

Seven modules hold the theorems; what a run shows on a small instance they show
for every value of the constants. `PROJECT.json` lists the results; the table
says which properties of the runs they cover.

| Module | Theorems | For every |
|---|---|---|
| `DevSession_proofs` | `SessionTypes`, `SessionSafety`, `RunsAreSeparate`, `NothingIsLeft`, `SuccessNeedsAGame`, `SleeperSaysWhy`, `WatcherReportsServer`, `SessionFeedsViewers` | number of runs and frames, socket capacity; `dev` and `--watch`; with and without host failures and foreign connections |
| `DevInput_proofs` | `TypeCorrect`, `InputSafety`, `NoInputAcrossRestarts`, `LeaseGuardsKeys`, `EdgesSound`, `LeasesExpire`, `InputLeases` | set of pages and keys, socket capacity, number of runs; with losses and write timeouts |
| `FrameDelivery_proofs` | `DeliverySafety`, `LivePicturesMatch`, `PagesOnlyAdvance`, `DeliveryFeeds` | set of pages, number of runs and frames |
| `Watch_proofs` | `WatchSafety`, `GamesMatch`, `CompilersEnd` | set of files, texts and imports, number of edits |
| `Storage_proofs` | `ReadsBack`, `ParseAcceptsNothingElse`, `ParsesStrictly`; `StorageSafety`, `NeverTorn`, `TemporariesAccounted`, `SlotsAreAtomic` | 32-bit integer and text of any length; number of processes, slots, files, crashes and power losses |
| `Runtime_proofs` | `AudioSafety`, `RingsKeep`, `StopsSilence`, `LastPlayPlays`, `ResetAlone`; `FillRectIsExact`, `ClearIsExact`, `DrawingSafe`; `PaceSafety`, `Paced` | ring size, number of voices and of calls; size of screen and of integers; length of second, frame, work and oversleep |
| `Searches_proofs` | `SearchSafety`, `SearchFindsCycles`; `ScheduleSafety`, `ConstantsSettleAlways`; `WalkSafety`, `WalkIsExactAlways`; `SearchesAlwaysExact` | graph of structs, of constants and of files, import limit |

Every theorem of the form `Spec => []Inv` follows from an inductive invariant
that stands at the end of the module it is about, is proved to hold initially
and to be kept by every action, one lemma per action or group of actions, and
was checked by TLC on the instances of the runs first. No property of the runs
was inductive by itself; what had to be added, and why:

* **Session** (`SessionInv`). `RunsDoNotOverlap` speaks of processes and
  receivers, but the reason is in the main thread: `MainShape` says at which of
  its positions it holds a game of its own (`game`, `stopping`) and that this is
  always the latest run; `RunOwned` that whatever is alive or receiving belongs
  to that run, the child between its spawn and `begin_run` excepted, and that no
  receiver is left once `stop_game` is past its join. `InputFollowsRun`
  (controller) and `FramesFlow` (store: the numbers go on from the receiver's
  last frame) then tie the shared state to the same run. `SuccessIsEarned` needs
  an account of the stream: `StreamAccounted` says that what a receiver has read
  and what the socket still holds are the game's half frames in order and, unless
  the connection was reset or the game died, all of them (it says nothing of a
  foreign connection, whose frames are counted nowhere); `ReceiverFinished` that
  a receiver which ended has failed, served a stranger, or read everything;
  `SuccessHeld` follows the result to the command's return. `CancelHasReason`
  and `ViewersTold` carry the reasons of an early end and the viewer's state
  along the main thread, for the other three. A run is one record, so each part
  is proved in two halves: what an operation makes of the record (`ConnectStep`,
  `SendStep`, `DeathStep`, `CloseStep`, `ReadStep`, ...), and what one changed
  record means for the session (`KeptRuns` and its lemmas). `SessionFeedsViewers`
  needs two facts of the invariant: `FramesFlow` makes every published number
  new, `ViewersTold` says that a run begins only after a build.
  `WatcherReportsServer` assumes `Watch`: of `dev::run` it is false, see
  *Findings*. The theorems assume no fairness.
* **Input** (`InputInv`). `KeysAnswerToOwner` says nothing about what lies behind
  a release-all on the wire. `UnreleasedBelongToOwner` (whatever no release-all
  follows belongs to the owner), `HandoverReleasesFirst` (records of two clients,
  or a held key and a record of another client, have a release-all between them)
  and `RunShape` (the wire is empty and no key is down until the receiver has
  attached the game and after the game has exited) do. With these, sending a
  record only looks at the end of the wire and receiving one only at its
  beginning. `InputLeases` is the refinement of `KeyLease`, action by action.
* **Frames** (`DeliveryInv`). An answer under way is a picture of a past state of
  the store, and one whose headers were read is of the run the page believes in
  (`AnswerIsNews`); pages are behind the store in run and number, and a page is
  live over another run's picture only while it reads (`PageFollowsStore`); the
  rest is that the store's own counts only go up.
* **Watcher** (`WatchInv`). Each stamp a snapshot keeps is of a state its file
  has been in (`StampsArePast`), so the stamp of a file that was there, if it
  still compares equal at the launch or was taken again before it, says that
  nothing changed since the text was read (`AnalysisKnows`). The stamp of a
  missing file says no such thing and the theorem claims none. `CompilersEnd` rests on `BuildInv`: readers are joined only once the
  group was killed. It is the safety half of `CancelStopsEverything`, which its
  run checks, and is no property of a run itself. That the helpers of a compiler end is not assumed.
* **Storage** (`StorageInv`). What each call has written so far and which file it
  owns, at every system call (`CallShaped`, `CallContents`, `OwnsFile`); what a
  slot may name, now or after a power loss, is a saved value that is wholly on
  disk (`SlotsHoldValues`). `SlotsAreAtomic` maps the rename to the abstract
  save. `ParsesStrictly` is an induction over the digits of the text.
* **Audio** (`AudioInv`). `RingHolds` says which slot of a ring holds which
  pending command at each of the producer's and the consumer's steps, counted
  around the ring; `EpochsOrdered` that no command taken or queued is of a later
  epoch than the shared one.
* **Struct graph** (`SearchInv`). The classical argument for the two passes, as an
  invariant. `EdgesFollowed` says that edges of finished nodes, and those a frame
  is done with, lead to visited nodes; `StackDescends` that each frame is inside
  those below it. From these follows, whenever a node is finished, `FinishedLast`:
  a node whose edge leads into the component of a node that finishes later belongs
  to that component itself (a path to a node that was not visited yet leaves the
  finished nodes through one on the stack, and that one leads to the node that is
  being finished). In the second pass `ComponentsWhole` says that whole components
  have been judged, and `CollectingRoot` that what is collected belongs to the
  root's component; when `pending` is empty nothing of the component is missing:
  what contains a collected struct has been visited, and belongs to the root's
  component or to one that was judged as a whole before. `Reaches` is defined by
  closed sets, so every step from edges to paths is the choice of a set and needs
  no induction over a path. `OrderEnds` uses that the finished nodes are all
  nodes.
* **Constants** (`ScheduleInv`). `ValuesStand` (a value rests on values, and is
  not hopeless) makes the set of values closed under lookups, so nothing under a
  value can fail; `AwaitingDescends` (each suspended initializer needs those above
  it) makes the failure of the innermost a failure of all, and a lookup of one
  that waits a cycle. That is why `FailAll` may blame the whole stack at once.
* **Imports** (`WalkInv`). `FinishedSound` says that the height of a finished
  module is the length of a chain that exists and exceeds the heights of its
  imports, `VisitsSound` that the calls are a chain and what they are done with
  fits under the limit at its depth. A refusal for depth then exhibits a chain
  that is too long: the calls followed by the chain under the loaded file; a cycle
  exhibits one by going around it, as long as needed. Conversely, when the walk
  ends, the height falls along every chain from the entry file, so that none is
  longer than the entry's height.
* **Pacing** (`PaceInv`) and **drawing** are arithmetic: two-part times and their
  one-number meaning, and the bytes of a rectangle's rows.

*Assumptions.* Only those of the modules' ASSUMEs: "none" values are not members
of the sets they stand outside of, bounds are natural numbers, capacities, sizes
and `MaxRuns` are positive. `StorageConstants` says in addition that the values
are integers of the width at hand and that there is a file; `IntegersFit` that the
width is at most 32 bits, which is what the parser's overflow test is written for;
`TextsAssumption` that foreign texts are sequences of characters; `AudioConstants`
that a ring has at least two slots (`audio.c` has 33 and 17); `WatchConstants`
that an import names one of the files; `GraphAssumption`, `UseGraphAssumption` and
`WalkAssumption` that edges lead to nodes of the graph, that the entry file is one
of the files and that the import limit is positive.

*Induction.* The numeric inductions (over digits, over the first file of a pass)
use a set instead of a predicate: the least member of the counterexamples
(`WFMin` of the library) gives a contradiction.

*What the proofs changed in the models.* `Audio!TakeSound`,
`DevInput!GameReceives` and `BuildProcess!NextCommand` had CASE expressions with
overlapping arms, whose value TLA+ leaves open (TLC takes the first); they say
now which arm comes first, as the code does. `ParseIsStrict` moved from a model
that only TLC reads to `SlotText`, where it can be proved. The compiler's modules still
have ordered CASE arms and are read as TLC reads them.

*Only model-checked.* Liveness under fairness (`RunEnds` and the like:
every property with `~>`), which is outside the prover's reach; and the compiler
(`CodeMeansProgram`, `FoldingAgrees`, `DeclarationsResolve`,
`LoaderAcceptsExactly`, `NamesStayHome`, `ParseInverts`), whose modules are
recursive and whose claims are inductions over trees. `SearchesAlwaysExact` is about
the graph algorithms under `DeclarationsResolve` and `LoaderAcceptsExactly`; what
these two say in addition (the values of constants, the names and sources that are
recorded) is about functions of trees. `NothingLeftBehind` is checked in watch
mode and proved for both commands.

## Plan

1. *Done.* Input (`CrumbInput`, `InputControl`, `KeyLease`, `DevInput`), frames
   (`FrameStore`, `ViewerFeed`, `FrameDelivery`), session (`DevSession`).
2. *Done.* The watcher's files and builds (`Watch`, `BuildProcess`), the runtime
   services (`Storage`, `SaveSlots`, `Audio`, `Framebuffer`, `FramePacing`), the
   compiler from tokens to code.
3. *Done.* Every safety property of these but the compiler's, and the refinements
   of `KeyLease`, `ViewerFeed` (twice) and `SaveSlots`, are theorems.
4. *Done.* The compiler's searches over structs, constants and files as machines,
   with a proof for every graph (`StructSearch`, `ConstantSchedule`, `ImportWalk`).
5. *Left.* That `Declarations` and `Modules` compute what the machines compute is
   checked on small programs only (both agree with definitions without a search):
   the functions recurse. A parser or code generation theorem would need
   induction over trees, and liveness stays with TLC.

## Not modelled

* The lexer, argument parsing, tables, wording and position of diagnostics, the
  text of LLVM and command lines of the tools, the WAV reader, window and file
  presenters, editor support: sequential and covered by tests, or pure output, or
  data.
* Sound and resolution declarations in the parser, the loader and code
  generation; located guard failures of development builds.
* Floating-point rounding, negative zero and the printing of floats; waveforms and
  volumes.
* `sound_position`. A callback that began before a stop may store its position
  after the stop stored 0, and a play that follows makes it visible until the next
  callback ends; nothing in the documentation excludes it.
* Reuse of a process-group number between the end of a compiler and the kill in
  `OwnedCommand`'s drop: process numbers are not part of the model.
* Weak memory: atomics are sequentially consistent.
