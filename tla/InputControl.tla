--------------------------- MODULE InputControl ---------------------------
(***************************************************************************)
(* The input controller of the development server (src/dev/server.rs):     *)
(* which game receives input, which browser client owns the input lease,   *)
(* and the control records written to the game's socket.  Every method     *)
(* holds the one mutex for its whole body, so each is a single action.     *)
(*                                                                         *)
(* A game is named by the number of its run (the generation that           *)
(* begin_run gave it); run 0 is "no game".  The fields `by' and `gen' of a *)
(* record are history: the client and the generation of the request that   *)
(* caused it.  The 8-byte record itself carries neither.                   *)
(***************************************************************************)
EXTENDS Naturals, Sequences, CrumbInput

CONSTANTS
    Clients,         \* browser pages, each with its own client identifier
    NoClient,        \* `owner: None'
    NoKey,           \* the key field of a record that names no key
    Capacity,        \* control records the socket holds unread
    WriteTimeouts    \* may a write to a full socket reach its one-second timeout?

ASSUME NoClientAssumption == NoClient \notin Clients
ASSUME NoKeyAssumption == NoKey \notin Keys
ASSUME CapacityAssumption == Capacity \in Nat \ {0}
ASSUME WriteTimeoutsAssumption == WriteTimeouts \in BOOLEAN

VARIABLES
    control,         \* InputControlState
    wire             \* control records sent to the current game and not yet read

NoGame == 0

(* `last_seen' is an Instant; only its age against INPUT_LEASE_TIMEOUT is  *)
(* ever asked for: "fresh" is younger than the timeout, "expired" is not.  *)
ControlStates ==
    [generation : Nat, game : Nat, owner : Clients \cup {NoClient},
     lastSeen : {"none", "fresh", "expired"}]

\* BrowserInput: a key transition names a key of the catalog, nothing else does.
Requests ==
    [client : Clients, kind : {"down", "up"}, key : Keys, gen : Nat] \cup
    [client : Clients, kind : {"release", "heartbeat", "unsupported"},
     key : {NoKey}, gen : Nat]

\* ControlMessage, with its history.
Records ==
    [kind : {"down", "up"}, key : Keys, by : Clients, gen : Nat] \cup
    [kind : {"release"}, key : {NoKey}, by : Clients \cup {NoClient}, gen : Nat]

ControlTypeOK == control \in ControlStates /\ wire \in Seq(Records)

ControlInit ==
    /\ control = [generation |-> 0, game |-> NoGame,
                  owner |-> NoClient, lastSeen |-> "none"]
    /\ wire = << >>

----------------------------------------------------------------------------
\* Deviation: a lost connection leaves the lease behind.
DetachedKeepsOwner == [control EXCEPT !.game = NoGame]

\* Everything a lost or ended connection clears.
Detached == [control EXCEPT !.game = NoGame, !.owner = NoClient, !.lastSeen = "none"]

\* The lease is free, the game still connected.
Freed == [control EXCEPT !.owner = NoClient, !.lastSeen = "none"]

\* The lease belongs to c, who was seen just now.
Claimed(c) == [control EXCEPT !.owner = c, !.lastSeen = "fresh"]

(* send_control, the write succeeding.  Bytes sent to a process that has   *)
(* exited are accepted by the kernel and never read.                       *)
Written(record, alive) ==
    /\ control.game # NoGame
    /\ IF alive THEN /\ Len(wire) < Capacity
                     /\ wire' = Append(wire, record)
                ELSE UNCHANGED wire

(* send_control, the write failing: no game, a connection its peer closed, *)
(* or a full socket for the length of the write timeout.  Part of a record *)
(* may be in the socket then; nothing follows it, so it never completes.   *)
WriteFailed(alive) ==
    /\ \/ control.game = NoGame
       \/ ~alive
       \/ WriteTimeouts /\ Len(wire) >= Capacity
    /\ control' = Detached
    /\ UNCHANGED wire

ConnectGame(run, gen) ==
    /\ control' = [generation |-> gen, game |-> run,
                   owner |-> NoClient, lastSeen |-> "none"]
    /\ UNCHANGED wire

DisconnectGame ==
    /\ control' = Detached
    /\ UNCHANGED wire

\* Deviation: any generation is served.
RejectedAnyGeneration(request) ==
    \/ control.game = NoGame
    \/ request.kind = "unsupported"
    \/ control.owner \notin {NoClient, request.client}

\* Deviation: a second client is not told that the lease is taken.
RejectedShared(request) ==
    \/ control.game = NoGame
    \/ request.gen # control.generation
    \/ request.kind = "unsupported"

\* The early returns of apply: GameUnavailable, StaleGeneration, Ignored, Busy.
Rejected(request) ==
    \/ control.game = NoGame
    \/ request.gen # control.generation
    \/ request.kind = "unsupported"
    \/ control.owner \notin {NoClient, request.client}

RecordOf(request) ==
    [kind |-> request.kind, key |-> request.key,
     by |-> request.client, gen |-> request.gen]

ApplyRejected(request) ==
    /\ Rejected(request)
    /\ UNCHANGED <<control, wire>>

ApplyHeartbeat(request) ==
    /\ ~Rejected(request)
    /\ request.kind = "heartbeat"
    /\ control' = Claimed(request.client)
    /\ UNCHANGED wire

ApplySent(request, alive) ==
    /\ ~Rejected(request)
    /\ request.kind \in {"down", "up", "release"}
    /\ Written(RecordOf(request), alive)
    /\ control' = IF request.kind = "release" THEN Freed ELSE Claimed(request.client)

ApplyFailed(request, alive) ==
    /\ ~Rejected(request)
    /\ request.kind \in {"down", "up", "release"}
    /\ WriteFailed(alive)

Apply(request, alive) ==
    \/ ApplyRejected(request)
    \/ ApplyHeartbeat(request)
    \/ ApplySent(request, alive)
    \/ ApplyFailed(request, alive)

\* A record the server sends on its own account.
ServerRelease ==
    [kind |-> "release", key |-> NoKey, by |-> NoClient, gen |-> control.generation]

LeaseExpired == control.owner # NoClient /\ control.lastSeen = "expired"

\* Deviation: the lease ends without a release-all.
ExpireLeaseSilently(alive) ==
    /\ LeaseExpired
    /\ control' = Freed
    /\ UNCHANGED wire

(* expire_lease, the watchdog's poll.  A failed write has already cleared  *)
(* the owner, so clearing it again changes nothing.                        *)
ExpireLease(alive) ==
    /\ LeaseExpired
    /\ \/ Written(ServerRelease, alive) /\ control' = Freed
       \/ WriteFailed(alive)

\* release_and_disconnect, the watchdog's last step.
ReleaseAndDisconnect(alive) ==
    \/ Written(ServerRelease, alive) /\ control' = Detached
    \/ WriteFailed(alive)

\* INPUT_LEASE_TIMEOUT passes with no accepted request of the owner.
LeaseAges ==
    /\ control.lastSeen = "fresh"
    /\ control' = [control EXCEPT !.lastSeen = "expired"]
    /\ UNCHANGED wire

=============================================================================
