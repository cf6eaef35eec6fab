---------------------------- MODULE FrameStore ----------------------------
(***************************************************************************)
(* The frame store of the development server (src/dev/server.rs): the      *)
(* latest complete frame, the viewer's state, and the numbers that keep    *)
(* frames of successive games apart.  Every method holds the one mutex for *)
(* its whole body, so each is a single action.                             *)
(*                                                                         *)
(* A frame is the number its game gave it; its pixels are stood for by the *)
(* run of the game that drew them (history: the code does not store it).   *)
(* The u64 counters cannot overflow in the lifetime of a session.          *)
(***************************************************************************)
EXTENDS Naturals

CONSTANT NoFrame     \* `latest: None'

VARIABLE store       \* FrameState

ViewerStates == {"Running", "Stopped", "Building", "BuildFailed", "Watching"}

Frames == [sequence : Nat, run : Nat]

StoreTypeOK ==
    store \in [latest : Frames \cup {NoFrame}, state : ViewerStates, generation : Nat,
               sequence : Nat, deliveryOffset : Nat]

StoreInit ==
    store = [latest |-> NoFrame, state |-> "Running", generation |-> 0,
             sequence |-> 0, deliveryOffset |-> 0]

\* Deviation: the game's own numbers are delivered.
PublishUnshifted(sequence, run) ==
    store' = [store EXCEPT !.sequence = sequence,
                           !.latest = [sequence |-> sequence, run |-> run]]

(* publish: a game numbers its frames from 1; the store goes on counting   *)
(* where the previous game stopped.                                        *)
Publish(sequence, run) ==
    LET delivered == sequence + store.deliveryOffset IN
    store' = [store EXCEPT !.sequence = delivered,
                           !.latest = [sequence |-> delivered, run |-> run]]

StoreBeginRun ==
    store' = [store EXCEPT !.generation = @ + 1, !.deliveryOffset = store.sequence,
                           !.latest = NoFrame, !.state = "Running"]

\* Deviation: the replaced run's picture stays on offer.
SetStateKeepsFrame(status) == store' = [store EXCEPT !.state = status]

SetState(status) ==
    store' = [store EXCEPT !.state = status,
                           !.latest = IF status \in {"Building", "BuildFailed"}
                                      THEN NoFrame ELSE @]

StoreStop == store' = [store EXCEPT !.state = "Stopped"]

\* wait_after keeps a long poll waiting while this holds, for at most two seconds.
KeepsWaiting(after) ==
    /\ store.state = "Running"
    /\ store.latest # NoFrame => store.latest.sequence <= after

\* What wait_after answers from the state it wakes up in.
Snapshot(after) ==
    [frame |-> IF store.latest # NoFrame /\ store.latest.sequence > after
               THEN store.latest ELSE NoFrame,
     state |-> store.state,
     generation |-> store.generation]

=============================================================================
