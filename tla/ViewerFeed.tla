---------------------------- MODULE ViewerFeed ----------------------------
(***************************************************************************)
(* What a development session promises its viewers, with no threads,       *)
(* processes or sockets.  Runs begin one after the other.  Pictures appear *)
(* only while a run is on, always drawn by that run, and every picture has *)
(* a higher number than all before it, of this run or another, so a viewer *)
(* that asks for "anything after n" misses no run.                         *)
(***************************************************************************)
EXTENDS Naturals

CONSTANT NoFrame

VARIABLES generation,    \* runs begun
          latest,        \* the picture on offer: its number and the run that drew it
          state,         \* what the viewer is told when there is no new picture
          high           \* the highest picture number so far

feedVars == <<generation, latest, state, high>>

FeedInit == generation = 0 /\ latest = NoFrame /\ state = "Running" /\ high = 0

\* Only a finished build starts a run; nothing of the run before it is on offer.
StartRun ==
    /\ state = "Building" \/ generation = 0
    /\ generation' = generation + 1
    /\ latest' = NoFrame /\ state' = "Running"
    /\ UNCHANGED high

Show ==
    /\ state = "Running" /\ generation > 0
    /\ high' \in Nat /\ high' > high
    /\ latest' = [sequence |-> high', run |-> generation]
    /\ UNCHANGED <<generation, state>>

\* A run that ended may stay on display, one that was replaced may not.
EndRun ==
    /\ state' \in {"Stopped", "Watching"}
    /\ UNCHANGED <<generation, latest, high>>

Rebuild ==
    /\ state' \in {"Building", "BuildFailed"}
    /\ latest' = NoFrame
    /\ UNCHANGED <<generation, high>>

FeedNext == StartRun \/ Show \/ EndRun \/ Rebuild

FeedSpec == FeedInit /\ [][FeedNext]_feedVars

=============================================================================
