----------------------------- MODULE FramePacing -----------------------------
(* Frame pacing of the runtime loop (runtime/crumb/crumb.c): each frame ends *)
(* by advancing a deadline of seconds and nanoseconds and sleeping up to it. *)
(* The monotonic clock and nanosleep are external: a sleep may be            *)
(* interrupted at any point and may end late.                                *)
EXTENDS Integers

CONSTANTS Second,   \* nanoseconds in a second (10^9)
          Frame,    \* CRUMB_FRAME_NANOSECONDS
          MaxWork,  \* bound: longest time one frame's work takes
          MaxLate,  \* bound: how late a sleep ends
          MaxTime   \* bound on the clock

ASSUME PacingConstants ==
    /\ {Second, Frame} \subseteq Nat \ {0} /\ Frame < Second
    /\ {MaxWork, MaxLate, MaxTime} \subseteq Nat

VARIABLES now,      \* the monotonic clock
          deadline, \* struct timespec
          delay,    \* struct timespec passed to nanosleep
          loop,     \* "frame", "wait", "sleep", "resync", "failed", "stopped"
          frames    \* frames completed

paceVars == <<now, deadline, delay, loop, frames>>

Timespec(t) == [sec |-> t \div Second, nsec |-> t % Second]
Ticks(ts) == ts.sec * Second + ts.nsec

AdvanceDeadline(ts) ==
    IF ts.nsec + Frame >= Second
    THEN [sec |-> ts.sec + 1, nsec |-> ts.nsec + Frame - Second]
    ELSE [ts EXCEPT !.nsec = @ + Frame]

IsBefore(a, b) == a.sec < b.sec \/ (a.sec = b.sec /\ a.nsec < b.nsec)

Difference(later, earlier) ==
    LET sec == later.sec - earlier.sec
        nsec == later.nsec - earlier.nsec
    IN  IF nsec < 0 THEN [sec |-> sec - 1, nsec |-> nsec + Second]
        ELSE [sec |-> sec, nsec |-> nsec]

PaceInit ==
    /\ now \in 0..Second
    /\ deadline = Timespec(now) /\ delay = Timespec(0)
    /\ loop = "frame" /\ frames = 0

Frames ==
    /\ loop = "frame"
    /\ \E work \in 0..MaxWork : now + work <= MaxTime /\ now' = now + work
    /\ loop' = "wait"
    /\ UNCHANGED <<deadline, delay, frames>>

(* The frame's deadline; the clock may fail to be read. *)
WaitForNextFrame ==
    /\ loop = "wait"
    /\ deadline' = AdvanceDeadline(deadline)
    /\ \/ IF IsBefore(Timespec(now), deadline')
          THEN loop' = "sleep" /\ delay' = Difference(deadline', Timespec(now))
          ELSE loop' = "resync" /\ UNCHANGED delay
       \/ loop' = "failed" /\ UNCHANGED delay
    /\ UNCHANGED <<now, frames>>

Sleeps ==
    /\ loop = "sleep"
    /\ \E late \in 0..MaxLate :
         now + Ticks(delay) + late <= MaxTime /\ now' = now + Ticks(delay) + late
    /\ loop' = "resync"
    /\ UNCHANGED <<deadline, delay, frames>>

(* A signal ends the sleep early with the rest of the delay; the loop stops  *)
(* when the signal asked for it and sleeps on otherwise.                     *)
SleepInterrupted ==
    /\ loop = "sleep"
    /\ \E slept \in 0..Ticks(delay) - 1 :
         /\ now + slept <= MaxTime
         /\ now' = now + slept
         /\ delay' = Timespec(Ticks(delay) - slept)
    /\ loop' \in {"sleep", "stopped"}
    /\ UNCHANGED <<deadline, frames>>

\* nanosleep fails otherwise, and the loop with it.
SleepFails ==
    /\ loop = "sleep"
    /\ loop' = "failed"
    /\ UNCHANGED <<now, deadline, delay, frames>>

(* Deviation: a late loop catches up with a burst of frames. *)
ResyncNever ==
    /\ loop = "resync"
    /\ loop' = "frame" /\ frames' = frames + 1
    /\ UNCHANGED <<now, deadline, delay>>

(* A loop that is more than a frame late starts again from now. *)
Resync ==
    /\ loop = "resync"
    /\ \/ /\ deadline' = IF IsBefore(AdvanceDeadline(deadline), Timespec(now))
                         THEN Timespec(now) ELSE deadline
          /\ loop' = "frame" /\ frames' = frames + 1
       \/ loop' = "failed" /\ UNCHANGED <<deadline, frames>>
    /\ UNCHANGED <<now, delay>>

PaceNext == Frames \/ WaitForNextFrame \/ Sleeps \/ SleepInterrupted \/ SleepFails \/ Resync
PaceSpec == PaceInit /\ [][PaceNext]_paceVars
-----------------------------------------------------------------------------
(* A frame never begins before its deadline, across the carry of seconds and *)
(* however often its sleep was interrupted, and never with a backlog of more *)
(* than one frame: a slow frame is not followed by a burst of fast ones.     *)
(* Over any run the loop completes at most one frame per frame time.         *)
FramesArePaced ==
    /\ loop = "frame" => Ticks(deadline) <= now /\ now - Ticks(deadline) <= Frame
    /\ frames * Frame <= Ticks(deadline)

(* What makes it inductive: the clock has reached the deadline wherever no   *)
(* sleep is left, a sleep is exactly what is missing to it, and a deadline   *)
(* that was advanced pays for the frame that it ends.                        *)
Timespecs == [sec : Nat, nsec : 0..Second - 1]
PaceTypeOK ==
    /\ now \in Nat /\ deadline \in Timespecs /\ delay \in Timespecs /\ frames \in Nat
    /\ loop \in {"frame", "wait", "sleep", "resync", "failed", "stopped"}
PaceInv ==
    /\ PaceTypeOK
    /\ loop \in {"frame", "wait", "resync"} => Ticks(deadline) <= now
    /\ loop = "frame" => now - Ticks(deadline) <= Frame
    /\ loop = "sleep" => now + Ticks(delay) = Ticks(deadline)
    /\ frames * Frame + (IF loop \in {"sleep", "resync"} THEN Frame ELSE 0) <= Ticks(deadline)
=============================================================================
