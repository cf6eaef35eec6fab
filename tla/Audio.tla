-------------------------------- MODULE Audio --------------------------------
(* The native audio backend (runtime/crumb/audio.c and audio_macos.c): the   *)
(* game thread submits effects and backing-track commands through two        *)
(* single-producer single-consumer rings, and the device's callback thread   *)
(* takes them and renders buffers.  Nothing is locked: every load and store  *)
(* of a shared atomic, and every access of a ring slot, is a step.           *)
(* Waveforms, volumes and argument ranges are left out: a call whose         *)
(* arguments the code ignores changes nothing.                               *)
EXTENDS Integers, Sequences, FiniteSets, FiniteSetsExt, SequencesExt

CONSTANTS SlotCount,      \* ring -> slots (33 effects, 17 sounds)
          Voices,         \* voice numbers (1..8)
          EffectSamples,  \* length of an effect
          TrackSamples,   \* length of a backing track
          BufferSamples,  \* samples per callback (256)
          MaxAudioCalls        \* bound on the calls of the game

Rings == {"effects", "sounds"}

ASSUME AudioConstants ==
    /\ SlotCount \in [Rings -> Nat] /\ \A r \in Rings : SlotCount[r] >= 2
    /\ Voices \subseteq Nat /\ IsFiniteSet(Voices)
    /\ EffectSamples \in Nat \ {0} /\ TrackSamples \in Nat \ {0}
    /\ BufferSamples \in Nat \ {0} /\ MaxAudioCalls \in Nat

VARIABLES game,      \* the game thread: where it is, the command it submits
          callback,  \* the callback thread: where it is, what it has read
          ring,      \* ring -> slots, read index, write index
          shared,    \* the other atomics
          device,    \* the output queue: "none", "open", "running"
          track, voice,        \* owned by the callback
          submitted, received, \* history: commands published, commands taken
          heard,               \* history: the epoch when the callback began
          asked                 \* calls asked so far

audioVars == <<game, callback, ring, shared, device, track, voice,
               submitted, received, heard, asked>>

NoCommand == [id |-> 0, kind |-> "none", epoch |-> 0, to |-> 0]
NoTrack == [id |-> 0, epoch |-> 0, at |-> 0, length |-> 0]
NoVoice == [id |-> 0, left |-> 0]

Reset ==
    /\ ring' = [r \in Rings |-> [ring[r] EXCEPT !.read = 0, !.write = 0]]
    /\ shared' = [shared EXCEPT !.enabled = FALSE, !.epoch = 0, !.paused = FALSE,
                                !.stopped = TRUE, !.position = 0]
    /\ track' = NoTrack
    /\ voice' = [v \in Voices |-> NoVoice]

AudioInit ==
    /\ game = [pc |-> "init", command |-> NoCommand]
    /\ callback = [pc |-> "idle", read |-> 0, end |-> 0, epoch |-> 0, left |-> 0, taken |-> 0]
    /\ ring = [r \in Rings |-> [slot |-> [i \in 0..SlotCount[r] - 1 |-> NoCommand],
                                read |-> 0, write |-> 0]]
    /\ shared = [enabled |-> FALSE, stopping |-> FALSE, epoch |-> 0, paused |-> FALSE,
                 stopped |-> TRUE, position |-> 0]
    /\ device = "none"
    /\ track = NoTrack /\ voice = [v \in Voices |-> NoVoice]
    /\ submitted = [r \in Rings |-> <<>>] /\ received = [r \in Rings |-> <<>>]
    /\ heard = 0 /\ asked = 0

callbackVars == <<callback, track, voice, received, heard>>
GameGoes(pc) == game' = [game EXCEPT !.pc = pc]
Next1(r, i) == (i + 1) % SlotCount[r]
RingOf(command) == IF command.kind = "effect" THEN "effects" ELSE "sounds"
-----------------------------------------------------------------------------
(* crumb_audio_init: open the device, fill its buffers with silence, enable  *)
(* submission, start it; any failure ends in crumb_audio_shutdown.           *)
OpenDevice ==
    /\ game.pc = "init"
    /\ \/ GameGoes("start") /\ device' = "open" /\ shared' = [shared EXCEPT !.enabled = TRUE]
       \/ GameGoes("disable") /\ device' \in {"none", "open"} /\ UNCHANGED shared
    /\ UNCHANGED <<callbackVars, ring, submitted, asked>>

StartDevice ==
    /\ game.pc = "start"
    /\ \/ GameGoes("ready") /\ device' = "running"
       \/ GameGoes("disable") /\ UNCHANGED device
    /\ UNCHANGED <<callbackVars, ring, shared, submitted, asked>>

(* Deviation: a full ring is not noticed. *)
NeverFull(r) == FALSE

Full(r) == Next1(r, ring[r].write) = ring[r].read

(* tone, noise, sound_play and sound_seek: a command is dropped when audio   *)
(* is disabled or its ring is full.                                          *)
Submit ==
    /\ game.pc = "ready" /\ asked < MaxAudioCalls
    /\ \E kind \in {"effect", "play", "seek"}, to \in {0, TrackSamples + 1} :
         LET command == [id |-> asked + 1, kind |-> kind, epoch |-> shared.epoch,
                         to |-> IF kind = "seek" THEN to ELSE 0]
             r == RingOf(command) IN
         IF ~shared.enabled \/ Full(r)
         THEN UNCHANGED game
         ELSE game' = [pc |-> "slot", command |-> command]
    /\ asked' = asked + 1
    /\ UNCHANGED <<callbackVars, ring, shared, device, submitted>>

WriteSlot ==
    /\ game.pc = "slot"
    /\ LET r == RingOf(game.command) IN
         ring' = [ring EXCEPT ![r].slot[ring[r].write] = game.command]
    /\ GameGoes(IF game.command.kind = "play" THEN "unpause" ELSE "publish")
    /\ UNCHANGED <<callbackVars, shared, device, submitted, asked>>

(* The transport state of a play is visible before the play itself. *)
Unpause ==
    /\ game.pc = "unpause"
    /\ shared' = [shared EXCEPT !.paused = FALSE]
    /\ GameGoes("unstop")
    /\ UNCHANGED <<callbackVars, ring, device, submitted, asked>>

(* Deviation: a play leaves the stop flag of an earlier stop set. *)
UnstopForgotten ==
    /\ game.pc = "unstop"
    /\ GameGoes("publish")
    /\ UNCHANGED <<callbackVars, ring, shared, device, submitted, asked>>

Unstop ==
    /\ game.pc = "unstop"
    /\ shared' = [shared EXCEPT !.stopped = FALSE]
    /\ GameGoes("publish")
    /\ UNCHANGED <<callbackVars, ring, device, submitted, asked>>

Publish ==
    /\ game.pc = "publish"
    /\ LET r == RingOf(game.command) IN
         /\ ring' = [ring EXCEPT ![r].write = Next1(r, @)]
         /\ submitted' = [submitted EXCEPT ![r] = Append(@, game.command)]
    /\ game' = [pc |-> "ready", command |-> NoCommand]
    /\ UNCHANGED <<callbackVars, shared, device, asked>>

PauseOrResume ==
    /\ game.pc = "ready" /\ asked < MaxAudioCalls
    /\ shared' = [shared EXCEPT !.paused = ~@]
    /\ asked' = asked + 1
    /\ UNCHANGED <<callbackVars, game, ring, device, submitted>>

(* crumb_sound_stop: three stores. *)
Stop ==
    /\ game.pc = "ready" /\ asked < MaxAudioCalls
    /\ shared' = [shared EXCEPT !.epoch = @ + 1]
    /\ GameGoes("stopped")
    /\ asked' = asked + 1
    /\ UNCHANGED <<callbackVars, ring, device, submitted>>

StopFlag ==
    /\ game.pc = "stopped"
    /\ shared' = [shared EXCEPT !.stopped = TRUE]
    /\ GameGoes("rewind")
    /\ UNCHANGED <<callbackVars, ring, device, submitted, asked>>

Rewind ==
    /\ game.pc = "rewind"
    /\ shared' = [shared EXCEPT !.position = 0]
    /\ GameGoes("ready")
    /\ UNCHANGED <<callbackVars, ring, device, submitted, asked>>

(* crumb_audio_shutdown: disable, raise the stopping flag, dispose of the    *)
(* device, which waits for a running callback, then reset the mixer.         *)
Disable ==
    /\ game.pc \in {"ready", "disable"}
    /\ shared' = [shared EXCEPT !.enabled = FALSE]
    /\ GameGoes("halt")
    /\ UNCHANGED <<callbackVars, ring, device, submitted, asked>>

RaiseStopping ==
    /\ game.pc = "halt"
    /\ shared' = [shared EXCEPT !.stopping = TRUE]
    /\ GameGoes("dispose")
    /\ UNCHANGED <<callbackVars, ring, device, submitted, asked>>

(* Deviation: the device is disposed of without waiting for its callback. *)
DisposeAsync ==
    /\ game.pc = "dispose"
    /\ device' = "none"
    /\ GameGoes("reset")
    /\ UNCHANGED <<callbackVars, ring, shared, submitted, asked>>

Dispose ==
    /\ game.pc = "dispose" /\ callback.pc = "idle"
    /\ device' = "none"
    /\ GameGoes("reset")
    /\ UNCHANGED <<callbackVars, ring, shared, submitted, asked>>

ResetMixer ==
    /\ game.pc = "reset"
    /\ Reset
    /\ GameGoes("off")
    /\ submitted' = [r \in Rings |-> <<>>] /\ received' = [r \in Rings |-> <<>>]
    /\ UNCHANGED <<callback, device, heard, asked>>

GameStep == \/ OpenDevice \/ StartDevice \/ Submit \/ WriteSlot \/ Unpause \/ Unstop
            \/ Publish \/ PauseOrResume \/ Stop \/ StopFlag \/ Rewind
            \/ Disable \/ RaiseStopping \/ Dispose \/ ResetMixer
-----------------------------------------------------------------------------
gameVars == <<game, submitted, asked>>
Advances == [effects |-> "effects advance", sounds |-> "sounds advance"]
CallbackGoes(pc) == callback' = [callback EXCEPT !.pc = pc]

(* The write index is read once, so that the work of a callback is bounded.  *)
Receives(r, pc) == callback' = [callback EXCEPT !.pc = pc, !.read = ring[r].read,
                                                !.end = ring[r].write, !.taken = 0]

(* output_callback and the head of crumb_audio_render: nothing is rendered   *)
(* while the device stops, silence while audio is disabled.                  *)
CallbackBegins ==
    /\ device = "running" /\ callback.pc = "idle"
    /\ ~shared.stopping /\ shared.enabled
    /\ Receives("effects", "effects")
    /\ heard' = shared.epoch
    /\ UNCHANGED <<gameVars, ring, shared, device, track, voice, received>>

EffectsReceived ==
    /\ callback.pc = "effects" /\ callback.read = callback.end
    /\ Receives("sounds", "epoch")
    /\ UNCHANGED <<gameVars, ring, shared, device, track, voice, received, heard>>

ReadEpoch ==
    /\ callback.pc = "epoch"
    /\ callback' = [callback EXCEPT !.pc = "sounds", !.epoch = shared.epoch]
    /\ UNCHANGED <<gameVars, ring, shared, device, track, voice, received, heard>>

Taken(r) == ring[r].slot[callback.read]
Take(r) ==
    /\ callback.pc = r /\ callback.read # callback.end
    /\ received' = [received EXCEPT ![r] = Append(@, Taken(r))]
    /\ CallbackGoes(Advances[r])
    /\ UNCHANGED <<gameVars, ring, shared, device, heard>>

(* An effect starts in a free voice and is dropped when there is none. *)
FreeVoices == {v \in Voices : voice[v].left = 0}
TakeEffect ==
    /\ Take("effects")
    /\ voice' = IF FreeVoices = {} THEN voice
                ELSE [voice EXCEPT ![Min(FreeVoices)] =
                        [id |-> Taken("effects").id, left |-> EffectSamples]]
    /\ UNCHANGED track

(* Commands of an earlier epoch were overtaken by a stop. *)
TakeSound ==
    /\ Take("sounds")
    /\ track' = IF Taken("sounds").epoch # callback.epoch THEN track
                ELSE IF Taken("sounds").kind = "play"
                     THEN [id |-> Taken("sounds").id, epoch |-> Taken("sounds").epoch,
                           at |-> 0, length |-> TrackSamples]
                     ELSE [track EXCEPT !.at = Min({Taken("sounds").to, track.length})]
    /\ UNCHANGED voice

Advance(r) ==
    /\ callback.pc = Advances[r]
    /\ ring' = [ring EXCEPT ![r].read = Next1(r, callback.read)]
    /\ callback' = [callback EXCEPT !.pc = r, !.read = Next1(r, @), !.taken = @ + 1]
    /\ UNCHANGED <<gameVars, shared, device, track, voice, received, heard>>

Mixing == [callback EXCEPT !.pc = "mix", !.left = BufferSamples]

CheckStopFlag ==
    /\ callback.pc = "sounds" /\ callback.read = callback.end
    /\ IF shared.stopped
       THEN track' = NoTrack /\ callback' = Mixing
       ELSE CallbackGoes("stop epoch") /\ UNCHANGED track
    /\ UNCHANGED <<gameVars, ring, shared, device, voice, received, heard>>

(* Deviation: the track of an earlier epoch plays on once a new play cleared *)
(* the stop flag.                                                            *)
CheckStopEpochSkipped ==
    /\ callback.pc = "stop epoch"
    /\ callback' = Mixing
    /\ UNCHANGED <<gameVars, ring, shared, device, track, voice, received, heard>>

CheckStopEpoch ==
    /\ callback.pc = "stop epoch"
    /\ track' = IF track.epoch # shared.epoch THEN NoTrack ELSE track
    /\ callback' = Mixing
    /\ UNCHANGED <<gameVars, ring, shared, device, voice, received, heard>>

Playing == track.at < track.length
MixSample ==
    /\ callback.pc = "mix" /\ callback.left > 0
    /\ track' = IF Playing /\ ~shared.paused THEN [track EXCEPT !.at = @ + 1] ELSE track
    /\ voice' = [v \in Voices |-> IF voice[v].left > 0
                                  THEN [voice[v] EXCEPT !.left = @ - 1] ELSE voice[v]]
    /\ callback' = [callback EXCEPT !.left = @ - 1]
    /\ UNCHANGED <<gameVars, ring, shared, device, received, heard>>

(* The position is published; a buffer that cannot be enqueued disables      *)
(* audio.                                                                    *)
CallbackEnds ==
    /\ callback.pc = "mix" /\ callback.left = 0
    /\ \/ shared' = [shared EXCEPT !.position = track.at]
       \/ shared' = [shared EXCEPT !.position = track.at, !.enabled = FALSE]
    /\ CallbackGoes("idle")
    /\ UNCHANGED <<gameVars, ring, device, track, voice, received, heard>>

CallbackStep == \/ CallbackBegins \/ EffectsReceived \/ ReadEpoch \/ TakeEffect \/ TakeSound
                \/ CheckStopFlag \/ CheckStopEpoch \/ MixSample \/ CallbackEnds
                \/ \E r \in Rings : Advance(r)

AudioNext == GameStep \/ CallbackStep
AudioSpec == AudioInit /\ [][AudioNext]_audioVars
-----------------------------------------------------------------------------
(* Slots from i on to j, around the ring. *)
Distance(r, i, j) == (j + SlotCount[r] - i) % SlotCount[r]
Between(r, i, j) == {k \in 0..SlotCount[r] - 1 : Distance(r, i, k) < Distance(r, i, j)}
Waiting(r) == Distance(r, ring[r].read, ring[r].write)
Pending(r) == [n \in 1..Waiting(r) |-> ring[r].slot[(ring[r].read + n - 1) % SlotCount[r]]]

(* The callback has copied a slot and not yet given it back. *)
Ahead(r) == IF callback.pc = Advances[r] THEN 1 ELSE 0

(* The rings keep every command.  The game thread never writes a slot that   *)
(* the callback is about to copy; the callback takes exactly the published   *)
(* commands, each once, in order and unchanged, however a ring wraps around; *)
(* and one callback takes no more than a ring holds, even if the game keeps  *)
(* submitting while it runs.                                                 *)
RingsKeepCommands ==
    \A r \in Rings :
        LET taking == callback.pc \in {r, Advances[r]} IN
        /\ game.pc = "slot" /\ RingOf(game.command) = r /\ taking
             => ring[r].write \notin Between(r, ring[r].read, callback.end)
        /\ device = "running" =>
             submitted[r] = received[r] \o SubSeq(Pending(r), 1 + Ahead(r), Len(Pending(r)))
        /\ taking => callback.taken < SlotCount[r]

(* A callback that begins after sound_stop plays no sample of a track that   *)
(* was started before it, whatever was still queued at the stop.             *)
StopSilencesEarlierTracks ==
    callback.pc = "mix" /\ Playing => track.epoch >= heard

(* A play that was taken and not stopped since is the track: the transport   *)
(* state it stored, the epoch it carries and the order in which the callback *)
(* reads them never let a stop that came before it cancel it.                *)
LastPlay(n) ==
    LET sounds == received["sounds"] IN
    sounds[n].kind = "play" /\ \A m \in DOMAIN sounds : m > n => sounds[m].kind # "play"
LastPlayIsTheTrack ==
    \A n \in DOMAIN received["sounds"] :
        LET command == received["sounds"][n] IN
        device = "running" /\ LastPlay(n) /\ command.epoch = shared.epoch
            => track.id = command.id

(* Mixer state is reset only once the device is gone and no callback runs,   *)
(* as audio_internal.h requires of every caller of crumb_audio_reset.        *)
ResetIsAlone == game.pc = "reset" => device = "none" /\ callback.pc = "idle"

(* The strengthening that makes the four inductive. *)
Commands == [id : Nat, kind : {"none", "effect", "play", "seek"}, epoch : Nat, to : Nat]
SlotNumbers(r) == 0..SlotCount[r] - 1
RingStates(r) == [slot : [SlotNumbers(r) -> Commands], read : SlotNumbers(r), write : SlotNumbers(r)]

AudioTypeOK ==
    /\ game \in [pc : {"init", "start", "ready", "slot", "unpause", "unstop", "publish", "stopped",
                       "rewind", "disable", "halt", "dispose", "reset", "off"},
                 command : Commands]
    /\ callback \in [pc : {"idle", "effects", "effects advance", "epoch", "sounds",
                           "sounds advance", "stop epoch", "mix"},
                     read : Nat, end : Nat, epoch : Nat, left : Nat, taken : Nat]
    /\ ring = [r \in Rings |-> ring[r]] /\ \A r \in Rings : ring[r] \in RingStates(r)
    /\ submitted \in [Rings -> Seq(Commands)] /\ received \in [Rings -> Seq(Commands)]
    /\ shared \in [enabled : BOOLEAN, stopping : BOOLEAN, epoch : Nat, paused : BOOLEAN,
                   stopped : BOOLEAN, position : Nat]
    /\ device \in {"none", "open", "running"}
    /\ track \in [id : Nat, epoch : Nat, at : Nat, length : Nat]
    /\ voice \in [Voices -> [id : Nat, left : Nat]]
    /\ heard \in Nat /\ asked \in Nat

(* What is in a ring, by position: the published commands that were taken,   *)
(* then those in the slots from the read index to the write index.           *)
RingHolds(r) ==
    LET taken == Len(received[r]) - Ahead(r) IN
    /\ Ahead(r) <= Waiting(r) /\ Ahead(r) <= Len(received[r])
    /\ Len(submitted[r]) = taken + Waiting(r)
    /\ \A n \in 1..Len(received[r]) : received[r][n] = submitted[r][n]
    /\ \A n \in 1..Waiting(r) :
          submitted[r][taken + n] = ring[r].slot[(ring[r].read + n - 1) % SlotCount[r]]

(* A command under way has a slot, which the callback does not look at.      *)
CommandFits(r) ==
    game.pc \in {"slot", "unpause", "unstop", "publish"} /\ RingOf(game.command) = r =>
        /\ Waiting(r) < SlotCount[r] - 1
        /\ game.pc # "slot" => ring[r].slot[ring[r].write] = game.command

(* What the callback still takes, once it has read the write index.          *)
Reading(r) == callback.pc \in {r, Advances[r]} \/ (r = "sounds" /\ callback.pc = "epoch")
CallbackBounded(r) ==
    Reading(r) =>
        LET left == Distance(r, ring[r].read, callback.end) IN
        /\ callback.read = ring[r].read /\ callback.end \in SlotNumbers(r)
        /\ Ahead(r) <= left /\ left <= Waiting(r)
        /\ callback.taken + left < SlotCount[r]

(* Epochs only grow while a device runs, and a command carries that of its   *)
(* submission; with the stop flag set every published play is of an earlier  *)
(* epoch.                                                                    *)
EpochsOrdered ==
    LET sounds == submitted["sounds"] IN
    /\ game.pc \in {"slot", "unpause", "unstop", "publish"} => game.command.epoch = shared.epoch
    /\ game.pc = "publish" /\ game.command.kind = "play" => shared.stopped = FALSE
    /\ \A n \in DOMAIN sounds :
          /\ sounds[n].epoch <= shared.epoch
          /\ sounds[n].kind = "play" /\ (shared.stopped = TRUE \/ game.pc = "stopped")
                => sounds[n].epoch < shared.epoch
    /\ callback.pc # "idle" => heard <= shared.epoch
    /\ callback.pc \in {"sounds", "sounds advance"} =>
          /\ callback.epoch <= shared.epoch
          /\ \A n \in 1..(Len(received["sounds"]) - Ahead("sounds")
                             + Distance("sounds", ring["sounds"].read, callback.end)) :
                sounds[n].epoch <= callback.epoch

(* The track is the last play of the present epoch that was taken.           *)
TrackIsLastPlay ==
    \A n \in DOMAIN received["sounds"] :
        LET command == received["sounds"][n] IN
        LastPlay(n) /\ command.epoch = shared.epoch
            => track.id = command.id /\ track.epoch = command.epoch

AudioInv == /\ AudioTypeOK
            /\ \A r \in Rings : RingHolds(r) /\ CommandFits(r) /\ CallbackBounded(r)
            /\ EpochsOrdered /\ TrackIsLastPlay
            /\ ResetIsAlone /\ StopSilencesEarlierTracks
=============================================================================
