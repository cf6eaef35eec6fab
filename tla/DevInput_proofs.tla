-------------------------- MODULE DevInput_proofs --------------------------
(***************************************************************************)
(* TLAPS proofs of the safety of browser input, for every set of pages and *)
(* keys, every socket capacity, every number of runs, with lossy networks  *)
(* and timed-out writes allowed.                                           *)
(***************************************************************************)
EXTENDS DevInput, TLAPS

USE MaxRunsAssumption, CapacityAssumption DEF MaxRunsAssumption, CapacityAssumption

----------------------------------------------------------------------------
(* Type correctness. *)

\* sendInput appends a well-formed request, or nothing.
LEMMA QueuedType ==
    ASSUME pages \in [Clients -> Pages], NEW c \in Clients,
           NEW kind, NEW key, NEW gen \in Generations \cup {NoGen},
           \/ kind \in {"down", "up"} /\ key \in Keys
           \/ kind \in {"release", "heartbeat"} /\ key = NoKey
    PROVE  Queued(c, kind, key, gen) \in Seq(Requests)
  <1>1. pages[c].queue \in Seq(Requests)
    BY DEF Pages
  <1>2. gen # NoGen => Request(c, kind, key, gen) \in Requests
    BY DEF Generations, NoGen, Requests, Request
  <1> QED
    BY <1>1, <1>2 DEF Queued

\* A request that is not turned away by its kind becomes a well-formed record.
LEMMA RecordType ==
    ASSUME NEW r \in Requests, r.kind \in {"down", "up", "release"}
    PROVE  RecordOf(r) \in Records
  BY DEF Requests, Records, RecordOf

\* No method of InputControl leaves the controller's type.
LEMMA WriteFailedType ==
    ASSUME ControlTypeOK, NEW alive, WriteFailed(alive) \/ DisconnectGame
    PROVE  ControlTypeOK'
  <1>1. control' = Detached /\ wire' = wire
    BY DEF WriteFailed, DisconnectGame
  <1> QED
    BY <1>1 DEF ControlTypeOK, ControlStates, Detached, NoGame

\* InputControl::apply keeps the controller and the wire well typed.
LEMMA ApplyType ==
    ASSUME ControlTypeOK, NEW alive \in BOOLEAN, NEW r \in Requests, Apply(r, alive)
    PROVE  ControlTypeOK'
  <1> USE DEF ControlTypeOK, ControlStates
  <1>0. r.client \in Clients
    BY DEF Requests
  <1>1. CASE ApplyRejected(r)
    BY <1>1 DEF ApplyRejected
  <1>2. CASE ApplyHeartbeat(r)
    BY <1>0, <1>2 DEF ApplyHeartbeat, Claimed
  <1>3. CASE ApplySent(r, alive)
    <2>1. RecordOf(r) \in Records
      BY <1>3, RecordType DEF ApplySent
    <2>2. wire' \in Seq(Records)
      BY <1>3, <2>1 DEF ApplySent, Written
    <2>3. control' \in ControlStates
      BY <1>0, <1>3 DEF ApplySent, Claimed, Freed
    <2> QED
      BY <2>2, <2>3
  <1>4. CASE ApplyFailed(r, alive)
    BY <1>4, WriteFailedType DEF ApplyFailed
  <1> QED
    BY <1>1, <1>2, <1>3, <1>4 DEF Apply

\* expire_lease keeps the controller and the wire well typed.
LEMMA WatchdogType ==
    ASSUME ControlTypeOK, NEW alive \in BOOLEAN, ExpireLease(alive) \/ LeaseAges
    PROVE  ControlTypeOK'
  <1> USE DEF ControlTypeOK, ControlStates
  <1>1. CASE Written(ServerRelease, alive) /\ control' = Freed
    <2>1. ServerRelease \in Records
      BY DEF ServerRelease, Records
    <2>2. wire' = Append(wire, ServerRelease) \/ wire' = wire
      BY <1>1 DEF Written
    <2>4. wire' \in Seq(Records)
      BY <2>1, <2>2
    <2>3. control' \in ControlStates
      BY <1>1 DEF Freed
    <2> QED
      BY <2>4, <2>3
  <1>2. CASE WriteFailed(alive)
    BY <1>2, WriteFailedType
  <1>3. CASE LeaseAges
    BY <1>3 DEF LeaseAges
  <1> QED
    BY <1>1, <1>2, <1>3 DEF ExpireLease

\* Applying a record keeps the game's key state well formed.
LEMMA AppliedRecordType ==
    ASSUME input \in InputStates, NEW r \in Records
    PROVE  AppliedRecord(r) \in InputStates
  BY DEF AppliedRecord, InputStates, Records, SetKeyDown, SetKeyUp, InputReleaseAll

\* What a page does keeps every variable in its type.
LEMMA PageStepType ==
    ASSUME TypeOK, NEW c \in Clients, PageStep(c)
    PROVE  TypeOK'
  <1> USE DEF TypeOK
  <1>p. /\ pages[c] = [alive |-> pages[c].alive, gen |-> pages[c].gen,
                       held |-> pages[c].held, queue |-> pages[c].queue]
        /\ pages[c].alive \in BOOLEAN /\ pages[c].gen \in Generations \cup {NoGen}
        /\ pages[c].held \in SUBSET Keys /\ pages[c].queue \in Seq(Requests)
    BY DEF Pages
  <1>t. pages[c].queue # << >> =>
            Head(pages[c].queue) \in Requests /\ Tail(pages[c].queue) \in Seq(Requests)
    BY <1>p
  <1>s. Sent(pages[c].queue) \in Seq(Requests)
    BY <1>p, <1>t DEF Sent
  <1>alive. ProcAlive \in BOOLEAN
    BY DEF ProcAlive
  <1>ctl. ASSUME UNCHANGED <<control, wire>> PROVE ControlTypeOK'
    BY <1>ctl DEF ControlTypeOK
  <1>1. ASSUME NEW k \in Keys, KeyDown(c, k) PROVE TypeOK'
    <2>1. Queued(c, "down", k, pages[c].gen) \in Seq(Requests)
      BY <1>p, QueuedType
    <2>2. pages' \in [Clients -> Pages]
      BY <1>1, <1>p, <2>1 DEF KeyDown, Pages
    <2> QED
      BY <1>1, <1>ctl, <2>2 DEF KeyDown, hostVars, gameVars
  <1>2. ASSUME NEW k \in Keys, KeyUp(c, k) PROVE TypeOK'
    <2>1. Queued(c, "up", k, pages[c].gen) \in Seq(Requests)
      BY <1>p, QueuedType
    <2>2. pages' \in [Clients -> Pages]
      BY <1>2, <1>p, <2>1 DEF KeyUp, Pages
    <2> QED
      BY <1>2, <1>ctl, <2>2 DEF KeyUp, hostVars, gameVars
  <1>3. ASSUME Blur(c) PROVE TypeOK'
    <2>1. Queued(c, "release", NoKey, pages[c].gen) \in Seq(Requests)
      BY <1>p, QueuedType
    <2>2. pages' \in [Clients -> Pages]
      BY <1>3, <1>p, <2>1 DEF Blur, Pages
    <2> QED
      BY <1>3, <1>ctl, <2>2 DEF Blur, hostVars, gameVars
  <1>4. ASSUME Heartbeat(c) PROVE TypeOK'
    <2>1. Queued(c, "heartbeat", NoKey, pages[c].gen) \in Seq(Requests)
      BY <1>p, QueuedType
    <2>2. pages' \in [Clients -> Pages]
      BY <1>4, <1>p, <2>1 DEF Heartbeat, Pages
    <2> QED
      BY <1>4, <1>ctl, <2>2 DEF Heartbeat, hostVars, gameVars
  <1>5. ASSUME LearnGeneration(c) PROVE TypeOK'
    <2>1. PICK g \in Generations :
            pages' = [pages EXCEPT ![c].gen = g, ![c].held = {},
                                   ![c].queue = Queued(c, "release", NoKey, g)]
      BY <1>5 DEF LearnGeneration
    <2>2. Queued(c, "release", NoKey, g) \in Seq(Requests)
      BY QueuedType
    <2>3. pages' \in [Clients -> Pages]
      BY <1>p, <2>1, <2>2 DEF Pages
    <2> QED
      BY <1>5, <1>ctl, <2>3 DEF LearnGeneration, hostVars, gameVars
  <1>6. ASSUME PageHide(c) \/ Vanish(c) PROVE TypeOK'
    <2>1. Gone(c) \in Pages
      BY <1>s DEF Gone, Pages
    <2>2. pages' \in [Clients -> Pages]
      BY <1>6, <2>1 DEF PageHide, Vanish
    <2>3. pages[c].gen # NoGen => Request(c, "release", NoKey, pages[c].gen) \in Requests
      BY <1>p DEF Request, Requests, Generations
    <2>4. beacons' \in SUBSET Requests
      BY <1>6, <2>3 DEF PageHide, Vanish
    <2> QED
      BY <1>6, <1>ctl, <2>2, <2>4 DEF PageHide, Vanish, hostVars, gameVars
  <1>7. ASSUME HandleInput(c) PROVE TypeOK'
    <2>1. ControlTypeOK'
      BY <1>7, <1>t, <1>alive, ApplyType DEF HandleInput
    <2>2. pages' \in [Clients -> Pages]
      BY <1>7, <1>p, <1>t DEF HandleInput, Answered, Pages
    <2> QED
      BY <1>7, <2>1, <2>2 DEF HandleInput, hostVars, gameVars
  <1>8. ASSUME HandleBeacon(c) PROVE TypeOK'
    <2>1. PICK b \in beacons : Apply(b, ProcAlive) /\ beacons' = beacons \ {b}
      BY <1>8 DEF HandleBeacon
    <2>2. ControlTypeOK'
      BY <2>1, <1>alive, ApplyType
    <2> QED
      BY <1>8, <2>1, <2>2 DEF HandleBeacon, hostVars, gameVars
  <1>9. ASSUME LoseRequest(c) PROVE TypeOK'
    <2>1. pages' \in [Clients -> Pages]
      BY <1>9, <1>p, <1>t DEF LoseRequest, Answered, Pages
    <2> QED
      BY <1>9, <1>ctl, <2>1 DEF LoseRequest, hostVars, gameVars
  <1>10. ASSUME LoseBeacon(c) PROVE TypeOK'
    BY <1>10, <1>ctl DEF LoseBeacon, hostVars, gameVars
  <1> QED
    BY <1>1, <1>2, <1>3, <1>4, <1>5, <1>6, <1>7, <1>8, <1>9, <1>10 DEF PageStep

\* The session, its threads and the game keep every variable in its type.
LEMMA HostStepType ==
    ASSUME TypeOK, HostStep
    PROVE  TypeOK'
  <1> USE DEF TypeOK
  <1>alive. ProcAlive \in BOOLEAN
    BY DEF ProcAlive
  <1>1. CASE WatchdogPoll \/ TimePasses
    <2>1. ControlTypeOK'
      BY <1>1, <1>alive, WatchdogType DEF WatchdogPoll, TimePasses
    <2> QED
      BY <1>1, <2>1 DEF WatchdogPoll, TimePasses, hostVars, gameVars, pageVars
  <1>2. CASE BeginRun
    <2>1. generation' \in Generations
      BY <1>2 DEF BeginRun, Generations
    <2>2. linked' \in BOOLEAN
      BY <1>2 DEF BeginRun
    <2>3. wire' \in Seq(Records)
      BY <1>2 DEF BeginRun
    <2> QED
      BY <1>2, <2>1, <2>2, <2>3 DEF BeginRun, ControlTypeOK, pageVars
  <1>3. CASE AcceptGame
    BY <1>3 DEF AcceptGame, ConnectGame, ControlTypeOK, ControlStates, Generations,
         gameVars, pageVars
  <1>4. CASE StopGame
    BY <1>4, WriteFailedType DEF StopGame, gameVars, pageVars
  <1>5. CASE ReceiverEnds
    BY <1>5, WriteFailedType DEF ReceiverEnds, gameVars, pageVars
  <1>6. CASE GameStopped
    BY <1>6 DEF GameStopped, ControlTypeOK, gameVars, pageVars
  <1> QED
    BY <1>1, <1>2, <1>3, <1>4, <1>5, <1>6 DEF HostStep

\* crumb_run's steps keep every variable in its type.
LEMMA GameStepType ==
    ASSUME TypeOK, GameStep
    PROVE  TypeOK'
  <1> USE DEF TypeOK
  <1>r. InputReset \in InputStates
    BY DEF InputReset, InputStates
  <1>1. CASE GameConnects
    BY <1>1, <1>r DEF GameConnects, ControlTypeOK, pageVars
  <1>2. CASE GameBeginsFrame
    BY <1>2 DEF GameBeginsFrame, InputBeginFrame, InputStates, ControlTypeOK, hostVars, pageVars
  <1>3. CASE GameReceives
    <2>1. wire # << >> /\ wire \in Seq(Records)
      BY <1>3 DEF GameReceives, ControlTypeOK
    <2>2. Head(wire) \in Records /\ Tail(wire) \in Seq(Records)
      BY <2>1
    <2>3. input' \in InputStates
      BY <1>3, <2>2, AppliedRecordType DEF GameReceives
    <2>4. Head(wire).by \in Clients \cup {NoClient}
      BY <2>2 DEF Records
    <2>5. source' \in [Keys -> Clients \cup {NoClient}]
      BY <1>3, <2>4 DEF GameReceives
    <2>6. ControlTypeOK'
      BY <1>3, <2>2 DEF GameReceives, ControlTypeOK
    <2> QED
      BY <1>3, <2>3, <2>5, <2>6 DEF GameReceives, hostVars, pageVars
  <1>4. CASE GameUpdates
    BY <1>4 DEF GameUpdates, ControlTypeOK, hostVars, pageVars
  <1>5. CASE GameExits
    BY <1>5, <1>r DEF GameExits, ControlTypeOK, hostVars, pageVars
  <1> QED
    BY <1>1, <1>2, <1>3, <1>4, <1>5 DEF GameStep

\* No step of the system leaves the types.
LEMMA NextType == TypeOK /\ [Next]_vars => TypeOK'
  <1> SUFFICES ASSUME TypeOK, [Next]_vars PROVE TypeOK'
    OBVIOUS
  <1>1. CASE UNCHANGED vars
    BY <1>1 DEF vars, hostVars, gameVars, pageVars, TypeOK, ControlTypeOK
  <1> QED
    BY <1>1, PageStepType, HostStepType, GameStepType DEF Next

\* A session that has just started is well typed.
LEMMA InitType == Init => TypeOK
  <1> SUFFICES ASSUME Init PROVE TypeOK
    OBVIOUS
  <1>1. ControlTypeOK
    BY DEF Init, ControlInit, ControlTypeOK, ControlStates, NoGame
  <1>2. pages \in [Clients -> Pages]
    BY DEF Init, Pages
  <1>3. input \in InputStates
    BY DEF Init, InputReset, InputStates
  <1>4. generation \in Generations
    BY DEF Init, Generations
  <1>6. linked \in BOOLEAN
    BY DEF Init
  <1>5. source \in [Keys -> Clients \cup {NoClient}]
    BY DEF Init
  <1> QED
    BY <1>1, <1>2, <1>3, <1>4, <1>5, <1>6 DEF Init, TypeOK

(* Every variable keeps its type in every behaviour. *)
THEOREM TypeCorrect == Spec => []TypeOK
  BY InitType, NextType, PTL DEF Spec

----------------------------------------------------------------------------
(* The inductive invariant. *)

\* Steps of a page alone touch nothing the invariant speaks of.
LEMMA PageOnlyInv ==
    ASSUME InputInv, TypeOK', UNCHANGED <<control, wire, hostVars, gameVars>>
    PROVE  InputInv'
  BY DEF InputInv, RunShape, AttachedGameIsCurrent, InputOfThisRun, LeaseCanExpire,
     UnreleasedBelongToOwner, HandoverReleasesFirst, EdgesTellWhatHappened,
     hostVars, gameVars, ProcAlive, IsRelease

\* The controller lets go of the game.
LEMMA DetachInv ==
    ASSUME InputInv, TypeOK', UNCHANGED <<hostVars, gameVars>>,
           control' = Detached, wire' = wire
    PROVE  InputInv'
  <1>1. control'.game = NoGame /\ control'.owner = NoClient /\ control'.lastSeen = "none"
    BY DEF Detached, InputInv, TypeOK, ControlTypeOK, ControlStates
  <1> QED
    BY <1>1 DEF InputInv, RunShape, AttachedGameIsCurrent, InputOfThisRun, LeaseCanExpire,
       UnreleasedBelongToOwner, HandoverReleasesFirst, EdgesTellWhatHappened,
       hostVars, gameVars, ProcAlive, IsRelease

\* The lease is renewed, claimed or ages, and nothing is sent.
LEMMA LeaseInv ==
    ASSUME InputInv, TypeOK', UNCHANGED <<hostVars, gameVars>>, wire' = wire,
           control.game # NoGame,
           control'.game = control.game, control'.generation = control.generation,
           control'.owner \in Clients, control'.lastSeen # "none",
           control.owner \in {NoClient, control'.owner}
    PROVE  InputInv'
  <1>1. UnreleasedBelongToOwner'
    <2>1. \A i \in DOMAIN wire : ~IsRelease(wire[i]) => wire[i].by \in Clients
      BY DEF InputInv, TypeOK, ControlTypeOK, Records, IsRelease
    <2> QED
      BY <2>1, NoClientAssumption DEF InputInv, RunShape, UnreleasedBelongToOwner,
         gameVars, IsRelease
  <1>2. LeaseCanExpire'
    BY NoClientAssumption DEF LeaseCanExpire
  <1> QED
    BY <1>1, <1>2 DEF InputInv, RunShape, AttachedGameIsCurrent, InputOfThisRun,
       HandoverReleasesFirst, EdgesTellWhatHappened, hostVars, gameVars, ProcAlive, IsRelease

\* A control record is written: a key of the (new) owner, or a release-all.
LEMMA SendInv ==
    ASSUME InputInv, TypeOK', UNCHANGED <<hostVars, gameVars>>,
           NEW rec \in Records, rec.gen = control.generation,
           Written(rec, ProcAlive),
           control'.game = control.game, control'.generation = control.generation,
           \/ /\ ~IsRelease(rec)
              /\ control'.owner = rec.by /\ control'.lastSeen # "none"
              /\ control.owner \in {NoClient, rec.by}
           \/ /\ IsRelease(rec)
              /\ control'.owner = NoClient /\ control'.lastSeen = "none"
    PROVE  InputInv'
  <1>0. /\ control.game # NoGame /\ control.generation = generation
        /\ receiver = "reading" /\ wire \in Seq(Records)
        /\ \A k \in input.down : source[k] \in Clients
        /\ ~IsRelease(rec) => rec.by \in Clients
        /\ \A i \in DOMAIN wire : ~IsRelease(wire[i]) => wire[i].by \in Clients
    BY DEF Written, InputInv, AttachedGameIsCurrent, TypeOK, ControlTypeOK, RunShape,
       Records, IsRelease
  <1>1. LeaseCanExpire' /\ AttachedGameIsCurrent' /\ EdgesTellWhatHappened'
    BY <1>0, NoClientAssumption DEF LeaseCanExpire, InputInv, AttachedGameIsCurrent,
       EdgesTellWhatHappened, hostVars, gameVars
  <1>2. CASE ~ProcAlive
    <2>1. wire' = << >> /\ input'.down = {}
      BY <1>2 DEF Written, InputInv, RunShape, gameVars
    <2> QED
      BY <1>0, <1>1, <2>1 DEF InputInv, RunShape, InputOfThisRun, UnreleasedBelongToOwner,
         HandoverReleasesFirst, hostVars, gameVars, ProcAlive
  <1>3. CASE ProcAlive
    <2>1. /\ wire' = Append(wire, rec)
          /\ Len(wire') = Len(wire) + 1 /\ Len(wire) \in Nat
          /\ wire'[Len(wire) + 1] = rec
          /\ \A i \in DOMAIN wire : wire'[i] = wire[i]
          /\ DOMAIN wire = 1..Len(wire) /\ DOMAIN wire' = 1..(Len(wire) + 1)
      BY <1>0, <1>3 DEF Written
    <2>2. RunShape'
      BY <1>0, <1>3 DEF InputInv, RunShape, hostVars, gameVars, ProcAlive
    <2>3. InputOfThisRun'
      BY <1>0, <2>1 DEF InputInv, InputOfThisRun, hostVars
    <2>4. UnreleasedBelongToOwner'
      BY <1>0, <2>1, NoClientAssumption
         DEF InputInv, UnreleasedBelongToOwner, gameVars, IsRelease
    <2>5. HandoverReleasesFirst'
      <3> USE <1>0, <2>1 DEF IsRelease
      <3>1. ASSUME NEW j \in DOMAIN wire', NEW k \in input.down,
                   ~IsRelease(wire'[j]), wire'[j].by # source[k]
            PROVE  \E m \in DOMAIN wire' : 0 < m /\ m < j /\ IsRelease(wire'[m])
        <4>1. CASE j \in DOMAIN wire
          BY <3>1, <4>1 DEF InputInv, HandoverReleasesFirst
        <4>2. CASE j = Len(wire) + 1
          BY <3>1, <4>2, NoClientAssumption DEF InputInv, UnreleasedBelongToOwner
        <4> QED
          BY <4>1, <4>2
      <3>2. ASSUME NEW j \in DOMAIN wire', NEW i \in 1..(j - 1), ~IsRelease(wire'[i]),
                   ~IsRelease(wire'[j]), wire'[j].by # wire'[i].by
            PROVE  \E m \in DOMAIN wire' : i < m /\ m < j /\ IsRelease(wire'[m])
        <4>1. CASE j \in DOMAIN wire
          BY <3>2, <4>1 DEF InputInv, HandoverReleasesFirst
        <4>2. CASE j = Len(wire) + 1
          BY <3>2, <4>2, NoClientAssumption DEF InputInv, UnreleasedBelongToOwner
        <4> QED
          BY <4>1, <4>2
      <3> QED
        BY <3>1, <3>2 DEF HandoverReleasesFirst, gameVars
    <2> QED
      BY <1>1, <2>2, <2>3, <2>4, <2>5 DEF InputInv
  <1> QED
    BY <1>2, <1>3

\* InputControl::apply, for a request of a page or of a beacon.
LEMMA ApplyInv ==
    ASSUME InputInv, TypeOK', UNCHANGED <<hostVars, gameVars>>,
           NEW r \in Requests, Apply(r, ProcAlive)
    PROVE  InputInv'
  <1>0. control \in ControlStates /\ r.client \in Clients
    BY DEF InputInv, TypeOK, ControlTypeOK, Requests
  <1>1. CASE ApplyRejected(r)
    BY <1>1, PageOnlyInv DEF ApplyRejected
  <1>2. CASE ApplyHeartbeat(r)
    BY <1>0, <1>2, LeaseInv DEF ApplyHeartbeat, Claimed, Rejected, ControlStates
  <1>3. CASE ApplySent(r, ProcAlive)
    <2>1. RecordOf(r) \in Records
      BY <1>3, RecordType DEF ApplySent
    <2>2. RecordOf(r).gen = control.generation /\ control.owner \in {NoClient, r.client}
      BY <1>3 DEF ApplySent, Rejected, RecordOf
    <2>3. /\ control'.game = control.game /\ control'.generation = control.generation
          /\ IF r.kind = "release"
             THEN control'.owner = NoClient /\ control'.lastSeen = "none"
             ELSE control'.owner = r.client /\ control'.lastSeen = "fresh"
      BY <1>0, <1>3 DEF ApplySent, Claimed, Freed, ControlStates
    <2>4. RecordOf(r).by = r.client /\ (IsRelease(RecordOf(r)) <=> r.kind = "release")
      BY DEF RecordOf, IsRelease
    <2> QED
      BY <1>3, <2>1, <2>2, <2>3, <2>4, SendInv DEF ApplySent
  <1>4. CASE ApplyFailed(r, ProcAlive)
    BY <1>4, DetachInv DEF ApplyFailed, WriteFailed
  <1> QED
    BY <1>1, <1>2, <1>3, <1>4 DEF Apply

\* The watchdog, the session and the receiver keep the invariant.
LEMMA HostStepInv ==
    ASSUME InputInv, TypeOK', HostStep
    PROVE  InputInv'
  <1>0. control \in ControlStates /\ generation \in Nat
    BY DEF InputInv, TypeOK, ControlTypeOK, Generations
  <1> USE DEF ControlStates
  <1>1. CASE WatchdogPoll
    <2>1. CASE Written(ServerRelease, ProcAlive) /\ control' = Freed
      <3>1. ServerRelease \in Records /\ IsRelease(ServerRelease)
            /\ ServerRelease.gen = control.generation
        BY <1>0 DEF ServerRelease, Records, IsRelease
      <3>2. /\ control'.game = control.game /\ control'.generation = control.generation
            /\ control'.owner = NoClient /\ control'.lastSeen = "none"
        BY <1>0, <2>1 DEF Freed
      <3> QED
        BY <1>1, <2>1, <3>1, <3>2, SendInv DEF WatchdogPoll
    <2>2. CASE WriteFailed(ProcAlive)
      BY <1>1, <2>2, DetachInv DEF WatchdogPoll, WriteFailed
    <2> QED
      BY <1>1, <2>1, <2>2 DEF WatchdogPoll, ExpireLease
  <1>2. CASE TimePasses
    <2>1. control.owner # NoClient /\ control.game # NoGame
      BY <1>2 DEF TimePasses, LeaseAges, InputInv, LeaseCanExpire
    <2>2. /\ control'.game = control.game /\ control'.generation = control.generation
          /\ control'.owner = control.owner /\ control'.lastSeen = "expired"
      BY <1>0, <1>2 DEF TimePasses, LeaseAges
    <2> QED
      BY <1>0, <1>2, <2>1, <2>2, LeaseInv DEF TimePasses, LeaseAges
  <1>3. CASE BeginRun
    <2>1. /\ control.game = NoGame /\ control' = control
          /\ wire' = << >> /\ input' = input /\ input.down = {}
      BY <1>3 DEF BeginRun, InputInv, RunShape, AttachedGameIsCurrent, ProcAlive
    <2> QED
      BY <1>3, <2>1 DEF BeginRun, InputInv, RunShape, AttachedGameIsCurrent,
         InputOfThisRun, LeaseCanExpire, UnreleasedBelongToOwner, HandoverReleasesFirst,
         EdgesTellWhatHappened
  <1>4. CASE AcceptGame
    <2>1. /\ control'.game = generation /\ control'.generation = generation
          /\ control'.owner = NoClient /\ control'.lastSeen = "none"
          /\ wire' = << >> /\ input' = input /\ input.down = {}
          /\ wire = << >>
      BY <1>4 DEF AcceptGame, ConnectGame, InputInv, RunShape, gameVars
    <2>2. RunShape'
      BY <1>4, <2>1 DEF AcceptGame, InputInv, RunShape, ProcAlive, gameVars
    <2>3. AttachedGameIsCurrent' /\ LeaseCanExpire' /\ EdgesTellWhatHappened'
      BY <1>4, <2>1 DEF AcceptGame, InputInv, AttachedGameIsCurrent, LeaseCanExpire,
         EdgesTellWhatHappened, gameVars
    <2>4. InputOfThisRun' /\ UnreleasedBelongToOwner' /\ HandoverReleasesFirst'
      BY <2>1 DEF InputOfThisRun, UnreleasedBelongToOwner, HandoverReleasesFirst
    <2> QED
      BY <2>2, <2>3, <2>4 DEF InputInv
  <1>5. CASE StopGame \/ ReceiverEnds
    <2>1. /\ control'.game = NoGame /\ control'.owner = NoClient
          /\ control'.lastSeen = "none" /\ wire' = wire
      BY <1>0, <1>5 DEF StopGame, ReceiverEnds, DisconnectGame, Detached
    <2>2. RunShape'
      BY <1>5, <2>1 DEF StopGame, ReceiverEnds, InputInv, RunShape, ProcAlive, gameVars
    <2> QED
      BY <1>5, <2>1, <2>2 DEF StopGame, ReceiverEnds, InputInv, AttachedGameIsCurrent,
         InputOfThisRun, LeaseCanExpire, UnreleasedBelongToOwner, HandoverReleasesFirst,
         EdgesTellWhatHappened, gameVars, IsRelease
  <1>6. CASE GameStopped
    BY <1>6 DEF GameStopped, InputInv, RunShape, AttachedGameIsCurrent,
       InputOfThisRun, LeaseCanExpire, UnreleasedBelongToOwner, HandoverReleasesFirst,
       EdgesTellWhatHappened, ProcAlive, gameVars, IsRelease
  <1> QED
    BY <1>1, <1>2, <1>3, <1>4, <1>5, <1>6 DEF HostStep

\* The game reads one record: what was behind it moves up, keys answer to its sender.
LEMMA ReceiveInv ==
    ASSUME InputInv, TypeOK', GameReceives
    PROVE  InputInv'
  <1>0. /\ wire \in Seq(Records) /\ wire # << >> /\ Head(wire) = wire[1]
        /\ wire' = Tail(wire) /\ Len(wire') = Len(wire) - 1 /\ Len(wire) \in Nat
        /\ DOMAIN wire' = 1..(Len(wire) - 1) /\ DOMAIN wire = 1..Len(wire)
        /\ \A i \in DOMAIN wire' : wire'[i] = wire[i + 1]
        /\ wire[1] \in Records
        /\ \A i \in DOMAIN wire : wire[i] \in Records
    BY DEF GameReceives, InputInv, TypeOK, ControlTypeOK
  <1>1. input \in InputStates /\ input' = AppliedRecord(wire[1])
    BY <1>0 DEF GameReceives, InputInv, TypeOK
  <1>2. /\ IsRelease(wire[1]) => input'.down = {}
        /\ wire[1].kind = "up" => input'.down \subseteq input.down
        /\ wire[1].kind = "down" =>
              /\ wire[1].key \in Keys /\ wire[1].by \in Clients
              /\ input'.down = input.down \cup {wire[1].key}
        /\ wire[1].kind \in {"up", "down", "release"}
    BY <1>0, <1>1 DEF AppliedRecord, InputStates, SetKeyDown, SetKeyUp, InputReleaseAll,
       IsRelease, Records
  <1>3. \A k \in input'.down :
            /\ ~IsRelease(wire[1])
            /\ k \in Keys
            /\ k \in input.down => source'[k] = source[k]
            /\ k \notin input.down => source'[k] = wire[1].by /\ wire[1].kind = "down"
    <2>1. input'.down \subseteq Keys
      BY DEF TypeOK, InputStates
    <2>2. \A k \in Keys : source'[k] = IF k \notin input'.down THEN NoClient
                                   ELSE IF k \in input.down THEN source[k] ELSE wire[1].by
      BY <1>0 DEF GameReceives
    <2> QED
      BY <1>2, <2>1, <2>2 DEF IsRelease
  <1>4. RunShape'
    BY <1>0, <1>2, <1>3 DEF InputInv, RunShape, GameReceives, ProcAlive, hostVars
  <1>5. AttachedGameIsCurrent' /\ LeaseCanExpire'
    BY DEF InputInv, AttachedGameIsCurrent, LeaseCanExpire, GameReceives, hostVars
  <1>6. InputOfThisRun'
    BY <1>0 DEF InputInv, InputOfThisRun, GameReceives, hostVars
  <1>7. UnreleasedBelongToOwner'
    <2> SUFFICES ASSUME control.game # NoGame PROVE UnreleasedBelongToOwner'
      BY DEF UnreleasedBelongToOwner, GameReceives
    <2>1. ASSUME NEW i \in DOMAIN wire', ~IsRelease(wire'[i]),
                 \A j \in DOMAIN wire' : j > i => ~IsRelease(wire'[j])
          PROVE  wire'[i].by = control.owner
      <3>1. \A j \in DOMAIN wire : j > i + 1 => ~IsRelease(wire[j])
        <4> SUFFICES ASSUME NEW j \in DOMAIN wire, j > i + 1 PROVE ~IsRelease(wire[j])
          OBVIOUS
        <4>1. j - 1 \in DOMAIN wire' /\ j - 1 > i /\ wire'[j - 1] = wire[j]
          BY <1>0, <2>1
        <4> QED
          BY <2>1, <4>1
      <3> QED
        BY <1>0, <2>1, <3>1 DEF InputInv, UnreleasedBelongToOwner
    <2>2. ASSUME NEW k \in input'.down, \A j \in DOMAIN wire' : ~IsRelease(wire'[j])
          PROVE  source'[k] = control.owner
      <3>1. \A j \in DOMAIN wire : ~IsRelease(wire[j])
        <4> SUFFICES ASSUME NEW j \in DOMAIN wire, j # 1 PROVE ~IsRelease(wire[j])
          BY <1>3, <2>2
        <4>1. j - 1 \in DOMAIN wire' /\ wire'[j - 1] = wire[j]
          BY <1>0
        <4> QED
          BY <2>2, <4>1
      <3>2. CASE k \in input.down
        BY <1>3, <3>1, <3>2 DEF InputInv, UnreleasedBelongToOwner
      <3>3. CASE k \notin input.down
        BY <1>0, <1>3, <3>1, <3>3 DEF InputInv, UnreleasedBelongToOwner
      <3> QED
        BY <3>2, <3>3
    <2> QED
      BY <2>1, <2>2 DEF UnreleasedBelongToOwner, GameReceives
  <1>8. HandoverReleasesFirst'
    <2>0. \A i, j \in DOMAIN wire :
            i < j /\ ~IsRelease(wire[i]) /\ ~IsRelease(wire[j]) /\ wire[j].by # wire[i].by =>
                \E m \in DOMAIN wire : i < m /\ m < j /\ IsRelease(wire[m])
      BY <1>0 DEF InputInv, HandoverReleasesFirst
    <2>1. ASSUME NEW j \in DOMAIN wire', NEW k \in input'.down,
                 ~IsRelease(wire'[j]), wire'[j].by # source'[k]
          PROVE  \E m \in DOMAIN wire' : 0 < m /\ m < j /\ IsRelease(wire'[m])
      <3>1. \E m \in DOMAIN wire : 0 < m /\ m < j + 1 /\ IsRelease(wire[m]) /\ m # 1
        <4>1. j + 1 \in DOMAIN wire /\ wire'[j] = wire[j + 1] /\ 1 \in DOMAIN wire /\ 1 < j + 1
          BY <1>0
        <4>2. CASE k \in input.down
          BY <1>3, <2>1, <4>1, <4>2 DEF InputInv, HandoverReleasesFirst
        <4>3. CASE k \notin input.down
          <5>1. ~IsRelease(wire[1]) /\ ~IsRelease(wire[j + 1]) /\ wire[j + 1].by # wire[1].by
            BY <1>3, <2>1, <4>1, <4>3
          <5>2. PICK m \in DOMAIN wire : 1 < m /\ m < j + 1 /\ IsRelease(wire[m])
            BY <2>0, <4>1, <5>1
          <5> QED
            BY <1>0, <5>2
        <4> QED
          BY <4>2, <4>3
      <3>2. PICK m \in DOMAIN wire : 0 < m /\ m < j + 1 /\ IsRelease(wire[m]) /\ m # 1
        BY <3>1
      <3>3. m - 1 \in DOMAIN wire' /\ wire'[m - 1] = wire[m] /\ 0 < m - 1 /\ m - 1 < j
        BY <1>0, <3>2
      <3> QED
        BY <3>2, <3>3
    <2>2. ASSUME NEW j \in DOMAIN wire', NEW i \in 1..(j - 1), ~IsRelease(wire'[i]),
                 ~IsRelease(wire'[j]), wire'[j].by # wire'[i].by
          PROVE  \E m \in DOMAIN wire' : i < m /\ m < j /\ IsRelease(wire'[m])
      <3>1. /\ i \in DOMAIN wire' /\ wire'[i] = wire[i + 1] /\ wire'[j] = wire[j + 1]
            /\ j + 1 \in DOMAIN wire /\ i + 1 \in DOMAIN wire /\ i + 1 < j + 1
        BY <1>0
      <3>2. PICK m \in DOMAIN wire : i + 1 < m /\ m < j + 1 /\ IsRelease(wire[m])
        BY <2>0, <2>2, <3>1
      <3>3. m - 1 \in DOMAIN wire' /\ wire'[m - 1] = wire[m] /\ i < m - 1 /\ m - 1 < j
        BY <1>0, <3>2
      <3> QED
        BY <3>2, <3>3
    <2> QED
      BY <2>1, <2>2 DEF HandoverReleasesFirst
  <1>9. EdgesTellWhatHappened'
    BY <1>0, <1>1 DEF InputInv, EdgesTellWhatHappened, GameReceives, AppliedRecord,
       InputStates, SetKeyDown, SetKeyUp, InputReleaseAll, Records
  <1> QED
    BY <1>4, <1>5, <1>6, <1>7, <1>8, <1>9 DEF InputInv

\* The game's start, frame loop and exit keep the invariant.
LEMMA GameStepInv ==
    ASSUME InputInv, TypeOK', GameStep
    PROVE  InputInv'
  <1> USE DEF InputInv, RunShape, AttachedGameIsCurrent, InputOfThisRun, LeaseCanExpire,
          UnreleasedBelongToOwner, HandoverReleasesFirst, EdgesTellWhatHappened,
          ProcAlive, IsRelease, hostVars
  <1>t. input \in InputStates
    BY DEF TypeOK
  <1>1. CASE GameConnects
    <2>1. wire' = << >> /\ input'.down = {} /\ input'.pressed = {}
          /\ input'.released = {} /\ before' = {}
      BY <1>1 DEF GameConnects, InputReset
    <2> QED
      BY <1>1, <2>1 DEF GameConnects
  <1>2. CASE GameBeginsFrame
    <2>1. input'.down = input.down /\ input'.pressed = {} /\ input'.released = {}
      BY <1>2, <1>t DEF GameBeginsFrame, InputBeginFrame, InputStates
    <2> QED
      BY <1>2, <2>1 DEF GameBeginsFrame
  <1>3. CASE GameReceives
    BY <1>3, ReceiveInv
  <1>4. CASE GameUpdates
    BY <1>4 DEF GameUpdates
  <1>5. CASE GameExits
    <2>1. wire' = << >> /\ input'.down = {} /\ proc' = "exited"
      BY <1>5 DEF GameExits, InputReset
    <2> QED
      BY <1>5, <2>1 DEF GameExits
  <1> QED
    BY <1>1, <1>2, <1>3, <1>4, <1>5 DEF GameStep

\* Page events and the requests they cause keep the invariant.
LEMMA PageStepInv ==
    ASSUME InputInv, TypeOK', NEW c \in Clients, PageStep(c)
    PROVE  InputInv'
  <1>1. CASE HandleInput(c)
    <2>1. Head(pages[c].queue) \in Requests
      BY <1>1 DEF HandleInput, InputInv, TypeOK, Pages
    <2> QED
      BY <1>1, <2>1, ApplyInv DEF HandleInput
  <1>2. CASE HandleBeacon(c)
    BY <1>2, ApplyInv DEF HandleBeacon, InputInv, TypeOK
  <1>3. CASE ~HandleInput(c) /\ ~HandleBeacon(c)
    <2>1. UNCHANGED <<control, wire, hostVars, gameVars>>
      BY <1>3 DEF PageStep, KeyDown, KeyUp, Blur, Heartbeat, LearnGeneration, PageHide,
         Vanish, LoseRequest, LoseBeacon
    <2> QED
      BY <2>1, PageOnlyInv
  <1> QED
    BY <1>1, <1>2, <1>3

\* The invariant holds when the session starts.
LEMMA InitInv == Init => InputInv
  <1> SUFFICES ASSUME Init PROVE InputInv
    OBVIOUS
  <1>1. /\ wire = << >> /\ input.down = {} /\ proc = "none" /\ control.game = NoGame
        /\ control.owner = NoClient /\ control.lastSeen = "none"
        /\ session = "idle" /\ receiver = "none"
    BY DEF Init, ControlInit, InputReset
  <1> QED
    BY <1>1, InitType DEF InputInv, RunShape, AttachedGameIsCurrent, InputOfThisRun,
       LeaseCanExpire, UnreleasedBelongToOwner, HandoverReleasesFirst, EdgesTellWhatHappened,
       ProcAlive

\* The invariant is inductive.
LEMMA NextInv == InputInv /\ [Next]_vars => InputInv'
  <1> SUFFICES ASSUME InputInv, [Next]_vars PROVE InputInv'
    OBVIOUS
  <1>1. TypeOK'
    BY NextType DEF InputInv
  <1>2. CASE UNCHANGED vars
    BY <1>1, <1>2, PageOnlyInv DEF vars
  <1>3. CASE HostStep
    BY <1>1, <1>3, HostStepInv
  <1>4. CASE GameStep
    BY <1>1, <1>4, GameStepInv
  <1>5. ASSUME NEW c \in Clients, PageStep(c) PROVE InputInv'
    BY <1>1, <1>5, PageStepInv
  <1> QED
    BY <1>2, <1>3, <1>4, <1>5 DEF Next

(* The invariant that carries every safety property of browser input. *)
THEOREM InputSafety == Spec => []InputInv
  BY InitInv, NextInv, PTL DEF Spec

(* The strengthened form implies what the runs check about held keys.      *)
LEMMA HeldKeysAnswer == InputInv => KeysAnswerToOwner
  <1> SUFFICES ASSUME InputInv, control.game # NoGame,
                      NEW k \in Keys, NEW c \in Clients, WillHold(k, c)
               PROVE  control.owner = c
    BY DEF KeysAnswerToOwner
  <1>0. wire \in Seq(Records) /\ DOMAIN wire = 1..Len(wire) /\ Len(wire) \in Nat
    BY DEF InputInv, TypeOK, ControlTypeOK
  <1>1. CASE k \in input.down /\ source[k] = c /\ \A i \in DOMAIN wire : ~Lifts(wire[i], k)
    BY <1>1 DEF InputInv, UnreleasedBelongToOwner, Lifts
  <1>2. CASE \E i \in DOMAIN wire :
                /\ wire[i].kind = "down" /\ wire[i].key = k /\ wire[i].by = c
                /\ \A j \in (i + 1)..Len(wire) : ~Lifts(wire[j], k)
    <2>1. PICK i \in DOMAIN wire :
                /\ wire[i].kind = "down" /\ wire[i].by = c
                /\ \A j \in (i + 1)..Len(wire) : ~Lifts(wire[j], k)
      BY <1>2
    <2>2. ~IsRelease(wire[i]) /\ \A j \in DOMAIN wire : j > i => ~IsRelease(wire[j])
      BY <1>0, <2>1 DEF IsRelease, Lifts
    <2> QED
      BY <2>1, <2>2 DEF InputInv, UnreleasedBelongToOwner
  <1> QED
    BY <1>1, <1>2 DEF WillHold

(* Input of an old run never reaches a new game, however it was delayed:   *)
(* InputControl::apply compares the request's generation under the lock    *)
(* that selects the game, and that game is always the current run.         *)
THEOREM NoInputAcrossRestarts == Spec => [](AttachedGameIsCurrent /\ InputOfThisRun)
  <1>1. InputInv => AttachedGameIsCurrent /\ InputOfThisRun
    BY DEF InputInv
  <1> QED
    BY <1>1, InputSafety, PTL

(* Whoever does not own the lease holds no key of the attached game, and   *)
(* every handover is separated by a release-all.                           *)
THEOREM LeaseGuardsKeys == Spec => [](KeysAnswerToOwner /\ HandoverReleasesFirst)
  <1>1. InputInv => KeysAnswerToOwner /\ HandoverReleasesFirst
    BY HeldKeysAnswer DEF InputInv
  <1> QED
    BY <1>1, InputSafety, PTL

(* key_pressed and key_released tell a program exactly what its poll read. *)
THEOREM EdgesSound == Spec => []EdgesTellWhatHappened
  <1>1. InputInv => EdgesTellWhatHappened
    BY DEF InputInv
  <1> QED
    BY <1>1, InputSafety, PTL

(* Every lease the watchdog can see it can also end. *)
THEOREM LeasesExpire == Spec => []LeaseCanExpire
  <1>1. InputInv => LeaseCanExpire
    BY DEF InputInv
  <1> QED
    BY <1>1, InputSafety, PTL

----------------------------------------------------------------------------
(* Browser input implements the lease of module KeyLease. *)

\* Once the game has read its wire it holds k, whoever pressed it.
Holds(k) ==
    \/ /\ k \in input.down
       /\ \A i \in DOMAIN wire : ~Lifts(wire[i], k)
    \/ \E i \in DOMAIN wire :
         /\ wire[i].kind = "down" /\ wire[i].key = k
         /\ \A j \in DOMAIN wire : j > i => ~Lifts(wire[j], k)

\* The keys the attached game is going to hold: KeyLease's held.
HeldKeys == IF control.game = NoGame THEN {} ELSE {k \in Keys : Holds(k)}

\* A held key has a client that pressed it, so the mapping may forget which.
LEMMA SomebodyHolds ==
    ASSUME TypeOK, RunShape, NEW k \in Keys
    PROVE  (\E c \in Clients : WillHold(k, c)) <=> Holds(k)
  <1>0. /\ wire \in Seq(Records) /\ DOMAIN wire = 1..Len(wire) /\ Len(wire) \in Nat
        /\ \A i \in DOMAIN wire : wire[i].kind = "down" => wire[i].by \in Clients
        /\ \A i, j \in DOMAIN wire : j > i <=> j \in (i + 1)..Len(wire)
        /\ \A i \in DOMAIN wire : (i + 1)..Len(wire) \subseteq DOMAIN wire
    BY DEF TypeOK, ControlTypeOK, Records
  <1>1. k \in input.down => source[k] \in Clients
    BY DEF RunShape
  <1>2. ASSUME NEW c \in Clients, WillHold(k, c) PROVE Holds(k)
    BY <1>0, <1>2 DEF WillHold, Holds
  <1>3. ASSUME Holds(k) PROVE \E c \in Clients : WillHold(k, c)
    <2>1. CASE k \in input.down /\ \A i \in DOMAIN wire : ~Lifts(wire[i], k)
      BY <1>1, <2>1 DEF WillHold
    <2>2. CASE \E i \in DOMAIN wire :
                 /\ wire[i].kind = "down" /\ wire[i].key = k
                 /\ \A j \in DOMAIN wire : j > i => ~Lifts(wire[j], k)
      <3>1. PICK i \in DOMAIN wire :
                 /\ wire[i].kind = "down" /\ wire[i].key = k
                 /\ \A j \in DOMAIN wire : j > i => ~Lifts(wire[j], k)
        BY <2>2
      <3>2. \A j \in (i + 1)..Len(wire) : ~Lifts(wire[j], k)
        BY <1>0, <3>1
      <3>3. WillHold(k, wire[i].by)
        BY <3>1, <3>2 DEF WillHold
      <3> QED
        BY <1>0, <3>1, <3>3
    <2> QED
      BY <1>3, <2>1, <2>2 DEF Holds
  <1> QED
    BY <1>2, <1>3

\* The refinement mapping, in the form the steps below use.
LEMMA MappedHeld ==
    ASSUME TypeOK, RunShape
    PROVE  HeldKeys = IF control.game = NoGame THEN {}
                      ELSE {k \in Keys : \E c \in Clients : WillHold(k, c)}
  BY SomebodyHolds DEF HeldKeys

\* A clean socket and a game with no key down hold nothing.
LEMMA CleanHoldsNothing ==
    ASSUME wire = << >>, input.down = {}
    PROVE  HeldKeys = {}
  BY DEF HeldKeys, Holds

\* Writing a record presses its key, lifts its key, or lifts every key.
LEMMA WritingMovesKeys ==
    ASSUME InputInv, NEW rec \in Records, wire' = Append(wire, rec),
           UNCHANGED input, control.game # NoGame, control'.game # NoGame
    PROVE  /\ rec.kind = "down" => HeldKeys' = HeldKeys \cup {rec.key}
           /\ rec.kind = "up" => HeldKeys' = HeldKeys \ {rec.key}
           /\ rec.kind = "release" => HeldKeys' = {}
  <1>0. /\ wire \in Seq(Records) /\ Len(wire) \in Nat
        /\ DOMAIN wire = 1..Len(wire) /\ DOMAIN wire' = 1..(Len(wire) + 1)
        /\ wire'[Len(wire) + 1] = rec
        /\ \A i \in DOMAIN wire : wire'[i] = wire[i]
        /\ rec.kind \in {"down", "up"} => rec.key \in Keys
    BY DEF InputInv, TypeOK, ControlTypeOK, Records
  <1>1. ASSUME NEW k \in Keys
        PROVE  Holds(k)' <=> /\ ~Lifts(rec, k)
                             /\ Holds(k) \/ (rec.kind = "down" /\ rec.key = k)
    <2>1. Lifts(rec, k) => rec.kind # "down"
      BY DEF Lifts, IsRelease
    <2>2. ASSUME Holds(k)'
          PROVE  ~Lifts(rec, k) /\ (Holds(k) \/ (rec.kind = "down" /\ rec.key = k))
      <3>1. CASE k \in input'.down /\ \A i \in DOMAIN wire' : ~Lifts(wire'[i], k)
        BY <1>0, <3>1 DEF Holds
      <3>2. CASE \E i \in DOMAIN wire' :
                   /\ wire'[i].kind = "down" /\ wire'[i].key = k
                   /\ \A j \in DOMAIN wire' : j > i => ~Lifts(wire'[j], k)
        <4>1. PICK i \in DOMAIN wire' :
                   /\ wire'[i].kind = "down" /\ wire'[i].key = k
                   /\ \A j \in DOMAIN wire' : j > i => ~Lifts(wire'[j], k)
          BY <3>2
        <4>2. CASE i = Len(wire) + 1
          BY <1>0, <2>1, <4>1, <4>2
        <4>3. CASE i # Len(wire) + 1
          <5>1. i \in DOMAIN wire /\ Len(wire) + 1 \in DOMAIN wire' /\ Len(wire) + 1 > i
            BY <1>0, <4>3
          <5>2. wire[i].kind = "down" /\ wire[i].key = k /\ ~Lifts(rec, k)
            BY <1>0, <4>1, <5>1
          <5>3. \A j \in DOMAIN wire : j > i => ~Lifts(wire[j], k)
            BY <1>0, <4>1
          <5> QED
            BY <5>1, <5>2, <5>3 DEF Holds
        <4> QED
          BY <4>2, <4>3
      <3> QED
        BY <2>2, <3>1, <3>2 DEF Holds
    <2>3. ASSUME ~Lifts(rec, k), rec.kind = "down", rec.key = k PROVE Holds(k)'
      <3>1. /\ Len(wire) + 1 \in DOMAIN wire'
            /\ \A j \in DOMAIN wire' : ~(j > Len(wire) + 1)
        BY <1>0
      <3> QED
        BY <1>0, <2>3, <3>1 DEF Holds
    <2>4. ASSUME ~Lifts(rec, k), Holds(k) PROVE Holds(k)'
      <3>0. \A j \in DOMAIN wire' : j \in DOMAIN wire \/ j = Len(wire) + 1
        BY <1>0
      <3>1. CASE k \in input.down /\ \A i \in DOMAIN wire : ~Lifts(wire[i], k)
        <4>1. k \in input'.down /\ \A i \in DOMAIN wire' : ~Lifts(wire'[i], k)
          BY <1>0, <2>4, <3>0, <3>1
        <4> QED
          BY <4>1 DEF Holds
      <3>2. CASE \E i \in DOMAIN wire :
                   /\ wire[i].kind = "down" /\ wire[i].key = k
                   /\ \A j \in DOMAIN wire : j > i => ~Lifts(wire[j], k)
        <4>1. PICK i \in DOMAIN wire :
                   /\ wire[i].kind = "down" /\ wire[i].key = k
                   /\ \A j \in DOMAIN wire : j > i => ~Lifts(wire[j], k)
          BY <3>2
        <4>2. i \in DOMAIN wire' /\ wire'[i].kind = "down" /\ wire'[i].key = k
          BY <1>0, <4>1
        <4>3. \A j \in DOMAIN wire' : j > i => ~Lifts(wire'[j], k)
          BY <1>0, <2>4, <3>0, <4>1
        <4> QED
          BY <4>2, <4>3 DEF Holds
      <3> QED
        BY <2>4, <3>1, <3>2 DEF Holds
    <2> QED
      BY <2>2, <2>3, <2>4
  <1>2. HeldKeys = {k \in Keys : Holds(k)} /\ HeldKeys' = {k \in Keys : Holds(k)'}
    BY DEF HeldKeys
  <1> QED
    BY <1>0, <1>1, <1>2 DEF Lifts, IsRelease

\* Reading a record changes nothing of what the game is going to hold.
LEMMA ReadingKeepsKeys ==
    ASSUME InputInv, TypeOK', GameReceives
    PROVE  HeldKeys' = HeldKeys
  <1>0. /\ wire \in Seq(Records) /\ wire # << >> /\ Head(wire) = wire[1]
        /\ wire' = Tail(wire) /\ Len(wire) \in Nat /\ 1 \in DOMAIN wire
        /\ DOMAIN wire' = 1..(Len(wire) - 1) /\ DOMAIN wire = 1..Len(wire)
        /\ \A i \in DOMAIN wire' : wire'[i] = wire[i + 1] /\ i + 1 \in DOMAIN wire
        /\ \A i \in DOMAIN wire : i # 1 => i - 1 \in DOMAIN wire' /\ wire'[i - 1] = wire[i]
        /\ wire[1] \in Records
    BY DEF GameReceives, InputInv, TypeOK, ControlTypeOK
  <1>1. input \in InputStates /\ input' = AppliedRecord(wire[1])
    BY <1>0 DEF GameReceives, InputInv, TypeOK
  <1>2. \A k \in Keys : k \in input'.down <=>
            /\ ~Lifts(wire[1], k)
            /\ k \in input.down \/ (wire[1].kind = "down" /\ wire[1].key = k)
    BY <1>0, <1>1 DEF AppliedRecord, InputStates, SetKeyDown, SetKeyUp, InputReleaseAll,
       Lifts, IsRelease, Records
  <1>3. ASSUME NEW k \in Keys PROVE Holds(k)' <=> Holds(k)
    <2>1. ASSUME Holds(k)' PROVE Holds(k)
      <3>1. CASE k \in input'.down /\ \A i \in DOMAIN wire' : ~Lifts(wire'[i], k)
        <4>1. \A i \in DOMAIN wire : ~Lifts(wire[i], k)
          BY <1>0, <1>2, <3>1
        <4>2. \A j \in DOMAIN wire : j > 1 => ~Lifts(wire[j], k)
          BY <4>1
        <4> QED
          BY <1>0, <1>2, <3>1, <4>1, <4>2 DEF Holds
      <3>2. CASE \E i \in DOMAIN wire' :
                   /\ wire'[i].kind = "down" /\ wire'[i].key = k
                   /\ \A j \in DOMAIN wire' : j > i => ~Lifts(wire'[j], k)
        <4>1. PICK i \in DOMAIN wire' :
                   /\ wire'[i].kind = "down" /\ wire'[i].key = k
                   /\ \A j \in DOMAIN wire' : j > i => ~Lifts(wire'[j], k)
          BY <3>2
        <4>2. i + 1 \in DOMAIN wire /\ wire[i + 1].kind = "down" /\ wire[i + 1].key = k
          BY <1>0, <4>1
        <4>3. ASSUME NEW j \in DOMAIN wire, j > i + 1 PROVE ~Lifts(wire[j], k)
          <5>1. j # 1 /\ j - 1 > i
            BY <1>0, <4>3
          <5> QED
            BY <1>0, <4>1, <5>1
        <4> QED
          BY <4>2, <4>3 DEF Holds
      <3> QED
        BY <2>1, <3>1, <3>2 DEF Holds
    <2>2. ASSUME Holds(k) PROVE Holds(k)'
      <3>1. CASE k \in input.down /\ \A i \in DOMAIN wire : ~Lifts(wire[i], k)
        <4>1. k \in input'.down /\ \A i \in DOMAIN wire' : ~Lifts(wire'[i], k)
          BY <1>0, <1>2, <3>1
        <4> QED
          BY <4>1 DEF Holds
      <3>2. CASE \E i \in DOMAIN wire :
                   /\ wire[i].kind = "down" /\ wire[i].key = k
                   /\ \A j \in DOMAIN wire : j > i => ~Lifts(wire[j], k)
        <4>1. PICK i \in DOMAIN wire :
                   /\ wire[i].kind = "down" /\ wire[i].key = k
                   /\ \A j \in DOMAIN wire : j > i => ~Lifts(wire[j], k)
          BY <3>2
        <4>2. CASE i = 1
          <5>1. ~Lifts(wire[1], k)
            BY <4>1, <4>2 DEF Lifts, IsRelease
          <5>2. ASSUME NEW j \in DOMAIN wire' PROVE ~Lifts(wire'[j], k)
            <6>1. j + 1 \in DOMAIN wire /\ j + 1 > 1 /\ wire'[j] = wire[j + 1]
              BY <1>0
            <6> QED
              BY <4>1, <4>2, <6>1
          <5>3. k \in input'.down
            BY <1>2, <4>1, <4>2, <5>1
          <5> QED
            BY <5>2, <5>3 DEF Holds
        <4>3. CASE i # 1
          <5>1. i - 1 \in DOMAIN wire' /\ wire'[i - 1].kind = "down" /\ wire'[i - 1].key = k
            BY <1>0, <4>1, <4>3
          <5>2. ASSUME NEW j \in DOMAIN wire', j > i - 1 PROVE ~Lifts(wire'[j], k)
            <6>1. j + 1 \in DOMAIN wire /\ j + 1 > i /\ wire'[j] = wire[j + 1]
              BY <1>0, <5>2
            <6> QED
              BY <4>1, <6>1
          <5> QED
            BY <5>1, <5>2 DEF Holds
        <4> QED
          BY <4>2, <4>3
      <3> QED
        BY <2>2, <3>1, <3>2 DEF Holds
    <2> QED
      BY <2>1, <2>2
  <1>4. control' = control
    BY DEF GameReceives
  <1> QED
    BY <1>3, <1>4 DEF HeldKeys

\* The owner and the held keys move the way KeyLease lets them.
LeaseMoves ==
    \/ control'.owner = control.owner /\ HeldKeys' \in {HeldKeys, {}}
    \/ control'.owner = NoClient /\ HeldKeys' = {}
    \/ \E c \in Clients :
         /\ control.owner \in {NoClient, c} /\ control'.owner = c
         /\ \/ HeldKeys' = HeldKeys
            \/ \E k \in Keys : HeldKeys' \in {HeldKeys \cup {k}, HeldKeys \ {k}}

\* Neither the controller nor anything the game holds or will read changes.
LEMMA NothingMoves ==
    ASSUME UNCHANGED <<control, wire, input>>
    PROVE  LeaseMoves
  BY DEF LeaseMoves, HeldKeys, Holds, Lifts, IsRelease

\* A controller that lets go of its game, or that has none, holds no key.
LEMMA DetachMoves ==
    ASSUME TypeOK, control' = Detached
    PROVE  LeaseMoves
  <1>1. control'.game = NoGame /\ control'.owner = NoClient
    BY DEF TypeOK, ControlTypeOK, ControlStates, Detached
  <1> QED
    BY <1>1 DEF LeaseMoves, HeldKeys

\* A record sent to a game that has exited is never read: nothing is held.
LEMMA DeadGameHoldsNothing ==
    ASSUME InputInv, ~ProcAlive, UNCHANGED <<wire, input>>
    PROVE  HeldKeys = {} /\ HeldKeys' = {}
  BY DEF InputInv, RunShape, HeldKeys, Holds

\* InputControl::apply claims, presses, lifts or releases, and nothing else.
LEMMA ApplyMoves ==
    ASSUME InputInv, UNCHANGED gameVars, NEW r \in Requests, Apply(r, ProcAlive)
    PROVE  LeaseMoves
  <1>0. control \in ControlStates /\ r.client \in Clients /\ input' = input
    BY DEF InputInv, TypeOK, ControlTypeOK, Requests, gameVars
  <1>1. CASE ApplyRejected(r)
    BY <1>0, <1>1, NothingMoves DEF ApplyRejected
  <1>2. CASE ApplyHeartbeat(r)
    <2>1. /\ control.owner \in {NoClient, r.client} /\ control'.owner = r.client
          /\ control'.game = control.game /\ wire' = wire
      BY <1>0, <1>2 DEF ApplyHeartbeat, Rejected, Claimed, ControlStates
    <2>2. HeldKeys' = HeldKeys
      BY <1>0, <2>1 DEF HeldKeys, Holds, Lifts, IsRelease
    <2> QED
      BY <1>0, <2>1, <2>2 DEF LeaseMoves
  <1>3. CASE ApplySent(r, ProcAlive)
    <2>1. /\ RecordOf(r) \in Records /\ RecordOf(r).kind = r.kind /\ RecordOf(r).key = r.key
          /\ r.kind \in {"down", "up", "release"}
          /\ r.kind \in {"down", "up"} => r.key \in Keys
      BY <1>3, RecordType DEF ApplySent, RecordOf, Requests
    <2>2. /\ control.owner \in {NoClient, r.client}
          /\ control'.game = control.game /\ control.game # NoGame
          /\ control'.owner = IF r.kind = "release" THEN NoClient ELSE r.client
      BY <1>0, <1>3 DEF ApplySent, Rejected, Claimed, Freed, ControlStates
    <2>3. CASE ~ProcAlive
      <3>1. HeldKeys = {} /\ HeldKeys' = {}
        BY <1>0, <1>3, <2>3, DeadGameHoldsNothing DEF ApplySent, Written
      <3> QED
        BY <1>0, <2>2, <3>1 DEF LeaseMoves
    <2>4. CASE ProcAlive
      <3>1. wire' = Append(wire, RecordOf(r))
        BY <1>3, <2>4 DEF ApplySent, Written
      <3>2. /\ r.kind = "down" => HeldKeys' = HeldKeys \cup {r.key}
            /\ r.kind = "up" => HeldKeys' = HeldKeys \ {r.key}
            /\ r.kind = "release" => HeldKeys' = {}
        BY <1>0, <2>1, <2>2, <3>1, WritingMovesKeys
      <3> QED
        BY <1>0, <2>1, <2>2, <3>2 DEF LeaseMoves
    <2> QED
      BY <2>3, <2>4
  <1>4. CASE ApplyFailed(r, ProcAlive)
    BY <1>4, DetachMoves DEF ApplyFailed, WriteFailed, InputInv
  <1> QED
    BY <1>1, <1>2, <1>3, <1>4 DEF Apply

\* The watchdog, the session and the receiver only ever end a lease.
LEMMA HostMoves ==
    ASSUME InputInv, HostStep
    PROVE  LeaseMoves
  <1>0. control \in ControlStates /\ TypeOK
    BY DEF InputInv, TypeOK, ControlTypeOK
  <1>1. CASE WatchdogPoll
    <2>1. CASE Written(ServerRelease, ProcAlive) /\ control' = Freed
      <3>1. /\ control'.owner = NoClient /\ control'.game = control.game
            /\ control.game # NoGame /\ input' = input
        BY <1>0, <1>1, <2>1 DEF Freed, ControlStates, Written, WatchdogPoll, gameVars
      <3>2. CASE ProcAlive
        <4>1. /\ ServerRelease \in Records /\ ServerRelease.kind = "release"
              /\ wire' = Append(wire, ServerRelease)
          BY <1>0, <2>1, <3>2 DEF ServerRelease, Records, ControlStates, Written
        <4>2. HeldKeys' = {}
          BY <3>1, <4>1, WritingMovesKeys
        <4> QED
          BY <3>1, <4>2 DEF LeaseMoves
      <3>3. CASE ~ProcAlive
        <4>1. HeldKeys' = {}
          BY <2>1, <3>1, <3>3, DeadGameHoldsNothing DEF Written
        <4> QED
          BY <3>1, <4>1 DEF LeaseMoves
      <3> QED
        BY <3>2, <3>3
    <2>2. CASE WriteFailed(ProcAlive)
      BY <1>0, <2>2, DetachMoves DEF WriteFailed
    <2> QED
      BY <1>1, <2>1, <2>2 DEF WatchdogPoll, ExpireLease
  <1>2. CASE TimePasses
    <2>1. /\ control'.owner = control.owner /\ control'.game = control.game
          /\ wire' = wire /\ input' = input
      BY <1>0, <1>2 DEF TimePasses, LeaseAges, ControlStates, gameVars
    <2>2. HeldKeys' = HeldKeys
      BY <2>1 DEF HeldKeys, Holds, Lifts, IsRelease
    <2> QED
      BY <2>1, <2>2 DEF LeaseMoves
  <1>3. CASE BeginRun
    <2>1. control.game = NoGame /\ control' = control
      BY <1>3 DEF BeginRun, InputInv, RunShape, AttachedGameIsCurrent
    <2> QED
      BY <2>1 DEF LeaseMoves, HeldKeys
  <1>4. CASE AcceptGame
    <2>1. wire' = << >> /\ input'.down = {} /\ control'.owner = NoClient
      BY <1>4 DEF AcceptGame, ConnectGame, InputInv, RunShape, gameVars
    <2>2. HeldKeys' = {}
      BY <2>1 DEF HeldKeys, Holds
    <2> QED
      BY <2>1, <2>2 DEF LeaseMoves
  <1>5. CASE StopGame \/ ReceiverEnds
    BY <1>0, <1>5, DetachMoves DEF StopGame, ReceiverEnds, DisconnectGame
  <1>6. CASE GameStopped
    BY <1>6, NothingMoves DEF GameStopped, gameVars
  <1> QED
    BY <1>1, <1>2, <1>3, <1>4, <1>5, <1>6 DEF HostStep

\* A game reads its keys, or takes them with it.
LEMMA GameMoves ==
    ASSUME InputInv, TypeOK', GameStep
    PROVE  LeaseMoves
  <1>1. CASE GameConnects
    <2>1. control.game = NoGame /\ control' = control
      BY <1>1 DEF GameConnects, InputInv, RunShape, AttachedGameIsCurrent
    <2> QED
      BY <2>1 DEF LeaseMoves, HeldKeys
  <1>2. CASE GameBeginsFrame \/ GameUpdates
    <2>1. /\ input'.down = input.down /\ wire' = wire /\ control' = control
      BY <1>2 DEF GameBeginsFrame, GameUpdates, InputBeginFrame, InputInv, TypeOK, InputStates
    <2>2. HeldKeys' = HeldKeys
      BY <2>1 DEF HeldKeys, Holds, Lifts, IsRelease
    <2> QED
      BY <2>1, <2>2 DEF LeaseMoves
  <1>3. CASE GameReceives
    <2>1. HeldKeys' = HeldKeys /\ control' = control
      BY <1>3, ReadingKeepsKeys DEF GameReceives
    <2> QED
      BY <2>1 DEF LeaseMoves
  <1>4. CASE GameExits
    <2>1. wire' = << >> /\ input'.down = {} /\ control' = control
      BY <1>4 DEF GameExits, InputReset
    <2>2. HeldKeys' = {}
      BY <2>1 DEF HeldKeys, Holds
    <2> QED
      BY <2>1, <2>2 DEF LeaseMoves
  <1> QED
    BY <1>1, <1>2, <1>3, <1>4 DEF GameStep

\* A page moves the lease only through the requests the server handles.
LEMMA PageMoves ==
    ASSUME InputInv, NEW c \in Clients, PageStep(c)
    PROVE  LeaseMoves
  <1>1. CASE HandleInput(c)
    <2>1. Head(pages[c].queue) \in Requests
      BY <1>1 DEF HandleInput, InputInv, TypeOK, Pages
    <2> QED
      BY <1>1, <2>1, ApplyMoves DEF HandleInput
  <1>2. CASE HandleBeacon(c)
    BY <1>2, ApplyMoves DEF HandleBeacon, InputInv, TypeOK
  <1>3. CASE ~HandleInput(c) /\ ~HandleBeacon(c)
    <2>1. UNCHANGED <<control, wire, input>>
      BY <1>3 DEF PageStep, KeyDown, KeyUp, Blur, Heartbeat, LearnGeneration, PageHide,
         Vanish, LoseRequest, LoseBeacon, gameVars
    <2> QED
      BY <2>1, NothingMoves
  <1> QED
    BY <1>1, <1>2, <1>3

\* Every step of the system is a step of the lease, or none.
LEMMA StepLeases ==
    ASSUME InputInv, InputInv', [Next]_vars
    PROVE  [Lease!LeaseNext]_(Lease!leaseVars)
  <1>1. LeaseMoves
    <2>1. CASE UNCHANGED vars
      BY <2>1, NothingMoves DEF vars, gameVars
    <2>2. CASE HostStep
      BY <2>2, HostMoves
    <2>3. CASE GameStep
      BY <2>3, GameMoves DEF InputInv
    <2>4. ASSUME NEW c \in Clients, PageStep(c) PROVE LeaseMoves
      BY <2>4, PageMoves
    <2> QED
      BY <2>1, <2>2, <2>3, <2>4 DEF Next
  <1> DEFINE mapped == IF control.game = NoGame THEN {}
                       ELSE {k \in Keys : \E c \in Clients : WillHold(k, c)}
  <1>2. HeldKeys = mapped
    BY MappedHeld DEF InputInv
  <1>3. HeldKeys' = mapped'
    <2>1. ASSUME NEW k \in Keys PROVE (\E c \in Clients : WillHold(k, c))' <=> Holds(k)'
      <3>1. TypeOK' /\ RunShape'
        BY DEF InputInv
      <3> QED
        BY <3>1, SomebodyHolds, PTL
    <2> QED
      BY <2>1 DEF HeldKeys
  <1>4. [Lease!LeaseNext]_(Lease!leaseVars) <=>
          \/ \E c \in Clients :
               /\ control.owner \in {NoClient, c} /\ control'.owner = c
               /\ \/ mapped' = mapped
                  \/ \E k \in Keys : mapped' = mapped \cup {k} \/ mapped' = mapped \ {k}
          \/ control'.owner = NoClient /\ mapped' = {}
          \/ mapped' = {} /\ control'.owner = control.owner
          \/ control'.owner = control.owner /\ mapped' = mapped
    BY DEF Lease!LeaseNext, Lease!leaseVars, Lease!Claim, Lease!Press, Lease!Lift,
       Lease!Release, Lease!GameGone, Lease!MayControl
  <1> HIDE DEF mapped
  <1> QED
    BY <1>1, <1>2, <1>3, <1>4 DEF LeaseMoves

(* Browser input keeps the promise of module KeyLease: at any time at most *)
(* one client holds the lease, only the holder changes which keys the game *)
(* is going to hold, and whoever loses the lease (InputControl's release,  *)
(* expire_lease, connect_game, disconnect_game, a failed send_control)     *)
(* leaves no key behind.                                                   *)
THEOREM InputLeases == Spec => ImplementsKeyLease
  <1>1. Init => Lease!LeaseInit
    BY DEF Init, ControlInit, Lease!LeaseInit
  <1> QED
    BY <1>1, StepLeases, InputSafety, PTL DEF Spec, ImplementsKeyLease, Lease!LeaseSpec

=============================================================================
