----------------------- MODULE DevSession_proofs -----------------------
(***************************************************************************)
(* Proofs about DevSession, for any number of runs and frames, sockets of  *)
(* any capacity, with and without host failures and foreign connections,   *)
(* for dev::run and watch::run.                                            *)
(*                                                                         *)
(* The inductive invariant is SessionInv.  A run is one record, so its     *)
(* part of the invariant is proved in two halves: what a change makes of   *)
(* the record (the lemmas on records), and what it means for the session   *)
(* that one record has changed.                                            *)
(***************************************************************************)
EXTENDS DevSession, TLAPS, SequenceTheorems

----------------------------------------------------------------------------
(* One run. *)

\* What holds of every run by itself.
Sound(run) == run \in RunStates /\ ProcessShape(run) /\ StreamAccounted(run)

\* The receiver's half of the record, but for what it reads and has read.
SameReceiver(a, b) ==
    /\ a.rx = b.rx /\ a.peer = b.peer /\ a.last = b.last /\ a.gen = b.gen
    /\ a.fatal = b.fatal /\ a.sawReaped = b.sawReaped /\ a.head = b.head

\* The process's half of the record.
SameProcess(a, b) ==
    /\ a.proc = b.proc /\ a.status = b.status /\ a.drawn = b.drawn
    /\ a.closed = b.closed /\ a.backlog = b.backlog /\ a.reaped = b.reaped

(* A process that gets on, but neither starts nor is reaped. *)
ProcessStep(old, new) ==
    /\ Sound(new) /\ SameReceiver(new, old) /\ new.reaped = old.reaped
    /\ new.proc \in Running => old.proc \in Running
    /\ new.proc = "none" <=> old.proc = "none"
    /\ (Complete(old) => Complete(new)) /\ (Earned(old) => Earned(new))

(* An action that only changes where a process is changes nothing else. *)
LEMMA ProcessPosition ==
    ASSUME NEW run \in RunStates, NEW p \in Running,
           NEW new, new = [run EXCEPT !.proc = p]
    PROVE  /\ new \in RunStates /\ new.proc = p /\ SameReceiver(new, run)
           /\ new.reaped = run.reaped /\ new.status = run.status
           /\ new.drawn = run.drawn /\ new.backlog = run.backlog
           /\ new.stream = run.stream /\ new.closed = run.closed
  <1>1. p \in ProcStates
    BY DEF ProcStates
  <1> QED
    BY <1>1 DEF RunStates, SameReceiver

(* crumb_platform_init, and the poll at the head of the loop. *)
LEMMA PositionStep ==
    ASSUME NEW run, Sound(run), NEW p, NEW new, new = [run EXCEPT !.proc = p],
           \/ run.proc = "boot" /\ p = "ready"
           \/ run.proc = "frame" /\ p = "draw"
    PROVE  ProcessStep(run, new)
  <1>1. /\ run \in RunStates /\ p \in Running /\ run.proc \in Running
        /\ run.proc # "half" /\ p # "half" /\ run.proc # "closing" /\ run.proc # "exited"
    BY DEF Sound, Running
  <1>2. /\ new \in RunStates /\ new.proc = p /\ SameReceiver(new, run)
        /\ new.reaped = run.reaped /\ new.status = run.status
        /\ new.drawn = run.drawn /\ new.backlog = run.backlog
        /\ new.stream = run.stream /\ new.closed = run.closed
    BY <1>1, ProcessPosition
  <1>3. ProcessShape(new)
    BY <1>1, <1>2 DEF Sound, ProcessShape, SameReceiver
  <1>4. Received(new) = Received(run) /\ Sent(new) = Sent(run)
    BY <1>1, <1>2 DEF Received, Sent, SameReceiver
  <1>5. StreamAccounted(new)
    BY <1>1, <1>2, <1>4 DEF Sound, StreamAccounted, SameReceiver
  <1> QED
    BY <1>1, <1>2, <1>3, <1>5 DEF ProcessStep, Sound, Complete, Running, Earned, ProcessShape

(* What a cut-off stream has kept is in its place. *)
LEMMA PrefixOf ==
    ASSUME NEW S, NEW s \in Seq(S), NEW left \in Prefixes(s)
    PROVE  /\ left \in Seq(S) /\ Len(left) <= Len(s)
           /\ \A i \in 1..Len(left) : i \in 1..Len(s) /\ left[i] = s[i]
  <1>1. PICK n \in 0..Len(s) : left = SubSeq(s, 1, n)
    BY DEF Prefixes
  <1>2. Len(s) \in Nat /\ n \in Nat
    BY <1>1
  <1>3. \A i \in 1..n : s[i] \in S
    BY <1>2
  <1>4. left = [i \in 1..n |-> s[i]]
    BY <1>1, <1>2
  <1> QED
    BY <1>1, <1>2, <1>3, <1>4

(* crumb_present_init. *)
LEMMA ConnectStep ==
    ASSUME NEW run, Sound(run), run.proc = "ready",
           NEW new, new = [run EXCEPT !.proc = "frame", !.backlog = Append(@, "game")]
    PROVE  ProcessStep(run, new)
  <1>1. run \in RunStates /\ run.backlog \in Seq({"game", "stranger"})
    BY DEF Sound, RunStates
  <1>2. Append(run.backlog, "game") \in Seq({"game", "stranger"})
        /\ Append(run.backlog, "game") # << >>
    BY <1>1
  <1>3. "frame" \in ProcStates
    BY DEF ProcStates, Running
  <1>4. /\ new \in RunStates /\ new.proc = "frame" /\ SameReceiver(new, run)
        /\ new.reaped = run.reaped /\ new.status = run.status
        /\ new.drawn = run.drawn /\ new.backlog # << >>
        /\ new.stream = run.stream /\ new.closed = run.closed
    BY <1>1, <1>2, <1>3 DEF RunStates, SameReceiver
  <1>5. ProcessShape(new)
    BY <1>4 DEF Sound, ProcessShape, SameReceiver
  <1>6. Received(new) = Received(run) /\ Sent(new) = Sent(run)
    BY <1>4 DEF Received, Sent, SameReceiver
  <1>7. StreamAccounted(new)
    BY <1>4, <1>6 DEF Sound, StreamAccounted, SameReceiver
  <1> QED
    BY <1>4, <1>5, <1>7 DEF ProcessStep, Sound, Complete, Running, Earned, ProcessShape

(* crumb_present: the half that is sent is the next one. *)
LEMMA SendStep ==
    ASSUME NEW run, Sound(run), NEW part, NEW n, NEW next,
           \/ run.proc = "draw" /\ part = "head" /\ n = run.drawn + 1 /\ next = "half"
           \/ run.proc = "half" /\ part = "body" /\ n = run.drawn /\ next = "frame",
           NEW new,
           new = [run EXCEPT !.proc = next, !.drawn = n,
                             !.stream = Append(@, [part |-> part, sequence |-> n])]
    PROVE  ProcessStep(run, new)
  <1> DEFINE Halves == [part : {"head", "body"}, sequence : Nat]
  <1>0. PICK half : half = [part |-> part, sequence |-> n]
    OBVIOUS
  <1> DEFINE stream == Append(run.stream, half)
  <1>1. /\ run \in RunStates /\ run.stream \in Seq(Halves) /\ run.drawn \in Nat
        /\ run.last \in Nat
    BY DEF Sound, RunStates
  <1>2. n \in Nat /\ half \in Halves
    BY <1>0, <1>1
  <1>3. half.sequence = n
    BY <1>0
  <1>4. /\ stream \in Seq(Halves) /\ Len(stream) = Len(run.stream) + 1
        /\ Len(run.stream) \in Nat /\ stream[Len(run.stream) + 1] = half
        /\ \A i \in 1..Len(run.stream) : stream[i] = run.stream[i]
    BY <1>1, <1>2
  <1>5. next \in ProcStates
    BY DEF ProcStates, Running
  <1>6. /\ new \in RunStates /\ new.proc = next /\ SameReceiver(new, run)
        /\ new.reaped = run.reaped /\ new.status = run.status
        /\ new.drawn = n /\ new.backlog = run.backlog
        /\ new.stream = stream /\ new.closed = run.closed
    <2>1. /\ new = [run EXCEPT !.proc = next, !.drawn = n, !.stream = stream]
          /\ stream \in Seq([part : {"head", "body"}, sequence : Nat])
      BY <1>0, <1>4
    <2> HIDE DEF stream
    <2> QED
      BY <1>1, <1>2, <2>1, <1>5 DEF RunStates, SameReceiver
  <1> HIDE DEF stream
  <1>7. run.status = "none" /\ run.closed = "open" /\ run.backlog # << >>
    <2>1. run.proc \in {"draw", "half"}
      OBVIOUS
    <2> QED
      BY <2>1 DEF Sound, ProcessShape
  <1>8. ProcessShape(new)
    BY <1>6, <1>7 DEF Sound, ProcessShape, SameReceiver
  <1>9. StreamAccounted(new)
    <2> SUFFICES ASSUME run.rx \notin {"fail", "detach", "stop", "done"},
                        run.peer # "stranger"
                 PROVE  /\ run.rx = "body" => run.head = run.last + 1
                        /\ \A i \in 1..Len(stream) :
                              2 * stream[i].sequence
                                  \in {Received(run) + i, Received(run) + i + 1}
                        /\ Received(run) + Len(stream) = Sent(new)
      <3>1. Received(new) = Received(run)
        BY <1>6 DEF Received, SameReceiver
      <3> QED
        BY <1>6, <3>1 DEF StreamAccounted, SameReceiver
    <2>1. /\ run.rx = "body" => run.head = run.last + 1
          /\ \A i \in 1..Len(run.stream) :
                2 * run.stream[i].sequence \in {Received(run) + i, Received(run) + i + 1}
          /\ Received(run) + Len(run.stream) = Sent(run)
      BY <1>7 DEF Sound, StreamAccounted
    <2>2. Received(run) \in Nat
      BY <1>1 DEF Received
    <2>3. Received(run) + Len(stream) = Sent(new)
      <3>0. /\ Received(run) + Len(run.stream) = Sent(run) /\ run.drawn \in Nat
            /\ Len(stream) = Len(run.stream) + 1 /\ Len(run.stream) \in Nat
        BY <1>1, <1>4, <2>1
      <3>1. CASE run.proc = "draw"
        <4>1. Sent(run) = 2 * run.drawn
          BY <1>1, <3>1 DEF Sent
        <4>2. Sent(new) = 2 * (run.drawn + 1) - 1
          BY <1>6, <3>1 DEF Sent
        <4> QED
          BY <2>2, <3>0, <4>1, <4>2
      <3>2. CASE run.proc = "half"
        <4>1. Sent(run) + 1 = 2 * run.drawn
          BY <1>1, <3>2 DEF Sent
        <4>2. Sent(new) = 2 * run.drawn
          BY <1>1, <1>6, <3>2 DEF Sent
        <4> QED
          BY <2>2, <3>0, <4>1, <4>2
      <3> QED
        BY <3>1, <3>2
    <2>4. 2 * n \in {Received(run) + Len(stream), Received(run) + Len(stream) + 1}
      BY <1>1, <1>2, <1>6, <2>3 DEF Sent
    <2>5. ASSUME NEW i \in 1..Len(stream)
          PROVE  2 * stream[i].sequence \in {Received(run) + i, Received(run) + i + 1}
      <3>1. CASE i = Len(stream)
        BY <1>3, <1>4, <2>4, <3>1
      <3>2. CASE i # Len(stream)
        <4>1. i \in 1..Len(run.stream)
          BY <1>4, <3>2
        <4> QED
          BY <1>4, <2>1, <4>1
      <3> QED
        BY <3>1, <3>2
    <2> QED
      BY <2>1, <2>3, <2>5
  <1> QED
    BY <1>6, <1>8, <1>9 DEF ProcessStep, Sound, Complete, Running, Earned, ProcessShape

\* The socket of a process that ends: what the code's Closed and Left make of it.
CloseOutcome(old, new) ==
    \/ old.closed # "open" /\ new.closed = old.closed /\ new.stream = old.stream
    \/ old.closed = "open" /\ new.closed = "fin" /\ new.stream = old.stream
    \/ old.closed = "open" /\ new.closed = "reset" /\ new.stream \in Prefixes(old.stream)

(* A stream that was cut short still holds the half frames in order. *)
LEMMA CutStream ==
    ASSUME NEW run, Sound(run), NEW new, new \in RunStates, SameReceiver(new, run),
           new.stream = run.stream \/ new.stream \in Prefixes(run.stream),
           new.status = "bad" \/ new.closed = "reset"
    PROVE  StreamAccounted(new)
  <1>1. /\ run.stream \in Seq([part : {"head", "body"}, sequence : Nat])
        /\ Received(new) = Received(run)
    BY DEF Sound, RunStates, Received, SameReceiver
  <1>2. /\ Len(run.stream) \in Nat
        /\ \A i \in 1..Len(new.stream) :
              i \in 1..Len(run.stream) /\ new.stream[i] = run.stream[i]
    <2>1. CASE new.stream = run.stream
      BY <1>1, <2>1
    <2>2. CASE new.stream \in Prefixes(run.stream)
      BY <1>1, <2>2, PrefixOf
    <2> QED
      BY <2>1, <2>2
  <1>3. SUFFICES ASSUME run.rx \notin {"fail", "detach", "stop", "done"},
                        run.peer # "stranger"
                 PROVE  /\ run.rx = "body" => run.head = run.last + 1
                        /\ \A i \in 1..Len(new.stream) :
                              2 * new.stream[i].sequence
                                  \in {Received(run) + i, Received(run) + i + 1}
    BY <1>1 DEF StreamAccounted, SameReceiver
  <1>4. /\ run.rx = "body" => run.head = run.last + 1
        /\ \A i \in 1..Len(run.stream) :
              2 * run.stream[i].sequence \in {Received(run) + i, Received(run) + i + 1}
    BY <1>3 DEF Sound, StreamAccounted
  <1> QED
    BY <1>2, <1>4

(* A process that dies, of a signal, a failed guard or a lost host. *)
LEMMA DeathStep ==
    ASSUME NEW run, Sound(run), run.proc \in Running,
           NEW new, new \in RunStates, SameReceiver(new, run),
           new.stream = run.stream \/ new.stream \in Prefixes(run.stream),
           new.proc = "exited", new.status = "bad",
           new.drawn = run.drawn, new.backlog = run.backlog,
           new.reaped \in {run.reaped, TRUE}
    PROVE  /\ Sound(new)
           /\ (Complete(run) => Complete(new)) /\ ~Earned(run)
  <1>1. ProcessShape(new)
    BY DEF Sound, ProcessShape, SameReceiver, Running
  <1>2. StreamAccounted(new)
    BY CutStream
  <1> QED
    BY <1>1, <1>2 DEF Sound, Complete, Earned, ProcessShape, Running

(* crumb_shutdown closes the socket between two frames. *)
LEMMA CloseStep ==
    ASSUME NEW run, Sound(run), run.proc \in {"frame", "draw"},
           NEW new, new \in RunStates, SameReceiver(new, run), CloseOutcome(run, new),
           new.proc = "closing", new.status = run.status,
           new.drawn = run.drawn, new.backlog = run.backlog, new.reaped = run.reaped
    PROVE  ProcessStep(run, new)
  <1>0. run.closed = "open" /\ run.status = "none"
    BY DEF Sound, ProcessShape
  <1>1. ProcessShape(new)
    BY <1>0 DEF Sound, ProcessShape, SameReceiver, CloseOutcome
  <1>2. StreamAccounted(new)
    <2>1. CASE new.closed = "reset"
      <3>1. new.stream \in Prefixes(run.stream)
        BY <1>0, <2>1 DEF CloseOutcome
      <3> QED
        BY <2>1, <3>1, CutStream
    <2>2. CASE new.closed # "reset"
      <3>1. new.stream = run.stream
        BY <1>0, <2>2 DEF CloseOutcome
      <3>2. Received(new) = Received(run) /\ Sent(new) = Sent(run)
        BY DEF Received, Sent, SameReceiver
      <3> QED
        BY <1>0, <3>1, <3>2 DEF Sound, StreamAccounted, SameReceiver
    <2> QED
      BY <2>1, <2>2
  <1> QED
    BY <1>1, <1>2 DEF ProcessStep, Sound, Complete, Running, Earned, ProcessShape

(* crumb_run returns 0, with its socket closed already. *)
LEMMA ReturnStep ==
    ASSUME NEW run, Sound(run), run.proc = "closing",
           NEW new, new \in RunStates, SameReceiver(new, run),
           new.closed = run.closed, new.stream = run.stream,
           new.proc = "exited", new.status = "ok",
           new.drawn = run.drawn, new.backlog = run.backlog, new.reaped = run.reaped
    PROVE  ProcessStep(run, new)
  <1>1. ProcessShape(new)
    BY DEF Sound, ProcessShape, SameReceiver
  <1>2. Received(new) = Received(run) /\ Sent(new) = Sent(run) /\ run.status # "bad"
    BY DEF Received, Sent, SameReceiver, Sound, ProcessShape
  <1>3. StreamAccounted(new)
    BY <1>2 DEF Sound, StreamAccounted, SameReceiver
  <1> QED
    BY <1>1, <1>2, <1>3 DEF ProcessStep, Sound, Complete, Running, SameReceiver, Earned, ProcessShape

(* A signal that is noted, and a connection that waits: nothing else changes. *)
LEMMA AsideStep ==
    ASSUME NEW run, Sound(run), NEW new, new \in RunStates, SameReceiver(new, run),
           new.closed = run.closed, new.stream = run.stream,
           new.proc = run.proc, new.status = run.status, new.drawn = run.drawn,
           new.backlog = run.backlog \/ new.backlog # << >>, new.reaped = run.reaped
    PROVE  ProcessStep(run, new)
  <1>1. ProcessShape(new)
    BY DEF Sound, ProcessShape, SameReceiver
  <1>2. Received(new) = Received(run) /\ Sent(new) = Sent(run)
    BY DEF Received, Sent, SameReceiver
  <1>3. StreamAccounted(new)
    BY <1>2 DEF Sound, StreamAccounted, SameReceiver
  <1> QED
    BY <1>1, <1>3 DEF ProcessStep, Sound, Complete, SameReceiver, Earned

----------------------------------------------------------------------------
(* What the steps of a process make of the runs. *)

Halves == [part : {"head", "body"}, sequence : Nat]

\* Run r alone gets on.
ProcessMoved(r) ==
    /\ runs' \in [Runs -> RunStates]
    /\ ProcessStep(runs[r], runs'[r])
    /\ \A s \in Runs : s # r => runs'[s] = runs[s]

(* The invariant speaks of every run. *)
LEMMA InvRun ==
    ASSUME SessionInv, NEW r \in Runs
    PROVE  /\ Sound(runs[r]) /\ RunOwned(r) /\ ReceiverFinished(r)
           /\ runs \in [Runs -> RunStates] /\ runs[r] \in RunStates
           /\ wire \in Seq(Records)
  BY DEF SessionInv, SessionTypeOK, ControlTypeOK, Sound

(* Replacing one run leaves the others alone. *)
LEMMA OneRun ==
    ASSUME runs \in [Runs -> RunStates], NEW r \in Runs, NEW new \in RunStates,
           runs' = [runs EXCEPT ![r] = new]
    PROVE  /\ runs' \in [Runs -> RunStates] /\ runs'[r] = new
           /\ \A s \in Runs : s # r => runs'[s] = runs[s]
  OBVIOUS

(* What may be left to read. *)
LEMMA LeftOver ==
    ASSUME runs \in [Runs -> RunStates], NEW r \in Runs, NEW left \in Left(r)
    PROVE  /\ left \in Seq(Halves)
           /\ left = runs[r].stream \/ left \in Prefixes(runs[r].stream)
  <1>1. runs[r].stream \in Seq(Halves)
    BY DEF RunStates, Halves
  <1>2. left = runs[r].stream \/ left \in Prefixes(runs[r].stream)
    BY DEF Left
  <1> QED
    BY <1>1, <1>2, PrefixOf

(* A closed socket. *)
LEMMA ClosedRun ==
    ASSUME runs \in [Runs -> RunStates], NEW r \in Runs, NEW left \in Seq(Halves),
           NEW new, new = Closed(r, left)
    PROVE  /\ new \in RunStates /\ SameReceiver(new, runs[r])
           /\ new.stream = left
           /\ new.proc = runs[r].proc /\ new.status = runs[r].status
           /\ new.drawn = runs[r].drawn /\ new.backlog = runs[r].backlog
           /\ new.reaped = runs[r].reaped
           /\ runs[r].closed # "open" => new.closed = runs[r].closed
           /\ runs[r].closed = "open" =>
                 new.closed = IF Unread(r) THEN "reset" ELSE "fin"
  <1>1. PICK how : how = IF runs[r].closed # "open" THEN runs[r].closed
                         ELSE IF Unread(r) THEN "reset" ELSE "fin"
    OBVIOUS
  <1>2. how \in {"open", "fin", "reset"} /\ runs[r] \in RunStates
    BY <1>1 DEF RunStates
  <1>3. new = [runs[r] EXCEPT !.closed = how, !.stream = left]
    BY <1>1 DEF Closed
  <1>4. /\ new \in RunStates /\ SameReceiver(new, runs[r])
        /\ new.stream = left /\ new.closed = how
        /\ new.proc = runs[r].proc /\ new.status = runs[r].status
        /\ new.drawn = runs[r].drawn /\ new.backlog = runs[r].backlog
        /\ new.reaped = runs[r].reaped
    BY <1>2, <1>3 DEF RunStates, SameReceiver, Halves
  <1> QED
    BY <1>1, <1>4

(* An exited process. *)
LEMMA ExitedRun ==
    ASSUME runs \in [Runs -> RunStates], NEW r \in Runs, NEW left \in Seq(Halves),
           NEW status \in {"ok", "bad"}, NEW new, new = Exited(r, status, left)
    PROVE  /\ new \in RunStates /\ SameReceiver(new, runs[r])
           /\ new.stream = left
           /\ new.proc = "exited" /\ new.status = status
           /\ new.drawn = runs[r].drawn /\ new.backlog = runs[r].backlog
           /\ new.reaped = runs[r].reaped
           /\ runs[r].closed # "open" => new.closed = runs[r].closed
  <1>1. PICK c : c = Closed(r, left)
    OBVIOUS
  <1>2. /\ c \in RunStates /\ SameReceiver(c, runs[r]) /\ c.stream = left
        /\ c.drawn = runs[r].drawn /\ c.backlog = runs[r].backlog
        /\ c.reaped = runs[r].reaped
        /\ runs[r].closed # "open" => c.closed = runs[r].closed
    BY <1>1, ClosedRun
  <1>3. new = [c EXCEPT !.proc = "exited", !.status = status]
    BY <1>1 DEF Exited
  <1>4. "exited" \in ProcStates
    BY DEF ProcStates
  <1>5. /\ new \in RunStates /\ SameReceiver(new, c) /\ new.stream = c.stream
        /\ new.proc = "exited" /\ new.status = status
        /\ new.drawn = c.drawn /\ new.backlog = c.backlog
        /\ new.reaped = c.reaped /\ new.closed = c.closed
    BY <1>2, <1>3, <1>4 DEF RunStates, SameReceiver
  <1> QED
    BY <1>2, <1>5 DEF SameReceiver

(* A death, as one step of the process. *)
LEMMA DeadRun ==
    ASSUME SessionInv, NEW r \in Runs, Alive(r), NEW left \in Left(r),
           NEW new, new = Exited(r, "bad", left)
    PROVE  new \in RunStates /\ ProcessStep(runs[r], new) /\ new.proc = "exited"
  <1>1. runs \in [Runs -> RunStates] /\ Sound(runs[r]) /\ runs[r].proc \in Running
    BY InvRun DEF Alive
  <1>2. /\ left \in Seq(Halves)
        /\ left = runs[r].stream \/ left \in Prefixes(runs[r].stream)
    BY <1>1, LeftOver
  <1>3. /\ new \in RunStates /\ SameReceiver(new, runs[r]) /\ new.stream = left
        /\ new.proc = "exited" /\ new.status = "bad"
        /\ new.drawn = runs[r].drawn /\ new.backlog = runs[r].backlog
        /\ new.reaped = runs[r].reaped
    BY <1>1, <1>2, ExitedRun
  <1>4. Sound(new) /\ (Complete(runs[r]) => Complete(new)) /\ ~Earned(runs[r])
    BY <1>1, <1>2, <1>3, DeathStep
  <1> QED
    BY <1>1, <1>3, <1>4 DEF ProcessStep, Running

(* The wire holds records, or nothing. *)
LEMMA WireClosed ==
    ASSUME wire \in Seq(Records), NEW r \in Runs, WireAfterClose(r)
    PROVE  wire' \in Seq(Records)
  BY DEF WireAfterClose

(* What a signal makes of a process is one step of it. *)
LEMMA SignalledRun ==
    ASSUME SessionInv, NEW r \in Runs, Alive(r), NEW run \in Signalled(r), Delivered(r, run)
    PROVE  ProcessMoved(r) /\ wire' \in Seq(Records)
  <1>1. /\ runs \in [Runs -> RunStates] /\ Sound(runs[r]) /\ runs[r] \in RunStates
        /\ wire \in Seq(Records)
    BY InvRun
  <1>2. run \in RunStates /\ ProcessStep(runs[r], run)
    <2>1. CASE run \in {Exited(r, "bad", left) : left \in Left(r)}
      <3>1. PICK left \in Left(r) : run = Exited(r, "bad", left)
        BY <2>1
      <3> QED
        BY <3>1, DeadRun
    <2>2. CASE run = [runs[r] EXCEPT !.sigint = TRUE]
      <3>1. /\ run \in RunStates /\ SameReceiver(run, runs[r])
            /\ run.closed = runs[r].closed /\ run.stream = runs[r].stream
            /\ run.proc = runs[r].proc /\ run.status = runs[r].status
            /\ run.drawn = runs[r].drawn /\ run.backlog = runs[r].backlog
            /\ run.reaped = runs[r].reaped
        BY <1>1, <2>2 DEF RunStates, SameReceiver
      <3> QED
        BY <1>1, <3>1, AsideStep
    <2>3. runs[r].proc \in {"boot", "closing", "ready", "frame", "draw", "half"}
      BY DEF Alive, Running
    <2>4. \/ run \in {Exited(r, "bad", left) : left \in Left(r)}
          \/ run = [runs[r] EXCEPT !.sigint = TRUE]
      BY <2>3 DEF Signalled
    <2> QED
      BY <2>1, <2>2, <2>4
  <1>3. runs' = [runs EXCEPT ![r] = run]
    BY DEF Delivered
  <1>4. wire' \in Seq(Records)
    BY <1>1, WireClosed DEF Delivered
  <1> QED
    BY <1>1, <1>2, <1>3, <1>4, OneRun DEF ProcessMoved

(* Every step of a game, and a foreign connection, is a step of one process. *)
LEMMA GameMoves ==
    ASSUME SessionInv, NEW r \in Runs, GameStep(r)
    PROVE  ProcessMoved(r) /\ wire' \in Seq(Records) /\ UNCHANGED Unowned
  <1>0. /\ runs \in [Runs -> RunStates] /\ Sound(runs[r]) /\ runs[r] \in RunStates
        /\ wire \in Seq(Records)
    BY InvRun
  <1>m. ASSUME NEW new \in RunStates, ProcessStep(runs[r], new),
               runs' = [runs EXCEPT ![r] = new]
        PROVE  ProcessMoved(r)
    BY <1>0, <1>m, OneRun DEF ProcessMoved
  <1>1. CASE GameBoots(r)
    <2>1. PICK new : new = [runs[r] EXCEPT !.proc = "ready"]
      OBVIOUS
    <2>2. ProcessStep(runs[r], new)
      BY <1>0, <1>1, <2>1, PositionStep DEF GameBoots
    <2>3. runs' = [runs EXCEPT ![r] = new]
      BY <1>1, <2>1 DEF GameBoots
    <2> QED
      BY <1>0, <1>1, <1>m, <2>2, <2>3 DEF GameBoots, ProcessStep, Sound
  <1>2. CASE GameConnects(r)
    <2>1. PICK new :
            new = [runs[r] EXCEPT !.proc = "frame", !.backlog = Append(@, "game")]
      OBVIOUS
    <2>2. ProcessStep(runs[r], new)
      BY <1>0, <1>2, <2>1, ConnectStep DEF GameConnects
    <2>3. runs' = [runs EXCEPT ![r] = new]
      BY <1>0, <1>2, <2>1 DEF GameConnects
    <2> QED
      BY <1>0, <1>2, <1>m, <2>2, <2>3 DEF GameConnects, ProcessStep, Sound
  <1>3. CASE GamePolls(r)
    <2>1. PICK new : new = [runs[r] EXCEPT !.proc = "draw"]
      OBVIOUS
    <2>2. ProcessStep(runs[r], new)
      BY <1>0, <1>3, <2>1, PositionStep DEF GamePolls
    <2>3. runs' = [runs EXCEPT ![r] = new]
      BY <1>3, <2>1 DEF GamePolls
    <2>4. wire' \in Seq(Records)
      BY <1>0, <1>3, WireClosed DEF GamePolls
    <2> QED
      BY <1>0, <1>3, <1>m, <2>2, <2>3, <2>4 DEF GamePolls, ProcessStep, Sound
  <1>4. ASSUME NEW part, NEW n, NEW next, SendHalf(r, part, n, next),
               \/ /\ runs[r].proc = "draw" /\ part = "head"
                  /\ n = runs[r].drawn + 1 /\ next = "half"
               \/ /\ runs[r].proc = "half" /\ part = "body"
                  /\ n = runs[r].drawn /\ next = "frame"
        PROVE  ProcessMoved(r) /\ wire' = wire /\ UNCHANGED Unowned
    <2>1. PICK new :
            new = [runs[r] EXCEPT !.proc = next, !.drawn = n,
                                  !.stream = Append(@, [part |-> part, sequence |-> n])]
      OBVIOUS
    <2>2. ProcessStep(runs[r], new)
      BY <1>0, <1>4, <2>1, SendStep
    <2>3. runs' = [runs EXCEPT ![r] = new]
      BY <1>0, <1>4, <2>1 DEF SendHalf
    <2> QED
      BY <1>0, <1>4, <1>m, <2>2, <2>3 DEF SendHalf, ProcessStep, Sound
  <1>5. CASE GameSendsHead(r)
    BY <1>0, <1>4, <1>5 DEF GameSendsHead
  <1>6. CASE GameSendsBody(r)
    BY <1>0, <1>4, <1>6 DEF GameSendsBody
  <1>7. CASE GameCloses(r)
    <2>1. PICK left \in Left(r) :
            runs' = [runs EXCEPT ![r] = [Closed(r, left) EXCEPT !.proc = "closing"]]
      BY <1>7 DEF GameCloses
    <2>2. PICK c : c = Closed(r, left)
      OBVIOUS
    <2>3. PICK new : new = [c EXCEPT !.proc = "closing"]
      OBVIOUS
    <2>4. /\ left \in Seq(Halves)
          /\ Unread(r) => left \in Prefixes(runs[r].stream)
          /\ ~Unread(r) => left = runs[r].stream
      BY <1>0, LeftOver DEF Left
    <2>5. /\ c \in RunStates /\ SameReceiver(c, runs[r])
          /\ c.status = runs[r].status
          /\ c.drawn = runs[r].drawn /\ c.backlog = runs[r].backlog
          /\ c.reaped = runs[r].reaped /\ c.stream = left
          /\ runs[r].closed = "open" => c.closed = IF Unread(r) THEN "reset" ELSE "fin"
      BY <1>0, <2>2, <2>4, ClosedRun
    <2>6. "closing" \in ProcStates
      BY DEF ProcStates, Running
    <2>7. /\ new \in RunStates /\ SameReceiver(new, c)
          /\ new.status = c.status /\ new.drawn = c.drawn /\ new.backlog = c.backlog
          /\ new.reaped = c.reaped /\ new.stream = c.stream /\ new.closed = c.closed
          /\ new.proc = "closing"
      BY <2>3, <2>5, <2>6 DEF RunStates, SameReceiver
    <2>8. runs[r].proc \in {"frame", "draw"} /\ runs[r].closed = "open"
      BY <1>0, <1>7 DEF GameCloses, Sound, ProcessShape
    <2>9. SameReceiver(new, runs[r]) /\ CloseOutcome(runs[r], new)
      BY <2>4, <2>5, <2>7, <2>8 DEF SameReceiver, CloseOutcome
    <2>10. ProcessStep(runs[r], new)
      BY <1>0, <2>5, <2>7, <2>8, <2>9, CloseStep
    <2>11. wire' \in Seq(Records)
      BY <1>0, <1>7, WireClosed DEF GameCloses
    <2>12. runs' = [runs EXCEPT ![r] = new]
      BY <2>1, <2>2, <2>3
    <2> QED
      BY <1>7, <1>m, <2>7, <2>10, <2>11, <2>12 DEF GameCloses
  <1>8. CASE GameReturns(r)
    <2>1. PICK new : new = Exited(r, "ok", runs[r].stream)
      OBVIOUS
    <2>2. runs[r].proc = "closing" /\ runs[r].closed # "open" /\ runs[r].stream \in Seq(Halves)
      BY <1>0, <1>8 DEF GameReturns, Sound, ProcessShape, RunStates, Halves
    <2>3. /\ new \in RunStates /\ SameReceiver(new, runs[r])
          /\ new.stream = runs[r].stream
          /\ new.proc = "exited" /\ new.status = "ok"
          /\ new.drawn = runs[r].drawn /\ new.backlog = runs[r].backlog
          /\ new.reaped = runs[r].reaped /\ new.closed = runs[r].closed
      BY <1>0, <2>1, <2>2, ExitedRun
    <2>4. ProcessStep(runs[r], new)
      BY <1>0, <2>2, <2>3, ReturnStep
    <2>5. runs' = [runs EXCEPT ![r] = new]
      BY <1>8, <2>1 DEF GameReturns
    <2> QED
      BY <1>0, <1>8, <1>m, <2>3, <2>4, <2>5 DEF GameReturns
  <1>9. CASE GameLosesHost(r)
    <2>1. PICK new : new = Exited(r, "bad", runs[r].stream)
      OBVIOUS
    <2>2. /\ runs[r].proc \in Running /\ runs[r].stream \in Seq(Halves)
      BY <1>0, <1>9 DEF GameLosesHost, Running, RunStates, Halves
    <2>3. /\ new \in RunStates /\ SameReceiver(new, runs[r])
          /\ new.stream = runs[r].stream
          /\ new.proc = "exited" /\ new.status = "bad"
          /\ new.drawn = runs[r].drawn /\ new.backlog = runs[r].backlog
          /\ new.reaped = runs[r].reaped
      BY <1>0, <2>1, <2>2, ExitedRun
    <2>4. Sound(new) /\ (Complete(runs[r]) => Complete(new)) /\ ~Earned(runs[r])
      BY <1>0, <2>2, <2>3, DeathStep
    <2>5. ProcessStep(runs[r], new)
      BY <2>2, <2>3, <2>4 DEF ProcessStep, Running
    <2>6. runs' = [runs EXCEPT ![r] = new]
      BY <1>9, <2>1 DEF GameLosesHost
    <2>7. wire' \in Seq(Records)
      BY <1>0, <1>9, WireClosed DEF GameLosesHost
    <2> QED
      BY <1>9, <1>m, <2>3, <2>5, <2>6, <2>7 DEF GameLosesHost
  <1>10. CASE GameCrashes(r)
    <2>1. PICK left \in Left(r) : runs' = [runs EXCEPT ![r] = Exited(r, "bad", left)]
      BY <1>10 DEF GameCrashes, Killed
    <2>2. PICK new : new = Exited(r, "bad", left)
      OBVIOUS
    <2>3. new \in RunStates /\ ProcessStep(runs[r], new)
      BY <1>10, <2>2, DeadRun DEF GameCrashes
    <2>4. wire' \in Seq(Records)
      BY <1>0, <1>10, WireClosed DEF GameCrashes, Killed
    <2> QED
      BY <1>10, <1>m, <2>1, <2>2, <2>3, <2>4 DEF GameCrashes
  <1>11. CASE StrangerConnects(r)
    <2>1. PICK new : new = [runs[r] EXCEPT !.backlog = Append(@, "stranger")]
      OBVIOUS
    <2>2. /\ runs[r].backlog \in Seq({"game", "stranger"})
          /\ Append(runs[r].backlog, "stranger") \in Seq({"game", "stranger"})
          /\ Append(runs[r].backlog, "stranger") # << >>
      <3>1. runs[r].backlog \in Seq({"game", "stranger"})
        BY <1>0 DEF RunStates
      <3> QED
        BY <3>1
    <2>3. /\ new \in RunStates /\ SameReceiver(new, runs[r])
          /\ new.closed = runs[r].closed /\ new.stream = runs[r].stream
          /\ new.proc = runs[r].proc /\ new.status = runs[r].status
          /\ new.drawn = runs[r].drawn /\ new.backlog # << >>
          /\ new.reaped = runs[r].reaped
      BY <1>0, <2>1, <2>2 DEF RunStates, SameReceiver
    <2>4. ProcessStep(runs[r], new)
      BY <1>0, <2>3, AsideStep
    <2>5. runs' = [runs EXCEPT ![r] = new]
      BY <1>11, <2>1 DEF StrangerConnects
    <2> QED
      BY <1>0, <1>11, <1>m, <2>3, <2>4, <2>5 DEF StrangerConnects
  <1> QED
    BY <1>0, <1>1, <1>2, <1>3, <1>5, <1>6, <1>7, <1>8, <1>9, <1>10, <1>11 DEF GameStep

----------------------------------------------------------------------------
(* What a change of the runs means for the session. *)

\* No receiver moves and no process starts; an error that is taken is reported.
KeptRuns ==
    /\ runs' \in [Runs -> RunStates]
    /\ \A s \in Runs :
          /\ runs'[s].rx = runs[s].rx /\ runs'[s].last = runs[s].last
          /\ runs'[s].gen = runs[s].gen /\ runs'[s].peer = runs[s].peer
          /\ runs[s].fatal =>
                runs'[s].fatal \/ result' = "err" \/ interrupted' \/ Watch
          /\ runs'[s].proc \in Running => runs[s].proc \in Running
          /\ runs'[s].proc = "none" <=> runs[s].proc = "none"
          /\ Sound(runs'[s])
          /\ (Complete(runs[s]) => Complete(runs'[s]))
          /\ (Earned(runs[s]) => Earned(runs'[s]))

LEMMA MovedKeeps ==
    ASSUME SessionInv, NEW r \in Runs, ProcessMoved(r)
    PROVE  KeptRuns /\ \A s \in Runs : runs'[s].reaped = runs[s].reaped
  <1>1. ASSUME NEW s \in Runs, s # r
        PROVE  runs'[s] = runs[s] /\ Sound(runs[s])
    BY <1>1, InvRun DEF ProcessMoved
  <1> QED
    BY <1>1 DEF KeptRuns, ProcessMoved, ProcessStep, SameReceiver

LEMMA SameRunsKept ==
    ASSUME SessionInv, UNCHANGED runs
    PROVE  KeptRuns /\ \A s \in Runs : runs'[s].reaped = runs[s].reaped
  <1>1. ASSUME NEW s \in Runs
        PROVE  runs'[s] = runs[s] /\ Sound(runs[s]) /\ runs \in [Runs -> RunStates]
    BY <1>1, InvRun
  <1> QED
    BY <1>1 DEF KeptRuns, SessionInv, SessionTypeOK

(* The conclusions of a receiver stay what they are. *)
LEMMA KeptFinished ==
    ASSUME SessionInv, KeptRuns, interrupted => interrupted',
           result = "err" => result' = "err" \/ interrupted'
    PROVE  \A s \in Runs : ReceiverFinished(s)'
  <1> SUFFICES ASSUME NEW s \in Runs, runs[s].rx \in {"detach", "stop", "done"}
               PROVE  Faulty(s)' \/ runs'[s].peer = "stranger" \/ Complete(runs'[s])
    BY DEF ReceiverFinished, KeptRuns
  <1>1. Faulty(s) \/ runs[s].peer = "stranger" \/ Complete(runs[s])
    BY InvRun DEF ReceiverFinished
  <1>2. CASE Faulty(s)
    BY <1>2 DEF Faulty, KeptRuns
  <1> QED
    BY <1>1, <1>2 DEF KeptRuns

(* Input and viewers see no difference. *)
LEMMA KeptInput ==
    ASSUME SessionInv, KeptRuns, UNCHANGED <<store, control>>
    PROVE  InputFollowsRun'
  BY DEF SessionInv, InputFollowsRun, KeptRuns

LEMMA KeptReceiving ==
    ASSUME SessionInv, KeptRuns, UNCHANGED store
    PROVE  FramesFlow'
  BY DEF SessionInv, FramesFlow, KeptRuns, Receiving

LEMMA KeptOwned ==
    ASSUME SessionInv, KeptRuns, \A s \in Runs : runs'[s].reaped = runs[s].reaped,
           UNCHANGED <<store, pc, game, stopping>>
    PROVE  \A r \in Runs : RunOwned(r)'
  BY DEF SessionInv, RunOwned, KeptRuns, Receiving, Alive

(* A success is not taken back. *)
LEMMA KeptSuccess ==
    ASSUME SessionInv, KeptRuns, UNCHANGED <<pc, game, stopping, result>>,
           interrupted => interrupted', serverFailed => serverFailed'
    PROVE  SuccessHeld'
  BY DEF SessionInv, SuccessHeld, KeptRuns

(* A step of a game keeps the invariant. *)
LEMMA GameInv ==
    ASSUME SessionInv, NEW r \in Runs, GameStep(r)
    PROVE  SessionInv'
  <1>1. ProcessMoved(r) /\ wire' \in Seq(Records) /\ UNCHANGED Unowned
    BY GameMoves
  <1>2. KeptRuns /\ \A s \in Runs : runs'[s].reaped = runs[s].reaped
    BY <1>1, MovedKeeps
  <1>3. UNCHANGED <<pc, back, result, rebuild, settling, game, stopping, cancelled,
                    interrupted, ctrlc, http, serverFatal, serverFailed, watchdog,
                    store, control>>
    BY <1>1 DEF Unowned, mainVars, flagVars, threadVars
  <1>4. SessionTypeOK'
    BY <1>1, <1>2, <1>3
       DEF SessionInv, SessionTypeOK, StoreTypeOK, ControlTypeOK, KeptRuns
  <1>5. MainShape' /\ CancelHasReason'
    BY <1>3 DEF SessionInv, MainShape, CancelHasReason
  <1>6. FramesFlow' /\ ViewersTold'
    BY <1>2, <1>3, KeptReceiving DEF SessionInv, ViewersTold
  <1>7. InputFollowsRun' /\ SuccessHeld' /\ \A s \in Runs : RunOwned(s)' /\ ReceiverFinished(s)'
    BY <1>2, <1>3, KeptInput, KeptSuccess, KeptOwned, KeptFinished
  <1>8. \A s \in Runs : ProcessShape(runs[s])' /\ StreamAccounted(runs[s])'
    BY <1>2 DEF KeptRuns, Sound
  <1> QED
    BY <1>4, <1>5, <1>6, <1>7, <1>8 DEF SessionInv

----------------------------------------------------------------------------
(* The Ctrl-C handler, the HTTP server and the input watchdog. *)

\* The controller serves the same game as before, or none.
ControlKept ==
    /\ ControlTypeOK'
    /\ control'.generation = control.generation
    /\ control'.game \in {control.game, NoGame}

(* The controller's own operations attach no game. *)
LEMMA ControlChanges ==
    ASSUME ControlTypeOK
    PROVE  /\ Detached \in ControlStates /\ Detached.game = NoGame
           /\ Detached.generation = control.generation
           /\ Freed \in ControlStates /\ Freed.game = control.game
           /\ Freed.generation = control.generation
           /\ \A c \in Clients :
                 /\ Claimed(c) \in ControlStates /\ Claimed(c).game = control.game
                 /\ Claimed(c).generation = control.generation
           /\ ServerRelease \in Records
  <1>1. control \in ControlStates
    BY DEF ControlTypeOK
  <1>2. Detached \in ControlStates /\ Detached.game = NoGame
        /\ Detached.generation = control.generation
    BY <1>1 DEF Detached, ControlStates, NoGame
  <1>3. Freed \in ControlStates /\ Freed.game = control.game
        /\ Freed.generation = control.generation
    BY <1>1 DEF Freed, ControlStates
  <1>4. ASSUME NEW c \in Clients
        PROVE  /\ Claimed(c) \in ControlStates /\ Claimed(c).game = control.game
               /\ Claimed(c).generation = control.generation
    BY <1>1 DEF Claimed, ControlStates
  <1>5. ServerRelease \in Records
    <2>1. control.generation \in Nat
      BY <1>1 DEF ControlStates
    <2> QED
      BY <2>1 DEF ServerRelease, Records
  <1> QED
    BY <1>2, <1>3, <1>4, <1>5

LEMMA WrittenKept ==
    ASSUME ControlTypeOK, NEW record \in Records, NEW alive, Written(record, alive)
    PROVE  wire' \in Seq(Records)
  BY DEF Written, ControlTypeOK

LEMMA FailedKept ==
    ASSUME ControlTypeOK, NEW alive, WriteFailed(alive)
    PROVE  ControlKept
  BY ControlChanges DEF WriteFailed, ControlKept, ControlTypeOK

(* POST /input. *)
LEMMA PostKept ==
    ASSUME ControlTypeOK, StoreTypeOK, Post
    PROVE  ControlKept
  <1>1. PICK c \in Clients, k \in Keys, g \in 1..store.generation :
            Apply([client |-> c, kind |-> "down", key |-> k, gen |-> g], PeerOpen)
    BY DEF Post
  <1>2. PICK request : request = [client |-> c, kind |-> "down", key |-> k, gen |-> g]
    OBVIOUS
  <1>3. /\ request.client = c /\ request.kind = "down" /\ request.key = k
        /\ request.gen = g /\ g \in Nat
    <2>1. store.generation \in Nat
      BY DEF StoreTypeOK
    <2> QED
      BY <1>2, <2>1
  <1>4. RecordOf(request) \in Records
    BY <1>3 DEF RecordOf, Records
  <1>5. CASE ApplyRejected(request)
    BY <1>5 DEF ApplyRejected, ControlKept, ControlTypeOK
  <1>6. CASE ApplyHeartbeat(request)
    BY <1>3, <1>6 DEF ApplyHeartbeat
  <1>7. CASE ApplySent(request, PeerOpen)
    <2>1. wire' \in Seq(Records)
      BY <1>4, <1>7, WrittenKept DEF ApplySent
    <2>2. control' = Claimed(c)
      BY <1>3, <1>7 DEF ApplySent
    <2> QED
      BY <2>1, <2>2, ControlChanges DEF ControlKept, ControlTypeOK
  <1>8. CASE ApplyFailed(request, PeerOpen)
    BY <1>8, FailedKept DEF ApplyFailed
  <1> QED
    BY <1>1, <1>2, <1>5, <1>6, <1>7, <1>8 DEF Apply

(* The watchdog's last step leaves nothing attached. *)
LEMMA WatchdogKept ==
    ASSUME ControlTypeOK, WatchdogEnds
    PROVE  ControlKept
  <1>1. CASE Written(ServerRelease, PeerOpen) /\ control' = Detached
    <2>1. wire' \in Seq(Records)
      BY <1>1, ControlChanges, WrittenKept
    <2> QED
      BY <1>1, <2>1, ControlChanges DEF ControlKept, ControlTypeOK
  <1>2. CASE WriteFailed(PeerOpen)
    BY <1>2, FailedKept
  <1> QED
    BY <1>1, <1>2 DEF WatchdogEnds, ReleaseAndDisconnect

(* The input that is left belongs to the same run. *)
LEMMA KeptControl ==
    ASSUME SessionInv, KeptRuns, UNCHANGED store, ControlKept
    PROVE  InputFollowsRun'
  BY DEF SessionInv, InputFollowsRun, KeptRuns, ControlKept

(* A thread of the session keeps the invariant. *)
LEMMA ThreadInv ==
    ASSUME SessionInv, ThreadStep
    PROVE  SessionInv'
  <1>0. /\ ControlTypeOK /\ StoreTypeOK /\ SessionTypeOK
        /\ wire \in Seq(Records) /\ control \in ControlStates
    BY DEF SessionInv, SessionTypeOK, ControlTypeOK
  <1>1. UNCHANGED <<pc, back, result, rebuild, settling, game, stopping, store>>
    BY DEF ThreadStep, CtrlC, CtrlCCancels, HttpFails, HttpCancels, HttpStops, Post,
           WatchdogEnds, mainVars
  <1>2. KeptRuns /\ \A s \in Runs : runs'[s].reaped = runs[s].reaped
    <2>1. ASSUME NEW r \in Runs, Alive(r), NEW run \in Signalled(r), Delivered(r, run)
          PROVE  KeptRuns /\ \A s \in Runs : runs'[s].reaped = runs[s].reaped
      BY <2>1, SignalledRun, MovedKeeps
    <2>2. \/ UNCHANGED runs
          \/ \E r \in Runs : Alive(r) /\ \E run \in Signalled(r) : Delivered(r, run)
      BY DEF ThreadStep, CtrlC, CtrlCCancels, HttpFails, HttpCancels, HttpStops, Post,
             WatchdogEnds
    <2> QED
      BY <2>1, <2>2, SameRunsKept
  <1>3. ControlKept
    <2>1. CASE CtrlC
      <3>1. wire' \in Seq(Records)
        BY <1>0, <2>1, SignalledRun DEF CtrlC
      <3> QED
        BY <1>0, <2>1, <3>1 DEF CtrlC, ControlKept, ControlTypeOK
    <2>2. CASE Post
      BY <1>0, <2>2, PostKept
    <2>3. CASE WatchdogEnds
      BY <1>0, <2>3, WatchdogKept
    <2>4. CASE UNCHANGED <<control, wire>>
      BY <1>0, <2>4 DEF ControlKept, ControlTypeOK
    <2> QED
      BY <2>1, <2>2, <2>3, <2>4
         DEF ThreadStep, CtrlCCancels, HttpFails, HttpCancels, HttpStops
  <1>4. /\ (interrupted => interrupted') /\ (serverFailed => serverFailed')
        /\ {cancelled', interrupted', serverFatal', serverFailed'} \subseteq BOOLEAN
        /\ ctrlc' \in {"idle", "half", "done"} /\ http' \in {"run", "failing", "done"}
        /\ watchdog' \in {"run", "done"}
        /\ CancelHasReason'
    <2> USE <1>1
    <2>0. /\ {cancelled, interrupted, serverFatal, serverFailed} \subseteq BOOLEAN
          /\ ctrlc \in {"idle", "half", "done"} /\ http \in {"run", "failing", "done"}
          /\ watchdog \in {"run", "done"} /\ CancelHasReason
      BY DEF SessionInv, SessionTypeOK
    <2>1. CASE CtrlC
      BY <2>0, <2>1 DEF CtrlC, CancelHasReason
    <2>2. CASE CtrlCCancels
      BY <2>0, <2>2 DEF CtrlCCancels, CancelHasReason
    <2>3. CASE HttpFails
      BY <2>0, <2>3 DEF HttpFails, CancelHasReason, flagVars
    <2>4. CASE HttpCancels
      BY <2>0, <2>4 DEF HttpCancels, CancelHasReason
    <2>5. CASE HttpStops
      BY <2>0, <2>5 DEF HttpStops, CancelHasReason, flagVars
    <2>6. CASE Post
      BY <2>0, <2>6 DEF Post, CancelHasReason, flagVars, threadVars
    <2>7. CASE WatchdogEnds
      BY <2>0, <2>7 DEF WatchdogEnds, CancelHasReason, flagVars
    <2> QED
      BY <2>1, <2>2, <2>3, <2>4, <2>5, <2>6, <2>7 DEF ThreadStep
  <1>5. SessionTypeOK'
    BY <1>0, <1>1, <1>2, <1>3, <1>4
       DEF SessionTypeOK, StoreTypeOK, ControlKept, KeptRuns
  <1>6. MainShape'
    BY <1>1 DEF SessionInv, MainShape
  <1>7. FramesFlow' /\ ViewersTold'
    BY <1>1, <1>2, KeptReceiving DEF SessionInv, ViewersTold
  <1>8. /\ InputFollowsRun' /\ SuccessHeld'
        /\ \A s \in Runs : RunOwned(s)' /\ ReceiverFinished(s)'
    BY <1>1, <1>2, <1>3, <1>4, KeptControl, KeptSuccess, KeptOwned, KeptFinished
  <1>9. \A s \in Runs : ProcessShape(runs[s])' /\ StreamAccounted(runs[s])'
    BY <1>2 DEF KeptRuns, Sound
  <1> QED
    BY <1>4, <1>5, <1>6, <1>7, <1>8, <1>9 DEF SessionInv

----------------------------------------------------------------------------
(* The receiver of a run. *)

Late == {"fail", "detach", "stop", "done"}

(* Until the first header the receiver has read nothing. *)
LEMMA EarlyStep ==
    ASSUME NEW run, Sound(run), run.rx \in {"look", "accept", "generation", "connect"},
           NEW new, new \in RunStates, SameProcess(new, run),
           new.stream = run.stream, new.last = run.last,
           new.rx \in {"look", "accept", "generation", "connect", "head"},
           new.rx \in {"look", "accept"} => new.peer = "none",
           run.peer \in {"none", new.peer}, new.sawReaped => run.reaped
    PROVE  Sound(new)
  <1>1. run.last = 0 /\ Received(new) = Received(run) /\ Sent(new) = Sent(run)
    BY DEF Sound, ProcessShape, Received, Sent, SameProcess
  <1>2. ProcessShape(new)
    BY <1>1 DEF Sound, ProcessShape, SameProcess
  <1>3. StreamAccounted(new)
    BY <1>1 DEF Sound, StreamAccounted, SameProcess
  <1> QED
    BY <1>2, <1>3 DEF Sound

(* A receiver that ends reads no more. *)
LEMMA LateStep ==
    ASSUME NEW run, Sound(run), NEW new, new \in RunStates, SameProcess(new, run),
           new.stream = run.stream, new.sawReaped = run.sawReaped, new.rx \in Late
    PROVE  Sound(new)
  <1>1. ProcessShape(new)
    BY DEF Sound, ProcessShape, SameProcess, Late
  <1>2. StreamAccounted(new)
    BY DEF StreamAccounted, Late
  <1> QED
    BY <1>1, <1>2 DEF Sound

(* Taking one half frame off the stream shifts the others. *)
LEMMA TailOf ==
    ASSUME NEW s \in Seq(Halves), s # << >>
    PROVE  /\ Head(s) = s[1] /\ Head(s) \in Halves /\ Tail(s) \in Seq(Halves)
           /\ Len(s) \in Nat /\ Len(s) >= 1 /\ Len(Tail(s)) = Len(s) - 1
           /\ \A i \in 1..Len(Tail(s)) : i + 1 \in 1..Len(s) /\ Tail(s)[i] = s[i + 1]
  <1>1. Len(s) \in Nat /\ Len(s) # 0
    BY EmptySeq
  <1>2. Head(s) = s[1] /\ Head(s) \in Halves /\ Tail(s) \in Seq(Halves)
    <2> HIDE DEF Halves
    <2> QED
      BY <1>1
  <1>3. Len(Tail(s)) = Len(s) - 1 /\ \A i \in 1..Len(s) - 1 : Tail(s)[i] = s[i + 1]
    BY <1>1
  <1> QED
    BY <1>1, <1>2, <1>3

(* A half frame is read: the numbers of those behind it fit its own. *)
LEMMA ReadStep ==
    ASSUME NEW run, Sound(run), run.stream # << >>, run.peer # "stranger",
           NEW new, new \in RunStates, SameProcess(new, run), new.stream = Tail(run.stream),
           \/ /\ run.rx = "head" /\ new.rx = "body"
              /\ new.head = Head(run.stream).sequence /\ new.last = run.last
           \/ /\ run.rx = "body" /\ new.rx = "head"
              /\ new.last = run.head,
           new.sawReaped = run.sawReaped
    PROVE  Sound(new)
  <1>1. run.stream \in Seq(Halves) /\ run.last \in Nat /\ run.head \in Nat
    BY DEF Sound, RunStates, Halves
  <1>2. /\ Head(run.stream) = run.stream[1] /\ Head(run.stream) \in Halves
        /\ Len(run.stream) \in Nat /\ Len(run.stream) >= 1
        /\ Len(new.stream) = Len(run.stream) - 1
        /\ \A i \in 1..Len(new.stream) :
              i + 1 \in 1..Len(run.stream) /\ new.stream[i] = run.stream[i + 1]
    BY <1>1, TailOf
  <1>3. /\ run.rx = "body" => run.head = run.last + 1
        /\ \A i \in 1..Len(run.stream) :
              2 * run.stream[i].sequence \in {Received(run) + i, Received(run) + i + 1}
        /\ run.status # "bad" /\ run.closed # "reset" =>
              Received(run) + Len(run.stream) = Sent(run)
    BY DEF Sound, StreamAccounted
  <1>4. /\ Received(new) = Received(run) + 1 /\ Received(run) \in Nat
        /\ new.rx = "body" => new.head = new.last + 1
        /\ new.rx \in {"head", "body"}
    <2>1. CASE run.rx = "head"
      <3>1. Received(run) = 2 * run.last /\ Received(new) = 2 * run.last + 1
        BY <1>1, <2>1 DEF Received
      <3>2. 1 \in 1..Len(run.stream) /\ run.stream[1].sequence \in Nat
        BY <1>2 DEF Halves
      <3>3. 2 * run.stream[1].sequence \in {2 * run.last + 1, 2 * run.last + 1 + 1}
        BY <1>3, <3>1, <3>2
      <3>4. run.stream[1].sequence = run.last + 1
        BY <1>1, <3>2, <3>3
      <3> QED
        BY <1>1, <1>2, <2>1, <3>1, <3>4
    <2>2. CASE run.rx = "body"
      <3>1. Received(run) = 2 * run.last + 1 /\ Received(new) = 2 * run.head
        BY <1>1, <2>2 DEF Received
      <3> QED
        <4>1. run.head = run.last + 1
          BY <1>3, <2>2
        <4> QED
          BY <1>1, <2>2, <3>1, <4>1
    <2> QED
      BY <2>1, <2>2
  <1>5. ProcessShape(new)
    BY <1>4 DEF Sound, ProcessShape, SameProcess
  <1>6. Sent(new) = Sent(run)
    BY DEF Sent, SameProcess
  <1>7. ASSUME NEW i \in 1..Len(new.stream)
        PROVE  2 * new.stream[i].sequence \in {Received(new) + i, Received(new) + i + 1}
    <2>1. 2 * run.stream[i + 1].sequence
              \in {Received(run) + (i + 1), Received(run) + (i + 1) + 1}
      BY <1>2, <1>3
    <2>2. i \in Nat /\ new.stream[i] = run.stream[i + 1]
      BY <1>2
    <2> QED
      BY <1>4, <2>1, <2>2
  <1>8. run.status # "bad" /\ run.closed # "reset" =>
            Received(new) + Len(new.stream) = Sent(new)
    BY <1>2, <1>3, <1>4, <1>6
  <1>9. StreamAccounted(new)
    BY <1>4, <1>7, <1>8 DEF StreamAccounted, SameProcess
  <1> QED
    BY <1>5, <1>9 DEF Sound

(* The frames of a foreign connection are counted nowhere. *)
LEMMA ForeignStep ==
    ASSUME NEW run, Sound(run), run.rx \in {"head", "body"},
           NEW new, new \in RunStates, SameProcess(new, run), new.stream = run.stream,
           new.rx \in {"head", "body"}, new.peer = "stranger",
           new.sawReaped = run.sawReaped
    PROVE  Sound(new)
  <1>1. ProcessShape(new)
    BY DEF Sound, ProcessShape, SameProcess
  <1>2. StreamAccounted(new)
    BY DEF StreamAccounted
  <1> QED
    BY <1>1, <1>2 DEF Sound

\* The receiver of run r alone gets on.
ReceiverMoved(r) ==
    /\ runs' \in [Runs -> RunStates]
    /\ \A s \in Runs : s # r => runs'[s] = runs[s]
    /\ Receiving(r) /\ runs'[r].rx # "none"
    /\ Sound(runs'[r]) /\ SameProcess(runs'[r], runs[r])
    /\ runs'[r].rx = "connect" => runs'[r].gen = store.generation
    /\ runs'[r].rx \in {"detach", "stop", "done"} =>
          \/ runs'[r].fatal \/ result = "err" \/ interrupted \/ Watch
          \/ runs'[r].peer = "stranger" \/ Complete(runs'[r])

(* Before connect_game. *)
LEMMA EarlyMoves ==
    ASSUME SessionInv, NEW r \in Runs,
           RxLooks(r) \/ RxAccepts(r) \/ RxFindsNothing(r) \/ RxReadsGeneration(r)
           \/ RxConnects(r)
    PROVE  /\ ReceiverMoved(r) /\ runs[r].rx \in {"look", "accept", "generation", "connect"}
           /\ runs'[r].last = runs[r].last
           /\ ~RxConnects(r) => UNCHANGED <<store, control, wire>>
  <1>0. /\ runs \in [Runs -> RunStates] /\ Sound(runs[r]) /\ runs[r] \in RunStates
    BY InvRun
  <1>1. CASE RxLooks(r)
    <2>1. PICK new : new = [runs[r] EXCEPT !.sawReaped = runs[r].reaped, !.rx = "accept"]
      OBVIOUS
    <2>2. runs' = [runs EXCEPT ![r] = new] /\ runs[r].rx = "look"
      BY <1>0, <1>1, <2>1 DEF RxLooks, ReceiverAt
    <2>3. /\ new \in RunStates /\ SameProcess(new, runs[r])
          /\ new.stream = runs[r].stream /\ new.last = runs[r].last
          /\ new.rx = "accept" /\ new.peer = runs[r].peer
          /\ new.sawReaped = runs[r].reaped
      BY <1>0, <2>1 DEF RunStates, ReceiverStates, SameProcess
    <2>4. runs[r].peer = "none"
      BY <1>0, <2>2 DEF Sound, ProcessShape
    <2>5. Sound(new)
      BY <1>0, <2>2, <2>3, <2>4, EarlyStep
    <2> QED
      BY <1>0, <1>1, <2>2, <2>3, <2>5, OneRun DEF ReceiverMoved, Receiving, RxLooks
  <1>2. CASE RxAccepts(r)
    <2>1. PICK new : new = [runs[r] EXCEPT !.peer = Head(runs[r].backlog), !.rx = "generation"]
      OBVIOUS
    <2>2. runs' = [runs EXCEPT ![r] = new] /\ runs[r].rx = "accept"
      BY <1>0, <1>2, <2>1 DEF RxAccepts, ReceiverAt
    <2>3. Head(runs[r].backlog) \in {"game", "stranger"}
      <3>1. runs[r].backlog \in Seq({"game", "stranger"}) /\ runs[r].backlog # << >>
        BY <1>0, <1>2 DEF RunStates, RxAccepts
      <3> QED
        BY <3>1, HeadTailProperties
    <2>4. /\ new \in RunStates /\ SameProcess(new, runs[r])
          /\ new.stream = runs[r].stream /\ new.last = runs[r].last
          /\ new.rx = "generation" /\ new.sawReaped = runs[r].sawReaped
      BY <1>0, <2>1, <2>3 DEF RunStates, ReceiverStates, SameProcess
    <2>5. Sound(new)
      <3>1. (runs[r].sawReaped => runs[r].reaped) /\ runs[r].peer = "none"
        BY <1>0, <2>2 DEF Sound, ProcessShape
      <3> QED
        BY <1>0, <2>2, <2>4, <3>1, EarlyStep
    <2> QED
      BY <1>0, <1>2, <2>2, <2>4, <2>5, OneRun DEF ReceiverMoved, Receiving, RxAccepts
  <1>3. CASE RxFindsNothing(r)
    <2>1. PICK next : next = IF runs[r].sawReaped THEN "detach" ELSE "look"
      OBVIOUS
    <2>2. PICK new : new = [runs[r] EXCEPT !.rx = next]
      OBVIOUS
    <2>3. runs' = [runs EXCEPT ![r] = new] /\ runs[r].rx = "accept"
      BY <1>0, <1>3, <2>1, <2>2 DEF RxFindsNothing, ReceiverAt
    <2>4. /\ new \in RunStates /\ SameProcess(new, runs[r])
          /\ new.stream = runs[r].stream /\ new.last = runs[r].last
          /\ new.rx = next /\ new.sawReaped = runs[r].sawReaped
          /\ new.peer = runs[r].peer
      <3>1. next \in {"detach", "look"}
        BY <2>1
      <3> QED
        BY <1>0, <2>2, <3>1 DEF RunStates, ReceiverStates, SameProcess
    <2>6. CASE runs[r].sawReaped
      <3>1. next = "detach"
        BY <2>1, <2>6
      <3>2. Sound(new)
        BY <1>0, <2>4, <3>1, LateStep DEF Late
      <3>3. runs[r].proc = "exited" /\ runs[r].status = "bad"
        <4>1. runs[r].status \in {"none", "ok", "bad"} /\ runs[r].backlog = << >>
          BY <1>0, <1>3 DEF RunStates, RxFindsNothing
        <4>2. runs[r].proc = "exited" /\ runs[r].status # "none" /\ runs[r].status # "ok"
          BY <1>0, <2>6, <4>1 DEF Sound, ProcessShape
        <4> QED
          BY <4>1, <4>2
      <3>4. Complete(new)
        BY <2>4, <3>3 DEF Complete, SameProcess
      <3> QED
        BY <1>0, <1>3, <2>3, <2>4, <3>1, <3>2, <3>4, OneRun
           DEF ReceiverMoved, Receiving, RxFindsNothing, RxConnects, ReceiverAt
    <2>7. CASE ~runs[r].sawReaped
      <3>1. next = "look"
        BY <2>1, <2>7
      <3>2. runs[r].peer = "none" /\ ~new.sawReaped
        BY <1>0, <2>3, <2>4, <2>7 DEF Sound, ProcessShape
      <3>3. Sound(new)
        BY <1>0, <2>3, <2>4, <3>1, <3>2, EarlyStep
      <3> QED
        BY <1>0, <1>3, <2>3, <2>4, <3>1, <3>3, OneRun
           DEF ReceiverMoved, Receiving, RxFindsNothing, RxConnects, ReceiverAt
    <2> QED
      BY <2>6, <2>7
  <1>4. CASE RxReadsGeneration(r)
    <2>1. PICK new : new = [runs[r] EXCEPT !.gen = store.generation, !.rx = "connect"]
      OBVIOUS
    <2>2. runs' = [runs EXCEPT ![r] = new] /\ runs[r].rx = "generation"
      BY <1>0, <1>4, <2>1 DEF RxReadsGeneration, ReceiverAt
    <2>3. store.generation \in Nat
      BY DEF SessionInv, SessionTypeOK, StoreTypeOK
    <2>4. /\ new \in RunStates /\ SameProcess(new, runs[r])
          /\ new.stream = runs[r].stream /\ new.last = runs[r].last
          /\ new.rx = "connect" /\ new.sawReaped = runs[r].sawReaped
          /\ new.gen = store.generation /\ new.peer = runs[r].peer
      BY <1>0, <2>1, <2>3 DEF RunStates, ReceiverStates, SameProcess
    <2>5. Sound(new)
      <3>1. runs[r].sawReaped => runs[r].reaped
        BY <1>0 DEF Sound, ProcessShape
      <3> QED
        BY <1>0, <2>2, <2>4, <3>1, EarlyStep
    <2> QED
      BY <1>0, <1>4, <2>2, <2>4, <2>5, OneRun DEF ReceiverMoved, Receiving, RxReadsGeneration
  <1>5. CASE RxConnects(r)
    <2>1. PICK new : new = [runs[r] EXCEPT !.rx = "head"]
      OBVIOUS
    <2>2. runs' = [runs EXCEPT ![r] = new] /\ runs[r].rx = "connect"
      BY <1>0, <1>5, <2>1 DEF RxConnects, ReceiverAt
    <2>3. /\ new \in RunStates /\ SameProcess(new, runs[r])
          /\ new.stream = runs[r].stream /\ new.last = runs[r].last
          /\ new.rx = "head" /\ new.sawReaped = runs[r].sawReaped
          /\ new.peer = runs[r].peer
      BY <1>0, <2>1 DEF RunStates, ReceiverStates, SameProcess
    <2>4. Sound(new)
      <3>1. runs[r].sawReaped => runs[r].reaped
        BY <1>0 DEF Sound, ProcessShape
      <3> QED
        BY <1>0, <2>2, <2>3, <3>1, EarlyStep
    <2> QED
      BY <1>0, <1>5, <2>2, <2>3, <2>4, OneRun DEF ReceiverMoved, Receiving
  <1> QED
    BY <1>1, <1>2, <1>3, <1>4, <1>5

(* Reading a frame. *)
LEMMA ReadMoves ==
    ASSUME SessionInv, NEW r \in Runs,
           \/ RxReadsHead(r)
           \/ RxReadsBody(r) /\ runs[r].head > runs[r].last
    PROVE  /\ ReceiverMoved(r) /\ runs[r].rx \in {"head", "body"}
           /\ runs'[r].rx \in {"head", "body"}
           /\ RxReadsHead(r) => runs'[r].last = runs[r].last
           /\ RxReadsBody(r) => runs'[r].last = runs[r].head
  <1>0. /\ runs \in [Runs -> RunStates] /\ Sound(runs[r]) /\ runs[r] \in RunStates
        /\ runs[r].stream \in Seq(Halves) /\ runs[r].head \in Nat
    BY InvRun DEF RunStates, Halves
  <1>s. /\ runs[r].stream # << >> /\ Tail(runs[r].stream) \in Seq(Halves)
        /\ runs[r].peer # "stranger"
        /\ Head(runs[r].stream).sequence \in Nat
    <2>1. runs[r].stream # << >> /\ runs[r].peer = "game"
      BY DEF RxReadsHead, RxReadsBody, Readable
    <2>2. Head(runs[r].stream) \in Halves /\ Tail(runs[r].stream) \in Seq(Halves)
      BY <1>0, <2>1, TailOf
    <2> QED
      BY <2>1, <2>2 DEF Halves
  <1>1. CASE RxReadsHead(r)
    <2>1. PICK new : new = [runs[r] EXCEPT !.head = Head(runs[r].stream).sequence,
                                           !.stream = Tail(@), !.rx = "body"]
      OBVIOUS
    <2>2. runs' = [runs EXCEPT ![r] = new] /\ runs[r].rx = "head"
      BY <1>0, <1>1, <2>1 DEF RxReadsHead, ReceiverAt
    <2>3. /\ new \in RunStates /\ SameProcess(new, runs[r])
          /\ new.stream = Tail(runs[r].stream) /\ new.last = runs[r].last
          /\ new.rx = "body" /\ new.sawReaped = runs[r].sawReaped
          /\ new.head = Head(runs[r].stream).sequence
      <3>1. PICK rest, n : rest = Tail(runs[r].stream) /\ n = Head(runs[r].stream).sequence
        OBVIOUS
      <3>2. new = [runs[r] EXCEPT !.head = n, !.stream = rest, !.rx = "body"]
            /\ rest \in Seq([part : {"head", "body"}, sequence : Nat]) /\ n \in Nat
        BY <1>s, <2>1, <3>1 DEF Halves
      <3>3. /\ new \in RunStates /\ SameProcess(new, runs[r])
            /\ new.stream = rest /\ new.last = runs[r].last
            /\ new.rx = "body" /\ new.sawReaped = runs[r].sawReaped
            /\ new.head = n
        BY <1>0, <3>2 DEF RunStates, ReceiverStates, SameProcess
      <3> QED
        BY <3>1, <3>3
    <2>4. Sound(new)
      BY <1>0, <1>s, <2>2, <2>3, ReadStep
    <2>5. ~RxReadsBody(r)
      BY <2>2 DEF RxReadsBody, FrameComplete, ReceiverAt
    <2> QED
      BY <1>0, <2>2, <2>3, <2>4, <2>5, OneRun DEF ReceiverMoved, Receiving
  <1>2. CASE RxReadsBody(r) /\ runs[r].head > runs[r].last
    <2>1. PICK new : new = [runs[r] EXCEPT !.last = runs[r].head, !.head = 0,
                                           !.stream = Tail(runs[r].stream), !.rx = "head"]
      OBVIOUS
    <2>2. runs' = [runs EXCEPT ![r] = new] /\ runs[r].rx = "body"
      BY <1>0, <1>2, <2>1 DEF RxReadsBody, FrameComplete, ReceiverAt
    <2>3. /\ new \in RunStates /\ SameProcess(new, runs[r])
          /\ new.stream = Tail(runs[r].stream) /\ new.last = runs[r].head
          /\ new.rx = "head" /\ new.sawReaped = runs[r].sawReaped
      <3>1. PICK rest : rest = Tail(runs[r].stream)
        OBVIOUS
      <3>2. new = [runs[r] EXCEPT !.last = runs[r].head, !.head = 0, !.stream = rest,
                                  !.rx = "head"]
            /\ rest \in Seq([part : {"head", "body"}, sequence : Nat])
        BY <1>s, <2>1, <3>1 DEF Halves
      <3>3. /\ new \in RunStates /\ SameProcess(new, runs[r])
            /\ new.stream = rest /\ new.last = runs[r].head
            /\ new.rx = "head" /\ new.sawReaped = runs[r].sawReaped
        BY <1>0, <3>2 DEF RunStates, ReceiverStates, SameProcess
      <3> QED
        BY <3>1, <3>3
    <2>4. Sound(new)
      BY <1>0, <1>s, <2>2, <2>3, ReadStep
    <2>5. ~RxReadsHead(r)
      BY <2>2 DEF RxReadsHead, ReceiverAt
    <2> QED
      BY <1>0, <2>2, <2>3, <2>4, <2>5, OneRun DEF ReceiverMoved, Receiving
  <1> QED
    BY <1>1, <1>2

(* What a foreign connection sends while it is read. *)
LEMMA ForeignMoves ==
    ASSUME SessionInv, NEW r \in Runs,
           \/ StrangerTalks(r) \/ StrangerSendsHead(r)
           \/ StrangerSendsBody(r) /\ runs[r].head > runs[r].last
    PROVE  /\ ReceiverMoved(r) /\ runs'[r].rx \in {"head", "body"}
           /\ ~StrangerSendsBody(r) => runs'[r].last = runs[r].last
           /\ StrangerSendsBody(r) /\ runs[r].head > runs[r].last
                 => runs'[r].last = runs[r].head
  <1>0. /\ runs \in [Runs -> RunStates] /\ Sound(runs[r]) /\ runs[r] \in RunStates
        /\ runs[r].head \in Nat /\ runs[r].talks \in BOOLEAN
    BY InvRun DEF RunStates
  <1>1. runs[r].rx \in {"head", "body"} /\ runs[r].peer = "stranger"
    BY DEF StrangerTalks, StrangerSendsHead, StrangerSendsBody, Foreign, ReceiverAt
  <1>2. ASSUME NEW new \in RunStates, runs' = [runs EXCEPT ![r] = new],
               SameProcess(new, runs[r]), new.stream = runs[r].stream,
               new.rx \in {"head", "body"}, new.peer = "stranger",
               new.sawReaped = runs[r].sawReaped
        PROVE  ReceiverMoved(r) /\ runs'[r] = new
    <2>1. Sound(new)
      BY <1>0, <1>1, <1>2, ForeignStep
    <2> QED
      BY <1>0, <1>1, <1>2, <2>1, OneRun DEF ReceiverMoved, Receiving
  <1>3. CASE StrangerTalks(r)
    <2>1. PICK new : new = [runs[r] EXCEPT !.talks = ~@]
      OBVIOUS
    <2>2. runs' = [runs EXCEPT ![r] = new]
      BY <1>0, <1>3, <2>1 DEF StrangerTalks
    <2>3. /\ new \in RunStates /\ SameProcess(new, runs[r])
          /\ new.stream = runs[r].stream /\ new.last = runs[r].last
          /\ new.rx = runs[r].rx /\ new.peer = "stranger"
          /\ new.sawReaped = runs[r].sawReaped
      <3>1. PICK b \in BOOLEAN : b = ~runs[r].talks
        OBVIOUS
      <3>2. new = [runs[r] EXCEPT !.talks = b]
        BY <2>1, <3>1
      <3> QED
        BY <1>0, <1>1, <3>2 DEF RunStates, SameProcess
    <2>4. StrangerSendsBody(r) /\ runs[r].head > runs[r].last => runs'[r].last = runs[r].head
      BY <1>0, <1>1 DEF StrangerSendsBody, FrameComplete, RunStates
    <2> QED
      BY <1>1, <1>2, <2>2, <2>3, <2>4
  <1>4. CASE StrangerSendsHead(r)
    <2>1. PICK n \in 1..MaxFrames : runs' = [runs EXCEPT ![r].head = n, ![r].rx = "body"]
      BY <1>4 DEF StrangerSendsHead
    <2>2. PICK new : new = [runs[r] EXCEPT !.head = n, !.rx = "body"]
      OBVIOUS
    <2>3. runs' = [runs EXCEPT ![r] = new] /\ n \in Nat /\ runs[r].rx = "head"
      <3>1. runs' = [runs EXCEPT ![r] = new]
        BY <1>0, <2>1, <2>2
      <3>2. MaxFrames \in Nat /\ runs[r].rx = "head"
        BY <1>4, SessionAssumption DEF StrangerSendsHead, Foreign, ReceiverAt
      <3> QED
        BY <3>1, <3>2
    <2>4. /\ new \in RunStates /\ SameProcess(new, runs[r])
          /\ new.stream = runs[r].stream /\ new.last = runs[r].last
          /\ new.rx = "body" /\ new.peer = "stranger"
          /\ new.sawReaped = runs[r].sawReaped
      BY <1>0, <1>1, <2>2, <2>3 DEF RunStates, ReceiverStates, SameProcess
    <2>5. ~StrangerSendsBody(r)
      BY <2>3 DEF StrangerSendsBody, Foreign, ReceiverAt
    <2> QED
      BY <1>2, <2>3, <2>4, <2>5
  <1>5. CASE StrangerSendsBody(r) /\ runs[r].head > runs[r].last
    <2>1. PICK new : new = [runs[r] EXCEPT !.last = runs[r].head, !.head = 0,
                                           !.stream = runs[r].stream, !.rx = "head"]
      OBVIOUS
    <2>2. runs' = [runs EXCEPT ![r] = new]
      BY <1>0, <1>5, <2>1 DEF StrangerSendsBody, FrameComplete
    <2>3. /\ new \in RunStates /\ SameProcess(new, runs[r])
          /\ new.stream = runs[r].stream /\ new.last = runs[r].head
          /\ new.rx = "head" /\ new.peer = "stranger"
          /\ new.sawReaped = runs[r].sawReaped
      BY <1>0, <1>1, <2>1 DEF RunStates, ReceiverStates, SameProcess
    <2> QED
      BY <1>2, <1>5, <2>2, <2>3
  <1> QED
    BY <1>3, <1>4, <1>5

(* A receiver that has nothing more to read says why. *)
LEMMA LateMoves ==
    ASSUME SessionInv, NEW r \in Runs, NEW next \in Late, Receiving(r),
           runs' = [runs EXCEPT ![r].rx = next] \/ StopsReading(r, next),
           next \in {"detach", "stop", "done"} =>
               \/ runs[r].peer = "stranger" \/ Complete(runs[r]) \/ Faulty(r)
    PROVE  ReceiverMoved(r) /\ runs'[r].rx = next /\ runs'[r].last = runs[r].last
  <1>0. /\ runs \in [Runs -> RunStates] /\ Sound(runs[r]) /\ runs[r] \in RunStates
    BY InvRun
  <1>1. PICK new : \/ new = [runs[r] EXCEPT !.rx = next]
                      /\ runs' = [runs EXCEPT ![r].rx = next]
                   \/ new = [runs[r] EXCEPT !.rx = next, !.head = 0, !.talks = FALSE]
                      /\ StopsReading(r, next)
    OBVIOUS
  <1>2. runs' = [runs EXCEPT ![r] = new]
    BY <1>0, <1>1 DEF StopsReading
  <1>3. /\ new \in RunStates /\ SameProcess(new, runs[r])
        /\ new.stream = runs[r].stream /\ new.last = runs[r].last
        /\ new.rx = next /\ new.sawReaped = runs[r].sawReaped
        /\ new.peer = runs[r].peer /\ new.fatal = runs[r].fatal
    <2>1. next \in ReceiverStates
      BY DEF Late, ReceiverStates
    <2>2. CASE new = [runs[r] EXCEPT !.rx = next]
      BY <1>0, <2>1, <2>2 DEF RunStates, SameProcess
    <2>3. CASE new = [runs[r] EXCEPT !.rx = next, !.head = 0, !.talks = FALSE]
      BY <1>0, <2>1, <2>3 DEF RunStates, SameProcess
    <2> QED
      BY <1>1, <2>2, <2>3
  <1>4. Sound(new)
    BY <1>0, <1>3, LateStep
  <1>5. Complete(runs[r]) => Complete(new)
    BY <1>3 DEF Complete, SameProcess
  <1>6. /\ runs' \in [Runs -> RunStates] /\ runs'[r] = new
        /\ \A s \in Runs : s # r => runs'[s] = runs[s]
    BY <1>0, <1>2, <1>3, OneRun
  <1> QED
    BY <1>3, <1>4, <1>5, <1>6 DEF ReceiverMoved, Late, Faulty

(* The error is sent to the main thread. *)
LEMMA FailMoves ==
    ASSUME SessionInv, NEW r \in Runs, RxFails(r)
    PROVE  /\ ReceiverMoved(r) /\ runs[r].rx = "fail" /\ runs'[r].rx = "detach"
           /\ runs'[r].last = runs[r].last
  <1>0. /\ runs \in [Runs -> RunStates] /\ Sound(runs[r]) /\ runs[r] \in RunStates
    BY InvRun
  <1>1. PICK new : new = [runs[r] EXCEPT !.fatal = TRUE, !.rx = "detach"]
    OBVIOUS
  <1>2. runs' = [runs EXCEPT ![r] = new] /\ runs[r].rx = "fail"
    BY <1>0, <1>1 DEF RxFails, ReceiverAt
  <1>3. /\ new \in RunStates /\ SameProcess(new, runs[r])
        /\ new.stream = runs[r].stream /\ new.last = runs[r].last
        /\ new.rx = "detach" /\ new.sawReaped = runs[r].sawReaped
        /\ new.fatal = TRUE
    BY <1>0, <1>1 DEF RunStates, ReceiverStates, SameProcess
  <1>4. Sound(new)
    BY <1>0, <1>3, LateStep DEF Late
  <1>5. /\ runs' \in [Runs -> RunStates] /\ runs'[r] = new
        /\ \A s \in Runs : s # r => runs'[s] = runs[s]
    BY <1>0, <1>2, <1>3, OneRun
  <1> QED
    BY <1>2, <1>3, <1>4, <1>5 DEF ReceiverMoved, Receiving

(* What a receiver's step asks of the rest of the session. *)
LEMMA ReceiverSession ==
    ASSUME SessionInv, NEW r \in Runs, ReceiverMoved(r), UNCHANGED NotReceiver,
           StoreTypeOK', ControlTypeOK', InputFollowsRun',
           store'.generation = store.generation,
           Receiving(r)' => /\ store'.state = "Running"
                            /\ store'.sequence = store'.deliveryOffset + runs'[r].last
    PROVE  SessionInv'
  <1>1. UNCHANGED <<pc, back, result, rebuild, settling, game, stopping, cancelled,
                    interrupted, ctrlc, http, serverFatal, serverFailed, watchdog>>
    BY DEF NotReceiver, mainVars, flagVars, threadVars
  <1>2. /\ r = store.generation /\ r \in {game, stopping} /\ r # 0
        /\ RunOwned(r) /\ store.generation \in Nat
    <2>1. RunOwned(r) /\ Receiving(r) /\ r # 0
      BY InvRun DEF ReceiverMoved, Runs
    <2>2. store.generation \in Nat
      BY DEF SessionInv, SessionTypeOK, StoreTypeOK
    <2> QED
      BY <2>1, <2>2 DEF RunOwned
  <1>3. \A s \in Runs : s # r => ~Receiving(s) /\ runs'[s] = runs[s]
    BY <1>2, InvRun DEF RunOwned, ReceiverMoved
  <1>4. SessionTypeOK'
    BY <1>1 DEF SessionInv, SessionTypeOK, ReceiverMoved
  <1>5. MainShape' /\ CancelHasReason'
    BY <1>1 DEF SessionInv, MainShape, CancelHasReason
  <1>6. /\ pc \notin Gameless
        /\ ~(game = 0 /\ pc \in {"watchpoll", "scan", "sleep", "top", "loopcheck", "rebuild"})
    BY <1>2 DEF SessionInv, MainShape, Gameless, Taken
  <1>7. FramesFlow' /\ ViewersTold'
    <2>1. \A s \in Runs : Receiving(s)' => s = r
      BY <1>3 DEF Receiving
    <2> QED
      BY <1>1, <1>6, <2>1 DEF FramesFlow, ViewersTold, Gameless
  <1>8. SuccessHeld'
    <2>1. ~(game = 0 /\ stopping = 0)
      BY <1>2
    <2> QED
      BY <1>1, <2>1 DEF SessionInv, SuccessHeld
  <1>9. ASSUME NEW s \in Runs
        PROVE  /\ RunOwned(s)' /\ ReceiverFinished(s)'
               /\ ProcessShape(runs[s])' /\ StreamAccounted(runs[s])'
    <2>1. CASE s # r
      <3>1. /\ runs'[s] = runs[s] /\ RunOwned(s) /\ ReceiverFinished(s)
            /\ Sound(runs[s])
        BY <1>3, <2>1, InvRun
      <3> QED
        BY <1>1, <3>1 DEF RunOwned, ReceiverFinished, Sound, Receiving, Alive, Faulty
    <2>2. CASE s = r
      <3>1. RunOwned(r)'
        BY <1>1, <1>2
           DEF RunOwned, ReceiverMoved, SameProcess, Receiving, Alive
      <3>2. ReceiverFinished(r)'
        BY <1>1 DEF ReceiverFinished, ReceiverMoved, Faulty
      <3> QED
        BY <2>2, <3>1, <3>2 DEF ReceiverMoved, Sound
    <2> QED
      BY <2>1, <2>2
  <1> QED
    BY <1>4, <1>5, <1>7, <1>8, <1>9 DEF SessionInv

(* A receiver keeps the invariant. *)
LEMMA ReceiverInv ==
    ASSUME SessionInv, NEW r \in Runs,
           ReceiverStep(r) \/ RxSetupFails(r) \/ StrangerStep(r)
    PROVE  SessionInv'
  <1>0. /\ runs \in [Runs -> RunStates] /\ Sound(runs[r]) /\ runs[r] \in RunStates
        /\ RunOwned(r) /\ ReceiverFinished(r) /\ StoreTypeOK /\ ControlTypeOK
        /\ InputFollowsRun /\ r \in Nat /\ r # 0
    BY InvRun DEF SessionInv, SessionTypeOK, Runs
  <1>1. Receiving(r) /\ UNCHANGED NotReceiver
    <2>1. CASE ReceiverStep(r) \/ RxSetupFails(r)
      BY <2>1
         DEF ReceiverStep, RxSetupFails, RxLooks, RxAccepts, RxFindsNothing,
             RxReadsGeneration, RxConnects, RxReadsHead, RxReadsBody, FrameComplete,
             RxReadsEnd, RxGraceEnds, RxFails, RxDetaches, RxStops, ReceiverAt, Receiving
    <2>2. CASE StrangerStep(r)
      BY <2>2
         DEF StrangerStep, StrangerTalks, StrangerSendsHead, StrangerSendsBody,
             FrameComplete, StrangerEnds, Foreign, Unowned, NotReceiver, ReceiverAt,
             Receiving
    <2> QED
      BY <2>1, <2>2
  <1>2. /\ r = store.generation
        /\ store.state = "Running" /\ store.sequence = store.deliveryOffset + runs[r].last
    BY <1>0, <1>1 DEF RunOwned, SessionInv, FramesFlow
  <1>s. ASSUME ReceiverMoved(r), UNCHANGED <<store, control, wire>>,
               runs'[r].last = runs[r].last,
               control.game # NoGame => runs'[r].rx \in {"head", "body", "fail", "detach"}
        PROVE  SessionInv'
    <2>1. StoreTypeOK' /\ ControlTypeOK'
      BY <1>0, <1>s DEF StoreTypeOK, ControlTypeOK
    <2>2. InputFollowsRun'
      BY <1>0, <1>2, <1>s DEF InputFollowsRun
    <2> QED
      BY <1>1, <1>2, <1>s, <2>1, <2>2, ReceiverSession
  <1>3. runs[r].rx \notin {"head", "body", "fail", "detach"} => control.game = NoGame
    BY <1>0, <1>2 DEF InputFollowsRun
  <1>4. CASE RxLooks(r) \/ RxAccepts(r) \/ RxFindsNothing(r) \/ RxReadsGeneration(r)
    <2>1. /\ ReceiverMoved(r) /\ runs[r].rx \in {"look", "accept", "generation", "connect"}
          /\ runs'[r].last = runs[r].last
          /\ UNCHANGED <<store, control, wire>>
      BY <1>4, EarlyMoves
         DEF RxLooks, RxAccepts, RxFindsNothing, RxReadsGeneration
    <2> QED
      BY <1>3, <1>s, <2>1
  <1>5. CASE RxConnects(r)
    <2>1. ReceiverMoved(r) /\ runs'[r].last = runs[r].last
      BY <1>5, EarlyMoves
    <2>2. runs[r].gen = store.generation /\ store.generation \in Nat
      BY <1>0, <1>5 DEF RunOwned, RxConnects, ReceiverAt, StoreTypeOK
    <2>3. /\ control' \in ControlStates /\ control'.game = r
          /\ control'.generation = store.generation
      BY <1>0, <1>5, <2>2 DEF RxConnects, ConnectGame, ControlStates
    <2>4. ControlTypeOK' /\ StoreTypeOK' /\ UNCHANGED store
      BY <1>0, <1>5, <2>3 DEF RxConnects, ConnectGame, ControlTypeOK, StoreTypeOK
    <2>5. runs'[r].rx = "head"
      BY <1>0, <1>5 DEF RxConnects, RunStates
    <2>6. InputFollowsRun'
      BY <1>2, <2>3, <2>4, <2>5 DEF InputFollowsRun
    <2> QED
      BY <1>1, <1>2, <2>1, <2>4, <2>6, ReceiverSession
  <1>6. CASE RxReadsHead(r)
    <2>1. ReceiverMoved(r) /\ runs'[r].rx \in {"head", "body"} /\ runs'[r].last = runs[r].last
      BY <1>6, ReadMoves
    <2> QED
      BY <1>6, <1>s, <2>1 DEF RxReadsHead
  <1>p. ASSUME ReceiverMoved(r), runs'[r].rx \in {"head", "body"},
               runs'[r].last = runs[r].head, Publish(runs[r].head, r),
               UNCHANGED <<control, wire>>
        PROVE  SessionInv'
    <2>1. runs[r].head \in Nat /\ store.deliveryOffset \in Nat
      BY <1>0 DEF RunStates, StoreTypeOK
    <2>2. /\ StoreTypeOK' /\ store'.generation = store.generation
          /\ store'.state = store.state /\ store'.deliveryOffset = store.deliveryOffset
          /\ store'.sequence = store.deliveryOffset + runs[r].head
      <3>1. PICK n : n = runs[r].head + store.deliveryOffset
        OBVIOUS
      <3>2. PICK frame : frame = [sequence |-> n, run |-> r]
        OBVIOUS
      <3>3. n \in Nat /\ frame \in Frames /\ n = store.deliveryOffset + runs[r].head
        BY <1>0, <2>1, <3>1, <3>2 DEF Frames
      <3>4. store' = [store EXCEPT !.sequence = n, !.latest = frame]
        BY <1>p, <3>1, <3>2 DEF Publish
      <3> QED
        BY <1>0, <3>3, <3>4 DEF StoreTypeOK
    <2>3. ControlTypeOK' /\ InputFollowsRun'
      BY <1>0, <1>2, <1>p, <2>2 DEF ControlTypeOK, InputFollowsRun
    <2> QED
      BY <1>1, <1>2, <1>p, <2>2, <2>3, ReceiverSession
  <1>7. CASE RxReadsBody(r) /\ runs[r].head > runs[r].last
    BY <1>7, <1>p, ReadMoves DEF RxReadsBody, FrameComplete
  <1>11. CASE StrangerTalks(r) \/ StrangerSendsHead(r)
    <2>1. ~StrangerSendsBody(r) \/ runs'[r].last = runs[r].last
      BY <1>0, <1>11 DEF StrangerTalks, StrangerSendsHead, RunStates
    <2>2. ReceiverMoved(r) /\ runs'[r].rx \in {"head", "body"} /\ runs'[r].last = runs[r].last
      BY <1>11, <2>1, ForeignMoves
    <2> QED
      BY <1>11, <1>s, <2>2
         DEF StrangerTalks, StrangerSendsHead, Unowned, NotReceiver
  <1>16. CASE StrangerSendsBody(r) /\ runs[r].head > runs[r].last
    BY <1>16, <1>p, ForeignMoves DEF StrangerSendsBody, FrameComplete
  <1>l. ASSUME NEW next \in {"fail", "detach"},
               runs' = [runs EXCEPT ![r].rx = next] \/ StopsReading(r, next),
               next = "detach" =>
                   \/ runs[r].peer = "stranger" \/ Complete(runs[r]) \/ Faulty(r),
               UNCHANGED <<store, control, wire>>
        PROVE  SessionInv'
    <2>1. next \in Late
      BY DEF Late
    <2>2. ReceiverMoved(r) /\ runs'[r].rx = next /\ runs'[r].last = runs[r].last
      BY <1>1, <1>l, <2>1, LateMoves
    <2> QED
      BY <1>l, <1>s, <2>2
  <1>8. CASE (RxReadsBody(r) \/ StrangerSendsBody(r)) /\ ~(runs[r].head > runs[r].last)
    BY <1>8, <1>l DEF RxReadsBody, StrangerSendsBody, FrameComplete
  <1>9. CASE RxSetupFails(r)
    BY <1>9, <1>l DEF RxSetupFails
  <1>10. CASE RxGraceEnds(r)
    BY <1>10, <1>l DEF RxGraceEnds
  <1>17. CASE StrangerEnds(r)
    <2>1. runs[r].peer = "stranger"
      BY <1>17 DEF StrangerEnds, Foreign
    <2> QED
      BY <1>17, <1>l, <2>1 DEF StrangerEnds
  <1>12. CASE RxReadsEnd(r)
    <2>1. CASE runs[r].rx = "head"
      <3>1. /\ runs[r].stream = << >> /\ runs[r].closed # "open"
            /\ runs[r].last \in Nat /\ runs[r].drawn \in Nat
            /\ runs[r].proc \in ProcStates
        BY <1>0, <1>12 DEF RxReadsEnd, AtEnd, RunStates
      <3>2. runs[r].proc \in {"closing", "exited"}
        BY <1>0, <3>1 DEF Sound, ProcessShape, ProcStates, Running
      <3>3. runs[r].status # "bad" /\ runs[r].closed # "reset" =>
                Received(runs[r]) + Len(runs[r].stream) = Sent(runs[r])
        BY <1>0, <1>12, <2>1 DEF Sound, StreamAccounted, RxReadsEnd, AtEnd
      <3>4. /\ Received(runs[r]) = 2 * runs[r].last /\ Len(runs[r].stream) = 0
            /\ Sent(runs[r]) = 2 * runs[r].drawn
        BY <2>1, <3>1, <3>2 DEF Received, Sent
      <3>5. Complete(runs[r])
        BY <3>1, <3>2, <3>3, <3>4 DEF Complete
      <3> QED
        BY <1>12, <1>l, <2>1, <3>5 DEF RxReadsEnd, ReceiverAt
    <2>2. CASE runs[r].rx = "body"
      BY <1>12, <1>l, <2>2 DEF RxReadsEnd, ReceiverAt
    <2> QED
      BY <1>12, <2>1, <2>2 DEF RxReadsEnd, ReceiverAt
  <1>13. CASE RxFails(r)
    <2>1. /\ ReceiverMoved(r) /\ runs'[r].rx = "detach" /\ runs'[r].last = runs[r].last
      BY <1>13, FailMoves
    <2> QED
      BY <1>13, <1>s, <2>1 DEF RxFails
  <1>14. CASE RxDetaches(r)
    <2>1. /\ runs[r].rx = "detach" /\ runs' = [runs EXCEPT ![r].rx = "stop"]
          /\ control' = Detached /\ wire' = wire /\ UNCHANGED store
      BY <1>14 DEF RxDetaches, ReceiverAt, DisconnectGame
    <2>2. runs[r].peer = "stranger" \/ Complete(runs[r]) \/ Faulty(r)
      BY <1>0, <2>1 DEF ReceiverFinished
    <2>3. "stop" \in Late
      BY DEF Late
    <2>4. ReceiverMoved(r) /\ runs'[r].last = runs[r].last
      BY <1>1, <2>1, <2>2, <2>3, LateMoves
    <2>5. control' \in ControlStates /\ control'.game = NoGame
      BY <1>0, <2>1, ControlChanges
    <2>6. ControlTypeOK' /\ StoreTypeOK' /\ InputFollowsRun'
      BY <1>0, <2>1, <2>5 DEF ControlTypeOK, StoreTypeOK, InputFollowsRun
    <2> QED
      BY <1>1, <1>2, <2>1, <2>4, <2>6, ReceiverSession
  <1>15. CASE RxStops(r)
    <2>1. /\ runs[r].rx = "stop" /\ runs' = [runs EXCEPT ![r].rx = "done"]
          /\ store' = [store EXCEPT !.state = "Stopped"] /\ UNCHANGED <<control, wire>>
      BY <1>15 DEF RxStops, ReceiverAt, StoreStop
    <2>2. runs[r].peer = "stranger" \/ Complete(runs[r]) \/ Faulty(r)
      BY <1>0, <2>1 DEF ReceiverFinished
    <2>3. "done" \in Late
      BY DEF Late
    <2>4. ReceiverMoved(r) /\ runs'[r].rx = "done"
      BY <1>1, <2>1, <2>2, <2>3, LateMoves
    <2>5. StoreTypeOK' /\ store'.generation = store.generation
      BY <1>0, <2>1 DEF StoreTypeOK, ViewerStates
    <2>6. control.game = NoGame
      BY <1>3, <2>1
    <2>7. ControlTypeOK' /\ InputFollowsRun'
      BY <1>0, <2>1, <2>6 DEF ControlTypeOK, InputFollowsRun
    <2> QED
      BY <1>1, <2>4, <2>5, <2>7, ReceiverSession DEF Receiving
  <1> QED
    BY <1>4, <1>5, <1>6, <1>7, <1>8, <1>9, <1>10, <1>11, <1>12, <1>13, <1>14, <1>15,
       <1>16, <1>17 DEF ReceiverStep, StrangerStep

----------------------------------------------------------------------------
(* The main thread.  Most of its steps change nothing but its own position *)
(* and flags.                                                              *)

\* What only the main thread writes.
MainTyped ==
    /\ pc \in Locations /\ result \in {"none", "ok", "err"}
    /\ back \in {"none", "final", "finished", "finalwatch", "building", "ended", "edited"}
    /\ {rebuild, settling, cancelled, serverFatal} \subseteq BOOLEAN

\* Nobody else's variables change.
OthersKept ==
    UNCHANGED <<store, control, wire, interrupted, ctrlc, http, serverFailed, watchdog>>

\* The parts of the invariant that speak of the main thread.
MainPart ==
    MainTyped /\ MainShape /\ ViewersTold /\ CancelHasReason /\ SuccessHeld

(* The main thread's part is all that such a step has to keep. *)
LEMMA MainSession ==
    ASSUME SessionInv, UNCHANGED <<runs, game, stopping>>, OthersKept, MainPart',
           pc = "begin" <=> pc' = "begin",
           pc' \in {"join", "killed", "dropjoin"} => pc \in {"join", "killed", "dropjoin"},
           result = "err" => result' = "err" \/ interrupted
    PROVE  SessionInv'
  <1>1. KeptRuns /\ \A s \in Runs : runs'[s].reaped = runs[s].reaped
    BY SameRunsKept
  <1>2. UNCHANGED <<store, control, wire, interrupted>>
    BY DEF OthersKept
  <1>3. SessionTypeOK'
    BY <1>1 DEF SessionInv, SessionTypeOK, StoreTypeOK, ControlTypeOK, OthersKept, MainPart,
                MainTyped, KeptRuns
  <1>4. FramesFlow' /\ InputFollowsRun' /\ \A s \in Runs : ReceiverFinished(s)'
    BY <1>1, <1>2, KeptInput, KeptReceiving, KeptFinished
  <1>5. \A s \in Runs : RunOwned(s)'
    BY <1>1, <1>2 DEF SessionInv, RunOwned, Receiving, Alive
  <1>6. \A s \in Runs : ProcessShape(runs[s])' /\ StreamAccounted(runs[s])'
    BY <1>1 DEF KeptRuns, Sound
  <1> QED
    BY <1>3, <1>4, <1>5, <1>6 DEF SessionInv, MainPart

(* The types behind SessionInv, in the form the steps use. *)
LEMMA MainFacts ==
    ASSUME SessionInv
    PROVE  /\ MainTyped /\ MainShape /\ ViewersTold /\ CancelHasReason /\ SuccessHeld
           /\ Watch \in BOOLEAN /\ MaxRuns \in Nat \ {0}
           /\ store.generation \in Nat
           /\ {interrupted, serverFailed} \subseteq BOOLEAN
           /\ ctrlc \in {"idle", "half", "done"} /\ http \in {"run", "failing", "done"}
           /\ watchdog \in {"run", "done"}
  BY SessionAssumption DEF SessionInv, SessionTypeOK, StoreTypeOK, MainTyped

(* Steps of dev::run. *)
LEMMA BuildInv ==
    ASSUME SessionInv, Build
    PROVE  SessionInv'
  <1> USE DEF Locations, Stops, Drops
  <1>0. /\ MainTyped /\ MainShape /\ ViewersTold /\ CancelHasReason /\ SuccessHeld
        /\ Watch \in BOOLEAN /\ MaxRuns \in Nat \ {0} /\ pc = "build"
    BY MainFacts DEF Build, Jump, At
  <1>1. /\ UNCHANGED <<runs, game, stopping>> /\ OthersKept
        /\ \/ pc' = "prelaunch" /\ UNCHANGED <<back, result>>
           \/ pc' = "stop" /\ back' = "final" /\ result' = "err"
        /\ UNCHANGED <<rebuild, settling, cancelled, serverFatal>>
    BY DEF Build, Jump, At, Goto, CallStop, NotMain, Shared, flagVars, OthersKept
  <1>2. MainTyped' /\ MainShape'
    BY <1>0, <1>1 DEF MainTyped, MainShape, OthersKept, Taken, Gameless, OneShot, Watching
  <1>3. ViewersTold' /\ CancelHasReason' /\ SuccessHeld'
    BY <1>0, <1>1 DEF ViewersTold, CancelHasReason, SuccessHeld, OthersKept, MainShape, OneShot
  <1> QED
    BY <1>0, <1>1, <1>2, <1>3, MainSession DEF MainPart

LEMMA StopsIfCancelledInv ==
    ASSUME SessionInv, NEW here, NEW next,
           \/ here = "prelaunch" /\ next = "launch"
           \/ here = "cancel" /\ next = "poll",
           StopsIfCancelled(here, next)
    PROVE  SessionInv'
  <1> USE DEF Locations, Stops, Drops
  <1>0. /\ MainTyped /\ MainShape /\ ViewersTold /\ CancelHasReason /\ SuccessHeld
        /\ Watch \in BOOLEAN /\ MaxRuns \in Nat \ {0} /\ pc = here
    BY MainFacts DEF StopsIfCancelled, Jump, At
  <1>1. /\ UNCHANGED <<runs, game, stopping>> /\ OthersKept
        /\ \/ pc' = next /\ UNCHANGED <<back, result>>
           \/ pc' = "stop" /\ back' = "final" /\ result' = "ok" /\ cancelled
        /\ UNCHANGED <<rebuild, settling, cancelled, serverFatal>>
    BY DEF StopsIfCancelled, Jump, At, Goto, CallStop, NotMain, Shared, flagVars, OthersKept
  <1>2. MainTyped' /\ MainShape'
    BY <1>0, <1>1 DEF MainTyped, MainShape, OthersKept, Taken, Gameless, OneShot, Watching
  <1>3. ViewersTold' /\ CancelHasReason' /\ SuccessHeld'
    BY <1>0, <1>1 DEF ViewersTold, CancelHasReason, SuccessHeld, OthersKept, MainShape, OneShot
  <1>4. result = "err" => FALSE
    BY <1>0 DEF CancelHasReason, MainShape, OneShot
  <1> QED
    BY <1>0, <1>1, <1>2, <1>3, <1>4, MainSession DEF MainPart

LEMMA CheckServerInv ==
    ASSUME SessionInv, NEW here, NEW next, NEW failed,
           \/ here = "check" /\ next = "cancel" /\ failed = "stop"
           \/ here = "loopcheck" /\ next = "rebuild" /\ failed = "drop"
           \/ here = "endcheck" /\ next = "laststop" /\ failed = "drop",
           CheckServer(here, next, failed)
    PROVE  SessionInv'
  <1> USE DEF Locations, Stops, Drops
  <1>0. /\ MainTyped /\ MainShape /\ ViewersTold /\ CancelHasReason /\ SuccessHeld
        /\ Watch \in BOOLEAN /\ MaxRuns \in Nat \ {0} /\ pc = here
    BY MainFacts DEF CheckServer, At
  <1>1. /\ UNCHANGED <<runs, game, stopping>> /\ OthersKept
        /\ \/ pc' = next /\ UNCHANGED <<back, result, serverFatal>> /\ ~serverFatal
           \/ /\ pc' = failed /\ result' = "err" /\ serverFatal' = FALSE /\ serverFatal
              /\ IF failed = "stop" THEN back' = "final" ELSE UNCHANGED back
        /\ UNCHANGED <<rebuild, settling, cancelled>>
    BY DEF CheckServer, At, Goto, CallStop, NotMain, Shared, flagVars, OthersKept
  <1>2. MainTyped' /\ MainShape'
    <2>1. MainTyped'
      BY <1>0, <1>1 DEF MainTyped
    <2>2. MainShape'
      BY <1>0, <1>1 DEF MainShape, OthersKept, Taken, Gameless, OneShot, Watching
    <2> QED
      BY <2>1, <2>2
  <1>3. ViewersTold' /\ SuccessHeld'
    BY <1>0, <1>1 DEF ViewersTold, SuccessHeld, OthersKept, MainShape, OneShot
  <1>4. CancelHasReason'
    BY <1>0, <1>1 DEF CancelHasReason, OthersKept, MainShape, OneShot, Watching
  <1>5. result = "err" => FALSE
    BY <1>0 DEF CancelHasReason, MainShape, OneShot, Watching
  <1> QED
    BY <1>0, <1>1, <1>2, <1>3, <1>4, <1>5, MainSession DEF MainPart

LEMMA VerdictInv ==
    ASSUME SessionInv, Verdict
    PROVE  SessionInv'
  <1> USE DEF Locations, Stops, Drops
  <1>0. /\ MainTyped /\ MainShape /\ ViewersTold /\ CancelHasReason /\ SuccessHeld
        /\ Watch \in BOOLEAN /\ MaxRuns \in Nat \ {0} /\ pc = "verdict"
    BY MainFacts DEF Verdict, At
  <1>1. /\ UNCHANGED <<runs, game, stopping>> /\ OthersKept
        /\ pc' = "drop" /\ result' = IF interrupted THEN "ok" ELSE result
        /\ UNCHANGED <<back, rebuild, settling, cancelled, serverFatal>>
    BY DEF Verdict, Goto, NotMain, Shared, flagVars, OthersKept
  <1>2. MainTyped' /\ MainShape'
    BY <1>0, <1>1 DEF MainTyped, MainShape, OthersKept, Taken, Gameless, OneShot, Watching
  <1>3. ViewersTold' /\ CancelHasReason' /\ SuccessHeld'
    BY <1>0, <1>1 DEF ViewersTold, CancelHasReason, SuccessHeld, OthersKept, MainShape, OneShot
  <1> QED
    BY <1>0, <1>1, <1>2, <1>3, MainSession DEF MainPart

\* The steps that only move the main thread on, and what they rely on.
PlainMove ==
    /\ UNCHANGED <<runs, game, stopping, result, cancelled, serverFatal>> /\ OthersKept
    /\ {rebuild', settling'} \subseteq BOOLEAN
    /\ \/ pc = "top" /\ pc' = "endcheck" /\ cancelled /\ UNCHANGED <<back, rebuild>>
       \/ pc = "top" /\ pc' = "loopcheck" /\ UNCHANGED <<back, rebuild>>
       \/ pc = "rebuild" /\ pc' = "stop" /\ back' = "building" /\ UNCHANGED rebuild
       \/ pc = "rebuild" /\ pc' = "watchpoll" /\ ~rebuild /\ UNCHANGED <<back, rebuild>>
       \/ pc \in {"analyze", "compiled"} /\ pc' = "top" /\ rebuild' = TRUE /\ UNCHANGED back
       \/ pc = "analyze" /\ pc' = "compiled" /\ UNCHANGED <<back, rebuild>>
       \/ pc = "compiled" /\ pc' = "uncancelled" /\ UNCHANGED <<back, rebuild>>
       \/ pc = "uncancelled" /\ pc' = "endcheck" /\ cancelled /\ UNCHANGED <<back, rebuild>>
       \/ pc = "uncancelled" /\ pc' = "built" /\ UNCHANGED <<back, rebuild>>
       \/ pc = "built" /\ pc' = "launch" /\ store.generation < MaxRuns /\ UNCHANGED <<back, rebuild>>
       \/ pc = "scan" /\ pc' = "stop" /\ back' = "edited" /\ UNCHANGED rebuild
       \/ pc = "scan" /\ pc' = "sleep" /\ UNCHANGED <<back, rebuild>>
       \/ pc = "sleep" /\ pc' = "top" /\ rebuild' \in {rebuild, TRUE} /\ UNCHANGED back
       \/ pc = "laststop" /\ pc' = "stop" /\ back' = "finalwatch" /\ UNCHANGED rebuild
       \/ /\ pc = "jointhreads" /\ pc' = "done" /\ http = "done" /\ watchdog = "done"
          /\ UNCHANGED <<back, rebuild>>

LEMMA PlainMoveInv ==
    ASSUME SessionInv, PlainMove
    PROVE  SessionInv'
  <1> USE DEF Locations, Stops, Drops
  <1>0. /\ MainTyped /\ MainShape /\ ViewersTold /\ CancelHasReason /\ SuccessHeld
        /\ Watch \in BOOLEAN /\ MaxRuns \in Nat \ {0}
    BY MainFacts
  <1>1. /\ UNCHANGED <<runs, game, stopping, result, cancelled, serverFatal>> /\ OthersKept
        /\ {rebuild', settling'} \subseteq BOOLEAN
    BY DEF PlainMove
  <1>g. ASSUME MainPart', pc # "begin" /\ pc' # "begin",
               pc' \notin {"join", "killed", "dropjoin"}
        PROVE  SessionInv'
    BY <1>1, <1>g, MainSession
  <1>2. CASE pc = "top" /\ pc' = "endcheck" /\ cancelled /\ UNCHANGED <<back, rebuild>>
    <2>1. MainTyped' /\ MainShape'
      BY <1>0, <1>1, <1>2
         DEF MainTyped, MainShape, OthersKept, Taken, Gameless, OneShot, Watching
    <2>2. ViewersTold' /\ SuccessHeld'
      BY <1>0, <1>1, <1>2 DEF ViewersTold, SuccessHeld, OthersKept, MainShape
    <2>3. CancelHasReason'
      BY <1>0, <1>1, <1>2 DEF CancelHasReason, OthersKept, MainShape, OneShot, Watching
    <2> QED
      BY <1>2, <1>g, <2>1, <2>2, <2>3 DEF MainPart
  <1>3. CASE pc = "top" /\ pc' = "loopcheck" /\ UNCHANGED <<back, rebuild>>
    <2>1. MainTyped' /\ MainShape'
      BY <1>0, <1>1, <1>3
         DEF MainTyped, MainShape, OthersKept, Taken, Gameless, OneShot, Watching
    <2>2. ViewersTold' /\ SuccessHeld'
      BY <1>0, <1>1, <1>3 DEF ViewersTold, SuccessHeld, OthersKept, MainShape
    <2>3. CancelHasReason'
      BY <1>0, <1>1, <1>3 DEF CancelHasReason, OthersKept, MainShape, OneShot, Watching
    <2> QED
      BY <1>3, <1>g, <2>1, <2>2, <2>3 DEF MainPart
  <1>4. CASE pc = "rebuild" /\ pc' = "stop" /\ back' = "building" /\ UNCHANGED rebuild
    <2>1. MainTyped' /\ MainShape'
      BY <1>0, <1>1, <1>4
         DEF MainTyped, MainShape, OthersKept, Taken, Gameless, OneShot, Watching
    <2>2. ViewersTold' /\ SuccessHeld'
      BY <1>0, <1>1, <1>4 DEF ViewersTold, SuccessHeld, OthersKept, MainShape
    <2>3. CancelHasReason'
      BY <1>0, <1>1, <1>4 DEF CancelHasReason, OthersKept, MainShape, OneShot, Watching
    <2> QED
      BY <1>4, <1>g, <2>1, <2>2, <2>3 DEF MainPart
  <1>5. CASE pc = "rebuild" /\ pc' = "watchpoll" /\ ~rebuild /\ UNCHANGED <<back, rebuild>>
    <2>1. MainTyped' /\ MainShape'
      BY <1>0, <1>1, <1>5
         DEF MainTyped, MainShape, OthersKept, Taken, Gameless, OneShot, Watching
    <2>2. ViewersTold' /\ SuccessHeld'
      BY <1>0, <1>1, <1>5 DEF ViewersTold, SuccessHeld, OthersKept, MainShape
    <2>3. CancelHasReason'
      BY <1>0, <1>1, <1>5 DEF CancelHasReason, OthersKept, MainShape, OneShot, Watching
    <2> QED
      BY <1>5, <1>g, <2>1, <2>2, <2>3 DEF MainPart
  <1>6. CASE pc \in {"analyze", "compiled"} /\ pc' = "top" /\ rebuild' = TRUE /\ UNCHANGED back
    <2>1. MainTyped' /\ MainShape'
      BY <1>0, <1>1, <1>6
         DEF MainTyped, MainShape, OthersKept, Taken, Gameless, OneShot, Watching
    <2>2. ViewersTold' /\ SuccessHeld'
      BY <1>0, <1>1, <1>6 DEF ViewersTold, SuccessHeld, OthersKept, MainShape
    <2>3. CancelHasReason'
      BY <1>0, <1>1, <1>6 DEF CancelHasReason, OthersKept, MainShape, OneShot, Watching
    <2> QED
      BY <1>6, <1>g, <2>1, <2>2, <2>3 DEF MainPart
  <1>7. CASE pc = "analyze" /\ pc' = "compiled" /\ UNCHANGED <<back, rebuild>>
    <2>1. MainTyped' /\ MainShape'
      BY <1>0, <1>1, <1>7
         DEF MainTyped, MainShape, OthersKept, Taken, Gameless, OneShot, Watching
    <2>2. ViewersTold' /\ SuccessHeld'
      BY <1>0, <1>1, <1>7 DEF ViewersTold, SuccessHeld, OthersKept, MainShape
    <2>3. CancelHasReason'
      BY <1>0, <1>1, <1>7 DEF CancelHasReason, OthersKept, MainShape, OneShot, Watching
    <2> QED
      BY <1>7, <1>g, <2>1, <2>2, <2>3 DEF MainPart
  <1>8. CASE pc = "compiled" /\ pc' = "uncancelled" /\ UNCHANGED <<back, rebuild>>
    <2>1. MainTyped' /\ MainShape'
      BY <1>0, <1>1, <1>8
         DEF MainTyped, MainShape, OthersKept, Taken, Gameless, OneShot, Watching
    <2>2. ViewersTold' /\ SuccessHeld'
      BY <1>0, <1>1, <1>8 DEF ViewersTold, SuccessHeld, OthersKept, MainShape
    <2>3. CancelHasReason'
      BY <1>0, <1>1, <1>8 DEF CancelHasReason, OthersKept, MainShape, OneShot, Watching
    <2> QED
      BY <1>8, <1>g, <2>1, <2>2, <2>3 DEF MainPart
  <1>9. CASE pc = "uncancelled" /\ pc' = "endcheck" /\ cancelled /\ UNCHANGED <<back, rebuild>>
    <2>1. MainTyped' /\ MainShape'
      BY <1>0, <1>1, <1>9
         DEF MainTyped, MainShape, OthersKept, Taken, Gameless, OneShot, Watching
    <2>2. ViewersTold' /\ SuccessHeld'
      BY <1>0, <1>1, <1>9 DEF ViewersTold, SuccessHeld, OthersKept, MainShape
    <2>3. CancelHasReason'
      BY <1>0, <1>1, <1>9 DEF CancelHasReason, OthersKept, MainShape, OneShot, Watching
    <2> QED
      BY <1>9, <1>g, <2>1, <2>2, <2>3 DEF MainPart
  <1>10. CASE pc = "uncancelled" /\ pc' = "built" /\ UNCHANGED <<back, rebuild>>
    <2>1. MainTyped' /\ MainShape'
      BY <1>0, <1>1, <1>10
         DEF MainTyped, MainShape, OthersKept, Taken, Gameless, OneShot, Watching
    <2>2. ViewersTold' /\ SuccessHeld'
      BY <1>0, <1>1, <1>10 DEF ViewersTold, SuccessHeld, OthersKept, MainShape
    <2>3. CancelHasReason'
      BY <1>0, <1>1, <1>10 DEF CancelHasReason, OthersKept, MainShape, OneShot, Watching
    <2> QED
      BY <1>10, <1>g, <2>1, <2>2, <2>3 DEF MainPart
  <1>11. CASE pc = "built" /\ pc' = "launch" /\ store.generation < MaxRuns /\ UNCHANGED <<back, rebuild>>
    <2>1. MainTyped' /\ MainShape'
      BY <1>0, <1>1, <1>11
         DEF MainTyped, MainShape, OthersKept, Taken, Gameless, OneShot, Watching
    <2>2. ViewersTold' /\ SuccessHeld'
      BY <1>0, <1>1, <1>11 DEF ViewersTold, SuccessHeld, OthersKept, MainShape
    <2>3. CancelHasReason'
      BY <1>0, <1>1, <1>11 DEF CancelHasReason, OthersKept, MainShape, OneShot, Watching
    <2> QED
      BY <1>11, <1>g, <2>1, <2>2, <2>3 DEF MainPart
  <1>12. CASE pc = "scan" /\ pc' = "stop" /\ back' = "edited" /\ UNCHANGED rebuild
    <2>1. MainTyped' /\ MainShape'
      BY <1>0, <1>1, <1>12
         DEF MainTyped, MainShape, OthersKept, Taken, Gameless, OneShot, Watching
    <2>2. ViewersTold' /\ SuccessHeld'
      BY <1>0, <1>1, <1>12 DEF ViewersTold, SuccessHeld, OthersKept, MainShape
    <2>3. CancelHasReason'
      BY <1>0, <1>1, <1>12 DEF CancelHasReason, OthersKept, MainShape, OneShot, Watching
    <2> QED
      BY <1>12, <1>g, <2>1, <2>2, <2>3 DEF MainPart
  <1>13. CASE pc = "scan" /\ pc' = "sleep" /\ UNCHANGED <<back, rebuild>>
    <2>1. MainTyped' /\ MainShape'
      BY <1>0, <1>1, <1>13
         DEF MainTyped, MainShape, OthersKept, Taken, Gameless, OneShot, Watching
    <2>2. ViewersTold' /\ SuccessHeld'
      BY <1>0, <1>1, <1>13 DEF ViewersTold, SuccessHeld, OthersKept, MainShape
    <2>3. CancelHasReason'
      BY <1>0, <1>1, <1>13 DEF CancelHasReason, OthersKept, MainShape, OneShot, Watching
    <2> QED
      BY <1>13, <1>g, <2>1, <2>2, <2>3 DEF MainPart
  <1>14. CASE pc = "sleep" /\ pc' = "top" /\ rebuild' \in {rebuild, TRUE} /\ UNCHANGED back
    <2>1. MainTyped' /\ MainShape'
      BY <1>0, <1>1, <1>14
         DEF MainTyped, MainShape, OthersKept, Taken, Gameless, OneShot, Watching
    <2>2. ViewersTold' /\ SuccessHeld'
      BY <1>0, <1>1, <1>14 DEF ViewersTold, SuccessHeld, OthersKept, MainShape
    <2>3. CancelHasReason'
      BY <1>0, <1>1, <1>14 DEF CancelHasReason, OthersKept, MainShape, OneShot, Watching
    <2> QED
      BY <1>14, <1>g, <2>1, <2>2, <2>3 DEF MainPart
  <1>15. CASE pc = "laststop" /\ pc' = "stop" /\ back' = "finalwatch" /\ UNCHANGED rebuild
    <2>1. MainTyped' /\ MainShape'
      BY <1>0, <1>1, <1>15
         DEF MainTyped, MainShape, OthersKept, Taken, Gameless, OneShot, Watching
    <2>2. ViewersTold' /\ SuccessHeld'
      BY <1>0, <1>1, <1>15 DEF ViewersTold, SuccessHeld, OthersKept, MainShape
    <2>3. CancelHasReason'
      BY <1>0, <1>1, <1>15 DEF CancelHasReason, OthersKept, MainShape, OneShot, Watching
    <2> QED
      BY <1>15, <1>g, <2>1, <2>2, <2>3 DEF MainPart
  <1>16. CASE /\ pc = "jointhreads" /\ pc' = "done" /\ http = "done" /\ watchdog = "done"
           /\ UNCHANGED <<back, rebuild>>
    <2>1. MainTyped' /\ MainShape'
      BY <1>0, <1>1, <1>16
         DEF MainTyped, MainShape, OthersKept, Taken, Gameless, OneShot, Watching
    <2>2. ViewersTold' /\ SuccessHeld'
      BY <1>0, <1>1, <1>16 DEF ViewersTold, SuccessHeld, OthersKept, MainShape
    <2>3. CancelHasReason'
      BY <1>0, <1>1, <1>16 DEF CancelHasReason, OthersKept, MainShape, OneShot, Watching
    <2> QED
      BY <1>16, <1>g, <2>1, <2>2, <2>3 DEF MainPart
  <1> QED
    BY <1>2, <1>3, <1>4, <1>5, <1>6, <1>7, <1>8, <1>9,
       <1>10, <1>11, <1>12, <1>13, <1>14, <1>15, <1>16 DEF PlainMove

(* The other steps that leave runs and store alone. *)
LEMMA LaunchFailsInv ==
    ASSUME SessionInv, LaunchFails
    PROVE  SessionInv'
  <1> USE DEF Locations, Stops, Drops
  <1>0. /\ MainTyped /\ MainShape /\ ViewersTold /\ CancelHasReason /\ SuccessHeld
        /\ Watch \in BOOLEAN /\ MaxRuns \in Nat \ {0} /\ pc = "launch"
    BY MainFacts DEF LaunchFails, At
  <1>1. /\ UNCHANGED <<runs, game, stopping>> /\ OthersKept
        /\ result' = "err"
        /\ \/ Watch /\ pc' = "drop" /\ UNCHANGED back
           \/ ~Watch /\ pc' = "stop" /\ back' = "final"
        /\ UNCHANGED <<rebuild, settling, cancelled, serverFatal>>
    BY DEF LaunchFails, Goto, CallStop, NotMain, Shared, flagVars, OthersKept
  <1>2. MainTyped' /\ MainShape'
    BY <1>0, <1>1 DEF MainTyped, MainShape, OthersKept, Taken, Gameless, OneShot, Watching
  <1>3. ViewersTold' /\ CancelHasReason' /\ SuccessHeld'
    BY <1>0, <1>1 DEF ViewersTold, CancelHasReason, SuccessHeld, OthersKept, MainShape, OneShot
  <1> QED
    BY <1>0, <1>1, <1>2, <1>3, MainSession DEF MainPart

(* What each caller of stop_game does next. *)
LEMMA AfterStop ==
    ASSUME NEW then \in {"building", "ended", "edited", "finalwatch", "final", "finished"},
           NEW failed \in BOOLEAN, StopReturns(then, failed)
    PROVE  \/ /\ then = "finished" /\ pc' = "verdict"
              /\ result' = IF failed \/ runs[stopping].status = "bad" THEN "err" ELSE "ok"
           \/ then = "final" /\ failed /\ result' = "err" /\ pc' = "drop"
           \/ then = "final" /\ ~failed /\ result' = result /\ pc' = "verdict"
           \/ /\ then = "finalwatch" /\ pc' = "drop"
              /\ result' = IF failed THEN "err" ELSE "ok"
           \/ then \in {"building", "ended", "edited"} /\ pc' = then /\ result' = result
  <1>1. CASE then = "finished"
    BY <1>1 DEF StopReturns, Goto
  <1>2. CASE then = "final"
    BY <1>2 DEF StopReturns, Goto
  <1>3. CASE then = "finalwatch"
    BY <1>3 DEF StopReturns, Goto
  <1>4. CASE then \in {"building", "ended", "edited"}
    BY <1>4 DEF StopReturns, Goto
  <1> QED
    BY <1>1, <1>2, <1>3, <1>4

LEMMA StopWithoutGameInv ==
    ASSUME SessionInv, StopWithoutGame
    PROVE  SessionInv'
  <1> USE DEF Locations, Stops, Drops
  <1>0. /\ MainTyped /\ MainShape /\ ViewersTold /\ CancelHasReason /\ SuccessHeld
        /\ Watch \in BOOLEAN /\ MaxRuns \in Nat \ {0} /\ pc = "stop" /\ game = 0
    BY MainFacts DEF StopWithoutGame, At
  <1>1. /\ UNCHANGED <<runs, game, stopping>> /\ OthersKept
        /\ UNCHANGED <<back, rebuild, settling, cancelled, serverFatal>>
    BY DEF StopWithoutGame, NotMain, Shared, flagVars, OthersKept
  <1>2. /\ stopping = 0 /\ back # "finished"
        /\ back \in IF Watch THEN {"building", "ended", "edited", "finalwatch"}
                    ELSE {"final", "finished"}
    BY <1>0 DEF MainShape, Taken
  <1>3. \/ back = "final" /\ result' = result /\ pc' = "verdict"
        \/ back = "finalwatch" /\ result' = "ok" /\ pc' = "drop"
        \/ back \in {"building", "ended", "edited"} /\ pc' = back /\ result' = result
    <2>1. back \in {"building", "ended", "edited", "finalwatch", "final", "finished"}
      BY <1>2
    <2>2. FALSE \in BOOLEAN /\ StopReturns(back, FALSE)
      BY DEF StopWithoutGame
    <2> QED
      BY <1>2, <2>1, <2>2, AfterStop
  <1>4. MainTyped' /\ MainShape'
    BY <1>0, <1>1, <1>2, <1>3
       DEF MainTyped, MainShape, OthersKept, Taken, Gameless, OneShot, Watching
  <1>5. ViewersTold' /\ SuccessHeld'
    BY <1>0, <1>1, <1>2, <1>3 DEF ViewersTold, SuccessHeld, OthersKept, CancelHasReason
  <1>6. CancelHasReason'
    BY <1>0, <1>1, <1>2, <1>3 DEF CancelHasReason, OthersKept
  <1>7. /\ pc' \notin {"begin", "join", "killed", "dropjoin"}
        /\ result = "err" => result' = "err" \/ interrupted
    BY <1>0, <1>2, <1>3 DEF CancelHasReason
  <1> QED
    BY <1>0, <1>1, <1>4, <1>5, <1>6, <1>7, MainSession DEF MainPart

LEMMA DropCancelsInv ==
    ASSUME SessionInv, DropCancels
    PROVE  SessionInv'
  <1> USE DEF Locations, Stops, Drops
  <1>0. /\ MainTyped /\ MainShape /\ ViewersTold /\ CancelHasReason /\ SuccessHeld
        /\ Watch \in BOOLEAN /\ MaxRuns \in Nat \ {0} /\ pc = "cancelall"
    BY MainFacts DEF DropCancels, At
  <1>1. /\ UNCHANGED <<runs, game, stopping>> /\ OthersKept
        /\ pc' = "stopframes" /\ cancelled' = TRUE
        /\ UNCHANGED <<back, result, rebuild, settling, serverFatal>>
    BY DEF DropCancels, Goto, Shared, threadVars, OthersKept
  <1>2. MainTyped' /\ MainShape'
    BY <1>0, <1>1 DEF MainTyped, MainShape, OthersKept, Taken, Gameless, OneShot, Watching
  <1>3. ViewersTold' /\ CancelHasReason' /\ SuccessHeld'
    BY <1>0, <1>1 DEF ViewersTold, CancelHasReason, SuccessHeld, OthersKept, MainShape, OneShot
  <1> QED
    BY <1>0, <1>1, <1>2, <1>3, MainSession DEF MainPart

----------------------------------------------------------------------------
(* Steps that change what viewers are told. *)

(* Without a game of its own the session has no receiver and no input. *)
LEMMA NoGameNoReceiver ==
    ASSUME SessionInv, game = 0, stopping = 0
    PROVE  /\ \A r \in Runs : ~Receiving(r) /\ (Alive(r) => pc = "begin")
           /\ control.game = NoGame
  <1>1. \A r \in Runs : ~Receiving(r) /\ (Alive(r) => pc = "begin")
    <2> TAKE r \in Runs
    <2>1. RunOwned(r) /\ r # 0
      BY InvRun DEF Runs
    <2> QED
      BY <2>1 DEF RunOwned
  <1>2. control.game # NoGame => control.game \in Runs /\ Receiving(control.game)
    BY DEF SessionInv, InputFollowsRun, Receiving
  <1> QED
    BY <1>1, <1>2

LEMMA StateSession ==
    ASSUME SessionInv, game = 0, stopping = 0, pc # "begin",
           UNCHANGED <<runs, game, stopping, control, wire, result, interrupted, ctrlc, http,
                       serverFailed, watchdog>>,
           StoreTypeOK', store'.generation = store.generation, MainPart',
           pc' \notin {"begin", "join", "killed", "dropjoin"}
    PROVE  SessionInv'
  <1>1. KeptRuns /\ \A s \in Runs : runs'[s].reaped = runs[s].reaped
    BY SameRunsKept
  <1>2. /\ \A r \in Runs : ~Receiving(r) /\ (Alive(r) => pc = "begin")
        /\ control.game = NoGame
    BY NoGameNoReceiver
  <1>3. SessionTypeOK'
    BY <1>1 DEF SessionInv, SessionTypeOK, ControlTypeOK, MainPart, MainTyped, KeptRuns
  <1>4. FramesFlow' /\ InputFollowsRun'
    BY <1>2 DEF FramesFlow, InputFollowsRun, Receiving
  <1>5. \A s \in Runs : ReceiverFinished(s)'
    BY <1>1, KeptFinished
  <1>6. \A s \in Runs : RunOwned(s)'
    BY <1>2 DEF SessionInv, RunOwned, Receiving, Alive
  <1>7. \A s \in Runs : ProcessShape(runs[s])' /\ StreamAccounted(runs[s])'
    BY <1>1 DEF KeptRuns, Sound
  <1> QED
    BY <1>3, <1>4, <1>5, <1>6, <1>7 DEF SessionInv, MainPart

(* set_state and stop keep everything but the state and, at a build, the picture. *)
LEMMA StatesSet ==
    ASSUME StoreTypeOK, NEW status \in ViewerStates, SetState(status)
    PROVE  /\ StoreTypeOK' /\ store'.generation = store.generation
           /\ store'.state = status /\ store'.sequence = store.sequence
           /\ store'.latest \in {store.latest, NoFrame}
           /\ status \in {"Building", "BuildFailed"} => store'.latest = NoFrame
           /\ status \notin {"Building", "BuildFailed"} => store'.latest = store.latest
  <1>1. PICK shown : shown = IF status \in {"Building", "BuildFailed"} THEN NoFrame
                             ELSE store.latest
    OBVIOUS
  <1>2. store' = [store EXCEPT !.state = status, !.latest = shown]
    BY <1>1 DEF SetState
  <1>3. shown \in Frames \cup {NoFrame} /\ shown \in {store.latest, NoFrame}
    BY <1>1 DEF StoreTypeOK
  <1>4. /\ StoreTypeOK' /\ store'.generation = store.generation
        /\ store'.state = status /\ store'.sequence = store.sequence
        /\ store'.latest = shown
    BY <1>2, <1>3 DEF StoreTypeOK
  <1> QED
    BY <1>1, <1>3, <1>4

LEMMA BuildingInv ==
    ASSUME SessionInv, Building
    PROVE  SessionInv'
  <1> USE DEF Locations, Stops, Drops
  <1>0. /\ MainTyped /\ MainShape /\ ViewersTold /\ CancelHasReason /\ SuccessHeld
        /\ Watch \in BOOLEAN /\ MaxRuns \in Nat \ {0} /\ pc = "building"
    BY MainFacts DEF Building, EnterState, At
  <1>1. /\ UNCHANGED <<runs, game, stopping, control, wire, back, result, interrupted, cancelled,
                       ctrlc, http, serverFatal, serverFailed, watchdog>>
        /\ pc' = "analyze" /\ {rebuild', settling'} \subseteq BOOLEAN
        /\ SetState("Building")
    BY <1>0 DEF Building, EnterState, Goto, NotMain, flagVars, MainTyped
  <1>2. /\ StoreTypeOK' /\ store'.generation = store.generation
        /\ store'.state = "Building"
    BY <1>1, StatesSet DEF SessionInv, SessionTypeOK, ViewerStates
  <1>3. game = 0 /\ stopping = 0
    BY <1>0 DEF MainShape, Gameless, Taken
  <1>4. MainTyped' /\ MainShape'
    BY <1>0, <1>1, <1>2, <1>3 DEF MainTyped, MainShape, Taken, Gameless, OneShot, Watching
  <1>5. ViewersTold' /\ SuccessHeld'
    BY <1>0, <1>1, <1>2 DEF ViewersTold, SuccessHeld, Told
  <1>6. CancelHasReason'
    BY <1>0, <1>1 DEF CancelHasReason, MainShape, OneShot
  <1> QED
    BY <1>0, <1>1, <1>2, <1>3, <1>4, <1>5, <1>6, StateSession DEF MainPart

LEMMA AnalysisFailsInv ==
    ASSUME SessionInv, AnalysisFails
    PROVE  SessionInv'
  <1> USE DEF Locations, Stops, Drops
  <1>0. /\ MainTyped /\ MainShape /\ ViewersTold /\ CancelHasReason /\ SuccessHeld
        /\ Watch \in BOOLEAN /\ MaxRuns \in Nat \ {0} /\ pc = "analyze"
    BY MainFacts DEF AnalysisFails, EnterState, At
  <1>1. /\ UNCHANGED <<runs, game, stopping, control, wire, back, result, interrupted, cancelled,
                       ctrlc, http, serverFatal, serverFailed, watchdog>>
        /\ pc' = "watchpoll" /\ {rebuild', settling'} \subseteq BOOLEAN
        /\ SetState("BuildFailed")
    BY <1>0 DEF AnalysisFails, EnterState, Goto, NotMain, flagVars, MainTyped
  <1>2. /\ StoreTypeOK' /\ store'.generation = store.generation
        /\ store'.state = "BuildFailed"
    BY <1>1, StatesSet DEF SessionInv, SessionTypeOK, ViewerStates
  <1>3. game = 0 /\ stopping = 0
    BY <1>0 DEF MainShape, Gameless, Taken
  <1>4. MainTyped' /\ MainShape'
    BY <1>0, <1>1, <1>2, <1>3 DEF MainTyped, MainShape, Taken, Gameless, OneShot, Watching
  <1>5. ViewersTold' /\ SuccessHeld'
    BY <1>0, <1>1, <1>2 DEF ViewersTold, SuccessHeld, Told
  <1>6. CancelHasReason'
    BY <1>0, <1>1 DEF CancelHasReason, MainShape, OneShot
  <1> QED
    BY <1>0, <1>1, <1>2, <1>3, <1>4, <1>5, <1>6, StateSession DEF MainPart

LEMMA BuildFailsInv ==
    ASSUME SessionInv, BuildFails
    PROVE  SessionInv'
  <1> USE DEF Locations, Stops, Drops
  <1>0. /\ MainTyped /\ MainShape /\ ViewersTold /\ CancelHasReason /\ SuccessHeld
        /\ Watch \in BOOLEAN /\ MaxRuns \in Nat \ {0} /\ pc = "built"
    BY MainFacts DEF BuildFails, EnterState, At
  <1>1. /\ UNCHANGED <<runs, game, stopping, control, wire, back, result, interrupted, cancelled,
                       ctrlc, http, serverFatal, serverFailed, watchdog>>
        /\ pc' = "watchpoll" /\ {rebuild', settling'} \subseteq BOOLEAN
        /\ SetState("BuildFailed")
    BY <1>0 DEF BuildFails, EnterState, Goto, NotMain, flagVars, MainTyped
  <1>2. /\ StoreTypeOK' /\ store'.generation = store.generation
        /\ store'.state = "BuildFailed"
    BY <1>1, StatesSet DEF SessionInv, SessionTypeOK, ViewerStates
  <1>3. game = 0 /\ stopping = 0
    BY <1>0 DEF MainShape, Gameless, Taken
  <1>4. MainTyped' /\ MainShape'
    BY <1>0, <1>1, <1>2, <1>3 DEF MainTyped, MainShape, Taken, Gameless, OneShot, Watching
  <1>5. ViewersTold' /\ SuccessHeld'
    BY <1>0, <1>1, <1>2 DEF ViewersTold, SuccessHeld, Told
  <1>6. CancelHasReason'
    BY <1>0, <1>1 DEF CancelHasReason, MainShape, OneShot
  <1> QED
    BY <1>0, <1>1, <1>2, <1>3, <1>4, <1>5, <1>6, StateSession DEF MainPart

LEMMA GameEndedInv ==
    ASSUME SessionInv, GameEnded
    PROVE  SessionInv'
  <1> USE DEF Locations, Stops, Drops
  <1>0. /\ MainTyped /\ MainShape /\ ViewersTold /\ CancelHasReason /\ SuccessHeld
        /\ Watch \in BOOLEAN /\ MaxRuns \in Nat \ {0} /\ pc = "ended"
    BY MainFacts DEF GameEnded, EnterState, At
  <1>1. /\ UNCHANGED <<runs, game, stopping, control, wire, back, result, interrupted, cancelled,
                       ctrlc, http, serverFatal, serverFailed, watchdog>>
        /\ pc' = "scan" /\ {rebuild', settling'} \subseteq BOOLEAN
        /\ SetState("Watching")
    BY <1>0 DEF GameEnded, EnterState, Goto, NotMain, flagVars, MainTyped
  <1>2. /\ StoreTypeOK' /\ store'.generation = store.generation
        /\ store'.state = "Watching"
    BY <1>1, StatesSet DEF SessionInv, SessionTypeOK, ViewerStates
  <1>3. game = 0 /\ stopping = 0
    BY <1>0 DEF MainShape, Gameless, Taken
  <1>4. MainTyped' /\ MainShape'
    BY <1>0, <1>1, <1>2, <1>3 DEF MainTyped, MainShape, Taken, Gameless, OneShot, Watching
  <1>5. ViewersTold' /\ SuccessHeld'
    BY <1>0, <1>1, <1>2 DEF ViewersTold, SuccessHeld, Told
  <1>6. CancelHasReason'
    BY <1>0, <1>1 DEF CancelHasReason, MainShape, OneShot
  <1> QED
    BY <1>0, <1>1, <1>2, <1>3, <1>4, <1>5, <1>6, StateSession DEF MainPart

LEMMA EditedInv ==
    ASSUME SessionInv, Edited
    PROVE  SessionInv'
  <1> USE DEF Locations, Stops, Drops
  <1>0. /\ MainTyped /\ MainShape /\ ViewersTold /\ CancelHasReason /\ SuccessHeld
        /\ Watch \in BOOLEAN /\ MaxRuns \in Nat \ {0} /\ pc = "edited"
    BY MainFacts DEF Edited, EnterState, At
  <1>1. /\ UNCHANGED <<runs, game, stopping, control, wire, back, result, interrupted, cancelled,
                       ctrlc, http, serverFatal, serverFailed, watchdog>>
        /\ pc' = "sleep" /\ {rebuild', settling'} \subseteq BOOLEAN
        /\ SetState("Building")
    BY <1>0 DEF Edited, EnterState, Goto, NotMain, flagVars, MainTyped
  <1>2. /\ StoreTypeOK' /\ store'.generation = store.generation
        /\ store'.state = "Building"
    BY <1>1, StatesSet DEF SessionInv, SessionTypeOK, ViewerStates
  <1>3. game = 0 /\ stopping = 0
    BY <1>0 DEF MainShape, Gameless, Taken
  <1>4. MainTyped' /\ MainShape'
    BY <1>0, <1>1, <1>2, <1>3 DEF MainTyped, MainShape, Taken, Gameless, OneShot, Watching
  <1>5. ViewersTold' /\ SuccessHeld'
    BY <1>0, <1>1, <1>2 DEF ViewersTold, SuccessHeld, Told
  <1>6. CancelHasReason'
    BY <1>0, <1>1 DEF CancelHasReason, MainShape, OneShot
  <1> QED
    BY <1>0, <1>1, <1>2, <1>3, <1>4, <1>5, <1>6, StateSession DEF MainPart

LEMMA DropStopsInv ==
    ASSUME SessionInv, DropStops
    PROVE  SessionInv'
  <1> USE DEF Locations, Stops, Drops
  <1>0. /\ MainTyped /\ MainShape /\ ViewersTold /\ CancelHasReason /\ SuccessHeld
        /\ Watch \in BOOLEAN /\ MaxRuns \in Nat \ {0} /\ pc = "stopframes"
    BY MainFacts DEF DropStops, At
  <1>1. /\ UNCHANGED <<runs, game, stopping, control, wire, back, result, interrupted, cancelled,
                       ctrlc, http, serverFatal, serverFailed, watchdog, rebuild, settling>>
        /\ pc' = "jointhreads" /\ StoreStop
    BY DEF DropStops, Goto, NotMain, flagVars
  <1>2. /\ StoreTypeOK' /\ store'.generation = store.generation
        /\ store'.state = "Stopped"
    BY <1>1 DEF SessionInv, SessionTypeOK, StoreTypeOK, ViewerStates, StoreStop
  <1>3. game = 0 /\ stopping = 0
    BY <1>0 DEF MainShape, Gameless, Taken
  <1>4. MainTyped' /\ MainShape'
    BY <1>0, <1>1, <1>2, <1>3 DEF MainTyped, MainShape, Taken, Gameless, OneShot, Watching
  <1>5. ViewersTold' /\ SuccessHeld'
    BY <1>0, <1>1, <1>2 DEF ViewersTold, SuccessHeld, Told
  <1>6. CancelHasReason'
    BY <1>0, <1>1 DEF CancelHasReason, MainShape, OneShot
  <1> QED
    BY <1>0, <1>1, <1>2, <1>3, <1>4, <1>5, <1>6, StateSession DEF MainPart

----------------------------------------------------------------------------
(* Steps of the main thread that change a run. *)

LEMMA RunsSession ==
    ASSUME SessionInv, KeptRuns, \A s \in Runs : RunOwned(s)', wire' \in Seq(Records),
           UNCHANGED <<store, control, interrupted, ctrlc, http, serverFailed, watchdog>>,
           MainPart', result = "err" => result' = "err" \/ interrupted
    PROVE  SessionInv'
  <1>1. store.generation \in Nat /\ MaxRuns \in Nat
    BY MainFacts
  <1>2. game' \in 0..MaxRuns /\ stopping' \in 0..MaxRuns
    BY <1>1 DEF MainPart, MainShape
  <1>3. SessionTypeOK'
    BY <1>2 DEF SessionInv, SessionTypeOK, StoreTypeOK, ControlTypeOK, MainPart, MainTyped,
                KeptRuns
  <1>4. FramesFlow' /\ InputFollowsRun' /\ \A s \in Runs : ReceiverFinished(s)'
    BY KeptInput, KeptReceiving, KeptFinished
  <1>5. \A s \in Runs : ProcessShape(runs[s])' /\ StreamAccounted(runs[s])'
    BY DEF KeptRuns, Sound
  <1> QED
    BY <1>3, <1>4, <1>5 DEF SessionInv, MainPart

(* A record that differs in nothing the invariant looks at. *)
LEMMA NotedRun ==
    ASSUME NEW run, Sound(run), NEW new, new \in RunStates,
           new.rx = run.rx, new.peer = run.peer, new.last = run.last,
           new.sawReaped = run.sawReaped, new.head = run.head,
           new.proc = run.proc, new.status = run.status, new.drawn = run.drawn,
           new.closed = run.closed, new.backlog = run.backlog, new.stream = run.stream,
           new.reaped = run.reaped \/ (new.reaped = TRUE /\ run.proc = "exited")
    PROVE  Sound(new) /\ (Complete(run) => Complete(new)) /\ (Earned(run) => Earned(new))
  <1>1. ProcessShape(new)
    BY DEF Sound, ProcessShape
  <1>2. Received(new) = Received(run) /\ Sent(new) = Sent(run)
    BY DEF Received, Sent
  <1>3. StreamAccounted(new)
    BY <1>2 DEF Sound, StreamAccounted
  <1> QED
    BY <1>1, <1>3 DEF Sound, Complete, Earned

(* One run is replaced by such a record. *)
LEMMA OneRunKept ==
    ASSUME SessionInv, NEW r \in Runs, NEW new \in RunStates, runs' = [runs EXCEPT ![r] = new],
           new.rx = runs[r].rx, new.last = runs[r].last, new.gen = runs[r].gen,
           new.peer = runs[r].peer, Sound(new),
           runs[r].fatal => new.fatal \/ result' = "err" \/ interrupted' \/ Watch,
           new.proc \in Running => runs[r].proc \in Running,
           new.proc = "none" <=> runs[r].proc = "none",
           Complete(runs[r]) => Complete(new), Earned(runs[r]) => Earned(new)
    PROVE  /\ KeptRuns /\ runs'[r] = new
           /\ \A s \in Runs : s # r => runs'[s] = runs[s]
  <1>1. /\ runs' \in [Runs -> RunStates] /\ runs'[r] = new
        /\ \A s \in Runs : s # r => runs'[s] = runs[s]
    BY InvRun, OneRun
  <1>2. \A s \in Runs : Sound(runs[s])
    BY InvRun
  <1> QED
    BY <1>1, <1>2 DEF KeptRuns

(* The run the main thread owns is one of the runs. *)
LEMMA OwnedRun ==
    ASSUME SessionInv
    PROVE  /\ game # 0 => game \in Runs /\ game = store.generation
           /\ stopping # 0 => stopping \in Runs /\ stopping = store.generation
  BY MainFacts DEF MainShape, Runs

(* An error is taken out of a run's channel. *)
LEMMA TakenError ==
    ASSUME SessionInv, NEW r \in Runs, runs' = [runs EXCEPT ![r].fatal = FALSE],
           runs[r].fatal => result' = "err" \/ interrupted' \/ Watch
    PROVE  /\ KeptRuns /\ \A s \in Runs : s # r => runs'[s] = runs[s]
           /\ runs'[r].reaped = runs[r].reaped /\ runs'[r].proc = runs[r].proc
           /\ Earned(runs[r]) => Earned(runs'[r])
  <1>1. Sound(runs[r]) /\ runs[r] \in RunStates
    BY InvRun
  <1>2. PICK new : new = [runs[r] EXCEPT !.fatal = FALSE]
    OBVIOUS
  <1>3. /\ new \in RunStates /\ new.rx = runs[r].rx /\ new.peer = runs[r].peer
        /\ new.last = runs[r].last /\ new.gen = runs[r].gen
        /\ new.sawReaped = runs[r].sawReaped /\ new.head = runs[r].head
        /\ new.proc = runs[r].proc /\ new.status = runs[r].status
        /\ new.drawn = runs[r].drawn /\ new.closed = runs[r].closed
        /\ new.backlog = runs[r].backlog /\ new.stream = runs[r].stream
        /\ new.reaped = runs[r].reaped
    BY <1>1, <1>2 DEF RunStates
  <1>4. /\ Sound(new) /\ (Complete(runs[r]) => Complete(new))
        /\ (Earned(runs[r]) => Earned(new))
    BY <1>1, <1>3, NotedRun
  <1>5. runs' = [runs EXCEPT ![r] = new]
    BY <1>2
  <1>6. /\ KeptRuns /\ runs'[r] = new
        /\ \A s \in Runs : s # r => runs'[s] = runs[s]
    BY <1>3, <1>4, <1>5, OneRunKept
  <1> QED
    BY <1>3, <1>4, <1>6

(* poll_game in dev::run. *)
LEMMA PollGameInv ==
    ASSUME SessionInv, PollGame
    PROVE  SessionInv'
  <1> USE DEF Locations, Stops, Drops
  <1>0. /\ MainTyped /\ MainShape /\ ViewersTold /\ CancelHasReason /\ SuccessHeld
        /\ Watch \in BOOLEAN /\ MaxRuns \in Nat \ {0} /\ pc = "poll"
    BY MainFacts DEF PollGame, At
  <1>1. /\ UNCHANGED <<game, stopping>> /\ OthersKept
        /\ UNCHANGED <<rebuild, settling, cancelled, serverFatal>>
    BY DEF PollGame, NotMain, Shared, flagVars, OthersKept
  <1>2. /\ game # 0 /\ stopping = 0 /\ game \in Runs /\ ~Watch /\ result = "none"
    BY <1>0, OwnedRun DEF MainShape, Taken, OneShot, CancelHasReason
  <1>3. \/ /\ runs' = [runs EXCEPT ![game].fatal = FALSE]
           /\ result' = "err" /\ pc' = "stop" /\ back' = "final"
        \/ pc' = "stop" /\ back' = "finished" /\ UNCHANGED <<runs, result>>
        \/ pc' = "check" /\ UNCHANGED <<runs, result, back>>
    <2>1. CASE runs[game].fatal
      BY <2>1 DEF PollGame, CallStop
    <2>2. CASE ~runs[game].fatal /\ runs[game].proc = "exited"
      BY <2>2 DEF PollGame, CallStop
    <2>3. CASE ~runs[game].fatal /\ runs[game].proc # "exited"
      BY <2>3 DEF PollGame, Goto
    <2> QED
      BY <2>1, <2>2, <2>3
  <1>4. MainTyped' /\ MainShape'
    BY <1>0, <1>1, <1>2, <1>3
       DEF MainTyped, MainShape, OthersKept, Taken, Gameless, OneShot, Watching
  <1>5. ViewersTold' /\ CancelHasReason'
    BY <1>0, <1>1, <1>2, <1>3 DEF ViewersTold, CancelHasReason, OthersKept
  <1>6. SuccessHeld'
    BY <1>0, <1>2, <1>3 DEF SuccessHeld
  <1>7. CASE UNCHANGED runs
    BY <1>0, <1>1, <1>2, <1>3, <1>4, <1>5, <1>6, <1>7, MainSession DEF MainPart
  <1>8. CASE /\ runs' = [runs EXCEPT ![game].fatal = FALSE]
             /\ result' = "err" /\ pc' = "stop" /\ back' = "final"
    <2>1. game \in Runs
      BY <1>2, <1>8
    <2>2. /\ KeptRuns /\ runs'[game].reaped = runs[game].reaped
          /\ \A s \in Runs : s # game => runs'[s] = runs[s]
      BY <1>2, <1>8, <2>1, TakenError
    <2>3. \A s \in Runs : RunOwned(s)'
      <3> TAKE s \in Runs
      <3>1. RunOwned(s) /\ runs'[s].reaped = runs[s].reaped
        BY <2>2, InvRun
      <3> QED
        BY <1>0, <1>1, <1>8, <2>2, <3>1
           DEF RunOwned, KeptRuns, Receiving, Alive, OthersKept
    <2> QED
      BY <1>1, <1>2, <1>4, <1>5, <1>6, <2>2, <2>3, RunsSession, InvRun DEF MainPart, OthersKept
  <1> QED
    BY <1>3, <1>7, <1>8

(* poll_game in watch::run. *)
LEMMA WatchPollInv ==
    ASSUME SessionInv, WatchPoll
    PROVE  SessionInv'
  <1> USE DEF Locations, Stops, Drops
  <1>0. /\ MainTyped /\ MainShape /\ ViewersTold /\ CancelHasReason /\ SuccessHeld
        /\ Watch \in BOOLEAN /\ MaxRuns \in Nat \ {0} /\ pc = "watchpoll"
    BY MainFacts DEF WatchPoll, At
  <1>1. /\ UNCHANGED <<game, stopping, result>> /\ OthersKept
        /\ UNCHANGED <<rebuild, settling, cancelled, serverFatal>>
    BY DEF WatchPoll, NotMain, Shared, flagVars, OthersKept
  <1>2. stopping = 0 /\ Watch /\ (game # 0 => game \in Runs)
    BY <1>0, OwnedRun DEF MainShape, Taken, Watching
  <1>3. \/ /\ game # 0 /\ runs' = [runs EXCEPT ![game].fatal = FALSE]
           /\ pc' = "stop" /\ back' = "ended"
        \/ pc' = "scan" /\ UNCHANGED <<runs, back>>
    BY DEF WatchPoll, CallStop, Goto
  <1>4. MainTyped' /\ MainShape'
    BY <1>0, <1>1, <1>2, <1>3
       DEF MainTyped, MainShape, OthersKept, Taken, Gameless, OneShot, Watching
  <1>5. ViewersTold' /\ CancelHasReason'
    BY <1>0, <1>1, <1>2, <1>3 DEF ViewersTold, CancelHasReason, OthersKept
  <1>6. SuccessHeld'
    BY <1>0, <1>1, <1>3 DEF SuccessHeld, OthersKept
  <1>7. CASE UNCHANGED runs
    BY <1>0, <1>1, <1>2, <1>3, <1>4, <1>5, <1>6, <1>7, MainSession DEF MainPart
  <1>8. CASE /\ game # 0 /\ runs' = [runs EXCEPT ![game].fatal = FALSE]
             /\ pc' = "stop" /\ back' = "ended"
    <2>1. game \in Runs
      BY <1>2, <1>8
    <2>2. /\ KeptRuns /\ runs'[game].reaped = runs[game].reaped
          /\ \A s \in Runs : s # game => runs'[s] = runs[s]
      BY <1>2, <1>8, <2>1, TakenError
    <2>3. \A s \in Runs : RunOwned(s)'
      <3> TAKE s \in Runs
      <3>1. RunOwned(s) /\ runs'[s].reaped = runs[s].reaped
        BY <2>2, InvRun
      <3> QED
        BY <1>0, <1>1, <1>8, <2>2, <3>1
           DEF RunOwned, KeptRuns, Receiving, Alive, OthersKept
    <2> QED
      BY <1>1, <1>4, <1>5, <1>6, <2>1, <2>2, <2>3, RunsSession, InvRun DEF MainPart, OthersKept
  <1> QED
    BY <1>3, <1>7, <1>8

(* stop_game takes the game and detaches its input. *)
LEMMA StopTakesInv ==
    ASSUME SessionInv, StopTakes
    PROVE  SessionInv'
  <1> USE DEF Locations, Stops, Drops
  <1>0. /\ MainTyped /\ MainShape /\ ViewersTold /\ CancelHasReason /\ SuccessHeld
        /\ Watch \in BOOLEAN /\ MaxRuns \in Nat \ {0} /\ pc = "stop" /\ game # 0
        /\ store.generation \in Nat
    BY MainFacts DEF StopTakes, At
  <1>1. /\ UNCHANGED <<runs, store, wire, interrupted, ctrlc, http, serverFailed, watchdog>>
        /\ UNCHANGED <<back, result, rebuild, settling, cancelled, serverFatal>>
        /\ control' = Detached /\ pc' = "signal" /\ stopping' = game /\ game' = 0
    BY DEF StopTakes, DisconnectGame, Goto, NotMain, flagVars
  <1>2. stopping = 0 /\ game = store.generation
    BY <1>0 DEF MainShape, Taken
  <1>3. MainTyped' /\ MainShape'
    BY <1>0, <1>1, <1>2 DEF MainTyped, MainShape, Taken, Gameless, OneShot, Watching
  <1>4. ViewersTold' /\ CancelHasReason' /\ SuccessHeld'
    BY <1>0, <1>1 DEF ViewersTold, CancelHasReason, SuccessHeld
  <1>5. control' \in ControlStates /\ control'.game = NoGame
    BY <1>1, ControlChanges DEF SessionInv, SessionTypeOK
  <1>6. KeptRuns
    BY <1>1, SameRunsKept
  <1>7. SessionTypeOK'
    <2>1. game' \in 0..MaxRuns /\ stopping' \in 0..MaxRuns
      BY <1>0, <1>1, <1>2 DEF MainShape
    <2> QED
      BY <1>1, <1>3, <1>5, <1>6, <2>1
         DEF SessionInv, SessionTypeOK, StoreTypeOK, ControlTypeOK, MainTyped, KeptRuns
  <1>8. InputFollowsRun' /\ FramesFlow' /\ \A s \in Runs : ReceiverFinished(s)'
    <2>1. InputFollowsRun'
      BY <1>5 DEF InputFollowsRun
    <2> QED
      BY <1>1, <1>6, <2>1, KeptReceiving, KeptFinished
  <1>9. \A s \in Runs : RunOwned(s)'
    BY <1>0, <1>1, <1>2 DEF SessionInv, RunOwned, Receiving, Alive
  <1>10. \A s \in Runs : ProcessShape(runs[s])' /\ StreamAccounted(runs[s])'
    BY <1>6 DEF KeptRuns, Sound
  <1> QED
    BY <1>3, <1>4, <1>7, <1>8, <1>9, <1>10 DEF SessionInv

(* interrupt_child. *)
LEMMA StopSignalsInv ==
    ASSUME SessionInv, StopSignals
    PROVE  SessionInv'
  <1> USE DEF Locations, Stops, Drops
  <1>0. /\ MainTyped /\ MainShape /\ ViewersTold /\ CancelHasReason /\ SuccessHeld
        /\ Watch \in BOOLEAN /\ MaxRuns \in Nat \ {0} /\ pc = "signal"
    BY MainFacts DEF StopSignals, At
  <1>1. /\ UNCHANGED <<store, control, interrupted, ctrlc, http, serverFailed, watchdog>>
        /\ UNCHANGED <<back, result, rebuild, settling, cancelled, serverFatal, game, stopping>>
        /\ pc' = "wait"
    BY DEF StopSignals, Goto, NotMain, flagVars
  <1>2. stopping # 0 /\ stopping \in Runs
    BY <1>0, OwnedRun DEF MainShape, Taken
  <1>3. ProcessMoved(stopping) /\ wire' \in Seq(Records)
    BY <1>2, SignalledRun DEF StopSignals
  <1>4. KeptRuns /\ \A s \in Runs : runs'[s].reaped = runs[s].reaped
    BY <1>2, <1>3, MovedKeeps
  <1>5. MainTyped' /\ MainShape'
    BY <1>0, <1>1 DEF MainTyped, MainShape, Taken, Gameless, OneShot, Watching
  <1>6. ViewersTold' /\ CancelHasReason' /\ SuccessHeld'
    BY <1>0, <1>1 DEF ViewersTold, CancelHasReason, SuccessHeld
  <1>7. \A s \in Runs : RunOwned(s)'
    <2> TAKE s \in Runs
    <2>1. RunOwned(s)
      BY InvRun
    <2> QED
      BY <1>0, <1>1, <1>4, <2>1 DEF RunOwned, KeptRuns, Receiving, Alive
  <1> QED
    BY <1>1, <1>3, <1>4, <1>5, <1>6, <1>7, RunsSession DEF MainPart

(* What a run becomes when its exit is collected, or when it is dropped. *)
LEMMA ReapedRun ==
    ASSUME SessionInv, NEW r \in Runs, ~Alive(r), runs[r].proc # "none",
           runs' = [runs EXCEPT ![r].reaped = TRUE]
    PROVE  /\ KeptRuns /\ runs'[r].proc = "exited"
           /\ \A s \in Runs : s # r => runs'[s] = runs[s]
  <1>1. Sound(runs[r]) /\ runs[r] \in RunStates /\ runs[r].proc = "exited"
    BY InvRun DEF Alive, RunStates, ProcStates
  <1>2. PICK new : new = [runs[r] EXCEPT !.reaped = TRUE]
    OBVIOUS
  <1>3. /\ new \in RunStates /\ new.rx = runs[r].rx /\ new.peer = runs[r].peer
        /\ new.last = runs[r].last /\ new.gen = runs[r].gen
        /\ new.sawReaped = runs[r].sawReaped /\ new.head = runs[r].head
        /\ new.proc = runs[r].proc /\ new.status = runs[r].status
        /\ new.drawn = runs[r].drawn /\ new.closed = runs[r].closed
        /\ new.backlog = runs[r].backlog /\ new.stream = runs[r].stream
        /\ new.reaped = TRUE /\ new.fatal = runs[r].fatal
    BY <1>1, <1>2 DEF RunStates
  <1>4. /\ Sound(new) /\ (Complete(runs[r]) => Complete(new))
        /\ (Earned(runs[r]) => Earned(new))
    BY <1>1, <1>3, NotedRun
  <1>5. runs' = [runs EXCEPT ![r] = new]
    BY <1>2
  <1> QED
    BY <1>1, <1>3, <1>4, <1>5, OneRunKept

LEMMA DroppedRun ==
    ASSUME SessionInv, NEW r \in Runs, runs[r].proc # "none", DropsGame(r)
    PROVE  /\ KeptRuns /\ runs'[r].proc = "exited" /\ wire' \in Seq(Records)
           /\ \A s \in Runs : s # r => runs'[s] = runs[s]
  <1>0. wire \in Seq(Records) /\ runs \in [Runs -> RunStates] /\ Sound(runs[r])
    BY InvRun
  <1>1. CASE ~Alive(r)
    BY <1>0, <1>1, ReapedRun DEF DropsGame
  <1>2. CASE Alive(r)
    <2>1. PICK left \in Left(r) :
            runs' = [runs EXCEPT ![r] = [Exited(r, "bad", left) EXCEPT !.reaped = TRUE]]
      BY <1>2 DEF DropsGame
    <2>2. PICK dead : dead = Exited(r, "bad", left)
      OBVIOUS
    <2>3. PICK new : new = [dead EXCEPT !.reaped = TRUE]
      OBVIOUS
    <2>4. /\ left \in Seq(Halves)
          /\ left = runs[r].stream \/ left \in Prefixes(runs[r].stream)
      BY <1>0, LeftOver
    <2>5. /\ dead \in RunStates /\ SameReceiver(dead, runs[r]) /\ dead.stream = left
          /\ dead.proc = "exited" /\ dead.status = "bad"
          /\ dead.drawn = runs[r].drawn /\ dead.backlog = runs[r].backlog
      BY <1>0, <2>2, <2>4, ExitedRun
    <2>6. /\ new \in RunStates /\ SameReceiver(new, dead) /\ new.stream = dead.stream
          /\ new.proc = "exited" /\ new.status = "bad" /\ new.reaped = TRUE
          /\ new.drawn = dead.drawn /\ new.backlog = dead.backlog
      BY <2>3, <2>5 DEF RunStates, SameReceiver
    <2>7. SameReceiver(new, runs[r])
      BY <2>5, <2>6 DEF SameReceiver
    <2>8. Sound(new) /\ (Complete(runs[r]) => Complete(new)) /\ ~Earned(runs[r])
      BY <1>0, <1>2, <2>4, <2>5, <2>6, <2>7, DeathStep DEF Alive
    <2>9. runs' = [runs EXCEPT ![r] = new]
      BY <2>1, <2>2, <2>3
    <2>10. wire' \in Seq(Records)
      BY <1>0, <1>2, WireClosed DEF DropsGame
    <2>11. "exited" \notin Running
      BY DEF Running
    <2> QED
      BY <2>6, <2>7, <2>8, <2>9, <2>10, <2>11, OneRunKept DEF SameReceiver
  <1> QED
    BY <1>1, <1>2

(* try_wait reports the exit. *)
LEMMA StopReapsInv ==
    ASSUME SessionInv, StopReaps
    PROVE  SessionInv'
  <1> USE DEF Locations, Stops, Drops
  <1>0. /\ MainTyped /\ MainShape /\ ViewersTold /\ CancelHasReason /\ SuccessHeld
        /\ Watch \in BOOLEAN /\ MaxRuns \in Nat \ {0} /\ pc \in {"signal", "wait"}
        /\ store.generation \in Nat
    BY MainFacts DEF StopReaps, At
  <1>1. /\ UNCHANGED <<store, control, wire, interrupted, ctrlc, http, serverFailed, watchdog>>
        /\ UNCHANGED <<back, result, rebuild, settling, cancelled, serverFatal, game, stopping>>
        /\ pc' = "join" /\ runs[stopping].proc = "exited"
        /\ runs' = [runs EXCEPT ![stopping].reaped = TRUE]
    BY DEF StopReaps, Goto, NotMain, Shared, flagVars
  <1>2. stopping # 0 /\ stopping \in Runs /\ stopping = store.generation /\ game = 0
    BY <1>0, OwnedRun DEF MainShape, Taken
  <1>3. /\ KeptRuns /\ runs'[stopping].proc = "exited"
        /\ \A s \in Runs : s # stopping => runs'[s] = runs[s]
    BY <1>1, <1>2, ReapedRun DEF Alive, Running
  <1>4. MainTyped' /\ MainShape'
    BY <1>0, <1>1 DEF MainTyped, MainShape, Taken, Gameless, OneShot, Watching
  <1>5. ViewersTold' /\ CancelHasReason' /\ SuccessHeld'
    BY <1>0, <1>1 DEF ViewersTold, CancelHasReason, SuccessHeld
  <1>6. ASSUME NEW s \in Runs PROVE RunOwned(s)'
    <2>1. RunOwned(s) /\ s \in Nat /\ s # 0
      BY InvRun DEF Runs
    <2>2. CASE s = stopping
      BY <1>0, <1>1, <1>2, <1>3, <2>1, <2>2 DEF RunOwned, KeptRuns, Receiving, Alive, Running
    <2>3. CASE s # stopping
      BY <1>0, <1>1, <1>2, <1>3, <2>1, <2>3 DEF RunOwned, Receiving, Alive
    <2> QED
      BY <2>2, <2>3
  <1>7. wire' \in Seq(Records)
    BY <1>1, <1>2, InvRun
  <1> QED
    BY <1>1, <1>3, <1>4, <1>5, <1>6, <1>7, RunsSession DEF MainPart

(* The deadline of stop_game. *)
LEMMA StopGivesUpInv ==
    ASSUME SessionInv, StopGivesUp
    PROVE  SessionInv'
  <1> USE DEF Locations, Stops, Drops
  <1>0. /\ MainTyped /\ MainShape /\ ViewersTold /\ CancelHasReason /\ SuccessHeld
        /\ Watch \in BOOLEAN /\ MaxRuns \in Nat \ {0} /\ pc = "wait"
        /\ store.generation \in Nat
    BY MainFacts DEF StopGivesUp, At
  <1>1. /\ UNCHANGED <<store, control, interrupted, ctrlc, http, serverFailed, watchdog>>
        /\ UNCHANGED <<back, result, rebuild, settling, cancelled, serverFatal, game, stopping>>
        /\ pc' = "killed" /\ DropsGame(stopping) /\ Alive(stopping)
    BY DEF StopGivesUp, Goto, NotMain, flagVars
  <1>2. stopping # 0 /\ stopping \in Runs /\ stopping = store.generation /\ game = 0
    BY <1>0, OwnedRun DEF MainShape, Taken
  <1>3. /\ KeptRuns /\ runs'[stopping].proc = "exited" /\ wire' \in Seq(Records)
        /\ \A s \in Runs : s # stopping => runs'[s] = runs[s]
    BY <1>1, <1>2, DroppedRun DEF Alive, Running
  <1>4. MainTyped' /\ MainShape'
    BY <1>0, <1>1 DEF MainTyped, MainShape, Taken, Gameless, OneShot, Watching
  <1>5. ViewersTold' /\ CancelHasReason' /\ SuccessHeld'
    BY <1>0, <1>1 DEF ViewersTold, CancelHasReason, SuccessHeld
  <1>6. ASSUME NEW s \in Runs PROVE RunOwned(s)'
    <2>1. RunOwned(s) /\ s \in Nat /\ s # 0
      BY InvRun DEF Runs
    <2>2. CASE s = stopping
      BY <1>0, <1>1, <1>2, <1>3, <2>1, <2>2 DEF RunOwned, KeptRuns, Receiving, Alive, Running
    <2>3. CASE s # stopping
      BY <1>0, <1>1, <1>2, <1>3, <2>1, <2>3 DEF RunOwned, Receiving, Alive
    <2> QED
      BY <2>2, <2>3
  <1> QED
    BY <1>1, <1>3, <1>4, <1>5, <1>6, RunsSession DEF MainPart

(* The receiver is joined and stop_game returns. *)
LEMMA StopJoinsInv ==
    ASSUME SessionInv, StopJoins
    PROVE  SessionInv'
  <1> USE DEF Locations, Stops, Drops
  <1>0. /\ MainTyped /\ MainShape /\ ViewersTold /\ CancelHasReason /\ SuccessHeld
        /\ Watch \in BOOLEAN /\ MaxRuns \in Nat \ {0} /\ pc \in {"join", "killed"}
        /\ store.generation \in Nat /\ {interrupted, serverFailed} \subseteq BOOLEAN
    BY MainFacts DEF StopJoins, At
  <1>1. /\ UNCHANGED <<store, control, wire, interrupted, ctrlc, http, serverFailed, watchdog>>
        /\ UNCHANGED <<back, rebuild, settling, cancelled, serverFatal, game>>
        /\ runs[stopping].rx = "done" /\ stopping' = 0
        /\ runs' = [runs EXCEPT ![stopping].fatal = FALSE]
    BY DEF StopJoins, NotMain, Shared, flagVars
  <1>2. /\ stopping # 0 /\ stopping \in Runs /\ stopping = store.generation /\ game = 0
        /\ back \in IF Watch THEN {"building", "ended", "edited", "finalwatch"}
                    ELSE {"final", "finished"}
    BY <1>0, OwnedRun DEF MainShape, Taken
  <1>3. PICK failed \in BOOLEAN : /\ failed <=> pc = "killed" \/ runs[stopping].fatal
                                  /\ StopReturns(back, failed)
    <2>1. (pc = "killed" \/ runs[stopping].fatal) \in BOOLEAN
      OBVIOUS
    <2>2. StopReturns(back, pc = "killed" \/ runs[stopping].fatal)
      BY DEF StopJoins, At
    <2> QED
      BY <2>1, <2>2
  <1>4. /\ Watch => result = "none"
        /\ back = "finished" => result = "none"
        /\ back = "finalwatch" => interrupted
    BY <1>0, <1>2 DEF CancelHasReason
  <1>5. \/ /\ ~Watch /\ back = "finished" /\ pc' = "verdict"
           /\ result' = IF failed \/ runs[stopping].status = "bad" THEN "err" ELSE "ok"
        \/ ~Watch /\ back = "final" /\ failed /\ result' = "err" /\ pc' = "drop"
        \/ ~Watch /\ back = "final" /\ ~failed /\ result' = result /\ pc' = "verdict"
        \/ /\ Watch /\ back = "finalwatch" /\ pc' = "drop"
           /\ result' = IF failed THEN "err" ELSE "ok"
        \/ /\ Watch /\ back \in {"building", "ended", "edited"}
           /\ pc' = back /\ result' = result
    <2>1. back \in {"building", "ended", "edited", "finalwatch", "final", "finished"}
      BY <1>2
    <2> QED
      BY <1>2, <1>3, <2>1, AfterStop
  <1>6. /\ KeptRuns /\ \A s \in Runs : s # stopping => runs'[s] = runs[s]
        /\ runs'[stopping].reaped = runs[stopping].reaped
        /\ runs'[stopping].proc = runs[stopping].proc
        /\ Earned(runs[stopping]) => Earned(runs'[stopping])
    BY <1>1, <1>2, <1>3, <1>5, TakenError
  <1>7. MainTyped'
    BY <1>0, <1>1, <1>5 DEF MainTyped
  <1>8. MainShape'
    BY <1>0, <1>1, <1>2, <1>5 DEF MainShape, Taken, Gameless, OneShot, Watching
  <1>9. ViewersTold'
    BY <1>0, <1>1, <1>5 DEF ViewersTold
  <1>10. CancelHasReason'
    BY <1>0, <1>1, <1>4, <1>5 DEF CancelHasReason
  <1>11. RunOwned(stopping) /\ ReceiverFinished(stopping) /\ Sound(runs[stopping])
    BY <1>2, InvRun
  <1>12. runs[stopping].proc = "exited"
    <2>1. ~Alive(stopping) /\ runs[stopping].proc # "none"
      BY <1>0, <1>2, <1>11 DEF RunOwned
    <2> QED
      BY <2>1, <1>11 DEF Alive, Sound, RunStates, ProcStates
  <1>13. SuccessHeld'
    <2>1. CASE back = "finished" /\ result' = "ok" /\ ~interrupted
      <3>1. ~failed /\ ~Watch /\ result = "none" /\ runs[stopping].status # "bad"
        BY <1>4, <1>5, <2>1
      <3>2. runs[stopping].status = "ok"
        BY <1>11, <1>12, <3>1 DEF Sound, RunStates, ProcessShape
      <3>3. ~Faulty(stopping)
        BY <1>3, <2>1, <3>1 DEF Faulty
      <3>4. Earned(runs[stopping])
        BY <1>1, <1>11, <3>2, <3>3 DEF ReceiverFinished, Earned, Complete
      <3> QED
        BY <1>1, <1>2, <1>5, <1>6, <2>1, <3>4 DEF SuccessHeld
    <2>2. CASE back # "finished" \/ result' # "ok" \/ interrupted
      BY <1>0, <1>1, <1>4, <1>5, <2>2 DEF SuccessHeld
    <2> QED
      BY <2>1, <2>2
  <1>14. ASSUME NEW s \in Runs PROVE RunOwned(s)'
    <2>1. RunOwned(s) /\ s \in Nat /\ s # 0
      BY InvRun DEF Runs
    <2>2. CASE s = stopping
      BY <1>0, <1>1, <1>2, <1>5, <1>6, <1>12, <2>1, <2>2
         DEF RunOwned, KeptRuns, Receiving, Alive, Running
    <2>3. CASE s # stopping
      BY <1>0, <1>1, <1>2, <1>5, <1>6, <2>1, <2>3 DEF RunOwned, Receiving, Alive
    <2> QED
      BY <2>2, <2>3
  <1>15. wire' \in Seq(Records) /\ (result = "err" => result' = "err" \/ interrupted)
    BY <1>1, <1>2, <1>4, <1>5, InvRun
  <1> QED
    BY <1>1, <1>6, <1>7, <1>8, <1>9, <1>10, <1>13, <1>14, <1>15, RunsSession DEF MainPart

(* Session's drop: its game, if there is one. *)
LEMMA DropTakesInv ==
    ASSUME SessionInv, DropTakes
    PROVE  SessionInv'
  <1> USE DEF Locations, Stops, Drops
  <1>0. /\ MainTyped /\ MainShape /\ ViewersTold /\ CancelHasReason /\ SuccessHeld
        /\ Watch \in BOOLEAN /\ MaxRuns \in Nat \ {0} /\ pc = "drop"
        /\ store.generation \in Nat
    BY MainFacts DEF DropTakes, At
  <1>1. /\ UNCHANGED <<store, control, interrupted, ctrlc, http, serverFailed, watchdog>>
        /\ UNCHANGED <<back, result, rebuild, settling, cancelled, serverFatal>>
    BY DEF DropTakes, NotMain, flagVars
  <1>2. stopping = 0 /\ (game # 0 => game \in Runs /\ game = store.generation)
    BY <1>0, OwnedRun DEF MainShape, Taken
  <1>3. \/ game = 0 /\ pc' = "cancelall" /\ UNCHANGED <<game, stopping, runs, wire>>
        \/ game # 0 /\ game' = 0 /\ stopping' = game /\ DropsGame(game) /\ pc' = "dropjoin"
    BY DEF DropTakes, Goto
  <1>4. MainTyped' /\ MainShape'
    <2>1. MainTyped'
      BY <1>0, <1>1, <1>3 DEF MainTyped
    <2>2. MainShape'
      BY <1>0, <1>1, <1>2, <1>3 DEF MainShape, Taken, Gameless, OneShot, Watching
    <2> QED
      BY <2>1, <2>2
  <1>5. ViewersTold' /\ CancelHasReason'
    BY <1>0, <1>1, <1>3 DEF ViewersTold, CancelHasReason
  <1>6. CASE game = 0
    <2>1. SuccessHeld'
      BY <1>0, <1>1, <1>3, <1>6 DEF SuccessHeld
    <2> QED
      BY <1>0, <1>1, <1>3, <1>4, <1>5, <1>6, <2>1, MainSession DEF MainPart, OthersKept
  <1>7. CASE game # 0
    <2>1. game \in Runs /\ runs[game].proc # "none"
      BY <1>0, <1>2, <1>7, InvRun DEF RunOwned
    <2>2. /\ KeptRuns /\ runs'[game].proc = "exited" /\ wire' \in Seq(Records)
          /\ \A s \in Runs : s # game => runs'[s] = runs[s]
      BY <1>3, <1>7, <2>1, DroppedRun
    <2>3. SuccessHeld'
      BY <1>0, <1>1, <1>7 DEF SuccessHeld
    <2>4. ASSUME NEW s \in Runs PROVE RunOwned(s)'
      <3>1. RunOwned(s) /\ s \in Nat /\ s # 0
        BY InvRun DEF Runs
      <3>2. CASE s = game
        BY <1>0, <1>1, <1>2, <1>3, <2>2, <3>1, <3>2
           DEF RunOwned, KeptRuns, Receiving, Alive, Running
      <3>3. CASE s # game
        BY <1>0, <1>1, <1>2, <1>3, <1>7, <2>2, <3>1, <3>3 DEF RunOwned, Receiving, Alive
      <3> QED
        BY <3>2, <3>3
    <2> QED
      BY <1>1, <1>4, <1>5, <2>2, <2>3, <2>4, RunsSession DEF MainPart
  <1> QED
    BY <1>6, <1>7

LEMMA DropJoinsInv ==
    ASSUME SessionInv, DropJoins
    PROVE  SessionInv'
  <1> USE DEF Locations, Stops, Drops
  <1>0. /\ MainTyped /\ MainShape /\ ViewersTold /\ CancelHasReason /\ SuccessHeld
        /\ Watch \in BOOLEAN /\ MaxRuns \in Nat \ {0} /\ pc = "dropjoin"
        /\ store.generation \in Nat
    BY MainFacts DEF DropJoins, At
  <1>1. /\ UNCHANGED <<store, control, wire, interrupted, ctrlc, http, serverFailed, watchdog>>
        /\ UNCHANGED <<back, result, rebuild, settling, cancelled, serverFatal, game, runs>>
        /\ runs[stopping].rx = "done" /\ stopping' = 0 /\ pc' = "cancelall"
    BY DEF DropJoins, Goto, NotMain, Shared, flagVars
  <1>2. stopping # 0 /\ stopping \in Runs /\ stopping = store.generation /\ game = 0
    BY <1>0, OwnedRun DEF MainShape, Taken
  <1>3. MainTyped' /\ MainShape'
    BY <1>0, <1>1, <1>2 DEF MainTyped, MainShape, Taken, Gameless, OneShot, Watching
  <1>4. ViewersTold' /\ CancelHasReason' /\ SuccessHeld'
    BY <1>0, <1>1, <1>2 DEF ViewersTold, CancelHasReason, SuccessHeld
  <1>5. KeptRuns
    BY <1>1, SameRunsKept
  <1>6. ASSUME NEW s \in Runs PROVE RunOwned(s)'
    <2>1. RunOwned(s) /\ s \in Nat /\ s # 0
      BY InvRun DEF Runs
    <2> QED
      BY <1>0, <1>1, <1>2, <2>1 DEF RunOwned, Receiving, Alive
  <1>7. wire' \in Seq(Records)
    BY <1>1, <1>2, InvRun
  <1> QED
    BY <1>1, <1>3, <1>4, <1>5, <1>6, <1>7, RunsSession DEF MainPart

----------------------------------------------------------------------------
(* Session::launch. *)

(* The run to come is untouched. *)
LEMMA NextRun ==
    ASSUME SessionInv, store.generation < MaxRuns
    PROVE  /\ store.generation + 1 \in Runs
           /\ runs[store.generation + 1] \in RunStates
           /\ Sound(runs[store.generation + 1])
           /\ runs[store.generation + 1].rx = "none" /\ runs[store.generation + 1].last = 0
           /\ runs[store.generation + 1].proc = "none" <=> pc # "begin"
  <1>1. store.generation \in Nat /\ MaxRuns \in Nat
    BY MainFacts
  <1>2. store.generation + 1 \in Runs
    BY <1>1 DEF Runs
  <1> QED
    BY <1>1, <1>2, InvRun DEF RunOwned

LEMMA LaunchSpawnsInv ==
    ASSUME SessionInv, LaunchSpawns
    PROVE  SessionInv'
  <1> USE DEF Locations, Stops, Drops
  <1> DEFINE n == store.generation + 1
  <1>0. /\ MainTyped /\ MainShape /\ ViewersTold /\ CancelHasReason /\ SuccessHeld
        /\ Watch \in BOOLEAN /\ MaxRuns \in Nat \ {0} /\ pc = "launch"
        /\ store.generation \in Nat
    BY MainFacts DEF LaunchSpawns, At
  <1>1. /\ UNCHANGED <<game, stopping>> /\ OthersKept
        /\ UNCHANGED <<back, result, rebuild, settling, cancelled, serverFatal>>
        /\ pc' = "begin" /\ runs' = [runs EXCEPT ![n].proc = "boot"]
    BY DEF LaunchSpawns, Goto, NotMain, Shared, flagVars, OthersKept
  <1>2. /\ n \in Runs /\ runs[n] \in RunStates /\ Sound(runs[n])
        /\ runs[n].rx = "none" /\ runs[n].last = 0 /\ runs[n].proc = "none"
    BY <1>0, NextRun DEF MainShape
  <1>3. PICK new : new = [runs[n] EXCEPT !.proc = "boot"]
    OBVIOUS
  <1>4. /\ new \in RunStates /\ new.proc = "boot" /\ SameReceiver(new, runs[n])
        /\ new.reaped = runs[n].reaped /\ new.status = runs[n].status
        /\ new.drawn = runs[n].drawn /\ new.backlog = runs[n].backlog
        /\ new.stream = runs[n].stream /\ new.closed = runs[n].closed
    BY <1>2, <1>3, ProcessPosition DEF Running
  <1>5. Sound(new)
    <2>1. ProcessShape(new)
      BY <1>2, <1>4 DEF Sound, ProcessShape, SameReceiver, RunStates
    <2>2. Received(new) = Received(runs[n]) /\ Sent(new) = Sent(runs[n])
      BY <1>2, <1>4 DEF Received, Sent, SameReceiver
    <2>3. StreamAccounted(new)
      BY <1>2, <1>4, <2>2 DEF Sound, StreamAccounted, SameReceiver
    <2> QED
      BY <1>4, <2>1, <2>3 DEF Sound
  <1>6. /\ runs' \in [Runs -> RunStates] /\ runs'[n] = new
        /\ \A s \in Runs : s # n => runs'[s] = runs[s]
    <2>1. runs' = [runs EXCEPT ![n] = new]
      BY <1>1, <1>3
    <2> QED
      BY <1>2, <1>4, <2>1, InvRun, OneRun
  <1>7. new.rx = "none" /\ new.last = 0
    BY <1>2, <1>4 DEF SameReceiver
  <1> HIDE DEF n
  <1>8. MainTyped' /\ MainShape'
    <2>1. MainTyped'
      BY <1>0, <1>1 DEF MainTyped
    <2>2. MainShape'
      BY <1>0, <1>1 DEF MainShape, OthersKept, Taken, Gameless, OneShot, Watching
    <2> QED
      BY <2>1, <2>2
  <1>9. ViewersTold' /\ CancelHasReason' /\ SuccessHeld'
    BY <1>0, <1>1 DEF ViewersTold, CancelHasReason, SuccessHeld, OthersKept
  <1>10. game = 0 /\ stopping = 0
    BY <1>0 DEF MainShape, Taken, Gameless
  <1>11. /\ \A r \in Runs : ~Receiving(r) /\ (Alive(r) => pc = "begin")
         /\ control.game = NoGame
    BY <1>10, NoGameNoReceiver
  <1>12. SessionTypeOK'
    BY <1>1, <1>6, <1>8
       DEF SessionInv, SessionTypeOK, StoreTypeOK, ControlTypeOK, OthersKept, MainTyped
  <1>13. FramesFlow' /\ InputFollowsRun'
    <2>1. \A r \in Runs : ~Receiving(r)'
      BY <1>6, <1>7, <1>11 DEF Receiving
    <2> QED
      BY <1>1, <1>11, <2>1 DEF FramesFlow, InputFollowsRun, OthersKept
  <1>14. ASSUME NEW s \in Runs
         PROVE  (RunOwned(s) /\ ProcessShape(runs[s]) /\ StreamAccounted(runs[s])
                   /\ ReceiverFinished(s))'
    <2>1. /\ RunOwned(s) /\ Sound(runs[s]) /\ ReceiverFinished(s) /\ ~Receiving(s) /\ ~Alive(s)
          /\ s \in Nat
      BY <1>0, <1>11, InvRun DEF Runs
    <2>2. CASE s = n
      <3>1. RunOwned(s)'
        BY <1>0, <1>1, <1>2, <1>4, <1>6, <1>7, <2>1, <2>2
           DEF n, RunOwned, Receiving, Alive, OthersKept
      <3> QED
        BY <1>5, <1>6, <1>7, <2>2, <3>1 DEF Sound, ReceiverFinished
    <2>3. CASE s # n
      <3>1. runs'[s] = runs[s]
        BY <1>6, <2>3
      <3>2. RunOwned(s)'
        BY <1>0, <1>1, <2>1, <2>3, <3>1 DEF n, RunOwned, Receiving, Alive, OthersKept
      <3>3. ReceiverFinished(s)'
        BY <1>1, <2>1, <3>1 DEF ReceiverFinished, Faulty, OthersKept
      <3> QED
        BY <2>1, <3>1, <3>2, <3>3 DEF Sound
    <2> QED
      BY <2>2, <2>3
  <1> QED
    BY <1>8, <1>9, <1>12, <1>13, <1>14 DEF SessionInv

(* begin_run: the generation goes up and the frame numbers go on. *)
LEMMA RunBegins ==
    ASSUME StoreTypeOK, StoreBeginRun
    PROVE  /\ StoreTypeOK' /\ store'.generation = store.generation + 1
           /\ store'.state = "Running" /\ store'.sequence = store.sequence
           /\ store'.deliveryOffset = store.sequence /\ store'.latest = NoFrame
  <1>1. PICK g, q : g = store.generation + 1 /\ q = store.sequence
    OBVIOUS
  <1>2. store' = [store EXCEPT !.generation = g, !.deliveryOffset = q,
                               !.latest = NoFrame, !.state = "Running"]
    BY <1>1 DEF StoreBeginRun, StoreTypeOK
  <1>3. g \in Nat /\ q \in Nat
    BY <1>1 DEF StoreTypeOK
  <1>4. /\ StoreTypeOK' /\ store'.generation = g
        /\ store'.state = "Running" /\ store'.sequence = store.sequence
        /\ store'.deliveryOffset = q /\ store'.latest = NoFrame
    BY <1>2, <1>3 DEF StoreTypeOK, ViewerStates
  <1> QED
    BY <1>1, <1>4

LEMMA LaunchBeginsInv ==
    ASSUME SessionInv, LaunchBegins
    PROVE  SessionInv'
  <1> USE DEF Locations, Stops, Drops
  <1> DEFINE n == store.generation + 1
  <1>0. /\ MainTyped /\ MainShape /\ ViewersTold /\ CancelHasReason /\ SuccessHeld
        /\ Watch \in BOOLEAN /\ MaxRuns \in Nat \ {0} /\ pc = "begin"
        /\ store.generation \in Nat /\ StoreTypeOK
    BY MainFacts DEF LaunchBegins, At, SessionInv, SessionTypeOK
  <1>1. /\ UNCHANGED <<control, wire, interrupted, ctrlc, http, serverFailed, watchdog>>
        /\ UNCHANGED <<back, result, rebuild, settling, cancelled, serverFatal, stopping>>
        /\ pc' = IF Watch THEN "watchpoll" ELSE "check"
        /\ game' = n /\ runs' = [runs EXCEPT ![n].rx = "look"] /\ StoreBeginRun
    BY DEF LaunchBegins, Goto, NotMain, flagVars
  <1>2. /\ n \in Runs /\ runs[n] \in RunStates /\ Sound(runs[n])
        /\ runs[n].rx = "none" /\ runs[n].last = 0 /\ runs[n].proc # "none"
    BY <1>0, NextRun DEF MainShape
  <1>3. /\ StoreTypeOK' /\ store'.generation = n
        /\ store'.state = "Running" /\ store'.sequence = store.sequence
        /\ store'.deliveryOffset = store.sequence /\ store'.latest = NoFrame
    BY <1>0, <1>1, RunBegins
  <1>4. PICK new : new = [runs[n] EXCEPT !.rx = "look"]
    OBVIOUS
  <1>5. /\ new \in RunStates /\ new.rx = "look" /\ SameProcess(new, runs[n])
        /\ new.peer = runs[n].peer /\ new.last = runs[n].last /\ new.head = runs[n].head
        /\ new.sawReaped = runs[n].sawReaped /\ new.stream = runs[n].stream
    BY <1>2, <1>4 DEF RunStates, ReceiverStates, SameProcess
  <1>6. Sound(new)
    <2>1. ProcessShape(new)
      BY <1>2, <1>5 DEF Sound, ProcessShape, SameProcess
    <2>2. Received(new) = Received(runs[n]) /\ Sent(new) = Sent(runs[n])
      BY <1>2, <1>5 DEF Received, Sent, SameProcess
    <2>3. StreamAccounted(new)
      BY <1>2, <1>5, <2>2 DEF Sound, StreamAccounted, SameProcess
    <2> QED
      BY <1>5, <2>1, <2>3 DEF Sound
  <1>7. /\ runs' \in [Runs -> RunStates] /\ runs'[n] = new
        /\ \A s \in Runs : s # n => runs'[s] = runs[s]
    <2>1. runs' = [runs EXCEPT ![n] = new]
      BY <1>1, <1>4
    <2> QED
      BY <1>2, <1>5, <2>1, InvRun, OneRun
  <1>8. game = 0 /\ stopping = 0 /\ n <= MaxRuns /\ n \in Nat /\ n # 0
    BY <1>0 DEF MainShape, Taken, Gameless
  <1>9. /\ \A r \in Runs : ~Receiving(r)
        /\ control.game = NoGame
    BY <1>8, NoGameNoReceiver
  <1> HIDE DEF n
  <1>10. MainTyped' /\ MainShape'
    <2>1. MainTyped'
      BY <1>0, <1>1 DEF MainTyped
    <2>2. MainShape'
      BY <1>0, <1>1, <1>3, <1>8 DEF MainShape, Taken, Gameless, OneShot, Watching
    <2> QED
      BY <2>1, <2>2
  <1>11. ViewersTold' /\ SuccessHeld'
    BY <1>0, <1>1, <1>8 DEF ViewersTold, SuccessHeld
  <1>12. CancelHasReason'
    BY <1>0, <1>1 DEF CancelHasReason
  <1>13. SessionTypeOK'
    <2>1. game' \in 0..MaxRuns /\ stopping' \in 0..MaxRuns
      BY <1>0, <1>1, <1>8
    <2> QED
      BY <1>1, <1>3, <1>7, <1>10, <2>1
         DEF SessionInv, SessionTypeOK, ControlTypeOK, MainTyped
  <1>14. FramesFlow' /\ InputFollowsRun'
    <2>1. \A r \in Runs : Receiving(r)' => r = n
      BY <1>7, <1>9 DEF Receiving
    <2>2. store'.sequence = store'.deliveryOffset + runs'[n].last
      <3>1. runs'[n].last = 0 /\ store.sequence \in Nat
        BY <1>0, <1>2, <1>5, <1>7 DEF StoreTypeOK
      <3> QED
        BY <1>3, <3>1
    <2> QED
      BY <1>1, <1>3, <1>9, <2>1, <2>2 DEF FramesFlow, InputFollowsRun
  <1>15. ASSUME NEW s \in Runs
         PROVE  (RunOwned(s) /\ ProcessShape(runs[s]) /\ StreamAccounted(runs[s])
                   /\ ReceiverFinished(s))'
    <2>1. RunOwned(s) /\ Sound(runs[s]) /\ ReceiverFinished(s) /\ ~Receiving(s)
          /\ s \in Nat /\ s # 0
      BY <1>9, InvRun DEF Runs
    <2>2. CASE s = n
      <3>1. RunOwned(s)'
        BY <1>0, <1>1, <1>2, <1>3, <1>5, <1>7, <1>8, <2>2
           DEF RunOwned, Receiving, Alive, SameProcess
      <3> QED
        BY <1>5, <1>6, <1>7, <2>2, <3>1 DEF Sound, ReceiverFinished
    <2>3. CASE s # n
      <3>1. runs'[s] = runs[s]
        BY <1>7, <2>3
      <3>2. RunOwned(s)'
        <4>1. ~Alive(s) /\ ~Alive(s)' /\ ~Receiving(s)'
          BY <1>8, <2>1, <2>3, <3>1 DEF n, RunOwned, Receiving, Alive
        <4>2. /\ s > n => runs'[s].rx = "none" /\ runs'[s].last = 0 /\ ~runs'[s].reaped
              /\ s > n => runs'[s].proc = "none"
          BY <1>0, <2>1, <2>3, <3>1 DEF n, RunOwned
        <4>3. s <= n => runs'[s].proc # "none"
          BY <1>0, <2>1, <2>3, <3>1 DEF n, RunOwned
        <4>4. pc' # "begin" /\ runs'[s].rx # "connect" /\ (s > n + 1 => s > n)
              /\ (s = n + 1 => s > n)
          BY <1>1, <1>8, <2>1, <4>1 DEF Receiving
        <4> QED
          BY <1>3, <4>1, <4>2, <4>3, <4>4 DEF RunOwned
      <3>3. ReceiverFinished(s)'
        BY <1>1, <2>1, <3>1 DEF ReceiverFinished, Faulty
      <3> QED
        BY <2>1, <3>1, <3>2, <3>3 DEF Sound
    <2> QED
      BY <2>2, <2>3
  <1> QED
    BY <1>10, <1>11, <1>12, <1>13, <1>14, <1>15 DEF SessionInv

----------------------------------------------------------------------------
(* Every step of the session. *)

(* Moving on within dev::run, watch::run and the drop. *)
LEMMA PlainSteps ==
    ASSUME SessionInv,
           \/ LoopTop \/ LoopRebuilds \/ EditedMeanwhile
           \/ Jump("analyze", "compiled") \/ Jump("compiled", "uncancelled")
           \/ AfterBuild \/ BuildSucceeds \/ ScanFindsEdit \/ Jump("scan", "sleep")
           \/ Sleep \/ WatchEnds \/ DropEnds
    PROVE  SessionInv'
  <1> USE DEF NotMain, Shared, flagVars, OthersKept, At, Goto, Jump
  <1>0. {rebuild, settling} \subseteq BOOLEAN
    BY MainFacts DEF MainTyped
  <1>1. CASE LoopTop
    BY <1>0, <1>1, PlainMoveInv DEF LoopTop, PlainMove
  <1>2. CASE LoopRebuilds
    BY <1>0, <1>2, PlainMoveInv DEF LoopRebuilds, CallStop, PlainMove
  <1>3. CASE EditedMeanwhile
    BY <1>0, <1>3, PlainMoveInv DEF EditedMeanwhile, PlainMove
  <1>4. CASE Jump("analyze", "compiled")
    BY <1>0, <1>4, PlainMoveInv DEF PlainMove
  <1>5. CASE Jump("compiled", "uncancelled")
    BY <1>0, <1>5, PlainMoveInv DEF PlainMove
  <1>6. CASE AfterBuild
    BY <1>0, <1>6, PlainMoveInv DEF AfterBuild, PlainMove
  <1>7. CASE BuildSucceeds
    BY <1>0, <1>7, PlainMoveInv DEF BuildSucceeds, PlainMove
  <1>8. CASE ScanFindsEdit
    BY <1>0, <1>8, PlainMoveInv DEF ScanFindsEdit, CallStop, PlainMove
  <1>9. CASE Jump("scan", "sleep")
    BY <1>0, <1>9, PlainMoveInv DEF PlainMove
  <1>10. CASE Sleep
    BY <1>0, <1>10, PlainMoveInv DEF Sleep, PlainMove
  <1>11. CASE WatchEnds
    BY <1>0, <1>11, PlainMoveInv DEF WatchEnds, CallStop, PlainMove
  <1>12. CASE DropEnds
    BY <1>0, <1>12, PlainMoveInv DEF DropEnds, PlainMove
  <1> QED
    BY <1>1, <1>2, <1>3, <1>4, <1>5, <1>6, <1>7, <1>8, <1>9, <1>10, <1>11, <1>12

LEMMA MainInv ==
    ASSUME SessionInv, MainStep
    PROVE  SessionInv'
  <1>1. CASE DevRun
    <2>1. CASE Build
      BY <2>1, BuildInv
    <2>2. CASE StopsIfCancelled("prelaunch", "launch")
      BY <2>2, StopsIfCancelledInv
    <2>3. CASE CheckServer("check", "cancel", "stop")
      BY <2>3, CheckServerInv
    <2>4. CASE StopsIfCancelled("cancel", "poll")
      BY <2>4, StopsIfCancelledInv
    <2>5. CASE PollGame
      BY <2>5, PollGameInv
    <2>6. CASE Verdict
      BY <2>6, VerdictInv
    <2> QED
      BY <1>1, <2>1, <2>2, <2>3, <2>4, <2>5, <2>6 DEF DevRun
  <1>2. CASE Launch
    BY <1>2, LaunchSpawnsInv, LaunchFailsInv, LaunchBeginsInv DEF Launch
  <1>3. CASE StopGame
    BY <1>3, StopWithoutGameInv, StopTakesInv, StopSignalsInv, StopReapsInv,
       StopGivesUpInv, StopJoinsInv DEF StopGame
  <1>4. CASE DropSession
    BY <1>4, DropTakesInv, DropJoinsInv, DropCancelsInv, DropStopsInv, PlainSteps
       DEF DropSession
  <1>5. CASE WatchRun
    BY <1>5, CheckServerInv, BuildingInv, AnalysisFailsInv, BuildFailsInv, WatchPollInv,
       GameEndedInv, EditedInv, PlainSteps DEF WatchRun
  <1> QED
    BY <1>1, <1>2, <1>3, <1>4, <1>5 DEF MainStep

(* A step that changes nothing. *)
LEMMA StutterInv ==
    ASSUME SessionInv, UNCHANGED sessionVars
    PROVE  SessionInv'
  <1>1. UNCHANGED <<pc, back, result, rebuild, settling, game, stopping, cancelled, serverFatal>>
    BY DEF sessionVars, mainVars, flagVars, threadVars
  <1>2. UNCHANGED runs /\ OthersKept
    BY DEF sessionVars, mainVars, flagVars, threadVars, OthersKept
  <1>3. MainPart
    BY MainFacts DEF MainPart
  <1>4. MainTyped' /\ MainShape' /\ ViewersTold'
    BY <1>1, <1>2, <1>3 DEF MainPart, MainTyped, MainShape, ViewersTold, OthersKept
  <1>5. CancelHasReason' /\ SuccessHeld'
    BY <1>1, <1>2, <1>3 DEF MainPart, CancelHasReason, SuccessHeld, OthersKept
  <1> QED
    BY <1>1, <1>2, <1>4, <1>5, MainSession DEF MainPart

LEMMA SessionStep ==
    ASSUME SessionInv, [SessionNext]_sessionVars
    PROVE  SessionInv'
  <1>1. CASE MainStep
    BY <1>1, MainInv
  <1>2. CASE ThreadStep
    BY <1>2, ThreadInv
  <1>3. ASSUME NEW r \in Runs, GameStep(r)
        PROVE  SessionInv'
    BY <1>3, GameInv
  <1>4. ASSUME NEW r \in Runs, ReceiverStep(r) \/ RxSetupFails(r) \/ StrangerStep(r)
        PROVE  SessionInv'
    BY <1>4, ReceiverInv
  <1>5. CASE UNCHANGED sessionVars
    BY <1>5, StutterInv
  <1> QED
    BY <1>1, <1>2, <1>3, <1>4, <1>5 DEF SessionNext, Terminated

(* The command starts with no game and every thread in place. *)
LEMMA SessionStart ==
    ASSUME SessionInit
    PROVE  SessionInv
  <1> USE SessionAssumption
  <1>1. /\ store = [latest |-> NoFrame, state |-> "Running", generation |-> 0,
                    sequence |-> 0, deliveryOffset |-> 0]
        /\ control = [generation |-> 0, game |-> NoGame,
                      owner |-> NoClient, lastSeen |-> "none"]
        /\ wire = << >> /\ game = 0 /\ stopping = 0
        /\ runs = [r \in Runs |-> NewRun]
    BY DEF SessionInit, StoreInit, ControlInit
  <1>2. /\ pc = IF Watch THEN "top" ELSE "build"
        /\ back = "none" /\ result = "none" /\ rebuild = TRUE /\ settling = FALSE
        /\ cancelled = FALSE /\ interrupted = FALSE
        /\ ctrlc = "idle" /\ http = "run" /\ watchdog = "run"
        /\ serverFatal = FALSE /\ serverFailed = FALSE
    BY DEF SessionInit
  <1>3. store.generation = 0 /\ store.state = "Running" /\ control.game = NoGame
    BY <1>1
  <1>4. StoreTypeOK /\ ControlTypeOK
    BY <1>1 DEF StoreTypeOK, ViewerStates, ControlTypeOK, ControlStates, NoGame
  <1>5. NewRun \in RunStates
    <2>1. << >> \in Seq({"game", "stranger"})
          /\ << >> \in Seq([part : {"head", "body"}, sequence : Nat])
      OBVIOUS
    <2> QED
      BY <2>1 DEF NewRun, RunStates, ProcStates, ReceiverStates
  <1>6. SessionTypeOK
    <2>1. pc \in Locations
      BY <1>2 DEF Locations
    <2>2. runs \in [Runs -> RunStates]
      BY <1>1, <1>5
    <2>3. game \in 0..MaxRuns /\ stopping \in 0..MaxRuns
      BY <1>1
    <2>4. /\ result \in {"none", "ok", "err"} /\ ctrlc \in {"idle", "half", "done"}
          /\ back \in {"none", "final", "finished", "finalwatch", "building", "ended", "edited"}
          /\ http \in {"run", "failing", "done"} /\ watchdog \in {"run", "done"}
          /\ {rebuild, settling, cancelled, interrupted, serverFatal, serverFailed}
                \subseteq BOOLEAN
      BY <1>2
    <2> QED
      BY <1>4, <2>1, <2>2, <2>3, <2>4 DEF SessionTypeOK
  <1>7. MainShape
    BY <1>1, <1>2, <1>3 DEF MainShape, Taken, Gameless, OneShot, Watching, Stops
  <1>8. ViewersTold /\ CancelHasReason /\ SuccessHeld
    BY <1>2, <1>3 DEF ViewersTold, CancelHasReason, SuccessHeld, Drops, Stops
  <1>9. ASSUME NEW r \in Runs
        PROVE  /\ runs[r] = NewRun /\ ~Receiving(r) /\ RunOwned(r)
               /\ ProcessShape(runs[r]) /\ StreamAccounted(runs[r]) /\ ReceiverFinished(r)
    <2>1. /\ runs[r] = NewRun /\ r \in Nat /\ r # 0
      BY <1>1 DEF Runs
    <2>2. /\ NewRun.rx = "none" /\ NewRun.proc = "none" /\ NewRun.last = 0
          /\ NewRun.reaped = FALSE /\ NewRun.drawn = 0 /\ NewRun.stream = << >>
          /\ NewRun.status = "none" /\ NewRun.closed = "open" /\ NewRun.peer = "none"
          /\ NewRun.sawReaped = FALSE
      BY DEF NewRun
    <2>3. ~Receiving(r) /\ ~Alive(r) /\ ReceiverFinished(r)
      BY <2>1, <2>2 DEF Receiving, Alive, Running, ReceiverFinished
    <2>4. RunOwned(r)
      BY <1>2, <1>3, <2>1, <2>2, <2>3 DEF RunOwned
    <2>5. ProcessShape(NewRun)
      BY <2>2 DEF ProcessShape
    <2>6. StreamAccounted(NewRun)
      BY <2>2 DEF StreamAccounted, Received, Sent
    <2> QED
      BY <2>1, <2>3, <2>4, <2>5, <2>6
  <1>10. InputFollowsRun /\ FramesFlow
    BY <1>3, <1>9 DEF InputFollowsRun, FramesFlow
  <1> QED
    BY <1>6, <1>7, <1>8, <1>9, <1>10 DEF SessionInv

(* Everything below rests on this: at every position of every thread the   *)
(* main thread owns at most one run, input and pictures belong to it, what *)
(* its receiver has read is accounted for, and an early end has a reason   *)
(* (Session, session.rs; watch::run; spawn_frame_receiver, server.rs).     *)
THEOREM SessionSafety == SessionSpec => []SessionInv
  <1>1. SessionInit => SessionInv
    BY SessionStart
  <1>2. SessionInv /\ [SessionNext]_sessionVars => SessionInv'
    BY SessionStep
  <1> QED
    BY <1>1, <1>2, PTL DEF SessionSpec

(* Every variable holds a value of its kind in every state of a session    *)
(* (Session, session.rs; FrameStore and InputController, server.rs).       *)
THEOREM SessionTypes == SessionSpec => []SessionTypeOK
  <1>1. SessionInv => SessionTypeOK
    BY DEF SessionInv
  <1> QED
    BY <1>1, SessionSafety, PTL

(* A game and its receiver are over before the next game exists, and input *)
(* goes to the run the session is in: stop_game joins the old receiver     *)
(* before begin_run (session.rs), and connect_game never uses a generation *)
(* that has passed (server.rs).                                            *)
THEOREM RunsAreSeparate == SessionSpec => []RunsDoNotOverlap
  <1>1. ASSUME SessionInv
        PROVE  RunsDoNotOverlap
    <2>1. ASSUME NEW r \in Runs, Active(r)
          PROVE  IF pc = "begin" THEN r = store.generation + 1 ELSE r = store.generation
      <3>1. RunOwned(r) /\ r # 0 /\ MainShape
        BY <1>1, InvRun, MainFacts DEF Runs
      <3>2. pc = "begin" => game = 0 /\ stopping = 0
        BY <3>1 DEF MainShape, Taken, Gameless
      <3> QED
        BY <2>1, <3>1, <3>2 DEF Active, RunOwned, Receiving
    <2>2. ASSUME control.game # NoGame
          PROVE  /\ control.generation = control.game /\ control.game = store.generation
                 /\ runs[control.game].rx \notin {"none", "stop", "done"}
      BY <1>1, <2>2 DEF SessionInv, InputFollowsRun
    <2> QED
      BY <2>1, <2>2 DEF RunsDoNotOverlap
  <1> QED
    BY <1>1, SessionSafety, PTL

(* A command that has returned, on whatever path, has left no process, no  *)
(* receiver and no server thread, has detached input and has told viewers  *)
(* that the game stopped (the drop of Session and of GameRun, session.rs). *)
THEOREM NothingIsLeft == SessionSpec => []NothingLeftBehind
  <1>1. ASSUME SessionInv, pc = "done"
        PROVE  /\ \A r \in Runs : ~Active(r)
               /\ http = "done" /\ watchdog = "done"
               /\ control.game = NoGame /\ store.state = "Stopped"
    <2>1. MainShape /\ ViewersTold /\ CancelHasReason
      BY <1>1, MainFacts
    <2>2. game = 0 /\ stopping = 0
      BY <1>1, <2>1 DEF MainShape, Taken, Gameless
    <2>3. (\A r \in Runs : ~Active(r)) /\ control.game = NoGame
      BY <1>1, <2>2, NoGameNoReceiver DEF Active, Receiving
    <2> QED
      BY <1>1, <2>1, <2>3 DEF ViewersTold, CancelHasReason
  <1>2. SessionInv => NothingLeftBehind
    BY <1>1 DEF NothingLeftBehind
  <1> QED
    BY <1>2, SessionSafety, PTL

(* A success that no interrupt and no server failure explains is that of a *)
(* game that returned 0, all of whose frames were published if it closed   *)
(* its connection in order (dev::run; receive_frames, server.rs).          *)
THEOREM SuccessNeedsAGame == SessionSpec => []SuccessIsEarned
  <1>1. SessionInv => SuccessIsEarned
    BY MainFacts DEF SuccessHeld, SuccessIsEarned, Earned
  <1> QED
    BY <1>1, SessionSafety, PTL

(* A watcher that sleeps without a game has told viewers what it waits     *)
(* for: no receiver is left whose `stop' could overwrite it (watch::run).  *)
THEOREM SleeperSaysWhy == SessionSpec => []IdleWatcherSaysWhy
  <1>1. SessionInv => IdleWatcherSaysWhy
    BY MainFacts DEF ViewersTold, Told, IdleWatcherSaysWhy
  <1> QED
    BY <1>1, SessionSafety, PTL

(* The watcher returns the HTTP server's error, whichever of the channel   *)
(* and the flag it looks at first (check_server in watch::run).            *)
THEOREM WatcherReportsServer ==
    ASSUME Watch
    PROVE  SessionSpec => []ServerFailureReported
  <1>1. SessionInv => ServerFailureReported
    BY MainFacts DEF CancelHasReason, Drops, ServerFailureReported
  <1> QED
    BY <1>1, SessionSafety, PTL

----------------------------------------------------------------------------
(* The session implements the viewer feed. *)

StoreStep ==
    \/ UNCHANGED store
    \/ pc = "begin" /\ StoreBeginRun
    \/ \E status \in Told : SetState(status)
    \/ StoreStop
    \/ \E r \in Runs : /\ runs[r].rx = "body" /\ runs[r].head > runs[r].last
                       /\ Publish(runs[r].head, r)

(* The steps that touch the frame store. *)
LEMMA StoreSteps ==
    ASSUME SessionInv, [SessionNext]_sessionVars
    PROVE  StoreStep
  <1>1. CASE MainStep
    <2> USE DEF Shared
    <2>1. CASE DevRun
      BY <2>1 DEF DevRun, Build, StopsIfCancelled, CheckServer, PollGame, Verdict, Jump,
                  StoreStep
    <2>2. CASE Launch
      BY <2>2 DEF Launch, LaunchSpawns, LaunchFails, LaunchBegins, At, StoreStep
    <2>3. CASE StopGame
      BY <2>3 DEF StopGame, StopWithoutGame, StopTakes, StopSignals, StopReaps,
                  StopGivesUp, StopJoins, StoreStep
    <2>4. CASE DropSession
      BY <2>4 DEF DropSession, DropTakes, DropJoins, DropCancels, DropStops, DropEnds, Jump,
                  StoreStep
    <2>5. CASE Building \/ AnalysisFails \/ BuildFails \/ GameEnded \/ Edited
      BY <2>5 DEF Building, AnalysisFails, BuildFails, GameEnded, Edited, EnterState, Told,
                  StoreStep
    <2>6. CASE LoopTop \/ LoopRebuilds \/ EditedMeanwhile \/ AfterBuild \/ BuildSucceeds
                 \/ WatchPoll \/ ScanFindsEdit \/ Sleep \/ WatchEnds
      BY <2>6 DEF LoopTop, LoopRebuilds, EditedMeanwhile, AfterBuild, BuildSucceeds,
                  WatchPoll, ScanFindsEdit, Sleep, WatchEnds, Jump, StoreStep
    <2>7. CASE \/ CheckServer("loopcheck", "rebuild", "drop")
               \/ CheckServer("endcheck", "laststop", "drop")
               \/ Jump("analyze", "compiled") \/ Jump("compiled", "uncancelled")
               \/ Jump("scan", "sleep")
      BY <2>7 DEF CheckServer, Jump, StoreStep
    <2> QED
      BY <1>1, <2>1, <2>2, <2>3, <2>4, <2>5, <2>6, <2>7 DEF MainStep, WatchRun
  <1>2. CASE ThreadStep
    BY <1>2 DEF ThreadStep, CtrlC, CtrlCCancels, HttpFails, HttpCancels, HttpStops, Post,
                WatchdogEnds, StoreStep
  <1>3. ASSUME NEW r \in Runs, GameStep(r)
        PROVE  UNCHANGED store
    BY <1>3 DEF GameStep, GameBoots, GameConnects, GamePolls, GameSendsHead, GameSendsBody,
                SendHalf, GameCloses, GameReturns, GameLosesHost, GameCrashes,
                StrangerConnects, Unowned
  <1>4. ASSUME NEW r \in Runs, ReceiverStep(r) \/ RxSetupFails(r) \/ StrangerStep(r)
        PROVE  StoreStep
    <2>1. CASE RxReadsBody(r) \/ StrangerSendsBody(r)
      BY <2>1 DEF RxReadsBody, StrangerSendsBody, FrameComplete, ReceiverAt, StoreStep
    <2>2. CASE RxStops(r)
      BY <2>2 DEF RxStops, StoreStep
    <2>3. CASE ~RxReadsBody(r) /\ ~StrangerSendsBody(r) /\ ~RxStops(r)
      BY <1>4, <2>3 DEF ReceiverStep, StrangerStep, RxLooks, RxAccepts, RxFindsNothing, RxReadsGeneration,
         RxConnects, RxReadsHead, RxReadsEnd, RxGraceEnds, RxFails, RxDetaches,
         RxSetupFails, StrangerTalks, StrangerSendsHead, StrangerEnds, Unowned, StoreStep
    <2> QED
      BY <2>1, <2>2, <2>3
  <1>5. CASE UNCHANGED sessionVars
    BY <1>5 DEF sessionVars, StoreStep
  <1> QED
    BY <1>1, <1>2, <1>3, <1>4, <1>5 DEF SessionNext, Terminated, StoreStep

(* A frame that is published has a new number, and is the current run's. *)
LEMMA PublishShows ==
    ASSUME SessionInv, NEW r \in Runs, runs[r].rx = "body", runs[r].head > runs[r].last,
           Publish(runs[r].head, r)
    PROVE  Feed!Show
  <1>1. store.state = "Running" /\ store.sequence = store.deliveryOffset + runs[r].last
    BY DEF SessionInv, FramesFlow, Receiving
  <1>2. r = store.generation /\ r > 0
    BY InvRun DEF RunOwned, Receiving, Runs
  <1>3. /\ store.sequence \in Nat /\ store.deliveryOffset \in Nat
        /\ runs[r].head \in Nat /\ runs[r].last \in Nat
    BY InvRun DEF SessionInv, SessionTypeOK, StoreTypeOK, RunStates
  <1>4. PICK d : d = runs[r].head + store.deliveryOffset
    OBVIOUS
  <1>5. d \in Nat /\ d > store.sequence
    BY <1>1, <1>3, <1>4
  <1>6. store' = [store EXCEPT !.sequence = d, !.latest = [sequence |-> d, run |-> r]]
    BY <1>4 DEF Publish
  <1>7. /\ store'.sequence = d /\ store'.latest = [sequence |-> d, run |-> r]
        /\ store'.generation = store.generation /\ store'.state = store.state
    BY <1>6 DEF SessionInv, SessionTypeOK, StoreTypeOK
  <1> QED
    BY <1>1, <1>2, <1>5, <1>7 DEF Feed!Show

(* What viewers are shown is a viewer feed: pictures of the current run    *)
(* only, none once it was replaced, in numbers that go up over all runs    *)
(* (publish, begin_run, set_state and stop of the FrameStore, server.rs,   *)
(* as the session's threads call them).                                    *)
THEOREM SessionFeedsViewers == SessionSpec => SessionImplementsViewerFeed
  <1>1. SessionInit => Feed!FeedInit
    BY DEF SessionInit, StoreInit, Feed!FeedInit
  <1>2. ASSUME SessionInv, [SessionNext]_sessionVars
        PROVE  [Feed!FeedNext]_Feed!feedVars
    <2>1. StoreTypeOK /\ ViewersTold
      BY <1>2 DEF SessionInv, SessionTypeOK
    <2>2. CASE UNCHANGED store
      BY <2>2 DEF Feed!feedVars
    <2>3. CASE pc = "begin" /\ StoreBeginRun
      <3>1. store.state = "Building" \/ store.generation = 0
        BY <2>1, <2>3 DEF ViewersTold
      <3> QED
        BY <2>1, <2>3, <3>1, RunBegins DEF Feed!FeedNext, Feed!StartRun
    <2>4. ASSUME NEW status \in Told, SetState(status)
          PROVE  Feed!FeedNext
      <3>1. status \in ViewerStates
        BY <2>4 DEF Told, ViewerStates
      <3>2. CASE status = "Watching"
        BY <2>1, <2>4, <3>1, <3>2, StatesSet DEF Feed!FeedNext, Feed!EndRun
      <3>3. CASE status \in {"Building", "BuildFailed"}
        BY <2>1, <2>4, <3>1, <3>3, StatesSet DEF Feed!FeedNext, Feed!Rebuild
      <3> QED
        BY <2>4, <3>2, <3>3 DEF Told
    <2>5. CASE StoreStop
      BY <2>1, <2>5 DEF StoreStop, StoreTypeOK, Feed!FeedNext, Feed!EndRun
    <2>6. ASSUME NEW r \in Runs, runs[r].rx = "body", runs[r].head > runs[r].last,
                 Publish(runs[r].head, r)
          PROVE  Feed!FeedNext
      BY <1>2, <2>6, PublishShows DEF Feed!FeedNext
    <2> QED
      BY <1>2, <2>2, <2>3, <2>4, <2>5, <2>6, StoreSteps DEF StoreStep
  <1> QED
    BY <1>1, <1>2, SessionSafety, PTL
       DEF SessionSpec, SessionImplementsViewerFeed, Feed!FeedSpec

============================================================================
