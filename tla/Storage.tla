------------------------------- MODULE Storage -------------------------------
(* The persistent integer slots of the runtime (runtime/crumb/storage.c):    *)
(* game processes that save by writing a temporary file, syncing it, and     *)
(* renaming it over the slot, and that load by opening and parsing the slot. *)
(* One action per system call that another process, a crash or a power loss  *)
(* can tell apart.  The file system is external: names refer to files, a     *)
(* file keeps the prefix that was synced, and a directory entry may be       *)
(* found, after a power loss, as it was at any time since the directory was  *)
(* last synced.                                                              *)
EXTENDS Integers, Sequences, FiniteSets, SequencesExt

CONSTANTS Procs,        \* game processes that share one namespace
          Slots,        \* valid slot numbers
          BadSlots,     \* slot numbers a game may pass that are not valid
          Values,       \* values the games save
          Pid,          \* process -> process id, equal in two pid namespaces
          Files,        \* file numbers
          MaxAttempts,  \* temporary names tried (128)
          Magnitude,    \* -Magnitude .. Magnitude - 1 are the integers (2^31)
          Fallback,     \* what the games pass as fallback
          None,
          MaxCalls, MaxFaults   \* bounds: calls; crashes and power losses

ASSUME StorageConstants ==
    /\ Slots \cap BadSlots = {}
    /\ Fallback \notin Values /\ None \notin Int \cup {Fallback}
    /\ Magnitude \in Nat \ {0}
    /\ Values \subseteq (-Magnitude)..(Magnitude - 1)
    /\ MaxAttempts \in Nat \ {0} /\ None \notin Files /\ Files # {}

ASSUME IntegersFit == Magnitude - 1 <= 2147483647

VARIABLES proc,     \* the calls of each process
          dir,      \* directory: name -> file or None
          crashDir, \* name -> entries a power loss may leave
          file,     \* file -> contents and how much of them is on disk
          folder,     \* the directory: "absent", "fresh" (not on disk yet), "kept"
          litter,   \* temporary names nobody will unlink any more
          calls, faults

storageVars == <<proc, dir, crashDir, file, folder, litter, calls, faults>>
-----------------------------------------------------------------------------
(* File contents: header, optional sign, decimal digits, newline. *)
Header == 10
Minus == 11
Newline == 12

DigitCount(n) == CHOOSE k \in 1..10 : n < 10^k /\ (k = 1 \/ 10^(k - 1) <= n)
Digits(n) == [i \in 1..DigitCount(n) |-> (n \div 10^(DigitCount(n) - i)) % 10]

Contents(v) == <<Header>> \o (IF v < 0 THEN <<Minus>> ELSE <<>>)
               \o Digits(IF v < 0 THEN -v ELSE v) \o <<Newline>>

(* Deviation: the most negative integer is treated as too large. *)
MagnitudeLimitPositive(negative) == Magnitude - 1

MagnitudeLimit(negative) == IF negative THEN Magnitude ELSE Magnitude - 1

(* The magnitude after one more digit, None when there is none. *)
Accumulate(magnitude, digit, limit) ==
    IF magnitude = None \/ digit \notin 0..9 THEN None
    ELSE IF magnitude > (limit - digit) \div 10 THEN None
    ELSE magnitude * 10 + digit
Magnitudes(number, limit) ==
    LET upTo[i \in 0..Len(number)] ==
            IF i = 0 THEN 0 ELSE Accumulate(upTo[i - 1], number[i], limit)
    IN  upTo

(* The value the contents stand for, or None when they are malformed. *)
Negative(text) == Len(text) > 1 /\ text[2] = Minus
Number(text) == SubSeq(text, IF Negative(text) THEN 3 ELSE 2, Len(text) - 1)
Parse(text) ==
    LET number == Number(text)
        magnitude == Magnitudes(number, MagnitudeLimit(Negative(text)))[Len(number)]
    IN  IF \/ Len(text) <= 2 \/ text[1] # Header \/ text[Len(text)] # Newline
           \/ number = <<>> \/ (Len(number) > 1 /\ number[1] = 0)
           \/ magnitude = None \/ (Negative(text) /\ magnitude = 0)
        THEN None
        ELSE IF Negative(text) THEN -magnitude ELSE magnitude
-----------------------------------------------------------------------------
(* Names in the game's directory: <<slot>> and <<slot, pid, attempt>>. *)
Pids == {Pid[p] : p \in Procs}
SlotName(s) == <<s>>
TemporaryName(p) == <<proc[p].slot, Pid[p], proc[p].attempt>>
SlotNames == {SlotName(s) : s \in Slots}
TemporaryNames == Slots \X Pids \X (0..MaxAttempts - 1)
Names == SlotNames \cup TemporaryNames

NewFile == [text |-> <<>>, synced |-> 0]
Off == [pc |-> "off", slot |-> None, value |-> None, attempt |-> 0,
        file |-> None, at |-> 0, root |-> FALSE]
Idle(p, answer, v) == [Off EXCEPT !.pc = answer, !.value = v, !.root = proc[p].root]
Answers == {"ready", "saved", "failed", "loaded"}

(* The first game ever, or a game with a slot saved by an earlier session. *)
StorageInit ==
    /\ proc = [p \in Procs |-> Off]
    /\ \/ /\ folder = "absent"
          /\ dir = [n \in Names |-> None]
          /\ file = [f \in Files |-> NewFile]
       \/ \E s \in Slots, v \in Values : LET f == CHOOSE g \in Files : TRUE IN
            /\ folder = "kept"
            /\ dir = [[n \in Names |-> None] EXCEPT ![SlotName(s)] = f]
            /\ file = [[g \in Files |-> NewFile] EXCEPT
                         ![f] = [text |-> Contents(v), synced |-> Len(Contents(v))]]
    /\ crashDir = [n \in Names |-> {dir[n]}]
    /\ litter = {}
    /\ calls = 0 /\ faults = 0

bounds == <<calls, faults>>
files == <<dir, crashDir, file, folder, litter>>

Goes(p, pc) == proc' = [proc EXCEPT ![p].pc = pc]
Answer(p, answer, v) == proc' = [proc EXCEPT ![p] = Idle(p, answer, v)]

(* A process starts and selects its namespace; without an absolute base      *)
(* directory it has none and every call fails without touching a file.       *)
StorageStart(p) ==
    /\ proc[p].pc = "off"
    /\ \E root \in BOOLEAN :
         proc' = [proc EXCEPT ![p] = [Off EXCEPT !.pc = "ready", !.root = root]]
    /\ UNCHANGED <<files, bounds>>

CallSave(p) ==
    /\ proc[p].pc \in Answers /\ calls < MaxCalls
    /\ \E s \in Slots \cup BadSlots, v \in Values :
         IF s \notin Slots \/ ~proc[p].root
         THEN Answer(p, "failed", None)
         ELSE proc' = [proc EXCEPT ![p] = [Idle(p, "open", v) EXCEPT !.slot = s]]
    /\ calls' = calls + 1
    /\ UNCHANGED <<files, faults>>

(* The directory is created when it is missing, then opened. *)
OpenDirectory(p) ==
    /\ proc[p].pc = "open"
    /\ \/ /\ Goes(p, "create")
          /\ folder' = IF folder = "absent" THEN "fresh" ELSE folder
       \/ /\ Answer(p, "failed", None)
          /\ folder' \in {folder, IF folder = "absent" THEN "fresh" ELSE folder}
    /\ UNCHANGED <<dir, crashDir, file, litter, bounds>>

InUse(f) == \/ \E n \in Names : f = dir[n] \/ f \in crashDir[n]
            \/ \E p \in Procs : proc[p].file = f
FreeFiles == {f \in Files : ~InUse(f)}
FreshFile == CHOOSE f \in FreeFiles : TRUE

(* Deviation: without O_EXCL an existing temporary file is opened again. *)
CreateTemporaryShared(p) ==
    /\ proc[p].pc = "create"
    /\ LET n == TemporaryName(p)
           f == IF dir[n] = None THEN FreshFile ELSE dir[n] IN
       /\ dir' = [dir EXCEPT ![n] = f]
       /\ crashDir' = [crashDir EXCEPT ![n] = @ \cup {f}]
       /\ file' = [file EXCEPT ![f] = NewFile]
       /\ proc' = [proc EXCEPT ![p].pc = "write", ![p].file = f]
       /\ litter' = litter \ {n}
    /\ UNCHANGED <<folder, bounds>>

(* A temporary file is created exclusively: an existing name is left alone   *)
(* and the next attempt's name is tried.                                     *)
CreateTemporary(p) ==
    /\ proc[p].pc = "create"
    /\ LET n == TemporaryName(p) IN
       \/ /\ dir[n] = None /\ FreeFiles # {}
          /\ dir' = [dir EXCEPT ![n] = FreshFile]
          /\ crashDir' = [crashDir EXCEPT ![n] = @ \cup {FreshFile}]
          /\ file' = [file EXCEPT ![FreshFile] = NewFile]
          /\ proc' = [proc EXCEPT ![p].pc = "write", ![p].file = FreshFile]
          /\ litter' = litter \ {n}
       \/ /\ dir[n] # None
          /\ IF proc[p].attempt + 1 < MaxAttempts
             THEN proc' = [proc EXCEPT ![p].attempt = @ + 1]
             ELSE Answer(p, "failed", None)
          /\ UNCHANGED <<dir, crashDir, file, litter>>
       \/ Answer(p, "failed", None) /\ UNCHANGED <<dir, crashDir, file, litter>>
    /\ UNCHANGED <<folder, bounds>>

(* One write call of write_all: some of the rest is written, or it fails. *)
WriteTemporary(p) ==
    /\ proc[p].pc = "write" /\ proc[p].at < Len(Contents(proc[p].value))
    /\ \/ \E upTo \in proc[p].at + 1 .. Len(Contents(proc[p].value)) :
            /\ file' = [file EXCEPT ![proc[p].file].text =
                          @ \o SubSeq(Contents(proc[p].value), proc[p].at + 1, upTo)]
            /\ proc' = [proc EXCEPT ![p].at = upTo]
       \/ Goes(p, "unlink") /\ UNCHANGED file
    /\ UNCHANGED <<dir, crashDir, folder, litter, bounds>>

(* Deviation: the file is renamed without having been synced. *)
SyncTemporarySkipped(p) ==
    /\ proc[p].pc = "write" /\ proc[p].at = Len(Contents(proc[p].value))
    /\ Goes(p, "rename")
    /\ UNCHANGED <<files, bounds>>

SyncTemporary(p) ==
    /\ proc[p].pc = "write" /\ proc[p].at = Len(Contents(proc[p].value))
    /\ \/ /\ file' = [file EXCEPT ![proc[p].file].synced = Len(file[proc[p].file].text)]
          /\ \/ Goes(p, "rename")
             \/ Goes(p, "unlink")   \* close reports an error
       \/ Goes(p, "unlink") /\ UNCHANGED file
    /\ UNCHANGED <<dir, crashDir, folder, litter, bounds>>

RenameTemporary(p) ==
    /\ proc[p].pc = "rename"
    /\ LET n == TemporaryName(p)
           target == SlotName(proc[p].slot) IN
       \/ /\ dir[n] # None
          /\ dir' = [dir EXCEPT ![target] = dir[n], ![n] = None]
          /\ crashDir' = [crashDir EXCEPT ![target] = @ \cup {dir[n]}, ![n] = @ \cup {None}]
          /\ Goes(p, "dirsync")
       \/ Goes(p, "unlink") /\ UNCHANGED <<dir, crashDir>>
    /\ UNCHANGED <<file, folder, litter, bounds>>

(* Deviation: a directory that cannot be synced is reported as a failed save. *)
SyncDirectoryChecked(p) ==
    /\ proc[p].pc = "dirsync"
    /\ \/ crashDir' = [n \in Names |-> {dir[n]}] /\ Answer(p, "saved", None)
       \/ UNCHANGED crashDir /\ Answer(p, "failed", None)
    /\ UNCHANGED <<dir, file, folder, litter, bounds>>

(* The directory is synced where that is supported; the save has succeeded   *)
(* either way.                                                               *)
SyncDirectory(p) ==
    /\ proc[p].pc = "dirsync"
    /\ crashDir' \in {crashDir, [n \in Names |-> {dir[n]}]}
    /\ Answer(p, "saved", None)
    /\ UNCHANGED <<dir, file, folder, litter, bounds>>

UnlinkTemporary(p) ==
    /\ proc[p].pc = "unlink"
    /\ LET n == TemporaryName(p) IN
       \/ /\ dir' = [dir EXCEPT ![n] = None]
          /\ crashDir' = [crashDir EXCEPT ![n] = @ \cup {None}]
          /\ UNCHANGED litter
       \/ /\ litter' = litter \cup {n}   \* the result of unlinkat is ignored
          /\ UNCHANGED <<dir, crashDir>>
    /\ Answer(p, "failed", None)
    /\ UNCHANGED <<file, folder, bounds>>

CallLoad(p) ==
    /\ proc[p].pc \in Answers /\ calls < MaxCalls
    /\ \E s \in Slots \cup BadSlots :
         IF s \notin Slots \/ ~proc[p].root
         THEN Answer(p, "loaded", Fallback)
         ELSE proc' = [proc EXCEPT ![p] = [Idle(p, "look", None) EXCEPT !.slot = s]]
    /\ calls' = calls + 1
    /\ UNCHANGED <<files, faults>>

OpenSlot(p) ==
    /\ proc[p].pc = "look"
    /\ LET f == dir[SlotName(proc[p].slot)] IN
       \/ /\ folder # "absent" /\ f # None
          /\ proc' = [proc EXCEPT ![p].pc = "read", ![p].file = f]
       \/ Answer(p, "loaded", Fallback)
    /\ UNCHANGED <<files, bounds>>

ReadSlot(p) ==
    /\ proc[p].pc = "read"
    /\ \/ /\ Parse(file[proc[p].file].text) # None
          /\ Answer(p, "loaded", Parse(file[proc[p].file].text))
       \/ Answer(p, "loaded", Fallback)
    /\ UNCHANGED <<files, bounds>>

Holding == {"write", "rename", "unlink"}

(* A process ends at any point; what it held open is closed, its temporary   *)
(* file stays.                                                               *)
StorageCrash(p) ==
    /\ proc[p].pc \notin Answers \cup {"off"} /\ faults < MaxFaults
    /\ proc' = [proc EXCEPT ![p] = Off]
    /\ litter' = litter \cup (IF proc[p].pc \in Holding THEN {TemporaryName(p)} ELSE {})
    /\ faults' = faults + 1
    /\ UNCHANGED <<dir, crashDir, file, folder, calls>>

(* What a power loss may leave: for each name one of its entries, for each   *)
(* file a prefix of its contents that holds what was synced.                 *)
Unsettled == {n \in Names : crashDir[n] # {dir[n]}}
EntriesLeft ==
    {[n \in Names |-> IF n \in Unsettled THEN entry[n] ELSE dir[n]] :
       entry \in {e \in [Unsettled -> UNION {crashDir[n] : n \in Unsettled}] :
                   \A n \in Unsettled : e[n] \in crashDir[n]}}
Unsynced == {f \in Files : file[f].synced # Len(file[f].text)}
Cut(f, n) == [text |-> SubSeq(file[f].text, 1, n), synced |-> n]
ContentsLeft(named) ==
    {[f \in Files |-> IF f \notin named THEN NewFile
                      ELSE IF f \in Unsynced THEN Cut(f, kept[f]) ELSE file[f]] :
       kept \in {k \in [Unsynced \cap named -> UNION {0..Len(file[f].text) : f \in Unsynced}] :
                  \A f \in Unsynced \cap named : k[f] \in file[f].synced .. Len(file[f].text)}}

(* The machine stops: unsynced data and unsynced directory entries may be    *)
(* lost, each on its own.                                                    *)
PowerLoss ==
    /\ faults < MaxFaults
    /\ folder' \in (IF folder = "fresh" THEN {"absent", "kept"} ELSE {folder})
    /\ dir' \in (IF folder' = "absent" THEN {[n \in Names |-> None]} ELSE EntriesLeft)
    /\ crashDir' = [n \in Names |-> {dir'[n]}]
    /\ file' \in ContentsLeft(Range(dir'))
    /\ litter' = {n \in TemporaryNames : dir'[n] # None}
    /\ proc' = [p \in Procs |-> Off]
    /\ faults' = faults + 1
    /\ UNCHANGED calls

StorageStep(p) ==
    \/ StorageStart(p) \/ CallSave(p) \/ OpenDirectory(p) \/ CreateTemporary(p)
    \/ WriteTemporary(p) \/ SyncTemporary(p) \/ RenameTemporary(p) \/ SyncDirectory(p)
    \/ UnlinkTemporary(p) \/ CallLoad(p) \/ OpenSlot(p) \/ ReadSlot(p) \/ StorageCrash(p)

StorageNext == PowerLoss \/ \E p \in Procs : StorageStep(p)

StorageSpec == StorageInit /\ [][StorageNext]_storageVars
-----------------------------------------------------------------------------
Whole(f) == file[f].synced = Len(file[f].text) /\ Parse(file[f].text) \in Values

(* Whatever file a slot names now, or may name after a power loss, holds a   *)
(* complete saved value that is already on disk: write_all, fsync, close and *)
(* rename are in the order that keeps a torn slot from ever being visible.   *)
SlotsNeverTorn ==
    \A s \in Slots : \A f \in crashDir[SlotName(s)] \cup {dir[SlotName(s)]} :
        f = None \/ Whole(f)

(* A save works on a file of its own until its rename or unlink: the name    *)
(* it will rename or unlink still refers to the file it created, also when   *)
(* an earlier process with the same pid died and left temporary files, or a  *)
(* process of another pid namespace has the same pid.  And no error path of  *)
(* crumb_save_i32 forgets a file: every temporary name belongs to a save     *)
(* under way, or was left by a crash, a power loss or a failed unlink.       *)
TemporariesAccountedFor ==
    /\ \A p \in Procs : proc[p].pc \in Holding =>
         /\ dir[TemporaryName(p)] = proc[p].file
         /\ \A n \in Names \ {TemporaryName(p)} : dir[n] # proc[p].file
         /\ \A q \in Procs \ {p} : proc[q].file # proc[p].file
    /\ \A n \in TemporaryNames : dir[n] # None =>
         n \in litter \/ \E p \in Procs : proc[p].pc \in Holding /\ TemporaryName(p) = n

(* The processes implement atomic slots: a slot's value is that of the file  *)
(* its name refers to, a save takes effect at its rename.                    *)
SavedText == [v \in Values |-> Contents(v)]
TextValue(text) == IF \A v \in Values : SavedText[v] # text THEN None
                   ELSE CHOOSE v \in Values : SavedText[v] = text
ValueOf(f) == IF f = None THEN None ELSE TextValue(file[f].text)
OpOf(pc) == CASE pc \in {"off", "ready"} -> "none"
              [] pc \in {"open", "create", "write", "rename", "unlink"} -> "save"
              [] pc = "dirsync" -> "replaced"
              [] pc = "look" -> "load"
              [] pc = "read" -> "looked"
              [] OTHER -> pc
CallOf(p) ==
    [op |-> OpOf(proc[p].pc), slot |-> proc[p].slot,
     value |-> IF proc[p].pc = "read" THEN ValueOf(proc[p].file) ELSE proc[p].value]

SlotCalls == [p \in Procs |-> CallOf(p)]
SlotValues == [s \in Slots |-> ValueOf(dir[SlotName(s)])]
DurableValues == [s \in Slots |-> {ValueOf(f) : f \in crashDir[SlotName(s)]}
                                  \cup (IF folder = "kept" THEN {} ELSE {None})]

Atomic == INSTANCE SaveSlots WITH
    value <- SlotValues, durable <- DurableValues, call <- SlotCalls

(* Saves and loads of several processes, with crashes and power losses,      *)
(* behave as the atomic slots that storage.h promises: last rename wins, a   *)
(* failed save changes nothing, and no other slot is ever affected.          *)
ImplementsSaveSlots == Atomic!SlotsSpec

(* The strengthening that makes both inductive. *)
Saving == {"open", "create", "write", "rename", "unlink", "dirsync"}
CallStates == [pc : Answers \cup Saving \cup {"off", "look", "read"}, slot : Slots \cup {None},
               value : Values \cup {None, Fallback}, attempt : 0..MaxAttempts - 1,
               file : Files \cup {None}, at : Nat, root : BOOLEAN]

StorageTypeOK ==
    /\ proc \in [Procs -> CallStates]
    /\ dir \in [Names -> Files \cup {None}]
    /\ crashDir \in [Names -> SUBSET (Files \cup {None})]
    /\ file \in [Files -> [text : Seq(Nat), synced : Nat]]
    /\ folder \in {"absent", "fresh", "kept"} /\ litter \subseteq TemporaryNames

(* What a call knows at each of its steps. *)
CallShaped(c) ==
    /\ c.pc \in Saving => c.slot \in Slots /\ c.value \in Values
    /\ c.pc \in {"look", "read"} => c.slot \in Slots
    /\ IF c.pc \in Holding \cup {"dirsync", "read"} THEN c.file \in Files ELSE c.file = None
    /\ c.pc \in {"open", "create"} => c.at = 0
    /\ c.pc = "off" => c = Off

(* A file that holds a saved value, all of it on disk. *)
Holds(f, v) == file[f].text = Contents(v) /\ file[f].synced = Len(file[f].text)
Saved(f) == \E v \in Values : Holds(f, v)

(* What a call has written or opened so far. *)
CallContents(p) ==
    /\ proc[p].pc = "write" =>
          /\ proc[p].at <= Len(Contents(proc[p].value))
          /\ file[proc[p].file].text = SubSeq(Contents(proc[p].value), 1, proc[p].at)
    /\ proc[p].pc = "rename" => Holds(proc[p].file, proc[p].value)
    /\ proc[p].pc = "read" => Saved(proc[p].file)

(* Nobody else can reach the file of a save under way, not even after a      *)
(* power loss.                                                               *)
OwnsFile(p) ==
    proc[p].pc \in Holding =>
        /\ dir[TemporaryName(p)] = proc[p].file
        /\ \A n \in Names \ {TemporaryName(p)} : proc[p].file \notin crashDir[n]
        /\ \A q \in Procs \ {p} : proc[q].file # proc[p].file

SlotsHoldValues ==
    \A s \in Slots : \A f \in crashDir[SlotName(s)] : f = None \/ Saved(f)

TemporariesKnown ==
    \A n \in TemporaryNames : dir[n] # None =>
        n \in litter \/ \E p \in Procs : proc[p].pc \in Holding /\ TemporaryName(p) = n

StorageInv ==
    /\ StorageTypeOK
    /\ \A p \in Procs : CallShaped(proc[p]) /\ CallContents(p) /\ OwnsFile(p)
    /\ \A n \in Names : dir[n] \in crashDir[n]
    /\ SlotsHoldValues /\ TemporariesKnown
=============================================================================
