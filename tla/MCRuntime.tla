------------------------------ MODULE MCRuntime ------------------------------
(* The services of the runtime on small instances.  They share no state, so  *)
(* each is explored while the others rest in one initial state: focus says   *)
(* which one a behaviour is about.                                           *)
EXTENDS SlotText, Audio, Framebuffer, FramePacing

VARIABLE focus

runtimeVars == <<storageVars, audioVars, drawVars, paceVars, textVars, focus>>

SavedValues == {8, 1}
SamePid == [p \in Procs |-> 1]
RingSizes == [effects |-> 2, sounds |-> 3]
ProcSymmetry == Permutations(Procs)

(* Short texts of the characters that matter. *)
ShortTexts == UNION {[1..n -> {Header, Minus, Newline, 0, 1, 2, 8}] : n \in 0..5}

Init ==
    /\ focus \in {"storage", "text", "audio", "drawing", "pacing"}
    /\ StorageInit /\ AudioInit /\ DrawInit /\ PaceInit /\ TextInit
    /\ focus # "text" => slotText = <<>>
    /\ focus # "storage" => folder = "absent"
    /\ focus # "pacing" => now = 0

resting == <<focus, textVars>>
Next ==
    \/ focus = "storage" /\ StorageNext /\ UNCHANGED <<audioVars, drawVars, paceVars, resting>>
    \/ focus = "audio" /\ AudioNext /\ UNCHANGED <<storageVars, drawVars, paceVars, resting>>
    \/ focus = "drawing" /\ DrawNext /\ UNCHANGED <<storageVars, audioVars, paceVars, resting>>
    \/ focus = "pacing" /\ PaceNext /\ UNCHANGED <<storageVars, audioVars, drawVars, resting>>

Spec == Init /\ [][Next]_runtimeVars
=============================================================================
