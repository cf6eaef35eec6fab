------------------------------ MODULE Compiler ------------------------------
(* The compiler from the files of a program to the run of its code:          *)
(* analyze_path (src/checked.rs) loads and validates, emit generates code,   *)
(* and the game's start block runs on an abstract LLVM machine.              *)
EXTENDS Modules, Language

(* The phases are parameters, given by the configuration as LoadModules,     *)
(* Check and EmitProgram: TLC's coverage then counts an action that runs a   *)
(* phase once and does not unfold the phase at every place it is used.       *)
CONSTANTS Entry,          \* the path of the entry file
          Loading(_, _),  \* disk, entry -> the flattened program
          Checking(_),    \* flattened program -> validated program
          Emitting(_)     \* validated program -> code

VARIABLES disk,      \* the files
          stage,     \* "files" | "loaded" | "checked" | "emitted" | "ran" | "rejected"
          loaded,    \* the flattened program and its sources
          checked,   \* the validated program
          code,      \* the emitted functions and initial memory
          outcome    \* what the run did

compilerVars == <<disk, stage, loaded, checked, code, outcome>>

LoadPath ==
    /\ stage = "files"
    /\ loaded' = Loading(disk, Entry)
    /\ stage' = IF loaded'.ok THEN "loaded" ELSE "rejected"
    /\ UNCHANGED <<disk, checked, code, outcome>>

Validate ==
    /\ stage = "loaded"
    /\ checked' = Checking(loaded.program)
    /\ stage' = IF checked'.ok THEN "checked" ELSE "rejected"
    /\ UNCHANGED <<disk, loaded, code, outcome>>

EmitCode ==
    /\ stage = "checked"
    /\ code' = Emitting(checked)
    /\ stage' = "emitted"
    /\ UNCHANGED <<disk, loaded, checked, outcome>>

(* External: the runtime calls spk_start. *)
RunStart ==
    /\ stage = "emitted"
    /\ outcome' = RunProgram(code, <<"start">>)
    /\ stage' = "ran"
    /\ UNCHANGED <<disk, loaded, checked, code>>

CompilerNext == LoadPath \/ Validate \/ EmitCode \/ RunStart
=============================================================================
