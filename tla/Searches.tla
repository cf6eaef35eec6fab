------------------------------- MODULE Searches -------------------------------
(* The compiler's searches together.  They share nothing: files are walked   *)
(* before anything is analyzed, the constants in lengths are settled before  *)
(* the graph of structs is searched, and each runs to its end alone.         *)
EXTENDS StructSearch, ConstantSchedule, ImportWalk

(* SearchesAreExact: each loop finds what a definition without a search says:*)
(* the structs that contain themselves and those of unknown length (the two  *)
(* passes of recursive_members and the spread after them), the constants     *)
(* without a value (ConstantCache::evaluate), and the programs with a chain  *)
(* of imports over the limit or with an unsound file (Loader::visit).        *)
SearchesAreExact == SearchIsExact /\ ConstantsSettle /\ WalkIsExact
=============================================================================
