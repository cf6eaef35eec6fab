------------------------------ MODULE ImportWalk ------------------------------
(* The walk over a program's files (Loader::visit in src/modules.rs), import *)
(* by import.  Files are canonical paths; an import that cannot lead to one, *)
(* or that repeats an alias, is refused where it stands.                     *)
EXTENDS Reachability

CONSTANTS ImportGraphs,   \* which files the files of the programs import, in order
          EntryFile,
          MaxDepth        \* MAX_IMPORT_DEPTH
ASSUME WalkAssumption ==
    /\ MaxDepth \in Nat \ {0}
    /\ \A g \in ImportGraphs : EntryFile \in DOMAIN g /\ \A f \in DOMAIN g : g[f] \in Seq(DOMAIN g)

VARIABLES importGraph,
          broken,    \* files that cannot be read, or whose imports cannot be parsed
          refused,   \* imports, as <<file, position>>, that are errors by themselves
          opened,    \* the files of modules (and identities), in order
          heights,   \* of the modules that are finished: the longest chain of imports
          visits,    \* the calls of visit, by the import that each has got to (active)
          verdict    \* "loading", "read", "failed"

walkVars == <<importGraph, broken, refused, opened, heights, visits, verdict>>
walkInput == <<importGraph, broken, refused>>

Files == DOMAIN importGraph
Finished == DOMAIN heights
Active == {visits[k].file : k \in DOMAIN visits}
VisitAt(f, next) == [file |-> f, next |-> next]
Caller == visits[Len(visits)]
AtImport == visits # <<>> /\ Caller.next \in DOMAIN importGraph[Caller.file]

WalkInit ==
    /\ importGraph \in ImportGraphs
    /\ broken \in SUBSET Files
    /\ refused \in SUBSET UNION {{f} \X DOMAIN importGraph[f] : f \in Files}
    /\ opened = <<>> /\ heights = <<>> /\ visits = <<>> /\ verdict = "loading"
-----------------------------------------------------------------------------
(* visit is called for a file: the entry file, or what the next import names.*)
Visiting(f) ==
    /\ verdict = "loading"
    /\ \/ opened = <<>> /\ f = EntryFile
       \/ AtImport /\ <<Caller.file, Caller.next>> \notin refused /\ f = importGraph[Caller.file][Caller.next]

(* Deviation: a file that is loaded counts for itself only. *)
FlatHeight(f) == 1
KnownHeightOf(f) == IF f \in Finished THEN heights[f] ELSE 1
ExceedsDepth(f) == Len(visits) + KnownHeightOf(f) > MaxDepth

(* The loop over the imports of the caller goes on. *)
Onward == Append(Popped(visits), VisitAt(Caller.file, Caller.next + 1))

VisitLoaded ==
    /\ \E f \in Range(opened) \ Active : Visiting(f) /\ ~ExceedsDepth(f)
    /\ visits' = Onward
    /\ UNCHANGED <<walkInput, opened, heights, verdict>>

VisitNew ==
    /\ \E f \in Files \ (Range(opened) \cup broken) :
          /\ Visiting(f) /\ ~ExceedsDepth(f)
          /\ opened' = Append(opened, f) /\ visits' = Append(visits, VisitAt(f, 1))
    /\ UNCHANGED <<walkInput, heights, verdict>>

(* All imports are done: one more than the highest of them. *)
HeightAbove(f, h) ==
    /\ \A t \in Range(importGraph[f]) : heights[t] < h
    /\ h = 1 \/ \E t \in Range(importGraph[f]) : h = heights[t] + 1

FinishModule ==
    /\ verdict = "loading" /\ visits # <<>> /\ ~AtImport
    /\ \E h \in {1} \cup {heights[t] + 1 : t \in Finished} :
          /\ HeightAbove(Caller.file, h)
          /\ heights' = [f \in Finished \cup {Caller.file} |-> IF f = Caller.file THEN h ELSE heights[f]]
    /\ LET callers == Popped(visits)
           last == callers[Len(callers)]
       IN  IF callers = <<>> THEN visits' = <<>> /\ verdict' = "read"
           ELSE visits' = Append(Popped(callers), VisitAt(last.file, last.next + 1)) /\ UNCHANGED verdict
    /\ UNCHANGED <<walkInput, opened>>
-----------------------------------------------------------------------------
(* An error is every caller's. *)
WalkFails == verdict' = "failed" /\ UNCHANGED <<walkInput, opened, heights, visits>>

RefuseImport ==
    /\ verdict = "loading" /\ AtImport /\ <<Caller.file, Caller.next>> \in refused
    /\ WalkFails
VisitCycle == (\E f \in Active : Visiting(f)) /\ WalkFails
VisitTooDeep == (\E f \in Files \ Active : Visiting(f) /\ ExceedsDepth(f)) /\ WalkFails
VisitBroken == (\E f \in broken \ Range(opened) : Visiting(f) /\ ~ExceedsDepth(f)) /\ WalkFails

WalkNext ==
    \/ VisitLoaded \/ VisitNew \/ FinishModule
    \/ RefuseImport \/ VisitCycle \/ VisitTooDeep \/ VisitBroken

WalkSpec == WalkInit /\ [][WalkNext]_walkVars
-----------------------------------------------------------------------------
(* WalkIsExact: in whatever order files import each other, the walk accepts  *)
(* exactly the programs in which no chain of imports, from the entry file,   *)
(* is longer than the limit (so none is a cycle) and every file that is      *)
(* reached is sound; then these files are the modules, each of them once.    *)
Follows(c, n) == \A k \in 1..n - 1 : c[k + 1] \in Range(importGraph[c[k]])
ChainOf(f, n) == \E c \in [1..n -> Files] : c[1] = f /\ Follows(c, n)
IsReached(f) == Reaches(importGraph, EntryFile, f)
Unsound(f) == f \in broken \/ \E e \in DOMAIN importGraph[f] : <<f, e>> \in refused
Unreadable == ChainOf(EntryFile, MaxDepth + 1) \/ \E f \in Files : IsReached(f) /\ Unsound(f)
Injective(s) == \A i, j \in DOMAIN s : s[i] = s[j] => i = j
WalkIsExact ==
    /\ verdict = "failed" => Unreadable
    /\ verdict = "read" => /\ ~Unreadable
                           /\ Range(opened) = {f \in Files : IsReached(f)} /\ Injective(opened)

(* What makes it inductive. *)
Visits == [file : Files, next : Nat \ {0}]
WalkTypeOK ==
    /\ \A f \in Files : importGraph[f] \in Seq(Files)
    /\ EntryFile \in Files /\ verdict \in {"loading", "read", "failed"}
    /\ opened \in Seq(Files) /\ visits \in Seq(Visits)
    /\ Finished \subseteq Files /\ heights \in [Finished -> Nat \ {0}]

(* A module is finished or being visited, not both: what is known already    *)
(* and is not on a cycle has a height.                                       *)
OpenedOnce ==
    /\ Injective(opened) /\ Range(opened) = Active \cup Finished /\ Active \cap Finished = {}
    /\ \A f \in Range(opened) : IsReached(f)
    /\ \A k, l \in DOMAIN visits : visits[k].file = visits[l].file => k = l

(* Finished files are sound, and so is all that they import; a height is the *)
(* length of some chain, and less than that of any importer.                 *)
Imported(f, e) == <<f, e>> \notin refused /\ importGraph[f][e] \in Finished
FinishedSound ==
    \A f \in Finished :
        /\ f \notin broken /\ ChainOf(f, heights[f])
        /\ \A e \in DOMAIN importGraph[f] : Imported(f, e) /\ heights[importGraph[f][e]] < heights[f]

(* The calls are a chain of imports; those that a call is done with are as   *)
(* high as the limit allows at its depth.                                    *)
VisitsSound ==
    /\ visits # <<>> => visits[1].file = EntryFile /\ Len(visits) <= MaxDepth
    /\ \A k \in DOMAIN visits :
          /\ visits[k].file \notin broken
          /\ \A e \in DOMAIN importGraph[visits[k].file] :
                e < visits[k].next =>
                   Imported(visits[k].file, e) /\ k + heights[importGraph[visits[k].file][e]] <= MaxDepth
          /\ k + 1 \in DOMAIN visits =>
                /\ visits[k].next \in DOMAIN importGraph[visits[k].file]
                /\ <<visits[k].file, visits[k].next>> \notin refused
                /\ importGraph[visits[k].file][visits[k].next] = visits[k + 1].file

WalkInv ==
    /\ WalkTypeOK
    /\ verdict = "failed" => Unreadable
    /\ verdict # "failed" => OpenedOnce /\ FinishedSound /\ VisitsSound
    /\ verdict = "loading" => (visits = <<>> <=> opened = <<>>)
    /\ verdict = "read" => /\ visits = <<>> /\ EntryFile \in Finished /\ heights[EntryFile] <= MaxDepth
=============================================================================
