--------------------------- MODULE ConstantSchedule ---------------------------
(* The scheduler of constant initializers (ConstantCache in                  *)
(* src/sema/constants/dependencies.rs), lookup by lookup: an initializer     *)
(* that needs a constant without a value is suspended until that one is      *)
(* known, and a failure is everybody's who waits.  A value is abstracted to  *)
(* its being known, an initializer to the names it looks up, in order: those *)
(* in the lengths of its type and those in its expression, up to where it    *)
(* fails by itself if it does.                                               *)
EXTENDS Reachability

CONSTANT UseGraphs   \* what the initializers of the programs look up
(* Names that are not declared, or that the language predefines, are names   *)
(* too; they look nothing up.                                                *)
IsUseGraph(g) == \A c \in DOMAIN g : g[c] \in Seq(DOMAIN g)
ASSUME UseGraphAssumption == \A g \in UseGraphs : IsUseGraph(g)

VARIABLES uses,         \* name -> what its initializer looks up
          predefined,   \* the builtin constants
          declared,
          faulty,       \* whose initializers fail although all they use is known
          values,       \* names with a value
          failures,     \* names that are known to have none
          awaiting      \* pending: the suspended initializers, the running one last

scheduleVars == <<uses, predefined, declared, faulty, values, failures, awaiting>>
declarations == <<uses, predefined, declared, faulty>>

ConstantNames == DOMAIN uses
Initializer(c, at) == [name |-> c, at |-> at]
Innermost == awaiting[Len(awaiting)]
Awaited == {awaiting[k].name : k \in DOMAIN awaiting}

ScheduleInit ==
    /\ uses \in UseGraphs
    /\ predefined \in SUBSET ConstantNames /\ declared \in SUBSET ConstantNames /\ faulty \in SUBSET declared
    /\ \A c \in ConstantNames : c \in predefined \/ c \notin declared => uses[c] = <<>>
    /\ values = predefined /\ failures = {} /\ awaiting = <<>>
-----------------------------------------------------------------------------
(* A length or an expression anywhere in the program needs the constant; one *)
(* that is known is not evaluated again.                                     *)
DemandConstant ==
    /\ awaiting = <<>>
    /\ \E c \in ConstantNames \ (values \cup failures) : awaiting' = <<Initializer(c, 1)>>
    /\ UNCHANGED <<declarations, values, failures>>

(* The running initializer's next lookup. *)
LooksUp(c) ==
    /\ awaiting # <<>> /\ Innermost.name \in declared
    /\ Innermost.at \in DOMAIN uses[Innermost.name] /\ c = uses[Innermost.name][Innermost.at]

UseValue ==
    /\ \E c \in values : LooksUp(c)
    /\ awaiting' = Append(Popped(awaiting), Initializer(Innermost.name, Innermost.at + 1))
    /\ UNCHANGED <<declarations, values, failures>>

Suspend ==
    /\ \E c \in ConstantNames \ (values \cup failures \cup Awaited) :
          LooksUp(c) /\ awaiting' = Append(awaiting, Initializer(c, 1))
    /\ UNCHANGED <<declarations, values, failures>>

(* Deviation: the last lookup is left out. *)
RanPastLast == awaiting # <<>> /\ Innermost.name \in declared /\ Innermost.at >= Len(uses[Innermost.name])
RanToEnd == awaiting # <<>> /\ Innermost.name \in declared /\ Innermost.at \notin DOMAIN uses[Innermost.name]

(* The one that waits for it goes on with the lookup it was suspended at. *)
InitializerEnds ==
    /\ RanToEnd /\ Innermost.name \notin faulty
    /\ values' = values \cup {Innermost.name} /\ awaiting' = Popped(awaiting)
    /\ UNCHANGED <<declarations, failures>>
-----------------------------------------------------------------------------
(* Every suspended initializer depends on the failure. *)
FailAll ==
    /\ failures' = failures \cup Awaited /\ awaiting' = <<>>
    /\ UNCHANGED <<declarations, values>>

UnknownConstant == awaiting # <<>> /\ Innermost.name \notin declared /\ FailAll
UseFailed == (\E c \in failures \ values : LooksUp(c)) /\ FailAll
UseCycles == (\E c \in Awaited \ (values \cup failures) : LooksUp(c)) /\ FailAll
InitializerFails == RanToEnd /\ Innermost.name \in faulty /\ FailAll

ScheduleNext ==
    \/ DemandConstant \/ UseValue \/ Suspend \/ InitializerEnds
    \/ UnknownConstant \/ UseFailed \/ UseCycles \/ InitializerFails

ScheduleSpec == ScheduleInit /\ [][ScheduleNext]_scheduleVars
-----------------------------------------------------------------------------
(* ConstantsSettle: whatever is demanded first, what is known of a constant  *)
(* is what the declarations say: it fails iff something without a value is   *)
(* somewhere under it: an unknown name, an initializer that fails by itself, *)
(* or a constant that needs itself.                                          *)
Hopeless(c) == c \notin predefined /\ (c \notin declared \/ c \in faulty \/ OnCycle(uses, c))
NeedsHopeless(c) == \E g \in ConstantNames : Hopeless(g) /\ Reaches(uses, c, g)
ConstantsSettle ==
    /\ values \cap failures = {}
    /\ \A c \in values \cup failures : c \in failures <=> NeedsHopeless(c)

(* What makes it inductive. *)
Initializers == [name : ConstantNames, at : Nat \ {0}]
ScheduleTypeOK ==
    /\ IsUseGraph(uses) /\ predefined \subseteq ConstantNames
    /\ values \subseteq ConstantNames /\ failures \subseteq ConstantNames
    /\ awaiting \in Seq(Initializers)

(* A value rests on values only. *)
ValuesStand ==
    /\ predefined \subseteq values
    /\ \A c \in values : Range(uses[c]) \subseteq values /\ ~Hopeless(c)
FailuresForReason == \A c \in failures : NeedsHopeless(c)

(* Each suspended initializer needs those above it, and all that it has      *)
(* looked up has a value.                                                    *)
AwaitingOnce == \A k, l \in DOMAIN awaiting : awaiting[k].name = awaiting[l].name => k = l
AwaitingDescends ==
    \A k, l \in DOMAIN awaiting : k <= l => Reaches(uses, awaiting[k].name, awaiting[l].name)
LookedUp ==
    \A k \in DOMAIN awaiting : \A e \in DOMAIN uses[awaiting[k].name] :
        e < awaiting[k].at => uses[awaiting[k].name][e] \in values
AwaitingUnknown == Awaited \cap (values \cup failures) = {} /\ values \cap failures = {}

ScheduleInv ==
    /\ ScheduleTypeOK /\ ValuesStand /\ FailuresForReason
    /\ AwaitingOnce /\ AwaitingDescends /\ LookedUp /\ AwaitingUnknown
=============================================================================
