----------------------------- MODULE StructSearch -----------------------------
(* The search of the struct graph (StructTypeAnalysis::new and               *)
(* recursive_members in src/sema/struct_graph.rs), loop iteration by loop    *)
(* iteration: a depth-first pass that lists the structs as they are          *)
(* finished, a pass over the reversed graph from the last finished to the    *)
(* first that collects components, and the spread of invalid array lengths.  *)
(* The order in which the vectors `pending' and `component' hold their       *)
(* elements decides nothing, so they are sets; `pending.pop()' takes any.    *)
EXTENDS Reachability, FiniteSets

CONSTANT Graphs   \* the graphs of the programs that are analyzed
(* Structs by position, in the order of their declarations: the structs of   *)
(* each one's fields, by theirs.                                             *)
IsStructGraph(g) == g \in Seq(Seq(Nat)) /\ IsGraph(g)
ASSUME GraphAssumption == \A g \in Graphs : IsStructGraph(g)

NoRoot == 0       \* positions begin at 1

VARIABLES graph,      \* dependencies
          wrong,      \* structs with an array length of their own that is invalid
          phase,      \* "order", "components", "lengths", "done"
          visited,
          stack,      \* frames of the first pass: a node and its next edge
          finished,   \* nodes in the order in which the first pass left them
          root,       \* the root of the component that is collected
          pending,
          component,
          recursive,  \* structs to be reported
          invalid     \* structs whose type cannot be resolved

searchVars == <<graph, wrong, phase, visited, stack, finished, root, pending, component, recursive, invalid>>
input == <<graph, wrong>>

Nodes == DOMAIN graph
(* Deviation: the second pass follows the same edges as the first. *)
Contained(i) == Range(graph[i])
Containers(i) == {j \in Nodes : i \in Range(graph[j])}
FrameOf(node, edge) == [node |-> node, edge |-> edge]
Top == stack[Len(stack)]

SearchInit ==
    /\ graph \in Graphs /\ wrong \in SUBSET Nodes
    /\ phase = "order" /\ visited = {} /\ stack = <<>> /\ finished = <<>>
    /\ root = NoRoot /\ pending = {} /\ component = {} /\ recursive = {}
    /\ invalid = wrong
-----------------------------------------------------------------------------
(* First pass. *)
ordering == <<root, pending, component, recursive, invalid>>

(* The next root that no earlier root has led to. *)
StartRoot ==
    /\ phase = "order" /\ stack = <<>>
    /\ \E r \in Nodes \ visited :
          /\ \A i \in Nodes \ visited : r <= i
          /\ visited' = visited \cup {r} /\ stack' = <<FrameOf(r, 1)>>
    /\ UNCHANGED <<input, phase, finished, ordering>>

(* The frame's next edge is taken; a node met for the first time is entered. *)
FollowEdge ==
    /\ phase = "order" /\ stack # <<>> /\ Top.edge <= Len(graph[Top.node])
    /\ LET dependency == graph[Top.node][Top.edge]
           advanced == Append(Popped(stack), FrameOf(Top.node, Top.edge + 1))
       IN  /\ stack' = IF dependency \in visited THEN advanced ELSE Append(advanced, FrameOf(dependency, 1))
           /\ visited' = visited \cup {dependency}
    /\ UNCHANGED <<input, phase, finished, ordering>>

FinishNode ==
    /\ phase = "order" /\ stack # <<>> /\ Top.edge > Len(graph[Top.node])
    /\ finished' = Append(finished, Top.node) /\ stack' = Popped(stack)
    /\ UNCHANGED <<input, phase, visited, ordering>>

OrderEnds ==
    /\ phase = "order" /\ stack = <<>> /\ Nodes \subseteq visited
    /\ phase' = "components" /\ visited' = {}
    /\ UNCHANGED <<input, stack, finished, ordering>>
-----------------------------------------------------------------------------
(* Second pass. *)
collecting == <<input, stack, invalid>>

SkipRoot ==
    /\ phase = "components" /\ root = NoRoot /\ finished # <<>>
    /\ finished[Len(finished)] \in visited
    /\ finished' = Popped(finished)
    /\ UNCHANGED <<collecting, phase, visited, root, pending, component, recursive>>

BeginComponent ==
    /\ phase = "components" /\ root = NoRoot /\ finished # <<>>
    /\ finished[Len(finished)] \notin visited
    /\ root' = finished[Len(finished)] /\ finished' = Popped(finished)
    /\ visited' = visited \cup {root'} /\ pending' = {root'} /\ component' = {}
    /\ UNCHANGED <<collecting, phase, recursive>>

(* One node joins the component; what contains it will, if it is not         *)
(* visited already.                                                          *)
Gather ==
    /\ phase = "components" /\ root # NoRoot
    /\ \E node \in pending :
          LET found == Containers(node) \ visited IN
          /\ component' = component \cup {node}
          /\ pending' = (pending \ {node}) \cup found
          /\ visited' = visited \cup found
    /\ UNCHANGED <<collecting, phase, finished, root, recursive>>

(* A component of several structs, or of one that contains itself directly. *)
EndComponent ==
    /\ phase = "components" /\ root # NoRoot /\ pending = {}
    /\ recursive' = IF Cardinality(component) > 1 \/ root \in Range(graph[root])
                    THEN recursive \cup component ELSE recursive
    /\ root' = NoRoot
    /\ UNCHANGED <<collecting, phase, visited, finished, pending, component>>

(* The recursive structs are reported; then the lengths. *)
ComponentsEnd ==
    /\ phase = "components" /\ root = NoRoot /\ finished = <<>>
    /\ phase' = "lengths" /\ pending' = invalid
    /\ UNCHANGED <<collecting, visited, finished, root, component, recursive>>
-----------------------------------------------------------------------------
(* Every struct that contains an invalid one is invalid. *)
Spread ==
    /\ phase = "lengths"
    /\ \E node \in pending :
          LET found == Containers(node) \ invalid IN
          /\ pending' = (pending \ {node}) \cup found
          /\ invalid' = invalid \cup found
    /\ UNCHANGED <<input, phase, visited, stack, finished, root, component, recursive>>

SearchEnds ==
    /\ phase = "lengths" /\ pending = {}
    /\ phase' = "done"
    /\ UNCHANGED <<input, visited, stack, finished, root, pending, component, recursive, invalid>>

SearchNext ==
    \/ StartRoot \/ FollowEdge \/ FinishNode \/ OrderEnds
    \/ SkipRoot \/ BeginComponent \/ Gather \/ EndComponent \/ ComponentsEnd
    \/ Spread \/ SearchEnds

SearchSpec == SearchInit /\ [][SearchNext]_searchVars
-----------------------------------------------------------------------------
(* SearchIsExact: the structs reported as recursive are those that contain   *)
(* themselves, not those that merely contain one of them; and a type is      *)
(* unresolved iff a struct with an invalid length is somewhere inside it.    *)
SearchIsExact ==
    /\ phase \in {"lengths", "done"} => recursive = {i \in Nodes : OnCycle(graph, i)}
    /\ phase = "done" => invalid = {i \in Nodes : \E j \in wrong : Reaches(graph, i, j)}

(* What makes it inductive. *)
Mutual(i, j) == Reaches(graph, i, j) /\ Reaches(graph, j, i)
OnStack == {stack[k].node : k \in DOMAIN stack}
Frames == [node : Nodes, edge : Nat \ {0}]

SearchTypeOK ==
    /\ IsStructGraph(graph) /\ wrong \subseteq Nodes
    /\ phase \in {"order", "components", "lengths", "done"}
    /\ visited \subseteq Nodes /\ pending \subseteq Nodes /\ component \subseteq Nodes
    /\ recursive \subseteq Nodes /\ invalid \subseteq Nodes
    /\ stack \in Seq(Frames) /\ finished \in Seq(Nodes) /\ root \in Nodes \cup {NoRoot}

(* The first pass: finished nodes have led to visited nodes only, as have    *)
(* the edges that a frame is done with; each frame is inside those below it. *)
NodeOnce ==
    /\ \A h, l \in DOMAIN finished : finished[h] = finished[l] => h = l
    /\ \A h, l \in DOMAIN stack : stack[h].node = stack[l].node => h = l
    /\ OnStack \cap Range(finished) = {}
EdgesFollowed ==
    /\ visited = OnStack \cup Range(finished)
    /\ \A i \in Range(finished) : Range(graph[i]) \subseteq visited
    /\ \A k \in DOMAIN stack : \A e \in DOMAIN graph[stack[k].node] :
          e < stack[k].edge => graph[stack[k].node][e] \in visited
StackDescends ==
    \A k, l \in DOMAIN stack : k <= l => Reaches(graph, stack[k].node, stack[l].node)

(* What the first pass is for: a node whose edge leads into the component of *)
(* a node that finishes later belongs to that component itself.              *)
Before(h) == {finished[l] : l \in 1..h}
FinishedLast ==
    \A h \in DOMAIN finished : \A later \in Nodes \ Before(h) : \A next \in Range(graph[finished[h]]) :
        Mutual(next, later) => Reaches(graph, later, finished[h])

(* The second pass: whole components are judged, one is being collected.     *)
Collected == IF root = NoRoot THEN {} ELSE component \cup pending
Judged == visited \ Collected
ComponentsWhole ==
    /\ Nodes \ Range(finished) \subseteq visited
    /\ \A i \in Judged : \A j \in Nodes : Mutual(i, j) => j \in Judged
    /\ recursive = {i \in Judged : OnCycle(graph, i)}
CollectingRoot ==
    root # NoRoot =>
        /\ root \in Collected /\ root \notin Range(finished)
        /\ Collected \subseteq visited
        /\ \A i \in Collected : Mutual(root, i)
        /\ \A i \in component : Containers(i) \subseteq visited

(* The lengths: everything invalid has a reason, and all that contains what  *)
(* has been looked at is invalid.                                            *)
InvalidForReason ==
    /\ wrong \subseteq invalid
    /\ \A i \in invalid : \E j \in wrong : Reaches(graph, i, j)

SearchInv ==
    /\ SearchTypeOK
    /\ phase = "order" => /\ NodeOnce /\ EdgesFollowed /\ StackDescends /\ FinishedLast
                          /\ root = NoRoot /\ recursive = {}
    /\ phase = "components" => /\ NodeOnce /\ FinishedLast /\ ComponentsWhole /\ CollectingRoot
                               /\ stack = <<>>
    /\ phase \in {"lengths", "done"} => recursive = {i \in Nodes : OnCycle(graph, i)}
    /\ InvalidForReason
    /\ phase = "lengths" => /\ pending \subseteq invalid
                            /\ \A i \in invalid \ pending : Containers(i) \subseteq invalid
    /\ phase = "done" => \A i \in invalid : Containers(i) \subseteq invalid
=============================================================================
