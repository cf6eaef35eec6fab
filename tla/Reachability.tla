---------------------------- MODULE Reachability ----------------------------
(* What a declaration or a file leads to, in any number of steps: what the   *)
(* hand-written searches of the compiler are to find out, stated without a   *)
(* search.  g maps a node to the sequence of those it names directly.        *)
EXTENDS Naturals, Sequences, Functions

IsGraph(g) == \A i \in DOMAIN g : Range(g[i]) \subseteq DOMAIN g

(* Every closed set of nodes with i in it has j in it too. *)
Closed(g, S) == \A i \in S : Range(g[i]) \subseteq S
Reaches(g, i, j) == \A S \in SUBSET DOMAIN g : i \in S /\ Closed(g, S) => j \in S

OnCycle(g, i) == \E j \in Range(g[i]) : Reaches(g, j, i)

(* The searches keep their stacks in vectors. *)
Popped(s) == SubSeq(s, 1, Len(s) - 1)
=============================================================================
