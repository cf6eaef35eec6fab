---------------------------- MODULE Searches_proofs ----------------------------
(* TLAPS proofs of the compiler's searches, for programs of any size: every  *)
(* graph of structs, every dependency between constants demanded in any      *)
(* order, and all files however they import each other, for any limit.       *)
EXTENDS Searches, TLAPS, FiniteSetTheorems, SequenceTheorems, WellFoundedInduction

(* Reachability. *)

\* Everything reaches itself.
LEMMA ReachesSelf == ASSUME NEW g, NEW i PROVE Reaches(g, i, i)
  BY DEF Reaches

\* What is reached from something reached is reached.
LEMMA ReachesOn ==
    ASSUME NEW g, NEW i, NEW j, NEW k, Reaches(g, i, j), Reaches(g, j, k)
    PROVE  Reaches(g, i, k)
  BY DEF Reaches

\* A next node is reached.
LEMMA ReachesNext ==
    ASSUME NEW g, NEW i, NEW j \in Range(g[i])
    PROVE  Reaches(g, i, j)
  BY DEF Reaches, Closed

\* Whatever else is reached is reached from a next node.
LEMMA ReachesByNext ==
    ASSUME NEW g, IsGraph(g), NEW i \in DOMAIN g, NEW j, i # j, Reaches(g, i, j)
    PROVE  \E k \in Range(g[i]) : Reaches(g, k, j)
  <1> DEFINE S == {i} \cup {x \in DOMAIN g : \E k \in Range(g[i]) : Reaches(g, k, x)}
  <1>1. ASSUME NEW x \in S PROVE Range(g[x]) \subseteq S
    <2>1. SUFFICES ASSUME NEW y \in Range(g[x]) PROVE y \in S
      OBVIOUS
    <2>2. x \in DOMAIN g /\ y \in DOMAIN g
      BY <1>1, <2>1 DEF IsGraph
    <2>3. CASE x = i
      BY <2>1, <2>2, <2>3, ReachesSelf
    <2>4. CASE x # i
      <3>1. PICK k \in Range(g[i]) : Reaches(g, k, x)
        BY <1>1, <2>4
      <3>2. Reaches(g, k, y)
        BY <3>1, <2>1, ReachesNext, ReachesOn
      <3> QED
        BY <3>2, <2>2
    <2> QED
      BY <2>3, <2>4
  <1>2. S \in SUBSET DOMAIN g /\ i \in S /\ Closed(g, S)
    BY <1>1 DEF Closed
  <1>3. j \in S
    BY <1>2 DEF Reaches
  <1> QED
    BY <1>3

(* Sequences. *)

\* What an appended element changes.
LEMMA Appended ==
    ASSUME NEW S, NEW s \in Seq(S), NEW e \in S
    PROVE  /\ Append(s, e) \in Seq(S) /\ Len(Append(s, e)) = Len(s) + 1 /\ Append(s, e) # <<>>
           /\ DOMAIN Append(s, e) = 1..Len(s) + 1 /\ DOMAIN s = 1..Len(s) /\ Len(s) \in Nat
           /\ \A k \in 1..Len(s) : Append(s, e)[k] = s[k]
           /\ Append(s, e)[Len(s) + 1] = e
           /\ Range(Append(s, e)) = Range(s) \cup {e}
  <1> DEFINE t == Append(s, e)
             n == Len(s)
  <1>1. /\ t \in Seq(S) /\ Len(t) = n + 1 /\ t # <<>>
        /\ DOMAIN t = 1..n + 1 /\ DOMAIN s = 1..n /\ n \in Nat
        /\ \A k \in 1..n : t[k] = s[k]
        /\ t[n + 1] = e
    OBVIOUS
  <1> HIDE DEF t, n
  <1>2. Range(t) \subseteq Range(s) \cup {e}
    BY <1>1 DEF Range
  <1>3. Range(s) \cup {e} \subseteq Range(t)
    BY <1>1 DEF Range
  <1> QED
    BY <1>1, <1>2, <1>3 DEF t, n

\* What is left without the last element.
LEMMA PoppedIsFront ==
    ASSUME NEW S, NEW s \in Seq(S), s # <<>>
    PROVE  /\ Popped(s) \in Seq(S) /\ Len(s) \in Nat \ {0} /\ Len(Popped(s)) = Len(s) - 1
           /\ DOMAIN Popped(s) = 1..Len(s) - 1 /\ DOMAIN s = 1..Len(s)
           /\ \A k \in 1..Len(s) - 1 : Popped(s)[k] = s[k]
           /\ s[Len(s)] \in S
           /\ Range(s) = Range(Popped(s)) \cup {s[Len(s)]}
  <1> DEFINE t == Popped(s)
             n == Len(s)
             last == s[Len(s)]
  <1>1. n \in Nat \ {0} /\ DOMAIN s = 1..n /\ last \in S /\ \A k \in 1..n : s[k] \in S
    OBVIOUS
  <1>2. \A k \in 1..n - 1 : s[k] \in S
    BY <1>1
  <1>3. /\ t \in Seq(S) /\ Len(t) = IF 1 <= n - 1 THEN (n - 1) - 1 + 1 ELSE 0
        /\ \A k \in 1..(n - 1) - 1 + 1 : t[k] = s[1 + k - 1]
    <2>1. 1 \in Int /\ n - 1 \in Int
      BY <1>1
    <2> HIDE DEF n
    <2> QED
      BY <1>2, <2>1, SubSeqProperties DEF Popped, n
  <1>7. s[n] = last
    OBVIOUS
  <1> HIDE DEF t, n, last
  <1>4. Len(t) = n - 1
    BY <1>1, <1>3
  <1>5. t \in Seq(S) /\ DOMAIN t = 1..n - 1
    BY <1>3, <1>4
  <1>6. \A k \in 1..n - 1 : t[k] = s[k]
    BY <1>1, <1>3
  <1>8. Range(s) \subseteq Range(t) \cup {last}
    BY <1>1, <1>5, <1>6, <1>7 DEF Range
  <1>9. Range(t) \cup {last} \subseteq Range(s)
    BY <1>1, <1>5, <1>6, <1>7 DEF Range
  <1> QED
    BY <1>1, <1>4, <1>5, <1>6, <1>8, <1>9 DEF t, n, last

\* Induction over the natural numbers, for a given set of them.
LEMMA Induction ==
    ASSUME NEW S, 0 \in S, \A n \in Nat : n \in S => n + 1 \in S
    PROVE  \A n \in Nat : n \in S
  <1> DEFINE Bad == {n \in Nat : n \notin S}
  <1> SUFFICES ASSUME Bad # {} PROVE FALSE
    OBVIOUS
  <1>1. PICK m \in Bad : \A y \in Bad : ~(<<y, m>> \in OpToRel(<, Nat))
    <2>1. PICK b : b \in Bad
      OBVIOUS
    <2>2. Bad \subseteq Nat
      OBVIOUS
    <2> QED
      BY <2>1, <2>2, NatLessThanWellFounded, WFMin
  <1>2. \A y \in Nat : y < m => y \in S
    BY <1>1 DEF OpToRel
  <1>3. m # 0 /\ m - 1 \in Nat /\ m - 1 < m /\ (m - 1) + 1 = m
    OBVIOUS
  <1> QED
    BY <1>2, <1>3

-----------------------------------------------------------------------------
(* The search of the struct graph. *)

\* Edges lead from structs to structs.
LEMMA GraphEdges ==
    ASSUME NEW g, IsStructGraph(g)
    PROVE  /\ DOMAIN g \subseteq Nat \ {0}
           /\ DOMAIN g = 1..Len(g) /\ Len(g) \in Nat
           /\ \A i \in DOMAIN g : g[i] \in Seq(Nat) /\ Range(g[i]) \subseteq DOMAIN g
  BY DEF IsStructGraph, IsGraph

(* Invariants that a step cannot touch. *)

\* Reasons stay as long as the graph and what is invalid do.
LEMMA ReasonsStay ==
    ASSUME InvalidForReason, UNCHANGED <<graph, wrong, invalid>>
    PROVE  InvalidForReason'
  BY DEF InvalidForReason

\* The list of finished nodes stays as good as it is.
LEMMA FinishedStays ==
    ASSUME FinishedLast, UNCHANGED <<graph, finished>>
    PROVE  FinishedLast'
  BY DEF FinishedLast, Before, Mutual, Nodes

\* The search begins in order.
LEMMA SearchBegins == SearchInit => SearchInv
  <1> SUFFICES ASSUME SearchInit PROVE SearchInv
    OBVIOUS
  <1>1. IsStructGraph(graph)
    BY GraphAssumption DEF SearchInit
  <1>2. SearchTypeOK
    BY <1>1 DEF SearchInit, SearchTypeOK
  <1>3. DOMAIN stack = {} /\ DOMAIN finished = {}
    BY DEF SearchInit
  <1>4. OnStack = {} /\ Range(finished) = {}
    BY <1>3 DEF OnStack, Range
  <1>5. NodeOnce /\ EdgesFollowed /\ StackDescends /\ FinishedLast
    BY <1>3, <1>4 DEF NodeOnce, EdgesFollowed, StackDescends, FinishedLast, SearchInit
  <1>6. InvalidForReason
    BY ReachesSelf DEF InvalidForReason, SearchInit
  <1> QED
    BY <1>2, <1>5, <1>6 DEF SearchInv, SearchInit

(* The first pass. *)

\* The type of a frame on top.
LEMMA TopFrame ==
    ASSUME SearchTypeOK, stack # <<>>
    PROVE  /\ Top \in Frames /\ Top.node \in Nodes /\ Top.edge \in Nat \ {0}
           /\ Top = [node |-> Top.node, edge |-> Top.edge]
           /\ Len(stack) \in DOMAIN stack
  <1>1. Top \in Frames /\ Len(stack) \in DOMAIN stack
    BY PoppedIsFront DEF SearchTypeOK, Top
  <1> QED
    BY <1>1 DEF Frames

\* The order of roots cannot break what the first pass maintains.
LEMMA StartRootKeeps == ASSUME SearchInv, StartRoot PROVE SearchInv'
  <1>1. PICK r \in Nodes \ visited : visited' = visited \cup {r} /\ stack' = <<FrameOf(r, 1)>>
    BY DEF StartRoot
  <1>2. /\ phase = "order" /\ phase' = "order" /\ stack = <<>>
        /\ UNCHANGED <<graph, wrong, finished, root, pending, component, recursive, invalid>>
    BY DEF StartRoot, input, ordering
  <1>3. /\ SearchTypeOK /\ NodeOnce /\ EdgesFollowed /\ StackDescends /\ FinishedLast /\ InvalidForReason
        /\ root = NoRoot /\ recursive = {}
    BY <1>2 DEF SearchInv
  <1>4. FrameOf(r, 1) \in Frames /\ FrameOf(r, 1).node = r /\ FrameOf(r, 1).edge = 1
    BY DEF Frames, FrameOf
  <1>5. stack' \in Seq(Frames) /\ DOMAIN stack' = {1} /\ stack'[1] = FrameOf(r, 1)
    BY <1>1, <1>4
  <1>6. SearchTypeOK'
    BY <1>1, <1>2, <1>3, <1>5 DEF SearchTypeOK, Frames, Nodes
  <1>7. OnStack = {} /\ OnStack' = {r}
    BY <1>2, <1>4, <1>5 DEF OnStack
  <1>8. visited = Range(finished) /\ r \notin Range(finished)
    BY <1>3, <1>7 DEF EdgesFollowed
  <1>9. NodeOnce'
    BY <1>2, <1>3, <1>5, <1>7, <1>8 DEF NodeOnce
  <1>10. EdgesFollowed'
    <2>1. visited' = OnStack' \cup Range(finished)'
      BY <1>1, <1>2, <1>7, <1>8
    <2>2. \A i \in Range(finished)' : Range(graph'[i]) \subseteq visited'
      BY <1>1, <1>2, <1>3 DEF EdgesFollowed
    <2>3. ASSUME NEW k \in DOMAIN stack', NEW e \in DOMAIN graph'[stack'[k].node], e < stack'[k].edge
          PROVE  graph'[stack'[k].node][e] \in visited'
      <3>1. k = 1 /\ e < 1
        BY <1>4, <1>5, <2>3
      <3>2. e \in Nat \ {0}
        BY <1>1, <1>2, <1>3, <1>4, <1>5, <2>3, GraphEdges DEF SearchTypeOK, Nodes
      <3> QED
        BY <3>1, <3>2
    <2> QED
      BY <2>1, <2>2, <2>3 DEF EdgesFollowed
  <1>11. StackDescends'
    BY <1>5, ReachesSelf DEF StackDescends
  <1> QED
    BY <1>2, <1>3, <1>6, <1>9, <1>10, <1>11, FinishedStays, ReasonsStay DEF SearchInv

\* What an edge does to the stack: the frames stay, the top one has moved on,
\* and a node that was not visited is on top of it.
LEMMA FollowedStack ==
    ASSUME SearchTypeOK, EdgesFollowed, FollowEdge
    PROVE  \E n \in Nat \ {0}, dependency \in Nodes :
             /\ DOMAIN stack = 1..n /\ DOMAIN stack' = IF dependency \in visited THEN 1..n ELSE 1..n + 1
             /\ dependency \in Range(graph[stack[n].node]) /\ dependency = graph[stack[n].node][stack[n].edge]
             /\ stack' \in Seq(Frames) /\ visited' = visited \cup {dependency}
             /\ \A k \in 1..n : stack'[k].node = stack[k].node
             /\ \A k \in 1..n - 1 : stack'[k].edge = stack[k].edge
             /\ stack'[n].edge = stack[n].edge + 1
             /\ dependency \notin visited => stack'[n + 1].node = dependency /\ stack'[n + 1].edge = 1
             /\ stack[n].node \in Nodes
  <1> DEFINE n == Len(stack)
             dependency == graph[Top.node][Top.edge]
             onward == FrameOf(Top.node, Top.edge + 1)
             advanced == Append(Popped(stack), onward)
  <1>1. /\ stack # <<>> /\ Top.edge <= Len(graph[Top.node])
        /\ stack' = IF dependency \in visited THEN advanced ELSE Append(advanced, FrameOf(dependency, 1))
        /\ visited' = visited \cup {dependency}
    BY DEF FollowEdge
  <1>2. /\ Top \in Frames /\ Top.node \in Nodes /\ Top.edge \in Nat \ {0}
    BY <1>1, TopFrame
  <1>3. /\ n \in Nat \ {0} /\ DOMAIN stack = 1..n /\ Top = stack[n]
        /\ Popped(stack) \in Seq(Frames) /\ Len(Popped(stack)) = n - 1
        /\ \A k \in 1..n - 1 : Popped(stack)[k] = stack[k]
    BY <1>1, PoppedIsFront DEF SearchTypeOK, Top
  <1>4. Top.edge \in DOMAIN graph[Top.node] /\ dependency \in Range(graph[Top.node]) /\ dependency \in Nodes
    <2>1. IsStructGraph(graph) /\ Top.node \in DOMAIN graph
      BY <1>2 DEF SearchTypeOK, Nodes
    <2>2. graph[Top.node] \in Seq(Nat) /\ Range(graph[Top.node]) \subseteq DOMAIN graph
      BY <2>1, GraphEdges
    <2>3. Top.edge \in DOMAIN graph[Top.node]
      BY <1>1, <1>2, <2>2
    <2> QED
      BY <2>2, <2>3 DEF Nodes, Range
  <1>5. onward \in Frames /\ onward.node = Top.node /\ onward.edge = Top.edge + 1
    BY <1>2 DEF Frames, FrameOf
  <1>6. /\ advanced \in Seq(Frames) /\ DOMAIN advanced = 1..n /\ Len(advanced) = n
        /\ \A k \in 1..n - 1 : advanced[k] = stack[k]
        /\ advanced[n] = onward
    <2> DEFINE front == Popped(stack)
    <2>1. front \in Seq(Frames) /\ onward \in Frames /\ Len(front) = n - 1
      BY <1>3, <1>5
    <2> HIDE DEF front, onward, n
    <2>2. /\ Append(front, onward) \in Seq(Frames) /\ Len(Append(front, onward)) = Len(front) + 1
          /\ DOMAIN Append(front, onward) = 1..Len(front) + 1
          /\ \A k \in 1..Len(front) : Append(front, onward)[k] = front[k]
          /\ Append(front, onward)[Len(front) + 1] = onward
      BY <2>1, Appended
    <2>3. Len(front) + 1 = n
      BY <1>3, <2>1
    <2>4. \A k \in 1..n - 1 : front[k] = stack[k]
      BY <1>3 DEF front
    <2> QED
      BY <2>1, <2>2, <2>3, <2>4 DEF front
  <1>7. FrameOf(dependency, 1) \in Frames /\ FrameOf(dependency, 1).node = dependency /\ FrameOf(dependency, 1).edge = 1
    BY <1>4 DEF Frames, FrameOf
  <1> HIDE DEF n, dependency, onward, advanced
  <1>8. CASE dependency \in visited
    <2>1. stack' = advanced
      BY <1>1, <1>8
    <2>2. /\ \A k \in 1..n - 1 : stack'[k].node = stack[k].node /\ stack'[k].edge = stack[k].edge
          /\ stack'[n].node = stack[n].node /\ stack'[n].edge = stack[n].edge + 1
      BY <1>3, <1>5, <1>6, <2>1
    <2>3. \A k \in 1..n : stack'[k].node = stack[k].node
      BY <1>3, <2>2
    <2>4. DOMAIN stack' = 1..n /\ stack' \in Seq(Frames)
      BY <1>6, <2>1
    <2>5. dependency = graph[stack[n].node][stack[n].edge]
      BY <1>3 DEF dependency
    <2>6. /\ visited' = visited \cup {dependency}
          /\ dependency \in Range(graph[stack[n].node]) /\ stack[n].node \in Nodes
      BY <1>1, <1>2, <1>3, <1>4
    <2> QED
      BY <1>3, <1>4, <1>8, <2>2, <2>3, <2>4, <2>5, <2>6
  <1>9. CASE dependency \notin visited
    <2> DEFINE t == Append(advanced, FrameOf(dependency, 1))
    <2>1. stack' = t
      BY <1>1, <1>9
    <2>2. /\ t \in Seq(Frames) /\ DOMAIN t = 1..n + 1
          /\ \A k \in 1..n : t[k] = advanced[k]
          /\ t[n + 1] = FrameOf(dependency, 1)
      BY <1>6, <1>7, Appended
    <2>3. \A k \in 1..n - 1 : t[k] = stack[k]
      BY <1>3, <1>6, <2>2
    <2>4. t[n] = onward
      BY <1>3, <1>6, <2>2
    <2> HIDE DEF t
    <2>5. /\ \A k \in 1..n - 1 : stack'[k].node = stack[k].node /\ stack'[k].edge = stack[k].edge
          /\ stack'[n].node = stack[n].node /\ stack'[n].edge = stack[n].edge + 1
      BY <1>3, <1>5, <2>1, <2>3, <2>4
    <2>6. \A k \in 1..n : stack'[k].node = stack[k].node
      BY <1>3, <2>5
    <2>7. /\ DOMAIN stack' = 1..n + 1 /\ stack' \in Seq(Frames)
          /\ stack'[n + 1].node = dependency /\ stack'[n + 1].edge = 1
      BY <1>7, <2>1, <2>2
    <2>8. dependency = graph[stack[n].node][stack[n].edge]
      BY <1>3 DEF dependency
    <2>9. /\ visited' = visited \cup {dependency}
          /\ dependency \in Range(graph[stack[n].node]) /\ stack[n].node \in Nodes
      BY <1>1, <1>2, <1>3, <1>4
    <2> QED
      BY <1>3, <1>4, <1>9, <2>5, <2>6, <2>7, <2>8, <2>9
  <1> QED
    BY <1>8, <1>9

\* Following an edge keeps what the first pass maintains.
LEMMA FollowEdgeKeeps == ASSUME SearchInv, FollowEdge PROVE SearchInv'
  <1>1. /\ phase = "order" /\ phase' = "order"
        /\ UNCHANGED <<graph, wrong, finished, root, pending, component, recursive, invalid>>
    BY DEF FollowEdge, input, ordering
  <1>2. /\ SearchTypeOK /\ NodeOnce /\ EdgesFollowed /\ StackDescends /\ FinishedLast /\ InvalidForReason
        /\ root = NoRoot /\ recursive = {}
    BY <1>1 DEF SearchInv
  <1>3. PICK n \in Nat \ {0}, dependency \in Nodes :
             /\ DOMAIN stack = 1..n /\ DOMAIN stack' = IF dependency \in visited THEN 1..n ELSE 1..n + 1
             /\ dependency \in Range(graph[stack[n].node]) /\ dependency = graph[stack[n].node][stack[n].edge]
             /\ stack' \in Seq(Frames) /\ visited' = visited \cup {dependency}
             /\ \A k \in 1..n : stack'[k].node = stack[k].node
             /\ \A k \in 1..n - 1 : stack'[k].edge = stack[k].edge
             /\ stack'[n].edge = stack[n].edge + 1
             /\ dependency \notin visited => stack'[n + 1].node = dependency /\ stack'[n + 1].edge = 1
             /\ stack[n].node \in Nodes
    BY <1>2, FollowedStack
  <1>4. SearchTypeOK'
    BY <1>1, <1>2, <1>3 DEF SearchTypeOK, Frames, Nodes
  <1>5. OnStack' = IF dependency \in visited THEN OnStack ELSE OnStack \cup {dependency}
    <2>1. CASE dependency \in visited
      BY <1>3, <2>1 DEF OnStack
    <2>2. CASE dependency \notin visited
      <3>1. \A k \in 1..n : k \in 1..n + 1
        BY <1>3
      <3>2. n + 1 \in 1..n + 1 /\ \A k \in 1..n + 1 : k = n + 1 \/ k \in 1..n
        BY <1>3
      <3> QED
        BY <1>3, <2>2, <3>1, <3>2 DEF OnStack
    <2> QED
      BY <2>1, <2>2
  <1>6. NodeOnce'
    <2>1. OnStack' \cap Range(finished)' = {}
      BY <1>1, <1>2, <1>5 DEF NodeOnce, EdgesFollowed
    <2>2. ASSUME NEW h \in DOMAIN stack', NEW l \in DOMAIN stack', stack'[h].node = stack'[l].node
          PROVE  h = l
      <3>1. CASE h \in 1..n /\ l \in 1..n
        BY <1>2, <1>3, <2>2, <3>1 DEF NodeOnce
      <3>2. dependency \notin visited => \A k \in 1..n : stack'[k].node # dependency
        BY <1>2, <1>3 DEF EdgesFollowed, OnStack
      <3>3. CASE ~(h \in 1..n /\ l \in 1..n)
        BY <1>3, <2>2, <3>2, <3>3
      <3> QED
        BY <3>1, <3>3
    <2> QED
      BY <1>1, <1>2, <2>1, <2>2 DEF NodeOnce
  <1>7. EdgesFollowed'
    <2>1. visited' = OnStack' \cup Range(finished)'
      BY <1>1, <1>2, <1>3, <1>5 DEF EdgesFollowed
    <2>2. \A i \in Range(finished)' : Range(graph'[i]) \subseteq visited'
      BY <1>1, <1>2, <1>3 DEF EdgesFollowed
    <2>3. ASSUME NEW k \in DOMAIN stack', NEW e \in DOMAIN graph'[stack'[k].node], e < stack'[k].edge
          PROVE  graph'[stack'[k].node][e] \in visited'
      <3>1. stack'[k].node \in Nodes
        <4>1. stack'[k] \in Frames
          BY <1>3, <2>3
        <4> QED
          BY <4>1 DEF Frames
      <3>2. e \in Nat \ {0}
        BY <1>1, <1>2, <2>3, <3>1, GraphEdges DEF SearchTypeOK, Nodes
      <3>3. CASE k \in 1..n - 1
        <4>1. k \in 1..n
          BY <1>3, <3>3
        <4> QED
          BY <1>1, <1>2, <1>3, <2>3, <3>3, <4>1 DEF EdgesFollowed
      <3>4. CASE k = n
        <4>1. e < stack[n].edge \/ e = stack[n].edge
          <5>1. stack[n].edge \in Nat
            <6>1. stack[n] \in Frames
              BY <1>2, <1>3 DEF SearchTypeOK
            <6> QED
              BY <6>1 DEF Frames
          <5> QED
            BY <1>3, <2>3, <3>2, <3>4, <5>1
        <4>2. stack'[k].node = stack[n].node /\ n \in DOMAIN stack
          BY <1>3, <3>4
        <4> QED
          BY <1>1, <1>2, <1>3, <2>3, <4>1, <4>2 DEF EdgesFollowed
      <3>5. CASE k \notin 1..n
        <4>1. k = n + 1 /\ stack'[k].edge = 1
          BY <1>3, <2>3, <3>5
        <4> QED
          BY <2>3, <3>2, <4>1
      <3>6. k \in 1..n - 1 \/ k = n \/ k \notin 1..n
        BY <1>3
      <3> QED
        BY <3>3, <3>4, <3>5, <3>6
    <2> QED
      BY <2>1, <2>2, <2>3 DEF EdgesFollowed
  <1>8. StackDescends'
    <2>1. SUFFICES ASSUME NEW k \in DOMAIN stack', NEW l \in DOMAIN stack', k <= l
                   PROVE  Reaches(graph, stack'[k].node, stack'[l].node)
      BY <1>1 DEF StackDescends
    <2>2. CASE k \in 1..n /\ l \in 1..n
      BY <1>2, <1>3, <2>1, <2>2 DEF StackDescends
    <2>3. CASE k \in 1..n /\ l \notin 1..n
      <3>1. Reaches(graph, stack[k].node, stack[n].node)
        BY <1>2, <1>3, <2>3 DEF StackDescends
      <3>2. stack'[l].node = dependency
        BY <1>3, <2>1, <2>3
      <3>3. Reaches(graph, stack[n].node, dependency)
        BY <1>3, ReachesNext
      <3> QED
        BY <1>3, <2>3, <3>1, <3>2, <3>3, ReachesOn
    <2>4. CASE k \notin 1..n
      <3>1. k = l
        BY <1>3, <2>1, <2>4
      <3> QED
        BY <3>1, ReachesSelf
    <2> QED
      BY <2>2, <2>3, <2>4
  <1> QED
    BY <1>1, <1>2, <1>4, <1>6, <1>7, <1>8, FinishedStays, ReasonsStay DEF SearchInv

\* Finishing a node: whatever its edges lead to and whose component is not
\* finished can only be left through a frame below, and that frame led here.
LEMMA FinishNodeKeeps == ASSUME SearchInv, FinishNode PROVE SearchInv'
  <1> DEFINE n == Len(stack)
             m == Len(finished)
             node == Top.node
  <1>1. /\ phase = "order" /\ phase' = "order" /\ stack # <<>> /\ Top.edge > Len(graph[node])
        /\ finished' = Append(finished, node) /\ stack' = Popped(stack)
        /\ UNCHANGED <<graph, wrong, visited, root, pending, component, recursive, invalid>>
    BY DEF FinishNode, input, ordering
  <1>2. /\ SearchTypeOK /\ NodeOnce /\ EdgesFollowed /\ StackDescends /\ FinishedLast /\ InvalidForReason
        /\ root = NoRoot /\ recursive = {}
    BY <1>1 DEF SearchInv
  <1>3. node \in Nodes /\ Top.edge \in Nat \ {0}
    BY <1>1, <1>2, TopFrame
  <1>4. /\ n \in Nat \ {0} /\ DOMAIN stack = 1..n /\ node = stack[n].node
        /\ stack' \in Seq(Frames) /\ DOMAIN stack' = 1..n - 1
        /\ \A k \in 1..n - 1 : stack'[k] = stack[k]
    BY <1>1, <1>2, PoppedIsFront DEF SearchTypeOK, Top
  <1>5. /\ m \in Nat /\ DOMAIN finished = 1..m /\ DOMAIN finished' = 1..m + 1
        /\ finished' \in Seq(Nodes) /\ \A h \in 1..m : finished'[h] = finished[h]
        /\ finished'[m + 1] = node /\ Range(finished') = Range(finished) \cup {node}
    BY <1>1, <1>2, <1>3, Appended DEF SearchTypeOK
  <1>6. Top.edge = stack[n].edge
    BY DEF Top
  <1> HIDE DEF n, m, node
  <1>7. SearchTypeOK'
    BY <1>1, <1>2, <1>4, <1>5 DEF SearchTypeOK, Frames, Nodes
  <1>8. node \in OnStack /\ node \notin Range(finished) /\ n \in 1..n
    BY <1>2, <1>4 DEF OnStack, NodeOnce
  <1>9. \A k \in 1..n - 1 : k \in 1..n /\ stack[k].node # node
    BY <1>2, <1>4 DEF NodeOnce
  <1>10. OnStack' = OnStack \ {node}
    <2>1. ASSUME NEW i \in OnStack \ {node} PROVE i \in OnStack'
      <3>1. PICK k \in 1..n : i = stack[k].node
        BY <1>4, <2>1 DEF OnStack
      <3>2. k \in 1..n - 1
        BY <1>4, <2>1, <3>1
      <3> QED
        BY <1>4, <3>1, <3>2 DEF OnStack
    <2>2. ASSUME NEW i \in OnStack' PROVE i \in OnStack \ {node}
      <3>1. PICK k \in 1..n - 1 : i = stack'[k].node
        BY <1>4, <2>2 DEF OnStack
      <3> QED
        BY <1>4, <1>9, <3>1 DEF OnStack
    <2> QED
      BY <2>1, <2>2
  <1>11. NodeOnce'
    <2>1. ASSUME NEW h \in 1..m + 1, NEW l \in 1..m + 1, finished'[h] = finished'[l] PROVE h = l
      <3>1. \A k \in 1..m : finished'[k] # node
        BY <1>5, <1>8 DEF Range
      <3>2. CASE h \in 1..m /\ l \in 1..m
        BY <1>2, <1>5, <2>1, <3>2 DEF NodeOnce
      <3>3. CASE ~(h \in 1..m /\ l \in 1..m)
        BY <1>5, <2>1, <3>1, <3>3
      <3> QED
        BY <3>2, <3>3
    <2>2. \A h, l \in DOMAIN stack' : stack'[h].node = stack'[l].node => h = l
      BY <1>2, <1>4, <1>9 DEF NodeOnce
    <2>3. OnStack' \cap Range(finished)' = {}
      BY <1>2, <1>5, <1>10 DEF NodeOnce
    <2> QED
      BY <1>5, <2>1, <2>2, <2>3 DEF NodeOnce
  <1>12. Range(graph[node]) \subseteq visited
    <2>1. graph[node] \in Seq(Nat)
      BY <1>2, <1>3, GraphEdges DEF SearchTypeOK, Nodes
    <2>2. \A e \in DOMAIN graph[node] : e < stack[n].edge
      BY <1>1, <1>3, <1>6, <2>1
    <2> QED
      BY <1>2, <1>4, <1>8, <2>2 DEF EdgesFollowed, Range
  <1>13. EdgesFollowed'
    <2>1. visited' = OnStack' \cup Range(finished)'
      BY <1>1, <1>2, <1>5, <1>8, <1>10 DEF EdgesFollowed
    <2>2. \A i \in Range(finished)' : Range(graph'[i]) \subseteq visited'
      BY <1>1, <1>2, <1>5, <1>12 DEF EdgesFollowed
    <2>3. \A k \in DOMAIN stack' : \A e \in DOMAIN graph'[stack'[k].node] :
             e < stack'[k].edge => graph'[stack'[k].node][e] \in visited'
      BY <1>1, <1>2, <1>4, <1>9 DEF EdgesFollowed
    <2> QED
      BY <2>1, <2>2, <2>3 DEF EdgesFollowed
  <1>14. StackDescends'
    BY <1>1, <1>2, <1>4, <1>9 DEF StackDescends
  <1>15. \A i \in OnStack : Reaches(graph, i, node)
    BY <1>2, <1>4, <1>8 DEF StackDescends, OnStack
  <1>16. ASSUME NEW later \in Nodes \ Range(finished'), NEW next \in Range(graph[node]), Mutual(next, later)
         PROVE  Reaches(graph, later, node)
    <2>1. CASE later \in visited
      BY <1>2, <1>5, <1>15, <1>16, <2>1 DEF EdgesFollowed
    <2>2. CASE later \notin visited
      <3>1. /\ visited \in SUBSET DOMAIN graph /\ Range(finished') \in SUBSET visited
            /\ \A i \in Range(finished') : Range(graph[i]) \subseteq visited
        BY <1>1, <1>2, <1>5, <1>13 DEF EdgesFollowed, SearchTypeOK, Nodes
      <3>2. next \in visited /\ Reaches(graph, next, later) /\ Reaches(graph, later, next)
        BY <1>12, <1>16 DEF Mutual
      <3>3. PICK k \in visited \ Range(finished') : Reaches(graph, next, k)
        \* A path that leaves the visited nodes does so from one that is not finished.
        <4>1. SUFFICES ASSUME \A k \in visited \ Range(finished') : ~Reaches(graph, next, k) PROVE FALSE
          OBVIOUS
        <4> DEFINE S == {k \in Range(finished') : Reaches(graph, next, k)}
        <4>2. next \in S
          BY <3>2, <4>1, ReachesSelf
        <4>3. ASSUME NEW x \in S, NEW y \in Range(graph[x]) PROVE y \in S
          <5>1. y \in visited
            BY <3>1, <4>3
          <5>2. Reaches(graph, next, y)
            BY <4>3, ReachesNext, ReachesOn
          <5> QED
            BY <4>1, <5>1, <5>2
        <4>4. S \in SUBSET DOMAIN graph /\ Closed(graph, S)
          BY <3>1, <4>3 DEF Closed
        <4>5. later \in S
          BY <3>2, <4>2, <4>4 DEF Reaches
        <4> QED
          BY <2>2, <3>1, <4>5
      <3>4. Reaches(graph, k, node)
        BY <1>2, <1>5, <1>15, <3>3 DEF EdgesFollowed
      <3> QED
        BY <3>2, <3>3, <3>4, ReachesOn
    <2> QED
      BY <2>1, <2>2
  <1>17. FinishedLast'
    <2>1. SUFFICES ASSUME NEW h \in DOMAIN finished', NEW later \in Nodes \ Before(h)',
                          NEW next \in Range(graph[finished'[h]]), Mutual(next, later)
                   PROVE  Reaches(graph, later, finished'[h])
      BY <1>1 DEF FinishedLast, Mutual, Nodes
    <2>2. CASE h \in 1..m
      <3>1. Before(h)' = Before(h)
        BY <1>5, <2>2 DEF Before
      <3>2. finished'[h] = finished[h] /\ h \in DOMAIN finished
        BY <1>5, <2>2
      <3> QED
        BY <1>2, <2>1, <3>1, <3>2 DEF FinishedLast
    <2>3. CASE h = m + 1
      <3>1. Before(h)' = Range(finished')
        BY <1>5, <2>3 DEF Before, Range
      <3> QED
        BY <1>5, <1>16, <2>1, <2>3, <3>1
    <2> QED
      BY <1>5, <2>1, <2>2, <2>3
  <1> QED
    BY <1>1, <1>2, <1>7, <1>11, <1>13, <1>14, <1>17, ReasonsStay DEF SearchInv

\* Every node has been finished when the first pass ends.
LEMMA OrderEndsKeeps == ASSUME SearchInv, OrderEnds PROVE SearchInv'
  <1>1. /\ phase = "order" /\ phase' = "components" /\ stack = <<>> /\ Nodes \subseteq visited /\ visited' = {}
        /\ UNCHANGED <<graph, wrong, stack, finished, root, pending, component, recursive, invalid>>
    BY DEF OrderEnds, input, ordering
  <1>2. /\ SearchTypeOK /\ NodeOnce /\ EdgesFollowed /\ StackDescends /\ FinishedLast /\ InvalidForReason
        /\ root = NoRoot /\ recursive = {}
    BY <1>1 DEF SearchInv
  <1>3. SearchTypeOK'
    BY <1>1, <1>2 DEF SearchTypeOK, Frames, Nodes
  <1>4. OnStack = {}
    BY <1>1 DEF OnStack
  <1>5. Range(finished) = Nodes
    BY <1>1, <1>2, <1>4 DEF EdgesFollowed, SearchTypeOK
  <1>6. NodeOnce'
    BY <1>1, <1>2 DEF NodeOnce, OnStack
  <1>7. Judged' = {} /\ Collected' = {}
    BY <1>1, <1>2 DEF Judged, Collected
  <1>8. ComponentsWhole'
    BY <1>1, <1>2, <1>5, <1>7 DEF ComponentsWhole, Nodes
  <1>9. CollectingRoot'
    BY <1>1, <1>2 DEF CollectingRoot
  <1> QED
    BY <1>1, <1>2, <1>3, <1>6, <1>8, <1>9, FinishedStays, ReasonsStay DEF SearchInv

(* The second pass. *)

\* Taking the node that finished last off the list.
LEMMA LastFinishedLeaves ==
    ASSUME SearchTypeOK, NodeOnce, FinishedLast, finished # <<>>, finished' = Popped(finished),
           UNCHANGED <<graph, stack>>
    PROVE  /\ NodeOnce' /\ FinishedLast' /\ finished' \in Seq(Nodes)
           /\ finished[Len(finished)] \in Nodes
           /\ Range(finished) = Range(finished') \cup {finished[Len(finished)]}
           /\ finished[Len(finished)] \notin Range(finished')
  <1> DEFINE m == Len(finished)
             last == finished[Len(finished)]
  <1>1. /\ m \in Nat \ {0} /\ DOMAIN finished = 1..m /\ DOMAIN finished' = 1..m - 1
        /\ finished' \in Seq(Nodes) /\ last \in Nodes
        /\ \A h \in 1..m - 1 : finished'[h] = finished[h]
        /\ Range(finished) = Range(finished') \cup {last}
        /\ last = finished[m]
    BY PoppedIsFront DEF SearchTypeOK
  <1> HIDE DEF m, last
  <1>2. \A h \in 1..m - 1 : h \in 1..m /\ finished[h] # last
    BY <1>1 DEF NodeOnce
  <1>3. last \notin Range(finished')
    BY <1>1, <1>2 DEF Range
  <1>4. OnStack' = OnStack
    BY DEF OnStack
  <1>5. NodeOnce'
    <2>1. OnStack' \cap Range(finished') = {}
      BY <1>1, <1>4 DEF NodeOnce
    <2>2. \A h, l \in DOMAIN finished' : finished'[h] = finished'[l] => h = l
      BY <1>1, <1>2 DEF NodeOnce
    <2> QED
      BY <2>1, <2>2 DEF NodeOnce
  <1>6. FinishedLast'
    <2>1. SUFFICES ASSUME NEW h \in DOMAIN finished', NEW later \in Nodes \ Before(h)',
                          NEW next \in Range(graph[finished'[h]]), Mutual(next, later)
                   PROVE  Reaches(graph, later, finished'[h])
      BY DEF FinishedLast, Mutual, Nodes
    <2>2. h \in 1..m /\ finished'[h] = finished[h]
      BY <1>1, <1>2
    <2>3. Before(h)' = Before(h)
      BY <1>1, <2>1 DEF Before
    <2> QED
      BY <1>1, <2>1, <2>2, <2>3 DEF FinishedLast
  <1> QED
    BY <1>1, <1>3, <1>5, <1>6 DEF last

\* What holds of the second pass.
LEMMA SecondPass ==
    ASSUME SearchInv, phase = "components"
    PROVE  /\ SearchTypeOK /\ NodeOnce /\ FinishedLast /\ ComponentsWhole /\ CollectingRoot /\ InvalidForReason
           /\ stack = <<>>
  BY DEF SearchInv

\* A node that is in a component already is passed over.
LEMMA SkipRootKeeps == ASSUME SearchInv, SkipRoot PROVE SearchInv'
  <1>1. /\ phase = "components" /\ phase' = "components" /\ root = NoRoot /\ finished # <<>>
        /\ finished[Len(finished)] \in visited /\ finished' = Popped(finished)
        /\ UNCHANGED <<graph, wrong, stack, invalid, visited, root, pending, component, recursive>>
    BY DEF SkipRoot, collecting, input
  <1>2. /\ SearchTypeOK /\ NodeOnce /\ FinishedLast /\ ComponentsWhole /\ CollectingRoot /\ InvalidForReason
        /\ stack = <<>>
    BY <1>1, SecondPass
  <1>3. /\ NodeOnce' /\ FinishedLast' /\ finished' \in Seq(Nodes)
        /\ Range(finished) = Range(finished') \cup {finished[Len(finished)]}
    BY <1>1, <1>2, LastFinishedLeaves
  <1>4. SearchTypeOK'
    BY <1>1, <1>2, <1>3 DEF SearchTypeOK, Frames, Nodes
  <1>5. Judged' = Judged
    BY <1>1 DEF Judged, Collected
  <1>6. ComponentsWhole'
    <2>1. Nodes' \ Range(finished)' \subseteq visited'
      BY <1>1, <1>2, <1>3 DEF ComponentsWhole, Nodes
    <2> QED
      BY <1>1, <1>2, <1>5, <2>1 DEF ComponentsWhole, Mutual, Nodes
  <1>7. CollectingRoot'
    BY <1>1 DEF CollectingRoot
  <1> QED
    BY <1>1, <1>2, <1>3, <1>4, <1>6, <1>7, ReasonsStay DEF SearchInv

\* A new component begins with its root.
LEMMA BeginComponentKeeps == ASSUME SearchInv, BeginComponent PROVE SearchInv'
  <1> DEFINE r == finished[Len(finished)]
  <1>1. /\ phase = "components" /\ phase' = "components" /\ root = NoRoot /\ finished # <<>>
        /\ r \notin visited /\ finished' = Popped(finished) /\ root' = r
        /\ visited' = visited \cup {r} /\ pending' = {r} /\ component' = {}
        /\ UNCHANGED <<graph, wrong, stack, invalid, recursive>>
    BY DEF BeginComponent, collecting, input
  <1>2. /\ SearchTypeOK /\ NodeOnce /\ FinishedLast /\ ComponentsWhole /\ CollectingRoot /\ InvalidForReason
        /\ stack = <<>>
    BY <1>1, SecondPass
  <1>3. /\ NodeOnce' /\ FinishedLast' /\ finished' \in Seq(Nodes) /\ r \in Nodes
        /\ Range(finished) = Range(finished') \cup {r} /\ r \notin Range(finished')
    BY <1>1, <1>2, LastFinishedLeaves
  <1> HIDE DEF r
  <1>4. SearchTypeOK'
    BY <1>1, <1>2, <1>3 DEF SearchTypeOK, Frames, Nodes
  <1>5. r # NoRoot
    BY <1>2, <1>3, GraphEdges DEF SearchTypeOK, Nodes, NoRoot
  <1>6. Collected' = {r} /\ Judged' = Judged
    BY <1>1, <1>5 DEF Judged, Collected, NoRoot
  <1>7. ComponentsWhole'
    <2>1. Nodes' \ Range(finished)' \subseteq visited'
      BY <1>1, <1>2, <1>3 DEF ComponentsWhole, Nodes
    <2> QED
      BY <1>1, <1>2, <1>6, <2>1 DEF ComponentsWhole, Mutual, Nodes
  <1>8. CollectingRoot'
    BY <1>1, <1>3, <1>6, ReachesSelf DEF CollectingRoot, Mutual
  <1> QED
    BY <1>1, <1>2, <1>3, <1>4, <1>7, <1>8, ReasonsStay DEF SearchInv

\* What contains a node of the component and is still unvisited finished
\* before the root, so it is in the same component.
LEMMA GatherKeeps == ASSUME SearchInv, Gather PROVE SearchInv'
  <1>1. /\ phase = "components" /\ phase' = "components" /\ root # NoRoot
        /\ UNCHANGED <<graph, wrong, stack, invalid, finished, root, recursive>>
    BY DEF Gather, collecting, input
  <1>2. /\ SearchTypeOK /\ NodeOnce /\ FinishedLast /\ ComponentsWhole /\ CollectingRoot /\ InvalidForReason
        /\ stack = <<>>
    BY <1>1, SecondPass
  <1>3. PICK node \in pending :
          LET found == Containers(node) \ visited IN
          /\ component' = component \cup {node}
          /\ pending' = (pending \ {node}) \cup found
          /\ visited' = visited \cup found
    BY DEF Gather
  <1> DEFINE found == Containers(node) \ visited
  <1>4. /\ component' = component \cup {node}
        /\ pending' = (pending \ {node}) \cup found
        /\ visited' = visited \cup found
    BY <1>3
  <1>5. found \subseteq Nodes /\ node \in Nodes
    BY <1>2 DEF Containers, SearchTypeOK, Nodes
  <1>6. SearchTypeOK'
    BY <1>1, <1>2, <1>4, <1>5 DEF SearchTypeOK, Frames, Nodes
  <1>7. NodeOnce'
    BY <1>1, <1>2 DEF NodeOnce, OnStack
  <1>8. Collected = component \cup pending /\ Collected' = Collected \cup found
    BY <1>1, <1>4 DEF Collected
  <1>9. Judged' = Judged
    <2> HIDE DEF found
    <2> QED
      BY <1>1, <1>2, <1>4, <1>8 DEF Judged, CollectingRoot, found
  <1>10. ComponentsWhole'
    <2>1. Nodes' \ Range(finished)' \subseteq visited'
      BY <1>1, <1>2, <1>4 DEF ComponentsWhole, Nodes
    <2> QED
      BY <1>1, <1>2, <1>9, <2>1 DEF ComponentsWhole, Mutual, Nodes
  <1>11. ASSUME NEW x \in found PROVE Mutual(root, x)
    <2>1. node \in Range(graph[x]) /\ x \in Range(finished)
      BY <1>2, <1>5, <1>11 DEF Containers, ComponentsWhole
    <2>2. Reaches(graph, root, node) /\ Reaches(graph, node, root)
      BY <1>1, <1>2, <1>8 DEF CollectingRoot, Mutual
    <2>3. PICK h \in DOMAIN finished : x = finished[h]
      BY <2>1 DEF Range
    <2>4. DOMAIN finished = 1..Len(finished) /\ Len(finished) \in Nat
      BY <1>2 DEF SearchTypeOK
    <2>5. 1..h \subseteq DOMAIN finished
      BY <2>3, <2>4
    <2>6. root \notin Before(h)
      BY <1>1, <1>2, <2>5 DEF Before, Range, CollectingRoot
    <2>7. root \in Nodes
      BY <1>1, <1>2 DEF SearchTypeOK
    <2>8. Reaches(graph, root, x)
      BY <1>2, <2>1, <2>2, <2>3, <2>6, <2>7 DEF FinishedLast, Mutual
    <2>9. Reaches(graph, x, root)
      BY <2>1, <2>2, ReachesNext, ReachesOn
    <2> QED
      BY <2>8, <2>9 DEF Mutual
  <1>12. CollectingRoot'
    <2>1. root \in Collected' /\ root \notin Range(finished)' /\ Collected' \subseteq visited'
      BY <1>1, <1>2, <1>4, <1>8 DEF CollectingRoot
    <2>2. \A i \in Collected' : Mutual(root, i)'
      BY <1>1, <1>2, <1>8, <1>11 DEF CollectingRoot, Mutual
    <2>3. \A i \in component' : Containers(i)' \subseteq visited'
      BY <1>1, <1>2, <1>4 DEF CollectingRoot, Containers, Nodes
    <2> QED
      BY <1>1, <2>1, <2>2, <2>3 DEF CollectingRoot
  <1> QED
    BY <1>1, <1>2, <1>6, <1>7, <1>10, <1>12, FinishedStays, ReasonsStay DEF SearchInv

\* A finite set with an element has another one iff its cardinality says so.
LEMMA MoreThanOne ==
    ASSUME NEW S, IsFiniteSet(S), NEW x \in S
    PROVE  Cardinality(S) > 1 <=> \E y \in S : y # x
  <1>1. Cardinality(S) \in Nat
    BY FS_CardinalityType
  <1>2. Cardinality(S) # 0
    BY FS_EmptySet
  <1>3. Cardinality(S) = 1 <=> \E e : S = {e}
    BY FS_Singleton
  <1>4. (\E e : S = {e}) <=> \A y \in S : y = x
    <2>1. ASSUME \A y \in S : y = x PROVE S = {x}
      BY <2>1
    <2> QED
      BY <2>1
  <1> QED
    BY <1>1, <1>2, <1>3, <1>4

\* When nothing is pending, the component is whole.
LEMMA CollectedIsWhole ==
    ASSUME SearchTypeOK, ComponentsWhole, CollectingRoot, root # NoRoot, pending = {},
           NEW i \in component, NEW j \in Nodes, Mutual(i, j)
    PROVE  j \in component
  <1>1. Collected = component /\ root \in component /\ component \subseteq visited
    BY DEF Collected, CollectingRoot
  <1>2. root \notin Judged
    BY <1>1 DEF Judged
  <1>3. Reaches(graph, root, j) /\ Reaches(graph, j, root)
    BY <1>1, ReachesOn DEF CollectingRoot, Mutual
  <1>4. SUFFICES ASSUME j \notin component PROVE FALSE
    OBVIOUS
  <1> DEFINE S == {z \in Nodes \ component : Reaches(graph, j, z)}
  <1>5. ASSUME NEW z \in S, NEW w \in Range(graph[z]) PROVE w \in S
    <2>1. w \in Nodes /\ Reaches(graph, z, w) /\ Reaches(graph, j, w)
      BY <1>5, ReachesNext, ReachesOn, GraphEdges DEF SearchTypeOK, Nodes
    <2>2. SUFFICES ASSUME w \in component PROVE FALSE
      BY <2>1
    <2>3. z \in Judged
      BY <1>1, <1>5, <2>2 DEF CollectingRoot, Containers, Judged, Nodes
    <2>4. Reaches(graph, z, root)
      BY <1>1, <2>1, <2>2, ReachesOn DEF CollectingRoot, Mutual
    <2>5. Reaches(graph, root, z)
      BY <1>3, <1>5, ReachesOn
    <2>6. root \in Nodes
      BY <1>1 DEF SearchTypeOK
    <2> QED
      BY <1>2, <2>3, <2>4, <2>5, <2>6 DEF ComponentsWhole, Mutual
  <1>6. S \in SUBSET DOMAIN graph /\ Closed(graph, S)
    BY <1>5 DEF Closed, Nodes
  <1>7. j \in S
    BY <1>4, ReachesSelf
  <1>8. root \in S
    BY <1>3, <1>6, <1>7 DEF Reaches
  <1> QED
    BY <1>1, <1>8

\* The members of a whole component are all on cycles, or none of them is.
LEMMA ComponentOnCycle ==
    ASSUME SearchTypeOK, ComponentsWhole, CollectingRoot, root # NoRoot, pending = {}, NEW i \in component
    PROVE  OnCycle(graph, i) <=> Cardinality(component) > 1 \/ root \in Range(graph[root])
  <1>1. Collected = component /\ root \in component /\ component \subseteq Nodes
    BY DEF Collected, CollectingRoot, SearchTypeOK
  <1>2. IsFiniteSet(component)
    <2>1. Nodes = 1..Len(graph) /\ Len(graph) \in Nat
      BY GraphEdges DEF SearchTypeOK, Nodes
    <2>2. IsFiniteSet(Nodes)
      BY <2>1, FS_Interval
    <2> QED
      BY <1>1, <2>2, FS_Subset
  <1>3. Mutual(root, i) /\ Mutual(i, root)
    BY <1>1 DEF CollectingRoot, Mutual
  <1>4. ASSUME OnCycle(graph, i), Cardinality(component) > 1 => FALSE PROVE root \in Range(graph[root])
    <2>1. PICK k \in Range(graph[i]) : Reaches(graph, k, i)
      BY <1>4 DEF OnCycle
    <2>2. k \in Nodes /\ Mutual(i, k)
      BY <1>1, <2>1, ReachesNext, GraphEdges DEF Mutual, SearchTypeOK, Nodes
    <2>3. k \in component
      BY <2>2, CollectedIsWhole
    <2>4. k = root /\ i = root
      BY <1>1, <1>2, <1>4, <2>3, MoreThanOne
    <2> QED
      BY <2>1, <2>4
  <1>5. ASSUME NEW j \in component, j # i PROVE OnCycle(graph, i)
    <2>1. Reaches(graph, i, j) /\ Reaches(graph, j, i)
      BY <1>1, <1>3, ReachesOn DEF CollectingRoot, Mutual
    <2>2. PICK k \in Range(graph[i]) : Reaches(graph, k, j)
      BY <1>1, <1>5, <2>1, ReachesByNext DEF SearchTypeOK, IsStructGraph, Nodes
    <2> QED
      BY <2>1, <2>2, ReachesOn DEF OnCycle
  <1>6. ASSUME Cardinality(component) > 1 PROVE OnCycle(graph, i)
    BY <1>2, <1>5, <1>6, MoreThanOne
  <1>7. ASSUME root \in Range(graph[root]) PROVE OnCycle(graph, i)
    <2>1. CASE i = root
      BY <1>7, <2>1, ReachesSelf DEF OnCycle
    <2>2. CASE i # root
      BY <1>1, <1>5, <2>2
    <2> QED
      BY <2>1, <2>2
  <1> QED
    BY <1>4, <1>6, <1>7

\* A component is judged when it is whole.
LEMMA EndComponentKeeps == ASSUME SearchInv, EndComponent PROVE SearchInv'
  <1> DEFINE guilty == Cardinality(component) > 1 \/ root \in Range(graph[root])
  <1>1. /\ phase = "components" /\ phase' = "components" /\ root # NoRoot /\ pending = {} /\ root' = NoRoot
        /\ recursive' = IF guilty THEN recursive \cup component ELSE recursive
        /\ UNCHANGED <<graph, wrong, stack, invalid, visited, finished, pending, component>>
    BY DEF EndComponent, collecting, input
  <1>2. /\ SearchTypeOK /\ NodeOnce /\ FinishedLast /\ ComponentsWhole /\ CollectingRoot /\ InvalidForReason
        /\ stack = <<>>
    BY <1>1, SecondPass
  <1>3. \A i \in component : OnCycle(graph, i) <=> guilty
    BY <1>1, <1>2, ComponentOnCycle
  <1> HIDE DEF guilty
  <1>4. SearchTypeOK'
    BY <1>1, <1>2 DEF SearchTypeOK, Frames, Nodes
  <1>5. NodeOnce'
    BY <1>1, <1>2 DEF NodeOnce, OnStack
  <1>6. Collected = component /\ component \subseteq visited /\ Judged = visited \ component /\ Judged' = visited
    BY <1>1, <1>2 DEF Collected, Judged, CollectingRoot
  <1>7. ComponentsWhole'
    <2>1. Nodes' \ Range(finished)' \subseteq visited'
      BY <1>1, <1>2 DEF ComponentsWhole, Nodes
    <2>2. ASSUME NEW i \in visited, NEW j \in Nodes, Mutual(i, j) PROVE j \in visited
      <3>1. CASE i \in component
        BY <1>1, <1>2, <1>6, <2>2, <3>1, CollectedIsWhole
      <3>2. CASE i \notin component
        BY <1>2, <1>6, <2>2, <3>2 DEF ComponentsWhole
      <3> QED
        BY <3>1, <3>2
    <2>3. recursive' = {i \in visited : OnCycle(graph, i)}
      BY <1>1, <1>2, <1>3, <1>6 DEF ComponentsWhole
    <2> QED
      BY <1>1, <1>6, <2>1, <2>2, <2>3 DEF ComponentsWhole, Mutual, Nodes
  <1>8. CollectingRoot'
    BY <1>1 DEF CollectingRoot
  <1> QED
    BY <1>1, <1>2, <1>4, <1>5, <1>7, <1>8, FinishedStays, ReasonsStay DEF SearchInv

\* Every struct has been judged when the second pass ends.
LEMMA ComponentsEndKeeps == ASSUME SearchInv, ComponentsEnd PROVE SearchInv'
  <1>1. /\ phase = "components" /\ phase' = "lengths" /\ root = NoRoot /\ finished = <<>> /\ pending' = invalid
        /\ UNCHANGED <<graph, wrong, stack, invalid, visited, finished, root, component, recursive>>
    BY DEF ComponentsEnd, collecting, input
  <1>2. /\ SearchTypeOK /\ ComponentsWhole /\ InvalidForReason
    BY <1>1, SecondPass
  <1>3. SearchTypeOK'
    BY <1>1, <1>2 DEF SearchTypeOK, Frames, Nodes
  <1>4. Judged = Nodes
    <2>1. DOMAIN finished = {}
      BY <1>1
    <2>2. Range(finished) = {}
      BY <2>1 DEF Range
    <2>3. Judged = visited
      BY <1>1 DEF Judged, Collected
    <2> QED
      BY <1>2, <2>2, <2>3 DEF ComponentsWhole, SearchTypeOK
  <1>5. recursive' = {i \in Nodes : OnCycle(graph, i)}
    BY <1>1, <1>2, <1>4 DEF ComponentsWhole
  <1> QED
    BY <1>1, <1>2, <1>3, <1>5, ReasonsStay DEF SearchInv, Nodes

(* The lengths. *)

\* What contains an invalid struct has the same reason to be invalid.
LEMMA SpreadKeeps == ASSUME SearchInv, Spread PROVE SearchInv'
  <1>1. /\ phase = "lengths" /\ phase' = "lengths"
        /\ UNCHANGED <<graph, wrong, stack, visited, finished, root, component, recursive>>
    BY DEF Spread, input
  <1>2. /\ SearchTypeOK /\ InvalidForReason /\ recursive = {i \in Nodes : OnCycle(graph, i)}
        /\ pending \subseteq invalid
        /\ \A i \in invalid \ pending : Containers(i) \subseteq invalid
    BY <1>1 DEF SearchInv
  <1>3. PICK node \in pending :
          LET found == Containers(node) \ invalid IN
          /\ pending' = (pending \ {node}) \cup found
          /\ invalid' = invalid \cup found
    BY DEF Spread
  <1>4. SearchTypeOK'
    BY <1>1, <1>2, <1>3 DEF SearchTypeOK, Frames, Nodes, Containers
  <1>5. InvalidForReason'
    <2>1. ASSUME NEW x \in Containers(node) PROVE \E j \in wrong : Reaches(graph, x, j)
      <3>1. PICK j \in wrong : Reaches(graph, node, j)
        BY <1>2 DEF InvalidForReason
      <3> QED
        BY <2>1, <3>1, ReachesNext, ReachesOn DEF Containers
    <2> QED
      BY <1>1, <1>2, <1>3, <2>1 DEF InvalidForReason
  <1>6. pending' \subseteq invalid' /\ \A i \in invalid' \ pending' : Containers(i)' \subseteq invalid'
    BY <1>1, <1>2, <1>3 DEF Containers, Nodes
  <1> QED
    BY <1>1, <1>2, <1>4, <1>5, <1>6 DEF SearchInv, Nodes

\* The search ends when no invalid struct is left to look at.
LEMMA SearchEndsKeeps == ASSUME SearchInv, SearchEnds PROVE SearchInv'
  <1>1. /\ phase = "lengths" /\ phase' = "done" /\ pending = {}
        /\ UNCHANGED <<graph, wrong, stack, invalid, visited, finished, root, pending, component, recursive>>
    BY DEF SearchEnds, input
  <1>2. SearchTypeOK'
    BY <1>1 DEF SearchInv, SearchTypeOK, Frames, Nodes
  <1> QED
    BY <1>1, <1>2, ReasonsStay DEF SearchInv, Nodes, Containers

\* Every step of the search keeps the invariant.
LEMMA SearchSteps == SearchInv /\ [SearchNext]_searchVars => SearchInv'
  <1> SUFFICES ASSUME SearchInv, [SearchNext]_searchVars PROVE SearchInv'
    OBVIOUS
  <1>1. CASE StartRoot \/ FollowEdge \/ FinishNode \/ OrderEnds
    BY <1>1, StartRootKeeps, FollowEdgeKeeps, FinishNodeKeeps, OrderEndsKeeps
  <1>2. CASE SkipRoot \/ BeginComponent \/ Gather \/ EndComponent \/ ComponentsEnd
    BY <1>2, SkipRootKeeps, BeginComponentKeeps, GatherKeeps, EndComponentKeeps, ComponentsEndKeeps
  <1>3. CASE Spread \/ SearchEnds
    BY <1>3, SpreadKeeps, SearchEndsKeeps
  <1>4. CASE UNCHANGED searchVars
    <2>1. UNCHANGED <<graph, wrong, phase, visited, stack, finished, root, pending, component, recursive, invalid>>
      BY <1>4 DEF searchVars
    <2> QED
      BY <2>1 DEF SearchInv, SearchTypeOK, NodeOnce, EdgesFollowed, StackDescends, FinishedLast, Before,
                  ComponentsWhole, CollectingRoot, Collected, Judged, InvalidForReason, Mutual, OnStack,
                  Frames, Nodes, Containers
  <1> QED
    BY <1>1, <1>2, <1>3, <1>4 DEF SearchNext

\* The invariant of the search of the struct graph (recursive_members): nodes
\* are listed so that the component of each is decided by those after it.
THEOREM SearchSafety == SearchSpec => []SearchInv
  <1> QED
    BY SearchBegins, SearchSteps, PTL DEF SearchSpec

\* Whatever is invalid at the end has a reason, and whatever has is invalid.
LEMMA InvalidAtEnd ==
    ASSUME SearchInv, phase = "done"
    PROVE  invalid = {i \in Nodes : \E j \in wrong : Reaches(graph, i, j)}
  <1>1. /\ SearchTypeOK /\ InvalidForReason
        /\ \A i \in invalid : Containers(i) \subseteq invalid
    BY DEF SearchInv
  <1>2. ASSUME NEW i \in Nodes, NEW j \in wrong, Reaches(graph, i, j), i \notin invalid PROVE FALSE
    <2> DEFINE S == Nodes \ invalid
    <2>1. \A x \in S : Range(graph[x]) \subseteq S
      BY <1>1, GraphEdges DEF SearchTypeOK, Containers, Nodes
    <2>2. S \in SUBSET DOMAIN graph /\ i \in S /\ Closed(graph, S)
      BY <1>2, <2>1 DEF Closed, Nodes
    <2>3. j \in S
      BY <1>2, <2>2 DEF Reaches
    <2> QED
      BY <1>1, <2>3 DEF InvalidForReason
  <1> QED
    BY <1>1, <1>2 DEF InvalidForReason, SearchTypeOK

\* The structs reported as recursive (StructTypeAnalysis::new) are exactly
\* those that contain themselves, and the types that cannot be resolved are
\* exactly those with an invalid array length inside, in every program.
THEOREM SearchFindsCycles == SearchSpec => []SearchIsExact
  <1>1. SearchInv => SearchIsExact
    BY InvalidAtEnd DEF SearchInv, SearchIsExact
  <1> QED
    BY <1>1, SearchSafety, PTL

-----------------------------------------------------------------------------
(* The schedule of constants. *)

\* What the initializers look up is a graph of names.
LEMMA UseGraphIsGraph ==
    ASSUME NEW g, IsUseGraph(g)
    PROVE  /\ IsGraph(g)
           /\ \A c \in DOMAIN g : /\ g[c] \in Seq(DOMAIN g) /\ DOMAIN g[c] = 1..Len(g[c]) /\ Len(g[c]) \in Nat
                                  /\ Range(g[c]) \subseteq DOMAIN g
  <1>1. ASSUME NEW c \in DOMAIN g
        PROVE  /\ g[c] \in Seq(DOMAIN g) /\ DOMAIN g[c] = 1..Len(g[c]) /\ Len(g[c]) \in Nat
               /\ Range(g[c]) \subseteq DOMAIN g
    <2>1. g[c] \in Seq(DOMAIN g)
      BY DEF IsUseGraph
    <2> QED
      BY <2>1 DEF Range
  <1> QED
    BY <1>1 DEF IsGraph

\* The type of the running initializer.
LEMMA InnermostType ==
    ASSUME ScheduleTypeOK, awaiting # <<>>
    PROVE  /\ Len(awaiting) \in Nat \ {0} /\ DOMAIN awaiting = 1..Len(awaiting)
           /\ Innermost \in Initializers /\ Innermost.name \in ConstantNames /\ Innermost.at \in Nat \ {0}
           /\ Innermost = Initializer(Innermost.name, Innermost.at)
           /\ \A k \in DOMAIN awaiting : awaiting[k] \in Initializers /\ awaiting[k].name \in ConstantNames
                                         /\ awaiting[k].at \in Nat \ {0}
  <1>1. /\ Len(awaiting) \in Nat \ {0} /\ DOMAIN awaiting = 1..Len(awaiting) /\ Innermost \in Initializers
    BY PoppedIsFront DEF ScheduleTypeOK, Innermost
  <1>2. \A k \in DOMAIN awaiting : awaiting[k] \in Initializers
    BY DEF ScheduleTypeOK
  <1> QED
    BY <1>1, <1>2 DEF Initializers, Initializer

\* The schedule begins in order.
LEMMA ScheduleBegins == ScheduleInit => ScheduleInv
  <1> SUFFICES ASSUME ScheduleInit PROVE ScheduleInv
    OBVIOUS
  <1>1. IsUseGraph(uses)
    BY UseGraphAssumption DEF ScheduleInit
  <1>2. ScheduleTypeOK
    BY <1>1 DEF ScheduleInit, ScheduleTypeOK
  <1>3. DOMAIN awaiting = {}
    BY DEF ScheduleInit
  <1>4. AwaitingOnce /\ AwaitingDescends /\ LookedUp
    BY <1>3 DEF AwaitingOnce, AwaitingDescends, LookedUp
  <1>5. AwaitingUnknown
    BY <1>3 DEF AwaitingUnknown, Awaited, ScheduleInit
  <1>6. FailuresForReason
    BY DEF FailuresForReason, ScheduleInit
  <1>7. ValuesStand
    <2>1. SUFFICES ASSUME NEW c \in values PROVE Range(uses[c]) \subseteq values /\ ~Hopeless(c)
      BY DEF ValuesStand, ScheduleInit
    <2>2. c \in predefined /\ uses[c] = <<>>
      BY DEF ScheduleInit
    <2>3. DOMAIN uses[c] = {}
      BY <2>2
    <2>4. Range(uses[c]) = {}
      BY <2>3 DEF Range
    <2> QED
      BY <2>2, <2>4 DEF Hopeless
  <1> QED
    BY <1>2, <1>4, <1>5, <1>6, <1>7 DEF ScheduleInv

\* A demand is the first to wait.
LEMMA DemandConstantKeeps == ASSUME ScheduleInv, DemandConstant PROVE ScheduleInv'
  <1>1. PICK c \in ConstantNames \ (values \cup failures) : awaiting' = <<Initializer(c, 1)>>
    BY DEF DemandConstant
  <1>2. UNCHANGED <<uses, predefined, declared, faulty, values, failures>>
    BY DEF DemandConstant, declarations
  <1>3. ScheduleTypeOK /\ ValuesStand /\ FailuresForReason /\ AwaitingUnknown
    BY DEF ScheduleInv
  <1>4. Initializer(c, 1) \in Initializers /\ Initializer(c, 1).name = c /\ Initializer(c, 1).at = 1
    BY DEF Initializers, Initializer
  <1>5. awaiting' \in Seq(Initializers) /\ DOMAIN awaiting' = {1} /\ awaiting'[1] = Initializer(c, 1)
    BY <1>1, <1>4
  <1>6. ScheduleTypeOK'
    BY <1>2, <1>3, <1>5 DEF ScheduleTypeOK, Initializers, ConstantNames
  <1>7. (ValuesStand /\ FailuresForReason)'
    BY <1>2, <1>3 DEF ValuesStand, FailuresForReason, NeedsHopeless, Hopeless, ConstantNames
  <1>8. Awaited' = {c}
    BY <1>4, <1>5 DEF Awaited
  <1>9. (AwaitingOnce /\ AwaitingUnknown)'
    BY <1>1, <1>2, <1>3, <1>5, <1>8 DEF AwaitingOnce, AwaitingUnknown
  <1>10. AwaitingDescends'
    BY <1>5, ReachesSelf DEF AwaitingDescends
  <1>11. LookedUp'
    <2>1. SUFFICES ASSUME NEW k \in DOMAIN awaiting', NEW e \in DOMAIN uses[awaiting'[k].name], e < awaiting'[k].at
                   PROVE  FALSE
      BY <1>2 DEF LookedUp
    <2>2. k = 1 /\ e < 1 /\ c \in DOMAIN uses /\ awaiting'[k].name = c
      BY <1>1, <1>4, <1>5, <2>1 DEF ConstantNames
    <2>3. e \in Nat \ {0}
      BY <1>3, <2>1, <2>2, UseGraphIsGraph DEF ScheduleTypeOK
    <2> QED
      BY <2>2, <2>3
  <1> QED
    BY <1>6, <1>7, <1>9, <1>10, <1>11 DEF ScheduleInv

\* What is looked up is under every suspended initializer.
LEMMA LookupFacts ==
    ASSUME ScheduleInv, NEW c, LooksUp(c)
    PROVE  /\ awaiting # <<>> /\ Innermost.name \in declared
           /\ Innermost.at \in DOMAIN uses[Innermost.name] /\ c = uses[Innermost.name][Innermost.at]
           /\ c \in Range(uses[Innermost.name]) /\ c \in ConstantNames
           /\ \A k \in DOMAIN awaiting : Reaches(uses, awaiting[k].name, c)
  <1>1. /\ awaiting # <<>> /\ Innermost.name \in declared
        /\ Innermost.at \in DOMAIN uses[Innermost.name] /\ c = uses[Innermost.name][Innermost.at]
    BY DEF LooksUp
  <1>2. c \in Range(uses[Innermost.name])
    BY <1>1 DEF Range
  <1>3. ScheduleTypeOK /\ AwaitingDescends
    BY DEF ScheduleInv
  <1>4. Innermost.name \in ConstantNames /\ Len(awaiting) \in DOMAIN awaiting /\ Len(awaiting) \in Nat \ {0}
        /\ DOMAIN awaiting = 1..Len(awaiting)
    BY <1>1, <1>3, InnermostType
  <1>5. c \in ConstantNames
    BY <1>2, <1>3, <1>4, UseGraphIsGraph DEF ScheduleTypeOK, ConstantNames
  <1>6. ASSUME NEW k \in DOMAIN awaiting PROVE Reaches(uses, awaiting[k].name, c)
    <2>1. k <= Len(awaiting)
      BY <1>4
    <2>2. Reaches(uses, awaiting[k].name, Innermost.name)
      BY <1>3, <1>4, <2>1 DEF AwaitingDescends, Innermost
    <2> QED
      BY <1>2, <2>2, ReachesNext, ReachesOn
  <1> QED
    BY <1>1, <1>2, <1>5, <1>6

\* An initializer whose lookup has a value has looked up one name more.
LEMMA UseValueKeeps == ASSUME ScheduleInv, UseValue PROVE ScheduleInv'
  <1> DEFINE n == Len(awaiting)
             onward == Initializer(Innermost.name, Innermost.at + 1)
  <1>1. PICK c \in values : LooksUp(c)
    BY DEF UseValue
  <1>2. /\ awaiting' = Append(Popped(awaiting), onward)
        /\ UNCHANGED <<uses, predefined, declared, faulty, values, failures>>
    BY DEF UseValue, declarations
  <1>3. /\ ScheduleTypeOK /\ ValuesStand /\ FailuresForReason
        /\ AwaitingOnce /\ AwaitingDescends /\ LookedUp /\ AwaitingUnknown
    BY DEF ScheduleInv
  <1>4. /\ awaiting # <<>> /\ Innermost.at \in DOMAIN uses[Innermost.name] /\ c = uses[Innermost.name][Innermost.at]
    BY <1>1, LookupFacts
  <1>5. /\ n \in Nat \ {0} /\ DOMAIN awaiting = 1..n /\ Innermost = awaiting[n]
        /\ Innermost.name \in ConstantNames /\ Innermost.at \in Nat \ {0}
    BY <1>3, <1>4, InnermostType DEF Innermost
  <1>6. onward \in Initializers /\ onward.name = Innermost.name /\ onward.at = Innermost.at + 1
    BY <1>5 DEF Initializers, Initializer
  <1>7. /\ awaiting' \in Seq(Initializers) /\ DOMAIN awaiting' = 1..n
        /\ \A k \in 1..n - 1 : awaiting'[k] = awaiting[k]
        /\ awaiting'[n] = onward
    <2> DEFINE front == Popped(awaiting)
    <2>1. /\ front \in Seq(Initializers) /\ Len(front) = n - 1
          /\ \A k \in 1..n - 1 : front[k] = awaiting[k]
      BY <1>3, <1>4, PoppedIsFront DEF ScheduleTypeOK
    <2> HIDE DEF front, onward, n
    <2>2. /\ Append(front, onward) \in Seq(Initializers)
          /\ DOMAIN Append(front, onward) = 1..Len(front) + 1
          /\ \A k \in 1..Len(front) : Append(front, onward)[k] = front[k]
          /\ Append(front, onward)[Len(front) + 1] = onward
      BY <1>6, <2>1, Appended
    <2>3. Len(front) + 1 = n
      BY <1>5, <2>1
    <2> QED
      BY <1>2, <2>1, <2>2, <2>3 DEF front
  <1> HIDE DEF n, onward
  <1>8. \A k \in 1..n : awaiting'[k].name = awaiting[k].name
    BY <1>5, <1>6, <1>7
  <1>9. ScheduleTypeOK'
    BY <1>2, <1>3, <1>7 DEF ScheduleTypeOK, Initializers, ConstantNames
  <1>10. (ValuesStand /\ FailuresForReason)'
    BY <1>2, <1>3 DEF ValuesStand, FailuresForReason, NeedsHopeless, Hopeless, ConstantNames
  <1>11. Awaited' = Awaited
    BY <1>5, <1>7, <1>8 DEF Awaited
  <1>12. (AwaitingOnce /\ AwaitingUnknown)'
    BY <1>2, <1>3, <1>5, <1>7, <1>8, <1>11 DEF AwaitingOnce, AwaitingUnknown
  <1>13. AwaitingDescends'
    BY <1>2, <1>3, <1>5, <1>7, <1>8 DEF AwaitingDescends
  <1>14. LookedUp'
    <2>1. SUFFICES ASSUME NEW k \in DOMAIN awaiting', NEW e \in DOMAIN uses[awaiting'[k].name], e < awaiting'[k].at
                   PROVE  uses[awaiting'[k].name][e] \in values
      BY <1>2 DEF LookedUp
    <2>2. k \in 1..n /\ awaiting'[k].name = awaiting[k].name
      BY <1>7, <1>8, <2>1
    <2>3. CASE k # n
      <3>1. k \in 1..n - 1 /\ awaiting'[k] = awaiting[k]
        BY <1>5, <1>7, <2>2, <2>3
      <3> QED
        BY <1>3, <1>5, <2>1, <2>2, <3>1 DEF LookedUp
    <2>4. CASE k = n
      <3>1. e \in Nat /\ awaiting'[k].at = Innermost.at + 1 /\ awaiting'[k].name = Innermost.name
        <4>1. uses[Innermost.name] \in Seq(ConstantNames)
          BY <1>3, <1>5, UseGraphIsGraph DEF ScheduleTypeOK, ConstantNames
        <4>2. awaiting'[k] = onward
          BY <1>7, <2>4
        <4> QED
          BY <1>6, <2>1, <4>1, <4>2
      <3>2. CASE e < Innermost.at
        BY <1>3, <1>5, <2>1, <2>2, <2>4, <3>1, <3>2 DEF LookedUp
      <3>3. CASE ~(e < Innermost.at)
        <4>1. e = Innermost.at
          BY <1>5, <2>1, <3>1, <3>3
        <4> QED
          BY <1>1, <1>4, <3>1, <4>1
      <3> QED
        BY <3>2, <3>3
    <2> QED
      BY <2>3, <2>4
  <1> QED
    BY <1>9, <1>10, <1>12, <1>13, <1>14 DEF ScheduleInv

\* What an initializer waits for is unknown and under all that wait already.
LEMMA SuspendKeeps == ASSUME ScheduleInv, Suspend PROVE ScheduleInv'
  <1> DEFINE n == Len(awaiting)
  <1>1. PICK c \in ConstantNames \ (values \cup failures \cup Awaited) :
                LooksUp(c) /\ awaiting' = Append(awaiting, Initializer(c, 1))
    BY DEF Suspend
  <1>2. UNCHANGED <<uses, predefined, declared, faulty, values, failures>>
    BY DEF Suspend, declarations
  <1>3. /\ ScheduleTypeOK /\ ValuesStand /\ FailuresForReason
        /\ AwaitingOnce /\ AwaitingDescends /\ LookedUp /\ AwaitingUnknown
    BY DEF ScheduleInv
  <1>4. /\ awaiting # <<>> /\ \A k \in DOMAIN awaiting : Reaches(uses, awaiting[k].name, c)
    BY <1>1, LookupFacts
  <1>5. n \in Nat \ {0} /\ DOMAIN awaiting = 1..n
    BY <1>3, <1>4, InnermostType
  <1>6. Initializer(c, 1) \in Initializers /\ Initializer(c, 1).name = c /\ Initializer(c, 1).at = 1
    BY DEF Initializers, Initializer
  <1>7. /\ awaiting' \in Seq(Initializers) /\ DOMAIN awaiting' = 1..n + 1
        /\ \A k \in 1..n : awaiting'[k] = awaiting[k]
        /\ awaiting'[n + 1] = Initializer(c, 1)
    BY <1>1, <1>3, <1>6, Appended DEF ScheduleTypeOK
  <1> HIDE DEF n
  <1>8. ScheduleTypeOK'
    BY <1>2, <1>3, <1>7 DEF ScheduleTypeOK, Initializers, ConstantNames
  <1>9. (ValuesStand /\ FailuresForReason)'
    BY <1>2, <1>3 DEF ValuesStand, FailuresForReason, NeedsHopeless, Hopeless, ConstantNames
  <1>10. /\ \A k \in 1..n : awaiting'[k].name = awaiting[k].name /\ awaiting'[k].name \in Awaited
         /\ awaiting'[n + 1].name = c
    BY <1>5, <1>6, <1>7 DEF Awaited
  <1>11. \A k \in DOMAIN awaiting' : k \in 1..n \/ k = n + 1
    BY <1>5, <1>7
  <1>12. Awaited' \subseteq Awaited \cup {c}
    BY <1>10, <1>11 DEF Awaited
  <1>13. AwaitingUnknown'
    BY <1>1, <1>2, <1>3, <1>12 DEF AwaitingUnknown
  <1>14. AwaitingOnce'
    BY <1>1, <1>3, <1>5, <1>10, <1>11 DEF AwaitingOnce
  <1>15. AwaitingDescends'
    <2>1. SUFFICES ASSUME NEW k \in DOMAIN awaiting', NEW l \in DOMAIN awaiting', k <= l
                   PROVE  Reaches(uses, awaiting'[k].name, awaiting'[l].name)
      BY <1>2 DEF AwaitingDescends
    <2>2. CASE l \in 1..n
      <3>1. k \in 1..n
        BY <1>5, <1>7, <2>1, <2>2
      <3> QED
        BY <1>3, <1>5, <1>10, <2>1, <2>2, <3>1 DEF AwaitingDescends
    <2>3. CASE l = n + 1 /\ k \in 1..n
      BY <1>4, <1>5, <1>10, <2>3
    <2>4. CASE l = n + 1 /\ k = n + 1
      BY <2>4, ReachesSelf
    <2> QED
      BY <1>11, <2>1, <2>2, <2>3, <2>4
  <1>16. LookedUp'
    <2>1. SUFFICES ASSUME NEW k \in DOMAIN awaiting', NEW e \in DOMAIN uses[awaiting'[k].name], e < awaiting'[k].at
                   PROVE  uses[awaiting'[k].name][e] \in values
      BY <1>2 DEF LookedUp
    <2>2. CASE k \in 1..n
      <3>1. awaiting'[k] = awaiting[k]
        BY <1>7, <2>2
      <3> QED
        BY <1>3, <1>5, <2>1, <2>2, <3>1 DEF LookedUp
    <2>3. CASE k = n + 1
      <3>1. awaiting'[k].name = c /\ awaiting'[k].at = 1
        BY <1>6, <1>7, <2>3
      <3>2. e \in Nat \ {0}
        BY <1>1, <1>3, <2>1, <3>1, UseGraphIsGraph DEF ScheduleTypeOK, ConstantNames
      <3> QED
        BY <2>1, <3>1, <3>2
    <2> QED
      BY <1>11, <2>2, <2>3
  <1> QED
    BY <1>8, <1>9, <1>13, <1>14, <1>15, <1>16 DEF ScheduleInv

\* An initializer that ended had a value for all it looked up.
LEMMA EndedHasUses ==
    ASSUME ScheduleInv, RanToEnd
    PROVE  Innermost.name \in ConstantNames /\ Range(uses[Innermost.name]) \subseteq values
  <1>1. awaiting # <<>> /\ Innermost.at \notin DOMAIN uses[Innermost.name]
    BY DEF RanToEnd
  <1>2. ScheduleTypeOK /\ LookedUp
    BY DEF ScheduleInv
  <1>3. /\ Len(awaiting) \in DOMAIN awaiting /\ Innermost = awaiting[Len(awaiting)]
        /\ Innermost.name \in ConstantNames /\ Innermost.at \in Nat \ {0}
    BY <1>1, <1>2, InnermostType DEF Innermost
  <1>4. ASSUME NEW e \in DOMAIN uses[Innermost.name] PROVE uses[Innermost.name][e] \in values
    <2>1. /\ DOMAIN uses[Innermost.name] = 1..Len(uses[Innermost.name]) /\ Len(uses[Innermost.name]) \in Nat
      BY <1>2, <1>3, UseGraphIsGraph DEF ScheduleTypeOK, ConstantNames
    <2>2. e < Innermost.at
      BY <1>1, <1>3, <1>4, <2>1
    <2> QED
      BY <1>2, <1>3, <1>4, <2>2 DEF LookedUp
  <1> QED
    BY <1>3, <1>4 DEF Range

\* A value is final: what it rests on are values, and it is not among them.
LEMMA InitializerEndsKeeps == ASSUME ScheduleInv, InitializerEnds PROVE ScheduleInv'
  <1> DEFINE n == Len(awaiting)
             c == Innermost.name
  <1>1. /\ RanToEnd /\ c \notin faulty /\ c \in declared /\ awaiting # <<>>
        /\ values' = values \cup {c} /\ awaiting' = Popped(awaiting)
    BY DEF InitializerEnds, RanToEnd
  <1>2. UNCHANGED <<uses, predefined, declared, faulty, failures>>
    BY DEF InitializerEnds, declarations
  <1>3. /\ ScheduleTypeOK /\ ValuesStand /\ FailuresForReason
        /\ AwaitingOnce /\ AwaitingDescends /\ LookedUp /\ AwaitingUnknown
    BY DEF ScheduleInv
  <1>4. /\ n \in Nat \ {0} /\ DOMAIN awaiting = 1..n /\ c = awaiting[n].name
        /\ c \in ConstantNames /\ Range(uses[c]) \subseteq values
    BY <1>1, <1>3, InnermostType, EndedHasUses DEF Innermost
  <1>5. c \in Awaited /\ c \notin values /\ c \notin failures
    BY <1>3, <1>4 DEF Awaited, AwaitingUnknown
  <1>6. /\ awaiting' \in Seq(Initializers) /\ DOMAIN awaiting' = 1..n - 1
        /\ \A k \in 1..n - 1 : awaiting'[k] = awaiting[k]
    BY <1>1, <1>3, PoppedIsFront DEF ScheduleTypeOK
  <1> HIDE DEF n, c
  <1>7. ScheduleTypeOK'
    BY <1>1, <1>2, <1>3, <1>4, <1>6 DEF ScheduleTypeOK, Initializers, ConstantNames
  <1>8. ~OnCycle(uses, c)
    <2>1. SUFFICES ASSUME NEW j \in Range(uses[c]), Reaches(uses, j, c) PROVE FALSE
      BY DEF OnCycle
    <2>2. values \in SUBSET DOMAIN uses /\ j \in values /\ Closed(uses, values)
      BY <1>3, <1>4, <2>1 DEF ScheduleTypeOK, ConstantNames, ValuesStand, Closed
    <2> QED
      BY <1>5, <2>1, <2>2 DEF Reaches
  <1>9. ValuesStand'
    <2>1. ~Hopeless(c)
      BY <1>1, <1>8 DEF Hopeless, c
    <2>2. \A d \in values' : Range(uses[d]) \subseteq values' /\ ~Hopeless(d)
      BY <1>1, <1>3, <1>4, <2>1 DEF ValuesStand
    <2> QED
      BY <1>1, <1>2, <1>3, <2>2 DEF ValuesStand, Hopeless
  <1>10. FailuresForReason'
    BY <1>2, <1>3 DEF FailuresForReason, NeedsHopeless, Hopeless, ConstantNames
  <1>11. \A k \in 1..n - 1 : k \in DOMAIN awaiting /\ k # n
    BY <1>4
  <1>12. Awaited' \subseteq Awaited \ {c}
    <2>1. SUFFICES ASSUME NEW k \in 1..n - 1 PROVE awaiting'[k].name \in Awaited /\ awaiting'[k].name # c
      BY <1>6 DEF Awaited
    <2>2. awaiting'[k].name = awaiting[k].name /\ k \in DOMAIN awaiting /\ k # n /\ n \in DOMAIN awaiting
      BY <1>4, <1>6, <1>11
    <2> QED
      BY <1>3, <1>4, <2>2 DEF AwaitingOnce, Awaited
  <1>13. AwaitingUnknown'
    BY <1>1, <1>2, <1>3, <1>5, <1>12 DEF AwaitingUnknown
  <1>14. AwaitingOnce'
    BY <1>3, <1>6, <1>11 DEF AwaitingOnce
  <1>15. AwaitingDescends'
    BY <1>2, <1>3, <1>6, <1>11 DEF AwaitingDescends
  <1>16. LookedUp'
    BY <1>1, <1>2, <1>3, <1>6, <1>11 DEF LookedUp
  <1> QED
    BY <1>7, <1>9, <1>10, <1>13, <1>14, <1>15, <1>16 DEF ScheduleInv

\* Everybody who waits may fail when the running initializer cannot have a value.
LEMMA FailAllKeeps ==
    ASSUME ScheduleInv, FailAll, awaiting # <<>>, NeedsHopeless(Innermost.name)
    PROVE  ScheduleInv'
  <1>1. /\ failures' = failures \cup Awaited /\ awaiting' = <<>>
        /\ UNCHANGED <<uses, predefined, declared, faulty, values>>
    BY DEF FailAll, declarations
  <1>2. /\ ScheduleTypeOK /\ ValuesStand /\ FailuresForReason /\ AwaitingDescends /\ AwaitingUnknown
    BY DEF ScheduleInv
  <1>3. /\ Len(awaiting) \in Nat \ {0} /\ DOMAIN awaiting = 1..Len(awaiting)
        /\ \A k \in DOMAIN awaiting : awaiting[k].name \in ConstantNames
    BY <1>2, InnermostType
  <1>4. Awaited \subseteq ConstantNames
    BY <1>3 DEF Awaited
  <1>5. DOMAIN awaiting' = {} /\ awaiting' \in Seq(Initializers)
    BY <1>1
  <1>6. ScheduleTypeOK'
    BY <1>1, <1>2, <1>4, <1>5 DEF ScheduleTypeOK, Initializers, ConstantNames
  <1>7. ValuesStand'
    BY <1>1, <1>2 DEF ValuesStand, Hopeless
  <1>8. ASSUME NEW k \in DOMAIN awaiting PROVE NeedsHopeless(awaiting[k].name)
    <2>1. PICK g \in ConstantNames : Hopeless(g) /\ Reaches(uses, Innermost.name, g)
      BY DEF NeedsHopeless
    <2>2. Reaches(uses, awaiting[k].name, Innermost.name)
      BY <1>2, <1>3 DEF AwaitingDescends, Innermost
    <2> QED
      BY <2>1, <2>2, ReachesOn DEF NeedsHopeless
  <1>9. \A c \in failures' : NeedsHopeless(c)
    BY <1>1, <1>2, <1>8 DEF FailuresForReason, Awaited
  <1>10. FailuresForReason'
    BY <1>1, <1>9 DEF FailuresForReason, NeedsHopeless, Hopeless, ConstantNames
  <1>11. Awaited' = {}
    BY <1>5 DEF Awaited
  <1>12. AwaitingUnknown'
    BY <1>1, <1>2, <1>11 DEF AwaitingUnknown
  <1>13. (AwaitingOnce /\ AwaitingDescends /\ LookedUp)'
    BY <1>5 DEF AwaitingOnce, AwaitingDescends, LookedUp
  <1> QED
    BY <1>6, <1>7, <1>10, <1>12, <1>13 DEF ScheduleInv

\* The four ways to fail are failures for a reason.
LEMMA FailuresKeep ==
    ASSUME ScheduleInv, UnknownConstant \/ UseFailed \/ UseCycles \/ InitializerFails
    PROVE  ScheduleInv'
  <1>1. FailAll /\ awaiting # <<>>
    BY DEF UnknownConstant, UseFailed, UseCycles, InitializerFails, RanToEnd, LooksUp
  <1>2. ScheduleTypeOK /\ ValuesStand /\ FailuresForReason /\ AwaitingDescends /\ AwaitingUnknown
    BY DEF ScheduleInv
  <1>3. /\ Innermost.name \in ConstantNames /\ Innermost.name \in Awaited
        /\ Innermost.name \notin values /\ Innermost.name \notin predefined
    <2>1. Len(awaiting) \in DOMAIN awaiting /\ Innermost.name \in ConstantNames
      BY <1>1, <1>2, InnermostType
    <2> QED
      BY <1>2, <2>1 DEF Awaited, Innermost, AwaitingUnknown, ValuesStand
  <1>4. CASE UnknownConstant \/ InitializerFails
    <2>1. Hopeless(Innermost.name)
      BY <1>3, <1>4 DEF UnknownConstant, InitializerFails, Hopeless
    <2> QED
      BY <1>1, <1>3, <2>1, ReachesSelf, FailAllKeeps DEF NeedsHopeless
  <1>5. CASE UseFailed
    <2>1. PICK c \in failures : LooksUp(c)
      BY <1>5 DEF UseFailed
    <2>2. PICK g \in ConstantNames : Hopeless(g) /\ Reaches(uses, c, g)
      BY <1>2 DEF FailuresForReason, NeedsHopeless
    <2>3. Reaches(uses, Innermost.name, g)
      BY <2>1, <2>2, LookupFacts, ReachesNext, ReachesOn
    <2> QED
      BY <1>1, <2>2, <2>3, FailAllKeeps DEF NeedsHopeless
  <1>6. CASE UseCycles
    <2>1. PICK c \in Awaited : LooksUp(c)
      BY <1>6 DEF UseCycles
    <2>2. PICK k \in DOMAIN awaiting : c = awaiting[k].name
      BY DEF Awaited
    <2>3. c \in Range(uses[Innermost.name]) /\ Reaches(uses, c, Innermost.name)
      <3>1. k <= Len(awaiting) /\ Len(awaiting) \in DOMAIN awaiting
        BY <1>1, <1>2, InnermostType
      <3> QED
        BY <1>2, <2>1, <2>2, <3>1, LookupFacts DEF AwaitingDescends, Innermost
    <2>4. Hopeless(Innermost.name)
      BY <1>3, <2>3 DEF Hopeless, OnCycle
    <2> QED
      BY <1>1, <1>3, <2>4, ReachesSelf, FailAllKeeps DEF NeedsHopeless
  <1> QED
    BY <1>4, <1>5, <1>6

\* Every step of the scheduler keeps the invariant.
LEMMA ScheduleSteps == ScheduleInv /\ [ScheduleNext]_scheduleVars => ScheduleInv'
  <1> SUFFICES ASSUME ScheduleInv, [ScheduleNext]_scheduleVars PROVE ScheduleInv'
    OBVIOUS
  <1>1. CASE DemandConstant \/ UseValue \/ Suspend \/ InitializerEnds
    BY <1>1, DemandConstantKeeps, UseValueKeeps, SuspendKeeps, InitializerEndsKeeps
  <1>2. CASE UnknownConstant \/ UseFailed \/ UseCycles \/ InitializerFails
    BY <1>2, FailuresKeep
  <1>3. CASE UNCHANGED scheduleVars
    BY <1>3 DEF scheduleVars, ScheduleInv, ScheduleTypeOK, ValuesStand, FailuresForReason, NeedsHopeless,
                Hopeless, ConstantNames, AwaitingOnce, AwaitingDescends, LookedUp, AwaitingUnknown, Awaited,
                Initializers
  <1> QED
    BY <1>1, <1>2, <1>3 DEF ScheduleNext

\* The cache of constants is always sound: values rest on values alone, and
\* every failure has its reason.
THEOREM ScheduleSafety == ScheduleSpec => []ScheduleInv
  <1> QED
    BY ScheduleBegins, ScheduleSteps, PTL DEF ScheduleSpec

\* ConstantsSettle: in whatever order the constants of any program are
\* demanded, ConstantCache::evaluate gives a value exactly to those that need
\* nothing unknown, nothing that fails by itself and no constant that needs
\* itself.
THEOREM ConstantsSettleAlways == ScheduleSpec => []ConstantsSettle
  <1>1. ASSUME ScheduleInv PROVE ConstantsSettle
    <2>1. ScheduleTypeOK /\ ValuesStand /\ FailuresForReason /\ AwaitingUnknown
      BY <1>1 DEF ScheduleInv
    <2>2. ASSUME NEW c \in values, NeedsHopeless(c) PROVE FALSE
      <3>1. PICK g \in ConstantNames : Hopeless(g) /\ Reaches(uses, c, g)
        BY <2>2 DEF NeedsHopeless
      <3>2. values \in SUBSET DOMAIN uses /\ Closed(uses, values)
        BY <2>1 DEF ScheduleTypeOK, ConstantNames, ValuesStand, Closed
      <3>3. g \in values
        BY <2>2, <3>1, <3>2 DEF Reaches
      <3> QED
        BY <2>1, <3>1, <3>3 DEF ValuesStand
    <2> QED
      BY <2>1, <2>2 DEF ConstantsSettle, FailuresForReason, AwaitingUnknown
  <1> QED
    BY <1>1, ScheduleSafety, PTL

-----------------------------------------------------------------------------
(* Chains of imports. *)

\* A file is a chain.
LEMMA ChainOfOne == ASSUME NEW f \in Files PROVE ChainOf(f, 1)
  <1> DEFINE c == [k \in 1..1 |-> f]
  <1>1. c \in [1..1 -> Files] /\ c[1] = f
    OBVIOUS
  <1>2. 1..1 - 1 = {}
    OBVIOUS
  <1>3. Follows(c, 1)
    BY <1>2 DEF Follows
  <1> QED
    BY <1>1, <1>3 DEF ChainOf

\* An importer lengthens a chain.
LEMMA ChainFromImporter ==
    ASSUME NEW f \in Files, NEW t \in Range(importGraph[f]), NEW n \in Nat \ {0}, ChainOf(t, n)
    PROVE  ChainOf(f, n + 1)
  <1>1. PICK d \in [1..n -> Files] : d[1] = t /\ Follows(d, n)
    BY DEF ChainOf
  <1> DEFINE c == [k \in 1..n + 1 |-> IF k = 1 THEN f ELSE d[k - 1]]
  <1>2. \A k \in 1..n + 1 : k # 1 => k - 1 \in 1..n
    OBVIOUS
  <1>3. c \in [1..n + 1 -> Files] /\ c[1] = f
    BY <1>1, <1>2
  <1>4. ASSUME NEW k \in 1..(n + 1) - 1 PROVE c[k + 1] \in Range(importGraph[c[k]])
    <2>1. k \in 1..n /\ k + 1 \in 1..n + 1 /\ k + 1 # 1 /\ (k + 1) - 1 = k /\ k \in 1..n + 1
      OBVIOUS
    <2>2. c[k + 1] = d[k]
      BY <2>1
    <2>3. CASE k = 1
      BY <1>1, <1>3, <2>2, <2>3
    <2>4. CASE k # 1
      <3>1. k - 1 \in 1..n - 1 /\ (k - 1) + 1 = k
        BY <2>1, <2>4
      <3>2. c[k] = d[k - 1]
        BY <2>1, <2>4
      <3>3. d[(k - 1) + 1] \in Range(importGraph[d[k - 1]])
        BY <1>1, <3>1 DEF Follows
      <3> QED
        BY <2>2, <3>1, <3>2, <3>3
    <2> QED
      BY <2>3, <2>4
  <1> HIDE DEF c
  <1> QED
    BY <1>3, <1>4 DEF ChainOf, Follows

\* A chain may be cut short.
LEMMA ChainCut ==
    ASSUME NEW f, NEW n \in Nat, NEW m \in Nat \ {0}, m <= n, ChainOf(f, n)
    PROVE  ChainOf(f, m)
  <1>1. PICK d \in [1..n -> Files] : d[1] = f /\ Follows(d, n)
    BY DEF ChainOf
  <1> DEFINE c == [k \in 1..m |-> d[k]]
  <1>2. \A k \in 1..m : k \in 1..n
    OBVIOUS
  <1>3. c \in [1..m -> Files] /\ c[1] = f
    BY <1>1, <1>2
  <1>4. ASSUME NEW k \in 1..m - 1 PROVE c[k + 1] \in Range(importGraph[c[k]])
    <2>1. k \in 1..m /\ k + 1 \in 1..m /\ k \in 1..n - 1
      OBVIOUS
    <2>2. c[k] = d[k] /\ c[k + 1] = d[k + 1]
      BY <2>1
    <2> QED
      BY <1>1, <2>1, <2>2 DEF Follows
  <1> HIDE DEF c
  <1> QED
    BY <1>3, <1>4 DEF ChainOf, Follows

\* The callers lengthen a chain that their last import begins.
LEMMA ChainOfCalls ==
    ASSUME WalkTypeOK, VisitsSound, visits # <<>>, NEW m \in Nat \ {0},
           NEW t \in Range(importGraph[Caller.file]), ChainOf(t, m)
    PROVE  ChainOf(EntryFile, Len(visits) + m)
  <1> DEFINE n == Len(visits)
             S == {j \in Nat : j < n => ChainOf(visits[n - j].file, (m + 1) + j)}
  <1>1. n \in Nat \ {0} /\ DOMAIN visits = 1..n /\ \A k \in 1..n : visits[k] \in Visits
    BY DEF WalkTypeOK
  <1>2. \A k \in 1..n : visits[k].file \in Files
    BY <1>1 DEF Visits
  <1>3. 0 \in S
    <2>1. visits[n - 0] = Caller /\ n \in 1..n
      BY <1>1 DEF Caller
    <2>2. Caller.file \in Files
      BY <1>2, <2>1 DEF Caller
    <2>3. ChainOf(Caller.file, m + 1)
      BY <2>2, ChainFromImporter
    <2> QED
      BY <2>1, <2>3
  <1>4. ASSUME NEW j \in Nat, j \in S, j + 1 < n PROVE ChainOf(visits[n - (j + 1)].file, (m + 1) + (j + 1))
    <2> DEFINE k == n - (j + 1)
               l == n - j
    <2>1. k \in 1..n /\ l \in 1..n /\ l = k + 1 /\ (m + 1) + j \in Nat \ {0}
          /\ ((m + 1) + j) + 1 = (m + 1) + (j + 1)
      BY <1>1, <1>4
    <2>2. ChainOf(visits[l].file, (m + 1) + j)
      BY <1>1, <1>4
    <2> HIDE DEF k, l, n
    <2>3. visits[k].next \in DOMAIN importGraph[visits[k].file]
          /\ importGraph[visits[k].file][visits[k].next] = visits[l].file
      BY <1>1, <2>1 DEF VisitsSound
    <2>4. visits[l].file \in Range(importGraph[visits[k].file])
      BY <2>3 DEF Range
    <2>5. visits[k].file \in Files
      BY <1>2, <2>1
    <2>6. ChainOf(visits[k].file, ((m + 1) + j) + 1)
      BY <2>1, <2>2, <2>4, <2>5, ChainFromImporter
    <2> QED
      BY <2>1, <2>6 DEF k
  <1>5. ASSUME NEW j \in Nat, j \in S PROVE j + 1 \in S
    <2>1. j + 1 < n => ChainOf(visits[n - (j + 1)].file, (m + 1) + (j + 1))
      BY <1>4, <1>5
    <2> QED
      BY <2>1
  <1>6. \A j \in Nat : j \in S
    BY <1>3, <1>5, Induction
  <1>7. ChainOf(visits[n - (n - 1)].file, (m + 1) + (n - 1))
    <2>1. n - 1 \in S /\ n - 1 < n
      BY <1>1, <1>6
    <2> QED
      BY <2>1
  <1>8. n - (n - 1) = 1 /\ (m + 1) + (n - 1) = n + m
    BY <1>1
  <1> QED
    BY <1>7, <1>8 DEF VisitsSound

\* A call for a file that is being visited could go on for ever.
LEMMA ChainOfCycle ==
    ASSUME WalkTypeOK, VisitsSound, visits # <<>>, NEW t \in Active, t \in Range(importGraph[Caller.file]),
           NEW m \in Nat \ {0}
    PROVE  ChainOf(EntryFile, m)
  <1> DEFINE n == Len(visits)
             S == {j \in Nat : \A k \in 1..n : ChainOf(visits[k].file, j + 1)}
  <1>1. n \in Nat \ {0} /\ DOMAIN visits = 1..n /\ \A k \in 1..n : visits[k] \in Visits
    BY DEF WalkTypeOK
  <1>2. \A k \in 1..n : visits[k].file \in Files
    BY <1>1 DEF Visits
  <1>3. 0 \in S
    BY <1>2, ChainOfOne
  <1>4. ASSUME NEW k \in 1..n PROVE \E l \in 1..n : visits[l].file \in Range(importGraph[visits[k].file])
    <2>1. CASE k = n
      <3>1. PICK l \in 1..n : t = visits[l].file
        BY <1>1 DEF Active
      <3> QED
        BY <2>1, <3>1 DEF Caller
    <2>2. CASE k # n
      <3>1. k + 1 \in 1..n
        <4>1. n \in Nat /\ k \in 1..n /\ k # n
          BY <1>1, <2>2
        <4> HIDE DEF n
        <4> QED
          BY <4>1
      <3>2. visits[k].next \in DOMAIN importGraph[visits[k].file]
            /\ importGraph[visits[k].file][visits[k].next] = visits[k + 1].file
        BY <1>1, <3>1 DEF VisitsSound
      <3> QED
        BY <3>1, <3>2 DEF Range
    <2> QED
      BY <2>1, <2>2
  <1>5. ASSUME NEW j \in Nat, j \in S PROVE j + 1 \in S
    <2>1. SUFFICES ASSUME NEW k \in 1..n PROVE ChainOf(visits[k].file, (j + 1) + 1)
      BY <1>5
    <2>2. PICK l \in 1..n : visits[l].file \in Range(importGraph[visits[k].file])
      BY <1>4
    <2>3. ChainOf(visits[l].file, j + 1) /\ j + 1 \in Nat \ {0} /\ visits[k].file \in Files
      BY <1>2, <1>5
    <2> QED
      BY <2>2, <2>3, ChainFromImporter
  <1>6. \A j \in Nat : j \in S
    BY <1>3, <1>5, Induction
  <1>7. ChainOf(visits[1].file, (m - 1) + 1) /\ (m - 1) + 1 = m
    <2>1. m - 1 \in Nat /\ 1 \in 1..n
      BY <1>1
    <2>2. m - 1 \in S
      BY <1>6, <2>1
    <2> QED
      BY <2>1, <2>2
  <1> QED
    BY <1>7 DEF VisitsSound

\* Where heights fall along imports, no chain is longer than its first file is high.
LEMMA ChainsEnd ==
    ASSUME WalkTypeOK, FinishedSound, NEW f \in Finished, NEW n \in Nat, heights[f] < n, ChainOf(f, n)
    PROVE  FALSE
  <1>1. PICK c \in [1..n -> Files] : c[1] = f /\ Follows(c, n)
    BY DEF ChainOf
  <1>2. \A g \in Finished : heights[g] \in Nat \ {0}
    BY DEF WalkTypeOK
  <1> DEFINE S == {j \in Nat : j < n => c[j + 1] \in Finished /\ heights[c[j + 1]] + j <= heights[f]}
  <1>3. 0 \in S
    BY <1>1, <1>2
  <1>4. ASSUME NEW j \in Nat, j \in S, j + 1 < n
        PROVE  c[(j + 1) + 1] \in Finished /\ heights[c[(j + 1) + 1]] + (j + 1) <= heights[f]
    <2> DEFINE this == c[j + 1]
               next == c[(j + 1) + 1]
    <2>1. this \in Finished /\ heights[this] + j <= heights[f]
      BY <1>4
    <2>2. next \in Range(importGraph[this])
      <3>1. j + 1 \in 1..n - 1
        BY <1>4
      <3> QED
        BY <1>1, <3>1 DEF Follows
    <2> HIDE DEF this, next
    <2>3. PICK e \in DOMAIN importGraph[this] : next = importGraph[this][e]
      BY <2>2 DEF Range
    <2>4. next \in Finished /\ heights[next] < heights[this]
      BY <2>1, <2>3 DEF FinishedSound, Imported
    <2>5. heights[next] \in Nat /\ heights[this] \in Nat /\ heights[f] \in Nat
      BY <1>2, <2>1, <2>4
    <2>6. heights[next] + (j + 1) <= heights[f]
      BY <2>1, <2>4, <2>5
    <2> QED
      BY <2>4, <2>6 DEF next
  <1>5. \A j \in Nat : j \in S => j + 1 \in S
    BY <1>4
  <1>6. \A j \in Nat : j \in S
    BY <1>3, <1>5, Induction
  <1>7. n - 1 \in Nat /\ n - 1 < n /\ (n - 1) + 1 = n
    BY <1>2
  <1>8. c[n] \in Finished /\ heights[c[n]] + (n - 1) <= heights[f]
    BY <1>6, <1>7
  <1> QED
    BY <1>2, <1>7, <1>8

(* The walk. *)

\* The type of a call that is under way.
LEMMA CallerType ==
    ASSUME WalkTypeOK, visits # <<>>
    PROVE  /\ Len(visits) \in Nat \ {0} /\ DOMAIN visits = 1..Len(visits) /\ Len(visits) \in DOMAIN visits
           /\ Caller = visits[Len(visits)] /\ Caller.file \in Files /\ Caller.next \in Nat \ {0}
           /\ Caller.file \in Active
           /\ \A k \in DOMAIN visits : /\ visits[k] \in Visits /\ visits[k].file \in Files
                                       /\ visits[k].next \in Nat \ {0}
  <1>1. /\ Len(visits) \in Nat \ {0} /\ DOMAIN visits = 1..Len(visits) /\ Len(visits) \in DOMAIN visits
    BY PoppedIsFront DEF WalkTypeOK
  <1>2. \A k \in DOMAIN visits : visits[k] \in Visits
    BY DEF WalkTypeOK
  <1> QED
    BY <1>1, <1>2 DEF Visits, Caller, Active

\* Imports by position.
LEMMA ImportsType ==
    ASSUME WalkTypeOK, NEW f \in Files
    PROVE  /\ importGraph[f] \in Seq(Files) /\ DOMAIN importGraph[f] = 1..Len(importGraph[f])
           /\ Len(importGraph[f]) \in Nat
           /\ \A e \in DOMAIN importGraph[f] : /\ importGraph[f][e] \in Files
                                               /\ importGraph[f][e] \in Range(importGraph[f])
           /\ \A t \in Range(importGraph[f]) : t \in Files /\ \E e \in DOMAIN importGraph[f] : t = importGraph[f][e]
  <1>1. importGraph[f] \in Seq(Files)
    BY DEF WalkTypeOK
  <1> QED
    BY <1>1 DEF Range

\* What is visited is reached.
LEMMA VisitingFacts ==
    ASSUME WalkInv, NEW f, Visiting(f)
    PROVE  /\ verdict = "loading" /\ f \in Files /\ IsReached(f)
           /\ WalkTypeOK /\ OpenedOnce /\ FinishedSound /\ VisitsSound
           /\ (visits = <<>> <=> opened = <<>>)
           /\ visits = <<>> => f = EntryFile
           /\ visits # <<>> => /\ f \in Range(importGraph[Caller.file])
                               /\ Caller.next \in DOMAIN importGraph[Caller.file]
                               /\ <<Caller.file, Caller.next>> \notin refused
                               /\ f = importGraph[Caller.file][Caller.next]
  <1>1. /\ verdict = "loading"
        /\ WalkTypeOK /\ OpenedOnce /\ FinishedSound /\ VisitsSound
        /\ (visits = <<>> <=> opened = <<>>)
    BY DEF Visiting, WalkInv
  <1>2. CASE visits = <<>>
    <2>1. f = EntryFile
      BY <1>1, <1>2 DEF Visiting, AtImport
    <2>2. f \in Files /\ IsReached(f)
      BY <1>1, <2>1, ReachesSelf DEF WalkTypeOK, IsReached
    <2> QED
      BY <1>1, <1>2, <2>1, <2>2
  <1>3. CASE visits # <<>>
    <2>1. /\ Caller.next \in DOMAIN importGraph[Caller.file]
          /\ <<Caller.file, Caller.next>> \notin refused
          /\ f = importGraph[Caller.file][Caller.next]
      BY <1>1, <1>3 DEF Visiting, AtImport
    <2>2. Caller.file \in Files /\ Caller.file \in Active
      BY <1>1, <1>3, CallerType
    <2>3. f \in Files /\ f \in Range(importGraph[Caller.file])
      BY <1>1, <2>1, <2>2, ImportsType
    <2>4. IsReached(Caller.file)
      BY <1>1, <2>2 DEF OpenedOnce
    <2>5. IsReached(f)
      BY <2>3, <2>4, ReachesNext, ReachesOn DEF IsReached
    <2> QED
      BY <1>1, <1>3, <2>1, <2>3, <2>5
  <1> QED
    BY <1>2, <1>3

\* What a program's chains and faults are is not for the walk to change.
LEMMA ProgramStays ==
    ASSUME UNCHANGED <<importGraph, broken, refused>>
    PROVE  /\ Unreadable' <=> Unreadable
           /\ \A f, n : ChainOf(f, n)' <=> ChainOf(f, n)
           /\ \A f : IsReached(f)' <=> IsReached(f)
           /\ Files' = Files /\ Visits' = Visits
  BY DEF Unreadable, ChainOf, Follows, Files, IsReached, Unsound, Visits

\* The finished files stay sound while no file is added to them.
LEMMA FinishedStay ==
    ASSUME FinishedSound, UNCHANGED <<importGraph, broken, refused, heights>>
    PROVE  FinishedSound'
  BY ProgramStays DEF FinishedSound, Finished, Imported

\* The walk begins in order.
LEMMA WalkBegins == WalkInit => WalkInv
  <1> SUFFICES ASSUME WalkInit PROVE WalkInv
    OBVIOUS
  <1>1. /\ opened = <<>> /\ heights = <<>> /\ visits = <<>> /\ verdict = "loading"
        /\ importGraph \in ImportGraphs
    BY DEF WalkInit
  <1>2. DOMAIN opened = {} /\ DOMAIN heights = {} /\ DOMAIN visits = {}
    BY <1>1
  <1>3. WalkTypeOK
    BY <1>1, <1>2, WalkAssumption DEF WalkTypeOK, Files, Finished
  <1>4. Active = {} /\ Finished = {} /\ Range(opened) = {}
    BY <1>2 DEF Active, Finished, Range
  <1>5. OpenedOnce /\ FinishedSound /\ VisitsSound
    BY <1>1, <1>2, <1>4 DEF OpenedOnce, FinishedSound, VisitsSound, Injective
  <1> QED
    BY <1>1, <1>3, <1>5 DEF WalkInv

(* Errors. *)

\* A program that cannot be read may fail.
LEMMA WalkFailsKeeps ==
    ASSUME WalkInv, WalkFails, Unreadable
    PROVE  WalkInv'
  <1>1. /\ verdict' = "failed"
        /\ UNCHANGED <<importGraph, broken, refused, opened, heights, visits>>
    BY DEF WalkFails, walkInput
  <1>2. WalkTypeOK'
    BY <1>1 DEF WalkInv, WalkTypeOK, Files, Finished, Visits
  <1>3. Unreadable'
    BY <1>1, ProgramStays
  <1> QED
    BY <1>1, <1>2, <1>3 DEF WalkInv

\* The four errors are errors of the program.
LEMMA ErrorsKeep ==
    ASSUME WalkInv, RefuseImport \/ VisitCycle \/ VisitTooDeep \/ VisitBroken
    PROVE  WalkInv'
  <1>1. CASE RefuseImport
    <2>1. /\ verdict = "loading" /\ visits # <<>> /\ Caller.next \in DOMAIN importGraph[Caller.file]
          /\ <<Caller.file, Caller.next>> \in refused /\ WalkFails
      BY <1>1 DEF RefuseImport, AtImport
    <2>2. WalkTypeOK /\ OpenedOnce
      BY <2>1 DEF WalkInv
    <2>3. Caller.file \in Files /\ IsReached(Caller.file)
      BY <2>1, <2>2, CallerType DEF OpenedOnce
    <2>4. Unreadable
      BY <2>1, <2>3 DEF Unreadable, Unsound
    <2> QED
      BY <2>1, <2>4, WalkFailsKeeps
  <1>2. CASE VisitCycle
    <2>1. PICK f \in Active : Visiting(f) /\ WalkFails
      BY <1>2 DEF VisitCycle
    <2>2. visits # <<>>
      <3>1. f \in Range(opened)
        BY <2>1, VisitingFacts DEF OpenedOnce
      <3>2. opened # <<>>
        <4>1. ASSUME opened = <<>> PROVE FALSE
          <5>1. DOMAIN opened = {}
            BY <4>1
          <5> QED
            BY <3>1, <5>1 DEF Range
        <4> QED
          BY <4>1
      <3> QED
        BY <2>1, <3>2, VisitingFacts
    <2>3. MaxDepth + 1 \in Nat \ {0}
      BY WalkAssumption
    <2>4. ChainOf(EntryFile, MaxDepth + 1)
      BY <2>1, <2>2, <2>3, VisitingFacts, ChainOfCycle
    <2> QED
      BY <2>1, <2>4, WalkFailsKeeps DEF Unreadable
  <1>3. CASE VisitTooDeep
    <2>1. PICK f \in Files : Visiting(f) /\ ExceedsDepth(f) /\ WalkFails
      BY <1>3 DEF VisitTooDeep
    <2> DEFINE m == KnownHeightOf(f)
    <2>2. m \in Nat \ {0} /\ ChainOf(f, m)
      BY <2>1, VisitingFacts, ChainOfOne DEF KnownHeightOf, FinishedSound, WalkTypeOK
    <2>3. Len(visits) + m > MaxDepth /\ Len(visits) \in Nat
      BY <2>1, VisitingFacts DEF ExceedsDepth, WalkTypeOK
    <2> HIDE DEF m
    <2>4. ChainOf(EntryFile, Len(visits) + m)
      <3>1. CASE visits = <<>>
        <4>1. Len(visits) = 0 /\ 0 + m = m
          BY <2>2, <3>1
        <4> QED
          BY <2>1, <2>2, <3>1, <4>1, VisitingFacts
      <3>2. CASE visits # <<>>
        BY <2>1, <2>2, <3>2, VisitingFacts, ChainOfCalls
      <3> QED
        BY <3>1, <3>2
    <2>5. MaxDepth + 1 \in Nat \ {0} /\ MaxDepth + 1 <= Len(visits) + m /\ Len(visits) + m \in Nat
      BY <2>2, <2>3, WalkAssumption
    <2>6. ChainOf(EntryFile, MaxDepth + 1)
      BY <2>4, <2>5, ChainCut
    <2> QED
      BY <2>1, <2>6, WalkFailsKeeps DEF Unreadable
  <1>4. CASE VisitBroken
    <2>1. PICK f \in broken : Visiting(f) /\ WalkFails
      BY <1>4 DEF VisitBroken
    <2>2. f \in Files /\ IsReached(f)
      BY <2>1, VisitingFacts
    <2> QED
      BY <2>1, <2>2, WalkFailsKeeps DEF Unreadable, Unsound
  <1> QED
    BY <1>1, <1>2, <1>3, <1>4

(* Progress. *)

\* A call that goes on to its next import.
LEMMA SteppedOn ==
    ASSUME NEW s \in Seq(Visits), s # <<>>
    PROVE  LET n == Len(s)
               t == Append(Popped(s), VisitAt(s[n].file, s[n].next + 1)) IN
           /\ n \in Nat \ {0} /\ DOMAIN s = 1..n /\ t \in Seq(Visits) /\ DOMAIN t = 1..n /\ Len(t) = n
           /\ t # <<>>
           /\ \A k \in 1..n : t[k].file = s[k].file
           /\ \A k \in 1..n - 1 : t[k] = s[k]
           /\ t[n].next = s[n].next + 1
  <1> DEFINE n == Len(s)
             onward == VisitAt(s[n].file, s[n].next + 1)
             front == Popped(s)
  <1>1. /\ n \in Nat \ {0} /\ DOMAIN s = 1..n /\ s[n] \in Visits
        /\ front \in Seq(Visits) /\ Len(front) = n - 1 /\ \A k \in 1..n - 1 : front[k] = s[k]
    BY PoppedIsFront
  <1>2. s[n].file \in Files /\ s[n].next \in Nat
    BY <1>1 DEF Visits
  <1>3. onward \in Visits /\ onward.file = s[n].file /\ onward.next = s[n].next + 1
    BY <1>2 DEF Visits, VisitAt
  <1> HIDE DEF n, onward, front
  <1>4. /\ Append(front, onward) \in Seq(Visits) /\ Len(Append(front, onward)) = Len(front) + 1
        /\ Append(front, onward) # <<>>
        /\ DOMAIN Append(front, onward) = 1..Len(front) + 1
        /\ \A k \in 1..Len(front) : Append(front, onward)[k] = front[k]
        /\ Append(front, onward)[Len(front) + 1] = onward
    BY <1>1, <1>3, Appended
  <1> DEFINE t == Append(front, onward)
  <1>5. Len(front) + 1 = n /\ Len(front) = n - 1
    BY <1>1
  <1>6. /\ t \in Seq(Visits) /\ DOMAIN t = 1..n /\ Len(t) = n /\ t # <<>>
        /\ \A k \in 1..n - 1 : t[k] = s[k]
        /\ t[n] = onward
    BY <1>1, <1>4, <1>5
  <1> HIDE DEF t
  <1>7. ASSUME NEW k \in 1..n PROVE t[k].file = s[k].file
    <2>1. CASE k = n
      BY <1>3, <1>6, <2>1
    <2>2. CASE k # n
      <3>1. k \in 1..n - 1
        BY <1>1, <2>2
      <3> QED
        BY <1>6, <3>1
    <2> QED
      BY <2>1, <2>2
  <1>8. t[n].next = s[n].next + 1
    BY <1>3, <1>6
  <1> QED
    BY <1>1, <1>6, <1>7, <1>8 DEF n, t, front, onward

\* An import that is finished may be passed by the last call.
LEMMA PassedSound ==
    ASSUME WalkTypeOK, NEW s \in Seq(Visits), s # <<>>, s[Len(s)].next \in DOMAIN importGraph[s[Len(s)].file],
           NEW t, t \in Seq(Visits), DOMAIN t = 1..Len(s),
           \A k \in 1..Len(s) : t[k].file = s[k].file, \A k \in 1..Len(s) - 1 : t[k] = s[k],
           t[Len(s)].next = s[Len(s)].next + 1,
           NEW k \in 1..Len(s), NEW e \in DOMAIN importGraph[t[k].file], e < t[k].next
    PROVE  \/ e \in DOMAIN importGraph[s[k].file] /\ e < s[k].next
           \/ k = Len(s) /\ e = s[k].next
  <1> DEFINE n == Len(s)
  <1>1. n \in Nat /\ DOMAIN s = 1..n /\ s[k] \in Visits
    OBVIOUS
  <1>2. s[k].next \in Nat /\ s[k].file \in Files
    BY <1>1 DEF Visits
  <1>3. e \in Nat
    BY <1>2, ImportsType
  <1>4. CASE k = n
    <2>1. t[k].next = s[k].next + 1 /\ e < s[k].next + 1
      BY <1>4
    <2>2. e < s[k].next \/ e = s[k].next
      BY <1>2, <1>3, <2>1
    <2> QED
      BY <1>4, <2>2
  <1>5. CASE k # n
    <2>1. k \in 1..n - 1
      <3>1. n \in Nat /\ k \in 1..n /\ k # n
        BY <1>1, <1>5
      <3> HIDE DEF n
      <3> QED
        BY <3>1
    <2>2. t[k] = s[k]
      BY <2>1
    <2> QED
      BY <2>2
  <1> QED
    BY <1>4, <1>5

\* A file that is finished already is passed.
LEMMA VisitLoadedKeeps == ASSUME WalkInv, VisitLoaded PROVE WalkInv'
  <1> DEFINE n == Len(visits)
  <1>1. PICK f \in Range(opened) \ Active : Visiting(f) /\ ~ExceedsDepth(f)
    BY DEF VisitLoaded
  <1>2. /\ visits' = Onward
        /\ UNCHANGED <<importGraph, broken, refused, opened, heights, verdict>>
    BY DEF VisitLoaded, walkInput
  <1>3. /\ verdict = "loading" /\ WalkTypeOK /\ OpenedOnce /\ FinishedSound /\ VisitsSound
        /\ (visits = <<>> <=> opened = <<>>)
    BY <1>1, VisitingFacts
  <1>4. opened # <<>> /\ visits # <<>>
    <2>1. ASSUME opened = <<>> PROVE FALSE
      <3>1. DOMAIN opened = {}
        BY <2>1
      <3> QED
        BY <1>1, <3>1 DEF Range
    <2> QED
      BY <1>3, <2>1
  <1>5. /\ Caller.next \in DOMAIN importGraph[Caller.file]
        /\ <<Caller.file, Caller.next>> \notin refused
        /\ f = importGraph[Caller.file][Caller.next]
    BY <1>1, <1>4, VisitingFacts
  <1>6. visits \in Seq(Visits) /\ Caller = visits[n]
    BY <1>3 DEF WalkTypeOK, Caller
  <1>7. /\ n \in Nat \ {0} /\ DOMAIN visits = 1..n
        /\ visits' \in Seq(Visits) /\ DOMAIN visits' = 1..n /\ Len(visits') = n /\ visits' # <<>>
        /\ \A k \in 1..n : visits'[k].file = visits[k].file
        /\ \A k \in 1..n - 1 : visits'[k] = visits[k]
        /\ visits'[n].next = visits[n].next + 1
    BY <1>2, <1>4, <1>6, SteppedOn DEF Onward
  <1>8. f \in Finished /\ n + heights[f] <= MaxDepth
    <2>1. f \in Finished
      BY <1>1, <1>3 DEF OpenedOnce
    <2>2. n + heights[f] \in Int /\ ~(n + heights[f] > MaxDepth)
      BY <1>1, <1>3, <1>7, <2>1 DEF ExceedsDepth, KnownHeightOf, WalkTypeOK
    <2> QED
      BY <2>1, <2>2, WalkAssumption
  <1>9. WalkTypeOK'
    BY <1>2, <1>3, <1>7, ProgramStays DEF WalkTypeOK, Finished
  <1>10. Active' = Active
    BY <1>7 DEF Active
  <1>11. OpenedOnce'
    <2>1. \A g \in Range(opened) : IsReached(g)'
      BY <1>2, <1>3, ProgramStays DEF OpenedOnce
    <2>2. \A k, l \in DOMAIN visits' : visits'[k].file = visits'[l].file => k = l
      BY <1>3, <1>7 DEF OpenedOnce
    <2> QED
      BY <1>2, <1>3, <1>10, <2>1, <2>2 DEF OpenedOnce, Finished
  <1>12. VisitsSound'
    <2>1. visits'[1].file = EntryFile /\ Len(visits') <= MaxDepth
      BY <1>3, <1>4, <1>7 DEF VisitsSound
    <2>2. \A k \in 1..n : visits'[k].file \notin broken
      BY <1>3, <1>7 DEF VisitsSound
    <2>3. ASSUME NEW k \in 1..n, NEW e \in DOMAIN importGraph[visits'[k].file], e < visits'[k].next
          PROVE  Imported(visits'[k].file, e) /\ k + heights[importGraph[visits'[k].file][e]] <= MaxDepth
      <3>1. visits'[k].file = visits[k].file
        BY <1>7
      <3>2. \/ e \in DOMAIN importGraph[visits[k].file] /\ e < visits[k].next
            \/ k = n /\ e = visits[k].next
        BY <1>3, <1>4, <1>5, <1>6, <1>7, <2>3, PassedSound
      <3>3. CASE e \in DOMAIN importGraph[visits[k].file] /\ e < visits[k].next
        BY <1>3, <1>7, <3>1, <3>3 DEF VisitsSound
      <3>4. CASE k = n /\ e = visits[k].next
        <4>1. Imported(visits[k].file, e) /\ importGraph[visits[k].file][e] = f
          BY <1>5, <1>6, <1>8, <3>4 DEF Imported
        <4> QED
          BY <1>8, <3>1, <3>4, <4>1
      <3> QED
        BY <3>2, <3>3, <3>4
    <2>4. ASSUME NEW k \in 1..n, k + 1 \in 1..n
          PROVE  /\ visits'[k].next \in DOMAIN importGraph[visits'[k].file]
                 /\ <<visits'[k].file, visits'[k].next>> \notin refused
                 /\ importGraph[visits'[k].file][visits'[k].next] = visits'[k + 1].file
      <3>1. k \in 1..n - 1
        BY <1>7, <2>4
      <3>2. visits'[k] = visits[k] /\ visits'[k + 1].file = visits[k + 1].file
        BY <1>7, <2>4, <3>1
      <3> QED
        BY <1>3, <1>7, <2>4, <3>2 DEF VisitsSound
    <2> HIDE DEF n
    <2> QED
      BY <1>2, <1>7, <2>1, <2>2, <2>3, <2>4 DEF VisitsSound, Imported, Finished
  <1> QED
    BY <1>2, <1>3, <1>4, <1>7, <1>9, <1>11, <1>12, FinishedStay DEF WalkInv

\* A file that is opened is a call of its own.
LEMMA VisitNewKeeps == ASSUME WalkInv, VisitNew PROVE WalkInv'
  <1> DEFINE n == Len(visits)
  <1>1. PICK f \in Files \ (Range(opened) \cup broken) :
          /\ Visiting(f) /\ ~ExceedsDepth(f)
          /\ opened' = Append(opened, f) /\ visits' = Append(visits, VisitAt(f, 1))
    BY DEF VisitNew
  <1>2. UNCHANGED <<importGraph, broken, refused, heights, verdict>>
    BY DEF VisitNew, walkInput
  <1>3. /\ verdict = "loading" /\ WalkTypeOK /\ OpenedOnce /\ FinishedSound /\ VisitsSound
        /\ IsReached(f)
        /\ visits = <<>> => f = EntryFile
        /\ visits # <<>> => /\ Caller.next \in DOMAIN importGraph[Caller.file]
                            /\ <<Caller.file, Caller.next>> \notin refused
                            /\ f = importGraph[Caller.file][Caller.next]
    BY <1>1, VisitingFacts
  <1>4. /\ n \in Nat /\ DOMAIN visits = 1..n /\ visits \in Seq(Visits)
        /\ visits = <<>> <=> n = 0
    BY <1>3 DEF WalkTypeOK
  <1>5. VisitAt(f, 1) \in Visits /\ VisitAt(f, 1).file = f /\ VisitAt(f, 1).next = 1
    BY <1>1 DEF Visits, VisitAt
  <1>6. /\ visits' \in Seq(Visits) /\ DOMAIN visits' = 1..n + 1 /\ Len(visits') = n + 1 /\ visits' # <<>>
        /\ \A k \in 1..n : visits'[k] = visits[k]
        /\ visits'[n + 1] = VisitAt(f, 1)
    BY <1>1, <1>4, <1>5, Appended
  <1>7. /\ opened' \in Seq(Files) /\ opened' # <<>> /\ Range(opened') = Range(opened) \cup {f}
        /\ DOMAIN opened' = 1..Len(opened) + 1 /\ DOMAIN opened = 1..Len(opened) /\ Len(opened) \in Nat
        /\ \A k \in 1..Len(opened) : opened'[k] = opened[k]
        /\ opened'[Len(opened) + 1] = f
    BY <1>1, <1>3, Appended DEF WalkTypeOK
  <1>8. n + 1 <= MaxDepth
    <2>1. f \notin Finished
      BY <1>1, <1>3 DEF OpenedOnce
    <2>2. ~(n + 1 > MaxDepth)
      BY <1>1, <2>1 DEF ExceedsDepth, KnownHeightOf
    <2> QED
      BY <1>4, <2>2, WalkAssumption
  <1>9. WalkTypeOK'
    BY <1>2, <1>3, <1>6, <1>7, ProgramStays DEF WalkTypeOK, Finished
  <1> HIDE DEF n
  <1>10. \A k \in 1..n + 1 : k \in 1..n \/ k = n + 1
    BY <1>4
  <1>11. \A k \in 1..n : k \in 1..n + 1
    BY <1>4
  <1>12. /\ \A k \in 1..n : visits'[k].file = visits[k].file /\ visits[k].file \in Active
         /\ visits'[n + 1].file = f /\ f \notin Active /\ f \notin Finished
    <2>1. f \notin Active /\ f \notin Finished
      BY <1>1, <1>3 DEF OpenedOnce
    <2> QED
      BY <1>4, <1>5, <1>6, <2>1 DEF Active
  <1>13. Active' = Active \cup {f}
    <2>1. Active' \subseteq Active \cup {f}
      BY <1>6, <1>10, <1>12 DEF Active
    <2>2. Active \subseteq Active'
      <3>1. SUFFICES ASSUME NEW k \in 1..n PROVE visits[k].file \in Active'
        BY <1>4 DEF Active
      <3>2. k \in DOMAIN visits' /\ visits'[k].file = visits[k].file
        BY <1>6, <1>11, <1>12
      <3> QED
        BY <3>2 DEF Active
    <2>3. f \in Active'
      <3>1. n + 1 \in DOMAIN visits'
        BY <1>4, <1>6
      <3> QED
        BY <1>12, <3>1 DEF Active
    <2> QED
      BY <2>1, <2>2, <2>3
  <1>14. OpenedOnce'
    <2>1. Injective(opened')
      <3> DEFINE m == Len(opened)
      <3>1. \A i \in 1..m : opened[i] \in Range(opened)
        BY <1>7 DEF Range
      <3>2. \A i, j \in 1..m : opened[i] = opened[j] => i = j
        BY <1>3, <1>7 DEF OpenedOnce, Injective
      <3>3. m \in Nat /\ DOMAIN opened' = 1..m + 1 /\ opened'[m + 1] = f /\ f \notin Range(opened)
            /\ \A k \in 1..m : opened'[k] = opened[k]
        BY <1>1, <1>7
      <3> HIDE DEF m
      <3>4. \A k \in 1..m + 1 : k \in 1..m \/ k = m + 1
        BY <3>3
      <3> QED
        BY <3>1, <3>2, <3>3, <3>4 DEF Injective
    <2>2. \A g \in Range(opened') : IsReached(g)'
      BY <1>2, <1>3, <1>7, ProgramStays DEF OpenedOnce
    <2>3. \A k, l \in 1..n + 1 : visits'[k].file = visits'[l].file => k = l
      <3>1. \A k, l \in 1..n : visits[k].file = visits[l].file => k = l
        BY <1>3, <1>4 DEF OpenedOnce
      <3> QED
        BY <1>10, <1>12, <3>1
    <2>4. Range(opened') = Active' \cup Finished' /\ Active' \cap Finished' = {}
      BY <1>2, <1>3, <1>7, <1>12, <1>13 DEF OpenedOnce, Finished
    <2> QED
      BY <1>6, <2>1, <2>2, <2>3, <2>4 DEF OpenedOnce
  <1>15. VisitsSound'
    <2>1. visits'[1].file = EntryFile /\ Len(visits') <= MaxDepth
      <3>1. CASE n = 0
        BY <1>3, <1>4, <1>6, <1>8, <1>12, <3>1
      <3>2. CASE n # 0
        <4>1. 1 \in 1..n /\ visits # <<>>
          BY <1>4, <3>2
        <4> QED
          BY <1>3, <1>6, <1>8, <1>12, <4>1 DEF VisitsSound
      <3> QED
        BY <3>1, <3>2
    <2>2. \A k \in 1..n + 1 : visits'[k].file \notin broken
      BY <1>1, <1>3, <1>4, <1>10, <1>12 DEF VisitsSound
    <2>3. ASSUME NEW k \in 1..n + 1, NEW e \in DOMAIN importGraph[visits'[k].file], e < visits'[k].next
          PROVE  Imported(visits'[k].file, e) /\ k + heights[importGraph[visits'[k].file][e]] <= MaxDepth
      <3>1. CASE k \in 1..n
        <4>1. visits'[k] = visits[k]
          BY <1>6, <3>1
        <4> QED
          BY <1>3, <1>4, <2>3, <3>1, <4>1 DEF VisitsSound
      <3>2. CASE k = n + 1
        <4>1. e < 1 /\ e \in DOMAIN importGraph[f]
          BY <1>5, <1>6, <2>3, <3>2
        <4>2. e \in Nat \ {0}
          BY <1>1, <1>3, <4>1, ImportsType
        <4> QED
          BY <4>1, <4>2
      <3> QED
        BY <1>10, <3>1, <3>2
    <2>4. ASSUME NEW k \in 1..n + 1, k + 1 \in 1..n + 1
          PROVE  /\ visits'[k].next \in DOMAIN importGraph[visits'[k].file]
                 /\ <<visits'[k].file, visits'[k].next>> \notin refused
                 /\ importGraph[visits'[k].file][visits'[k].next] = visits'[k + 1].file
      <3>1. k \in 1..n /\ visits'[k] = visits[k]
        BY <1>4, <1>6, <2>4
      <3>2. CASE k + 1 \in 1..n
        <4>1. visits'[k + 1] = visits[k + 1]
          BY <1>6, <3>2
        <4> QED
          BY <1>3, <1>4, <3>1, <3>2, <4>1 DEF VisitsSound
      <3>3. CASE k + 1 = n + 1
        <4>1. k = n /\ visits # <<>>
          BY <1>4, <3>1, <3>3
        <4>2. visits[k] = Caller
          BY <4>1 DEF Caller, n
        <4> QED
          BY <1>3, <1>12, <3>1, <3>3, <4>1, <4>2
      <3> QED
        BY <1>10, <2>4, <3>2, <3>3
    <2> QED
      BY <1>2, <1>6, <2>1, <2>2, <2>3, <2>4 DEF VisitsSound, Imported, Finished
  <1> QED
    BY <1>2, <1>3, <1>6, <1>7, <1>9, <1>14, <1>15, FinishedStay DEF WalkInv

\* What a finished call leaves behind: its file's height, the limit kept.
LEMMA FinishedFile ==
    ASSUME WalkInv, FinishModule
    PROVE  \E h \in Nat \ {0} :
             LET g == Caller.file IN
             /\ visits # <<>> /\ verdict = "loading" /\ g \in Files /\ g \in Active /\ g \notin Finished
             /\ g \notin broken /\ ChainOf(g, h) /\ Len(visits) - 1 + h <= MaxDepth
             /\ \A e \in DOMAIN importGraph[g] : Imported(g, e) /\ heights[importGraph[g][e]] < h
             /\ heights' = [f \in Finished \cup {g} |-> IF f = g THEN h ELSE heights[f]]
  <1> DEFINE g == Caller.file
             n == Len(visits)
  <1>1. verdict = "loading" /\ visits # <<>> /\ ~AtImport
    BY DEF FinishModule
  <1>2. PICK h \in {1} \cup {heights[t] + 1 : t \in Finished} :
          /\ HeightAbove(g, h)
          /\ heights' = [f \in Finished \cup {g} |-> IF f = g THEN h ELSE heights[f]]
    BY DEF FinishModule
  <1>3. WalkTypeOK /\ OpenedOnce /\ FinishedSound /\ VisitsSound
    BY <1>1 DEF WalkInv
  <1>4. /\ n \in Nat \ {0} /\ n \in DOMAIN visits /\ Caller = visits[n] /\ n <= MaxDepth
        /\ g \in Files /\ g \in Active /\ Caller.next \in Nat \ {0}
    BY <1>1, <1>3, CallerType DEF VisitsSound
  <1>5. g \notin Finished /\ g \notin broken
    BY <1>3, <1>4 DEF OpenedOnce, VisitsSound
  <1>6. \A t \in Finished : heights[t] \in Nat \ {0}
    BY <1>3 DEF WalkTypeOK
  <1>7. h \in Nat \ {0}
    BY <1>2, <1>6
  <1>8. ASSUME NEW e \in DOMAIN importGraph[g]
        PROVE  Imported(g, e) /\ heights[importGraph[g][e]] < h /\ n + heights[importGraph[g][e]] <= MaxDepth
    <2>1. Caller.next \notin DOMAIN importGraph[g]
      BY <1>1 DEF AtImport
    <2>2. e < Caller.next
      <3>1. DOMAIN importGraph[g] = 1..Len(importGraph[g]) /\ Len(importGraph[g]) \in Nat
        BY <1>3, <1>4, ImportsType
      <3>2. e \in Nat
        BY <1>8, <3>1
      <3> HIDE DEF g
      <3> QED
        BY <1>4, <1>8, <2>1, <3>1, <3>2
    <2>3. Imported(g, e) /\ n + heights[importGraph[g][e]] <= MaxDepth
      BY <1>3, <1>4, <1>8, <2>2 DEF VisitsSound
    <2>4. importGraph[g][e] \in Range(importGraph[g])
      BY <1>3, <1>4, <1>8, ImportsType
    <2> QED
      BY <1>2, <2>3, <2>4 DEF HeightAbove
  <1>9. ChainOf(g, h) /\ n - 1 + h <= MaxDepth
    <2>1. CASE h = 1
      BY <1>4, <2>1, ChainOfOne, WalkAssumption
    <2>2. CASE h # 1
      <3>1. PICK t \in Range(importGraph[g]) : h = heights[t] + 1
        BY <1>2, <2>2 DEF HeightAbove
      <3>2. PICK e \in DOMAIN importGraph[g] : t = importGraph[g][e]
        BY <1>3, <1>4, ImportsType
      <3>3. t \in Finished /\ n + heights[t] <= MaxDepth
        BY <1>8, <3>2 DEF Imported
      <3>4. heights[t] \in Nat \ {0} /\ ChainOf(t, heights[t])
        BY <1>3, <1>6, <3>3 DEF FinishedSound
      <3>5. ChainOf(g, h)
        BY <1>4, <3>1, <3>4, ChainFromImporter
      <3>6. n - 1 + h <= MaxDepth
        BY <1>4, <3>1, <3>3, <3>4, WalkAssumption
      <3> QED
        BY <3>5, <3>6
    <2> QED
      BY <2>1, <2>2
  <1> QED
    BY <1>1, <1>2, <1>4, <1>5, <1>7, <1>8, <1>9

\* The file whose imports are done is finished, and its importer goes on.
LEMMA FinishModuleKeeps == ASSUME WalkInv, FinishModule PROVE WalkInv'
  <1> DEFINE n == Len(visits)
             g == Caller.file
             callers == Popped(visits)
  <1>1. PICK h \in Nat \ {0} :
             /\ visits # <<>> /\ verdict = "loading" /\ g \in Files /\ g \in Active /\ g \notin Finished
             /\ g \notin broken /\ ChainOf(g, h) /\ n - 1 + h <= MaxDepth
             /\ \A e \in DOMAIN importGraph[g] : Imported(g, e) /\ heights[importGraph[g][e]] < h
             /\ heights' = [f \in Finished \cup {g} |-> IF f = g THEN h ELSE heights[f]]
    BY FinishedFile
  <1>2. /\ UNCHANGED <<importGraph, broken, refused, opened>>
        /\ callers = <<>> => visits' = <<>> /\ verdict' = "read"
        /\ callers # <<>> =>
              /\ visits' = Append(Popped(callers),
                                  VisitAt(callers[Len(callers)].file, callers[Len(callers)].next + 1))
              /\ verdict' = verdict
    BY DEF FinishModule, walkInput
  <1>3. WalkTypeOK /\ OpenedOnce /\ FinishedSound /\ VisitsSound /\ (visits = <<>> <=> opened = <<>>)
    BY <1>1 DEF WalkInv
  <1>4. /\ n \in Nat \ {0} /\ DOMAIN visits = 1..n /\ visits[n].file = g
        /\ callers \in Seq(Visits) /\ Len(callers) = n - 1 /\ DOMAIN callers = 1..n - 1
        /\ \A k \in 1..n - 1 : callers[k] = visits[k]
        /\ visits \in Seq(Visits)
    BY <1>1, <1>3, PoppedIsFront DEF WalkTypeOK, Caller
  <1>5. /\ Finished' = Finished \cup {g} /\ heights'[g] = h
        /\ \A f \in Finished : heights'[f] = heights[f]
        /\ heights' \in [Finished' -> Nat \ {0}] /\ Finished' \subseteq Files
    BY <1>1, <1>3 DEF Finished, WalkTypeOK
  <1> HIDE DEF n, g, callers
  <1>6. FinishedSound'
    <2>1. SUFFICES ASSUME NEW f \in Finished'
                   PROVE  /\ f \notin broken /\ ChainOf(f, heights'[f])
                          /\ \A e \in DOMAIN importGraph[f] : /\ <<f, e>> \notin refused
                                                              /\ importGraph[f][e] \in Finished'
                                                              /\ heights'[importGraph[f][e]] < heights'[f]
      BY <1>2, ProgramStays DEF FinishedSound, Imported
    <2>2. CASE f \in Finished
      BY <1>3, <1>5, <2>2 DEF FinishedSound, Imported
    <2>3. CASE f = g
      BY <1>1, <1>5, <2>3 DEF Imported
    <2> QED
      BY <1>5, <2>2, <2>3
  <1>7. CASE callers = <<>>
    <2>1. visits' = <<>> /\ verdict' = "read" /\ n = 1 /\ DOMAIN visits' = {}
      BY <1>2, <1>4, <1>7
    <2>2. g = EntryFile
      BY <1>1, <1>3, <1>4, <2>1 DEF VisitsSound
    <2>3. heights'[EntryFile] <= MaxDepth /\ EntryFile \in Finished'
      BY <1>1, <1>5, <2>1, <2>2
    <2>4. Active = {g} /\ Active' = {}
      BY <1>4, <2>1 DEF Active
    <2>5. OpenedOnce'
      <3>1. Range(opened) = Active' \cup Finished' /\ Active' \cap Finished' = {}
        BY <1>3, <1>5, <2>4 DEF OpenedOnce
      <3>2. \A f \in Range(opened) : IsReached(f)'
        BY <1>2, <1>3, ProgramStays DEF OpenedOnce
      <3> QED
        BY <1>2, <1>3, <2>1, <3>1, <3>2 DEF OpenedOnce
    <2>6. VisitsSound'
      BY <2>1 DEF VisitsSound
    <2>7. WalkTypeOK'
      BY <1>2, <1>3, <1>5, <2>1, ProgramStays DEF WalkTypeOK
    <2> QED
      BY <1>6, <2>1, <2>3, <2>5, <2>6, <2>7 DEF WalkInv
  <1>8. CASE callers # <<>>
    <2> DEFINE m == n - 1
    <2>1. /\ m \in Nat \ {0} /\ m + 1 = n /\ Len(callers) = m
          /\ \A k \in 1..m : callers[k] = visits[k]
      BY <1>4, <1>8
    <2>2. /\ visits' \in Seq(Visits) /\ DOMAIN visits' = 1..m /\ Len(visits') = m /\ visits' # <<>>
          /\ \A k \in 1..m : visits'[k].file = callers[k].file
          /\ \A k \in 1..m - 1 : visits'[k] = callers[k]
          /\ visits'[m].next = callers[m].next + 1
          /\ verdict' = "loading"
      <3> DEFINE q == Len(callers)
                 stepped == Append(Popped(callers), VisitAt(callers[q].file, callers[q].next + 1))
      <3>1. /\ stepped \in Seq(Visits) /\ DOMAIN stepped = 1..q /\ Len(stepped) = q /\ stepped # <<>>
            /\ \A k \in 1..q : stepped[k].file = callers[k].file
            /\ \A k \in 1..q - 1 : stepped[k] = callers[k]
            /\ stepped[q].next = callers[q].next + 1
        BY <1>4, <1>8, SteppedOn
      <3>2. visits' = stepped /\ verdict' = "loading" /\ q = m
        BY <1>1, <1>2, <1>8, <2>1
      <3> HIDE DEF q, stepped, m
      <3> QED
        BY <3>1, <3>2
    <2> HIDE DEF m
    <2>3. \A k \in 1..m : k \in 1..n /\ k # n
      BY <2>1
    <2>4. \A k \in 1..m : visits'[k].file = visits[k].file
      BY <2>1, <2>2
    <2>5. WalkTypeOK'
      BY <1>2, <1>3, <1>5, <2>2, ProgramStays DEF WalkTypeOK
    <2>6. Active = Active' \cup {g} /\ g \notin Active'
      <3>1. \A k \in 1..n : k \in 1..m \/ k = n
        BY <2>1
      <3>2. n \in DOMAIN visits
        BY <1>4
      <3>3. Active \subseteq Active' \cup {g}
        BY <1>4, <2>2, <2>4, <3>1 DEF Active
      <3>4. Active' \subseteq Active
        BY <1>4, <2>2, <2>3, <2>4 DEF Active
      <3>5. ASSUME g \in Active' PROVE FALSE
        <4>1. PICK k \in 1..m : visits[k].file = g
          BY <2>2, <2>4, <3>5 DEF Active
        <4> QED
          BY <1>3, <1>4, <2>3, <3>2, <4>1 DEF OpenedOnce
      <3> QED
        BY <1>1, <3>3, <3>4, <3>5
    <2>7. OpenedOnce'
      <3>1. Range(opened) = Active' \cup Finished' /\ Active' \cap Finished' = {}
        BY <1>3, <1>5, <2>6 DEF OpenedOnce
      <3>2. \A f \in Range(opened) : IsReached(f)'
        BY <1>2, <1>3, ProgramStays DEF OpenedOnce
      <3>3. \A k, l \in 1..m : visits'[k].file = visits'[l].file => k = l
        BY <1>3, <1>4, <2>3, <2>4 DEF OpenedOnce
      <3> QED
        BY <1>2, <1>3, <2>2, <3>1, <3>2, <3>3 DEF OpenedOnce
    <2>8. VisitsSound'
      <3>1. visits'[1].file = EntryFile /\ Len(visits') <= MaxDepth
        <4>1. 1 \in 1..m /\ n <= MaxDepth /\ visits[1].file = EntryFile
          BY <1>1, <1>3, <2>1 DEF VisitsSound, n
        <4> QED
          BY <2>1, <2>2, <2>4, <4>1, WalkAssumption
      <3>2. \A k \in 1..m : visits'[k].file \notin broken
        BY <1>3, <1>4, <2>3, <2>4 DEF VisitsSound
      <3>3. /\ visits[m].next \in DOMAIN importGraph[visits[m].file]
            /\ <<visits[m].file, visits[m].next>> \notin refused
            /\ importGraph[visits[m].file][visits[m].next] = g
        <4>1. m \in DOMAIN visits /\ m + 1 \in DOMAIN visits
          BY <1>4, <2>1
        <4> QED
          BY <1>3, <1>4, <2>1, <4>1 DEF VisitsSound
      <3>4. ASSUME NEW k \in 1..m, NEW e \in DOMAIN importGraph[visits'[k].file], e < visits'[k].next
            PROVE  /\ <<visits'[k].file, e>> \notin refused
                   /\ importGraph[visits'[k].file][e] \in Finished'
                   /\ k + heights'[importGraph[visits'[k].file][e]] <= MaxDepth
        <4>1. callers[m] = visits[m] /\ callers[k] = visits[k] /\ m \in 1..m
          BY <2>1
        <4>2. \/ e \in DOMAIN importGraph[callers[k].file] /\ e < callers[k].next
              \/ k = m /\ e = callers[k].next
          <5> DEFINE q == Len(callers)
                     t == visits'
          <5>1. q = m /\ callers \in Seq(Visits) /\ callers # <<>> /\ t \in Seq(Visits)
            BY <1>4, <1>8, <2>1, <2>2
          <5>2. callers[q].next \in DOMAIN importGraph[callers[q].file]
            BY <3>3, <4>1, <5>1
          <5>3. /\ DOMAIN t = 1..q
                /\ \A i \in 1..q : t[i].file = callers[i].file
                /\ \A i \in 1..q - 1 : t[i] = callers[i]
                /\ t[q].next = callers[q].next + 1
                /\ k \in 1..q /\ e \in DOMAIN importGraph[t[k].file] /\ e < t[k].next
            BY <2>2, <3>4, <5>1
          <5> HIDE DEF t
          <5>4. \/ e \in DOMAIN importGraph[callers[k].file] /\ e < callers[k].next
                \/ k = q /\ e = callers[k].next
            BY <1>3, <5>1, <5>2, <5>3, PassedSound
          <5> QED
            BY <5>1, <5>4
        <4>3. CASE e \in DOMAIN importGraph[visits[k].file] /\ e < visits[k].next
          BY <1>3, <1>4, <1>5, <2>3, <2>4, <4>3 DEF VisitsSound, Imported
        <4>4. CASE k = m /\ e = visits[k].next
          <5>1. visits'[k].file = visits[m].file
            BY <2>4, <4>4
          <5>2. m + h <= MaxDepth
            BY <1>1, <2>1 DEF m
          <5> QED
            BY <1>5, <3>3, <4>4, <5>1, <5>2
        <4> QED
          BY <4>1, <4>2, <4>3, <4>4
      <3>5. ASSUME NEW k \in 1..m, k + 1 \in 1..m
            PROVE  /\ visits'[k].next \in DOMAIN importGraph[visits'[k].file]
                   /\ <<visits'[k].file, visits'[k].next>> \notin refused
                   /\ importGraph[visits'[k].file][visits'[k].next] = visits'[k + 1].file
        <4>1. k \in 1..m - 1
          BY <2>1, <3>5
        <4>2. visits'[k] = visits[k] /\ visits'[k + 1].file = visits[k + 1].file
          BY <2>1, <2>2, <2>4, <3>5, <4>1
        <4> QED
          BY <1>3, <1>4, <2>3, <3>5, <4>2 DEF VisitsSound
      <3> QED
        BY <1>2, <2>2, <3>1, <3>2, <3>4, <3>5 DEF VisitsSound, Imported
    <2>9. opened # <<>>
      BY <1>1, <1>3
    <2> QED
      BY <1>2, <1>6, <2>2, <2>5, <2>7, <2>8, <2>9 DEF WalkInv
  <1> QED
    BY <1>7, <1>8

\* Every step of the walk keeps the invariant.
LEMMA WalkSteps == WalkInv /\ [WalkNext]_walkVars => WalkInv'
  <1> SUFFICES ASSUME WalkInv, [WalkNext]_walkVars PROVE WalkInv'
    OBVIOUS
  <1>1. CASE VisitLoaded \/ VisitNew \/ FinishModule
    BY <1>1, VisitLoadedKeeps, VisitNewKeeps, FinishModuleKeeps
  <1>2. CASE RefuseImport \/ VisitCycle \/ VisitTooDeep \/ VisitBroken
    BY <1>2, ErrorsKeep
  <1>3. CASE UNCHANGED walkVars
    <2>1. UNCHANGED <<importGraph, broken, refused, opened, heights, visits, verdict>>
      BY <1>3 DEF walkVars
    <2>2. UNCHANGED <<Files, Visits, Finished, Active>> /\ (Unreadable' <=> Unreadable)
      BY <2>1, ProgramStays DEF Finished, Active
    <2>3. WalkTypeOK => WalkTypeOK'
      BY <2>1, <2>2 DEF WalkTypeOK
    <2>4. OpenedOnce => OpenedOnce'
      BY <2>1, <2>2, ProgramStays DEF OpenedOnce
    <2>5. VisitsSound => VisitsSound'
      BY <2>1, <2>2 DEF VisitsSound, Imported
    <2> QED
      BY <2>1, <2>2, <2>3, <2>4, <2>5, FinishedStay DEF WalkInv
  <1> QED
    BY <1>1, <1>2, <1>3 DEF WalkNext

\* The state of the walk is always sound: a module that is neither unfinished
\* nor on the way has a height, which is what `unwrap' relies on.
THEOREM WalkSafety == WalkSpec => []WalkInv
  <1> QED
    BY WalkBegins, WalkSteps, PTL DEF WalkSpec

\* WalkIsExact: whatever the files, their imports and the limit are,
\* Loader::visit accepts a program iff no chain of imports is longer than the
\* limit and every file it reaches is sound; its modules are those files.
THEOREM WalkIsExactAlways == WalkSpec => []WalkIsExact
  <1>1. ASSUME WalkInv PROVE WalkIsExact
    <2>1. SUFFICES ASSUME verdict = "read"
                   PROVE  /\ ~Unreadable /\ Range(opened) = {f \in Files : IsReached(f)} /\ Injective(opened)
      BY <1>1 DEF WalkIsExact, WalkInv
    <2>2. /\ WalkTypeOK /\ OpenedOnce /\ FinishedSound
          /\ visits = <<>> /\ EntryFile \in Finished /\ heights[EntryFile] <= MaxDepth
      BY <1>1, <2>1 DEF WalkInv
    <2>3. Active = {}
      <3>1. DOMAIN visits = {}
        BY <2>2
      <3> QED
        BY <3>1 DEF Active
    <2>4. Range(opened) = Finished /\ Finished \subseteq Files /\ Finished \in SUBSET DOMAIN importGraph
      BY <2>2, <2>3 DEF OpenedOnce, WalkTypeOK, Files
    <2>5. Closed(importGraph, Finished)
      BY <2>2 DEF Closed, FinishedSound, Imported, Range
    <2>6. \A f : IsReached(f) => f \in Finished
      BY <2>2, <2>4, <2>5 DEF IsReached, Reaches
    <2>7. \A f \in Finished : IsReached(f) /\ ~Unsound(f)
      BY <2>2, <2>4 DEF OpenedOnce, FinishedSound, Unsound, Imported
    <2>8. ~ChainOf(EntryFile, MaxDepth + 1)
      <3>1. heights[EntryFile] \in Nat
        BY <2>2 DEF WalkTypeOK
      <3>2. MaxDepth + 1 \in Nat /\ heights[EntryFile] < MaxDepth + 1
        BY <2>2, <3>1, WalkAssumption
      <3> QED
        BY <2>2, <3>2, ChainsEnd
    <2>9. ~Unreadable
      BY <2>6, <2>7, <2>8 DEF Unreadable
    <2>10. Range(opened) = {f \in Files : IsReached(f)}
      BY <2>4, <2>6, <2>7
    <2> QED
      BY <2>2, <2>9, <2>10 DEF OpenedOnce
  <1> QED
    BY <1>1, WalkSafety, PTL

-----------------------------------------------------------------------------

\* SearchesAreExact: each of the compiler's searches finds what its definition
\* says and nothing else, for every program.
THEOREM SearchesAlwaysExact ==
    SearchSpec /\ ScheduleSpec /\ WalkSpec => []SearchesAreExact
  <1>1. SearchIsExact /\ ConstantsSettle /\ WalkIsExact => SearchesAreExact
    BY DEF SearchesAreExact
  <1> QED
    BY <1>1, SearchFindsCycles, ConstantsSettleAlways, WalkIsExactAlways, PTL
================================================================================
