---------------------------- MODULE ShortestPath ----------------------------
(***************************************************************************)
(* uti::graph: a Graph put together by calls of addVertex, and the search  *)
(* of Dijkstra::getShortestPath in it, one visited vertex at a time.       *)
(* Distances are long doubles: what is added to INFINITY leaves it as it   *)
(* is.                                                                     *)
(***************************************************************************)
EXTENDS Integers, Sequences, FiniteSetsExt

CONSTANTS
  Elements,   \* what vertices hold, and are found by
  Weights,    \* the distances of links
  INFINITY,   \* LDBL_MAX
  MaxLinks,   \* bound: no more links are added from this many edges on
  Nobody      \* nullptr

ASSUME ElementsAssumption == IsFiniteSet(Elements)
ASSUME WeightsAssumption == Weights \subseteq Nat
ASSUME InfinityAssumption == INFINITY \in Nat /\ \A w \in Weights : w < INFINITY
ASSUME LinksAssumption == MaxLinks \in Nat
ASSUME NobodyAssumption == Nobody \notin Elements

LinkTypes == {"A_TO_B", "B_TO_A", "BIDIRECT"}

VARIABLES
  vertices,   \* the elements of Graph::_vertices, in the order they were added
  edges,      \* the edges of each vertex, in the order they were linked
  pc,         \* "build", "search", "trace", "done"
  begin, end, \* what dijkstraSolving was asked
  distance, previous, visited,   \* of each VertexWrapper
  start,      \* the vertex whose neighbours are updated next, then v, on the way back
  path        \* what is returned

graph  == <<vertices, edges>>
search == <<begin, end, distance, previous, visited, start, path>>
vars   == <<graph, pc, search>>

Known == {vertices[i] : i \in DOMAIN vertices}
Edge  == [end : Elements, weight : Weights]

TypeOK ==
  /\ vertices \in Seq(Elements)
  /\ edges \in [Elements -> Seq(Edge)]
  /\ pc \in {"build", "search", "trace", "done"}
  /\ {begin, end, start} \subseteq Elements \union {Nobody}
  /\ distance \in [Elements -> 0 .. INFINITY]
  /\ previous \in [Elements -> Elements \union {Nobody}]
  /\ visited \subseteq Elements
  /\ path \in Seq(Elements)

Init ==
  /\ vertices = <<>>
  /\ edges = [e \in Elements |-> <<>>]
  /\ pc = "build"
  /\ begin = Nobody /\ end = Nobody /\ start = Nobody
  /\ distance = [e \in Elements |-> INFINITY]
  /\ previous = [e \in Elements |-> Nobody]
  /\ visited = {}
  /\ path = <<>>

-----------------------------------------------------------------------------
\* addVertex: an element is added once, and links are not compared at all.

Added(known, e) ==
  IF \E i \in DOMAIN known : known[i] = e THEN known ELSE Append(known, e)

Linked(all, a, b, w) == [all EXCEPT ![a] = Append(@, [end |-> b, weight |-> w])]

AddLink(a, b, link, w) ==
  /\ pc = "build"
  /\ vertices' = Added(Added(vertices, a), b)
  /\ edges' = CASE link = "A_TO_B"   -> Linked(edges, a, b, w)
                [] link = "B_TO_A"   -> Linked(edges, b, a, w)
                [] link = "BIDIRECT" -> Linked(Linked(edges, a, b, w), b, a, w)
  /\ UNCHANGED <<pc, search>>

Links == MapThenSumSet(LAMBDA e : Len(edges[e]), Elements)

-----------------------------------------------------------------------------
\* getShortestPath

\* Both ends are vertices, or CannotFindVertex is thrown before anything else.
Solve(b, e) ==
  /\ pc = "build"
  /\ {b, e} \subseteq Known
  /\ begin' = b /\ end' = e /\ start' = b
  /\ distance' = [distance EXCEPT ![b] = 0]
  /\ visited' = {b}
  /\ pc' = "search"
  /\ UNCHANGED <<graph, previous, path>>

Plus(d, w) == IF d = INFINITY THEN INFINITY ELSE d + w

\* _updateNeighborsDistance: a vertex takes what an edge offers if that beats
\* what it has.  The mutant accepts a draw.
BeatsTied(d, old) == d <= old
Beats(d, old)     == d < old

Offers(v) == {Plus(distance[start], edges[start][i].weight) :
                i \in {j \in DOMAIN edges[start] : edges[start][j].end = v}}
Least(S)  == CHOOSE d \in S : \A x \in S : d <= x
Improved  == {v \in Elements : Offers(v) # {} /\ Beats(Least(Offers(v)), distance[v])}

\* _getCurrentShortestPath: the first of the nearest vertices not visited, in
\* the order of the graph.  The mutant returns the first of all.
Left       == {i \in DOMAIN vertices : vertices[i] \notin visited}
Nearer(d, i, j) == d[vertices[i]] < d[vertices[j]] \/ (d[vertices[i]] = d[vertices[j]] /\ i <= j)
FirstLeft(d)    == vertices[Least(Left)]
Nearest(d)      == vertices[CHOOSE i \in Left : \A j \in Left : Nearer(d, i, j)]

Visit ==
  /\ pc = "search"
  /\ distance' = [v \in Elements |-> IF v \in Improved THEN Least(Offers(v)) ELSE distance[v]]
  /\ previous' = [v \in Elements |-> IF v \in Improved THEN start ELSE previous[v]]
  /\ IF Left = {}
       THEN start' = end /\ pc' = "trace" /\ UNCHANGED visited
       ELSE start' = Nearest(distance') /\ visited' = visited \union {start'} /\ UNCHANGED pc
  /\ UNCHANGED <<graph, begin, end, path>>

\* The stack of elements, top first, from the end to a vertex without previous.
\* A chain longer than the graph is a cycle, which the loop never leaves.
Trace ==
  /\ pc = "trace"
  /\ Len(path) <= Cardinality(Elements)
  /\ path' = <<start>> \o path
  /\ start' = previous[start]
  /\ pc' = IF previous[start] = Nobody THEN "done" ELSE "trace"
  /\ UNCHANGED <<graph, begin, end, distance, previous, visited>>

Build == \E a, b \in Elements : \E link \in LinkTypes : \E w \in Weights : AddLink(a, b, link, w)

Next ==
  \/ Links < MaxLinks /\ Build
  \/ \E b, e \in Elements : Solve(b, e)
  \/ Visit
  \/ Trace

Spec     == Init /\ [][Next]_vars
FairSpec == Spec /\ WF_vars(Visit) /\ WF_vars(Trace)

-----------------------------------------------------------------------------
\* Properties

\* The edges say nothing of already_visited: a distance once visited could still
\* be improved.  It never is, so that the path back is made of settled vertices.
SettledStays ==
  [][pc = "search" => \A v \in visited : distance'[v] = distance[v] /\ previous'[v] = previous[v]]_vars

\* The least weight of a walk of at most n edges, by the equations of the problem.
Walks[n \in 0 .. Cardinality(Elements)] ==
  IF n = 0 THEN [v \in Elements |-> IF v = begin THEN 0 ELSE INFINITY]
  ELSE [v \in Elements |->
          Least({Walks[n - 1][v]} \union
                UNION {{Plus(Walks[n - 1][u], edges[u][i].weight) :
                          i \in {j \in DOMAIN edges[u] : edges[u][j].end = v}} : u \in Elements})]
Shortest == Walks[Cardinality(Elements)]

\* What dijkstraSolving says it returns, whatever the graph, the order in which
\* it was built, parallel links and loops: the elements from begin to end, along
\* links, by a way none is shorter than.  Of an end that cannot be reached it
\* returns the end alone.
Along(u, v) == \E i \in DOMAIN edges[u] : /\ edges[u][i].end = v
                                          /\ Shortest[u] + edges[u][i].weight = Shortest[v]

FindsShortest ==
  pc = "done" =>
    /\ path[Len(path)] = end
    /\ Shortest[end] = INFINITY => path = <<end>>
    /\ Shortest[end] < INFINITY =>
         path[1] = begin /\ \A i \in 1 .. Len(path) - 1 : Along(path[i], path[i + 1])

\* Every search ends, and the way back is no circle.
SearchEnds == pc = "search" ~> pc = "done"
=============================================================================
