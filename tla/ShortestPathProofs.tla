------------------------- MODULE ShortestPathProofs -------------------------
(***************************************************************************)
(* That what Dijkstra's search has settled stays as it is, for every graph *)
(* of vertices and links of whatever distances that are not negative.      *)
(***************************************************************************)
EXTENDS ShortestPath, SequenceTheorems, FiniteSetTheorems, WellFoundedInduction, TLAPS

\* A set of numbers that is not empty has a least member, which Least finds.
LEMMA LeastExists ==
  ASSUME NEW S \in SUBSET Nat, S # {}
  PROVE  Least(S) \in S /\ \A x \in S : Least(S) <= x
<1>1. PICK m \in S : \A x \in S : ~(<<x, m>> \in OpToRel(<, Nat))
  BY NatLessThanWellFounded, WFMin
<1>2. \A x, y \in Nat : x < y => <<x, y>> \in OpToRel(<, Nat)
  BY DEF OpToRel
<1>3. \A x \in S : ~(x < m)
  BY <1>1, <1>2, Zenon
<1>4. \A x \in S : m <= x
  BY <1>3
<1> QED
  BY <1>4 DEF Least

-----------------------------------------------------------------------------
\* The invariant

\* While the search goes on, the vertex whose edges are looked at next is as far
\* as any visited one, and no vertex that is left is nearer.
Frontier ==
  /\ start \in visited
  /\ \A v \in visited : distance[v] <= distance[start]
  /\ \A i \in Left : distance[start] <= distance[vertices[i]]

SearchInv ==
  /\ pc = "search" => end \in Elements /\ Frontier
  /\ pc = "trace"  => start \in Elements

IInv == TypeOK /\ SearchInv

\* What comes over an edge is no nearer than the vertex it comes from.
LEMMA OffersAreFarther ==
  ASSUME IInv, pc = "search", NEW v \in Elements, NEW d \in Offers(v)
  PROVE  d \in Nat /\ distance[start] <= d
<1>1. start \in Elements /\ distance[start] \in 0 .. INFINITY
  BY DEF IInv, TypeOK, SearchInv, Frontier
<1>2. PICK i \in DOMAIN edges[start] : d = Plus(distance[start], edges[start][i].weight)
  BY DEF Offers
<1>3. edges[start][i] \in Edge
  BY <1>1, <1>2, ElementOfSeq DEF IInv, TypeOK
<1>4. edges[start][i].weight \in Nat
  BY <1>3, WeightsAssumption DEF Edge
<1> QED
  BY <1>1, <1>2, <1>4, InfinityAssumption DEF Plus

\* The distance of a vertex after its neighbour was visited, and where it is from.
LEMMA UpdateKeeps ==
  ASSUME IInv, pc = "search", NEW v \in Elements
  PROVE  /\ v \in Improved => /\ Least(Offers(v)) \in 0 .. INFINITY
                              /\ distance[start] <= Least(Offers(v))
                              /\ Least(Offers(v)) < distance[v]
         /\ v \in visited => v \notin Improved
<1>1. distance[v] \in 0 .. INFINITY /\ INFINITY \in Nat
  BY InfinityAssumption DEF IInv, TypeOK
<1>2. Offers(v) \subseteq Nat
  BY OffersAreFarther
<1>3. ASSUME v \in Improved
      PROVE  /\ Least(Offers(v)) \in Nat
             /\ distance[start] <= Least(Offers(v))
             /\ Least(Offers(v)) < distance[v]
  <2>1. Offers(v) # {} /\ Least(Offers(v)) < distance[v]
    BY <1>3 DEF Improved, Beats
  <2>2. Least(Offers(v)) \in Offers(v)
    BY <1>2, <2>1, LeastExists
  <2> QED
    BY <2>1, <2>2, OffersAreFarther
<1>4. ASSUME v \in visited PROVE v \notin Improved
  <2>1. distance[v] <= distance[start]
    BY <1>4 DEF IInv, SearchInv, Frontier
  <2>2. distance[start] \in 0 .. INFINITY
    BY DEF IInv, TypeOK, SearchInv, Frontier
  <2> QED
    BY <1>1, <1>3, <2>1, <2>2
<1> QED
  BY <1>1, <1>3, <1>4

\* Some vertex that is left is the first of the nearest.
LEMMA NearestExists ==
  ASSUME NEW d \in [Elements -> 0 .. INFINITY], vertices \in Seq(Elements), Left # {}
  PROVE  \E i \in Left : /\ Nearest(d) = vertices[i]
                         /\ vertices[i] \in Elements
                         /\ \A j \in Left : d[vertices[i]] <= d[vertices[j]]
<1> DEFINE D == {d[vertices[i]] : i \in Left}
           N == {i \in Left : d[vertices[i]] = Least(D)}
<1>1. Left \subseteq Nat /\ \A i \in Left : vertices[i] \in Elements
  BY ElementOfSeq, LenProperties DEF Left
<1>2. \A i \in Left : d[vertices[i]] \in Nat
  BY <1>1, InfinityAssumption
<1>3. D \subseteq Nat /\ D # {}
  BY <1>2
<1>4. Least(D) \in D /\ \A x \in D : Least(D) <= x
  BY <1>3, LeastExists
<1>5. N \subseteq Nat /\ N # {}
  BY <1>1, <1>4
<1>6. Least(N) \in N /\ \A x \in N : Least(N) <= x
  BY <1>5, LeastExists
<1>7. \A j \in Left : Nearer(d, Least(N), j)
  <2>1. TAKE j \in Left
  <2>2. d[vertices[Least(N)]] = Least(D) /\ Least(D) <= d[vertices[j]] /\ Least(D) \in Nat
    BY <1>3, <1>4, <1>6
  <2>3. d[vertices[j]] = Least(D) => Least(N) <= j
    BY <1>6
  <2> QED
    BY <1>2, <2>2, <2>3 DEF Nearer
<1>8. PICK i \in Left : Nearest(d) = vertices[i] /\ \A j \in Left : Nearer(d, i, j)
  BY <1>6, <1>7 DEF Nearest
<1>9. \A j \in Left : d[vertices[i]] <= d[vertices[j]]
  BY <1>2, <1>8 DEF Nearer
<1> QED
  BY <1>1, <1>8, <1>9

-----------------------------------------------------------------------------
\* Every step keeps it.

\* Before anything was built nothing is visited.
LEMMA InitInv == Init => IInv
BY InfinityAssumption DEF Init, IInv, TypeOK, SearchInv

\* A link adds its two elements and two edges, and leaves the search alone.
LEMMA AddLinkKeeps ==
  ASSUME IInv, NEW a \in Elements, NEW b \in Elements, NEW link \in LinkTypes, NEW w \in Weights,
         AddLink(a, b, link, w)
  PROVE  IInv'
<1>1. \A known \in Seq(Elements), e \in Elements : Added(known, e) \in Seq(Elements)
  BY AppendProperties DEF Added
<1>2. vertices' \in Seq(Elements)
  BY <1>1 DEF AddLink, IInv, TypeOK
<1>3. \A all \in [Elements -> Seq(Edge)], x, y \in Elements : Linked(all, x, y, w) \in [Elements -> Seq(Edge)]
  <2>1. TAKE all \in [Elements -> Seq(Edge)], x, y \in Elements
  <2>2. [end |-> y, weight |-> w] \in Edge
    BY DEF Edge
  <2>3. Append(all[x], [end |-> y, weight |-> w]) \in Seq(Edge)
    BY <2>2, AppendProperties
  <2> QED
    BY <2>3 DEF Linked
<1>4. edges' \in [Elements -> Seq(Edge)]
  <2>1. edges \in [Elements -> Seq(Edge)]
    BY DEF IInv, TypeOK
  <2>2. CASE link = "A_TO_B"
    BY <1>3, <2>1, <2>2 DEF AddLink
  <2>3. CASE link = "B_TO_A"
    BY <1>3, <2>1, <2>3 DEF AddLink
  <2>4. CASE link = "BIDIRECT"
    BY <1>3, <2>1, <2>4 DEF AddLink
  <2> QED
    BY <2>2, <2>3, <2>4 DEF LinkTypes
<1> QED
  BY <1>2, <1>4 DEF AddLink, search, IInv, TypeOK, SearchInv

\* A search starts with its first vertex as the only one that is visited.
LEMMA SolveKeeps ==
  ASSUME IInv, NEW b \in Elements, NEW e \in Elements, Solve(b, e)
  PROVE  IInv'
<1>1. TypeOK'
  BY InfinityAssumption DEF Solve, graph, IInv, TypeOK
<1>2. Frontier'
  <2>1. start' = b /\ visited' = {b} /\ distance'[b] = 0 /\ vertices' = vertices
    BY DEF Solve, graph, IInv, TypeOK
  <2>2. \A i \in Left' : distance'[vertices'[i]] \in Nat
    <3>1. \A i \in Left' : vertices'[i] \in Elements
      BY <1>1, ElementOfSeq DEF TypeOK, Left
    <3> QED
      BY <1>1, <3>1, InfinityAssumption DEF TypeOK
  <2> QED
    BY <2>1, <2>2 DEF Frontier
<1> QED
  BY <1>1, <1>2 DEF Solve, IInv, SearchInv

\* A visit offers its distances to the neighbours, marks its vertex and takes the next,
\* and what was visited keeps its distance and where it is from.
LEMMA VisitKeeps ==
  ASSUME IInv, Visit
  PROVE  IInv' /\ \A v \in visited : distance'[v] = distance[v] /\ previous'[v] = previous[v]
<1>1. /\ TypeOK /\ pc = "search" /\ Frontier /\ end \in Elements /\ start \in Elements
      /\ visited \subseteq Elements
      /\ UNCHANGED <<vertices, edges, begin, end, path>>
  BY DEF Visit, IInv, SearchInv, Frontier, TypeOK, graph
<1>2. \A v \in visited : distance'[v] = distance[v] /\ previous'[v] = previous[v]
  BY <1>1, UpdateKeeps DEF Visit
<1>3. distance' \in [Elements -> 0 .. INFINITY]
  BY <1>1, UpdateKeeps DEF Visit, TypeOK
<1>4. previous' \in [Elements -> Elements \union {Nobody}]
  BY <1>1 DEF Visit, TypeOK
<1>5. CASE Left = {}
  BY <1>1, <1>2, <1>3, <1>4, <1>5 DEF Visit, IInv, TypeOK, SearchInv
<1>6. CASE Left # {}
  <2>1. PICK i \in Left : /\ start' = vertices[i]
                          /\ start' \in Elements
                          /\ \A j \in Left : distance'[start'] <= distance'[vertices[j]]
    BY <1>1, <1>3, <1>6, NearestExists DEF Visit, TypeOK
  <2>2. visited' = visited \union {start'} /\ pc' = "search"
    BY <1>1, <1>6 DEF Visit
  <2>3. distance[start] <= distance'[start']
    <3>1. distance[start] <= distance[start']
      BY <1>1, <2>1 DEF Frontier
    <3>2. distance'[start'] = IF start' \in Improved THEN Least(Offers(start')) ELSE distance[start']
      BY <2>1 DEF Visit
    <3> QED
      BY <1>1, <2>1, <3>1, <3>2, UpdateKeeps DEF IInv
  <2>4. \A v \in visited' : distance'[v] <= distance'[start']
    <3>1. \A v \in Elements : distance[v] \in Nat /\ distance'[v] \in Nat
      BY <1>1, <1>3, InfinityAssumption DEF TypeOK
    <3>2. \A v \in visited : distance'[v] <= distance'[start']
      BY <1>1, <1>2, <2>1, <2>3, <3>1 DEF Frontier
    <3> QED
      BY <2>1, <2>2, <3>1, <3>2
  <2>5. Left' \subseteq Left
    BY <1>1, <2>2 DEF Left
  <2>6. Frontier'
    BY <1>1, <2>1, <2>2, <2>4, <2>5 DEF Frontier
  <2>7. TypeOK'
    BY <1>1, <1>3, <1>4, <2>1, <2>2 DEF TypeOK
  <2> QED
    BY <1>1, <1>2, <2>2, <2>6, <2>7 DEF IInv, SearchInv
<1> QED
  BY <1>5, <1>6

\* The way back puts vertices in front of the path.
LEMMA TraceKeeps ==
  ASSUME IInv, Trace
  PROVE  IInv'
<1>1. start \in Elements /\ path \in Seq(Elements)
  BY DEF Trace, IInv, SearchInv, TypeOK
<1>2. <<start>> \o path \in Seq(Elements)
  BY <1>1, ConcatProperties
<1>3. previous[start] \in Elements \union {Nobody}
  BY <1>1 DEF IInv, TypeOK
<1> QED
  BY <1>2, <1>3 DEF Trace, graph, IInv, TypeOK, SearchInv

\* So does every step, whichever it is.
LEMMA NextKeeps == IInv /\ [Next]_vars => IInv'
<1> SUFFICES ASSUME IInv, [Next]_vars PROVE IInv'
  OBVIOUS
<1>1. CASE Build
  BY <1>1, AddLinkKeeps DEF Build
<1>2. CASE \E b, e \in Elements : Solve(b, e)
  BY <1>2, SolveKeeps
<1>3. CASE Visit
  BY <1>3, VisitKeeps
<1>4. CASE Trace
  BY <1>4, TraceKeeps
<1>5. CASE UNCHANGED vars
  BY <1>5 DEF vars, graph, search, IInv, TypeOK, SearchInv, Frontier, Left
<1> QED
  BY <1>1, <1>2, <1>3, <1>4, <1>5 DEF Next

\* In every state the visited vertices are no farther than the one visited next, and
\* that one no farther than those that are left: what makes the greedy choice of
\* Dijkstra::getShortestPath right.
THEOREM InvariantHolds == Spec => []IInv
BY InitInv, NextKeeps, PTL DEF Spec

\* Every variable of the graph and of the search keeps its type.
THEOREM TypeCorrect == Spec => []TypeOK
BY InvariantHolds, PTL DEF IInv

\* Dijkstra marks a vertex already_visited and looks at its distance again for
\* every edge that leads to it: in no graph, with whatever elements and
\* distances, does it ever find a shorter way to one that it has visited.
THEOREM SettledAlwaysStays == Spec => SettledStays
<1>1. IInv /\ [Next]_vars =>
        [pc = "search" => \A v \in visited : distance'[v] = distance[v] /\ previous'[v] = previous[v]]_vars
  <2> SUFFICES ASSUME IInv, Next, pc = "search"
               PROVE  \A v \in visited : distance'[v] = distance[v] /\ previous'[v] = previous[v]
    OBVIOUS
  <2>1. Visit
    BY DEF Next, Build, AddLink, Solve, Trace
  <2> QED
    BY <2>1, VisitKeeps
<1> QED
  BY <1>1, InvariantHolds, PTL DEF Spec, SettledStays

-----------------------------------------------------------------------------
(***************************************************************************)
(* That the way returned is a shortest one.                                *)
(***************************************************************************)

\* Links join vertices of the graph.
GraphOK == \A u \in Elements : \A i \in DOMAIN edges[u] : {u, edges[u][i].end} \subseteq Known

\* Nothing is gained over the edges of u any more.
Relaxed(u) ==
  \A i \in DOMAIN edges[u] : distance[edges[u][i].end] <= Plus(distance[u], edges[u][i].weight)

\* v has its distance over an edge of a visited vertex, its previous one.
Follows(v) ==
  /\ distance[v] < INFINITY
  /\ previous[v] \in visited
  /\ \E i \in DOMAIN edges[previous[v]] :
       /\ edges[previous[v]][i].end = v
       /\ distance[previous[v]] + edges[previous[v]][i].weight = distance[v]

\* Vertices are visited after their previous ones: the way back has an end.
RankOK ==
  \E rank \in [Elements -> 0 .. Cardinality(Elements)] :
    \A v \in visited : /\ rank[v] < Cardinality(visited)
                       /\ previous[v] # Nobody => rank[previous[v]] < rank[v]

TreeOK ==
  /\ begin \in visited /\ distance[begin] = 0
  /\ \A v \in Elements : IF previous[v] = Nobody THEN v = begin \/ distance[v] = INFINITY
                                                 ELSE Follows(v)
  /\ \A v \in Elements : distance[v] < INFINITY => v \in Known
  /\ \A u \in visited : Relaxed(u) \/ (pc = "search" /\ u = start)

PathOK ==
  /\ end \in Elements
  /\ Known \subseteq visited
  /\ \A i \in 1 .. Len(path) - 1 : previous[path[i + 1]] = path[i]
  /\ path = <<>> => pc = "trace" /\ start = end
  /\ path # <<>> => path[Len(path)] = end /\ previous[path[1]] = start
  /\ pc = "done" => start = Nobody

WayInv ==
  /\ GraphOK
  /\ pc = "build" => /\ distance = [e \in Elements |-> INFINITY]
                     /\ previous = [e \in Elements |-> Nobody]
  /\ pc # "build" => TreeOK /\ RankOK
  /\ pc \in {"build", "search"} => path = <<>>
  /\ pc \in {"trace", "done"} => PathOK

-----------------------------------------------------------------------------
\* Induction, by the least number that would be missed.

\* What holds of 0, and of n if of n - 1, holds of every number.
LEMMA FromZero ==
  ASSUME NEW M \in Nat, NEW S, 0 \in S, \A n \in 1 .. M : n - 1 \in S => n \in S
  PROVE  \A n \in 0 .. M : n \in S
<1> DEFINE Missing == {n \in 0 .. M : n \notin S}
<1>1. SUFFICES ASSUME Missing # {} PROVE FALSE
  OBVIOUS
<1>2. Missing \in SUBSET Nat
  OBVIOUS
<1>3. PICK m \in Missing : \A n \in Missing : m <= n
  BY <1>1, <1>2, LeastExists
<1>4. m \in 0 .. M /\ m \notin S
  OBVIOUS
<1>5. m \in 1 .. M /\ m - 1 \in 0 .. M /\ ~(m <= m - 1)
  BY <1>4
<1>6. m - 1 \in S
  BY <1>3, <1>5
<1> QED
  BY <1>4, <1>5, <1>6

-----------------------------------------------------------------------------
\* The equations of the problem have a solution, which Walks is.

Alone == [v \in Elements |-> IF v = begin THEN 0 ELSE INFINITY]

\* The least weights g of walks, and those of walks longer by an edge.
Longer(g) ==
  [v \in Elements |->
     Least({g[v]} \union
           UNION {{Plus(g[u], edges[u][i].weight) :
                     i \in {j \in DOMAIN edges[u] : edges[u][j].end = v}} : u \in Elements})]

\* A solution up to n.
Solves(f, n) == f = [k \in 0 .. n |-> IF k = 0 THEN Alone ELSE Longer(f[k - 1])]

LEMMA SolutionExists == \A n \in Nat : \E f : Solves(f, n)
<1> DEFINE S == {n \in Nat : \E f : Solves(f, n)}
<1>1. 0 \in S
  <2> DEFINE f == [k \in 0 .. 0 |-> Alone]
  <2>1. \A k \in 0 .. 0 : k = 0
    OBVIOUS
  <2>2. f = [k \in 0 .. 0 |-> IF k = 0 THEN Alone ELSE Longer(f[k - 1])]
    BY <2>1
  <2> QED
    BY <2>2 DEF Solves
<1>2. ASSUME NEW m \in Nat \ {0}, m - 1 \in S PROVE m \in S
  <2>1. PICK f : Solves(f, m - 1)
    BY <1>2
  <2> DEFINE g == [k \in 0 .. m |-> IF k = m THEN Longer(f[m - 1]) ELSE f[k]]
             h == [k \in 0 .. m |-> IF k = 0 THEN Alone ELSE Longer(g[k - 1])]
  <2>2. \A k \in 0 .. m : g[k] = h[k]
    <3> TAKE k \in 0 .. m
    <3>1. CASE k = 0
      <4>1. g[k] = f[0] /\ h[k] = Alone /\ 0 \in 0 .. m - 1
        BY <1>2, <3>1
      <4>2. f[0] = Alone
        BY <2>1, <4>1 DEF Solves
      <4> QED
        BY <4>1, <4>2
    <3>2. CASE k # 0 /\ k # m
      <4>1. k \in 0 .. m - 1 /\ k - 1 \in 0 .. m /\ k - 1 # m
        BY <1>2, <3>2
      <4>2. g[k] = f[k] /\ g[k - 1] = f[k - 1]
        BY <3>2, <4>1
      <4>3. f[k] = Longer(f[k - 1]) /\ h[k] = Longer(g[k - 1])
        BY <2>1, <3>2, <4>1 DEF Solves
      <4> QED
        BY <4>2, <4>3
    <3>3. CASE k # 0 /\ k = m
      <4>1. k - 1 \in 0 .. m /\ k - 1 # m /\ k - 1 = m - 1
        BY <1>2, <3>3
      <4>2. g[k - 1] = f[m - 1]
        BY <4>1
      <4>3. g[k] = Longer(f[m - 1]) /\ h[k] = Longer(g[k - 1])
        BY <3>3
      <4> QED
        BY <4>2, <4>3
    <3> QED
      BY <3>1, <3>2, <3>3
  <2>3. g = h
    BY <2>2, Zenon
  <2>4. Solves(g, m)
    BY <2>3 DEF Solves
  <2> QED
    BY <2>4
<1>3. ASSUME NEW n \in Nat PROVE n \in S
  <2>1. \A k \in 1 .. n : k - 1 \in S => k \in S
    BY <1>2
  <2> HIDE DEF S
  <2> QED
    BY <1>1, <2>1, FromZero
<1> QED
  BY <1>3

LEMMA WalksSolve ==
  /\ Cardinality(Elements) \in Nat
  /\ Walks[0] = Alone
  /\ \A n \in 1 .. Cardinality(Elements) : Walks[n] = Longer(Walks[n - 1])
<1>1. Cardinality(Elements) \in Nat
  BY ElementsAssumption, FS_CardinalityType
<1>2. PICK f : Solves(f, Cardinality(Elements))
  BY <1>1, SolutionExists
<1>3. Walks = CHOOSE g : g = [k \in 0 .. Cardinality(Elements) |->
                                IF k = 0 THEN Alone ELSE Longer(g[k - 1])]
  BY DEF Walks, Alone, Longer
<1>4. Walks = [k \in 0 .. Cardinality(Elements) |->
                 IF k = 0 THEN Alone ELSE Longer(Walks[k - 1])]
  BY <1>2, <1>3 DEF Solves
<1> QED
  BY <1>1, <1>4

\* What is longer by an edge at most, and no more than any way to get there.
LEMMA LongerIsLeast ==
  ASSUME TypeOK, NEW g \in [Elements -> 0 .. INFINITY], NEW v \in Elements
  PROVE  /\ Longer(g)[v] \in 0 .. INFINITY
         /\ Longer(g)[v] <= g[v]
         /\ \A u \in Elements : \A i \in DOMAIN edges[u] :
              edges[u][i].end = v => Longer(g)[v] <= Plus(g[u], edges[u][i].weight)
         /\ \/ Longer(g)[v] = g[v]
            \/ \E u \in Elements : \E i \in DOMAIN edges[u] :
                 edges[u][i].end = v /\ Longer(g)[v] = Plus(g[u], edges[u][i].weight)
<1> DEFINE Over(u) == {Plus(g[u], edges[u][i].weight) : i \in {j \in DOMAIN edges[u] : edges[u][j].end = v}}
           S == {g[v]} \union UNION {Over(u) : u \in Elements}
<1>1. Longer(g)[v] = Least(S)
  BY DEF Longer
<1>2. \A u \in Elements : Over(u) \subseteq Nat
  <2> TAKE u \in Elements
  <2>1. \A i \in DOMAIN edges[u] : edges[u][i].weight \in Nat
    <3>1. \A i \in DOMAIN edges[u] : edges[u][i] \in Edge
      BY ElementOfSeq DEF TypeOK
    <3> QED
      BY <3>1, WeightsAssumption DEF Edge
  <2>2. g[u] \in Nat /\ INFINITY \in Nat
    BY InfinityAssumption
  <2> QED
    BY <2>1, <2>2 DEF Plus
<1>3. g[v] \in Nat /\ g[v] <= INFINITY /\ INFINITY \in Nat
  BY InfinityAssumption
<1>4. S \in SUBSET Nat /\ S # {}
  BY <1>2, <1>3
<1>5. Least(S) \in S /\ \A x \in S : Least(S) <= x
  BY <1>4, LeastExists
<1>6. \A u \in Elements : \A i \in DOMAIN edges[u] :
        edges[u][i].end = v => Plus(g[u], edges[u][i].weight) \in S
  OBVIOUS
<1>7. \A x \in S : \/ x = g[v]
                   \/ \E u \in Elements : \E i \in DOMAIN edges[u] :
                        edges[u][i].end = v /\ x = Plus(g[u], edges[u][i].weight)
  OBVIOUS
<1> HIDE DEF S
<1>8. g[v] \in S
  BY DEF S
<1>9. Least(S) \in 0 .. INFINITY /\ Least(S) <= g[v]
  <2>1. Least(S) \in Nat
    BY <1>4, <1>5
  <2>2. Least(S) <= g[v]
    BY <1>5, <1>8
  <2> QED
    BY <1>3, <2>1, <2>2
<1> QED
  BY <1>1, <1>5, <1>6, <1>7, <1>9

-----------------------------------------------------------------------------
\* Once everything is visited, distances are the least weights of walks.

Settled(n, rank) ==
  /\ Walks[n] \in [Elements -> 0 .. INFINITY]
  /\ Walks[n][begin] = 0
  /\ \A v \in Elements : distance[v] <= Walks[n][v]
  /\ \A v \in visited : rank[v] <= n => Walks[n][v] <= distance[v]

LEMMA DistanceIsShortest ==
  ASSUME TypeOK, TreeOK, RankOK, Known \subseteq visited, pc # "search"
  PROVE  \A v \in Elements : Shortest[v] = distance[v]
<1> DEFINE N == Cardinality(Elements)
<1>1. PICK rank \in [Elements -> 0 .. N] :
        \A v \in visited : /\ rank[v] < Cardinality(visited)
                           /\ previous[v] # Nobody => rank[previous[v]] < rank[v]
  BY DEF RankOK
<1>2. N \in Nat
  BY WalksSolve
<1>3. /\ \A v \in Elements : distance[v] \in 0 .. INFINITY /\ rank[v] \in Nat
      /\ visited \subseteq Elements /\ begin \in Elements /\ INFINITY \in Nat
      /\ distance[begin] = 0
  BY <1>1, <1>2, InfinityAssumption DEF TypeOK, TreeOK
<1>4. \A u \in Elements : \A i \in DOMAIN edges[u] :
        edges[u][i].weight \in Nat /\ edges[u][i].end \in Elements
  <2>1. \A u \in Elements : \A i \in DOMAIN edges[u] : edges[u][i] \in Edge
    BY ElementOfSeq DEF TypeOK
  <2> QED
    BY <2>1, WeightsAssumption DEF Edge
<1>5. \A u \in Elements : u \in visited \/ distance[u] = INFINITY
  BY <1>3 DEF TreeOK
<1>6. \A u \in Elements : \A i \in DOMAIN edges[u] :
        distance[edges[u][i].end] <= Plus(distance[u], edges[u][i].weight)
  <2> TAKE u \in Elements
  <2> TAKE i \in DOMAIN edges[u]
  <2>1. CASE u \in visited
    BY <2>1 DEF TreeOK, Relaxed
  <2>2. CASE distance[u] = INFINITY
    BY <1>3, <1>4, <2>2 DEF Plus
  <2> QED
    BY <1>5, <2>1, <2>2
<1>7. Settled(0, rank)
  <2>1. Walks[0] = [v \in Elements |-> IF v = begin THEN 0 ELSE INFINITY]
    BY WalksSolve DEF Alone
  <2>2. \A v \in visited : rank[v] <= 0 => Walks[0][v] <= distance[v]
    <3> SUFFICES ASSUME NEW v \in visited, rank[v] <= 0 PROVE Walks[0][v] <= distance[v]
      OBVIOUS
    <3>1. previous[v] = Nobody
      <4>1. SUFFICES ASSUME previous[v] # Nobody PROVE FALSE
        OBVIOUS
      <4>2. previous[v] \in Elements
        BY <1>3, <4>1 DEF TypeOK
      <4> QED
        BY <1>1, <1>3, <4>1, <4>2
    <3> QED
      BY <1>3, <2>1, <3>1 DEF TreeOK
  <2> QED
    BY <1>3, <2>1, <2>2 DEF Settled
<1>8. ASSUME NEW n \in 1 .. N, Settled(n - 1, rank)
      PROVE  Settled(n, rank)
  <2> DEFINE g == Walks[n - 1]
  <2>1. /\ g \in [Elements -> 0 .. INFINITY] /\ g[begin] = 0
        /\ \A v \in Elements : distance[v] <= g[v]
        /\ \A v \in visited : rank[v] <= n - 1 => g[v] <= distance[v]
    BY <1>8 DEF Settled
  <2>2. Walks[n] = Longer(g)
    BY WalksSolve
  <2> HIDE DEF g
  <2>3. \A v \in Elements : Longer(g)[v] \in 0 .. INFINITY /\ Longer(g)[v] <= g[v] /\ g[v] \in 0 .. INFINITY
    BY <2>1, LongerIsLeast
  <2>4. Longer(g) \in [Elements -> 0 .. INFINITY]
    BY <2>3 DEF Longer
  <2>5. Longer(g)[begin] = 0
    BY <1>3, <2>1, <2>3
  <2>6. ASSUME NEW v \in Elements PROVE distance[v] <= Longer(g)[v]
    <3>1. CASE Longer(g)[v] = g[v]
      BY <2>1, <3>1
    <3>2. CASE \E u \in Elements : \E i \in DOMAIN edges[u] :
                 edges[u][i].end = v /\ Longer(g)[v] = Plus(g[u], edges[u][i].weight)
      <4>0. PICK u \in Elements : \E i \in DOMAIN edges[u] :
              edges[u][i].end = v /\ Longer(g)[v] = Plus(g[u], edges[u][i].weight)
        BY <3>2
      <4>1. PICK i \in DOMAIN edges[u] :
              edges[u][i].end = v /\ Longer(g)[v] = Plus(g[u], edges[u][i].weight)
        BY <4>0
      <4>2. distance[v] <= Plus(distance[u], edges[u][i].weight)
        BY <1>6, <4>1
      <4>3. distance[u] <= g[u] /\ g[u] \in 0 .. INFINITY /\ edges[u][i].weight \in Nat
        BY <1>4, <2>1, <2>3
      <4> QED
        BY <1>3, <4>1, <4>2, <4>3 DEF Plus
    <3> QED
      BY <2>1, <3>1, <3>2, LongerIsLeast
  <2>7. ASSUME NEW v \in visited, rank[v] <= n PROVE Longer(g)[v] <= distance[v]
    <3>1. CASE previous[v] = Nobody
      BY <1>3, <2>3, <2>5, <3>1 DEF TreeOK
    <3>2. CASE previous[v] # Nobody
      <4>1. /\ previous[v] \in visited /\ distance[v] < INFINITY
            /\ \E i \in DOMAIN edges[previous[v]] :
                 /\ edges[previous[v]][i].end = v
                 /\ distance[previous[v]] + edges[previous[v]][i].weight = distance[v]
        BY <1>3, <3>2 DEF TreeOK, Follows
      <4>2. PICK u \in visited : u = previous[v]
        BY <4>1
      <4>3. PICK i \in DOMAIN edges[u] :
              edges[u][i].end = v /\ distance[u] + edges[u][i].weight = distance[v]
        BY <4>1, <4>2
      <4>4. rank[u] < rank[v] /\ rank[u] \in Nat /\ rank[v] \in Nat
        BY <1>1, <1>3, <3>2, <4>2
      <4>5. rank[u] <= n - 1
        BY <2>7, <4>4
      <4>6. g[u] <= distance[u]
        BY <2>1, <4>5
      <4>7. Longer(g)[v] <= Plus(g[u], edges[u][i].weight)
        BY <1>3, <2>1, <4>3, LongerIsLeast
      <4>8. edges[u][i].weight \in Nat /\ g[u] \in 0 .. INFINITY /\ distance[u] \in 0 .. INFINITY
            /\ distance[v] \in 0 .. INFINITY
        BY <1>3, <1>4, <2>3
      <4>9. g[u] # INFINITY
        BY <1>3, <4>1, <4>3, <4>6, <4>8
      <4> QED
        BY <1>3, <2>3, <4>3, <4>6, <4>7, <4>8, <4>9 DEF Plus
    <3> QED
      BY <3>1, <3>2
  <2> QED
    BY <2>2, <2>4, <2>5, <2>6, <2>7 DEF Settled
<1> DEFINE S == {n \in 0 .. N : Settled(n, rank)}
<1>9. 0 \in S /\ \A n \in 1 .. N : n - 1 \in S => n \in S
  BY <1>2, <1>7, <1>8
<1>10. \A n \in 0 .. N : n \in S
  <2> HIDE DEF S
  <2> QED
    BY <1>2, <1>9, FromZero
<1>11. Settled(N, rank)
  BY <1>2, <1>10
<1>12. ASSUME NEW v \in Elements PROVE Shortest[v] = distance[v]
  <2>1. /\ Shortest[v] \in 0 .. INFINITY /\ distance[v] <= Shortest[v]
        /\ v \in visited => Shortest[v] <= distance[v]
    BY <1>1, <1>11 DEF Settled, Shortest
  <2> QED
    BY <1>3, <1>5, <2>1
<1> QED
  BY <1>12

-----------------------------------------------------------------------------
\* Every step keeps the ways.

LEMMA WayInit == Init => WayInv
BY DEF Init, WayInv, GraphOK

LEMMA AddedElements ==
  ASSUME NEW known \in Seq(Elements), NEW e \in Elements
  PROVE  /\ Added(known, e) \in Seq(Elements)
         /\ \E i \in DOMAIN Added(known, e) : Added(known, e)[i] = e
         /\ \A i \in DOMAIN known :
              i \in DOMAIN Added(known, e) /\ Added(known, e)[i] = known[i]
<1>1. CASE \E i \in DOMAIN known : known[i] = e
  BY <1>1 DEF Added
<1>2. CASE ~\E i \in DOMAIN known : known[i] = e
  <2>1. Added(known, e) = Append(known, e)
    BY <1>2 DEF Added
  <2>2. /\ Append(known, e) \in Seq(Elements)
        /\ Len(known) \in Nat /\ DOMAIN known = 1 .. Len(known)
        /\ DOMAIN Append(known, e) = 1 .. Len(known) + 1
        /\ Append(known, e)[Len(known) + 1] = e
        /\ \A i \in 1 .. Len(known) : Append(known, e)[i] = known[i]
    BY AppendProperties, LenProperties
  <2>3. Len(known) + 1 \in DOMAIN Append(known, e) /\ \A i \in DOMAIN known : i \in DOMAIN Append(known, e)
    BY <2>2
  <2> QED
    BY <2>1, <2>2, <2>3
<1> QED
  BY <1>1, <1>2

\* The edges all join members of K.
Within(all, K) ==
  /\ all \in [Elements -> Seq(Edge)]
  /\ \A u \in Elements : \A i \in DOMAIN all[u] : {u, all[u][i].end} \subseteq K

LEMMA LinkedEnds ==
  ASSUME NEW all, NEW K, Within(all, K),
         NEW x \in Elements, NEW y \in Elements, {x, y} \subseteq K, NEW w \in Weights
  PROVE  Within(Linked(all, x, y, w), K)
<1> DEFINE e == [end |-> y, weight |-> w]
<1>1. e \in Edge /\ e.end = y
  BY DEF Edge
<1> HIDE DEF e
<1>2. Linked(all, x, y, w) = [all EXCEPT ![x] = Append(@, e)]
  BY DEF Linked, e
<1>3. all[x] \in Seq(Edge)
  BY DEF Within
<1>4. /\ Append(all[x], e) \in Seq(Edge)
      /\ Len(all[x]) \in Nat /\ DOMAIN all[x] = 1 .. Len(all[x])
      /\ DOMAIN Append(all[x], e) = 1 .. Len(all[x]) + 1
      /\ Append(all[x], e)[Len(all[x]) + 1] = e
      /\ \A i \in 1 .. Len(all[x]) : Append(all[x], e)[i] = all[x][i]
  BY <1>1, <1>3, AppendProperties, LenProperties
<1>5. \A i \in DOMAIN Append(all[x], e) : Append(all[x], e)[i].end \in K
  <2>1. \A i \in DOMAIN Append(all[x], e) : i \in DOMAIN all[x] \/ i = Len(all[x]) + 1
    BY <1>4
  <2> QED
    BY <1>1, <1>4, <2>1 DEF Within
<1> QED
  BY <1>2, <1>4, <1>5 DEF Within

LEMMA AddLinkWay ==
  ASSUME IInv, WayInv, NEW a \in Elements, NEW b \in Elements, NEW link \in LinkTypes,
         NEW w \in Weights, AddLink(a, b, link, w)
  PROVE  WayInv'
<1>1. pc = "build" /\ UNCHANGED <<pc, search>>
  BY DEF AddLink
<1>2. vertices \in Seq(Elements) /\ edges \in [Elements -> Seq(Edge)]
  BY DEF IInv, TypeOK
<1>3. {a, b} \subseteq Known' /\ Known \subseteq Known'
  <2> DEFINE k == Added(vertices, a)
             l == Added(k, b)
  <2>1. /\ k \in Seq(Elements)
        /\ \E i \in DOMAIN k : k[i] = a
        /\ \A i \in DOMAIN vertices : i \in DOMAIN k /\ k[i] = vertices[i]
    BY <1>2, AddedElements
  <2> HIDE DEF k
  <2>2. /\ \E i \in DOMAIN l : l[i] = b
        /\ \A i \in DOMAIN k : i \in DOMAIN l /\ l[i] = k[i]
    BY <2>1, AddedElements
  <2>3. vertices' = l
    BY DEF AddLink, k
  <2> HIDE DEF l
  <2> QED
    BY <2>1, <2>2, <2>3 DEF Known
<1> DEFINE ab == Linked(edges, a, b, w)
           ba == Linked(edges, b, a, w)
<1>4. Within(edges, Known')
  BY <1>2, <1>3 DEF WayInv, GraphOK, Within
<1>5. Within(ab, Known') /\ Within(ba, Known')
  BY <1>3, <1>4, LinkedEnds
<1> HIDE DEF ab, ba
<1>6. Within(Linked(ab, b, a, w), Known')
  BY <1>3, <1>5, LinkedEnds
<1>7. edges' = ab \/ edges' = ba \/ edges' = Linked(ab, b, a, w)
  BY DEF AddLink, LinkTypes, ab, ba
<1>8. Within(edges', Known')
  BY <1>5, <1>6, <1>7
<1>9. GraphOK'
  BY <1>8 DEF GraphOK, Within
<1> QED
  BY <1>1, <1>9 DEF WayInv, search

LEMMA SolveWay ==
  ASSUME IInv, WayInv, NEW b \in Elements, NEW e \in Elements, Solve(b, e)
  PROVE  WayInv'
<1>1. /\ pc = "build" /\ pc' = "search" /\ b \in Known
      /\ begin' = b /\ start' = b /\ visited' = {b}
      /\ distance' = [distance EXCEPT ![b] = 0]
      /\ UNCHANGED <<vertices, edges, previous, path>>
  BY DEF Solve, graph
<1>2. /\ distance = [x \in Elements |-> INFINITY]
      /\ previous = [x \in Elements |-> Nobody]
      /\ path = <<>>
  BY <1>1 DEF WayInv
<1>3. GraphOK'
  BY <1>1 DEF WayInv, GraphOK, Known
<1>4. TreeOK'
  <2>1. \A x \in Elements : distance'[x] = IF x = b THEN 0 ELSE INFINITY
    BY <1>1, <1>2
  <2> QED
    BY <1>1, <1>2, <2>1, InfinityAssumption DEF TreeOK, Known, IInv, TypeOK
<1>5. RankOK'
  <2> DEFINE rank == [x \in Elements |-> 0]
  <2>1. rank \in [Elements -> 0 .. Cardinality(Elements)]
    BY WalksSolve
  <2>2. Cardinality(visited') = 1
    BY <1>1, FS_Singleton
  <2>3. \A x \in visited' : rank[x] < Cardinality(visited') /\ previous'[x] = Nobody
    BY <1>1, <1>2, <2>2
  <2> HIDE DEF rank
  <2> QED
    BY <2>1, <2>3 DEF RankOK
<1> QED
  BY <1>1, <1>2, <1>3, <1>4, <1>5 DEF WayInv

\* A vertex that is improved has its distance over an edge of start.
LEMMA ImprovedFollows ==
  ASSUME IInv, pc = "search", NEW v \in Improved
  PROVE  /\ Least(Offers(v)) < INFINITY
         /\ \E i \in DOMAIN edges[start] :
              edges[start][i].end = v /\ distance[start] + edges[start][i].weight = Least(Offers(v))
<1>1. v \in Elements /\ Offers(v) # {} /\ Offers(v) \subseteq Nat
  BY OffersAreFarther DEF Improved
<1>2. Least(Offers(v)) \in Offers(v)
  BY <1>1, LeastExists
<1>3. PICK i \in DOMAIN edges[start] :
        edges[start][i].end = v /\ Least(Offers(v)) = Plus(distance[start], edges[start][i].weight)
  BY <1>2 DEF Offers
<1>4. distance[v] \in 0 .. INFINITY /\ INFINITY \in Nat
  BY <1>1, InfinityAssumption DEF IInv, TypeOK
<1>5. Least(Offers(v)) < INFINITY
  BY <1>1, <1>4, UpdateKeeps
<1> QED
  BY <1>3, <1>4, <1>5 DEF Plus

\* What an edge of start offers is refused only by a vertex that has no less.
LEMMA OffersAreTaken ==
  ASSUME IInv, Visit, NEW i \in DOMAIN edges[start]
  PROVE  distance'[edges[start][i].end] <= Plus(distance[start], edges[start][i].weight)
<1> DEFINE v == edges[start][i].end
           d == Plus(distance[start], edges[start][i].weight)
<1>1. pc = "search" /\ start \in Elements
  BY DEF Visit, IInv, TypeOK, SearchInv, Frontier
<1>2. v \in Elements
  <2>1. edges[start][i] \in Edge
    BY <1>1, ElementOfSeq DEF IInv, TypeOK
  <2> QED
    BY <2>1 DEF Edge
<1>3. d \in Offers(v)
  BY DEF Offers
<1> HIDE DEF v, d
<1>4. Offers(v) \subseteq Nat /\ Offers(v) # {}
  BY <1>1, <1>2, <1>3, OffersAreFarther
<1>5. Least(Offers(v)) <= d /\ Least(Offers(v)) \in Nat /\ d \in Nat
  BY <1>3, <1>4, LeastExists
<1>6. distance[v] \in Nat
  BY <1>2, InfinityAssumption DEF IInv, TypeOK
<1>7. distance'[v] = IF v \in Improved THEN Least(Offers(v)) ELSE distance[v]
  BY <1>2 DEF Visit
<1>8. v \notin Improved => distance[v] <= Least(Offers(v))
  BY <1>2, <1>4, <1>5, <1>6 DEF Improved, Beats
<1>9. distance'[v] <= d
  BY <1>5, <1>6, <1>7, <1>8
<1> QED
  BY <1>9 DEF v, d

LEMMA VisitWay ==
  ASSUME IInv, WayInv, Visit
  PROVE  WayInv'
<1>1. /\ pc = "search" /\ pc' \in {"search", "trace"}
      /\ start \in visited /\ visited \subseteq Elements /\ end \in Elements
      /\ UNCHANGED <<vertices, edges, begin, end, path>>
      /\ GraphOK /\ TreeOK /\ RankOK /\ path = <<>>
      /\ visited \subseteq visited' /\ IInv'
      /\ INFINITY \in Nat
      /\ \A v \in Elements : distance[v] \in 0 .. INFINITY /\ distance'[v] \in 0 .. INFINITY
  <2>1. visited \subseteq visited' /\ pc' \in {"search", "trace"}
    BY DEF Visit
  <2> QED
    BY <2>1, VisitKeeps, InfinityAssumption
       DEF Visit, graph, IInv, TypeOK, SearchInv, Frontier, WayInv
<1>2. \A v \in visited : distance'[v] = distance[v] /\ previous'[v] = previous[v]
  BY VisitKeeps
<1>3. \A v \in Elements :
        IF v \in Improved THEN distance'[v] = Least(Offers(v)) /\ previous'[v] = start
                          ELSE distance'[v] = distance[v] /\ previous'[v] = previous[v]
  BY DEF Visit
<1>4. \A v \in Elements : distance'[v] <= distance[v]
  BY <1>1, <1>3, UpdateKeeps
<1>5. GraphOK'
  BY <1>1 DEF GraphOK, Known
<1>6. start # Nobody /\ begin \in Elements
  BY <1>1, NobodyAssumption DEF TreeOK
<1>7. TreeOK'
  <2>1. begin' \in visited' /\ distance'[begin'] = 0
    BY <1>1, <1>2 DEF TreeOK
  <2>2. ASSUME NEW v \in Improved
        PROVE  previous'[v] # Nobody /\ Follows(v)' /\ v \in Known'
    <3>1. PICK i \in DOMAIN edges[start] :
            edges[start][i].end = v /\ distance[start] + edges[start][i].weight = distance'[v]
      BY <1>1, <1>3, ImprovedFollows DEF Improved
    <3>2. distance'[v] < INFINITY /\ previous'[v] = start /\ distance'[start] = distance[start]
      BY <1>1, <1>2, <1>3, ImprovedFollows DEF Improved
    <3>3. v \in Known'
      BY <1>1, <3>1 DEF GraphOK, Known
    <3> QED
      BY <1>1, <1>6, <3>1, <3>2, <3>3 DEF Follows
  <2>3. ASSUME NEW v \in Elements \ Improved
        PROVE  /\ IF previous'[v] = Nobody THEN v = begin \/ distance'[v] = INFINITY
                                           ELSE Follows(v)'
               /\ distance'[v] < INFINITY => v \in Known'
    <3>1. distance'[v] = distance[v] /\ previous'[v] = previous[v]
      BY <1>3
    <3>2. Known' = Known
      BY <1>1 DEF Known
    <3>3. IF previous[v] = Nobody THEN v = begin \/ distance[v] = INFINITY ELSE Follows(v)
      BY <1>1 DEF TreeOK
    <3>4. ASSUME Follows(v) PROVE Follows(v)'
      <4>1. PICK u \in visited : u = previous[v]
        BY <3>4 DEF Follows
      <4>2. distance'[u] = distance[u]
        BY <1>2
      <4> QED
        BY <1>1, <3>1, <3>4, <4>1, <4>2 DEF Follows
    <3> QED
      BY <1>1, <3>1, <3>2, <3>3, <3>4 DEF TreeOK
  <2>4. ASSUME NEW u \in visited PROVE Relaxed(u)'
    <3>1. CASE u = start
      BY <1>1, <1>2, <3>1, OffersAreTaken DEF Relaxed
    <3>2. CASE u # start
      <4>1. Relaxed(u) /\ distance'[u] = distance[u]
        BY <1>1, <1>2, <3>2 DEF TreeOK
      <4>2. ASSUME NEW i \in DOMAIN edges[u]
            PROVE  distance'[edges[u][i].end] <= Plus(distance[u], edges[u][i].weight)
        <5>1. edges[u][i] \in Edge
          BY <1>1, ElementOfSeq DEF IInv, TypeOK
        <5>2. edges[u][i].end \in Elements /\ edges[u][i].weight \in Nat
          BY <5>1, WeightsAssumption DEF Edge
        <5>3. distance[edges[u][i].end] <= Plus(distance[u], edges[u][i].weight)
          BY <4>1 DEF Relaxed
        <5>4. distance'[edges[u][i].end] <= distance[edges[u][i].end]
          BY <1>4, <5>2
        <5>5. Plus(distance[u], edges[u][i].weight) \in Nat
          BY <1>1, <5>2 DEF Plus
        <5> QED
          BY <1>1, <5>2, <5>3, <5>4, <5>5
      <4> QED
        BY <1>1, <4>1, <4>2 DEF Relaxed
    <3> QED
      BY <3>1, <3>2
  <2>5. \A u \in visited' : u \in visited \/ (pc' = "search" /\ u = start')
    BY DEF Visit
  <2> QED
    BY <1>1, <2>1, <2>2, <2>3, <2>4, <2>5 DEF TreeOK
<1>8. RankOK'
  <2>1. PICK rank \in [Elements -> 0 .. Cardinality(Elements)] :
          \A v \in visited : /\ rank[v] < Cardinality(visited)
                             /\ previous[v] # Nobody => rank[previous[v]] < rank[v]
    BY <1>1 DEF RankOK
  <2>2. CASE Left = {}
    <3>1. visited' = visited
      BY <2>2 DEF Visit
    <3> QED
      BY <1>2, <2>1, <3>1 DEF RankOK
  <2>3. CASE Left # {}
    <3>1. PICK x \in Elements \ visited : start' = x /\ visited' = visited \union {x}
      <4>1. distance' \in [Elements -> 0 .. INFINITY] /\ vertices \in Seq(Elements)
        BY <1>1 DEF IInv, TypeOK
      <4>2. PICK i \in Left : start' = vertices[i] /\ vertices[i] \in Elements
        BY <2>3, <4>1, NearestExists DEF Visit
      <4> QED
        BY <2>3, <4>2 DEF Visit, Left
    <3>2. IsFiniteSet(visited) /\ IsFiniteSet(Elements)
      BY <1>1, ElementsAssumption, FS_Subset
    <3>3. /\ Cardinality(visited) \in Nat /\ Cardinality(Elements) \in Nat
          /\ Cardinality(visited') = Cardinality(visited) + 1
          /\ Cardinality(visited) <= Cardinality(Elements)
      BY <1>1, <3>1, <3>2, FS_CardinalityType, FS_AddElement, FS_Subset
    <3> DEFINE r == [rank EXCEPT ![x] = Cardinality(visited)]
    <3>4. r \in [Elements -> 0 .. Cardinality(Elements)]
      BY <3>1, <3>3
    <3>5. r[x] = Cardinality(visited) /\ \A v \in visited : r[v] = rank[v] /\ rank[v] \in Nat
      BY <1>1, <3>1, <3>3
    <3> HIDE DEF r
    <3>6. ASSUME NEW v \in visited
          PROVE  r[v] < Cardinality(visited') /\ (previous'[v] # Nobody => r[previous'[v]] < r[v])
      <4>1. previous'[v] = previous[v]
        BY <1>2
      <4>2. previous[v] # Nobody => previous[v] \in visited
        BY <1>1 DEF TreeOK, Follows
      <4>3. rank[v] < Cardinality(visited) /\ (previous[v] # Nobody => rank[previous[v]] < rank[v])
        BY <2>1
      <4>4. r[v] = rank[v] /\ rank[v] \in Nat
        BY <3>5
      <4>5. previous[v] # Nobody => r[previous[v]] = rank[previous[v]]
        BY <3>5, <4>2
      <4> QED
        BY <3>3, <4>1, <4>3, <4>4, <4>5
    <3>7. r[x] < Cardinality(visited') /\ (previous'[x] # Nobody => r[previous'[x]] < r[x])
      <4>1. previous'[x] # Nobody => previous'[x] \in visited
        BY <1>1, <1>3 DEF TreeOK, Follows
      <4>2. \A v \in visited : r[v] < Cardinality(visited)
        BY <2>1, <3>5
      <4> QED
        BY <3>3, <3>5, <4>1, <4>2
    <3> QED
      BY <3>1, <3>4, <3>6, <3>7 DEF RankOK
  <2> QED
    BY <2>2, <2>3
<1>9. pc' = "trace" => PathOK'
  <2>1. SUFFICES ASSUME pc' = "trace" PROVE PathOK'
    OBVIOUS
  <2>2. Left = {} /\ start' = end /\ visited' = visited
    BY <1>1, <2>1 DEF Visit
  <2>3. Known' \subseteq visited'
    BY <1>1, <2>2 DEF Known, Left
  <2> QED
    BY <1>1, <2>1, <2>2, <2>3 DEF PathOK
<1> QED
  BY <1>1, <1>5, <1>7, <1>8, <1>9 DEF WayInv

LEMMA TraceWay ==
  ASSUME IInv, WayInv, Trace
  PROVE  WayInv'
<1>1. /\ pc = "trace" /\ pc' \in {"trace", "done"}
      /\ path' = <<start>> \o path /\ start' = previous[start]
      /\ pc' = "done" => start' = Nobody
      /\ UNCHANGED <<vertices, edges, begin, end, distance, previous, visited>>
  BY DEF Trace, graph
<1>2. GraphOK /\ TreeOK /\ RankOK /\ PathOK /\ start \in Elements /\ path \in Seq(Elements)
  BY <1>1 DEF WayInv, IInv, SearchInv, TypeOK
<1>3. GraphOK' /\ RankOK'
  <2>1. GraphOK'
    BY <1>1, <1>2 DEF GraphOK, Known
  <2>2. RankOK'
    BY <1>1, <1>2, Zenon DEF RankOK
  <2> QED
    BY <2>1, <2>2
<1>4. TreeOK'
  BY <1>1, <1>2 DEF TreeOK, Follows, Relaxed, Known
<1>5. PathOK'
  <2>1. /\ Len(path) \in Nat /\ Len(path') = Len(path) + 1
        /\ path'[1] = start
        /\ \A i \in 1 .. Len(path) : path'[i + 1] = path[i]
    <3>1. /\ <<start>> \in Seq(Elements) /\ Len(<<start>>) = 1 /\ <<start>>[1] = start
          /\ Len(path) \in Nat
      BY <1>2, LenProperties
    <3>2. /\ Len(<<start>> \o path) = Len(<<start>>) + Len(path)
          /\ \A i \in 1 .. Len(<<start>>) + Len(path) :
               (<<start>> \o path)[i] = IF i <= Len(<<start>>) THEN <<start>>[i]
                                        ELSE path[i - Len(<<start>>)]
      BY <1>2, <3>1, ConcatProperties
    <3>3. \A i \in 1 .. Len(path) : i + 1 \in 1 .. 1 + Len(path) /\ ~(i + 1 <= 1) /\ i + 1 - 1 = i
      BY <3>1
    <3>4. 1 \in 1 .. 1 + Len(path)
      BY <3>1
    <3> QED
      BY <1>1, <3>1, <3>2, <3>3, <3>4
  <2>2. \A i \in 1 .. Len(path') - 1 : previous'[path'[i + 1]] = path'[i]
    <3> TAKE i \in 1 .. Len(path') - 1
    <3>1. i \in 1 .. Len(path)
      BY <2>1
    <3>2. CASE i = 1
      <4>1. path # <<>> /\ path'[2] = path[1]
        BY <2>1, <3>1, <3>2
      <4> QED
        BY <1>1, <1>2, <2>1, <3>2, <4>1 DEF PathOK
    <3>3. CASE i # 1
      <4>1. i - 1 \in 1 .. Len(path) - 1 /\ i - 1 \in 1 .. Len(path) /\ i - 1 + 1 = i
        BY <2>1, <3>1, <3>3
      <4>2. previous[path[i]] = path[i - 1]
        BY <1>2, <4>1 DEF PathOK
      <4>3. path'[i + 1] = path[i] /\ path'[i] = path[i - 1]
        BY <2>1, <3>1, <4>1
      <4> QED
        BY <1>1, <4>2, <4>3
    <3> QED
      BY <3>2, <3>3
  <2>3. path' # <<>> /\ path'[Len(path')] = end
    <3>1. CASE path = <<>>
      BY <1>2, <2>1, <3>1 DEF PathOK
    <3>2. CASE path # <<>>
      <4>1. Len(path) \in 1 .. Len(path)
        BY <1>2, <2>1, <3>2, EmptySeq
      <4> QED
        BY <1>2, <2>1, <3>2, <4>1 DEF PathOK
    <3> QED
      BY <3>1, <3>2
  <2>4. Known' \subseteq visited'
    BY <1>1, <1>2 DEF PathOK, Known
  <2> QED
    BY <1>1, <1>2, <2>1, <2>2, <2>3, <2>4 DEF PathOK
<1> QED
  BY <1>1, <1>3, <1>4, <1>5 DEF WayInv

LEMMA WayStep == IInv /\ WayInv /\ [Next]_vars => WayInv'
<1> SUFFICES ASSUME IInv, WayInv, [Next]_vars PROVE WayInv'
  OBVIOUS
<1>1. CASE Build
  BY <1>1, AddLinkWay DEF Build
<1>2. CASE \E b, e \in Elements : Solve(b, e)
  BY <1>2, SolveWay
<1>3. CASE Visit
  BY <1>3, VisitWay
<1>4. CASE Trace
  BY <1>4, TraceWay
<1>5. CASE UNCHANGED vars
  BY <1>5 DEF vars, graph, search, WayInv, GraphOK, TreeOK, RankOK, PathOK, Follows,
              Relaxed, Known
<1> QED
  BY <1>1, <1>2, <1>3, <1>4, <1>5 DEF Next

\* Each vertex has its distance over an edge of the one it has as previous, and
\* nothing is to be gained over the edges of a visited one.
THEOREM WayAlways == Spec => []WayInv
BY WayInit, WayStep, InvariantHolds, PTL DEF Spec

-----------------------------------------------------------------------------
\* What was found is a shortest way.

LEMMA WayIsShortest ==
  ASSUME IInv, WayInv, pc = "done"
  PROVE  FindsShortest
<1>1. /\ TypeOK /\ TreeOK /\ RankOK /\ PathOK
      /\ path # <<>> /\ path \in Seq(Elements) /\ end \in Elements
      /\ path[Len(path)] = end /\ previous[path[1]] = Nobody
      /\ \A i \in 1 .. Len(path) - 1 : previous[path[i + 1]] = path[i]
      /\ INFINITY \in Nat
  BY InfinityAssumption DEF IInv, TypeOK, WayInv, PathOK
<1>2. \A v \in Elements : Shortest[v] = distance[v] /\ distance[v] \in 0 .. INFINITY
  BY <1>1, DistanceIsShortest DEF PathOK, TypeOK
<1>3. Len(path) \in Nat \ {0} /\ \A i \in 1 .. Len(path) : path[i] \in Elements
  BY <1>1, EmptySeq, LenProperties, ElementOfSeq
<1> HIDE DEF Shortest
<1>4. ASSUME NEW i \in 1 .. Len(path) - 1
      PROVE  Along(path[i], path[i + 1]) /\ distance[path[i]] < INFINITY /\ distance[path[i + 1]] < INFINITY
  <2>1. i \in 1 .. Len(path) /\ i + 1 \in 1 .. Len(path)
    BY <1>3
  <2>2. path[i] \in Elements /\ path[i + 1] \in Elements
    BY <1>3, <2>1
  <2>3. PICK u \in Elements : u = path[i]
    BY <2>2
  <2>4. PICK v \in Elements : v = path[i + 1]
    BY <2>2
  <2>5. previous[v] = u /\ u # Nobody
    BY <1>1, <2>3, <2>4, NobodyAssumption
  <2>6. Follows(v)
    BY <1>1, <2>5 DEF TreeOK
  <2>7. PICK k \in DOMAIN edges[u] :
          edges[u][k].end = v /\ distance[u] + edges[u][k].weight = distance[v]
    BY <2>5, <2>6 DEF Follows
  <2>8. edges[u][k].weight \in Nat
    <3>1. edges[u][k] \in Edge
      BY <1>1, ElementOfSeq DEF TypeOK
    <3> QED
      BY <3>1, WeightsAssumption DEF Edge
  <2>9. distance[u] < INFINITY /\ distance[v] < INFINITY
    BY <1>1, <1>2, <2>6, <2>7, <2>8 DEF Follows
  <2> QED
    BY <1>2, <2>3, <2>4, <2>7, <2>9 DEF Along
<1>5. ASSUME distance[end] = INFINITY PROVE path = <<end>>
  <2>1. Len(path) = 1
    <3>1. SUFFICES ASSUME Len(path) # 1 PROVE FALSE
      OBVIOUS
    <3>2. Len(path) - 1 \in 1 .. Len(path) - 1 /\ Len(path) - 1 + 1 = Len(path)
      BY <1>3, <3>1
    <3>3. distance[end] < INFINITY
      BY <1>1, <1>4, <3>2
    <3> QED
      BY <1>1, <1>5, <3>3
  <2> QED
    BY <1>1, <2>1
<1>6. ASSUME distance[end] < INFINITY PROVE path[1] = begin
  <2>1. distance[path[1]] < INFINITY
    <3>1. CASE Len(path) = 1
      BY <1>1, <1>6, <3>1
    <3>2. CASE Len(path) # 1
      <4>1. 1 \in 1 .. Len(path) - 1
        BY <1>3, <3>2
      <4> QED
        BY <1>4, <4>1
    <3> QED
      BY <3>1, <3>2
  <2>2. path[1] \in Elements
    BY <1>3
  <2> QED
    BY <1>1, <2>1, <2>2 DEF TreeOK
<1> QED
  BY <1>1, <1>2, <1>4, <1>5, <1>6 DEF FindsShortest

\* Dijkstra::getShortestPath returns a shortest way from begin to end, or the
\* end alone when there is none, in every graph that can be put together, with
\* parallel links and loops, links of weight 0 and distances that saturate.
THEOREM AlwaysFindsShortest == Spec => []FindsShortest
<1>1. IInv /\ WayInv => FindsShortest
  BY WayIsShortest DEF FindsShortest
<1> QED
  BY <1>1, InvariantHolds, WayAlways, PTL
=============================================================================
