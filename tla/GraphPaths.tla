----------------------------- MODULE GraphPaths -----------------------------
(***************************************************************************)
(* dijkstra(source, target) and astar(source, target) of the graph         *)
(* extension (graph_algo_paths.c, graph_algo_astar.c).                     *)
(*                                                                         *)
(* Both pop the entry of least f from a heap in which a node may have      *)
(* several entries, skip it if the node is done with, stop at the target,  *)
(* and lower the distance of the nodes behind its edges; then they follow  *)
(* prev[] back from the target into an array with room for every node      *)
(* once.  Dijkstra has no estimate, A* takes the distance of coordinates   *)
(* for one and never looks again at a node it has closed.                  *)
(*                                                                         *)
(* Which of several least entries is popped is left open.  Weights and     *)
(* coordinates are natural numbers; the heap is the set of its entries.    *)
(***************************************************************************)
EXTENDS CsrGraph

CONSTANTS
  Ends,       \* bound: the sources and targets that are asked for
  Estimates,  \* bound: estimates A* may be given, by target
  Heights,    \* bound: heights the distances are compared with
  Inf         \* 1e308, DBL_MAX

ASSUME EndsAssumption == Ends \subseteq (Node \cup {None}) \X (Node \cup {None})
ASSUME EstimatesAssumption ==
  \A t \in Node : Estimates[t] \subseteq {h \in [Node -> Nat] : h[t] = 0}
ASSUME HeightsAssumption == Heights \subseteq Nat
ASSUME InfAssumption == Inf \notin Nat

VARIABLES
  target,
  h,        \* the estimate of the way from a node to the target
  weight,   \* weights[], edge_weights[]
  rows,     \* edges whose weight is yet to be read
  pending,  \* the heap: [node, g, f]
  dist,     \* dist[], g_score[]
  prev,     \* prev[], came_from[]
  path

pathVars == <<target, h, weight, rows, pending, dist, prev, path>>
pathsVars == <<csrVars, pathVars>>

PathsIdle ==
  /\ target = None /\ h = <<>> /\ weight = <<>> /\ rows = {} /\ pending = {}
  /\ dist = <<>> /\ prev = <<>> /\ path = <<>>

Zero == [v \in Node |-> 0]

\* What an edge costs: the value of the property the call names, or 1.
HasWeight(e) == e.w # None
Cost(e)      == IF HasWeight(e) THEN e.w ELSE 1

\* The graph for a call that names no property.
Unnamed(g) == [i \in DOMAIN g |-> [g[i] EXCEPT !.w = None]]

Ones(g) == [i \in DOMAIN g |-> 1]

Begin(a, g, s, t, e) ==
  /\ CsrCall(a, g, s, {s, t})
  /\ target' = t /\ h' = e
  /\ weight' = Ones(g)
  /\ dist' = [v \in Node |-> IF v = s THEN 0 ELSE Inf]
  /\ prev' = [v \in Node |-> None]
  /\ pending' = IF None \in {s, t} THEN {} ELSE {[node |-> s, g |-> 0, f |-> e[s]]}
  /\ path' = <<>>
  /\ UNCHANGED <<visited, cur, todo>>

\* Both may be given a third argument, the property that holds the weights.
Dijkstra(g, s, t) ==
  \E m \in {g, Unnamed(g)} :
    /\ Begin("dijkstra", m, s, t, Zero)
    /\ rows' = IF None \in {s, t} THEN {} ELSE {i \in DOMAIN m : HasWeight(m[i])}

\* load_edge_weights reads the weights and uses none.
AStar(g, s, t) ==
  \E m \in {g, Unnamed(g)}, e \in IF t = None THEN {Zero} ELSE Estimates[t] :
    /\ Begin("astar", m, s, t, e)
    /\ rows' = {}

\* The row of an edge sets the first slot with the same ends: of several edges
\* between two nodes one slot gets the weight of the last row, the others keep
\* 1.  In which order SQL answers them is left open (rows with other ends
\* commute).
Parallel(i) == {k \in DOMAIN net : net[k].src = net[i].src /\ net[k].tgt = net[i].tgt}
LoadWeight ==
  /\ rows # {}
  /\ \E i \in rows \cap Parallel(FirstOf(rows)) :
       /\ weight' = [weight EXCEPT ![FirstOf(Parallel(i))] = net[i].w]
       /\ rows' = rows \ {i}
  /\ UNCHANGED <<csrVars, target, h, pending, dist, prev, path>>

Searching == stage = "search" /\ algo \in {"dijkstra", "astar"} /\ rows = {} /\ todo = {}

\* heap_pop, and what follows unless the node was visited.
LeastAny(e) == TRUE  \* seeded fault
Least(e) == \A d \in pending : e.f <= d.f
Pop(e) ==
  /\ Searching
  /\ e \in pending /\ Least(e)
  /\ pending' = pending \ {e}
  /\ IF e.node \in visited
     THEN UNCHANGED <<visited, cur, todo, stage>>
     ELSE /\ visited' = visited \cup {e.node}
          /\ cur' = e.node
          /\ IF e.node = target
             THEN stage' = "walk" /\ UNCHANGED todo
             ELSE todo' = Slots(net, e.node) /\ UNCHANGED stage
  /\ UNCHANGED <<net, algo, source, target, h, weight, rows, dist, prev, path>>

\* One slot of the node popped.
ImprovesOrEquals(v, alt) == dist[v] = Inf \/ alt <= dist[v]  \* seeded fault
ImprovesFirst(v, alt) == dist[v] = Inf  \* seeded fault
Improves(v, alt) ==
  /\ algo = "astar" => v \notin visited
  /\ dist[v] = Inf \/ alt < dist[v]
Relax ==
  /\ stage = "search" /\ algo \in {"dijkstra", "astar"} /\ todo # {}
  /\ LET i   == FirstOf(todo)
         v   == net[i].tgt
         alt == dist[cur] + weight[i]
     IN /\ todo' = todo \ {i}
        /\ IF Improves(v, alt)
           THEN /\ dist' = [dist EXCEPT ![v] = alt]
                /\ prev' = [prev EXCEPT ![v] = cur]
                /\ pending' = pending \cup {[node |-> v, g |-> alt, f |-> alt + h[v]]}
           ELSE UNCHANGED <<dist, prev, pending>>
  /\ UNCHANGED <<net, algo, stage, source, visited, cur, target, h, weight, rows, path>>

\* The heap is empty.
Exhausted ==
  /\ Searching /\ pending = {}
  /\ IF algo = "dijkstra" /\ (prev[target] # None \/ source = target)
     THEN stage' = "walk" /\ cur' = target
     ELSE stage' = "done" /\ UNCHANGED cur
  /\ UNCHANGED <<net, algo, source, visited, todo, pathVars>>

\* The path is filled from its end.
Walk ==
  /\ stage = "walk"
  /\ IF cur # None
     THEN path' = <<cur>> \o path /\ cur' = prev[cur] /\ UNCHANGED stage
     ELSE stage' = "done" /\ UNCHANGED <<path, cur>>
  /\ UNCHANGED <<net, algo, source, visited, todo, target, h, weight, rows, pending, dist, prev>>

PathsReturn ==
  /\ stage = "done" /\ algo \in {"dijkstra", "astar"}
  /\ CsrReset
  /\ target' = None /\ h' = <<>> /\ weight' = <<>> /\ rows' = {} /\ pending' = {}
  /\ dist' = <<>> /\ prev' = <<>> /\ path' = <<>>

PathsStep == LoadWeight \/ (\E e \in pending : Pop(e)) \/ Relax \/ Exhausted \/ Walk \/ PathsReturn

PathsCall ==
  /\ stage = "idle"
  /\ \E e \in Ends : \/ \E g \in NetsOf["dijkstra"] : Dijkstra(g, e[1], e[2])
                    \/ \E g \in NetsOf["astar"] : AStar(g, e[1], e[2])

PathsInit == CsrIdle /\ PathsIdle
PathsNext == PathsCall \/ PathsStep
PathsSpec == PathsInit /\ [][PathsNext]_pathsVars

-----------------------------------------------------------------------------
(* Properties.                                                             *)

Found == path # <<>>
PathsDone == stage = "done" /\ algo \in {"dijkstra", "astar"} /\ None \notin {source, target}

\* Every variable has its type.
PathsTypeOK ==
  algo \in {"dijkstra", "astar"} =>
  /\ target \in Node \cup {None}
  /\ h \in [Node -> Nat]
  /\ weight \in [DOMAIN net -> Nat]
  /\ rows \subseteq {i \in DOMAIN net : net[i].w # None}
  /\ pending \subseteq [node : Node, g : Nat, f : Nat]
  /\ dist \in [Node -> Nat \cup {Inf}]
  /\ prev \in [Node -> Node \cup {None}]
  /\ path \in Seq(Node)

\* Along every edge the estimate falls by no more than the edge costs.
Consistent == \A i \in DOMAIN net : h[net[i].src] <= Cost(net[i]) + h[net[i].tgt]

\* dijkstra takes the weights of edges for those of pairs of nodes, of which one
\* edge at most may have a weight; astar takes every edge to cost 1.
WeightsKept ==
  IF algo = "astar" THEN \A e \in {net[i] : i \in DOMAIN net} : Cost(e) = 1
  ELSE \A i \in DOMAIN net : \A k \in Parallel(i) : HasWeight(net[i]) /\ HasWeight(net[k]) => i = k

\* The answer is the length of a shortest path from source to target, by what
\* the edges of the graph cost.
Costs == [i \in DOMAIN net |-> Cost(net[i])]
Potentials == {p \in [Node -> Heights] : IsPotential(net, Costs, source, p)}
IsShortest ==
  /\ \A p \in Potentials : p[target] <= dist[target]
  /\ \E p \in Potentials : p[target] = dist[target]

\* dijkstra and astar answer the length of a shortest path by the edges' own
\* costs, if their weights[] can hold those, and if the estimate is consistent,
\* as Dijkstra's always is.
Shortest == PathsDone /\ Found /\ Consistent /\ WeightsKept => IsShortest

\* A path is found if there is one, whatever the estimate.
FoundIfAny == PathsDone => (Found <=> target \in ReachableFrom(net, source))

\* The path leads from source to target along edges whose weights, as they were
\* loaded, add up to the distance that is answered.
PathReal ==
  PathsDone /\ Found =>
    /\ path[1] = source /\ path[Len(path)] = target /\ dist[source] = 0
    /\ \A k \in 1 .. Len(path) - 1 :
         \E i \in Slots(net, path[k]) :
           net[i].tgt = path[k + 1] /\ dist[path[k + 1]] = dist[path[k]] + weight[i]

\* Nothing is written beyond path[], which has room for every node once.
PathFits == Len(path) <= Cardinality(Node)

-----------------------------------------------------------------------------
(* Claims of the source that the code does not keep; the README says when. *)

\* dijkstra: "Returns the shortest path from source to target".
DijkstraShortest == PathsDone /\ Found /\ algo = "dijkstra" => IsShortest

\* astar: "g(n) = actual cost from start to n".
AStarShortest == PathsDone /\ Found /\ algo = "astar" /\ Consistent => IsShortest
=============================================================================
