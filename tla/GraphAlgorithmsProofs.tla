------------------------ MODULE GraphAlgorithmsProofs ------------------------
(***************************************************************************)
(* Proofs about GraphAlgorithms, for any finite set of nodes, any nets,    *)
(* any estimates and limits: the paths of dijkstra and astar, what bfs and *)
(* dfs report, how deep and in which order, and the components wcc and scc *)
(* number.                                                                 *)
(***************************************************************************)
EXTENDS GraphAlgorithms, WellFoundedInduction, FiniteSetTheorems, TLAPS

\* A set of numbers that is not empty has a least member: of the intervals
\* from 0 to one of its members some interval holds no other.
LEMMA FirstOfIn ==
  ASSUME NEW S \in SUBSET Nat, S # {}
  PROVE  FirstOf(S) \in S /\ \A k \in S : FirstOf(S) <= k
<1> DEFINE Intervals == {0 .. m : m \in S}
<1>1. Intervals \subseteq FiniteSubsetsOf(Nat)
  <2>1. \A m \in S : IsFiniteSet(0 .. m)
    BY FS_Interval
  <2>2. \A m \in S : 0 .. m \in SUBSET Nat
    OBVIOUS
  <2> QED
    BY <2>1, <2>2 DEF FiniteSubsetsOf
<1>2. Intervals # {}
  OBVIOUS
<1>3. \E I \in Intervals : \A J \in Intervals : ~(<<J, I>> \in StrictSubsetOrdering(Nat))
  <2> HIDE DEF Intervals
  <2> QED
    BY <1>1, <1>2, FS_StrictSubsetOrderingWellFounded, WFMin
<1>4. PICK m \in S : \A k \in S : ~(<<0 .. k, 0 .. m>> \in StrictSubsetOrdering(Nat))
  BY <1>3
<1>5. ASSUME NEW k \in S, k < m PROVE FALSE
  <2>1. 0 .. k \subseteq 0 .. m /\ m \in 0 .. m /\ m \notin 0 .. k
    BY <1>5
  <2>2. 0 .. k \in SUBSET Nat /\ 0 .. m \in SUBSET Nat
    OBVIOUS
  <2> QED
    BY <1>4, <2>1, <2>2 DEF StrictSubsetOrdering
<1>6. \A k \in S : m <= k
  BY <1>5
<1> QED
  BY <1>6 DEF FirstOf

-----------------------------------------------------------------------------
(* Types, and what is known of a call at each stage.                       *)

Types == CsrTypeOK /\ PathsTypeOK

Stages ==
  /\ algo \in {"none", "dijkstra", "astar"}
  /\ stage = "idle" <=> algo = "none"
  /\ algo = "none" => visited = {} /\ cur = None /\ todo = {} /\ rows = {} /\ pending = {} /\ path = <<>>
  /\ stage \in {"search", "walk"} => source \in Node /\ target \in Node
  /\ stage = "search" => path = <<>> /\ target \notin visited
  /\ stage = "walk" => target \in visited /\ (cur = None => path # <<>>)
  /\ stage = "done" /\ path # <<>> => target \in visited

\* Slots are looked at while the search runs, and are those of a closed node.
Looking == todo # {} => stage = "search" /\ cur \in visited /\ todo \subseteq Slots(net, cur)

\* Weights are read before anything else is done.
Fresh == rows # {} => stage = "search" /\ visited = {} /\ \A v \in Node : dist[v] # Inf => v = source

\* The estimate of the target is 0, and a node that was closed or has a
\* predecessor has a distance.
Known ==
  algo # "none" =>
    /\ target \in Node => h[target] = 0
    /\ \A v \in visited : dist[v] # Inf
    /\ \A v \in Node : prev[v] # None => dist[v] # Inf
    /\ source \in Node => dist[source] = 0

\* An entry is never better than the distance of its node, which may have
\* improved since, and an open node has an entry that is as good.
Entries ==
  algo # "none" =>
    \A e \in pending : dist[e.node] # Inf /\ dist[e.node] <= e.g /\ e.f = e.g + h[e.node]
Queued ==
  stage = "search" =>
    \A v \in Node \ visited : dist[v] # Inf => \E e \in pending : e.node = v /\ e.g = dist[v]

Base == Types /\ Stages /\ Looking /\ Fresh /\ Known /\ Entries /\ Queued

\* No call is under way at first.
LEMMA BaseInit == PathsInit => Base
<1> SUFFICES ASSUME PathsInit PROVE Base
  OBVIOUS
<1>1. net \in Seq(Edge)
  BY DEF PathsInit, CsrIdle
<1> QED
  BY <1>1 DEF PathsInit, CsrIdle, PathsIdle, Base, Types, CsrTypeOK, PathsTypeOK, Algorithm,
              Stages, Looking, Fresh, Known, Entries, Queued

\* A call that has just been made.
LEMMA BaseBegin ==
  ASSUME Base, stage = "idle", NEW a \in {"dijkstra", "astar"}, NEW g \in Seq(Edge),
         NEW s \in Node \cup {None}, NEW t \in Node \cup {None}, NEW e \in [Node -> Nat], t \in Node => e[t] = 0,
         Begin(a, g, s, t, e), rows' \subseteq {i \in DOMAIN g : g[i].w # None},
         None \in {s, t} => rows' = {}
  PROVE  Base'
<1> USE NodeAssumption, InfAssumption
<1>1. algo = "none" /\ visited = {} /\ todo = {} /\ cur = None
  BY DEF Base, Stages
<1>2. /\ net' = g /\ algo' = a /\ source' = s /\ target' = t /\ h' = e
      /\ stage' = (IF None \in {s, t} THEN "done" ELSE "search")
      /\ visited' = {} /\ todo' = {} /\ cur' = None /\ path' = <<>>
      /\ dist' = [v \in Node |-> IF v = s THEN 0 ELSE Inf]
      /\ prev' = [v \in Node |-> None]
      /\ pending' = (IF None \in {s, t} THEN {} ELSE {[node |-> s, g |-> 0, f |-> e[s]]})
      /\ weight' = [i \in DOMAIN g |-> 1]
  BY <1>1 DEF Begin, CsrCall, Ones
<1>3. Types'
  BY <1>2 DEF Types, CsrTypeOK, PathsTypeOK, Algorithm
<1>4. Stages'
  BY <1>2 DEF Stages
<1>5. Looking' /\ Fresh'
  BY <1>2 DEF Looking, Fresh
<1>6. Known'
  BY <1>2 DEF Known
<1>7. CASE None \in {s, t}
  BY <1>2, <1>3, <1>4, <1>5, <1>6, <1>7 DEF Base, Entries, Queued
<1>8. CASE None \notin {s, t}
  <2>1. pending' = {[node |-> s, g |-> 0, f |-> e[s]]} /\ s \in Node /\ e[s] \in Nat
    BY <1>2, <1>8
  <2>2. Entries'
    BY <1>2, <2>1 DEF Entries
  <2>3. \E d \in pending' : d.node = s /\ d.g = 0
    BY <2>1
  <2>4. \A v \in Node : dist'[v] # Inf => v = s /\ dist'[v] = 0
    BY <1>2
  <2>5. Queued'
    BY <2>3, <2>4 DEF Queued
  <2> QED
    BY <1>3, <1>4, <1>5, <1>6, <2>2, <2>5 DEF Base
<1> QED
  BY <1>7, <1>8

\* A graph keeps its type when its weights are not named.
LEMMA UnnamedType ==
  ASSUME NEW g \in Seq(Edge)
  PROVE  Unnamed(g) \in Seq(Edge)
<1>1. \A i \in DOMAIN g : g[i] \in Edge
  OBVIOUS
<1>2. \A i \in DOMAIN g : [g[i] EXCEPT !.w = None] \in Edge
  BY <1>1 DEF Edge
<1>3. DOMAIN g = 1 .. Len(g) /\ Len(g) \in Nat
  OBVIOUS
<1>4. Unnamed(g) \in [1 .. Len(g) -> Edge]
  BY <1>2, <1>3 DEF Unnamed
<1> QED
  BY <1>3, <1>4

\* What a call begins with.
LEMMA CallBegins ==
  ASSUME PathsCall
  PROVE  \E a \in {"dijkstra", "astar"}, m \in Seq(Edge),
            s \in Node \cup {None}, t \in Node \cup {None}, e \in [Node -> Nat] :
           /\ Begin(a, m, s, t, e)
           /\ t \in Node => e[t] = 0
           /\ a = "dijkstra" => e = Zero
           /\ rows' = IF a = "astar" \/ None \in {s, t} THEN {} ELSE {i \in DOMAIN m : HasWeight(m[i])}
<1> USE NodeAssumption
<1>1. Zero \in [Node -> Nat] /\ \A t \in Node : Zero[t] = 0
  BY DEF Zero
<1>2. PICK x \in Ends : \/ \E g \in NetsOf["dijkstra"] : Dijkstra(g, x[1], x[2])
                      \/ \E g \in NetsOf["astar"] : AStar(g, x[1], x[2])
  BY DEF PathsCall
<1>3. x[1] \in Node \cup {None} /\ x[2] \in Node \cup {None}
  BY EndsAssumption
<1>4. ASSUME NEW g \in NetsOf["dijkstra"] \cup NetsOf["astar"], NEW m \in {g, Unnamed(g)} PROVE m \in Seq(Edge)
  BY NetsAssumption, UnnamedType DEF Algorithm
<1>5. CASE \E g \in NetsOf["dijkstra"] : Dijkstra(g, x[1], x[2])
  <2>0. PICK g \in NetsOf["dijkstra"] : Dijkstra(g, x[1], x[2])
    BY <1>5
  <2>1. PICK m \in {g, Unnamed(g)} :
          /\ Begin("dijkstra", m, x[1], x[2], Zero)
          /\ rows' = IF None \in {x[1], x[2]} THEN {} ELSE {i \in DOMAIN m : HasWeight(m[i])}
    BY <2>0 DEF Dijkstra
  <2>2. m \in Seq(Edge)
    BY <1>4
  <2> USE <1>1, <1>3, <2>2
  <2> WITNESS "dijkstra" \in {"dijkstra", "astar"}, m \in Seq(Edge),
              x[1] \in Node \cup {None}, x[2] \in Node \cup {None}, Zero \in [Node -> Nat]
  <2> QED
    BY <1>1, <2>1
<1>6. CASE \E g \in NetsOf["astar"] : AStar(g, x[1], x[2])
  <2>0. PICK g \in NetsOf["astar"] : AStar(g, x[1], x[2])
    BY <1>6
  <2>1. PICK m \in {g, Unnamed(g)}, e \in (IF x[2] = None THEN {Zero} ELSE Estimates[x[2]]) :
          Begin("astar", m, x[1], x[2], e) /\ rows' = {}
    BY <2>0 DEF AStar
  <2>2. e \in [Node -> Nat] /\ (x[2] \in Node => e[x[2]] = 0)
    BY <1>1, <1>3, EstimatesAssumption
  <2> QED
    BY <1>3, <1>4, <2>1, <2>2
<1> QED
  BY <1>2, <1>5, <1>6

\* A call that begins is as every call is known to be.
LEMMA BaseCall == Base /\ PathsCall => Base'
<1> SUFFICES ASSUME Base, PathsCall PROVE Base'
  OBVIOUS
<1>1. PICK a \in {"dijkstra", "astar"}, m \in Seq(Edge),
           s \in Node \cup {None}, t \in Node \cup {None}, e \in [Node -> Nat] :
        /\ Begin(a, m, s, t, e)
        /\ t \in Node => e[t] = 0
        /\ rows' = IF a = "astar" \/ None \in {s, t} THEN {} ELSE {i \in DOMAIN m : HasWeight(m[i])}
  BY CallBegins
<1>2. /\ rows' \subseteq {i \in DOMAIN m : m[i].w # None}
      /\ None \in {s, t} => rows' = {}
  BY <1>1 DEF HasWeight
<1> QED
  BY <1>1, <1>2, BaseBegin DEF PathsCall

\* What the graph is made of are edges between its nodes.
LEMMA EdgeOf ==
  ASSUME CsrTypeOK, NEW i \in DOMAIN net
  PROVE  net[i] \in Edge /\ net[i].src \in Node /\ net[i].tgt \in Node
<1>1. net[i] \in Edge
  BY DEF CsrTypeOK
<1> QED
  BY <1>1 DEF Edge

\* Reading a weight touches neither heap nor distances.
LEMMA BaseLoadWeight == Base /\ LoadWeight => Base'
<1> SUFFICES ASSUME Base, LoadWeight PROVE Base'
  OBVIOUS
<1> USE NodeAssumption, InfAssumption DEF LoadWeight, csrVars
<1>1. PICK i \in rows : weight' = [weight EXCEPT ![FirstOf(Parallel(i))] = net[i].w] /\ rows' = rows \ {i}
  OBVIOUS
<1>2. algo \in {"dijkstra", "astar"}
  BY DEF Base, Stages, Fresh
<1>3. net[i].w \in Nat
  <2>1. i \in DOMAIN net /\ net[i].w # None
    BY <1>1, <1>2 DEF Base, Types, PathsTypeOK
  <2> QED
    BY <2>1, EdgeOf DEF Base, Types, Edge
<1>4. Types'
  BY <1>1, <1>2, <1>3 DEF Base, Types, CsrTypeOK, PathsTypeOK
<1>5. Stages' /\ Looking' /\ Fresh' /\ Known'
  BY <1>1 DEF Base, Stages, Looking, Fresh, Known, Slots
<1>6. Entries' /\ Queued'
  BY DEF Base, Entries, Queued
<1> QED
  BY <1>4, <1>5, <1>6 DEF Base

\* What Pop finds: the least entry of an open node has its distance.
LEMMA LeastEntry ==
  ASSUME Base, Searching, NEW e \in pending, Least(e), e.node \notin visited
  PROVE  /\ e.node \in Node /\ e.g \in Nat /\ dist[e.node] = e.g
         /\ \A v \in Node \ visited : dist[v] # Inf => dist[e.node] + h[e.node] <= dist[v] + h[v]
<1> USE InfAssumption DEF Searching
<1>1. /\ pending \subseteq [node : Node, g : Nat, f : Nat]
      /\ h \in [Node -> Nat] /\ dist \in [Node -> Nat \cup {Inf}]
  BY DEF Base, Types, PathsTypeOK
<1>2. \A d \in pending : dist[d.node] # Inf /\ dist[d.node] <= d.g /\ d.f = d.g + h[d.node]
  BY DEF Base, Entries
<1>3. \A v \in Node \ visited : dist[v] # Inf => \E d \in pending : d.node = v /\ d.g = dist[v]
  BY DEF Base, Queued
<1>4. \A v \in Node \ visited : dist[v] # Inf => e.f <= dist[v] + h[v]
  BY <1>1, <1>2, <1>3 DEF Least
<1> QED
  BY <1>1, <1>2, <1>4

\* Popping closes a node or drops a stale entry.
LEMMA BasePop ==
  ASSUME Base, NEW e \in pending, Pop(e)
  PROVE  Base'
<1> USE NodeAssumption, InfAssumption DEF Pop, Searching
<1>1. /\ algo \in {"dijkstra", "astar"} /\ stage = "search"
      /\ e.node \in Node /\ pending \subseteq [node : Node, g : Nat, f : Nat]
  BY DEF Base, Types, PathsTypeOK
<1>2. Entries' /\ Fresh'
  BY <1>1 DEF Base, Entries, Fresh
<1>3. CASE e.node \in visited
  <2>1. Types'
    BY <1>1, <1>3 DEF Base, Types, CsrTypeOK, PathsTypeOK
  <2>2. Stages' /\ Looking' /\ Known'
    BY <1>1, <1>3 DEF Base, Stages, Looking, Known
  <2>3. Queued'
    BY <1>1, <1>3 DEF Base, Queued
  <2> QED
    BY <1>2, <2>1, <2>2, <2>3 DEF Base
<1>4. CASE e.node \notin visited
  <2>1. Types'
    BY <1>1, <1>4 DEF Base, Types, CsrTypeOK, PathsTypeOK, Slots
  <2>2. Stages'
    BY <1>1, <1>4 DEF Base, Stages
  <2>3. Looking'
    BY <1>1, <1>4 DEF Base, Looking, Slots
  <2>4. Known'
    BY <1>1, <1>4 DEF Base, Known, Entries
  <2>5. Queued'
    BY <1>1, <1>4 DEF Base, Queued
  <2> QED
    BY <1>2, <2>1, <2>2, <2>3, <2>4, <2>5 DEF Base
<1> QED
  BY <1>3, <1>4

\* Relaxing gives a neighbour an entry as good as its new distance.
LEMMA BaseRelax == Base /\ Relax => Base'
<1> SUFFICES ASSUME Base, Relax PROVE Base'
  OBVIOUS
<1> USE NodeAssumption, InfAssumption
<1> DEFINE i   == FirstOf(todo)
           v   == net[i].tgt
           alt == dist[cur] + weight[i]
           new == [node |-> v, g |-> alt, f |-> alt + h[v]]
<1>1. /\ algo \in {"dijkstra", "astar"} /\ stage = "search" /\ todo # {} /\ rows = {}
      /\ cur \in visited /\ todo \subseteq DOMAIN net
      /\ source \in Node
  BY DEF Relax, Base, Types, CsrTypeOK, Stages, Looking, Fresh
<1>2. i \in todo /\ i \in DOMAIN net
  <2>1. DOMAIN net \subseteq Nat
    BY DEF Base, Types, CsrTypeOK
  <2> QED
    BY <1>1, <2>1, FirstOfIn
<1>3. /\ v \in Node /\ dist[cur] \in Nat /\ weight[i] \in Nat /\ alt \in Nat /\ h[v] \in Nat
      /\ dist \in [Node -> Nat \cup {Inf}] /\ prev \in [Node -> Node \cup {None}]
      /\ pending \subseteq [node : Node, g : Nat, f : Nat]
      /\ cur \in Node
  <2>1. /\ dist \in [Node -> Nat \cup {Inf}] /\ prev \in [Node -> Node \cup {None}]
        /\ pending \subseteq [node : Node, g : Nat, f : Nat]
        /\ h \in [Node -> Nat] /\ weight \in [DOMAIN net -> Nat] /\ visited \subseteq Node
    BY <1>1 DEF Base, Types, CsrTypeOK, PathsTypeOK
  <2>2. v \in Node
    BY <1>2, EdgeOf DEF Base, Types
  <2>3. dist[cur] # Inf
    BY <1>1 DEF Base, Known
  <2> HIDE DEF i, v
  <2>4. cur \in Node /\ dist[cur] \in Nat /\ weight[i] \in Nat /\ h[v] \in Nat
    BY <1>1, <1>2, <2>1, <2>2, <2>3
  <2> QED
    BY <2>1, <2>2, <2>4
<1>4. /\ todo' = todo \ {i}
      /\ UNCHANGED <<net, algo, stage, source, visited, cur, target, h, weight, rows, path>>
      /\ \/ /\ Improves(v, alt)
            /\ dist' = [dist EXCEPT ![v] = alt] /\ prev' = [prev EXCEPT ![v] = cur]
            /\ pending' = pending \cup {new}
         \/ UNCHANGED <<dist, prev, pending>>
  BY DEF Relax
<1> HIDE DEF i, v, alt
<1>5. Stages' /\ Looking'
  <2>1. Stages'
    BY <1>1, <1>4 DEF Base, Stages
  <2>2. Slots(net', cur') = Slots(net, cur)
    BY <1>4 DEF Slots
  <2>3. Looking'
    BY <1>1, <1>4, <2>2 DEF Base, Looking
  <2> QED
    BY <2>1, <2>3
<1>6. Fresh'
  BY <1>1, <1>4 DEF Fresh
<1>7. CASE UNCHANGED <<dist, prev, pending>>
  BY <1>4, <1>5, <1>6, <1>7 DEF Base, Types, CsrTypeOK, PathsTypeOK, Known, Entries, Queued
<1>8. CASE /\ Improves(v, alt)
           /\ dist' = [dist EXCEPT ![v] = alt] /\ prev' = [prev EXCEPT ![v] = cur]
           /\ pending' = pending \cup {new}
  <2>1. new \in [node : Node, g : Nat, f : Nat] /\ new.node = v /\ new.g = alt /\ new.f = alt + h[v]
    BY <1>3
  <2>2. dist[v] = Inf \/ alt < dist[v]
    BY <1>8 DEF Improves
  <2> HIDE DEF new
  <2>3. Types'
    BY <1>1, <1>3, <1>4, <1>8, <2>1 DEF Base, Types, CsrTypeOK, PathsTypeOK
  <2>4. Known'
    BY <1>1, <1>3, <1>4, <1>8, <2>2 DEF Base, Known
  <2>5. Entries'
    BY <1>1, <1>3, <1>4, <1>8, <2>1, <2>2 DEF Base, Entries
  <2>6. Queued'
    BY <1>1, <1>3, <1>4, <1>8, <2>1 DEF Base, Queued
  <2> QED
    BY <1>5, <1>6, <2>3, <2>4, <2>5, <2>6 DEF Base
<1> QED
  BY <1>4, <1>7, <1>8

\* The heap is never empty before the target is found, if it can be found.
LEMMA ExhaustedFails == Base /\ Exhausted => stage' = "done" /\ dist[target] = Inf /\ UNCHANGED cur
<1> SUFFICES ASSUME Base, Exhausted PROVE stage' = "done" /\ dist[target] = Inf /\ UNCHANGED cur
  OBVIOUS
<1> USE InfAssumption DEF Exhausted, Searching
<1>1. source \in Node /\ target \in Node /\ target \notin visited /\ algo # "none"
  BY DEF Base, Stages
<1>2. dist[target] = Inf
  BY <1>1 DEF Base, Queued
<1>3. prev[target] = None /\ source # target
  BY <1>1, <1>2 DEF Base, Known
<1> QED
  BY <1>2, <1>3

\* The ends of a call keep what is known of it.
LEMMA BaseEnd == Base /\ (Exhausted \/ Walk \/ PathsReturn \/ UNCHANGED pathsVars) => Base'
<1> USE DEF Base, Types, CsrTypeOK, PathsTypeOK, Stages, Looking, Fresh, Known, Entries, Queued
<1>1. Base /\ Exhausted => Base'
  BY ExhaustedFails DEF Exhausted, Searching, pathVars
<1>2. Base /\ Walk => Base'
  <2> SUFFICES ASSUME Base, Walk PROVE Base'
    OBVIOUS
  <2>1. stage = "walk" /\ algo # "none" /\ todo = {} /\ rows = {}
    BY DEF Walk
  <2>2. CASE cur # None
    <3>1. cur \in Node /\ path \in Seq(Node) /\ prev \in [Node -> Node \cup {None}]
      BY <2>1, <2>2
    <3>2. path' = <<cur>> \o path /\ cur' = prev[cur]
      BY <2>2 DEF Walk
    <3>3. <<cur>> \in Seq(Node) /\ Len(<<cur>>) = 1
      BY <3>1
    <3>4. path' \in Seq(Node) /\ Len(path') = 1 + Len(path)
      BY <3>1, <3>2, <3>3
    <3>5. path' \in Seq(Node) /\ path' # <<>> /\ cur' \in Node \cup {None}
      BY <3>1, <3>2, <3>4
    <3> QED
      BY <2>1, <2>2, <3>5 DEF Walk
  <2>3. CASE cur = None
    BY <2>1, <2>3 DEF Walk
  <2> QED
    BY <2>2, <2>3
<1>3. Base /\ PathsReturn => Base'
  BY DEF PathsReturn, CsrReset
<1>4. Base /\ UNCHANGED pathsVars => Base'
  BY DEF pathsVars, csrVars, pathVars
<1> QED
  BY <1>1, <1>2, <1>3, <1>4

\* Every step keeps what is known of a call.
LEMMA BaseStep == Base /\ [PathsNext]_pathsVars => Base'
BY BaseCall, BaseLoadWeight, BasePop, BaseRelax, BaseEnd DEF PathsNext, PathsStep

-----------------------------------------------------------------------------
(* A path is found if there is one.                                        *)

\* The edges of closed nodes have been followed, all but those still to do and
\* those of the target, at which the search stops.
Behind(i) == net[i].src \in visited /\ net[i].src # target /\ i \notin todo
Followed == algo # "none" => \A i \in DOMAIN net : Behind(i) => dist[net[i].tgt] # Inf

\* Only nodes that can be reached get a distance.
Reached == algo # "none" => \A v \in Node : dist[v] # Inf => v \in ReachableFrom(net, source)

\* A search that fails has closed every node with a distance.
Failed ==
  stage = "done" /\ path = <<>> /\ source \in Node /\ target \in Node =>
    target \notin visited /\ \A v \in Node : dist[v] # Inf => v \in visited

ReachInv == Base /\ Followed /\ Reached /\ Failed

\* The source can be reached.
LEMMA ReachableSource ==
  ASSUME NEW s \in Node
  PROVE  s \in ReachableFrom(net, s)
BY DEF ReachableFrom

\* What an edge leads to from a node that can be reached can be, too.
LEMMA ReachableNext ==
  ASSUME NEW i \in DOMAIN net, net[i].src \in ReachableFrom(net, source), net[i].tgt \in Node
  PROVE  net[i].tgt \in ReachableFrom(net, source)
BY DEF ReachableFrom, IsClosed

\* What a call starts from.
LEMMA CallStarts ==
  ASSUME Base, PathsCall
  PROVE  /\ visited' = {} /\ todo' = {} /\ path' = <<>>
         /\ stage' \in {"search", "done"}
         /\ stage' = "done" => source' = None \/ target' = None
         /\ dist' = [v \in Node |-> IF v = source' THEN 0 ELSE Inf]
         /\ prev' = [v \in Node |-> None]
         /\ algo' = "dijkstra" => h' = Zero
<1>1. visited = {} /\ todo = {}
  BY DEF Base, Stages, PathsCall
<1>2. PICK a \in {"dijkstra", "astar"}, m \in Seq(Edge),
           s \in Node \cup {None}, t \in Node \cup {None}, e \in [Node -> Nat] :
        Begin(a, m, s, t, e) /\ (a = "dijkstra" => e = Zero)
  BY CallBegins
<1> QED
  BY <1>1, <1>2 DEF Begin, CsrCall

\* What the other steps leave alone.
LEMMA StepKeeps ==
  ASSUME Base, [PathsNext]_pathsVars, ~PathsCall, ~PathsReturn
  PROVE  UNCHANGED <<net, algo, source, target, h>>
BY DEF PathsNext, PathsStep, LoadWeight, Pop, Relax, Exhausted, Walk, pathsVars, csrVars, pathVars

\* What Relax does, with the slot it looks at.
LEMMA Relaxing ==
  ASSUME Base, Relax
  PROVE  \E i \in DOMAIN net :
           LET v   == net[i].tgt
               alt == dist[cur] + weight[i]
           IN /\ i \in todo /\ net[i].src = cur /\ cur \in visited /\ v \in Node /\ alt \in Nat
              /\ cur \in Node /\ dist[cur] \in Nat /\ weight[i] \in Nat
              /\ todo' = todo \ {i}
              /\ \/ Improves(v, alt) /\ dist' = [dist EXCEPT ![v] = alt] /\ prev' = [prev EXCEPT ![v] = cur]
                 \/ ~Improves(v, alt) /\ UNCHANGED <<dist, prev>>
<1> USE NodeAssumption, InfAssumption
<1> DEFINE i   == FirstOf(todo)
<1>1. /\ algo # "none" /\ todo # {} /\ cur \in visited /\ todo \subseteq DOMAIN net
      /\ todo \subseteq Slots(net, cur)
      /\ dist \in [Node -> Nat \cup {Inf}] /\ weight \in [DOMAIN net -> Nat] /\ visited \subseteq Node
      /\ dist[cur] # Inf
  BY DEF Relax, Base, Types, CsrTypeOK, PathsTypeOK, Looking, Known, Stages
<1>2. i \in todo
  <2>1. DOMAIN net \subseteq Nat
    BY DEF Base, Types, CsrTypeOK
  <2> QED
    BY <1>1, <2>1, FirstOfIn
<1>3. net[i].tgt \in Node /\ net[i].src = cur
  BY <1>1, <1>2, EdgeOf DEF Base, Types, Slots
<1>4. /\ todo' = todo \ {i}
      /\ \/ /\ Improves(net[i].tgt, dist[cur] + weight[i])
            /\ dist' = [dist EXCEPT ![net[i].tgt] = dist[cur] + weight[i]]
            /\ prev' = [prev EXCEPT ![net[i].tgt] = cur]
         \/ ~Improves(net[i].tgt, dist[cur] + weight[i]) /\ UNCHANGED <<dist, prev>>
  BY DEF Relax
<1> HIDE DEF i
<1>5. i \in DOMAIN net /\ cur \in Node /\ dist[cur] \in Nat /\ weight[i] \in Nat
  BY <1>1, <1>2
<1> QED
  BY <1>1, <1>2, <1>3, <1>4, <1>5

\* Edges out of a closed node have been followed, but for those of the node at hand.
LEMMA FollowedStep == ReachInv /\ [PathsNext]_pathsVars => Followed'
<1> SUFFICES ASSUME ReachInv, [PathsNext]_pathsVars PROVE Followed'
  OBVIOUS
<1> USE InfAssumption
<1>1. CASE PathsCall
  BY <1>1, CallStarts DEF ReachInv, Followed, Behind
<1>2. CASE LoadWeight
  BY <1>2 DEF ReachInv, Followed, Behind, LoadWeight, csrVars
<1>3. ASSUME NEW e \in pending, Pop(e) PROVE Followed'
  <2>1. todo = {} /\ UNCHANGED <<net, algo, target, dist>>
    BY <1>3 DEF Pop, Searching
  <2>2. CASE e.node \in visited
    BY <1>3, <2>1, <2>2 DEF Pop, ReachInv, Followed, Behind
  <2>3. CASE e.node \notin visited
    BY <1>3, <2>1, <2>3 DEF Pop, ReachInv, Followed, Behind, Slots
  <2> QED
    BY <2>2, <2>3
<1>4. CASE Relax
  <2>1. PICK i \in DOMAIN net :
           LET v   == net[i].tgt
               alt == dist[cur] + weight[i]
           IN /\ i \in todo /\ v \in Node /\ alt \in Nat
              /\ todo' = todo \ {i}
              /\ \/ Improves(v, alt) /\ dist' = [dist EXCEPT ![v] = alt]
                 \/ ~Improves(v, alt) /\ UNCHANGED <<dist, prev>>
    BY <1>4, Relaxing DEF ReachInv
  <2>2. dist \in [Node -> Nat \cup {Inf}] /\ algo \in {"dijkstra", "astar"}
        /\ \A v \in visited : dist[v] # Inf
    BY <1>4 DEF Relax, ReachInv, Base, Types, PathsTypeOK, Known
  <2>3. UNCHANGED <<net, algo, target, visited>>
    BY <1>4 DEF Relax
  <2>4. \A v \in Node : dist[v] # Inf => dist'[v] # Inf
    BY <2>1, <2>2
  <2>5. dist'[net[i].tgt] # Inf
    BY <2>1, <2>2 DEF Improves
  <2>6. \A k \in DOMAIN net : net[k].tgt \in Node
    BY EdgeOf DEF ReachInv, Base, Types
  <2> QED
    BY <2>1, <2>2, <2>3, <2>4, <2>5, <2>6 DEF ReachInv, Followed, Behind
<1>5. CASE Exhausted
  BY <1>5, ExhaustedFails DEF Exhausted, Searching, ReachInv, Followed, Behind, pathVars
<1>6. CASE Walk
  BY <1>6 DEF Walk, ReachInv, Followed, Behind
<1>7. CASE PathsReturn
  BY <1>7 DEF PathsReturn, CsrReset, Followed
<1>8. CASE UNCHANGED pathsVars
  BY <1>8 DEF pathsVars, csrVars, pathVars, ReachInv, Followed, Behind
<1> QED
  BY <1>1, <1>2, <1>3, <1>4, <1>5, <1>6, <1>7, <1>8 DEF PathsNext, PathsStep

\* Only nodes that can be reached get a distance.
LEMMA ReachedStep == ReachInv /\ [PathsNext]_pathsVars => Reached'
<1> SUFFICES ASSUME ReachInv, [PathsNext]_pathsVars PROVE Reached'
  OBVIOUS
<1> USE InfAssumption
<1>1. CASE PathsCall
  <2>1. \A v \in Node : dist'[v] # Inf => v = source'
    BY <1>1, CallStarts DEF ReachInv
  <2>2. \A s \in Node : s \in ReachableFrom(net', s)
    BY DEF ReachableFrom
  <2> QED
    BY <2>1, <2>2 DEF Reached
<1>2. CASE Relax
  <2>1. PICK i \in DOMAIN net :
           LET v   == net[i].tgt
               alt == dist[cur] + weight[i]
           IN /\ net[i].src = cur /\ cur \in Node /\ v \in Node /\ dist[cur] \in Nat
              /\ \/ dist' = [dist EXCEPT ![v] = alt]
                 \/ UNCHANGED dist
    BY <1>2, Relaxing DEF ReachInv
  <2>2. /\ dist \in [Node -> Nat \cup {Inf}] /\ algo \in {"dijkstra", "astar"}
        /\ UNCHANGED <<net, algo, source>>
    BY <1>2 DEF Relax, ReachInv, Base, Types, PathsTypeOK
  <2>3. \A v \in Node : dist[v] # Inf => v \in ReachableFrom(net, source)
    BY <2>2 DEF ReachInv, Reached
  <2>4. net[i].tgt \in ReachableFrom(net, source)
    BY <2>1, <2>3, ReachableNext
  <2>5. ReachableFrom(net', source') = ReachableFrom(net, source)
    BY <2>2
  <2> QED
    BY <2>1, <2>2, <2>3, <2>4, <2>5 DEF Reached
<1>3. CASE UNCHANGED <<net, algo, source, dist>>
  <2>1. ReachableFrom(net', source') = ReachableFrom(net, source)
    BY <1>3
  <2> QED
    BY <1>3, <2>1 DEF ReachInv, Reached
<1>4. CASE PathsReturn
  BY <1>4 DEF PathsReturn, CsrReset, Reached
<1> QED
  BY <1>1, <1>2, <1>3, <1>4 DEF PathsNext, PathsStep, LoadWeight, Pop, Exhausted, Walk, pathsVars, csrVars, pathVars

\* A call that found no path has closed every node with a distance, none of them the target.
LEMMA FailedStep == ReachInv /\ [PathsNext]_pathsVars => Failed'
<1> SUFFICES ASSUME ReachInv, [PathsNext]_pathsVars PROVE Failed'
  OBVIOUS
<1> USE NodeAssumption, InfAssumption
<1>1. CASE PathsCall
  BY <1>1, CallStarts DEF ReachInv, Failed
<1>2. CASE Exhausted
  <2>1. UNCHANGED <<source, target, visited, dist>> /\ pending = {} /\ stage = "search"
    BY <1>2 DEF Exhausted, Searching, pathVars
  <2>2. target \notin visited /\ \A v \in Node : dist[v] # Inf => v \in visited
    BY <2>1 DEF ReachInv, Base, Stages, Queued
  <2> QED
    BY <2>1, <2>2 DEF Failed
<1>3. CASE Walk
  BY <1>3 DEF Walk, ReachInv, Base, Stages, Failed
<1>4. CASE LoadWeight
  BY <1>4 DEF LoadWeight, csrVars, ReachInv, Failed
<1>5. CASE Relax \/ \E e \in pending : Pop(e)
  BY <1>5 DEF Relax, Pop, Searching, Failed
<1>6. CASE PathsReturn
  BY <1>6 DEF PathsReturn, CsrReset, Failed
<1>7. CASE UNCHANGED pathsVars
  BY <1>7 DEF pathsVars, csrVars, pathVars, ReachInv, Failed
<1> QED
  BY <1>1, <1>2, <1>3, <1>4, <1>5, <1>6, <1>7 DEF PathsNext, PathsStep

\* Once the heap is empty the closed nodes are those that can be reached.
LEMMA FoundOrClosed == ReachInv => FoundIfAny
<1> SUFFICES ASSUME ReachInv, PathsDone PROVE Found <=> target \in ReachableFrom(net, source)
  BY DEF FoundIfAny
<1> USE NodeAssumption, InfAssumption
<1>1. /\ stage = "done" /\ algo \in {"dijkstra", "astar"} /\ source \in Node /\ target \in Node
      /\ visited \subseteq Node
  BY DEF PathsDone, ReachInv, Base, Types, CsrTypeOK, PathsTypeOK
<1>2. ASSUME Found PROVE target \in ReachableFrom(net, source)
  <2>1. dist[target] # Inf
    BY <1>1, <1>2 DEF Found, ReachInv, Base, Stages, Known
  <2> QED
    BY <1>1, <2>1 DEF ReachInv, Reached
<1>3. ASSUME ~Found PROVE target \notin ReachableFrom(net, source)
  <2> DEFINE S == {v \in Node : dist[v] # Inf}
  <2>1. target \notin visited /\ S \subseteq visited /\ todo = {}
    BY <1>1, <1>3 DEF Found, ReachInv, Base, Failed, Looking
  <2>2. source \in S /\ target \notin S
    BY <1>1, <2>1 DEF ReachInv, Base, Known
  <2>3. \A i \in DOMAIN net : net[i].tgt \in Node
    BY EdgeOf DEF ReachInv, Base, Types
  <2>4. IsClosed(net, S)
    BY <1>1, <2>1, <2>2, <2>3 DEF IsClosed, ReachInv, Followed, Behind
  <2> HIDE DEF S
  <2>5. S \in SUBSET Node
    BY DEF S
  <2> QED
    BY <2>2, <2>4, <2>5 DEF ReachableFrom
<1> QED
  BY <1>2, <1>3

-----------------------------------------------------------------------------
(* The path that is found is a shortest one.                               *)

\* No height a node can have is above its distance.
Bounded ==
  algo # "none" /\ source \in Node =>
    \A p \in [Node -> Nat] : IsPotential(net, weight, source, p) =>
      \A v \in Node : dist[v] # Inf => p[v] <= dist[v]

\* The estimate falls along no edge by more than its weight as it was loaded.
Steady == \A i \in DOMAIN net : h[net[i].src] <= weight[i] + h[net[i].tgt]

\* Nodes are closed in the order of their distance and estimate ...
Key(v) == dist[v] + h[v]
Ordered ==
  algo # "none" /\ Steady =>
    /\ \A c \in visited, v \in Node \ visited : dist[v] # Inf => Key(c) <= Key(v)
    /\ todo # {} => \A c \in visited : Key(c) <= Key(cur)

\* ... so the edges behind closed nodes stay relaxed.
Relaxed ==
  algo # "none" /\ Steady =>
    \A i \in DOMAIN net : Behind(i) => dist[net[i].tgt] <= dist[net[i].src] + weight[i]

\* Dijkstra has no estimate.
Plain == algo = "dijkstra" => h = Zero

\* What weights[] holds: of the slots with the same ends the first has the
\* weight of the edge that has one, once its row was read, the others have 1.
Loaded ==
  /\ algo = "astar" => rows = {} /\ weight = Ones(net)
  /\ algo = "dijkstra" /\ None \notin {source, target} /\ WeightsKept =>
       \A i \in DOMAIN net :
         /\ i # FirstOf(Parallel(i)) => weight[i] = 1
         /\ i = FirstOf(Parallel(i)) =>
              /\ (\A k \in Parallel(i) : HasWeight(net[k]) => k \in rows) => weight[i] = 1
              /\ \A k \in Parallel(i) \ rows : HasWeight(net[k]) => weight[i] = net[k].w

ShortInv == ReachInv /\ Bounded /\ Ordered /\ Relaxed /\ Plain /\ Loaded

\* Relax lowers the distance of an open node only, and not below the node
\* that is looked at.
LEMMA RelaxesOpen ==
  ASSUME ShortInv, Relax, Steady,
         NEW i \in todo, net[i].src = cur, Improves(net[i].tgt, dist[cur] + weight[i])
  PROVE  /\ net[i].tgt \notin visited
         /\ Key(cur) <= dist[cur] + weight[i] + h[net[i].tgt]
<1> USE InfAssumption
<1>1. /\ algo # "none" /\ todo # {} /\ cur \in visited /\ i \in DOMAIN net
      /\ dist \in [Node -> Nat \cup {Inf}] /\ weight \in [DOMAIN net -> Nat]
      /\ h \in [Node -> Nat] /\ visited \subseteq Node
  BY DEF Relax, ShortInv, ReachInv, Base, Types, CsrTypeOK, PathsTypeOK, Looking
<1>2. net[i].tgt \in Node
  BY <1>1, EdgeOf DEF ShortInv, ReachInv, Base, Types
<1>3. \A v \in visited : dist[v] # Inf
  BY <1>1 DEF ShortInv, ReachInv, Base, Known
<1>4. h[cur] <= weight[i] + h[net[i].tgt]
  BY <1>1 DEF Steady
<1>5. dist[cur] \in Nat /\ weight[i] \in Nat /\ h[cur] \in Nat /\ h[net[i].tgt] \in Nat
  BY <1>1, <1>2, <1>3
<1>6. Key(cur) <= dist[cur] + weight[i] + h[net[i].tgt]
  BY <1>4, <1>5 DEF Key
<1>7. ASSUME net[i].tgt \in visited PROVE FALSE
  <2>1. Key(net[i].tgt) <= Key(cur)
    BY <1>1, <1>7 DEF ShortInv, Ordered
  <2>2. dist[net[i].tgt] \in Nat
    BY <1>1, <1>2, <1>3, <1>7
  <2>3. dist[net[i].tgt] <= dist[cur] + weight[i]
    BY <1>5, <1>6, <2>1, <2>2 DEF Key
  <2>4. dist[cur] + weight[i] < dist[net[i].tgt]
    BY <2>2 DEF Improves
  <2> QED
    BY <1>5, <2>2, <2>3, <2>4
<1> QED
  BY <1>6, <1>7

\* No heights ever put a node above its distance.
LEMMA BoundedStep == ShortInv /\ [PathsNext]_pathsVars => Bounded'
<1> SUFFICES ASSUME ShortInv, [PathsNext]_pathsVars PROVE Bounded'
  OBVIOUS
<1> USE InfAssumption
<1>1. CASE PathsCall
  <2>1. \A v \in Node : dist'[v] # Inf => v = source' /\ dist'[v] = 0
    BY <1>1, CallStarts DEF ShortInv, ReachInv
  <2> QED
    BY <2>1 DEF Bounded, IsPotential
<1>2. CASE LoadWeight
  <2>1. \A v \in Node : dist[v] # Inf => v = source
    BY <1>2 DEF LoadWeight, ShortInv, ReachInv, Base, Fresh
  <2>2. source \in Node /\ dist[source] = 0
    BY <1>2 DEF LoadWeight, ShortInv, ReachInv, Base, Fresh, Stages, Known
  <2>3. UNCHANGED <<source, dist>>
    BY <1>2 DEF LoadWeight, csrVars
  <2> QED
    BY <2>1, <2>2, <2>3 DEF Bounded, IsPotential
<1>3. CASE Relax
  <2>1. PICK i \in DOMAIN net :
           LET v   == net[i].tgt
               alt == dist[cur] + weight[i]
           IN /\ net[i].src = cur /\ cur \in Node /\ v \in Node /\ dist[cur] \in Nat /\ weight[i] \in Nat
              /\ \/ dist' = [dist EXCEPT ![v] = alt]
                 \/ UNCHANGED dist
    BY <1>3, Relaxing DEF ShortInv, ReachInv
  <2>2. /\ dist \in [Node -> Nat \cup {Inf}] /\ algo \in {"dijkstra", "astar"}
        /\ UNCHANGED <<net, algo, source, weight>>
    BY <1>3 DEF Relax, ShortInv, ReachInv, Base, Types, PathsTypeOK
  <2> SUFFICES ASSUME source \in Node, NEW p \in [Node -> Nat], IsPotential(net, weight, source, p),
                      NEW v \in Node, dist'[v] # Inf
               PROVE  p[v] <= dist'[v]
    BY <2>2 DEF Bounded, IsPotential
  <2>3. \A u \in Node : dist[u] # Inf => p[u] <= dist[u]
    BY <2>2 DEF ShortInv, Bounded
  <2>4. p[net[i].tgt] <= p[cur] + weight[i]
    BY <2>1 DEF IsPotential
  <2>5. p[cur] <= dist[cur]
    BY <2>1, <2>3
  <2>6. p[net[i].tgt] <= dist[cur] + weight[i]
    BY <2>1, <2>4, <2>5
  <2> QED
    BY <2>1, <2>2, <2>3, <2>6
<1>4. CASE UNCHANGED <<net, algo, source, dist, weight>>
  BY <1>4 DEF ShortInv, Bounded, IsPotential
<1>5. CASE PathsReturn
  BY <1>5 DEF PathsReturn, CsrReset, Bounded
<1> QED
  BY <1>1, <1>2, <1>3, <1>4, <1>5
     DEF PathsNext, PathsStep, Pop, Exhausted, Walk, pathsVars, csrVars, pathVars

\* The facts about types that the order needs.
LEMMA Typed ==
  ASSUME Base, algo # "none"
  PROVE  /\ dist \in [Node -> Nat \cup {Inf}] /\ h \in [Node -> Nat] /\ weight \in [DOMAIN net -> Nat]
         /\ visited \subseteq Node /\ \A v \in visited : dist[v] \in Nat
         /\ \A i \in DOMAIN net : net[i].src \in Node /\ net[i].tgt \in Node
<1>1. /\ dist \in [Node -> Nat \cup {Inf}] /\ h \in [Node -> Nat] /\ weight \in [DOMAIN net -> Nat]
      /\ visited \subseteq Node
  BY DEF Base, Types, CsrTypeOK, PathsTypeOK, Stages
<1>2. \A v \in visited : dist[v] # Inf
  BY DEF Base, Known
<1> QED
  BY <1>1, <1>2, EdgeOf DEF Base, Types

\* The entry popped is no nearer than those popped before it.
LEMMA OrderedPop ==
  ASSUME ShortInv, NEW e \in pending, Pop(e)
  PROVE  Ordered'
<1> USE InfAssumption DEF Pop, Searching
<1>1. UNCHANGED <<net, algo, h, weight, dist>> /\ algo # "none" /\ todo = {} /\ Least(e)
  OBVIOUS
<1> SUFFICES ASSUME Steady
             PROVE  /\ \A c \in visited', v \in Node \ visited' : dist[v] # Inf => Key(c) <= Key(v)
                    /\ todo' # {} => \A c \in visited' : Key(c) <= Key(cur')
  BY <1>1 DEF Ordered, Steady, Key
<1>2. \A c \in visited, v \in Node \ visited : dist[v] # Inf => Key(c) <= Key(v)
  BY <1>1 DEF ShortInv, Ordered
<1>3. CASE e.node \in visited
  BY <1>1, <1>2, <1>3
<1>4. CASE e.node \notin visited
  <2>1. /\ e.node \in Node /\ dist[e.node] # Inf /\ dist[e.node] \in Nat
        /\ \A v \in Node \ visited : dist[v] # Inf => Key(e.node) <= Key(v)
    BY <1>4, LeastEntry DEF ShortInv, ReachInv, Key
  <2>2. Key(e.node) \in Nat
    BY <1>1, <2>1, Typed DEF ShortInv, ReachInv, Key
  <2>3. visited' = visited \cup {e.node} /\ cur' = e.node
    BY <1>4
  <2>4. \A c \in visited : Key(c) <= Key(e.node)
    BY <1>2, <1>4, <2>1
  <2>5. \A c \in visited' : Key(c) <= Key(e.node)
    BY <2>2, <2>3, <2>4
  <2> QED
    BY <1>2, <2>1, <2>3, <2>5
<1> QED
  BY <1>3, <1>4

\* Relaxing over a consistent estimate makes no entry nearer than the node at hand.
LEMMA OrderedRelax == ShortInv /\ Relax => Ordered'
<1> SUFFICES ASSUME ShortInv, Relax PROVE Ordered'
  OBVIOUS
<1> USE InfAssumption
<1>1. UNCHANGED <<net, algo, h, weight, visited, cur>> /\ algo # "none" /\ todo # {}
  BY DEF Relax
<1>2. PICK i \in DOMAIN net :
         LET v   == net[i].tgt
             alt == dist[cur] + weight[i]
         IN /\ i \in todo /\ net[i].src = cur /\ cur \in visited /\ v \in Node /\ alt \in Nat
            /\ cur \in Node /\ dist[cur] \in Nat /\ weight[i] \in Nat
            /\ \/ Improves(v, alt) /\ dist' = [dist EXCEPT ![v] = alt]
               \/ UNCHANGED dist
  BY Relaxing DEF ShortInv, ReachInv
<1> SUFFICES ASSUME Steady
             PROVE  /\ \A c \in visited, v \in Node \ visited : dist'[v] # Inf => Key(c)' <= Key(v)'
                    /\ \A c \in visited : Key(c)' <= Key(cur)'
  BY <1>1 DEF Ordered, Steady, Key
<1>3. /\ \A c \in visited, v \in Node \ visited : dist[v] # Inf => Key(c) <= Key(v)
      /\ \A c \in visited : Key(c) <= Key(cur)
  BY <1>1 DEF ShortInv, Ordered
<1>4. CASE UNCHANGED dist
  <2>1. dist' = dist /\ h' = h /\ cur' = cur
    BY <1>1, <1>4
  <2>2. \A c \in visited, v \in Node \ visited : dist'[v] # Inf => Key(c)' <= Key(v)'
    BY <1>3, <2>1 DEF Key
  <2>3. \A c \in visited : Key(c)' <= Key(cur)'
    BY <1>3, <2>1 DEF Key
  <2> QED
    BY <2>2, <2>3
<1>5. CASE Improves(net[i].tgt, dist[cur] + weight[i])
           /\ dist' = [dist EXCEPT ![net[i].tgt] = dist[cur] + weight[i]]
  <2>1. net[i].tgt \notin visited /\ Key(cur) <= dist[cur] + weight[i] + h[net[i].tgt]
    BY <1>2, <1>5, RelaxesOpen
  <2>2. /\ dist \in [Node -> Nat \cup {Inf}] /\ h \in [Node -> Nat] /\ visited \subseteq Node
        /\ \A v \in visited : dist[v] \in Nat
    BY <1>1, Typed DEF ShortInv, ReachInv
  <2>3. \A c \in visited : Key(c)' = Key(c) /\ Key(c) \in Nat
    BY <1>1, <1>5, <2>1, <2>2 DEF Key
  <2>4. Key(net[i].tgt)' = dist[cur] + weight[i] + h[net[i].tgt] /\ h[net[i].tgt] \in Nat
    BY <1>1, <1>2, <1>5, <2>2 DEF Key
  <2>5. \A c \in visited : Key(c)' <= Key(net[i].tgt)'
    BY <1>2, <1>3, <2>1, <2>3, <2>4
  <2>6. \A v \in Node : v # net[i].tgt => dist'[v] = dist[v] /\ Key(v)' = Key(v)
    BY <1>1, <1>5, <2>2 DEF Key
  <2>7. Key(cur)' = Key(cur)
    BY <1>1, <1>2, <1>5, <2>1, <2>2 DEF Key
  <2>8. \A c \in visited : Key(c)' <= Key(cur)'
    BY <1>3, <2>3, <2>7
  <2>9. ASSUME NEW c \in visited, NEW v \in Node \ visited, dist'[v] # Inf
        PROVE  Key(c)' <= Key(v)'
    <3>1. CASE v = net[i].tgt
      BY <1>1, <2>5, <3>1 DEF Key
    <3>2. CASE v # net[i].tgt
      <4>1. Key(v)' = Key(v) /\ dist[v] # Inf
        BY <2>6, <2>9, <3>2
      <4>2. Key(c) <= Key(v)
        BY <1>3, <4>1
      <4>3. Key(c)' = Key(c)
        BY <2>3
      <4> QED
        BY <4>1, <4>2, <4>3
    <3> QED
      BY <3>1, <3>2
  <2> QED
    BY <2>8, <2>9
<1> QED
  BY <1>2, <1>4, <1>5

\* Nodes are closed in the order of distance plus estimate.
LEMMA OrderedStep == ShortInv /\ [PathsNext]_pathsVars => Ordered'
<1> SUFFICES ASSUME ShortInv, [PathsNext]_pathsVars PROVE Ordered'
  OBVIOUS
<1>1. CASE PathsCall
  BY <1>1, CallStarts DEF ShortInv, ReachInv, Ordered
<1>2. CASE LoadWeight
  BY <1>2 DEF LoadWeight, csrVars, ShortInv, ReachInv, Base, Fresh, Looking, Ordered
<1>3. CASE UNCHANGED <<net, algo, h, weight, dist, visited>> /\ todo' = {}
  BY <1>3 DEF ShortInv, Ordered, Steady, Key
<1>4. CASE Exhausted \/ Walk
  BY <1>3, <1>4 DEF Exhausted, Searching, Walk, ShortInv, ReachInv, Base, Looking, pathVars
<1>5. CASE PathsReturn
  BY <1>5 DEF PathsReturn, CsrReset, Ordered
<1>6. CASE UNCHANGED pathsVars
  BY <1>6 DEF pathsVars, csrVars, pathVars, ShortInv, Ordered, Steady, Key
<1> QED
  BY <1>1, <1>2, <1>4, <1>5, <1>6, OrderedPop, OrderedRelax DEF PathsNext, PathsStep

\* An edge that was relaxed lowers its end no more.
LEMMA RelaxedRelax == ShortInv /\ Relax => Relaxed'
<1> SUFFICES ASSUME ShortInv, Relax PROVE Relaxed'
  OBVIOUS
<1> USE InfAssumption
<1>1. UNCHANGED <<net, algo, h, weight, visited, target>> /\ algo # "none"
  BY DEF Relax
<1>2. PICK i \in DOMAIN net :
         LET v   == net[i].tgt
             alt == dist[cur] + weight[i]
         IN /\ i \in todo /\ net[i].src = cur /\ cur \in visited /\ v \in Node /\ alt \in Nat
            /\ dist[cur] \in Nat /\ weight[i] \in Nat
            /\ todo' = todo \ {i}
            /\ \/ Improves(v, alt) /\ dist' = [dist EXCEPT ![v] = alt]
               \/ ~Improves(v, alt) /\ UNCHANGED dist
  BY Relaxing DEF ShortInv, ReachInv
<1> SUFFICES ASSUME Steady, NEW k \in DOMAIN net,
                    net[k].src \in visited, net[k].src # target, k \notin todo \ {i}
             PROVE  dist'[net[k].tgt] <= dist'[net[k].src] + weight[k]
  BY <1>1, <1>2 DEF Relaxed, Behind, Steady
<1>3. /\ dist \in [Node -> Nat \cup {Inf}] /\ h \in [Node -> Nat] /\ weight \in [DOMAIN net -> Nat]
      /\ visited \subseteq Node /\ \A v \in visited : dist[v] \in Nat
      /\ \A j \in DOMAIN net : net[j].src \in Node /\ net[j].tgt \in Node
  BY <1>1, Typed DEF ShortInv, ReachInv
<1>4. k # i => dist[net[k].tgt] # Inf /\ dist[net[k].tgt] <= dist[net[k].src] + weight[k]
  BY <1>1 DEF ShortInv, ReachInv, Followed, Relaxed, Behind
<1>5. CASE Improves(net[i].tgt, dist[cur] + weight[i])
           /\ dist' = [dist EXCEPT ![net[i].tgt] = dist[cur] + weight[i]]
  <2>1. net[i].tgt \notin visited
    BY <1>2, <1>5, RelaxesOpen
  <2>2. dist'[net[k].src] = dist[net[k].src]
    BY <1>3, <1>5, <2>1
  <2>3. CASE net[k].tgt # net[i].tgt
    BY <1>3, <1>4, <1>5, <2>2, <2>3
  <2>4. CASE net[k].tgt = net[i].tgt /\ k # i
    <3>1. dist'[net[k].tgt] = dist[cur] + weight[i] /\ dist[net[k].tgt] # Inf
      BY <1>3, <1>4, <1>5, <2>4
    <3>2. dist[cur] + weight[i] < dist[net[k].tgt] /\ dist[net[k].tgt] \in Nat
      BY <1>3, <1>4, <1>5, <2>4 DEF Improves
    <3>3. dist[net[k].src] \in Nat /\ weight[k] \in Nat /\ dist[cur] + weight[i] \in Nat
      BY <1>2, <1>3
    <3> QED
      BY <1>4, <2>2, <2>4, <3>1, <3>2, <3>3
  <2>5. CASE k = i
    BY <1>2, <1>3, <1>5, <2>2, <2>5
  <2> QED
    BY <2>3, <2>4, <2>5
<1>6. CASE ~Improves(net[i].tgt, dist[cur] + weight[i]) /\ UNCHANGED dist
  <2>1. CASE k # i
    BY <1>4, <1>6, <2>1
  <2>2. CASE k = i
    <3>1. CASE dist[net[i].tgt] # Inf /\ ~(dist[cur] + weight[i] < dist[net[i].tgt])
      BY <1>2, <1>3, <1>6, <2>2, <3>1
    <3>2. CASE net[i].tgt \in visited
      <4>1. Key(net[i].tgt) <= Key(cur)
        BY <1>1, <1>2, <3>2 DEF ShortInv, Ordered
      <4>2. h[cur] <= weight[i] + h[net[i].tgt]
        BY <1>2 DEF Steady
      <4>3. /\ dist[net[i].tgt] \in Nat /\ h[net[i].tgt] \in Nat /\ dist[cur] \in Nat
            /\ h[cur] \in Nat /\ weight[i] \in Nat
        BY <1>2, <1>3, <3>2
      <4>4. dist[net[i].tgt] <= dist[cur] + weight[i]
        BY <4>1, <4>2, <4>3 DEF Key
      <4> QED
        BY <1>2, <1>6, <2>2, <4>4
    <3> QED
      BY <1>2, <1>6, <3>1, <3>2 DEF Improves
  <2> QED
    BY <2>1, <2>2
<1> QED
  BY <1>2, <1>5, <1>6

\* No edge out of a closed node could lower a distance.
LEMMA RelaxedStep == ShortInv /\ [PathsNext]_pathsVars => Relaxed'
<1> SUFFICES ASSUME ShortInv, [PathsNext]_pathsVars PROVE Relaxed'
  OBVIOUS
<1>1. CASE PathsCall
  BY <1>1, CallStarts DEF ShortInv, ReachInv, Relaxed, Behind
<1>2. CASE LoadWeight
  BY <1>2 DEF LoadWeight, csrVars, ShortInv, ReachInv, Base, Fresh, Relaxed, Behind
<1>3. ASSUME NEW e \in pending, Pop(e) PROVE Relaxed'
  <2>1. todo = {} /\ UNCHANGED <<net, algo, target, dist, h, weight>>
    BY <1>3 DEF Pop, Searching
  <2>2. CASE e.node \in visited
    BY <1>3, <2>1, <2>2 DEF Pop, ShortInv, Relaxed, Behind, Steady
  <2>3. CASE e.node \notin visited
    BY <1>3, <2>1, <2>3 DEF Pop, ShortInv, Relaxed, Behind, Steady, Slots
  <2> QED
    BY <2>2, <2>3
<1>4. CASE Exhausted \/ Walk
  BY <1>4 DEF Exhausted, Searching, Walk, ShortInv, Relaxed, Behind, Steady, pathVars
<1>5. CASE PathsReturn
  BY <1>5 DEF PathsReturn, CsrReset, Relaxed
<1>6. CASE UNCHANGED pathsVars
  BY <1>6 DEF pathsVars, csrVars, pathVars, ShortInv, Relaxed, Behind, Steady
<1> QED
  BY <1>1, <1>2, <1>3, <1>4, <1>5, <1>6, RelaxedRelax DEF PathsNext, PathsStep

\* The heights of dijkstra are none, and stay so.
LEMMA PlainStep == ShortInv /\ [PathsNext]_pathsVars => Plain'
<1> SUFFICES ASSUME ShortInv, [PathsNext]_pathsVars PROVE Plain'
  OBVIOUS
<1>1. CASE PathsCall
  BY <1>1, CallStarts DEF ShortInv, ReachInv, Plain, Zero
<1>2. CASE PathsReturn
  BY <1>2 DEF PathsReturn, CsrReset, Plain
<1>3. CASE ~PathsCall /\ ~PathsReturn
  BY <1>3, StepKeeps DEF ShortInv, ReachInv, Plain, Zero
<1> QED
  BY <1>1, <1>2, <1>3

\* The heights that show that no path is shorter: those of the distances up to
\* the target's, and beyond them as high as the estimate leaves room for.
Witness ==
  LET D == dist[target]
  IN [v \in Node |-> IF dist[v] # Inf /\ dist[v] + h[v] <= D THEN dist[v]
                     ELSE IF h[v] <= D THEN D - h[v] ELSE 0]

\* The distances cut off at that of the target are heights.
LEMMA WitnessIsPotential ==
  ASSUME ShortInv, PathsDone, Found, Steady
  PROVE  /\ Witness \in [Node -> Nat] /\ IsPotential(net, weight, source, Witness)
         /\ Witness[target] = dist[target]
<1> USE NodeAssumption, InfAssumption
<1>1. /\ stage = "done" /\ algo # "none" /\ source \in Node /\ target \in Node
      /\ target \in visited /\ todo = {}
  BY DEF PathsDone, Found, ShortInv, ReachInv, Base, Types, CsrTypeOK, PathsTypeOK, Stages, Looking
<1>2. /\ dist \in [Node -> Nat \cup {Inf}] /\ h \in [Node -> Nat] /\ weight \in [DOMAIN net -> Nat]
      /\ visited \subseteq Node /\ \A v \in visited : dist[v] \in Nat
      /\ \A i \in DOMAIN net : net[i].src \in Node /\ net[i].tgt \in Node
  BY <1>1, Typed DEF ShortInv, ReachInv
<1>3. h[target] = 0 /\ dist[source] = 0
  BY <1>1, <1>2 DEF ShortInv, ReachInv, Base, Known
<1> DEFINE D == dist[target]
           Near(v) == dist[v] # Inf /\ dist[v] + h[v] <= D
           Room(v) == IF h[v] <= D THEN D - h[v] ELSE 0
<1>4. D \in Nat
  BY <1>1, <1>2
<1>5. Witness = [v \in Node |-> IF Near(v) THEN dist[v] ELSE Room(v)]
  BY DEF Witness
<1>6. \A v \in Node : Room(v) \in Nat /\ (Near(v) => dist[v] \in Nat)
  BY <1>2, <1>4
<1>7. Witness \in [Node -> Nat]
  BY <1>5, <1>6
<1>8. \A v \in Node : Witness[v] <= Room(v)
  BY <1>2, <1>4, <1>5, <1>6
<1>9. Witness[target] = D
  BY <1>1, <1>2, <1>3, <1>4, <1>5
<1>10. Witness[source] = 0
  BY <1>1, <1>2, <1>3, <1>4, <1>5
<1>11. ASSUME NEW i \in DOMAIN net
       PROVE  Witness[net[i].tgt] <= Witness[net[i].src] + weight[i]
  <2> DEFINE u == net[i].src
             v == net[i].tgt
             w == weight[i]
  <2>1. u \in Node /\ v \in Node /\ w \in Nat /\ h[u] \in Nat /\ h[v] \in Nat
    BY <1>2
  <2>2. h[u] <= w + h[v]
    BY DEF Steady
  <2>3. Room(v) <= Room(u) + w
    BY <1>4, <2>1, <2>2
  <2>7. /\ Witness[u] \in Nat /\ Witness[v] \in Nat /\ Room(u) \in Nat /\ Room(v) \in Nat
        /\ Witness[v] <= Room(v)
    BY <1>6, <1>7, <1>8, <2>1
  <2>8. Witness[u] = Room(u) => Witness[v] <= Witness[u] + w
    <3> HIDE DEF Room, D, u, v, w
    <3> QED
      BY <2>1, <2>3, <2>7
  <2>4. CASE ~Near(u)
    <3>1. Witness[u] = Room(u)
      BY <1>5, <2>1, <2>4
    <3> QED
      BY <2>8, <3>1
  <2>5. CASE Near(u) /\ u \in visited /\ u # target
    <3>1. dist[v] # Inf /\ dist[v] <= dist[u] + w
      BY <1>1, <2>5 DEF ShortInv, ReachInv, Followed, Relaxed, Behind
    <3>2. Witness[u] = dist[u] /\ dist[u] \in Nat /\ dist[v] \in Nat
      BY <1>2, <1>5, <2>1, <2>5, <3>1
    <3>3. Witness[v] <= dist[v]
      BY <1>4, <1>5, <2>1, <3>1, <3>2
    <3>4. Witness[v] <= Witness[u] + w
      <4> HIDE DEF u, v, w
      <4> QED
        BY <2>1, <2>7, <3>1, <3>2, <3>3
    <3> QED
      BY <3>4
  <2>6. CASE Near(u) /\ (u \notin visited \/ u = target)
    <3>1. dist[u] + h[u] = D
      <4>1. CASE u = target
        BY <1>3, <1>4, <4>1
      <4>2. CASE u \notin visited
        <5>1. Key(target) <= Key(u)
          BY <1>1, <2>1, <2>6, <4>2 DEF ShortInv, Ordered
        <5>2. D <= dist[u] + h[u]
          BY <1>3, <1>4, <5>1 DEF Key
        <5>3. dist[u] \in Nat /\ dist[u] + h[u] <= D
          BY <1>6, <2>1, <2>6
        <5> QED
          BY <1>4, <2>1, <5>2, <5>3
      <4> QED
        BY <2>6, <4>1, <4>2
    <3>2. dist[u] \in Nat /\ Witness[u] = dist[u]
      BY <1>5, <1>6, <2>1, <2>6
    <3>3. Witness[u] = Room(u)
      BY <1>4, <2>1, <3>1, <3>2
    <3> QED
      BY <2>8, <3>3
  <2> QED
    BY <2>4, <2>5, <2>6
<1> QED
  BY <1>7, <1>9, <1>10, <1>11 DEF IsPotential

\* Reading one more weight leaves the others alone.
LEMMA LoadedReads == ShortInv /\ LoadWeight => Loaded'
<1> SUFFICES ASSUME ShortInv, LoadWeight PROVE Loaded'
  OBVIOUS
<1>0. rows # {} /\ rows \subseteq DOMAIN net /\ algo = "dijkstra"
  BY DEF LoadWeight, ShortInv, ReachInv, Base, Types, PathsTypeOK, Stages, Fresh, Loaded
<1>1. PICK i \in rows : weight' = [weight EXCEPT ![FirstOf(Parallel(i))] = net[i].w] /\ rows' = rows \ {i}
  BY DEF LoadWeight
<1>2. UNCHANGED <<net, algo, source, target>>
  BY DEF LoadWeight, csrVars
<1>3. /\ \A k \in DOMAIN net : Parallel(k)' = Parallel(k)
      /\ WeightsKept' = WeightsKept
  BY <1>2 DEF Parallel, WeightsKept
<1>4. weight \in [DOMAIN net -> Nat] /\ HasWeight(net[i]) /\ i \in DOMAIN net
  BY <1>0, <1>1 DEF ShortInv, ReachInv, Base, Types, PathsTypeOK, HasWeight
<1>5. SUFFICES ASSUME None \notin {source, target}, WeightsKept, NEW k \in DOMAIN net
      PROVE  /\ k # FirstOf(Parallel(k)) => weight'[k] = 1
             /\ k = FirstOf(Parallel(k)) =>
                  /\ (\A j \in Parallel(k) : HasWeight(net[j]) => j \in rows') => weight'[k] = 1
                  /\ \A j \in Parallel(k) \ rows' : HasWeight(net[j]) => weight'[k] = net[j].w
  BY <1>0, <1>2, <1>3 DEF Loaded
<1>6. /\ k # FirstOf(Parallel(k)) => weight[k] = 1
      /\ k = FirstOf(Parallel(k)) =>
           /\ (\A j \in Parallel(k) : HasWeight(net[j]) => j \in rows) => weight[k] = 1
           /\ \A j \in Parallel(k) \ rows : HasWeight(net[j]) => weight[k] = net[j].w
  BY <1>0, <1>5 DEF ShortInv, Loaded
<1>7. CASE k \in Parallel(i)
  <2>1. Parallel(k) = Parallel(i) /\ i \in Parallel(k)
    BY <1>4, <1>7 DEF Parallel
  <2>2. \A j \in Parallel(k) : HasWeight(net[j]) => j = i
    BY <1>0, <1>4, <1>5, <2>1 DEF WeightsKept
  <2> QED
    BY <1>1, <1>4, <1>6, <2>1, <2>2
<1>8. CASE k \notin Parallel(i)
  <2>1. i \notin Parallel(k)
    BY <1>4, <1>8 DEF Parallel
  <2>2. k = FirstOf(Parallel(k)) => FirstOf(Parallel(i)) # k
    <3>1. Parallel(i) \in SUBSET Nat /\ i \in Parallel(i)
      BY <1>4 DEF Parallel, ShortInv, ReachInv, Base, Types, CsrTypeOK
    <3> QED
      BY <1>8, <3>1, FirstOfIn
  <2>3. k # FirstOf(Parallel(k)) => FirstOf(Parallel(i)) # k
    <3>1. Parallel(i) \in SUBSET Nat /\ i \in Parallel(i)
      BY <1>4 DEF Parallel, ShortInv, ReachInv, Base, Types, CsrTypeOK
    <3> QED
      BY <1>8, <3>1, FirstOfIn
  <2>4. weight'[k] = weight[k]
    BY <1>1, <1>4, <2>2, <2>3
  <2> QED
    BY <1>1, <1>6, <2>1, <2>4
<1> QED
  BY <1>7, <1>8

\* Every step keeps what weights[] holds.
LEMMA LoadedStep == ShortInv /\ [PathsNext]_pathsVars => Loaded'
<1> SUFFICES ASSUME ShortInv, [PathsNext]_pathsVars PROVE Loaded'
  OBVIOUS
<1>1. CASE PathsCall
  <2>1. PICK a \in {"dijkstra", "astar"}, m \in Seq(Edge),
             s \in Node \cup {None}, t \in Node \cup {None}, e \in [Node -> Nat] :
          /\ Begin(a, m, s, t, e)
          /\ rows' = IF a = "astar" \/ None \in {s, t} THEN {} ELSE {i \in DOMAIN m : HasWeight(m[i])}
    BY <1>1, CallBegins
  <2>2. net' = m /\ algo' = a /\ source' = s /\ target' = t /\ weight' = Ones(m)
    BY <2>1 DEF Begin, CsrCall
  <2> QED
    BY <2>1, <2>2 DEF Loaded, Ones, Parallel
<1>2. CASE LoadWeight
  BY <1>2, LoadedReads
<1>3. CASE PathsReturn
  BY <1>3 DEF PathsReturn, CsrReset, Loaded
<1>4. CASE (\E e \in pending : Pop(e)) \/ Relax \/ Exhausted \/ Walk \/ UNCHANGED pathsVars
  <2>1. UNCHANGED <<net, algo, source, target, weight, rows>>
    BY <1>4 DEF Pop, Relax, Exhausted, Walk, pathsVars, csrVars, pathVars
  <2>2. /\ \A i \in DOMAIN net : Parallel(i)' = Parallel(i)
        /\ WeightsKept' = WeightsKept
    BY <2>1 DEF Parallel, WeightsKept
  <2> QED
    BY <2>1, <2>2 DEF ShortInv, Loaded
<1> QED
  BY <1>1, <1>2, <1>3, <1>4 DEF PathsNext, PathsStep

\* The weights are the costs of the edges, which slots with the same ends may
\* have exchanged.
LEMMA WeightsAreCosts ==
  ASSUME ShortInv, PathsDone, WeightsKept, NEW i \in DOMAIN net
  PROVE  /\ \E j \in Parallel(i) : weight[j] = Cost(net[i])
         /\ \E j \in Parallel(i) : weight[i] = Cost(net[j])
<1>1. rows = {} /\ i \in Parallel(i)
  BY DEF PathsDone, ShortInv, ReachInv, Base, Fresh, Parallel
<1>2. CASE algo = "astar"
  BY <1>1, <1>2 DEF ShortInv, Loaded, Ones, WeightsKept
<1>3. CASE algo = "dijkstra"
  <2> DEFINE f == FirstOf(Parallel(i))
  <2>1. f \in Parallel(i)
    <3>1. Parallel(i) \in SUBSET Nat
      BY DEF Parallel, ShortInv, ReachInv, Base, Types, CsrTypeOK
    <3> QED
      BY <1>1, <3>1, FirstOfIn
  <2>2. \A j \in Parallel(i) : j \in DOMAIN net /\ Parallel(j) = Parallel(i)
    BY DEF Parallel
  <2>3. \A j \in Parallel(i) :
          /\ j # f => weight[j] = 1
          /\ j = f => /\ (\A k \in Parallel(i) : ~HasWeight(net[k])) => weight[j] = 1
                      /\ \A k \in Parallel(i) : HasWeight(net[k]) => weight[j] = net[k].w
    BY <1>1, <1>3, <2>2 DEF PathsDone, ShortInv, Loaded
  <2> HIDE DEF f
  <2>4. CASE \A k \in Parallel(i) : ~HasWeight(net[k])
    BY <1>1, <2>3, <2>4 DEF Cost
  <2>5. CASE \E k \in Parallel(i) : HasWeight(net[k])
    <3>1. PICK k \in Parallel(i) : HasWeight(net[k])
      BY <2>5
    <3>2. \A j \in Parallel(i) : HasWeight(net[j]) => j = k
      BY <1>3, <2>2, <3>1 DEF WeightsKept
    <3>3. \A j \in Parallel(i) : Cost(net[j]) = IF j = k THEN net[k].w ELSE 1
      BY <3>1, <3>2 DEF Cost
    <3>4. \A j \in Parallel(i) : weight[j] = IF j = f THEN net[k].w ELSE 1
      BY <2>3, <3>1
    <3> QED
      BY <1>1, <2>1, <3>1, <3>3, <3>4
  <2> QED
    BY <2>4, <2>5
<1> QED
  BY <1>2, <1>3 DEF PathsDone

\* So an estimate, and heights, that go for the ones go for the others.
LEMMA SameMeasure ==
  ASSUME ShortInv, PathsDone, WeightsKept
  PROVE  /\ Consistent => Steady
         /\ \A p \in [Node -> Nat] : IsPotential(net, Costs, source, p) <=> IsPotential(net, weight, source, p)
<1>1. \A i \in DOMAIN net : \A j \in Parallel(i) :
        j \in DOMAIN net /\ net[j].src = net[i].src /\ net[j].tgt = net[i].tgt
  BY DEF Parallel
<1>2. \A i \in DOMAIN net : Costs[i] = Cost(net[i])
  BY DEF Costs
<1>3. Consistent => Steady
  <2> SUFFICES ASSUME Consistent, NEW i \in DOMAIN net
               PROVE  h[net[i].src] <= weight[i] + h[net[i].tgt]
    BY DEF Steady
  <2>1. PICK j \in Parallel(i) : weight[i] = Cost(net[j])
    BY WeightsAreCosts
  <2> QED
    BY <1>1, <2>1 DEF Consistent
<1>4. ASSUME NEW p \in [Node -> Nat], IsPotential(net, Costs, source, p), NEW i \in DOMAIN net
      PROVE  p[net[i].tgt] <= p[net[i].src] + weight[i]
  <2>1. PICK j \in Parallel(i) : weight[i] = Cost(net[j])
    BY WeightsAreCosts
  <2> QED
    BY <1>1, <1>2, <1>4, <2>1 DEF IsPotential
<1>5. ASSUME NEW p \in [Node -> Nat], IsPotential(net, weight, source, p), NEW i \in DOMAIN net
      PROVE  p[net[i].tgt] <= p[net[i].src] + Costs[i]
  <2>1. PICK j \in Parallel(i) : weight[j] = Cost(net[i])
    BY WeightsAreCosts
  <2> QED
    BY <1>1, <1>2, <1>5, <2>1 DEF IsPotential
<1> QED
  BY <1>3, <1>4, <1>5 DEF IsPotential

\* They put the target as high as the answer, and none puts it higher.
LEMMA ShortestFound == ASSUME Heights = Nat PROVE ShortInv => Shortest
<1> SUFFICES ASSUME ShortInv, PathsDone, Found, Consistent, WeightsKept PROVE IsShortest
  BY DEF Shortest
<1>1. algo # "none" /\ source \in Node /\ target \in Node /\ dist[target] # Inf
  BY DEF PathsDone, Found, ShortInv, ReachInv, Base, Types, CsrTypeOK, PathsTypeOK, Stages, Known
<1>2. Steady /\ Potentials = {p \in [Node -> Nat] : IsPotential(net, weight, source, p)}
  BY SameMeasure DEF Potentials
<1>3. \A p \in Potentials : p[target] <= dist[target]
  BY <1>1, <1>2 DEF ShortInv, Bounded
<1>4. Witness \in Potentials /\ Witness[target] = dist[target]
  BY <1>2, WitnessIsPotential
<1> QED
  BY <1>3, <1>4 DEF IsShortest

\* The invariant of distances holds at first.
LEMMA ShortInit == PathsInit => ShortInv
BY BaseInit DEF PathsInit, CsrIdle, ShortInv, ReachInv, Followed, Reached, Failed, Bounded, Ordered, Relaxed, Plain, Loaded

\* Every step keeps the invariant of distances.
LEMMA ShortStep == ShortInv /\ [PathsNext]_pathsVars => ShortInv'
BY BaseStep, FollowedStep, ReachedStep, FailedStep, BoundedStep, OrderedStep, RelaxedStep, PlainStep, LoadedStep
   DEF ShortInv, ReachInv

\* Dijkstra's estimate is consistent.
LEMMA PlainConsistent == ShortInv => (algo = "dijkstra" => Consistent)
<1> SUFFICES ASSUME ShortInv, algo = "dijkstra", NEW i \in DOMAIN net
             PROVE  h[net[i].src] <= Cost(net[i]) + h[net[i].tgt]
  BY DEF Consistent
<1>1. net[i].src \in Node /\ net[i].tgt \in Node
  BY Typed DEF ShortInv, ReachInv
<1>2. net \in Seq(Edge)
  BY DEF ShortInv, ReachInv, Base, Types, CsrTypeOK
<1>3. Cost(net[i]) \in Nat
  <2>1. net[i] \in Edge
    BY <1>2
  <2>2. net[i].w \in Nat \cup {None}
    BY <2>1 DEF Edge
  <2> QED
    BY <2>2 DEF Cost, HasWeight
<1>4. h[net[i].src] = 0 /\ h[net[i].tgt] = 0
  BY <1>1 DEF ShortInv, ReachInv, Plain, Zero
<1> QED
  BY <1>3, <1>4

-----------------------------------------------------------------------------
(* The path is a path, and there is room for it.                           *)

\* prev[] leads over edges to nodes that are closed, and from every node with a
\* distance to the source.
Tree ==
  algo # "none" =>
    \A v \in Node :
      /\ prev[v] # None => /\ prev[v] \in visited
                           /\ \E i \in Slots(net, prev[v]) :
                                net[i].tgt = v /\ dist[v] = dist[prev[v]] + weight[i]
      /\ prev[v] = None /\ dist[v] # Inf => v = source

\* What has been followed of it so far.
Trail ==
  /\ stage = "walk" /\ path = <<>> => cur = target
  /\ path # <<>> =>
       /\ path[Len(path)] = target
       /\ \A k \in 1 .. Len(path) : path[k] \in visited
       /\ \A k \in 1 .. Len(path) - 1 : prev[path[k + 1]] = path[k]
       /\ stage = "walk" => cur = prev[path[1]]
       /\ stage = "done" => prev[path[1]] = None

TreeInv == ShortInv /\ Tree

\* What is closed keeps its distance and its predecessor, because dijkstra has
\* the order and astar looks.
LEMMA ClosedStays ==
  ASSUME ShortInv, Relax, NEW i \in todo, net[i].src = cur,
         Improves(net[i].tgt, dist[cur] + weight[i])
  PROVE  net[i].tgt \notin visited
<1>1. CASE algo = "dijkstra"
  <2>1. Steady
    BY <1>1, Typed DEF ShortInv, ReachInv, Plain, Zero, Steady
  <2> QED
    BY <2>1, RelaxesOpen
<1>2. CASE algo # "dijkstra"
  BY <1>2 DEF Relax, Improves
<1> QED
  BY <1>1, <1>2

\* The new predecessor accounts for the new distance.
LEMMA TreeRelax == TreeInv /\ Relax => Tree'
<1> SUFFICES ASSUME TreeInv, Relax PROVE Tree'
  OBVIOUS
<1> USE NodeAssumption, InfAssumption
<1>1. UNCHANGED <<net, algo, source, weight, visited, cur>> /\ algo # "none"
  BY DEF Relax
<1>2. PICK i \in DOMAIN net :
         LET v   == net[i].tgt
             alt == dist[cur] + weight[i]
         IN /\ i \in todo /\ net[i].src = cur /\ cur \in visited /\ v \in Node /\ alt \in Nat
            /\ cur \in Node
            /\ \/ Improves(v, alt) /\ dist' = [dist EXCEPT ![v] = alt] /\ prev' = [prev EXCEPT ![v] = cur]
               \/ UNCHANGED <<dist, prev>>
  BY Relaxing DEF TreeInv, ShortInv, ReachInv
<1>3. /\ dist \in [Node -> Nat \cup {Inf}] /\ prev \in [Node -> Node \cup {None}]
      /\ visited \subseteq Node
  BY <1>1 DEF TreeInv, ShortInv, ReachInv, Base, Types, CsrTypeOK, PathsTypeOK, Stages
<1>4. \A u : Slots(net', u) = Slots(net, u)
  BY <1>1 DEF Slots
<1>5. CASE UNCHANGED <<dist, prev>>
  BY <1>1, <1>4, <1>5 DEF TreeInv, Tree
<1>6. CASE /\ Improves(net[i].tgt, dist[cur] + weight[i])
           /\ dist' = [dist EXCEPT ![net[i].tgt] = dist[cur] + weight[i]]
           /\ prev' = [prev EXCEPT ![net[i].tgt] = cur]
  <2>1. net[i].tgt \notin visited
    BY <1>2, <1>6, ClosedStays DEF TreeInv
  <2> SUFFICES ASSUME NEW v \in Node
               PROVE  /\ prev'[v] # None => /\ prev'[v] \in visited
                                            /\ \E k \in Slots(net, prev'[v]) :
                                                 net[k].tgt = v /\ dist'[v] = dist'[prev'[v]] + weight[k]
                      /\ prev'[v] = None /\ dist'[v] # Inf => v = source
    BY <1>1, <1>4 DEF Tree
  <2>2. CASE v = net[i].tgt
    <3>1. prev'[v] = cur /\ cur # None /\ dist'[v] = dist[cur] + weight[i] /\ dist'[cur] = dist[cur]
      BY <1>2, <1>3, <1>6, <2>1, <2>2
    <3>2. i \in Slots(net, cur)
      BY <1>2 DEF Slots
    <3> QED
      BY <1>2, <2>2, <3>1, <3>2
  <2>3. CASE v # net[i].tgt
    <3>1. prev'[v] = prev[v] /\ dist'[v] = dist[v]
      BY <1>3, <1>6, <2>3
    <3>2. prev[v] \in visited => dist'[prev[v]] = dist[prev[v]]
      BY <1>3, <1>6, <2>1
    <3>3. CASE prev[v] = None
      BY <1>1, <3>1, <3>3 DEF TreeInv, Tree
    <3>4. CASE prev[v] # None
      <4>1. prev[v] \in visited
        BY <1>1, <3>4 DEF TreeInv, Tree
      <4>2. PICK k \in Slots(net, prev[v]) : net[k].tgt = v /\ dist[v] = dist[prev[v]] + weight[k]
        BY <1>1, <3>4 DEF TreeInv, Tree
      <4> QED
        BY <3>1, <3>2, <3>4, <4>1, <4>2
    <3> QED
      BY <3>3, <3>4
  <2> QED
    BY <2>2, <2>3
<1> QED
  BY <1>2, <1>5, <1>6

\* prev[] accounts for every distance with an edge.
LEMMA TreeStep == TreeInv /\ [PathsNext]_pathsVars => Tree'
<1> SUFFICES ASSUME TreeInv, [PathsNext]_pathsVars PROVE Tree'
  OBVIOUS
<1>1. CASE PathsCall
  BY <1>1, CallStarts, InfAssumption DEF TreeInv, ShortInv, ReachInv, Tree
<1>2. CASE LoadWeight
  <2>1. visited = {} /\ UNCHANGED <<net, algo, source, visited, dist, prev>>
    BY <1>2 DEF LoadWeight, csrVars, TreeInv, ShortInv, ReachInv, Base, Fresh
  <2> QED
    BY <2>1 DEF TreeInv, Tree
<1>3. ASSUME NEW e \in pending, Pop(e) PROVE Tree'
  <2>1. UNCHANGED <<net, algo, source, dist, prev, weight>> /\ visited \subseteq visited'
    BY <1>3 DEF Pop
  <2> QED
    BY <2>1 DEF TreeInv, Tree, Slots
<1>4. CASE UNCHANGED <<net, algo, source, dist, prev, weight, visited>>
  BY <1>4 DEF TreeInv, Tree, Slots
<1>5. CASE PathsReturn
  BY <1>5 DEF PathsReturn, CsrReset, Tree
<1> QED
  BY <1>1, <1>2, <1>3, <1>4, <1>5, TreeRelax
     DEF PathsNext, PathsStep, Exhausted, Walk, pathsVars, csrVars, pathVars

\* A walk with a node put in front of it.
LEMMA Prepended ==
  ASSUME Base, Walk, cur # None
  PROVE  /\ cur \in Node /\ cur' = prev[cur] /\ path \in Seq(Node) /\ path' \in Seq(Node)
         /\ Len(path) \in Nat /\ Len(path') = Len(path) + 1
         /\ path'[1] = cur
         /\ \A k \in 1 .. Len(path) : path'[k + 1] = path[k] /\ path[k] \in Node
         /\ algo # "none" /\ UNCHANGED <<net, algo, stage, source, target, visited, dist, prev, weight>>
<1>1. cur \in Node /\ path \in Seq(Node) /\ algo # "none"
  BY DEF Base, Types, CsrTypeOK, PathsTypeOK, Stages, Walk
<1>2. path' = <<cur>> \o path /\ cur' = prev[cur]
  BY DEF Walk
<1>3. <<cur>> \in Seq(Node) /\ Len(<<cur>>) = 1 /\ <<cur>>[1] = cur
  BY <1>1
<1>4. path' \in Seq(Node) /\ Len(path') = Len(path) + 1 /\ path'[1] = cur
  BY <1>1, <1>2, <1>3
<1>5. \A k \in 1 .. Len(path) : path'[k + 1] = path[k] /\ path[k] \in Node
  BY <1>1, <1>2, <1>3
<1> QED
  BY <1>1, <1>2, <1>4, <1>5 DEF Walk

\* One more step back along prev[] makes the path longer by that edge.
LEMMA TrailWalk == TreeInv /\ Trail /\ Walk => Trail'
<1> SUFFICES ASSUME TreeInv, Trail, Walk PROVE Trail'
  OBVIOUS
<1>1. Base /\ stage = "walk" /\ algo # "none"
  BY DEF TreeInv, ShortInv, ReachInv, Walk, Base, Stages
<1>2. CASE cur = None
  <2>1. UNCHANGED <<path, visited, prev, target>> /\ stage' = "done"
    BY <1>2 DEF Walk
  <2> QED
    BY <1>1, <1>2, <2>1 DEF Trail
<1>3. CASE cur # None
  <2>1. cur \in visited
    <3>1. CASE path = <<>>
      BY <1>1, <3>1 DEF Trail, Base, Stages
    <3>2. CASE path # <<>>
      <4>1. path[1] \in Node
        BY <1>1, <1>3, <3>2, Prepended
      <4> QED
        BY <1>1, <1>3, <3>2, <4>1 DEF Trail, TreeInv, Tree
    <3> QED
      BY <3>1, <3>2
  <2>2. path'[Len(path')] = target
    <3>1. CASE path = <<>>
      <4>1. Len(path) = 0 /\ Len(path') = 1
        BY <1>1, <1>3, <3>1, Prepended
      <4> QED
        BY <1>1, <1>3, <3>1, <4>1, Prepended DEF Trail
    <3>2. CASE path # <<>>
      <4>1. Len(path) \in 1 .. Len(path) /\ path[Len(path)] = target
        BY <1>1, <1>3, <3>2, Prepended DEF Trail
      <4> QED
        BY <1>1, <1>3, <4>1, Prepended
    <3> QED
      BY <3>1, <3>2
  <2>3. ASSUME NEW k \in 1 .. Len(path') PROVE path'[k] \in visited
    <3>1. CASE k = 1
      BY <1>1, <1>3, <2>1, <3>1, Prepended
    <3>2. CASE k # 1
      <4>1. k - 1 \in 1 .. Len(path) /\ path'[(k - 1) + 1] = path[k - 1] /\ (k - 1) + 1 = k
        BY <1>1, <1>3, <3>2, Prepended
      <4> QED
        BY <4>1 DEF Trail
    <3> QED
      BY <3>1, <3>2
  <2>4. ASSUME NEW k \in 1 .. Len(path') - 1 PROVE prev[path'[k + 1]] = path'[k]
    <3>1. k \in 1 .. Len(path) /\ path'[k + 1] = path[k] /\ path # <<>>
      BY <1>1, <1>3, Prepended
    <3>2. CASE k = 1
      BY <1>1, <1>3, <3>1, <3>2, Prepended DEF Trail
    <3>3. CASE k # 1
      <4>1. /\ k - 1 \in 1 .. Len(path) - 1 /\ k - 1 \in 1 .. Len(path)
            /\ path'[(k - 1) + 1] = path[k - 1] /\ (k - 1) + 1 = k
        BY <1>1, <1>3, <3>1, <3>3, Prepended
      <4> QED
        BY <3>1, <4>1 DEF Trail
    <3> QED
      BY <3>2, <3>3
  <2>5. path' # <<>> /\ cur' = prev[path'[1]] /\ stage' = "walk"
    BY <1>1, <1>3, Prepended
  <2> QED
    BY <1>1, <1>3, <2>2, <2>3, <2>4, <2>5, Prepended DEF Trail
<1> QED
  BY <1>2, <1>3

\* What has been walked back is a path to the target.
LEMMA TrailStep == TreeInv /\ Trail /\ [PathsNext]_pathsVars => Trail'
<1> SUFFICES ASSUME TreeInv, Trail, [PathsNext]_pathsVars PROVE Trail'
  OBVIOUS
<1>1. Base
  BY DEF TreeInv, ShortInv, ReachInv
<1>2. CASE PathsCall
  BY <1>1, <1>2, CallStarts DEF Trail
<1>3. CASE LoadWeight \/ Relax
  BY <1>1, <1>3 DEF LoadWeight, Relax, csrVars, Trail, Base, Stages, Fresh
<1>4. ASSUME NEW e \in pending, Pop(e) PROVE Trail'
  <2>1. path = <<>> /\ UNCHANGED <<path, target>>
    BY <1>1, <1>4 DEF Pop, Searching, Base, Stages
  <2>2. stage' = "walk" => cur' = target
    BY <1>4 DEF Pop, Searching
  <2> QED
    BY <2>1, <2>2 DEF Trail
<1>5. CASE Exhausted
  BY <1>1, <1>5, ExhaustedFails DEF Exhausted, Searching, pathVars, Trail, Base, Stages
<1>6. CASE PathsReturn
  BY <1>6 DEF PathsReturn, CsrReset, Trail
<1>7. CASE UNCHANGED pathsVars
  BY <1>7 DEF pathsVars, csrVars, pathVars, Trail
<1> QED
  BY <1>2, <1>3, <1>4, <1>5, <1>6, <1>7, TrailWalk DEF PathsNext, PathsStep

\* Nothing has been walked at first.
LEMMA TrailInit == PathsInit => TreeInv /\ Trail
BY ShortInit DEF PathsInit, CsrIdle, PathsIdle, TreeInv, Tree, Trail

\* Walked back to the source it is the path that was asked for.
LEMMA TrailReal == TreeInv /\ Trail => PathReal
<1> SUFFICES ASSUME TreeInv, Trail, PathsDone, Found PROVE PathReal
  BY DEF PathReal
<1>1. Base /\ algo # "none" /\ source \in Node /\ stage = "done" /\ path # <<>>
  BY DEF TreeInv, ShortInv, ReachInv, PathsDone, Found, Base, Types, CsrTypeOK
<1>2. visited \subseteq Node /\ path \in Seq(Node) /\ \A v \in visited : dist[v] # Inf
  BY <1>1 DEF Base, Types, CsrTypeOK, PathsTypeOK, Stages, Known
<1>3. path[1] \in visited /\ prev[path[1]] = None /\ path[Len(path)] = target
  BY <1>1, <1>2 DEF Trail
<1>4. path[1] = source
  BY <1>1, <1>2, <1>3 DEF TreeInv, Tree
<1>5. dist[source] = 0
  BY <1>1 DEF Base, Known
<1>6. ASSUME NEW k \in 1 .. Len(path) - 1
      PROVE  \E i \in Slots(net, path[k]) :
               net[i].tgt = path[k + 1] /\ dist[path[k + 1]] = dist[path[k]] + weight[i]
  <2>1. /\ k \in 1 .. Len(path) /\ k + 1 \in 1 .. Len(path)
        /\ prev[path[k + 1]] = path[k] /\ path[k] \in Node /\ path[k + 1] \in Node
    BY <1>1, <1>2 DEF Trail
  <2>2. prev[path[k + 1]] # None
    BY <2>1, NodeAssumption
  <2> QED
    BY <1>1, <2>1, <2>2 DEF TreeInv, Tree
<1> QED
  BY <1>3, <1>4, <1>5, <1>6 DEF PathReal

\* Closed nodes can be numbered, each above the one prev[] leads to, so the
\* nodes of the path differ.
Ranked ==
  algo # "none" =>
    \E f \in [Node -> Nat], n \in Nat :
      /\ \A v \in visited : f[v] < n /\ (prev[v] # None => f[prev[v]] < f[v])
      /\ \A j, k \in 1 .. Len(path) : j < k => f[path[j]] < f[path[k]]

\* A node that is closed gets the next number.
LEMMA RankedPop ==
  ASSUME TreeInv, Ranked, NEW e \in pending, Pop(e)
  PROVE  Ranked'
<1> DEFINE v == e.node
<1>1. Base /\ algo # "none" /\ path = <<>> /\ UNCHANGED <<algo, path, prev>>
  BY DEF TreeInv, ShortInv, ReachInv, Pop, Searching, Base, Stages
<1>2. PICK f \in [Node -> Nat], n \in Nat :
        \A u \in visited : f[u] < n /\ (prev[u] # None => f[prev[u]] < f[u])
  BY <1>1 DEF Ranked
<1>3. v \in Node /\ visited \subseteq Node /\ \A u \in Node : prev[u] # None => prev[u] \in visited
  BY <1>1 DEF TreeInv, Tree, Base, Types, CsrTypeOK, PathsTypeOK, Stages
<1>4. CASE v \in visited
  <2>1. visited' = visited
    BY <1>4 DEF Pop
  <2> QED
    BY <1>1, <1>2, <2>1 DEF Ranked
<1>5. CASE v \notin visited
  <2> DEFINE F == [f EXCEPT ![v] = n]
  <2>1. visited' = visited \cup {v}
    BY <1>5 DEF Pop
  <2>2. F \in [Node -> Nat] /\ n + 1 \in Nat /\ F[v] = n
    BY <1>2, <1>3
  <2>3. \A u \in visited : F[u] = f[u] /\ f[u] \in Nat
    BY <1>2, <1>3, <1>5
  <2>4. ASSUME NEW u \in visited' PROVE F[u] < n + 1 /\ (prev[u] # None => F[prev[u]] < F[u])
    <3>1. CASE u = v
      BY <1>2, <1>3, <2>2, <2>3, <3>1
    <3>2. CASE u \in visited
      BY <1>2, <1>3, <2>2, <2>3, <3>2
    <3> QED
      BY <2>1, <3>1, <3>2
  <2>5. \A j, k \in 1 .. Len(path') : j < k => F[path'[j]] < F[path'[k]]
    BY <1>1
  <2>6. \A u \in visited' : F[u] < n + 1 /\ (prev'[u] # None => F[prev'[u]] < F[u])
    BY <1>1, <2>4
  <2> HIDE DEF F
  <2> QED
    BY <2>2, <2>5, <2>6 DEF Ranked
<1> QED
  BY <1>4, <1>5

\* Numbers fall along the walk back.
LEMMA RankedWalk == TreeInv /\ Trail /\ Ranked /\ Walk => Ranked'
<1> SUFFICES ASSUME TreeInv, Trail, Ranked, Walk PROVE Ranked'
  OBVIOUS
<1>1. Base /\ algo # "none" /\ stage = "walk"
  BY DEF TreeInv, ShortInv, ReachInv, Walk, Base, Stages
<1>2. CASE cur = None
  <2>1. UNCHANGED <<algo, visited, prev, path>>
    BY <1>2 DEF Walk
  <2> QED
    BY <2>1 DEF Ranked
<1>3. CASE cur # None
  <2>1. PICK f \in [Node -> Nat], n \in Nat :
          /\ \A v \in visited : f[v] < n /\ (prev[v] # None => f[prev[v]] < f[v])
          /\ \A j, k \in 1 .. Len(path) : j < k => f[path[j]] < f[path[k]]
    BY <1>1 DEF Ranked
  <2>2. ASSUME NEW j \in 1 .. Len(path'), NEW k \in 1 .. Len(path'), j < k
        PROVE  f[path'[j]] < f[path'[k]]
    <3>. Len(path) \in Nat /\ Len(path') = Len(path) + 1
      BY <1>1, <1>3, Prepended
    <3>0. j \in 1 .. Len(path) + 1 /\ k \in 1 .. Len(path) + 1 /\ j < k
      BY <2>2
    <3>1. k - 1 \in 1 .. Len(path) /\ path'[(k - 1) + 1] = path[k - 1] /\ (k - 1) + 1 = k
      <4>1. k - 1 \in 1 .. Len(path) /\ (k - 1) + 1 = k
        BY <3>0
      <4> QED
        BY <1>1, <1>3, <4>1, Prepended
    <3>2. path'[k] = path[k - 1]
      BY <3>1
    <3>3. CASE j = 1
      <4>1. 1 \in 1 .. Len(path) /\ path # <<>> /\ path[1] \in visited /\ cur = prev[path[1]]
        BY <1>1, <1>3, <3>1, Prepended DEF Trail
      <4>2. f[cur] < f[path[1]] /\ path'[1] = cur
        BY <1>1, <1>3, <2>1, <4>1, Prepended
      <4>3. path[1] \in Node /\ path[k - 1] \in Node /\ cur \in Node
        BY <1>1, <1>3, <3>1, <4>1, Prepended
      <4>4. f[path[1]] <= f[path[k - 1]]
        <5>1. CASE k - 1 = 1
          BY <2>1, <4>3, <5>1
        <5>2. CASE k - 1 # 1
          <6>1. 1 < k - 1
            BY <3>1, <5>2
          <6>2. f[path[1]] < f[path[k - 1]]
            BY <2>1, <3>1, <4>1, <6>1
          <6> QED
            BY <2>1, <4>3, <6>2
        <5> QED
          BY <5>1, <5>2
      <4>5. f[cur] \in Nat /\ f[path[1]] \in Nat /\ f[path[k - 1]] \in Nat
        BY <2>1, <4>3
      <4> QED
        BY <3>2, <3>3, <4>2, <4>4, <4>5
    <3>4. CASE j # 1
      <4>1. j - 1 \in 1 .. Len(path) /\ (j - 1) + 1 = j /\ j - 1 < k - 1
        BY <3>0, <3>4
      <4>2. path'[j] = path[j - 1]
        BY <1>1, <1>3, <4>1, Prepended
      <4> QED
        BY <2>1, <3>1, <3>2, <4>1, <4>2
    <3> QED
      BY <3>3, <3>4
  <2>3. UNCHANGED <<algo, visited, prev>>
    BY <1>1, <1>3, Prepended
  <2>4. \A j, k \in 1 .. Len(path') : j < k => f[path'[j]] < f[path'[k]]
    BY <2>2
  <2>5. \A v \in visited : f[v] < n /\ (prev[v] # None => f[prev[v]] < f[v])
    BY <2>1
  <2> QED
    BY <2>3, <2>4, <2>5 DEF Ranked
<1> QED
  BY <1>2, <1>3

\* Predecessors have smaller numbers, whatever the step.
LEMMA RankedStep == TreeInv /\ Trail /\ Ranked /\ [PathsNext]_pathsVars => Ranked'
<1> SUFFICES ASSUME TreeInv, Trail, Ranked, [PathsNext]_pathsVars PROVE Ranked'
  OBVIOUS
<1>1. Base
  BY DEF TreeInv, ShortInv, ReachInv
<1>2. CASE PathsCall
  <2>1. visited' = {} /\ path' = <<>>
    BY <1>1, <1>2, CallStarts
  <2>2. Zero \in [Node -> Nat] /\ 0 \in Nat /\ Len(<<>>) = 0
    BY DEF Zero
  <2>3. \A j, k \in 1 .. 0 : FALSE
    OBVIOUS
  <2>4. 1 .. Len(path') = {}
    BY <2>1, <2>2, <2>3
  <2> QED
    BY <2>1, <2>2, <2>4 DEF Ranked
<1>3. CASE Relax
  <2>1. algo # "none" /\ UNCHANGED <<algo, visited, path>> /\ visited \subseteq Node
    BY <1>1, <1>3 DEF Relax, Base, Types, CsrTypeOK
  <2>2. \A v \in visited : prev'[v] = prev[v]
    <3>1. PICK i \in DOMAIN net :
            /\ i \in todo /\ net[i].src = cur
            /\ \/ Improves(net[i].tgt, dist[cur] + weight[i]) /\ prev' = [prev EXCEPT ![net[i].tgt] = cur]
               \/ UNCHANGED prev
      BY <1>1, <1>3, Relaxing
    <3>2. CASE Improves(net[i].tgt, dist[cur] + weight[i]) /\ prev' = [prev EXCEPT ![net[i].tgt] = cur]
      <4>1. net[i].tgt \notin visited
        BY <1>3, <3>1, <3>2, ClosedStays DEF TreeInv
      <4>2. prev \in [Node -> Node \cup {None}]
        BY <1>1, <2>1 DEF Base, Types, PathsTypeOK, Stages
      <4> QED
        BY <2>1, <3>2, <4>1, <4>2
    <3> QED
      BY <3>1, <3>2
  <2>3. PICK f \in [Node -> Nat], n \in Nat :
          /\ \A v \in visited : f[v] < n /\ (prev[v] # None => f[prev[v]] < f[v])
          /\ \A j, k \in 1 .. Len(path) : j < k => f[path[j]] < f[path[k]]
    BY <2>1 DEF Ranked
  <2>4. \A v \in visited : f[v] < n /\ (prev'[v] # None => f[prev'[v]] < f[v])
    BY <2>2, <2>3
  <2> QED
    BY <2>1, <2>3, <2>4 DEF Ranked
<1>4. CASE PathsReturn
  BY <1>4 DEF PathsReturn, CsrReset, Ranked
<1>5. CASE UNCHANGED <<algo, visited, prev, path>>
  BY <1>5 DEF Ranked
<1> QED
  BY <1>2, <1>3, <1>4, <1>5, RankedPop, RankedWalk
     DEF PathsNext, PathsStep, LoadWeight, Exhausted, pathsVars, csrVars, pathVars

\* A walk along falling numbers has no more nodes than there are.
LEMMA RankedFits == Base /\ Ranked => PathFits
<1> SUFFICES ASSUME Base, Ranked PROVE PathFits
  OBVIOUS
<1>1. IsFiniteSet(Node) /\ Cardinality(Node) \in Nat
  BY NodeAssumption, FS_CardinalityType
<1>2. CASE algo = "none"
  BY <1>1, <1>2 DEF PathFits, Base, Stages
<1>3. CASE algo # "none"
  <2>1. path \in Seq(Node)
    BY <1>3 DEF Base, Types, CsrTypeOK, PathsTypeOK, Stages
  <2> DEFINE n == Len(path)
  <2>2. n \in Nat /\ path \in [1 .. n -> Node]
    BY <2>1
  <2>3. PICK f \in [Node -> Nat] : \A j, k \in 1 .. n : j < k => f[path[j]] < f[path[k]]
    BY <1>3 DEF Ranked
  <2>4. ASSUME NEW j \in 1 .. n, NEW k \in 1 .. n, path[j] = path[k] PROVE j = k
    <3>1. f[path[j]] = f[path[k]] /\ f[path[j]] \in Nat
      BY <2>2, <2>3, <2>4
    <3>2. ~ j < k /\ ~ k < j
      BY <2>3, <3>1
    <3> QED
      BY <2>2, <3>2
  <2>5. path \in Injection(1 .. n, Node)
    BY <2>2, <2>4 DEF Injection, IsInjective
  <2>6. Cardinality(1 .. n) <= Cardinality(Node)
    BY <1>1, <2>5, FS_Injection
  <2>7. Cardinality(1 .. n) = n
    BY <2>2, FS_Interval
  <2> QED
    BY <2>6, <2>7 DEF PathFits
<1> QED
  BY <1>2, <1>3

-----------------------------------------------------------------------------
(* dijkstra and astar.                                                     *)

PathsInv == TreeInv /\ Trail /\ Ranked

\* No call is under way at first.
LEMMA PathsInvInit == PathsInit => PathsInv
BY TrailInit DEF PathsInit, CsrIdle, Ranked, PathsInv

\* Every step of dijkstra and astar keeps what is known of them.
LEMMA PathsInvStep == PathsInv /\ [PathsNext]_pathsVars => PathsInv'
BY ShortStep, TreeStep, TrailStep, RankedStep DEF TreeInv, PathsInv

-----------------------------------------------------------------------------
(* bfs and dfs: sequences of entries.                                      *)

\* The parts of a sequence, place by place.
LEMMA TailIs ==
  ASSUME NEW S, NEW s \in Seq(S), s # <<>>
  PROVE  /\ Len(s) \in Nat /\ Len(s) >= 1 /\ Head(s) = s[1] /\ s[1] \in S
         /\ Tail(s) \in Seq(S) /\ Len(Tail(s)) = Len(s) - 1
         /\ \A k \in 1 .. Len(s) - 1 : Tail(s)[k] = s[k + 1]
OBVIOUS

\* All but the last.
LEMMA FrontIs ==
  ASSUME NEW S, NEW s \in Seq(S), s # <<>>
  PROVE  /\ Len(s) \in Nat /\ Len(s) >= 1 /\ s[Len(s)] \in S
         /\ SubSeq(s, 1, Len(s) - 1) \in Seq(S) /\ Len(SubSeq(s, 1, Len(s) - 1)) = Len(s) - 1
         /\ \A k \in 1 .. Len(s) - 1 : SubSeq(s, 1, Len(s) - 1)[k] = s[k]
<1>1. Len(s) \in Nat /\ Len(s) >= 1 /\ s[Len(s)] \in S /\ \A k \in 1 .. Len(s) : s[k] \in S
  OBVIOUS
<1>2. SubSeq(s, 1, Len(s) - 1) = [k \in 1 .. Len(s) - 1 |-> s[k]]
  BY <1>1
<1>3. \A k \in 1 .. Len(s) - 1 : s[k] \in S
  BY <1>1
<1>4. SubSeq(s, 1, Len(s) - 1) \in Seq(S) /\ Len(SubSeq(s, 1, Len(s) - 1)) = Len(s) - 1
  <2> DEFINE m == Len(s) - 1
             t == [k \in 1 .. m |-> s[k]]
  <2>1. m \in Nat /\ t \in [1 .. m -> S]
    BY <1>1, <1>3
  <2>2. t = SubSeq(s, 1, Len(s) - 1)
    BY <1>2
  <2> HIDE DEF t
  <2>3. t \in Seq(S) /\ Len(t) = m
    BY <2>1
  <2> QED
    BY <2>2, <2>3
<1> QED
  BY <1>1, <1>2, <1>4

\* One more.
LEMMA AppendIs ==
  ASSUME NEW S, NEW s \in Seq(S), NEW x \in S
  PROVE  /\ Len(s) \in Nat /\ Append(s, x) \in Seq(S) /\ Len(Append(s, x)) = Len(s) + 1
         /\ Append(s, x) # <<>>
         /\ Append(s, x)[Len(s) + 1] = x /\ \A k \in 1 .. Len(s) : Append(s, x)[k] = s[k]
OBVIOUS

\* One more at the end, and one less at the front or at the end.
Longer(t, s, x) ==
  /\ Len(t) = Len(s) + 1 /\ t[Len(s) + 1] = x
  /\ \A k \in 1 .. Len(s) : t[k] = s[k]
NoFirst(t, s) ==
  /\ Len(s) >= 1 /\ Len(t) = Len(s) - 1
  /\ \A k \in 1 .. Len(t) : t[k] = s[k + 1]
NoLast(t, s) ==
  /\ Len(s) >= 1 /\ Len(t) = Len(s) - 1
  /\ \A k \in 1 .. Len(t) : t[k] = s[k]

TravTypes == CsrTypeOK /\ TraversalTypeOK

\* The variables that have types, as facts the provers can use.
LEMMA TravTyped ==
  ASSUME TravTypes
  PROVE  /\ waiting \in Seq(Entry) /\ order \in Seq(Entry) /\ depth \in Nat /\ queued \in Nat
         /\ Len(waiting) \in Nat /\ DOMAIN waiting = 1 .. Len(waiting)
         /\ Len(order) \in Nat /\ DOMAIN order = 1 .. Len(order)
         /\ \A k \in 1 .. Len(waiting) : waiting[k] \in Entry
         /\ \A k \in 1 .. Len(order) : order[k] \in Entry
         /\ max_depth \in Nat \cup {None} /\ visited \subseteq Node /\ net \in Seq(Edge)
         /\ todo \subseteq DOMAIN net /\ cur \in Node \cup {None} /\ source \in Node \cup {None}
BY DEF TravTypes, CsrTypeOK, TraversalTypeOK

\* What an entry is reported as, or that it is not.
Reports(e) ==
  /\ ~TooDeep(e)
  /\ order' \in Seq(Entry) /\ order' # <<>> /\ Longer(order', order, e)
  /\ cur' = e.node /\ depth' = e.depth /\ todo' = Slots(net, e.node)
Drops == UNCHANGED <<order, cur, todo, depth>>

\* Report, place by place.
LEMMA ReportIs ==
  ASSUME TravTypes, NEW e \in Entry, Report(e)
  PROVE  Reports(e) \/ (TooDeep(e) /\ Drops)
<1>1. CASE TooDeep(e)
  BY <1>1 DEF Report, Drops
<1>2. CASE ~TooDeep(e)
  <2>1. [node |-> e.node, depth |-> DepthOf(e)] = e
    BY DEF Entry, DepthOf
  <2>2. order' = Append(order, e) /\ cur' = e.node /\ depth' = e.depth /\ todo' = Slots(net, e.node)
    BY <1>2, <2>1 DEF Report, DepthOf
  <2>3. order' \in Seq(Entry) /\ order' # <<>> /\ Longer(order', order, e)
    BY <2>2, TravTyped, AppendIs DEF Longer
  <2> QED
    BY <1>2, <2>2, <2>3 DEF Reports
<1> QED
  BY <1>1, <1>2

\* What bfs does with the entry it takes.
TakesFirst(e) ==
  /\ algo = "bfs" /\ stage = "search" /\ todo = {}
  /\ waiting # <<>> /\ waiting[1] = e /\ waiting' \in Seq(Entry) /\ NoFirst(waiting', waiting)
  /\ Reports(e) \/ (TooDeep(e) /\ Drops)
  /\ UNCHANGED <<net, algo, stage, source, visited, max_depth, queued>>

\* What dfs does with the entry it takes.
TakesLast(e) ==
  /\ algo = "dfs" /\ stage = "search" /\ todo = {}
  /\ waiting # <<>> /\ waiting[Len(waiting)] = e /\ waiting' \in Seq(Entry) /\ NoLast(waiting', waiting)
  /\ \/ e.node \in visited /\ UNCHANGED visited /\ Drops
     \/ e.node \notin visited /\ visited' = visited \cup {e.node} /\ Reports(e)
     \/ e.node \notin visited /\ visited' = visited \cup {e.node} /\ TooDeep(e) /\ Drops
  /\ UNCHANGED <<net, algo, stage, source, max_depth, queued>>

\* What they do with a slot.
Pushes(v) == waiting' \in Seq(Entry) /\ Longer(waiting', waiting, [node |-> v, depth |-> depth + 1])
Looks(i) ==
  /\ IsTraversal /\ i \in todo /\ todo' = todo \ {i}
  /\ i \in DOMAIN net /\ net[i] \in Edge /\ net[i].tgt \in Node
  /\ UNCHANGED <<net, algo, stage, source, cur, max_depth, depth, order>>
LooksUp(i) ==
  /\ algo = "bfs" /\ Looks(i)
  /\ \/ net[i].tgt \in visited /\ UNCHANGED <<visited, waiting, queued>>
     \/ /\ net[i].tgt \notin visited /\ visited' = visited \cup {net[i].tgt}
        /\ Pushes(net[i].tgt) /\ queued' = queued + 1
LooksDown(i) ==
  /\ algo = "dfs" /\ Looks(i) /\ \A k \in todo : k <= i
  /\ \/ net[i].tgt \in visited /\ UNCHANGED waiting
     \/ net[i].tgt \notin visited /\ Pushes(net[i].tgt)
  /\ UNCHANGED <<visited, queued>>

\* A set of places of a sequence that is not empty has a last member.
LEMMA LastOfIn ==
  ASSUME NEW n \in Nat, NEW S \in SUBSET (1 .. n), S # {}
  PROVE  LastOf(S) \in S /\ \A k \in S : k <= LastOf(S)
<1> DEFINE T == {n - k : k \in S}
<1>1. T \in SUBSET Nat /\ T # {}
  <2>1. \A k \in S : k \in 1 .. n /\ n - k \in Nat
    OBVIOUS
  <2> QED
    BY <2>1
<1>2. PICK m \in T : \A k \in T : m <= k
  <2> HIDE DEF T
  <2> QED
    BY <1>1, FirstOfIn
<1>3. PICK i \in S : m = n - i
  BY <1>2
<1>4. \A k \in S : i >= k
  <2> TAKE k \in S
  <2>1. n - k \in T
    OBVIOUS
  <2>2. n - i <= n - k
    BY <1>2, <1>3, <2>1
  <2>3. i \in 1 .. n /\ k \in 1 .. n
    OBVIOUS
  <2> QED
    BY ONLY n \in Nat, <2>2, <2>3
<1> QED
  BY <1>4 DEF LastOf

\* bfs takes the first of the queue.
LEMMA TakeBfsDoes == ASSUME TravTypes, TakeBfs PROVE \E e \in Entry : TakesFirst(e)
<1>1. algo = "bfs" /\ stage = "search" /\ todo = {} /\ waiting # <<>>
  BY DEF TakeBfs, Ready
<1>2. /\ waiting' = Tail(waiting) /\ Report(Head(waiting))
      /\ UNCHANGED <<net, algo, stage, source, visited, max_depth, queued>>
  BY DEF TakeBfs
<1>3. /\ Head(waiting) = waiting[1] /\ waiting[1] \in Entry
      /\ waiting' \in Seq(Entry) /\ NoFirst(waiting', waiting)
  BY <1>1, <1>2, TravTyped, TailIs DEF NoFirst
<1>4. Reports(waiting[1]) \/ (TooDeep(waiting[1]) /\ Drops)
  BY <1>2, <1>3, ReportIs
<1> QED
  BY <1>1, <1>2, <1>3, <1>4 DEF TakesFirst

\* dfs takes the last of the stack.
LEMMA TakeDfsDoes == ASSUME TravTypes, TakeDfs PROVE \E e \in Entry : TakesLast(e)
<1> DEFINE e == waiting[Len(waiting)]
<1>1. algo = "dfs" /\ stage = "search" /\ todo = {} /\ waiting # <<>>
  BY DEF TakeDfs, Ready
<1>2. /\ waiting' = SubSeq(waiting, 1, Len(waiting) - 1)
      /\ \/ e.node \in visited /\ UNCHANGED <<visited, order, cur, todo, depth>>
         \/ e.node \notin visited /\ visited' = visited \cup {e.node} /\ Report(e)
      /\ UNCHANGED <<net, algo, stage, source, max_depth, queued>>
  BY DEF TakeDfs
<1>3. e \in Entry /\ waiting' \in Seq(Entry) /\ NoLast(waiting', waiting)
  BY <1>1, <1>2, TravTyped, FrontIs DEF NoLast
<1> HIDE DEF e
<1>4. Report(e) => Reports(e) \/ (TooDeep(e) /\ Drops)
  BY <1>3, ReportIs
<1> QED
  BY <1>1, <1>2, <1>3, <1>4 DEF TakesLast, Drops, e

\* An entry for the queue or the stack.
LEMMA PushIs ==
  ASSUME TravTypes, NEW v \in Node, waiting' = Append(waiting, [node |-> v, depth |-> depth + 1])
  PROVE  Pushes(v)
<1>1. [node |-> v, depth |-> depth + 1] \in Entry
  BY TravTyped DEF Entry
<1> QED
  BY <1>1, TravTyped, AppendIs DEF Pushes, Longer

\* bfs looks at a slot.
LEMMA LookBfsDoes == ASSUME TravTypes, LookBfs PROVE \E i \in todo : LooksUp(i)
<1> DEFINE i == FirstOf(todo)
<1>1. DOMAIN net \in SUBSET Nat /\ todo \subseteq DOMAIN net /\ todo # {} /\ algo = "bfs"
  BY TravTyped DEF LookBfs
<1>2. i \in todo
  BY <1>1, FirstOfIn
<1>3. /\ todo' = todo \ {i}
      /\ IF net[i].tgt \in visited THEN UNCHANGED <<visited, waiting, queued>>
         ELSE /\ visited' = visited \cup {net[i].tgt}
              /\ waiting' = Append(waiting, [node |-> net[i].tgt, depth |-> depth + 1])
              /\ queued' = queued + 1
      /\ UNCHANGED <<net, algo, stage, source, cur, max_depth, depth, order>>
  BY DEF LookBfs, Mark
<1> HIDE DEF i
<1>4. i \in DOMAIN net /\ net[i] \in Edge /\ net[i].tgt \in Node
  BY <1>1, <1>2, EdgeOf DEF TravTypes
<1>5. net[i].tgt \notin visited => Pushes(net[i].tgt)
  BY <1>3, <1>4, PushIs
<1>6. Looks(i)
  BY <1>1, <1>2, <1>3, <1>4 DEF Looks, IsTraversal
<1> QED
  BY <1>1, <1>2, <1>3, <1>5, <1>6 DEF LooksUp

\* dfs looks at a slot.
LEMMA LookDfsDoes == ASSUME TravTypes, LookDfs PROVE \E i \in todo : LooksDown(i)
<1> DEFINE i == LastOf(todo)
<1>1. DOMAIN net = 1 .. Len(net) /\ Len(net) \in Nat /\ todo \subseteq DOMAIN net /\ todo # {} /\ algo = "dfs"
  BY TravTyped DEF LookDfs
<1>2. i \in todo /\ \A k \in todo : k <= i
  BY <1>1, LastOfIn
<1>3. /\ todo' = todo \ {i}
      /\ waiting' = IF net[i].tgt \in visited THEN waiting
                    ELSE Append(waiting, [node |-> net[i].tgt, depth |-> depth + 1])
      /\ UNCHANGED <<net, algo, stage, source, cur, visited, max_depth, queued, depth, order>>
  BY DEF LookDfs, Down
<1> HIDE DEF i
<1>4. i \in DOMAIN net /\ net[i] \in Edge /\ net[i].tgt \in Node
  BY <1>1, <1>2, EdgeOf DEF TravTypes
<1>5. net[i].tgt \notin visited => Pushes(net[i].tgt)
  BY <1>3, <1>4, PushIs
<1>6. Looks(i)
  BY <1>1, <1>2, <1>3, <1>4 DEF Looks, IsTraversal
<1> QED
  BY <1>1, <1>2, <1>3, <1>5, <1>6 DEF LooksDown

\* A call that begins, and one that returns.
Begins(s) ==
  /\ stage = "idle" /\ algo' \in {"bfs", "dfs"} /\ net' \in Seq(Edge)
  /\ source' = s /\ s \in Node \cup {None} /\ max_depth' \in Nat \cup {None}
  /\ \/ s = None /\ stage' = "done" /\ UNCHANGED <<waiting, queued, visited>>
     \/ /\ s \in Node /\ stage' = "search"
        /\ waiting' = <<[node |-> s, depth |-> 0]>> /\ queued' = 1
        /\ visited' = IF algo' = "bfs" THEN {s} ELSE {}
  /\ UNCHANGED <<cur, todo, depth, order>>

\* A call begins.
LEMMA TraversalBegins == TraversalCall => \E s \in Starts : Begins(s)
<1> SUFFICES ASSUME TraversalCall PROVE \E s \in Starts : Begins(s)
  OBVIOUS
<1>1. PICK a \in {"bfs", "dfs"}, s \in Starts, l \in Limits : \E g \in NetsOf[a] : Traverse(a, g, s, l)
  BY DEF TraversalCall
<1>2. PICK g \in NetsOf[a] : Traverse(a, g, s, l)
  BY <1>1
<1>3. g \in Seq(Edge) /\ s \in Node \cup {None} /\ l \in Nat \cup {None} /\ None \notin Node
  BY NetsAssumption, StartsAssumption, LimitsAssumption, NodeAssumption DEF Algorithm
<1>4. /\ algo' = a /\ net' = g /\ source' = s /\ max_depth' = l
      /\ stage' = IF None \in {s} THEN "done" ELSE "search"
      /\ IF s = None THEN UNCHANGED <<waiting, queued, visited>>
         ELSE /\ waiting' = <<[node |-> s, depth |-> 0]>> /\ queued' = 1
              /\ visited' = IF a = "bfs" THEN {s} ELSE {}
      /\ UNCHANGED <<cur, todo, depth, order>>
  BY <1>2 DEF Traverse, CsrCall
<1>5. stage = "idle"
  BY DEF TraversalCall
<1>6. Begins(s)
  BY <1>3, <1>4, <1>5 DEF Begins
<1> QED
  BY <1>6

\* The steps of bfs and dfs, one by one.
LEMMA TraversalSteps ==
  ASSUME TravTypes, [TraversalNext]_traversalVars
  PROVE  \/ \E s \in Starts : Begins(s)
         \/ \E e \in Entry : TakesFirst(e) \/ TakesLast(e)
         \/ \E i \in todo : LooksUp(i) \/ LooksDown(i)
         \/ TraversalEnds
         \/ TraversalReturn
         \/ UNCHANGED traversalVars
BY TraversalBegins, TakeBfsDoes, TakeDfsDoes, LookBfsDoes, LookDfsDoes DEF TraversalNext, TraversalStep

-----------------------------------------------------------------------------
(* What is known of bfs and dfs at every step.                             *)

Calling ==
  /\ IsTraversal \/ algo = "none"
  /\ stage \in {"idle", "search", "done"}
  /\ stage = "idle" <=> algo = "none"
  /\ algo = "none" => visited = {} /\ queued = 0 /\ order = <<>>
  /\ stage = "search" => source \in Node
  /\ stage # "search" => todo = {} /\ waiting = <<>>
  /\ stage = "done" /\ source \in Node => order # <<>>

\* The source is reported first, and cur is what was reported last.
First ==
  order = <<>> =>
    /\ depth = 0 /\ todo = {}
    /\ stage = "search" => /\ waiting = <<[node |-> source, depth |-> 0]>>
                           /\ visited = IF algo = "bfs" THEN {source} ELSE {}
Last ==
  order # <<>> =>
    /\ algo # "none"
    /\ order[1] = [node |-> source, depth |-> 0]
    /\ cur = order[Len(order)].node /\ depth = order[Len(order)].depth
    /\ todo \subseteq Slots(net, cur)

\* What waits does so in the order of its depth, and is at most one level below
\* what was reported last; with bfs it is not above it.
Sorted ==
  /\ \A k \in 1 .. Len(waiting) : waiting[k].depth <= depth + 1
  /\ \A j, k \in 1 .. Len(waiting) : j <= k => waiting[j].depth <= waiting[k].depth
  /\ algo = "bfs" => \A k \in 1 .. Len(waiting) : depth <= waiting[k].depth

\* A node is reported once; bfs has it in its queue once and never again.
Once ==
  /\ \A j, k \in 1 .. Len(order) : order[j].node = order[k].node => j = k
  /\ \A j \in 1 .. Len(order) : order[j].node \in visited
  /\ algo = "bfs" =>
       /\ \A j, k \in 1 .. Len(waiting) : waiting[j].node = waiting[k].node => j = k
       /\ \A j \in 1 .. Len(order), k \in 1 .. Len(waiting) : order[j].node # waiting[k].node
       /\ \A k \in 1 .. Len(waiting) : waiting[k].node \in visited
  /\ IF algo = "bfs" THEN queued = Cardinality(visited) ELSE queued \in {0, 1}

Reaching == TravTypes /\ Calling /\ First /\ Last /\ Sorted /\ Once

\* At rest nothing has been reached.
LEMMA ReachingIdle == CsrIdle /\ TraversalIdle => Reaching
<1> SUFFICES ASSUME CsrIdle, TraversalIdle PROVE Reaching
  OBVIOUS
<1>1. /\ net \in Seq(Edge) /\ waiting \in Seq(Entry) /\ order \in Seq(Entry)
      /\ Len(waiting) = 0 /\ Len(order) = 0 /\ 1 .. 0 = {}
  BY DEF CsrIdle, TraversalIdle
<1>2. TravTypes
  BY <1>1 DEF CsrIdle, TraversalIdle, TravTypes, CsrTypeOK, TraversalTypeOK
<1>3. Calling /\ First /\ Last
  BY DEF CsrIdle, TraversalIdle, Calling, First, Last
<1>4. Sorted /\ Once
  BY <1>1 DEF CsrIdle, TraversalIdle, Sorted, Once
<1> QED
  BY <1>2, <1>3, <1>4 DEF Reaching

\* A call that begins has one entry waiting, or is done.
LEMMA ReachingBegins ==
  ASSUME Reaching, NEW s \in Starts, Begins(s)
  PROVE  Reaching'
<1>1. /\ algo = "none" /\ stage = "idle" /\ visited = {} /\ cur' = cur /\ todo' = {} /\ depth' = 0
      /\ order = <<>> /\ order' = <<>> /\ queued = 0 /\ waiting = <<>>
  BY DEF Begins, Reaching, Calling, First
<1>2. /\ algo' \in {"bfs", "dfs"} /\ net' \in Seq(Edge) /\ source' = s /\ s \in Node \cup {None}
      /\ max_depth' \in Nat \cup {None} /\ None \notin Node /\ cur \in Node \cup {None}
  BY NodeAssumption DEF Begins, Reaching, TravTypes, CsrTypeOK
<1>3. CASE s = None
  <2>1. stage' = "done" /\ waiting' = <<>> /\ queued' = 0 /\ visited' = {}
    BY <1>1, <1>2, <1>3 DEF Begins
  <2>2. TravTypes' /\ Calling' /\ First' /\ Last'
    BY <1>1, <1>2, <1>3, <2>1 DEF TravTypes, CsrTypeOK, TraversalTypeOK, Calling, First, Last,
                                  IsTraversal, Algorithm
  <2>3. Len(waiting') = 0 /\ Len(order') = 0 /\ 1 .. 0 = {} /\ Cardinality({}) = 0
    BY <1>1, <2>1, FS_EmptySet
  <2> QED
    BY <1>1, <2>1, <2>2, <2>3 DEF Reaching, Sorted, Once
<1>4. CASE s # None
  <2> DEFINE e == [node |-> s, depth |-> 0]
  <2>1. s \in Node /\ stage' = "search" /\ waiting' = <<e>> /\ queued' = 1
        /\ visited' = IF algo' = "bfs" THEN {s} ELSE {}
    BY <1>1, <1>2, <1>4 DEF Begins
  <2>2. e \in Entry /\ e.node = s /\ e.depth = 0
    BY <2>1 DEF Entry
  <2>3. TravTypes' /\ Calling' /\ First' /\ Last'
    <3>1. <<e>> \in Seq(Entry) /\ <<>> \in Seq(Entry) /\ <<e>> # <<>>
      BY <2>2
    <3> HIDE DEF e
    <3>2. TravTypes' /\ Calling' /\ Last'
      BY <1>1, <1>2, <2>1, <3>1 DEF TravTypes, CsrTypeOK, TraversalTypeOK, Calling, Last, IsTraversal, Algorithm
    <3>3. First'
      BY <1>1, <1>2, <2>1 DEF First, e
    <3> QED
      BY <3>2, <3>3
  <2>4. Len(waiting') = 1 /\ waiting'[1] = e /\ Len(order') = 0 /\ 1 .. 0 = {} /\ 1 .. 1 = {1}
    BY <1>1, <2>1, <2>2
  <2>5. Cardinality({s}) = 1
    BY FS_Singleton
  <2> QED
    BY <1>1, <2>1, <2>2, <2>3, <2>4, <2>5 DEF Reaching, Sorted, Once
<1> QED
  BY <1>3, <1>4

\* An entry that is reported, or is not.
LEMMA ReachingTakes ==
  ASSUME Reaching, NEW e \in Entry, TakesFirst(e) \/ TakesLast(e)
  PROVE  Reaching'
<1> USE NodeAssumption
<1>1. /\ waiting \in Seq(Entry) /\ order \in Seq(Entry) /\ depth \in Nat
      /\ Len(waiting) \in Nat /\ Len(order) \in Nat /\ visited \subseteq Node /\ net \in Seq(Edge)
      /\ \A k \in 1 .. Len(waiting) : waiting[k] \in Entry
      /\ \A k \in 1 .. Len(order) : order[k] \in Entry
  BY TravTyped DEF Reaching
<1>2. e.node \in Node /\ e.depth \in Nat /\ ~(0 > max_depth /\ max_depth \in Nat)
  BY DEF Entry
<1>3. /\ stage = "search" /\ todo = {} /\ waiting # <<>> /\ waiting' \in Seq(Entry)
      /\ UNCHANGED <<net, algo, stage, source, max_depth, queued>>
      /\ Reports(e) \/ Drops
      /\ visited' \in {visited, visited \cup {e.node}} /\ (algo = "bfs" => visited' = visited)
      /\ IsTraversal
  BY DEF TakesFirst, TakesLast, IsTraversal
<1>4. Len(waiting) >= 1 /\ Len(waiting') = Len(waiting) - 1
  BY DEF TakesFirst, TakesLast, NoFirst, NoLast
<1>5. source \in Node /\ (order = <<>> => waiting = <<[node |-> source, depth |-> 0]>>)
  BY <1>3 DEF Reaching, Calling, First
<1>6. order = <<>> => e = [node |-> source, depth |-> 0] /\ Reports(e)
  <2> SUFFICES ASSUME order = <<>> PROVE e = [node |-> source, depth |-> 0] /\ Reports(e)
    OBVIOUS
  <2>1. Len(waiting) = 1 /\ waiting[1] = [node |-> source, depth |-> 0]
    BY <1>5
  <2>2. e = [node |-> source, depth |-> 0]
    BY <2>1 DEF TakesFirst, TakesLast
  <2>3. algo = "dfs" => visited = {}
    BY <1>3 DEF Reaching, First
  <2>4. ~TooDeep(e)
    BY <2>2, TravTyped DEF Reaching, TooDeep
  <2> QED
    BY <2>2, <2>3, <2>4 DEF TakesFirst, TakesLast
<1>7. Reports(e) => order' \in Seq(Entry) /\ todo' \subseteq DOMAIN net
  BY DEF Reports, Slots
<1>8. TravTypes'
  <2>1. CASE Reports(e)
    BY <1>1, <1>2, <1>3, <1>7, <2>1 DEF Reports, Reaching, TravTypes, CsrTypeOK, TraversalTypeOK
  <2>2. CASE Drops
    BY <1>1, <1>2, <1>3, <2>2 DEF Drops, Reaching, TravTypes, CsrTypeOK, TraversalTypeOK
  <2> QED
    BY <1>3, <2>1, <2>2
<1>9. Calling'
  BY <1>3, <1>5 DEF Calling, IsTraversal
<1>10. First' /\ Last'
  <2>1. CASE Reports(e)
    <3>1. order' # <<>> /\ order' \in Seq(Entry) /\ Len(order') = Len(order) + 1
          /\ order'[Len(order) + 1] = e /\ \A k \in 1 .. Len(order) : order'[k] = order[k]
      BY <2>1 DEF Reports, Longer
    <3>2. order'[1] = [node |-> source, depth |-> 0]
      <4>1. CASE order = <<>>
        BY <1>6, <3>1, <4>1
      <4>2. CASE order # <<>>
        <5>1. Len(order) >= 1 /\ order[1] = [node |-> source, depth |-> 0]
          BY <1>1, <4>2 DEF Reaching, Last
        <5> QED
          BY <1>1, <3>1, <5>1
      <4> QED
        BY <4>1, <4>2
    <3> QED
      BY <1>3, <2>1, <3>1, <3>2 DEF Reports, First, Last, IsTraversal
  <2>2. CASE Drops
    <3>1. order # <<>> \/ Reports(e)
      BY <1>6
    <3> QED
      BY <1>3, <2>1, <2>2, <3>1 DEF Drops, Reaching, First, Last, IsTraversal
  <2> QED
    BY <1>3, <2>1, <2>2
<1>11. Sorted'
  <2>1. CASE TakesFirst(e)
    <3>1. waiting[1] = e /\ algo = "bfs" /\ \A k \in 1 .. Len(waiting') : waiting'[k] = waiting[k + 1]
      BY <2>1 DEF TakesFirst, NoFirst
    <3>2. /\ 1 \in 1 .. Len(waiting)
          /\ \A k \in 1 .. Len(waiting') : k \in Nat /\ k + 1 \in 1 .. Len(waiting) /\ 1 <= k + 1
          /\ \A j, k \in 1 .. Len(waiting') : j <= k => j + 1 <= k + 1
      BY <1>1, <1>4
    <3>3. depth <= e.depth
      BY <3>1, <3>2 DEF Reaching, Sorted
    <3>4. \A j, k \in 1 .. Len(waiting') : j <= k => waiting'[j].depth <= waiting'[k].depth
      BY <3>1, <3>2 DEF Reaching, Sorted
    <3>6. \A k \in 1 .. Len(waiting') :
            /\ waiting'[k].depth \in Nat /\ e.depth <= waiting'[k].depth
            /\ waiting'[k].depth <= depth + 1 /\ depth <= waiting'[k].depth
      <4> SUFFICES ASSUME NEW k \in 1 .. Len(waiting')
                   PROVE  /\ waiting[k + 1].depth \in Nat /\ waiting[1].depth <= waiting[k + 1].depth
                          /\ waiting[k + 1].depth <= depth + 1 /\ depth <= waiting[k + 1].depth
        BY <3>1
      <4>1. waiting[k + 1] \in Entry
        BY <1>1, <3>2
      <4>2. waiting[k + 1].depth \in Nat
        BY <4>1 DEF Entry
      <4> QED
        BY <3>1, <3>2, <4>2 DEF Reaching, Sorted
    <3>5. depth' = e.depth \/ depth' = depth
      BY <1>3 DEF Reports, Drops
    <3>7. \A k \in 1 .. Len(waiting') : waiting'[k].depth <= depth' + 1 /\ depth' <= waiting'[k].depth
      BY <1>1, <1>2, <3>3, <3>5, <3>6
    <3> QED
      BY <3>4, <3>7 DEF Sorted
  <2>2. CASE TakesLast(e)
    <3>1. waiting[Len(waiting)] = e /\ algo = "dfs" /\ \A k \in 1 .. Len(waiting') : waiting'[k] = waiting[k]
      BY <2>2 DEF TakesLast, NoLast
    <3>2. \A k \in 1 .. Len(waiting') :
            /\ k \in 1 .. Len(waiting) /\ waiting'[k] \in Entry
            /\ waiting'[k].depth \in Nat /\ waiting'[k].depth <= e.depth /\ waiting'[k].depth <= depth + 1
      <4> TAKE k \in 1 .. Len(waiting')
      <4>1. k \in 1 .. Len(waiting) /\ Len(waiting) \in 1 .. Len(waiting) /\ k <= Len(waiting)
        BY <1>1, <1>4
      <4>2. waiting'[k] = waiting[k] /\ waiting[k] \in Entry
        BY <1>1, <3>1, <4>1
      <4>3. waiting[k].depth <= waiting[Len(waiting)].depth /\ waiting[k].depth <= depth + 1
        BY <4>1 DEF Reaching, Sorted
      <4> QED
        BY <3>1, <4>1, <4>2, <4>3 DEF Entry
    <3>4. \A j, k \in 1 .. Len(waiting') : j <= k => waiting'[j].depth <= waiting'[k].depth
      BY <1>1, <1>4, <3>1 DEF Reaching, Sorted
    <3>5. depth' = e.depth \/ depth' = depth
      BY <1>3 DEF Reports, Drops
    <3> QED
      BY <1>1, <1>2, <1>3, <3>1, <3>2, <3>4, <3>5 DEF Sorted
  <2> QED
    BY <2>1, <2>2
<1>12. Once'
  <2>1. ASSUME Reports(e), \A j \in 1 .. Len(order) : order[j].node # e.node
        PROVE  \A j, k \in 1 .. Len(order') : order'[j].node = order'[k].node => j = k
    <3>1. Len(order') = Len(order) + 1 /\ order'[Len(order) + 1] = e
          /\ \A k \in 1 .. Len(order) : order'[k] = order[k]
      BY <2>1 DEF Reports, Longer
    <3>2. \A k \in 1 .. Len(order') : k \in 1 .. Len(order) \/ k = Len(order) + 1
      BY <1>1, <3>1
    <3> QED
      BY <2>1, <3>1, <3>2 DEF Reaching, Once
  <2>2. ASSUME Reports(e)
        PROVE  \A j \in 1 .. Len(order') : order'[j] = e \/ \E i \in 1 .. Len(order) : order'[j] = order[i]
    <3>1. Len(order') = Len(order) + 1 /\ order'[Len(order) + 1] = e
          /\ \A k \in 1 .. Len(order) : order'[k] = order[k]
      BY <2>2 DEF Reports, Longer
    <3> QED
      BY <1>1, <3>1
  <2>3. CASE TakesFirst(e)
    <3>1. /\ waiting[1] = e /\ algo = "bfs" /\ \A k \in 1 .. Len(waiting') : waiting'[k] = waiting[k + 1]
          /\ UNCHANGED visited
      BY <2>3 DEF TakesFirst, NoFirst
    <3>2. \A k \in 1 .. Len(waiting') : k + 1 \in 1 .. Len(waiting) /\ k + 1 # 1
      BY <1>1, <1>4
    <3>3. 1 \in 1 .. Len(waiting)
      BY <1>1, <1>4
    <3>4. /\ \A k \in 1 .. Len(waiting') : waiting'[k].node # e.node
          /\ \A j \in 1 .. Len(order) : order[j].node # e.node
          /\ e.node \in visited
      BY <3>1, <3>2, <3>3 DEF Reaching, Once
    <3>5. \A j, k \in 1 .. Len(waiting') : waiting'[j].node = waiting'[k].node => j = k
      <4> SUFFICES ASSUME NEW j \in 1 .. Len(waiting'), NEW k \in 1 .. Len(waiting'),
                          waiting'[j].node = waiting'[k].node
                   PROVE  j = k
        OBVIOUS
      <4>1. waiting[j + 1].node = waiting[k + 1].node /\ j + 1 \in 1 .. Len(waiting) /\ k + 1 \in 1 .. Len(waiting)
        BY <3>1, <3>2
      <4>2. j + 1 = k + 1
        BY <3>1, <4>1 DEF Reaching, Once
      <4> QED
        BY ONLY <4>2, j \in 1 .. Len(waiting'), k \in 1 .. Len(waiting')
    <3>6. \A k \in 1 .. Len(waiting') : /\ waiting'[k].node \in visited
                                        /\ \A j \in 1 .. Len(order) : order[j].node # waiting'[k].node
      <4> TAKE k \in 1 .. Len(waiting')
      <4>1. k + 1 \in 1 .. Len(waiting) /\ waiting'[k] = waiting[k + 1]
        BY <3>1, <3>2
      <4> QED
        BY <3>1, <4>1 DEF Reaching, Once
    <3>7. CASE Reports(e)
      <4>1. \A j, k \in 1 .. Len(order') : order'[j].node = order'[k].node => j = k
        BY <2>1, <3>4, <3>7
      <4>2. \A j \in 1 .. Len(order') : order'[j].node \in visited
        BY <2>2, <3>4, <3>7 DEF Reaching, Once
      <4>3. \A j \in 1 .. Len(order'), k \in 1 .. Len(waiting') : order'[j].node # waiting'[k].node
        BY <2>2, <3>4, <3>6, <3>7
      <4>4. queued' = Cardinality(visited')
        BY <1>3, <3>1 DEF Reaching, Once
      <4> QED
        BY <1>3, <3>1, <3>5, <3>6, <4>1, <4>2, <4>3, <4>4 DEF Once
    <3>8. CASE Drops
      BY <1>3, <3>1, <3>5, <3>6, <3>8 DEF Reaching, Once, Drops
    <3> QED
      BY <1>3, <3>7, <3>8
  <2>4. CASE TakesLast(e)
    <3>1. algo = "dfs" /\ visited \subseteq visited'
      BY <2>4 DEF TakesLast
    <3>2. CASE Reports(e)
      <4>1. e.node \in visited' /\ (Drops \/ e.node \notin visited)
        BY <2>4, <3>2 DEF TakesLast
      <4>2. e.node \notin visited
        <5>1. ~Drops
          <6>1. Len(order') = Len(order) + 1
            BY <3>2 DEF Reports, Longer
          <6> QED
            BY <1>1, <6>1 DEF Drops
        <5> QED
          BY <4>1, <5>1
      <4>3. \A j \in 1 .. Len(order) : order[j].node # e.node
        BY <4>2 DEF Reaching, Once
      <4> QED
        BY <1>3, <2>1, <2>2, <3>1, <3>2, <4>1, <4>3 DEF Reaching, Once
    <3>3. CASE Drops
      BY <1>3, <3>1, <3>3 DEF Reaching, Once, Drops
    <3> QED
      BY <1>3, <3>2, <3>3
  <2> QED
    BY <2>3, <2>4
<1> QED
  BY <1>8, <1>9, <1>10, <1>11, <1>12 DEF Reaching

\* A slot whose target is put in line, or is not.
LEMMA ReachingLooks ==
  ASSUME Reaching, NEW i \in todo, LooksUp(i) \/ LooksDown(i)
  PROVE  Reaching'
<1> USE NodeAssumption
<1> DEFINE v == net[i].tgt
           e == [node |-> v, depth |-> depth + 1]
<1>1. /\ waiting \in Seq(Entry) /\ order \in Seq(Entry) /\ depth \in Nat /\ queued \in Nat
      /\ Len(waiting) \in Nat /\ Len(order) \in Nat /\ visited \subseteq Node
      /\ \A k \in 1 .. Len(waiting) : waiting[k] \in Entry
  BY TravTyped DEF Reaching
<1>2. /\ IsTraversal /\ v \in Node /\ todo' = todo \ {i}
      /\ UNCHANGED <<net, algo, stage, source, cur, max_depth, depth, order>>
  BY DEF LooksUp, LooksDown, Looks
<1>3. stage = "search" /\ order # <<>>
  BY DEF Reaching, Calling, First
<1>4. \/ UNCHANGED <<waiting, visited, queued>>
      \/ /\ v \notin visited /\ waiting' \in Seq(Entry) /\ Longer(waiting', waiting, e)
         /\ \/ algo = "bfs" /\ visited' = visited \cup {v} /\ queued' = queued + 1
            \/ algo = "dfs" /\ UNCHANGED <<visited, queued>>
  BY DEF LooksUp, LooksDown, Pushes
<1>5. e \in Entry /\ e.node = v /\ e.depth = depth + 1
  BY <1>1, <1>2 DEF Entry
<1> HIDE DEF e, v
<1>6. TravTypes'
  <2>1a. visited' \in {visited, visited \cup {v}} /\ queued' \in {queued, queued + 1}
         /\ (waiting' = waiting \/ waiting' \in Seq(Entry))
    BY <1>4
  <2>1. visited' \subseteq Node /\ queued' \in Nat /\ waiting' \in Seq(Entry)
    BY <1>1, <1>2, <2>1a
  <2>2. todo' \subseteq DOMAIN net
    BY <1>2 DEF Reaching, TravTypes, CsrTypeOK
  <2> QED
    BY <1>1, <1>2, <2>1, <2>2 DEF Reaching, TravTypes, CsrTypeOK, TraversalTypeOK
<1>7. Calling' /\ First' /\ Last'
  BY <1>2, <1>3 DEF Reaching, Calling, First, Last, IsTraversal
<1>8. CASE UNCHANGED <<waiting, visited, queued>>
  BY <1>2, <1>6, <1>7, <1>8 DEF Reaching, Sorted, Once
<1>9. CASE Longer(waiting', waiting, e) /\ v \notin visited
  <2>1. /\ Len(waiting') = Len(waiting) + 1 /\ waiting'[Len(waiting) + 1] = e
        /\ \A k \in 1 .. Len(waiting) : waiting'[k] = waiting[k]
    BY <1>9 DEF Longer
  <2>2. \A k \in 1 .. Len(waiting') : k \in 1 .. Len(waiting) \/ k = Len(waiting) + 1
    BY <1>1, <2>1
  <2>3. \A k \in 1 .. Len(waiting) : waiting[k].depth \in Nat
    BY <1>1 DEF Entry
  <2>4. Sorted'
    <3>1. \A k \in 1 .. Len(waiting') : waiting'[k].depth <= depth' + 1
      BY <1>1, <1>2, <1>5, <2>1, <2>2 DEF Reaching, Sorted
    <3>2. \A j, k \in 1 .. Len(waiting') : j <= k => waiting'[j].depth <= waiting'[k].depth
      <4> SUFFICES ASSUME NEW j \in 1 .. Len(waiting'), NEW k \in 1 .. Len(waiting'), j <= k
                   PROVE  waiting'[j].depth <= waiting'[k].depth
        OBVIOUS
      <4>1. CASE k \in 1 .. Len(waiting)
        <5>1. j \in 1 .. Len(waiting)
          BY <1>1, <4>1
        <5> QED
          BY <2>1, <4>1, <5>1 DEF Reaching, Sorted
      <4>2. CASE k = Len(waiting) + 1
        BY <1>2, <1>5, <2>1, <3>1, <4>2
      <4> QED
        BY <2>2, <4>1, <4>2
    <3>3. algo' = "bfs" => \A k \in 1 .. Len(waiting') : depth' <= waiting'[k].depth
      BY <1>1, <1>2, <1>5, <2>1, <2>2 DEF Reaching, Sorted
    <3> QED
      BY <3>1, <3>2, <3>3 DEF Sorted
  <2>5. Once'
    <3>1. CASE algo = "bfs" /\ visited' = visited \cup {v} /\ queued' = queued + 1
      <4>1. IsFiniteSet(visited)
        BY <1>1, FS_Subset
      <4>2. Cardinality(visited') = Cardinality(visited) + 1
        BY <1>9, <3>1, <4>1, FS_AddElement
      <4>3. \A j, k \in 1 .. Len(waiting') : waiting'[j].node = waiting'[k].node => j = k
        BY <1>5, <1>9, <2>1, <2>2, <3>1 DEF Reaching, Once
      <4>4. \A j \in 1 .. Len(order), k \in 1 .. Len(waiting') : order[j].node # waiting'[k].node
        BY <1>5, <1>9, <2>1, <2>2, <3>1 DEF Reaching, Once
      <4>5. \A k \in 1 .. Len(waiting') : waiting'[k].node \in visited'
        BY <1>5, <2>1, <2>2, <3>1 DEF Reaching, Once
      <4> QED
        BY <1>2, <3>1, <4>2, <4>3, <4>4, <4>5 DEF Reaching, Once
    <3>2. CASE algo = "dfs" /\ UNCHANGED <<visited, queued>>
      BY <1>2, <3>2 DEF Reaching, Once
    <3> QED
      BY <1>4, <2>1, <3>1, <3>2, <1>1
  <2> QED
    BY <1>6, <1>7, <2>4, <2>5 DEF Reaching
<1> QED
  BY <1>4, <1>8, <1>9

\* Every step of bfs and dfs keeps what is known of them.
LEMMA ReachingStep == Reaching /\ [TraversalNext]_traversalVars => Reaching'
<1> SUFFICES ASSUME Reaching, [TraversalNext]_traversalVars PROVE Reaching'
  OBVIOUS
<1>1. CASE TraversalEnds
  <2>1. /\ stage' = "done" /\ stage = "search" /\ todo = {} /\ waiting = <<>>
        /\ UNCHANGED <<net, algo, source, visited, cur, todo, max_depth, waiting, queued, depth, order>>
    BY <1>1 DEF TraversalEnds, travVars
  <2>2. TravTypes'
    BY <2>1 DEF Reaching, TravTypes, CsrTypeOK, TraversalTypeOK
  <2>3. order # <<>>
    BY <2>1 DEF Reaching, First
  <2>4. Calling' /\ First' /\ Last'
    BY <2>1, <2>3 DEF Reaching, Calling, First, Last, IsTraversal
  <2> QED
    BY <2>1, <2>2, <2>4 DEF Reaching, Sorted, Once
<1>2. CASE TraversalReturn
  <2>1. CsrIdle' /\ TraversalIdle'
    BY <1>2 DEF TraversalReturn, CsrReset, CsrIdle, TraversalIdle
  <2>2. (CsrIdle /\ TraversalIdle => Reaching)'
    BY ReachingIdle, PTL
  <2> QED
    BY <2>1, <2>2
<1>3. CASE UNCHANGED traversalVars
  BY <1>3 DEF traversalVars, csrVars, travVars, Reaching, TravTypes, CsrTypeOK, TraversalTypeOK,
              Calling, First, Last, Sorted, Once, IsTraversal
<1> QED
  BY <1>1, <1>2, <1>3, TraversalSteps, ReachingBegins, ReachingTakes, ReachingLooks DEF Reaching

\* OrderFits: order[] and depths[] are never written beyond their ends.
LEMMA ReachingFits == Reaching => OrderFits
<1> SUFFICES ASSUME Reaching PROVE OrderFits
  OBVIOUS
<1>1. visited \subseteq Node /\ DOMAIN order = 1 .. Len(order) /\ queued \in Nat
  BY TravTyped DEF Reaching
<1>2. Cardinality(visited) <= Cardinality(Node) /\ Cardinality(Node) \in Nat
  BY <1>1, NodeAssumption, FS_Subset, FS_CardinalityType
<1>3. 1 <= Cardinality(Node)
  <2>1. Cardinality(Node) # 0
    BY NodeAssumption, FS_EmptySet
  <2> QED
    BY <1>2, <2>1
<1> QED
  BY <1>1, <1>2, <1>3 DEF Reaching, Once, OrderFits

-----------------------------------------------------------------------------
(* What bfs and dfs reach.                                                 *)

Shown == {order[k] : k \in 1 .. Len(order)}
Lined == {waiting[k] : k \in 1 .. Len(waiting)}
TooFar(d) == max_depth # None /\ d > max_depth

\* A set that the source is in and no edge leaves has every node that is
\* reported or waits ...
Led == \A x \in Shown \cup Lined : x.node \in ReachableFrom(net, source)

\* ... and unless it is too far away, what is behind an edge of a node that was
\* reported is reported or waits, but for the edges still to do.  With a depth
\* that only goes for bfs: dfs does not come back to a node it found too deep.
Handled ==
  algo = "bfs" \/ max_depth = None =>
    /\ \A v \in visited : \/ \E y \in Shown : y.node = v
                          \/ algo = "bfs" /\ \E y \in Lined : y.node = v
                          \/ TooFar(depth + 1)
    /\ \A x \in Shown, i \in DOMAIN net :
         net[i].src = x.node /\ i \notin todo =>
           \/ \E y \in Shown \cup Lined : y.node = net[i].tgt /\ (algo = "bfs" => y.depth <= x.depth + 1)
           \/ TooFar(x.depth + 1)

\* What bfs reported is not below the node at hand, and not too deep.
Levels == \A x \in Shown : ~TooDeep(x) /\ (algo = "bfs" => x.depth <= depth)

\* Sets that take in, level by level, what is behind the edges of the level
\* before: the nodes bfs reports at a depth are in the set of every level from
\* that on.
IsLadder(b) ==
  /\ \A n \in Nat : source \in b[n]
  /\ \A n \in Nat, i \in DOMAIN net : net[i].src \in b[n] => net[i].tgt \in b[n + 1]
Near ==
  \A b \in [Nat -> SUBSET Node] : IsLadder(b) =>
    \A x \in Shown \cup Lined, n \in Nat : x.depth <= n => x.node \in b[n]

Visiting == Reaching /\ Led /\ Handled /\ Levels /\ Near

\* The sets of entries, and what is known of their members.
LEMMA EntriesAre ==
  ASSUME Reaching
  PROVE  /\ \A x \in Shown \cup Lined : x \in Entry /\ x.node \in Node /\ x.depth \in Nat
         /\ \A x \in Lined : x.depth <= depth + 1 /\ (algo = "bfs" => depth <= x.depth)
         /\ \A x, y \in Shown : x.node = y.node => x = y
         /\ \A x \in Shown : x.node \in visited
         /\ \A i \in DOMAIN net : net[i].src \in Node /\ net[i].tgt \in Node
         /\ depth \in Nat /\ max_depth \in Nat \cup {None} /\ None \notin Nat
<1>1. /\ depth \in Nat /\ max_depth \in Nat \cup {None} /\ net \in Seq(Edge)
      /\ \A k \in 1 .. Len(waiting) : waiting[k] \in Entry
      /\ \A k \in 1 .. Len(order) : order[k] \in Entry
  BY TravTyped DEF Reaching
<1>2. \A x \in Shown \cup Lined : x \in Entry /\ x.node \in Node /\ x.depth \in Nat
  BY <1>1 DEF Shown, Lined, Entry
<1>3. \A x \in Lined : x.depth <= depth + 1 /\ (algo = "bfs" => depth <= x.depth)
  BY DEF Reaching, Sorted, Lined
<1>4. \A x, y \in Shown : x.node = y.node => x = y
  BY DEF Reaching, Once, Shown
<1>5. \A x \in Shown : x.node \in visited
  BY DEF Reaching, Once, Shown
<1>6. \A i \in DOMAIN net : net[i].src \in Node /\ net[i].tgt \in Node
  BY EdgeOf DEF Reaching, TravTypes
<1> QED
  BY <1>1, <1>2, <1>3, <1>4, <1>5, <1>6, NodeAssumption

\* The node at hand is the one that was reported last.
LEMMA CurShown ==
  ASSUME Reaching, order # <<>>
  PROVE  [node |-> cur, depth |-> depth] \in Shown
<1>1. order \in Seq(Entry) /\ Len(order) \in 1 .. Len(order) /\ order[Len(order)] \in Entry
  BY TravTyped DEF Reaching
<1>2. order[Len(order)].node = cur /\ order[Len(order)].depth = depth
  BY DEF Reaching, Last
<1>3. order[Len(order)] = [node |-> cur, depth |-> depth]
  BY <1>1, <1>2 DEF Entry
<1> QED
  BY <1>1, <1>3 DEF Shown

\* An entry that is reported joins those that were.
LEMMA ShownGrows ==
  ASSUME Reaching, NEW e \in Entry, Reports(e)
  PROVE  Shown' = Shown \cup {e}
<1>1. Len(order) \in Nat /\ Len(order') = Len(order) + 1 /\ order'[Len(order) + 1] = e
      /\ \A k \in 1 .. Len(order) : order'[k] = order[k]
  BY TravTyped DEF Reaching, Reports, Longer
<1>2. \A x \in Shown' : x \in Shown \cup {e}
  <2> SUFFICES ASSUME NEW k \in 1 .. Len(order') PROVE order'[k] \in Shown \cup {e}
    BY DEF Shown
  <2>1. k \in 1 .. Len(order) \/ k = Len(order) + 1
    BY <1>1
  <2> QED
    BY <1>1, <2>1 DEF Shown
<1>3. e \in Shown'
  <2>1. Len(order) + 1 \in 1 .. Len(order')
    BY <1>1
  <2> QED
    BY <1>1, <2>1 DEF Shown
<1>4. \A x \in Shown : x \in Shown'
  <2> SUFFICES ASSUME NEW k \in 1 .. Len(order) PROVE order[k] \in Shown'
    BY DEF Shown
  <2>1. k \in 1 .. Len(order')
    BY <1>1
  <2> QED
    BY <1>1, <2>1 DEF Shown
<1> QED
  BY <1>2, <1>3, <1>4

\* An entry that is put in line.
LEMMA LinedGrows ==
  ASSUME Reaching, NEW v \in Node, Pushes(v)
  PROVE  Lined' = Lined \cup {[node |-> v, depth |-> depth + 1]}
<1> DEFINE e == [node |-> v, depth |-> depth + 1]
<1>1. Len(waiting) \in Nat /\ Len(waiting') = Len(waiting) + 1 /\ waiting'[Len(waiting) + 1] = e
      /\ \A k \in 1 .. Len(waiting) : waiting'[k] = waiting[k]
  BY TravTyped DEF Reaching, Pushes, Longer
<1> HIDE DEF e
<1>2. \A x \in Lined' : x \in Lined \cup {e}
  <2> SUFFICES ASSUME NEW k \in 1 .. Len(waiting') PROVE waiting'[k] \in Lined \cup {e}
    BY DEF Lined
  <2>1. k \in 1 .. Len(waiting) \/ k = Len(waiting) + 1
    BY <1>1
  <2> QED
    BY <1>1, <2>1 DEF Lined
<1>3. e \in Lined'
  <2>1. Len(waiting) + 1 \in 1 .. Len(waiting')
    BY <1>1
  <2> QED
    BY <1>1, <2>1 DEF Lined
<1>4. \A x \in Lined : x \in Lined'
  <2> SUFFICES ASSUME NEW k \in 1 .. Len(waiting) PROVE waiting[k] \in Lined'
    BY DEF Lined
  <2>1. k \in 1 .. Len(waiting')
    BY <1>1
  <2> QED
    BY <1>1, <2>1 DEF Lined
<1>5. Lined' = Lined \cup {e}
  BY <1>2, <1>3, <1>4
<1> QED
  BY <1>5, Zenon DEF e

\* An entry that is taken was in line, and nothing else leaves it.
LEMMA LinedShrinks ==
  ASSUME Reaching, NEW e \in Entry, TakesFirst(e) \/ TakesLast(e)
  PROVE  Lined = Lined' \cup {e}
<1>1. Len(waiting) \in Nat /\ Len(waiting) >= 1 /\ Len(waiting') = Len(waiting) - 1
  <2>1. Len(waiting) \in Nat /\ waiting \in Seq(Entry) /\ waiting # <<>>
    BY TravTyped DEF Reaching, TakesFirst, TakesLast
  <2>2. Len(waiting') = Len(waiting) - 1
    BY DEF TakesFirst, TakesLast, NoFirst, NoLast
  <2> QED
    BY ONLY <2>1, <2>2
<1>2. CASE TakesFirst(e)
  <2>1. waiting[1] = e /\ \A k \in 1 .. Len(waiting') : waiting'[k] = waiting[k + 1]
    BY <1>2 DEF TakesFirst, NoFirst
  <2>2. \A x \in Lined : x \in Lined' \cup {e}
    <3> SUFFICES ASSUME NEW k \in 1 .. Len(waiting), k # 1 PROVE waiting[k] \in Lined'
      BY <2>1 DEF Lined
    <3>1. k - 1 \in 1 .. Len(waiting') /\ (k - 1) + 1 = k
      BY <1>1
    <3>2. waiting'[k - 1] = waiting[k]
      BY <2>1, <3>1
    <3> QED
      BY <3>1, <3>2 DEF Lined
  <2>3. e \in Lined
    <3>1. 1 \in 1 .. Len(waiting)
      BY <1>1
    <3> QED
      BY <2>1, <3>1 DEF Lined
  <2>4. \A x \in Lined' : x \in Lined
    <3> SUFFICES ASSUME NEW k \in 1 .. Len(waiting') PROVE waiting'[k] \in Lined
      BY DEF Lined
    <3>1. k + 1 \in 1 .. Len(waiting)
      BY <1>1
    <3> QED
      BY <2>1, <3>1 DEF Lined
  <2> QED
    BY <2>2, <2>3, <2>4
<1>3. CASE TakesLast(e)
  <2>1. waiting[Len(waiting)] = e /\ \A k \in 1 .. Len(waiting') : waiting'[k] = waiting[k]
    BY <1>3 DEF TakesLast, NoLast
  <2>2. \A x \in Lined : x \in Lined' \cup {e}
    <3> SUFFICES ASSUME NEW k \in 1 .. Len(waiting), k # Len(waiting) PROVE waiting[k] \in Lined'
      BY <2>1 DEF Lined
    <3>1. k \in 1 .. Len(waiting')
      BY <1>1
    <3> QED
      BY <2>1, <3>1 DEF Lined
  <2>3. e \in Lined
    <3>1. Len(waiting) \in 1 .. Len(waiting)
      BY <1>1
    <3> QED
      BY <2>1, <3>1 DEF Lined
  <2>4. \A x \in Lined' : x \in Lined
    <3> SUFFICES ASSUME NEW k \in 1 .. Len(waiting') PROVE waiting'[k] \in Lined
      BY DEF Lined
    <3>1. k \in 1 .. Len(waiting)
      BY <1>1
    <3> QED
      BY <2>1, <3>1 DEF Lined
  <2> QED
    BY <2>2, <2>3, <2>4
<1> QED
  BY ONLY <1>2, <1>3, TakesFirst(e) \/ TakesLast(e), Zenon

\* At rest nothing is known of what is reached.
LEMMA VisitingIdle == CsrIdle /\ TraversalIdle => Visiting
<1> SUFFICES ASSUME CsrIdle, TraversalIdle PROVE Visiting
  OBVIOUS
<1>1. Shown = {} /\ Lined = {} /\ visited = {}
  <2>1. Len(order) = 0 /\ Len(waiting) = 0 /\ 1 .. 0 = {}
    BY DEF TraversalIdle
  <2> QED
    BY <2>1 DEF Shown, Lined, CsrIdle
<1> QED
  BY <1>1, ReachingIdle DEF Visiting, Led, Handled, Levels, Near

\* A call that begins has its source in line.
LEMMA VisitingBegins ==
  ASSUME Visiting, NEW s \in Starts, Begins(s)
  PROVE  Visiting'
<1>1. Reaching' /\ algo = "none" /\ visited = {} /\ order' = <<>> /\ waiting = <<>> /\ source' = s
  BY ReachingBegins DEF Visiting, Reaching, Calling, Begins
<1>2. Shown' = {}
  <2>1. Len(order') = 0 /\ 1 .. 0 = {}
    BY <1>1
  <2> QED
    BY <2>1 DEF Shown
<1>3. Lined' \subseteq {[node |-> s, depth |-> 0]} /\ (Lined' # {} => s \in Node)
      /\ \A v \in visited' : \E y \in Lined' : y.node = v /\ algo' = "bfs"
  <2>1. CASE s = None
    <3>1. waiting' = <<>> /\ visited' = {}
      BY <1>1, <2>1, NodeAssumption DEF Begins
    <3>2. Len(waiting') = 0 /\ 1 .. 0 = {}
      BY <3>1
    <3> QED
      BY <3>1, <3>2 DEF Lined
  <2>2. CASE s # None
    <3> DEFINE e == [node |-> s, depth |-> 0]
    <3>1. s \in Node /\ waiting' = <<e>> /\ visited' = IF algo' = "bfs" THEN {s} ELSE {}
      BY <2>2 DEF Begins
    <3>2. Len(waiting') = 1 /\ waiting'[1] = e /\ 1 .. 1 = {1}
      BY <3>1
    <3>3. Lined' = {e} /\ e.node = s
      BY <3>2 DEF Lined
    <3> QED
      BY <3>1, <3>3
  <2> QED
    BY <2>1, <2>2
<1>4. Led'
  <2>1. s \in Node => s \in ReachableFrom(net', s)
    BY DEF ReachableFrom
  <2> QED
    BY <1>1, <1>2, <1>3, <2>1 DEF Led
<1>5. Handled'
  BY <1>2, <1>3 DEF Handled
<1>6. Levels'
  BY <1>2 DEF Levels
<1>7. Near'
  BY <1>1, <1>2, <1>3 DEF Near, IsLadder
<1> QED
  BY <1>1, <1>4, <1>5, <1>6, <1>7 DEF Visiting

\* An entry that is reported, or is not.
LEMMA VisitingTakes ==
  ASSUME Visiting, NEW e \in Entry, TakesFirst(e) \/ TakesLast(e)
  PROVE  Visiting'
<1> USE EntriesAre
<1>1. Reaching /\ Reaching'
  BY ReachingTakes DEF Visiting
<1>2. /\ UNCHANGED <<net, algo, source, max_depth>> /\ todo = {}
      /\ visited \subseteq visited' /\ visited' \subseteq visited \cup {e.node}
  BY DEF TakesFirst, TakesLast
<1>3. Lined = Lined' \cup {e}
  BY <1>1, LinedShrinks
<1>4. \/ Reports(e) /\ Shown' = Shown \cup {e} /\ ~TooDeep(e) /\ depth' = e.depth
      \/ /\ Drops /\ Shown' = Shown /\ depth' = depth
         /\ \/ TooDeep(e)
            \/ algo = "dfs" /\ e.node \in visited /\ visited' = visited
  <2>1. Drops => Shown' = Shown /\ depth' = depth
    BY DEF Drops, Shown
  <2>2. Reports(e) => ~TooDeep(e) /\ depth' = e.depth
    BY DEF Reports
  <2> QED
    BY <1>1, <2>1, <2>2, ShownGrows DEF TakesFirst, TakesLast
<1>5. e \in Lined /\ Shown \subseteq Shown' /\ Lined' \subseteq Lined /\ Shown' \subseteq Shown \cup {e}
  BY <1>3, <1>4
<1>6. Led' /\ Near'
  <2>1. ReachableFrom(net', source') = ReachableFrom(net, source) /\ \A b : IsLadder(b)' <=> IsLadder(b)
    BY <1>2 DEF IsLadder
  <2>2. Led'
    BY <1>5, <2>1 DEF Visiting, Led
  <2>3. Near'
    BY <1>2, <1>5 DEF Visiting, Near, IsLadder
  <2> QED
    BY <2>2, <2>3
<1>7. Levels'
  BY <1>1, <1>2, <1>4, <1>5 DEF Visiting, Levels, TooDeep
<1>8. Handled'
  <2> SUFFICES ASSUME algo = "bfs" \/ max_depth = None PROVE Handled'
    BY <1>2 DEF Handled
  <2>1. \A d : TooFar(d)' <=> TooFar(d)
    BY <1>2 DEF TooFar
  <2>2. TooDeep(e) <=> TooFar(e.depth)
    BY DEF TooDeep, TooFar
  <2>3. ASSUME NEW v \in visited'
        PROVE  \/ \E y \in Shown' : y.node = v
               \/ algo = "bfs" /\ \E y \in Lined' : y.node = v
               \/ TooFar(depth' + 1)
    <3>1. CASE Reports(e) /\ Shown' = Shown \cup {e} /\ depth' = e.depth
      <4>1. TooFar(depth + 1) => algo = "bfs" /\ TooFar(depth' + 1)
        <5> SUFFICES ASSUME TooFar(depth + 1) PROVE algo = "bfs" /\ TooFar(depth' + 1)
          OBVIOUS
        <5>1. algo = "bfs" /\ max_depth \in Nat /\ depth + 1 > max_depth
          BY <1>1 DEF TooFar
        <5>2. depth <= e.depth /\ e.depth \in Nat /\ depth \in Nat
          BY <1>1, <1>5, <5>1
        <5> QED
          BY <1>2, <3>1, <5>1, <5>2 DEF TooFar
      <4>2. CASE v = e.node
        BY <3>1, <4>2
      <4>3. CASE v \in visited
        BY <1>3, <3>1, <4>1, <4>3 DEF Visiting, Handled
      <4> QED
        BY <1>2, <4>2, <4>3
    <3>2. CASE TooDeep(e) /\ depth' = depth
      <4>1. e.depth <= depth + 1 /\ e.depth \in Nat /\ depth \in Nat
        BY <1>1, <1>5
      <4>2. max_depth \in Nat /\ e.depth > max_depth
        BY <1>1, <3>2 DEF TooDeep
      <4> QED
        BY <1>1, <1>2, <3>2, <4>1, <4>2 DEF TooFar
    <3>3. CASE algo = "dfs" /\ e.node \in visited /\ visited' = visited /\ Shown' = Shown
      BY <3>3 DEF Visiting, Handled, TooFar
    <3> QED
      BY <1>4, <3>1, <3>2, <3>3
  <2>4. ASSUME NEW x \in Shown', NEW i \in DOMAIN net, net[i].src = x.node, i \notin todo'
        PROVE  \/ \E y \in Shown' \cup Lined' :
                    y.node = net[i].tgt /\ (algo = "bfs" => y.depth <= x.depth + 1)
               \/ TooFar(x.depth + 1)
    <3>1. CASE x \notin Shown
      <4>1. x = e /\ Reports(e)
        BY <1>4, <1>5, <3>1
      <4>2. todo' = Slots(net, e.node)
        BY <4>1 DEF Reports
      <4> QED
        BY <2>4, <4>1, <4>2 DEF Slots
    <3>2. CASE x \in Shown
      <4>1. \/ \E y \in Shown \cup Lined : y.node = net[i].tgt /\ (algo = "bfs" => y.depth <= x.depth + 1)
            \/ TooFar(x.depth + 1)
        BY <1>2, <2>4, <3>2 DEF Visiting, Handled
      <4>2. ASSUME NEW y \in Shown \cup Lined, y.node = net[i].tgt, algo = "bfs" => y.depth <= x.depth + 1
            PROVE  \/ \E z \in Shown' \cup Lined' :
                        z.node = net[i].tgt /\ (algo = "bfs" => z.depth <= x.depth + 1)
                   \/ TooFar(x.depth + 1)
        <5>1. CASE y \in Shown' \cup Lined'
          BY <4>2, <5>1
        <5>2. CASE y \notin Shown' \cup Lined'
          <6>1. y = e /\ e \notin Shown'
            BY <1>3, <1>5, <4>2, <5>2
          <6>2. CASE TooDeep(e)
            <7>1. max_depth \in Nat /\ e.depth > max_depth /\ algo = "bfs"
              BY <1>1, <6>2 DEF TooDeep
            <7>2. e.depth <= x.depth + 1 /\ e.depth \in Nat /\ x.depth \in Nat
              BY <1>1, <1>5, <3>2, <4>2, <6>1, <7>1
            <7> QED
              BY <1>1, <7>1, <7>2 DEF TooFar
          <6>3. CASE algo = "dfs" /\ e.node \in visited
            <7>1. \E z \in Shown : z.node = e.node
              BY <6>3 DEF Visiting, Handled, TooFar
            <7> QED
              BY <1>5, <4>2, <6>1, <6>3, <7>1
          <6> QED
            BY <1>4, <6>1, <6>2, <6>3
        <5> QED
          BY <5>1, <5>2
      <4> QED
        BY <4>1, <4>2
    <3> QED
      BY <3>1, <3>2
  <2> QED
    BY <1>2, <2>1, <2>3, <2>4 DEF Handled
<1> QED
  BY <1>1, <1>6, <1>7, <1>8 DEF Visiting

\* A slot whose target is put in line, or is not.
LEMMA VisitingLooks ==
  ASSUME Visiting, NEW i \in todo, LooksUp(i) \/ LooksDown(i)
  PROVE  Visiting'
<1> USE EntriesAre
<1> DEFINE v == net[i].tgt
           c == [node |-> cur, depth |-> depth]
           e == [node |-> v, depth |-> depth + 1]
<1>1. Reaching /\ Reaching'
  BY ReachingLooks DEF Visiting
<1>2. /\ UNCHANGED <<net, algo, source, max_depth, depth, order>> /\ todo' = todo \ {i} /\ i \in DOMAIN net
      /\ v \in Node
  BY DEF LooksUp, LooksDown, Looks
<1>3. Shown' = Shown
  BY <1>2 DEF Shown
<1>4. c \in Shown /\ net[i].src = cur
  <2>1. order # <<>>
    BY <1>1 DEF Reaching, First
  <2> QED
    BY <1>1, <2>1, CurShown DEF Reaching, Last, Slots
<1>5. \/ v \in visited /\ UNCHANGED visited /\ Lined' = Lined
      \/ /\ v \notin visited /\ Lined' = Lined \cup {e}
         /\ visited' \in {visited, visited \cup {v}} /\ (algo # "bfs" => visited' = visited)
  <2>1. \/ v \in visited /\ UNCHANGED <<visited, waiting>>
        \/ /\ v \notin visited /\ Pushes(v)
           /\ visited' \in {visited, visited \cup {v}} /\ (algo # "bfs" => visited' = visited)
    BY DEF LooksUp, LooksDown
  <2> QED
    BY <1>1, <1>2, <2>1, LinedGrows DEF Lined
<1>6. c.node = cur /\ c.depth = depth /\ e.node = v /\ e.depth = depth + 1
  OBVIOUS
<1> HIDE DEF c, e, v
<1>7. Led'
  <2>1. cur \in ReachableFrom(net, source)
    BY <1>4, <1>6 DEF Visiting, Led
  <2>2. v \in ReachableFrom(net, source)
    BY <1>2, <1>4, <2>1, ReachableNext DEF v
  <2>3. ReachableFrom(net', source') = ReachableFrom(net, source)
    BY <1>2
  <2> QED
    BY <1>3, <1>5, <1>6, <2>2, <2>3 DEF Visiting, Led
<1>8. Levels'
  BY <1>2, <1>3 DEF Visiting, Levels, TooDeep
<1>9. Near'
  <2> SUFFICES ASSUME NEW b \in [Nat -> SUBSET Node], IsLadder(b),
                      NEW x \in Shown' \cup Lined', NEW n \in Nat, x.depth <= n
               PROVE  x.node \in b[n]
    BY <1>2 DEF Near, IsLadder
  <2>1. CASE x \in Shown \cup Lined
    BY <2>1 DEF Visiting, Near
  <2>2. CASE x = e
    <3>1. n - 1 \in Nat /\ depth <= n - 1 /\ (n - 1) + 1 = n
      BY <1>1, <1>6, <2>2
    <3>2. cur \in b[n - 1]
      BY <1>4, <1>6, <3>1 DEF Visiting, Near
    <3>3. v \in b[(n - 1) + 1]
      BY <1>2, <1>4, <3>1, <3>2 DEF IsLadder, v
    <3> QED
      BY <1>6, <2>2, <3>1, <3>3
  <2> QED
    BY <1>3, <1>5, <2>1, <2>2
<1>10. Handled'
  <2> SUFFICES ASSUME algo = "bfs" \/ max_depth = None PROVE Handled'
    BY <1>2 DEF Handled
  <2>1. \A d : TooFar(d)' <=> TooFar(d)
    BY <1>2 DEF TooFar
  <2>2. ASSUME NEW u \in visited'
        PROVE  \/ \E y \in Shown' : y.node = u
               \/ algo = "bfs" /\ \E y \in Lined' : y.node = u
               \/ TooFar(depth + 1)
    <3>1. CASE u \in visited
      BY <1>3, <1>5, <3>1 DEF Visiting, Handled
    <3>2. CASE u \notin visited
      BY <1>5, <1>6, <3>2
    <3> QED
      BY <3>1, <3>2
  <2>3. ASSUME NEW x \in Shown, NEW k \in DOMAIN net, net[k].src = x.node, k \notin todo'
        PROVE  \/ \E y \in Shown \cup Lined' :
                    y.node = net[k].tgt /\ (algo = "bfs" => y.depth <= x.depth + 1)
               \/ TooFar(x.depth + 1)
    <3>1. CASE k # i
      BY <1>2, <1>5, <2>3, <3>1 DEF Visiting, Handled
    <3>2. CASE k = i
      <4>1. x = c
        BY <1>1, <1>4, <1>6, <2>3, <3>2
      <4>2. CASE v \notin visited
        BY <1>1, <1>5, <1>6, <3>2, <4>1, <4>2 DEF v
      <4>3. CASE v \in visited
        <5>1. \/ \E y \in Shown : y.node = v
              \/ algo = "bfs" /\ \E y \in Lined : y.node = v
              \/ TooFar(depth + 1)
          BY <4>3 DEF Visiting, Handled
        <5>2. \A y \in Shown \cup Lined : algo = "bfs" => y.depth <= depth + 1
          BY <1>1 DEF Visiting, Levels
        <5> QED
          BY <1>5, <1>6, <3>2, <4>1, <4>3, <5>1, <5>2 DEF v
      <4> QED
        BY <4>2, <4>3
    <3> QED
      BY <3>1, <3>2
  <2> QED
    BY <1>2, <1>3, <2>1, <2>2, <2>3 DEF Handled
<1> QED
  BY <1>1, <1>7, <1>8, <1>9, <1>10 DEF Visiting

\* Every step of bfs and dfs keeps what is known of what they reach.
LEMMA VisitingStep == Visiting /\ [TraversalNext]_traversalVars => Visiting'
<1> SUFFICES ASSUME Visiting, [TraversalNext]_traversalVars PROVE Visiting'
  OBVIOUS
<1>1. CASE UNCHANGED <<net, algo, source, visited, cur, todo, max_depth, waiting, queued, depth, order>>
  BY <1>1, ReachingStep DEF Visiting, Led, Handled, Levels, Near, IsLadder, Shown, Lined, TooDeep, TooFar
<1>2. CASE TraversalReturn
  <2>1. CsrIdle' /\ TraversalIdle'
    BY <1>2 DEF TraversalReturn, CsrReset, CsrIdle, TraversalIdle
  <2>2. (CsrIdle /\ TraversalIdle => Visiting)'
    BY VisitingIdle, PTL
  <2> QED
    BY <2>1, <2>2
<1>3. CASE TraversalEnds \/ UNCHANGED traversalVars
  BY <1>1, <1>3 DEF TraversalEnds, traversalVars, csrVars, travVars
<1> QED
  BY <1>2, <1>3, TraversalSteps, VisitingBegins, VisitingTakes, VisitingLooks DEF Visiting, Reaching

\* ReportsReachable: without a depth bfs and dfs report what can be reached.
LEMMA VisitingReports == Visiting => ReportsReachable
<1> SUFFICES ASSUME Visiting, TraversalDone, max_depth = None PROVE Reported = ReachableFrom(net, source)
  BY DEF ReportsReachable
<1> USE EntriesAre
<1>1. /\ stage = "done" /\ source # None /\ algo # "none" /\ Reaching /\ source \in Node
      /\ todo = {} /\ waiting = <<>> /\ order # <<>>
  BY TravTyped DEF TraversalDone, Visiting, Reaching, Calling, IsTraversal
<1>2. Len(order) \in Nat /\ DOMAIN order = 1 .. Len(order) /\ order \in Seq(Entry)
  BY <1>1, TravTyped DEF Reaching
<1>3. Reported = {x.node : x \in Shown}
  BY <1>2 DEF Reported, Shown
<1>4. Lined = {}
  <2>1. Len(waiting) = 0 /\ 1 .. 0 = {}
    BY <1>1
  <2> QED
    BY <2>1 DEF Lined
<1>5. source \in Reported /\ Reported \in SUBSET Node
  <2>1. 1 \in 1 .. Len(order) /\ order[1].node = source
    BY <1>1, <1>2 DEF Reaching, Last
  <2>2. order[1] \in Shown
    BY <2>1 DEF Shown
  <2> QED
    BY <1>1, <1>3, <2>1, <2>2
<1>6. IsClosed(net, Reported)
  <2> SUFFICES ASSUME NEW i \in DOMAIN net, net[i].src \in Reported PROVE net[i].tgt \in Reported
    BY DEF IsClosed
  <2>1. PICK x \in Shown : net[i].src = x.node
    BY <1>3
  <2>2. \E y \in Shown : y.node = net[i].tgt
    BY <1>1, <1>4, <2>1 DEF Visiting, Handled, TooFar
  <2> QED
    BY <1>3, <2>2
<1>7. ReachableFrom(net, source) \subseteq Reported
  BY <1>5, <1>6 DEF ReachableFrom
<1>8. Reported \subseteq ReachableFrom(net, source)
  BY <1>3 DEF Visiting, Led
<1> QED
  BY <1>7, <1>8

-----------------------------------------------------------------------------
(* The order of dfs.                                                       *)

\* An entry hangs below one of the first n reports: everything since is at least
\* as deep as the entry.
HangsAt(s, x, n) ==
  \E p \in 1 .. n :
    /\ s[p].depth = x.depth - 1
    /\ \A m \in p + 1 .. n : s[m].depth >= x.depth
    /\ \E i \in Slots(net, s[p].node) : net[i].tgt = x.node
Hanging ==
  algo = "dfs" =>
    /\ \A k \in 2 .. Len(order) : HangsAt(order, order[k], k - 1)
    /\ order # <<>> => \A k \in 1 .. Len(waiting) : HangsAt(order, waiting[k], Len(order))

\* The slots of the node at hand that were looked at and lead somewhere new: the
\* first of them is on top of the stack.
Ways == {i \in Slots(net, cur) \ todo : net[i].tgt \notin visited}
Deep ==
  algo = "dfs" /\ max_depth = None =>
    /\ DfsDeep
    /\ order # <<>> =>
         /\ \A i \in todo, j \in Slots(net, cur) \ todo : i < j
         /\ Ways # {} => /\ waiting # <<>>
                         /\ waiting[Len(waiting)].node = net[FirstOf(Ways)].tgt
                         /\ waiting[Len(waiting)].depth = depth + 1

Diving == Visiting /\ Hanging /\ Deep

\* The least member of a set is its first.
LEMMA FirstIs ==
  ASSUME NEW S \in SUBSET Nat, NEW i \in S, \A k \in S : i <= k
  PROVE  FirstOf(S) = i
<1>1. FirstOf(S) \in S /\ FirstOf(S) <= i /\ i <= FirstOf(S)
  BY FirstOfIn
<1>2. FirstOf(S) \in Nat /\ i \in Nat
  BY <1>1
<1> QED
  BY <1>1, <1>2

\* Without a depth dfs has visited what it has reported.
LEMMA VisitedShown ==
  ASSUME Visiting, algo = "dfs", max_depth = None
  PROVE  visited = {order[m].node : m \in 1 .. Len(order)}
<1>1. \A v \in visited : \E m \in 1 .. Len(order) : order[m].node = v
  BY DEF Visiting, Handled, TooFar, Shown
<1>2. \A m \in 1 .. Len(order) : order[m].node \in visited
  BY DEF Visiting, Reaching, Once
<1> QED
  BY <1>1, <1>2

\* A state in which nothing is reported and nothing waits that dfs could have
\* reported something before.
LEMMA DivingEmpty ==
  ASSUME Visiting, order = <<>>
  PROVE  Diving
<1>1. Len(order) = 0 /\ 2 .. 0 = {}
  OBVIOUS
<1> QED
  BY <1>1 DEF Diving, Hanging, Deep, DfsDeep

\* What hangs goes on hanging when more is reported, as long as that is deep.
LEMMA HangsOn ==
  ASSUME UNCHANGED net, NEW s, NEW t, NEW x, NEW n \in Nat, \A m \in 1 .. n : t[m] = s[m],
         HangsAt(s, x, n)
  PROVE  HangsAt(t, x, n)'
<1>1. PICK p \in 1 .. n : /\ s[p].depth = x.depth - 1
                          /\ \A m \in p + 1 .. n : s[m].depth >= x.depth
                          /\ \E i \in Slots(net, s[p].node) : net[i].tgt = x.node
  BY DEF HangsAt
<1>2. t[p] = s[p] /\ \A m \in p + 1 .. n : t[m] = s[m]
  BY <1>1
<1> QED
  BY <1>1, <1>2 DEF HangsAt

\* An entry that is taken from the stack.
LEMMA DivingTakes ==
  ASSUME Diving, NEW e \in Entry, TakesFirst(e) \/ TakesLast(e)
  PROVE  Diving'
<1>1. Visiting /\ Reaching /\ Visiting' /\ UNCHANGED <<net, algo, max_depth>>
  BY VisitingTakes DEF Diving, Visiting, TakesFirst, TakesLast
<1>2. CASE algo # "dfs"
  BY <1>1, <1>2 DEF Diving, Hanging, Deep
<1>3. CASE algo = "dfs"
  <2>1. TakesLast(e)
    BY <1>3 DEF TakesFirst
  <2>2. /\ Len(waiting) \in Nat /\ Len(waiting) >= 1 /\ waiting[Len(waiting)] = e
        /\ Len(waiting') = Len(waiting) - 1
        /\ \A k \in 1 .. Len(waiting') : waiting'[k] = waiting[k]
        /\ Len(order) \in Nat /\ todo = {} /\ net \in Seq(Edge)
        /\ \A k \in 1 .. Len(waiting) : waiting[k] \in Entry
        /\ \A k \in 1 .. Len(order) : order[k] \in Entry
    BY <1>1, <2>1, TravTyped DEF Reaching, TakesLast, NoLast
  <2>3. \A k \in 1 .. Len(waiting') : k \in 1 .. Len(waiting) /\ Len(waiting) \in 1 .. Len(waiting) /\ k <= Len(waiting)
    BY <2>2
  <2>4. CASE Drops
    <3>1. UNCHANGED <<order, cur, todo, depth>>
      BY <2>4 DEF Drops
    <3>2. Hanging'
      <4>1. \A x, n : HangsAt(order, x, n)' <=> HangsAt(order, x, n)
        BY <1>1, <3>1 DEF HangsAt
      <4> QED
        BY <1>1, <1>3, <2>2, <2>3, <3>1, <4>1 DEF Diving, Hanging
    <3>3. ASSUME max_depth = None, order # <<>> PROVE Ways = {} /\ Ways' = {}
      <4>1. e.node \in visited /\ visited' = visited
        <5>1. ~TooDeep(e)
          BY <3>3 DEF TooDeep
        <5>2. ~Reports(e)
          BY <2>2, <3>1 DEF Reports, Longer
        <5> QED
          BY <2>1, <5>1, <5>2 DEF TakesLast
      <4>2. Ways = {}
        <5> SUFFICES ASSUME Ways # {} PROVE FALSE
          OBVIOUS
        <5>1. e.node = net[FirstOf(Ways)].tgt
          BY <1>3, <2>2, <3>3 DEF Diving, Deep
        <5>2. Ways \in SUBSET Nat
          BY <2>2 DEF Ways, Slots
        <5>3. FirstOf(Ways) \in Ways
          BY <5>2, FirstOfIn
        <5> QED
          BY <4>1, <5>1, <5>3 DEF Ways
      <4> QED
        BY <1>1, <3>1, <4>1, <4>2 DEF Ways
    <3>4. Deep'
      BY <1>1, <1>3, <3>1, <3>3 DEF Diving, Deep, DfsDeep
    <3> QED
      BY <1>1, <3>2, <3>4 DEF Diving
  <2>5. CASE Reports(e) /\ e.node \notin visited
    <3>1. /\ Len(order') = Len(order) + 1 /\ order'[Len(order) + 1] = e /\ order' # <<>>
          /\ \A k \in 1 .. Len(order) : order'[k] = order[k]
          /\ cur' = e.node /\ depth' = e.depth /\ todo' = Slots(net, e.node)
      BY <2>5 DEF Reports, Longer
    <3>2. Hanging'
      <4>2. ASSUME NEW k \in 2 .. Len(order') PROVE HangsAt(order, order[k], k - 1)'
        <5>1. CASE k \in 2 .. Len(order)
          <6>1. k - 1 \in 1 .. Len(order) /\ order'[k] = order[k]
            BY <2>2, <3>1, <5>1
          <6>2. HangsAt(order, order[k], k - 1)
            BY <1>3, <5>1 DEF Diving, Hanging
          <6>3. k - 1 \in Nat /\ \A m \in 1 .. k - 1 : order'[m] = order[m]
            BY <2>2, <3>1, <6>1
          <6> QED
            BY <1>1, <6>1, <6>2, <6>3, HangsOn
        <5>2. CASE k = Len(order) + 1
          <6>1. order # <<>> /\ k - 1 = Len(order) /\ Len(order) \in 1 .. Len(order)
            BY <2>2, <5>2
          <6>2. HangsAt(order, e, Len(order))
            BY <1>3, <2>2, <2>3, <6>1 DEF Diving, Hanging
          <6> QED
            BY <1>1, <2>2, <3>1, <5>2, <6>1, <6>2, HangsOn
        <5> QED
          BY <2>2, <3>1, <5>1, <5>2
      <4>3. ASSUME NEW k \in 1 .. Len(waiting') PROVE HangsAt(order, waiting[k], Len(order))'
        <5>1. order # <<>> /\ Len(order) >= 1
          <6>1. order = <<>> => Len(waiting) = 1
            BY <2>1 DEF Diving, Visiting, Reaching, First, TakesLast
          <6> QED
            BY <2>2, <6>1
        <5>2. PICK p \in 1 .. Len(order) :
                /\ order[p].depth = waiting[k].depth - 1
                /\ \A m \in p + 1 .. Len(order) : order[m].depth >= waiting[k].depth
                /\ \E i \in Slots(net, order[p].node) : net[i].tgt = waiting[k].node
          BY <1>3, <2>3, <5>1 DEF Diving, Hanging, HangsAt
        <5>3. waiting'[k] = waiting[k] /\ waiting[k].depth <= e.depth
          BY <1>1, <2>2, <2>3 DEF Reaching, Sorted
        <5>4. waiting[k].depth \in Nat /\ e.depth \in Nat
          BY <2>2, <2>3 DEF Entry
        <5>5. \A m \in p + 1 .. Len(order') : order'[m].depth >= waiting[k].depth
          <6> SUFFICES ASSUME NEW m \in p + 1 .. Len(order') PROVE order'[m].depth >= waiting[k].depth
            OBVIOUS
          <6>1. CASE m = Len(order) + 1
            BY <3>1, <5>3, <5>4, <6>1
          <6>2. CASE m # Len(order) + 1
            <7>1. Len(order) \in Nat /\ p \in Nat /\ p >= 1 /\ m \in Int /\ p + 1 <= m /\ m <= Len(order) + 1
              BY <2>2, <3>1, <5>2
            <7>2. m \in p + 1 .. Len(order) /\ m \in 1 .. Len(order)
              BY ONLY <6>2, <7>1
            <7> QED
              BY <3>1, <5>2, <7>2
          <6> QED
            BY <6>1, <6>2
        <5>6. p \in 1 .. Len(order') /\ order'[p] = order[p]
          BY <2>2, <3>1, <5>2
        <5> QED
          BY <1>1, <5>2, <5>3, <5>5, <5>6 DEF HangsAt
      <4> QED
        BY <4>2, <4>3 DEF Hanging
    <3>3. ASSUME max_depth = None PROVE DfsDeep'
      <4>1. visited = {order[m].node : m \in 1 .. Len(order)}
        BY <1>1, <1>3, <3>3, VisitedShown
      <4> SUFFICES ASSUME NEW k \in 2 .. Len(order')
                   PROVE  LET seen == {order'[m].node : m \in 1 .. k - 1}
                              ways == {i \in Slots(net, order'[k - 1].node) : net[i].tgt \notin seen}
                          IN ways # {} => /\ order'[k].depth = order'[k - 1].depth + 1
                                          /\ order'[k].node = net[FirstOf(ways)].tgt
        BY <1>1 DEF DfsDeep
      <4>2. k - 1 \in 1 .. Len(order) /\ \A m \in 1 .. k - 1 : m \in 1 .. Len(order) /\ order'[m] = order[m]
        BY <2>2, <3>1
      <4>3. {order'[m].node : m \in 1 .. k - 1} = {order[m].node : m \in 1 .. k - 1}
        BY <4>2
      <4>4. CASE k \in 2 .. Len(order)
        <5>1. order'[k] = order[k] /\ order'[k - 1] = order[k - 1]
          BY <2>2, <3>1, <4>2, <4>4
        <5>2. DfsDeep
          BY <1>3, <3>3 DEF Diving, Deep
        <5> QED
          BY <1>3, <3>3, <4>3, <4>4, <5>1, <5>2 DEF DfsDeep
      <4>5. CASE k = Len(order) + 1
        <5>1. /\ order # <<>> /\ k - 1 = Len(order) /\ order'[k] = e
              /\ order'[k - 1].node = cur /\ order'[k - 1].depth = depth
          BY <1>1, <2>2, <3>1, <4>2, <4>5 DEF Reaching, Last
        <5>2. {i \in Slots(net, order'[k - 1].node) : net[i].tgt \notin {order'[m].node : m \in 1 .. k - 1}} = Ways
          BY <2>2, <4>1, <4>3, <5>1 DEF Ways
        <5>3. Ways # {} => e.node = net[FirstOf(Ways)].tgt /\ e.depth = depth + 1
          BY <1>3, <2>2, <3>3, <5>1 DEF Diving, Deep
        <5> HIDE DEF Ways
        <5> QED
          BY <5>1, <5>2, <5>3
      <4> QED
        BY <2>2, <3>1, <4>4, <4>5
    <3>4. Deep'
      <4>1. Slots(net', cur') \ todo' = {}
        BY <1>1, <3>1
      <4> QED
        BY <1>1, <3>3, <4>1 DEF Deep, Ways
    <3> QED
      BY <1>1, <3>2, <3>4 DEF Diving
  <2> QED
    BY <2>1, <2>4, <2>5 DEF TakesLast
<1> QED
  BY <1>2, <1>3

\* A slot that dfs looks at: what is behind it hangs below the node at hand.
LEMMA DivingLooks ==
  ASSUME Diving, NEW i \in todo, LooksUp(i) \/ LooksDown(i)
  PROVE  Diving'
<1> DEFINE v == net[i].tgt
           e == [node |-> v, depth |-> depth + 1]
<1>1. Visiting /\ Reaching /\ Visiting'
  BY VisitingLooks DEF Diving, Visiting
<1>2. /\ UNCHANGED <<net, algo, source, cur, max_depth, depth, order>> /\ todo' = todo \ {i}
      /\ i \in DOMAIN net /\ v \in Node
  BY DEF LooksUp, LooksDown, Looks
<1>3. CASE algo # "dfs"
  BY <1>1, <1>2, <1>3 DEF Diving, Hanging, Deep
<1>4. CASE algo = "dfs"
  <2>1. LooksDown(i) /\ visited' = visited
    BY <1>4 DEF LooksUp, LooksDown
  <2>2. /\ order # <<>> /\ todo \subseteq Slots(net, cur) /\ todo \subseteq DOMAIN net
        /\ order[Len(order)].node = cur /\ order[Len(order)].depth = depth
        /\ Len(order) \in Nat /\ Len(order) \in 1 .. Len(order)
        /\ Len(waiting) \in Nat /\ depth \in Nat /\ net \in Seq(Edge)
    BY <1>1, TravTyped DEF Reaching, First, Last
  <2>3. \A x, n : HangsAt(order, x, n)' <=> HangsAt(order, x, n)
    BY <1>2 DEF HangsAt
  <2>4. e.node = v /\ e.depth = depth + 1
    OBVIOUS
  <2>5. HangsAt(order, e, Len(order))
    <3>1. order[Len(order)].depth = e.depth - 1
      BY <2>2, <2>4
    <3>2. \A m \in Len(order) + 1 .. Len(order) : order[m].depth >= e.depth
      BY <2>2
    <3>3. i \in Slots(net, order[Len(order)].node) /\ net[i].tgt = e.node
      BY <2>2
    <3> QED
      BY <2>2, <3>1, <3>2, <3>3 DEF HangsAt
  <2>6. DfsDeep' <=> DfsDeep
    BY <1>2 DEF DfsDeep
  <2>7. i \in Slots(net, cur) /\ Slots(net, cur) \in SUBSET Nat /\ \A k \in todo : k <= i
    BY <2>1, <2>2 DEF LooksDown, Slots
  <2>8. ASSUME max_depth = None
        PROVE  \A j \in todo', k \in Slots(net', cur') \ todo' : j < k
    <3>1. \A j \in todo, k \in Slots(net, cur) \ todo : j < k
      BY <1>4, <2>2, <2>8 DEF Diving, Deep
    <3>2. \A j \in todo' : j \in todo /\ j \in Nat /\ i \in Nat /\ j <= i /\ j # i
      BY <1>2, <2>2, <2>7
    <3> QED
      BY <1>2, <3>1, <3>2
  <2> HIDE DEF e, v
  <2>9. CASE v \in visited
    <3>1. waiting' = waiting
      BY <2>1, <2>9 DEF LooksDown, v
    <3>2. Hanging'
      BY <1>2, <1>4, <2>3, <3>1 DEF Diving, Hanging
    <3>3. Ways' = Ways
      BY <1>2, <2>1, <2>9 DEF Ways, v
    <3>4. Deep'
      BY <1>2, <1>4, <2>6, <2>8, <3>1, <3>3 DEF Diving, Deep
    <3> QED
      BY <1>1, <3>2, <3>4 DEF Diving
  <2>10. CASE v \notin visited
    <3>1. /\ Len(waiting') = Len(waiting) + 1 /\ waiting'[Len(waiting) + 1] = e /\ waiting' # <<>>
          /\ \A k \in 1 .. Len(waiting) : waiting'[k] = waiting[k]
      <4>1. Pushes(v)
        BY <2>1, <2>10 DEF LooksDown, v
      <4>2. Longer(waiting', waiting, e)
        BY <4>1 DEF Pushes, e
      <4>3. waiting' \in Seq(Entry)
        BY <4>1 DEF Pushes
      <4> QED
        BY <2>2, <4>2, <4>3 DEF Longer
    <3>2. Hanging'
      <4>1. ASSUME NEW k \in 1 .. Len(waiting') PROVE HangsAt(order, waiting'[k], Len(order))
        <5>1. CASE k \in 1 .. Len(waiting)
          BY <1>4, <2>2, <3>1, <5>1 DEF Diving, Hanging
        <5>2. CASE k = Len(waiting) + 1
          BY <2>5, <3>1, <5>2
        <5> QED
          BY <2>2, <3>1, <5>1, <5>2
      <4>2. \A k \in 1 .. Len(waiting') : HangsAt(order, waiting[k], Len(order))'
        BY <1>2, <4>1 DEF HangsAt
      <4> QED
        BY <1>2, <1>4, <2>3, <4>2 DEF Diving, Hanging
    <3>3. ASSUME max_depth = None PROVE Ways' # {} /\ FirstOf(Ways') = i
      <4>1. Ways' = Ways \cup {i}
        BY <1>2, <2>1, <2>2, <2>7, <2>10 DEF Ways, v
      <4>2. \A k \in Ways : k \in Slots(net, cur) \ todo
        BY DEF Ways
      <4>3. \A k \in Ways : i <= k
        BY <1>4, <2>2, <2>7, <3>3, <4>2 DEF Diving, Deep
      <4>4. Ways' \in SUBSET Nat
        BY <2>7, <4>1, <4>2
      <4>5. i \in Ways' /\ \A k \in Ways' : i <= k
        BY <2>7, <4>1, <4>3
      <4> HIDE DEF Ways
      <4> QED
        BY <4>4, <4>5, FirstIs
    <3>4. waiting'[Len(waiting')].node = v /\ waiting'[Len(waiting')].depth = depth + 1
      BY <2>4, <3>1
    <3>5. Deep'
      BY <1>2, <1>4, <2>6, <2>8, <3>1, <3>3, <3>4 DEF Diving, Deep, v
    <3> QED
      BY <1>1, <3>2, <3>5 DEF Diving
  <2> QED
    BY <2>9, <2>10
<1> QED
  BY <1>3, <1>4

\* At rest.
LEMMA DivingIdle == CsrIdle /\ TraversalIdle => Diving
BY VisitingIdle, DivingEmpty DEF TraversalIdle

\* Every step of bfs and dfs keeps what is known of the order of dfs.
LEMMA DivingStep == Diving /\ [TraversalNext]_traversalVars => Diving'
<1> SUFFICES ASSUME Diving, [TraversalNext]_traversalVars PROVE Diving'
  OBVIOUS
<1>1. Visiting /\ Visiting' /\ TravTypes
  BY VisitingStep DEF Diving, Visiting, Reaching
<1>2. CASE UNCHANGED <<net, algo, visited, cur, todo, max_depth, waiting, depth, order>>
  <2>1. \A x, n : HangsAt(order, x, n)' <=> HangsAt(order, x, n)
    BY <1>2 DEF HangsAt
  <2>2. Hanging'
    BY <1>2, <2>1 DEF Diving, Hanging
  <2>3. Ways' = Ways /\ (DfsDeep' <=> DfsDeep)
    BY <1>2 DEF Ways, DfsDeep
  <2>4. Deep'
    BY <1>2, <2>3 DEF Diving, Deep
  <2> QED
    BY <1>1, <2>2, <2>4 DEF Diving
<1>3. order' = <<>> => Diving'
  <2>1. (Visiting /\ order = <<>> => Diving)'
    BY DivingEmpty, PTL
  <2> QED
    BY <1>1, <2>1
<1>4. CASE TraversalReturn
  BY <1>3, <1>4 DEF TraversalReturn
<1>5. CASE TraversalEnds \/ UNCHANGED traversalVars
  BY <1>2, <1>5 DEF TraversalEnds, traversalVars, csrVars, travVars
<1>6. ASSUME NEW s \in Starts, Begins(s) PROVE Diving'
  BY <1>1, <1>3, <1>6 DEF Begins, Visiting, Reaching, Calling
<1> QED
  BY <1>1, <1>4, <1>5, <1>6, TraversalSteps, DivingTakes, DivingLooks

\* DfsOrder: dfs reports what a recursive search would, in its order.
LEMMA DivingOrders == Diving => DfsOrder
<1> SUFFICES ASSUME Diving PROVE DfsOrder
  OBVIOUS
<1>1. ReportsReachable
  BY VisitingReports DEF Diving
<1>2. DfsDeep
  BY DEF Diving, Deep, DfsDeep
<1>3. DfsPreorder
  BY DEF Diving, Hanging, HangsAt, DfsPreorder
<1> QED
  BY <1>1, <1>2, <1>3 DEF DfsOrder

-----------------------------------------------------------------------------
(* The depths of bfs.                                                      *)

\* One level more of Ball, and the first m + 1 levels.
Wider(g, S) == S \cup {g[i].tgt : i \in {k \in DOMAIN g : g[k].src \in S}}
Balled(g, s, m, f) == f = [d \in 0 .. m |-> IF d = 0 THEN {s} ELSE Wider(g, f[d - 1])]

\* There are as many levels as are asked for.
LEMMA BalledExists ==
  ASSUME NEW g, NEW s, NEW n \in Nat
  PROVE  \E f : Balled(g, s, n, f)
<1> DEFINE Bad == {m \in Nat : ~ \E f : Balled(g, s, m, f)}
<1>1. SUFFICES ASSUME Bad # {} PROVE FALSE
  OBVIOUS
<1>2. PICK m \in Bad : \A k \in Bad : m <= k
  <2>1. Bad \in SUBSET Nat
    OBVIOUS
  <2> HIDE DEF Bad
  <2> QED
    BY <1>1, <2>1, FirstOfIn
<1>3. CASE m = 0
  <2> DEFINE f == [k \in 0 .. 0 |-> {s}]
  <2>1. Balled(g, s, 0, f)
    BY DEF Balled
  <2> QED
    BY <1>2, <1>3, <2>1
<1>4. CASE m # 0
  <2>1. m - 1 \in Nat /\ m - 1 \notin Bad
    BY <1>2, <1>4
  <2>2. PICK f : Balled(g, s, m - 1, f)
    BY <2>1
  <2> DEFINE x == Wider(g, f[m - 1])
             r == [k \in 0 .. m |-> IF k = m THEN x ELSE f[k]]
  <2>3. \A k \in 0 .. m : r[k] = IF k = 0 THEN {s} ELSE Wider(g, r[k - 1])
    <3> TAKE k \in 0 .. m
    <3>1. k \in Nat /\ m \in Nat /\ k <= m
      BY <1>2
    <3>2. CASE k = m
      <4>1. k - 1 \in 0 .. m /\ k - 1 # m /\ k # 0
        BY <1>4, <3>1, <3>2
      <4>2. r[k] = x /\ r[k - 1] = f[m - 1]
        BY <3>2, <4>1
      <4> QED
        BY <3>2, <4>1, <4>2
    <3>3. CASE k # m
      <4>1. k \in 0 .. m - 1 /\ r[k] = f[k]
        BY <3>1, <3>3
      <4>2. f[k] = IF k = 0 THEN {s} ELSE Wider(g, f[k - 1])
        BY <2>2, <4>1 DEF Balled
      <4>3. k # 0 => k - 1 \in 0 .. m /\ k - 1 # m
        BY <3>1
      <4>4. k # 0 => r[k - 1] = f[k - 1]
        BY <4>3
      <4> QED
        BY <4>1, <4>2, <4>4
    <3> QED
      BY <3>2, <3>3
  <2>4. r = [k \in 0 .. m |-> r[k]]
    OBVIOUS
  <2> HIDE DEF r, x
  <2>5. Balled(g, s, m, r)
    BY <2>3, <2>4 DEF Balled
  <2> QED
    BY <1>2, <2>5
<1> QED
  BY <1>3, <1>4

\* Ball, level by level.
LEMMA BallIs ==
  ASSUME NEW g, NEW s, Cardinality(Node) \in Nat
  PROVE  \A d \in 0 .. Cardinality(Node) :
           Ball(g, s)[d] = IF d = 0 THEN {s} ELSE Wider(g, Ball(g, s)[d - 1])
<1> DEFINE N == Cardinality(Node)
           f == CHOOSE f : Balled(g, s, N, f)
<1>1. Balled(g, s, N, f)
  <2>1. \E r : Balled(g, s, N, r)
    BY BalledExists
  <2> QED
    BY <2>1
<1>2. Ball(g, s) = f
  BY Zenon DEF Ball, Balled, Wider
<1> HIDE DEF f
<1> QED
  BY <1>1, <1>2 DEF Balled

\* A level has the source, and nodes only.
LEMMA BallHolds ==
  ASSUME TravTypes, source \in Node, Cardinality(Node) \in Nat
  PROVE  \A d \in 0 .. Cardinality(Node) :
           Ball(net, source)[d] \in SUBSET Node /\ source \in Ball(net, source)[d]
<1> DEFINE N == Cardinality(Node)
           ball == Ball(net, source)
           Bad == {d \in 0 .. N : ~(ball[d] \in SUBSET Node /\ source \in ball[d])}
<1> HIDE DEF ball, N
<1>1. SUFFICES ASSUME Bad # {} PROVE FALSE
  BY DEF ball, N
<1>2. PICK d \in Bad : \A k \in Bad : d <= k
  <2>1. Bad \in SUBSET Nat
    BY DEF N
  <2> HIDE DEF Bad
  <2> QED
    BY <1>1, <2>1, FirstOfIn
<1>3. d \in Nat /\ d \in 0 .. N /\ N \in Nat
  BY <1>2 DEF N
<1>4. ball[d] = IF d = 0 THEN {source} ELSE Wider(net, ball[d - 1])
  <2>1. \A n \in 0 .. Cardinality(Node) :
          Ball(net, source)[n] = IF n = 0 THEN {source} ELSE Wider(net, Ball(net, source)[n - 1])
    BY BallIs
  <2> QED
    BY <1>3, <2>1 DEF ball, N
<1>5. d # 0
  BY <1>2, <1>4
<1>6. d - 1 \in 0 .. N /\ ~(d <= d - 1)
  BY <1>3, <1>5
<1>7. ball[d - 1] \in SUBSET Node /\ source \in ball[d - 1]
  BY <1>2, <1>6
<1>8. \A i \in DOMAIN net : net[i].tgt \in Node
  BY EdgeOf DEF TravTypes
<1>9. ball[d] \in SUBSET Node /\ source \in ball[d]
  BY <1>4, <1>5, <1>7, <1>8 DEF Wider
<1> QED
  BY <1>2, <1>9

\* BfsDepths: bfs reports what is within the depth, each node at the least depth.
LEMMA VisitingDepths == Visiting => BfsDepths
<1> SUFFICES ASSUME Visiting, TraversalDone, algo = "bfs",
                    NEW d \in 0 .. Cardinality(Node) - 1, max_depth = None \/ d <= max_depth
             PROVE  {order[k].node : k \in {m \in DOMAIN order : order[m].depth <= d}} = Ball(net, source)[d]
  BY DEF BfsDepths
<1> DEFINE N == Cardinality(Node)
           ball == Ball(net, source)
           Seen(n) == {x.node : x \in {y \in Shown : y.depth <= n}}
<1> USE EntriesAre
<1>1. /\ stage = "done" /\ source \in Node /\ TravTypes /\ Reaching
      /\ todo = {} /\ waiting = <<>> /\ order # <<>>
  BY TravTyped DEF TraversalDone, Visiting, Reaching, Calling, IsTraversal
<1>2. Len(order) \in Nat /\ DOMAIN order = 1 .. Len(order) /\ order \in Seq(Entry) /\ N \in Nat
  BY <1>1, TravTyped, NodeAssumption, FS_CardinalityType
<1>3. {order[k].node : k \in {m \in DOMAIN order : order[m].depth <= d}} = Seen(d)
  BY <1>2 DEF Shown
<1>4. Lined = {}
  <2>1. Len(waiting) = 0 /\ 1 .. 0 = {}
    BY <1>1
  <2> QED
    BY <2>1 DEF Lined
<1>5. /\ \A n \in 0 .. N : ball[n] \in SUBSET Node /\ source \in ball[n]
      /\ \A n \in 0 .. N : ball[n] = IF n = 0 THEN {source} ELSE Wider(net, ball[n - 1])
  BY <1>1, <1>2, BallHolds, BallIs
<1> HIDE DEF ball, N
<1>6. d \in Nat /\ d \in 0 .. N /\ d <= N - 1
  BY <1>2 DEF N
<1>7. Seen(d) \subseteq ball[d]
  <2> DEFINE b == [n \in Nat |-> IF n <= N THEN ball[n] ELSE Node]
  <2>1. b \in [Nat -> SUBSET Node]
    BY <1>2, <1>5
  <2>2. ASSUME NEW n \in Nat, NEW i \in DOMAIN net, net[i].src \in b[n] PROVE net[i].tgt \in b[n + 1]
    <3>1. CASE n + 1 <= N
      <4>1. n \in 0 .. N /\ n + 1 \in 0 .. N /\ n + 1 # 0 /\ (n + 1) - 1 = n /\ n <= N /\ n + 1 \in Nat
        BY <1>2, <3>1
      <4>2. ball[n + 1] = Wider(net, ball[n])
        BY <1>5, <4>1
      <4>3. net[i].src \in ball[n]
        BY <2>2, <4>1
      <4> QED
        BY <3>1, <4>1, <4>2, <4>3 DEF Wider
    <3>2. CASE ~(n + 1 <= N)
      BY <1>1, <3>2
    <3> QED
      BY <3>1, <3>2
  <2>3. \A n \in Nat : source \in b[n]
    BY <1>1, <1>2, <1>5
  <2>4. b[d] = ball[d]
    BY <1>2, <1>6
  <2> HIDE DEF b
  <2>5. IsLadder(b)
    BY <2>2, <2>3 DEF IsLadder
  <2>6. \A x \in Shown : x.depth <= d => x.node \in b[d]
    BY <1>6, <2>1, <2>5 DEF Visiting, Near
  <2> QED
    BY <2>4, <2>6
<1>8. ball[d] \subseteq Seen(d)
  <2> DEFINE Bad == {n \in 0 .. d : ~(ball[n] \subseteq Seen(n))}
  <2>1. SUFFICES ASSUME Bad # {} PROVE FALSE
    BY <1>6
  <2>2. PICK n \in Bad : \A k \in Bad : n <= k
    <3>1. Bad \in SUBSET Nat
      BY <1>6
    <3> HIDE DEF Bad
    <3> QED
      BY <2>1, <3>1, FirstOfIn
  <2>3. n \in Nat /\ n <= d /\ n \in 0 .. N
    BY <1>2, <1>6, <2>2
  <2>4. PICK u \in ball[n] : u \notin Seen(n)
    BY <2>2
  <2>5. CASE n = 0
    <3>1. 1 \in 1 .. Len(order) /\ order[1].node = source /\ order[1].depth = 0
      BY <1>1, <1>2 DEF Reaching, Last
    <3>2. order[1] \in Shown
      BY <3>1 DEF Shown
    <3>3. u = source
      BY <1>5, <2>3, <2>4, <2>5
    <3> QED
      BY <2>4, <2>5, <3>1, <3>2, <3>3
  <2>6. CASE n # 0
    <3>1. n - 1 \in 0 .. d /\ ~(n <= n - 1)
      BY <1>6, <2>3, <2>6
    <3>2. ball[n - 1] \subseteq Seen(n - 1)
      BY <2>2, <3>1
    <3>3. ball[n] = Wider(net, ball[n - 1])
      BY <1>5, <2>3, <2>6
    <3>4. \A x \in Shown : x.depth \in Nat
      BY <1>1
    <3>5. u \notin ball[n - 1]
      BY <2>3, <2>4, <3>2, <3>4
    <3>6. PICK i \in DOMAIN net : net[i].src \in ball[n - 1] /\ u = net[i].tgt
      BY <2>4, <3>3, <3>5 DEF Wider
    <3>7. PICK x \in Shown : x.node = net[i].src /\ x.depth <= n - 1
      BY <3>2, <3>6
    <3>8. ~TooFar(x.depth + 1)
      BY <1>1, <1>6, <2>3, <3>4, <3>7 DEF TooFar
    <3>9. PICK y \in Shown : y.node = net[i].tgt /\ y.depth <= x.depth + 1
      BY <1>1, <1>4, <3>6, <3>7, <3>8 DEF Visiting, Handled
    <3>10. y.depth <= n
      BY <2>3, <3>4, <3>7, <3>9
    <3> QED
      BY <2>4, <3>6, <3>9, <3>10
  <2> QED
    BY <2>5, <2>6
<1> QED
  BY <1>3, <1>7, <1>8 DEF ball

-----------------------------------------------------------------------------
(* scc: its state, place by place, and what its steps do.                  *)

FrameOf == [node : Node, edges : SUBSET DOMAIN net, saved_neighbor : Node \cup {None}]

\* The variables that have types, as facts the provers can use.
LEMMA SccTyped ==
  ASSUME CsrTypeOK, ComponentsTypeOK, algo = "scc"
  PROVE  /\ component \in [Node -> Num] /\ index \in [Node -> Num] /\ lowlink \in [Node -> Num]
         /\ count \in Nat /\ current_index \in Nat /\ next \in Node \cup {None}
         /\ stack \in Seq(Node) /\ Len(stack) \in Nat /\ DOMAIN stack = 1 .. Len(stack)
         /\ \A k \in 1 .. Len(stack) : stack[k] \in Node
         /\ frames \in Seq(FrameOf) /\ Len(frames) \in Nat /\ DOMAIN frames = 1 .. Len(frames)
         /\ \A k \in 1 .. Len(frames) : frames[k] \in FrameOf
         /\ \A k \in 1 .. Len(frames) : frames[k].node \in Node /\ frames[k].edges \in SUBSET DOMAIN net
         /\ net \in Seq(Edge) /\ DOMAIN net \in SUBSET Nat
         /\ \A i \in DOMAIN net : net[i].src \in Node /\ net[i].tgt \in Node
         /\ Node \in SUBSET Nat /\ None \notin Nat
<1>1. /\ component \in [Node -> Num] /\ index \in [Node -> Num] /\ lowlink \in [Node -> Num]
      /\ count \in Nat /\ current_index \in Nat /\ next \in Node \cup {None}
      /\ stack \in Seq(Node) /\ frames \in Seq(FrameOf)
  BY DEF ComponentsTypeOK, IsComponents, FrameOf
<1>2. /\ Len(stack) \in Nat /\ DOMAIN stack = 1 .. Len(stack) /\ \A k \in 1 .. Len(stack) : stack[k] \in Node
  BY <1>1
<1>3. /\ Len(frames) \in Nat /\ DOMAIN frames = 1 .. Len(frames)
      /\ \A k \in 1 .. Len(frames) : frames[k] \in FrameOf
  BY <1>1
<1>4. \A k \in 1 .. Len(frames) : frames[k].node \in Node /\ frames[k].edges \in SUBSET DOMAIN net
  BY <1>3 DEF FrameOf
<1>5. net \in Seq(Edge) /\ DOMAIN net \in SUBSET Nat
  BY DEF CsrTypeOK
<1>6. \A i \in DOMAIN net : net[i].src \in Node /\ net[i].tgt \in Node
  BY EdgeOf
<1> QED
  BY <1>1, <1>2, <1>3, <1>4, <1>5, <1>6, NodeAssumption

\* A node gets a frame: the edge to it, if there was a frame, is off that one's.
Enters(w) ==
  /\ w \in Node /\ index[w] = None
  /\ index' = [index EXCEPT ![w] = current_index]
  /\ lowlink' = [lowlink EXCEPT ![w] = current_index]
  /\ current_index' = current_index + 1
  /\ stack' \in Seq(Node) /\ Longer(stack', stack, w)
  /\ frames' \in Seq(FrameOf) /\ Len(frames') = Len(frames) + 1
  /\ frames'[Len(frames) + 1].node = w /\ frames'[Len(frames) + 1].edges = Slots(net, w)
  /\ \A k \in 1 .. Len(frames) : frames'[k].node = frames[k].node
  /\ \A k \in 1 .. Len(frames) - 1 : frames'[k] = frames[k]
  /\ frames # <<>> => \E i \in frames[Len(frames)].edges :
                        /\ net[i].tgt = w
                        /\ frames'[Len(frames)].edges = frames[Len(frames)].edges \ {i}
                        /\ frames'[Len(frames)].saved_neighbor = w
  /\ UNCHANGED <<net, algo, component, count>>

\* An edge to a node that was entered before.
Sees(i) ==
  /\ frames # <<>> /\ i \in frames[Len(frames)].edges /\ index[net[i].tgt] # None
  /\ frames' \in Seq(FrameOf) /\ Len(frames') = Len(frames)
  /\ \A k \in 1 .. Len(frames) - 1 : frames'[k] = frames[k]
  /\ frames'[Len(frames)].node = frames[Len(frames)].node
  /\ frames'[Len(frames)].edges = frames[Len(frames)].edges \ {i}
  /\ lowlink' = IF OnStack(net[i].tgt) THEN Lower(frames[Len(frames)].node, index[net[i].tgt]) ELSE lowlink
  /\ UNCHANGED <<net, algo, component, count, index, current_index, stack>>

\* A frame that is done.
Leaves(v) ==
  /\ frames # <<>> /\ frames[Len(frames)].node = v /\ frames[Len(frames)].edges = {}
  /\ frames' \in Seq(FrameOf) /\ Len(frames') = Len(frames) - 1
  /\ \A k \in 1 .. Len(frames) - 1 : frames'[k] = frames[k]
  /\ lowlink' = Fold(v)
  /\ \/ lowlink[v] # index[v] /\ UNCHANGED <<stack, component, count>>
     \/ lowlink[v] = index[v] /\ PopStack(v)
  /\ UNCHANGED <<net, algo, index, current_index>>

\* The frame of a node.
LEMMA FrameIs ==
  ASSUME CsrTypeOK, NEW w \in Node
  PROVE  /\ Frame(w) \in FrameOf /\ Frame(w).node = w /\ Frame(w).edges = Slots(net, w)
BY DEF Frame, FrameOf, Slots

\* The loop over the nodes enters the one it has come to, or does not.
LEMMA StartDoes ==
  ASSUME CsrTypeOK, ComponentsTypeOK, Start
  PROVE  /\ algo = "scc" /\ stage = "search" /\ frames = <<>> /\ next \in Node /\ next' = After(next)
         /\ UNCHANGED csrVars
         /\ \/ Enters(next)
            \/ /\ index[next] # None
               /\ UNCHANGED <<index, lowlink, current_index, stack, frames, component, count>>
<1>1. /\ algo = "scc" /\ stage = "search" /\ frames = <<>> /\ next # None /\ next' = After(next)
      /\ UNCHANGED <<csrVars, component, count>>
  BY DEF Start
<1>2. next \in Node /\ stack \in Seq(Node) /\ Len(frames) = 0
  BY <1>1, SccTyped
<1>3. CASE index[next] # None
  BY <1>1, <1>2, <1>3 DEF Start
<1>4. CASE index[next] = None
  <2>1. frames' = <<Frame(next)>> /\ Enter(next)
    BY <1>4 DEF Start
  <2>2. Frame(next) \in FrameOf /\ Frame(next).node = next /\ Frame(next).edges = Slots(net, next)
    BY <1>2, FrameIs
  <2>3. frames' \in Seq(FrameOf) /\ Len(frames') = 1 /\ frames'[1] = Frame(next)
    BY <2>1, <2>2
  <2>4. stack' \in Seq(Node) /\ Longer(stack', stack, next)
    BY <1>2, <2>1, AppendIs DEF Enter, Longer
  <2>5. \A k \in 1 .. Len(frames) : FALSE
    BY <1>2
  <2>6. Enters(next)
    BY <1>1, <1>2, <1>4, <2>1, <2>2, <2>3, <2>4, <2>5 DEF Enters, Enter, csrVars
  <2> QED
    BY <1>1, <1>2, <2>6
<1> QED
  BY <1>3, <1>4

\* An edge of the frame on top is looked at.
LEMMA LookDoes ==
  ASSUME CsrTypeOK, ComponentsTypeOK, Look
  PROVE  /\ algo = "scc" /\ frames # <<>> /\ UNCHANGED <<csrVars, next>>
         /\ (\E w \in Node : Enters(w)) \/ (\E i \in DOMAIN net : Sees(i))
<1> DEFINE n == Len(frames)
           t == frames[Len(frames)]
           i == FirstOf(t.edges)
           w == net[i].tgt
           top == [t EXCEPT !.edges = @ \ {i}]
<1>1. algo = "scc" /\ frames # <<>> /\ t.edges # {} /\ UNCHANGED <<csrVars, component, count, next>>
  BY DEF Look, Top
<1>2. n \in Nat /\ n >= 1 /\ n \in 1 .. n /\ t \in FrameOf /\ frames \in Seq(FrameOf) /\ stack \in Seq(Node)
  BY <1>1, SccTyped
<1>3. t.edges \in SUBSET DOMAIN net /\ DOMAIN net \in SUBSET Nat
  BY <1>1, <1>2, SccTyped
<1>4. i \in t.edges /\ i \in DOMAIN net /\ w \in Node
  <2>1. i \in t.edges
    BY <1>1, <1>3, FirstOfIn
  <2> QED
    BY <1>1, <1>3, <2>1, SccTyped
<1>5. IF index[w] = None
      THEN /\ frames' = Append([frames EXCEPT ![n] = Saved(top, w)], Frame(w))
           /\ Enter(w)
      ELSE /\ frames' = [frames EXCEPT ![n] = top]
           /\ lowlink' = IF OnStack(w) THEN Lower(t.node, index[w]) ELSE lowlink
           /\ UNCHANGED <<index, current_index, stack>>
  BY DEF Look, Top, Counts
<1> HIDE DEF i
<1>6. top \in FrameOf /\ top.node = t.node /\ top.edges = t.edges \ {i}
  BY <1>2, <1>3 DEF FrameOf
<1>7. CASE index[w] = None
  <2> DEFINE s == Saved(top, w)
             f == [frames EXCEPT ![n] = s]
  <2>1. s \in FrameOf /\ s.node = t.node /\ s.edges = t.edges \ {i} /\ s.saved_neighbor = w
    <3> HIDE DEF w, top
    <3> QED
      BY <1>4, <1>6 DEF FrameOf, Saved
  <2> HIDE DEF s
  <2>2. f \in Seq(FrameOf) /\ Len(f) = n /\ f[n] = s /\ \A k \in 1 .. n - 1 : f[k] = frames[k]
    BY <1>2, <2>1
  <2> HIDE DEF f
  <2>3. Frame(w) \in FrameOf /\ Frame(w).node = w /\ Frame(w).edges = Slots(net, w)
    BY <1>4, FrameIs
  <2>4. frames' = Append(f, Frame(w)) /\ Enter(w)
    BY <1>5, <1>7 DEF f, s
  <2>5. /\ frames' \in Seq(FrameOf) /\ Len(frames') = n + 1 /\ frames'[n + 1] = Frame(w)
        /\ \A k \in 1 .. n : frames'[k] = f[k]
    BY <2>2, <2>3, <2>4, AppendIs
  <2>6. \A k \in 1 .. n - 1 : frames'[k] = frames[k]
    BY <1>2, <2>2, <2>5
  <2>7. frames'[n].node = t.node /\ frames'[n].edges = t.edges \ {i} /\ frames'[n].saved_neighbor = w
    BY <1>2, <2>1, <2>2, <2>5
  <2>8. \A k \in 1 .. n : frames'[k].node = frames[k].node
    <3> TAKE k \in 1 .. n
    <3>1. k = n \/ k \in 1 .. n - 1
      BY <1>2
    <3> QED
      BY <2>6, <2>7, <3>1
  <2>9. stack' \in Seq(Node) /\ Longer(stack', stack, w)
    BY <1>2, <1>4, <2>4, AppendIs DEF Enter, Longer
  <2> HIDE DEF n, t, w
  <2>10. \E j \in frames[Len(frames)].edges :
           /\ net[j].tgt = w
           /\ frames'[Len(frames)].edges = frames[Len(frames)].edges \ {j}
           /\ frames'[Len(frames)].saved_neighbor = w
    BY <1>4, <2>7 DEF n, t, w
  <2>11. Enters(w)
    BY <1>1, <1>4, <1>7, <2>3, <2>4, <2>5, <2>6, <2>8, <2>9, <2>10 DEF Enters, Enter, csrVars, n
  <2> QED
    BY <1>1, <1>4, <2>11
<1>8. CASE index[w] # None
  <2> HIDE DEF top
  <2>1. frames' = [frames EXCEPT ![n] = top]
    BY <1>5, <1>8
  <2>2. /\ frames' \in Seq(FrameOf) /\ Len(frames') = n /\ frames'[n] = top
        /\ \A k \in 1 .. n - 1 : frames'[k] = frames[k]
    BY <1>2, <1>6, <2>1
  <2>3. Sees(i)
    BY <1>1, <1>4, <1>5, <1>6, <1>8, <2>2 DEF Sees, csrVars
  <2> QED
    BY <1>1, <1>4, <2>3
<1> QED
  BY <1>7, <1>8

\* The frame on top is left.
LEMMA LeaveDoes ==
  ASSUME CsrTypeOK, ComponentsTypeOK, Leave
  PROVE  /\ algo = "scc" /\ frames # <<>> /\ UNCHANGED <<csrVars, next>>
         /\ \E v \in Node : Leaves(v)
<1>1. algo = "scc" /\ frames # <<>> /\ UNCHANGED <<csrVars, next>>
  BY DEF Leave
<1> DEFINE n == Len(frames)
           v == frames[n].node
<1>2. n \in Nat /\ n >= 1 /\ n \in 1 .. n /\ v \in Node /\ frames \in Seq(FrameOf)
  BY <1>1, SccTyped
<1>3. frames' = SubSeq(frames, 1, n - 1)
  BY DEF Leave
<1>4. frames' \in Seq(FrameOf) /\ Len(frames') = n - 1 /\ \A k \in 1 .. n - 1 : frames'[k] = frames[k]
  BY <1>1, <1>2, <1>3, FrontIs
<1>5. /\ lowlink' = Fold(v)
      /\ IF lowlink[v] = index[v] THEN PopStack(v) ELSE UNCHANGED <<stack, component, count>>
      /\ frames[n].edges = {} /\ UNCHANGED <<net, algo, index, current_index>>
  BY DEF Leave, Top, csrVars
<1>6. Leaves(v)
  BY <1>1, <1>4, <1>5 DEF Leaves
<1> QED
  BY <1>1, <1>2, <1>6

-----------------------------------------------------------------------------
(* scc: what is known of the nodes on the stack and of the frames.         *)

\* A node that was entered and has no component yet: those on the stack.
Open(v) == index[v] # None /\ component[v] = None
Counted ==
  /\ \A v \in Node : index[v] # None => /\ index[v] < current_index
                                        /\ lowlink[v] # None /\ lowlink[v] <= index[v]
  /\ \A v \in Node : component[v] # None => index[v] # None /\ component[v] < count
  /\ \A n \in 0 .. count - 1 : \E v \in Node : component[v] = n
Stacked ==
  /\ \A v \in Node : OnStack(v) <=> Open(v)
  /\ \A j, k \in 1 .. Len(stack) : j < k => index[stack[j]] < index[stack[k]]
Framed ==
  /\ \A j, k \in 1 .. Len(frames) : j < k => index[frames[j].node] < index[frames[k].node]
  /\ \A k \in 1 .. Len(frames) : Open(frames[k].node) /\ frames[k].edges \subseteq Slots(net, frames[k].node)
  /\ \A k \in 1 .. Len(frames) - 1 : frames[k].saved_neighbor = frames[k + 1].node
  /\ \A x \in Node : Open(x) => frames # <<>> /\ index[frames[1].node] <= index[x]

\* An edge that was looked at: the node behind it was entered.  A node with a
\* component leads to such nodes only, and none with a later number.
Gone(i) == index[net[i].src] # None /\ \A k \in 1 .. Len(frames) : i \notin frames[k].edges
Trodden ==
  /\ \A i \in DOMAIN net : Gone(i) => index[net[i].tgt] # None
  /\ \A i \in DOMAIN net : component[net[i].src] # None =>
       component[net[i].tgt] # None /\ component[net[i].tgt] <= component[net[i].src]

\* The lowlink of a frame is the index of a node on the stack that it reaches; and
\* no edge that was looked at leads from above the frame further down the
\* stack than the lowlinks of the frames from that one on.
Lowest ==
  \A k \in 1 .. Len(frames) : \E y \in Node :
    Open(y) /\ index[y] = lowlink[frames[k].node] /\ y \in ReachableFrom(net, frames[k].node)
Backs ==
  \A k \in 1 .. Len(frames), i \in DOMAIN net :
    Gone(i) /\ Open(net[i].tgt) /\ index[frames[k].node] <= index[net[i].src] =>
      \E m \in k .. Len(frames) : lowlink[frames[m].node] <= index[net[i].tgt]

\* A node on the stack without a frame reaches one further down; one with a frame
\* reaches all further up.
Climbs ==
  \A x \in Node : Open(x) =>
    \/ \E k \in 1 .. Len(frames) : frames[k].node = x
    \/ \E y \in Node : Open(y) /\ index[y] < index[x] /\ y \in ReachableFrom(net, x)
Spans ==
  \A k \in 1 .. Len(frames), x \in Node :
    Open(x) /\ index[frames[k].node] <= index[x] => x \in ReachableFrom(net, frames[k].node)

\* The components that have been numbered.
Classes ==
  \A u, v \in Node : component[u] # None => (component[u] = component[v] <=> Mutual(net, u, v))

Tarjan == Counted /\ Stacked /\ Framed /\ Trodden /\ Lowest /\ Backs /\ Climbs /\ Spans /\ Classes

\* What reaches a node reaches what that one reaches.
LEMMA ReachableOn ==
  ASSUME NEW u, NEW v \in ReachableFrom(net, u), NEW w \in ReachableFrom(net, v)
  PROVE  w \in ReachableFrom(net, u)
BY DEF ReachableFrom

\* ... and what is behind one of its edges.
LEMMA ReachableBehind ==
  ASSUME NEW u, NEW i \in DOMAIN net, net[i].src \in ReachableFrom(net, u), net[i].tgt \in Node
  PROVE  net[i].tgt \in ReachableFrom(net, u)
BY DEF ReachableFrom, IsClosed

\* A node is entered.
LEMMA TarjanEnters ==
  ASSUME CsrTypeOK, ComponentsTypeOK, algo = "scc", Tarjan, NEW w \in Node, Enters(w),
         next' \in Node \cup {None}
  PROVE  ComponentsTypeOK' /\ Tarjan'
<1> DEFINE n == Len(frames)
<1>1. /\ component \in [Node -> Num] /\ index \in [Node -> Num] /\ lowlink \in [Node -> Num]
      /\ count \in Nat /\ current_index \in Nat /\ n \in Nat /\ None \notin Nat /\ Node \in SUBSET Nat
      /\ stack \in Seq(Node) /\ Len(stack) \in Nat /\ \A k \in 1 .. Len(stack) : stack[k] \in Node
      /\ \A k \in 1 .. n : frames[k].node \in Node /\ frames[k].edges \in SUBSET DOMAIN net
      /\ \A i \in DOMAIN net : net[i].src \in Node /\ net[i].tgt \in Node
  BY SccTyped
<1>2. /\ index[w] = None /\ current_index' = current_index + 1 /\ UNCHANGED <<net, algo, component, count>>
      /\ stack' \in Seq(Node) /\ Longer(stack', stack, w) /\ frames' \in Seq(FrameOf)
      /\ index' \in [Node -> Num] /\ lowlink' \in [Node -> Num]
      /\ index'[w] = current_index /\ lowlink'[w] = current_index
      /\ \A v \in Node : v # w => index'[v] = index[v] /\ lowlink'[v] = lowlink[v]
  BY <1>1 DEF Enters, Num
<1>3. /\ Len(frames') = n + 1 /\ frames'[n + 1].node = w /\ frames'[n + 1].edges = Slots(net, w)
      /\ \A k \in 1 .. n : frames'[k].node = frames[k].node
      /\ \A k \in 1 .. n - 1 : frames'[k] = frames[k]
  BY DEF Enters
<1>4. frames # <<>> => \E i \in frames[n].edges :
        /\ net[i].tgt = w /\ frames'[n].edges = frames[n].edges \ {i} /\ frames'[n].saved_neighbor = w
  BY DEF Enters
<1>5. /\ \A v \in Node : index[v] # None => index[v] \in Nat /\ index[v] < current_index
      /\ \A v \in Node : component[v] # None => index[v] # None
  BY <1>1 DEF Tarjan, Counted, Num
<1>6. /\ Open(w)' /\ \A v \in Node : v # w => (Open(v)' <=> Open(v))
      /\ ~Open(w)
  BY <1>1, <1>2, <1>5 DEF Open
<1>7. \A k \in 1 .. n : /\ frames[k].node \in Node /\ frames[k].node # w /\ Open(frames[k].node)
                        /\ index[frames[k].node] \in Nat /\ index[frames[k].node] < current_index
  BY <1>1, <1>5, <1>6 DEF Tarjan, Framed, Open
<1>8. n = 0 \/ (frames # <<>> /\ n \in 1 .. n)
  <2>1. frames = <<>> => n = 0
    OBVIOUS
  <2>2. n # 0 => n \in 1 .. n
    BY <1>1
  <2> QED
    BY <2>1, <2>2
<1>9. \A i \in DOMAIN net : Gone(i)' => Gone(i) \/ (net[i].tgt = w /\ n \in 1 .. n)
  <2> SUFFICES ASSUME NEW i \in DOMAIN net, Gone(i)', net[i].tgt # w \/ n = 0 PROVE Gone(i)
    BY <1>8
  <2>1. \A k \in 1 .. n + 1 : i \notin frames'[k].edges
    BY <1>2, <1>3 DEF Gone
  <2>2. net[i].src # w
    <3>1. n + 1 \in 1 .. n + 1
      BY <1>1
    <3> QED
      BY <1>3, <2>1, <3>1 DEF Slots
  <2>3. ASSUME NEW k \in 1 .. n PROVE i \notin frames[k].edges
    <3>1. k \in 1 .. n - 1 \/ k = n
      BY <1>1
    <3>2. k \in 1 .. n + 1 /\ n # 0
      BY <1>1
    <3> QED
      BY <1>3, <1>4, <1>8, <2>1, <3>1, <3>2
  <2> QED
    BY <1>1, <1>2, <2>2, <2>3 DEF Gone
<1>10. n # 0 => w \in ReachableFrom(net, frames[n].node)
  <2> SUFFICES ASSUME n # 0 PROVE w \in ReachableFrom(net, frames[n].node)
    OBVIOUS
  <2>1. PICK i \in frames[n].edges : net[i].tgt = w
    BY <1>4, <1>8
  <2>2. i \in DOMAIN net /\ net[i].src = frames[n].node
    BY <1>8, <2>1 DEF Tarjan, Framed, Slots
  <2>3. net[i].src \in ReachableFrom(net, frames[n].node)
    BY <1>1, <2>2, ReachableSource
  <2> QED
    BY <2>1, <2>2, <2>3, ReachableBehind
<1>11. \A k \in 1 .. n + 1 : k \in 1 .. n \/ k = n + 1
  BY <1>1
<1> HIDE DEF n
<1>12. ComponentsTypeOK'
  <2>1. FrameOf' = FrameOf
    BY <1>2 DEF FrameOf
  <2>2. current_index' \in Nat
    BY <1>1, <1>2
  <2> QED
    BY <1>1, <1>2, <2>1, <2>2 DEF ComponentsTypeOK, IsComponents, FrameOf
<1>13. Counted'
  <2>1. \A v \in Node : index'[v] # None => /\ index'[v] < current_index'
                                            /\ lowlink'[v] # None /\ lowlink'[v] <= index'[v]
    <3> TAKE v \in Node
    <3>1. CASE v = w
      BY <1>1, <1>2, <3>1
    <3>2. CASE v # w
      BY <1>1, <1>2, <1>5, <3>2 DEF Tarjan, Counted
    <3> QED
      BY <3>1, <3>2
  <2>2. \A v \in Node : component[v] # None => index'[v] # None
    BY <1>2, <1>5
  <2> QED
    BY <1>2, <2>1, <2>2 DEF Tarjan, Counted
<1>14. Stacked'
  <2>1. /\ Len(stack') = Len(stack) + 1 /\ stack'[Len(stack) + 1] = w
        /\ \A k \in 1 .. Len(stack) : stack'[k] = stack[k]
    BY <1>2 DEF Longer
  <2>2. \A k \in 1 .. Len(stack') : k \in 1 .. Len(stack) \/ k = Len(stack) + 1
    BY <1>1, <2>1
  <2>3. \A k \in 1 .. Len(stack) : k \in 1 .. Len(stack') /\ Len(stack) + 1 \in 1 .. Len(stack')
    BY <1>1, <2>1
  <2>4. Len(stack) + 1 \in 1 .. Len(stack')
    BY <1>1, <2>1
  <2>5. \A v \in Node : OnStack(v) <=> \E k \in 1 .. Len(stack) : stack[k] = v
    BY <1>1 DEF OnStack
  <2>6. \A v \in Node : OnStack(v)' <=> \E k \in 1 .. Len(stack') : stack'[k] = v
    BY <1>2 DEF OnStack
  <2>7. \A v \in Node : OnStack(v)' <=> OnStack(v) \/ v = w
    <3> TAKE v \in Node
    <3>1. OnStack(v)' => OnStack(v) \/ v = w
      BY <2>1, <2>2, <2>5, <2>6
    <3>2. OnStack(v) => OnStack(v)'
      BY <2>1, <2>3, <2>5, <2>6
    <3>3. OnStack(w)'
      BY <2>1, <2>4, <2>6
    <3> QED
      BY <3>1, <3>2, <3>3
  <2>8. \A v \in Node : OnStack(v)' <=> Open(v)'
    BY <1>6, <2>7 DEF Tarjan, Stacked
  <2>9. ASSUME NEW j \in 1 .. Len(stack'), NEW k \in 1 .. Len(stack'), j < k
        PROVE  index'[stack'[j]] < index'[stack'[k]]
    <3>1. j \in 1 .. Len(stack)
      BY <1>1, <2>1, <2>9
    <3>2. stack'[j] = stack[j] /\ Open(stack[j]) /\ stack[j] \in Node
      BY <1>1, <2>1, <2>5, <3>1 DEF Tarjan, Stacked
    <3>3. index'[stack'[j]] = index[stack[j]] /\ index[stack[j]] < current_index
      BY <1>2, <1>5, <1>6, <3>2 DEF Open
    <3>4. CASE k = Len(stack) + 1
      BY <1>2, <2>1, <3>3, <3>4
    <3>5. CASE k \in 1 .. Len(stack)
      <4>1. stack'[k] = stack[k] /\ Open(stack[k]) /\ stack[k] \in Node
        BY <1>1, <2>1, <2>5, <3>5 DEF Tarjan, Stacked
      <4>2. index'[stack'[k]] = index[stack[k]]
        BY <1>2, <1>6, <4>1
      <4> QED
        BY <2>9, <3>1, <3>3, <3>5, <4>2 DEF Tarjan, Stacked
    <3> QED
      BY <2>2, <3>4, <3>5
  <2> QED
    BY <2>8, <2>9 DEF Stacked
<1>15. Framed'
  <2>1. ASSUME NEW j \in 1 .. n + 1, NEW k \in 1 .. n + 1, j < k
        PROVE  index'[frames'[j].node] < index'[frames'[k].node]
    <3>1. j \in 1 .. n
      BY <1>1, <2>1
    <3>2. index'[frames'[j].node] = index[frames[j].node] /\ index[frames[j].node] < current_index
      BY <1>2, <1>3, <1>7, <3>1
    <3>3. CASE k = n + 1
      BY <1>2, <1>3, <3>2, <3>3
    <3>4. CASE k \in 1 .. n
      <4>1. index'[frames'[k].node] = index[frames[k].node]
        BY <1>2, <1>3, <1>7, <3>4
      <4> QED
        BY <2>1, <3>1, <3>2, <3>4, <4>1 DEF Tarjan, Framed, n
    <3> QED
      BY <1>11, <3>3, <3>4
  <2>2. ASSUME NEW k \in 1 .. n + 1
        PROVE  Open(frames[k].node)' /\ frames'[k].edges \subseteq Slots(net, frames'[k].node)
    <3>1. CASE k = n + 1
      BY <1>2, <1>3, <1>6, <3>1 DEF Open
    <3>2. CASE k \in 1 .. n
      <4>1. Open(frames[k].node)'
        <5>1. frames[k].node \in Node /\ frames[k].node # w /\ Open(frames[k].node)
          BY <1>7, <3>2
        <5>2. index'[frames[k].node] # None /\ component'[frames[k].node] = None
          BY <1>2, <5>1 DEF Open
        <5> QED
          BY <1>3, <3>2, <5>2 DEF Open
      <4>2. frames'[k].edges \subseteq frames[k].edges
        BY <1>1, <1>3, <1>4, <1>8, <3>2
      <4>3. frames[k].edges \subseteq Slots(net, frames[k].node)
        BY <3>2 DEF Tarjan, Framed, n
      <4> QED
        BY <1>3, <3>2, <4>1, <4>2, <4>3
    <3> QED
      BY <1>11, <3>1, <3>2
  <2>3. ASSUME NEW k \in 1 .. n PROVE frames'[k].saved_neighbor = frames'[k + 1].node
    <3>1. CASE k = n
      BY <1>1, <1>3, <1>4, <1>8, <3>1
    <3>2. CASE k # n
      <4>1. k \in 1 .. n - 1 /\ k + 1 \in 1 .. n
        BY <1>1, <3>2
      <4> QED
        BY <1>3, <4>1 DEF Tarjan, Framed, n
    <3> QED
      BY <3>1, <3>2
  <2>4. ASSUME NEW x \in Node, Open(x)' PROVE frames' # <<>> /\ index'[frames'[1].node] <= index'[x]
    <3>1. frames' # <<>> /\ 1 \in 1 .. n + 1
      BY <1>1, <1>2, <1>3
    <3>2. CASE n = 0
      <4>1. frames = <<>> \/ Len(frames) # 0
        BY SccTyped
      <4>2. x = w
        BY <1>6, <2>4, <3>2, <4>1 DEF Tarjan, Framed, n
      <4> QED
        BY <1>1, <1>2, <1>3, <3>1, <3>2, <4>2
    <3>3. CASE n # 0
      <4>1. 1 \in 1 .. n
        BY <1>1, <3>3
      <4>2. index'[frames'[1].node] = index[frames[1].node] /\ index[frames[1].node] < current_index
            /\ index[frames[1].node] \in Nat
        BY <1>2, <1>3, <1>7, <4>1
      <4>3. CASE x = w
        BY <1>1, <1>2, <3>1, <4>2, <4>3
      <4>4. CASE x # w
        BY <1>2, <1>6, <2>4, <3>1, <4>2, <4>4 DEF Tarjan, Framed
      <4> QED
        BY <4>3, <4>4
    <3> QED
      BY <3>2, <3>3
  <2>5. Len(frames') = n + 1 /\ (n + 1) - 1 = n /\ net' = net
    BY <1>1, <1>2, <1>3
  <2>6. \A k \in 1 .. n + 1 : Open(frames[k].node)' /\ frames'[k].edges \subseteq Slots(net', frames'[k].node)
    BY <2>2, <2>5
  <2> QED
    BY <2>1, <2>3, <2>4, <2>5, <2>6 DEF Framed
<1>16. Trodden'
  <2>1. \A i \in DOMAIN net : Gone(i)' => index'[net[i].tgt] # None
    BY <1>1, <1>2, <1>9 DEF Tarjan, Trodden
  <2> QED
    BY <1>2, <2>1 DEF Tarjan, Trodden
<1>17. Lowest'
  <2> SUFFICES ASSUME NEW k \in 1 .. n + 1
               PROVE  \E y \in Node : /\ Open(y)' /\ index'[y] = lowlink'[frames'[k].node]
                                      /\ y \in ReachableFrom(net, frames'[k].node)
    BY <1>2, <1>3 DEF Lowest
  <2>1. CASE k = n + 1
    BY <1>2, <1>3, <1>6, <2>1, ReachableSource
  <2>2. CASE k \in 1 .. n
    <3>1. PICK y \in Node : Open(y) /\ index[y] = lowlink[frames[k].node] /\ y \in ReachableFrom(net, frames[k].node)
      BY <2>2 DEF Tarjan, Lowest, n
    <3>2. y # w /\ Open(y)'
      BY <1>6, <3>1
    <3> QED
      BY <1>2, <1>3, <1>7, <2>2, <3>1, <3>2
  <2> QED
    BY <1>11, <2>1, <2>2
<1>18. Backs'
  <2> SUFFICES ASSUME NEW k \in 1 .. n + 1, NEW i \in DOMAIN net, Gone(i)', Open(net[i].tgt)',
                      index'[frames'[k].node] <= index'[net[i].src]
               PROVE  \E m \in k .. n + 1 : lowlink'[frames'[m].node] <= index'[net[i].tgt]
    BY <1>2, <1>3 DEF Backs
  <2>1. k \in Nat /\ k <= n + 1 /\ n + 1 \in k .. n + 1
    BY <1>1
  <2>2. CASE net[i].tgt = w
    BY <1>1, <1>2, <1>3, <2>1, <2>2
  <2>3. CASE net[i].tgt # w
    <3>1. Gone(i) /\ index[net[i].src] # None /\ net[i].src \in Node /\ net[i].tgt \in Node
      BY <1>1, <1>9, <2>3 DEF Gone
    <3>2. net[i].src # w /\ index'[net[i].src] = index[net[i].src] /\ index[net[i].src] < current_index
          /\ index[net[i].src] \in Nat
      BY <1>2, <1>5, <3>1
    <3>3. k \in 1 .. n
      <4>1. k # n + 1
        BY <1>1, <1>2, <1>3, <3>2
      <4> QED
        BY <1>11, <4>1
    <3>4. Open(net[i].tgt) /\ index'[net[i].tgt] = index[net[i].tgt]
      BY <1>2, <1>6, <2>3, <3>1
    <3>5. index[frames[k].node] <= index[net[i].src]
      BY <1>2, <1>3, <1>7, <3>2, <3>3
    <3>6. PICK m \in k .. n : lowlink[frames[m].node] <= index[net[i].tgt]
      BY <3>1, <3>3, <3>4, <3>5 DEF Tarjan, Backs, n
    <3>7. m \in 1 .. n /\ m \in k .. n + 1
      BY <1>1, <2>1, <3>3, <3>6
    <3>8. lowlink'[frames'[m].node] = lowlink[frames[m].node]
      BY <1>2, <1>3, <1>7, <3>7
    <3> QED
      BY <3>4, <3>6, <3>7, <3>8
  <2> QED
    BY <2>2, <2>3
<1>19. Climbs'
  <2> SUFFICES ASSUME NEW x \in Node, Open(x)'
               PROVE  \/ \E k \in 1 .. n + 1 : frames'[k].node = x
                      \/ \E y \in Node : Open(y)' /\ index'[y] < index'[x] /\ y \in ReachableFrom(net, x)
    BY <1>2, <1>3 DEF Climbs
  <2>1. CASE x = w
    <3>1. n + 1 \in 1 .. n + 1
      BY <1>1
    <3> QED
      BY <1>3, <2>1, <3>1
  <2>2. CASE x # w
    <3>1. Open(x) /\ index'[x] = index[x]
      BY <1>2, <1>6, <2>2
    <3>2. CASE \E k \in 1 .. Len(frames) : frames[k].node = x
      <4>1. PICK k \in 1 .. n : frames[k].node = x
        BY <3>2 DEF n
      <4>2. k \in 1 .. n + 1
        BY <1>1
      <4> QED
        BY <1>3, <4>1, <4>2
    <3>3. CASE \E y \in Node : Open(y) /\ index[y] < index[x] /\ y \in ReachableFrom(net, x)
      <4>1. PICK y \in Node : Open(y) /\ index[y] < index[x] /\ y \in ReachableFrom(net, x)
        BY <3>3
      <4>2. y # w
        BY <1>6, <4>1
      <4> QED
        BY <1>2, <1>6, <3>1, <4>1, <4>2
    <3> QED
      BY <3>1, <3>2, <3>3 DEF Tarjan, Climbs
  <2> QED
    BY <2>1, <2>2
<1>20. Spans'
  <2> SUFFICES ASSUME NEW k \in 1 .. n + 1, NEW x \in Node, Open(x)', index'[frames'[k].node] <= index'[x]
               PROVE  x \in ReachableFrom(net, frames'[k].node)
    BY <1>2, <1>3 DEF Spans
  <2>1. CASE k = n + 1
    <3>1. x = w
      BY <1>1, <1>2, <1>3, <1>5, <1>6, <2>1 DEF Open
    <3> QED
      BY <1>3, <2>1, <3>1, ReachableSource
  <2>2. CASE k \in 1 .. n
    <3>1. frames'[k].node = frames[k].node /\ index'[frames[k].node] = index[frames[k].node]
      BY <1>2, <1>3, <1>7, <2>2
    <3>2. CASE x # w
      BY <1>2, <1>6, <2>2, <3>1, <3>2 DEF Tarjan, Spans, n
    <3>3. CASE x = w
      <4>1. n # 0 /\ n \in 1 .. n /\ k \in Nat /\ k <= n
        BY <1>1, <2>2
      <4>2. index[frames[k].node] <= index[frames[n].node]
        <5>1. k = n \/ k < n
          BY <1>1, <4>1
        <5>2. k < n => index[frames[k].node] < index[frames[n].node]
          BY <2>2, <4>1 DEF Tarjan, Framed, n
        <5> QED
          BY <1>7, <2>2, <4>1, <5>1, <5>2
      <4>3. frames[n].node \in ReachableFrom(net, frames[k].node)
        BY <1>7, <2>2, <4>1, <4>2 DEF Tarjan, Spans, n
      <4> QED
        BY <1>10, <3>1, <3>3, <4>1, <4>3, ReachableOn
    <3> QED
      BY <3>2, <3>3
  <2> QED
    BY <1>11, <2>1, <2>2
<1>21. Classes'
  BY <1>2 DEF Tarjan, Classes
<1> QED
  BY <1>12, <1>13, <1>14, <1>15, <1>16, <1>17, <1>18, <1>19, <1>20, <1>21 DEF Tarjan

\* An edge to a node that was entered before is looked at.
LEMMA TarjanSees ==
  ASSUME CsrTypeOK, ComponentsTypeOK, algo = "scc", Tarjan, NEW i \in DOMAIN net, Sees(i),
         next' \in Node \cup {None}
  PROVE  ComponentsTypeOK' /\ Tarjan'
<1> DEFINE n == Len(frames)
           g == frames[n].node
           w == net[i].tgt
<1>1. /\ component \in [Node -> Num] /\ index \in [Node -> Num] /\ lowlink \in [Node -> Num]
      /\ count \in Nat /\ current_index \in Nat /\ n \in Nat /\ None \notin Nat /\ Node \in SUBSET Nat
      /\ stack \in Seq(Node)
      /\ \A k \in 1 .. n : frames[k].node \in Node /\ frames[k].edges \in SUBSET DOMAIN net
      /\ \A j \in DOMAIN net : net[j].src \in Node /\ net[j].tgt \in Node
      /\ frames # <<>> => n # 0
  BY SccTyped
<1>2. /\ n \in 1 .. n /\ i \in frames[n].edges /\ index[w] # None /\ w \in Node
      /\ UNCHANGED <<net, algo, component, count, index, current_index, stack>>
  BY <1>1 DEF Sees
<1>3. /\ Len(frames') = n /\ frames' \in Seq(FrameOf)
      /\ \A k \in 1 .. n - 1 : frames'[k] = frames[k]
      /\ frames'[n].node = frames[n].node /\ frames'[n].edges = frames[n].edges \ {i}
  BY DEF Sees
<1>4. /\ \A v \in Node : index[v] # None => index[v] \in Nat /\ lowlink[v] \in Nat
      /\ \A v \in Node : OnStack(v) <=> Open(v)
      /\ \A k \in 1 .. n : Open(frames[k].node)
  BY <1>1 DEF Tarjan, Counted, Stacked, Framed, Num
<1>5. /\ g \in Node /\ index[g] \in Nat /\ lowlink[g] \in Nat
      /\ \A k \in 1 .. n - 1 : frames[k].node # g
  <2>1. g \in Node /\ Open(g)
    BY <1>1, <1>2, <1>4
  <2>2. index[g] \in Nat /\ lowlink[g] \in Nat
    BY <1>4, <2>1 DEF Open
  <2>3. \A k \in 1 .. n - 1 : k \in 1 .. n /\ k < n
    BY <1>1
  <2>4. \A k \in 1 .. n - 1 : index[frames[k].node] < index[g]
    BY <1>2, <2>3 DEF Tarjan, Framed
  <2> QED
    BY <2>1, <2>2, <2>4
<1> HIDE DEF g, w, n
<1>6. /\ lowlink' \in [Node -> Num] /\ \A v \in Node : v # g => lowlink'[v] = lowlink[v]
      /\ lowlink'[g] \in Nat /\ lowlink'[g] <= lowlink[g]
      /\ lowlink'[g] = lowlink[g] \/ (Open(w) /\ lowlink'[g] = index[w])
      /\ Open(w) => lowlink'[g] <= index[w]
  <2>1. CASE Open(w)
    <3>1. lowlink' = [lowlink EXCEPT ![g] = IF index[w] < lowlink[g] THEN index[w] ELSE lowlink[g]]
      BY <1>2, <1>4, <2>1 DEF Sees, Lower, g, w, n
    <3>2. index[w] \in Nat
      BY <1>2, <1>4
    <3> QED
      BY <1>1, <1>5, <2>1, <3>1, <3>2 DEF Num
  <2>2. CASE ~Open(w)
    <3>1. lowlink' = lowlink
      BY <1>2, <1>4, <2>2 DEF Sees, w
    <3> QED
      BY <1>1, <1>5, <2>2, <3>1
  <2> QED
    BY <2>1, <2>2
<1>7. \A k \in 1 .. n : frames'[k].node = frames[k].node /\ frames'[k].edges \subseteq frames[k].edges
  <2> TAKE k \in 1 .. n
  <2>1. k = n \/ k \in 1 .. n - 1
    BY <1>1
  <2> QED
    BY <1>3, <2>1
<1>8. \A x \in Node : Open(x)' <=> Open(x)
  BY <1>2 DEF Open
<1>9. \A j \in DOMAIN net : Gone(j)' => Gone(j) \/ j = i
  <2> SUFFICES ASSUME NEW j \in DOMAIN net, Gone(j)', j # i PROVE Gone(j)
    OBVIOUS
  <2>1. index[net[j].src] # None /\ \A k \in 1 .. n : j \notin frames'[k].edges
    BY <1>2, <1>3 DEF Gone
  <2>2. \A k \in 1 .. n : k = n \/ k \in 1 .. n - 1
    BY <1>1
  <2> QED
    BY <1>3, <2>1, <2>2 DEF Gone, n
<1>10. \A v \in Node : index[v] # None => lowlink'[v] \in Nat /\ lowlink'[v] <= lowlink[v]
  BY <1>4, <1>5, <1>6
<1>11. net[i].src = g /\ w \in ReachableFrom(net, g)
  <2>1. net[i].src = g
    BY <1>2 DEF Tarjan, Framed, Slots, g, n
  <2> QED
    BY <1>2, <1>5, <2>1, ReachableSource, ReachableBehind DEF w
<1>12. ComponentsTypeOK'
  <2>1. FrameOf' = FrameOf
    BY <1>2 DEF FrameOf
  <2> QED
    BY <1>1, <1>2, <1>3, <1>6, <2>1 DEF ComponentsTypeOK, IsComponents, FrameOf
<1>13. Counted'
  <2>1. \A v \in Node : index[v] # None => lowlink'[v] # None /\ lowlink'[v] <= index[v]
    <3> TAKE v \in Node
    <3>1. index[v] # None => lowlink[v] <= index[v] /\ index[v] \in Nat /\ lowlink[v] \in Nat
      BY <1>4 DEF Tarjan, Counted
    <3> QED
      BY <1>1, <1>10, <3>1
  <2> QED
    BY <1>2, <2>1 DEF Tarjan, Counted
<1>14. Stacked'
  BY <1>2, <1>8 DEF Tarjan, Stacked, OnStack, Open
<1>15. Framed'
  <2>1. \A j, k \in 1 .. n : j < k => index[frames'[j].node] < index[frames'[k].node]
    BY <1>7 DEF Tarjan, Framed, n
  <2>2. \A k \in 1 .. n : /\ index[frames'[k].node] # None /\ component[frames'[k].node] = None
                          /\ frames'[k].edges \subseteq Slots(net, frames'[k].node)
    BY <1>7 DEF Tarjan, Framed, Open, n
  <2>3. \A k \in 1 .. n - 1 : frames'[k].saved_neighbor = frames'[k + 1].node
    <3> TAKE k \in 1 .. n - 1
    <3>1. k + 1 \in 1 .. n
      BY <1>1
    <3> QED
      BY <1>3, <1>7, <3>1 DEF Tarjan, Framed, n
  <2>4. \A x \in Node : Open(x) => frames' # <<>> /\ index[frames'[1].node] <= index[x]
    <3>1. frames' # <<>> /\ 1 \in 1 .. n
      BY <1>1, <1>2, <1>3
    <3> QED
      BY <1>7, <3>1 DEF Tarjan, Framed
  <2> QED
    BY <1>2, <1>3, <2>1, <2>2, <2>3, <2>4 DEF Framed, Open
<1>16. Trodden'
  <2>1. \A j \in DOMAIN net : Gone(j)' => index[net[j].tgt] # None
    BY <1>2, <1>9 DEF Tarjan, Trodden, w
  <2> QED
    BY <1>2, <2>1 DEF Tarjan, Trodden
<1>17. Lowest'
  <2> SUFFICES ASSUME NEW k \in 1 .. n
               PROVE  \E y \in Node : /\ Open(y) /\ index[y] = lowlink'[frames[k].node]
                                      /\ y \in ReachableFrom(net, frames[k].node)
    BY <1>2, <1>3, <1>7, <1>8 DEF Lowest
  <2>1. PICK y \in Node : Open(y) /\ index[y] = lowlink[frames[k].node] /\ y \in ReachableFrom(net, frames[k].node)
    BY DEF Tarjan, Lowest, n
  <2>2. CASE lowlink'[frames[k].node] = lowlink[frames[k].node]
    BY <2>1, <2>2
  <2>3. CASE lowlink'[frames[k].node] # lowlink[frames[k].node]
    <3>1. frames[k].node = g /\ Open(w) /\ lowlink'[g] = index[w]
      <4>1. frames[k].node \in Node
        BY <1>1
      <4>2. frames[k].node = g
        BY ONLY <1>6, <2>3, <4>1
      <4> QED
        BY ONLY <1>6, <2>3, <4>2
    <3> QED
      BY <1>2, <1>11, <3>1
  <2> QED
    BY <2>2, <2>3
<1>18. Backs'
  <2> SUFFICES ASSUME NEW k \in 1 .. n, NEW j \in DOMAIN net, Gone(j)', Open(net[j].tgt)',
                      index[frames'[k].node] <= index[net[j].src]
               PROVE  \E m \in k .. n : lowlink'[frames'[m].node] <= index[net[j].tgt]
    BY <1>2, <1>3 DEF Backs
  <2>1. k \in Nat /\ k <= n /\ k >= 1 /\ n \in k .. n
    BY <1>1
  <2>2. Open(net[j].tgt) /\ index[frames[k].node] <= index[net[j].src]
    BY <1>2, <1>7 DEF Open
  <2>3. CASE j = i
    BY <1>6, <1>7, <2>1, <2>2, <2>3 DEF g, w
  <2>4. CASE j # i
    <3>1. Gone(j)
      BY <1>9, <2>4
    <3>2. PICK m \in k .. n : lowlink[frames[m].node] <= index[net[j].tgt]
      BY <2>2, <3>1 DEF Tarjan, Backs, n
    <3>3. m \in 1 .. n /\ frames[m].node \in Node
      BY <1>1, <2>1, <3>2
    <3>4. lowlink'[frames[m].node] <= lowlink[frames[m].node] /\ lowlink'[frames[m].node] \in Nat
          /\ lowlink[frames[m].node] \in Nat /\ index[net[j].tgt] \in Nat
      BY <1>1, <1>4, <1>10, <2>2, <3>3 DEF Open
    <3>5. lowlink'[frames[m].node] <= index[net[j].tgt]
      BY ONLY <3>2, <3>4
    <3> QED
      BY <1>7, <3>2, <3>3, <3>5
  <2> QED
    BY <2>3, <2>4
<1>19. Climbs'
  <2> SUFFICES ASSUME NEW x \in Node, Open(x)
               PROVE  \/ \E k \in 1 .. n : frames[k].node = x
                      \/ \E y \in Node : Open(y) /\ index[y] < index[x] /\ y \in ReachableFrom(net, x)
    BY <1>2, <1>3, <1>7, <1>8 DEF Climbs
  <2> QED
    BY DEF Tarjan, Climbs, n
<1>20. Spans'
  <2> SUFFICES ASSUME NEW k \in 1 .. n, NEW x \in Node, Open(x), index[frames[k].node] <= index[x]
               PROVE  x \in ReachableFrom(net, frames[k].node)
    BY <1>2, <1>3, <1>7, <1>8 DEF Spans
  <2> QED
    BY DEF Tarjan, Spans, n
<1>21. Classes'
  BY <1>2 DEF Tarjan, Classes
<1> QED
  BY <1>12, <1>13, <1>14, <1>15, <1>16, <1>17, <1>18, <1>19, <1>20, <1>21 DEF Tarjan

\* What a frame that is left does to the lowlink of the one below it, and to the
\* edges that were looked at: nothing, as its own have been.
LEMMA FoldIs ==
  ASSUME CsrTypeOK, ComponentsTypeOK, algo = "scc", Tarjan, NEW v \in Node, Leaves(v)
  PROVE  LET n == Len(frames)
             u == frames[n - 1].node
         IN /\ n \in Nat /\ n \in 1 .. n /\ frames[n].node = v /\ Open(v)
            /\ index[v] \in Nat /\ lowlink[v] \in Nat /\ lowlink[v] <= index[v]
            /\ lowlink' \in [Node -> Num]
            /\ n = 1 => lowlink' = lowlink
            /\ n # 1 => /\ n - 1 \in 1 .. n - 1 /\ n - 1 \in 1 .. n /\ u \in Node /\ Open(u)
                        /\ index[u] \in Nat /\ lowlink[u] \in Nat /\ lowlink[u] <= index[u]
                        /\ index[u] < index[v]
                        /\ \A x \in Node : x # u => lowlink'[x] = lowlink[x]
                        /\ lowlink'[u] = lowlink[u] \/ lowlink'[u] = lowlink[v]
                        /\ lowlink'[u] \in Nat /\ lowlink'[u] <= lowlink[u] /\ lowlink'[u] <= lowlink[v]
                        /\ lowlink[u] <= lowlink[v] => lowlink' = lowlink
            /\ \A x \in Node : index[x] # None => lowlink'[x] \in Nat /\ lowlink'[x] <= lowlink[x]
            /\ \A i \in DOMAIN net : Gone(i)' <=> Gone(i)
<1> DEFINE n == Len(frames)
           u == frames[n - 1].node
<1>1. /\ index \in [Node -> Num] /\ lowlink \in [Node -> Num] /\ n \in Nat /\ None \notin Nat
      /\ \A k \in 1 .. n : frames[k].node \in Node
  BY SccTyped
<1>2. /\ n \in 1 .. n /\ frames[n].node = v /\ frames[n].edges = {} /\ lowlink' = Fold(v)
      /\ Len(frames') = n - 1 /\ \A k \in 1 .. n - 1 : frames'[k] = frames[k]
      /\ UNCHANGED <<net, index>>
  <2>1. frames # <<>> => n # 0
    BY SccTyped
  <2> QED
    BY <1>1, <2>1 DEF Leaves
<1>3. \A x \in Node : index[x] # None => /\ index[x] \in Nat /\ lowlink[x] \in Nat /\ lowlink[x] <= index[x]
  BY <1>1 DEF Tarjan, Counted, Num
<1>4. Open(v) /\ index[v] \in Nat /\ lowlink[v] \in Nat /\ lowlink[v] <= index[v]
  <2>1. Open(v)
    BY <1>2 DEF Tarjan, Framed
  <2> QED
    BY <1>3, <2>1 DEF Open
<1>5. n # 1 => /\ n - 1 \in 1 .. n - 1 /\ n - 1 \in 1 .. n /\ n - 1 < n /\ n >= 2 /\ u \in Node /\ Open(u)
               /\ index[u] \in Nat /\ lowlink[u] \in Nat /\ lowlink[u] <= index[u]
               /\ index[u] < index[v] /\ frames[n - 1].saved_neighbor = v
  <2> SUFFICES ASSUME n # 1
               PROVE  /\ n - 1 \in 1 .. n - 1 /\ n - 1 \in 1 .. n /\ n - 1 < n /\ n >= 2 /\ u \in Node /\ Open(u)
                      /\ index[u] \in Nat /\ lowlink[u] \in Nat /\ lowlink[u] <= index[u]
                      /\ index[u] < index[v] /\ frames[n - 1].saved_neighbor = v
    OBVIOUS
  <2>1. n - 1 \in 1 .. n - 1 /\ n - 1 \in 1 .. n /\ n - 1 < n /\ n >= 2 /\ (n - 1) + 1 = n
    BY <1>1, <1>2
  <2>2. u \in Node /\ Open(u)
    BY <1>1, <2>1 DEF Tarjan, Framed
  <2>3. index[u] \in Nat /\ lowlink[u] \in Nat /\ lowlink[u] <= index[u]
    BY <1>3, <2>2 DEF Open
  <2>4. index[u] < index[v]
    BY <1>2, <2>1 DEF Tarjan, Framed
  <2>5. frames[n - 1].saved_neighbor = frames[(n - 1) + 1].node
    BY <2>1 DEF Tarjan, Framed
  <2> QED
    BY <1>2, <2>1, <2>2, <2>3, <2>4, <2>5
<1>6. n = 1 => lowlink' = lowlink
  BY <1>2 DEF Fold
<1>7. n # 1 => lowlink' = [lowlink EXCEPT ![u] = IF lowlink[v] < lowlink[u] THEN lowlink[v] ELSE lowlink[u]]
  BY <1>1, <1>2, <1>5 DEF Fold, Lower
<1> HIDE DEF n, u
<1>8. n # 1 => /\ \A x \in Node : x # u => lowlink'[x] = lowlink[x]
               /\ lowlink'[u] = lowlink[u] \/ lowlink'[u] = lowlink[v]
               /\ lowlink'[u] \in Nat /\ lowlink'[u] <= lowlink[u] /\ lowlink'[u] <= lowlink[v]
  BY <1>1, <1>4, <1>5, <1>7
<1>9. n # 1 => (lowlink[u] <= lowlink[v] => lowlink' = lowlink)
  <2> SUFFICES ASSUME n # 1, lowlink[u] <= lowlink[v] PROVE lowlink' = lowlink
    OBVIOUS
  <2>1. ~(lowlink[v] < lowlink[u])
    BY <1>4, <1>5
  <2>2. lowlink' = [lowlink EXCEPT ![u] = lowlink[u]]
    BY <1>7, <2>1
  <2> QED
    BY <1>1, <2>2
<1>10. lowlink' \in [Node -> Num]
  BY <1>1, <1>4, <1>5, <1>6, <1>7 DEF Num
<1>11. \A x \in Node : index[x] # None => lowlink'[x] \in Nat /\ lowlink'[x] <= lowlink[x]
  <2> TAKE x \in Node
  <2>1. CASE n = 1
    BY <1>3, <1>6, <2>1
  <2>2. CASE n # 1 /\ x = u
    BY <1>8, <2>2
  <2>3. CASE n # 1 /\ x # u
    BY <1>3, <1>8, <2>3
  <2> QED
    BY <2>1, <2>2, <2>3
<1>12. \A i \in DOMAIN net : Gone(i)' <=> Gone(i)
  <2> TAKE i \in DOMAIN net
  <2>1. (\A k \in 1 .. n - 1 : i \notin frames'[k].edges) <=> (\A k \in 1 .. n : i \notin frames[k].edges)
    <3>1. \A k \in 1 .. n : k = n \/ k \in 1 .. n - 1
      BY <1>1
    <3>2. \A k \in 1 .. n - 1 : k \in 1 .. n
      BY <1>1
    <3> QED
      BY <1>2, <3>1, <3>2
  <2> QED
    BY <1>2, <2>1 DEF Gone, n
<1> QED
  BY <1>1, <1>2, <1>4, <1>5, <1>6, <1>8, <1>9, <1>10, <1>11, <1>12 DEF n, u

\* A frame is left whose node is not the first of its component.
LEMMA TarjanFolds ==
  ASSUME CsrTypeOK, ComponentsTypeOK, algo = "scc", Tarjan, NEW v \in Node, Leaves(v),
         lowlink[v] # index[v], next' \in Node \cup {None}
  PROVE  ComponentsTypeOK' /\ Tarjan'
<1> DEFINE n == Len(frames)
           u == frames[n - 1].node
<1>1. /\ component \in [Node -> Num] /\ index \in [Node -> Num] /\ lowlink \in [Node -> Num]
      /\ count \in Nat /\ current_index \in Nat /\ None \notin Nat
      /\ stack \in Seq(Node)
      /\ \A k \in 1 .. n : frames[k].node \in Node
  BY SccTyped
<1>2. /\ UNCHANGED <<net, algo, component, count, index, current_index, stack>>
      /\ Len(frames') = n - 1 /\ frames' \in Seq(FrameOf)
      /\ \A k \in 1 .. n - 1 : frames'[k] = frames[k]
  BY DEF Leaves
<1>3. /\ n \in Nat /\ n \in 1 .. n /\ frames[n].node = v /\ Open(v)
      /\ index[v] \in Nat /\ lowlink[v] \in Nat /\ lowlink[v] <= index[v]
      /\ lowlink' \in [Node -> Num]
      /\ \A x \in Node : index[x] # None => lowlink'[x] \in Nat /\ lowlink'[x] <= lowlink[x]
      /\ \A i \in DOMAIN net : Gone(i)' <=> Gone(i)
  BY FoldIs
<1>4. lowlink[v] < index[v]
  BY <1>3
<1>5. PICK low \in Node : Open(low) /\ index[low] = lowlink[v] /\ low \in ReachableFrom(net, v)
  BY <1>3 DEF Tarjan, Lowest
<1>6. n # 1
  <2> SUFFICES ASSUME n = 1 PROVE FALSE
    OBVIOUS
  <2>1. index[v] <= index[low]
    BY <1>3, <1>5 DEF Tarjan, Framed
  <2> QED
    BY <1>3, <1>4, <1>5, <2>1
<1>7. /\ n - 1 \in 1 .. n - 1 /\ n - 1 \in 1 .. n /\ u \in Node /\ Open(u)
      /\ index[u] \in Nat /\ lowlink[u] \in Nat /\ lowlink[u] <= index[u] /\ index[u] < index[v]
      /\ \A x \in Node : x # u => lowlink'[x] = lowlink[x]
      /\ lowlink'[u] = lowlink[u] \/ lowlink'[u] = lowlink[v]
      /\ lowlink'[u] \in Nat /\ lowlink'[u] <= lowlink[v]
  BY <1>6, FoldIs
<1>8. \A x \in Node : Open(x)' <=> Open(x)
  BY <1>2 DEF Open
<1>9. \A k \in 1 .. n - 1 : k \in 1 .. n /\ frames'[k].node = frames[k].node
  BY <1>2, <1>3
<1>10. \A x \in Node : index[x] # None => index[x] \in Nat /\ lowlink[x] \in Nat /\ lowlink[x] <= index[x]
  BY <1>1 DEF Tarjan, Counted, Num
<1> HIDE DEF n, u
<1>11. ComponentsTypeOK'
  <2>1. FrameOf' = FrameOf
    BY <1>2 DEF FrameOf
  <2> QED
    BY <1>1, <1>2, <1>3, <2>1 DEF ComponentsTypeOK, IsComponents, FrameOf
<1>12. Counted'
  <2>1. \A x \in Node : index[x] # None => lowlink'[x] # None /\ lowlink'[x] <= index[x]
    <3> TAKE x \in Node
    <3>1. index[x] # None => /\ index[x] \in Nat /\ lowlink[x] \in Nat /\ lowlink[x] <= index[x]
                             /\ lowlink'[x] \in Nat /\ lowlink'[x] <= lowlink[x]
      BY <1>3, <1>10
    <3> QED
      BY <1>1, <3>1
  <2> QED
    BY <1>2, <2>1 DEF Tarjan, Counted
<1>13. Stacked'
  BY <1>2, <1>8 DEF Tarjan, Stacked, OnStack, Open
<1>14. Framed'
  <2>1. \A j, k \in 1 .. n - 1 : j < k => index[frames'[j].node] < index[frames'[k].node]
    BY <1>9 DEF Tarjan, Framed, n
  <2>2. \A k \in 1 .. n - 1 : /\ index[frames'[k].node] # None /\ component[frames'[k].node] = None
                              /\ frames'[k].edges \subseteq Slots(net, frames'[k].node)
    BY <1>2, <1>9 DEF Tarjan, Framed, Open, n
  <2>3. \A k \in 1 .. (n - 1) - 1 : frames'[k].saved_neighbor = frames'[k + 1].node
    <3> TAKE k \in 1 .. (n - 1) - 1
    <3>1. k \in 1 .. n - 1 /\ k + 1 \in 1 .. n - 1
      BY <1>3
    <3> QED
      BY <1>2, <3>1 DEF Tarjan, Framed, n
  <2>4. \A x \in Node : Open(x) => frames' # <<>> /\ index[frames'[1].node] <= index[x]
    <3>1. frames' # <<>> /\ 1 \in 1 .. n - 1
      BY <1>2, <1>3, <1>7
    <3> QED
      BY <1>9, <3>1 DEF Tarjan, Framed
  <2> QED
    BY <1>2, <2>1, <2>2, <2>3, <2>4 DEF Framed, Open
<1>15. Trodden'
  <2>1. \A j \in DOMAIN net : Gone(j)' => index[net[j].tgt] # None
    BY <1>3 DEF Tarjan, Trodden
  <2> QED
    BY <1>2, <2>1 DEF Tarjan, Trodden
<1>16. Lowest'
  <2> SUFFICES ASSUME NEW k \in 1 .. n - 1
               PROVE  \E y \in Node : /\ Open(y) /\ index[y] = lowlink'[frames[k].node]
                                      /\ y \in ReachableFrom(net, frames[k].node)
    BY <1>2, <1>8, <1>9 DEF Lowest
  <2>1. PICK y \in Node : Open(y) /\ index[y] = lowlink[frames[k].node] /\ y \in ReachableFrom(net, frames[k].node)
    BY <1>9 DEF Tarjan, Lowest, n
  <2>2. CASE lowlink'[frames[k].node] = lowlink[frames[k].node]
    BY <2>1, <2>2
  <2>3. CASE lowlink'[frames[k].node] # lowlink[frames[k].node]
    <3>1. frames[k].node = u /\ lowlink'[u] = lowlink[v]
      BY <1>1, <1>7, <1>9, <2>3
    <3>2. v \in ReachableFrom(net, u)
      <4>1. index[u] <= index[v]
        BY <1>3, <1>7
      <4> QED
        BY <1>3, <1>7, <4>1 DEF Tarjan, Spans, n, u
    <3> QED
      BY <1>5, <3>1, <3>2, ReachableOn
  <2> QED
    BY <2>2, <2>3
<1>17. Backs'
  <2> SUFFICES ASSUME NEW k \in 1 .. n - 1, NEW j \in DOMAIN net, Gone(j)', Open(net[j].tgt)',
                      index[frames'[k].node] <= index[net[j].src]
               PROVE  \E m \in k .. n - 1 : lowlink'[frames'[m].node] <= index[net[j].tgt]
    BY <1>2 DEF Backs
  <2>1. k \in Nat /\ k <= n - 1 /\ k >= 1 /\ k \in 1 .. n /\ n - 1 \in k .. n - 1
    BY <1>3
  <2>2. Gone(j) /\ Open(net[j].tgt) /\ index[frames[k].node] <= index[net[j].src]
    BY <1>2, <1>3, <1>9 DEF Open
  <2>3. PICK m \in k .. n : lowlink[frames[m].node] <= index[net[j].tgt]
    BY <2>1, <2>2 DEF Tarjan, Backs, n
  <2>4. index[net[j].tgt] \in Nat
    <3>1. net[j].tgt \in Node
      BY SccTyped
    <3> QED
      BY <1>10, <2>2, <3>1 DEF Open
  <2>5. CASE m = n
    <3>1. lowlink'[u] <= index[net[j].tgt]
      BY <1>3, <1>7, <2>3, <2>4, <2>5
    <3> QED
      BY <1>9, <2>1, <3>1 DEF u
  <2>6. CASE m # n
    <3>1. m \in k .. n - 1 /\ m \in 1 .. n - 1
      BY <1>3, <2>1, <2>3, <2>6
    <3>2. frames[m].node \in Node /\ Open(frames[m].node)
      BY <1>1, <1>9, <3>1 DEF Tarjan, Framed, n
    <3>3. lowlink'[frames[m].node] \in Nat /\ lowlink'[frames[m].node] <= lowlink[frames[m].node]
          /\ lowlink[frames[m].node] \in Nat
      BY <1>3, <1>10, <3>2 DEF Open
    <3>4. lowlink'[frames[m].node] <= index[net[j].tgt]
      BY ONLY <2>3, <2>4, <3>3
    <3> QED
      BY <1>9, <3>1, <3>4
  <2> QED
    BY <2>5, <2>6
<1>18. Climbs'
  <2> SUFFICES ASSUME NEW x \in Node, Open(x)
               PROVE  \/ \E k \in 1 .. n - 1 : frames[k].node = x
                      \/ \E y \in Node : Open(y) /\ index[y] < index[x] /\ y \in ReachableFrom(net, x)
    BY <1>2, <1>8, <1>9 DEF Climbs
  <2>1. CASE x = v
    BY <1>4, <1>5, <2>1
  <2>2. CASE x # v
    <3>1. \A k \in 1 .. n : k = n \/ k \in 1 .. n - 1
      BY <1>3
    <3> QED
      BY <1>3, <2>2, <3>1 DEF Tarjan, Climbs, n
  <2> QED
    BY <2>1, <2>2
<1>19. Spans'
  <2> SUFFICES ASSUME NEW k \in 1 .. n - 1, NEW x \in Node, Open(x), index[frames[k].node] <= index[x]
               PROVE  x \in ReachableFrom(net, frames[k].node)
    BY <1>2, <1>8, <1>9 DEF Spans
  <2> QED
    BY <1>9 DEF Tarjan, Spans, n
<1>20. Classes'
  BY <1>2 DEF Tarjan, Classes
<1> QED
  BY <1>11, <1>12, <1>13, <1>14, <1>15, <1>16, <1>17, <1>18, <1>19, <1>20 DEF Tarjan

\* The nodes on the stack from v up, and those that have a component.
Piece(v) == {x \in Node : Open(x) /\ index[v] <= index[x]}
Old == {x \in Node : component[x] # None}

\* What the stack is popped to, and what is numbered.
LEMMA PopIs ==
  ASSUME CsrTypeOK, ComponentsTypeOK, algo = "scc", Tarjan, NEW v \in Node, Open(v), PopStack(v)
  PROVE  /\ component' \in [Node -> Num] /\ count' = count + 1
         /\ \A x \in Node : component'[x] = IF x \in Piece(v) THEN count ELSE component[x]
         /\ stack' \in Seq(Node)
         /\ \E k \in 1 .. Len(stack) : /\ stack[k] = v /\ Len(stack') = k - 1
                                       /\ \A j \in 1 .. k - 1 : stack'[j] = stack[j]
<1> DEFINE n == Len(stack)
           k == CHOOSE m \in DOMAIN stack : stack[m] = v
<1>1. /\ component \in [Node -> Num] /\ index \in [Node -> Num] /\ count \in Nat
      /\ stack \in Seq(Node) /\ n \in Nat /\ DOMAIN stack = 1 .. n /\ \A m \in 1 .. n : stack[m] \in Node
  BY SccTyped
<1>2. k \in 1 .. n /\ stack[k] = v
  <2>1. \E m \in DOMAIN stack : stack[m] = v
    BY DEF Tarjan, Stacked, OnStack
  <2> QED
    BY <1>1, <2>1
<1>3. /\ stack' = SubSeq(stack, 1, k - 1) /\ count' = count + 1
      /\ component' = [u \in Node |-> IF \E m \in k .. n : stack[m] = u THEN count ELSE component[u]]
  BY DEF PopStack, NewNumber
<1> HIDE DEF n, k
<1>4. \A x \in Node : (\E m \in k .. n : stack[m] = x) <=> x \in Piece(v)
  <2> TAKE x \in Node
  <2>1. ASSUME NEW m \in k .. n, stack[m] = x PROVE x \in Piece(v)
    <3>1. m \in 1 .. n /\ (m = k \/ k < m)
      BY <1>1, <1>2
    <3>2. Open(x)
      BY <1>1, <2>1, <3>1 DEF Tarjan, Stacked, OnStack
    <3>3. index[x] \in Nat /\ index[v] \in Nat
      BY <1>1, <3>2 DEF Open, Num
    <3>4. k < m => index[v] < index[x]
      BY <1>2, <2>1, <3>1 DEF Tarjan, Stacked, n
    <3>5. index[v] <= index[x]
      BY <1>2, <2>1, <3>1, <3>3, <3>4
    <3> QED
      BY <3>2, <3>5 DEF Piece
  <2>2. ASSUME x \in Piece(v) PROVE \E m \in k .. n : stack[m] = x
    <3>1. Open(x) /\ index[v] <= index[x]
      BY <2>2 DEF Piece
    <3>2. PICK m \in 1 .. n : stack[m] = x
      BY <1>1, <3>1 DEF Tarjan, Stacked, OnStack
    <3>3. index[x] \in Nat /\ index[v] \in Nat
      BY <1>1, <3>1 DEF Open, Num
    <3>4. ~(m < k)
      <4>1. m < k => index[x] < index[v]
        BY <1>2, <3>2 DEF Tarjan, Stacked, n
      <4> QED
        BY <3>1, <3>3, <4>1
    <3>5. m \in k .. n
      BY <1>1, <1>2, <3>2, <3>4
    <3> QED
      BY <3>2, <3>5
  <2> QED
    BY <2>1, <2>2
<1>5. \A x \in Node : component'[x] = IF x \in Piece(v) THEN count ELSE component[x]
  BY <1>3, <1>4
<1>6. component' \in [Node -> Num]
  <2>1. \A x \in Node : (IF \E m \in k .. n : stack[m] = x THEN count ELSE component[x]) \in Num
    BY <1>1 DEF Num
  <2> QED
    BY <1>3, <2>1
<1>7. stack' \in Seq(Node) /\ Len(stack') = k - 1 /\ \A j \in 1 .. k - 1 : stack'[j] = stack[j]
  <2> DEFINE q == k - 1
             t == [j \in 1 .. q |-> stack[j]]
  <2>1. q \in Nat /\ q <= n /\ \A j \in 1 .. q : stack[j] \in Node
    BY <1>1, <1>2
  <2>2. stack' = t
    BY <1>1, <1>3, <2>1
  <2>3. t \in [1 .. q -> Node]
    BY <2>1
  <2>4. \A j \in 1 .. q : t[j] = stack[j]
    OBVIOUS
  <2> HIDE DEF t, q
  <2>5. t \in Seq(Node) /\ Len(t) = q
    BY <2>1, <2>3
  <2> QED
    BY <2>2, <2>4, <2>5 DEF q
<1> QED
  BY <1>2, <1>3, <1>5, <1>6, <1>7 DEF n

\* No edge leads out of the nodes from v up and those that have a component.
LEMMA PieceClosed ==
  ASSUME CsrTypeOK, ComponentsTypeOK, algo = "scc", Tarjan, NEW v \in Node, Leaves(v), lowlink[v] = index[v]
  PROVE  IsClosed(net, Old) /\ IsClosed(net, Piece(v) \cup Old)
<1> DEFINE n == Len(frames)
<1>1. /\ \A i \in DOMAIN net : net[i].src \in Node /\ net[i].tgt \in Node
      /\ index \in [Node -> Num] /\ None \notin Nat
  BY SccTyped
<1>2. n \in Nat /\ n \in 1 .. n /\ frames[n].node = v /\ index[v] \in Nat /\ frames[n].edges = {}
  BY FoldIs DEF Leaves
<1>3. IsClosed(net, Old)
  BY <1>1 DEF IsClosed, Old, Tarjan, Trodden
<1>4. ASSUME NEW i \in DOMAIN net, net[i].src \in Piece(v) PROVE net[i].tgt \in Piece(v) \cup Old
  <2>1. net[i].src \in Node /\ net[i].tgt \in Node
    BY <1>1
  <2>2. Open(net[i].src) /\ index[v] <= index[net[i].src] /\ index[net[i].src] \in Nat
    BY <1>1, <1>4, <2>1 DEF Piece, Open, Num
  <2>3. Gone(i)
    <3>1. ASSUME NEW k \in 1 .. n, i \in frames[k].edges PROVE FALSE
      <4>1. frames[k].node = net[i].src
        BY <3>1 DEF Tarjan, Framed, Slots
      <4>2. k \in Nat /\ k < n
        BY <1>2, <3>1
      <4>3. index[net[i].src] < index[v]
        BY <1>2, <4>1, <4>2 DEF Tarjan, Framed
      <4> QED
        BY <1>2, <2>2, <4>3
    <3> QED
      BY <2>2, <3>1 DEF Gone, Open
  <2>4. index[net[i].tgt] # None
    BY <2>3 DEF Tarjan, Trodden
  <2>5. CASE component[net[i].tgt] # None
    BY <2>1, <2>5 DEF Old
  <2>6. CASE component[net[i].tgt] = None
    <3>1. Open(net[i].tgt)
      BY <2>4, <2>6 DEF Open
    <3>2. \E m \in n .. n : lowlink[frames[m].node] <= index[net[i].tgt]
      BY <1>2, <2>2, <2>3, <3>1 DEF Tarjan, Backs
    <3>3. PICK m \in n .. n : lowlink[frames[m].node] <= index[net[i].tgt]
      BY <3>2
    <3>4. m = n
      BY <1>2, <3>3
    <3> QED
      BY <1>2, <2>1, <3>1, <3>3, <3>4 DEF Piece
  <2> QED
    BY <2>5, <2>6
<1>5. IsClosed(net, Piece(v) \cup Old)
  BY <1>3, <1>4 DEF IsClosed
<1> QED
  BY <1>3, <1>5

\* Those nodes are reached from v, and reach it.
LEMMA PieceReaches ==
  ASSUME CsrTypeOK, ComponentsTypeOK, algo = "scc", Tarjan, NEW v \in Node, Leaves(v), lowlink[v] = index[v],
         NEW x \in Piece(v)
  PROVE  x \in ReachableFrom(net, v) /\ v \in ReachableFrom(net, x)
<1> DEFINE n == Len(frames)
           Seen == {y \in Node : Open(y) /\ y \in ReachableFrom(net, x)}
           S == {index[y] : y \in Seen}
<1>1. /\ index \in [Node -> Num] /\ None \notin Nat
      /\ \A y \in Node : Open(y) => index[y] \in Nat
  <2>1. index \in [Node -> Num] /\ None \notin Nat
    BY SccTyped
  <2> QED
    BY <2>1 DEF Open, Num
<1>2. n \in Nat /\ n \in 1 .. n /\ frames[n].node = v
  BY FoldIs
<1>3. x \in Node /\ Open(x) /\ index[v] <= index[x]
  BY DEF Piece
<1>4. x \in ReachableFrom(net, v)
  BY <1>2, <1>3 DEF Tarjan, Spans
<1>5. x \in Seen
  BY <1>3, ReachableSource
<1>6. S \in SUBSET Nat /\ S # {}
  BY <1>1, <1>5
<1> HIDE DEF S
<1>7. FirstOf(S) \in S /\ \A m \in S : FirstOf(S) <= m
  BY <1>6, FirstOfIn
<1>8. PICK y \in Seen : index[y] = FirstOf(S)
  BY <1>7 DEF S
<1>9. y \in Node /\ Open(y) /\ y \in ReachableFrom(net, x) /\ index[y] \in Nat /\ index[v] \in Nat
  <2>1. Open(v)
    BY FoldIs
  <2> QED
    BY <1>1, <1>8, <2>1
<1>10. \A z \in Seen : index[y] <= index[z]
  BY <1>7, <1>8 DEF S
<1>11. y \in Piece(v)
  <2>1. Piece(v) \cup Old \in SUBSET Node /\ x \in Piece(v) \cup Old
    BY DEF Piece, Old
  <2>2. y \in Piece(v) \cup Old
    BY <1>9, <2>1, PieceClosed DEF ReachableFrom
  <2> QED
    BY <1>9, <2>2 DEF Old, Open
<1>12. index[v] <= index[y]
  BY <1>11 DEF Piece
<1>13. ~\E z \in Node : Open(z) /\ index[z] < index[y] /\ z \in ReachableFrom(net, y)
  <2> SUFFICES ASSUME NEW z \in Node, Open(z), index[z] < index[y], z \in ReachableFrom(net, y) PROVE FALSE
    OBVIOUS
  <2>1. z \in Seen
    BY <1>9, ReachableOn
  <2> QED
    BY <1>1, <1>9, <1>10, <2>1
<1>14. PICK k \in 1 .. n : frames[k].node = y
  BY <1>9, <1>13 DEF Tarjan, Climbs
<1>15. k = n
  <2>1. k < n => index[y] < index[v]
    BY <1>2, <1>14 DEF Tarjan, Framed
  <2> QED
    BY <1>2, <1>9, <1>12, <1>14, <2>1
<1> QED
  BY <1>2, <1>4, <1>9, <1>14, <1>15

\* They are all that do both.
LEMMA PieceIsClass ==
  ASSUME CsrTypeOK, ComponentsTypeOK, algo = "scc", Tarjan, NEW v \in Node, Leaves(v), lowlink[v] = index[v],
         NEW x \in Piece(v), NEW u \in Node
  PROVE  Mutual(net, x, u) <=> u \in Piece(v)
<1>1. ASSUME u \in Piece(v) PROVE Mutual(net, x, u)
  <2>1. /\ x \in ReachableFrom(net, v) /\ v \in ReachableFrom(net, x)
        /\ u \in ReachableFrom(net, v) /\ v \in ReachableFrom(net, u)
    BY <1>1, PieceReaches
  <2> QED
    BY <2>1, ReachableOn DEF Mutual
<1>2. ASSUME Mutual(net, x, u), u \notin Piece(v) PROVE FALSE
  <2>1. Piece(v) \cup Old \in SUBSET Node /\ Old \in SUBSET Node /\ x \in Piece(v) \cup Old /\ x \notin Old
    BY DEF Piece, Old, Open
  <2>2. u \in Old
    BY <1>2, <2>1, PieceClosed DEF Mutual, ReachableFrom
  <2>3. x \in Old
    BY <1>2, <2>1, <2>2, PieceClosed DEF Mutual, ReachableFrom
  <2> QED
    BY <2>1, <2>3
<1> QED
  BY <1>1, <1>2

\* A frame is left whose node is the first of its component: that has a number
\* now.
LEMMA TarjanPops ==
  ASSUME CsrTypeOK, ComponentsTypeOK, algo = "scc", Tarjan, NEW v \in Node, Leaves(v),
         lowlink[v] = index[v], next' \in Node \cup {None}
  PROVE  ComponentsTypeOK' /\ Tarjan'
<1> DEFINE n == Len(frames)
           u == frames[n - 1].node
<1>1. /\ component \in [Node -> Num] /\ index \in [Node -> Num] /\ lowlink \in [Node -> Num]
      /\ count \in Nat /\ current_index \in Nat /\ None \notin Nat
      /\ stack \in Seq(Node) /\ Len(stack) \in Nat /\ \A k \in 1 .. Len(stack) : stack[k] \in Node
      /\ \A k \in 1 .. n : frames[k].node \in Node
      /\ \A i \in DOMAIN net : net[i].src \in Node /\ net[i].tgt \in Node
  BY SccTyped
<1>2. /\ UNCHANGED <<net, algo, index, current_index>>
      /\ Len(frames') = n - 1 /\ frames' \in Seq(FrameOf)
      /\ \A k \in 1 .. n - 1 : frames'[k] = frames[k]
      /\ PopStack(v)
  BY DEF Leaves
<1>3. /\ n \in Nat /\ n \in 1 .. n /\ frames[n].node = v /\ Open(v)
      /\ index[v] \in Nat
      /\ lowlink' \in [Node -> Num]
      /\ n # 1 => u \in Node /\ Open(u) /\ index[u] \in Nat /\ lowlink[u] \in Nat
                  /\ lowlink[u] <= index[u] /\ index[u] < index[v]
      /\ \A i \in DOMAIN net : Gone(i)' <=> Gone(i)
  BY FoldIs
<1>4. lowlink' = lowlink
  <2>1. n = 1 => lowlink' = lowlink
    BY FoldIs
  <2>2. n # 1 => (lowlink[u] <= lowlink[v] => lowlink' = lowlink)
    BY FoldIs
  <2>3. n # 1 => lowlink[u] <= lowlink[v]
    BY <1>3
  <2> QED
    BY <2>1, <2>2, <2>3
<1>5. /\ component' \in [Node -> Num] /\ count' = count + 1 /\ stack' \in Seq(Node)
      /\ \A x \in Node : component'[x] = IF x \in Piece(v) THEN count ELSE component[x]
  BY <1>2, <1>3, PopIs
<1>6. \A x \in Node : index[x] # None => index[x] \in Nat
  BY <1>1 DEF Num
<1>7. \A x \in Node : Open(x)' <=> Open(x) /\ index[x] < index[v]
  <2> TAKE x \in Node
  <2>1. count # None
    BY <1>1
  <2>2. component'[x] = None <=> component[x] = None /\ x \notin Piece(v)
    BY <1>5, <2>1 DEF Piece, Open
  <2>3. x \notin Piece(v) <=> ~Open(x) \/ index[x] < index[v]
    BY <1>3, <1>6 DEF Piece, Open
  <2> QED
    BY <1>2, <2>2, <2>3 DEF Open
<1>8. \A k \in 1 .. n - 1 : /\ k \in 1 .. n /\ frames'[k].node = frames[k].node /\ frames[k].node \in Node
                            /\ index[frames[k].node] < index[v] /\ Open(frames[k].node)
                            /\ index[frames[k].node] \in Nat
  <2> TAKE k \in 1 .. n - 1
  <2>1. k \in 1 .. n /\ k < n
    BY <1>3
  <2>2. index[frames[k].node] < index[v] /\ Open(frames[k].node)
    BY <1>3, <2>1 DEF Tarjan, Framed
  <2> QED
    BY <1>1, <1>2, <1>6, <2>1, <2>2 DEF Open
<1>9. v \in Piece(v)
  BY <1>3 DEF Piece
<1> HIDE DEF n, u
<1>10. ComponentsTypeOK'
  <2>1. FrameOf' = FrameOf
    BY <1>2 DEF FrameOf
  <2>2. count' \in Nat
    BY <1>1, <1>5
  <2> QED
    BY <1>1, <1>2, <1>4, <1>5, <2>1, <2>2 DEF ComponentsTypeOK, IsComponents, FrameOf
<1>11. Counted'
  <2>1. \A x \in Node : component'[x] # None => index[x] # None /\ component'[x] < count + 1
    <3> TAKE x \in Node
    <3>1. CASE x \in Piece(v)
      BY <1>1, <1>5, <3>1 DEF Piece, Open
    <3>2. CASE x \notin Piece(v)
      <4>1. component'[x] = component[x]
        BY <1>5, <3>2
      <4>2. component[x] # None => index[x] # None /\ component[x] < count /\ component[x] \in Nat
        BY <1>1 DEF Tarjan, Counted, Num
      <4> QED
        BY <1>1, <4>1, <4>2
    <3> QED
      BY <3>1, <3>2
  <2>2. \A m \in 0 .. (count + 1) - 1 : \E x \in Node : component'[x] = m
    <3> TAKE m \in 0 .. (count + 1) - 1
    <3>1. CASE m = count
      BY <1>5, <1>9, <3>1
    <3>2. CASE m # count
      <4>1. m \in 0 .. count - 1
        BY <1>1, <3>2
      <4>2. PICK x \in Node : component[x] = m
        BY <4>1 DEF Tarjan, Counted
      <4>3. m # None
        BY <1>1, <4>1
      <4>4. x \notin Piece(v)
        BY <4>2, <4>3 DEF Piece, Open
      <4> QED
        BY <1>5, <4>2, <4>4
    <3> QED
      BY <3>1, <3>2
  <2> QED
    BY <1>2, <1>4, <1>5, <2>1, <2>2 DEF Tarjan, Counted
<1>12. Stacked'
  <2>1. PICK k \in 1 .. Len(stack) : /\ stack[k] = v /\ Len(stack') = k - 1
                                     /\ \A j \in 1 .. k - 1 : stack'[j] = stack[j]
    BY <1>2, <1>3, PopIs
  <2>2. k \in Nat /\ \A j \in 1 .. k - 1 : j \in 1 .. Len(stack) /\ j < k
    BY <1>1, <2>1
  <2>3. DOMAIN stack = 1 .. Len(stack) /\ DOMAIN stack' = 1 .. k - 1
    BY <1>1, <1>5, <2>1, <2>2
  <2>4. ASSUME NEW x \in Node, OnStack(x)' PROVE Open(x)'
    <3>1. PICK j \in 1 .. k - 1 : stack'[j] = x
      BY <2>3, <2>4 DEF OnStack
    <3>2. stack[j] = x /\ OnStack(x)
      BY <2>1, <2>2, <2>3, <3>1 DEF OnStack
    <3>3. index[x] < index[v]
      BY <2>1, <2>2, <3>1, <3>2 DEF Tarjan, Stacked
    <3> QED
      BY <1>7, <3>2, <3>3 DEF Tarjan, Stacked
  <2>5. ASSUME NEW x \in Node, Open(x)' PROVE OnStack(x)'
    <3>1. Open(x) /\ index[x] < index[v] /\ index[x] \in Nat
      BY <1>6, <1>7, <2>5 DEF Open
    <3>2. PICK j \in 1 .. Len(stack) : stack[j] = x
      BY <2>3, <3>1 DEF Tarjan, Stacked, OnStack
    <3>3. ~(k < j) /\ k # j
      <4>1. k < j => index[v] < index[x]
        BY <2>1, <3>2 DEF Tarjan, Stacked
      <4> QED
        BY <1>3, <2>1, <3>1, <3>2, <4>1
    <3>4. j \in 1 .. k - 1
      BY <2>2, <3>2, <3>3
    <3> QED
      BY <2>1, <2>3, <3>2, <3>4 DEF OnStack
  <2>6. \A j, m \in 1 .. k - 1 : j < m => index[stack'[j]] < index[stack'[m]]
    BY <2>1, <2>2 DEF Tarjan, Stacked
  <2> QED
    BY <1>2, <2>1, <2>4, <2>5, <2>6 DEF Stacked
<1>13. Framed'
  <2>1. \A j, k \in 1 .. n - 1 : j < k => index[frames'[j].node] < index[frames'[k].node]
    BY <1>8 DEF Tarjan, Framed, n
  <2>2. \A k \in 1 .. n - 1 : /\ index[frames'[k].node] # None /\ component'[frames'[k].node] = None
                              /\ frames'[k].edges \subseteq Slots(net, frames'[k].node)
    <3> TAKE k \in 1 .. n - 1
    <3>1. Open(frames[k].node)'
      <4>1. frames[k].node \in Node /\ Open(frames[k].node) /\ index[frames[k].node] < index[v]
        BY <1>8
      <4>2. frames[k].node \notin Piece(v)
        BY <1>3, <1>8 DEF Piece
      <4>3. component'[frames[k].node] = None /\ index'[frames[k].node] # None
        BY <1>2, <1>5, <4>1, <4>2 DEF Open
      <4> QED
        BY <1>8, <4>3 DEF Open
    <3>2. frames[k].edges \subseteq Slots(net, frames[k].node)
      BY <1>8 DEF Tarjan, Framed, n
    <3> QED
      BY <1>2, <1>8, <3>1, <3>2 DEF Open
  <2>3. \A k \in 1 .. (n - 1) - 1 : frames'[k].saved_neighbor = frames'[k + 1].node
    <3> TAKE k \in 1 .. (n - 1) - 1
    <3>1. k \in 1 .. n - 1 /\ k + 1 \in 1 .. n - 1
      BY <1>3
    <3> QED
      BY <1>2, <3>1 DEF Tarjan, Framed, n
  <2>4. ASSUME NEW x \in Node, Open(x)' PROVE frames' # <<>> /\ index[frames'[1].node] <= index[x]
    <3>1. Open(x) /\ index[x] < index[v] /\ index[x] \in Nat
      BY <1>6, <1>7, <2>4 DEF Open
    <3>2. index[frames[1].node] <= index[x]
      BY <3>1 DEF Tarjan, Framed
    <3>3. n # 1
      BY <1>3, <3>1, <3>2
    <3>4. 1 \in 1 .. n - 1 /\ frames' # <<>>
      BY <1>2, <1>3, <3>3
    <3> QED
      BY <1>8, <3>2, <3>4
  <2> QED
    BY <1>2, <2>1, <2>2, <2>3, <2>4 DEF Framed, Open
<1>14. Trodden'
  <2>1. \A j \in DOMAIN net : Gone(j)' => index[net[j].tgt] # None
    BY <1>3 DEF Tarjan, Trodden
  <2>2. ASSUME NEW j \in DOMAIN net, component'[net[j].src] # None
        PROVE  component'[net[j].tgt] # None /\ component'[net[j].tgt] <= component'[net[j].src]
    <3>1. net[j].src \in Node /\ net[j].tgt \in Node
      BY <1>1
    <3>2. \A x \in Old : x \in Node /\ x \notin Piece(v) /\ component'[x] = component[x] /\ component[x] < count
                         /\ component[x] \in Nat
      BY <1>1, <1>5 DEF Old, Piece, Open, Tarjan, Counted, Num
    <3>3. CASE net[j].src \in Piece(v)
      <4>1. component'[net[j].src] = count
        BY <1>5, <3>1, <3>3
      <4>2. net[j].tgt \in Piece(v) \/ net[j].tgt \in Old
        BY <3>3, PieceClosed DEF IsClosed
      <4>3. CASE net[j].tgt \in Piece(v)
        BY <1>1, <1>5, <3>1, <4>1, <4>3
      <4>4. CASE net[j].tgt \in Old
        BY <1>1, <3>2, <4>1, <4>4
      <4> QED
        BY <4>2, <4>3, <4>4
    <3>4. CASE net[j].src \notin Piece(v)
      <4>1. net[j].src \in Old
        BY <1>5, <2>2, <3>1, <3>4 DEF Old
      <4>2. net[j].tgt \in Old /\ component[net[j].tgt] <= component[net[j].src]
        BY <3>1, <4>1 DEF Old, Tarjan, Trodden
      <4> QED
        BY <1>1, <3>2, <4>1, <4>2
    <3> QED
      BY <3>3, <3>4
  <2> QED
    BY <1>2, <2>1, <2>2 DEF Trodden
<1>15. Lowest'
  <2> SUFFICES ASSUME NEW k \in 1 .. n - 1
               PROVE  \E y \in Node : /\ Open(y)' /\ index[y] = lowlink[frames[k].node]
                                      /\ y \in ReachableFrom(net, frames[k].node)
    BY <1>2, <1>4, <1>8 DEF Lowest
  <2>1. PICK y \in Node : Open(y) /\ index[y] = lowlink[frames[k].node] /\ y \in ReachableFrom(net, frames[k].node)
    BY <1>8 DEF Tarjan, Lowest, n
  <2>2. lowlink[frames[k].node] <= index[frames[k].node]
    BY <1>8 DEF Tarjan, Counted, Open
  <2>3. index[y] \in Nat
    BY <1>6, <2>1 DEF Open
  <2>4. index[y] < index[v]
    BY <1>3, <1>8, <2>1, <2>2, <2>3
  <2> QED
    BY <1>7, <2>1, <2>4
<1>16. Backs'
  <2> SUFFICES ASSUME NEW k \in 1 .. n - 1, NEW j \in DOMAIN net, Gone(j)', Open(net[j].tgt)',
                      index[frames'[k].node] <= index[net[j].src]
               PROVE  \E m \in k .. n - 1 : lowlink[frames'[m].node] <= index[net[j].tgt]
    BY <1>2, <1>4 DEF Backs
  <2>1. k \in Nat /\ k <= n - 1 /\ k >= 1 /\ k \in 1 .. n
    BY <1>3
  <2>2. net[j].tgt \in Node /\ index[net[j].tgt] # None /\ component'[net[j].tgt] = None
    BY <1>1, <1>2 DEF Open
  <2>3. net[j].tgt \notin Piece(v) /\ component[net[j].tgt] = None
    BY <1>1, <1>5, <2>2
  <2>4. Open(net[j].tgt) /\ index[net[j].tgt] < index[v] /\ index[net[j].tgt] \in Nat
    BY <1>3, <1>6, <2>2, <2>3 DEF Open, Piece
  <2>5. Gone(j) /\ index[frames[k].node] <= index[net[j].src]
    BY <1>3, <1>8
  <2>6. PICK m \in k .. n : lowlink[frames[m].node] <= index[net[j].tgt]
    BY <2>1, <2>4, <2>5 DEF Tarjan, Backs, n
  <2>7. m # n
    BY <1>3, <2>4, <2>6
  <2>8. m \in k .. n - 1 /\ m \in 1 .. n - 1
    BY <1>3, <2>1, <2>6, <2>7
  <2> QED
    BY <1>8, <2>6, <2>8
<1>17. Climbs'
  <2> SUFFICES ASSUME NEW x \in Node, Open(x)'
               PROVE  \/ \E k \in 1 .. n - 1 : frames[k].node = x
                      \/ \E y \in Node : Open(y)' /\ index[y] < index[x] /\ y \in ReachableFrom(net, x)
    BY <1>2, <1>8 DEF Climbs
  <2>1. Open(x) /\ index[x] < index[v] /\ index[x] \in Nat
    BY <1>6, <1>7 DEF Open
  <2>2. CASE \E k \in 1 .. n : frames[k].node = x
    <3>1. PICK k \in 1 .. n : frames[k].node = x
      BY <2>2
    <3>2. k # n
      BY <1>3, <2>1, <3>1
    <3>3. k \in 1 .. n - 1
      BY <1>3, <3>1, <3>2
    <3> QED
      BY <3>1, <3>3
  <2>3. CASE \E y \in Node : Open(y) /\ index[y] < index[x] /\ y \in ReachableFrom(net, x)
    <3>1. PICK y \in Node : Open(y) /\ index[y] < index[x] /\ y \in ReachableFrom(net, x)
      BY <2>3
    <3>2. index[y] \in Nat
      BY <1>6, <3>1 DEF Open
    <3>3. index[y] < index[v]
      BY <1>3, <2>1, <3>1, <3>2
    <3> QED
      BY <1>7, <3>1, <3>3
  <2> QED
    BY <2>1, <2>2, <2>3 DEF Tarjan, Climbs, n
<1>18. Spans'
  <2> SUFFICES ASSUME NEW k \in 1 .. n - 1, NEW x \in Node, Open(x), index[frames[k].node] <= index[x]
               PROVE  x \in ReachableFrom(net, frames[k].node)
    BY <1>2, <1>7, <1>8 DEF Spans
  <2> QED
    BY <1>8 DEF Tarjan, Spans, n
<1>19. Classes'
  <2> SUFFICES ASSUME NEW x \in Node, NEW y \in Node, component'[x] # None
               PROVE  component'[x] = component'[y] <=> Mutual(net, x, y)
    BY <1>2 DEF Classes
  <2>1. \A z \in Node : component[z] # None => component[z] \in Nat /\ component[z] < count
    BY <1>1 DEF Tarjan, Counted, Num
  <2>2. \A z \in Node : z \notin Piece(v) => component'[z] = component[z] /\ component[z] # count
    BY <1>1, <1>5, <2>1
  <2>3. \A z \in Piece(v) : component'[z] = count
    BY <1>5 DEF Piece
  <2>4. \A a \in Piece(v), b \in Node : Mutual(net, a, b) <=> b \in Piece(v)
    BY PieceIsClass
  <2>5. CASE x \in Piece(v)
    BY <2>2, <2>3, <2>4, <2>5
  <2>6. CASE x \notin Piece(v)
    <3>1. component[x] # None /\ component'[x] = component[x] /\ component[x] # count
      BY <2>2, <2>6
    <3>2. CASE y \in Piece(v)
      <4>1. ~Mutual(net, y, x)
        BY <2>4, <2>6, <3>2
      <4> QED
        BY <2>3, <3>1, <3>2, <4>1 DEF Mutual
    <3>3. CASE y \notin Piece(v)
      BY <2>2, <3>1, <3>3 DEF Tarjan, Classes
    <3> QED
      BY <3>2, <3>3
  <2> QED
    BY <2>5, <2>6
<1> QED
  BY <1>10, <1>11, <1>12, <1>13, <1>14, <1>15, <1>16, <1>17, <1>18, <1>19 DEF Tarjan

\* The next node, if there is one.
LEMMA AfterIs ==
  ASSUME NEW v \in Node
  PROVE  /\ After(v) \in Node \cup {None}
         /\ After(v) # None => v < After(v)
         /\ \A u \in Node : v < u => After(v) # None /\ After(v) <= u
<1> DEFINE S == {u \in Node : u > v}
<1>1. Node \in SUBSET Nat /\ None \notin Nat
  BY NodeAssumption
<1>2. CASE S = {}
  <2>1. ~\E u \in Node : u > v
    BY <1>2
  <2>2. After(v) = None
    BY <2>1 DEF After
  <2> QED
    BY <1>1, <2>1, <2>2
<1>3. CASE S # {}
  <2>1. FirstOf(S) \in S /\ \A k \in S : FirstOf(S) <= k
    BY <1>1, <1>3, FirstOfIn
  <2>2. After(v) = FirstOf(S)
    BY <1>3 DEF After
  <2> HIDE DEF After
  <2>3. After(v) \in Node /\ v < After(v) /\ After(v) # None
    BY <1>1, <2>1, <2>2
  <2>4. \A u \in Node : v < u => After(v) <= u
    BY <1>1, <2>1, <2>2
  <2> QED
    BY <2>3, <2>4
<1> QED
  BY <1>2, <1>3

\* The first node.
LEMMA FirstNode == FirstOf(Node) \in Node /\ \A v \in Node : FirstOf(Node) <= v
BY NodeAssumption, FirstOfIn

\* What a call of scc keeps: the nodes before the one the loop has come to are
\* entered.
Came == \A v \in Node : index[v] # None \/ (next # None /\ next <= v)
SccStages == stage \in {"search", "done"} /\ (stage = "done" => next = None /\ frames = <<>>)
Sccing == CsrTypeOK /\ ComponentsTypeOK /\ algo = "scc" /\ SccStages /\ Tarjan /\ Came

\* A call begins.
LEMMA SccBegins ==
  ASSUME CsrIdle, NEW g \in NetsOf["scc"], Scc(g)
  PROVE  Sccing'
<1>1. /\ algo' = "scc" /\ net' = g /\ source' = None /\ stage' = "search"
      /\ component' = AllNodes(None) /\ count' = 0 /\ next' = FirstOf(Node)
      /\ index' = AllNodes(None) /\ lowlink' = AllNodes(None) /\ current_index' = 0
      /\ stack' = <<>> /\ frames' = <<>>
      /\ visited' = {} /\ cur' = None /\ todo' = {}
  BY DEF Scc, ComponentsBegin, CsrCall, CsrIdle
<1>2. g \in Seq(Edge)
  BY NetsAssumption DEF Algorithm
<1>3. CsrTypeOK'
  BY <1>1, <1>2 DEF CsrTypeOK, Algorithm
<1>4. component' \in [Node -> Num] /\ index' \in [Node -> Num] /\ lowlink' \in [Node -> Num]
  BY <1>1 DEF AllNodes, Num
<1>5. ComponentsTypeOK'
  <2>1. stack' \in Seq(Node) /\ frames' \in Seq(FrameOf')
    BY <1>1
  <2> QED
    BY <1>1, <1>4, <2>1, FirstNode DEF ComponentsTypeOK, IsComponents, FrameOf
<1>6. \A v \in Node : index'[v] = None /\ component'[v] = None
  BY <1>1 DEF AllNodes
<1>7. Len(stack') = 0 /\ Len(frames') = 0 /\ DOMAIN stack' = {}
  BY <1>1
<1>8. \A k \in 1 .. 0 : FALSE
  OBVIOUS
<1>9. 0 .. 0 - 1 = {} /\ 1 .. 0 - 1 = {}
  OBVIOUS
<1>10. \A i \in DOMAIN net' : net'[i].src \in Node
  <2>1. \A i \in DOMAIN g : g[i] \in Edge
    BY <1>2
  <2>2. \A i \in DOMAIN g : g[i].src \in Node
    BY <2>1 DEF Edge
  <2> QED
    BY <1>1, <2>2
<1>11. Counted'
  BY <1>1, <1>6, <1>9 DEF Counted
<1>12. Stacked'
  BY <1>6, <1>7, <1>8 DEF Stacked, OnStack, Open
<1>13. Framed'
  BY <1>6, <1>7, <1>8, <1>9 DEF Framed, Open
<1>14. Trodden'
  BY <1>6, <1>10 DEF Trodden, Gone
<1>15. Lowest' /\ Backs'
  BY <1>7, <1>8 DEF Lowest, Backs
<1>16. Climbs' /\ Spans' /\ Classes'
  BY <1>6, <1>7, <1>8 DEF Climbs, Spans, Classes, Open
<1>17. Tarjan'
  BY <1>11, <1>12, <1>13, <1>14, <1>15, <1>16 DEF Tarjan
<1>18. Came' /\ SccStages'
  BY <1>1, FirstNode, NodeAssumption DEF Came, SccStages
<1> QED
  BY <1>1, <1>3, <1>5, <1>17, <1>18 DEF Sccing

\* It goes on.
LEMMA SccGoes ==
  ASSUME Sccing, Start \/ Look \/ Leave \/ ComponentsEnds
  PROVE  Sccing'
<1> USE DEF Sccing
<1>1. next \in Node \cup {None} /\ Node \in SUBSET Nat /\ None \notin Nat /\ index \in [Node -> Num]
      /\ current_index \in Nat
  BY SccTyped
<1>2. ASSUME UNCHANGED csrVars PROVE CsrTypeOK' /\ algo' = algo /\ stage' = stage /\ net' = net
  BY <1>2 DEF CsrTypeOK, csrVars
<1>3. ASSUME NEW w \in Node, Enters(w) PROVE index'[w] # None /\ \A v \in Node : index[v] # None => index'[v] # None
  BY <1>1, <1>3 DEF Enters
<1>4. CASE Start
  <2>1. /\ stage = "search" /\ frames = <<>> /\ next \in Node /\ next' = After(next) /\ UNCHANGED csrVars
        /\ \/ Enters(next)
           \/ /\ index[next] # None
              /\ UNCHANGED <<index, lowlink, current_index, stack, frames, component, count>>
    BY <1>4, StartDoes
  <2>2. next' \in Node \cup {None} /\ \A u \in Node : next < u => next' # None /\ next' <= u
    BY <2>1, AfterIs
  <2>3. index'[next] # None /\ \A v \in Node : index[v] # None => index'[v] # None
    BY <1>3, <2>1
  <2>4. Came'
    <3> SUFFICES ASSUME NEW v \in Node PROVE index'[v] # None \/ (next' # None /\ next' <= v)
      BY DEF Came
    <3>1. index[v] # None \/ next <= v
      BY DEF Came
    <3>2. v = next \/ index[v] # None \/ next < v
      BY <1>1, <2>1, <3>1
    <3> QED
      BY <2>2, <2>3, <3>2
  <2>5. SccStages'
    BY <1>2, <2>1 DEF SccStages
  <2>6. CASE Enters(next)
    BY <1>2, <2>1, <2>2, <2>4, <2>5, <2>6, TarjanEnters
  <2>7. CASE UNCHANGED <<index, lowlink, current_index, stack, frames, component, count>>
    <3>1. ComponentsTypeOK'
      BY <1>2, <2>1, <2>2, <2>7 DEF ComponentsTypeOK, IsComponents
    <3>2. Tarjan'
      <4>1. Counted' /\ Stacked'
        BY <1>2, <2>1, <2>7 DEF Tarjan, Counted, Stacked, OnStack, Open
      <4>2. Framed' /\ Climbs' /\ Spans'
        BY <1>2, <2>1, <2>7 DEF Tarjan, Framed, Climbs, Spans, Open
      <4>3. Trodden' /\ Lowest' /\ Classes'
        BY <1>2, <2>1, <2>7 DEF Tarjan, Trodden, Lowest, Classes, Gone, Open
      <4>4. Backs'
        BY <1>2, <2>1, <2>7 DEF Tarjan, Backs, Gone, Open
      <4> QED
        BY <4>1, <4>2, <4>3, <4>4 DEF Tarjan
    <3> QED
      BY <1>2, <2>1, <2>4, <2>5, <3>1, <3>2
  <2> QED
    BY <2>1, <2>6, <2>7
<1>5. CASE Look
  <2>1. /\ frames # <<>> /\ UNCHANGED <<csrVars, next>>
        /\ (\E w \in Node : Enters(w)) \/ (\E i \in DOMAIN net : Sees(i))
    BY <1>5, LookDoes
  <2>2. stage = "search" /\ stage' = "search"
    BY <1>2, <2>1 DEF SccStages
  <2>3. ASSUME NEW w \in Node, Enters(w) PROVE Sccing'
    <3>1. Came'
      BY <1>3, <2>1, <2>3 DEF Came
    <3> QED
      BY <1>1, <1>2, <2>1, <2>2, <2>3, <3>1, TarjanEnters DEF SccStages
  <2>4. ASSUME NEW i \in DOMAIN net, Sees(i) PROVE Sccing'
    <3>1. Came'
      BY <2>1, <2>4 DEF Came, Sees
    <3> QED
      BY <1>1, <1>2, <2>1, <2>2, <2>4, <3>1, TarjanSees DEF SccStages
  <2> QED
    BY <2>1, <2>3, <2>4
<1>6. CASE Leave
  <2>1. /\ frames # <<>> /\ UNCHANGED <<csrVars, next>>
        /\ \E v \in Node : Leaves(v)
    BY <1>6, LeaveDoes
  <2>2. stage = "search" /\ stage' = "search"
    BY <1>2, <2>1 DEF SccStages
  <2>3. PICK v \in Node : Leaves(v)
    BY <2>1
  <2>4. Came'
    BY <2>1, <2>3 DEF Came, Leaves
  <2>5. next' \in Node \cup {None}
    BY <1>1, <2>1
  <2>6. ComponentsTypeOK' /\ Tarjan'
    BY <2>3, <2>5, TarjanFolds, TarjanPops
  <2> QED
    BY <1>2, <2>1, <2>2, <2>4, <2>6 DEF SccStages
<1>7. CASE ComponentsEnds
  <2>1. stage' = "done" /\ next = None /\ frames = <<>> /\ UNCHANGED <<net, algo, source, visited, cur, todo, compVars>>
    BY <1>7 DEF ComponentsEnds
  <2>2. CsrTypeOK'
    BY <2>1 DEF CsrTypeOK
  <2>3. UNCHANGED <<component, count, index, lowlink, current_index, stack, frames, next>>
    BY <2>1 DEF compVars
  <2>4. ComponentsTypeOK' /\ Came' /\ SccStages'
    BY <2>1, <2>3 DEF ComponentsTypeOK, IsComponents, Came, SccStages
  <2>5. Counted' /\ Stacked'
    BY <2>1, <2>3 DEF Tarjan, Counted, Stacked, OnStack, Open
  <2>6. Framed' /\ Climbs' /\ Spans'
    BY <2>1, <2>3 DEF Tarjan, Framed, Climbs, Spans, Open
  <2>7. Trodden' /\ Lowest' /\ Classes'
    BY <2>1, <2>3 DEF Tarjan, Trodden, Lowest, Classes, Gone, Open
  <2>8. Backs'
    BY <2>1, <2>3 DEF Tarjan, Backs, Gone, Open
  <2> QED
    BY <2>1, <2>2, <2>4, <2>5, <2>6, <2>7, <2>8 DEF Tarjan
<1> QED
  BY <1>4, <1>5, <1>6, <1>7

\* When it is done every node has the number of its component.
LEMMA SccAnswers ==
  ASSUME Sccing
  PROVE  ComponentsAnswer
<1> USE DEF Sccing
<1> SUFFICES ASSUME stage = "done" PROVE ComponentsAnswer
  BY DEF ComponentsAnswer, ComponentsRight, ComponentsOrdered, ComponentsDone
<1>1. /\ component \in [Node -> Num] /\ count \in Nat /\ None \notin Nat
      /\ \A i \in DOMAIN net : net[i].src \in Node /\ net[i].tgt \in Node
  BY SccTyped
<1>2. \A v \in Node : component[v] # None
  BY DEF Came, SccStages, Tarjan, Framed, Open
<1>3. ComponentsRight
  BY <1>2 DEF ComponentsRight, Tarjan, Classes
<1>4. {component[v] : v \in Node} = 0 .. count - 1
  <2>1. ASSUME NEW v \in Node PROVE component[v] \in 0 .. count - 1
    BY <1>1, <1>2 DEF Tarjan, Counted, Num
  <2>2. \A m \in 0 .. count - 1 : \E v \in Node : component[v] = m
    BY DEF Tarjan, Counted
  <2> QED
    BY <2>1, <2>2
<1>5. \A i \in DOMAIN net : component[net[i].src] >= component[net[i].tgt]
  <2> TAKE i \in DOMAIN net
  <2>1. component[net[i].tgt] <= component[net[i].src]
    BY <1>1, <1>2 DEF Tarjan, Trodden
  <2>2. component[net[i].src] \in Nat /\ component[net[i].tgt] \in Nat
    BY <1>1, <1>2 DEF Num
  <2> QED
    BY <2>1, <2>2
<1> QED
  BY <1>3, <1>4, <1>5 DEF ComponentsAnswer, ComponentsOrdered

\* Nodes are in the frames and on the stack once.
LEMMA SccFits ==
  ASSUME Sccing
  PROVE  FramesFit
<1> USE DEF Sccing
<1>1. /\ index \in [Node -> Num] /\ None \notin Nat
      /\ Len(frames) \in Nat /\ DOMAIN frames = 1 .. Len(frames)
      /\ Len(stack) \in Nat /\ DOMAIN stack = 1 .. Len(stack)
      /\ \A k \in 1 .. Len(frames) : frames[k].node \in Node
      /\ \A k \in 1 .. Len(stack) : stack[k] \in Node
  BY SccTyped
<1>2. \A v \in Node : Open(v) => index[v] \in Nat
  BY <1>1 DEF Open, Num
<1>3. ASSUME NEW j \in 1 .. Len(frames), NEW k \in 1 .. Len(frames), frames[j].node = frames[k].node PROVE j = k
  <2>1. index[frames[j].node] \in Nat
    BY <1>1, <1>2 DEF Tarjan, Framed
  <2>2. ~(j < k) /\ ~(k < j)
    BY <1>3, <2>1 DEF Tarjan, Framed
  <2> QED
    BY <1>1, <2>2
<1>4. ASSUME NEW j \in 1 .. Len(stack), NEW k \in 1 .. Len(stack), stack[j] = stack[k] PROVE j = k
  <2>1. index[stack[j]] \in Nat
    BY <1>1, <1>2 DEF Tarjan, Stacked, OnStack
  <2>2. ~(j < k) /\ ~(k < j)
    BY <1>4, <2>1 DEF Tarjan, Stacked
  <2> QED
    BY <1>1, <2>2
<1>5. \A k \in 1 .. Len(frames) : OnStack(frames[k].node)
  BY <1>1 DEF Tarjan, Framed, Stacked
<1> QED
  BY <1>1, <1>3, <1>4, <1>5 DEF FramesFit, Tarjan, Framed

-----------------------------------------------------------------------------
(* wcc: forests.                                                           *)

\* A forest, and ranks that rise towards the roots.
Rising(p, r) ==
  /\ p \in [Node -> Node] /\ r \in [Node -> Nat]
  /\ \A v \in Node : p[v] # v => r[v] < r[p[v]]

\* What roots have, and nodes whose parents have it, all nodes have: of those
\* without it, one has the greatest rank.
LEMMA Rises ==
  ASSUME NEW p, NEW r, Rising(p, r), NEW S \in SUBSET Node,
         \A v \in Node : p[v] = v \/ p[v] \in S => v \in S
  PROVE  \A v \in Node : v \in S
<1> DEFINE Above(v) == {u \in Node : r[u] > r[v]}
           Sets == {Above(v) : v \in Node \ S}
<1>1. SUFFICES ASSUME Node \ S # {} PROVE FALSE
  OBVIOUS
<1>2. Sets \subseteq FiniteSubsetsOf(Node)
  <2>1. \A v \in Node : Above(v) \in SUBSET Node
    OBVIOUS
  <2>2. \A v \in Node : IsFiniteSet(Above(v))
    BY <2>1, NodeAssumption, FS_Subset
  <2> QED
    BY <2>1, <2>2 DEF FiniteSubsetsOf
<1>3. Sets # {}
  <2>1. PICK v \in Node \ S : TRUE
    BY <1>1
  <2>2. Above(v) \in Sets
    OBVIOUS
  <2> QED
    BY <2>2
<1>4. \E I \in Sets : \A J \in Sets : ~(<<J, I>> \in StrictSubsetOrdering(Node))
  <2> HIDE DEF Sets
  <2> QED
    BY <1>2, <1>3, FS_StrictSubsetOrderingWellFounded, WFMin
<1>5. PICK v \in Node \ S : \A u \in Node \ S : ~(<<Above(u), Above(v)>> \in StrictSubsetOrdering(Node))
  BY <1>4
<1>6. p[v] \in Node \ S /\ r[v] < r[p[v]] /\ r[v] \in Nat /\ r[p[v]] \in Nat /\ \A u \in Node : r[u] \in Nat
  BY <1>5 DEF Rising
<1>7. Above(p[v]) \subseteq Above(v) /\ p[v] \in Above(v) /\ p[v] \notin Above(p[v])
  BY <1>6
<1>8. Above(p[v]) \in SUBSET Node /\ Above(v) \in SUBSET Node
  OBVIOUS
<1> HIDE DEF Above
<1> QED
  BY <1>5, <1>6, <1>7, <1>8 DEF StrictSubsetOrdering

\* A node and those above it: the least set that has a parent with its child.
Line(p, v) == {u \in Node : \A S \in SUBSET Node : v \in S /\ (\A x \in S : p[x] \in S) => u \in S}

\* A node alone if it is a root, else with the line of its parent.
LEMMA LineIs ==
  ASSUME NEW p \in [Node -> Node], NEW v \in Node
  PROVE  Line(p, v) = IF p[v] = v THEN {v} ELSE {v} \cup Line(p, p[v])
<1>1. \A w \in Node : w \in Line(p, w) /\ Line(p, w) \in SUBSET Node /\ \A x \in Line(p, w) : p[x] \in Line(p, w)
  BY DEF Line
<1>2. ASSUME NEW S \in SUBSET Node, v \in S, \A x \in S : p[x] \in S PROVE Line(p, v) \subseteq S
  BY <1>2 DEF Line
<1>3. CASE p[v] = v
  <2>1. Line(p, v) \subseteq {v}
    BY <1>2, <1>3
  <2> QED
    BY <1>1, <1>3, <2>1
<1>4. CASE p[v] # v
  <2>1. p[v] \in Node
    OBVIOUS
  <2>2. Line(p, v) \subseteq {v} \cup Line(p, p[v])
    <3> DEFINE S == {v} \cup Line(p, p[v])
    <3>1. S \in SUBSET Node /\ v \in S /\ \A x \in S : p[x] \in S
      BY <1>1, <2>1
    <3> QED
      BY <1>2, <3>1
  <2>3. Line(p, p[v]) \subseteq Line(p, v)
    <3>1. p[v] \in Line(p, v)
      BY <1>1
    <3>2. \A S \in SUBSET Node : p[v] \in S /\ (\A x \in S : p[x] \in S) => Line(p, p[v]) \subseteq S
      BY DEF Line
    <3> QED
      BY <1>1, <3>1, <3>2
  <2>4. Line(p, v) = {v} \cup Line(p, p[v])
    BY <1>1, <2>2, <2>3
  <2> QED
    BY <1>4, <2>4
<1> QED
  BY <1>3, <1>4

\* The recursions of uf_find end.
IsRoots(p, f) == f = [v \in Node |-> IF p[v] = v THEN v ELSE f[p[v]]]
IsWay(p, f) == f = [u \in Node |-> IF p[u] = u THEN {u} ELSE {u} \cup f[p[u]]]

\* ... in a root for each node,
LEMMA RootsExist ==
  ASSUME NEW p \in [Node -> Node]
  PROVE  \E f : IsRoots(p, f)
<1> DEFINE Tops(v) == {u \in Line(p, v) : p[u] = u}
           top(v) == CHOOSE u : u \in Tops(v)
           f == [v \in Node |-> top(v)]
<1>1. \A v \in Node : f[v] = IF p[v] = v THEN v ELSE f[p[v]]
  <2> TAKE v \in Node
  <2>1. CASE p[v] = v
    <3>1. Tops(v) = {v}
      BY <2>1, LineIs
    <3>2. top(v) = v
      <4> HIDE DEF Tops
      <4> QED
        BY <3>1
    <3> QED
      BY <2>1, <3>2
  <2>2. CASE p[v] # v
    <3>1. p[v] \in Node
      OBVIOUS
    <3>2. Line(p, v) = {v} \cup Line(p, p[v])
      BY <2>2, LineIs
    <3>3. Tops(v) = Tops(p[v])
      BY <2>2, <3>2
    <3>4. top(v) = top(p[v])
      <4> HIDE DEF Tops
      <4> QED
        BY <3>3
    <3> HIDE DEF top
    <3> QED
      BY <2>2, <3>1, <3>4
  <2> QED
    BY <2>1, <2>2
<1>2. f = [v \in Node |-> f[v]]
  OBVIOUS
<1> HIDE DEF f
<1>3. f = [v \in Node |-> IF p[v] = v THEN v ELSE f[p[v]]]
  BY <1>1, <1>2
<1> QED
  BY <1>3 DEF IsRoots

\* ... and in the nodes on the way to it.
LEMMA WayExists ==
  ASSUME NEW p \in [Node -> Node]
  PROVE  \E f : IsWay(p, f)
<1> DEFINE f == [v \in Node |-> Line(p, v)]
<1>1. \A v \in Node : f[v] = IF p[v] = v THEN {v} ELSE {v} \cup f[p[v]]
  <2> TAKE v \in Node
  <2>1. p[v] \in Node
    OBVIOUS
  <2> QED
    BY <2>1, LineIs
<1>2. f = [v \in Node |-> f[v]]
  OBVIOUS
<1> HIDE DEF f
<1>3. f = [v \in Node |-> IF p[v] = v THEN {v} ELSE {v} \cup f[p[v]]]
  BY <1>1, <1>2, Zenon
<1> QED
  BY <1>3 DEF IsWay

\* uf_find follows the parents to a root of no lower rank.
LEMMA RootsAre ==
  ASSUME NEW p, NEW r, Rising(p, r)
  PROVE  /\ \A v \in Node : Roots(p)[v] = IF p[v] = v THEN v ELSE Roots(p)[p[v]]
         /\ \A v \in Node : /\ Roots(p)[v] \in Node /\ p[Roots(p)[v]] = Roots(p)[v]
                            /\ p[v] # v => r[v] < r[Roots(p)[v]]
<1> DEFINE f == Roots(p)
<1>1. p \in [Node -> Node] /\ \A v \in Node : p[v] \in Node /\ r[v] \in Nat
  BY DEF Rising
<1>2. f = CHOOSE g : IsRoots(p, g)
  BY Zenon DEF Roots, IsRoots
<1>3. IsRoots(p, f)
  <2>1. \E g : IsRoots(p, g)
    BY <1>1, RootsExist
  <2> HIDE DEF f
  <2> QED
    BY <1>2, <2>1
<1> HIDE DEF f
<1>4. \A v \in Node : f[v] = IF p[v] = v THEN v ELSE f[p[v]]
  BY <1>3 DEF IsRoots
<1> DEFINE S == {v \in Node : f[v] \in Node /\ p[f[v]] = f[v] /\ (p[v] # v => r[v] < r[f[v]])}
<1>5. \A v \in Node : p[v] = v \/ p[v] \in S => v \in S
  <2> SUFFICES ASSUME NEW v \in Node, p[v] = v \/ p[v] \in S PROVE v \in S
    OBVIOUS
  <2>1. CASE p[v] = v
    BY <1>4, <2>1
  <2>2. CASE p[v] # v
    <3>1. f[v] = f[p[v]] /\ p[v] \in S
      BY <1>4, <2>2
    <3>2. r[v] < r[p[v]] /\ f[p[v]] \in Node
      BY <2>2, <3>1 DEF Rising
    <3>3. r[v] < r[f[p[v]]]
      <4>1. CASE p[p[v]] = p[v]
        <5>1. f[p[v]] = p[v]
          BY <1>1, <1>4, <4>1
        <5> QED
          BY <3>2, <5>1
      <4>2. CASE p[p[v]] # p[v]
        <5>1. r[p[v]] < r[f[p[v]]]
          BY <3>1, <4>2
        <5> QED
          BY <1>1, <3>2, <5>1
      <4> QED
        BY <4>1, <4>2
    <3> QED
      BY <3>1, <3>3
  <2> QED
    BY <2>1, <2>2
<1>6. \A v \in Node : v \in S
  <2>1. S \in SUBSET Node
    OBVIOUS
  <2> HIDE DEF S
  <2> QED
    BY <1>5, <2>1, Rises
<1> QED
  BY <1>4, <1>6 DEF f

\* The nodes on the way are of one tree.
LEMMA WayIs ==
  ASSUME NEW p, NEW r, Rising(p, r), NEW v \in Node
  PROVE  /\ v \in Way(p, v)
         /\ \A u \in Way(p, v) : u \in Node /\ Roots(p)[u] = Roots(p)[v]
<1> DEFINE f == CHOOSE g : IsWay(p, g)
           h0 == Roots(p)
<1>1. p \in [Node -> Node] /\ \A u \in Node : p[u] \in Node
  BY DEF Rising
<1>2. IsWay(p, f)
  <2>1. \E g : IsWay(p, g)
    BY <1>1, WayExists
  <2> QED
    BY <2>1
<1>3. Way(p, v) = f[v]
  BY Zenon DEF Way, IsWay
<1> HIDE DEF f
<1>4. \A u \in Node : f[u] = IF p[u] = u THEN {u} ELSE {u} \cup f[p[u]]
  BY <1>2 DEF IsWay
<1>5. \A u \in Node : h0[u] = IF p[u] = u THEN u ELSE h0[p[u]]
  BY RootsAre
<1> HIDE DEF h0
<1> DEFINE S == {w \in Node : w \in f[w] /\ \A u \in f[w] : u \in Node /\ h0[u] = h0[w]}
<1>6. \A w \in Node : p[w] = w \/ p[w] \in S => w \in S
  <2> SUFFICES ASSUME NEW w \in Node, p[w] = w \/ p[w] \in S PROVE w \in S
    OBVIOUS
  <2>1. CASE p[w] = w
    <3>1. f[w] = {w}
      BY <1>4, <2>1
    <3> QED
      BY <3>1
  <2>2. CASE p[w] # w
    <3>1. f[w] = {w} \cup f[p[w]] /\ h0[w] = h0[p[w]] /\ p[w] \in S
      BY <1>4, <1>5, <2>2
    <3> QED
      BY <3>1
  <2> QED
    BY <2>1, <2>2
<1>7. \A w \in Node : w \in S
  <2>1. S \in SUBSET Node
    OBVIOUS
  <2> HIDE DEF S
  <2> QED
    BY <1>6, <2>1, Rises
<1> QED
  BY <1>3, <1>7 DEF h0

\* Path compression leaves every node in its tree.
LEMMA CompressIs ==
  ASSUME NEW p, NEW r, Rising(p, r), NEW v \in Node
  PROVE  /\ Rising(Compress(p, v), r)
         /\ \A u \in Node : Roots(Compress(p, v))[u] = Roots(p)[u]
         /\ Compress(p, v)[v] = Roots(p)[v]
         /\ \A u \in Node : Compress(p, v)[u] = p[u] \/ Compress(p, v)[u] = Roots(p)[u]
<1> DEFINE q == Compress(p, v)
           f == Roots(p)
           W == Way(p, v)
<1>1. p \in [Node -> Node] /\ r \in [Node -> Nat] /\ \A u \in Node : p[u] \in Node /\ r[u] \in Nat
  BY DEF Rising
<1>2. /\ \A u \in Node : f[u] = IF p[u] = u THEN u ELSE f[p[u]]
      /\ \A u \in Node : f[u] \in Node /\ p[f[u]] = f[u] /\ (p[u] # u => r[u] < r[f[u]])
  BY RootsAre
<1>3. v \in W /\ \A u \in W : u \in Node /\ f[u] = f[v]
  BY WayIs
<1>4. q = [u \in Node |-> IF u \in W THEN f[v] ELSE p[u]]
  BY DEF Compress
<1> HIDE DEF q, W, f
<1>5. \A u \in Node : q[u] = IF u \in W THEN f[u] ELSE p[u]
  BY <1>3, <1>4
<1>6. Rising(q, r)
  <2>1. q \in [Node -> Node]
    BY <1>1, <1>2, <1>4
  <2>2. ASSUME NEW u \in Node, q[u] # u PROVE r[u] < r[q[u]]
    BY <1>2, <1>5, <2>2 DEF Rising
  <2> QED
    BY <1>1, <2>1, <2>2 DEF Rising
<1>7. \A u \in Node : Roots(q)[u] = IF q[u] = u THEN u ELSE Roots(q)[q[u]]
  BY <1>6, RootsAre
<1> DEFINE S == {u \in Node : Roots(q)[u] = f[u]}
<1>8. \A u \in Node : q[u] = u \/ q[u] \in S => u \in S
  <2> SUFFICES ASSUME NEW u \in Node, q[u] = u \/ q[u] \in S PROVE Roots(q)[u] = f[u]
    OBVIOUS
  <2>1. CASE q[u] = u
    BY <1>2, <1>5, <1>7, <2>1
  <2>2. CASE q[u] # u
    <3>1. Roots(q)[u] = Roots(q)[q[u]] /\ Roots(q)[q[u]] = f[q[u]]
      BY <1>7, <2>2
    <3>2. f[q[u]] = f[u]
      <4>1. CASE u \in W
        <5>1. q[u] = f[u] /\ f[u] \in Node /\ p[f[u]] = f[u]
          BY <1>2, <1>5, <4>1
        <5> QED
          BY <1>2, <5>1
      <4>2. CASE u \notin W
        BY <1>2, <1>5, <2>2, <4>2
      <4> QED
        BY <4>1, <4>2
    <3> QED
      BY <3>1, <3>2
  <2> QED
    BY <2>1, <2>2
<1>9. \A u \in Node : u \in S
  <2>1. S \in SUBSET Node
    OBVIOUS
  <2> HIDE DEF S
  <2> QED
    BY <1>6, <1>8, <2>1, Rises
<1> QED
  BY <1>3, <1>5, <1>6, <1>9 DEF q, f

\* A root is put under another one.
Links(p, r, a, b, q, s) ==
  /\ Rising(p, r) /\ a \in Node /\ b \in Node /\ a # b /\ p[a] = a /\ p[b] = b
  /\ Rising(q, s) /\ q[a] = b /\ \A v \in Node : v # a => q[v] = p[v]

\* Its tree becomes part of the other's.
LEMMA LinkIs ==
  ASSUME NEW p, NEW r, NEW a, NEW b, NEW q, NEW s, Links(p, r, a, b, q, s)
  PROVE  \A v \in Node : Roots(q)[v] = IF Roots(p)[v] = a THEN b ELSE Roots(p)[v]
<1> DEFINE f == Roots(p)
           e == Roots(q)
<1>1. /\ Rising(p, r) /\ a \in Node /\ b \in Node /\ a # b /\ p[a] = a /\ p[b] = b
      /\ Rising(q, s) /\ q[a] = b /\ \A v \in Node : v # a => q[v] = p[v]
  BY DEF Links
<1>2. \A v \in Node : f[v] = IF p[v] = v THEN v ELSE f[p[v]]
  BY <1>1, RootsAre
<1>3. \A v \in Node : e[v] = IF q[v] = v THEN v ELSE e[q[v]]
  BY <1>1, RootsAre
<1> HIDE DEF f, e
<1>4. f[a] = a /\ f[b] = b
  BY <1>1, <1>2
<1> DEFINE S == {v \in Node : e[v] = IF f[v] = a THEN b ELSE f[v]}
<1>5. \A v \in Node : q[v] = v \/ q[v] \in S => v \in S
  <2> SUFFICES ASSUME NEW v \in Node, q[v] = v \/ q[v] \in S PROVE v \in S
    OBVIOUS
  <2>1. CASE v = a
    BY <1>1, <1>3, <1>4, <2>1
  <2>2. CASE v # a /\ p[v] = v
    BY <1>1, <1>2, <1>3, <2>2
  <2>3. CASE v # a /\ p[v] # v
    <3>1. f[v] = f[p[v]] /\ e[v] = e[p[v]] /\ p[v] \in S
      BY <1>1, <1>2, <1>3, <2>3
    <3> QED
      BY <3>1
  <2> QED
    BY <2>1, <2>2, <2>3
<1>6. \A v \in Node : v \in S
  <2>1. S \in SUBSET Node
    OBVIOUS
  <2> HIDE DEF S
  <2> QED
    BY <1>1, <1>5, <2>1, Rises
<1> QED
  BY <1>6 DEF e, f

\* Powers of two, of which no more is known than that they number subsets.
LEMMA Doubled ==
  /\ 2 ^ 0 = 1
  /\ \A n \in Nat : 2 ^ n \in Nat /\ 2 ^ (n + 1) \in Nat /\ 2 ^ (n + 1) <= 2 ^ n + 2 ^ n
<1>1. \A n \in Nat : IsFiniteSet(SUBSET (1 .. n)) /\ Cardinality(SUBSET (1 .. n)) = 2 ^ n /\ 2 ^ n \in Nat
  <2> TAKE n \in Nat
  <2>1. IsFiniteSet(1 .. n) /\ Cardinality(1 .. n) = n
    BY FS_Interval
  <2>2. IsFiniteSet(SUBSET (1 .. n)) /\ Cardinality(SUBSET (1 .. n)) = 2 ^ n
    BY <2>1, FS_SUBSET
  <2> QED
    BY <2>2, FS_CardinalityType
<1>2. 2 ^ 0 = 1
  <2>1. SUBSET (1 .. 0) = {{}}
    OBVIOUS
  <2> QED
    BY <1>1, <2>1, FS_Singleton
<1>3. ASSUME NEW n \in Nat PROVE 2 ^ (n + 1) <= 2 ^ n + 2 ^ n
  <2> DEFINE A == SUBSET (1 .. n)
             B == {T \cup {n + 1} : T \in A}
             C == SUBSET (1 .. n + 1)
             f == [T \in A |-> T \cup {n + 1}]
  <2>1. IsFiniteSet(A) /\ Cardinality(A) = 2 ^ n /\ 2 ^ n \in Nat /\ n + 1 \in Nat
    BY <1>1
  <2>2. Cardinality(C) = 2 ^ (n + 1) /\ 2 ^ (n + 1) \in Nat
    BY <1>1, <2>1
  <2>3. C \subseteq A \cup B
    <3> SUFFICES ASSUME NEW T \in C, T \notin A PROVE T \in B
      OBVIOUS
    <3>1. n + 1 \in T /\ T \ {n + 1} \in A
      OBVIOUS
    <3>2. T = (T \ {n + 1}) \cup {n + 1}
      BY <3>1
    <3> QED
      BY <3>1, <3>2
  <2>4. f \in Surjection(A, B)
    BY DEF Surjection
  <2> HIDE DEF A, B, C, f
  <2>5. IsFiniteSet(B) /\ Cardinality(B) <= Cardinality(A)
    BY <2>1, <2>4, FS_Surjection
  <2>6. /\ IsFiniteSet(A \cup B)
        /\ Cardinality(A \cup B) = Cardinality(A) + Cardinality(B) - Cardinality(A \cap B)
    BY <2>1, <2>5, FS_Union
  <2>7. Cardinality(A \cap B) \in Nat /\ Cardinality(B) \in Nat
    BY <2>1, <2>5, FS_Intersection, FS_CardinalityType
  <2>8. Cardinality(C) <= Cardinality(A \cup B)
    BY <2>3, <2>6, FS_Subset
  <2> QED
    BY <2>1, <2>2, <2>5, <2>6, <2>7, <2>8
<1>4. \A n \in Nat : 2 ^ n \in Nat /\ 2 ^ (n + 1) \in Nat
  <2> TAKE n \in Nat
  <2>1. n + 1 \in Nat
    OBVIOUS
  <2> QED
    BY <1>1, <2>1
<1> QED
  BY <1>2, <1>3, <1>4

\* Connected nodes.
LEMMA ConnectedIs ==
  ASSUME CsrTypeOK
  PROVE  /\ \A u \in Node : Connected(net, u, u)
         /\ \A u, v \in Node : Connected(net, u, v) => Connected(net, v, u)
         /\ \A u, v, w \in Node : Connected(net, u, v) /\ Connected(net, v, w) => Connected(net, u, w)
         /\ \A i \in DOMAIN net : Connected(net, net[i].src, net[i].tgt)
<1>1. \A i \in DOMAIN net : net[i].src \in Node /\ net[i].tgt \in Node
  BY EdgeOf
<1>2. ASSUME NEW u \in Node, NEW v \in Node, Connected(net, u, v) PROVE Connected(net, v, u)
  <2> SUFFICES ASSUME NEW S \in SUBSET Node, v \in S, \A i \in DOMAIN net : net[i].src \in S <=> net[i].tgt \in S,
                      u \notin S
               PROVE  FALSE
    BY DEF Connected
  <2>1. u \in Node \ S /\ \A i \in DOMAIN net : net[i].src \in Node \ S <=> net[i].tgt \in Node \ S
    BY <1>1
  <2>2. Node \ S \in SUBSET Node
    OBVIOUS
  <2>3. v \in Node \ S
    BY <1>2, <2>1, <2>2 DEF Connected
  <2> QED
    BY <2>3
<1> QED
  BY <1>2 DEF Connected

\* What a call of wcc keeps: a forest of connected nodes, in which the ends of
\* every edge that was looked at have one root; and no root is too high.
Forest == Rising(parent, rank) /\ \A v \in Node : Connected(net, v, parent[v])
Merged(i) == cur = None \/ net[i].src < cur \/ (net[i].src = cur /\ i \notin todo)
Joined == \A i \in DOMAIN net : Merged(i) => Roots(parent)[net[i].src] = Roots(parent)[net[i].tgt]
TreeOf(p, r) == {v \in Node : Roots(p)[v] = r}
Flat == \A r \in Node : parent[r] = r => 2 ^ rank[r] <= Cardinality(TreeOf(parent, r))

\* Nodes are numbered in their order, by the trees they are in.
Numbered ==
  /\ \A v \in Node : component[v] # None <=> next = None \/ v < next
  /\ \A u, v \in Node : component[u] # None /\ component[v] # None =>
       (component[u] = component[v] <=> Roots(parent)[u] = Roots(parent)[v])
  /\ \A v \in Node : component[v] # None => component[v] < count
  /\ \A n \in 0 .. count - 1 : \E v \in Node : component[v] = n
Firsts ==
  \A v \in Node : component[v] # None =>
    \E u \in Node : u <= v /\ component[u] = component[v] /\ \A x \in Node : x < u => component[x] < component[u]
WccStages ==
  /\ stage \in {"search", "done"} /\ frames = <<>> /\ next \in Node \cup {None}
  /\ cur # None => next = FirstOf(Node) /\ count = 0 /\ todo \subseteq Slots(net, cur)
  /\ cur = None => todo = {}
  /\ stage = "done" => next = None

Wccing ==
  /\ CsrTypeOK /\ ComponentsTypeOK /\ algo = "wcc" /\ WccStages
  /\ Forest /\ Joined /\ Flat /\ Numbered /\ Firsts

\* The variables that have types, as facts the provers can use.
LEMMA WccTyped ==
  ASSUME Wccing
  PROVE  /\ component \in [Node -> Num] /\ parent \in [Node -> Node] /\ rank \in [Node -> Nat] /\ count \in Nat
         /\ cur \in Node \cup {None} /\ todo \in SUBSET DOMAIN net /\ DOMAIN net \in SUBSET Nat
         /\ Node \in SUBSET Nat /\ None \notin Nat /\ IsFiniteSet(Node)
         /\ \A i \in DOMAIN net : net[i].src \in Node /\ net[i].tgt \in Node
<1>1. /\ component \in [Node -> Num] /\ parent \in [Node -> Node] /\ rank \in [Node -> Nat] /\ count \in Nat
  BY DEF Wccing, ComponentsTypeOK, IsComponents
<1>2. cur \in Node \cup {None} /\ todo \in SUBSET DOMAIN net /\ DOMAIN net \in SUBSET Nat
  BY DEF Wccing, CsrTypeOK
<1> QED
  BY <1>1, <1>2, EdgeOf, NodeAssumption DEF Wccing

\* A node is connected with the root of its tree.
LEMMA RootConnected ==
  ASSUME CsrTypeOK, Forest
  PROVE  \A v \in Node : Connected(net, v, Roots(parent)[v])
<1> DEFINE f == Roots(parent)
           S == {v \in Node : Connected(net, v, f[v])}
<1>1. /\ Rising(parent, rank) /\ \A v \in Node : parent[v] \in Node
      /\ \A v \in Node : f[v] = IF parent[v] = v THEN v ELSE f[parent[v]]
      /\ \A v \in Node : f[v] \in Node
  BY RootsAre DEF Forest, Rising
<1> HIDE DEF f
<1>2. \A v \in Node : parent[v] = v \/ parent[v] \in S => v \in S
  BY <1>1, ConnectedIs DEF Forest
<1>3. \A v \in Node : v \in S
  <2>1. S \in SUBSET Node
    OBVIOUS
  <2> HIDE DEF S
  <2> QED
    BY <1>1, <1>2, <2>1, Rises
<1> QED
  BY <1>3 DEF f

\* A root is one of the forest, and of its tree.
LEMMA RootIs ==
  ASSUME NEW p, NEW r, Rising(p, r), NEW v \in Node
  PROVE  p[v] = v <=> Roots(p)[v] = v
BY RootsAre

\* uf_union: the way to both roots is compressed, and one put under the other
\* if there are two.
UnionOf(x, y, q, a, b) ==
  /\ Rising(q, rank) /\ \A v \in Node : Roots(q)[v] = Roots(parent)[v]
  /\ \A v \in Node : q[v] = parent[v] \/ q[v] = Roots(parent)[v]
  /\ q[a] = a /\ q[b] = b
  /\ \/ a = Roots(parent)[x] /\ b = Roots(parent)[y]
     \/ b = Roots(parent)[x] /\ a = Roots(parent)[y]
  /\ Rising(parent', rank') /\ parent' = [q EXCEPT ![a] = b]
  /\ \A v \in Node : v # b => rank'[v] = rank[v]
  /\ rank'[b] = rank[b] \/ (a # b /\ rank[a] = rank[b] /\ rank'[b] = rank[b] + 1)

\* That is what it does.
LEMMA UnionDoes ==
  ASSUME Rising(parent, rank), NEW x \in Node, NEW y \in Node, Union(x, y)
  PROVE  \E q, a, b : a \in Node /\ b \in Node /\ UnionOf(x, y, q, a, b)
<1> DEFINE q1 == Compress(parent, x)
           q == Compress(q1, y)
           f == Roots(parent)
           rx == q[x]
           ry == q[y]
<1>1. parent \in [Node -> Node] /\ rank \in [Node -> Nat] /\ \A v \in Node : rank[v] \in Nat
  BY DEF Rising
<1>2. /\ Rising(q1, rank) /\ q1[x] = f[x]
      /\ \A v \in Node : Roots(q1)[v] = f[v]
      /\ \A v \in Node : q1[v] = parent[v] \/ q1[v] = f[v]
  BY CompressIs
<1> HIDE DEF q1
<1>3. /\ Rising(q, rank) /\ q[y] = Roots(q1)[y]
      /\ \A v \in Node : Roots(q)[v] = Roots(q1)[v]
      /\ \A v \in Node : q[v] = q1[v] \/ q[v] = Roots(q1)[v]
  BY <1>2, CompressIs
<1>4. /\ parent' = IF Lowers(rx, ry) THEN [q EXCEPT ![rx] = ry] ELSE [q EXCEPT ![ry] = rx]
      /\ rank' = IF rx # ry /\ rank[rx] = rank[ry] THEN [rank EXCEPT ![rx] = rank[rx] + 1] ELSE rank
  BY DEF Union, q, q1
<1>5. /\ \A v \in Node : f[v] \in Node
      /\ q \in [Node -> Node]
  BY <1>3, RootsAre DEF Rising
<1> HIDE DEF q, f
<1>6. /\ \A v \in Node : Roots(q)[v] = f[v]
      /\ \A v \in Node : q[v] = parent[v] \/ q[v] = f[v]
      /\ rx = f[x] /\ ry = f[y]
  BY <1>2, <1>3
<1>7. \A v \in Node : q[f[v]] = f[v]
  <2>1. \A v \in Node : q[Roots(q)[v]] = Roots(q)[v]
    BY <1>3, RootsAre
  <2> QED
    BY <1>6, <2>1
<1>8. rx \in Node /\ ry \in Node /\ q[rx] = rx /\ q[ry] = ry
  BY <1>5, <1>6, <1>7
<1> HIDE DEF rx, ry
<1>9. \A v \in Node : q[v] \in Node /\ (q[v] # v => rank[v] < rank[q[v]])
  BY <1>3 DEF Rising
<1>10. CASE rank[rx] < rank[ry]
  <2>1. parent' = [q EXCEPT ![rx] = ry] /\ rank' = rank
    BY <1>1, <1>4, <1>8, <1>10 DEF Lowers
  <2>2. parent' \in [Node -> Node]
    BY <1>5, <1>8, <2>1
  <2>3. \A v \in Node : parent'[v] # v => rank'[v] < rank'[parent'[v]]
    BY <1>5, <1>8, <1>9, <1>10, <2>1
  <2>4. UnionOf(x, y, q, rx, ry)
    BY <1>1, <1>3, <1>6, <1>8, <2>1, <2>2, <2>3 DEF UnionOf, Rising, f
  <2> QED
    BY <1>8, <2>4
<1>11. CASE ~(rank[rx] < rank[ry])
  <2>1. parent' = [q EXCEPT ![ry] = rx]
    BY <1>4, <1>11 DEF Lowers
  <2>2. parent' \in [Node -> Node]
    BY <1>5, <1>8, <2>1
  <2>3. /\ rank' \in [Node -> Nat] /\ \A v \in Node : v # rx => rank'[v] = rank[v]
        /\ rank'[rx] = IF rx # ry /\ rank[rx] = rank[ry] THEN rank[rx] + 1 ELSE rank[rx]
    BY <1>1, <1>4, <1>8
  <2>4. ASSUME NEW v \in Node, parent'[v] # v PROVE rank'[v] < rank'[parent'[v]]
    <3>1. CASE v = ry
      <4>1. parent'[v] = rx /\ rx # ry
        BY <1>5, <1>8, <2>1, <2>4, <3>1
      <4>2. rank'[v] = rank[ry] /\ rank[ry] \in Nat /\ rank[rx] \in Nat
        BY <1>1, <1>8, <2>3, <3>1, <4>1
      <4> QED
        BY <1>11, <2>3, <4>1, <4>2
    <3>2. CASE v # ry
      <4>1. parent'[v] = q[v] /\ v # rx
        BY <1>5, <1>8, <2>1, <2>4, <3>2
      <4>2. rank'[v] = rank[v] /\ rank[v] < rank[q[v]] /\ q[v] \in Node
        BY <1>9, <2>3, <2>4, <4>1
      <4>3. rank'[q[v]] = rank[q[v]] \/ rank'[q[v]] = rank[q[v]] + 1
        BY <2>3, <4>2
      <4> QED
        BY <1>1, <4>1, <4>2, <4>3
    <3> QED
      BY <3>1, <3>2
  <2>5. UnionOf(x, y, q, ry, rx)
    <3>1. Rising(parent', rank')
      BY <2>2, <2>3, <2>4 DEF Rising
    <3> QED
      BY <1>3, <1>6, <1>8, <2>1, <2>3, <3>1 DEF UnionOf, f
  <2> QED
    BY <1>8, <2>5
<1> QED
  BY <1>10, <1>11

\* The two trees become one, and the others stay.
LEMMA UnionRoots ==
  ASSUME Rising(parent, rank), NEW x, NEW y, NEW q, NEW a \in Node, NEW b \in Node, UnionOf(x, y, q, a, b)
  PROVE  \A v \in Node : Roots(parent')[v] = IF Roots(parent)[v] = a THEN b ELSE Roots(parent)[v]
<1>1. /\ Rising(q, rank) /\ \A v \in Node : Roots(q)[v] = Roots(parent)[v]
      /\ q[a] = a /\ q[b] = b /\ Rising(parent', rank') /\ parent' = [q EXCEPT ![a] = b]
  BY DEF UnionOf
<1> DEFINE t == parent'
           s == rank'
<1>2. Rising(t, s) /\ t = [q EXCEPT ![a] = b]
  BY <1>1
<1> HIDE DEF t, s
<1>3. CASE a # b
  <2>1. \A v \in Node : Roots(t)[v] = IF Roots(q)[v] = a THEN b ELSE Roots(q)[v]
    <3>1. t[a] = b /\ \A v \in Node : v # a => t[v] = q[v]
      BY <1>1, <1>2 DEF Rising
    <3>2. Links(q, rank, a, b, t, s)
      BY <1>1, <1>2, <1>3, <3>1 DEF Links
    <3> QED
      BY <3>2, LinkIs
  <2> QED
    BY <1>1, <2>1 DEF t
<1>4. CASE a = b
  <2>1. t = q
    BY <1>1, <1>2, <1>4 DEF Rising
  <2> QED
    BY <1>1, <1>4, <2>1 DEF t
<1> QED
  BY <1>3, <1>4

\* The nodes of a tree stay connected.
LEMMA UnionForest ==
  ASSUME CsrTypeOK, Forest, NEW i \in DOMAIN net, NEW q, NEW a \in Node, NEW b \in Node,
         UnionOf(net[i].src, net[i].tgt, q, a, b)
  PROVE  \A v \in Node : Connected(net, v, parent'[v])
<1>1. net[i].src \in Node /\ net[i].tgt \in Node
  BY EdgeOf
<1>2. /\ \A v \in Node : Roots(parent)[v] \in Node /\ Connected(net, v, Roots(parent)[v])
      /\ \A v \in Node : parent[v] \in Node /\ Connected(net, v, parent[v])
  BY RootsAre, RootConnected DEF Forest, Rising
<1>3. /\ Rising(q, rank) /\ \A v \in Node : q[v] = parent[v] \/ q[v] = Roots(parent)[v]
      /\ \/ a = Roots(parent)[net[i].src] /\ b = Roots(parent)[net[i].tgt]
         \/ b = Roots(parent)[net[i].src] /\ a = Roots(parent)[net[i].tgt]
      /\ parent' = [q EXCEPT ![a] = b]
  BY DEF UnionOf
<1>4. Connected(net, a, b)
  <2> DEFINE x == net[i].src
             y == net[i].tgt
             rx == Roots(parent)[x]
             ry == Roots(parent)[y]
  <2>1. /\ Connected(net, x, y) /\ Connected(net, x, rx) /\ Connected(net, y, ry)
        /\ x \in Node /\ y \in Node /\ rx \in Node /\ ry \in Node
    BY <1>1, <1>2, ConnectedIs
  <2> HIDE DEF x, y, rx, ry
  <2>2. Connected(net, rx, x) /\ Connected(net, rx, y)
    BY <2>1, ConnectedIs
  <2>3. Connected(net, rx, ry)
    BY <2>1, <2>2, ConnectedIs
  <2>4. Connected(net, ry, rx)
    BY <2>1, <2>3, ConnectedIs
  <2> QED
    BY <1>3, <2>3, <2>4 DEF rx, ry, x, y
<1>5. \A v \in Node : parent'[v] = IF v = a THEN b ELSE q[v]
  BY <1>3 DEF Rising
<1> QED
  BY <1>2, <1>3, <1>4, <1>5

\* A tree has at least 2^r nodes if r is the rank of its root.
LEMMA UnionFlat ==
  ASSUME Rising(parent, rank), Flat, NEW x, NEW y, NEW q, NEW a \in Node, NEW b \in Node, UnionOf(x, y, q, a, b)
  PROVE  Flat'
<1>1. /\ parent \in [Node -> Node] /\ rank \in [Node -> Nat] /\ IsFiniteSet(Node)
  BY NodeAssumption DEF Rising
<1>2. /\ Rising(q, rank) /\ \A v \in Node : Roots(q)[v] = Roots(parent)[v]
      /\ q[a] = a /\ q[b] = b /\ Rising(parent', rank') /\ parent' = [q EXCEPT ![a] = b]
      /\ \A v \in Node : v # b => rank'[v] = rank[v]
      /\ rank'[b] = rank[b] \/ (a # b /\ rank[a] = rank[b] /\ rank'[b] = rank[b] + 1)
  BY DEF UnionOf
<1>3. \A v \in Node : Roots(parent')[v] = IF Roots(parent)[v] = a THEN b ELSE Roots(parent)[v]
  BY UnionRoots
<1> DEFINE T(r) == TreeOf(parent, r)
           U(r) == TreeOf(parent', r)
<1>4. \A r : /\ T(r) \in SUBSET Node /\ IsFiniteSet(T(r)) /\ Cardinality(T(r)) \in Nat
             /\ U(r) \in SUBSET Node /\ IsFiniteSet(U(r)) /\ Cardinality(U(r)) \in Nat
  <2> TAKE r
  <2>1. T(r) \in SUBSET Node /\ U(r) \in SUBSET Node
    BY DEF TreeOf
  <2> HIDE DEF T, U
  <2> QED
    BY <1>1, <2>1, FS_Subset, FS_CardinalityType
<1>5. \A v \in Node : q[v] = v <=> parent[v] = v
  <2>1. \A v \in Node : q[v] = v <=> Roots(q)[v] = v
    BY <1>2, RootIs
  <2>2. \A v \in Node : parent[v] = v <=> Roots(parent)[v] = v
    BY RootIs
  <2> QED
    BY <1>2, <2>1, <2>2
<1>6. parent[a] = a /\ parent[b] = b
  BY <1>2, <1>5
<1>7. \A r \in Node : r # a /\ r # b => U(r) = T(r)
  BY <1>3 DEF TreeOf
<1>8. U(b) = T(a) \cup T(b)
  BY <1>3 DEF TreeOf
<1>9. a # b => T(a) \cap T(b) = {}
  BY DEF TreeOf
<1>10. \A r \in Node : 2 ^ rank[r] \in Nat /\ rank[r] \in Nat
  <2> TAKE r \in Node
  <2>1. rank[r] \in Nat
    BY <1>1
  <2> QED
    BY <2>1, Doubled
<1>11. 2 ^ rank[a] <= Cardinality(T(a)) /\ 2 ^ rank[b] <= Cardinality(T(b))
  BY <1>6 DEF Flat
<1>12. \A r \in Node : parent'[r] = r => r # a \/ a = b
  BY <1>2 DEF Rising
<1>13. \A r \in Node : r # a => (parent'[r] = r => parent[r] = r)
  BY <1>2, <1>5 DEF Rising
<1>14. 2 ^ rank'[b] <= Cardinality(U(b))
  <2>1. CASE a = b
    <3>1. rank'[b] = rank[b]
      BY <1>2, <2>1
    <3>2. U(b) = T(b)
      BY <1>8, <2>1
    <3> QED
      BY <1>11, <3>1, <3>2
  <2>2. CASE a # b
    <3> HIDE DEF T, U
    <3>1. Cardinality(U(b)) = Cardinality(T(a)) + Cardinality(T(b))
      <4>1. Cardinality(T(a) \cup T(b)) = Cardinality(T(a)) + Cardinality(T(b)) - Cardinality(T(a) \cap T(b))
        BY <1>4, FS_Union
      <4>2. Cardinality(T(a) \cap T(b)) = 0
        BY <1>9, <2>2, FS_EmptySet
      <4> QED
        BY <1>4, <1>8, <4>1, <4>2
    <3>2. CASE rank'[b] = rank[b]
      BY <1>4, <1>10, <1>11, <3>1, <3>2
    <3>3. CASE rank[a] = rank[b] /\ rank'[b] = rank[b] + 1
      <4>1. 2 ^ (rank[b] + 1) <= 2 ^ rank[b] + 2 ^ rank[b] /\ 2 ^ (rank[b] + 1) \in Nat
        BY <1>10, Doubled
      <4>2. 2 ^ rank[b] <= Cardinality(T(a))
        BY <1>11, <3>3
      <4>3. 2 ^ (rank[b] + 1) <= Cardinality(T(a)) + Cardinality(T(b))
        BY <1>4, <1>10, <1>11, <4>1, <4>2
      <4> QED
        BY <3>1, <3>3, <4>3
    <3> QED
      BY <1>2, <3>2, <3>3
  <2> QED
    BY <2>1, <2>2
<1>15. ASSUME NEW r \in Node, parent'[r] = r PROVE 2 ^ rank'[r] <= Cardinality(U(r))
  <2>1. CASE r = b
    BY <1>14, <2>1
  <2>2. CASE r # b
    <3>1. r # a /\ parent[r] = r
      BY <1>12, <1>13, <1>15, <2>2
    <3>2. U(r) = T(r) /\ rank'[r] = rank[r]
      BY <1>2, <1>7, <2>2, <3>1
    <3>3. 2 ^ rank[r] <= Cardinality(T(r))
      BY <3>1 DEF Flat
    <3> QED
      BY <3>2, <3>3
  <2> QED
    BY <2>1, <2>2
<1> QED
  BY <1>15 DEF Flat

\* A call begins: every node is a tree.
LEMMA WccBegins ==
  ASSUME CsrIdle, ComponentsIdle, NEW g \in NetsOf["wcc"], Wcc(g)
  PROVE  Wccing'
<1>1. /\ algo' = "wcc" /\ net' = g /\ source' = None /\ stage' = "search"
      /\ component' = AllNodes(None) /\ count' = 0 /\ next' = FirstOf(Node)
      /\ parent' = [v \in Node |-> v] /\ rank' = AllNodes(0)
      /\ cur' = FirstOf(Node) /\ todo' = Slots(g, FirstOf(Node))
      /\ visited' = {} /\ current_index' = 0 /\ stack' = <<>> /\ frames' = <<>>
  BY DEF Wcc, ComponentsBegin, CsrCall, CsrIdle, ComponentsIdle
<1>2. g \in Seq(Edge) /\ DOMAIN g \in SUBSET Nat
  BY NetsAssumption DEF Algorithm
<1>3. FirstOf(Node) \in Node /\ FirstOf(Node) # None /\ (\A v \in Node : FirstOf(Node) <= v)
      /\ Node \in SUBSET Nat
  BY FirstNode, NodeAssumption
<1>4. Slots(g, FirstOf(Node)) \in SUBSET DOMAIN g
  BY DEF Slots
<1>5. CsrTypeOK'
  BY <1>1, <1>2, <1>3, <1>4 DEF CsrTypeOK, Algorithm
<1>6. component' \in [Node -> Num] /\ parent' \in [Node -> Node] /\ rank' \in [Node -> Nat]
  BY <1>1 DEF AllNodes, Num
<1>7. ComponentsTypeOK'
  <2>1. stack' \in Seq(Node) /\ frames' \in Seq(FrameOf')
    BY <1>1
  <2> QED
    BY <1>1, <1>3, <1>6, <2>1 DEF ComponentsTypeOK, IsComponents, FrameOf
<1>8. \A v \in Node : component'[v] = None /\ parent'[v] = v /\ rank'[v] = 0
  BY <1>1 DEF AllNodes
<1>9. Rising(parent', rank')
  BY <1>6, <1>8 DEF Rising
<1>10. Forest'
  <2>1. (CsrTypeOK => \A u \in Node : Connected(net, u, u))'
    <3>1. CsrTypeOK => \A u \in Node : Connected(net, u, u)
      BY ConnectedIs
    <3> QED
      BY ConnectedIs, PTL
  <2> QED
    BY <1>5, <1>8, <1>9, <2>1 DEF Forest
<1>11. \A v \in Node : Roots(parent')[v] = v
  <2> DEFINE t == parent'
             s == rank'
  <2>1. Rising(t, s) /\ \A v \in Node : t[v] = v
    BY <1>8, <1>9
  <2> HIDE DEF t, s
  <2>2. \A v \in Node : Roots(t)[v] = v
    BY <2>1, RootsAre
  <2> QED
    BY <2>2 DEF t
<1>12. Joined'
  <2>1. \A i \in DOMAIN g : g[i].src \in Node
    <3>1. \A i \in DOMAIN g : g[i] \in Edge
      BY <1>2
    <3> QED
      BY <3>1 DEF Edge
  <2>2. ASSUME NEW i \in DOMAIN g PROVE ~Merged(i)'
    <3>1. g[i].src \in Nat /\ FirstOf(Node) \in Nat /\ FirstOf(Node) <= g[i].src
      BY <1>3, <2>1
    <3>2. ~(g[i].src < FirstOf(Node))
      BY ONLY <3>1
    <3>3. g[i].src = FirstOf(Node) => i \in Slots(g, FirstOf(Node))
      BY DEF Slots
    <3> QED
      BY <1>1, <1>3, <3>2, <3>3 DEF Merged
  <2> QED
    BY <1>1, <2>2 DEF Joined
<1>13. Flat'
  <2>1. ASSUME NEW r \in Node PROVE 2 ^ rank'[r] <= Cardinality(TreeOf(parent', r))
    <3>1. TreeOf(parent', r) = {r}
      BY <1>11 DEF TreeOf
    <3>2. Cardinality(TreeOf(parent', r)) = 1
      BY <3>1, FS_Singleton
    <3>3. 2 ^ rank'[r] = 1
      BY <1>8, Doubled
    <3> QED
      BY <3>2, <3>3
  <2> QED
    BY <2>1 DEF Flat
<1>14. Numbered' /\ Firsts'
  <2>1. \A v \in Node : ~(next' = None \/ v < next')
    <3> TAKE v \in Node
    <3>1. FirstOf(Node) \in Nat /\ v \in Nat /\ FirstOf(Node) <= v
      BY <1>3
    <3>2. ~(v < FirstOf(Node))
      BY ONLY <3>1
    <3> QED
      BY ONLY <1>1, <1>3, <3>2
  <2>2. 0 .. 0 - 1 = {}
    OBVIOUS
  <2> QED
    BY <1>1, <1>8, <2>1, <2>2 DEF Numbered, Firsts
<1>15. WccStages'
  BY <1>1, <1>3 DEF WccStages
<1> QED
  BY <1>1, <1>5, <1>7, <1>10, <1>12, <1>13, <1>14, <1>15 DEF Wccing

\* Before the trees are numbered no node has a number.
LEMMA NoNumbers ==
  ASSUME Wccing, cur # None
  PROVE  \A v \in Node : component[v] = None
<1>1. next = FirstOf(Node) /\ next \in Node /\ next # None /\ (\A v \in Node : next <= v) /\ Node \in SUBSET Nat
  BY WccTyped, FirstNode DEF Wccing, WccStages
<1>2. \A v \in Node : ~(next = None \/ v < next)
  BY <1>1
<1> QED
  BY <1>2 DEF Wccing, Numbered

\* The ends of an edge are joined.
LEMMA WccJoins ==
  ASSUME Wccing, Join
  PROVE  Wccing'
<1> DEFINE i == FirstOf(todo)
<1>1. /\ todo # {} /\ todo' = todo \ {i} /\ Union(cur, net[i].tgt)
      /\ UNCHANGED <<net, algo, stage, source, visited, cur,
                     component, count, index, lowlink, current_index, stack, frames, next>>
  BY DEF Join
<1>2. /\ component \in [Node -> Num] /\ parent \in [Node -> Node] /\ rank \in [Node -> Nat]
      /\ cur \in Node \cup {None} /\ todo \in SUBSET DOMAIN net /\ DOMAIN net \in SUBSET Nat
      /\ Node \in SUBSET Nat /\ None \notin Nat
      /\ \A j \in DOMAIN net : net[j].src \in Node /\ net[j].tgt \in Node
  BY WccTyped
<1>3. i \in todo
  BY <1>1, <1>2, FirstOfIn
<1> HIDE DEF i
<1>4. cur \in Node /\ cur # None /\ net[i].src = cur /\ i \in DOMAIN net
  BY <1>1, <1>2, <1>3 DEF Wccing, WccStages, Slots
<1>5. ASSUME NEW x \in Node, NEW y \in Node, x = cur, y = net[i].tgt PROVE Union(x, y)
  BY <1>1, <1>5 DEF Union
<1>6. Rising(parent, rank) /\ Forest /\ Flat /\ CsrTypeOK
  BY DEF Wccing, Forest
<1>7. PICK x \in Node, y \in Node : x = net[i].src /\ y = net[i].tgt /\ Union(x, y)
  BY <1>2, <1>4, <1>5
<1>8. PICK q, a, b : a \in Node /\ b \in Node /\ UnionOf(x, y, q, a, b)
  BY <1>6, <1>7, UnionDoes
<1>9. a \in Node /\ b \in Node /\ UnionOf(net[i].src, net[i].tgt, q, a, b)
  BY <1>7, <1>8
<1>10. \A v \in Node : Roots(parent')[v] = IF Roots(parent)[v] = a THEN b ELSE Roots(parent)[v]
  BY <1>6, <1>8, UnionRoots
<1>11. Rising(parent', rank') /\ Flat'
  <2>1. Rising(parent', rank')
    BY <1>8 DEF UnionOf
  <2>2. Flat'
    BY <1>6, <1>8, UnionFlat
  <2> QED
    BY <2>1, <2>2
<1>12. Forest'
  <2>1. \A v \in Node : Connected(net, v, parent'[v])
    BY <1>4, <1>6, <1>9, UnionForest
  <2> QED
    BY <1>1, <1>11, <2>1 DEF Forest
<1>13. CsrTypeOK' /\ ComponentsTypeOK'
  <2>1. CsrTypeOK'
    BY <1>1, <1>2, <1>6 DEF CsrTypeOK
  <2>2. parent' \in [Node -> Node] /\ rank' \in [Node -> Nat]
    BY <1>11 DEF Rising
  <2>3. ComponentsTypeOK'
    BY <1>1, <2>2 DEF Wccing, ComponentsTypeOK, IsComponents
  <2> QED
    BY <2>1, <2>3
<1>14. Joined'
  <2> SUFFICES ASSUME NEW j \in DOMAIN net, Merged(j)'
               PROVE  Roots(parent')[net[j].src] = Roots(parent')[net[j].tgt]
    BY <1>1 DEF Joined
  <2>1. Merged(j) \/ j = i
    BY <1>1 DEF Merged
  <2>2. CASE Merged(j)
    <3>1. Roots(parent)[net[j].src] = Roots(parent)[net[j].tgt]
      BY <2>2 DEF Wccing, Joined
    <3> QED
      BY <1>2, <1>10, <3>1
  <2>3. CASE j = i
    <3>1. \/ a = Roots(parent)[net[i].src] /\ b = Roots(parent)[net[i].tgt]
          \/ b = Roots(parent)[net[i].src] /\ a = Roots(parent)[net[i].tgt]
      BY <1>9 DEF UnionOf
    <3> QED
      BY <1>2, <1>4, <1>10, <2>3, <3>1
  <2> QED
    BY <2>1, <2>2, <2>3
<1>15. Numbered' /\ Firsts'
  <2>1. \A v \in Node : component[v] = None
    BY <1>4, NoNumbers
  <2> QED
    BY <1>1, <2>1 DEF Wccing, Numbered, Firsts
<1>16. WccStages'
  BY <1>1, <1>4 DEF Wccing, WccStages, Slots
<1> QED
  BY <1>1, <1>11, <1>12, <1>13, <1>14, <1>15, <1>16 DEF Wccing

\* The loop goes to the next node.
LEMMA WccNexts ==
  ASSUME Wccing, NextNode
  PROVE  Wccing'
<1>1. /\ todo = {} /\ cur # None /\ cur' = After(cur)
      /\ todo' = IF After(cur) = None THEN {} ELSE Slots(net, After(cur))
      /\ UNCHANGED <<net, algo, stage, source, visited, parent, rank, component, count, index, lowlink,
                     current_index, stack, frames, next>>
      /\ stage = "search"
  BY DEF NextNode, compVars
<1>2. /\ cur \in Node \cup {None} /\ Node \in SUBSET Nat /\ None \notin Nat
      /\ \A j \in DOMAIN net : net[j].src \in Node /\ net[j].tgt \in Node
  BY WccTyped
<1>3. cur \in Node
  BY <1>1, <1>2
<1>4. /\ cur' \in Node \cup {None} /\ (cur' # None => cur < cur')
      /\ \A u \in Node : cur < u => cur' # None /\ cur' <= u
  BY <1>1, <1>3, AfterIs
<1>5. todo' \in SUBSET DOMAIN net /\ (cur' = None => todo' = {}) /\ (cur' # None => todo' = Slots(net, cur'))
  BY <1>1 DEF Slots
<1>6. CsrTypeOK'
  BY <1>1, <1>4, <1>5 DEF Wccing, CsrTypeOK
<1>7. ComponentsTypeOK'
  BY <1>1 DEF Wccing, ComponentsTypeOK, IsComponents
<1>8. Forest' /\ Flat' /\ Numbered' /\ Firsts'
  BY <1>1 DEF Wccing, Forest, Flat, TreeOf, Numbered, Firsts
<1>9. Joined'
  <2> SUFFICES ASSUME NEW j \in DOMAIN net, Merged(j)' PROVE Merged(j)
    BY <1>1 DEF Wccing, Joined
  <2>1. net[j].src \in Node /\ (cur' = None \/ net[j].src < cur' \/ (net[j].src = cur' /\ j \notin todo'))
    BY <1>1, <1>2 DEF Merged
  <2>2. ~(cur < net[j].src)
    <3> SUFFICES ASSUME cur < net[j].src PROVE FALSE
      OBVIOUS
    <3>1. cur' # None /\ cur' <= net[j].src /\ cur' \in Node
      BY <1>4, <2>1
    <3>2. net[j].src \in Nat /\ cur' \in Nat
      BY <1>2, <2>1, <3>1
    <3>3. ~(net[j].src < cur')
      BY ONLY <3>1, <3>2
    <3>4. net[j].src = cur' /\ j \notin todo'
      BY <2>1, <3>1, <3>3
    <3> QED
      BY <1>5, <3>1, <3>4 DEF Slots
  <2>3. net[j].src < cur \/ net[j].src = cur
    <3>1. net[j].src \in Nat /\ cur \in Nat
      BY <1>2, <1>3, <2>1
    <3> QED
      BY ONLY <2>2, <3>1
  <2> QED
    BY <1>1, <2>3 DEF Merged
<1>10. WccStages'
  BY <1>1, <1>5 DEF Wccing, WccStages
<1> QED
  BY <1>1, <1>6, <1>7, <1>8, <1>9, <1>10 DEF Wccing

\* A node gets the number of its tree, or the next one if the tree has none.
Gives(k) ==
  /\ component' = [component EXCEPT ![next] = k]
  /\ \/ /\ k = count /\ count' = count + 1
        /\ \A w \in Node : component[w] # None => Roots(parent)[w] # Roots(parent)[next]
     \/ /\ count' = count
        /\ \E w \in Node : component[w] = k /\ k # None /\ Roots(parent)[w] = Roots(parent)[next]

\* That is what the loop over the nodes does.
LEMMA NumberDoes ==
  ASSUME Wccing, Number
  PROVE  /\ next \in Node /\ cur = None /\ stage = "search"
         /\ next' = After(next) /\ parent' = Compress(parent, next)
         /\ UNCHANGED <<csrVars, rank, index, lowlink, current_index, stack, frames>>
         /\ \E k \in Nat : Gives(k)
<1> DEFINE f == Roots(parent)
           known == Mapped(f[next])
<1>1. /\ next # None /\ cur = None /\ stage = "search" /\ next' = After(next) /\ parent' = Compress(parent, next)
      /\ UNCHANGED <<csrVars, rank, index, lowlink, current_index, stack, frames>>
      /\ component' = [component EXCEPT ![next] = IF known = {} THEN count ELSE FirstOf(known)]
      /\ count' = IF known = {} THEN count + 1 ELSE count
  BY DEF Number, NewNumber
<1>2. component \in [Node -> Num] /\ count \in Nat /\ next \in Node
  BY <1>1, WccTyped DEF Wccing, WccStages
<1>3. known = {component[v] : v \in {u \in Node : f[u] = f[next]}} \ {None}
  BY DEF Mapped
<1> HIDE DEF f, known
<1>4. known \in SUBSET Nat
  <2>1. \A v \in Node : component[v] \in Nat \cup {None}
    BY <1>2 DEF Num
  <2> QED
    BY <1>3, <2>1
<1>5. CASE known = {}
  <2>1. \A w \in Node : component[w] # None => f[w] # f[next]
    <3> SUFFICES ASSUME NEW w \in Node, component[w] # None, f[w] = f[next] PROVE FALSE
      OBVIOUS
    <3>1. component[w] \in known
      BY <1>3
    <3> QED
      BY <1>5, <3>1
  <2>2. component' = [component EXCEPT ![next] = count] /\ count' = count + 1
    BY <1>1, <1>5
  <2>3. Gives(count)
    BY <2>1, <2>2 DEF Gives, f
  <2> QED
    BY <1>1, <1>2, <2>3
<1>6. CASE known # {}
  <2> DEFINE k == FirstOf(known)
  <2>1. k \in known
    BY <1>4, <1>6, FirstOfIn
  <2>2. component' = [component EXCEPT ![next] = k] /\ count' = count
    BY <1>1, <1>6
  <2> HIDE DEF k
  <2>3. PICK w \in Node : component[w] = k /\ k # None /\ f[w] = f[next]
    BY <1>3, <2>1
  <2>4. Gives(k)
    BY <2>2, <2>3 DEF Gives, f
  <2> QED
    BY <1>1, <1>2, <1>4, <2>1, <2>4
<1> QED
  BY <1>5, <1>6

\* A node is numbered.
LEMMA WccNumbers ==
  ASSUME Wccing, Number
  PROVE  Wccing'
<1>1. /\ component \in [Node -> Num] /\ parent \in [Node -> Node] /\ rank \in [Node -> Nat] /\ count \in Nat
      /\ Node \in SUBSET Nat /\ None \notin Nat /\ IsFiniteSet(Node)
  BY WccTyped
<1>2. /\ next \in Node /\ cur = None /\ stage = "search"
      /\ next' = After(next) /\ parent' = Compress(parent, next)
      /\ UNCHANGED <<net, algo, stage, source, visited, cur, todo, rank, index, lowlink, current_index, stack, frames>>
  BY NumberDoes DEF csrVars
<1>3. PICK k \in Nat : Gives(k)
  BY NumberDoes
<1>4. Rising(parent, rank) /\ Forest /\ CsrTypeOK
  BY DEF Wccing, Forest
<1>5. /\ Rising(parent', rank)
      /\ \A u \in Node : Roots(parent')[u] = Roots(parent)[u]
      /\ \A u \in Node : parent'[u] = parent[u] \/ parent'[u] = Roots(parent)[u]
  BY <1>2, <1>4, CompressIs
<1>6. /\ next' \in Node \cup {None} /\ (next' # None => next < next')
      /\ \A u \in Node : next < u => next' # None /\ next' <= u
  BY <1>2, AfterIs
<1>7. /\ component'[next] = k /\ k # None /\ \A v \in Node : v # next => component'[v] = component[v]
      /\ component' \in [Node -> Num]
  BY <1>1, <1>2, <1>3 DEF Gives, Num
<1>8. \A v \in Node : component[v] # None <=> v < next
  BY <1>1, <1>2 DEF Wccing, Numbered
<1>9. \A v \in Node : component[v] # None => component[v] \in Nat /\ component[v] < count /\ v # next
  <2> TAKE v \in Node
  <2>1. component[v] # None => component[v] \in Nat /\ component[v] < count
    BY <1>1 DEF Wccing, Numbered, Num
  <2>2. ~(next < next)
    BY <1>1, <1>2
  <2> QED
    BY <1>8, <2>1, <2>2
<1>10. CsrTypeOK'
  BY <1>2, <1>4 DEF CsrTypeOK
<1>11. count' \in Nat /\ count <= count'
  BY <1>1, <1>3 DEF Gives
<1>12. ComponentsTypeOK'
  <2>1. parent' \in [Node -> Node]
    BY <1>5 DEF Rising
  <2> QED
    BY <1>2, <1>6, <1>7, <1>11, <2>1 DEF Wccing, ComponentsTypeOK, IsComponents
<1>13. Forest'
  <2>1. \A v \in Node : Connected(net, v, Roots(parent)[v]) /\ Connected(net, v, parent[v])
    BY <1>4, RootConnected DEF Forest
  <2>2. \A v \in Node : Connected(net, v, parent'[v])
    BY <1>5, <2>1
  <2> QED
    BY <1>2, <1>5, <2>2 DEF Forest
<1>14. Joined'
  <2>1. \A j \in DOMAIN net : net[j].src \in Node /\ net[j].tgt \in Node
    BY WccTyped
  <2> QED
    BY <1>2, <1>5, <2>1 DEF Wccing, Joined, Merged
<1>15. Flat'
  <2>1. \A r : TreeOf(parent', r) = TreeOf(parent, r)
    BY <1>5 DEF TreeOf
  <2>2. \A r \in Node : parent'[r] = r => parent[r] = r
    <3>1. \A r \in Node : parent'[r] = r <=> Roots(parent')[r] = r
      BY <1>5, RootIs
    <3>2. \A r \in Node : parent[r] = r <=> Roots(parent)[r] = r
      BY <1>4, RootIs
    <3> QED
      BY <1>5, <3>1, <3>2
  <2> QED
    BY <1>2, <2>1, <2>2 DEF Wccing, Flat
<1>16. \A v \in Node : component'[v] # None <=> component[v] # None \/ v = next
  BY <1>7
<1>17. \A v \in Node : component'[v] # None <=> next' = None \/ v < next'
  <2> TAKE v \in Node
  <2>1. v \in Nat /\ next \in Nat
    BY <1>1, <1>2
  <2>2. component'[v] # None <=> v <= next
    BY <1>8, <1>16, <2>1
  <2>3. CASE next' = None
    <3>1. ~(next < v)
      BY <1>6, <2>3
    <3> QED
      BY <2>1, <2>2, <2>3, <3>1
  <2>4. CASE next' # None
    <3>1. next' \in Nat /\ next < next' /\ (next < v => next' <= v)
      BY <1>1, <1>6, <2>4
    <3> QED
      BY <2>1, <2>2, <2>4, <3>1
  <2> QED
    BY <2>3, <2>4
<1>18. ASSUME NEW v \in Node, component[v] # None
       PROVE  component[v] = k <=> Roots(parent)[v] = Roots(parent)[next]
  <2>1. CASE k = count /\ \A w \in Node : component[w] # None => Roots(parent)[w] # Roots(parent)[next]
    BY <1>1, <1>9, <1>18, <2>1
  <2>2. CASE \E w \in Node : component[w] = k /\ k # None /\ Roots(parent)[w] = Roots(parent)[next]
    <3>1. PICK w \in Node : component[w] = k /\ k # None /\ Roots(parent)[w] = Roots(parent)[next]
      BY <2>2
    <3>2. component[v] = component[w] <=> Roots(parent)[v] = Roots(parent)[w]
      BY <1>18, <3>1 DEF Wccing, Numbered
    <3> QED
      BY <3>1, <3>2
  <2> QED
    BY <1>3, <2>1, <2>2 DEF Gives
<1>19. ASSUME NEW u \in Node, NEW v \in Node, component'[u] # None, component'[v] # None
       PROVE  component'[u] = component'[v] <=> Roots(parent')[u] = Roots(parent')[v]
  <2>1. CASE u = next
    <3>1. CASE v = next
      BY <2>1, <3>1
    <3>2. CASE v # next
      BY <1>2, <1>5, <1>7, <1>16, <1>18, <1>19, <2>1, <3>2
    <3> QED
      BY <3>1, <3>2
  <2>2. CASE u # next
    <3>1. CASE v = next
      BY <1>2, <1>5, <1>7, <1>16, <1>18, <1>19, <2>2, <3>1
    <3>2. CASE v # next
      <4>1. component[u] = component[v] <=> Roots(parent)[u] = Roots(parent)[v]
        BY <1>16, <1>19, <2>2, <3>2 DEF Wccing, Numbered
      <4> QED
        BY <1>5, <1>7, <2>2, <3>2, <4>1
    <3> QED
      BY <3>1, <3>2
  <2> QED
    BY <2>1, <2>2
<1>20. k < count'
  <2>1. CASE k = count /\ count' = count + 1
    BY <1>1, <2>1
  <2>2. CASE count' = count /\ \E w \in Node : component[w] = k /\ k # None /\ Roots(parent)[w] = Roots(parent)[next]
    BY <1>9, <2>2
  <2> QED
    BY <1>3, <2>1, <2>2 DEF Gives
<1>21. \A v \in Node : component'[v] # None => component'[v] < count'
  <2> TAKE v \in Node
  <2>1. CASE v = next
    BY <1>7, <1>20, <2>1
  <2>2. CASE v # next
    <3>1. component'[v] = component[v]
      BY <1>7, <2>2
    <3> QED
      BY <1>1, <1>9, <1>11, <3>1
  <2> QED
    BY <2>1, <2>2
<1>22. \A n \in 0 .. count' - 1 : \E v \in Node : component'[v] = n
  <2> TAKE n \in 0 .. count' - 1
  <2>1. CASE n \in 0 .. count - 1
    <3>1. PICK v \in Node : component[v] = n
      BY <2>1 DEF Wccing, Numbered
    <3>2. component[v] # None
      BY <1>1, <2>1, <3>1
    <3> QED
      BY <1>7, <1>9, <3>1, <3>2
  <2>2. CASE n \notin 0 .. count - 1
    <3>1. count' = count + 1 /\ n = count /\ k = count
      BY <1>1, <1>3, <2>2 DEF Gives
    <3> QED
      BY <1>2, <1>7, <3>1
  <2> QED
    BY <2>1, <2>2
<1>23. Firsts'
  <2> SUFFICES ASSUME NEW v \in Node, component'[v] # None
               PROVE  \E u \in Node : /\ u <= v /\ component'[u] = component'[v]
                                      /\ \A x \in Node : x < u => component'[x] < component'[u]
    BY DEF Firsts
  <2>1. ASSUME NEW w \in Node, component[w] # None
        PROVE  \E u \in Node : /\ u <= w /\ component'[u] = component[w]
                               /\ \A x \in Node : x < u => component'[x] < component'[u]
    <3>1. PICK u \in Node : /\ u <= w /\ component[u] = component[w]
                            /\ \A x \in Node : x < u => component[x] < component[u]
      BY <2>1 DEF Wccing, Firsts
    <3>2. u \in Nat /\ w \in Nat /\ next \in Nat /\ w < next
      BY <1>1, <1>2, <1>8, <2>1
    <3>3. u # next /\ u < next
      BY ONLY <3>1, <3>2
    <3>4. \A x \in Node : x < u => x # next
      <4> TAKE x \in Node
      <4>1. x \in Nat
        BY <1>1
      <4> QED
        BY ONLY <3>2, <3>3, <4>1
    <3> QED
      BY <1>7, <3>1, <3>3, <3>4
  <2>2. CASE v # next
    <3>1. component'[v] = component[v] /\ component[v] # None
      BY <1>7, <2>2
    <3> QED
      BY <2>1, <3>1
  <2>3. CASE v = next /\ k = count
    <3>1. \A x \in Node : x < next => component'[x] < count
      <4> TAKE x \in Node
      <4>1. x < next => x # next /\ component[x] # None
        BY <1>8, <1>9
      <4> QED
        BY <1>7, <1>9, <4>1
    <3>2. next <= next
      BY <1>1, <1>2
    <3> QED
      BY <1>2, <1>7, <2>3, <3>1, <3>2
  <2>4. CASE v = next /\ k # count
    <3>1. PICK w \in Node : component[w] = k /\ k # None
      BY <1>3, <2>4 DEF Gives
    <3>2. PICK u \in Node : /\ u <= w /\ component'[u] = component[w]
                            /\ \A x \in Node : x < u => component'[x] < component'[u]
      BY <2>1, <3>1
    <3>3. u <= v
      <4>1. u \in Nat /\ w \in Nat /\ next \in Nat /\ w < next
        BY <1>1, <1>2, <1>8, <3>1
      <4> QED
        BY <2>4, <3>2, <4>1
    <3> QED
      BY <1>7, <2>4, <3>1, <3>2, <3>3
  <2> QED
    BY <2>2, <2>3, <2>4
<1>24. Numbered'
  BY <1>17, <1>19, <1>21, <1>22 DEF Numbered
<1>25. WccStages'
  BY <1>2, <1>6 DEF Wccing, WccStages
<1> QED
  BY <1>2, <1>10, <1>12, <1>13, <1>14, <1>15, <1>23, <1>24, <1>25 DEF Wccing

\* A call of wcc goes on.
LEMMA WccGoes ==
  ASSUME Wccing, Join \/ NextNode \/ Number \/ ComponentsEnds
  PROVE  Wccing'
<1>1. CASE ComponentsEnds
  <2>1. /\ stage' = "done" /\ next = None
        /\ UNCHANGED <<net, algo, source, visited, cur, todo, parent, rank, component, count, index, lowlink,
                       current_index, stack, frames, next>>
    BY <1>1 DEF ComponentsEnds, compVars
  <2>2. CsrTypeOK' /\ ComponentsTypeOK' /\ WccStages'
    BY <2>1 DEF Wccing, CsrTypeOK, ComponentsTypeOK, IsComponents, WccStages
  <2>3. Forest' /\ Joined' /\ Flat' /\ Numbered' /\ Firsts'
    BY <2>1 DEF Wccing, Forest, Joined, Merged, Flat, TreeOf, Numbered, Firsts
  <2> QED
    BY <2>1, <2>2, <2>3 DEF Wccing
<1> QED
  BY <1>1, WccJoins, WccNexts, WccNumbers

\* When it is done every node has the number of its component.
LEMMA WccAnswers ==
  ASSUME Wccing
  PROVE  ComponentsAnswer
<1> SUFFICES ASSUME stage = "done" PROVE ComponentsAnswer
  BY DEF ComponentsAnswer, ComponentsRight, ComponentsOrdered, ComponentsDone
<1>1. /\ component \in [Node -> Num] /\ count \in Nat /\ Node \in SUBSET Nat /\ None \notin Nat
      /\ \A i \in DOMAIN net : net[i].src \in Node /\ net[i].tgt \in Node
      /\ algo = "wcc"
  BY WccTyped DEF Wccing
<1>2. next = None /\ cur = None
  <2>1. next = None /\ (cur # None => next = FirstOf(Node))
    BY DEF Wccing, WccStages
  <2> QED
    BY <1>1, <2>1, FirstNode
<1>3. \A v \in Node : component[v] # None
  BY <1>2 DEF Wccing, Numbered
<1>4. \A i \in DOMAIN net : Roots(parent)[net[i].src] = Roots(parent)[net[i].tgt]
  BY <1>2 DEF Wccing, Joined, Merged
<1>5. /\ \A v \in Node : Roots(parent)[v] \in Node
      /\ \A v \in Node : Connected(net, v, Roots(parent)[v])
  BY RootsAre, RootConnected DEF Wccing, Forest
<1>6. ASSUME NEW u \in Node, NEW v \in Node
      PROVE  Roots(parent)[u] = Roots(parent)[v] <=> Connected(net, u, v)
  <2>1. ASSUME Roots(parent)[u] = Roots(parent)[v] PROVE Connected(net, u, v)
    <3> DEFINE r == Roots(parent)[u]
    <3>1. r \in Node /\ Connected(net, u, r) /\ Connected(net, v, r) /\ CsrTypeOK
      BY <1>5, <2>1 DEF Wccing
    <3> HIDE DEF r
    <3>2. Connected(net, r, v)
      BY <3>1, ConnectedIs
    <3> QED
      BY <3>1, <3>2, ConnectedIs
  <2>2. ASSUME Connected(net, u, v) PROVE Roots(parent)[u] = Roots(parent)[v]
    <3> DEFINE S == {w \in Node : Roots(parent)[w] = Roots(parent)[u]}
    <3>1. S \in SUBSET Node /\ u \in S /\ \A i \in DOMAIN net : net[i].src \in S <=> net[i].tgt \in S
      BY <1>1, <1>4
    <3>2. v \in S
      <4> HIDE DEF S
      <4> QED
        BY <2>2, <3>1 DEF Connected
    <3> QED
      BY <3>2
  <2> QED
    BY <2>1, <2>2
<1>7. ComponentsRight
  <2>1. \A u, v \in Node : component[u] = component[v] <=> Connected(net, u, v)
    BY <1>3, <1>6 DEF Wccing, Numbered
  <2> QED
    BY <1>1, <2>1 DEF ComponentsRight
<1>8. {component[v] : v \in Node} = 0 .. count - 1
  <2>1. \A v \in Node : component[v] \in 0 .. count - 1
    BY <1>1, <1>3 DEF Wccing, Numbered, Num
  <2>2. \A n \in 0 .. count - 1 : \E v \in Node : component[v] = n
    BY DEF Wccing, Numbered
  <2> QED
    BY <2>1, <2>2
<1>9. \A v \in Node : \E u \in Node : u <= v /\ component[u] = component[v]
        /\ \A x \in Node : x < u => component[x] < component[u]
  BY <1>3 DEF Wccing, Firsts
<1> QED
  BY <1>1, <1>7, <1>8, <1>9 DEF ComponentsAnswer, ComponentsOrdered

-----------------------------------------------------------------------------
(* Calls of wcc and scc.                                                   *)

\* What is known of a call of either; and when there is none.
Numbering ==
  /\ algo = "none" => CsrIdle /\ ComponentsIdle
  /\ algo = "wcc" => Wccing
  /\ algo = "scc" => Sccing
  /\ IsComponents \/ algo = "none"

\* Every step of theirs keeps it.
LEMMA NumberingStep == Numbering /\ [ComponentsNext]_componentsVars => Numbering'
<1> SUFFICES ASSUME Numbering, [ComponentsNext]_componentsVars PROVE Numbering'
  OBVIOUS
<1>1. CASE ComponentsCall
  <2>1. CsrIdle /\ ComponentsIdle
    <3>1. stage = "idle"
      BY <1>1 DEF ComponentsCall
    <3> QED
      BY <3>1 DEF Numbering, IsComponents, Wccing, Sccing, WccStages, SccStages
  <2>2. ASSUME NEW g \in NetsOf["wcc"], Wcc(g) PROVE Numbering'
    <3>1. Wccing'
      BY <2>1, <2>2, WccBegins
    <3> QED
      BY <3>1 DEF Numbering, Wccing, IsComponents
  <2>3. ASSUME NEW g \in NetsOf["scc"], Scc(g) PROVE Numbering'
    <3>1. Sccing'
      BY <2>1, <2>3, SccBegins
    <3> QED
      BY <3>1 DEF Numbering, Sccing, IsComponents
  <2> QED
    BY <1>1, <2>2, <2>3 DEF ComponentsCall
<1>2. CASE Join \/ NextNode \/ Number \/ Start \/ Look \/ Leave \/ ComponentsEnds
  <2>1. \/ algo = "wcc" /\ (Join \/ NextNode \/ Number \/ ComponentsEnds)
        \/ algo = "scc" /\ (Start \/ Look \/ Leave \/ ComponentsEnds)
    BY <1>2 DEF Numbering, Sccing, SccStages, IsComponents, ComponentsEnds, Join, NextNode, Number, Start,
                Look, Leave, ComponentsIdle, Wccing, WccStages
  <2>2. CASE algo = "wcc" /\ (Join \/ NextNode \/ Number \/ ComponentsEnds)
    <3>1. Wccing'
      BY <2>2, WccGoes DEF Numbering
    <3> QED
      BY <3>1 DEF Numbering, Wccing, IsComponents
  <2>3. CASE algo = "scc" /\ (Start \/ Look \/ Leave \/ ComponentsEnds)
    <3>1. Sccing'
      BY <2>3, SccGoes DEF Numbering
    <3> QED
      BY <3>1 DEF Numbering, Sccing, IsComponents
  <2> QED
    BY <2>1, <2>2, <2>3
<1>3. CASE ComponentsReturn
  <2>1. CsrIdle' /\ ComponentsIdle'
    BY <1>3 DEF ComponentsReturn, CsrReset, CsrIdle, ComponentsIdle
  <2> QED
    BY <2>1 DEF Numbering, CsrIdle, IsComponents
<1>4. CASE UNCHANGED componentsVars
  <2>1. UNCHANGED <<net, algo, stage, source, visited, cur, todo, parent, rank, component, count, index, lowlink,
                    current_index, stack, frames, next>>
    BY <1>4 DEF componentsVars, csrVars, compVars
  <2>2. CsrTypeOK' = CsrTypeOK /\ ComponentsTypeOK' = ComponentsTypeOK
    BY <2>1 DEF CsrTypeOK, ComponentsTypeOK, IsComponents
  <2>3. Wccing => Wccing'
    BY <2>1, <2>2 DEF Wccing, WccStages, Forest, Joined, Merged, Flat, TreeOf, Numbered, Firsts
  <2>4. Sccing => Sccing'
    <3> SUFFICES ASSUME Sccing PROVE Sccing'
      OBVIOUS
    <3>1. Counted' /\ Stacked'
      BY <2>1 DEF Sccing, Tarjan, Counted, Stacked, OnStack, Open
    <3>2. Framed' /\ Climbs' /\ Spans'
      BY <2>1 DEF Sccing, Tarjan, Framed, Climbs, Spans, Open
    <3>3. Trodden' /\ Lowest' /\ Classes'
      BY <2>1 DEF Sccing, Tarjan, Trodden, Lowest, Classes, Gone, Open
    <3>4. Backs'
      BY <2>1 DEF Sccing, Tarjan, Backs, Gone, Open
    <3> QED
      BY <2>1, <2>2, <3>1, <3>2, <3>3, <3>4 DEF Sccing, SccStages, Tarjan, Came
  <2>5. CsrIdle' = CsrIdle /\ ComponentsIdle' = ComponentsIdle
    BY <2>1 DEF CsrIdle, ComponentsIdle
  <2> QED
    BY <2>1, <2>3, <2>4, <2>5 DEF Numbering, IsComponents
<1> QED
  BY <1>1, <1>2, <1>3, <1>4 DEF ComponentsNext, ComponentsStep

\* What is answered at the end,
LEMMA NumberingAnswers == Numbering => ComponentsAnswer
BY WccAnswers, SccAnswers DEF Numbering, IsComponents, ComponentsAnswer, ComponentsRight, ComponentsOrdered, ComponentsDone

\* ... and what is kept till then.
LEMMA NumberingShape == Numbering => ComponentsShape
<1>1. Wccing => ForestFlat
  BY DEF Wccing, Forest, Rising, Flat, TreeOf, ForestFlat
<1> QED
  BY <1>1, SccFits DEF Numbering, IsComponents, ComponentsShape, ForestFlat, FramesFit

-----------------------------------------------------------------------------
(* One call at a time.                                                     *)

\* What an algorithm keeps is at rest while there is no call of it.
Alone ==
  /\ algo \in Algorithm \cup {"none"}
  /\ stage = "idle" <=> algo = "none"
  /\ algo = "none" => CsrIdle
  /\ ~IsTraversal => TraversalIdle
  /\ algo \notin {"dijkstra", "astar"} => PathsIdle /\ stage # "walk"
  /\ ~IsComponents => ComponentsIdle

\* A step is one of the algorithm that is called, or of one that is not
\* called before and after.
LEMMA StepOf ==
  ASSUME Alone, [Next]_vars
  PROVE  /\ Alone'
         /\ \/ /\ IsTraversal \/ algo = "none"
               /\ IsTraversal' \/ algo' = "none"
               /\ [TraversalNext]_traversalVars
            \/ /\ algo \in {"dijkstra", "astar", "none"} /\ algo' \in {"dijkstra", "astar", "none"}
               /\ [PathsNext]_pathsVars
            \/ /\ IsComponents \/ algo = "none"
               /\ IsComponents' \/ algo' = "none"
               /\ [ComponentsNext]_componentsVars
            \/ UNCHANGED vars
<1> USE DEF Algorithm, IsTraversal, IsComponents
<1>1. CASE UNCHANGED vars
  BY <1>1 DEF Alone, vars, csrVars, travVars, pathVars, compVars, CsrIdle, TraversalIdle, PathsIdle, ComponentsIdle
<1>2. CASE TraversalNext /\ UNCHANGED <<pathVars, compVars>>
  <2> USE <1>2
  <2>1. PathsIdle' = PathsIdle /\ ComponentsIdle' = ComponentsIdle
    BY DEF pathVars, compVars, PathsIdle, ComponentsIdle
  <2>2. CASE TraversalCall
    <3>1. PICK a \in {"bfs", "dfs"} : algo' = a /\ stage' \in {"done", "search"}
      BY <2>2 DEF TraversalCall, Traverse, CsrCall
    <3>2. algo = "none" /\ PathsIdle /\ ComponentsIdle
      BY <2>2 DEF TraversalCall, Alone
    <3> QED
      BY <2>1, <3>1, <3>2 DEF Alone
  <2>3. CASE TraversalReturn
    <3>1. IsTraversal /\ CsrIdle' /\ TraversalIdle' /\ algo' = "none" /\ stage' = "idle"
      BY <2>3 DEF TraversalReturn, CsrReset, CsrIdle, TraversalIdle
    <3> QED
      BY <2>1, <3>1 DEF Alone
  <2>4. CASE TakeBfs \/ TakeDfs \/ LookBfs \/ LookDfs \/ TraversalEnds
    <3>1. IsTraversal /\ algo' = algo /\ (stage' = stage \/ stage' = "done")
      BY <2>4 DEF TakeBfs, TakeDfs, LookBfs, LookDfs, TraversalEnds
    <3> QED
      BY <2>1, <3>1 DEF Alone
  <2> QED
    BY <2>2, <2>3, <2>4 DEF TraversalNext, TraversalStep
<1>3. CASE PathsNext /\ UNCHANGED <<travVars, compVars>>
  <2> USE <1>3
  <2>1. TraversalIdle' = TraversalIdle /\ ComponentsIdle' = ComponentsIdle
    BY DEF travVars, compVars, TraversalIdle, ComponentsIdle
  <2>2. CASE PathsCall
    <3>1. PICK a \in {"dijkstra", "astar"} : algo' = a /\ stage' \in {"done", "search"}
      BY <2>2 DEF PathsCall, Dijkstra, AStar, Begin, CsrCall
    <3>2. algo = "none" /\ TraversalIdle /\ ComponentsIdle
      BY <2>2 DEF PathsCall, Alone
    <3> QED
      BY <2>1, <3>1, <3>2 DEF Alone
  <2>3. CASE PathsReturn
    <3>1. algo \in {"dijkstra", "astar"} /\ CsrIdle' /\ PathsIdle' /\ algo' = "none" /\ stage' = "idle"
      BY <2>3 DEF PathsReturn, CsrReset, CsrIdle, PathsIdle
    <3> QED
      BY <2>1, <3>1 DEF Alone
  <2>4. CASE LoadWeight \/ (\E e \in pending : Pop(e)) \/ Relax \/ Exhausted \/ Walk
    <3>1. algo \in {"dijkstra", "astar"}
      BY <2>4 DEF Alone, PathsIdle, LoadWeight, Pop, Searching, Relax, Exhausted, Walk
    <3>2. algo' = algo /\ stage # "idle" /\ stage' # "idle"
      BY <2>4, <3>1 DEF Alone, LoadWeight, csrVars, Pop, Searching, Relax, Exhausted, Walk
    <3> QED
      BY <2>1, <3>1, <3>2 DEF Alone
  <2> QED
    BY <2>2, <2>3, <2>4 DEF PathsNext, PathsStep
<1>4. CASE ComponentsNext /\ UNCHANGED <<travVars, pathVars>>
  <2> USE <1>4
  <2>1. TraversalIdle' = TraversalIdle /\ PathsIdle' = PathsIdle
    BY DEF travVars, pathVars, TraversalIdle, PathsIdle
  <2>2. CASE ComponentsCall
    <3>1. PICK a \in {"wcc", "scc"} : algo' = a /\ stage' \in {"done", "search"}
      BY <2>2 DEF ComponentsCall, Wcc, Scc, ComponentsBegin, CsrCall
    <3>2. algo = "none" /\ TraversalIdle /\ PathsIdle
      BY <2>2 DEF ComponentsCall, Alone
    <3> QED
      BY <2>1, <3>1, <3>2 DEF Alone
  <2>3. CASE ComponentsReturn
    <3>1. IsComponents /\ CsrIdle' /\ ComponentsIdle' /\ algo' = "none" /\ stage' = "idle"
      BY <2>3 DEF ComponentsReturn, CsrReset, CsrIdle, ComponentsIdle
    <3> QED
      BY <2>1, <3>1 DEF Alone
  <2>4. CASE Join \/ NextNode \/ Number \/ Start \/ Look \/ Leave \/ ComponentsEnds
    <3>1. IsComponents /\ algo' = algo /\ (stage' = stage \/ stage' = "done")
      BY <2>4 DEF Join, NextNode, Number, Start, Look, Leave, ComponentsEnds, csrVars
    <3> QED
      BY <2>1, <3>1 DEF Alone
  <2> QED
    BY <2>2, <2>3, <2>4 DEF ComponentsNext, ComponentsStep
<1> QED
  BY <1>1, <1>2, <1>3, <1>4 DEF Next, Calls, Steps, TraversalNext, PathsNext, ComponentsNext

\* What is known of the algorithm that is called; of all of them when none is.
AlgorithmsInv ==
  /\ Alone
  /\ algo \in {"dijkstra", "astar", "none"} => PathsInv
  /\ IsTraversal \/ algo = "none" => Diving
  /\ IsComponents \/ algo = "none" => Numbering

\* What is at rest is as it should be, before and after a step.
LEMMA Resting ==
  ASSUME Alone, algo = "none"
  PROVE  PathsInv /\ Diving /\ Numbering
BY PathsInvInit, DivingIdle DEF Alone, PathsInit, IsTraversal, IsComponents, Numbering

\* The invariant of the calls of all algorithms.
LEMMA AlgorithmsInvariant == Init /\ [][Next]_vars => []AlgorithmsInv
<1>1. Init => AlgorithmsInv
  <2>1. Init => Alone /\ algo = "none"
    BY DEF Init, Alone, CsrIdle, IsTraversal, IsComponents
  <2> QED
    BY <2>1, Resting DEF AlgorithmsInv
<1>2. AlgorithmsInv /\ [Next]_vars => AlgorithmsInv'
  <2> SUFFICES ASSUME AlgorithmsInv, [Next]_vars PROVE AlgorithmsInv'
    OBVIOUS
  <2>1. Alone /\ Alone'
    BY StepOf DEF AlgorithmsInv
  <2>2. algo' = "none" => PathsInv' /\ Diving' /\ Numbering'
    <3>1. (Alone /\ algo = "none" => PathsInv /\ Diving /\ Numbering)'
      BY Resting, PTL
    <3> QED
      BY <2>1, <3>1
  <2>3. CASE /\ IsTraversal \/ algo = "none"
             /\ IsTraversal' \/ algo' = "none"
             /\ [TraversalNext]_traversalVars
    <3>1. Diving'
      BY <2>3, DivingStep DEF AlgorithmsInv
    <3>2. algo' \in {"dijkstra", "astar", "none"} \/ IsComponents' => algo' = "none"
      BY <2>3 DEF IsTraversal, IsComponents
    <3> QED
      BY <2>1, <2>2, <3>1, <3>2 DEF AlgorithmsInv
  <2>4. CASE /\ algo \in {"dijkstra", "astar", "none"} /\ algo' \in {"dijkstra", "astar", "none"}
             /\ [PathsNext]_pathsVars
    <3>1. PathsInv'
      BY <2>4, PathsInvStep DEF AlgorithmsInv
    <3>2. IsTraversal' \/ IsComponents' => algo' = "none"
      BY <2>4 DEF IsTraversal, IsComponents
    <3> QED
      BY <2>1, <2>2, <3>1, <3>2 DEF AlgorithmsInv
  <2>5. CASE /\ IsComponents \/ algo = "none"
             /\ IsComponents' \/ algo' = "none"
             /\ [ComponentsNext]_componentsVars
    <3>1. algo' \in {"dijkstra", "astar", "none"} \/ IsTraversal' => algo' = "none"
      BY <2>5 DEF IsComponents, IsTraversal
    <3>2. Numbering'
      BY <2>5, NumberingStep DEF AlgorithmsInv
    <3> QED
      BY <2>1, <2>2, <3>1, <3>2 DEF AlgorithmsInv
  <2>6. CASE UNCHANGED vars
    <3>1. UNCHANGED <<algo, pathsVars, traversalVars, componentsVars>>
      BY <2>6 DEF vars, csrVars, pathsVars, traversalVars, componentsVars
    <3>2. PathsInv => PathsInv'
      BY <3>1, PathsInvStep
    <3>3. Diving => Diving'
      BY <3>1, DivingStep
    <3>4. Numbering => Numbering'
      BY <3>1, NumberingStep
    <3> QED
      BY <2>1, <3>1, <3>2, <3>3, <3>4 DEF AlgorithmsInv, IsTraversal, IsComponents
  <2> QED
    BY <2>1, <2>3, <2>4, <2>5, <2>6, StepOf
<1> QED
  BY <1>1, <1>2, PTL

\* The variables of a call of dijkstra or astar have their types.
THEOREM PathsTypeCorrect == Spec => []PathsTypeOK
<1>1. AlgorithmsInv => PathsTypeOK
  BY DEF AlgorithmsInv, PathsInv, TreeInv, ShortInv, ReachInv, Base, Types, PathsTypeOK
<1> QED
  BY <1>1, AlgorithmsInvariant, PTL DEF Spec

\* The variables of a call of bfs or dfs have theirs.
THEOREM TraversalTypeCorrect == Spec => [](IsTraversal => TraversalTypeOK)
<1>1. AlgorithmsInv => (IsTraversal => TraversalTypeOK)
  BY DEF AlgorithmsInv, Diving, Visiting, Reaching, TravTypes
<1> QED
  BY <1>1, AlgorithmsInvariant, PTL DEF Spec

\* dijkstra(s, t) and astar(s, t) find a path exactly when t can be reached
\* (graph_algo_paths.c).
THEOREM FoundIfAnyHolds == Spec => []FoundIfAny
<1>1. AlgorithmsInv => FoundIfAny
  BY FoundOrClosed DEF AlgorithmsInv, PathsInv, TreeInv, ShortInv, FoundIfAny, PathsDone
<1> QED
  BY <1>1, AlgorithmsInvariant, PTL DEF Spec

\* The distance they answer is that of a shortest path, by the costs of the edges
\* themselves, if weights[] can hold those (dijkstra: of the edges from one node
\* to another at most one has a weight; astar: every edge costs 1) and the
\* estimate is consistent: heap, stale entries and the stop at the target lose none.
THEOREM ShortestHolds == ASSUME Heights = Nat PROVE Spec => []Shortest
<1>1. AlgorithmsInv => Shortest
  BY ShortestFound DEF AlgorithmsInv, PathsInv, TreeInv, Shortest, PathsDone
<1> QED
  BY <1>1, AlgorithmsInvariant, PTL DEF Spec

\* Dijkstra's estimate is consistent, a premise of ShortestHolds.
THEOREM DijkstraConsistent == Spec => [](algo = "dijkstra" => Consistent)
<1>1. AlgorithmsInv => (algo = "dijkstra" => Consistent)
  BY PlainConsistent DEF AlgorithmsInv, PathsInv, TreeInv
<1> QED
  BY <1>1, AlgorithmsInvariant, PTL DEF Spec

\* The path that is answered is one, from source to target along edges, and as
\* long as is answered.
THEOREM PathRealHolds == Spec => []PathReal
<1>1. AlgorithmsInv => PathReal
  BY TrailReal DEF AlgorithmsInv, PathsInv, PathReal, PathsDone
<1> QED
  BY <1>1, AlgorithmsInvariant, PTL DEF Spec

\* Nothing is written beyond path[], which has room for every node once.
THEOREM PathFitsHolds == Spec => []PathFits
<1>1. AlgorithmsInv => PathFits
  <2> SUFFICES ASSUME AlgorithmsInv PROVE PathFits
    OBVIOUS
  <2>1. CASE algo \in {"dijkstra", "astar", "none"}
    BY <2>1, RankedFits DEF AlgorithmsInv, PathsInv, TreeInv, ShortInv, ReachInv
  <2>2. CASE algo \notin {"dijkstra", "astar", "none"}
    <3>1. path = <<>> /\ Len(path) = 0
      BY <2>2 DEF AlgorithmsInv, Alone, PathsIdle
    <3>2. Cardinality(Node) \in Nat
      BY NodeAssumption, FS_CardinalityType
    <3> QED
      BY <3>1, <3>2 DEF PathFits
  <2> QED
    BY <2>1, <2>2
<1> QED
  BY <1>1, AlgorithmsInvariant, PTL DEF Spec

\* bfs(s, d) and dfs(s, d) report no node twice, and bfs has had no more nodes in
\* its queue than there are: order[], depths[] and the queue have room
\* (graph_algo_traversal.c).
THEOREM OrderFitsHolds == Spec => []OrderFits
<1>1. AlgorithmsInv => OrderFits
  <2> SUFFICES ASSUME AlgorithmsInv PROVE OrderFits
    OBVIOUS
  <2>1. CASE IsTraversal \/ algo = "none"
    BY <2>1, ReachingFits DEF AlgorithmsInv, Diving, Visiting
  <2>2. CASE ~(IsTraversal \/ algo = "none")
    <3>1. order = <<>> /\ queued = 0 /\ DOMAIN order = {}
      BY <2>2 DEF AlgorithmsInv, Alone, TraversalIdle
    <3>2. Cardinality(Node) \in Nat
      BY NodeAssumption, FS_CardinalityType
    <3> QED
      BY <3>1, <3>2 DEF OrderFits
  <2> QED
    BY <2>1, <2>2
<1> QED
  BY <1>1, AlgorithmsInvariant, PTL DEF Spec

\* bfs(s, d) reports the nodes within d steps of s, and with each the least
\* number of steps to it.
THEOREM BfsDepthsHold == Spec => []BfsDepths
<1>1. AlgorithmsInv => BfsDepths
  BY VisitingDepths DEF AlgorithmsInv, Diving, BfsDepths, TraversalDone
<1> QED
  BY <1>1, AlgorithmsInvariant, PTL DEF Spec

\* dfs(s, d) reports nodes in the order of a recursive search, and without a depth
\* every node that can be reached; so does bfs.
THEOREM DfsOrderHolds == Spec => []DfsOrder
<1>1. AlgorithmsInv => DfsOrder
  <2> SUFFICES ASSUME AlgorithmsInv PROVE DfsOrder
    OBVIOUS
  <2>1. CASE IsTraversal
    BY <2>1, DivingOrders DEF AlgorithmsInv
  <2>2. CASE ~IsTraversal
    BY <2>2 DEF DfsOrder, DfsPreorder, DfsDeep, ReportsReachable, TraversalDone, IsTraversal
  <2> QED
    BY <2>1, <2>2
<1> QED
  BY <1>1, AlgorithmsInvariant, PTL DEF Spec

\* The variables of a call of wcc or scc have their types.
THEOREM ComponentsTypeCorrect == Spec => []ComponentsTypeOK
<1>1. AlgorithmsInv => ComponentsTypeOK
  BY DEF AlgorithmsInv, Numbering, Wccing, Sccing, ComponentsTypeOK, IsComponents
<1> QED
  BY <1>1, AlgorithmsInvariant, PTL DEF Spec

\* wcc() gives two nodes the same number if and only if they are connected, scc()
\* if and only if each can be reached from the other; numbers go from 0 without
\* gaps, those of wcc() in the order of the first nodes, those of scc() against
\* the edges (graph_algo_components.c).
THEOREM ComponentsAnswerHolds == Spec => []ComponentsAnswer
<1>1. AlgorithmsInv => ComponentsAnswer
  <2> SUFFICES ASSUME AlgorithmsInv PROVE ComponentsAnswer
    OBVIOUS
  <2>1. CASE IsComponents
    BY <2>1, NumberingAnswers DEF AlgorithmsInv
  <2>2. CASE ~IsComponents
    BY <2>2 DEF ComponentsAnswer, ComponentsRight, ComponentsOrdered, ComponentsDone
  <2> QED
    BY <2>1, <2>2
<1> QED
  BY <1>1, AlgorithmsInvariant, PTL DEF Spec

\* The forest of wcc() stays flat: a root of rank r has a tree of at least 2^r
\* nodes, so that uf_find takes no more than log2(n) steps.  The frames of scc()
\* are a path of nodes on its stack, and both hold a node once: call_stack[] and
\* stack[] have room.
THEOREM ComponentsShapeHolds == Spec => []ComponentsShape
<1>1. AlgorithmsInv => ComponentsShape
  <2> SUFFICES ASSUME AlgorithmsInv PROVE ComponentsShape
    OBVIOUS
  <2>1. CASE IsComponents
    BY <2>1, NumberingShape DEF AlgorithmsInv
  <2>2. CASE ~IsComponents
    BY <2>2 DEF ComponentsShape, ForestFlat, FramesFit, IsComponents
  <2> QED
    BY <2>1, <2>2
<1> QED
  BY <1>1, AlgorithmsInvariant, PTL DEF Spec
=============================================================================
