------------------------------ MODULE CsrGraph ------------------------------
(***************************************************************************)
(* The graph the algorithms of the graph extension run on (csr_graph,      *)
(* src/ext/graph/backend/executor/graph_algorithms.c), and what their      *)
(* loops share.                                                            *)
(*                                                                         *)
(* csr_graph_load reads the edges in the order of the table and puts the   *)
(* targets of each node in a run of slots, in that order.  A slot is named *)
(* here by the place of its edge in the table, so a net is the sequence of *)
(* the edges, and the slots of a node are the places of its edges.         *)
(*                                                                         *)
(* A call runs in one statement with nothing between its steps: a step is  *)
(* one turn of a loop, so that what holds in the middle can be stated.     *)
(***************************************************************************)
EXTENDS Integers, FiniteSets, Sequences

CONSTANTS
  Node,
  NetsOf,  \* bound: the nets each algorithm is called on
  None     \* a name that no node has; a weight that is not given; no limit

Algorithm == {"bfs", "dfs", "dijkstra", "astar", "wcc", "scc"}

\* A weight is given if the property is there as a real number.
Edge == [src : Node, tgt : Node, w : Nat \cup {None}]

ASSUME NodeAssumption == IsFiniteSet(Node) /\ Node \subseteq Nat /\ Node # {} /\ None \notin Nat
ASSUME NetsAssumption == \A a \in Algorithm : NetsOf[a] \subseteq Seq(Edge)

VARIABLES
  net,      \* the graph of the call
  algo,     \* the algorithm called
  stage,    \* "idle", "search", "walk", "done"
  source,   \* the node it starts from
  visited,  \* visited[], closed[]
  cur,      \* the node whose slots are looked at
  todo      \* slots of cur the loop has yet to look at

csrVars == <<net, algo, stage, source, visited, cur, todo>>

SlotsButLast(g, u) ==
  {i \in DOMAIN g : g[i].src = u /\ \E k \in DOMAIN g : k > i /\ g[k].src = u}  \* seeded fault
Slots(g, u) == {i \in DOMAIN g : g[i].src = u}

\* The loops go up, row_ptr[u] first, or down.
FirstOf(S) == CHOOSE i \in S : \A k \in S : i <= k
LastOf(S)  == CHOOSE i \in S : \A k \in S : i >= k

CsrIdle ==
  /\ net = <<>> /\ algo = "none" /\ stage = "idle" /\ source = None
  /\ visited = {} /\ cur = None /\ todo = {}

CsrReset ==
  /\ net' = <<>> /\ algo' = "none" /\ stage' = "idle" /\ source' = None
  /\ visited' = {} /\ cur' = None /\ todo' = {}

\* A name that no node has is answered at once with nothing.
CsrCall(a, g, s, names) ==
  /\ algo' = a /\ net' = g /\ source' = s
  /\ stage' = IF None \in names THEN "done" ELSE "search"

CsrTypeOK ==
  /\ net \in Seq(Edge)
  /\ algo \in Algorithm \cup {"none"}
  /\ stage \in {"idle", "search", "walk", "done"}
  /\ source \in Node \cup {None} /\ cur \in Node \cup {None}
  /\ visited \subseteq Node
  /\ todo \subseteq DOMAIN net

-----------------------------------------------------------------------------
(* What the answers are compared with.                                     *)

\* A set that no edge leaves.
IsClosed(g, S) == \A i \in DOMAIN g : g[i].src \in S => g[i].tgt \in S

\* The nodes that can be reached from s: the least closed set with s.
ReachableFrom(g, s) == {v \in Node : \A S \in SUBSET Node : s \in S /\ IsClosed(g, S) => v \in S}

\* Heights that climb from s along no edge by more than its weight.  The
\* greatest height v can have is the length of a shortest path from s to v.
IsPotential(g, w, s, p) ==
  /\ p[s] = 0
  /\ \A i \in DOMAIN g : p[g[i].tgt] <= p[g[i].src] + w[i]
=============================================================================
