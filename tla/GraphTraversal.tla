--------------------------- MODULE GraphTraversal ---------------------------
(***************************************************************************)
(* bfs(start, depth) and dfs(start, depth) of the graph extension          *)
(* (src/ext/graph/backend/executor/graph_algo_traversal.c).                *)
(*                                                                         *)
(* BFS marks a node when it is put in the queue, DFS when it is taken from *)
(* the stack, so that a node may be on the stack several times.  Both      *)
(* answer the nodes in the order they were reached, each with its depth.   *)
(***************************************************************************)
EXTENDS CsrGraph

CONSTANTS
  Limits,    \* bound: values of max_depth; None is -1
  Starts     \* bound: where calls start

ASSUME LimitsAssumption == Limits \subseteq Nat \cup {None}
ASSUME StartsAssumption == Starts \subseteq Node \cup {None}

VARIABLES
  max_depth,
  waiting,  \* the queue or the stack: sequence of [node, depth]
  queued,   \* q->rear: entries the queue has had
  depth,    \* of cur
  order     \* what will be answered: sequence of [node, depth]

travVars == <<max_depth, waiting, queued, depth, order>>
traversalVars == <<csrVars, travVars>>

TraversalIdle == max_depth = None /\ waiting = <<>> /\ queued = 0 /\ depth = 0 /\ order = <<>>

IsTraversal == algo \in {"bfs", "dfs"}

Traverse(a, g, s, limit) ==
  /\ CsrCall(a, g, s, {s})
  /\ max_depth' = limit
  /\ IF s = None THEN UNCHANGED <<waiting, queued, visited>>
     ELSE /\ waiting' = <<[node |-> s, depth |-> 0]>>
          /\ queued' = 1
          /\ visited' = IF a = "bfs" THEN {s} ELSE {}
  /\ UNCHANGED <<cur, todo, depth, order>>

TooDeepOrAt(e) == max_depth # None /\ e.depth >= max_depth  \* seeded fault
TooDeep(e) == max_depth # None /\ e.depth > max_depth
DepthOf(e) == e.depth
Report(e) ==
  IF TooDeep(e) THEN UNCHANGED <<order, cur, todo, depth>>
  ELSE /\ order' = Append(order, [node |-> e.node, depth |-> DepthOf(e)])
       /\ cur' = e.node /\ depth' = DepthOf(e)
       /\ todo' = Slots(net, e.node)

Ready == stage = "search" /\ todo = {} /\ waiting # <<>>

TakeBfs ==
  /\ algo = "bfs" /\ Ready
  /\ waiting' = Tail(waiting)
  /\ Report(Head(waiting))
  /\ UNCHANGED <<net, algo, stage, source, visited, max_depth, queued>>

TakeDfs ==
  /\ algo = "dfs" /\ Ready
  /\ waiting' = SubSeq(waiting, 1, Len(waiting) - 1)
  /\ LET e == waiting[Len(waiting)]
     IN IF e.node \in visited
        THEN UNCHANGED <<visited, order, cur, todo, depth>>
        ELSE visited' = visited \cup {e.node} /\ Report(e)
  /\ UNCHANGED <<net, algo, stage, source, max_depth, queued>>

\* One slot of cur: BFS goes up, DFS down, so that the first comes off first.
MarkNever(v) == visited  \* seeded fault
Mark(v) == visited \cup {v}
LookBfs ==
  /\ algo = "bfs" /\ todo # {}
  /\ LET i == FirstOf(todo)
         v == net[i].tgt
     IN /\ todo' = todo \ {i}
        /\ IF v \in visited THEN UNCHANGED <<visited, waiting, queued>>
           ELSE /\ visited' = Mark(v)
                /\ waiting' = Append(waiting, [node |-> v, depth |-> depth + 1])
                /\ queued' = queued + 1
  /\ UNCHANGED <<net, algo, stage, source, cur, max_depth, depth, order>>

DownAsUp(S) == FirstOf(S)  \* seeded fault
Down(S) == LastOf(S)
LookDfs ==
  /\ algo = "dfs" /\ todo # {}
  /\ LET i == Down(todo)
         v == net[i].tgt
     IN /\ todo' = todo \ {i}
        /\ waiting' = IF v \in visited THEN waiting
                      ELSE Append(waiting, [node |-> v, depth |-> depth + 1])
  /\ UNCHANGED <<net, algo, stage, source, cur, visited, max_depth, queued, depth, order>>

TraversalEnds ==
  /\ IsTraversal /\ stage = "search" /\ todo = {} /\ waiting = <<>>
  /\ stage' = "done"
  /\ UNCHANGED <<net, algo, source, visited, cur, todo, travVars>>

TraversalReturn ==
  /\ IsTraversal /\ stage = "done"
  /\ CsrReset
  /\ max_depth' = None /\ waiting' = <<>> /\ queued' = 0 /\ depth' = 0 /\ order' = <<>>

TraversalStep == TakeBfs \/ TakeDfs \/ LookBfs \/ LookDfs \/ TraversalEnds \/ TraversalReturn
TraversalCall ==
  /\ stage = "idle"
  /\ \E a \in {"bfs", "dfs"}, s \in Starts, l \in Limits : \E g \in NetsOf[a] : Traverse(a, g, s, l)

TraversalInit == CsrIdle /\ TraversalIdle
TraversalNext == TraversalCall \/ TraversalStep
TraversalSpec == TraversalInit /\ [][TraversalNext]_traversalVars

-----------------------------------------------------------------------------
(* Properties.                                                             *)

Entry == [node : Node, depth : Nat]
TraversalTypeOK ==
  /\ max_depth \in Nat \cup {None}
  /\ waiting \in Seq(Entry) /\ order \in Seq(Entry)
  /\ queued \in Nat /\ depth \in Nat

TraversalDone == IsTraversal /\ stage = "done" /\ source # None
Reported == {order[k].node : k \in DOMAIN order}

\* Both report every node that can be reached, when no depth is given.
ReportsReachable == TraversalDone /\ max_depth = None => Reported = ReachableFrom(net, source)

\* order[] and depths[] have room for every node once, the queue of BFS too.
OrderFits ==
  /\ \A k, m \in DOMAIN order : order[k].node = order[m].node => k = m
  /\ queued <= Cardinality(Node)

\* The nodes that can be reached in at most d steps.
Ball(g, s) ==
  LET ball[d \in 0 .. Cardinality(Node)] ==
        IF d = 0 THEN {s}
        ELSE ball[d - 1] \cup {g[i].tgt : i \in {k \in DOMAIN g : g[k].src \in ball[d - 1]}}
  IN ball

\* BFS reports the nodes within the depth that is given, and with each the
\* least number of steps to it.
BfsDepths ==
  TraversalDone /\ algo = "bfs" =>
    LET ball == Ball(net, source)
    IN \A d \in 0 .. Cardinality(Node) - 1 :
         (max_depth = None \/ d <= max_depth) =>
           {order[k].node : k \in {m \in DOMAIN order : order[m].depth <= d}} = ball[d]

\* DFS is a walk: each node it reports is behind an edge of the last node it
\* reported one level up, so the order is that of a recursive search.
DfsPreorder ==
  algo = "dfs" =>
    \A k \in 2 .. Len(order) :
      \E p \in 1 .. k - 1 :
        /\ order[p].depth = order[k].depth - 1
        /\ \A m \in p + 1 .. k - 1 : order[m].depth >= order[k].depth
        /\ \E i \in Slots(net, order[p].node) : net[i].tgt = order[k].node

\* ... and goes as deep as it can: a node is reported one level below the one
\* before it whenever that one leads to a node that was not reported yet.
DfsDeep ==
  algo = "dfs" /\ max_depth = None =>
    \A k \in 2 .. Len(order) :
      LET seen == {order[m].node : m \in 1 .. k - 1}
          ways == {i \in Slots(net, order[k - 1].node) : net[i].tgt \notin seen}
      IN ways # {} => /\ order[k].depth = order[k - 1].depth + 1
                      /\ order[k].node = net[FirstOf(ways)].tgt

\* DFS reports what a recursive search would, in its order.
DfsOrder == DfsPreorder /\ DfsDeep /\ ReportsReachable

\* dfs_stack_create makes room for 2n entries: more than the code keeps to
\* (README, known departures).
StackFits == algo = "dfs" => Len(waiting) <= 2 * Cardinality(Node)

\* DFS with a depth reports what can be reached within it: more than the code
\* does (README, known departures).
DfsWithinDepth ==
  TraversalDone /\ algo = "dfs" /\ max_depth # None /\ max_depth < Cardinality(Node) =>
    Reported = Ball(net, source)[max_depth]
=============================================================================
