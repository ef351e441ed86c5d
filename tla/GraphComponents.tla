-------------------------- MODULE GraphComponents --------------------------
(***************************************************************************)
(* wcc() and scc() of the graph extension                                  *)
(* (src/ext/graph/backend/executor/graph_algo_components.c).               *)
(*                                                                         *)
(* WCC joins the ends of every edge in a union-find forest with ranks and  *)
(* path compression, then numbers the trees in the order of the nodes.     *)
(* SCC is Tarjan's algorithm with a stack of frames of its own in place of *)
(* recursion: on its return a frame is folded into the one below it.       *)
(***************************************************************************)
EXTENDS CsrGraph

VARIABLES
  parent, rank,   \* WCC: the forest
  component,      \* component[]; None is -1
  count,          \* next_component, component_count
  index, lowlink, \* SCC: None is -1
  current_index,
  stack,          \* nodes without a component yet; on_stack[] says which
  frames,         \* call_stack: [node, edges still to do, saved_neighbor]
  next            \* the node the outer loop has come to

compVars == <<parent, rank, component, count, index, lowlink, current_index, stack, frames, next>>
componentsVars == <<csrVars, compVars>>

ComponentsIdle ==
  /\ parent = <<>> /\ rank = <<>> /\ component = <<>> /\ count = 0
  /\ index = <<>> /\ lowlink = <<>> /\ current_index = 0
  /\ stack = <<>> /\ frames = <<>> /\ next = None

AllNodes(x) == [v \in Node |-> x]
AfterSame(v) == v  \* seeded fault
After(v) == IF \E u \in Node : u > v THEN FirstOf({u \in Node : u > v}) ELSE None

ComponentsBegin(a, g) ==
  /\ CsrCall(a, g, None, {})
  /\ component' = AllNodes(None) /\ count' = 0
  /\ next' = FirstOf(Node)

Wcc(g) ==
  /\ ComponentsBegin("wcc", g)
  /\ parent' = [v \in Node |-> v] /\ rank' = AllNodes(0)
  /\ cur' = FirstOf(Node) /\ todo' = Slots(g, FirstOf(Node))
  /\ UNCHANGED <<visited, index, lowlink, current_index, stack, frames>>

-----------------------------------------------------------------------------
(* Union-find.                                                             *)

\* uf_find: the root of a node, and the nodes on the way to it.
Roots(p) ==
  LET root[v \in Node] == IF p[v] = v THEN v ELSE root[p[v]] IN root
Way(p, v) ==
  LET way[u \in Node] == IF p[u] = u THEN {u} ELSE {u} \cup way[p[u]] IN way[v]

\* ... which all become children of the root.
Compress(p, v) == [u \in Node |-> IF u \in Way(p, v) THEN Roots(p)[v] ELSE p[u]]

\* uf_union.  Equal ranks put y's tree under x's.
Lowers(x, y) == rank[x] < rank[y]
Union(x, y) ==
  LET p == Compress(Compress(parent, x), y)
      rx == p[x]
      ry == p[y]
  IN /\ parent' = IF Lowers(rx, ry) THEN [p EXCEPT ![rx] = ry] ELSE [p EXCEPT ![ry] = rx]
     /\ rank' = IF rx # ry /\ rank[rx] = rank[ry] THEN [rank EXCEPT ![rx] = @ + 1] ELSE rank

Join ==
  /\ algo = "wcc" /\ todo # {}
  /\ todo' = todo \ {FirstOf(todo)}
  /\ Union(cur, net[FirstOf(todo)].tgt)
  /\ UNCHANGED <<net, algo, stage, source, visited, cur,
                 component, count, index, lowlink, current_index, stack, frames, next>>

NextNode ==
  /\ algo = "wcc" /\ stage = "search" /\ todo = {} /\ cur # None
  /\ cur' = After(cur)
  /\ todo' = IF After(cur) = None THEN {} ELSE Slots(net, After(cur))
  /\ UNCHANGED <<net, algo, stage, source, visited, compVars>>

NewNumber == count

\* The trees are numbered; component_map[] of a root is the number of a node of
\* its tree that has one.
Mapped(r) == {component[v] : v \in {u \in Node : Roots(parent)[u] = r}} \ {None}
Number ==
  /\ algo = "wcc" /\ stage = "search" /\ cur = None /\ next # None
  /\ LET known == Mapped(Roots(parent)[next])
     IN /\ component' = [component EXCEPT ![next] = IF known = {} THEN NewNumber ELSE FirstOf(known)]
        /\ count' = IF known = {} THEN count + 1 ELSE count
  /\ parent' = Compress(parent, next)
  /\ next' = After(next)
  /\ UNCHANGED <<csrVars, rank, index, lowlink, current_index, stack, frames>>

-----------------------------------------------------------------------------
(* Tarjan.                                                                 *)

Scc(g) ==
  /\ ComponentsBegin("scc", g)
  /\ index' = AllNodes(None) /\ lowlink' = AllNodes(None) /\ current_index' = 0
  /\ stack' = <<>> /\ frames' = <<>>
  /\ UNCHANGED <<visited, cur, todo, parent, rank>>

Lower(v, x) == [lowlink EXCEPT ![v] = IF x < @ THEN x ELSE @]
OnStack(v) == \E k \in DOMAIN stack : stack[k] = v

\* A frame is entered: phase 0.
Enter(v) ==
  /\ index' = [index EXCEPT ![v] = current_index]
  /\ lowlink' = [lowlink EXCEPT ![v] = current_index]
  /\ current_index' = current_index + 1
  /\ stack' = Append(stack, v)

Frame(v) == [node |-> v, edges |-> Slots(net, v), saved_neighbor |-> None]

\* The outer loop.
Start ==
  /\ algo = "scc" /\ stage = "search" /\ frames = <<>> /\ next # None
  /\ IF index[next] = None
     THEN frames' = <<Frame(next)>> /\ Enter(next)
     ELSE UNCHANGED <<frames, index, lowlink, current_index, stack>>
  /\ next' = After(next)
  /\ UNCHANGED <<csrVars, parent, rank, component, count>>

Top == frames[Len(frames)]

\* One edge of the frame on top.
SavedFirst(top, w) ==
  IF top.saved_neighbor = None THEN [top EXCEPT !.saved_neighbor = w] ELSE top  \* seeded fault
Saved(top, w) == [top EXCEPT !.saved_neighbor = w]
CountsAny(w) == TRUE  \* seeded fault
Counts(w) == OnStack(w)
Look ==
  /\ algo = "scc" /\ frames # <<>> /\ Top.edges # {}
  /\ LET i == FirstOf(Top.edges)
         w == net[i].tgt
         top == [Top EXCEPT !.edges = @ \ {i}]
     IN IF index[w] = None
        THEN /\ frames' = Append([frames EXCEPT ![Len(frames)] = Saved(top, w)], Frame(w))
             /\ Enter(w)
        ELSE /\ frames' = [frames EXCEPT ![Len(frames)] = top]
             /\ lowlink' = IF Counts(w) THEN Lower(Top.node, index[w]) ELSE lowlink
             /\ UNCHANGED <<index, current_index, stack>>
  /\ UNCHANGED <<csrVars, parent, rank, component, count, next>>

\* The frame on top is done: its lowlink goes to the frame below, and if it is
\* the root of a component the stack is popped down to it.
Fold(v) ==
  IF Len(frames) >= 2 /\ frames[Len(frames) - 1].saved_neighbor = v
  THEN Lower(frames[Len(frames) - 1].node, lowlink[v])
  ELSE lowlink
PopStack(v) ==
  LET k == CHOOSE m \in DOMAIN stack : stack[m] = v
  IN /\ stack' = SubSeq(stack, 1, k - 1)
     /\ component' = [u \in Node |-> IF \E m \in k .. Len(stack) : stack[m] = u
                                     THEN NewNumber ELSE component[u]]
     /\ count' = count + 1
Leave ==
  /\ algo = "scc" /\ frames # <<>> /\ Top.edges = {}
  /\ LET v == Top.node
     IN /\ lowlink' = Fold(v)
        /\ IF lowlink[v] = index[v] THEN PopStack(v)
           ELSE UNCHANGED <<stack, component, count>>
  /\ frames' = SubSeq(frames, 1, Len(frames) - 1)
  /\ UNCHANGED <<csrVars, parent, rank, index, current_index, next>>

-----------------------------------------------------------------------------
IsComponents == algo \in {"wcc", "scc"}

ComponentsEnds ==
  /\ IsComponents /\ stage = "search" /\ next = None /\ frames = <<>>
  /\ stage' = "done"
  /\ UNCHANGED <<net, algo, source, visited, cur, todo, compVars>>

ComponentsReturn ==
  /\ IsComponents /\ stage = "done"
  /\ CsrReset
  /\ parent' = <<>> /\ rank' = <<>> /\ component' = <<>> /\ count' = 0
  /\ index' = <<>> /\ lowlink' = <<>> /\ current_index' = 0
  /\ stack' = <<>> /\ frames' = <<>> /\ next' = None

ComponentsStep == Join \/ NextNode \/ Number \/ Start \/ Look \/ Leave \/ ComponentsEnds \/ ComponentsReturn
ComponentsCall ==
  /\ stage = "idle"
  /\ \/ \E g \in NetsOf["wcc"] : Wcc(g)
     \/ \E g \in NetsOf["scc"] : Scc(g)

ComponentsInit == CsrIdle /\ ComponentsIdle
ComponentsNext == ComponentsCall \/ ComponentsStep
ComponentsSpec == ComponentsInit /\ [][ComponentsNext]_componentsVars

-----------------------------------------------------------------------------
(* Properties.                                                             *)

Num == Nat \cup {None}
ComponentsTypeOK ==
  IsComponents =>
  /\ component \in [Node -> Num] /\ count \in Nat
  /\ algo = "wcc" => parent \in [Node -> Node] /\ rank \in [Node -> Nat]
  /\ algo = "scc" => index \in [Node -> Num] /\ lowlink \in [Node -> Num]
  /\ current_index \in Nat /\ stack \in Seq(Node) /\ next \in Node \cup {None}
  /\ frames \in Seq([node : Node, edges : SUBSET DOMAIN net, saved_neighbor : Node \cup {None}])

Connected(g, u, v) ==
  \A S \in SUBSET Node :
    u \in S /\ (\A i \in DOMAIN g : g[i].src \in S <=> g[i].tgt \in S) => v \in S
Mutual(g, u, v) == v \in ReachableFrom(g, u) /\ u \in ReachableFrom(g, v)

ComponentsDone == IsComponents /\ stage = "done"

\* Two nodes are given the same component by wcc() if and only if they are
\* connected, by scc() if and only if each can be reached from the other.
ComponentsRight ==
  ComponentsDone =>
    \A u, v \in Node : component[u] = component[v] <=>
                         IF algo = "wcc" THEN Connected(net, u, v) ELSE Mutual(net, u, v)

\* Components are numbered from 0 without gaps; those of wcc() in the order of
\* their first nodes, those of scc() against the edges between them.
ComponentsOrdered ==
  ComponentsDone =>
    /\ {component[v] : v \in Node} = 0 .. count - 1
    /\ algo = "wcc" => \A v \in Node : \E u \in Node : u <= v /\ component[u] = component[v]
                         /\ \A x \in Node : x < u => component[x] < component[u]
    /\ algo = "scc" => \A i \in DOMAIN net : component[net[i].src] >= component[net[i].tgt]

\* wcc() and scc() answer the components, numbered as their callers print them.
ComponentsAnswer == ComponentsRight /\ ComponentsOrdered

\* The forest has no cycle, and stays flat: ranks rise towards the root, and a
\* tree of rank r has at least 2^r nodes.
ForestFlat ==
  algo = "wcc" =>
    /\ \A v \in Node : parent[v] # v => rank[v] < rank[parent[v]]
    /\ \A r \in Node : parent[r] = r =>
         2 ^ rank[r] <= Cardinality({v \in Node : Roots(parent)[v] = r})

\* call_stack[] and stack[] have room for every node once, and the frames are a
\* path in the graph of nodes that have no component yet.
FramesFit ==
  algo = "scc" =>
    /\ \A k, m \in DOMAIN frames : frames[k].node = frames[m].node => k = m
    /\ \A k, m \in DOMAIN stack : stack[k] = stack[m] => k = m
    /\ \A k \in DOMAIN frames : OnStack(frames[k].node)
    /\ \A k \in 1 .. Len(frames) - 1 : frames[k].saved_neighbor = frames[k + 1].node

\* What wcc() and scc() keep while they run: a flat forest, and a stack of frames
\* within its array.
ComponentsShape == ForestFlat /\ FramesFit
=============================================================================
