------------------------- MODULE MCGraphAlgorithms -------------------------
(***************************************************************************)
(* Graphs for the algorithms.  Nodes 1 to 4; a call starts at 1 and looks  *)
(* for 2, as the graphs come with all their renamings.                     *)
(***************************************************************************)
EXTENDS GraphAlgorithms

Arc(s, t, weight_) == [src |-> s, tgt |-> t, w |-> weight_]

\* Every graph without loops on m nodes, with one edge from a node to another,
\* or none, of a weight in W.
Absent == 9
Ends2(m) == SelectSeq([k \in 1 .. m * m |-> <<1 + ((k - 1) \div m), 1 + ((k - 1) % m)>>],
                      LAMBDA e : e[1] # e[2])
Simple(m, W) ==
  LET ends == Ends2(m)
  IN {SelectSeq([k \in DOMAIN ends |-> Arc(ends[k][1], ends[k][2], f[k])], LAMBDA e : e.w # Absent) :
        f \in [DOMAIN ends -> W \cup {Absent}]}

Unweighted3 == Simple(3, {None})
Unweighted4 == Simple(4, {None})
Weighted3   == Simple(3, {0, 2, None})

\* Graphs with several edges between two nodes, loops, cycles of no length, and
\* ways around that are shorter than they look.
Special ==
  {<<Arc(1, 2, 2), Arc(1, 2, 0), Arc(1, 2, None)>>,
   <<Arc(1, 2, None), Arc(1, 2, 3), Arc(1, 3, None), Arc(1, 3, 0), Arc(3, 2, 2), Arc(3, 2, None)>>,
   <<Arc(1, 1, 0), Arc(1, 3, 0), Arc(3, 1, 0), Arc(3, 3, None), Arc(3, 2, 1)>>,
   <<Arc(1, 2, 4), Arc(1, 3, 3), Arc(1, 4, 1), Arc(4, 3, 1), Arc(3, 2, 1), Arc(4, 2, 3)>>,
   <<Arc(1, 3, 2), Arc(1, 4, 1), Arc(4, 3, 0), Arc(3, 4, 0), Arc(3, 2, 1), Arc(2, 1, 0)>>,
   <<Arc(2, 1, None), Arc(1, 3, None), Arc(1, 3, None), Arc(3, 4, None), Arc(4, 1, None)>>}

MCNetsOf ==
  [bfs |-> Unweighted4 \cup Special, dfs |-> Unweighted4 \cup Special,
   wcc |-> Unweighted4 \cup Special, scc |-> Unweighted4 \cup Special,
   dijkstra |-> Weighted3 \cup Special, astar |-> Unweighted3 \cup Special]

MCEnds == {<<1, 2>>, <<1, 1>>, <<None, 1>>, <<1, None>>}
MCEstimates == [t \in Node |-> {e \in [Node -> 0 .. 2] : e[t] = 0}]

\* Two nodes and five edges from one to the other.
MCParallel ==
  [a \in Algorithm |-> IF a = "dfs" THEN {[k \in 1 .. m |-> Arc(1, 2, None)] : m \in 0 .. 5} ELSE {}]

\* Two edges from one node to the other, both of weight 2.
MCTwins == [a \in Algorithm |-> IF a = "dijkstra" THEN {<<Arc(1, 2, 2), Arc(1, 2, 2)>>} ELSE {}]
=============================================================================
