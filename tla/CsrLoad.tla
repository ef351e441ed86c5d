------------------------------ MODULE CsrLoad ------------------------------
(***************************************************************************)
(* csr_graph_load (graph_algorithms.c): how a csr_graph is built from what *)
(* its four SELECTs read, and what it should be.  The operators named for  *)
(* a SELECT return the csr_graph which that part of the function leaves.   *)
(*                                                                         *)
(* The tables are [nodes, edges]: the user's id for each node, and the two *)
(* ends of each edge.  Indices are counted from 1; a free place of the     *)
(* hash table holds 0.  "of" is no part of a csr_graph: the tables it may  *)
(* be the graph of.                                                        *)
(***************************************************************************)
EXTENDS Integers, FiniteSets, SequencesExt

CONSTANTS
  Node,      \* ids of nodes
  Edge,      \* ids of edges
  UserId,    \* values of the property "id"
  Hash,      \* hash_int before the remainder is taken
  TableMin,  \* HASH_TABLE_SIZE, 1000003
  None       \* no user id

ASSUME LoadAssumption ==
  /\ IsFiniteSet(Node) /\ Node \subseteq Nat \ {0}
  /\ IsFiniteSet(Edge) /\ Edge \subseteq Nat
  /\ Hash \in [Node -> Nat] /\ TableMin \in Nat \ {0}
  /\ None \notin UserId

Dir == {"out", "in"}
Unset == 0  \* memory that malloc gave and nobody wrote

NoGraph == [ids |-> <<>>, idx |-> <<>>, names |-> <<>>, count |-> 0,
            ptr |-> [d \in Dir |-> <<>>], col |-> [d \in Dir |-> <<>>], beyond |-> FALSE,
            of |-> {}]

\* The members of a set of numbers, the least first, and what a function has
\* for them.
InOrder(S) == [i \in 1 .. Cardinality(S) |-> CHOOSE x \in S : Cardinality({y \in S : y <= x}) = i]
Pick(f, S) == LET o == InOrder(S) IN [i \in DOMAIN o |-> f[o[i]]]
NodeRows(s) == InOrder(DOMAIN s.nodes)
EdgeRows(s) == Pick(s.edges, DOMAIN s.edges)

-----------------------------------------------------------------------------
(* node_idx: open addressing with linear probing.                          *)

TableSize(n) ==
  LET t == IF 2 * n + 1 < TableMin THEN TableMin ELSE 2 * n + 1 IN IF t % 2 = 0 THEN t + 1 ELSE t

\* The k-th place from the hash of v on, and the first of them that is in Stops.
At(size, v, k) == LET p == (Hash[v] % size) + k IN IF p < size THEN p ELSE p - size
Place(size, v, Stops) == At(size, v, Min({k \in 0 .. size - 1 : At(size, v, k) \in Stops}))

Inserted(t, v, i) == [t EXCEPT ![Place(Cardinality(DOMAIN t), v, {p \in DOMAIN t : t[p] = 0})] = i]
HashTable(ids) ==
  LET table[n \in 0 .. Len(ids)] ==
        IF n = 0 THEN [p \in 0 .. TableSize(Len(ids)) - 1 |-> 0]
        ELSE Inserted(table[n - 1], ids[n], n)
  IN table[Len(ids)]

\* The index of node v, or 0.
FindFirst(g, v) ==  \* seeded fault
  LET i == g.idx[Hash[v] % Cardinality(DOMAIN g.idx)]
  IN IF i # 0 /\ g.ids[i] = v THEN i ELSE 0
Find(g, v) ==
  LET Stops == {p \in DOMAIN g.idx : g.idx[p] = 0 \/ g.ids[g.idx[p]] = v}
  IN g.idx[Place(Cardinality(DOMAIN g.idx), v, Stops)]

-----------------------------------------------------------------------------
(* The four SELECTs.                                                       *)

WithNodes(rows) == [NoGraph EXCEPT !.ids = rows, !.idx = HashTable(rows)]

\* Rows of nodes that are not in the table are passed over.
WithNames(g, s) ==
  [g EXCEPT !.names = [i \in DOMAIN g.ids |->
     IF g.ids[i] \in {v \in DOMAIN s.nodes : s.nodes[v] # None /\ Find(g, v) = i}
     THEN s.nodes[g.ids[i]] ELSE None]]

\* The edges with both ends in the table, as indices; From and To are the ends
\* in the arrays of direction d.
IndexPairs(g, rows) ==
  LET pairs == [k \in DOMAIN rows |-> <<Find(g, rows[k][1]), Find(g, rows[k][2])>>]
  IN Pick(pairs, {k \in DOMAIN rows : pairs[k][1] # 0 /\ pairs[k][2] # 0})
From(d, r) == IF d = "out" THEN r[1] ELSE r[2]
To(d, r)   == IF d = "out" THEN r[2] ELSE r[1]

\* row_ptr[], in_row_ptr[]: counts, summed up.
UpTo(d, r, i) == From(d, r) <= i
WithCounts(g, rows) ==
  LET rs == IndexPairs(g, rows)
  IN [g EXCEPT !.count = Len(rs),
               !.ptr = [d \in Dir |-> [i \in 0 .. Len(g.ids) |->
                          Cardinality({k \in DOMAIN rs : UpTo(d, rs[k], i)})]]]

\* col_idx[], in_col_idx[]: each edge goes to the next place of its node, of
\* the edge_count places there are.
WithEdges(g, rows) ==
  LET rs == IndexPairs(g, rows)
      Pos(d, k) == g.ptr[d][From(d, rs[k]) - 1]
                   + Cardinality({j \in 1 .. k - 1 : From(d, rs[j]) = From(d, rs[k])})
      PutAt(d, p) == {k \in DOMAIN rs : Pos(d, k) = p}
  IN [g EXCEPT !.col = [d \in Dir |-> [p \in 0 .. g.count - 1 |->
                          IF PutAt(d, p) = {} THEN Unset ELSE To(d, rs[Max(PutAt(d, p))])]],
               !.beyond = \E d \in Dir, k \in DOMAIN rs : Pos(d, k) >= g.count]

-----------------------------------------------------------------------------
(* What a csr_graph should be.                                             *)

\* The ends that are stored for the node of index i.
Neighbours(g, d, i) ==
  LET Stored(p) == g.col[d][g.ptr[d][i - 1] + p - 1]
  IN [p \in 1 .. g.ptr[d][i] - g.ptr[d][i - 1] |-> IF Stored(p) = Unset THEN None ELSE g.ids[Stored(p)]]

\* Every place was written, and none that is not there.
Filled(g) == ~g.beyond /\ \A d \in Dir : \A p \in DOMAIN g.col[d] : g.col[d][p] # Unset

\* g is the graph of the tables s, edges in their order.
IsGraphOf(g, s) ==
  /\ g.ids = NodeRows(s)
  /\ g.names = [i \in DOMAIN g.ids |-> s.nodes[g.ids[i]]]
  /\ \A d \in Dir, i \in DOMAIN g.ids :
       LET rows == EdgeRows(s)
           out == Pick(rows, {k \in DOMAIN rows : From(d, rows[k]) = g.ids[i]})
       IN Neighbours(g, d, i) = [k \in DOMAIN out |-> To(d, out[k])]
=============================================================================
