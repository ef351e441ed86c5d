-------------------------- MODULE GraphAlgorithms --------------------------
(***************************************************************************)
(* Calls of graph algorithms as the dispatcher makes them                  *)
(* (src/ext/graph/backend/executor/query_dispatch.c): one at a time, each  *)
(* on a graph as csr_graph_load or gql_load_graph left it, whose memory    *)
(* is given back when the answer is made.                                  *)
(***************************************************************************)
EXTENDS GraphTraversal, GraphPaths, GraphComponents

vars == <<csrVars, travVars, pathVars, compVars>>

Init == CsrIdle /\ TraversalIdle /\ PathsIdle /\ ComponentsIdle

Calls ==
  \/ TraversalCall /\ UNCHANGED <<pathVars, compVars>>
  \/ PathsCall /\ UNCHANGED <<travVars, compVars>>
  \/ ComponentsCall /\ UNCHANGED <<travVars, pathVars>>

Steps ==
  \/ TraversalStep /\ UNCHANGED <<pathVars, compVars>>
  \/ PathsStep /\ UNCHANGED <<travVars, compVars>>
  \/ ComponentsStep /\ UNCHANGED <<travVars, pathVars>>

Next == Calls \/ Steps

\* A call runs on once it is made.
Spec == Init /\ [][Next]_vars /\ WF_vars(Steps)

-----------------------------------------------------------------------------
(* Properties.                                                             *)

\* Every variable has its type.
TypeOK == CsrTypeOK /\ TraversalTypeOK /\ PathsTypeOK /\ ComponentsTypeOK

\* Every call returns, on graphs with cycles, loops, edges of no length and
\* several edges between two nodes.
Returns == stage # "idle" ~> stage = "idle"
=============================================================================
