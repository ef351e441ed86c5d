---------------------------- MODULE MCGraphCache ----------------------------
(***************************************************************************)
(* GraphCache with nodes whose hashes collide, tables with no node, one    *)
(* and two, and interchangeable connections.                               *)
(***************************************************************************)
EXTENDS GraphCache

MCHash == [v \in Node |-> 4]
MCStarts ==
  {[nodes |-> <<>>, edges |-> <<>>]}
  \cup {[nodes |-> 2 :> None, edges |-> 1 :> <<2, 2>>]}
  \cup {[nodes |-> 1 :> u @@ 2 :> None, edges |-> 2 :> <<2, 1>>] : u \in UserId}
Symmetry == Permutations(Conn)
=============================================================================
