----------------------------- MODULE MCSequence -----------------------------
(***************************************************************************)
(* Sequence with interchangeable connections.                              *)
(***************************************************************************)
EXTENDS Sequence, TLC

Symmetry == Permutations(Conn)
=============================================================================
