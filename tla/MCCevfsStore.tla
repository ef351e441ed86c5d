---------------------------- MODULE MCCevfsStore ----------------------------
(***************************************************************************)
(* CevfsStore with interchangeable page contents: no definition tells one  *)
(* element of Data from another.                                           *)
(***************************************************************************)
EXTENDS CevfsStore, TLC

Symmetry == Permutations(Data)
=============================================================================
