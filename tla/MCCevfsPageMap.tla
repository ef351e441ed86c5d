-------------------------- MODULE MCCevfsPageMap --------------------------
(***************************************************************************)
(* CevfsPageMap up to the contents of compressed pages: no guard, no other *)
(* variable and no property but the type of the bytes depends on them.     *)
(***************************************************************************)
EXTENDS CevfsPageMap

Layout == <<[file EXCEPT !.bytes = {}], page1, mode, pgSz>>
=============================================================================
