---- MODULE MCGraphStore ----
(* GraphStore with two connections, two names that share a cache slot and *)
(* two tables.                                                             *)
EXTENDS GraphStore, TLC
MCHash == [a \in Names |-> CHOOSE s \in Slots : TRUE]
MCTabs == <<"text", "json">>
MCLoud == Verbs \ Silent
Symm == Permutations(Conns) \cup Permutations(Names)
====
