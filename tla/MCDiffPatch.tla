---------------------------- MODULE MCDiffPatch ----------------------------
(***************************************************************************)
(* Values for the constants of DiffPatch.  NULL is 0, a class of its own.  *)
(***************************************************************************)
EXTENDS DiffPatch

\* 1 and 2 are "a" and "A", which are equal under COLLATE NOCASE, as 1 and 1.0
\* are anywhere.
MCVal   == 0 .. 3
MCClass == [v \in MCVal |-> IF v = 2 THEN 1 ELSE v]

\* A patch for the table it was made from, a row with a NULL key among them.
Loose == [vals |-> {0, 1, 2}, loose |-> {<<1, 1>>}, uniqueX |-> FALSE, drift |-> FALSE, maxTries |-> 1]

\* A patch for a table that may have changed since, applied again.
Drifted == [vals |-> {1, 3}, loose |-> {}, uniqueX |-> TRUE, drift |-> TRUE, maxTries |-> 2]

\* A patch that a UNIQUE column stops.
Stopped == [Drifted EXCEPT !.drift = FALSE, !.maxTries = 1]

MCSchemas == {Loose, Drifted}
MCStopped == {Stopped}
=============================================================================
