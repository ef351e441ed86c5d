----------------------------- MODULE PageStore -----------------------------
(***************************************************************************)
(* What an upper pager expects of the file below it: an array of pages     *)
(* that keeps the last contents written to each of them, and a size in     *)
(* pages.  Compression, placement, page maps and sessions are invisible.   *)
(***************************************************************************)
EXTENDS Integers

CONSTANTS Upp,      \* page numbers, counted from 0
          Data,     \* page contents
          Absent,   \* past the end: reads as zeroes
          Hole,     \* skipped by a later write: reading it is an error
          Garbage   \* bytes that are not one page's contents

VARIABLES store, size

vars == <<store, size>>

Content == Data \cup {Hole, Garbage}

TypeOK == /\ store \in [Upp -> Content \cup {Absent}]
          /\ size \in Nat

Init == /\ store = [u \in Upp |-> Absent]
        /\ size = 0

Larger(a, b) == IF a > b THEN a ELSE b

\* A page past the end becomes the last one; the pages it skips are holes.
Put(u, c) ==
  store' = [v \in Upp |-> IF v = u THEN c
                          ELSE IF v < u /\ store[v] = Absent THEN Hole
                          ELSE store[v]]

Write(u, d) == Put(u, d) /\ size' = Larger(size, u + 1)

\* A write that fails may leave anything in its own page, damages no other
\* page, and does not grow the file.
WriteFails(u) == (\E c \in Content : Put(u, c)) /\ UNCHANGED size

Next == \E u \in Upp : WriteFails(u) \/ \E d \in Data : Write(u, d)

Spec == Init /\ [][Next]_vars
=============================================================================
