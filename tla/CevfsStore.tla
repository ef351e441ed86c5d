----------------------------- MODULE CevfsStore -----------------------------
(***************************************************************************)
(* CEVFS implements the page store: what cevfsRead and cevfsFileSize       *)
(* answer is a function of the pages of the lower file and of the map in   *)
(* memory, and changes as the page store does.                             *)
(***************************************************************************)
EXTENDS CevfsPageMap

CONSTANTS
  Absent, Hole, Garbage,  \* see PageStore
  Corrupt,                \* sqlite3PagerGet is asked for page 0: SQLITE_CORRUPT
  NoSlot                  \* assert( uCmpPgSz > 0 ) fails, or decompressing nothing

\* The contents behind entry e, if they are those of one version of page u.
Contents(p, e, u) ==
  LET c == {p.bytes[e.lwrPgno][o] : o \in (e.cmprOfst .. e.cmprOfst + e.cmprSz - 1) \cap Offset}
  IN IF e.cmprOfst + e.cmprSz <= PageSize /\ \E d \in Data : c = {<<u, d>>}
     THEN CHOOSE d \in Data : c = {<<u, d>>}
     ELSE Garbage

\* What cevfsRead answers for page u: read[s], with s the file once its map is
\* switched, which is thus worked out once.
ReadBack(p, u) ==
  LET s == SwitchPageMap(p, u, "none")
      read == [q \in {s} |-> LET e == q.pPgMap[EntryNo(q, u)]
                             IN IF ~Found(q, u) THEN Absent
                                ELSE IF e.lwrPgno = 0 THEN Corrupt
                                ELSE IF e.cmprSz = 0 THEN NoSlot
                                ELSE Contents(q, e, u)]
  IN IF p.mmTblCurrCnt = 0 THEN Absent ELSE read[s]

FileSize(p) == p.uppPageFile

\* What an upper pager sees of the file, worked out once a step.
VARIABLE seen
Seen(p) == [store |-> [u \in Upp |-> ReadBack(p, u)], size |-> FileSize(p)]

StoreInit == Init /\ seen = Seen(View)
StoreNext == Next /\ \E p \in {View'} : seen' = Seen(p)'
StoreSpec == StoreInit /\ [][StoreNext]_<<vars, seen>>

-----------------------------------------------------------------------------
\* Either error is what the page store calls a hole.
AsHole(a) == IF a \in {Corrupt, NoSlot} THEN Hole ELSE a

Store == INSTANCE PageStore WITH store <- [u \in Upp |-> AsHole(seen.store[u])],
                                 size  <- seen.size

\* Placement, switching of page maps, closing and reopening are invisible to
\* the upper pager as long as every page map can be saved and loaded: a page
\* reads as it was last written, whatever is written, or fails to be written,
\* elsewhere; a page that was skipped can not be read; and the file size is one
\* more than the last page written ("compression and encryption is
\* transparently handled").
ImplementsPageStore == Store!Spec
=============================================================================
