---------------------------- MODULE CevfsPageMap ----------------------------
(***************************************************************************)
(* The page maps of CEVFS (src/ext/cevfs/cevfs.c): where a page of the     *)
(* upper pager is stored, compressed, in the pages of the lower pager.     *)
(*                                                                         *)
(* `file` is one cevfs_file with the lower pager behind it (its fields     *)
(* `map`, `bytes` and `nPage`), `page1` is what page 1 of the lower pager  *)
(* holds and `mode` says how the file is open.  An operator named like a   *)
(* C function returns the cevfs_file which that function leaves behind.    *)
(* One connection uses the file; several, and crashes, are in              *)
(* CevfsDurability.                                                        *)
(***************************************************************************)
EXTENDS Integers, FiniteSets

CONSTANTS
  PageSize,     \* bytes of a lower page
  EntrySz,      \* sizeof(cevfs_map_entry), 8
  MMMax,        \* mmTblMaxCnt, entries of the master table
  U16,          \* what a u16 wraps at, 65536
  OpenPgSz,     \* upper page sizes a session may start from
  PragmaPgSz,   \* arguments of PRAGMA page_size
  CmpSizes,     \* sizes a compressed page may have
  Upp, Data,    \* upper page numbers, counted from 0, and their contents
  Faults,       \* what the lower pager may fail at: to get or journal a "page" for
                \* cevfsWrite, to "save" or to "load" a page map when it is switched
  MaxHole,      \* bound: pages one write may skip
  MaxPgno,      \* bound: lower page numbers
  Blank         \* a byte nothing was written to

MapMax == PageSize \div EntrySz

ASSUME SizesAssumption ==
  /\ PageSize \in Nat /\ EntrySz \in Nat \ {0} /\ MapMax >= 1
  /\ MMMax \in Nat \ {0} /\ U16 \in Nat \ {0}
  /\ OpenPgSz \subseteq Nat \ {0} /\ PragmaPgSz \subseteq Nat \ {0}
  /\ CmpSizes \subseteq 1 .. PageSize
  /\ Upp \subseteq Nat /\ Faults \subseteq {"page", "save", "load"}
  /\ MaxHole \in Nat /\ MaxPgno \in Nat /\ MaxPgno >= 3

VARIABLES
  file,    \* the cevfs_file and the lower pager behind it
  page1,   \* header and master table on page 1
  mode,    \* "closed", "rw" or "ro"
  pgSz     \* page size the upper pager works with

vars == <<file, page1, mode, pgSz>>

-----------------------------------------------------------------------------
(* The data of the lower pager.                                            *)

Pgno    == 1 .. MaxPgno
Offset  == 0 .. PageSize - 1
MapIx   == 0 .. MapMax - 1
TblIx   == 0 .. MMMax            \* one past the table that was allocated
Entry   == [lwrPgno : 0 .. MaxPgno, cmprSz : 0 .. PageSize, cmprOfst : 0 .. U16 - 1]
NoEntry == [lwrPgno |-> 0, cmprSz |-> 0, cmprOfst |-> 0]
Map     == [MapIx -> Entry]
NoMap   == [i \in MapIx |-> NoEntry]
Bytes   == [Offset -> {Blank} \cup (Upp \X Data)]
NoBytes == [o \in Offset |-> Blank]

Larger(a, b) == IF a > b THEN a ELSE b

\* The header page of a lower file that has none.
NewDatabase(p) == [p EXCEPT !.nPage = Larger(@, 1)]

\* cevfsPagerWrite: sqlite3PagerBegin before the first write.
BeginTransaction(p) ==
  IF p.nTransactions > 0 THEN p
  ELSE LET q == [p EXCEPT !.nTransactions = 1]
       IN IF p.lwrPageFile = 0 THEN NewDatabase(q) ELSE q

\* The page takes a whole map: what else was on it is gone.
WriteMapPage(p, pgno, m) ==
  [BeginTransaction(p) EXCEPT !.map[pgno] = m,
                              !.bytes[pgno] = NoBytes,
                              !.nPage = Larger(@, pgno)]

\* The page takes the bytes of a compressed upper page.
WriteSlot(p, pgno, ofst, sz, c) ==
  [BeginTransaction(p) EXCEPT
     !.map[pgno] = NoMap,
     !.bytes[pgno] = [o \in Offset |-> IF o \in ofst .. ofst + sz - 1 THEN c ELSE @[o]],
     !.nPage = Larger(@, pgno)]

-----------------------------------------------------------------------------
(* The page maps.                                                          *)

NotLoaded == -1

\* Entries that are in use in page map ix.
MapCnt(p, ix) == IF ix = p.mmTblCurrCnt - 1 THEN p.pgMapCnt ELSE MapMax

\* Number of the page map of upper page u, and its entry there.
MapNo(p, u)   == (u * pgSz) \div p.nBytesPerPgMap
EntryNo(p, u) == ((u * pgSz) % p.nBytesPerPgMap) \div p.uppPgSz

SavePagemapData(p) ==
  IF ~p.bPgMapDirty THEN p
  ELSE [WriteMapPage(p, p.mmTbl[p.mmTblCurrIx], p.pBigEndianPgMap)
          EXCEPT !.bPgMapDirty = FALSE]

\* Only entries in use reach the map in memory; it was cleared before.
LoadPagemapData(p, ix) ==
  LET m == p.map[p.mmTbl[ix]]
  IN [p EXCEPT !.pBigEndianPgMap = m,
               !.pPgMap = [i \in MapIx |-> IF i < MapCnt(p, ix) THEN m[i] ELSE NoEntry],
               !.mmTblCurrIx = ix]

\* Fault f keeps the map that was to be saved, or leaves an empty one in its
\* place, and the caller is told that all went well.  The first map of a new
\* file is past the end of the file: nothing has to be read.
SwitchFaults == {"none"} \cup (Faults \cap {"save", "load"})
SwitchPageMap(p, u, f) ==
  LET ix == IF MapNo(p, u) >= p.mmTblCurrCnt THEN p.mmTblCurrCnt - 1 ELSE MapNo(p, u)
  IN IF ix = p.mmTblCurrIx \/ (f = "save" /\ p.bPgMapDirty) THEN p
     ELSE IF f = "load" /\ p.mmTblCurrIx # NotLoaded THEN [SavePagemapData(p) EXCEPT !.pPgMap = NoMap]
     ELSE LoadPagemapData(SavePagemapData(p), ix)

\* PageMapGet finds an entry in the map in memory, if the map that was asked
\* for exists.
Found(p, u) == /\ MapNo(p, u) < p.mmTblCurrCnt
               /\ EntryNo(p, u) < MapCnt(p, p.mmTblCurrIx)

SetEntry(p, i, e) == [p EXCEPT !.pPgMap[i] = e,
                               !.pBigEndianPgMap[i] = e,
                               !.bPgMapDirty = TRUE]

FitsLoosely(ofst) == ofst <= PageSize + 1  \* seeded fault
Fits(ofst)        == ofst <= PageSize

\* The next page for compressed pages; a page map may have been given the one
\* after the current page.
PgnoAfterAny(p)  == p.currPgno + 1  \* seeded fault
PgnoAfterMap(p)  == p.mmTbl[p.mmTblCurrCnt - 1] + 1  \* seeded fault
NextDataPgno(p)  == LET last == p.mmTbl[p.mmTblCurrCnt - 1]
                    IN IF p.currPgno <= last THEN last + 1 ELSE p.currPgno + 1

AllocCmpPageSpace(p, sz, i) ==
  LET ofst  == (p.currPageOfst + sz) % U16
      q     == IF Fits(ofst) THEN [p EXCEPT !.currPageOfst = ofst]
               ELSE [p EXCEPT !.currPageOfst = sz, !.currPgno = NextDataPgno(p)]
  IN SetEntry(q, i, [lwrPgno  |-> q.currPgno, cmprSz |-> sz,
                     cmprOfst |-> IF Fits(ofst) THEN p.currPageOfst ELSE 0])

\* The last map is full: the next one gets the next page.
StartPageMap(p, u, f) ==
  IF p.pgMapCnt < MapMax THEN p
  ELSE SwitchPageMap([p EXCEPT !.mmTbl[p.mmTblCurrCnt] = p.currPgno + 1,
                               !.mmTblCurrCnt = @ + 1,
                               !.pgMapCnt = 0], u, f)

AddPageEntry(p, u, sz, f) ==
  LET q == StartPageMap(p, u, f)
  IN AllocCmpPageSpace([q EXCEPT !.pgMapCnt = @ + 1], sz, q.pgMapCnt)

\* A placeholder loses its place in memory, not in the copy that is saved.
AddPlaceholder(p, u, f) ==
  LET q == AddPageEntry(p, u, 0, f)
  IN [q EXCEPT !.pPgMap[q.pgMapCnt - 1] = NoEntry]

\* The page the next entry is for (nextOfst).
NextPage(p) == (p.mmTblCurrCnt - 1) * MapMax + p.pgMapCnt

AddPlaceholders(p, u, f) ==
  IF u <= NextPage(p) THEN p
  ELSE LET n == NextPage(p)
           after[v \in n - 1 .. u - 1] == IF v = n - 1 THEN p ELSE AddPlaceholder(after[v - 1], v, f)
       IN after[u - 1]

PageMapAdd(p, u, sz, f) == AddPageEntry(AddPlaceholders(p, u, f), u, sz, f)

\* The page has to move if it has grown, or was a placeholder.
MovesNever(old, sz) == old.cmprSz = 0  \* seeded fault
Moves(old, sz)      == old.cmprSz = 0 \/ sz > old.cmprSz

PageMapUpdate(p, u, sz) ==
  LET i   == EntryNo(p, u)
      old == p.pPgMap[i]
  IN IF Moves(old, sz) THEN AllocCmpPageSpace(p, sz, i)
     ELSE IF sz < old.cmprSz
          THEN [p EXCEPT !.pPgMap[i].cmprSz = sz,
                         !.pBigEndianPgMap[i].cmprSz = sz,
                         !.bPgMapDirty = TRUE]
     ELSE p

\* Every switch of one call meets the same fault (a bound of the model).
PageMapSet(p, u, sz, f) ==
  LET q == SwitchPageMap(p, u, f)
  IN IF Found(q, u) THEN PageMapUpdate(q, u, sz) ELSE PageMapAdd(q, u, sz, f)

\* Where PageMapSet told cevfsWrite to put the page.
SlotOf(p, q, u, f) == LET s == SwitchPageMap(p, u, f)
                      IN IF Found(s, u) THEN q.pPgMap[EntryNo(s, u)] ELSE q.pPgMap[q.pgMapCnt - 1]

-----------------------------------------------------------------------------
(* Opening and closing.                                                    *)

NoTbl == [k \in TblIx |-> 0]

\* Page 1 of a lower file that has no pages yet.
NoPage1 ==
  [currPgno |-> 3, currPageOfst |-> 0, pgMapCnt |-> 0, uppPageFile |-> 0,
   uppPgSz |-> 0, lwrPageFile |-> 0, mmTblCurrCnt |-> 0, mmTbl |-> NoTbl]

\* A closed cevfs_file: only the lower pages matter.
ClosedFile(p) ==
  [currPgno |-> 3, currPageOfst |-> 0, pgMapCnt |-> 0, uppPageFile |-> 0,
   uppPgSz |-> 0, nBytesPerPgMap |-> 0, lwrPageFile |-> 0,
   mmTblCurrCnt |-> 0, mmTbl |-> NoTbl, mmTblCurrIx |-> NotLoaded,
   pPgMap |-> NoMap, pBigEndianPgMap |-> NoMap, bPgMapDirty |-> FALSE, nTransactions |-> 0,
   map |-> p.map, bytes |-> p.bytes, nPage |-> p.nPage]

LoadHeader(p) ==
  [p EXCEPT !.currPgno = page1.currPgno, !.currPageOfst = page1.currPageOfst,
            !.pgMapCnt = page1.pgMapCnt, !.uppPageFile = page1.uppPageFile,
            !.uppPgSz = page1.uppPgSz, !.lwrPageFile = page1.lwrPageFile,
            !.mmTblCurrCnt = page1.mmTblCurrCnt]
LoadMMTbl(p) == [p EXCEPT !.mmTbl = page1.mmTbl]

\* cevfsOpen and cevfsPagerLock.  nBytesPerPgMap is computed from the page
\* size the session starts from, before the header replaces it.
OpenFile(p, sz) ==
  LET q == [p EXCEPT !.uppPgSz = sz, !.nBytesPerPgMap = MapMax * sz]
  IN IF page1 = NoPage1
     THEN [q EXCEPT !.mmTbl[0] = 2, !.mmTblCurrCnt = 1]
     ELSE LoadPagemapData(LoadMMTbl(LoadHeader(q)), 0)

\* cevfsSaveHeader and cevfsSaveMMTbl: a table entry is stored in two bytes.
SavedPgnoStale(p) == page1.currPgno  \* seeded fault
SavedPgno(p)      == p.currPgno
SavedTbl(p)       == [k \in TblIx |-> p.mmTbl[k] % U16]
Page1Of(p) ==
  [currPgno |-> SavedPgno(p), currPageOfst |-> p.currPageOfst, pgMapCnt |-> p.pgMapCnt,
   uppPageFile |-> p.uppPageFile, uppPgSz |-> p.uppPgSz, lwrPageFile |-> p.lwrPageFile,
   mmTblCurrCnt |-> p.mmTblCurrCnt, mmTbl |-> SavedTbl(p)]

Init ==
  /\ file = ClosedFile([map |-> [g \in Pgno |-> NoMap],
                        bytes |-> [g \in Pgno |-> NoBytes], nPage |-> 0])
  /\ page1 = NoPage1
  /\ mode = "closed"
  /\ pgSz = 0

\* A database of no pages takes the page size of the session, any other one
\* keeps the size it was created with.
Open(sz) ==
  /\ mode = "closed"
  /\ mode' = "rw"
  /\ file' = OpenFile(file, sz)
  /\ pgSz' = IF NextPage(file') = 0 THEN sz ELSE pgSz
  /\ UNCHANGED page1

OpenReadOnly(sz) ==
  /\ mode = "closed"
  /\ page1 # NoPage1
  /\ mode' = "ro"
  /\ file' = OpenFile(file, sz)
  /\ UNCHANGED <<page1, pgSz>>

Close ==
  /\ mode = "rw"
  /\ mode' = "closed"
  /\ LET p == BeginTransaction(file)
     IN /\ page1' = Page1Of(p)
        /\ file' = ClosedFile(SavePagemapData([p EXCEPT !.nPage = Larger(@, 1)]))
  /\ UNCHANGED pgSz

CloseReadOnly ==
  /\ mode = "ro"
  /\ mode' = "closed"
  /\ file' = ClosedFile(file)
  /\ UNCHANGED <<page1, pgSz>>

-----------------------------------------------------------------------------
(* Reading and writing one upper page.                                     *)

\* cevfsPragma takes any size at any time; the upper pager takes it only while
\* the database has no pages.
PragmaPageSize(sz) ==
  /\ mode # "closed"
  /\ file' = [file EXCEPT !.uppPgSz = sz]
  /\ pgSz' = IF NextPage(file) = 0 THEN sz ELSE pgSz
  /\ UNCHANGED <<page1, mode>>

Read(u) ==
  /\ mode # "closed"
  /\ \E f \in SwitchFaults : file' = SwitchPageMap(file, u, f)
  /\ UNCHANGED <<page1, mode, pgSz>>

\* Bounds of the model; the behaviour after the table overflows is undefined.
Writable == mode = "rw"

InBounds(p, u) ==
  /\ p.currPgno + 2 <= MaxPgno
  /\ u <= NextPage(p) + MaxHole
  /\ p.mmTblCurrCnt <= MMMax

Write(u, d, sz) ==
  /\ Writable
  /\ InBounds(file, u)
  /\ \E f \in SwitchFaults :
       LET q == PageMapSet(file, u, sz, f)
           e == SlotOf(file, q, u, f)
       IN file' = [WriteSlot(q, e.lwrPgno, e.cmprOfst, sz, <<u, d>>) EXCEPT
                     !.uppPageFile = Larger(@, u + 1),
                     !.lwrPageFile = Larger(@, e.lwrPgno)]
  /\ UNCHANGED <<page1, mode, pgSz>>

\* The map is set, then the lower pager cannot give or journal the page.
WriteFails(u, sz) ==
  /\ "page" \in Faults
  /\ Writable
  /\ InBounds(file, u)
  /\ \E f \in SwitchFaults : file' = PageMapSet(file, u, sz, f)
  /\ UNCHANGED <<page1, mode, pgSz>>

Next ==
  \/ \E sz \in OpenPgSz : Open(sz) \/ OpenReadOnly(sz)
  \/ Close \/ CloseReadOnly
  \/ \E sz \in PragmaPgSz : PragmaPageSize(sz)
  \/ \E u \in Upp : Read(u)
  \/ \E u \in Upp, sz \in CmpSizes : WriteFails(u, sz) \/ \E d \in Data : Write(u, d, sz)

Spec == Init /\ [][Next]_vars

-----------------------------------------------------------------------------
(* Properties.                                                             *)

\* Every variable has its type.
TypeOK ==
  /\ mode \in {"closed", "rw", "ro"}
  /\ pgSz \in Nat
  /\ file.currPgno \in Pgno /\ file.currPageOfst \in 0 .. PageSize
  /\ file.pgMapCnt \in 0 .. MapMax /\ file.mmTblCurrCnt \in 0 .. MMMax + 1
  /\ file.mmTbl \in [TblIx -> 0 .. MaxPgno]
  /\ file.mmTblCurrIx \in TblIx \cup {NotLoaded}
  /\ file.pPgMap \in Map /\ file.pBigEndianPgMap \in Map
  /\ file.map \in [Pgno -> Map] /\ file.bytes \in [Pgno -> Bytes]
  /\ file.nPage \in 0 .. MaxPgno /\ file.lwrPageFile \in 0 .. MaxPgno
  /\ file.uppPageFile \in Nat

\* The file as the next session finds it, or as this one has it.
View == IF mode # "closed" \/ page1 = NoPage1 THEN file
        ELSE OpenFile(file, CHOOSE sz \in OpenPgSz : TRUE)

\* Entry i of page map k: in memory for the current map, else on its page.
EntryAt(p, k, i) ==
  IF k = p.mmTblCurrIx THEN p.pBigEndianPgMap[i] ELSE p.map[p.mmTbl[k]][i]

Maps(p)  == 0 .. p.mmTblCurrCnt - 1
Slots(p) == {s \in Maps(p) \X MapIx :
               s[2] < MapCnt(p, s[1]) /\ EntryAt(p, s[1], s[2]).cmprSz > 0}
Extent(p, s) == LET e == EntryAt(p, s[1], s[2])
                IN {<<e.lwrPgno, o>> : o \in e.cmprOfst .. e.cmprOfst + e.cmprSz - 1}

\* Two upper pages never share a byte of the lower file, whatever was
\* rewritten, grown, shrunk or abandoned in between.
SlotsDisjoint ==
  LET p == View
  IN \A s, t \in Slots(p) : s # t => Extent(p, s) \cap Extent(p, t) = {}

\* A compressed page lies within one lower page ("current page can't hold any
\* more, start new page").
SlotInPage ==
  LET p == View
  IN \A s \in Slots(p) : \A b \in Extent(p, s) : b[2] < PageSize

\* No compressed page is placed on a page that holds a page map ("make sure to
\* not use a pgno that we allocated to a pagemap page").
SlotsAvoidMaps ==
  LET p == View
  IN \A s \in Slots(p), k \in Maps(p) : EntryAt(p, s[1], s[2]).lwrPgno # p.mmTbl[k]

\* A place that is given out is inside one lower page, and that page holds no
\* page map.
SlotsPlaced == SlotInPage /\ SlotsAvoidMaps

\* Each page map has a page of its own ("as each new table is created, it is
\* stored on the next available page").
MapPagesDistinct ==
  LET p == View
  IN \A j, k \in Maps(p) : j # k => p.mmTbl[j] # p.mmTbl[k]

\* The space handed out only grows, within a session and across sessions: a
\* place that was given up is never given out again.
Frontier(p) == p.currPgno * (PageSize + 1) + p.currPageOfst
SpaceOnlyGrows == [][Frontier(View') >= Frontier(View)]_vars

-----------------------------------------------------------------------------
(* Claims of the source that the code does not keep; the README says when. *)

\* The master table stays within the memory allocated for it ("we've run out of
\* room in the master map table").
MMTblInBounds == file.mmTblCurrCnt <= MMMax

\* Closing stores every page map's page number as it is ("lower pager pgno where
\* actual page map data is stored").
MMTblSaved ==
  [][mode = "rw" /\ mode' = "closed" =>
       \A k \in Maps(file) : page1'.mmTbl[k] = file.mmTbl[k]]_vars

\* assert( p->lwrPageFile==nPageFile ) in cevfsClose.
CloseAssertion == mode = "rw" => file.lwrPageFile = file.nPage

\* assert( uCmpPgSz > 0 ) in cevfsRead: no page it can get is a placeholder.
ReadAssertion ==
  mode # "closed" =>
    \A u \in Upp : LET q == SwitchPageMap(file, u, "none")
                       e == q.pPgMap[EntryNo(q, u)]
                   IN Found(q, u) /\ e.lwrPgno # 0 => e.cmprSz > 0
=============================================================================
