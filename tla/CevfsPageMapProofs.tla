------------------------- MODULE CevfsPageMapProofs -------------------------
(***************************************************************************)
(* Proofs about CevfsPageMap and CevfsStore, for files of one page size,   *)
(* any number of page maps, of skipped pages and of sessions: places are   *)
(* apart from each other and from the page maps, and the file implements   *)
(* the page store.                                                         *)
(***************************************************************************)
EXTENDS CevfsStore, TLAPS, WellFoundedInduction

\* The page size every session and every PRAGMA asks for.
Sz == CHOOSE sz \in OpenPgSz : TRUE

\* What the theorems assume of the constants: one page size; compressed pages no
\* shorter than the entries one write makes, so that a page map full of
\* placeholders does not come about (CevfsPageMapHoles is what happens then); page
\* offsets and page numbers that two bytes hold; page maps that can be saved and
\* loaded (after a switch that failed a page is looked up in the wrong map).
Sane ==
  /\ OpenPgSz # {} /\ \A s, t \in OpenPgSz \cup PragmaPgSz : s = t
  /\ CmpSizes \subseteq (MaxHole + 1) * EntrySz .. PageSize
  /\ PageSize + PageSize < U16 /\ MaxPgno < U16
  /\ Faults \subseteq {"page"}

-----------------------------------------------------------------------------
(* The inductive invariant.                                                *)

\* The fields of an open file.
File ==
  [currPgno : Pgno, currPageOfst : 0 .. PageSize, pgMapCnt : 0 .. MapMax,
   uppPageFile : Nat, uppPgSz : Nat, nBytesPerPgMap : Nat, lwrPageFile : 0 .. MaxPgno,
   mmTblCurrCnt : 0 .. MMMax + 1, mmTbl : [TblIx -> 0 .. MaxPgno],
   mmTblCurrIx : TblIx \cup {NotLoaded}, pPgMap : Map, pBigEndianPgMap : Map,
   bPgMapDirty : BOOLEAN, nTransactions : Nat,
   map : [Pgno -> Map], bytes : [Pgno -> Bytes], nPage : 0 .. MaxPgno]

LastMap(p) == p.mmTbl[p.mmTblCurrCnt - 1]

\* Entry i of map k is in use.
Used(p, k, i) == k \in Maps(p) /\ i \in MapIx /\ i < MapCnt(p, k)

\* Bytes of the least write, with all the pages it may skip.
Least == (MaxHole + 1) * EntrySz

\* The pages of the maps.  holes counts the placeholders of the write under
\* way: a last map that is ahead of the current page was given its page when
\* the current page had been used, and what was written since used it more.
Geometry(p, holes) ==
  /\ p.mmTblCurrCnt >= 1
  /\ p.currPgno >= 3
  /\ p.uppPgSz = Sz /\ p.nBytesPerPgMap = MapMax * Sz
  /\ \A k \in Maps(p) : p.mmTbl[k] \in 2 .. p.currPgno + 1 /\ p.mmTbl[k] # p.currPgno
  /\ \A k \in Maps(p) : k < p.mmTblCurrCnt - 1 => p.mmTbl[k] < p.currPgno
  /\ \A j, k \in Maps(p) : j # k => p.mmTbl[j] # p.mmTbl[k]
  /\ LastMap(p) > p.currPgno =>
       p.currPageOfst + holes * EntrySz >= p.pgMapCnt * EntrySz + Least
  /\ p.currPageOfst >= Least \/ (p.mmTblCurrCnt = 1 /\ p.pgMapCnt <= holes)

\* The map in memory: it agrees with the copy to be saved but for placeholders,
\* and with its page when it is not dirty.
Loaded(p) ==
  /\ p.mmTblCurrIx \in Maps(p) \cup {NotLoaded}
  /\ p.mmTblCurrIx = NotLoaded =>
       p.mmTblCurrCnt = 1 /\ p.pgMapCnt = 0 /\ ~p.bPgMapDirty
  /\ \A i \in MapIx : Used(p, p.mmTblCurrIx, i) =>
       \/ p.pPgMap[i] = p.pBigEndianPgMap[i]
       \/ p.pPgMap[i] = NoEntry /\ p.pBigEndianPgMap[i].cmprSz = 0
  /\ ~p.bPgMapDirty => \A i \in MapIx : Used(p, p.mmTblCurrIx, i) =>
       p.pBigEndianPgMap[i] = p.map[p.mmTbl[p.mmTblCurrIx]][i]

\* Entry e is a place below the frontier, inside one page that holds no map.
Placed(p, e) ==
  e.cmprSz > 0 =>
    /\ e.lwrPgno \in 3 .. p.currPgno
    /\ e.cmprOfst + e.cmprSz <= PageSize
    /\ e.lwrPgno = p.currPgno => e.cmprOfst + e.cmprSz <= p.currPageOfst
    /\ \A k \in Maps(p) : e.lwrPgno # p.mmTbl[k]

AllPlaced(p) == \A k \in Maps(p), i \in MapIx : Used(p, k, i) => Placed(p, EntryAt(p, k, i))

Apart(e, f) ==
  e.cmprSz > 0 /\ f.cmprSz > 0 =>
    \/ e.lwrPgno # f.lwrPgno
    \/ e.cmprOfst + e.cmprSz <= f.cmprOfst
    \/ f.cmprOfst + f.cmprSz <= e.cmprOfst

AllApart(p) ==
  \A k, l \in Maps(p), i, j \in MapIx :
    Used(p, k, i) /\ Used(p, l, j) /\ <<k, i>> # <<l, j>> =>
      Apart(EntryAt(p, k, i), EntryAt(p, l, j))

FileInv(p, holes) ==
  p \in File /\ Geometry(p, holes) /\ Loaded(p) /\ AllPlaced(p) /\ AllApart(p)

\* A closed file as a session finds it whose page 1 is h.
Reopened(h, p, sz) ==
  LoadPagemapData(
    [[[p EXCEPT !.uppPgSz = sz, !.nBytesPerPgMap = MapMax * sz]
         EXCEPT !.currPgno = h.currPgno, !.currPageOfst = h.currPageOfst,
                !.pgMapCnt = h.pgMapCnt, !.uppPageFile = h.uppPageFile,
                !.uppPgSz = h.uppPgSz, !.lwrPageFile = h.lwrPageFile,
                !.mmTblCurrCnt = h.mmTblCurrCnt]
         EXCEPT !.mmTbl = h.mmTbl], 0)

\* p and q place the same pages at the same places.
SamePlaces(p, q) ==
  /\ q.currPgno = p.currPgno /\ q.currPageOfst = p.currPageOfst
  /\ q.pgMapCnt = p.pgMapCnt /\ q.mmTblCurrCnt = p.mmTblCurrCnt /\ q.mmTbl = p.mmTbl
  /\ q.uppPgSz = p.uppPgSz /\ q.nBytesPerPgMap = p.nBytesPerPgMap
  /\ \A k \in Maps(p), i \in MapIx : Used(p, k, i) => EntryAt(q, k, i) = EntryAt(p, k, i)

\* Pages that hold no map have the same bytes.
OffMaps(p) == {g \in Pgno : \A k \in Maps(p) : g # p.mmTbl[k]}
SameBytes(p, q) ==
  OffMaps(q) \subseteq OffMaps(p) /\ \A g \in OffMaps(q) : q.bytes[g] = p.bytes[g]

\* What is on disk, as the next session would find it.
OnDisk == Reopened(page1, ClosedFile(file), Sz)

Page1 ==
  [currPgno : Pgno, currPageOfst : 0 .. PageSize, pgMapCnt : 0 .. MapMax,
   uppPageFile : Nat, uppPgSz : Nat, lwrPageFile : 0 .. MaxPgno,
   mmTblCurrCnt : 0 .. MMMax + 1, mmTbl : [TblIx -> 0 .. MaxPgno]]

\* A read-only session holds what is on disk.
ReadOnlyInv ==
  /\ ~file.bPgMapDirty /\ SamePlaces(OnDisk, file) /\ SameBytes(OnDisk, file)
  /\ file.uppPageFile = OnDisk.uppPageFile

IInv ==
  /\ mode \in {"closed", "rw", "ro"}
  /\ pgSz \in Nat
  /\ page1 \in Page1
  /\ file \in File
  /\ mode = "closed" => file = ClosedFile(file)
  /\ mode # "closed" => FileInv(file, 0) /\ pgSz = Sz
  /\ page1 # NoPage1 => pgSz = Sz /\ (mode # "rw" => FileInv(OnDisk, 0))
  /\ mode = "ro" => page1 # NoPage1 /\ ReadOnlyInv

\* Quotient and remainder.
LEMMA DivMod ==
  ASSUME NEW u \in Nat, NEW m \in Nat \ {0}
  PROVE  u \div m \in Nat /\ u % m \in 0 .. m - 1 /\ u = m * (u \div m) + (u % m)
<1>1. u = m * (u \div m) + (u % m)
  OBVIOUS
<1>2. u \div m \in Nat
  OBVIOUS
<1>3. u % m \in 0 .. m - 1
  OBVIOUS
<1> QED
  BY <1>1, <1>2, <1>3

\* They are the only such numbers.
LEMMA DivUnique ==
  ASSUME NEW u \in Nat, NEW m \in Nat \ {0}, NEW q \in Nat, NEW r \in 0 .. m - 1, u = m * q + r
  PROVE  u \div m = q /\ u % m = r
OBVIOUS

-----------------------------------------------------------------------------
(* Arithmetic.                                                             *)

\* What the constants are.
LEMMA Sizes ==
  ASSUME Sane
  PROVE  /\ MapMax \in Nat \ {0} /\ EntrySz \in Nat \ {0} /\ PageSize \in Nat
         /\ PageSize < (MapMax + 1) * EntrySz
         /\ MaxHole \in Nat /\ Least \in Nat \ {0} /\ Least = MaxHole * EntrySz + EntrySz
         /\ Sz \in Nat \ {0} /\ Sz \in OpenPgSz
         /\ \A sz \in OpenPgSz \cup PragmaPgSz : sz = Sz
         /\ \A sz \in CmpSizes : sz \in Least .. PageSize
         /\ U16 \in Nat \ {0} /\ PageSize + PageSize < U16
         /\ MaxPgno \in Nat /\ MaxPgno >= 3 /\ MaxPgno < U16
         /\ MMMax \in Nat \ {0} /\ Upp \subseteq Nat
         /\ SwitchFaults = {"none"}
<1>1. Sz \in OpenPgSz
  BY DEF Sz, Sane
<1>2. \A sz \in OpenPgSz \cup PragmaPgSz : sz = Sz
  BY <1>1 DEF Sane
<1>3. EntrySz \in Nat \ {0} /\ PageSize \in Nat /\ MaxHole \in Nat
  BY SizesAssumption
<1>4. /\ PageSize \div EntrySz \in Nat /\ PageSize % EntrySz \in 0 .. EntrySz - 1
      /\ PageSize = EntrySz * (PageSize \div EntrySz) + (PageSize % EntrySz)
  BY <1>3, DivMod
<1>5. MapMax \in Nat \ {0}
  BY <1>4, SizesAssumption DEF MapMax
<1>6. PageSize < (MapMax + 1) * EntrySz
  <2> DEFINE q == PageSize \div EntrySz
             r == PageSize % EntrySz
  <2>1. q \in Nat /\ r \in 0 .. EntrySz - 1 /\ PageSize = EntrySz * q + r
    BY <1>4
  <2> HIDE DEF q, r
  <2>2. PageSize < (q + 1) * EntrySz
    BY <2>1, <1>3
  <2> QED
    BY <2>2 DEF q, MapMax
<1>7. Least \in Nat \ {0} /\ Least = MaxHole * EntrySz + EntrySz
  BY <1>3 DEF Least
<1>8. \A sz \in CmpSizes : sz \in Least .. PageSize
  BY DEF Sane, Least
<1>9. SwitchFaults = {"none"}
  BY DEF Sane, SwitchFaults
<1> QED
  BY <1>1, <1>2, <1>3, <1>5, <1>6, <1>7, <1>8, <1>9, SizesAssumption DEF Sane

\* Page sizes cancel: the map of page u and the entry there.
LEMMA Scaled ==
  ASSUME NEW u \in Nat, NEW m \in Nat \ {0}, NEW s \in Nat \ {0}
  PROVE  (u * s) \div (m * s) = u \div m /\ ((u * s) % (m * s)) \div s = u % m
<1> DEFINE q == u \div m
           r == u % m
           x == u * s
           y == m * s
           z == r * s
<1>1. q \in Nat /\ r \in 0 .. m - 1 /\ u = m * q + r
  BY DivMod
<1> HIDE DEF q, r
<1>2. x \in Nat /\ y \in Nat \ {0} /\ z \in 0 .. y - 1 /\ x = y * q + z
  BY <1>1
<1>5. z = s * r + 0 /\ z \in Nat
  BY <1>1
<1>4. z \div s = r
  BY <1>1, <1>5, DivUnique
<1> HIDE DEF x, y, z
<1>3. x \div y = q /\ x % y = z
  BY <1>1, <1>2, DivUnique
<1> QED
  BY <1>3, <1>4 DEF q, r, x, y, z

\* With one page size, page u is entry u % MapMax of map u \div MapMax.
LEMMA Address ==
  ASSUME Sane, NEW p, p.uppPgSz = Sz, p.nBytesPerPgMap = MapMax * Sz, pgSz = Sz, NEW u \in Nat
  PROVE  /\ MapNo(p, u) = u \div MapMax /\ EntryNo(p, u) = u % MapMax
         /\ MapNo(p, u) \in Nat /\ EntryNo(p, u) \in MapIx
         /\ u = MapMax * MapNo(p, u) + EntryNo(p, u)
<1>1. MapMax \in Nat \ {0} /\ Sz \in Nat \ {0}
  BY Sizes
<1>2. MapNo(p, u) = u \div MapMax /\ EntryNo(p, u) = u % MapMax
  <2>1. (u * Sz) \div (MapMax * Sz) = u \div MapMax /\ ((u * Sz) % (MapMax * Sz)) \div Sz = u % MapMax
    BY <1>1, Scaled
  <2> QED
    BY <2>1, Zenon DEF MapNo, EntryNo
<1> QED
  BY <1>1, <1>2, DivMod DEF MapIx

\* Entry i of map k is for one page only.
LEMMA AddressUnique ==
  ASSUME Sane, NEW p, p.uppPgSz = Sz, p.nBytesPerPgMap = MapMax * Sz, pgSz = Sz,
         NEW k \in Nat, NEW i \in MapIx, NEW u \in Nat, u = MapMax * k + i
  PROVE  MapNo(p, u) = k /\ EntryNo(p, u) = i
<1>1. MapMax \in Nat \ {0}
  BY Sizes
<1>2. u \div MapMax = k /\ u % MapMax = i
  BY <1>1, DivUnique DEF MapIx
<1> QED
  BY <1>2, Address

-----------------------------------------------------------------------------
(* The lower pager.                                                        *)

\* The empty entry, map and page have their types.
LEMMA NoMapType == NoEntry \in Entry /\ NoMap \in Map /\ NoBytes \in Bytes
<1>1. MaxPgno \in Nat /\ U16 \in Nat \ {0} /\ PageSize \in Nat
  BY SizesAssumption
<1>2. NoEntry \in Entry
  BY <1>1 DEF NoEntry, Entry
<1> QED
  BY <1>2 DEF NoMap, Map, NoBytes, Bytes

\* Beginning a transaction leaves everything but the size of the lower file.
LEMMA Begun ==
  ASSUME NEW p \in File
  PROVE  LET q == BeginTransaction(p)
         IN q \in File /\ q = [p EXCEPT !.nTransactions = q.nTransactions, !.nPage = q.nPage]
<1>1. MaxPgno \in Nat /\ MaxPgno >= 3
  BY SizesAssumption
<1>2. ASSUME NEW r \in File
      PROVE  LET q == NewDatabase(r) IN q \in File /\ q = [r EXCEPT !.nPage = q.nPage]
  <2> DEFINE n == Larger(r.nPage, 1)
  <2>1. n \in 0 .. MaxPgno
    BY <1>1 DEF File, Larger
  <2> HIDE DEF n
  <2> DEFINE q == [r EXCEPT !.nPage = n]
  <2>2. q \in File /\ q = [r EXCEPT !.nPage = q.nPage]
    BY <2>1 DEF File
  <2> QED
    BY <2>2 DEF NewDatabase, n
<1> DEFINE q == [p EXCEPT !.nTransactions = 1]
           r == NewDatabase(q)
<1>3. q \in File
  BY DEF File
<1>4. r \in File /\ r = [q EXCEPT !.nPage = r.nPage]
  BY <1>2, <1>3
<1>5. CASE p.nTransactions > 0
  <2>1. BeginTransaction(p) = p
    BY <1>5 DEF BeginTransaction
  <2> QED
    BY <2>1 DEF File
<1>6. CASE ~(p.nTransactions > 0) /\ p.lwrPageFile = 0
  <2>1. BeginTransaction(p) = r
    BY <1>6 DEF BeginTransaction
  <2>2. r = [p EXCEPT !.nTransactions = r.nTransactions, !.nPage = r.nPage]
    <3> HIDE DEF r
    <3> QED
      BY <1>4 DEF File
  <2> QED
    BY <2>1, <2>2, <1>4
<1>7. CASE ~(p.nTransactions > 0) /\ p.lwrPageFile # 0
  <2>1. BeginTransaction(p) = q
    BY <1>7 DEF BeginTransaction
  <2>2. q = [p EXCEPT !.nTransactions = q.nTransactions, !.nPage = q.nPage]
    BY DEF File
  <2> QED
    BY <2>1, <2>2, <1>3
<1> QED
  BY <1>5, <1>6, <1>7

\* Writing a map changes its page only.
LEMMA MapWritten ==
  ASSUME NEW p \in File, NEW g \in Pgno, NEW m \in Map
  PROVE  LET q == WriteMapPage(p, g, m)
         IN /\ q \in File
            /\ q = [p EXCEPT !.map[g] = m, !.bytes[g] = NoBytes,
                             !.nTransactions = q.nTransactions, !.nPage = q.nPage]
<1> DEFINE b == BeginTransaction(p)
           n == Larger(b.nPage, g)
           q == [b EXCEPT !.map[g] = m, !.bytes[g] = NoBytes, !.nPage = n]
<1>1. b \in File /\ b = [p EXCEPT !.nTransactions = b.nTransactions, !.nPage = b.nPage]
  BY Begun
<1> HIDE DEF b
<1>2. n \in 0 .. MaxPgno
  <2>1. MaxPgno \in Nat /\ b.nPage \in 0 .. MaxPgno /\ g \in 1 .. MaxPgno
    BY <1>1, SizesAssumption DEF File, Pgno
  <2> QED
    BY <2>1 DEF Larger
<1> HIDE DEF n
<1>3. q \in File
  BY <1>1, <1>2, NoMapType DEF File
<1>4. q = [p EXCEPT !.map[g] = m, !.bytes[g] = NoBytes,
                    !.nTransactions = q.nTransactions, !.nPage = q.nPage]
  BY <1>1, <1>2 DEF File
<1>5. WriteMapPage(p, g, m) = q
  BY DEF WriteMapPage, b, n
<1> QED
  BY <1>3, <1>4, <1>5

\* Bytes b with c from ofst on.
Over(b, ofst, sz, c) == [o \in Offset |-> IF o \in ofst .. ofst + sz - 1 THEN c ELSE b[o]]

\* q is p with bytes b on page g, which holds no map.
PutOn(p, q, g, b) ==
  /\ q \in File
  /\ q = [p EXCEPT !.map[g] = NoMap, !.bytes[g] = b,
                   !.nTransactions = q.nTransactions, !.nPage = q.nPage]

\* Writing a compressed page changes its bytes and clears the map of its page.
LEMMA SlotWritten ==
  ASSUME NEW p \in File, NEW g \in Pgno, NEW ofst \in Nat, NEW sz \in Nat, NEW c \in Upp \X Data
  PROVE  PutOn(p, WriteSlot(p, g, ofst, sz, c), g, Over(p.bytes[g], ofst, sz, c))
<1> DEFINE b == BeginTransaction(p)
           n == Larger(b.nPage, g)
           y == [o \in Offset |-> IF o \in ofst .. ofst + sz - 1 THEN c ELSE b.bytes[g][o]]
           q == [b EXCEPT !.map[g] = NoMap, !.bytes[g] = y, !.nPage = n]
<1>1. b \in File /\ b = [p EXCEPT !.nTransactions = b.nTransactions, !.nPage = b.nPage]
  BY Begun
<1> HIDE DEF b
<1>2. n \in 0 .. MaxPgno
  <2>1. MaxPgno \in Nat /\ b.nPage \in 0 .. MaxPgno /\ g \in 1 .. MaxPgno
    BY <1>1, SizesAssumption DEF File, Pgno
  <2> QED
    BY <2>1 DEF Larger
<1> HIDE DEF n
<1>3. b.bytes \in [Pgno -> Bytes] /\ b.bytes = p.bytes
  BY <1>1 DEF File
<1>4. y \in Bytes /\ y = [o \in Offset |-> IF o \in ofst .. ofst + sz - 1 THEN c ELSE p.bytes[g][o]]
  BY <1>3 DEF Bytes
<1>5. WriteSlot(p, g, ofst, sz, c) = q
  <2>1. q = [b EXCEPT !.map[g] = NoMap,
                      !.bytes[g] = [o \in Offset |-> IF o \in ofst .. ofst + sz - 1 THEN c ELSE @[o]],
                      !.nPage = Larger(@, g)]
    BY <1>1 DEF File, n
  <2> QED
    BY <2>1 DEF WriteSlot, b
<1> HIDE DEF y
<1>6. q \in File
  BY <1>1, <1>2, <1>4, NoMapType DEF File
<1>7. q = [p EXCEPT !.map[g] = NoMap, !.bytes[g] = y,
                    !.nTransactions = q.nTransactions, !.nPage = q.nPage]
  BY <1>1, <1>2 DEF File
<1>8. y = Over(p.bytes[g], ofst, sz, c)
  BY <1>4 DEF Over
<1> QED
  BY <1>5, <1>6, <1>7, <1>8 DEF PutOn

-----------------------------------------------------------------------------
(* Switching from one page map to another.                                 *)

\* The arithmetic of the maps of a file.
LEMMA MapsOf ==
  ASSUME Sane, NEW p \in File, p.mmTblCurrCnt >= 1
  PROVE  /\ p.mmTblCurrCnt - 1 \in Maps(p) /\ Maps(p) \subseteq Nat /\ Maps(p) \subseteq TblIx
         /\ NotLoaded \notin Maps(p)
         /\ \A k \in Maps(p) : MapCnt(p, k) \in 0 .. MapMax
         /\ \A k \in Maps(p) : k <= p.mmTblCurrCnt - 1
         /\ MapCnt(p, p.mmTblCurrCnt - 1) = p.pgMapCnt
<1>1. MMMax \in Nat /\ MapMax \in Nat \ {0}
  BY Sizes
<1>2. p.mmTblCurrCnt \in 0 .. MMMax + 1 /\ p.pgMapCnt \in 0 .. MapMax
  BY DEF File
<1> QED
  BY <1>1, <1>2 DEF Maps, TblIx, MapCnt, NotLoaded

\* Every map has a page.
LEMMA MapPgnos ==
  ASSUME Sane, NEW holes, NEW p, FileInv(p, holes)
  PROVE  \A k \in Maps(p) : k \in TblIx /\ k # NotLoaded /\ p.mmTbl[k] \in Pgno
<1>1. p \in File /\ p.mmTblCurrCnt >= 1
  BY DEF FileInv, Geometry
<1>2. \A k \in Maps(p) : k \in TblIx /\ k # NotLoaded /\ p.mmTbl[k] >= 2
  <2>1. p.currPgno \in Nat
    BY <1>1 DEF File, Pgno
  <2>2. \A k \in Maps(p) : p.mmTbl[k] \in 2 .. p.currPgno + 1
    BY DEF FileInv, Geometry
  <2>3. \A k \in Maps(p) : p.mmTbl[k] >= 2
    BY <2>1, <2>2
  <2> QED
    BY <1>1, <2>3, MapsOf
<1>3. p.mmTbl \in [TblIx -> 0 .. MaxPgno]
  BY <1>1 DEF File
<1> QED
  BY <1>2, <1>3 DEF Pgno

\* Every entry of a map is one.
LEMMA EntryType ==
  ASSUME Sane, NEW holes, NEW p, FileInv(p, holes), NEW k \in Maps(p), NEW i \in MapIx
  PROVE  EntryAt(p, k, i) \in Entry
<1>1. p.map \in [Pgno -> [MapIx -> Entry]] /\ p.pBigEndianPgMap \in [MapIx -> Entry]
  BY DEF FileInv, File, Map
<1>2. p.mmTbl[k] \in Pgno
  BY MapPgnos
<1> QED
  BY <1>1, <1>2 DEF EntryAt

\* What the invariant says of the places depends on nothing else.
LEMMA SamePlacesInv ==
  ASSUME NEW p, NEW q, NEW holes, FileInv(p, holes), SamePlaces(p, q), q \in File, Loaded(q)
  PROVE  FileInv(q, holes)
<1>1. Maps(q) = Maps(p) /\ LastMap(q) = LastMap(p) /\ \A k, i : Used(q, k, i) <=> Used(p, k, i)
  BY DEF SamePlaces, Maps, LastMap, Used, MapCnt
<1>2. Geometry(q, holes)
  BY <1>1 DEF FileInv, Geometry, SamePlaces
<1>3. \A e : Placed(p, e) => Placed(q, e)
  BY <1>1 DEF Placed, SamePlaces
<1>4. AllPlaced(q)
  BY <1>1, <1>3 DEF FileInv, AllPlaced, SamePlaces
<1>5. AllApart(q)
  BY <1>1 DEF FileInv, AllApart, SamePlaces
<1> QED
  BY <1>2, <1>4, <1>5 DEF FileInv

\* Saving the map in memory moves no place, and its page then agrees with it.
LEMMA Saved ==
  ASSUME Sane, NEW holes, NEW p, FileInv(p, holes)
  PROVE  LET q == SavePagemapData(p)
         IN /\ q \in File /\ FileInv(q, holes) /\ SamePlaces(p, q) /\ ~q.bPgMapDirty
            /\ q.mmTblCurrIx = p.mmTblCurrIx
            /\ q.pPgMap = p.pPgMap /\ q.pBigEndianPgMap = p.pBigEndianPgMap
            /\ q.uppPageFile = p.uppPageFile /\ q.lwrPageFile = p.lwrPageFile
            /\ SameBytes(p, q)
            /\ ~p.bPgMapDirty => q = p
<1> DEFINE g == p.mmTbl[p.mmTblCurrIx]
           w == WriteMapPage(p, g, p.pBigEndianPgMap)
           q == [w EXCEPT !.bPgMapDirty = FALSE]
<1>1. p \in File /\ p.mmTblCurrCnt >= 1
  BY DEF FileInv, Geometry
<1>2. CASE ~p.bPgMapDirty
  <2>1. SavePagemapData(p) = p
    BY <1>2 DEF SavePagemapData
  <2> QED
    BY <1>1, <1>2, <2>1 DEF SamePlaces, SameBytes
<1>3. CASE p.bPgMapDirty
  <2>1. SavePagemapData(p) = q
    BY <1>3 DEF SavePagemapData
  <2>2. p.mmTblCurrIx \in Maps(p)
    BY <1>3 DEF FileInv, Loaded
  <2>3. g \in Pgno /\ \A k \in Maps(p) : k # p.mmTblCurrIx => p.mmTbl[k] # g
    <3>1. p.mmTblCurrIx \in TblIx /\ g \in 0 .. MaxPgno
      BY <1>1, <2>2, MapsOf DEF File
    <3>2. g >= 2
      BY <1>1, <2>2 DEF FileInv, Geometry, File, Pgno
    <3> QED
      BY <2>2, <3>1, <3>2 DEF FileInv, Geometry, Pgno
  <2>4. /\ w \in File
        /\ w = [p EXCEPT !.map[g] = p.pBigEndianPgMap, !.bytes[g] = NoBytes,
                         !.nTransactions = w.nTransactions, !.nPage = w.nPage]
    <3>1. p.pBigEndianPgMap \in Map
      BY <1>1 DEF File
    <3> QED
      BY <1>1, <2>3, <3>1, MapWritten
  <2> HIDE DEF w
  <2>5. q \in File
    BY <2>4 DEF File
  <2>6. q = [p EXCEPT !.map[g] = p.pBigEndianPgMap, !.bytes[g] = NoBytes, !.bPgMapDirty = FALSE,
                      !.nTransactions = w.nTransactions, !.nPage = w.nPage]
    BY <1>1, <2>4 DEF File
  <2> HIDE DEF q
  <2>7. /\ q.currPgno = p.currPgno /\ q.currPageOfst = p.currPageOfst
        /\ q.pgMapCnt = p.pgMapCnt /\ q.mmTblCurrCnt = p.mmTblCurrCnt /\ q.mmTbl = p.mmTbl
        /\ q.uppPgSz = p.uppPgSz /\ q.nBytesPerPgMap = p.nBytesPerPgMap
        /\ q.mmTblCurrIx = p.mmTblCurrIx /\ ~q.bPgMapDirty
        /\ q.pPgMap = p.pPgMap /\ q.pBigEndianPgMap = p.pBigEndianPgMap
        /\ q.uppPageFile = p.uppPageFile /\ q.lwrPageFile = p.lwrPageFile
        /\ q.map = [p.map EXCEPT ![g] = p.pBigEndianPgMap]
        /\ q.bytes = [p.bytes EXCEPT ![g] = NoBytes]
    BY <1>1, <2>6 DEF File
  <2>8. p.map \in [Pgno -> Map] /\ p.bytes \in [Pgno -> Bytes] /\ p.mmTbl \in [TblIx -> 0 .. MaxPgno]
    BY <1>1 DEF File
  <2> HIDE DEF g
  <2>9. q.map[g] = p.pBigEndianPgMap /\ \A h \in Pgno : h # g => q.map[h] = p.map[h] /\ q.bytes[h] = p.bytes[h]
    BY <2>3, <2>7, <2>8
  <2>10. \A k \in Maps(p) : p.mmTbl[k] \in Pgno
    BY MapPgnos
  <2>11. SamePlaces(p, q)
    BY <2>3, <2>7, <2>9, <2>10 DEF SamePlaces, EntryAt
  <2>12. Loaded(q)
    <3>1. Maps(q) = Maps(p) /\ \A k, i : Used(q, k, i) <=> Used(p, k, i)
      BY <2>7 DEF Maps, Used, MapCnt
    <3>2. q.mmTbl[q.mmTblCurrIx] = g
      BY <2>7 DEF g
    <3>3. q.mmTblCurrIx \in Maps(p)
      BY <2>2, <2>7
    <3>4. q.mmTblCurrIx # NotLoaded
      BY <1>1, <3>3, MapsOf
    <3>5. \A i \in MapIx : Used(p, p.mmTblCurrIx, i) =>
            \/ p.pPgMap[i] = p.pBigEndianPgMap[i]
            \/ p.pPgMap[i] = NoEntry /\ p.pBigEndianPgMap[i].cmprSz = 0
      BY DEF FileInv, Loaded
    <3> QED
      BY <2>7, <2>9, <3>1, <3>2, <3>3, <3>4, <3>5 DEF Loaded
  <2>13. FileInv(q, holes)
    BY <2>5, <2>11, <2>12, SamePlacesInv
  <2>14. SameBytes(p, q)
    BY <2>2, <2>7, <2>9 DEF g, SameBytes, OffMaps, Maps
  <2> QED
    BY <1>3, <2>1, <2>5, <2>7, <2>11, <2>13, <2>14
<1> QED
  BY <1>2, <1>3

\* Loading a map into a clean file moves no place.
LEMMA LoadedPlaces ==
  ASSUME Sane, NEW holes, NEW p, FileInv(p, holes), ~p.bPgMapDirty, NEW ix \in Maps(p)
  PROVE  LET q == LoadPagemapData(p, ix)
         IN /\ FileInv(q, holes) /\ SamePlaces(p, q) /\ ~q.bPgMapDirty /\ q.mmTblCurrIx = ix
            /\ q.uppPageFile = p.uppPageFile /\ q.lwrPageFile = p.lwrPageFile
            /\ q.map = p.map /\ q.bytes = p.bytes /\ q.nPage = p.nPage
<1> DEFINE m == p.map[p.mmTbl[ix]]
           c == MapCnt(p, ix)
           v == [i \in MapIx |-> IF i < c THEN m[i] ELSE NoEntry]
           q == [p EXCEPT !.pBigEndianPgMap = m, !.pPgMap = v, !.mmTblCurrIx = ix]
<1>1. p \in File /\ p.mmTblCurrCnt >= 1
  BY DEF FileInv, Geometry
<1>2. p.map \in [Pgno -> Map] /\ p.mmTbl \in [TblIx -> 0 .. MaxPgno]
  BY <1>1 DEF File
<1>3. \A k \in Maps(p) : k \in TblIx /\ p.mmTbl[k] \in Pgno /\ k # NotLoaded
  BY MapPgnos
<1>4. m \in Map /\ v \in Map
  BY <1>2, <1>3, NoMapType DEF Map
<1>5. LoadPagemapData(p, ix) = q
  BY DEF LoadPagemapData
<1>6. \A i \in MapIx : i < c => v[i] = m[i]
  OBVIOUS
<1> HIDE DEF v, m, c
<1>7. q \in File
  BY <1>1, <1>3, <1>4 DEF File
<1>8. /\ q.currPgno = p.currPgno /\ q.currPageOfst = p.currPageOfst
      /\ q.pgMapCnt = p.pgMapCnt /\ q.mmTblCurrCnt = p.mmTblCurrCnt /\ q.mmTbl = p.mmTbl
      /\ q.uppPgSz = p.uppPgSz /\ q.nBytesPerPgMap = p.nBytesPerPgMap
      /\ q.mmTblCurrIx = ix /\ q.bPgMapDirty = p.bPgMapDirty
      /\ q.pPgMap = v /\ q.pBigEndianPgMap = m
      /\ q.uppPageFile = p.uppPageFile /\ q.lwrPageFile = p.lwrPageFile
      /\ q.map = p.map /\ q.bytes = p.bytes /\ q.nPage = p.nPage
  BY <1>1 DEF File
<1> HIDE DEF q
<1>9. Maps(q) = Maps(p) /\ \A k, i : Used(q, k, i) <=> Used(p, k, i)
  BY <1>8 DEF Maps, Used, MapCnt
<1>10. SamePlaces(p, q)
  <2>1. \A i \in MapIx : Used(p, p.mmTblCurrIx, i) =>
          p.pBigEndianPgMap[i] = p.map[p.mmTbl[p.mmTblCurrIx]][i]
    BY DEF FileInv, Loaded
  <2> QED
    BY <1>8, <2>1 DEF SamePlaces, EntryAt, m
<1>11. \A i \in MapIx : Used(q, ix, i) => q.pPgMap[i] = q.pBigEndianPgMap[i]
  BY <1>6, <1>8, <1>9 DEF Used, c
<1>12. Loaded(q)
  BY <1>3, <1>8, <1>9, <1>11 DEF Loaded, m
<1>13. FileInv(q, holes)
  BY <1>7, <1>10, <1>12, SamePlacesInv
<1> QED
  BY <1>5, <1>8, <1>10, <1>13

\* Multiplication keeps order.
LEMMA TimesMonotone ==
  ASSUME NEW a \in Int, NEW b \in Int, a <= b, NEW m \in Nat
  PROVE  a * m <= b * m
OBVIOUS

\* Page u has an entry when fewer entries than that are in use.
LEMMA FoundBelow ==
  ASSUME NEW c \in Nat \ {0}, NEW n \in Nat, NEW m \in Nat \ {0}, n <= m,
         NEW k \in Nat, NEW i \in 0 .. m - 1, NEW u \in Nat, u = m * k + i
  PROVE  u < (c - 1) * m + n <=> \/ k < c - 1
                                 \/ k = c - 1 /\ i < n
<1>1. CASE k < c - 1
  <2>1. (k + 1) * m <= (c - 1) * m
    BY <1>1, TimesMonotone
  <2>2. (k + 1) * m = m * k + m
    OBVIOUS
  <2>3. (c - 1) * m \in Int
    OBVIOUS
  <2> QED
    BY <1>1, <2>1, <2>2, <2>3
<1>2. CASE k = c - 1
  <2>1. (c - 1) * m = m * k
    BY <1>2
  <2>2. (c - 1) * m \in Int
    OBVIOUS
  <2> QED
    BY <1>2, <2>1, <2>2
<1>3. CASE k > c - 1
  <2>1. (c - 1 + 1) * m <= k * m
    BY <1>3, TimesMonotone
  <2>2. (c - 1 + 1) * m = (c - 1) * m + m
    OBVIOUS
  <2>3. (c - 1) * m \in Int /\ k * m \in Int /\ k * m = m * k
    OBVIOUS
  <2> QED
    BY <1>3, <2>1, <2>2, <2>3
<1> QED
  BY <1>1, <1>2, <1>3

\* Switching moves no place, and the map of page u is loaded if it has an entry.
LEMMA Switched ==
  ASSUME Sane, NEW holes, NEW p, FileInv(p, holes), pgSz = Sz, NEW u \in Nat
  PROVE  LET q == SwitchPageMap(p, u, "none")
         IN /\ FileInv(q, holes) /\ SamePlaces(p, q)
            /\ q.mmTblCurrIx = IF MapNo(p, u) >= p.mmTblCurrCnt THEN p.mmTblCurrCnt - 1
                               ELSE MapNo(p, u)
            /\ MapNo(q, u) = MapNo(p, u) /\ EntryNo(q, u) = EntryNo(p, u)
            /\ Found(q, u) <=> u < NextPage(p)
            /\ q.uppPageFile = p.uppPageFile /\ q.lwrPageFile = p.lwrPageFile
            /\ SameBytes(p, q)
            /\ ~p.bPgMapDirty => /\ ~q.bPgMapDirty
                                 /\ q.map = p.map /\ q.bytes = p.bytes /\ q.nPage = p.nPage
<1> DEFINE ix == IF MapNo(p, u) >= p.mmTblCurrCnt THEN p.mmTblCurrCnt - 1 ELSE MapNo(p, u)
           s == SavePagemapData(p)
           q == SwitchPageMap(p, u, "none")
<1>1. p \in File /\ p.mmTblCurrCnt >= 1 /\ p.uppPgSz = Sz /\ p.nBytesPerPgMap = MapMax * Sz
  BY DEF FileInv, Geometry
<1>2. MapNo(p, u) \in Nat /\ EntryNo(p, u) \in MapIx /\ u = MapMax * MapNo(p, u) + EntryNo(p, u)
  BY <1>1, Address
<1>3. p.mmTblCurrCnt \in Nat \ {0} /\ p.pgMapCnt \in Nat /\ p.pgMapCnt <= MapMax /\ MapMax \in Nat \ {0}
  <2>1. MMMax \in Nat /\ MapMax \in Nat \ {0}
    BY Sizes
  <2> QED
    BY <1>1, <2>1 DEF File
<1>4. ix \in Maps(p)
  BY <1>2, <1>3 DEF Maps
<1>5. /\ FileInv(q, holes) /\ SamePlaces(p, q) /\ q.mmTblCurrIx = ix
      /\ q.uppPageFile = p.uppPageFile /\ q.lwrPageFile = p.lwrPageFile
      /\ SameBytes(p, q)
      /\ ~p.bPgMapDirty => /\ ~q.bPgMapDirty
                           /\ q.map = p.map /\ q.bytes = p.bytes /\ q.nPage = p.nPage
  <2>1. CASE ix = p.mmTblCurrIx
    <3>1. q = p
      BY <2>1 DEF SwitchPageMap
    <3> QED
      BY <2>1, <3>1 DEF SamePlaces, SameBytes
  <2>2. CASE ix # p.mmTblCurrIx
    <3> DEFINE l == LoadPagemapData(s, ix)
    <3>1. q = l
      BY <2>2 DEF SwitchPageMap
    <3>2. /\ FileInv(s, holes) /\ SamePlaces(p, s) /\ ~s.bPgMapDirty /\ s \in File
          /\ s.uppPageFile = p.uppPageFile /\ s.lwrPageFile = p.lwrPageFile
          /\ SameBytes(p, s)
          /\ ~p.bPgMapDirty => s = p
      BY Saved
    <3> HIDE DEF s
    <3>3. ix \in Maps(s)
      BY <1>4, <3>2 DEF Maps, SamePlaces
    <3> HIDE DEF ix
    <3>4. /\ FileInv(l, holes) /\ SamePlaces(s, l) /\ ~l.bPgMapDirty /\ l.mmTblCurrIx = ix
          /\ l.uppPageFile = s.uppPageFile /\ l.lwrPageFile = s.lwrPageFile
          /\ l.map = s.map /\ l.bytes = s.bytes /\ l.nPage = s.nPage
      BY <3>2, <3>3, LoadedPlaces
    <3> HIDE DEF l
    <3>5. SamePlaces(p, l)
      BY <3>2, <3>4 DEF SamePlaces, Maps, Used, MapCnt
    <3>6. SameBytes(p, l)
      BY <3>2, <3>4 DEF SameBytes, SamePlaces, OffMaps, Maps
    <3> QED
      BY <3>1, <3>2, <3>4, <3>5, <3>6
  <2> QED
    BY <2>1, <2>2
<1> HIDE DEF q
<1>6. MapNo(q, u) = MapNo(p, u) /\ EntryNo(q, u) = EntryNo(p, u)
  BY <1>5 DEF SamePlaces, MapNo, EntryNo
<1>7. Found(q, u) <=> u < NextPage(p)
  <2>1. Found(q, u) <=> MapNo(p, u) < p.mmTblCurrCnt /\ EntryNo(p, u) < MapCnt(p, ix)
    BY <1>5, <1>6 DEF Found, SamePlaces, MapCnt
  <2>2. u < NextPage(p) <=> \/ MapNo(p, u) < p.mmTblCurrCnt - 1
                            \/ MapNo(p, u) = p.mmTblCurrCnt - 1 /\ EntryNo(p, u) < p.pgMapCnt
    BY <1>2, <1>3, FoundBelow DEF NextPage, MapIx
  <2> DEFINE k == MapNo(p, u)
             i == EntryNo(p, u)
  <2>3. k \in Nat /\ i \in 0 .. MapMax - 1
    BY <1>2 DEF MapIx
  <2>4. ix = IF k >= p.mmTblCurrCnt THEN p.mmTblCurrCnt - 1 ELSE k
    OBVIOUS
  <2> HIDE DEF k, i, ix
  <2>5. k < p.mmTblCurrCnt /\ i < MapCnt(p, ix) <=> k < p.mmTblCurrCnt - 1 \/ (k = p.mmTblCurrCnt - 1 /\ i < p.pgMapCnt)
    BY <1>3, <2>3, <2>4 DEF MapCnt
  <2> QED
    BY <2>1, <2>2, <2>5 DEF k, i
<1> QED
  BY <1>5, <1>6, <1>7 DEF q

-----------------------------------------------------------------------------
(* Giving an entry a place.                                                *)

\* The space handed out reaches at least as far in q as in p.
Further(p, q) ==
  \/ q.currPgno > p.currPgno
  \/ q.currPgno = p.currPgno /\ q.currPageOfst >= p.currPageOfst

\* r is p with entry i of the map in memory set to e.
EntrySet(p, r, i, e) ==
  /\ r.mmTbl = p.mmTbl /\ r.mmTblCurrCnt = p.mmTblCurrCnt /\ r.mmTblCurrIx = p.mmTblCurrIx
  /\ r.map = p.map /\ r.bPgMapDirty
  /\ r.pBigEndianPgMap = [p.pBigEndianPgMap EXCEPT ![i] = e]
  /\ r.pPgMap = [p.pPgMap EXCEPT ![i] = e]

\* Setting an entry keeps the invariant if its place is below the frontier and
\* apart from the places of the others.
LEMMA EntrySetInv ==
  ASSUME Sane, NEW holes, NEW p, FileInv(p, holes), NEW more, NEW r \in File, NEW i \in MapIx, NEW e,
         p.mmTblCurrIx \in Maps(p), p.mmTblCurrIx # NotLoaded, EntrySet(p, r, i, e),
         \A k, j : Used(r, k, j) <=> Used(p, k, j) \/ (k = p.mmTblCurrIx /\ j = i),
         Geometry(r, more), Placed(r, e), Further(p, r),
         \A k \in Maps(p), j \in MapIx :
           Used(p, k, j) /\ <<k, j>> # <<p.mmTblCurrIx, i>> => Apart(e, EntryAt(p, k, j))
  PROVE  /\ FileInv(r, more)
         /\ EntryAt(r, p.mmTblCurrIx, i) = e
         /\ \A k \in Maps(p), j \in MapIx :
              <<k, j>> # <<p.mmTblCurrIx, i>> => EntryAt(r, k, j) = EntryAt(p, k, j)
<1> DEFINE ix == p.mmTblCurrIx
<1>1. p \in File /\ r \in File
  BY DEF FileInv
<1>2. p.pBigEndianPgMap \in [MapIx -> Entry] /\ p.pPgMap \in [MapIx -> Entry]
  BY <1>1 DEF File, Map
<1>3. Maps(r) = Maps(p)
  BY DEF EntrySet, Maps
<1>4. EntryAt(r, ix, i) = e
  BY <1>2 DEF EntrySet, EntryAt
<1>5. \A k \in Maps(p), j \in MapIx : <<k, j>> # <<ix, i>> => EntryAt(r, k, j) = EntryAt(p, k, j)
  BY <1>2 DEF EntrySet, EntryAt
<1>6. ASSUME NEW f \in Entry, Placed(p, f)
      PROVE  Placed(r, f)
  <2>1. MaxPgno \in Nat /\ U16 \in Nat /\ PageSize \in Nat
    BY SizesAssumption
  <2>2. f.lwrPgno \in 0 .. MaxPgno /\ f.cmprSz \in 0 .. PageSize /\ f.cmprOfst \in 0 .. U16 - 1
    BY DEF Entry
  <2>3. /\ p.currPgno \in 1 .. MaxPgno /\ r.currPgno \in 1 .. MaxPgno
        /\ p.currPageOfst \in 0 .. PageSize /\ r.currPageOfst \in 0 .. PageSize
    BY <1>1 DEF File, Pgno
  <2>4. \A k \in Maps(p) : r.mmTbl[k] = p.mmTbl[k]
    BY DEF EntrySet
  <2> QED
    BY <1>3, <1>6, <2>1, <2>2, <2>3, <2>4 DEF Placed, Further
<1>7. \A k \in Maps(p), j \in MapIx : Used(p, k, j) => EntryAt(p, k, j) \in Entry
  BY EntryType
<1>8. AllPlaced(r)
  <2> SUFFICES ASSUME NEW k \in Maps(p), NEW j \in MapIx, Used(r, k, j)
               PROVE  Placed(r, EntryAt(r, k, j))
    BY <1>3 DEF AllPlaced
  <2>1. CASE <<k, j>> = <<ix, i>>
    BY <1>4, <2>1
  <2>2. CASE <<k, j>> # <<ix, i>>
    <3>1. Used(p, k, j)
      BY <2>2
    <3>2. Placed(p, EntryAt(p, k, j))
      BY <3>1 DEF FileInv, AllPlaced
    <3> QED
      BY <1>5, <1>6, <1>7, <2>2, <3>1, <3>2
  <2> QED
    BY <2>1, <2>2
<1>9. AllApart(r)
  <2> SUFFICES ASSUME NEW k \in Maps(p), NEW l \in Maps(p), NEW j \in MapIx, NEW m \in MapIx,
                      Used(r, k, j), Used(r, l, m), <<k, j>> # <<l, m>>
               PROVE  Apart(EntryAt(r, k, j), EntryAt(r, l, m))
    BY <1>3 DEF AllApart
  <2>0. \A f, g : Apart(f, g) => Apart(g, f)
    BY DEF Apart
  <2>1. CASE <<k, j>> = <<ix, i>>
    <3>1. <<l, m>> # <<ix, i>> /\ Used(p, l, m)
      BY <2>1
    <3>2. Apart(e, EntryAt(p, l, m))
      BY <3>1
    <3> QED
      BY <1>4, <1>5, <2>1, <3>1, <3>2
  <2>2. CASE <<l, m>> = <<ix, i>>
    <3>1. <<k, j>> # <<ix, i>> /\ Used(p, k, j)
      BY <2>2
    <3>2. Apart(e, EntryAt(p, k, j))
      BY <3>1
    <3> QED
      BY <1>4, <1>5, <2>0, <2>2, <3>1, <3>2
  <2>3. CASE <<k, j>> # <<ix, i>> /\ <<l, m>> # <<ix, i>>
    <3>1. Used(p, k, j) /\ Used(p, l, m)
      BY <2>3
    <3>2. Apart(EntryAt(p, k, j), EntryAt(p, l, m))
      BY <3>1 DEF FileInv, AllApart
    <3> QED
      BY <1>5, <2>3, <3>2
  <2> QED
    BY <2>1, <2>2, <2>3
<1>10. Loaded(r)
  <2>1. r.mmTblCurrIx = ix /\ ix \in Maps(r) /\ ix # NotLoaded /\ r.bPgMapDirty
    BY <1>3 DEF EntrySet
  <2>2. \A j \in MapIx : Used(r, ix, j) =>
           \/ r.pPgMap[j] = r.pBigEndianPgMap[j]
           \/ r.pPgMap[j] = NoEntry /\ r.pBigEndianPgMap[j].cmprSz = 0
    <3> TAKE j \in MapIx
    <3>1. CASE j = i
      BY <1>2, <3>1 DEF EntrySet
    <3>2. CASE j # i
      <4>1. Used(r, ix, j) => Used(p, ix, j)
        BY <3>2
      <4>2. r.pPgMap[j] = p.pPgMap[j] /\ r.pBigEndianPgMap[j] = p.pBigEndianPgMap[j]
        BY <1>2, <3>2 DEF EntrySet
      <4> QED
        BY <4>1, <4>2 DEF FileInv, Loaded
    <3> QED
      BY <3>1, <3>2
  <2> QED
    BY <2>1, <2>2 DEF Loaded
<1> QED
  BY <1>4, <1>5, <1>8, <1>9, <1>10 DEF FileInv

\* Giving entry i of the map in memory a place of sz bytes at the frontier: the
\* entry is one in use, or the first one that is not.
LEMMA Allocated ==
  ASSUME Sane, NEW holes \in 0 .. MaxHole, NEW p, FileInv(p, holes), p.currPgno + 2 <= MaxPgno,
         NEW n \in 0 .. MapMax, NEW i \in MapIx, NEW sz \in {0} \cup (Least .. PageSize),
         p.mmTblCurrIx \in Maps(p),
         \/ n = p.pgMapCnt /\ i < MapCnt(p, p.mmTblCurrIx) /\ sz # 0
         \/ n = p.pgMapCnt + 1 /\ i = p.pgMapCnt /\ p.mmTblCurrIx = p.mmTblCurrCnt - 1
  PROVE  LET r == AllocCmpPageSpace([p EXCEPT !.pgMapCnt = n], sz, i)
             e == EntryAt(r, p.mmTblCurrIx, i)
         IN /\ FileInv(r, IF sz = 0 THEN holes + 1 ELSE 0)
            /\ r.pgMapCnt = n /\ r.mmTblCurrIx = p.mmTblCurrIx
            /\ r.mmTblCurrCnt = p.mmTblCurrCnt /\ r.mmTbl = p.mmTbl
            /\ r.map = p.map /\ r.bytes = p.bytes /\ r.bPgMapDirty
            /\ r.uppPageFile = p.uppPageFile /\ r.lwrPageFile = p.lwrPageFile
            /\ Further(p, r) /\ (sz = 0 => r.currPgno = p.currPgno)
            /\ e.cmprSz = sz /\ r.pPgMap[i] = e
            /\ \A k \in Maps(p), j \in MapIx :
                 <<k, j>> # <<p.mmTblCurrIx, i>> => EntryAt(r, k, j) = EntryAt(p, k, j)
<1> DEFINE ix   == p.mmTblCurrIx
           ofst == (p.currPageOfst + sz) % U16
           pg   == NextDataPgno(p)
           fits == p.currPageOfst + sz <= PageSize
           npg  == IF fits THEN p.currPgno ELSE pg
           nof  == IF fits THEN p.currPageOfst + sz ELSE sz
           e    == [lwrPgno |-> npg, cmprSz |-> sz, cmprOfst |-> IF fits THEN p.currPageOfst ELSE 0]
           r    == [p EXCEPT !.pgMapCnt = n, !.currPageOfst = nof, !.currPgno = npg,
                             !.pPgMap[i] = e, !.pBigEndianPgMap[i] = e, !.bPgMapDirty = TRUE]
<1>1. /\ p \in File /\ p.mmTblCurrCnt >= 1 /\ ix # NotLoaded
      /\ p.mmTblCurrCnt - 1 \in Maps(p) /\ LastMap(p) \in Pgno /\ LastMap(p) \in 2 .. p.currPgno + 1
      /\ p.currPgno >= 3
  <2>1. p \in File /\ p.mmTblCurrCnt >= 1 /\ p.currPgno >= 3
    BY DEF FileInv, Geometry
  <2>2. p.mmTblCurrCnt - 1 \in Maps(p) /\ ix # NotLoaded
    BY <2>1, MapsOf
  <2> QED
    BY <2>1, <2>2, MapPgnos DEF FileInv, Geometry, LastMap
<1>2. /\ PageSize \in Nat /\ EntrySz \in Nat \ {0} /\ MaxHole \in Nat /\ MaxPgno \in Nat
      /\ Least = MaxHole * EntrySz + EntrySz /\ Least \in Nat \ {0} /\ MapMax \in Nat \ {0}
      /\ U16 \in Nat /\ PageSize + PageSize < U16 /\ sz \in 0 .. PageSize
  BY Sizes
<1>3. p.currPgno \in 1 .. MaxPgno /\ p.currPageOfst \in 0 .. PageSize
  BY <1>1 DEF File, Pgno
<1>4. pg \in Pgno /\ pg > p.currPgno /\ pg > LastMap(p)
  <2>1. LastMap(p) \in 1 .. MaxPgno /\ LastMap(p) <= p.currPgno + 1
    BY <1>1, <1>3 DEF Pgno
  <2>2. pg = IF p.currPgno <= LastMap(p) THEN LastMap(p) + 1 ELSE p.currPgno + 1
    BY DEF NextDataPgno, LastMap
  <2> QED
    BY <1>2, <1>3, <2>1, <2>2 DEF Pgno
<1>5. ofst = p.currPageOfst + sz
  BY <1>2, <1>3
<1>6. npg \in Pgno /\ nof \in 0 .. PageSize /\ e \in Entry
  <2> HIDE DEF pg
  <2>1. npg \in 1 .. MaxPgno
    BY <1>3, <1>4 DEF Pgno
  <2>2. nof \in 0 .. PageSize
    BY <1>2, <1>3
  <2> HIDE DEF npg
  <2>3. e \in Entry
    BY <1>2, <1>3, <2>1 DEF Entry
  <2> QED
    BY <2>1, <2>2, <2>3 DEF Pgno
<1>7. AllocCmpPageSpace([p EXCEPT !.pgMapCnt = n], sz, i) = r
  <2> DEFINE w == [p EXCEPT !.pgMapCnt = n]
             x == [w EXCEPT !.currPageOfst = nof, !.currPgno = npg]
  <2>1. w.currPageOfst = p.currPageOfst /\ w.currPgno = p.currPgno /\ NextDataPgno(w) = pg
    BY <1>1 DEF File, NextDataPgno
  <2>2. x.currPgno = npg
    BY <1>1 DEF File
  <2>3. SetEntry(x, i, e) = r
    BY <1>1 DEF SetEntry, File
  <2>4. x.currPgno = npg /\ e = [lwrPgno |-> x.currPgno, cmprSz |-> sz,
                                 cmprOfst |-> IF Fits(ofst) THEN w.currPageOfst ELSE 0]
    BY <1>5, <2>1, <2>2 DEF Fits
  <2> HIDE DEF e, r, pg
  <2>5. x = IF Fits(ofst) THEN [w EXCEPT !.currPageOfst = ofst]
            ELSE [w EXCEPT !.currPageOfst = sz, !.currPgno = NextDataPgno(w)]
    BY <1>1, <1>5, <2>1 DEF File, Fits
  <2>6. (w.currPageOfst + sz) % U16 = ofst
    BY <2>1
  <2> HIDE DEF x, w, ofst
  <2>7. AllocCmpPageSpace(w, sz, i) = r
    BY <2>3, <2>4, <2>5, <2>6 DEF AllocCmpPageSpace
  <2> QED
    BY <2>7 DEF w
<1> HIDE DEF pg, ofst
<1>8. r \in File /\ EntrySet(p, r, i, e)
  <2> HIDE DEF e, npg, nof
  <2>1. r \in File
    BY <1>1, <1>6 DEF File, Map
  <2>2. EntrySet(p, r, i, e)
    BY <1>1 DEF File, EntrySet
  <2> QED
    BY <2>1, <2>2
<1>9. /\ r.currPgno = npg /\ r.currPageOfst = nof /\ r.pgMapCnt = n
      /\ r.mmTblCurrIx = p.mmTblCurrIx /\ r.mmTblCurrCnt = p.mmTblCurrCnt /\ r.mmTbl = p.mmTbl
      /\ r.map = p.map /\ r.bytes = p.bytes /\ r.bPgMapDirty
      /\ r.uppPageFile = p.uppPageFile /\ r.lwrPageFile = p.lwrPageFile
      /\ r.uppPgSz = p.uppPgSz /\ r.nBytesPerPgMap = p.nBytesPerPgMap
      /\ r.pPgMap[i] = e
  BY <1>1 DEF File, Map
<1> HIDE DEF r
<1>10. Maps(r) = Maps(p) /\ LastMap(r) = LastMap(p)
  BY <1>9 DEF Maps, LastMap
<1>11. \A k, j : Used(r, k, j) <=> Used(p, k, j) \/ (k = ix /\ j = i)
  <2>1. p.pgMapCnt \in 0 .. MapMax /\ p.mmTblCurrCnt \in Nat
    BY <1>1, <1>2, Sizes DEF File
  <2>2. MapIx \subseteq Nat
    BY <1>2 DEF MapIx
  <2>3. CASE n = p.pgMapCnt /\ i < MapCnt(p, ix)
    BY <1>9, <1>10, <2>3 DEF Used, MapCnt
  <2>4. CASE n = p.pgMapCnt + 1 /\ i = p.pgMapCnt /\ ix = p.mmTblCurrCnt - 1
    <3>1. \A k, j : k # ix => (Used(r, k, j) <=> Used(p, k, j))
      BY <1>9, <1>10, <2>4 DEF Used, MapCnt
    <3>2. MapCnt(r, ix) = p.pgMapCnt + 1 /\ MapCnt(p, ix) = p.pgMapCnt
      BY <1>9, <2>4 DEF MapCnt
    <3>3. \A j \in MapIx : j < p.pgMapCnt + 1 <=> j < p.pgMapCnt \/ j = i
      BY <2>1, <2>2, <2>4
    <3>4. \A j : Used(r, ix, j) <=> Used(p, ix, j) \/ j = i
      BY <1>10, <3>2, <3>3 DEF Used
    <3> QED
      BY <3>1, <3>4
  <2> QED
    BY <2>3, <2>4
<1>12. Further(p, r)
  BY <1>3, <1>4, <1>6, <1>2, <1>9 DEF Further
<1>13. Geometry(r, IF sz = 0 THEN holes + 1 ELSE 0)
  <2> DEFINE more == IF sz = 0 THEN holes + 1 ELSE 0
  <2>1. /\ p.uppPgSz = Sz /\ p.nBytesPerPgMap = MapMax * Sz
        /\ \A k \in Maps(p) : p.mmTbl[k] \in 2 .. p.currPgno + 1 /\ p.mmTbl[k] # p.currPgno
        /\ \A k \in Maps(p) : k < p.mmTblCurrCnt - 1 => p.mmTbl[k] < p.currPgno
        /\ \A j, k \in Maps(p) : j # k => p.mmTbl[j] # p.mmTbl[k]
        /\ LastMap(p) > p.currPgno =>
             p.currPageOfst + holes * EntrySz >= p.pgMapCnt * EntrySz + Least
        /\ p.currPageOfst >= Least \/ (p.mmTblCurrCnt = 1 /\ p.pgMapCnt <= holes)
    BY DEF FileInv, Geometry
  <2>2. npg >= p.currPgno /\ (npg = p.currPgno <=> fits) /\ npg \in Nat
    BY <1>3, <1>4, <1>6 DEF Pgno
  <2>3. \A k \in Maps(p) : k <= p.mmTblCurrCnt - 1 /\ k \in Nat /\ p.mmTblCurrCnt \in Nat
    BY <1>1, <1>2, Sizes DEF File, Maps
  <2>4. \A k \in Maps(p) : p.mmTbl[k] \in 2 .. npg + 1 /\ p.mmTbl[k] # npg
    <3> TAKE k \in Maps(p)
    <3>1. CASE fits
      BY <2>1, <2>2, <3>1
    <3>2. CASE ~fits
      <4>1. npg = pg
        BY <3>2
      <4>2. p.mmTbl[k] < pg
        <5>1. k = p.mmTblCurrCnt - 1 => p.mmTbl[k] = LastMap(p)
          BY DEF LastMap
        <5>2. k < p.mmTblCurrCnt - 1 \/ k = p.mmTblCurrCnt - 1
          BY <2>3
        <5>3. p.mmTbl[k] \in Int /\ pg \in Int /\ LastMap(p) \in Int
          BY <1>3, <1>1, <1>4, <2>1 DEF Pgno
        <5> QED
          BY <1>3, <1>4, <2>1, <5>1, <5>2, <5>3
      <4> QED
        BY <1>4, <2>1, <4>1, <4>2 DEF Pgno
    <3> QED
      BY <3>1, <3>2
  <2>5. \A k \in Maps(p) : k < p.mmTblCurrCnt - 1 => p.mmTbl[k] < npg
    BY <1>3, <2>1, <2>2
  <2>6. LastMap(p) > npg => nof + more * EntrySz >= n * EntrySz + Least
    <3> SUFFICES ASSUME LastMap(p) > npg
                 PROVE  nof + more * EntrySz >= n * EntrySz + Least
      OBVIOUS
    <3>1. fits /\ npg = p.currPgno
      BY <1>1, <1>3, <1>4, <2>2 DEF Pgno
    <3>2. p.currPageOfst + holes * EntrySz >= p.pgMapCnt * EntrySz + Least
      BY <2>1, <3>1
    <3>3. nof = p.currPageOfst + sz
      BY <3>1
    <3>4. p.pgMapCnt \in Nat /\ holes \in 0 .. MaxHole /\ n <= p.pgMapCnt + 1 /\ n \in Nat
      BY <1>1, <1>2 DEF File
    <3>5. n * EntrySz <= (p.pgMapCnt + 1) * EntrySz /\ holes * EntrySz <= MaxHole * EntrySz
      BY <1>2, <3>4, TimesMonotone
    <3>6. (p.pgMapCnt + 1) * EntrySz = p.pgMapCnt * EntrySz + EntrySz
      BY <1>2, <3>4
    <3> DEFINE a == p.pgMapCnt * EntrySz
               b == n * EntrySz
               c == holes * EntrySz
               d == MaxHole * EntrySz
    <3>7. a \in Int /\ b \in Int /\ c \in Int /\ d \in Int
      BY <1>2, <3>4
    <3>8. p.currPageOfst + c >= a + Least /\ b <= a + EntrySz /\ c <= d /\ Least = d + EntrySz
      BY <1>2, <3>2, <3>5, <3>6
    <3>9. CASE sz = 0
      <4>1. more * EntrySz = c + EntrySz
        BY <1>2, <3>4, <3>9
      <4> HIDE DEF a, b, c, d
      <4>2. nof + (c + EntrySz) >= b + Least
        BY <1>2, <1>3, <3>3, <3>7, <3>8, <3>9
      <4> QED
        BY <4>1, <4>2 DEF b
    <3>10. CASE sz # 0
      <4>1. more * EntrySz = 0 /\ sz >= Least
        BY <1>2, <3>4, <3>10
      <4> HIDE DEF a, b, c, d
      <4>2. nof + 0 >= b + Least
        BY <1>2, <1>3, <3>3, <3>7, <3>8, <4>1
      <4> QED
        BY <4>1, <4>2 DEF b
    <3> QED
      BY <3>9, <3>10
  <2>7. nof >= Least \/ (p.mmTblCurrCnt = 1 /\ n <= more)
    <3>1. CASE sz # 0
      BY <1>2, <1>3, <3>1
    <3>2. CASE sz = 0
      <4>1. n <= p.pgMapCnt + 1 /\ p.pgMapCnt \in Nat /\ nof = p.currPageOfst /\ more = holes + 1
        BY <1>1, <1>2, <1>3, <3>2 DEF File
      <4> QED
        BY <1>2, <1>3, <2>1, <4>1
    <3> QED
      BY <3>1, <3>2
  <2> HIDE DEF more, npg, nof
  <2>8. npg >= 3
    BY <1>1, <1>3, <2>2
  <2> QED
    BY <1>1, <1>9, <1>10, <2>1, <2>4, <2>5, <2>6, <2>7, <2>8 DEF Geometry, more
<1>14. Placed(r, e)
  <2>1. e.lwrPgno = npg /\ e.cmprSz = sz /\ e.cmprOfst = IF fits THEN p.currPageOfst ELSE 0
    OBVIOUS
  <2>2. npg >= 3 /\ npg \in Nat
    BY <1>1, <1>3, <1>4, <1>6 DEF Pgno
  <2>3. e.cmprOfst + sz <= PageSize /\ e.cmprOfst + sz <= nof
    BY <1>2, <1>3, <2>1
  <2>4. \A k \in Maps(p) : r.mmTbl[k] # npg
    BY <1>9, <1>10, <1>13 DEF Geometry
  <2> HIDE DEF e, npg, nof
  <2> QED
    BY <1>9, <1>10, <2>1, <2>2, <2>3, <2>4 DEF Placed
<1>15. \A k \in Maps(p), j \in MapIx :
         Used(p, k, j) /\ <<k, j>> # <<ix, i>> => Apart(e, EntryAt(p, k, j))
  <2> TAKE k \in Maps(p), j \in MapIx
  <2> DEFINE f == EntryAt(p, k, j)
  <2>1. f \in Entry
    BY EntryType
  <2>2. Used(p, k, j) => Placed(p, f)
    BY DEF FileInv, AllPlaced
  <2> HIDE DEF f
  <2>3. f.lwrPgno \in 0 .. MaxPgno /\ f.cmprSz \in 0 .. PageSize /\ f.cmprOfst \in 0 .. U16 - 1
    BY <2>1 DEF Entry
  <2>4. Placed(p, f) => Apart(e, f)
    <3>1. CASE fits
      <4>1. e.lwrPgno = p.currPgno /\ e.cmprOfst = p.currPageOfst
        BY <3>1
      <4> HIDE DEF e
      <4> QED
        BY <1>2, <1>3, <2>3, <4>1 DEF Placed, Apart
    <3>2. CASE ~fits
      <4>1. e.lwrPgno = pg
        BY <3>2
      <4> HIDE DEF e
      <4> QED
        BY <1>2, <1>3, <1>4, <2>3, <4>1 DEF Placed, Apart, Pgno
    <3> QED
      BY <3>1, <3>2
  <2> QED
    BY <2>2, <2>4 DEF f
<1>16. /\ FileInv(r, IF sz = 0 THEN holes + 1 ELSE 0)
       /\ EntryAt(r, ix, i) = e
       /\ \A k \in Maps(p), j \in MapIx :
            <<k, j>> # <<ix, i>> => EntryAt(r, k, j) = EntryAt(p, k, j)
  <2> HIDE DEF e
  <2> QED
    BY <1>1, <1>8, <1>11, <1>12, <1>13, <1>14, <1>15, EntrySetInv
<1>17. sz = 0 => r.currPgno = p.currPgno
  BY <1>3, <1>9
<1>18. e.cmprSz = sz
  OBVIOUS
<1> HIDE DEF e
<1> QED
  BY <1>7, <1>9, <1>12, <1>16, <1>17, <1>18

-----------------------------------------------------------------------------
(* Adding entries.  Pages are named by their number in what follows.       *)

Place(p, v) == EntryAt(p, v \div MapMax, v % MapMax)

\* The entries in use are those of the pages before the next one.
LEMMA UsedBelow ==
  ASSUME Sane, NEW p \in File, p.mmTblCurrCnt >= 1
  PROVE  /\ NextPage(p) \in Nat
         /\ \A v \in Nat : v < NextPage(p) <=> Used(p, v \div MapMax, v % MapMax)
<1>1. MMMax \in Nat /\ MapMax \in Nat \ {0}
  BY Sizes
<1>2. /\ p.mmTblCurrCnt \in Nat \ {0} /\ p.pgMapCnt \in 0 .. MapMax
      /\ p.pgMapCnt \in Nat /\ p.pgMapCnt <= MapMax
  BY <1>1 DEF File
<1>3. NextPage(p) \in Nat
  <2>1. (p.mmTblCurrCnt - 1) * MapMax \in Nat
    BY <1>1, <1>2
  <2> QED
    BY <1>2, <2>1 DEF NextPage
<1>4. ASSUME NEW v \in Nat
      PROVE  v < NextPage(p) <=> Used(p, v \div MapMax, v % MapMax)
  <2> DEFINE k == v \div MapMax
             i == v % MapMax
  <2>1. k \in Nat /\ i \in 0 .. MapMax - 1 /\ v = MapMax * k + i
    BY <1>1, DivMod
  <2> HIDE DEF k, i
  <2>2. v < NextPage(p) <=> \/ k < p.mmTblCurrCnt - 1
                            \/ k = p.mmTblCurrCnt - 1 /\ i < p.pgMapCnt
    BY <1>1, <1>2, <2>1, FoundBelow DEF NextPage
  <2>3. Used(p, k, i) <=> \/ k < p.mmTblCurrCnt - 1
                          \/ k = p.mmTblCurrCnt - 1 /\ i < p.pgMapCnt
    BY <1>1, <1>2, <2>1 DEF Used, Maps, MapIx, MapCnt
  <2> QED
    BY <2>2, <2>3 DEF k, i
<1> QED
  BY <1>3, <1>4

\* Quotient and remainder of a page number name its map and entry.
LEMMA Names ==
  ASSUME Sane
  PROVE  /\ \A v \in Nat : v \div MapMax \in Nat /\ v % MapMax \in MapIx
         /\ \A v, u \in Nat : v # u => <<v \div MapMax, v % MapMax>> # <<u \div MapMax, u % MapMax>>
         /\ \A k \in Nat, i \in MapIx : MapMax * k + i \in Nat /\ (MapMax * k + i) \div MapMax = k
                                        /\ (MapMax * k + i) % MapMax = i
<1>1. MapMax \in Nat \ {0}
  BY Sizes
<1>2. \A v \in Nat : v \div MapMax \in Nat /\ v % MapMax \in MapIx
                     /\ v = MapMax * (v \div MapMax) + (v % MapMax)
  BY <1>1, DivMod DEF MapIx
<1>3. ASSUME NEW v \in Nat, NEW u \in Nat, v # u
      PROVE  <<v \div MapMax, v % MapMax>> # <<u \div MapMax, u % MapMax>>
  <2> DEFINE k == v \div MapMax
             i == v % MapMax
             l == u \div MapMax
             j == u % MapMax
  <2>1. v = MapMax * k + i /\ u = MapMax * l + j
    BY <1>2
  <2> HIDE DEF k, i, l, j
  <2>2. <<k, i>> # <<l, j>>
    BY <1>3, <2>1
  <2> QED
    BY <2>2 DEF k, i, l, j
<1>4. ASSUME NEW k \in Nat, NEW i \in MapIx
      PROVE  MapMax * k + i \in Nat /\ (MapMax * k + i) \div MapMax = k /\ (MapMax * k + i) % MapMax = i
  <2>1. i \in 0 .. MapMax - 1 /\ MapMax * k \in Nat
    BY <1>1 DEF MapIx
  <2> DEFINE u == MapMax * k + i
  <2>2. u \in Nat /\ u = MapMax * k + i
    BY <1>1, <2>1
  <2> HIDE DEF u
  <2>3. u \div MapMax = k /\ u % MapMax = i
    BY <1>1, <2>1, <2>2, DivUnique
  <2> QED
    BY <2>2, <2>3
<1> QED
  BY <1>2, <1>3, <1>4

\* q has the entries of p, and perhaps more after them.
Extends(p, q) ==
  /\ NextPage(q) >= NextPage(p)
  /\ \A v \in Nat : v < NextPage(p) => Place(q, v) = Place(p, v)
  /\ SameBytes(p, q) /\ Further(p, q)
  /\ q.uppPageFile = p.uppPageFile /\ q.lwrPageFile = p.lwrPageFile

\* A file extends itself.
LEMMA ExtendsSelf ==
  ASSUME NEW p \in File, NextPage(p) \in Nat
  PROVE  Extends(p, p)
<1>1. SameBytes(p, p)
  BY DEF SameBytes
<1>2. p.currPageOfst \in Nat
  BY SizesAssumption DEF File
<1>3. Further(p, p)
  BY <1>2 DEF Further
<1>4. NextPage(p) >= NextPage(p)
  OBVIOUS
<1> QED
  BY <1>1, <1>3, <1>4 DEF Extends

\* Extending is transitive.
LEMMA ExtendsTransitive ==
  ASSUME NEW p \in File, NEW q \in File, NEW r \in File,
         NextPage(p) \in Nat, NextPage(q) \in Nat, NextPage(r) \in Nat,
         Extends(p, q), Extends(q, r)
  PROVE  Extends(p, r)
<1>1. SameBytes(p, r)
  BY DEF Extends, SameBytes
<1>2. \A x \in File : x.currPageOfst \in Nat /\ x.currPgno \in Nat
  <2>1. PageSize \in Nat /\ MaxPgno \in Nat
    BY SizesAssumption
  <2> TAKE x \in File
  <2>2. x.currPageOfst \in 0 .. PageSize /\ x.currPgno \in 1 .. MaxPgno
    BY DEF File, Pgno
  <2> QED
    BY <2>1, <2>2
<1>3. Further(p, r)
  BY <1>2 DEF Extends, Further
<1>4. \A v \in Nat : v < NextPage(p) => Place(r, v) = Place(p, v)
  BY DEF Extends
<1> QED
  BY <1>1, <1>3, <1>4 DEF Extends

\* A full map makes room for a new one.
LEMMA MapAdded ==
  ASSUME Sane, NEW holes \in 0 .. MaxHole, NEW p, FileInv(p, holes), p.currPgno + 2 <= MaxPgno,
         p.mmTblCurrIx = p.mmTblCurrCnt - 1, p.pgMapCnt = MapMax, p.mmTblCurrCnt <= MMMax,
         Least <= PageSize
  PROVE  LET r == [p EXCEPT !.mmTbl[p.mmTblCurrCnt] = p.currPgno + 1, !.mmTblCurrCnt = @ + 1,
                            !.pgMapCnt = 0]
         IN /\ FileInv(r, holes) /\ SameBytes(p, r) /\ NextPage(r) = NextPage(p)
            /\ \A k \in Maps(p), i \in MapIx : EntryAt(r, k, i) = EntryAt(p, k, i)
<1> DEFINE c == p.mmTblCurrCnt
           r == [p EXCEPT !.mmTbl[c] = p.currPgno + 1, !.mmTblCurrCnt = @ + 1, !.pgMapCnt = 0]
<1>1. p \in File /\ c >= 1
  BY DEF FileInv, Geometry
<1>2. /\ MMMax \in Nat /\ MapMax \in Nat \ {0} /\ MaxPgno \in Nat /\ EntrySz \in Nat \ {0}
      /\ PageSize \in Nat /\ PageSize < (MapMax + 1) * EntrySz
      /\ Least = MaxHole * EntrySz + EntrySz /\ Least \in Nat \ {0} /\ MaxHole \in Nat
  BY Sizes
<1>3. /\ c \in 1 .. MMMax /\ p.currPgno \in 1 .. MaxPgno /\ p.currPageOfst \in 0 .. PageSize
      /\ p.mmTbl \in [TblIx -> 0 .. MaxPgno]
  BY <1>1, <1>2 DEF File, Pgno
<1>4. c \in TblIx /\ p.currPgno + 1 \in 0 .. MaxPgno /\ p.currPgno >= 3
  <2>1. p.currPgno >= 3
    BY DEF FileInv, Geometry
  <2>2. c \in TblIx
    BY <1>2, <1>3 DEF TblIx
  <2>3. p.currPgno + 1 \in 0 .. MaxPgno
    BY <1>2, <1>3
  <2> QED
    BY <2>1, <2>2, <2>3
<1>5. r \in File
  <2> DEFINE x == p.currPgno + 1
             y == [p.mmTbl EXCEPT ![c] = x]
  <2>1. x \in 0 .. MaxPgno
    BY <1>4
  <2> HIDE DEF x
  <2>2. y \in [TblIx -> 0 .. MaxPgno]
    BY <1>3, <1>4, <2>1
  <2>3. p.mmTblCurrCnt + 1 \in 0 .. MMMax + 1 /\ 0 \in 0 .. MapMax
    BY <1>2, <1>3
  <2>4. r = [p EXCEPT !.mmTbl = y, !.mmTblCurrCnt = p.mmTblCurrCnt + 1, !.pgMapCnt = 0]
    BY <1>1 DEF File, x
  <2> HIDE DEF y, r
  <2> QED
    BY <1>1, <2>2, <2>3, <2>4 DEF File
<1>6. /\ r.currPgno = p.currPgno /\ r.currPageOfst = p.currPageOfst
      /\ r.pgMapCnt = 0 /\ r.mmTblCurrCnt = c + 1
      /\ r.mmTbl = [p.mmTbl EXCEPT ![c] = p.currPgno + 1]
      /\ r.uppPgSz = p.uppPgSz /\ r.nBytesPerPgMap = p.nBytesPerPgMap
      /\ r.mmTblCurrIx = p.mmTblCurrIx /\ r.bPgMapDirty = p.bPgMapDirty
      /\ r.pPgMap = p.pPgMap /\ r.pBigEndianPgMap = p.pBigEndianPgMap
      /\ r.map = p.map /\ r.bytes = p.bytes
  BY <1>1 DEF File
<1> HIDE DEF r
<1>7. Maps(p) = 0 .. c - 1 /\ Maps(r) = 0 .. c /\ c - 1 \in Maps(p) /\ c \notin Maps(p)
  BY <1>3, <1>6 DEF Maps
<1>8. \A k \in Maps(p) : r.mmTbl[k] = p.mmTbl[k]
  <2>1. \A k \in 0 .. c - 1 : k \in TblIx /\ k # c
    BY <1>2, <1>3 DEF TblIx
  <2> QED
    BY <1>3, <1>6, <1>7, <2>1
<1>9. r.mmTbl[c] = p.currPgno + 1 /\ LastMap(r) = p.currPgno + 1
  <2>1. r.mmTbl[c] = p.currPgno + 1
    BY <1>3, <1>4, <1>6
  <2>2. r.mmTblCurrCnt - 1 = c
    BY <1>3, <1>6
  <2> QED
    BY <2>1, <2>2 DEF LastMap
<1>10. \A k, i : Used(r, k, i) <=> Used(p, k, i)
  <2>1. \A k \in Maps(p) : MapCnt(r, k) = MapMax /\ MapCnt(p, k) = MapMax
    BY <1>3, <1>6, <1>7 DEF MapCnt
  <2>2. MapCnt(r, c) = 0
    BY <1>3, <1>6 DEF MapCnt
  <2>3. \A i \in MapIx : ~(i < 0)
    BY <1>2 DEF MapIx
  <2> QED
    BY <1>3, <1>7, <2>1, <2>2, <2>3 DEF Used
<1>11. \A k \in Maps(p), i \in MapIx : EntryAt(r, k, i) = EntryAt(p, k, i)
  BY <1>6, <1>8 DEF EntryAt
<1>12. LastMap(p) < p.currPgno
  <2>1. LastMap(p) # p.currPgno /\ LastMap(p) \in Int
    BY <1>7, <1>3 DEF FileInv, Geometry, LastMap
  <2>2. ASSUME LastMap(p) > p.currPgno
        PROVE  FALSE
    <3>1. p.currPageOfst + holes * EntrySz >= MapMax * EntrySz + Least
      BY <2>2 DEF FileInv, Geometry
    <3>2. holes * EntrySz <= MaxHole * EntrySz
      BY <1>2, TimesMonotone
    <3>3. (MapMax + 1) * EntrySz = MapMax * EntrySz + EntrySz
      BY <1>2
    <3> DEFINE a == MapMax * EntrySz
               b == holes * EntrySz
               d == MaxHole * EntrySz
    <3>4. a \in Int /\ b \in Int /\ d \in Int
      BY <1>2
    <3>5. p.currPageOfst + b >= a + Least /\ b <= d /\ PageSize < a + EntrySz /\ Least = d + EntrySz
      BY <1>2, <3>1, <3>2, <3>3
    <3> HIDE DEF a, b, d
    <3> QED
      BY <1>2, <1>3, <3>4, <3>5
  <2> QED
    BY <1>3, <2>1, <2>2
<1>13. \A k \in Maps(p) : p.mmTbl[k] < p.currPgno /\ p.mmTbl[k] \in 2 .. p.currPgno + 1
  BY <1>3, <1>7, <1>12 DEF FileInv, Geometry, LastMap
<1>14. p.currPageOfst >= Least
  <2>1. ASSUME MapMax <= holes
        PROVE  FALSE
    <3>1. (MapMax + 1) * EntrySz <= (MaxHole + 1) * EntrySz
      BY <1>2, <2>1, TimesMonotone
    <3>2. (MaxHole + 1) * EntrySz = Least
      BY <1>2
    <3>3. (MapMax + 1) * EntrySz \in Int
      BY <1>2
    <3> QED
      BY <1>2, <3>1, <3>2, <3>3
  <2> QED
    BY <2>1 DEF FileInv, Geometry
<1>15. Geometry(r, holes)
  <2>1. \A k \in Maps(r) : k \in Maps(p) \/ k = c
    BY <1>3, <1>7
  <2>2. \A k \in Maps(r) : r.mmTbl[k] \in 2 .. p.currPgno + 1 /\ r.mmTbl[k] # p.currPgno
    BY <1>3, <1>8, <1>9, <1>13, <2>1
  <2>3. \A k \in Maps(r) : k < r.mmTblCurrCnt - 1 => r.mmTbl[k] < p.currPgno
    BY <1>3, <1>6, <1>8, <1>13, <2>1
  <2>4. \A j, k \in Maps(r) : j # k => r.mmTbl[j] # r.mmTbl[k]
    BY <1>3, <1>8, <1>9, <1>13, <2>1 DEF FileInv, Geometry
  <2>5. r.currPageOfst + holes * EntrySz >= r.pgMapCnt * EntrySz + Least
    <3>1. holes * EntrySz \in Nat /\ 0 * EntrySz = 0
      BY <1>2
    <3> QED
      BY <1>2, <1>3, <1>6, <1>14, <3>1
  <2>6. p.uppPgSz = Sz /\ p.nBytesPerPgMap = MapMax * Sz
    BY DEF FileInv, Geometry
  <2>7. r.mmTblCurrCnt >= 1
    BY <1>3, <1>6
  <2> QED
    BY <1>4, <1>6, <1>14, <2>2, <2>3, <2>4, <2>5, <2>6, <2>7 DEF Geometry
<1>16. \A e \in Entry : Placed(p, e) => Placed(r, e)
  <2> TAKE e \in Entry
  <2>1. e.lwrPgno \in Nat
    BY DEF Entry
  <2> QED
    BY <1>3, <1>6, <1>7, <1>8, <1>9, <2>1 DEF Placed
<1>17. AllPlaced(r) /\ AllApart(r)
  <2>1. \A k, i : Used(r, k, i) => k \in Maps(p) /\ i \in MapIx /\ Used(p, k, i)
    BY <1>10 DEF Used
  <2>2. AllPlaced(r)
    BY <1>11, <1>16, <2>1, EntryType DEF FileInv, AllPlaced
  <2>3. AllApart(r)
    BY <1>11, <2>1 DEF FileInv, AllApart
  <2> QED
    BY <2>2, <2>3
<1>18. Loaded(r)
  <2>1. r.mmTblCurrIx \in Maps(p) /\ r.mmTblCurrIx \in Maps(r) /\ r.mmTblCurrIx # NotLoaded
    BY <1>3, <1>6, <1>7 DEF NotLoaded
  <2>2. /\ \A i \in MapIx : Used(p, p.mmTblCurrIx, i) =>
             \/ p.pPgMap[i] = p.pBigEndianPgMap[i]
             \/ p.pPgMap[i] = NoEntry /\ p.pBigEndianPgMap[i].cmprSz = 0
        /\ ~p.bPgMapDirty => \A i \in MapIx : Used(p, p.mmTblCurrIx, i) =>
             p.pBigEndianPgMap[i] = p.map[p.mmTbl[p.mmTblCurrIx]][i]
    BY DEF FileInv, Loaded
  <2> QED
    BY <1>6, <1>8, <1>10, <2>1, <2>2 DEF Loaded
<1>19. SameBytes(p, r)
  BY <1>3, <1>6, <1>7, <1>8 DEF SameBytes, OffMaps
<1>20. NextPage(r) = NextPage(p)
  <2>1. (c + 1 - 1) * MapMax + 0 = (c - 1) * MapMax + MapMax
    BY <1>2, <1>3
  <2>2. NextPage(r) = (c + 1 - 1) * MapMax + 0
    BY <1>2, <1>3, <1>6 DEF NextPage
  <2>3. NextPage(p) = (c - 1) * MapMax + MapMax
    BY DEF NextPage
  <2> QED
    BY <2>1, <2>2, <2>3
<1> QED
  BY <1>5, <1>11, <1>15, <1>17, <1>18, <1>19, <1>20 DEF FileInv, r

\* StartPageMap leaves room for an entry in the last map, which is loaded.
LEMMA Started ==
  ASSUME Sane, pgSz = Sz, Least <= PageSize,
         NEW holes \in 0 .. MaxHole, NEW p, FileInv(p, holes), p.currPgno + 2 <= MaxPgno,
         p.mmTblCurrIx = p.mmTblCurrCnt - 1, p.pgMapCnt = MapMax => p.mmTblCurrCnt <= MMMax
  PROVE  LET q == StartPageMap(p, NextPage(p), "none")
         IN /\ FileInv(q, holes) /\ Extends(p, q) /\ NextPage(q) = NextPage(p)
            /\ q.mmTblCurrIx = q.mmTblCurrCnt - 1 /\ q.pgMapCnt < MapMax
            /\ q.currPgno = p.currPgno
            /\ q.mmTblCurrCnt = IF p.pgMapCnt = MapMax THEN p.mmTblCurrCnt + 1 ELSE p.mmTblCurrCnt
<1> DEFINE c == p.mmTblCurrCnt
           u == NextPage(p)
           r == [p EXCEPT !.mmTbl[c] = p.currPgno + 1, !.mmTblCurrCnt = @ + 1, !.pgMapCnt = 0]
           q == SwitchPageMap(r, u, "none")
<1>1. p \in File /\ c >= 1 /\ MMMax \in Nat /\ MapMax \in Nat \ {0} /\ p.pgMapCnt \in 0 .. MapMax
      /\ c \in 0 .. MMMax + 1
  BY Sizes DEF FileInv, Geometry, File
<1>2. u \in Nat /\ \A v \in Nat : v < u <=> Used(p, v \div MapMax, v % MapMax)
  BY <1>1, UsedBelow
<1>3. CASE p.pgMapCnt < MapMax
  <2>1. StartPageMap(p, u, "none") = p
    BY <1>3 DEF StartPageMap
  <2> QED
    BY <1>1, <1>2, <1>3, <2>1, ExtendsSelf
<1>4. CASE p.pgMapCnt = MapMax
  <2>1. StartPageMap(p, u, "none") = q
    BY <1>1, <1>4 DEF StartPageMap
  <2>2. /\ FileInv(r, holes) /\ SameBytes(p, r) /\ NextPage(r) = u
        /\ \A k \in Maps(p), i \in MapIx : EntryAt(r, k, i) = EntryAt(p, k, i)
    BY <1>4, MapAdded
  <2>3. r.currPgno = p.currPgno /\ r.currPageOfst = p.currPageOfst /\ r.mmTblCurrCnt = c + 1
        /\ r.pgMapCnt = 0 /\ r.uppPageFile = p.uppPageFile /\ r.lwrPageFile = p.lwrPageFile
    BY <1>1 DEF File
  <2> HIDE DEF r, u
  <2>4. /\ FileInv(q, holes) /\ SamePlaces(r, q)
        /\ q.mmTblCurrIx = IF MapNo(r, u) >= r.mmTblCurrCnt THEN r.mmTblCurrCnt - 1 ELSE MapNo(r, u)
        /\ q.uppPageFile = r.uppPageFile /\ q.lwrPageFile = r.lwrPageFile
        /\ SameBytes(r, q)
    BY <1>2, <2>2, Switched
  <2>5. MapNo(r, u) = c
    <3>1. r.uppPgSz = Sz /\ r.nBytesPerPgMap = MapMax * Sz
      BY <2>2 DEF FileInv, Geometry
    <3>2. u = MapMax * c + 0 /\ 0 \in MapIx /\ c \in Nat
      BY <1>1, <1>4 DEF NextPage, u, MapIx
    <3> QED
      BY <1>2, <3>1, <3>2, AddressUnique
  <2> HIDE DEF q
  <2>6. q.mmTblCurrIx = c /\ q.mmTblCurrCnt = c + 1 /\ q.pgMapCnt = 0
        /\ q.currPgno = p.currPgno /\ q.currPageOfst = p.currPageOfst
    BY <1>1, <2>3, <2>4, <2>5 DEF SamePlaces
  <2>7. NextPage(q) = u
    BY <2>2, <2>4 DEF SamePlaces, NextPage
  <2>8. SameBytes(p, q)
    BY <2>2, <2>4 DEF SameBytes
  <2>9. \A v \in Nat : v < u => Place(q, v) = Place(p, v)
    <3> TAKE v \in Nat
    <3> HAVE v < u
    <3> DEFINE k == v \div MapMax
               i == v % MapMax
    <3>1. Used(p, k, i) /\ Used(r, k, i)
      <4>1. r \in File /\ r.mmTblCurrCnt >= 1
        BY <2>2 DEF FileInv, Geometry
      <4> QED
        BY <1>2, <2>2, <4>1, UsedBelow
    <3>2. k \in Maps(p) /\ i \in MapIx /\ k \in Maps(r)
      BY <3>1 DEF Used
    <3> HIDE DEF k, i
    <3>3. EntryAt(q, k, i) = EntryAt(p, k, i)
      BY <2>2, <2>4, <3>1, <3>2 DEF SamePlaces
    <3> QED
      BY <3>3 DEF Place, k, i
  <2>10. Further(p, q)
    BY <1>1, <2>6 DEF Further, File
  <2>11. Extends(p, q)
    BY <1>2, <2>3, <2>4, <2>7, <2>8, <2>9, <2>10 DEF Extends, u
  <2> QED
    BY <1>1, <1>4, <2>1, <2>4, <2>6, <2>7, <2>11 DEF u
<1> QED
  BY <1>1, <1>3, <1>4

\* AddPageEntry gives the next page an entry of sz bytes, 0 for a placeholder.
LEMMA Added ==
  ASSUME Sane, pgSz = Sz, Least <= PageSize,
         NEW holes \in 0 .. MaxHole, NEW p, FileInv(p, holes), p.currPgno + 2 <= MaxPgno,
         p.mmTblCurrIx = p.mmTblCurrCnt - 1, p.pgMapCnt = MapMax => p.mmTblCurrCnt <= MMMax,
         NEW sz \in {0} \cup (Least .. PageSize)
  PROVE  LET r == AddPageEntry(p, NextPage(p), sz, "none")
             e == Place(r, NextPage(p))
         IN /\ FileInv(r, IF sz = 0 THEN holes + 1 ELSE 0) /\ Extends(p, r)
            /\ NextPage(r) = NextPage(p) + 1 /\ r.mmTblCurrIx = r.mmTblCurrCnt - 1
            /\ (sz = 0 => r.currPgno = p.currPgno) /\ r.bPgMapDirty
            /\ r.mmTblCurrCnt = IF p.pgMapCnt = MapMax THEN p.mmTblCurrCnt + 1 ELSE p.mmTblCurrCnt
            /\ e.cmprSz = sz /\ r.pPgMap[r.pgMapCnt - 1] = e /\ r.pgMapCnt - 1 \in MapIx
            /\ e = EntryAt(r, r.mmTblCurrIx, r.pgMapCnt - 1)
<1> DEFINE u == NextPage(p)
           q == StartPageMap(p, u, "none")
           i == q.pgMapCnt
           n == i + 1
           r == AllocCmpPageSpace([q EXCEPT !.pgMapCnt = n], sz, i)
<1>1. p \in File /\ p.mmTblCurrCnt >= 1 /\ MMMax \in Nat /\ MapMax \in Nat \ {0} /\ MaxHole \in Nat
  BY Sizes DEF FileInv, Geometry
<1>2. u \in Nat
  BY <1>1, UsedBelow
<1>3. /\ FileInv(q, holes) /\ Extends(p, q) /\ NextPage(q) = u
      /\ q.mmTblCurrIx = q.mmTblCurrCnt - 1 /\ i < MapMax /\ q.currPgno = p.currPgno
      /\ q.mmTblCurrCnt = IF p.pgMapCnt = MapMax THEN p.mmTblCurrCnt + 1 ELSE p.mmTblCurrCnt
  BY Started
<1>4. AddPageEntry(p, u, sz, "none") = r
  BY DEF AddPageEntry
<1> HIDE DEF q
<1>5. q \in File /\ q.mmTblCurrCnt >= 1 /\ q.mmTblCurrCnt \in Nat /\ i \in 0 .. MapMax
  BY <1>1, <1>3 DEF FileInv, Geometry, File
<1>6. n \in 0 .. MapMax /\ i \in MapIx /\ n = q.pgMapCnt + 1 /\ n - 1 = i
  BY <1>1, <1>3, <1>5 DEF MapIx
<1>7. q.mmTblCurrIx \in Maps(q)
  BY <1>3, <1>5, MapsOf
<1> DEFINE k == q.mmTblCurrIx
           e == EntryAt(r, k, i)
<1> HIDE DEF n
<1>8. /\ FileInv(r, IF sz = 0 THEN holes + 1 ELSE 0)
      /\ r.pgMapCnt = n /\ r.mmTblCurrIx = k
      /\ r.mmTblCurrCnt = q.mmTblCurrCnt /\ r.mmTbl = q.mmTbl
      /\ r.map = q.map /\ r.bytes = q.bytes /\ r.bPgMapDirty
      /\ r.uppPageFile = q.uppPageFile /\ r.lwrPageFile = q.lwrPageFile
      /\ Further(q, r) /\ (sz = 0 => r.currPgno = q.currPgno)
      /\ e.cmprSz = sz /\ r.pPgMap[i] = e
      /\ \A l \in Maps(q), j \in MapIx : <<l, j>> # <<k, i>> => EntryAt(r, l, j) = EntryAt(q, l, j)
  <2>1. q.currPgno + 2 <= MaxPgno
    BY <1>3
  <2> QED
    BY <1>3, <1>6, <1>7, <2>1, Allocated
<1> HIDE DEF r, e
<1>9. NextPage(r) = u + 1
  <2>1. (q.mmTblCurrCnt - 1) * MapMax \in Int
    BY <1>1, <1>5
  <2> QED
    BY <1>3, <1>5, <1>6, <1>8, <2>1 DEF NextPage
<1>10. u \div MapMax = k /\ u % MapMax = i
  <2>1. k \in Nat /\ u = MapMax * k + i
    BY <1>1, <1>3, <1>5 DEF NextPage
  <2> QED
    BY <1>6, <2>1, Names
<1>11. \A v \in Nat : v < u => Place(r, v) = Place(q, v)
  <2> TAKE v \in Nat
  <2> HAVE v < u
  <2>1. Used(q, v \div MapMax, v % MapMax)
    BY <1>3, <1>5, UsedBelow
  <2>2. v # u
    BY <1>2
  <2>3. <<v \div MapMax, v % MapMax>> # <<k, i>>
    BY <1>2, <1>10, <2>2, Names
  <2> QED
    BY <1>8, <2>1, <2>3 DEF Used, Place
<1>12. Place(r, u) = e
  BY <1>10 DEF Place, e
<1>13. SameBytes(q, r)
  BY <1>8 DEF SameBytes, OffMaps, Maps
<1>14. Extends(q, r)
  BY <1>2, <1>3, <1>8, <1>9, <1>11, <1>13 DEF Extends
<1>15. Extends(p, r)
  <2>1. r \in File
    BY <1>8 DEF FileInv
  <2> QED
    BY <1>1, <1>2, <1>3, <1>5, <1>9, <1>14, <2>1, ExtendsTransitive
<1> QED
  BY <1>3, <1>4, <1>6, <1>8, <1>9, <1>12, <1>15 DEF u, e

\* AddPlaceholder is AddPageEntry with an entry of no bytes, forgotten in memory.
LEMMA PlaceholderAdded ==
  ASSUME Sane, pgSz = Sz, Least <= PageSize,
         NEW holes \in 0 .. MaxHole, NEW p, FileInv(p, holes), p.currPgno + 2 <= MaxPgno,
         p.mmTblCurrIx = p.mmTblCurrCnt - 1, p.pgMapCnt = MapMax => p.mmTblCurrCnt <= MMMax
  PROVE  LET r == AddPlaceholder(p, NextPage(p), "none")
         IN /\ FileInv(r, holes + 1) /\ Extends(p, r)
            /\ NextPage(r) = NextPage(p) + 1 /\ r.mmTblCurrIx = r.mmTblCurrCnt - 1
            /\ r.currPgno = p.currPgno
            /\ r.mmTblCurrCnt = IF p.pgMapCnt = MapMax THEN p.mmTblCurrCnt + 1 ELSE p.mmTblCurrCnt
            /\ Place(r, NextPage(p)).cmprSz = 0
<1> DEFINE u == NextPage(p)
           q == AddPageEntry(p, u, 0, "none")
           i == q.pgMapCnt - 1
           r == [q EXCEPT !.pPgMap[i] = NoEntry]
<1>1. /\ FileInv(q, holes + 1) /\ Extends(p, q)
      /\ NextPage(q) = u + 1 /\ q.mmTblCurrIx = q.mmTblCurrCnt - 1
      /\ q.currPgno = p.currPgno /\ q.bPgMapDirty
      /\ q.mmTblCurrCnt = IF p.pgMapCnt = MapMax THEN p.mmTblCurrCnt + 1 ELSE p.mmTblCurrCnt
      /\ Place(q, u).cmprSz = 0 /\ i \in MapIx
      /\ Place(q, u) = EntryAt(q, q.mmTblCurrIx, i)
  BY Added
<1>2. AddPlaceholder(p, u, "none") = r
  BY DEF AddPlaceholder
<1> HIDE DEF q, u
<1>3. q \in File /\ q.pPgMap \in [MapIx -> Entry]
  BY <1>1 DEF FileInv, File, Map
<1>4. r \in File
  <2>1. [q.pPgMap EXCEPT ![i] = NoEntry] \in Map
    BY <1>3, NoMapType DEF Map
  <2> QED
    BY <1>3, <2>1 DEF File
<1>5. /\ r.currPgno = q.currPgno /\ r.currPageOfst = q.currPageOfst /\ r.pgMapCnt = q.pgMapCnt
      /\ r.mmTblCurrCnt = q.mmTblCurrCnt /\ r.mmTbl = q.mmTbl
      /\ r.uppPgSz = q.uppPgSz /\ r.nBytesPerPgMap = q.nBytesPerPgMap
      /\ r.mmTblCurrIx = q.mmTblCurrIx /\ r.bPgMapDirty = q.bPgMapDirty
      /\ r.pBigEndianPgMap = q.pBigEndianPgMap /\ r.pPgMap = [q.pPgMap EXCEPT ![i] = NoEntry]
      /\ r.uppPageFile = q.uppPageFile /\ r.lwrPageFile = q.lwrPageFile
      /\ r.map = q.map /\ r.bytes = q.bytes
  BY <1>3 DEF File
<1> HIDE DEF r, i
<1>6. \A k, j : EntryAt(r, k, j) = EntryAt(q, k, j)
  BY <1>5 DEF EntryAt
<1>7. SamePlaces(q, r)
  BY <1>5, <1>6 DEF SamePlaces
<1>8. q.pBigEndianPgMap[i].cmprSz = 0
  BY <1>1 DEF EntryAt
<1>9. Maps(r) = Maps(q) /\ \A k, j : Used(r, k, j) <=> Used(q, k, j)
  BY <1>5 DEF Maps, Used, MapCnt
<1>10. Loaded(r)
  <2>1. \A j \in MapIx : Used(r, r.mmTblCurrIx, j) =>
           \/ r.pPgMap[j] = r.pBigEndianPgMap[j]
           \/ r.pPgMap[j] = NoEntry /\ r.pBigEndianPgMap[j].cmprSz = 0
    <3> TAKE j \in MapIx
    <3>1. CASE j = i
      BY <1>1, <1>3, <1>5, <1>8, <3>1
    <3>2. CASE j # i
      <4>1. r.pPgMap[j] = q.pPgMap[j]
        BY <1>3, <1>5, <3>2
      <4> QED
        BY <1>1, <1>5, <1>9, <4>1 DEF FileInv, Loaded
    <3> QED
      BY <3>1, <3>2
  <2>2. r.mmTblCurrIx \in Maps(r) \cup {NotLoaded} /\ r.bPgMapDirty /\ r.mmTblCurrIx # NotLoaded
    <3>1. r.mmTblCurrIx # NotLoaded
      BY <1>1, <1>3, <1>5 DEF FileInv, Geometry, File, NotLoaded
    <3> QED
      BY <1>1, <1>5, <1>9, <3>1 DEF FileInv, Loaded
  <2> QED
    BY <2>1, <2>2 DEF Loaded
<1>11. FileInv(r, holes + 1)
  BY <1>1, <1>4, <1>7, <1>10, SamePlacesInv
<1>12. NextPage(r) = NextPage(q) /\ \A v : Place(r, v) = Place(q, v)
  BY <1>5, <1>6 DEF NextPage, Place
<1>13. Extends(p, r)
  <2>1. SameBytes(p, r)
    BY <1>1, <1>5, <1>9 DEF Extends, SameBytes, OffMaps
  <2> QED
    BY <1>1, <1>5, <1>12, <2>1 DEF Extends, Further
<1> QED
  BY <1>1, <1>2, <1>5, <1>11, <1>12, <1>13 DEF u

\* Every set of natural numbers has a least one: induction, with the library's
\* theorem on the order of Nat.
LEMMA LeastNat ==
  ASSUME NEW S \in SUBSET Nat, S # {}
  PROVE  \E n \in S : \A m \in S : n <= m
<1> DEFINE R == OpToRel(<, Nat)
<1>1. IsWellFoundedOn(R, Nat)
  BY NatLessThanWellFounded
<1>2. \A x, y \in Nat : x < y => <<x, y>> \in R
  BY DEF OpToRel
<1>4. S \subseteq Nat
  OBVIOUS
<1> HIDE DEF R
<1>3. \E n \in S : \A m \in S : ~(<<m, n>> \in R)
  BY <1>1, <1>4, WFMin
<1>5. PICK n \in S : \A m \in S : ~(<<m, n>> \in R)
  BY <1>3
<1>6. \A m \in S : ~(m < n)
  BY <1>5, <1>2
<1> QED
  BY <1>5, <1>6

\* What the placeholders leave, page by page.
Skipped(p, q, m) ==
  /\ FileInv(q, m) /\ Extends(p, q) /\ NextPage(q) = NextPage(p) + m
  /\ q.mmTblCurrIx = q.mmTblCurrCnt - 1 /\ q.currPgno = p.currPgno
  /\ q.mmTblCurrCnt \in {p.mmTblCurrCnt, p.mmTblCurrCnt + 1}
  /\ \A v \in Nat : NextPage(p) <= v /\ v < NextPage(q) => Place(q, v).cmprSz = 0

\* The files after 0, 1, ... m placeholders.
Placeholders(p, m, f) ==
  f = [v \in NextPage(p) - 1 .. NextPage(p) + m - 1 |->
         IF v = NextPage(p) - 1 THEN p ELSE AddPlaceholder(f[v - 1], v, "none")]

\* A write skips fewer pages than a map has: at most one map is started.
LEMMA RoomForMap ==
  ASSUME Sane, Least <= PageSize, NEW p \in File, p.mmTblCurrCnt >= 1, p.mmTblCurrCnt <= MMMax,
         NEW q \in File, NEW m \in 0 .. MaxHole, NextPage(q) = NextPage(p) + m,
         q.mmTblCurrCnt \in {p.mmTblCurrCnt, p.mmTblCurrCnt + 1}, q.pgMapCnt = MapMax
  PROVE  q.mmTblCurrCnt = p.mmTblCurrCnt
<1>1. /\ MapMax \in Nat \ {0} /\ EntrySz \in Nat \ {0} /\ PageSize \in Nat
      /\ PageSize < (MapMax + 1) * EntrySz /\ MaxHole \in Nat
      /\ Least = MaxHole * EntrySz + EntrySz /\ MMMax \in Nat
  BY Sizes
<1>2. MaxHole < MapMax
  <2>1. ASSUME MapMax <= MaxHole
        PROVE  FALSE
    <3>1. (MapMax + 1) * EntrySz <= (MaxHole + 1) * EntrySz
      BY <1>1, <2>1, TimesMonotone
    <3>2. (MaxHole + 1) * EntrySz = Least /\ (MapMax + 1) * EntrySz \in Int
      BY <1>1
    <3> QED
      BY <1>1, <3>1, <3>2
  <2> QED
    BY <1>1, <2>1
<1>3. p.pgMapCnt \in 0 .. MapMax /\ p.mmTblCurrCnt \in Nat
  BY <1>1 DEF File
<1>4. ASSUME q.mmTblCurrCnt = p.mmTblCurrCnt + 1
      PROVE  FALSE
  <2> DEFINE a == (p.mmTblCurrCnt - 1) * MapMax
  <2>1. (q.mmTblCurrCnt - 1) * MapMax = a + MapMax /\ a \in Int
    BY <1>1, <1>3, <1>4
  <2>2. NextPage(p) = a + p.pgMapCnt /\ NextPage(q) = (q.mmTblCurrCnt - 1) * MapMax + MapMax
    BY DEF NextPage
  <2> HIDE DEF a
  <2> QED
    BY <1>1, <1>2, <1>3, <2>1, <2>2
<1> QED
  BY <1>4

\* There are such files, and each of them is a placeholder further.
LEMMA PlaceholdersExist ==
  ASSUME NEW p, NEW n \in Nat, NextPage(p) \in Nat
  PROVE  \E f : Placeholders(p, n, f)
<1> DEFINE z == NextPage(p)
           Bad == {m \in Nat : ~ \E f : Placeholders(p, m, f)}
<1>1. SUFFICES ASSUME Bad # {}
               PROVE  FALSE
  OBVIOUS
<1>2. PICK m \in Bad : \A k \in Bad : m <= k
  <2>1. Bad \in SUBSET Nat
    OBVIOUS
  <2> HIDE DEF Bad
  <2> QED
    BY <1>1, <2>1, LeastNat
<1>3. CASE m = 0
  <2> DEFINE f == [v \in z - 1 .. z + 0 - 1 |-> p]
  <2>1. Placeholders(p, 0, f)
    BY DEF Placeholders
  <2> QED
    BY <1>2, <1>3, <2>1
<1>4. CASE m # 0
  <2>1. m - 1 \in Nat /\ m - 1 \notin Bad
    BY <1>2, <1>4
  <2>2. PICK f : Placeholders(p, m - 1, f)
    BY <2>1
  <2> DEFINE D == z - 1 .. z + m - 1
             x == AddPlaceholder(f[z + m - 2], z + m - 1, "none")
             g == [v \in D |-> IF v = z + m - 1 THEN x ELSE f[v]]
  <2>3. \A v \in D : g[v] = IF v = z - 1 THEN p ELSE AddPlaceholder(g[v - 1], v, "none")
    <3> TAKE v \in D
    <3>1. v \in Int /\ m \in Nat /\ z \in Nat /\ z - 1 <= v /\ v <= z + m - 1
      BY <1>2
    <3>2. CASE v = z + m - 1
      <4>1. v # z - 1 /\ v - 1 = z + m - 2 /\ v - 1 \in D /\ v - 1 # z + m - 1
        BY <1>4, <3>1, <3>2
      <4>2. g[v] = x /\ g[v - 1] = f[v - 1]
        BY <3>2, <4>1
      <4> QED
        BY <3>2, <4>1, <4>2
    <3>3. CASE v # z + m - 1
      <4>1. v \in z - 1 .. z + (m - 1) - 1 /\ g[v] = f[v]
        BY <3>1, <3>3
      <4>2. f[v] = IF v = z - 1 THEN p ELSE AddPlaceholder(f[v - 1], v, "none")
        BY <2>2, <4>1 DEF Placeholders
      <4>3. v # z - 1 => v - 1 \in D /\ v - 1 # z + m - 1
        BY <3>1
      <4>4. v # z - 1 => g[v - 1] = f[v - 1]
        BY <4>3
      <4> QED
        BY <4>1, <4>2, <4>4
    <3> QED
      BY <3>2, <3>3
  <2>4. g = [v \in D |-> g[v]]
    OBVIOUS
  <2> HIDE DEF g, x
  <2>5. Placeholders(p, m, g)
    BY <2>3, <2>4 DEF Placeholders
  <2> QED
    BY <1>2, <2>5
<1> QED
  BY <1>3, <1>4

\* AddPlaceholders is the file after the placeholders for the pages that are skipped.
LEMMA AfterPlaceholders ==
  ASSUME NEW p, NEW n \in Nat \ {0}, NextPage(p) \in Nat
  PROVE  \E f : Placeholders(p, n, f) /\ AddPlaceholders(p, NextPage(p) + n, "none") = f[NextPage(p) + n - 1]
<1> DEFINE z == NextPage(p)
           u == z + n
           g == CHOOSE f : f = [v \in z - 1 .. u - 1 |->
                                  IF v = z - 1 THEN p ELSE AddPlaceholder(f[v - 1], v, "none")]
<1>1. Placeholders(p, n, g)
  BY PlaceholdersExist DEF Placeholders
<1>2. ~(u <= z)
  OBVIOUS
<1>3. AddPlaceholders(p, u, "none") = g[u - 1]
  BY <1>2 DEF AddPlaceholders
<1> HIDE DEF g
<1> QED
  BY <1>1, <1>3

\* Skipping pages keeps the invariant, and every page but those.
LEMMA PlaceholdersAdded ==
  ASSUME Sane, pgSz = Sz, Least <= PageSize, NEW p, FileInv(p, 0), p.currPgno + 2 <= MaxPgno,
         p.mmTblCurrIx = p.mmTblCurrCnt - 1, p.mmTblCurrCnt <= MMMax, NEW n \in 0 .. MaxHole
  PROVE  Skipped(p, AddPlaceholders(p, NextPage(p) + n, "none"), n)
<1> DEFINE z == NextPage(p)
<1>1. /\ p \in File /\ p.mmTblCurrCnt >= 1 /\ p.mmTblCurrCnt \in Nat
      /\ MaxHole \in Nat /\ z \in Nat /\ n \in Nat
  <2>1. p \in File /\ p.mmTblCurrCnt >= 1 /\ MMMax \in Nat /\ MaxHole \in Nat
    BY Sizes DEF FileInv, Geometry
  <2> QED
    BY <2>1, UsedBelow DEF File
<1>2. Skipped(p, p, 0)
  <2>1. Extends(p, p) /\ NextPage(p) = NextPage(p) + 0
    BY <1>1, ExtendsSelf
  <2>2. \A v \in Nat : ~(NextPage(p) <= v /\ v < NextPage(p))
    BY <1>1
  <2> QED
    BY <2>1, <2>2 DEF Skipped
<1>3. CASE n = 0
  <2>1. AddPlaceholders(p, z + n, "none") = p
    BY <1>1, <1>3 DEF AddPlaceholders
  <2> QED
    BY <1>2, <1>3, <2>1
<1>4. CASE n # 0
  <2>1. PICK f : Placeholders(p, n, f) /\ AddPlaceholders(p, z + n, "none") = f[z + n - 1]
    BY <1>1, <1>4, AfterPlaceholders
  <2>2. ASSUME NEW m \in 1 .. n, Skipped(p, f[z + m - 2], m - 1)
        PROVE  Skipped(p, f[z + m - 1], m)
    <3> DEFINE q == f[z + m - 2]
               u == z + m - 1
               r == AddPlaceholder(q, u, "none")
    <3>1. m - 1 \in 0 .. MaxHole /\ u \in Nat /\ u - 1 = z + m - 2 /\ u # z - 1
          /\ u \in z - 1 .. z + n - 1 /\ m - 1 + 1 = m /\ z + (m - 1) = u
      BY <1>1
    <3>2. f[u] = r
      BY <2>1, <3>1 DEF Placeholders
    <3>3. /\ FileInv(q, m - 1) /\ Extends(p, q) /\ NextPage(q) = z + (m - 1)
          /\ q.mmTblCurrIx = q.mmTblCurrCnt - 1 /\ q.currPgno = p.currPgno
          /\ q.mmTblCurrCnt \in {p.mmTblCurrCnt, p.mmTblCurrCnt + 1}
          /\ \A v \in Nat : z <= v /\ v < NextPage(q) => Place(q, v).cmprSz = 0
      BY <2>2 DEF Skipped
    <3> HIDE DEF q, u, z
    <3>4. q \in File /\ q.mmTblCurrCnt >= 1
      BY <3>3 DEF FileInv, Geometry
    <3>5. q.pgMapCnt = MapMax => q.mmTblCurrCnt = p.mmTblCurrCnt
      BY <1>1, <3>1, <3>3, <3>4, RoomForMap DEF z
    <3>6. NextPage(q) = u /\ u \in Nat
      BY <3>1, <3>3
    <3>7. /\ FileInv(r, m - 1 + 1) /\ Extends(q, r)
          /\ NextPage(r) = u + 1 /\ r.mmTblCurrIx = r.mmTblCurrCnt - 1
          /\ r.currPgno = q.currPgno
          /\ r.mmTblCurrCnt = IF q.pgMapCnt = MapMax THEN q.mmTblCurrCnt + 1 ELSE q.mmTblCurrCnt
          /\ Place(r, u).cmprSz = 0
      <4>1. q.currPgno + 2 <= MaxPgno /\ (q.pgMapCnt = MapMax => q.mmTblCurrCnt <= MMMax)
        BY <3>3, <3>5
      <4> QED
        BY <3>1, <3>3, <3>6, <4>1, PlaceholderAdded
    <3> HIDE DEF r
    <3>8. r \in File /\ FileInv(r, m)
      BY <3>1, <3>7 DEF FileInv
    <3>9. Extends(p, r)
      <4>1. NextPage(p) \in Nat /\ NextPage(r) \in Nat
        BY <1>1, <3>6, <3>7 DEF z
      <4> QED
        BY <1>1, <3>3, <3>4, <3>6, <3>7, <3>8, <4>1, ExtendsTransitive
    <3>10. \A v \in Nat : z <= v /\ v < NextPage(r) => Place(r, v).cmprSz = 0
      <4> TAKE v \in Nat
      <4> HAVE z <= v /\ v < NextPage(r)
      <4>1. CASE v = u
        BY <3>7, <4>1
      <4>2. CASE v # u
        <5>1. v < u
          BY <3>6, <3>7, <4>2
        <5>2. Place(r, v) = Place(q, v) /\ Place(q, v).cmprSz = 0
          BY <3>3, <3>6, <3>7, <5>1 DEF Extends
        <5> QED
          BY <5>2
      <4> QED
        BY <4>1, <4>2
    <3>11. NextPage(r) = NextPage(p) + m
      <4>1. z + m = u + 1
        BY <1>1, <3>1
      <4> QED
        BY <3>7, <4>1 DEF z
    <3>12. r.mmTblCurrCnt \in {p.mmTblCurrCnt, p.mmTblCurrCnt + 1}
      BY <3>3, <3>5, <3>7
    <3>13. Skipped(p, r, m)
      BY <3>3, <3>7, <3>8, <3>9, <3>10, <3>11, <3>12 DEF Skipped, z
    <3> QED
      BY <3>2, <3>13 DEF u
  <2> DEFINE Bad == {m \in 0 .. n : ~Skipped(p, f[z + m - 1], m)}
  <2>3. ASSUME Bad # {}
        PROVE  FALSE
    <3>1. Bad \in SUBSET Nat
      BY <1>1
    <3>2. PICK m \in Bad : \A k \in Bad : m <= k
      <4> HIDE DEF Bad
      <4> QED
        BY <2>3, <3>1, LeastNat
    <3>3. CASE m = 0
      <4>1. f[z - 1] = p
        BY <1>1, <2>1 DEF Placeholders
      <4>2. z + 0 - 1 = z - 1
        BY <1>1
      <4> QED
        BY <1>2, <3>2, <3>3, <4>1, <4>2
    <3>4. CASE m # 0
      <4>1. m \in 1 .. n /\ m - 1 \in 0 .. n /\ z + (m - 1) - 1 = z + m - 2 /\ ~(m <= m - 1)
        BY <1>1, <3>2, <3>4
      <4>2. Skipped(p, f[z + (m - 1) - 1], m - 1)
        BY <3>2, <4>1
      <4>3. Skipped(p, f[z + m - 1], m)
        BY <2>2, <4>1, <4>2
      <4> QED
        BY <3>2, <4>3
    <3> QED
      BY <3>3, <3>4
  <2>4. Skipped(p, f[z + n - 1], n)
    <3>1. n \in 0 .. n
      BY <1>1
    <3> QED
      BY <2>3, <3>1
  <2> QED
    BY <2>1, <2>4
<1> QED
  BY <1>3, <1>4

-----------------------------------------------------------------------------
(* Writing one page.                                                       *)

\* A file with the same places and bytes extends the other.
LEMMA SamePlacesExtend ==
  ASSUME Sane, NEW holes, NEW p, FileInv(p, holes), NEW q, SamePlaces(p, q), SameBytes(p, q),
         q.uppPageFile = p.uppPageFile, q.lwrPageFile = p.lwrPageFile
  PROVE  Extends(p, q) /\ NextPage(q) = NextPage(p)
<1>1. p \in File /\ p.mmTblCurrCnt >= 1
  BY DEF FileInv, Geometry
<1>2. NextPage(p) \in Nat /\ \A v \in Nat : v < NextPage(p) <=> Used(p, v \div MapMax, v % MapMax)
  BY <1>1, UsedBelow
<1>3. NextPage(q) = NextPage(p)
  BY DEF SamePlaces, NextPage
<1>4. p.currPageOfst \in Nat
  BY <1>1, SizesAssumption DEF File
<1>5. Further(p, q)
  BY <1>4 DEF SamePlaces, Further
<1>6. \A v \in Nat : v < NextPage(p) => Place(q, v) = Place(p, v)
  BY <1>2 DEF SamePlaces, Place, Used
<1> QED
  BY <1>2, <1>3, <1>5, <1>6 DEF Extends

\* q is p after page u was given a place of sz bytes.
Set(p, q, u, sz) ==
  /\ FileInv(q, 0) /\ SameBytes(p, q) /\ Further(p, q)
  /\ NextPage(q) = Larger(NextPage(p), u + 1)
  /\ q.uppPageFile = p.uppPageFile /\ q.lwrPageFile = p.lwrPageFile
  /\ \A v \in Nat : v < NextPage(p) /\ v # u => Place(q, v) = Place(p, v)
  /\ \A v \in Nat : NextPage(p) <= v /\ v < u => Place(q, v).cmprSz = 0
  /\ Place(q, u).cmprSz = sz

\* A smaller page stays where it is, with fewer bytes.
Shrink(p, i, sz) == [p EXCEPT !.pPgMap[i].cmprSz = sz, !.pBigEndianPgMap[i].cmprSz = sz,
                              !.bPgMapDirty = TRUE]

\* A page that is rewritten smaller stays where it is.
LEMMA Shrunk ==
  ASSUME Sane, NEW p, FileInv(p, 0), p.mmTblCurrIx \in Maps(p), NEW i \in MapIx,
         Used(p, p.mmTblCurrIx, i), NEW sz \in 1 .. PageSize, sz < p.pPgMap[i].cmprSz
  PROVE  LET r == Shrink(p, i, sz)
             e == EntryAt(r, p.mmTblCurrIx, i)
         IN /\ FileInv(r, 0)
            /\ r.pgMapCnt = p.pgMapCnt /\ r.mmTblCurrIx = p.mmTblCurrIx
            /\ r.mmTblCurrCnt = p.mmTblCurrCnt /\ r.mmTbl = p.mmTbl
            /\ r.map = p.map /\ r.bytes = p.bytes
            /\ r.uppPageFile = p.uppPageFile /\ r.lwrPageFile = p.lwrPageFile
            /\ Further(p, r)
            /\ e.cmprSz = sz /\ r.pPgMap[i] = e
            /\ \A k \in Maps(p), j \in MapIx :
                 <<k, j>> # <<p.mmTblCurrIx, i>> => EntryAt(r, k, j) = EntryAt(p, k, j)
<1> DEFINE ix  == p.mmTblCurrIx
           old == p.pPgMap[i]
           e   == [old EXCEPT !.cmprSz = sz]
           r   == [p EXCEPT !.pPgMap[i] = e, !.pBigEndianPgMap[i] = e, !.bPgMapDirty = TRUE]
<1>1. /\ p \in File /\ p.mmTblCurrCnt >= 1 /\ ix # NotLoaded
      /\ PageSize \in Nat /\ U16 \in Nat /\ MaxPgno \in Nat /\ Least \in Nat
  BY MapPgnos, Sizes DEF FileInv, Geometry
<1>2. p.pPgMap \in [MapIx -> Entry] /\ p.pBigEndianPgMap \in [MapIx -> Entry]
  BY <1>1 DEF File, Map
<1>3. old \in Entry
  BY <1>2
<1>4. p.pBigEndianPgMap[i] = old /\ old = EntryAt(p, ix, i)
  <2>1. p.pBigEndianPgMap[i] = old \/ old = NoEntry
    BY DEF FileInv, Loaded
  <2>2. old # NoEntry
    BY <1>1 DEF NoEntry
  <2> QED
    BY <2>1, <2>2 DEF EntryAt
<1>5. e \in Entry /\ e.cmprSz = sz /\ e.lwrPgno = old.lwrPgno /\ e.cmprOfst = old.cmprOfst
  BY <1>1, <1>3 DEF Entry
<1>6. Shrink(p, i, sz) = r
  BY <1>1, <1>2, <1>4 DEF File, Shrink
<1> HIDE DEF e
<1>7. r \in File /\ EntrySet(p, r, i, e)
  <2>1. r \in File
    BY <1>1, <1>5 DEF File, Map
  <2>2. EntrySet(p, r, i, e)
    BY <1>1 DEF File, EntrySet
  <2> QED
    BY <2>1, <2>2
<1>8. /\ r.currPgno = p.currPgno /\ r.currPageOfst = p.currPageOfst /\ r.pgMapCnt = p.pgMapCnt
      /\ r.mmTblCurrIx = ix /\ r.mmTblCurrCnt = p.mmTblCurrCnt /\ r.mmTbl = p.mmTbl
      /\ r.uppPgSz = p.uppPgSz /\ r.nBytesPerPgMap = p.nBytesPerPgMap
      /\ r.uppPageFile = p.uppPageFile /\ r.lwrPageFile = p.lwrPageFile
      /\ r.map = p.map /\ r.bytes = p.bytes /\ r.pPgMap[i] = e
  BY <1>1, <1>2 DEF File
<1> HIDE DEF r
<1>9. Maps(r) = Maps(p) /\ LastMap(r) = LastMap(p) /\ \A k, j : Used(r, k, j) <=> Used(p, k, j)
  BY <1>8 DEF Maps, LastMap, Used, MapCnt
<1>10. Geometry(r, 0)
  BY <1>8, <1>9 DEF FileInv, Geometry
<1>11. Further(p, r)
  BY <1>1, <1>8 DEF Further, File
<1>12. old.cmprSz \in Nat /\ old.cmprOfst \in Nat /\ sz \in Nat /\ sz > 0
  BY <1>1, <1>3 DEF Entry
<1>13. Placed(p, old)
  BY <1>4 DEF FileInv, AllPlaced
<1>14. Placed(r, e)
  <2>1. p.currPageOfst \in Nat
    BY <1>1 DEF File
  <2> HIDE DEF old
  <2> QED
    BY <1>1, <1>5, <1>8, <1>9, <1>12, <1>13, <2>1 DEF Placed, old
<1>15. \A k \in Maps(p), j \in MapIx :
         Used(p, k, j) /\ <<k, j>> # <<ix, i>> => Apart(e, EntryAt(p, k, j))
  <2> TAKE k \in Maps(p), j \in MapIx
  <2> HAVE Used(p, k, j) /\ <<k, j>> # <<ix, i>>
  <2> DEFINE f == EntryAt(p, k, j)
  <2>1. Apart(old, f)
    BY <1>4 DEF FileInv, AllApart
  <2>2. f \in Entry
    BY EntryType
  <2> HIDE DEF f
  <2>3. f.cmprSz \in Nat /\ f.cmprOfst \in Nat
    BY <1>1, <2>2 DEF Entry
  <2>4. old.cmprOfst + old.cmprSz <= f.cmprOfst => e.cmprOfst + sz <= f.cmprOfst
    BY <1>5, <1>12, <2>3
  <2>5. Apart(e, f)
    BY <1>5, <1>12, <2>1, <2>4 DEF Apart
  <2> QED
    BY <2>5 DEF f
<1>16. /\ FileInv(r, 0)
       /\ EntryAt(r, ix, i) = e
       /\ \A k \in Maps(p), j \in MapIx :
            <<k, j>> # <<ix, i>> => EntryAt(r, k, j) = EntryAt(p, k, j)
  BY <1>1, <1>7, <1>9, <1>10, <1>11, <1>14, <1>15, EntrySetInv
<1> QED
  BY <1>5, <1>6, <1>8, <1>11, <1>16 DEF r

\* From entries of the loaded map to pages.
LEMMA EntrySetPage ==
  ASSUME Sane, NEW p, FileInv(p, 0), pgSz = Sz, NEW u \in Nat, Found(p, u),
         MapNo(p, u) = p.mmTblCurrIx, NEW sz, NEW r,
         FileInv(r, 0), r.pgMapCnt = p.pgMapCnt, r.mmTblCurrCnt = p.mmTblCurrCnt,
         r.mmTblCurrIx = p.mmTblCurrIx,
         r.mmTbl = p.mmTbl, r.bytes = p.bytes, Further(p, r),
         r.uppPageFile = p.uppPageFile, r.lwrPageFile = p.lwrPageFile,
         EntryAt(r, p.mmTblCurrIx, EntryNo(p, u)).cmprSz = sz,
         r.pPgMap[EntryNo(p, u)] = EntryAt(r, p.mmTblCurrIx, EntryNo(p, u)),
         \A k \in Maps(p), j \in MapIx :
           <<k, j>> # <<p.mmTblCurrIx, EntryNo(p, u)>> => EntryAt(r, k, j) = EntryAt(p, k, j)
  PROVE  Set(p, r, u, sz) /\ Place(r, u) = r.pPgMap[EntryNo(p, u)]
<1>1. /\ p \in File /\ p.mmTblCurrCnt >= 1 /\ p.uppPgSz = Sz /\ p.nBytesPerPgMap = MapMax * Sz
      /\ r \in File
  BY DEF FileInv, Geometry
<1>2. MapNo(p, u) = u \div MapMax /\ EntryNo(p, u) = u % MapMax
  BY <1>1, Address
<1>3. MapNo(p, u) = p.mmTblCurrIx
  OBVIOUS
<1>4. NextPage(p) \in Nat /\ \A v \in Nat : v < NextPage(p) <=> Used(p, v \div MapMax, v % MapMax)
  BY <1>1, UsedBelow
<1>5. Used(p, u \div MapMax, u % MapMax)
  <2>1. u \div MapMax \in Maps(p)
    BY <1>1, <1>2, <1>3, Names DEF FileInv, Loaded, NotLoaded
  <2> QED
    BY <1>2, <1>3, <2>1, Names DEF Found, Used
<1>6. u < NextPage(p)
  BY <1>4, <1>5
<1>7. NextPage(r) = NextPage(p) /\ Larger(NextPage(p), u + 1) = NextPage(p)
  BY <1>4, <1>6 DEF NextPage, Larger
<1>8. \A v \in Nat : v < NextPage(p) /\ v # u => Place(r, v) = Place(p, v)
  <2> TAKE v \in Nat
  <2> HAVE v < NextPage(p) /\ v # u
  <2>1. <<v \div MapMax, v % MapMax>> # <<p.mmTblCurrIx, EntryNo(p, u)>>
    BY <1>2, <1>3, Names
  <2>2. v \div MapMax \in Maps(p) /\ v % MapMax \in MapIx
    BY <1>4 DEF Used
  <2> QED
    BY <2>1, <2>2 DEF Place
<1>9. Place(r, u) = EntryAt(r, p.mmTblCurrIx, EntryNo(p, u))
  BY <1>2, <1>3, Zenon DEF Place
<1>10. SameBytes(p, r)
  BY DEF SameBytes, OffMaps, Maps
<1>11. \A v \in Nat : ~(NextPage(p) <= v /\ v < u)
  BY <1>4, <1>6
<1> QED
  BY <1>7, <1>8, <1>9, <1>10, <1>11 DEF Set

\* PageMapUpdate gives a page that has an entry a place of sz bytes.
LEMMA Updated ==
  ASSUME Sane, NEW p, FileInv(p, 0), pgSz = Sz, p.currPgno + 2 <= MaxPgno,
         NEW u \in Nat, Found(p, u), MapNo(p, u) = p.mmTblCurrIx, NEW sz \in CmpSizes
  PROVE  LET q == PageMapUpdate(p, u, sz)
         IN Set(p, q, u, sz) /\ Place(q, u) = q.pPgMap[EntryNo(p, u)]
<1> DEFINE i == EntryNo(p, u)
           ix == p.mmTblCurrIx
           old == p.pPgMap[i]
           q == PageMapUpdate(p, u, sz)
<1>1. /\ p \in File /\ p.mmTblCurrCnt >= 1 /\ p.uppPgSz = Sz /\ p.nBytesPerPgMap = MapMax * Sz
  BY DEF FileInv, Geometry
<1>2. /\ PageSize \in Nat /\ Least \in Nat \ {0} /\ sz \in Least .. PageSize /\ MaxHole \in Nat
      /\ MapMax \in Nat \ {0}
  BY Sizes
<1>3. i \in MapIx /\ ix \in Nat /\ ix = MapNo(p, u) /\ i < MapCnt(p, ix)
  BY <1>1, Address DEF Found
<1>4. ix \in Maps(p) /\ Used(p, ix, i)
  BY <1>3 DEF FileInv, Loaded, NotLoaded, Used
<1>5. p.pgMapCnt \in 0 .. MapMax
  BY <1>1 DEF File
<1>6. old \in Entry
  BY <1>1, <1>3 DEF File, Map
<1>7. CASE Moves(old, sz)
  <2> DEFINE r == AllocCmpPageSpace(p, sz, i)
  <2>1. q = r
    BY <1>7 DEF PageMapUpdate
  <2>2. [p EXCEPT !.pgMapCnt = p.pgMapCnt] = p
    BY <1>1 DEF File
  <2>3. LET e == EntryAt(r, ix, i)
        IN /\ FileInv(r, IF sz = 0 THEN 0 + 1 ELSE 0)
           /\ r.pgMapCnt = p.pgMapCnt /\ r.mmTblCurrIx = ix
           /\ r.mmTblCurrCnt = p.mmTblCurrCnt /\ r.mmTbl = p.mmTbl
           /\ r.map = p.map /\ r.bytes = p.bytes /\ r.bPgMapDirty
           /\ r.uppPageFile = p.uppPageFile /\ r.lwrPageFile = p.lwrPageFile
           /\ Further(p, r) /\ (sz = 0 => r.currPgno = p.currPgno)
           /\ e.cmprSz = sz /\ r.pPgMap[i] = e
           /\ \A k \in Maps(p), j \in MapIx :
                <<k, j>> # <<ix, i>> => EntryAt(r, k, j) = EntryAt(p, k, j)
    <3>1. 0 \in 0 .. MaxHole /\ sz \in {0} \cup (Least .. PageSize) /\ sz # 0
      BY <1>2
    <3> HIDE DEF i
    <3>2. /\ FileInv(p, 0) /\ p.pgMapCnt = p.pgMapCnt /\ i < MapCnt(p, ix)
      BY <1>3
    <3>3. AllocCmpPageSpace([p EXCEPT !.pgMapCnt = p.pgMapCnt], sz, i) = r
      BY <2>2
    <3> HIDE DEF r
    <3> QED
      BY <1>3, <1>4, <1>5, <3>1, <3>2, <3>3, Allocated
  <2> HIDE DEF r
  <2>4. FileInv(r, 0)
    BY <1>2, <2>3
  <2>5. Set(p, r, u, sz) /\ Place(r, u) = r.pPgMap[i]
    BY <2>3, <2>4, EntrySetPage
  <2> QED
    BY <2>1, <2>5
<1>8. CASE ~Moves(old, sz) /\ sz < old.cmprSz
  <2> DEFINE r == Shrink(p, i, sz)
  <2>1. q = r
    BY <1>8 DEF PageMapUpdate, Shrink
  <2>2. LET e == EntryAt(r, ix, i)
        IN /\ FileInv(r, 0)
           /\ r.pgMapCnt = p.pgMapCnt /\ r.mmTblCurrIx = p.mmTblCurrIx
           /\ r.mmTblCurrCnt = p.mmTblCurrCnt /\ r.mmTbl = p.mmTbl
           /\ r.map = p.map /\ r.bytes = p.bytes
           /\ r.uppPageFile = p.uppPageFile /\ r.lwrPageFile = p.lwrPageFile
           /\ Further(p, r)
           /\ e.cmprSz = sz /\ r.pPgMap[i] = e
           /\ \A k \in Maps(p), j \in MapIx :
                <<k, j>> # <<p.mmTblCurrIx, i>> => EntryAt(r, k, j) = EntryAt(p, k, j)
    <3>1. sz \in 1 .. PageSize
      BY <1>2
    <3> HIDE DEF i
    <3> QED
      BY <1>3, <1>4, <1>8, <3>1, Shrunk
  <2> HIDE DEF r
  <2>3. Set(p, r, u, sz) /\ Place(r, u) = r.pPgMap[i]
    BY <2>2, EntrySetPage
  <2> QED
    BY <2>1, <2>3
<1>9. CASE ~Moves(old, sz) /\ ~(sz < old.cmprSz)
  <2>1. q = p
    BY <1>9 DEF PageMapUpdate
  <2>2. old.cmprSz = sz
    BY <1>2, <1>6, <1>9 DEF Moves, Entry
  <2>3. old = EntryAt(p, ix, i)
    <3>1. old = p.pBigEndianPgMap[i] \/ old = NoEntry
      BY <1>3, <1>4 DEF FileInv, Loaded
    <3>2. old # NoEntry
      BY <1>2, <2>2 DEF NoEntry
    <3> QED
      BY <3>1, <3>2 DEF EntryAt
  <2>4. Further(p, p)
    BY <1>1, <1>2 DEF Further, File
  <2>5. Set(p, p, u, sz) /\ Place(p, u) = p.pPgMap[i]
    BY <2>2, <2>3, <2>4, EntrySetPage
  <2> QED
    BY <2>1, <2>5
<1> QED
  BY <1>7, <1>8, <1>9

\* PageMapAdd gives a page that has no entry one, and skips the pages before it.
LEMMA AddedAfterHoles ==
  ASSUME Sane, pgSz = Sz, NEW p, FileInv(p, 0), p.currPgno + 2 <= MaxPgno,
         p.mmTblCurrIx = p.mmTblCurrCnt - 1, p.mmTblCurrCnt <= MMMax,
         NEW n \in 0 .. MaxHole, NEW u \in Nat, u = NextPage(p) + n, NEW sz \in CmpSizes
  PROVE  LET q == PageMapAdd(p, u, sz, "none")
         IN Set(p, q, u, sz) /\ Place(q, u) = q.pPgMap[q.pgMapCnt - 1]
<1> DEFINE t == AddPlaceholders(p, u, "none")
           q == AddPageEntry(t, u, sz, "none")
<1>1. /\ p \in File /\ p.mmTblCurrCnt >= 1 /\ p.mmTblCurrCnt \in Nat
      /\ PageSize \in Nat /\ Least \in Nat \ {0} /\ sz \in Least .. PageSize /\ Least <= PageSize
      /\ MaxHole \in Nat
  BY Sizes DEF FileInv, Geometry, File
<1>2. NextPage(p) \in Nat
  BY <1>1, UsedBelow
<1>3. Skipped(p, t, n)
  BY <1>1, PlaceholdersAdded
<1>4. PageMapAdd(p, u, sz, "none") = q
  BY DEF PageMapAdd
<1> HIDE DEF t
<1>5. /\ FileInv(t, n) /\ Extends(p, t) /\ NextPage(t) = u
      /\ t.mmTblCurrIx = t.mmTblCurrCnt - 1 /\ t.currPgno = p.currPgno
      /\ t.mmTblCurrCnt \in {p.mmTblCurrCnt, p.mmTblCurrCnt + 1}
      /\ \A v \in Nat : NextPage(p) <= v /\ v < NextPage(t) => Place(t, v).cmprSz = 0
  BY <1>3 DEF Skipped
<1>6. t \in File
  BY <1>5 DEF FileInv
<1>7. t.pgMapCnt = MapMax => t.mmTblCurrCnt <= MMMax
  BY <1>1, <1>5, <1>6, RoomForMap
<1>8. LET e == Place(q, u)
      IN /\ FileInv(q, IF sz = 0 THEN n + 1 ELSE 0) /\ Extends(t, q)
         /\ NextPage(q) = u + 1 /\ q.mmTblCurrIx = q.mmTblCurrCnt - 1
         /\ e.cmprSz = sz /\ q.pPgMap[q.pgMapCnt - 1] = e
  <2>1. sz \in {0} \cup (Least .. PageSize) /\ t.currPgno + 2 <= MaxPgno
    BY <1>1, <1>5
  <2> QED
    BY <1>1, <1>5, <1>7, <2>1, Added
<1> HIDE DEF q
<1>9. FileInv(q, 0) /\ q \in File
  BY <1>1, <1>8 DEF FileInv
<1>10. Extends(p, q)
  <2>1. NextPage(t) \in Nat /\ NextPage(q) \in Nat
    BY <1>2, <1>5, <1>8
  <2> QED
    BY <1>1, <1>2, <1>5, <1>6, <1>8, <1>9, <2>1, ExtendsTransitive
<1>11. \A v \in Nat : NextPage(p) <= v /\ v < u => Place(q, v).cmprSz = 0
  BY <1>5, <1>8 DEF Extends
<1>12. NextPage(q) = Larger(NextPage(p), u + 1)
  BY <1>1, <1>2, <1>8 DEF Larger
<1>13. Set(p, q, u, sz)
  BY <1>8, <1>9, <1>10, <1>11, <1>12 DEF Extends, Set
<1> QED
  BY <1>4, <1>8, <1>13

\* PageMapSet gives page u a place of sz bytes, and SlotOf says where.
LEMMA PageMapSetSets ==
  ASSUME Sane, pgSz = Sz, NEW p, FileInv(p, 0), NEW u \in Nat, NEW sz \in CmpSizes, InBounds(p, u)
  PROVE  LET q == PageMapSet(p, u, sz, "none")
         IN Set(p, q, u, sz) /\ Place(q, u) = SlotOf(p, q, u, "none")
<1> DEFINE s == SwitchPageMap(p, u, "none")
           q == PageMapSet(p, u, sz, "none")
<1>1. /\ p \in File /\ p.mmTblCurrCnt >= 1 /\ MMMax \in Nat /\ MaxHole \in Nat
      /\ p.uppPgSz = Sz /\ p.nBytesPerPgMap = MapMax * Sz /\ MapMax \in Nat \ {0}
  BY Sizes DEF FileInv, Geometry
<1>2. /\ FileInv(s, 0) /\ SamePlaces(p, s)
      /\ s.mmTblCurrIx = IF MapNo(p, u) >= p.mmTblCurrCnt THEN p.mmTblCurrCnt - 1 ELSE MapNo(p, u)
      /\ MapNo(s, u) = MapNo(p, u) /\ EntryNo(s, u) = EntryNo(p, u)
      /\ Found(s, u) <=> u < NextPage(p)
      /\ s.uppPageFile = p.uppPageFile /\ s.lwrPageFile = p.lwrPageFile
      /\ SameBytes(p, s)
  BY Switched
<1>3. PageMapSet(p, u, sz, "none") = IF Found(s, u) THEN PageMapUpdate(s, u, sz) ELSE PageMapAdd(s, u, sz, "none")
  BY DEF PageMapSet
<1>4. SlotOf(p, q, u, "none") = IF Found(s, u) THEN q.pPgMap[EntryNo(s, u)] ELSE q.pPgMap[q.pgMapCnt - 1]
  BY DEF SlotOf
<1> HIDE DEF s
<1>5. /\ s.currPgno = p.currPgno /\ s.mmTblCurrCnt = p.mmTblCurrCnt /\ s \in File
      /\ s.currPgno + 2 <= MaxPgno /\ s.mmTblCurrCnt <= MMMax
  BY <1>2 DEF SamePlaces, InBounds, FileInv
<1>6. Extends(p, s) /\ NextPage(s) = NextPage(p)
  BY <1>2, SamePlacesExtend
<1>7. NextPage(p) \in Nat /\ u <= NextPage(p) + MaxHole
  BY <1>1, UsedBelow DEF InBounds
<1>8. Set(s, q, u, sz) /\ Place(q, u) = SlotOf(p, q, u, "none")
  <2>1. CASE Found(s, u)
    <3> DEFINE r == PageMapUpdate(s, u, sz)
    <3>1. q = r
      BY <1>3, <2>1
    <3>2. MapNo(s, u) = s.mmTblCurrIx
      <4>1. p.mmTblCurrCnt \in Nat /\ MapNo(p, u) \in Nat /\ MapNo(p, u) < p.mmTblCurrCnt
        BY <1>1, <1>2, <1>5, <2>1, Address DEF Found, File
      <4> QED
        BY <1>2, <4>1
    <3>3. Set(s, r, u, sz) /\ Place(r, u) = r.pPgMap[EntryNo(s, u)]
      BY <1>2, <1>5, <2>1, <3>2, Updated
    <3> QED
      BY <1>4, <2>1, <3>1, <3>3
  <2>2. CASE ~Found(s, u)
    <3> DEFINE r == PageMapAdd(s, u, sz, "none")
               n == u - NextPage(s)
    <3>1. q = r
      BY <1>3, <2>2
    <3>2. n \in 0 .. MaxHole /\ u = NextPage(s) + n
      BY <1>1, <1>2, <1>6, <1>7, <2>2
    <3>3. s.mmTblCurrIx = s.mmTblCurrCnt - 1
      <4> DEFINE k == MapNo(p, u)
                 i == EntryNo(p, u)
      <4>1. k \in Nat /\ i \in MapIx /\ i < MapMax /\ p.mmTblCurrCnt \in Nat
        BY <1>1, Address DEF MapIx, File
      <4>2. k = s.mmTblCurrIx /\ k < p.mmTblCurrCnt => ~(i < MapCnt(s, k))
        BY <1>2, <1>5, <2>2 DEF Found
      <4> HIDE DEF k, i
      <4>3. s.mmTblCurrIx = IF k >= p.mmTblCurrCnt THEN p.mmTblCurrCnt - 1 ELSE k
        BY <1>2 DEF k
      <4> QED
        BY <1>1, <1>5, <4>1, <4>2, <4>3 DEF MapCnt
    <3> HIDE DEF n
    <3>4. Set(s, r, u, sz) /\ Place(r, u) = r.pPgMap[r.pgMapCnt - 1]
      BY <1>2, <1>5, <3>2, <3>3, AddedAfterHoles
    <3> QED
      BY <1>4, <2>2, <3>1, <3>4
  <2> QED
    BY <2>1, <2>2
<1> HIDE DEF q
<1>9. Set(p, q, u, sz)
  <2>1. q \in File
    BY <1>8 DEF Set, FileInv
  <2>2. SameBytes(p, q)
    BY <1>2, <1>8 DEF Set, SameBytes
  <2>3. Further(p, q)
    BY <1>2, <1>8 DEF Set, Further, SamePlaces
  <2>4. \A v \in Nat : v < NextPage(p) /\ v # u => Place(q, v) = Place(p, v)
    BY <1>6, <1>8 DEF Set, Extends
  <2>5. \A v \in Nat : NextPage(p) <= v /\ v < u => Place(q, v).cmprSz = 0
    BY <1>6, <1>8 DEF Set
  <2> QED
    BY <1>2, <1>6, <1>8, <2>2, <2>3, <2>4, <2>5 DEF Set
<1> QED
  BY <1>8, <1>9 DEF q

-----------------------------------------------------------------------------
(* What is read back.                                                      *)

\* What cevfsRead answers, from the place of the page alone.
Answer(p, u) ==
  IF p.mmTblCurrCnt = 0 \/ ~(u < NextPage(p)) THEN Absent
  ELSE IF Place(p, u).cmprSz = 0 THEN Hole
  ELSE Contents(p, Place(p, u), u)

\* A page in use has an entry, and a place if the entry has bytes.
LEMMA PlaceOf ==
  ASSUME Sane, NEW p, FileInv(p, 0), NEW u \in Nat, u < NextPage(p)
  PROVE  LET e == Place(p, u)
         IN /\ e \in Entry /\ Placed(p, e) /\ Used(p, u \div MapMax, u % MapMax)
            /\ e.cmprSz # 0 => /\ e.cmprSz > 0 /\ e.lwrPgno \in OffMaps(p) /\ e.lwrPgno >= 3
                               /\ e.cmprOfst + e.cmprSz <= PageSize
<1> DEFINE k == u \div MapMax
           i == u % MapMax
           e == EntryAt(p, k, i)
<1>1. p \in File /\ p.mmTblCurrCnt >= 1
  BY DEF FileInv, Geometry
<1>2. Used(p, k, i) /\ k \in Maps(p) /\ i \in MapIx
  BY <1>1, UsedBelow DEF Used
<1> HIDE DEF k, i
<1>3. e \in Entry
  BY <1>2, EntryType
<1>4. Placed(p, e)
  BY <1>2 DEF FileInv, AllPlaced
<1> HIDE DEF e
<1>5. /\ p.currPgno \in 1 .. MaxPgno /\ MaxPgno \in Nat /\ PageSize \in Nat
      /\ e.lwrPgno \in 0 .. MaxPgno /\ e.cmprSz \in 0 .. PageSize
  BY <1>1, <1>3, SizesAssumption DEF File, Pgno, Entry
<1>6. e.cmprSz # 0 => /\ e.cmprSz > 0 /\ e.lwrPgno \in OffMaps(p) /\ e.lwrPgno >= 3
                      /\ e.cmprOfst + e.cmprSz <= PageSize
  BY <1>4, <1>5 DEF Placed, OffMaps, Pgno
<1> QED
  BY <1>2, <1>3, <1>4, <1>6 DEF Place, e, k, i

\* Answers are apart from each other where the page store has to tell them apart.
AnswersApart ==
  /\ Absent \notin Data \cup {Hole, Garbage}
  /\ {Corrupt, NoSlot} \cap (Data \cup {Absent, Garbage}) = {}

\* ReadBack answers that: the map it loads holds the entry of the page.
LEMMA ReadBackAnswer ==
  ASSUME Sane, AnswersApart, NEW p, FileInv(p, 0), pgSz = Sz, NEW u \in Nat
  PROVE  AsHole(ReadBack(p, u)) = Answer(p, u)
<1> DEFINE q == SwitchPageMap(p, u, "none")
           i == EntryNo(q, u)
           e == q.pPgMap[i]
           f == Place(p, u)
<1>1. p \in File /\ p.mmTblCurrCnt >= 1 /\ p.mmTblCurrCnt \in Nat
      /\ p.uppPgSz = Sz /\ p.nBytesPerPgMap = MapMax * Sz
  <2>1. p \in File /\ p.mmTblCurrCnt >= 1 /\ p.uppPgSz = Sz /\ p.nBytesPerPgMap = MapMax * Sz
    BY DEF FileInv, Geometry
  <2> QED
    BY <2>1, Sizes DEF File
<1>2. /\ FileInv(q, 0) /\ SamePlaces(p, q)
      /\ MapNo(q, u) = MapNo(p, u) /\ EntryNo(q, u) = EntryNo(p, u)
      /\ q.mmTblCurrIx = IF MapNo(p, u) >= p.mmTblCurrCnt THEN p.mmTblCurrCnt - 1 ELSE MapNo(p, u)
      /\ Found(q, u) <=> u < NextPage(p)
      /\ SameBytes(p, q)
  BY Switched
<1>3. ReadBack(p, u) = IF p.mmTblCurrCnt = 0 \/ ~Found(q, u) THEN Absent
                       ELSE IF e.lwrPgno = 0 THEN Corrupt
                       ELSE IF e.cmprSz = 0 THEN NoSlot
                       ELSE Contents(q, e, u)
  BY DEF ReadBack
<1>4. i = u % MapMax /\ MapNo(q, u) = u \div MapMax
  BY <1>1, <1>2, Address
<1> HIDE DEF q, i, f
<1>5. CASE ~(u < NextPage(p))
  BY <1>2, <1>3, <1>5 DEF Answer, AsHole, AnswersApart
<1>6. CASE u < NextPage(p)
  <2>1. f = EntryAt(q, u \div MapMax, u % MapMax) /\ q.mmTblCurrIx = u \div MapMax
        /\ Used(q, u \div MapMax, u % MapMax) /\ u % MapMax \in MapIx
    <3>1. Used(p, u \div MapMax, u % MapMax)
      BY <1>6, PlaceOf
    <3>2. q.mmTblCurrIx = u \div MapMax
      <4>1. MapNo(p, u) < p.mmTblCurrCnt /\ p.mmTblCurrCnt = q.mmTblCurrCnt
        BY <1>2, <1>6 DEF Found, SamePlaces
      <4>2. MapNo(p, u) \in Nat
        BY <1>1, Address
      <4> QED
        BY <1>1, <1>2, <1>4, <4>1, <4>2
    <3> QED
      BY <1>2, <3>1, <3>2 DEF SamePlaces, Place, Used, MapCnt, Maps, f
  <2>2. f = q.pBigEndianPgMap[i] /\ (e = f \/ (e = NoEntry /\ f.cmprSz = 0))
    BY <1>2, <1>4, <2>1 DEF EntryAt, FileInv, Loaded
  <2>3. f.cmprSz # 0 => f.lwrPgno \in OffMaps(p) /\ f.lwrPgno >= 3
    BY <1>6, PlaceOf DEF f
  <2>4. (e.lwrPgno = 0 \/ e.cmprSz = 0) <=> f.cmprSz = 0
    BY <2>2, <2>3 DEF NoEntry
  <2>5. ASSUME f.cmprSz # 0
        PROVE  Contents(q, e, u) = Contents(p, f, u)
    <3>1. e = f
      BY <2>2, <2>5
    <3>2. OffMaps(q) = OffMaps(p)
      BY <1>2 DEF SamePlaces, OffMaps, Maps
    <3>3. q.bytes[f.lwrPgno] = p.bytes[f.lwrPgno]
      BY <1>2, <2>3, <2>5, <3>2 DEF SameBytes
    <3> QED
      BY <3>1, <3>3 DEF Contents
  <2>6. Contents(p, f, u) \in Data \cup {Garbage}
    BY DEF Contents
  <2> QED
    BY <1>1, <1>2, <1>3, <1>6, <2>4, <2>5, <2>6 DEF Answer, AsHole, AnswersApart, f
<1> QED
  BY <1>5, <1>6

\* The answer depends on the places and on the bytes of pages that hold no map.
LEMMA SameAnswer ==
  ASSUME Sane, NEW p, FileInv(p, 0), NEW q, FileInv(q, 0), SamePlaces(p, q), SameBytes(p, q),
         NEW u \in Nat
  PROVE  Answer(q, u) = Answer(p, u)
<1>1. p.mmTblCurrCnt >= 1 /\ q.mmTblCurrCnt = p.mmTblCurrCnt /\ NextPage(q) = NextPage(p)
  BY DEF FileInv, Geometry, SamePlaces, NextPage
<1>2. CASE ~(u < NextPage(p))
  BY <1>1, <1>2 DEF Answer
<1>3. CASE u < NextPage(p)
  <2> DEFINE e == Place(p, u)
  <2>1. /\ Used(p, u \div MapMax, u % MapMax)
        /\ e.cmprSz # 0 => e.lwrPgno \in OffMaps(p)
    BY <1>3, PlaceOf
  <2>2. Place(q, u) = e
    BY <2>1 DEF SamePlaces, Place, Used
  <2>3. OffMaps(q) = OffMaps(p)
    BY DEF SamePlaces, OffMaps, Maps
  <2> HIDE DEF e
  <2>4. e.cmprSz # 0 => Contents(q, e, u) = Contents(p, e, u)
    <3>1. e.cmprSz # 0 => q.bytes[e.lwrPgno] = p.bytes[e.lwrPgno]
      BY <2>1, <2>3 DEF SameBytes
    <3> QED
      BY <3>1, ZenonT(40) DEF Contents
  <2> QED
    BY <1>1, <2>2, <2>4 DEF Answer, e
<1> QED
  BY <1>2, <1>3

\* It is a version of the page or one of three values.
LEMMA AnswerType ==
  ASSUME NEW p, NEW u
  PROVE  /\ Answer(p, u) \in Data \cup {Absent, Hole, Garbage}
         /\ p.mmTblCurrCnt # 0 /\ u < NextPage(p) => Answer(p, u) \in Data \cup {Hole, Garbage}
         /\ p.mmTblCurrCnt # 0 /\ ~(u < NextPage(p)) => Answer(p, u) = Absent
<1>1. \A e : Contents(p, e, u) \in Data \cup {Garbage}
  BY DEF Contents
<1> QED
  BY <1>1 DEF Answer

\* The answer for page u behind entry e, when its bytes are those of d.
LEMMA ContentsOf ==
  ASSUME Sane, NEW p, NEW e \in Entry, NEW u, NEW d \in Data, e.cmprSz > 0,
         e.cmprOfst + e.cmprSz <= PageSize,
         \A o \in (e.cmprOfst .. e.cmprOfst + e.cmprSz - 1) \cap Offset :
           p.bytes[e.lwrPgno][o] = <<u, d>>
  PROVE  Contents(p, e, u) = d
<1> DEFINE D == (e.cmprOfst .. e.cmprOfst + e.cmprSz - 1) \cap Offset
           c == {p.bytes[e.lwrPgno][o] : o \in D}
<1>1. e.cmprOfst \in D
  <2>1. e.cmprOfst \in Nat /\ e.cmprSz \in Nat /\ PageSize \in Nat
    BY Sizes DEF Entry
  <2> QED
    BY <2>1 DEF Offset
<1>2. c = {<<u, d>>}
  BY <1>1
<1> HIDE DEF c
<1>3. (CHOOSE x \in Data : c = {<<u, x>>}) = d
  <2>1. ASSUME NEW x, c = {<<u, x>>}
        PROVE  x = d
    <3>1. <<u, x>> = <<u, d>>
      BY <1>2, <2>1
    <3> QED
      BY <3>1
  <2> QED
    BY <1>2, <2>1
<1>4. Contents(p, e, u) = IF e.cmprOfst + e.cmprSz <= PageSize /\ \E x \in Data : c = {<<u, x>>}
                          THEN CHOOSE x \in Data : c = {<<u, x>>} ELSE Garbage
  BY DEF Contents, c
<1> QED
  BY <1>2, <1>3, <1>4

\* r is q once the bytes of page u have been written to its place.
Stored(q, r, u, d) ==
  /\ FileInv(r, 0) /\ SamePlaces(q, r)
  /\ r.uppPageFile = Larger(q.uppPageFile, u + 1)
  /\ Answer(r, u) = d
  /\ \A v \in Nat : v # u => Answer(r, v) = Answer(q, v)

\* Writing the bytes of page u to its place changes what page u answers only.
LEMMA BytesWritten ==
  ASSUME Sane, NEW q, FileInv(q, 0), NEW u \in Upp, u < NextPage(q), NEW d \in Data,
         NEW e, e = Place(q, u), e.cmprSz # 0
  PROVE  Stored(q, [WriteSlot(q, e.lwrPgno, e.cmprOfst, e.cmprSz, <<u, d>>) EXCEPT
                      !.uppPageFile = Larger(@, u + 1), !.lwrPageFile = Larger(@, e.lwrPgno)], u, d)
<1> DEFINE g == e.lwrPgno
           w == WriteSlot(q, g, e.cmprOfst, e.cmprSz, <<u, d>>)
           r == [w EXCEPT !.uppPageFile = Larger(@, u + 1), !.lwrPageFile = Larger(@, g)]
           R == e.cmprOfst .. e.cmprOfst + e.cmprSz - 1
           y == Over(q.bytes[g], e.cmprOfst, e.cmprSz, <<u, d>>)
<1>1. /\ q \in File /\ q.mmTblCurrCnt >= 1 /\ u \in Nat /\ PageSize \in Nat /\ U16 \in Nat
      /\ MaxPgno \in Nat /\ q.mmTblCurrCnt # 0
  <2>1. q \in File /\ q.mmTblCurrCnt >= 1
    BY DEF FileInv, Geometry
  <2> QED
    BY <2>1, Sizes
<1>2. /\ e \in Entry /\ e.cmprSz > 0 /\ g \in OffMaps(q) /\ g \in Pgno
      /\ e.cmprOfst + e.cmprSz <= PageSize
      /\ e = EntryAt(q, u \div MapMax, u % MapMax) /\ Used(q, u \div MapMax, u % MapMax)
  BY <1>1, PlaceOf DEF OffMaps, Place
<1>3. e.cmprOfst \in Nat /\ e.cmprSz \in Nat
  BY <1>1, <1>2 DEF Entry
<1>4. /\ w \in File
      /\ w = [q EXCEPT !.map[g] = NoMap, !.bytes[g] = y,
                       !.nTransactions = w.nTransactions, !.nPage = w.nPage]
  <2>1. <<u, d>> \in Upp \X Data
    OBVIOUS
  <2>2. PutOn(q, w, g, y)
    BY <1>1, <1>2, <1>3, <2>1, SlotWritten
  <2> HIDE DEF w, y
  <2> QED
    BY <2>2 DEF PutOn
<1> HIDE DEF w
<1>5. r \in File
  <2>1. Larger(w.uppPageFile, u + 1) \in Nat
    BY <1>1, <1>4 DEF File, Larger
  <2>2. Larger(w.lwrPageFile, g) \in 0 .. MaxPgno
    <3>1. w.lwrPageFile \in 0 .. MaxPgno /\ g \in 1 .. MaxPgno
      BY <1>2, <1>4 DEF File, Pgno
    <3> QED
      BY <1>1, <3>1 DEF Larger
  <2> DEFINE a == Larger(w.uppPageFile, u + 1)
             b == Larger(w.lwrPageFile, g)
  <2>3. r = [w EXCEPT !.uppPageFile = a, !.lwrPageFile = b]
    BY <1>4 DEF File
  <2> HIDE DEF a, b, r
  <2> QED
    BY <1>4, <2>1, <2>2, <2>3 DEF File, a, b
<1>6. /\ r.currPgno = q.currPgno /\ r.currPageOfst = q.currPageOfst
      /\ r.pgMapCnt = q.pgMapCnt /\ r.mmTblCurrCnt = q.mmTblCurrCnt /\ r.mmTbl = q.mmTbl
      /\ r.uppPgSz = q.uppPgSz /\ r.nBytesPerPgMap = q.nBytesPerPgMap
      /\ r.mmTblCurrIx = q.mmTblCurrIx /\ r.bPgMapDirty = q.bPgMapDirty
      /\ r.pPgMap = q.pPgMap /\ r.pBigEndianPgMap = q.pBigEndianPgMap
      /\ r.uppPageFile = Larger(q.uppPageFile, u + 1)
      /\ r.map = [q.map EXCEPT ![g] = NoMap]
  BY <1>1, <1>4 DEF File
<1>7. r.bytes = [q.bytes EXCEPT ![g] = y]
  <2>1. r.bytes = w.bytes
    BY <1>4 DEF File
  <2>2. w.bytes = [q.bytes EXCEPT ![g] = y]
    BY <1>1, <1>4 DEF File
  <2>3. q.bytes \in [Pgno -> Bytes]
    BY <1>1 DEF File
  <2> QED
    BY <1>2, <2>1, <2>2, <2>3
<1> HIDE DEF r
<1>8. /\ r.bytes[g] = y /\ (\A h \in Pgno : h # g => r.bytes[h] = q.bytes[h])
      /\ \A h \in Pgno : h # g => r.map[h] = q.map[h]
  <2>1. q.bytes \in [Pgno -> Bytes] /\ q.map \in [Pgno -> Map]
    BY <1>1 DEF File
  <2> QED
    BY <1>2, <1>6, <1>7, <2>1
<1>9. \A k \in Maps(q) : q.mmTbl[k] \in Pgno /\ q.mmTbl[k] # g
  BY <1>2, MapPgnos DEF OffMaps
<1>10. SamePlaces(q, r)
  BY <1>6, <1>8, <1>9 DEF SamePlaces, EntryAt
<1>11. Loaded(r)
  <2>1. Maps(r) = Maps(q) /\ \A k, i : Used(r, k, i) <=> Used(q, k, i)
    BY <1>6 DEF Maps, Used, MapCnt
  <2>2. \A i \in MapIx : Used(q, q.mmTblCurrIx, i) => r.map[q.mmTbl[q.mmTblCurrIx]] = q.map[q.mmTbl[q.mmTblCurrIx]]
    BY <1>8, <1>9 DEF Used
  <2>3. /\ q.mmTblCurrIx \in Maps(q) \cup {NotLoaded}
        /\ q.mmTblCurrIx = NotLoaded =>
             q.mmTblCurrCnt = 1 /\ q.pgMapCnt = 0 /\ ~q.bPgMapDirty
        /\ \A i \in MapIx : Used(q, q.mmTblCurrIx, i) =>
             \/ q.pPgMap[i] = q.pBigEndianPgMap[i]
             \/ q.pPgMap[i] = NoEntry /\ q.pBigEndianPgMap[i].cmprSz = 0
        /\ ~q.bPgMapDirty => \A i \in MapIx : Used(q, q.mmTblCurrIx, i) =>
             q.pBigEndianPgMap[i] = q.map[q.mmTbl[q.mmTblCurrIx]][i]
    BY DEF FileInv, Loaded
  <2> QED
    BY <1>6, <2>1, <2>2, <2>3 DEF Loaded
<1>12. FileInv(r, 0)
  BY <1>5, <1>10, <1>11, SamePlacesInv
<1>13. NextPage(r) = NextPage(q) /\ r.mmTblCurrCnt # 0
  BY <1>1, <1>6 DEF NextPage
<1>14. Answer(r, u) = d
  <2>1. Place(r, u) = e
    BY <1>2, <1>10 DEF SamePlaces, Used, Place
  <2>2. \A o \in R \cap Offset : r.bytes[g][o] = <<u, d>>
    BY <1>8 DEF Over
  <2>3. Contents(r, e, u) = d
    BY <1>2, <2>2, ContentsOf
  <2> QED
    BY <1>13, <2>1, <2>3 DEF Answer
<1>15. ASSUME NEW v \in Nat, v # u
       PROVE  Answer(r, v) = Answer(q, v)
  <2>1. CASE ~(v < NextPage(q))
    BY <1>1, <1>13, <2>1 DEF Answer
  <2>2. CASE v < NextPage(q)
    <3> DEFINE f == Place(q, v)
    <3>1. /\ f \in Entry /\ Used(q, v \div MapMax, v % MapMax)
          /\ f.cmprSz # 0 => f.cmprSz > 0 /\ f.lwrPgno \in Pgno /\ f.cmprOfst + f.cmprSz <= PageSize
      BY <2>2, PlaceOf DEF OffMaps
    <3>2. Place(r, v) = f
      BY <1>10, <3>1 DEF SamePlaces, Used, Place
    <3>3. Apart(e, f)
      <4>1. <<u \div MapMax, u % MapMax>> # <<v \div MapMax, v % MapMax>>
        BY <1>1, <1>15, Names
      <4> QED
        BY <1>2, <3>1, <4>1 DEF FileInv, AllApart, Used, Place
    <3> HIDE DEF f
    <3>4. f.cmprOfst \in Nat /\ f.cmprSz \in Nat
      BY <1>1, <3>1 DEF Entry
    <3> DEFINE F == (f.cmprOfst .. f.cmprOfst + f.cmprSz - 1) \cap Offset
    <3>5. f.cmprSz # 0 => \A o \in F : r.bytes[f.lwrPgno][o] = q.bytes[f.lwrPgno][o]
      <4> SUFFICES ASSUME f.cmprSz # 0, NEW o \in F
                   PROVE  r.bytes[f.lwrPgno][o] = q.bytes[f.lwrPgno][o]
        OBVIOUS
      <4>1. CASE f.lwrPgno # g
        BY <1>8, <3>1, <4>1
      <4>2. CASE f.lwrPgno = g
        <5>1. o \notin R
          BY <1>2, <1>3, <3>1, <3>3, <3>4, <4>2 DEF Apart
        <5>2. y[o] = q.bytes[g][o]
          BY <5>1 DEF Over
        <5> QED
          BY <1>8, <4>2, <5>2
      <4> QED
        BY <4>1, <4>2
    <3>6. f.cmprSz # 0 => {r.bytes[f.lwrPgno][o] : o \in F} = {q.bytes[f.lwrPgno][o] : o \in F}
      BY <3>5
    <3>7. f.cmprSz # 0 => Contents(r, f, v) = Contents(q, f, v)
      BY <3>6 DEF Contents
    <3> QED
      BY <1>1, <1>13, <3>2, <3>7 DEF Answer, f
  <2> QED
    BY <2>1, <2>2
<1> QED
  BY <1>6, <1>10, <1>12, <1>14, <1>15 DEF Stored, r, w

-----------------------------------------------------------------------------
(* Closing and opening.                                                    *)

\* h is what page 1 holds once p is closed.
Carries(h, p) ==
  /\ h.currPgno = p.currPgno /\ h.currPageOfst = p.currPageOfst /\ h.pgMapCnt = p.pgMapCnt
  /\ h.uppPageFile = p.uppPageFile /\ h.uppPgSz = p.uppPgSz /\ h.lwrPageFile = p.lwrPageFile
  /\ h.mmTblCurrCnt = p.mmTblCurrCnt /\ h.mmTbl = p.mmTbl

\* p and q answer alike, and neither has used more space than the other.
Alike(p, q) ==
  /\ q.currPgno = p.currPgno /\ q.currPageOfst = p.currPageOfst
  /\ q.uppPageFile = p.uppPageFile
  /\ \A u \in Nat : Answer(q, u) = Answer(p, u)

\* Files with the same places and bytes are alike.
LEMMA SameAlike ==
  ASSUME Sane, NEW p, FileInv(p, 0), NEW q, FileInv(q, 0), SamePlaces(p, q), SameBytes(p, q),
         q.uppPageFile = p.uppPageFile
  PROVE  Alike(p, q)
<1>1. \A u \in Nat : Answer(q, u) = Answer(p, u)
  BY SameAnswer
<1> QED
  BY <1>1 DEF Alike, SamePlaces

\* Two files whose fields are the same are the same.
LEMMA SameFields ==
  ASSUME NEW p \in File, NEW q \in File,
         p.currPgno = q.currPgno, p.currPageOfst = q.currPageOfst, p.pgMapCnt = q.pgMapCnt,
         p.uppPageFile = q.uppPageFile, p.uppPgSz = q.uppPgSz,
         p.nBytesPerPgMap = q.nBytesPerPgMap, p.lwrPageFile = q.lwrPageFile,
         p.mmTblCurrCnt = q.mmTblCurrCnt, p.mmTbl = q.mmTbl, p.mmTblCurrIx = q.mmTblCurrIx,
         p.pPgMap = q.pPgMap, p.pBigEndianPgMap = q.pBigEndianPgMap,
         p.bPgMapDirty = q.bPgMapDirty, p.nTransactions = q.nTransactions,
         p.map = q.map, p.bytes = q.bytes, p.nPage = q.nPage
  PROVE  p = q
BY DEF File

\* Being in the same places is transitive.
LEMMA SamePlacesTransitive ==
  ASSUME NEW p, NEW q, NEW r, SamePlaces(p, q), SamePlaces(q, r), SameBytes(p, q), SameBytes(q, r)
  PROVE  SamePlaces(p, r) /\ SameBytes(p, r)
<1>1. /\ q.pgMapCnt = p.pgMapCnt /\ q.mmTblCurrCnt = p.mmTblCurrCnt
      /\ Maps(q) = Maps(p)
  BY DEF SamePlaces, Maps
<1>2. \A k, i : Used(q, k, i) <=> Used(p, k, i)
  BY <1>1 DEF Used, MapCnt
<1>3. \A k \in Maps(p), i \in MapIx : Used(p, k, i) => EntryAt(r, k, i) = EntryAt(p, k, i)
  <2> TAKE k \in Maps(p), i \in MapIx
  <2> HAVE Used(p, k, i)
  <2>1. EntryAt(q, k, i) = EntryAt(p, k, i)
    BY DEF SamePlaces
  <2>2. EntryAt(r, k, i) = EntryAt(q, k, i)
    BY <1>1, <1>2 DEF SamePlaces
  <2> QED
    BY <2>1, <2>2
<1>4. SamePlaces(p, r)
  BY <1>3 DEF SamePlaces
<1>5. SameBytes(p, r)
  BY DEF SameBytes
<1> QED
  BY <1>4, <1>5

\* A file has the places and the bytes it has.
LEMMA SamePlacesSelf ==
  ASSUME NEW p
  PROVE  SamePlaces(p, p) /\ SameBytes(p, p)
BY DEF SamePlaces, SameBytes

\* A closed file is one.
LEMMA ClosedType ==
  ASSUME Sane, NEW p \in File
  PROVE  /\ ClosedFile(p) \in File /\ ClosedFile(ClosedFile(p)) = ClosedFile(p)
         /\ ClosedFile(p).currPgno = 3 /\ ClosedFile(p).currPageOfst = 0
         /\ ClosedFile(p).mmTblCurrCnt = 0 /\ ClosedFile(p).uppPageFile = 0
<1> DEFINE c == ClosedFile(p)
<1>1. /\ 3 \in Pgno /\ 0 \in 0 .. PageSize /\ 0 \in 0 .. MapMax /\ 0 \in 0 .. MaxPgno
      /\ 0 \in 0 .. MMMax + 1 /\ NoTbl \in [TblIx -> 0 .. MaxPgno]
  BY Sizes DEF Pgno, NoTbl
<1>2. c \in File
  BY <1>1, NoMapType DEF ClosedFile, File
<1>3. c.map = p.map /\ c.bytes = p.bytes /\ c.nPage = p.nPage
  BY DEF ClosedFile
<1>4. ClosedFile(c) = c
  BY <1>3 DEF ClosedFile
<1> QED
  BY <1>2, <1>4 DEF ClosedFile

\* A closed file is what its lower pages are.
LEMMA ClosedSame ==
  ASSUME NEW p, NEW q, q.map = p.map, q.bytes = p.bytes, q.nPage = p.nPage
  PROVE  ClosedFile(q) = ClosedFile(p)
BY DEF ClosedFile

\* The next session finds the file as it was when its map had been saved.
LEMMA ReopenedSame ==
  ASSUME Sane, NEW p, FileInv(p, 0), ~p.bPgMapDirty, NEW h, Carries(h, p)
  PROVE  LET q == Reopened(h, ClosedFile(p), Sz)
         IN /\ FileInv(q, 0) /\ SamePlaces(p, q) /\ SameBytes(p, q) /\ ~q.bPgMapDirty
            /\ q.uppPageFile = p.uppPageFile
            /\ q.map = p.map /\ q.bytes = p.bytes /\ q.nPage = p.nPage
<1> DEFINE t == [p EXCEPT !.nTransactions = 0]
           c == ClosedFile(p)
           b == [[[c EXCEPT !.uppPgSz = Sz, !.nBytesPerPgMap = MapMax * Sz]
                    EXCEPT !.currPgno = h.currPgno, !.currPageOfst = h.currPageOfst,
                           !.pgMapCnt = h.pgMapCnt, !.uppPageFile = h.uppPageFile,
                           !.uppPgSz = h.uppPgSz, !.lwrPageFile = h.lwrPageFile,
                           !.mmTblCurrCnt = h.mmTblCurrCnt]
                    EXCEPT !.mmTbl = h.mmTbl]
           q == LoadPagemapData(t, 0)
<1>1. p \in File /\ p.mmTblCurrCnt >= 1 /\ p.uppPgSz = Sz /\ p.nBytesPerPgMap = MapMax * Sz
  BY DEF FileInv, Geometry
<1>2. /\ t \in File
      /\ t.currPgno = p.currPgno /\ t.currPageOfst = p.currPageOfst
      /\ t.pgMapCnt = p.pgMapCnt /\ t.mmTblCurrCnt = p.mmTblCurrCnt /\ t.mmTbl = p.mmTbl
      /\ t.uppPgSz = p.uppPgSz /\ t.nBytesPerPgMap = p.nBytesPerPgMap
      /\ t.mmTblCurrIx = p.mmTblCurrIx /\ t.bPgMapDirty = p.bPgMapDirty
      /\ t.pPgMap = p.pPgMap /\ t.pBigEndianPgMap = p.pBigEndianPgMap
      /\ t.uppPageFile = p.uppPageFile /\ t.lwrPageFile = p.lwrPageFile
      /\ t.map = p.map /\ t.bytes = p.bytes /\ t.nPage = p.nPage
  BY <1>1 DEF File
<1> HIDE DEF t
<1>3. SamePlaces(p, t) /\ SameBytes(p, t)
  BY <1>2 DEF SamePlaces, SameBytes, EntryAt, OffMaps, Maps
<1>4. FileInv(t, 0)
  <2>1. Maps(t) = Maps(p) /\ \A k, i : Used(t, k, i) <=> Used(p, k, i)
    BY <1>2 DEF Maps, Used, MapCnt
  <2>2. Loaded(t)
    BY <1>2, <2>1 DEF FileInv, Loaded
  <2> QED
    BY <1>2, <1>3, <2>2, SamePlacesInv
<1>5. 0 \in Maps(t)
  <2>1. t.mmTblCurrCnt \in 1 .. MMMax + 1
    BY <1>1, <1>2, Sizes DEF File
  <2> QED
    BY <2>1, Sizes DEF Maps
<1>6. /\ FileInv(q, 0) /\ SamePlaces(t, q) /\ ~q.bPgMapDirty
      /\ q.uppPageFile = t.uppPageFile
      /\ q.map = t.map /\ q.bytes = t.bytes /\ q.nPage = t.nPage
  BY <1>2, <1>4, <1>5, LoadedPlaces
<1> HIDE DEF q
<1>7. SameBytes(t, q)
  BY <1>6 DEF SameBytes, SamePlaces, OffMaps, Maps
<1>8. SamePlaces(p, q) /\ SameBytes(p, q)
  BY <1>3, <1>6, <1>7, SamePlacesTransitive
<1>9. Reopened(h, c, Sz) = q
  <2>1. Reopened(h, c, Sz) = LoadPagemapData(b, 0)
    BY DEF Reopened
  <2>2. b = [t EXCEPT !.mmTblCurrIx = NotLoaded, !.pPgMap = NoMap, !.pBigEndianPgMap = NoMap]
    <3> DEFINE x == [t EXCEPT !.mmTblCurrIx = NotLoaded, !.pPgMap = NoMap,
                              !.pBigEndianPgMap = NoMap]
    <3>1. p.bPgMapDirty = FALSE
      BY <1>1 DEF File
    <3>2. x \in File
      BY <1>2, NoMapType DEF File
    <3>3. /\ x.currPgno = p.currPgno /\ x.currPageOfst = p.currPageOfst /\ x.pgMapCnt = p.pgMapCnt
          /\ x.uppPageFile = p.uppPageFile /\ x.uppPgSz = Sz /\ x.nBytesPerPgMap = MapMax * Sz
          /\ x.lwrPageFile = p.lwrPageFile /\ x.mmTblCurrCnt = p.mmTblCurrCnt
          /\ x.mmTbl = p.mmTbl /\ x.mmTblCurrIx = NotLoaded /\ x.pPgMap = NoMap
          /\ x.pBigEndianPgMap = NoMap /\ x.bPgMapDirty = FALSE /\ x.nTransactions = 0
          /\ x.map = p.map /\ x.bytes = p.bytes /\ x.nPage = p.nPage
      BY <1>1, <3>1 DEF t, File
    <3> HIDE DEF x
    <3>4. /\ b.currPgno = p.currPgno /\ b.currPageOfst = p.currPageOfst /\ b.pgMapCnt = p.pgMapCnt
          /\ b.uppPageFile = p.uppPageFile /\ b.uppPgSz = Sz /\ b.nBytesPerPgMap = MapMax * Sz
          /\ b.lwrPageFile = p.lwrPageFile /\ b.mmTblCurrCnt = p.mmTblCurrCnt
          /\ b.mmTbl = p.mmTbl /\ b.mmTblCurrIx = NotLoaded /\ b.pPgMap = NoMap
          /\ b.pBigEndianPgMap = NoMap /\ b.bPgMapDirty = FALSE /\ b.nTransactions = 0
          /\ b.map = p.map /\ b.bytes = p.bytes /\ b.nPage = p.nPage
      BY <1>1 DEF Carries, ClosedFile
    <3>5. b \in File
      <4>1. c \in File
        BY <1>1, ClosedType
      <4>2. Sz \in Nat /\ MapMax * Sz \in Nat
        BY Sizes
      <4> HIDE DEF c
      <4> QED
        BY <1>1, <4>1, <4>2 DEF Carries, File
    <3> HIDE DEF b
    <3>6. b = x
      BY <3>2, <3>3, <3>4, <3>5, SameFields
    <3> QED
      BY <3>6 DEF x
  <2> HIDE DEF b
  <2>3. b.map = t.map /\ b.mmTbl = t.mmTbl /\ MapCnt(b, 0) = MapCnt(t, 0)
    BY <1>2, <2>2 DEF File, MapCnt
  <2> DEFINE m == t.map[t.mmTbl[0]]
             v == [i \in MapIx |-> IF i < MapCnt(t, 0) THEN m[i] ELSE NoEntry]
  <2>4. LoadPagemapData(b, 0) = [b EXCEPT !.pBigEndianPgMap = m, !.pPgMap = v, !.mmTblCurrIx = 0]
    BY <2>3 DEF LoadPagemapData
  <2>5. q = [t EXCEPT !.pBigEndianPgMap = m, !.pPgMap = v, !.mmTblCurrIx = 0]
    BY DEF LoadPagemapData, q
  <2> HIDE DEF m, v
  <2>6. LoadPagemapData(b, 0) = q
    BY <1>2, <2>2, <2>4, <2>5 DEF File
  <2> QED
    BY <2>1, <2>6
<1> QED
  BY <1>2, <1>6, <1>8, <1>9 DEF c

\* A file that was never closed, as a session opens it.
LEMMA OpenedNew ==
  ASSUME Sane, NEW p \in File, p = ClosedFile(p)
  PROVE  LET q == [[p EXCEPT !.uppPgSz = Sz, !.nBytesPerPgMap = MapMax * Sz]
                     EXCEPT !.mmTbl[0] = 2, !.mmTblCurrCnt = 1]
         IN FileInv(q, 0) /\ NextPage(q) = 0 /\ Alike(p, q)
<1> DEFINE q == [[p EXCEPT !.uppPgSz = Sz, !.nBytesPerPgMap = MapMax * Sz]
                   EXCEPT !.mmTbl[0] = 2, !.mmTblCurrCnt = 1]
<1>1. /\ p.currPgno = 3 /\ p.currPageOfst = 0 /\ p.pgMapCnt = 0 /\ p.uppPageFile = 0
      /\ p.mmTblCurrCnt = 0 /\ p.mmTblCurrIx = NotLoaded /\ p.bPgMapDirty = FALSE
      /\ p.mmTbl \in [TblIx -> 0 .. MaxPgno]
  <2>1. p = ClosedFile(p)
    OBVIOUS
  <2>2. p.mmTbl \in [TblIx -> 0 .. MaxPgno]
    BY DEF File
  <2> QED
    BY <2>1, <2>2 DEF ClosedFile
<1>2. 0 \in TblIx /\ 2 \in 0 .. MaxPgno /\ 1 \in 0 .. MMMax + 1 /\ Sz \in Nat /\ MapMax * Sz \in Nat
  BY Sizes DEF TblIx
<1>3. q \in File
  BY <1>2 DEF File
<1>4. /\ q.currPgno = 3 /\ q.currPageOfst = 0 /\ q.pgMapCnt = 0 /\ q.uppPageFile = 0
      /\ q.mmTblCurrCnt = 1 /\ q.mmTblCurrIx = NotLoaded /\ q.bPgMapDirty = FALSE
      /\ q.mmTbl[0] = 2 /\ q.uppPgSz = Sz /\ q.nBytesPerPgMap = MapMax * Sz
  BY <1>1, <1>2 DEF File
<1> HIDE DEF q
<1>5. Maps(q) = {0}
  BY <1>4 DEF Maps
<1>6. \A k, i : ~Used(q, k, i)
  BY <1>4, <1>5 DEF Used, MapCnt, MapIx
<1>7. Geometry(q, 0)
  BY <1>4, <1>5 DEF Geometry, LastMap
<1>8. FileInv(q, 0)
  BY <1>3, <1>4, <1>5, <1>6, <1>7 DEF FileInv, Loaded, AllPlaced, AllApart
<1>9. NextPage(q) = 0
  BY <1>4, Sizes DEF NextPage
<1>10. Alike(p, q)
  BY <1>1, <1>4, <1>9 DEF Alike, Answer
<1> QED
  BY <1>8, <1>9, <1>10 DEF q

\* What the next session sees, from page 1 and the lower pages.
LEMMA Views ==
  /\ View = IF mode # "closed" \/ page1 = NoPage1 THEN file ELSE Reopened(page1, file, Sz)
  /\ View' = IF mode' # "closed" \/ page1' = NoPage1 THEN file' ELSE Reopened(page1', file', Sz)
BY DEF View, OpenFile, LoadHeader, LoadMMTbl, Reopened, Sz

\* A closed file is what is on disk.
LEMMA ViewOnDisk ==
  ASSUME IInv, mode = "closed", page1 # NoPage1
  PROVE  View = OnDisk
BY Views DEF IInv, OnDisk

\* A step that an upper pager does not see.
Quiet == IInv' /\ Alike(View, View')

\* Opening a file shows what was there when it was closed.
LEMMA OpenQuiet ==
  ASSUME Sane, IInv, NEW sz \in OpenPgSz, Open(sz)
  PROVE  Quiet
<1>1. /\ mode = "closed" /\ mode' = "rw" /\ file' = OpenFile(file, sz) /\ page1' = page1
      /\ pgSz' = IF NextPage(file') = 0 THEN sz ELSE pgSz
  BY DEF Open
<1>2. sz = Sz /\ Sz \in Nat
  BY Sizes
<1>3. /\ pgSz \in Nat /\ page1 \in Page1 /\ file \in File /\ file = ClosedFile(file)
      /\ page1 # NoPage1 => pgSz = Sz /\ FileInv(OnDisk, 0)
  BY <1>1 DEF IInv
<1>4. View' = file'
  BY <1>1, Views
<1>5. FileInv(file', 0) /\ pgSz' = Sz /\ Alike(View, file')
  <2>1. CASE page1 = NoPage1
    <3>1. file' = [[file EXCEPT !.uppPgSz = Sz, !.nBytesPerPgMap = MapMax * Sz]
                     EXCEPT !.mmTbl[0] = 2, !.mmTblCurrCnt = 1]
      BY <1>1, <1>2, <2>1 DEF OpenFile
    <3>2. FileInv(file', 0) /\ NextPage(file') = 0 /\ Alike(file, file')
      BY <1>3, <3>1, OpenedNew
    <3>3. View = file
      BY <2>1, Views
    <3> QED
      BY <1>1, <1>2, <3>2, <3>3
  <2>2. CASE page1 # NoPage1
    <3>1. file' = OnDisk
      BY <1>1, <1>2, <1>3, <2>2 DEF OpenFile, LoadHeader, LoadMMTbl, Reopened, OnDisk
    <3>2. View = OnDisk
      BY <1>1, <2>2, ViewOnDisk
    <3>3. FileInv(file', 0)
      BY <1>3, <2>2, <3>1
    <3> HIDE DEF OnDisk
    <3>4. Alike(View, file')
      BY <3>1, <3>2 DEF Alike
    <3> QED
      BY <1>1, <1>2, <1>3, <2>2, <3>3, <3>4
  <2> QED
    BY <2>1, <2>2
<1>6. IInv'
  <2>1. file' \in File
    BY <1>5 DEF FileInv
  <2> QED
    BY <1>1, <1>2, <1>3, <1>5, <2>1 DEF IInv
<1> QED
  BY <1>4, <1>5, <1>6 DEF Quiet

\* So does opening it to read.
LEMMA OpenReadOnlyQuiet ==
  ASSUME Sane, IInv, NEW sz \in OpenPgSz, OpenReadOnly(sz)
  PROVE  Quiet
<1>1. /\ mode = "closed" /\ mode' = "ro" /\ file' = OpenFile(file, sz) /\ page1' = page1
      /\ page1 # NoPage1 /\ pgSz' = pgSz
  BY DEF OpenReadOnly
<1>2. sz = Sz
  BY Sizes
<1>3. /\ pgSz \in Nat /\ page1 \in Page1 /\ file \in File /\ file = ClosedFile(file)
      /\ pgSz = Sz /\ FileInv(OnDisk, 0)
  BY <1>1 DEF IInv
<1>4. View' = file'
  BY <1>1, Views
<1>5. file' = OnDisk /\ file' = LoadPagemapData(LoadMMTbl(LoadHeader(
        [file EXCEPT !.uppPgSz = Sz, !.nBytesPerPgMap = MapMax * Sz])), 0)
  BY <1>1, <1>2, <1>3 DEF OpenFile, LoadHeader, LoadMMTbl, Reopened, OnDisk
<1>6. View = OnDisk
  BY <1>1, ViewOnDisk
<1>7. file'.map = file.map /\ file'.bytes = file.bytes /\ file'.nPage = file.nPage
      /\ file'.bPgMapDirty = FALSE
  <2>1. file.bPgMapDirty = FALSE
    <3>1. file = ClosedFile(file)
      BY <1>3
    <3> QED
      BY <3>1 DEF ClosedFile
  <2> QED
    BY <1>3, <1>5, <2>1 DEF LoadPagemapData, LoadMMTbl, LoadHeader, File
<1>8. ClosedFile(file') = file
  BY <1>3, <1>7, ClosedSame
<1>9. OnDisk' = OnDisk
  BY <1>1, <1>3, <1>8, ClosedType DEF OnDisk
<1> HIDE DEF OnDisk
<1>10. ReadOnlyInv'
  BY <1>5, <1>7, <1>9, SamePlacesSelf DEF ReadOnlyInv
<1>11. IInv'
  <2>1. FileInv(file', 0) /\ file' \in File
    BY <1>3, <1>5 DEF FileInv
  <2> QED
    BY <1>1, <1>3, <1>9, <1>10, <2>1 DEF IInv
<1>12. Alike(View, View')
  BY <1>4, <1>5, <1>6 DEF Alike
<1> QED
  BY <1>11, <1>12 DEF Quiet

\* A session that only read leaves what it found.
LEMMA CloseReadOnlyQuiet ==
  ASSUME Sane, IInv, CloseReadOnly
  PROVE  Quiet
<1>1. /\ mode = "ro" /\ mode' = "closed" /\ file' = ClosedFile(file) /\ page1' = page1
      /\ pgSz' = pgSz
  BY DEF CloseReadOnly
<1>2. /\ pgSz \in Nat /\ page1 \in Page1 /\ file \in File /\ FileInv(file, 0)
      /\ page1 # NoPage1 /\ pgSz = Sz /\ FileInv(OnDisk, 0) /\ ReadOnlyInv
  BY <1>1 DEF IInv
<1>3. file' \in File /\ ClosedFile(file') = file'
  BY <1>1, <1>2, ClosedType
<1>4. OnDisk' = OnDisk
  BY <1>1, <1>3 DEF OnDisk
<1>5. View = file
  BY <1>1, Views
<1>6. View' = OnDisk
  BY <1>1, <1>2, <1>3, Views DEF OnDisk
<1> HIDE DEF OnDisk
<1>7. IInv'
  BY <1>1, <1>2, <1>3, <1>4 DEF IInv
<1>8. Alike(OnDisk, file)
  BY <1>2, SameAlike DEF ReadOnlyInv
<1>9. Alike(View, View')
  BY <1>5, <1>6, <1>8 DEF Alike
<1> QED
  BY <1>7, <1>9 DEF Quiet

\* What closing leaves on page 1 is what the file was.
LEMMA Page1Carries ==
  ASSUME Sane, NEW p \in File, NEW s \in File,
         s.currPgno = p.currPgno, s.currPageOfst = p.currPageOfst, s.pgMapCnt = p.pgMapCnt,
         s.uppPageFile = p.uppPageFile, s.uppPgSz = p.uppPgSz, s.lwrPageFile = p.lwrPageFile,
         s.mmTblCurrCnt = p.mmTblCurrCnt, s.mmTbl = p.mmTbl
  PROVE  Page1Of(p) \in Page1 /\ Carries(Page1Of(p), s)
<1>1. p.mmTbl \in [TblIx -> 0 .. MaxPgno] /\ MaxPgno < U16 /\ MaxPgno \in Nat /\ U16 \in Nat
  BY Sizes DEF File
<1>2. SavedTbl(p) = p.mmTbl
  <2>1. \A k \in TblIx : p.mmTbl[k] % U16 = p.mmTbl[k]
    <3> TAKE k \in TblIx
    <3>1. p.mmTbl[k] \in 0 .. U16 - 1
      BY <1>1
    <3> QED
      BY <1>1, <3>1
  <2>2. p.mmTbl = [k \in TblIx |-> p.mmTbl[k]]
    BY <1>1
  <2> QED
    BY <2>1, <2>2 DEF SavedTbl
<1>3. Page1Of(p) \in Page1
  BY <1>2 DEF Page1Of, Page1, SavedPgno, File
<1> QED
  BY <1>2, <1>3 DEF Page1Of, SavedPgno, Carries

\* Closing saves the map and page 1, from which the next session has the same file.
LEMMA CloseQuiet ==
  ASSUME Sane, IInv, Close
  PROVE  Quiet
<1> DEFINE b == BeginTransaction(file)
           n == [b EXCEPT !.nPage = Larger(b.nPage, 1)]
           s == SavePagemapData(n)
           h == Page1Of(b)
           r == Reopened(h, ClosedFile(s), Sz)
<1>1. /\ pgSz \in Nat /\ pgSz = Sz /\ mode = "rw" /\ file \in File /\ FileInv(file, 0)
      /\ file.mmTblCurrCnt >= 1
  BY DEF IInv, Close, FileInv, Geometry
<1>2. b \in File /\ b = [file EXCEPT !.nTransactions = b.nTransactions, !.nPage = b.nPage]
  BY <1>1, Begun
<1>3. /\ page1' = h /\ file' = ClosedFile(s) /\ mode' = "closed" /\ pgSz' = pgSz
  <2>1. n = [b EXCEPT !.nPage = Larger(@, 1)]
    BY <1>2 DEF File
  <2> QED
    BY <2>1 DEF Close
<1> HIDE DEF b
<1>4. /\ n \in File
      /\ n.currPgno = file.currPgno /\ n.currPageOfst = file.currPageOfst
      /\ n.pgMapCnt = file.pgMapCnt /\ n.mmTblCurrCnt = file.mmTblCurrCnt
      /\ n.mmTbl = file.mmTbl /\ n.lwrPageFile = file.lwrPageFile
      /\ n.uppPgSz = file.uppPgSz /\ n.nBytesPerPgMap = file.nBytesPerPgMap
      /\ n.mmTblCurrIx = file.mmTblCurrIx /\ n.bPgMapDirty = file.bPgMapDirty
      /\ n.pPgMap = file.pPgMap /\ n.pBigEndianPgMap = file.pBigEndianPgMap
      /\ n.uppPageFile = file.uppPageFile
      /\ n.map = file.map /\ n.bytes = file.bytes
  <2>1. Larger(b.nPage, 1) \in 0 .. MaxPgno
    <3>1. b.nPage \in 0 .. MaxPgno /\ MaxPgno \in Nat /\ MaxPgno >= 3
      BY <1>2, Sizes DEF File
    <3> QED
      BY <3>1 DEF Larger
  <2> HIDE DEF Larger
  <2> QED
    BY <1>1, <1>2, <2>1 DEF File
<1>5. h \in Page1 /\ Carries(h, n)
  <2>1. /\ b.currPgno = file.currPgno /\ b.currPageOfst = file.currPageOfst
        /\ b.pgMapCnt = file.pgMapCnt /\ b.mmTblCurrCnt = file.mmTblCurrCnt
        /\ b.mmTbl = file.mmTbl /\ b.lwrPageFile = file.lwrPageFile
        /\ b.uppPgSz = file.uppPgSz /\ b.uppPageFile = file.uppPageFile
    BY <1>1, <1>2 DEF File
  <2> HIDE DEF n
  <2> QED
    BY <1>2, <1>4, <2>1, Page1Carries
<1> HIDE DEF n, h
<1>6. SamePlaces(file, n) /\ SameBytes(file, n)
  BY <1>4 DEF SamePlaces, SameBytes, EntryAt, OffMaps, Maps
<1>7. FileInv(n, 0)
  <2>1. Maps(n) = Maps(file) /\ \A k, i : Used(n, k, i) <=> Used(file, k, i)
    BY <1>4 DEF Maps, Used, MapCnt
  <2>2. Loaded(n)
    BY <1>1, <1>4, <2>1 DEF FileInv, Loaded
  <2> QED
    BY <1>1, <1>4, <1>6, <2>2, SamePlacesInv
<1>8. /\ s \in File /\ FileInv(s, 0) /\ SamePlaces(n, s) /\ ~s.bPgMapDirty
      /\ s.uppPageFile = n.uppPageFile /\ s.lwrPageFile = n.lwrPageFile /\ SameBytes(n, s)
  BY <1>7, Saved
<1> HIDE DEF s
<1>9. Carries(h, s)
  BY <1>5, <1>8 DEF Carries, SamePlaces
<1>10. /\ FileInv(r, 0) /\ SamePlaces(s, r) /\ SameBytes(s, r) /\ r.uppPageFile = s.uppPageFile
  BY <1>8, <1>9, ReopenedSame
<1>11. file' \in File /\ ClosedFile(file') = file'
  BY <1>3, <1>8, ClosedType
<1>12. h # NoPage1
  <2>1. h.mmTblCurrCnt >= 1
    BY <1>1, <1>4, <1>5 DEF Carries
  <2> QED
    BY <2>1 DEF NoPage1
<1>13. OnDisk' = r /\ View' = r
  BY <1>3, <1>11, <1>12, Views DEF OnDisk
<1>14. View = file
  BY <1>1, Views
<1> HIDE DEF r
<1>15. IInv'
  BY <1>1, <1>3, <1>5, <1>10, <1>11, <1>13 DEF IInv
<1>16. Alike(file, r)
  <2>1. SamePlaces(file, s) /\ SameBytes(file, s)
    BY <1>6, <1>8, SamePlacesTransitive
  <2>2. SamePlaces(file, r) /\ SameBytes(file, r)
    BY <1>10, <2>1, SamePlacesTransitive
  <2> QED
    BY <1>1, <1>4, <1>8, <1>10, <2>2, SameAlike
<1> QED
  BY <1>13, <1>14, <1>15, <1>16 DEF Quiet

\* PRAGMA page_size with the size the file has changes nothing.
LEMMA PragmaPageSizeQuiet ==
  ASSUME Sane, IInv, NEW sz \in PragmaPgSz, PragmaPageSize(sz)
  PROVE  Quiet
<1>1. mode # "closed" /\ file' = [file EXCEPT !.uppPgSz = sz] /\ page1' = page1 /\ mode' = mode
  BY DEF PragmaPageSize
<1>2. file \in File /\ file.uppPgSz = Sz /\ pgSz = Sz
  BY <1>1 DEF IInv, FileInv, Geometry
<1>3. sz = Sz
  BY Sizes
<1>4. file' = file
  BY <1>1, <1>2, <1>3 DEF File
<1>5. pgSz' = pgSz
  BY <1>2, <1>3 DEF PragmaPageSize
<1>6. OnDisk' = OnDisk
  BY <1>1, <1>4 DEF OnDisk
<1>7. View' = View
  BY <1>1, <1>4, Views
<1> HIDE DEF OnDisk, View
<1>8. ReadOnlyInv' <=> ReadOnlyInv
  BY <1>4, <1>6 DEF ReadOnlyInv
<1>9. IInv'
  BY <1>1, <1>4, <1>5, <1>6, <1>8 DEF IInv
<1> QED
  BY <1>7, <1>9 DEF Quiet, Alike

\* Reading may save one map and load another, which nobody sees.
LEMMA ReadQuiet ==
  ASSUME Sane, IInv, NEW u \in Upp, Read(u)
  PROVE  Quiet
<1> DEFINE q == SwitchPageMap(file, u, "none")
<1>1. /\ mode # "closed" /\ file' = q /\ page1' = page1 /\ mode' = mode /\ pgSz' = pgSz
  BY Sizes DEF Read
<1>2. FileInv(file, 0) /\ pgSz = Sz /\ page1 \in Page1 /\ u \in Nat
  BY <1>1, Sizes DEF IInv
<1>3. /\ FileInv(q, 0) /\ SamePlaces(file, q) /\ SameBytes(file, q)
      /\ q.uppPageFile = file.uppPageFile
      /\ ~file.bPgMapDirty => /\ ~q.bPgMapDirty
                              /\ q.map = file.map /\ q.bytes = file.bytes /\ q.nPage = file.nPage
  BY <1>2, Switched
<1> HIDE DEF q
<1>4. Alike(View, View')
  <2>1. Alike(file, q)
    BY <1>2, <1>3, SameAlike
  <2> QED
    BY <1>1, <2>1, Views
<1>5. mode = "ro" => OnDisk' = OnDisk /\ ReadOnlyInv'
  <2> SUFFICES ASSUME mode = "ro"
               PROVE  OnDisk' = OnDisk /\ ReadOnlyInv'
    OBVIOUS
  <2>1. ReadOnlyInv
    BY DEF IInv
  <2>2. ClosedFile(file') = ClosedFile(file)
    BY <1>1, <1>3, <2>1, ClosedSame DEF ReadOnlyInv
  <2>3. OnDisk' = OnDisk
    BY <1>1, <2>2 DEF OnDisk
  <2> HIDE DEF OnDisk
  <2>4. SamePlaces(OnDisk, q) /\ SameBytes(OnDisk, q)
    BY <1>3, <2>1, SamePlacesTransitive DEF ReadOnlyInv
  <2>5. ReadOnlyInv'
    BY <1>1, <1>3, <2>1, <2>3, <2>4 DEF ReadOnlyInv
  <2> QED
    BY <2>3, <2>5
<1>6. IInv'
  <2>1. q \in File
    BY <1>3 DEF FileInv
  <2> QED
    BY <1>1, <1>2, <1>3, <1>5, <2>1 DEF IInv
<1> QED
  BY <1>4, <1>6 DEF Quiet

-----------------------------------------------------------------------------
(* Writing.                                                                *)

\* Page u answers c, the pages it skips are holes, all others answer as before.
Answers(p, q, u, c) ==
  /\ \A v \in Nat : v < NextPage(p) /\ v # u => Answer(q, v) = Answer(p, v)
  /\ \A v \in Nat : NextPage(p) <= v /\ v < u => Answer(q, v) = Hole
  /\ \A v \in Nat : NextPage(p) <= v /\ u < v => Answer(q, v) = Absent
  /\ Answer(q, u) = c
  /\ p.mmTblCurrCnt # 0

\* A step that gives page u its answer.
Loud(u) ==
  /\ IInv' /\ Further(View, View') /\ FileInv(View, 0) /\ FileInv(View', 0)
  /\ View'.uppPageFile \in {View.uppPageFile, Larger(View.uppPageFile, u + 1)}

\* Once the map is set, page u answers something and all others as they should.
LEMMA SetAnswers ==
  ASSUME Sane, NEW p, FileInv(p, 0), NEW u \in Nat, NEW sz \in CmpSizes, NEW q, Set(p, q, u, sz)
  PROVE  Answers(p, q, u, Answer(q, u)) /\ Answer(q, u) \in Data \cup {Hole, Garbage}
<1>1. /\ p.mmTblCurrCnt >= 1 /\ p \in File /\ q \in File /\ q.mmTblCurrCnt >= 1 /\ FileInv(q, 0)
      /\ NextPage(q) = Larger(NextPage(p), u + 1) /\ SameBytes(p, q)
      /\ p.mmTblCurrCnt # 0 /\ q.mmTblCurrCnt # 0
  <2>1. p.mmTblCurrCnt >= 1 /\ p \in File /\ q \in File /\ q.mmTblCurrCnt >= 1
    BY DEF Set, FileInv, Geometry
  <2>2. p.mmTblCurrCnt # 0 /\ q.mmTblCurrCnt # 0
    BY <2>1
  <2> QED
    BY <2>1, <2>2 DEF Set
<1>2. NextPage(p) \in Nat /\ u < NextPage(q)
      /\ \A v \in Nat : v < NextPage(q) <=> v < NextPage(p) \/ v <= u
  <2>1. NextPage(p) \in Nat
    BY <1>1, UsedBelow
  <2> QED
    BY <1>1, <2>1 DEF Larger
<1>3. ASSUME NEW v \in Nat, v < NextPage(p), v # u
      PROVE  Answer(q, v) = Answer(p, v)
  <2> DEFINE e == Place(p, v)
  <2>1. Place(q, v) = e
    BY <1>3 DEF Set
  <2>2. e.cmprSz # 0 => e.lwrPgno \in OffMaps(q)
    BY <1>1, <1>2, <1>3, <2>1, PlaceOf
  <2> HIDE DEF e
  <2>3. e.cmprSz # 0 => Contents(q, e, v) = Contents(p, e, v)
    <3>1. e.cmprSz # 0 => q.bytes[e.lwrPgno] = p.bytes[e.lwrPgno]
      BY <1>1, <2>2 DEF SameBytes
    <3> QED
      BY <3>1, ZenonT(40) DEF Contents
  <2>4. v < NextPage(q)
    BY <1>2, <1>3
  <2> QED
    BY <1>1, <1>3, <2>1, <2>3, <2>4 DEF Answer, e
<1>4. ASSUME NEW v \in Nat, NextPage(p) <= v, v < u
      PROVE  Answer(q, v) = Hole
  <2>1. Place(q, v).cmprSz = 0
    BY <1>4 DEF Set
  <2>2. v < NextPage(q)
    BY <1>2, <1>4
  <2> QED
    BY <1>1, <2>1, <2>2 DEF Answer
<1>5. ASSUME NEW v \in Nat, NextPage(p) <= v, u < v
      PROVE  Answer(q, v) = Absent
  <2>1. ~(v < NextPage(q))
    BY <1>2, <1>5
  <2> QED
    BY <2>1 DEF Answer
<1>6. Answer(q, u) \in Data \cup {Hole, Garbage}
  BY <1>1, <1>2, AnswerType
<1> QED
  BY <1>1, <1>3, <1>4, <1>5, <1>6 DEF Answers

\* A write that fails has given its page a place with bytes of something else.
LEMMA WriteFailsLoud ==
  ASSUME Sane, IInv, NEW u \in Upp, NEW sz \in CmpSizes, WriteFails(u, sz)
  PROVE  /\ Loud(u) /\ View'.uppPageFile = View.uppPageFile
         /\ \E c \in Data \cup {Hole, Garbage} : Answers(View, View', u, c)
<1> DEFINE q == PageMapSet(file, u, sz, "none")
<1>1. /\ mode = "rw" /\ file' = q /\ page1' = page1 /\ mode' = mode /\ pgSz' = pgSz
      /\ InBounds(file, u)
  BY Sizes DEF WriteFails, Writable
<1>2. FileInv(file, 0) /\ pgSz = Sz /\ page1 \in Page1 /\ u \in Nat
  BY <1>1, Sizes DEF IInv
<1>3. Set(file, q, u, sz)
  BY <1>1, <1>2, PageMapSetSets
<1> HIDE DEF q
<1>4. Answers(file, q, u, Answer(q, u)) /\ Answer(q, u) \in Data \cup {Hole, Garbage}
  BY <1>2, <1>3, SetAnswers
<1>5. View = file /\ View' = file'
  BY <1>1, Views
<1>6. IInv'
  <2>1. FileInv(q, 0) /\ q \in File
    BY <1>3 DEF Set, FileInv
  <2> QED
    BY <1>1, <1>2, <2>1 DEF IInv
<1>7. Loud(u) /\ View'.uppPageFile = View.uppPageFile
  BY <1>1, <1>2, <1>3, <1>5, <1>6 DEF Loud, Set
<1> QED
  BY <1>1, <1>4, <1>5, <1>7

\* A write gives its page a place and puts its bytes there.
LEMMA WriteLoud ==
  ASSUME Sane, IInv, NEW u \in Upp, NEW sz \in CmpSizes, NEW d \in Data, Write(u, d, sz)
  PROVE  /\ Loud(u) /\ View'.uppPageFile = Larger(View.uppPageFile, u + 1)
         /\ Answers(View, View', u, d)
<1> DEFINE q == PageMapSet(file, u, sz, "none")
           e == SlotOf(file, q, u, "none")
           r == [WriteSlot(q, e.lwrPgno, e.cmprOfst, e.cmprSz, <<u, d>>) EXCEPT
                   !.uppPageFile = Larger(@, u + 1), !.lwrPageFile = Larger(@, e.lwrPgno)]
<1>1. /\ mode = "rw" /\ page1' = page1 /\ mode' = mode /\ pgSz' = pgSz /\ InBounds(file, u)
      /\ file' = [WriteSlot(q, e.lwrPgno, e.cmprOfst, sz, <<u, d>>) EXCEPT
                    !.uppPageFile = Larger(@, u + 1), !.lwrPageFile = Larger(@, e.lwrPgno)]
  BY Sizes DEF Write, Writable
<1>2. FileInv(file, 0) /\ pgSz = Sz /\ page1 \in Page1 /\ u \in Nat
  BY <1>1, Sizes DEF IInv
<1>3. Set(file, q, u, sz) /\ Place(q, u) = e
  BY <1>1, <1>2, PageMapSetSets
<1> HIDE DEF q
<1>4. Answers(file, q, u, Answer(q, u))
  BY <1>2, <1>3, SetAnswers
<1>5. e.cmprSz = sz /\ e.cmprSz # 0 /\ FileInv(q, 0) /\ u < NextPage(q)
  <2>1. e.cmprSz = sz /\ FileInv(q, 0) /\ NextPage(q) = Larger(NextPage(file), u + 1)
    BY <1>3 DEF Set
  <2>2. sz # 0
    BY Sizes
  <2>3. NextPage(file) \in Nat
    BY <1>2, UsedBelow DEF FileInv, Geometry
  <2> QED
    BY <1>2, <2>1, <2>2, <2>3 DEF Larger
<1> HIDE DEF e
<1>6. file' = r
  BY <1>1, <1>5
<1>7. Stored(q, r, u, d)
  BY <1>3, <1>5, BytesWritten
<1> HIDE DEF r
<1>8. View = file /\ View' = r
  BY <1>1, <1>6, Views
<1>9. IInv'
  <2>1. FileInv(r, 0) /\ r \in File
    BY <1>7 DEF Stored, FileInv
  <2> QED
    BY <1>1, <1>2, <1>6, <2>1 DEF IInv
<1>10. Further(file, r) /\ r.uppPageFile = Larger(file.uppPageFile, u + 1)
  BY <1>3, <1>7 DEF Set, Stored, SamePlaces, Further
<1>11. Answers(file, r, u, d)
  BY <1>2, <1>4, <1>7 DEF Answers, Stored
<1> QED
  BY <1>2, <1>7, <1>8, <1>9, <1>10, <1>11 DEF Loud, Stored

-----------------------------------------------------------------------------
(* The invariant is inductive.                                             *)

\* There is no file at first.
LEMMA InitIInv ==
  ASSUME Sane, Init
  PROVE  IInv
<1> DEFINE m == [g \in Pgno |-> NoMap]
           b == [g \in Pgno |-> NoBytes]
<1>1. file = ClosedFile([map |-> m, bytes |-> b, nPage |-> 0])
  BY DEF Init
<1>2. m \in [Pgno -> Map] /\ b \in [Pgno -> Bytes] /\ 0 \in 0 .. MaxPgno
  BY NoMapType, Sizes
<1>3. /\ 3 \in Pgno /\ 0 \in 0 .. PageSize /\ 0 \in 0 .. MapMax
      /\ 0 \in 0 .. MMMax + 1 /\ NoTbl \in [TblIx -> 0 .. MaxPgno]
  BY Sizes DEF Pgno, NoTbl
<1> HIDE DEF m, b
<1>4. file \in File
  BY <1>1, <1>2, <1>3, NoMapType DEF ClosedFile, File
<1>5. file = ClosedFile(file)
  BY <1>1 DEF ClosedFile
<1>6. NoPage1 \in Page1
  BY <1>2, <1>3 DEF NoPage1, Page1
<1> QED
  BY <1>4, <1>5, <1>6 DEF IInv, Init

\* Every step is one an upper pager does not see, or gives one page its answer.
LEMMA Steps ==
  ASSUME Sane, IInv, [Next]_vars
  PROVE  \/ Quiet
         \/ \E u \in Upp : Loud(u) /\ \E d \in Data :
              Answers(View, View', u, d) /\ View'.uppPageFile = Larger(View.uppPageFile, u + 1)
         \/ \E u \in Upp : Loud(u) /\ \E c \in Data \cup {Hole, Garbage} :
              Answers(View, View', u, c) /\ View'.uppPageFile = View.uppPageFile
<1>1. CASE UNCHANGED vars
  <2>1. View' = View /\ OnDisk' = OnDisk
    BY <1>1, Views DEF vars, OnDisk
  <2> HIDE DEF OnDisk, View
  <2>2. ReadOnlyInv' <=> ReadOnlyInv
    BY <1>1, <2>1 DEF ReadOnlyInv, vars
  <2>3. IInv'
    BY <1>1, <2>1, <2>2 DEF IInv, vars
  <2> QED
    BY <2>1, <2>3 DEF Quiet, Alike
<1>2. CASE \E sz \in OpenPgSz : Open(sz) \/ OpenReadOnly(sz)
  BY <1>2, OpenQuiet, OpenReadOnlyQuiet
<1>3. CASE Close \/ CloseReadOnly
  BY <1>3, CloseQuiet, CloseReadOnlyQuiet
<1>4. CASE \E sz \in PragmaPgSz : PragmaPageSize(sz)
  BY <1>4, PragmaPageSizeQuiet
<1>5. CASE \E u \in Upp : Read(u)
  BY <1>5, ReadQuiet
<1>6. CASE \E u \in Upp, sz \in CmpSizes : WriteFails(u, sz)
  BY <1>6, WriteFailsLoud
<1>7. CASE \E u \in Upp, sz \in CmpSizes : \E d \in Data : Write(u, d, sz)
  BY <1>7, WriteLoud
<1> QED
  BY <1>1, <1>2, <1>3, <1>4, <1>5, <1>6, <1>7 DEF Next

\* Every step keeps the invariant.
LEMMA NextIInv ==
  ASSUME Sane, IInv, [Next]_vars
  PROVE  IInv'
BY Steps DEF Quiet, Loud

\* The invariant from which the others follow.
THEOREM IndInv ==
  ASSUME Sane
  PROVE  Spec => []IInv
<1>1. Init => IInv
  BY InitIInv
<1>2. IInv /\ [Next]_vars => IInv'
  BY NextIInv
<1> QED
  BY <1>1, <1>2, PTL DEF Spec

-----------------------------------------------------------------------------
(* What follows from it.                                                   *)

\* What the next session sees is in order, or empty.
LEMMA ViewInv ==
  ASSUME Sane, IInv
  PROVE  View \in File /\ (FileInv(View, 0) \/ (View.mmTblCurrCnt = 0 /\ Maps(View) = {}))
<1>1. CASE mode # "closed"
  BY <1>1, Views DEF IInv, FileInv
<1>2. CASE mode = "closed" /\ page1 # NoPage1
  BY <1>2, ViewOnDisk DEF IInv, FileInv
<1>3. CASE mode = "closed" /\ page1 = NoPage1
  <2>1. View = file /\ file \in File /\ file = ClosedFile(file)
    BY <1>3, Views DEF IInv
  <2>2. file.mmTblCurrCnt = 0
    BY <2>1, ClosedType
  <2> QED
    BY <2>1, <2>2 DEF Maps
<1> QED
  BY <1>1, <1>2, <1>3

\* A slot is an entry in use that has bytes.
LEMMA SlotUsed ==
  ASSUME NEW p, NEW s \in Slots(p)
  PROVE  /\ s = <<s[1], s[2]>> /\ s[1] \in Maps(p) /\ s[2] \in MapIx /\ Used(p, s[1], s[2])
         /\ EntryAt(p, s[1], s[2]).cmprSz > 0
BY DEF Slots, Used

\* The variables have their types: offsets stay within a page, map and table
\* indexes within their arrays, whatever is written and however it fails.
THEOREM TypeCorrect ==
  ASSUME Sane
  PROVE  Spec => []TypeOK
<1>1. IInv => TypeOK
  BY DEF IInv, File, TypeOK
<1> QED
  BY <1>1, IndInv, PTL

\* Two upper pages never share a byte of the lower file, in memory, on disk, or
\* after any mixture of growing, shrinking, skipping and failing writes.
THEOREM Disjoint ==
  ASSUME Sane
  PROVE  Spec => []SlotsDisjoint
<1>1. IInv => SlotsDisjoint
  <2> SUFFICES ASSUME IInv, NEW s \in Slots(View), NEW t \in Slots(View), s # t,
                      NEW x \in Extent(View, s), x \in Extent(View, t)
               PROVE  FALSE
    BY DEF SlotsDisjoint
  <2> DEFINE e == EntryAt(View, s[1], s[2])
             f == EntryAt(View, t[1], t[2])
  <2>1. /\ s = <<s[1], s[2]>> /\ s[1] \in Maps(View) /\ s[2] \in MapIx /\ Used(View, s[1], s[2])
        /\ t = <<t[1], t[2]>> /\ t[1] \in Maps(View) /\ t[2] \in MapIx /\ Used(View, t[1], t[2])
        /\ e.cmprSz > 0 /\ f.cmprSz > 0
    BY SlotUsed
  <2>2. FileInv(View, 0)
    BY <2>1, ViewInv
  <2>3. e \in Entry /\ f \in Entry
    BY <2>1, <2>2, EntryType
  <2>4. <<s[1], s[2]>> # <<t[1], t[2]>>
    BY <2>1
  <2>5. Apart(e, f)
    BY <2>1, <2>2, <2>4 DEF FileInv, AllApart
  <2>6. PICK o \in e.cmprOfst .. e.cmprOfst + e.cmprSz - 1 : x = <<e.lwrPgno, o>>
    BY DEF Extent
  <2>7. PICK n \in f.cmprOfst .. f.cmprOfst + f.cmprSz - 1 : x = <<f.lwrPgno, n>>
    BY DEF Extent
  <2> HIDE DEF e, f
  <2>8. e.lwrPgno = f.lwrPgno /\ o = n
    BY <2>6, <2>7
  <2>9. e.cmprOfst \in Int /\ e.cmprSz \in Int /\ f.cmprOfst \in Int /\ f.cmprSz \in Int
    BY <2>3, Sizes DEF Entry
  <2> QED
    BY <2>1, <2>5, <2>6, <2>7, <2>8, <2>9 DEF Apart
<1> QED
  BY <1>1, IndInv, PTL

\* A compressed page lies within one lower page, and that page holds no page map.
THEOREM Placement ==
  ASSUME Sane
  PROVE  Spec => []SlotsPlaced
<1>1. IInv => SlotsPlaced
  <2> SUFFICES ASSUME IInv, NEW s \in Slots(View)
               PROVE  /\ \A b \in Extent(View, s) : b[2] < PageSize
                      /\ \A k \in Maps(View) : EntryAt(View, s[1], s[2]).lwrPgno # View.mmTbl[k]
    BY DEF SlotsPlaced, SlotInPage, SlotsAvoidMaps
  <2> DEFINE e == EntryAt(View, s[1], s[2])
  <2>1. s[1] \in Maps(View) /\ s[2] \in MapIx /\ Used(View, s[1], s[2]) /\ e.cmprSz > 0
    BY SlotUsed
  <2>2. FileInv(View, 0)
    BY <2>1, ViewInv
  <2>3. e \in Entry
    BY <2>1, <2>2, EntryType
  <2>4. Placed(View, e)
    BY <2>1, <2>2 DEF FileInv, AllPlaced
  <2>5. \A b \in Extent(View, s) : \E o \in e.cmprOfst .. e.cmprOfst + e.cmprSz - 1 :
          b = <<e.lwrPgno, o>>
    BY DEF Extent
  <2> HIDE DEF e
  <2>6. e.cmprOfst \in Int /\ e.cmprSz \in Int /\ PageSize \in Int
    BY <2>3, Sizes DEF Entry
  <2> QED
    BY <2>1, <2>4, <2>5, <2>6 DEF Placed, e
<1> QED
  BY <1>1, IndInv, PTL

\* No two page maps share a lower page, whichever were made while pages were
\* skipped or writes failed.
THEOREM MapPages ==
  ASSUME Sane
  PROVE  Spec => []MapPagesDistinct
<1>1. IInv => MapPagesDistinct
  <2> SUFFICES ASSUME IInv, NEW j \in Maps(View), NEW k \in Maps(View), j # k
               PROVE  View.mmTbl[j] # View.mmTbl[k]
    BY DEF MapPagesDistinct
  <2>1. FileInv(View, 0)
    BY ViewInv
  <2> QED
    BY <2>1 DEF FileInv, Geometry
<1> QED
  BY <1>1, IndInv, PTL

\* The space handed out only grows, within a session and across sessions.
LEMMA FurtherGrows ==
  ASSUME Sane, NEW p \in File, NEW q \in File, Further(p, q)
  PROVE  Frontier(q) >= Frontier(p)
<1>1. /\ p.currPgno \in Nat /\ q.currPgno \in Nat /\ PageSize \in Nat
      /\ p.currPageOfst \in 0 .. PageSize /\ q.currPageOfst \in 0 .. PageSize
  <2>1. p.currPgno \in 1 .. MaxPgno /\ q.currPgno \in 1 .. MaxPgno
    BY DEF File, Pgno
  <2>2. p.currPageOfst \in 0 .. PageSize /\ q.currPageOfst \in 0 .. PageSize
    BY DEF File
  <2> QED
    BY <2>1, <2>2, Sizes
<1>2. CASE q.currPgno = p.currPgno
  BY <1>1, <1>2 DEF Further, Frontier
<1>3. CASE q.currPgno > p.currPgno
  <2> DEFINE a == p.currPgno
             b == q.currPgno
             m == PageSize + 1
  <2>1. (a + 1) * m <= b * m
    BY <1>1, <1>3, TimesMonotone
  <2>2. (a + 1) * m = a * m + m
    BY <1>1
  <2>3. a * m \in Int /\ b * m \in Int /\ m \in Int
    BY <1>1
  <2> DEFINE x == a * m
             y == b * m
  <2>4. x + m <= y /\ x \in Int /\ y \in Int
    BY <2>1, <2>2, <2>3
  <2>5. Frontier(p) = x + p.currPageOfst /\ Frontier(q) = y + q.currPageOfst
    BY DEF Frontier
  <2> HIDE DEF x, y
  <2> QED
    BY <1>1, <2>3, <2>4, <2>5
<1> QED
  BY <1>2, <1>3 DEF Further

\* No step, closing and reopening included, takes the frontier back: a place that
\* was given up is never given out again.
THEOREM SpaceGrows ==
  ASSUME Sane
  PROVE  Spec => SpaceOnlyGrows
<1>1. IInv /\ [Next]_vars => [Frontier(View') >= Frontier(View)]_vars
  <2> SUFFICES ASSUME IInv, [Next]_vars
               PROVE  Frontier(View') >= Frontier(View)
    OBVIOUS
  <2>1. View \in File
    BY ViewInv
  <2>2. (\E u \in Upp : Loud(u)) => Frontier(View') >= Frontier(View)
    <3> SUFFICES ASSUME NEW u \in Upp, Loud(u)
                 PROVE  Frontier(View') >= Frontier(View)
      OBVIOUS
    <3>1. View' \in File
      BY DEF Loud, FileInv
    <3> QED
      BY <2>1, <3>1, FurtherGrows DEF Loud
  <2>3. Quiet => Frontier(View') = Frontier(View)
    BY DEF Quiet, Alike, Frontier
  <2>4. Frontier(View) \in Int
    <3>1. View.currPgno \in 1 .. MaxPgno /\ View.currPageOfst \in 0 .. PageSize
      BY <2>1 DEF File, Pgno
    <3>2. View.currPgno \in Int /\ View.currPageOfst \in Int /\ PageSize \in Int
      BY <3>1, Sizes
    <3> HIDE DEF View
    <3> QED
      BY <3>2 DEF Frontier
  <2> QED
    BY <2>2, <2>3, <2>4, Steps
<1> QED
  BY <1>1, IndInv, PTL DEF Spec, SpaceOnlyGrows

-----------------------------------------------------------------------------
(* CEVFS implements the page store.                                        *)

\* What an upper pager sees, from the places of the pages.
ShownOf(p) == [store |-> [u \in Upp |-> Answer(p, u)], size |-> p.uppPageFile]
Shown == ShownOf(View)

\* The page store that stands for answers s.
StoreOf(s) == [store |-> [u \in Upp |-> AsHole(s.store[u])], size |-> s.size]

\* What cevfsRead and cevfsFileSize answer depends on places and bytes alone.
LEMMA SeenShown ==
  ASSUME Sane, AnswersApart
  PROVE  /\ \A p : FileInv(p, 0) /\ pgSz = Sz => StoreOf(Seen(p)) = ShownOf(p)
         /\ \A p : p.mmTblCurrCnt = 0 => StoreOf(Seen(p)) = ShownOf(p)
<1>1. ASSUME NEW p, NEW u \in Upp, FileInv(p, 0), pgSz = Sz
      PROVE  AsHole(ReadBack(p, u)) = Answer(p, u)
  BY <1>1, Sizes, ReadBackAnswer
<1>2. ASSUME NEW p, NEW u \in Upp, p.mmTblCurrCnt = 0
      PROVE  AsHole(ReadBack(p, u)) = Answer(p, u)
  BY <1>2 DEF ReadBack, Answer, AsHole, AnswersApart
<1>3. ASSUME NEW p
      PROVE  /\ StoreOf(Seen(p)).size = p.uppPageFile
             /\ StoreOf(Seen(p)).store = [u \in Upp |-> AsHole(ReadBack(p, u))]
  BY DEF Seen, StoreOf, FileSize
<1>4. ASSUME NEW p, \A u \in Upp : AsHole(ReadBack(p, u)) = Answer(p, u)
      PROVE  StoreOf(Seen(p)) = ShownOf(p)
  BY <1>3, <1>4 DEF StoreOf, ShownOf
<1> QED
  BY <1>1, <1>2, <1>4

\* The page size is set in every state in which there are pages to see.
LEMMA ViewSized ==
  ASSUME Sane
  PROVE  IInv => (FileInv(View, 0) /\ pgSz = Sz) \/ View.mmTblCurrCnt = 0
<1> SUFFICES ASSUME IInv, View.mmTblCurrCnt # 0
             PROVE  FileInv(View, 0) /\ pgSz = Sz
  OBVIOUS
<1>1. mode # "closed" \/ page1 # NoPage1
  <2> SUFFICES ASSUME mode = "closed", page1 = NoPage1
               PROVE  FALSE
    OBVIOUS
  <2>1. View = file /\ file \in File /\ file = ClosedFile(file)
    BY Views DEF IInv
  <2> QED
    BY <2>1, ClosedType
<1>2. pgSz = Sz
  BY <1>1 DEF IInv
<1> QED
  BY <1>2, ViewInv

\* A step that gives one page its answer puts it into the store.
LEMMA PutsAnswer ==
  ASSUME Sane, AnswersApart, IInv, NEW u \in Upp, Loud(u), NEW c, Answers(View, View', u, c),
         StoreOf(seen) = Shown, StoreOf(seen') = Shown'
  PROVE  Store!Put(u, c)
<1> DEFINE n == NextPage(View)
<1>1. \A v \in Upp : /\ AsHole(seen.store[v]) = Answer(View, v)
                     /\ AsHole(seen'.store[v]) = Answer(View', v)
  BY DEF Shown, ShownOf, StoreOf
<1>2. FileInv(View, 0) /\ u \in Nat /\ Upp \subseteq Nat
  BY Sizes DEF Loud
<1>3. n \in Nat /\ View.mmTblCurrCnt # 0
  BY <1>2, UsedBelow DEF FileInv, Geometry
<1>4. \A v \in Upp : (Answer(View, v) = Absent) <=> ~(v < n)
  BY <1>3, AnswerType DEF AnswersApart
<1>5. ASSUME NEW v \in Upp
      PROVE  Answer(View', v) = IF v = u THEN c
                                ELSE IF v < u /\ Answer(View, v) = Absent THEN Hole
                                ELSE Answer(View, v)
  <2>1. v \in Nat /\ (v < n \/ n <= v) /\ (v = u \/ v < u \/ u < v)
    BY <1>2, <1>3
  <2>2. CASE v = u
    BY <2>2 DEF Answers
  <2>3. CASE v # u /\ v < n
    BY <1>4, <2>1, <2>3 DEF Answers
  <2>4. CASE n <= v /\ v < u
    <3>1. ~(v < n) /\ v # u
      BY <1>2, <1>3, <2>1, <2>4
    <3> QED
      BY <1>4, <2>1, <2>4, <3>1 DEF Answers
  <2>5. CASE n <= v /\ u < v
    <3>1. ~(v < n) /\ v # u /\ ~(v < u)
      BY <1>2, <1>3, <2>1, <2>5
    <3> QED
      BY <1>4, <2>1, <2>5, <3>1 DEF Answers
  <2> QED
    BY <2>1, <2>2, <2>3, <2>4, <2>5
<1> QED
  BY <1>1, <1>5 DEF Store!Put

\* What a step of the file does to the page store.
LEMMA StoreSteps ==
  ASSUME Sane, AnswersApart, IInv, [Next]_vars, StoreOf(seen) = Shown, StoreOf(seen') = Shown'
  PROVE  [Store!Next]_Store!vars
<1>1. seen.size = View.uppPageFile /\ seen'.size = View'.uppPageFile
  BY DEF Shown, ShownOf, StoreOf
<1>2. CASE Quiet
  <2>1. \A u \in Upp : Answer(View', u) = Answer(View, u)
    BY <1>2, Sizes DEF Quiet, Alike
  <2>2. View'.uppPageFile = View.uppPageFile
    BY <1>2 DEF Quiet, Alike
  <2> HIDE DEF View
  <2>3. (\A u \in Upp : AsHole(seen'.store[u]) = AsHole(seen.store[u])) /\ seen'.size = seen.size
    BY <2>1, <2>2 DEF Shown, ShownOf, StoreOf
  <2> QED
    BY <2>3 DEF Store!vars
<1>3. ASSUME NEW u \in Upp, Loud(u), NEW d \in Data, Answers(View, View', u, d),
             View'.uppPageFile = Larger(View.uppPageFile, u + 1)
      PROVE  Store!Next
  <2>1. Store!Put(u, d)
    BY <1>3, PutsAnswer
  <2>2. seen'.size = Store!Larger(seen.size, u + 1)
    BY <1>1, <1>3 DEF Larger, Store!Larger
  <2> QED
    BY <2>1, <2>2 DEF Store!Next, Store!Write
<1>4. ASSUME NEW u \in Upp, Loud(u), NEW c \in Data \cup {Hole, Garbage},
             Answers(View, View', u, c), View'.uppPageFile = View.uppPageFile
      PROVE  Store!Next
  <2>1. Store!Put(u, c)
    BY <1>4, PutsAnswer
  <2>2. seen'.size = seen.size
    BY <1>1, <1>4
  <2> QED
    BY <2>1, <2>2 DEF Store!Next, Store!WriteFails, Store!Content
<1> QED
  BY <1>2, <1>3, <1>4, Steps

\* A page reads as it was last written, whatever is written, or fails to be
\* written, elsewhere; sessions, page maps and placement are invisible.
THEOREM Implements ==
  ASSUME Sane, AnswersApart
  PROVE  StoreSpec => ImplementsPageStore
<1> DEFINE SInv == IInv /\ StoreOf(seen) = Shown
<1>1. StoreInit => SInv
  <2> SUFFICES ASSUME StoreInit
               PROVE  SInv
    OBVIOUS
  <2>1. IInv /\ seen = Seen(View)
    BY InitIInv DEF StoreInit
  <2>2. StoreOf(Seen(View)) = ShownOf(View)
    BY <2>1, ViewSized, SeenShown
  <2> QED
    BY <2>1, <2>2 DEF Shown
<1>2. /\ (\A p : FileInv(p, 0) /\ pgSz = Sz => StoreOf(Seen(p)) = ShownOf(p))'
      /\ (\A p : p.mmTblCurrCnt = 0 => StoreOf(Seen(p)) = ShownOf(p))'
      /\ (IInv => (FileInv(View, 0) /\ pgSz = Sz) \/ View.mmTblCurrCnt = 0)'
  BY SeenShown, ViewSized, PTL
<1>3. SInv /\ [StoreNext]_<<vars, seen>> => SInv'
  <2> SUFFICES ASSUME SInv, [StoreNext]_<<vars, seen>>
               PROVE  SInv'
    OBVIOUS
  <2>1. IInv'
    BY NextIInv DEF StoreNext
  <2>2. CASE StoreNext
    <3>1. PICK p \in {View'} : seen' = Seen(p)'
      BY <2>2 DEF StoreNext
    <3>2. p = View'
      OBVIOUS
    <3>3. (FileInv(p, 0) /\ pgSz' = Sz) \/ p.mmTblCurrCnt = 0
      BY <1>2, <2>1, <3>2
    <3>4. StoreOf(Seen(p)') = ShownOf(p)
      BY <1>2, <3>3
    <3> QED
      BY <2>1, <3>1, <3>2, <3>4 DEF Shown
  <2>3. CASE UNCHANGED <<vars, seen>>
    <3>1. View' = View
      BY <2>3, Views DEF vars
    <3> HIDE DEF View
    <3>2. Shown' = Shown
      BY <3>1 DEF Shown
    <3> QED
      BY <2>1, <2>3, <3>2
  <2> QED
    BY <2>2, <2>3
<1>4. StoreInit => Store!Init
  <2> SUFFICES ASSUME StoreInit
               PROVE  Store!Init
    OBVIOUS
  <2>1. IInv /\ StoreOf(seen) = Shown
    BY <1>1
  <2>2. View = file /\ file \in File /\ file = ClosedFile(file)
    BY <2>1, Views DEF StoreInit, Init, IInv
  <2>3. file.mmTblCurrCnt = 0 /\ file.uppPageFile = 0
    BY <2>2, ClosedType
  <2>4. \A u \in Upp : Answer(View, u) = Absent
    BY <2>2, <2>3 DEF Answer
  <2> HIDE DEF View
  <2> QED
    BY <2>1, <2>2, <2>3, <2>4 DEF Shown, ShownOf, StoreOf, Store!Init
<1>5. SInv /\ SInv' /\ [StoreNext]_<<vars, seen>> => [Store!Next]_Store!vars
  BY StoreSteps DEF StoreNext
<1> QED
  BY <1>1, <1>3, <1>4, <1>5, PTL DEF StoreSpec, ImplementsPageStore, Store!Spec
=============================================================================
