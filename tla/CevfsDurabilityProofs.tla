----------------------- MODULE CevfsDurabilityProofs -----------------------
(***************************************************************************)
(* Proofs about CevfsDurability, for every set of connections and pages    *)
(* and every bound.                                                        *)
(***************************************************************************)
EXTENDS CevfsDurability, TLAPS

\* A transaction belongs to an open connection, and one that is still to be
\* written can be numbered, unless another connection is in its way for good.
TxnOpen == \A c \in Conn : txn[c] # "none" => st[c] = "open"
Numbered == \A c \in Conn :
  txn[c] \in {"active", "spilled", "synced"} => nTxn < MaxTxn \/ reserved \notin {None, c}

\* A number that is not yet given belongs to pages an open transaction spilled.
Own(c, p) ==
  cache[c][p] = nTxn + 1 /\ p \in pages[c] /\ txn[c] \in {"spilled", "synced"} /\ reserved = c
Dated ==
  /\ \A p \in Page : disk[p] <= nTxn /\ journal.orig[p] <= nTxn
  /\ \A c \in Conn, p \in Page : before[c][p] <= nTxn
  /\ \A c \in Conn, p \in Page : st[c] # "closed" => cache[c][p] <= nTxn \/ Own(c, p)

Typed == TypeOK /\ TxnOpen /\ Numbered
TypeInv == Typed /\ Dated

Journals == [owner : Conn \cup {None}, saved : SUBSET Page, synced : SUBSET Page, orig : Db]

\* Pages of one database laid over another make a database.
LEMMA OverlayType ==
  ASSUME NEW db \in Db, NEW v \in Db, NEW ps \in SUBSET Page
  PROVE  Overlay(db, ps, v) \in Db
BY DEF Overlay, Db

\* The blank database is one, and no journal has the type of one.
LEMMA BlankType == Blank \in Db /\ NoJournal \in Journals
BY BoundsAssumption DEF NoJournal, Journals, Blank, Db

\* A write that is refused leaves databases.
LEMMA RefusedType ==
  ASSUME cache \in [Conn -> Db], NEW c \in Conn, NEW ps \in SUBSET Page, Refused(c, ps)
  PROVE  cache' \in [Conn -> Db]
<1>1. CASE cache' = cache
  BY <1>1
<1>2. ASSUME NEW p \in ps, cache' = [cache EXCEPT ![c][p] = Lost] PROVE cache' \in [Conn -> Db]
  <2>1. [cache[c] EXCEPT ![p] = Lost] \in Db
    BY DEF Db
  <2> QED
    BY <1>2, <2>1
<1>3. cache' = cache \/ \E p \in ps : cache' = [cache EXCEPT ![c][p] = Lost]
  BY DEF Refused
<1> QED
  BY <1>1, <1>2, <1>3

\* What is in the journal file is of its type, and stays so when it is synced.
LEMMA SyncedType == ASSUME TypeOK, NEW c \in Conn PROVE Synced(c) \in Journals
BY DEF TypeOK, Synced, Journals

\* Nothing is open and nothing numbered at first.
LEMMA TypeInit == Init => TypeInv
<1> SUFFICES ASSUME Init PROVE TypeInv
  OBVIOUS
<1>1. TypeOK
  <2>1. /\ disk \in Db /\ cache \in [Conn -> Db] /\ before \in [Conn -> Db] /\ journal \in Journals
        /\ committed \subseteq Db
    BY BlankType DEF Init
  <2>2. /\ st \in [Conn -> {"closed", "open", "readonly", "leaked"}] /\ pages \in [Conn -> SUBSET Page]
        /\ txn \in [Conn -> {"none", "active", "spilled", "synced", "written"}]
    BY DEF Init
  <2>3. nTxn \in 0 .. MaxTxn /\ nCrash \in 0 .. MaxCrash
    BY BoundsAssumption DEF Init
  <2> QED
    BY <2>1, <2>2, <2>3 DEF Init, TypeOK, Journals
<1>2. Dated
  BY DEF Init, Dated, Blank, NoJournal
<1> QED
  BY <1>1, <1>2 DEF Init, TypeInv, Typed, TxnOpen, Numbered

\* The steps that end a transaction forget what belongs to it.
LEMMA EndTxnType ==
  ASSUME TypeOK, NEW c \in Conn, EndTxn(c)
  PROVE  /\ txn' \in [Conn -> {"none", "active", "spilled", "synced", "written"}]
         /\ txn'[c] = "none" /\ \A d \in Conn \ {c} : txn'[d] = txn[d]
         /\ pages' \in [Conn -> SUBSET Page] /\ before' \in [Conn -> Db]
BY BlankType DEF TypeOK, EndTxn

\* What a connection may have in its pages after a write that was refused.
LEMMA RefusedCache ==
  ASSUME cache \in [Conn -> Db], NEW c \in Conn, NEW ps \in SUBSET Page, Refused(c, ps)
  PROVE  /\ ~CanReserve(c) /\ cache' \in [Conn -> Db]
         /\ \A d \in Conn, p \in Page : cache'[d][p] = cache[d][p] \/ (d = c /\ cache'[d][p] = Lost)
<1>1. cache' = cache \/ \E p \in ps : cache' = [cache EXCEPT ![c][p] = Lost]
  BY DEF Refused
<1>2. \A d \in Conn : cache[d] \in [Page -> {Lost} \cup 0 .. MaxTxn]
  BY DEF Db
<1> QED
  BY <1>1, <1>2, RefusedType DEF Refused

\* Every step numbers the pages it writes.
LEMMA DatedStep == TypeInv /\ [Next]_vars => Dated'
<1> SUFFICES ASSUME TypeInv, [Next]_vars PROVE Dated'
  OBVIOUS
<1>a. /\ nTxn \in Nat /\ Lost < 0 /\ cache \in [Conn -> Db] /\ disk \in Db /\ before \in [Conn -> Db]
      /\ \A db \in Db, p \in Page : db[p] \in Int
      /\ journal.orig \in Db /\ journal.synced \subseteq Page
  BY BoundsAssumption DEF TypeInv, Typed, TypeOK, Db, Lost
<1>b. \A p \in Page : Blank[p] <= nTxn /\ NoJournal.orig[p] <= nTxn
  BY <1>a DEF Blank, NoJournal
<1> USE <1>a, NoneAssumption DEF TypeInv, Typed, TypeOK, TxnOpen, Dated, Own, hist
<1>1. ASSUME NEW c \in Conn, Open(c) PROVE Dated'
  BY <1>1 DEF Open
<1>2. ASSUME NEW c \in Conn, PlayBack(c) PROVE Dated'
  BY <1>2, <1>b DEF PlayBack, Idle, CanReserve, Overlay
<1>3. ASSUME NEW c \in Conn, PlayBackRefused(c) PROVE Dated'
  BY <1>3, RefusedCache DEF PlayBackRefused
<1>4. ASSUME NEW c \in Conn, NEW p \in Page, Modify(c, p) PROVE Dated'
  <2>1. \A q \in Page : txn[c] = "none" => cache[c][q] <= nTxn
    BY <1>4 DEF Modify
  <2>2. \A q \in Page : journal'.orig[q] <= nTxn
    BY <1>4, <2>1 DEF Modify
  <2>3. \A d \in Conn, q \in Page : before'[d][q] <= nTxn
    BY <1>4, <2>1 DEF Modify
  <2>4. \A d \in Conn : pages[d] \subseteq pages'[d] /\ (txn'[d] = txn[d] \/ txn[d] = "none")
    BY <1>4 DEF Modify
  <2> QED
    BY <1>4, <2>2, <2>3, <2>4 DEF Modify
<1>5. ASSUME NEW c \in Conn, NEW p \in Page, Spill(c, p) PROVE Dated'
  BY <1>5 DEF Spill, InTxn, CanReserve, Synced
<1>6. ASSUME NEW c \in Conn, SpillRefused(c) PROVE Dated'
  BY <1>6, RefusedCache DEF SpillRefused, CanReserve, Synced
<1>7. ASSUME NEW c \in Conn, SyncJournal(c) PROVE Dated'
  BY <1>7 DEF SyncJournal, InTxn, Synced
<1>8. ASSUME NEW c \in Conn, WritePages(c) PROVE Dated'
  <2>1. \A d \in Conn, p \in Page : st[d] # "closed" => cache'[d][p] <= nTxn + 1
    BY <1>8 DEF WritePages, CanReserve, Overlay
  <2> QED
    BY <1>8, <2>1 DEF WritePages
<1>9. ASSUME NEW c \in Conn, WriteRefused(c) PROVE Dated'
  BY <1>9, RefusedCache DEF WriteRefused, CanReserve
<1>10. ASSUME NEW c \in Conn, FinishCommit(c) PROVE Dated'
  BY <1>10, <1>b, EndTxnType DEF FinishCommit, EndTxn
<1>11. ASSUME NEW c \in Conn, Rollback(c) PROVE Dated'
  <2>1. nTxn' \in Nat /\ nTxn <= nTxn'
    BY <1>11 DEF Rollback
  <2>2. \A p \in Page : cache[c][p] <= nTxn'
    BY <1>11 DEF Rollback, Spilled
  <2>3. \A d \in Conn \ {c} : txn'[d] = txn[d] /\ pages'[d] = pages[d]
    BY <1>11 DEF Rollback, EndTxn
  <2>4. \A d \in Conn \ {c}, p \in Page : st[d] # "closed" => cache[d][p] <= nTxn' \/ Own(d, p)'
    BY <1>11, <2>1, <2>3 DEF Rollback, Spilled
  <2>5. \A d \in Conn, p \in Page : before'[d][p] <= nTxn'
    <3>1. \A d \in Conn : before'[d] = before[d] \/ before'[d] = Blank
      BY <1>11 DEF Rollback, EndTxn
    <3>2. \A d \in Conn, p \in Page : before'[d][p] <= nTxn
      BY <1>b, <3>1
    <3>3. \A d \in Conn, p \in Page : before'[d][p] \in Int
      BY <1>11, EndTxnType DEF Rollback
    <3> QED
      BY <2>1, <3>2, <3>3
  <2>6. \A p \in Page : journal'.orig[p] <= nTxn'
    <3>1. journal'.orig \in Db /\ (journal' = journal \/ journal' = NoJournal)
      BY <1>11, BlankType DEF Rollback, NoJournal
    <3> QED
      BY <1>b, <2>1, <3>1
  <2> QED
    BY <1>11, <2>1, <2>2, <2>4, <2>5, <2>6 DEF Rollback
<1>12. ASSUME NEW c \in Conn, RollbackWritten(c) PROVE Dated'
  <2>1. \A d \in Conn, p \in Page : before'[d][p] <= nTxn'
    BY <1>12, <1>b DEF RollbackWritten, EndTxn
  <2>2. \A p \in Page : journal'.orig[p] <= nTxn'
    <3>1. journal'.orig = journal.orig \/ journal' = NoJournal
      BY <1>12 DEF RollbackWritten
    <3> QED
      BY <1>12, <1>b, <3>1 DEF RollbackWritten
  <2>3. \A p \in Page : cache'[c][p] <= nTxn
    <3>1. CASE Refused(c, pages[c])
      <4>1. st[c] = "open" /\ pages[c] \subseteq Page /\ ~CanReserve(c)
        BY <1>12, <3>1 DEF RollbackWritten, Refused
      <4>2. \A p \in Page : cache[c][p] <= nTxn
        BY <4>1 DEF CanReserve
      <4> QED
        BY <3>1, <4>1, <4>2, RefusedCache
    <3>2. CASE CanReserve(c) /\ cache' = [cache EXCEPT ![c] = Overlay(@, pages[c], before[c])]
      BY <1>12, <3>2 DEF RollbackWritten, Overlay
    <3> QED
      BY <1>12, <3>1, <3>2 DEF RollbackWritten
  <2>4. \A d \in Conn \ {c} : txn'[d] = txn[d] /\ pages'[d] = pages[d] /\ cache'[d] = cache[d]
    BY <1>12 DEF RollbackWritten, EndTxn, Refused
  <2>5. reserved' = reserved \/ reserved = None
    BY <1>12 DEF RollbackWritten, CanReserve
  <2> QED
    BY <1>12, <2>1, <2>2, <2>3, <2>4, <2>5 DEF RollbackWritten
<1>13. ASSUME NEW c \in Conn, Close(c) PROVE Dated'
  BY <1>13 DEF Close, Idle, CanReserve, Exclusive
<1>14. ASSUME NEW c \in Conn, CloseReadOnly(c) PROVE Dated'
  BY <1>14 DEF CloseReadOnly
<1>15. CASE Crash
  BY <1>15, <1>b DEF Crash
<1>16. CASE UNCHANGED vars
  BY <1>16 DEF vars
<1> QED
  BY <1>1, <1>2, <1>3, <1>4, <1>5, <1>6, <1>7, <1>8, <1>9, <1>10, <1>11, <1>12, <1>13, <1>14, <1>15, <1>16
  DEF Next, Step

\* Every step preserves the types, and the numbering they rest on.
LEMMA TypedStep == TypeInv /\ [Next]_vars => Typed'
<1> SUFFICES ASSUME TypeInv, [Next]_vars PROVE Typed'
  OBVIOUS
<1>0. journalMode' \in JournalModes
  BY DEF TypeInv, Typed, TypeOK, Next, vars
<1>a. TypeOK /\ journal \in Journals 
  BY DEF TypeInv, Typed, TypeOK, Journals
<1> USE <1>0, BoundsAssumption, NoneAssumption DEF TypeInv, Typed, TypeOK, TxnOpen, Numbered, hist
<1>1. ASSUME NEW c \in Conn, Open(c) PROVE Typed'
  BY <1>1 DEF Open
<1>2. ASSUME NEW c \in Conn, PlayBack(c) PROVE Typed'
  <2>1. cache' \in [Conn -> Db]
    BY <1>2, OverlayType DEF PlayBack, Idle
  <2> QED
    BY <1>2, <2>1, BlankType DEF PlayBack, Idle, CanReserve, Journals
<1>3. ASSUME NEW c \in Conn, PlayBackRefused(c) PROVE Typed'
  <2>1. cache' \in [Conn -> Db]
    BY <1>3, RefusedType DEF PlayBackRefused
  <2> QED
    BY <1>3, <2>1 DEF PlayBackRefused
<1>4. ASSUME NEW c \in Conn, NEW p \in Page, Modify(c, p) PROVE Typed'
  <2>1. journal' \in Journals
    BY <1>4, <1>a DEF Modify, Journals
  <2>2. before' \in [Conn -> Db] /\ pages' \in [Conn -> SUBSET Page]
    BY <1>4 DEF Modify
  <2>3. txn' \in [Conn -> {"none", "active", "spilled", "synced", "written"}]
    BY <1>4 DEF Modify
  <2>4. TypeOK'
    BY <1>4, <2>1, <2>2, <2>3 DEF Modify, Journals
  <2>5. /\ \A d \in Conn : txn'[d] = txn[d] \/ (d = c /\ st[c] = "open" /\ nTxn < MaxTxn)
        /\ st' = st /\ nTxn' = nTxn /\ reserved' = reserved
    BY <1>4 DEF Modify, InTxn
  <2>6. TxnOpen' /\ Numbered'
    BY <2>5
  <2> QED
    BY <2>4, <2>6
<1>5. ASSUME NEW c \in Conn, NEW p \in Page, Spill(c, p) PROVE Typed'
  <2>1. nTxn + 1 \in 0 .. MaxTxn
    BY <1>5 DEF Spill, InTxn, CanReserve
  <2>2. [cache[c] EXCEPT ![p] = nTxn + 1] \in Db
    BY <2>1 DEF Db
  <2>3. cache' \in [Conn -> Db]
    BY <1>5, <2>2 DEF Spill
  <2>4. journal' \in Journals
    BY <1>5, <1>a, SyncedType DEF Spill
  <2> QED
    BY <1>5, <2>3, <2>4 DEF Spill, InTxn, CanReserve, Journals
<1>6. ASSUME NEW c \in Conn, SpillRefused(c) PROVE Typed'
  <2>1. cache' \in [Conn -> Db]
    BY <1>6, RefusedType DEF SpillRefused
  <2>2. journal' \in Journals
    BY <1>6, <1>a, SyncedType DEF SpillRefused
  <2> QED
    BY <1>6, <2>1, <2>2 DEF SpillRefused, InTxn, Journals
<1>7. ASSUME NEW c \in Conn, SyncJournal(c) PROVE Typed'
  <2>1. journal' \in Journals
    BY <1>7, <1>a, SyncedType DEF SyncJournal
  <2> QED
    BY <1>7, <2>1 DEF SyncJournal, InTxn, Journals
<1>8. ASSUME NEW c \in Conn, WritePages(c) PROVE Typed'
  <2>1. nTxn + 1 \in 0 .. MaxTxn
    BY <1>8 DEF WritePages, CanReserve
  <2>2. [p \in Page |-> nTxn + 1] \in Db
    BY <2>1 DEF Db
  <2>3. cache' \in [Conn -> Db]
    BY <1>8, <2>2, OverlayType DEF WritePages
  <2> QED
    BY <1>8, <2>1, <2>3 DEF WritePages, CanReserve
<1>9. ASSUME NEW c \in Conn, WriteRefused(c) PROVE Typed'
  <2>1. cache' \in [Conn -> Db]
    BY <1>9, RefusedType DEF WriteRefused
  <2> QED
    BY <1>9, <2>1 DEF WriteRefused
<1>10. ASSUME NEW c \in Conn, FinishCommit(c) PROVE Typed'
  BY <1>10, <1>a, EndTxnType, BlankType DEF FinishCommit, Journals
<1>11. ASSUME NEW c \in Conn, Rollback(c) PROVE Typed'
  <2>1. journal' \in Journals
    BY <1>11, <1>a, BlankType DEF Rollback
  <2>2. nTxn' \in 0 .. MaxTxn /\ torn' \in BOOLEAN
    <3>1. Spilled(c) # {} => nTxn + 1 \in 0 .. MaxTxn
      <4>1. \A p \in Page : cache[c][p] \in {Lost} \cup 0 .. MaxTxn
        BY DEF Db
      <4> QED
        BY <4>1 DEF Spilled, Lost
    <3> QED
      BY <1>11, <3>1 DEF Rollback
  <2>3. Numbered'
    <3>1. nTxn' # nTxn => reserved = c
      BY <1>11 DEF Rollback, Spilled, Dated, Own
    <3> QED
      BY <1>11, <1>a, <3>1, EndTxnType DEF Rollback
  <2> QED
    BY <1>11, <1>a, EndTxnType, <2>1, <2>2, <2>3 DEF Rollback, Journals
<1>12. ASSUME NEW c \in Conn, RollbackWritten(c) PROVE Typed'
  <2>1. cache' \in [Conn -> Db]
    BY <1>12, RefusedType, OverlayType DEF RollbackWritten
  <2>2. journal' \in Journals
    <3>1. [journal EXCEPT !.owner = None, !.saved = journal.synced] \in Journals
      BY <1>a DEF Journals
    <3> QED
      BY <1>12, <1>a, <3>1, BlankType DEF RollbackWritten
  <2>3. reserved' \in Conn \cup {None} /\ (reserved' # reserved => reserved = None /\ reserved' = c)
    BY <1>12 DEF RollbackWritten, CanReserve
  <2> QED
    BY <1>12, <1>a, EndTxnType, <2>1, <2>2, <2>3 DEF RollbackWritten, Journals
<1>13. ASSUME NEW c \in Conn, Close(c) PROVE Typed'
  BY <1>13 DEF Close, Idle, CanReserve, Exclusive
<1>14. ASSUME NEW c \in Conn, CloseReadOnly(c) PROVE Typed'
  BY <1>14 DEF CloseReadOnly
<1>15. CASE Crash
  <2>1. journal' \in Journals
    BY <1>15, <1>a, BlankType DEF Crash, Journals
  <2> QED
    BY <1>15, <2>1, BlankType DEF Crash, Journals
<1>16. CASE UNCHANGED vars
  BY <1>16 DEF vars
<1> QED
  BY <1>1, <1>2, <1>3, <1>4, <1>5, <1>6, <1>7, <1>8, <1>9, <1>10, <1>11, <1>12, <1>13, <1>14, <1>15, <1>16
  DEF Next, Step

\* Every step preserves both.
LEMMA TypeStep == TypeInv /\ [Next]_vars => TypeInv'
BY TypedStep, DatedStep DEF TypeInv

\* TypeOK: the variables of CevfsDurability keep their types, the number of
\* transactions its bound.
THEOREM TypeCorrect == Spec => []TypeOK
<1>1. TypeInv => TypeOK
  BY DEF TypeInv, Typed
<1> QED
  BY <1>1, TypeInit, TypeStep, PTL DEF Spec
-----------------------------------------------------------------------------
(* One writer.                                                             *)

\* No page is lost in the file, nor in what a journal would put back.
Unlost ==
  /\ \A p \in Page : disk[p] # Lost
  /\ journal.synced \subseteq journal.saved
  /\ \A p \in journal.saved : journal.orig[p] # Lost
  /\ \A c \in Conn : journal.owner = c =>
       /\ journalMode # "off" /\ txn[c] # "none"
       /\ \A p \in Page : journal.orig[p] = Lost => cache[c][p] = Lost
  /\ journalMode # "off" =>
       \A c \in Conn : txn[c] # "none" => \A p \in Page : before[c][p] = Lost => cache[c][p] = Lost

WriterInv == TypeInv /\ Unlost /\ OneWriter

\* A connection that may write has lost nothing.
LEMMA WriterHasAll ==
  ASSUME WriterInv, NEW c \in Conn, st[c] # "closed", CanReserve(c)
  PROVE  \A p \in Page : cache[c][p] # Lost
BY DEF WriterInv, OneWriter

\* RESERVED is taken at the first write and kept until the lower commit.
LEMMA OneWriterStep == WriterInv /\ [Next]_vars => OneWriter'
<1> SUFFICES ASSUME WriterInv, [Next]_vars PROVE OneWriter'
  OBVIOUS
<1>a. /\ cache \in [Conn -> Db] /\ pages \in [Conn -> SUBSET Page] /\ journal.synced \subseteq Page
      /\ st \in [Conn -> {"closed", "open", "readonly", "leaked"}] /\ disk \in Db
      /\ \A d \in Conn : txn[d] # "none" => st[d] = "open"
  BY DEF WriterInv, TypeInv, Typed, TypeOK, TxnOpen
<1>b. /\ \A p \in Page : disk[p] # Lost
      /\ \A p \in journal.synced : journal.orig[p] # Lost
      /\ journalMode # "off" =>
           \A d \in Conn : txn[d] # "none" => \A p \in Page : before[d][p] = Lost => cache[d][p] = Lost
  BY DEF WriterInv, Unlost
<1>c. Lost = -1 /\ nTxn \in Nat
  BY DEF WriterInv, TypeInv, Typed, TypeOK, Lost
<1> USE <1>a, NoneAssumption DEF WriterInv, OneWriter, CanReserve
<1>1. ASSUME NEW c \in Conn, Open(c) PROVE OneWriter'
  BY <1>1, <1>b DEF Open
<1>2. ASSUME NEW c \in Conn, PlayBack(c) PROVE OneWriter'
  BY <1>2, <1>b DEF PlayBack, Idle, Overlay
<1>3. ASSUME NEW c \in Conn, PlayBackRefused(c) PROVE OneWriter'
  BY <1>3, RefusedCache DEF PlayBackRefused, Idle
<1>4. ASSUME NEW c \in Conn, NEW p \in Page, Modify(c, p) PROVE OneWriter'
  BY <1>4 DEF Modify
<1>5. ASSUME NEW c \in Conn, NEW p \in Page, Spill(c, p) PROVE OneWriter'
  BY <1>5, <1>c DEF Spill, InTxn
<1>6. ASSUME NEW c \in Conn, SpillRefused(c) PROVE OneWriter'
  BY <1>6, RefusedCache DEF SpillRefused, InTxn
<1>7. ASSUME NEW c \in Conn, SyncJournal(c) PROVE OneWriter'
  BY <1>7 DEF SyncJournal
<1>8. ASSUME NEW c \in Conn, WritePages(c) PROVE OneWriter'
  BY <1>8, <1>c DEF WritePages, Overlay
<1>9. ASSUME NEW c \in Conn, WriteRefused(c) PROVE OneWriter'
  BY <1>9, RefusedCache DEF WriteRefused
<1>10. ASSUME NEW c \in Conn, FinishCommit(c) PROVE OneWriter'
  BY <1>10 DEF FinishCommit
<1>11. ASSUME NEW c \in Conn, Rollback(c) PROVE OneWriter'
  BY <1>11 DEF Rollback
<1>12. ASSUME NEW c \in Conn, RollbackWritten(c) PROVE OneWriter'
  <2>1. CASE Refused(c, pages[c])
    BY <1>12, <2>1, RefusedCache DEF RollbackWritten
  <2>2. CASE CanReserve(c) /\ cache' = [cache EXCEPT ![c] = Overlay(@, pages[c], before[c])] /\ reserved' = c
    <3>1. \A p \in Page : cache'[c][p] # Lost
      BY <1>12, <1>b, <2>2 DEF RollbackWritten, Overlay
    <3> QED
      BY <1>12, <2>2, <3>1 DEF RollbackWritten
  <2> QED
    BY <1>12, <2>1, <2>2 DEF RollbackWritten
<1>13. ASSUME NEW c \in Conn, Close(c) PROVE OneWriter'
  BY <1>13 DEF Close, Idle, Exclusive
<1>14. ASSUME NEW c \in Conn, CloseReadOnly(c) PROVE OneWriter'
  BY <1>14 DEF CloseReadOnly
<1>15. CASE Crash
  BY <1>15 DEF Crash
<1>16. CASE UNCHANGED vars
  BY <1>16 DEF vars
<1> QED
  BY <1>1, <1>2, <1>3, <1>4, <1>5, <1>6, <1>7, <1>8, <1>9, <1>10, <1>11, <1>12, <1>13, <1>14, <1>15, <1>16
  DEF Next, Step

\* What a journal would put back was there when its page was changed.
LEMMA UnlostStep == WriterInv /\ [Next]_vars => Unlost'
<1> SUFFICES ASSUME WriterInv, [Next]_vars PROVE Unlost'
  OBVIOUS
<1>a. /\ cache \in [Conn -> Db] /\ pages \in [Conn -> SUBSET Page] /\ journal \in Journals
      /\ st \in [Conn -> {"closed", "open", "readonly", "leaked"}] /\ disk \in Db
      /\ before \in [Conn -> Db] /\ txn \in [Conn -> {"none", "active", "spilled", "synced", "written"}]
      /\ \A d \in Conn : txn[d] # "none" => st[d] = "open"
      /\ journalMode' = journalMode
  BY DEF WriterInv, TypeInv, Typed, TypeOK, TxnOpen, Journals, Next, vars
<1>b. /\ NoJournal.owner = None /\ NoJournal.saved = {} /\ NoJournal.synced = {}
  BY DEF NoJournal
<1>c. Lost = -1 /\ nTxn \in Nat /\ \A p \in Page : Blank[p] # Lost
  BY DEF WriterInv, TypeInv, Typed, TypeOK, Lost, Blank
<1>d. \A d \in Conn : Synced(d) \in Journals /\ Synced(d).owner = journal.owner /\ Synced(d).saved = journal.saved
        /\ Synced(d).orig = journal.orig /\ Synced(d).synced \in {journal.synced, journal.saved}
  BY <1>a DEF Synced, Journals
<1> USE <1>a, <1>b, NoneAssumption DEF Unlost
<1>1. ASSUME NEW c \in Conn, Open(c) PROVE Unlost'
  BY <1>1 DEF WriterInv, Open
<1>2. ASSUME NEW c \in Conn, PlayBack(c) PROVE Unlost'
  BY <1>2 DEF WriterInv, PlayBack, Idle
<1>3. ASSUME NEW c \in Conn, PlayBackRefused(c) PROVE Unlost'
  <2>1. journal.synced \in SUBSET Page /\ Refused(c, journal.synced)
    BY <1>3 DEF PlayBackRefused, Journals
  <2>2. \A d \in Conn, p \in Page : cache[d][p] = Lost => cache'[d][p] = Lost
    BY <2>1, RefusedCache
  <2> QED
    BY <1>3, <2>2 DEF WriterInv, PlayBackRefused
<1>4. ASSUME NEW c \in Conn, NEW p \in Page, Modify(c, p) PROVE Unlost'
  <2>1. CASE txn[c] # "none"
    <3>1. /\ before' = before /\ txn' = txn /\ cache' = cache /\ disk' = disk /\ cache[c][p] # Lost
          /\ journal' = IF journal.owner = c THEN [journal EXCEPT !.saved = @ \cup {p}] ELSE journal
      BY <1>4, <2>1 DEF Modify
    <3>2. /\ journal'.owner = journal.owner /\ journal'.orig = journal.orig /\ journal'.synced = journal.synced
          /\ journal'.saved = journal.saved \/ (journal.owner = c /\ journal'.saved = journal.saved \cup {p})
      BY <3>1 DEF Journals
    <3> QED
      BY <3>1, <3>2 DEF WriterInv
  <2>2. CASE txn[c] = "none" /\ journalMode = "off"
    <3>1. /\ before' = before /\ journal' = journal /\ cache' = cache /\ disk' = disk
          /\ \A d \in Conn \ {c} : txn'[d] = txn[d]
      BY <1>4, <2>2 DEF Modify
    <3> QED
      BY <3>1, <2>2 DEF WriterInv
  <2>3. CASE txn[c] = "none" /\ journalMode # "off"
    <3>1. /\ before'[c] = cache[c] /\ cache' = cache /\ disk' = disk /\ cache[c][p] # Lost
          /\ \A d \in Conn \ {c} : txn'[d] = txn[d] /\ before'[d] = before[d]
          /\ txn'[c] = "active"
          /\ journal' = [owner |-> c, saved |-> {p}, synced |-> {}, orig |-> cache[c]]
      BY <1>4, <2>3 DEF Modify
    <3> QED
      BY <3>1, <2>3 DEF WriterInv
  <2> QED
    BY <2>1, <2>2, <2>3
<1>5. ASSUME NEW c \in Conn, NEW p \in Page, Spill(c, p) PROVE Unlost'
  BY <1>5, <1>d, WriterHasAll DEF WriterInv, Spill, InTxn
<1>6. ASSUME NEW c \in Conn, SpillRefused(c) PROVE Unlost'
  BY <1>6, <1>d, RefusedCache DEF WriterInv, SpillRefused, InTxn
<1>7. ASSUME NEW c \in Conn, SyncJournal(c) PROVE Unlost'
  BY <1>7, <1>d DEF WriterInv, SyncJournal, InTxn
<1>8. ASSUME NEW c \in Conn, WritePages(c) PROVE Unlost'
  BY <1>8, WriterHasAll DEF WriterInv, WritePages
<1>9. ASSUME NEW c \in Conn, WriteRefused(c) PROVE Unlost'
  BY <1>9, RefusedCache DEF WriterInv, WriteRefused
<1>10. ASSUME NEW c \in Conn, FinishCommit(c) PROVE Unlost'
  BY <1>10 DEF WriterInv, FinishCommit, EndTxn
<1>11. ASSUME NEW c \in Conn, Rollback(c) PROVE Unlost'
  BY <1>11 DEF WriterInv, Rollback, EndTxn
<1>12. ASSUME NEW c \in Conn, RollbackWritten(c) PROVE Unlost'
  <2>1. /\ disk' = disk /\ txn'[c] = "none"
        /\ \A d \in Conn \ {c} : txn'[d] = txn[d] /\ before'[d] = before[d] /\ cache'[d] = cache[d]
    BY <1>12 DEF RollbackWritten, EndTxn, Refused
  <2>2. journal' = NoJournal \/ (journal' = journal /\ journal.owner # c) \/
        journal' = [journal EXCEPT !.owner = None, !.saved = journal.synced]
    BY <1>12 DEF RollbackWritten
  <2>3. CASE journal' = [journal EXCEPT !.owner = None, !.saved = journal.synced]
    <3>1. /\ journal'.owner = None /\ journal'.saved = journal.synced /\ journal'.synced = journal.synced
          /\ journal'.orig = journal.orig
      BY <2>3 DEF Journals
    <3> QED
      BY <2>1, <3>1 DEF WriterInv
  <2>4. CASE journal' = NoJournal \/ (journal' = journal /\ journal.owner # c)
    BY <2>1, <2>4 DEF WriterInv
  <2> QED
    BY <2>2, <2>3, <2>4
<1>13. ASSUME NEW c \in Conn, Close(c) PROVE Unlost'
  BY <1>13, WriterHasAll DEF WriterInv, Close, Idle
<1>14. ASSUME NEW c \in Conn, CloseReadOnly(c) PROVE Unlost'
  BY <1>14 DEF WriterInv, CloseReadOnly
<1>15. CASE Crash
  BY <1>15 DEF WriterInv, Crash
<1>16. CASE UNCHANGED vars
  BY <1>16 DEF WriterInv, vars
<1> QED
  BY <1>1, <1>2, <1>3, <1>4, <1>5, <1>6, <1>7, <1>8, <1>9, <1>10, <1>11, <1>12, <1>13, <1>14, <1>15, <1>16
  DEF Next, Step

\* Nothing is lost at first.
LEMMA WriterInit == Init => WriterInv
<1> SUFFICES ASSUME Init PROVE WriterInv
  OBVIOUS
<1>1. Unlost
  BY NoneAssumption DEF Init, Unlost, NoJournal, Blank, Lost
<1> QED
  BY <1>1, TypeInit DEF WriterInv, Init, OneWriter

\* Every step keeps to one writer.
LEMMA WriterStep == WriterInv /\ [Next]_vars => WriterInv'
BY TypeStep, OneWriterStep, UnlostStep DEF WriterInv

\* OneWriter: two connections never hold changes the file does not have at once,
\* and one that lost a page to a write that was refused can write no more.
THEOREM OneWriterHolds == Spec => []OneWriter
<1>1. WriterInv => OneWriter
  BY DEF WriterInv
<1> QED
  BY <1>1, WriterInit, WriterStep, PTL DEF Spec

\* StableUnderReaders: only cevfsClose writes the lower file, and its commit
\* waits for every other connection to be closed.
THEOREM StableUnderReadersHolds == Spec => StableUnderReaders
<1>1. [Next]_vars => (disk' # disk => \E c \in Conn : \A d \in Conn \ {c} : st[d] = "closed")
  BY DEF Next, Step, vars, Open, PlayBack, PlayBackRefused, Modify, Spill, SpillRefused, SyncJournal,
         WritePages, WriteRefused, FinishCommit, Rollback, RollbackWritten, Close, Exclusive,
         CloseReadOnly, Crash
<1> QED
  BY <1>1, PTL DEF Spec, StableUnderReaders

-----------------------------------------------------------------------------
(* With the upper journal off.                                             *)

\* There is nothing to play back, and what every lower pager holds is a committed
\* state, except while a transaction has pages in it and apart from lost pages.
Agrees(c, db) == \A p \in Page : cache[c][p] \in {db[p], Lost}
HoldsCommitted == \A c \in Conn :
  st[c] # "closed" /\ txn[c] # "written" /\ Spilled(c) = {} => \E db \in committed : Agrees(c, db)
DiskInv == journalMode = "off" =>
  /\ journal = NoJournal
  /\ ~torn => HoldsCommitted /\ disk \in committed

\* The file is committed, and there is no journal, at first.
LEMMA DiskInit == Init => DiskInv
BY DEF Init, DiskInv, HoldsCommitted

\* A step that leaves what the connections other than c have, and numbers nothing,
\* keeps what they hold committed.
LEMMA OthersHold ==
  ASSUME HoldsCommitted, NEW c \in Conn, committed \subseteq committed', nTxn' = nTxn,
         \A d \in Conn \ {c} : cache'[d] = cache[d] /\ txn'[d] = txn[d] /\ (st[d] = "closed" => st'[d] = "closed")
  PROVE  \A d \in Conn \ {c} :
           st'[d] # "closed" /\ txn'[d] # "written" /\ Spilled(d)' = {} => \E db \in committed' : Agrees(d, db)'
<1> SUFFICES ASSUME NEW d \in Conn \ {c}, st'[d] # "closed", txn'[d] # "written", Spilled(d)' = {}
             PROVE  \E db \in committed' : Agrees(d, db)'
  OBVIOUS
<1>1. Spilled(d) = {} /\ st[d] # "closed" /\ txn[d] # "written"
  BY DEF Spilled
<1>2. PICK db \in committed : Agrees(d, db)
  BY <1>1 DEF HoldsCommitted
<1> QED
  BY <1>2 DEF Agrees

\* A write that is refused only loses pages.
LEMMA RefusedHolds ==
  ASSUME TypeInv, HoldsCommitted, NEW c \in Conn, NEW ps \in SUBSET Page, Refused(c, ps),
         st' = st, nTxn' = nTxn, committed' = committed, st[c] # "closed",
         txn[c] # "written", txn'[c] # "written", \A d \in Conn \ {c} : txn'[d] = txn[d]
  PROVE  HoldsCommitted'
<1>1. /\ \A d \in Conn \ {c} : cache'[d] = cache[d]
      /\ \A p \in Page : cache'[c][p] \in {cache[c][p], Lost}
  <2>1. cache \in [Conn -> Db]
    BY DEF TypeInv, Typed, TypeOK
  <2> QED
    BY <2>1, RefusedCache DEF Refused
<1>2. Spilled(c) = {}
  <2>1. nTxn \in Nat /\ ~CanReserve(c)
    BY DEF TypeInv, Typed, TypeOK, Refused
  <2>2. \A p \in Page : cache[c][p] <= nTxn
    BY <2>1 DEF TypeInv, Dated, Own, CanReserve
  <2> QED
    BY <2>1, <2>2 DEF Spilled
<1>3. st[c] # "closed" => \E db \in committed : Agrees(c, db)'
  BY <1>1, <1>2 DEF HoldsCommitted, Agrees
<1> QED
  BY <1>1, <1>3, OthersHold DEF HoldsCommitted

\* With the upper journal off only committed states get to the lower file, as
\* long as no ROLLBACK leaves pages of its transaction behind.
LEMMA DiskStep == WriterInv /\ DiskInv /\ [Next]_vars => DiskInv'
<1> SUFFICES ASSUME WriterInv, DiskInv, [Next]_vars, journalMode = "off" PROVE DiskInv'
  BY DEF Next, vars, DiskInv
<1>a. /\ journal = NoJournal /\ \A c \in Conn : ~HotJournal(c) /\ Synced(c) = journal
      /\ NoJournal.synced = {} /\ NoJournal.owner = None
  BY NoneAssumption DEF DiskInv, NoJournal, HotJournal, Synced
<1>b. /\ cache \in [Conn -> Db] /\ pages \in [Conn -> SUBSET Page] /\ txn \in [Conn -> {"none", "active", "spilled", "synced", "written"}]
      /\ st \in [Conn -> {"closed", "open", "readonly", "leaked"}] /\ disk \in Db /\ nTxn \in Nat
      /\ committed \subseteq Db /\ torn \in BOOLEAN
      /\ \A d \in Conn : txn[d] # "none" => st[d] = "open"
  BY DEF WriterInv, TypeInv, Typed, TypeOK, TxnOpen
<1>c. /\ \A d \in Conn, p \in Page : st[d] # "closed" => cache[d][p] <= nTxn \/ Own(d, p)
      /\ \A p \in Page : disk[p] <= nTxn
  BY DEF WriterInv, TypeInv, Dated
<1>d. ~torn => HoldsCommitted /\ disk \in committed
  BY DEF DiskInv
<1>1. ASSUME NEW c \in Conn, Open(c) PROVE DiskInv'
  <2>1. /\ \A d \in Conn \ {c} : cache'[d] = cache[d] /\ txn'[d] = txn[d] /\ st'[d] = st[d]
        /\ cache'[c] = disk /\ nTxn' = nTxn /\ committed' = committed
    BY <1>1, <1>b DEF Open, hist
  <2>2. ~torn => \E db \in committed : Agrees(c, db)'
    BY <1>d, <2>1 DEF Agrees
  <2>3. ~torn => HoldsCommitted'
    BY <1>d, <2>1, <2>2, OthersHold DEF HoldsCommitted
  <2> QED
    BY <1>1, <1>a, <1>d, <2>3 DEF Open, DiskInv, hist
<1>2. ASSUME NEW c \in Conn, PlayBack(c) \/ PlayBackRefused(c) PROVE DiskInv'
  BY <1>2, <1>a DEF PlayBack, PlayBackRefused
<1>4. ASSUME NEW c \in Conn, NEW p \in Page, Modify(c, p) PROVE DiskInv'
  <2>1. /\ \A d \in Conn : txn'[d] = txn[d] \/ (txn'[d] = "active" /\ txn[d] = "none")
        /\ cache' = cache /\ st' = st /\ nTxn' = nTxn /\ committed' = committed /\ disk' = disk
        /\ torn' = torn /\ journal' = journal
    <3>1. journal.owner # c
      BY <1>a, NoneAssumption
    <3>2. txn' = txn \/ (txn' = [txn EXCEPT ![c] = "active"] /\ txn[c] = "none")
      BY <1>4 DEF Modify
    <3>3. journal' = journal
      BY <1>4, <3>1 DEF Modify
    <3>4. \A d \in Conn : txn'[d] = txn[d] \/ (txn'[d] = "active" /\ txn[d] = "none")
      BY <1>b, <3>2
    <3>5. /\ cache' = cache /\ st' = st /\ nTxn' = nTxn /\ hist' = hist /\ disk' = disk /\ torn' = torn
      BY <1>4 DEF Modify
    <3> QED
      BY <3>3, <3>4, <3>5 DEF hist
  <2>2. ~torn => HoldsCommitted'
    BY <1>d, <2>1 DEF HoldsCommitted, Spilled, Agrees
  <2> QED
    BY <1>a, <1>d, <2>1, <2>2 DEF DiskInv
<1>5. ASSUME NEW c \in Conn, NEW p \in Page, Spill(c, p) PROVE DiskInv'
  <2>1. /\ \A d \in Conn \ {c} : cache'[d] = cache[d] /\ txn'[d] = txn[d] /\ st'[d] = st[d]
        /\ cache'[c][p] = nTxn + 1 /\ nTxn' = nTxn /\ committed' = committed
    BY <1>5, <1>b DEF Spill, hist, Db
  <2>2. ~torn => HoldsCommitted'
    BY <1>d, <2>1, OthersHold DEF HoldsCommitted, Spilled
  <2> QED
    BY <1>5, <1>a, <1>d, <2>2 DEF Spill, DiskInv, hist
<1>6. ASSUME NEW c \in Conn, SpillRefused(c) \/ WriteRefused(c) PROVE DiskInv'
  <2>1. /\ \A d \in Conn \ {c} : txn'[d] = txn[d]
        /\ txn[c] \notin {"none", "written"} /\ txn'[c] = "spilled"
        /\ st' = st /\ nTxn' = nTxn /\ committed' = committed /\ disk' = disk /\ torn' = torn
        /\ journal' = journal /\ Refused(c, pages[c])
    BY <1>6, <1>a, <1>b DEF SpillRefused, WriteRefused, InTxn, hist
  <2>2. ~torn => HoldsCommitted'
    BY <1>b, <1>d, <2>1, RefusedHolds DEF WriterInv
  <2> QED
    BY <1>a, <1>d, <2>1, <2>2 DEF DiskInv
<1>7. ASSUME NEW c \in Conn, SyncJournal(c) PROVE DiskInv'
  <2>1. /\ \A d \in Conn : txn'[d] = txn[d] \/ txn[d] \in {"active", "spilled"}
        /\ cache' = cache /\ st' = st /\ nTxn' = nTxn /\ committed' = committed /\ disk' = disk
        /\ torn' = torn /\ journal' = journal
    BY <1>7, <1>a, <1>b DEF SyncJournal, InTxn, hist
  <2>2. ~torn => HoldsCommitted'
    BY <1>d, <2>1 DEF HoldsCommitted, Spilled, Agrees
  <2> QED
    BY <1>a, <1>d, <2>1, <2>2 DEF DiskInv
<1>8. ASSUME NEW c \in Conn, WritePages(c) PROVE DiskInv'
  <2>1. /\ \A d \in Conn \ {c} : cache'[d] = cache[d] /\ txn'[d] = txn[d] /\ st'[d] = st[d]
        /\ txn'[c] = "written" /\ committed' = committed /\ nTxn' = nTxn + 1
    BY <1>8, <1>b DEF WritePages, hist
  <2>2. \A d \in Conn \ {c}, p \in Page : st[d] # "closed" => cache[d][p] <= nTxn
    BY <1>8, <1>c, NoneAssumption DEF WritePages, CanReserve, Own
  <2>3. \A d \in Conn \ {c} : st[d] # "closed" => Spilled(d) = {}
    BY <1>b, <2>2 DEF Spilled
  <2>4. ~torn => HoldsCommitted'
    BY <1>d, <2>1, <2>3 DEF HoldsCommitted, Agrees
  <2> QED
    BY <1>8, <1>a, <1>d, <2>4 DEF WritePages, DiskInv, hist
<1>10. ASSUME NEW c \in Conn, FinishCommit(c) PROVE DiskInv'
  <2>1. /\ \A d \in Conn \ {c} : cache'[d] = cache[d] /\ txn'[d] = txn[d] /\ st'[d] = st[d]
        /\ cache'[c] = cache[c] /\ nTxn' = nTxn /\ committed' = committed \cup {cache[c]}
    BY <1>10, <1>b DEF FinishCommit, EndTxn
  <2>2. \E db \in committed' : Agrees(c, db)'
    BY <2>1 DEF Agrees
  <2>3. ~torn => HoldsCommitted'
    BY <1>d, <2>1, <2>2, OthersHold DEF HoldsCommitted
  <2> QED
    BY <1>10, <1>a, <1>d, <2>3 DEF FinishCommit, DiskInv
<1>11. ASSUME NEW c \in Conn, Rollback(c) PROVE DiskInv'
  <2>1. /\ \A d \in Conn \ {c} : txn'[d] = txn[d]
        /\ cache' = cache /\ st' = st /\ txn[c] # "written" /\ committed' = committed
        /\ disk' = disk /\ journal' = journal
        /\ \/ torn' = torn /\ nTxn' = nTxn /\ Spilled(c) = {}
           \/ torn'
    BY <1>11, <1>a, <1>b DEF Rollback, EndTxn, hist
  <2>2. ~torn' => HoldsCommitted'
    BY <1>d, <2>1 DEF HoldsCommitted, Spilled, Agrees
  <2> QED
    BY <1>a, <1>d, <2>1, <2>2 DEF DiskInv
<1>12. ASSUME NEW c \in Conn, RollbackWritten(c) PROVE DiskInv'
  BY <1>12 DEF RollbackWritten
<1>13. ASSUME NEW c \in Conn, Close(c) PROVE DiskInv'
  <2>1. /\ cache' = cache /\ txn' = txn /\ nTxn' = nTxn /\ committed' = committed /\ torn' = torn
        /\ journal' = journal /\ \A d \in Conn : st[d] = "closed" => st'[d] = "closed"
    BY <1>13, <1>b DEF Close, Idle, hist
  <2>2. ~torn => HoldsCommitted'
    BY <1>d, <2>1 DEF HoldsCommitted, Spilled, Agrees
  <2>3. CASE disk' = disk
    BY <1>a, <1>d, <2>1, <2>2, <2>3 DEF DiskInv
  <2>4. CASE disk' = cache[c] /\ CanReserve(c)
    <3>1. st[c] = "open" /\ txn[c] = "none"
      BY <1>13 DEF Close, Idle
    <3>2. \A p \in Page : cache[c][p] # Lost /\ cache[c][p] <= nTxn
      BY <1>c, <2>4, <3>1, WriterHasAll DEF Own
    <3>3. Spilled(c) = {}
      BY <1>b, <3>2 DEF Spilled
    <3>4. ~torn => \E db \in committed : \A p \in Page : cache[c][p] = db[p]
      BY <1>d, <3>1, <3>2, <3>3 DEF HoldsCommitted, Agrees
    <3>5. ~torn => cache[c] \in committed
      BY <1>b, <3>4 DEF Db
    <3> QED
      BY <1>a, <2>1, <2>2, <2>4, <3>5 DEF DiskInv
  <2> QED
    BY <1>13, <2>3, <2>4 DEF Close
<1>14. ASSUME NEW c \in Conn, CloseReadOnly(c) PROVE DiskInv'
  <2>1. /\ cache' = cache /\ txn' = txn /\ nTxn' = nTxn /\ committed' = committed /\ torn' = torn
        /\ journal' = journal /\ disk' = disk /\ \A d \in Conn : st[d] = "closed" => st'[d] = "closed"
    BY <1>14, <1>b DEF CloseReadOnly, hist
  <2>2. ~torn => HoldsCommitted'
    BY <1>d, <2>1 DEF HoldsCommitted, Spilled, Agrees
  <2> QED
    BY <1>a, <1>d, <2>1, <2>2 DEF DiskInv
<1>15. CASE Crash
  BY <1>15, <1>a, <1>d DEF Crash, DiskInv, HoldsCommitted, hist
<1>16. CASE UNCHANGED vars
  BY <1>16, <1>a, <1>d DEF vars, hist, DiskInv, HoldsCommitted, Spilled, Agrees
<1> QED
  BY <1>1, <1>2, <1>4, <1>5, <1>6, <1>7, <1>8, <1>10, <1>11, <1>12, <1>13, <1>14, <1>15, <1>16
  DEF Next, Step

\* FileIsCommitted: with the upper journal off, whatever overlaps, is refused or
\* crashes, the lower file holds a state that some COMMIT returned OK for, as long
\* as no ROLLBACK had to leave pages that were spilled.
THEOREM FileIsCommittedHolds == Spec => []FileIsCommitted
<1>1. DiskInv => FileIsCommitted
  BY DEF DiskInv, FileIsCommitted
<1> QED
  BY <1>1, WriterInit, WriterStep, DiskInit, DiskStep, PTL DEF Spec

\* What an open connection sees between transactions is one it can show.
LEMMA SettledAgrees ==
  ASSUME WriterInv, DiskInv, journalMode = "off", ~torn, NEW c \in Conn, Settled(c)
  PROVE  \E db \in committed : Agrees(c, db)
<1>1. st[c] \in {"open", "readonly"} /\ txn[c] = "none"
  BY DEF Settled
<1>2. nTxn \in Nat /\ \A p \in Page : cache[c][p] <= nTxn
  BY <1>1 DEF WriterInv, TypeInv, Typed, TypeOK, Dated, Own
<1>3. Spilled(c) = {}
  BY <1>2 DEF Spilled
<1> QED
  BY <1>1, <1>3 DEF DiskInv, HoldsCommitted

\* ViewIsCommitted: so does what a connection between transactions reads, but for
\* pages that a write of its own lost when it was refused.
THEOREM ViewIsCommittedHolds == Spec => []ViewIsCommitted
<1>1. WriterInv /\ DiskInv => ViewIsCommitted
  BY SettledAgrees DEF ViewIsCommitted, Agrees
<1> QED
  BY <1>1, WriterInit, WriterStep, DiskInit, DiskStep, PTL DEF Spec
=============================================================================
