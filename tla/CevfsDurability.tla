-------------------------- MODULE CevfsDurability --------------------------
(***************************************************************************)
(* Transactions, locks and crashes around CEVFS (src/ext/cevfs/cevfs.c).   *)
(*                                                                         *)
(* Two pagers are stacked.  The upper one belongs to SQLite: it commits    *)
(* transactions through xWrite, xSync and its own journal, whose name      *)
(* cevfsMapPath changes, and believes the answers of xLock and             *)
(* xCheckReservedLock, which CEVFS bypasses.  The lower one belongs to     *)
(* CEVFS: it takes SHARED when the file is opened, RESERVED at the first   *)
(* write, and commits in cevfsClose and nowhere else.                      *)
(*                                                                         *)
(* The page maps, and I/O errors, are in CevfsPageMap; here a database is  *)
(* a function from pages to the number of the transaction that wrote them  *)
(* last.  A page is Lost when the page map was changed for a write that    *)
(* was then refused: its entry names a place nothing was written to.       *)
(***************************************************************************)
EXTENDS Integers, FiniteSets

CONSTANTS Conn,          \* database connections, one process
          Page,
          MaxTxn,        \* bound: upper transactions
          MaxCrash,      \* bound: crashes (or exits) of the process
          JournalModes,  \* PRAGMA journal_mode of the upper pagers
          None

ASSUME BoundsAssumption == MaxTxn \in Nat /\ MaxCrash \in Nat
ASSUME JournalAssumption == JournalModes \subseteq {"delete", "off"}
ASSUME NoneAssumption == None \notin Conn

Lost == -1
Db == [Page -> {Lost} \cup 0 .. MaxTxn]

VARIABLES
  disk,      \* the lower file as last committed
  st,        \* per connection: "closed", "open", "readonly" or "leaked"
  cache,     \* per connection: the database as its lower pager has it
  reserved,  \* the connection whose lower pager has begun a transaction
  txn,       \* per connection: state of its upper transaction
  pages,     \* per connection: pages its upper transaction has changed
  before,    \* per connection: what the journal it has open was begun with
  journal,   \* the upper journal file: who writes it, the pages it has
             \* records of, those that were synced, what the records hold
  journalMode, \* of the upper pagers, the same for all
  nTxn, nCrash,
  committed, \* history: every state a COMMIT or the creation returned OK for
  latest,    \* history: the state after the last such COMMIT
  torn       \* history: a ROLLBACK could not take back what was written

hist == <<committed, latest>>
vars == <<disk, st, cache, reserved, txn, pages, before, journal, journalMode, nTxn, nCrash,
          hist, torn>>

Blank == [p \in Page |-> 0]
NoJournal == [owner |-> None, saved |-> {}, synced |-> {}, orig |-> Blank]

Init ==
  /\ disk = Blank
  /\ st = [c \in Conn |-> "closed"]
  /\ cache = [c \in Conn |-> Blank]
  /\ reserved = None
  /\ txn = [c \in Conn |-> "none"]
  /\ pages = [c \in Conn |-> {}]
  /\ before = [c \in Conn |-> Blank]
  /\ journal = NoJournal
  /\ journalMode \in JournalModes
  /\ nTxn = 0 /\ nCrash = 0
  /\ committed = {disk}
  /\ latest = disk
  /\ torn = FALSE

Overlay(db, ps, v) == [p \in Page |-> IF p \in ps THEN v[p] ELSE db[p]]

\* xCheckReservedLock always answers "not locked": a journal whose header was
\* synced is hot, whoever is writing it.
HotJournal(c) == journal.synced # {} /\ journal.owner # c

CanReserveAny(c) == TRUE  \* seeded fault
CanReserve(c) == reserved \in {None, c}
ExclusiveOfWriters(c) == \A d \in Conn \ {c} : st[d] # "open"  \* seeded fault
Exclusive(c)  == \A d \in Conn \ {c} : st[d] = "closed"

\* cevfsWrite of one of the pages ps, with sqlite3PagerBegin answering BUSY: the
\* page map was changed before, unless the page keeps its place and size.
Refused(c, ps) ==
  /\ ~CanReserve(c)
  /\ cache' \in {cache} \cup {[cache EXCEPT ![c][p] = Lost] : p \in ps}

-----------------------------------------------------------------------------
\* The upper pager is open and between transactions: sqlite3_close rolls an
\* open transaction back first.
OpenOnly(c) == st[c] = "open"  \* seeded fault
Idle(c)     == st[c] = "open" /\ txn[c] = "none"

\* cevfsOpen: SHARED on the lower file until the file is closed.
Open(c) ==
  /\ st[c] = "closed"
  /\ \E s \in {"open", "readonly"} : st' = [st EXCEPT ![c] = s]
  /\ cache' = [cache EXCEPT ![c] = disk]
  /\ UNCHANGED <<disk, reserved, txn, pages, before, journal, nTxn, nCrash, hist, torn>>

\* The upper pager plays a hot journal back through cevfsWrite and deletes it,
\* or fails with BUSY at the first page.
PlayBack(c) ==
  /\ Idle(c)
  /\ HotJournal(c)
  /\ CanReserve(c)
  /\ reserved' = c
  /\ cache' = [cache EXCEPT ![c] = Overlay(@, journal.synced, journal.orig)]
  /\ journal' = NoJournal
  /\ UNCHANGED <<disk, st, txn, pages, before, nTxn, nCrash, hist, torn>>

PlayBackRefused(c) ==
  /\ Idle(c)
  /\ HotJournal(c)
  /\ Refused(c, journal.synced)
  /\ UNCHANGED <<disk, st, reserved, txn, pages, before, journal, nTxn, nCrash, hist, torn>>

\* A page changes in the upper cache; its old contents go to the journal.  No
\* transaction starts while there is another journal: a hot one is played back
\* first, and what two connections that write one journal file leave in it is
\* beyond this model.
InTxn(c) == txn[c] \in {"active", "spilled"}
Modify(c, p) ==
  /\ st[c] = "open"
  /\ InTxn(c) \/ (txn[c] = "none" /\ nTxn < MaxTxn /\ journal = NoJournal)
  /\ p \notin pages[c] /\ cache[c][p] # Lost
  /\ pages' = [pages EXCEPT ![c] = @ \cup {p}]
  /\ IF txn[c] # "none"
     THEN /\ UNCHANGED <<txn, before>>
          /\ journal' = IF journal.owner = c THEN [journal EXCEPT !.saved = @ \cup {p}] ELSE journal
     ELSE /\ txn' = [txn EXCEPT ![c] = "active"]
          /\ before' = IF journalMode = "off" THEN before ELSE [before EXCEPT ![c] = cache[c]]
          /\ journal' = IF journalMode = "off" THEN journal
                        ELSE [owner |-> c, saved |-> {p}, synced |-> {}, orig |-> cache[c]]
  /\ UNCHANGED <<disk, st, cache, reserved, nTxn, nCrash, hist, torn>>

\* The journal is synced before a page is written.
Synced(c) == IF journal.owner = c THEN [journal EXCEPT !.synced = journal.saved] ELSE journal

\* The upper cache is full: pagerStress writes a page before the COMMIT, and
\* keeps it when the answer is BUSY.  The transaction goes on in either case.
Spilled(c) == {p \in Page : cache[c][p] = nTxn + 1}
Spill(c, p) ==
  /\ InTxn(c)
  /\ p \in pages[c] \ Spilled(c)
  /\ CanReserve(c)
  /\ reserved' = c
  /\ cache' = [cache EXCEPT ![c][p] = nTxn + 1]
  /\ txn' = [txn EXCEPT ![c] = "spilled"]
  /\ journal' = Synced(c)
  /\ UNCHANGED <<disk, st, pages, before, nTxn, nCrash, hist, torn>>

SpillRefused(c) ==
  /\ InTxn(c)
  /\ Refused(c, pages[c])
  /\ txn' = [txn EXCEPT ![c] = "spilled"]
  /\ journal' = Synced(c)
  /\ UNCHANGED <<disk, st, reserved, pages, before, nTxn, nCrash, hist, torn>>

\* COMMIT, first half: the journal is synced.
SyncJournal(c) ==
  /\ InTxn(c)
  /\ txn' = [txn EXCEPT ![c] = "synced"]
  /\ journal' = Synced(c)
  /\ UNCHANGED <<disk, st, cache, reserved, pages, before, nTxn, nCrash, hist, torn>>

\* COMMIT, second half: cevfsWrite puts every page in the lower pager.
WritePages(c) ==
  /\ txn[c] = "synced"
  /\ CanReserve(c)
  /\ reserved' = c
  /\ nTxn' = nTxn + 1
  /\ cache' = [cache EXCEPT ![c] = Overlay(@, pages[c], [p \in Page |-> nTxn + 1])]
  /\ txn' = [txn EXCEPT ![c] = "written"]
  /\ UNCHANGED <<disk, st, pages, before, journal, nCrash, hist, torn>>

\* COMMIT answers BUSY and leaves the transaction open, to be tried again or
\* rolled back.
WriteRefused(c) ==
  /\ txn[c] = "synced"
  /\ Refused(c, pages[c])
  /\ txn' = [txn EXCEPT ![c] = "spilled"]
  /\ UNCHANGED <<disk, st, reserved, pages, before, journal, nTxn, nCrash, hist, torn>>

\* What the end of a transaction forgets.
EndTxn(c) ==
  /\ txn' = [txn EXCEPT ![c] = "none"]
  /\ pages' = [pages EXCEPT ![c] = {}]
  /\ before' = [before EXCEPT ![c] = Blank]

\* cevfsSync syncs the file, where the lower pager has written nothing; the
\* journal is deleted by name and COMMIT returns.
FinishCommit(c) ==
  /\ txn[c] = "written"
  /\ EndTxn(c)
  /\ journal' = NoJournal
  /\ committed' = committed \cup {cache[c]}
  /\ latest' = cache[c]
  /\ UNCHANGED <<disk, st, cache, reserved, nTxn, nCrash, torn>>

\* ROLLBACK when nothing was written, or without a journal to undo it from:
\* pages that were spilled stay as they are.
Rollback(c) ==
  /\ txn[c] = "active" \/ (txn[c] = "spilled" /\ journalMode = "off")
  /\ EndTxn(c)
  /\ journal' = IF journalMode = "off" THEN journal ELSE NoJournal
  /\ IF Spilled(c) = {} THEN UNCHANGED <<nTxn, torn>> ELSE nTxn' = nTxn + 1 /\ torn' = TRUE
  /\ UNCHANGED <<disk, st, cache, reserved, nCrash, hist>>

\* ROLLBACK after a write, or the attempt at one: the pager plays back the
\* journal it has open, whatever has become of the file, and deletes the file
\* by name.  When it cannot write it leaves the journal behind.
RollbackWritten(c) ==
  /\ txn[c] = "spilled" /\ journalMode # "off"
  /\ EndTxn(c)
  /\ \/ /\ CanReserve(c)
        /\ reserved' = c
        /\ cache' = [cache EXCEPT ![c] = Overlay(@, pages[c], before[c])]
        /\ journal' = NoJournal
     \/ /\ Refused(c, pages[c])
        /\ journal' = IF journal.owner = c
                      THEN [journal EXCEPT !.owner = None, !.saved = journal.synced] ELSE journal
        /\ UNCHANGED reserved
  /\ UNCHANGED <<disk, st, nTxn, nCrash, hist, torn>>

\* cevfsClose.  It writes the header whether or not anything changed, and the
\* lower commit needs EXCLUSIVE.  A failure is not reported by sqlite3_close:
\* the handle, its locks and its pages are left behind.
Close(c) ==
  /\ Idle(c)
  /\ IF CanReserve(c) /\ Exclusive(c)
     THEN /\ disk' = cache[c]
          /\ st' = [st EXCEPT ![c] = "closed"]
          /\ reserved' = None
     ELSE /\ disk' = disk
          /\ st' = [st EXCEPT ![c] = "leaked"]
          /\ reserved' = IF CanReserve(c) THEN c ELSE reserved
  /\ UNCHANGED <<cache, txn, pages, before, journal, nTxn, nCrash, hist, torn>>

CloseReadOnly(c) ==
  /\ st[c] = "readonly"
  /\ st' = [st EXCEPT ![c] = "closed"]
  /\ UNCHANGED <<disk, cache, reserved, txn, pages, before, journal, nTxn, nCrash, hist, torn>>

\* The process dies.  The lower pager never reached its commit, so the lower
\* file keeps what it had; what was synced of an upper journal stays.
Crash ==
  /\ nCrash < MaxCrash
  /\ nCrash' = nCrash + 1
  /\ st' = [c \in Conn |-> "closed"]
  /\ txn' = [c \in Conn |-> "none"]
  /\ pages' = [c \in Conn |-> {}]
  /\ before' = [c \in Conn |-> Blank]
  /\ reserved' = None
  /\ journal' = IF journal.synced = {} THEN NoJournal
                ELSE [journal EXCEPT !.owner = None, !.saved = journal.synced]
  /\ UNCHANGED <<disk, cache, nTxn, hist, torn>>

Step ==
  \/ \E c \in Conn :
       \/ Open(c) \/ PlayBack(c) \/ PlayBackRefused(c)
       \/ \E p \in Page : Modify(c, p) \/ Spill(c, p)
       \/ SpillRefused(c) \/ SyncJournal(c) \/ WritePages(c) \/ WriteRefused(c) \/ FinishCommit(c)
       \/ Rollback(c) \/ RollbackWritten(c) \/ Close(c) \/ CloseReadOnly(c)
  \/ Crash

Next == Step /\ UNCHANGED journalMode

Spec == Init /\ [][Next]_vars

-----------------------------------------------------------------------------
(* Properties.                                                             *)

\* Every variable has its type.
TypeOK ==
  /\ disk \in Db /\ cache \in [Conn -> Db]
  /\ st \in [Conn -> {"closed", "open", "readonly", "leaked"}]
  /\ reserved \in Conn \cup {None}
  /\ txn \in [Conn -> {"none", "active", "spilled", "synced", "written"}]
  /\ pages \in [Conn -> SUBSET Page] /\ before \in [Conn -> Db]
  /\ journal \in [owner : Conn \cup {None}, saved : SUBSET Page, synced : SUBSET Page, orig : Db]
  /\ journalMode \in JournalModes
  /\ nTxn \in 0 .. MaxTxn /\ nCrash \in 0 .. MaxCrash
  /\ committed \subseteq Db /\ latest \in committed
  /\ torn \in BOOLEAN

\* Connections that are between transactions and have nothing to play back.
Settled(c) == st[c] \in {"open", "readonly"} /\ txn[c] = "none" /\ ~HotJournal(c)

\* With the upper journal off, as long as no ROLLBACK has left part of its
\* transaction behind, the lower file only ever holds a state some COMMIT
\* returned OK for: no transaction is found half done.
FileIsCommitted == journalMode = "off" /\ ~torn => disk \in committed

\* A connection sees such a state, too, apart from pages that it lost in a write
\* that was refused: it never sees part of a transaction.
ViewIsCommitted ==
  journalMode = "off" /\ ~torn =>
    \A c \in Conn : Settled(c) => \E db \in committed : \A p \in Page : cache[c][p] \in {db[p], Lost}

\* At most one connection holds changes the lower file does not have: no two
\* writers can overwrite each other's pages.  A connection that has lost pages
\* is none and cannot become one, so that they are never committed.
OneWriter ==
  \A c \in Conn : st[c] # "closed" =>
    /\ (\E p \in Page : cache[c][p] \notin {disk[p], Lost}) => reserved = c
    /\ (\E p \in Page : cache[c][p] = Lost) => ~CanReserve(c)

\* The lower file never changes under another open connection, whose page maps
\* are in memory.
StableUnderReaders ==
  [][disk' # disk => \E c \in Conn : \A d \in Conn \ {c} : st[d] = "closed"]_vars

-----------------------------------------------------------------------------
(* Claims of the source that the code does not keep; the README says when. *)

\* What COMMIT returned OK for is what the next connection sees.
Durable == \A c \in Conn : Settled(c) => cache[c] = latest

\* FileIsCommitted whatever is rolled back, ViewIsCommitted whatever is lost.
FileAlwaysCommitted == journalMode = "off" => disk \in committed
ViewAlwaysCommitted == journalMode = "off" /\ ~torn => \A c \in Conn : Settled(c) => cache[c] \in committed
=============================================================================
