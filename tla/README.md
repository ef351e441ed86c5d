# sqlitext in TLA+

Specifications, model-checking configurations and proofs for the parts of
sqlitext that keep state of their own: the compressing VFS (CEVFS), sequences,
changesets, the lifetimes in the Lua binding, and the property graph
with the algorithms that run on it. Every module translates the C code under `src/`; comments cite
the functions they model.

## 1. The system

sqlitext bundles SQLite with a Lua binding and a set of extensions.

| Component | State it keeps | Operations | What makes it hard | What makes it correct |
|---|---|---|---|---|
| CEVFS page maps, `ext/cevfs/cevfs.c` | a `cevfs_file`: frontier (`currPgno`, `currPageOfst`), master table of page maps, the one map in memory and its dirty flag, header on page 1 | open, read, write, `PRAGMA page_size`, close | space is allocated behind a moving frontier that page maps share with data; one map is cached; a write may fail half way | pages read back as written; no two pages share bytes; maps and data keep apart |
| CEVFS transactions, same file | lower file, lower pager per connection, upper journal | upper BEGIN/COMMIT/ROLLBACK, open, close, crash | two pagers are stacked, the upper one's locks are bypassed and the lower one commits only at close | one writer; committed states only; durable |
| Sequences, `ext/sequence/sequence.c` | a row of `sqlite_sequence` | `nextval`, `curval` | two statements that should be one, bounded retries inside a function call, transactions around it | numbers are unique, none is lost, calls return |
| Changesets, `ext/diff/` | two databases, a changeset, a savepoint in a third | diff, apply | statements run one by one with constraints checked at each; failures; a target that has moved on; retries | applying `diff(A, B)` to A gives B, to anything else does no harm |
| Lua binding, `binding/lua/lsqlite3.c` | databases, statements, backups, the registry that keeps databases alive | open, prepare, step, iterators, reset, finalize, close, `close_vm`, backups, GC, `lua_close`, callbacks | lifetimes are decided by a garbage collector and by explicit calls, also from callbacks | nothing is used after it was closed, nothing is lost, what is out of reach is closed |
| Graph store, `ext/graph/backend/executor/cypher_schema.c` and the executors | node, edge, label and typed property tables, property key cache | CREATE, SET, REMOVE, DELETE, MERGE | a Cypher statement is many SQL statements without a transaction; the cache lives across ROLLBACK | one value per property, no property without owner, the cache agrees with the tables |
| Graph kept for the algorithms, `ext/graph/extension.c`, `graph_algorithms.c` | a `csr_graph` named by the connection and by its executor | load, reload, unload, `cypher()`, close | four SELECTs fill arrays whose sizes the earlier ones gave; a graph outlives the tables it was loaded from | a graph is that of one state of the tables, and is freed once |
| Graph algorithms, `graph_algo_*.c` | heaps, queues, stacks and arrays of one call | `dijkstra`, `astar`, `bfs`, `dfs`, `wcc`, `scc`, and eleven over floating point | loops and explicit stacks over graphs with cycles, parallel edges and edges of no length, in arrays of fixed size | the answer is the one the definition says, within the arrays, and there is one |
| Cypher parser and SQL generation | none beyond a statement | translate | volume | same meaning (out of scope) |
| Vector search, `ext/vector/` | shadow tables and indexes | insert, delete, query | indexes kept beside rows | index and rows agree |

How they interact. SQLite's upper pager calls CEVFS through `sqlite3_io_methods`
(`xRead`, `xWrite`, `xSync`, `xLock`, `xFileControl`), and CEVFS calls a second,
lower pager of SQLite. `nextval`, the graph functions and the vector tables are
SQL functions and virtual tables that run statements on the connection that
called them. `sqlite-diff` and `sqlite-patch` are separate programs that meet in
a changeset file. The Lua binding owns connections and statements and calls back
into Lua from hooks.

The hazards of this code, each at its line, are listed in `PROJECT.json` with the
properties that watch them.

## 2. Modules

| Module | Models | Relation |
|---|---|---|
| `PageStore` | what an upper pager expects of a file | abstract specification |
| `CevfsPageMap`, `MCCevfsPageMap` | page maps, header, open, close, read, write | one connection |
| `CevfsStore`, `MCCevfsStore` | `CevfsPageMap` as it is seen through `cevfsRead` and `cevfsFileSize` | implements `PageStore` |
| `CevfsPageMapProofs` | invariants of `CevfsPageMap`, the refinement of `CevfsStore` | theorems |
| `CevfsDurability` | locks, journal, commit at close, crashes | several connections; abstracts the page maps |
| `CevfsDurabilityProofs` | invariants of `CevfsDurability` | theorems |
| `Sequence`, `MCSequence` | `nextval` by several connections | |
| `SequenceProofs` | invariants of `Sequence` | theorems |
| `DiffPatch`, `MCDiffPatch` | diff of one table, application in a savepoint | |
| `DiffPatchProofs` | invariants of `DiffPatch` | theorems |
| `LuaStatements` | who owns databases, statements and backups | |
| `LuaStatementsProofs` | invariants of `LuaStatements` | theorems |
| `GraphStore`, `MCGraphStore` | nodes, edges and typed properties, by several connections | |
| `GraphStoreProofs` | invariants of `GraphStore`, and what a call has still to run | theorems |
| `CsrGraph` | a loaded graph, and what the algorithms' loops share | used by the next three |
| `GraphTraversal`, `GraphPaths`, `GraphComponents` | `bfs` and `dfs`; `dijkstra` and `astar`; `wcc` and `scc` | each a specification of its own |
| `GraphAlgorithms`, `MCGraphAlgorithms` | calls of them, one at a time | composes the three |
| `GraphAlgorithmsProofs` | `dijkstra` and `astar`, `bfs` and `dfs`, `wcc` and `scc` | theorems |
| `CsrLoad` | `csr_graph_load`: hash table, counts, arrays | operators, used by the next |
| `GraphCache`, `MCGraphCache` | the graph a connection keeps, while tables change | several connections |
| `GraphCacheProofs` | invariants of `GraphCache`, and what a load computes | theorems |

### CevfsPageMap

`file` is the struct `cevfs_file`, with the lower pager's pages added as `map`
(what a page holds when read as a page map), `bytes` (what it holds when read as
data) and `nPage`. `page1` is the header page on disk. An operator named like a C
function maps the struct before the call to the struct after it: `SwitchPageMap`,
`PageMapSet`, `AddPageEntry`, `AllocCmpPageSpace`, `SavePagemapData` and so on.
The actions are the VFS methods: `Open`, `Close`, `Read`, `Write`, `PragmaPageSize`,
and `WriteFails` for a write whose lower page cannot be fetched or journaled once
the page map has already been changed (fault `"page"`). `cevfsSwitchPageMap` answers the index it was
asked for also when the map in memory could not be saved (`"save"`: it stays loaded, and dirty) or the other one could not be
loaded (`"load"`: an empty one takes its place); `PageMapGet` and `PageMapSet` then
use the entries of the wrong map, in the model as in the code. `Faults` says which of these may happen; every
switch one call makes meets the same one, which is a bound of the model.

A compressed page is its size and, for every byte, which version of which upper
page it belongs to; that is enough to see a page overwritten, cut off or misplaced.
Compression and encryption are a choice of size: the result depends on content the
VFS does not look at. `Blank` bytes are those nothing was written to.

The two places where the map in memory and the copy to be saved differ in the
code (a placeholder is cleared in `pPgMap` only, and entries past the count are
not loaded into it) differ in the model too.

### CevfsStore and PageStore

`PageStore` is a function from page numbers to the contents written last, with a
file size. `CevfsStore` is `CevfsPageMap` with `seen`, what `cevfsRead` and `cevfsFileSize`
answer for each page, in an open file and in one that has just been closed and
opened again (`View`). A page that was skipped by a later write has an entry and no place: `cevfsRead`
asks the lower pager for page 0 and answers `SQLITE_CORRUPT` (`Corrupt`), or, when the placeholder has been saved and loaded,
which gives it a place and no size, fails an assertion or decompresses nothing (`NoSlot`). The refinement mapping
`Store` takes both for the page store's `Hole`, a page that cannot be read, and `ImplementsPageStore == Store!Spec`: a
write is a write, a failed write changes nothing but its own page, everything else
is a stutter. (`seen` is a function of the other variables; it is a variable so that it is
worked out once a step.)

### CevfsDurability

A database is a function from pages to the transaction that wrote them. `disk` is
the lower file; `cache[c]` is what connection `c`'s lower pager holds. A COMMIT of
the upper pager is three steps, `SyncJournal`, `WritePages` and `FinishCommit`,
because a crash may fall between any two. Before it, `Spill` writes single pages, as `pagerStress` does
when the upper cache is full; a ROLLBACK takes them back from the journal (`RollbackWritten`), and without one leaves them as they are
(`Rollback`, which sets the history variable `torn`). A write that the lower pager refuses because another connection has RESERVED has changed the
page map by then (`Refused`): the entry names a place nothing was written to, and the page is `Lost` to that
connection. That may happen to a spill, a COMMIT, a ROLLBACK and a play back. COMMIT may be tried again. `Close` commits the lower pager or, when
another connection is open, fails and leaves the handle behind, since
`sqlite3_close` does not report it (`"leaked"`). `PlayBack` is the upper pager
finding a journal and being told by `cevfsCheckReservedLock` that no one has a
lock. `committed` and `latest` are history variables: the states COMMIT returned OK
for and the last of them. `journalMode` is chosen at first and stays. No transaction starts while there is a journal of another
connection (`Modify`): what two connections that write one journal file make of it is not modelled.

### Sequence

`Select` and the update actions are the two statements of `nextval`. What surrounds the call is
`ctx`: `"bare"` (a statement that reads no table), `"reader"` (a statement that
does, which holds SHARED for the duration), `"txn"` (an explicit transaction). The
update commits with its statement, or joins the transaction, or is BUSY and is
tried again. `Insert` is an INSERT into the AUTOINCREMENT table the row belongs to.

### DiffPatch

`Changeset(s, t)` is what `changeset_one_table` selects, with the order its ORDER
BY gives (`SortKey`, `Arm`). `Begin`, `Apply`, `ApplyFails`, `RollBack`, `Release`
and `ReleaseFails` are the savepoint of `sqlitediff_apply`; `Crash` ends the
process. Rows have a key and two columns; `Class` says which values SQLite's
comparison takes for equal. The target is A, or any other
table. `Schemas` says how a behaviour uses the tables: with which values, with rows under a
NULL key or not, with a target that has drifted, how often.

### GraphStore

`db` is the tables, `call` the Cypher call a connection is in, with the SQL statements
it has still to run: the executors open no transaction, so outside one of the application's
(`Begin`, `Commit`, `Rollback`) each statement commits alone. `SetNode`, `CreateNode`,
`DeleteNode` and so on begin a call; `Clear`, `Put`, `DropNode` and so on are the
statements, and `End` closes a connection, or ends its process, after any of them. SET and REMOVE keep their
MATCH statement open while they write, which keeps the commits of other connections
waiting (`Alone`); DELETE and CREATE do not. `cache` is the key cache, one
entry a slot, which ROLLBACK does not touch. `said` is a history variable: what the
calls that returned have said of each value; it is "unknown" for one whose
call did not get to the end of its DELETEs. A value is the table it is in: text, int and
JSON stand for the five tables.

### LuaStatements

Userdata are numbered as they are made. `db`, `vm` and `bu` are the structs `sdb`, `sdb_vm` and
`sdb_bu` with the SQLite object behind each; `tracked` is the registry's table
of each database; `held` is what the program can reach. The collector takes
anything that is neither held nor kept by the registry, in any order; in `lua_close`
(`Exit`) everything, userdata after what was made from it. `call` is the step or exec in whose middle
SQLite has called back into Lua; while it lasts every other action may happen. The first undefined
behaviour is kept in `misuse`, and ends the behaviour.

`Habits` are three rules the code does not check and a program must keep, or it can write to freed
memory or lose a connection. The run keeps them all; the departures below show
that each is needed.

### The graph algorithms

`net` is the sequence of the edges, as `csr_graph_load` reads them; the slots of a
node are the places of its edges in it. An action is one turn of a loop, so that invariants
speak of the middle of a call. `pending` is the binary heap as the set of its
entries, of which any least one is popped: the code's choice among equal entries
depends on the history of the heap. What an edge costs is `Cost`, its property or 1; `weight` is the array the code fills, which for several
edges between two nodes is not the same (`LoadWeight`), and for `astar` holds ones. `Shortest` goes by the costs, `PathReal` by the array. Estimates of A* are any functions that are 0 at the target, since the code
computes them from coordinates the user supplies. Weights are natural numbers. The source
and target are nodes or `None`, a name that no node has.

What the answers are compared with is in `CsrGraph` and beside the properties: sets closed under
edges instead of searches, heights instead of distances (`IsPotential`: the length of a shortest
path is the greatest height the target can have when no edge climbs by more than its weight),
sets of nodes that no edge leaves or enters for components.

### CsrLoad and GraphCache

`CsrLoad` is `csr_graph_load` in the four parts its SELECTs make: `WithNodes`
(with the hash table and its probing), `WithNames`, `WithCounts`, `WithEdges`. A slot nobody
wrote is `Unset`, and `beyond` says that one was written that is not there. In
`GraphCache` each part reads what its connection sees at that time. `mem` is memory
by address; `of`, a history variable, is the states of the tables since the call began. `cache[c]` and
`executor[c]` are the two pointers to a kept graph. What surrounds a call is as in `Sequence`.

## 3. Runs

Each run asks one question of the system. Passing runs:

| Run | Distinct states | Shows |
|---|---|---|
| `CevfsPageMapDense` | 157 k | without skipped pages, whatever grows, shrinks, is closed and reopened, and whichever page cannot be had or page map saved or loaded: slots are disjoint, inside a page, off the page maps; page maps have pages of their own; space that was handed out is never handed out again |
| `CevfsStore` | 115 k | the same machine, with skipped pages, placeholders, writes that fail and two versions of each page, implements the page store as long as page maps can be saved and loaded |
| `CevfsDurability` | 2.3 M | two connections, two crashes, pages spilled before the COMMIT and writes refused: one writer, a file that is stable under its readers, and with `journal_mode=OFF`, up to a ROLLBACK that leaves spilled pages behind, only committed states in the file and, but for pages lost in a refused write, in every settled connection |
| `Sequence` | 12 k | called under a lock, `nextval` hands out each number exactly once, returns, and lets transactions end |
| `DiffPatch` | 661 k | diff then patch gives B, cleanly, for all pairs of tables, a row with a NULL key among them; rows that changed since are left alone; a patch applied again changes nothing |
| `LuaStatements` | 160 k | two databases, two statements and a backup of a program that keeps three habits: nothing is used that is gone, nothing is lost, what is out of reach is closed in the end |
| `GraphStore` | 1.3 M | with calls that do not overlap, in transactions or not, statements that fail and connections that end anywhere, properties read as they were last set, nodes have one value each, edges do not lose their nodes, nor do properties in the tables a DELETE clears |
| `GraphAlgorithms` | 420 k | on every graph of four nodes (three with weights) and on some with loops, parallel edges and cycles of no length, the six algorithms answer what their definitions say, within their arrays, and return; paths are shortest by the edges' own weights where the code can hold them (`WeightsKept`) |
| `GraphCache` | 1.0 M | called under a lock, a kept graph is that of one state of the tables, its arrays are filled exactly, and one connection owns it |

The types of the variables (`TypeOK`) of the other modules hold in these runs too; they say little
beside the invariants that are listed.

Three runs end in a counterexample. Each shows the code departing from a sentence
of its own documentation or comments, which `PROJECT.json` quotes under
"findings":

- `CevfsPageMapHoles`: a write that skips a whole page map's worth of pages gives
  two page maps one lower page. Placeholders take no space, so the frontier is
  where it was when the second map is started;
- `SequenceBare`: `SELECT nextval('s')` reads no table and holds no lock between its two statements, so the number it has read can be
  given to another in between. The counterexample TLC prints has an AUTOINCREMENT INSERT for the other; two calls of `nextval` lead there as well;
- `GraphDijkstraTwins`: of two edges of weight 2 from one node to another `dijkstra` gives one the default weight and answers the distance 1.

### Known departures

Other sentences of the source that the code does not keep, found with the same
modules. The definitions are kept beside the properties that hold, marked as
claims; no run is spent on them. "With" is what to change in the run named to see the
counterexample.

| Claim | Run, and with | What happens |
|---|---|---|
| `MMTblInBounds`, cevfs.c:797 "we've run out of room in the master map table" | `CevfsPageMapDense`, `MMMax = 2` | the test looks at the map that is loaded, which is the last but one when the table is full; one entry is written past the table |
| `SlotInPage` (of `SlotsPlaced`), cevfs.c:763 | `CevfsPageMapDense`, `U16 = 8`, `CmpSizes = {4}` | with pages of 64 KiB the offset after a full page wraps to 0 and the next slot is taken for one that fits |
| `MMTblSaved`, cevfs.c:460 "lower pager pgno where actual page map data is stored" | `CevfsPageMapDense`, `PageSize = 2`, `EntrySz = 1`, `U16 = 5`, `CmpSizes = {1}`, `Upp = {0, 1, 2, 3, 4, 5}`, `MaxPgno = 8` | page numbers above 65535 are stored modulo 65536 |
| `CloseAssertion`, cevfs.c:907 `assert( p->lwrPageFile==nPageFile )` | `CevfsPageMapDense` | a page map may be the last page of the lower file |
| `ReadAssertion`, cevfs.c:990 `assert( uCmpPgSz > 0 )` | `CevfsStore`, `EntrySz = 2` | a placeholder is given a place in the copy that is saved, and is loaded with it |
| `ImplementsPageStore`, cevfs.c:1292 | `CevfsStore`, `OpenPgSz = {2}`, `PragmaPgSz = {1}` | `PRAGMA page_size` changes the page size and not the bytes a page map covers |
| `ImplementsPageStore`, cevfs.c:527 | `CevfsStore`, `OpenPgSz = {1, 2}` | the same, when a file is opened by a session of another default page size |
| `ImplementsPageStore`, cevfs.c:680 "@returns index# of page map switched to" | `CevfsStore`, `Faults = {"save"}` or `{"load"}` | the result of a save or load is dropped: a page is read, and written, by an entry of the wrong map |
| `FileAlwaysCommitted`, cevfs.c:914 | `CevfsDurability` | pages that were spilled before a ROLLBACK without journal stay in the lower pager, and the next close commits them |
| `ViewAlwaysCommitted`, cevfs.c:1132 | `CevfsDurability` | the page map was changed before `sqlite3PagerBegin` answered BUSY: the connection reads a place nothing was written to |
| `ViewIsCommitted` for any `journalMode`, cevfs.c:1280 | `CevfsDurability`, the premise `journalMode = "off"` left out | a journal that survived a crash is played back over a file its transaction never reached |
| `Durable`, cevfs.c:916 | `CevfsDurability` | the lower pager commits in `cevfsClose` only: a process that ends without closing loses every transaction it committed |
| `Durable`, cevfs.c:914 | `CevfsDurability`, `MaxCrash = 0` | the lower commit fails when another connection is open, and `sqlite3_close` does not say so |
| `FirstIsOne`, sequence.c:240 "the first call to nextval() for a given sequence will always return 1" | `Sequence` | without a row `nextval` fails with `SQLITE_DONE` |
| `ExactRoundTrip`, diff.c:451 | `DiffPatch` | a change between values that compare equal (collation, 1 and 1.0) is not in the changeset |
| `OkMeansApplied`, main-patch.c:23 "Could not apply changeset" | `DiffPatch` | the result of ROLLBACK TO replaces the error (patch.c:539): a changeset that was rolled back answers `SQLITE_OK` |
| `RoundTrip`, diff.c:428 | `DiffPatch`, `HasPk = FALSE` | tables without PRIMARY KEY are skipped |
| `RoundTrip`, diff.c:491 | `DiffPatch`, `PkLeads = FALSE` | when the key is not the first column the instructions are not in key order: the INSERT of a row with a NULL key comes before the DELETE of its equal |
| `RoundTrip` and `RetryChangesNothing`, patch.c:280 | `DiffPatch`, `Loose` with `maxTries |-> 2` | a row with a NULL key meets no conflict, so a patch applied again inserts it again |
| `AppliesCleanly` for any schema, diff.c:488 | `DiffPatch`, the premise `~schema.uniqueX` left out | two rows that exchange unique values cannot be updated one after the other |
| `NoMisuse`, `TracksOpen`, lsqlite3.c:2043 "to keep track of 'open' virtual machines" | `LuaStatements`, `Habits` without `"keeps"` | the collector ignores a statement that `close_vm` closed, whose address stays in the registry: `db:close()` then writes to freed memory |
| `NoMisuse`, `NothingLost`, lsqlite3.c:707 | `LuaStatements`, `Habits` without `"finishes"` | a database that a backup uses is closed: the handle is forgotten while SQLite keeps the source, and the backup is stepped with a target that is gone |
| `NoMisuse`, `NothingLost`, lsqlite3.c:1833 | `LuaStatements`, `Habits` without `"leaves"` | a callback finalizes, resets or steps the statement that called it, or closes its database |
| `ValuesOfCurrentRow`, lsqlite3.c:303 | `LuaStatements` | `stmt:reset()` leaves `has_values`, so columns are read from a statement without a row |
| `AStarShortest`, graph_algo_astar.c:8 "g(n) = actual cost from start to n" | `GraphAlgorithms` | the weights are read and stored nowhere (astar.c:231): every edge costs 1 |
| `StackFits`, graph_algo_traversal.c:348 "Extra space for deep graphs" | `GraphAlgorithms`, `Node = {1, 2}`, `NetsOf <- MCParallel` | the stack has 2n places and takes one entry an edge: five edges between two nodes write beyond it |
| `DfsWithinDepth`, graph_algorithms.h:79 "max traversal depth" | `GraphAlgorithms` | a node that was first met too deep is marked and not reported when a shorter way leads to it |
| both parts of `LoadedWell`, graph_algorithms.c:218 | `GraphCache`, `Contexts = {"bare"}` | an edge made or deleted between the counting SELECT and the filling one is written beyond the arrays, or leaves a slot as `malloc` gave it |
| both parts of `LoadedWell`, graph_algorithms.c:225 | `GraphCache`, `RowsFail = TRUE` | a step that fails ends the loop like one that is done |
| `Fresh`, extension.c:401 | `GraphCache` | a kept graph answers for the tables as they were, across writes and rollbacks |
| `ReadsLastSet`, cypher_schema.c:514 | `GraphStore`, `KeepKeys = FALSE` | after the ROLLBACK of a transaction that made a key its id is given to another name, and the cache still has the old one: two properties share a value |
| `ReadsLastSet`, cypher_schema.c:730 | `GraphStore`, `MCLoud` with `"clear"` | a DELETE of the cleanup that fails (another connection is reading) is passed over; the old value wins in COALESCE |
| `ReadsLastSet`, executor_remove.c:236 | `GraphStore`, `MCLoud` with `"lookupKey"` | REMOVE takes a look-up that failed for a key that does not exist, and counts the property as removed |
| `ReadsLastSet`, cypher_schema.c:886 | `GraphStore`, `EdgeTabs = {"text", "json"}` | an edge's property that changes its type keeps its old value too: no cleanup |
| `EdgeEnds` (of `NothingDangles`), executor_delete.c:215 "constraint enforcement" | `GraphStore`, `MCLoud` with `"noEdges"` (or `"clearAll"`, for properties); or `Interleave = TRUE` | a count that fails is taken for none, a cleanup that fails is passed over; another connection makes an edge after the count |
| `OneValue` and `ReadsLastSet`, cypher_schema.c:730 | `GraphStore`, `Interleave = TRUE` | CREATE sets a property of a node that another connection has found and is setting |
| `AllRowsOwned`, cypher_schema.c:64 "ON DELETE CASCADE" | `GraphStore` | DELETE leaves JSON rows, DETACH leaves the properties of edges |

### Bounds, and why they are enough

- `CevfsPageMapDense`: a lower page has 4 bytes and a page map 2 entries (65536 and
  8 bytes at most in the code): five upper pages then need three page maps, with data
  pages and map pages interleaved, and sizes 2 and 3 fit once, twice or not at all. `U16`
  is the number a u16 wraps at, 16 where no wrap is wanted. States that differ in the bytes of
  compressed pages only are taken for one (`VIEW Layout`): no step and no property but the type of the bytes looks at them, and
  `CevfsStore`, which reads them, has no such view.
- `CevfsStore`: 3 bytes and 3 entries, so that one skipped page does not fill a map
  (`CevfsPageMapHoles` shows what happens when it does) while four pages need two maps and
  sizes 1 and 2 share a page in either order; two contents tell a page from its earlier
  version. Contents are interchangeable, hence the symmetry.
- `MaxPgno` bounds the lower pages, hence how often pages move; `MaxHole` bounds how
  many pages one write skips, `Upp` how many there are.
- CevfsDurability: two connections make every overlap of two; three transactions
  over two pages let a journal be older than, equal to or newer than the file, and a transaction be spilled in part; two
  crashes let a recovery itself be interrupted. A ROLLBACK that leaves pages behind counts as a transaction. None of the theorems depends on them.
- Sequence: two connections have every overlap of a writer and a waiter, the
  deadlock of two readers included, and the theorem covers any number of them;
  `MaxRetry` 1 instead of 10 keeps both outcomes of the counter. The row is missing at
  first, so that `nextval` fails until an INSERT makes it. Symmetry is not used where
  liveness is checked.
- DiffPatch: two keys and three values (one NULL, two of one class) give every
  kind of change to a row beside an unchanged one, and every order of two; one
  loose row takes part in DELETE and INSERT of equal rows. Tables that drift have two values and
  are patched twice.
- LuaStatements: four of five userdata let a database have two statements, share a backup with
  another, or be opened again beside one that is lost. `MaxMade` bounds what is made, not what is
  done with it.
- GraphStore: four calls over two nodes, an edge and two names that share a slot are enough
  to delete a node and make another, to change the type of a property in any
  order, and for each of the departures above; they may be made by either of
  two connections, in one transaction or in several. `Interleave = FALSE` is the discipline the code
  needs of its callers, `KeepKeys = TRUE` the same for ROLLBACK, `MCLoud` leaves out the
  failures no call notices; the departures show each to be needed. Both
  connections and names are interchangeable, hence the symmetry.
- GraphAlgorithms: all 4096 graphs of four nodes without loops have every shape of
  reachability, cycle and component of that size, among them two components in one call and a Tarjan
  return over two frames; three nodes with weights 0, 2 and none make stale
  heap entries, and the graphs of `MCGraphAlgorithms` add what these lack. Calls start at node 1 and
  look for node 2, as the graphs come with all their renamings.
- GraphCache: two nodes whose hashes collide, with and without a user's id, two edges, tables that
  change twice, also in one transaction; a table of three places that grows to five.

`CHECK_DEADLOCK FALSE` stands where a run really ends: connections of
`CevfsDurability` may all be left behind after failed closes or run out of
transactions, `Sequence` runs out of numbers, `DiffPatch` is done after its last try, and
a program of `LuaStatements` has exited.

### Seeded faults

Definitions marked `\* seeded fault` stand next to the definition they imitate
and differ from it the way a plausible bug would: a guard left out, a stale value
stored, an order swapped. No specification uses them. Put in place of the
neighbour they make the property named under "mutants" in `PROJECT.json` fail in
its own run, which shows that the property depends on that line of the code.

### Fairness

- `Sequence`, for `Returns` and `TxnEnds`. `WF(Update(c))`: `nextval` is a C function
  that is running; it will execute its next statement. `SF(Commit(c))`: an application
  that has opened a transaction tries its COMMIT again when it was BUSY. Strong
  fairness is needed since other readers may come and go and COMMIT is possible only
  in the gaps; that is the caller's loop and no promise of the extension. No fairness
  is assumed of `Begin`, `Select`, `Insert`, `Rollback` or `Crash`.
- `LuaStatements`, for `Collected`. `WF(Return)`: a callback returns. `WF` of each `Collect`: Lua's collector
  runs a cycle in the end and takes everything it can then reach no more. None
  is assumed of anything the program does.
- `GraphAlgorithms`, for `Returns`. `WF(Steps)`: a call is one C function, which runs on.

## 4. Theorems

All constants are arbitrary, subject to the named assumptions of the modules.

- `CevfsPageMapProofs`: `TypeCorrect`, `Disjoint`, `Placement`, `MapPages`, `SpaceGrows`, and `Implements`: CEVFS is a
  page store. They hold for any sizes, number of page maps, of pages skipped and of sessions, under `Sane`, which says:
  - one page size, of sessions and PRAGMAs alike (two of them break `ImplementsPageStore`, see the known departures);
  - a compressed page is no shorter than the entries one write can make, `MaxHole + 1` of them. Otherwise
    a page map can be full of placeholders, and then `MapPagesDistinct` fails, which is what the run `CevfsPageMapHoles` shows.
    With pages of real sizes it limits how far a single write may jump beyond the end of the file;
  - page numbers and offsets that two bytes hold (the departures of `SlotInPage` and `MMTblSaved`);
  - page maps that can be saved and loaded (`Faults \subseteq {"page"}`): with a switch that fails `ImplementsPageStore` is false (known departures), and that
    places keep apart even then is model-checked (`CevfsPageMapDense`) and not proved.

  The invariant is `IInv`: `FileInv` of the open file, and of what is on disk as the next session would find it (`OnDisk`,
  or, for a session that only reads, `ReadOnlyInv`). `Loaded` says that the map in memory agrees with the copy to be saved and,
  when it is clean, with its page; `AllPlaced` that entries lie below the frontier, on pages that hold no map; `AllApart` that no two
  share a byte. The hard part is `Geometry`. A page map is given the page after the current one, the frontier does not move, and
  the next compressed page may still go to the current page: what keeps the map off the data is that the last map may be ahead of the current page by one,
  and then the current page has been used by more than the map has entries. The lemmas follow the functions of the code
  (`Saved`, `Switched`, `Allocated`, `MapAdded`, `Added`, `Updated`), up to `PageMapSetSets`: after a write the page has a place of
  its size, and no other page has moved. The loop over skipped pages is a recursive function; `PlaceholdersExist` and `AfterPlaceholders` reason about
  it by a least counterexample (`LeastNat`), since the rule of induction cannot be cited. `Implements` adds `ReadBackAnswer` (a
  page is read back from its place) and `ReopenedSame` (a session finds what the last one left) and assumes `AnswersApart`, that no content is taken for a
  page that is not there or for an error. `CevfsStore` is run with sizes below those of `Sane`; its bounds are small enough for no map to fill with placeholders.
- `CevfsDurabilityProofs`: `TypeCorrect`; `OneWriterHolds`;
  `StableUnderReadersHolds`; and with the upper journal off `FileIsCommittedHolds`
  and `ViewIsCommittedHolds`, for any connections, pages and bounds. The last number is not bounded by its type alone, since a
  spill may use it before a COMMIT does: `Numbered` says that a transaction still to be written can be numbered, unless another
  connection holds RESERVED for good, and `Dated` that a number not yet given belongs only to pages an open transaction has spilled (`Own`).
  `OneWriterHolds` needs `Unlost`: neither the file nor what a journal would put back holds a lost page, so that a
  connection which has lost one is out of date and can no longer reserve (`WriterHasAll`).
  `FileIsCommittedHolds` rests on `DiskInv`: what a lower pager holds is a committed state apart from lost pages
  (`HoldsCommitted`), except while its transaction has spilled or is between the halves of a COMMIT, when it cannot be closed.
  The premises are those of the properties: journal off, and no ROLLBACK that came after a spill (`torn`). Neither
  can be dropped (`FileAlwaysCommitted`, `ViewAlwaysCommitted` and the journal among the known departures).
- `SequenceProofs`: `TypeCorrect` (with `HoldsNumber`: a call between its statements
  holds a number) and `NoneSkippedHolds`, for calls that never stand
  alone (`"bare" \notin Contexts`). `NextIsHeld` says that a call between its
  statements holds SHARED and that its number is still the row plus one, which is what
  the lock is for; `GivenIsWork`, that the numbers given out in an open transaction
  are exactly those between the committed row and its own; `IssuedUpTo` is
  `NoneSkipped` with the counts. `SequenceBare` is the counterexample without the assumption.

- `LuaStatementsProofs`: `TypeCorrect` for every program; for one that keeps the three habits
  (`Habits = AllHabits`) `NeverMisused`, `OpenIsTracked`, `NothingIsLost` and `ValuesAreOfARow`, for
  any number of databases, statements and backups. None of them is inductive alone. `Owned` ties the
  userdata to what SQLite has: `Connected` for databases, `OpenVm` for statements, which are alive in SQLite exactly while they are
  open, and then in their database's table; `TableOf` for the tables, whose database is open and whose statements are
  its own and either open or held, so that the collector cannot free one behind the table's back; `BackupOf`, both
  of whose databases are open; `CallOf`, what SQLite is calling back from is open. `OwnedClosed`, the step of
  `db:close()` and of the collector, uses all of them to show that `sqlite3_close` finds nothing left and does not answer BUSY.
  The assumption is needed: without any one habit `NoMisuse` fails (known departures).

- `GraphAlgorithmsProofs`, of the calls of all algorithms (`Spec` of `GraphAlgorithms`; `Alone` and `StepOf` take it apart into
  the specifications of the single ones), for any finite set of nodes, graph, weights, estimates and limits.
  Paths: `PathsTypeCorrect`, `FoundIfAnyHolds`, `ShortestHolds`, `DijkstraConsistent`, `PathRealHolds` and `PathFitsHolds`.
  `Base` is what is known of a call at each stage, above all `Queued`: an open
  node with a distance has an entry in the heap that is as good. `Followed`, `Reached` and
  `Failed` make the closed nodes those that can be reached once the heap is empty. For `Shortest`, `Bounded` says that no heights
  put a node above its distance, `Relaxed` that no edge out of a closed node could lower another, and `Ordered`, which
  needs the consistent estimate, that nodes are closed in the order of their distance plus estimate; when the target
  comes out, the distances cut off at its own are heights that reach it (`WitnessIsPotential`).
  `Tree` and `Trail` make `prev[]` account for every distance with an edge. Since edges may
  have weight 0, distances do not show that `prev[]` has no cycle: `Ranked` numbers nodes by the
  order in which they were closed, and a walk along falling numbers has no more nodes than there are (`FS_Injection`).
  Heights climb by what edges cost, the code by `weight`: `Loaded` says what `LoadWeight` has put where, and `SameMeasure` that under
  `WeightsKept`, the premise of `Shortest`, the two allow the same heights once all rows are read. Without it `Shortest` is false (`GraphDijkstraTwins`, and `AStarShortest`).
  `ShortestHolds` assumes `Heights = Nat`: the run's finite set of heights is large enough for its graphs, a
  theorem about all graphs needs all heights.
  Traversal: `TraversalTypeCorrect`, `OrderFitsHolds`, `BfsDepthsHold` and `DfsOrderHolds`. `Reaching` is what orders the
  queue and the stack: what waits is sorted by depth and at most one level below the node at hand (`Sorted`), and with bfs a node is
  in one place only (`Once`). `Visiting` adds what is reached: `Handled`, what is behind an edge of a reported node is reported or
  waits, at most one level deeper, unless the edge is still to do or the depth is too large; `Near`, no node is
  reported or waits above the levels of any family of sets that grows along the edges (`IsLadder`), of which `Ball` is one. The two
  together are `BfsDepths`. `Handled` fails for dfs with a depth, which marks a node it finds too deep and does not come back
  to it (known departures). For dfs `Diving` adds that every entry of the stack hangs below a reported node with nothing
  shallower reported since (`Hanging`), and that the first slot looked at that leads somewhere new is on top (`Deep`), which
  needs the slots to be looked at from the last to the first.
  Components: `ComponentsTypeCorrect`, `ComponentsAnswerHolds` and `ComponentsShapeHolds`.
  For `scc`, `Tarjan` says what its two stacks mean. `Stacked` and `Framed`: indices rise along both, and the frames are a path in
  the graph. `Trodden`: an edge looked at leads to a node that was entered. `Lowest`: the lowlink of a frame is the index of a
  node on the stack that the frame reaches; `Backs`: an edge looked at from there on that leads down the stack leads no
  further than the lowlinks tell. `Climbs` and `Spans`: a node without a frame reaches one below it, one with a frame all
  above it. When lowlink and index agree, the nodes from there up lead only to each other and to numbered ones
  (`PieceClosed`), and each reaches the lowest of them (`PieceReaches`: else take, of the nodes it reaches, the one with the least
  index), so they are one class (`PieceIsClass`) and `Classes` stays true.
  For `wcc`, `Wccing` says that the roots are the classes of the edges joined so far (`Forest`, `Joined`), and that a tree of rank r
  has at least 2^r nodes (`Flat`). `uf_find` is a recursion over the parents, about which nothing can be proved by induction; ranks
  rise towards the roots (`Rising`), so a node of the greatest rank takes its place (`Rises`), and
  the recursion has an answer (`RootsExist`, `WayExists`). Path compression keeps every root (`CompressIs`), and
  a union gives one tree the root of the other and no other node a new one (`UnionRoots`, `UnionForest`, `UnionFlat`).
  `Numbered` and `Firsts` are the numbers given so far.

- `DiffPatchProofs`, for any keys, values, classes of equal values and schemas: `TypeCorrect`, `AppliesCleanlyHolds` and
  `DriftKeptHolds` without further assumptions, `RetryChangesNothingHolds` for tables without NULL keys, and
  `RoundTripHolds` for tables with a PRIMARY KEY if each either has no NULL keys or has the key in front and is patched once
  (the departures of `HasPk`, `PkLeads` and `Loose` show each assumption at work). `IsOf` keeps what the
  diff knew of A and B when it made an instruction; with `Tidy`, a row at most for each key, it gives `OneEach`, one instruction
  for a key. `KeyInv` then says that the row of a key is as in A until its instruction has been applied and as in B from then on,
  and `NullInv` that of the rows with a NULL key A's are all gone before the first of B's comes, which is
  where the order of the changeset matters: a DELETE takes every equal row. `RoundInv` adds the
  attempts: a target that is no longer A is B already, and then `RetryInv` finds nothing to do.

- `GraphStoreProofs`, for any connections, names, slots of the key cache, typed tables and
  bounds: `TypeCorrect` without further assumptions; for calls that do not overlap (`~Interleave`) `DeletesAreClean`
  if the cleanup and the count of a DELETE do not fail (edges have their nodes, and rows in the tables a DELETE clears their node; JSON
  rows and the properties of edges are left out, as `AllRowsOwned` says), `NodesHaveOneValue` if the cleanup of a SET does not fail, and `ReadsAreRight` if no
  failure is passed over in silence, no transaction that made a key is rolled back (`KeepKeys`) and edges have one
  typed table. All three speak of states in the middle of a call, so each invariant says what the call has
  established so far, from the statements it has left. The lemmas about programs make this possible: `Shape`, what is
  left of a program keeps its order, so that a `put` left alone has every `clear` behind it and a `dropNode` every `clearAll`
  but JSON's; `Fits` ties the fields of the call to it. `Solo`, calls do not overlap, lets what one
  call has established stand until its next statement. `RefInv` is `Sound`
  (edges and rows have their nodes) with `CallRefs`: a node about to be dropped has no edges, and the tables already
  cleaned have no rows of it. `OneInv` is `Single` with `CallOne`: tables
  cleared for the key at hand have no row of it. `SaidInv`, of the values read, adds to both `Told` (the rows are
  what was said), `Neat` (ids not yet given out have no rows), `CallSaid` and `Remembers`: the entries of every cache are true of the
  tables now and, unless the connection is the one in the transaction, also of the tables a ROLLBACK would restore.
  No assumption can be left out: each has its row among the known departures.

- `GraphCacheProofs`, for any connections, tables, hash function and least size of the hash table: `OwnsOne` without further assumptions,
  and `LoadsWell` if every SELECT is read to its end and something around each call holds the tables (`Isolated`; each half
  has its row among the known departures).
  `OwnInv` adds to `OneOwner` the stage of each connection (`StageOf`): which of its three pointers, cache, executor and call, may
  differ at which step, so that it uses one graph at most (`OneEach`). Hence there are never more graphs than connections, and an address is free
  (`FreeAddrFree`). Every action is then a step of one connection which touches memory at an address of its own (`StepOfOne`).
  `LoadsWell` has two halves. What a load computes from tables that stay as they are is `LoadedIs`: their graph, in arrays of exactly its size.
  It rests on the hash table (`HashTableHolds`: less than half full, so that probing ends and each node is found, wherever others
  have collided; `FindIs`) and on the arrays (`PositionIs`: the sums and the running counters put each row at a place of its own;
  `PositionsAll`: every place gets one; `PositionOfKth`: the rows of one node keep their order). That the tables do stay is `LoadInv`: a connection that
  loads holds SHARED (`LockInv`), so nobody commits (`CommitsAlone`), and the graph being loaded is what the SELECTs so far make of the
  tables as the connection still sees them (`GraphsOf`).

Model-checked only: liveness of `Sequence`, `LuaStatements` and `GraphAlgorithms`, which is beyond the prover.

## 5. Not modelled

- The byte formats: compression, encryption, varints, the changeset file. Sizes and values
  stand for them.
- `cevfsTruncate`, `xShm*` (the VFS offers no shared memory, so no WAL), offsets over 4 GiB.
- The schema comparison of `sqlite-diff`, changesets of several tables.
- Undefined behaviour in error paths (a statement pointer that was never set), and failures of `malloc`, of which the graph code
  alone has some hundred; one of them, a registration that fails after `cypher`
  was registered, frees the connection's cache twice (extension.c:665).
- Of the Lua binding: values and binding, the contexts of user functions, `open_ptr`.
- Of the graph: MERGE, labels, the migration of old schemas.
- Of the algorithms: ids over 32 bits, which are cut off; the great circle estimate of `astar`, which need not be consistent; weights that are integers (not read) or negative (outside what Dijkstra's algorithm
  is for); names, of which `astar` takes the last node that has one and `dijkstra` the first; everything in floating point
  (PageRank, centralities, Louvain, similarity).
- The vector tables (third-party code), the Cypher parser and SQL generation, extension functions, SQLite
  itself: translation, arithmetic or vendored code.

The modules stand for about 4 700 lines. Of the repository's 340 000 lines SQLite, its shell and their headers are
274 000, sqlite-vec 11 000 and generated parsers 9 000.

## 6. Plan

1. `ForeignKeyPatch`: two tables, deferred foreign keys in the savepoint (patch.c:541), tables read
   at different times (diff.c:613).
2. `GraphStore`: MERGE and labels.
3. The iterations over floating point with exact numbers in their place, for what holds whatever the rounding (they
   stop, they stay within their arrays).
