----------------------------- MODULE GraphStore -----------------------------
(***************************************************************************)
(* The property graph of ext/graph: nodes, edges, and properties kept in   *)
(* one table per value type (cypher_schema.c, executor_*.c).  A Cypher     *)
(* statement is a sequence of SQL statements, none of which opens a        *)
(* transaction: outside one of the application's each commits on its own,  *)
(* and a call may end between any two of them.                             *)
(*                                                                         *)
(* A value is the table it is stored in.  Labels and edge types are left   *)
(* out.  "text", "int" and "json" stand for the five tables: real and bool *)
(* are treated as int is everywhere.                                       *)
(***************************************************************************)
EXTENDS Naturals, Sequences, FiniteSets

CONSTANTS
    Conns,      \* connections, each with an executor and a key cache
    Names,      \* names of properties
    Slots,      \* slots of the key cache
    Hash,       \* the slot of a name
    Tabs,       \* the tables a node's value may be in, as COALESCE reads them
    EdgeTabs,   \* the tables an edge's value may be in
    MaxNode,    \* bound on the ids of nodes
    MaxEdge,    \* bound on the ids of edges
    MaxCalls,   \* bound on the number of calls
    Interleave, \* may calls of several connections overlap?
    KeepKeys,   \* are only transactions rolled back that made no property key?
    MayFail,    \* the statements that may fail
    None        \* no transaction, no cached key, no owner, no value

\* What a statement may do.
Verbs == {"ensureKey", "lookupKey", "clear", "clearAll", "put", "newNode", "newEdge",
          "noEdges", "dropEdges", "dropNode", "dropEdge"}

\* The statements of which a call does not notice that they failed.
Silent == {"clear", "clearAll", "noEdges", "lookupKey"}

ASSUME ConstantsAssumption ==
    /\ Hash \in [Names -> Slots]
    /\ Tabs \in Seq({"text", "int", "json"})
    /\ \A i, j \in DOMAIN Tabs : Tabs[i] = Tabs[j] => i = j
    /\ Tabs # <<>>
    /\ \A i \in DOMAIN Tabs : Tabs[i] = "json" => i = Len(Tabs)
    /\ EdgeTabs \subseteq {Tabs[i] : i \in DOMAIN Tabs}
    /\ MaxNode \in Nat /\ MaxEdge \in Nat /\ MaxCalls \in Nat
    /\ Interleave \in BOOLEAN /\ KeepKeys \in BOOLEAN
    /\ MayFail \subseteq Verbs
    /\ None \notin Conns \cup {"text", "int", "json", "unknown"}
    /\ None \notin {"node", "edge"} \X Nat
    /\ None \notin [name : Names, id : Nat]

VARIABLES
    db,    \* the tables, as the connection in a transaction (or any) sees them
    said,  \* what the calls that returned have said of each value
    saved, \* what ROLLBACK restores: both of the above
    txn,   \* the connection in a transaction (BEGIN IMMEDIATE)
    cache, \* property_key_cache of each connection
    call,  \* the call each connection is in: the statements still to run
    nCalls \* how many calls were begun

vars == <<db, said, saved, txn, cache, call, nCalls>>

TabSet == {Tabs[i] : i \in DOMAIN Tabs}
Owners == ({"node"} \X (1 .. MaxNode)) \cup ({"edge"} \X (1 .. MaxEdge))
Node(n) == <<"node", n>>
Edge(e) == <<"edge", e>>

\* The tables.  Keys are never deleted, so the id of a key is its place.
Tables ==
    [nodes : SUBSET (1 .. MaxNode), lastNode : 0 .. MaxNode,
     edges : SUBSET [id : 1 .. MaxEdge, src : 1 .. MaxNode, dst : 1 .. MaxNode],
     lastEdge : 0 .. MaxEdge,
     keys : Seq(Names),
     rows : SUBSET [of : Owners, key : Nat \ {0}, tab : TabSet]]

NoTables == [nodes |-> {}, lastNode |-> 0, edges |-> {}, lastEdge |-> 0,
             keys |-> <<>>, rows |-> {}]

\* Nothing was said to be in any column.
NothingSaid == [o \in Owners |-> [a \in Names |-> None]]

Idle == [todo |-> <<>>, matching |-> FALSE, of |-> None, ends |-> None,
         name |-> None, tab |-> None, key |-> 0]

Init ==
    /\ db = NoTables
    /\ said = NothingSaid
    /\ saved = [db |-> NoTables, said |-> NothingSaid]
    /\ txn = None
    /\ cache = [c \in Conns |-> [s \in Slots |-> None]]
    /\ call = [c \in Conns |-> Idle]
    /\ nCalls = 0

-----------------------------------------------------------------------------
(* What the tables hold *)

Exists(o) == \/ o[1] = "node" /\ o[2] \in db.nodes
             \/ o[1] = "edge" /\ \E e \in db.edges : e.id = o[2]

Touching(n) == {e \in db.edges : e.src = n \/ e.dst = n}

\* The ids a name has in property_keys (the column is UNIQUE).
KeyIds(a) == {k \in DOMAIN db.keys : db.keys[k] = a}

\* The tables in which o has a value under the name a, by a join with
\* property_keys.
Holding(o, a) ==
    {t \in TabSet : \E k \in KeyIds(a) : [of |-> o, key |-> k, tab |-> t] \in db.rows}

\* COALESCE over the tables: the first in which there is a row.
Value(o, a) ==
    IF Holding(o, a) = {} THEN None
    ELSE Tabs[CHOOSE i \in DOMAIN Tabs :
                 /\ Tabs[i] \in Holding(o, a)
                 /\ \A j \in 1 .. (i - 1) : Tabs[j] \notin Holding(o, a)]

-----------------------------------------------------------------------------
(* The statements of each call.  A statement is a tuple: what it does, and *)
(* the table it does it to.                                                 *)

Each(verb, n) == [i \in 1 .. n |-> <<verb, Tabs[i]>>]

\* How many tables, from the first: all, and those before JSON, which came last.
All == Len(Tabs)
BeforeJson == IF Tabs[All] = "json" THEN All - 1 ELSE All

\* seeded fault: the DELETEs were not extended when the JSON table came.
SetNodeFourTables ==
    <<<<"ensureKey">>>> \o Each("clear", BeforeJson) \o <<<<"put">>>>

\* cypher_schema_set_node_property: the key, five DELETEs, one INSERT.
SetNodeProgram == <<<<"ensureKey">>>> \o Each("clear", All) \o <<<<"put">>>>

\* cypher_schema_set_edge_property: the key, one INSERT OR REPLACE.
SetEdgeProgram == <<<<"ensureKey">>, <<"put">>>>

\* cypher_schema_delete_node_property, cypher_schema_delete_edge_property.
RemoveProgram == <<<<"lookupKey">>>> \o Each("clear", All)

\* SET n = {...}: everything is deleted first.
ReplaceProgram == Each("clearAll", All) \o SetNodeProgram

\* seeded fault: DETACH drops the edges when the node is gone.
NodeBeforeEdges(detach) ==
    (IF detach THEN <<>> ELSE <<<<"noEdges">>>>)
        \o Each("clearAll", BeforeJson) \o <<<<"dropNode">>>>
        \o (IF detach THEN <<<<"dropEdges">>>> ELSE <<>>)

\* delete_node_by_id, delete_edge_by_id: four tables, JSON is not among them.
DeleteNodeProgram(detach) ==
    <<IF detach THEN <<"dropEdges">> ELSE <<"noEdges">>>>
        \o Each("clearAll", BeforeJson) \o <<<<"dropNode">>>>
DeleteEdgeProgram ==
    Each("clearAll", BeforeJson) \o <<<<"dropEdge">>>>

-----------------------------------------------------------------------------
(* Calls.  A call begins by reading the graph (MATCH) for what it is about. *)
(* SET and REMOVE keep that statement open while they write; DELETE and     *)
(* CREATE finish it first.                                                  *)

\* The connection can begin something: writing needs that no other connection
\* is in a transaction.
CanStart(c) ==
    /\ call[c] = Idle
    /\ txn \in {None, c}
    /\ Interleave \/ \A d \in Conns : call[d] = Idle

Start(c, new) ==
    /\ CanStart(c) /\ nCalls < MaxCalls
    /\ nCalls' = nCalls + 1
    /\ call' = [call EXCEPT ![c] = new]
    /\ UNCHANGED <<db, said, saved, txn, cache>>

\* MATCH (n) SET n.a = v
SetNode(c, n, a, t) ==
    /\ n \in db.nodes
    /\ Start(c, [Idle EXCEPT !.todo = SetNodeProgram, !.matching = TRUE,
                             !.of = Node(n), !.name = a, !.tab = t])

\* MATCH ()-[r]->() SET r.a = v
SetEdge(c, e, a, t) ==
    /\ Exists(Edge(e))
    /\ Start(c, [Idle EXCEPT !.todo = SetEdgeProgram, !.matching = TRUE,
                             !.of = Edge(e), !.name = a, !.tab = t])

\* MATCH (n) SET n = {a: v}
Replace(c, n, a, t) ==
    /\ n \in db.nodes
    /\ Start(c, [Idle EXCEPT !.todo = ReplaceProgram, !.matching = TRUE,
                             !.of = Node(n), !.name = a, !.tab = t])

\* MATCH (n) REMOVE n.a, and the same of an edge
Remove(c, o, a) ==
    /\ Exists(o)
    /\ Start(c, [Idle EXCEPT !.todo = RemoveProgram, !.matching = TRUE,
                             !.of = o, !.name = a])

\* CREATE (n {a: v})
CreateNode(c, a, t) ==
    /\ db.lastNode < MaxNode
    /\ Start(c, [Idle EXCEPT !.name = a, !.tab = t,
                             !.todo = <<<<"newNode">>>> \o SetNodeProgram])

\* MATCH (n), (m) CREATE (n)-[:T {a: v}]->(m)
CreateEdge(c, n, m, a, t) ==
    /\ {n, m} \subseteq db.nodes /\ db.lastEdge < MaxEdge
    /\ Start(c, [Idle EXCEPT !.ends = <<n, m>>, !.name = a, !.tab = t,
                             !.todo = <<<<"newEdge">>>> \o SetEdgeProgram])

\* MATCH (n) DELETE n, MATCH (n) DETACH DELETE n.  With several targets the
\* code goes on to the next, and stops at the first that fails.
DeleteNode(c, n, detach) ==
    /\ n \in db.nodes
    /\ Start(c, [Idle EXCEPT !.of = Node(n),
                             !.todo = DeleteNodeProgram(detach)])

\* MATCH ()-[r]->() DELETE r
DeleteEdge(c, e) ==
    /\ Exists(Edge(e))
    /\ Start(c, [Idle EXCEPT !.of = Edge(e),
                             !.todo = DeleteEdgeProgram])

-----------------------------------------------------------------------------
(* Statements *)

\* The connection is about to run this statement, and no other connection is
\* in a transaction.
At(c, verb) ==
    /\ call[c].todo # <<>> /\ Head(call[c].todo)[1] = verb
    /\ txn \in {None, c}

\* What c has written can be committed: no other connection reads.
Alone(c) == \A d \in Conns \ {c} : ~call[d].matching

\* The same of a statement that writes, and that commits on its own outside a
\* transaction.
Writes(c, verb) == At(c, verb) /\ (txn = c \/ Alone(c))

\* The call goes on after its present statement.
GoOn(c, with) ==
    call' = [call EXCEPT ![c] =
                IF Len(@.todo) = 1 THEN Idle ELSE [with EXCEPT !.todo = Tail(@)]]

Return(c) == call' = [call EXCEPT ![c] = Idle]

\* seeded fault: the slot is taken for the name.
AnyInSlot(c, a) == cache[c][Hash[a]] # None

\* cypher_schema_get_property_key_id finds the name in its slot.
CacheHit(c, a) ==
    /\ cache[c][Hash[a]] # None
    /\ cache[c][Hash[a]].name = a

Remember(c, a, k) ==
    cache' = [cache EXCEPT ![c][Hash[a]] = [name |-> a, id |-> k]]

\* The key is in the cache, or in the table and enters the cache.
FindKey(c) ==
    LET a == call[c].name IN
    /\ \E v \in {"ensureKey", "lookupKey"} : At(c, v)
    /\ \/ /\ CacheHit(c, a)
          /\ GoOn(c, [call[c] EXCEPT !.key = cache[c][Hash[a]].id])
          /\ UNCHANGED cache
       \/ \E k \in KeyIds(a) :
             /\ ~CacheHit(c, a)
             /\ GoOn(c, [call[c] EXCEPT !.key = k])
             /\ Remember(c, a, k)
    /\ UNCHANGED <<db, said, saved, txn, nCalls>>

\* The key is nowhere.  SET makes one, REMOVE has nothing to do.
MissKey(c) ==
    LET a == call[c].name
        k == Len(db.keys) + 1 IN
    /\ \E v \in {"ensureKey", "lookupKey"} : At(c, v)
    /\ ~CacheHit(c, a) /\ KeyIds(a) = {}
    /\ \/ /\ Writes(c, "ensureKey")
          /\ db' = [db EXCEPT !.keys = Append(@, a)]
          /\ Remember(c, a, k)
          /\ GoOn(c, [call[c] EXCEPT !.key = k])
       \/ /\ At(c, "lookupKey")
          /\ Return(c)
          /\ UNCHANGED <<db, cache>>
    /\ UNCHANGED <<said, saved, txn, nCalls>>

\* What the call that clears tables one by one has said of the values: nothing
\* until the last table, that there are none from then on.
SaidCleared(c) ==
    LET stmt == Head(call[c].todo)
        now  == IF stmt[2] = Tabs[Len(Tabs)] THEN None ELSE "unknown" IN
    said' = [said EXCEPT ![call[c].of] =
                [a \in Names |->
                    IF stmt[1] = "clearAll" \/ a = call[c].name THEN now ELSE @[a]]]

\* The rows a DELETE of the call is about.
Cleared(c) ==
    LET stmt == Head(call[c].todo) IN
    {r \in db.rows : /\ r.of = call[c].of /\ r.tab = stmt[2]
                     /\ stmt[1] = "clear" => r.key = call[c].key}

Clear(c) ==
    /\ \E v \in {"clear", "clearAll"} : Writes(c, v)
    /\ db' = [db EXCEPT !.rows = @ \ Cleared(c)]
    /\ SaidCleared(c)
    /\ GoOn(c, call[c])
    /\ UNCHANGED <<saved, txn, cache, nCalls>>

\* A plain INSERT needs the row not to be there; an edge's replaces it.
Put(c) ==
    LET row == [of |-> call[c].of, key |-> call[c].key, tab |-> call[c].tab] IN
    /\ Writes(c, "put")
    /\ row.of[1] = "node" => row \notin db.rows
    /\ db' = [db EXCEPT !.rows = @ \cup {row}]
    /\ said' = [said EXCEPT ![row.of][call[c].name] = row.tab]
    /\ GoOn(c, call[c])
    /\ UNCHANGED <<saved, txn, cache, nCalls>>

\* AUTOINCREMENT: an id is never used again.
NextNode == db.lastNode + 1

NewNode(c) ==
    /\ Writes(c, "newNode") /\ db.lastNode < MaxNode
    /\ db' = [db EXCEPT !.nodes = @ \cup {NextNode}, !.lastNode = NextNode]
    /\ GoOn(c, [call[c] EXCEPT !.of = Node(NextNode)])
    /\ UNCHANGED <<said, saved, txn, cache, nCalls>>

NewEdge(c) ==
    LET e == db.lastEdge + 1 IN
    /\ Writes(c, "newEdge") /\ e <= MaxEdge
    /\ db' = [db EXCEPT !.lastEdge = e,
                 !.edges = @ \cup {[id |-> e, src |-> call[c].ends[1],
                                              dst |-> call[c].ends[2]]}]
    /\ GoOn(c, [call[c] EXCEPT !.of = Edge(e), !.ends = None])
    /\ UNCHANGED <<said, saved, txn, cache, nCalls>>

\* DELETE without DETACH goes on only when the node has no edges.
CheckNoEdges(c) ==
    /\ At(c, "noEdges")
    /\ IF Touching(call[c].of[2]) = {} THEN GoOn(c, call[c]) ELSE Return(c)
    /\ UNCHANGED <<db, said, saved, txn, cache, nCalls>>

\* Nothing is said any more of what is not there.
SaidDropped(os) ==
    said' = [o \in Owners |-> IF o \in os THEN [a \in Names |-> None] ELSE said[o]]

DropEdges(c) ==
    /\ Writes(c, "dropEdges")
    /\ db' = [db EXCEPT !.edges = @ \ Touching(call[c].of[2])]
    /\ SaidDropped({Edge(e.id) : e \in Touching(call[c].of[2])})
    /\ GoOn(c, call[c])
    /\ UNCHANGED <<saved, txn, cache, nCalls>>

DropNode(c) ==
    /\ Writes(c, "dropNode")
    /\ db' = [db EXCEPT !.nodes = @ \ {call[c].of[2]}]
    /\ SaidDropped({call[c].of})
    /\ GoOn(c, call[c])
    /\ UNCHANGED <<saved, txn, cache, nCalls>>

DropEdge(c) ==
    /\ Writes(c, "dropEdge")
    /\ db' = [db EXCEPT !.edges = {e \in @ : e.id # call[c].of[2]}]
    /\ SaidDropped({call[c].of})
    /\ GoOn(c, call[c])
    /\ UNCHANGED <<saved, txn, cache, nCalls>>

-----------------------------------------------------------------------------
(* Statements that fail: the database is busy or full, or an INSERT finds   *)
(* its row there already.                                                   *)

\* Most failures end the call, with an error or with a count of properties that
\* does not include the one that failed; what the call did so far stays.  A
\* DELETE of rows that fails and a check for edges that fails are passed over,
\* and REMOVE takes a failed look-up of its key for a key that does not exist.
Fail(c) ==
    LET verb == Head(call[c].todo)[1] IN
    /\ call[c].todo # <<>>
    /\ verb \in MayFail
    /\ IF verb \in Silent \ {"lookupKey"} THEN GoOn(c, call[c]) ELSE Return(c)
    /\ \/ verb \in {"clear", "clearAll"} /\ SaidCleared(c)
       \/ /\ verb = "lookupKey"
          /\ said' = [said EXCEPT ![call[c].of][call[c].name] = None]
       \/ verb \notin {"clear", "clearAll", "lookupKey"} /\ UNCHANGED said
    /\ UNCHANGED <<db, saved, txn, cache, nCalls>>

-----------------------------------------------------------------------------
(* The application's transactions, and the end of a connection *)

Begin(c) ==
    /\ CanStart(c) /\ txn = None
    /\ txn' = c
    /\ saved' = [db |-> db, said |-> said]
    /\ UNCHANGED <<db, said, cache, call, nCalls>>

NothingSaved == [db |-> NoTables, said |-> NothingSaid]

Commit(c) ==
    /\ txn = c /\ call[c] = Idle /\ Alone(c)
    /\ txn' = None
    /\ saved' = NothingSaved
    /\ UNCHANGED <<db, said, cache, call, nCalls>>

Restore ==
    /\ db' = saved.db
    /\ said' = saved.said
    /\ txn' = None
    /\ saved' = NothingSaved

\* The key cache knows nothing of transactions.
Rollback(c) ==
    /\ txn = c /\ call[c] = Idle
    /\ KeepKeys => db.keys = saved.db.keys
    /\ Restore
    /\ UNCHANGED <<cache, call, nCalls>>

\* The connection is closed, or its process ends in the middle of a call.
End(c) ==
    /\ cache' = [cache EXCEPT ![c] = [s \in Slots |-> None]]
    /\ Return(c)
    /\ IF txn = c THEN Restore ELSE UNCHANGED <<db, said, saved, txn>>
    /\ UNCHANGED nCalls

-----------------------------------------------------------------------------

Calls(c) ==
    \/ \E n \in 1 .. MaxNode, a \in Names, t \in TabSet :
          SetNode(c, n, a, t) \/ Replace(c, n, a, t)
    \/ \E e \in 1 .. MaxEdge, a \in Names, t \in EdgeTabs : SetEdge(c, e, a, t)
    \/ \E o \in Owners, a \in Names : Remove(c, o, a)
    \/ \E a \in Names, t \in TabSet : CreateNode(c, a, t)
    \/ \E n, m \in 1 .. MaxNode, a \in Names, t \in EdgeTabs : CreateEdge(c, n, m, a, t)
    \/ \E n \in 1 .. MaxNode, detach \in BOOLEAN : DeleteNode(c, n, detach)
    \/ \E e \in 1 .. MaxEdge : DeleteEdge(c, e)

Statements(c) ==
    \/ FindKey(c) \/ MissKey(c) \/ Clear(c) \/ Put(c)
    \/ NewNode(c) \/ NewEdge(c)
    \/ CheckNoEdges(c) \/ DropEdges(c) \/ DropNode(c) \/ DropEdge(c)
    \/ Fail(c)

Next == \E c \in Conns :
    Calls(c) \/ Statements(c) \/ Begin(c) \/ Commit(c) \/ Rollback(c) \/ End(c)

Spec == Init /\ [][Next]_vars

-----------------------------------------------------------------------------
(* Properties *)

\* The state has the shape the declarations above describe.
TypeOK ==
    /\ db \in Tables
    /\ said \in [Owners -> [Names -> TabSet \cup {"unknown", None}]]
    /\ saved.db \in Tables
    /\ txn \in Conns \cup {None}
    /\ \A c \in Conns, s \in Slots : cache[c][s] # None =>
          cache[c][s] \in [name : Names, id : Nat \ {0}]
    /\ \A c \in Conns : call[c] # Idle =>
          /\ call[c].todo # <<>>
          /\ call[c].of \in Owners \cup {None}

\* A value is what the last call that returned made it: the cleanup of other
\* tables (cypher_schema.c:730), the id a name has in a connection's cache
\* (cypher_schema.c:514) and the ids of new nodes (cypher_schema.c:30) all
\* have to be right for that, across connections, rollbacks, calls that end
\* half way and calls that fail.
ReadsLastSet ==
    \A o \in Owners, a \in Names :
        Exists(o) /\ said[o][a] # "unknown" => Value(o, a) = said[o][a]

\* A node has a value in one table at most, even between the statements of a
\* call or after one that did not end ("to avoid COALESCE conflicts",
\* cypher_schema.c:730).
OneValue ==
    \A n \in db.nodes, a \in Names : Cardinality(Holding(Node(n), a)) <= 1

\* Both ends of an edge are nodes, at every statement of a DELETE and after
\* every crash in one; foreign keys are not enforced and executor_delete.c:199
\* is all there is.
EdgeEnds == \A e \in db.edges : {e.src, e.dst} \subseteq db.nodes

\* Rows of the tables a DELETE clears belong to a node that is there, even when
\* the DELETE ends half way (executor_delete.c:233: properties go first).
RowsOwned ==
    \A r \in db.rows : r.of[1] = "node" /\ r.tab # "json" => Exists(r.of)

\* A DELETE that ends half way leaves nothing behind that names a node that is
\* gone.
NothingDangles == EdgeEnds /\ RowsOwned

\* Claim of cypher_schema.c:64, "node_id ... REFERENCES nodes(id) ON DELETE
\* CASCADE" and the same of edges: a row belongs to something that is there.
\* The code does not keep it: executor_delete.c leaves JSON rows, and those of
\* the edges that DETACH drops.
AllRowsOwned == \A r \in db.rows : Exists(r.of)

=============================================================================
