----------------------------- MODULE GraphCache -----------------------------
(***************************************************************************)
(* The graph a connection keeps for the algorithms: gql_load_graph,        *)
(* gql_reload_graph, gql_unload_graph, and cypher('RETURN algorithm()'),   *)
(* which loads one of its own if none is kept (extension.c, with           *)
(* csr_graph_load of CsrLoad).                                             *)
(*                                                                         *)
(* Each SELECT of csr_graph_load is a statement of its own.  What keeps    *)
(* the tables as they are from the first to the last is what surrounds the *)
(* call, as in Sequence: nothing ("bare"), a statement that also reads a   *)
(* table ("reader"), or a transaction.  The locks are those of a rollback  *)
(* journal.                                                                *)
(***************************************************************************)
EXTENDS CsrLoad

CONSTANTS
  Conn,
  Contexts,   \* what may surround a call: subset of "bare", "reader", "txn"
  RowsFail,   \* whether a SELECT may end early with an error
  Starts,     \* bound: the tables at first
  MaxChanges  \* bound: changes of the tables

Tables == [nodes : UNION {[N -> UserId \cup {None}] : N \in SUBSET Node},
           edges : UNION {[E -> Node \X Node] : E \in SUBSET Edge}]

NULL == 0
NoExecutor == -1

ASSUME CacheAssumption ==
  /\ IsFiniteSet(Conn) /\ NULL \notin Conn /\ Contexts \subseteq {"bare", "reader", "txn"}
  /\ RowsFail \in BOOLEAN /\ MaxChanges \in Nat
  /\ Starts \subseteq {s \in Tables : \A e \in DOMAIN s.edges :
                           {s.edges[e][1], s.edges[e][2]} \subseteq DOMAIN s.nodes}

VARIABLES
  db,        \* the tables, as committed
  work,      \* the tables as the writer has them, or None
  reserved,  \* the connection that has written and not committed, or NULL
  shared,    \* connections that hold SHARED between statements
  txn,       \* connections in a transaction
  changes,
  mem,       \* the csr_graphs in memory, by address
  cache,     \* cached_graph of connection_cache
  executor,  \* cached_graph of its executor, if there is one
  call       \* the call a connection is in

vars == <<db, work, reserved, shared, txn, changes, mem, cache, executor, call>>
dbVars == <<db, work, reserved, shared, txn, changes>>

Addr == 1 .. 2 * Cardinality(Conn)
Idle == [op |-> "none", step |-> "idle", g |-> NULL]

View(c) == IF reserved = c THEN work ELSE db
CanWrite(c) == reserved \in {NULL, c}
CanCommit(c) == CanWrite(c) /\ shared \subseteq {c}

Init ==
  /\ db \in Starts
  /\ work = None /\ reserved = NULL /\ shared = {} /\ txn = {} /\ changes = 0
  /\ mem = <<>>
  /\ cache = [c \in Conn |-> NULL] /\ executor = [c \in Conn |-> NoExecutor]
  /\ call = [c \in Conn |-> Idle]

-----------------------------------------------------------------------------
(* Changes of the tables.                                                  *)

Put(f, x, y) == [k \in DOMAIN f \cup {x} |-> IF k = x THEN y ELSE f[k]]

\* A node with edges is not deleted, an edge has its ends.
Changed(s) ==
  {[s EXCEPT !.nodes = Put(@, v, n)] : v \in Node, n \in UserId \cup {None}}
  \cup {[s EXCEPT !.nodes = Restrict(@, DOMAIN @ \ {v})] :
          v \in {u \in DOMAIN s.nodes : \A e \in DOMAIN s.edges : u \notin {s.edges[e][1], s.edges[e][2]}}}
  \cup {[s EXCEPT !.edges = Put(@, e, <<u, v>>)] :
          e \in Edge \ DOMAIN s.edges, u \in DOMAIN s.nodes, v \in DOMAIN s.nodes}
  \cup {[s EXCEPT !.edges = Restrict(@, DOMAIN @ \ {e})] : e \in DOMAIN s.edges}

\* A graph that is being loaded may be one of what is committed meanwhile.
Loading(c) == call[c].step \in {"names", "count", "edges"}
Commits(c, s) ==
  /\ db' = s
  /\ mem' = [a \in DOMAIN mem |->
       IF \E k \in Conn : Loading(k) /\ call[k].g = a
       THEN [mem[a] EXCEPT !.of = @ \cup {s}] ELSE mem[a]]

Change(c) ==
  /\ call[c] = Idle /\ changes < MaxChanges
  /\ changes' = changes + 1
  /\ \E s \in Changed(View(c)) \ {View(c)} :
       IF c \in txn
       THEN /\ CanWrite(c) /\ work' = s /\ reserved' = c /\ shared' = shared \cup {c}
            /\ UNCHANGED <<db, mem>>
       ELSE CanCommit(c) /\ Commits(c, s) /\ UNCHANGED <<work, reserved, shared>>
  /\ UNCHANGED <<txn, cache, executor, call>>

Begin(c) ==
  /\ call[c] = Idle /\ c \notin txn /\ "txn" \in Contexts
  /\ txn' = txn \cup {c}
  /\ UNCHANGED <<db, work, reserved, shared, changes, mem, cache, executor, call>>

EndTxn(c) ==
  /\ txn' = txn \ {c} /\ shared' = shared \ {c}
  /\ IF reserved = c THEN reserved' = NULL /\ work' = None ELSE UNCHANGED <<reserved, work>>

Commit(c) ==
  /\ call[c] = Idle /\ c \in txn
  /\ IF reserved = c THEN CanCommit(c) /\ Commits(c, work) ELSE UNCHANGED <<db, mem>>
  /\ EndTxn(c)
  /\ UNCHANGED <<changes, cache, executor, call>>

Rollback(c) ==
  /\ call[c] = Idle /\ c \in txn
  /\ EndTxn(c)
  /\ UNCHANGED <<db, changes, mem, cache, executor, call>>

-----------------------------------------------------------------------------
(* Calls.                                                                  *)

\* What a SELECT that should answer rows gives its loop: a step that fails
\* ends the loop as one that is done.
Read(rows) == IF RowsFail THEN {SubSeq(rows, 1, k) : k \in 0 .. Len(rows)} ELSE {rows}

FreeAddr(m) == Min((1 .. 2 * Cardinality(Conn) + 1) \ DOMAIN m)
Freed(m, a) == Restrict(m, DOMAIN m \ {a})

\* A call and its surroundings come to an end.
Leave(c) ==
  /\ call' = [call EXCEPT ![c] = Idle]
  /\ shared' = IF c \in txn THEN shared ELSE shared \ {c}

\* What each call does with the graph it has loaded, or with NULL.
Keep(c, op, a) ==
  /\ cache' = IF a # NULL \/ op = "reload" THEN [cache EXCEPT ![c] = a] ELSE cache
  /\ executor' = IF executor[c] # NoExecutor /\ (a # NULL \/ op = "reload")
                 THEN [executor EXCEPT ![c] = a] ELSE executor

\* csr_graph_load up to its first SELECT and the hash table; m is what is in
\* memory before it.  Without nodes there is no graph.
StartLoad(c, op, x, m) ==
  \E rows \in Read(NodeRows(View(c))) :
    IF rows = <<>>
    THEN /\ mem' = m
         /\ call' = [call EXCEPT ![c] = Idle]
         /\ shared' = IF c \in txn THEN shared \cup {c} ELSE shared
         /\ IF op = "algorithm" THEN UNCHANGED cache ELSE cache' = [cache EXCEPT ![c] = NULL]
    ELSE LET a == FreeAddr(m)
         IN /\ mem' = Put(m, a, [WithNodes(rows) EXCEPT !.of = {View(c)}])
            /\ call' = [call EXCEPT ![c] = [op |-> op, step |-> "names", g |-> a]]
            /\ shared' = IF x = "bare" THEN shared ELSE shared \cup {c}
            /\ IF op = "reload" THEN cache' = [cache EXCEPT ![c] = NULL] ELSE UNCHANGED cache

MayCall(c, x) == call[c] = Idle /\ x \in Contexts /\ (x = "txn" <=> c \in txn)

\* gql_load_graph: "already_loaded" changes nothing.
Load(c, x) ==
  /\ MayCall(c, x) /\ cache[c] = NULL
  /\ StartLoad(c, "load", x, mem)
  /\ UNCHANGED <<db, work, reserved, txn, changes, executor>>

\* gql_reload_graph: the executor is told at the end.
Forget(c) == Freed(mem, cache[c])
Reload(c, x) ==
  /\ MayCall(c, x)
  /\ StartLoad(c, "reload", x, Forget(c))
  /\ executor' = IF executor[c] # NoExecutor /\ call'[c] = Idle THEN [executor EXCEPT ![c] = NULL] ELSE executor
  /\ UNCHANGED <<db, work, reserved, txn, changes>>

\* gql_unload_graph
Unload(c) ==
  /\ call[c] = Idle /\ cache[c] # NULL
  /\ mem' = Freed(mem, cache[c])
  /\ cache' = [cache EXCEPT ![c] = NULL]
  /\ executor' = IF executor[c] # NoExecutor THEN [executor EXCEPT ![c] = NULL] ELSE executor
  /\ UNCHANGED <<dbVars, call>>

\* cypher() gives its executor, which it makes if need be, the graph that is
\* kept; the algorithm runs on it or loads another.
Cypher(c, x) ==
  /\ MayCall(c, x)
  /\ executor' = [executor EXCEPT ![c] = cache[c]]
  /\ IF executor'[c] # NULL
     THEN /\ call' = [call EXCEPT ![c] = [op |-> "algorithm", step |-> "run", g |-> executor'[c]]]
          /\ UNCHANGED <<mem, cache, shared>>
     ELSE StartLoad(c, "algorithm", x, mem)
  /\ UNCHANGED <<db, work, reserved, txn, changes>>

\* The SELECT of the user's ids, and the first of the edges.
LoadNames(c) ==
  /\ call[c].step = "names"
  /\ mem' = [mem EXCEPT ![call[c].g] = WithNames(@, View(c))]
  /\ call' = [call EXCEPT ![c].step = "count"]
  /\ UNCHANGED <<dbVars, cache, executor>>

CountEdges(c) ==
  /\ call[c].step = "count"
  /\ \E rows \in Read(EdgeRows(View(c))) : mem' = [mem EXCEPT ![call[c].g] = WithCounts(@, rows)]
  /\ call' = [call EXCEPT ![c].step = "edges"]
  /\ UNCHANGED <<dbVars, cache, executor>>

\* The second SELECT of the edges, and what the caller does with the graph.
FillEdges(c) ==
  /\ call[c].step = "edges"
  /\ \E rows \in Read(EdgeRows(View(c))) : mem' = [mem EXCEPT ![call[c].g] = WithEdges(@, rows)]
  /\ IF call[c].op = "algorithm"
     THEN call' = [call EXCEPT ![c].step = "run"] /\ UNCHANGED <<shared, cache, executor>>
     ELSE Keep(c, call[c].op, call[c].g) /\ Leave(c)
  /\ UNCHANGED <<db, work, reserved, txn, changes>>

\* The algorithm answers, and frees the graph if it loaded it.
FreesAny(c) == TRUE  \* seeded fault
Frees(c) == call[c].g # executor[c]
Answer(c) ==
  /\ call[c].step = "run"
  /\ mem' = IF Frees(c) THEN Freed(mem, call[c].g) ELSE mem
  /\ Leave(c)
  /\ UNCHANGED <<db, work, reserved, txn, changes, cache, executor>>

\* The connection is closed, and another opened in its place.
Close(c) ==
  /\ call[c] = Idle /\ c \notin txn
  /\ mem' = Freed(mem, cache[c])
  /\ cache' = [cache EXCEPT ![c] = NULL] /\ executor' = [executor EXCEPT ![c] = NoExecutor]
  /\ UNCHANGED <<dbVars, call>>

Next ==
  \E c \in Conn :
    \/ Change(c) \/ Begin(c) \/ Commit(c) \/ Rollback(c)
    \/ \E x \in Contexts : Load(c, x) \/ Reload(c, x) \/ Cypher(c, x)
    \/ LoadNames(c) \/ CountEdges(c) \/ FillEdges(c) \/ Answer(c)
    \/ Unload(c) \/ Close(c)

Spec == Init /\ [][Next]_vars

-----------------------------------------------------------------------------
(* Properties.                                                             *)

\* Every variable has its type.
TypeOK ==
  /\ db \in Tables /\ work \in Tables \cup {None}
  /\ reserved \in Conn \cup {NULL} /\ shared \subseteq Conn /\ txn \subseteq Conn
  /\ DOMAIN mem \subseteq Addr
  /\ \A a \in DOMAIN mem : mem[a].ids \in Seq(Node) /\ mem[a].of \subseteq Tables
  /\ cache \in [Conn -> Addr \cup {NULL}] /\ executor \in [Conn -> Addr \cup {NULL, NoExecutor}]
  /\ \A c \in Conn : call[c].g \in Addr \cup {NULL}

Complete(a) == \A c \in Conn : ~(Loading(c) /\ call[c].g = a)

\* A graph that is kept or computed with is that of the tables as they were at
\* one moment since the call that loaded it.
Snapshot == \A a \in DOMAIN mem : Complete(a) => \E s \in mem[a].of : IsGraphOf(mem[a], s)

\* The arrays have as many places as edges are put into them.
FillsItsArrays == \A a \in DOMAIN mem : Complete(a) => Filled(mem[a])

\* What the algorithms are given is a graph, whatever was written while it was
\* loaded.
LoadedWell == Snapshot /\ FillsItsArrays

\* Each graph in memory is that of one connection, which keeps it, is loading
\* it or computes with it: none is lost, used after it was freed, or freed
\* twice.
Uses(c) == {cache[c], call[c].g} \ {NULL}
OneOwner ==
  /\ UNION {Uses(c) : c \in Conn} = DOMAIN mem
  /\ \A c, k \in Conn : c # k => Uses(c) \cap Uses(k) = {}

-----------------------------------------------------------------------------
(* Claims that the code does not keep; the README says when.               *)

\* What an algorithm answers is about the graph as its caller sees it.
Fresh == \A c \in Conn : call[c].step = "run" => IsGraphOf(mem[call[c].g], View(c))
=============================================================================
