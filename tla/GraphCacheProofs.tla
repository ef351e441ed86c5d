-------------------------- MODULE GraphCacheProofs --------------------------
(***************************************************************************)
(* Proofs about GraphCache, for any number of connections, tables and      *)
(* rows: who owns the graphs in memory, whatever fails; that csr_graph_load*)
(* makes of tables that stay as they are their graph; and that they do     *)
(* stay, if something around the call holds them.                          *)
(***************************************************************************)
EXTENDS GraphCache, FiniteSetTheorems, SequenceTheorems, NaturalsInduction,
        WellFoundedInduction, TLAPS

-----------------------------------------------------------------------------
(* What is known of a connection at each step of its call.                 *)

Ops == {"none", "load", "reload", "algorithm"}
LoadSteps == {"names", "count", "edges"}
Call == [op : Ops, step : LoadSteps \cup {"idle", "run"}, g : Addr \cup {NULL}]

MemoryTypeOK ==
  /\ DOMAIN mem \subseteq Addr
  /\ cache \in [Conn -> Addr \cup {NULL}]
  /\ executor \in [Conn -> Addr \cup {NULL, NoExecutor}]
  /\ call \in [Conn -> Call]

\* Between calls an executor has the graph that is kept.  While one is loaded
\* none is kept, though the executor may still have the one that a reload has
\* freed.  An algorithm runs on the graph that is kept, or on its own.
StageOf(c) ==
  /\ call[c].step = "idle" => call[c] = Idle /\ executor[c] \in {NoExecutor, cache[c]}
  /\ call[c].step \in LoadSteps =>
       /\ call[c].op # "none" /\ call[c].g # NULL /\ cache[c] = NULL
       /\ call[c].op = "load" => executor[c] \in {NoExecutor, NULL}
       /\ call[c].op = "algorithm" => executor[c] = NULL
  /\ call[c].step = "run" =>
       /\ call[c].op = "algorithm" /\ call[c].g # NULL
       /\ executor[c] = cache[c] /\ cache[c] \in {NULL, call[c].g}
Stages == \A c \in Conn : StageOf(c)

OwnInv == MemoryTypeOK /\ Stages /\ OneOwner

-----------------------------------------------------------------------------
(* Addresses.                                                              *)

\* What Idle is.
LEMMA IdleIs == Idle.step = "idle" /\ Idle.op = "none" /\ Idle.g = NULL /\ Idle \in Call
BY DEF Idle, Call, Ops

\* The graph a connection uses, if any.
Used(c) == IF call[c].g # NULL THEN call[c].g ELSE cache[c]

\* A connection uses one graph at most.
LEMMA OneEach ==
  ASSUME MemoryTypeOK, Stages, NEW c \in Conn
  PROVE  Uses(c) \subseteq {Used(c)} /\ Used(c) \in Addr \cup {NULL}
<1>1. StageOf(c) /\ call[c] \in Call /\ cache[c] \in Addr \cup {NULL}
  BY DEF MemoryTypeOK, Stages
<1>2. call[c].g # NULL => cache[c] \in {NULL, call[c].g}
  BY <1>1, IdleIs DEF StageOf, Call
<1> QED
  BY <1>1, <1>2 DEF Uses, Used, Call

\* A set of numbers that is not empty has a least member.
LEMMA LeastOf ==
  ASSUME NEW S \in SUBSET Nat, S # {}
  PROVE  \E n \in S : \A m \in S : n <= m
<1> DEFINE R == OpToRel(<, Nat)
<1>1. IsWellFoundedOn(R, Nat)
  BY NatLessThanWellFounded
<1>2. \A x, y \in Nat : x < y => <<x, y>> \in R
  BY DEF OpToRel
<1>4. S \subseteq Nat
  OBVIOUS
<1> HIDE DEF R
<1>3. \E n \in S : \A m \in S : ~(<<m, n>> \in R)
  BY <1>1, <1>4, WFMin
<1>5. PICK n \in S : \A m \in S : ~(<<m, n>> \in R)
  BY <1>3
<1>6. \A m \in S : ~(m < n)
  BY <1>5, <1>2
<1> QED
  BY <1>5, <1>6

\* malloc finds an address for a graph: there are fewer graphs than connections
\* or as many, and twice as many addresses.
LEMMA FreeAddrFree ==
  ASSUME MemoryTypeOK, Stages, NEW m, NEW c \in Conn,
         DOMAIN m \subseteq UNION {Uses(k) : k \in Conn}
  PROVE  FreeAddr(m) \in Addr /\ FreeAddr(m) \notin DOMAIN m /\ FreeAddr(m) # NULL
<1> DEFINE n == Cardinality(Conn)
           f == [k \in Conn |-> Used(k)]
           T == {f[k] : k \in Conn}
           Free == (1 .. 2 * n + 1) \ DOMAIN m
<1>1. IsFiniteSet(Conn) /\ n \in Nat /\ n # 0
  BY CacheAssumption, FS_CardinalityType, FS_EmptySet
<1>2. f \in Surjection(Conn, T)
  BY DEF Surjection
<1>3. IsFiniteSet(T) /\ Cardinality(T) <= n
  BY <1>1, <1>2, FS_Surjection
<1>4. DOMAIN m \subseteq T
  BY OneEach
<1>5. IsFiniteSet(DOMAIN m) /\ Cardinality(DOMAIN m) <= n /\ Cardinality(DOMAIN m) \in Nat
  BY <1>1, <1>3, <1>4, FS_Subset, FS_CardinalityType
<1>6. \E a \in 1 .. 2 * n : a \notin DOMAIN m
  <2> SUFFICES ASSUME 1 .. 2 * n \subseteq DOMAIN m PROVE FALSE
    OBVIOUS
  <2>1. Cardinality(1 .. 2 * n) = 2 * n
    BY <1>1, FS_Interval
  <2>2. Cardinality(1 .. 2 * n) <= Cardinality(DOMAIN m)
    BY <1>5, FS_Subset
  <2> QED
    BY <1>1, <1>5, <2>1, <2>2
<1>7. PICK a \in 1 .. 2 * n : a \notin DOMAIN m
  BY <1>6
<1>8. \E x \in Free : \A y \in Free : x <= y
  <2>1. Free \in SUBSET Nat /\ a \in Free
    BY <1>1, <1>7
  <2> HIDE DEF Free
  <2> QED
    BY <2>1, LeastOf
<1>9. FreeAddr(m) \in Free /\ \A y \in Free : FreeAddr(m) <= y
  <2>1. FreeAddr(m) = CHOOSE x \in Free : \A y \in Free : x <= y
    BY DEF FreeAddr, Min
  <2> HIDE DEF Free
  <2> QED
    BY <1>8, <2>1
<1> QED
  BY <1>1, <1>7, <1>9 DEF Addr, NULL

-----------------------------------------------------------------------------
(* A step of one connection.                                               *)

\* No other connection's part of the state changes.
OthersStay(c) ==
  \A k \in Conn \ {c} : cache'[k] = cache[k] /\ executor'[k] = executor[k] /\ call'[k] = call[k]

\* What is in memory after a step of c: the graphs of the others, and that of
\* c, at an address of its own.
MemoryOf(c) ==
  /\ DOMAIN mem' = (DOMAIN mem \ Uses(c)) \cup Uses(c)'
  /\ Uses(c)' \cap (DOMAIN mem \ Uses(c)) = {}

\* A step that keeps to this, and leaves its connection at a stage, keeps the
\* invariant.
LEMMA StepOfOne ==
  ASSUME OwnInv, NEW c \in Conn, MemoryTypeOK', OthersStay(c), MemoryOf(c), StageOf(c)'
  PROVE  OwnInv'
<1>1. \A k \in Conn \ {c} : Uses(k)' = Uses(k) /\ (StageOf(k)' <=> StageOf(k))
  BY DEF OthersStay, Uses, StageOf, Idle
<1>2. Stages'
  BY <1>1 DEF OwnInv, Stages
<1>3. UNION {Uses(k) : k \in Conn} = DOMAIN mem
      /\ \A j, k \in Conn : j # k => Uses(j) \cap Uses(k) = {}
  BY DEF OwnInv, OneOwner
<1>4. UNION {Uses(k)' : k \in Conn} = DOMAIN mem'
  <2>1. UNION {Uses(k)' : k \in Conn} = Uses(c)' \cup UNION {Uses(k) : k \in Conn \ {c}}
    BY <1>1
  <2>2. UNION {Uses(k) : k \in Conn \ {c}} = DOMAIN mem \ Uses(c)
    BY <1>3
  <2> QED
    BY <2>1, <2>2 DEF MemoryOf
<1>5. \A j, k \in Conn : j # k => Uses(j)' \cap Uses(k)' = {}
  <2>1. \A k \in Conn \ {c} : Uses(k)' \subseteq DOMAIN mem \ Uses(c)
    BY <1>1, <1>3
  <2> QED
    BY <1>1, <1>3, <2>1 DEF MemoryOf
<1> QED
  BY <1>2, <1>4, <1>5 DEF OwnInv, OneOwner

\* The parts of the invariant for one connection.
LEMMA OwnParts ==
  ASSUME OwnInv, NEW c \in Conn
  PROVE  /\ MemoryTypeOK /\ StageOf(c)
         /\ cache[c] \in Addr \cup {NULL} /\ executor[c] \in Addr \cup {NULL, NoExecutor}
         /\ call[c] \in Call /\ call[c].g \in Addr \cup {NULL}
         /\ Uses(c) \subseteq DOMAIN mem
BY DEF OwnInv, MemoryTypeOK, Stages, OneOwner, Call

\* A connection that changes nothing of its graph, in any way that leaves the
\* same graphs in memory.
LEMMA StepOfNone ==
  ASSUME OwnInv, UNCHANGED <<cache, executor, call>>, DOMAIN mem' = DOMAIN mem
  PROVE  OwnInv'
<1>1. MemoryTypeOK'
  BY DEF OwnInv, MemoryTypeOK, Addr, Call
<1>2. \A k \in Conn : Uses(k)' = Uses(k) /\ (StageOf(k)' <=> StageOf(k))
  BY DEF Uses, StageOf, Idle
<1>3. Stages'
  BY <1>2 DEF OwnInv, Stages
<1>4. OneOwner'
  BY <1>2 DEF OwnInv, OneOwner
<1> QED
  BY <1>1, <1>3, <1>4 DEF OwnInv

-----------------------------------------------------------------------------
(* Loading.                                                                *)

\* What StartLoad leaves: no graph, or one that is being loaded.  m is memory
\* without what c had kept, if it was to be loaded anew.
LEMMA StartLoadOwn ==
  ASSUME OwnInv, NEW c \in Conn, NEW op \in Ops \ {"none"}, NEW x, NEW m,
         call[c] = Idle,
         DOMAIN m = DOMAIN mem \ Uses(c),
         cache[c] = NULL \/ op = "reload",
         StartLoad(c, op, x, m)
  PROVE  /\ DOMAIN mem' \subseteq Addr /\ cache' \in [Conn -> Addr \cup {NULL}]
         /\ call' \in [Conn -> Call] /\ MemoryOf(c)
         /\ \A k \in Conn \ {c} : cache'[k] = cache[k] /\ call'[k] = call[k]
         /\ cache'[c] = NULL
         /\ \/ call'[c] = Idle
            \/ call'[c].step = "names" /\ call'[c].op = op /\ call'[c].g # NULL
<1>1. MemoryTypeOK /\ Stages /\ call \in [Conn -> Call] /\ cache \in [Conn -> Addr \cup {NULL}]
      /\ DOMAIN mem \subseteq Addr
      /\ UNION {Uses(k) : k \in Conn} = DOMAIN mem
  BY DEF OwnInv, MemoryTypeOK, OneOwner
<1>2. Idle \in Call /\ Idle.g = NULL
  BY IdleIs
<1>3. PICK rows \in Read(NodeRows(View(c))) :
        IF rows = <<>>
        THEN /\ mem' = m
             /\ call' = [call EXCEPT ![c] = Idle]
             /\ IF op = "algorithm" THEN UNCHANGED cache ELSE cache' = [cache EXCEPT ![c] = NULL]
        ELSE /\ mem' = Put(m, FreeAddr(m), [WithNodes(rows) EXCEPT !.of = {View(c)}])
             /\ call' = [call EXCEPT ![c] = [op |-> op, step |-> "names", g |-> FreeAddr(m)]]
             /\ IF op = "reload" THEN cache' = [cache EXCEPT ![c] = NULL] ELSE UNCHANGED cache
  BY DEF StartLoad
<1>4. cache' \in [Conn -> Addr \cup {NULL}] /\ cache'[c] = NULL
      /\ \A k \in Conn \ {c} : cache'[k] = cache[k]
  BY <1>1, <1>3
<1>5. CASE rows = <<>>
  <2>1. call' = [call EXCEPT ![c] = Idle] /\ mem' = m
    BY <1>3, <1>5
  <2>2. call' \in [Conn -> Call] /\ call'[c] = Idle /\ \A k \in Conn \ {c} : call'[k] = call[k]
    BY <1>1, <1>2, <2>1
  <2>3. Uses(c)' = {}
    BY <1>2, <1>4, <2>2 DEF Uses
  <2> QED
    BY <1>1, <1>4, <2>1, <2>2, <2>3 DEF MemoryOf
<1>6. CASE rows # <<>>
  <2> DEFINE a == FreeAddr(m)
             new == [op |-> op, step |-> "names", g |-> a]
             r == [WithNodes(rows) EXCEPT !.of = {View(c)}]
  <2>1. a \in Addr /\ a \notin DOMAIN m /\ a # NULL
    BY <1>1, FreeAddrFree
  <2>2. new \in Call /\ new.g = a /\ new.step = "names" /\ new.op = op
    BY <2>1 DEF Call, LoadSteps
  <2> HIDE DEF a, new, r
  <2>3. call' = [call EXCEPT ![c] = new] /\ mem' = Put(m, a, r)
    BY <1>3, <1>6 DEF a, new, r
  <2>4. call' \in [Conn -> Call] /\ call'[c] = new /\ \A k \in Conn \ {c} : call'[k] = call[k]
    BY <1>1, <2>2, <2>3
  <2>5. DOMAIN mem' = {a} \cup DOMAIN m
    BY <2>3 DEF Put
  <2>6. Uses(c)' = {a}
    BY <1>4, <2>1, <2>2, <2>4 DEF Uses
  <2> QED
    BY <1>1, <1>4, <2>1, <2>2, <2>4, <2>5, <2>6 DEF MemoryOf
<1> QED
  BY <1>5, <1>6

\* A step that sets the executor to nothing or to what it keeps.
LEMMA SetExecutor ==
  ASSUME MemoryTypeOK, NEW c \in Conn, NEW v \in Addr \cup {NULL, NoExecutor},
         executor' = [executor EXCEPT ![c] = v] \/ (executor' = executor /\ executor[c] = v)
  PROVE  /\ executor' \in [Conn -> Addr \cup {NULL, NoExecutor}] /\ executor'[c] = v
         /\ \A k \in Conn \ {c} : executor'[k] = executor[k]
BY DEF MemoryTypeOK

\* The calls that load a graph.
LEMMA LoadOwn ==
  ASSUME OwnInv, NEW c \in Conn, NEW x, Load(c, x)
  PROVE  OwnInv'
<1>1. call[c] = Idle /\ cache[c] = NULL /\ StartLoad(c, "load", x, mem) /\ executor' = executor
  BY DEF Load, MayCall
<1>2. Uses(c) = {} /\ executor[c] \in {NoExecutor, NULL}
  BY <1>1, OwnParts, IdleIs DEF Uses, StageOf
<1>3. /\ DOMAIN mem' \subseteq Addr /\ cache' \in [Conn -> Addr \cup {NULL}]
      /\ call' \in [Conn -> Call] /\ MemoryOf(c)
      /\ \A k \in Conn \ {c} : cache'[k] = cache[k] /\ call'[k] = call[k]
      /\ cache'[c] = NULL
      /\ \/ call'[c] = Idle
         \/ call'[c].step = "names" /\ call'[c].op = "load" /\ call'[c].g # NULL
  BY <1>1, <1>2, StartLoadOwn DEF Ops
<1>4. MemoryTypeOK' /\ OthersStay(c)
  BY <1>1, <1>3 DEF OwnInv, MemoryTypeOK, OthersStay, Addr, Call
<1>5. StageOf(c)'
  BY <1>1, <1>2, <1>3, IdleIs DEF StageOf, LoadSteps
<1> QED
  BY <1>3, <1>4, <1>5, StepOfOne

\* gql_reload_graph frees the graph that is kept before it loads another.
LEMMA ReloadOwn ==
  ASSUME OwnInv, NEW c \in Conn, NEW x, Reload(c, x)
  PROVE  OwnInv'
<1>1. /\ call[c] = Idle /\ StartLoad(c, "reload", x, Forget(c))
      /\ executor' = IF executor[c] # NoExecutor /\ call'[c] = Idle
                     THEN [executor EXCEPT ![c] = NULL] ELSE executor
  BY DEF Reload, MayCall
<1>2. DOMAIN Forget(c) = DOMAIN mem \ Uses(c)
  <2>1. DOMAIN Forget(c) = DOMAIN mem \ {cache[c]}
    BY DEF Forget, Freed, Restrict
  <2>2. DOMAIN mem \subseteq Addr /\ NULL \notin Addr
    BY OwnParts DEF MemoryTypeOK, Addr, NULL
  <2> QED
    BY <1>1, <2>1, <2>2, IdleIs DEF Uses
<1>3. /\ DOMAIN mem' \subseteq Addr /\ cache' \in [Conn -> Addr \cup {NULL}]
      /\ call' \in [Conn -> Call] /\ MemoryOf(c)
      /\ \A k \in Conn \ {c} : cache'[k] = cache[k] /\ call'[k] = call[k]
      /\ cache'[c] = NULL
      /\ \/ call'[c] = Idle
         \/ call'[c].step = "names" /\ call'[c].op = "reload" /\ call'[c].g # NULL
  BY <1>1, <1>2, StartLoadOwn DEF Ops
<1>4. /\ executor' \in [Conn -> Addr \cup {NULL, NoExecutor}]
      /\ \A k \in Conn \ {c} : executor'[k] = executor[k]
      /\ call'[c] = Idle => executor'[c] \in {NoExecutor, NULL}
  BY <1>1 DEF OwnInv, MemoryTypeOK
<1>5. MemoryTypeOK' /\ OthersStay(c)
  BY <1>3, <1>4 DEF MemoryTypeOK, OthersStay, Addr, Call
<1>6. StageOf(c)'
  BY <1>3, <1>4, IdleIs DEF StageOf, LoadSteps
<1> QED
  BY <1>3, <1>5, <1>6, StepOfOne

\* cypher() computes with the graph that is kept, or loads one.
LEMMA CypherOwn ==
  ASSUME OwnInv, NEW c \in Conn, NEW x, Cypher(c, x)
  PROVE  OwnInv'
<1>1. call[c] = Idle /\ executor' = [executor EXCEPT ![c] = cache[c]]
  BY DEF Cypher, MayCall
<1>2. /\ executor' \in [Conn -> Addr \cup {NULL, NoExecutor}] /\ executor'[c] = cache[c]
      /\ \A k \in Conn \ {c} : executor'[k] = executor[k]
  BY <1>1, OwnParts, SetExecutor
<1>3. CASE cache[c] = NULL
  <2>1. StartLoad(c, "algorithm", x, mem) /\ Uses(c) = {}
    BY <1>1, <1>2, <1>3 DEF Cypher, Uses, Idle
  <2>2. /\ DOMAIN mem' \subseteq Addr /\ cache' \in [Conn -> Addr \cup {NULL}]
        /\ call' \in [Conn -> Call] /\ MemoryOf(c)
        /\ \A k \in Conn \ {c} : cache'[k] = cache[k] /\ call'[k] = call[k]
        /\ cache'[c] = NULL
        /\ \/ call'[c] = Idle
           \/ call'[c].step = "names" /\ call'[c].op = "algorithm" /\ call'[c].g # NULL
    BY <1>1, <1>3, <2>1, StartLoadOwn DEF Ops
  <2>3. MemoryTypeOK' /\ OthersStay(c)
    BY <1>2, <2>2 DEF MemoryTypeOK, OthersStay, Addr, Call
  <2>4. StageOf(c)'
    BY <1>2, <1>3, <2>2, IdleIs DEF StageOf, LoadSteps
  <2> QED
    BY <2>2, <2>3, <2>4, StepOfOne
<1>4. CASE cache[c] # NULL
  <2> DEFINE new == [op |-> "algorithm", step |-> "run", g |-> cache[c]]
  <2>1. call' = [call EXCEPT ![c] = new] /\ mem' = mem /\ cache' = cache
    BY <1>2, <1>4 DEF Cypher
  <2>2. new \in Call /\ new.g = cache[c] /\ new.step = "run" /\ new.op = "algorithm"
    BY OwnParts DEF Call, Ops
  <2> HIDE DEF new
  <2>3. call' \in [Conn -> Call] /\ call'[c] = new /\ \A k \in Conn \ {c} : call'[k] = call[k]
    BY <2>1, <2>2 DEF OwnInv, MemoryTypeOK
  <2>4. Uses(c)' = {cache[c]} /\ Uses(c) = {cache[c]}
    BY <1>1, <1>4, <2>1, <2>2, <2>3, IdleIs DEF Uses
  <2>5. MemoryTypeOK' /\ OthersStay(c)
    BY <1>2, <2>1, <2>3 DEF OwnInv, MemoryTypeOK, OthersStay, Addr, Call
  <2>6. StageOf(c)'
    BY <1>2, <1>4, <2>1, <2>2, <2>3 DEF StageOf, LoadSteps
  <2>7. MemoryOf(c)
    BY <2>1, <2>4, OwnParts DEF MemoryOf
  <2> QED
    BY <2>5, <2>6, <2>7, StepOfOne
<1> QED
  BY <1>3, <1>4

\* The SELECTs of a load, until the last: the graph stays where it is.
LEMMA SelectOwn ==
  ASSUME OwnInv, NEW c \in Conn, LoadNames(c) \/ CountEdges(c)
  PROVE  OwnInv'
<1>1. PICK s \in {"count", "edges"} : call' = [call EXCEPT ![c].step = s]
  BY DEF LoadNames, CountEdges
<1>2. /\ cache' = cache /\ executor' = executor /\ DOMAIN mem' = DOMAIN mem
      /\ call[c].step \in LoadSteps
  BY DEF LoadNames, CountEdges, LoadSteps
<1>3. /\ call' \in [Conn -> Call] /\ call'[c].step = s
      /\ call'[c].op = call[c].op /\ call'[c].g = call[c].g
      /\ \A k \in Conn \ {c} : call'[k] = call[k]
  <2>1. call \in [Conn -> Call] /\ call[c] \in Call
    BY DEF OwnInv, MemoryTypeOK
  <2>2. call' = [call EXCEPT ![c] = [call[c] EXCEPT !.step = s]]
    BY <1>1, <2>1
  <2>3. [call[c] EXCEPT !.step = s] \in Call
    BY <2>1 DEF Call, LoadSteps
  <2> QED
    BY <2>1, <2>2, <2>3 DEF Call
<1>4. MemoryTypeOK' /\ OthersStay(c)
  BY <1>2, <1>3 DEF OwnInv, MemoryTypeOK, OthersStay, Addr, Call
<1>5. StageOf(c)'
  BY <1>2, <1>3, OwnParts DEF StageOf, LoadSteps
<1>6. MemoryOf(c)
  BY <1>2, <1>3, OwnParts DEF MemoryOf, Uses
<1> QED
  BY <1>4, <1>5, <1>6, StepOfOne

\* The last SELECT, after which the graph is kept or computed with.
LEMMA FillEdgesOwn ==
  ASSUME OwnInv, NEW c \in Conn, FillEdges(c)
  PROVE  OwnInv'
<1>1. call[c].step = "edges" /\ call[c].step \in LoadSteps /\ DOMAIN mem' = DOMAIN mem
  BY DEF FillEdges, LoadSteps
<1>2. /\ call[c].op # "none" /\ call[c].g # NULL /\ cache[c] = NULL
      /\ call[c].op = "load" => executor[c] \in {NoExecutor, NULL}
      /\ call[c].op = "algorithm" => executor[c] = NULL
      /\ call[c] \in Call /\ call \in [Conn -> Call]
      /\ Uses(c) = {call[c].g}
  BY <1>1, OwnParts DEF StageOf, OwnInv, MemoryTypeOK, Uses
<1>3. CASE call[c].op = "algorithm"
  <2>1. call' = [call EXCEPT ![c].step = "run"] /\ cache' = cache /\ executor' = executor
    BY <1>3 DEF FillEdges
  <2>2. /\ call' \in [Conn -> Call] /\ call'[c].step = "run"
        /\ call'[c].op = call[c].op /\ call'[c].g = call[c].g
        /\ \A k \in Conn \ {c} : call'[k] = call[k]
    <3>1. call' = [call EXCEPT ![c] = [call[c] EXCEPT !.step = "run"]]
      BY <1>2, <2>1
    <3>2. [call[c] EXCEPT !.step = "run"] \in Call
      BY <1>2 DEF Call
    <3> QED
      BY <1>2, <3>1, <3>2 DEF Call
  <2>3. MemoryTypeOK' /\ OthersStay(c)
    BY <1>1, <2>1, <2>2 DEF OwnInv, MemoryTypeOK, OthersStay, Addr, Call
  <2>4. StageOf(c)'
    BY <1>2, <1>3, <2>1, <2>2 DEF StageOf, LoadSteps
  <2>5. MemoryOf(c)
    BY <1>1, <2>1, <2>2, OwnParts DEF MemoryOf, Uses
  <2> QED
    BY <2>3, <2>4, <2>5, StepOfOne
<1>4. CASE call[c].op # "algorithm"
  <2> DEFINE a == call[c].g
  <2>1. /\ cache' = [cache EXCEPT ![c] = a] /\ call' = [call EXCEPT ![c] = Idle]
        /\ executor' = IF executor[c] # NoExecutor THEN [executor EXCEPT ![c] = a] ELSE executor
    BY <1>2, <1>4 DEF FillEdges, Keep, Leave
  <2>2. a \in Addr /\ a # NULL
    BY <1>2 DEF Call
  <2> HIDE DEF a
  <2>3. /\ cache' \in [Conn -> Addr \cup {NULL}] /\ cache'[c] = a
        /\ \A k \in Conn \ {c} : cache'[k] = cache[k]
    BY <2>1, <2>2 DEF OwnInv, MemoryTypeOK
  <2>4. /\ executor' \in [Conn -> Addr \cup {NULL, NoExecutor}] /\ executor'[c] \in {NoExecutor, a}
        /\ \A k \in Conn \ {c} : executor'[k] = executor[k]
    BY <2>1, <2>2 DEF OwnInv, MemoryTypeOK
  <2>5. call' \in [Conn -> Call] /\ call'[c] = Idle /\ \A k \in Conn \ {c} : call'[k] = call[k]
    BY <1>2, <2>1, IdleIs
  <2>6. MemoryTypeOK' /\ OthersStay(c)
    BY <1>1, <2>3, <2>4, <2>5 DEF OwnInv, MemoryTypeOK, OthersStay, Addr, Call
  <2>7. StageOf(c)'
    BY <2>3, <2>4, <2>5, IdleIs DEF StageOf, LoadSteps
  <2>8. Uses(c)' = {a} /\ Uses(c) = {a}
    BY <1>2, <2>2, <2>3, <2>5, IdleIs DEF Uses, a
  <2>9. MemoryOf(c)
    BY <1>1, <2>8, OwnParts DEF MemoryOf
  <2> QED
    BY <2>6, <2>7, <2>9, StepOfOne
<1> QED
  BY <1>3, <1>4

\* What freeing leaves in memory.
LEMMA FreedDomain ==
  ASSUME NEW m, NEW a
  PROVE  DOMAIN Freed(m, a) = DOMAIN m \ {a}
BY DEF Freed, Restrict

\* An algorithm frees the graph it loaded, and no other.
LEMMA AnswerOwn ==
  ASSUME OwnInv, NEW c \in Conn, Answer(c)
  PROVE  OwnInv'
<1>1. /\ call[c].step = "run" /\ call' = [call EXCEPT ![c] = Idle]
      /\ cache' = cache /\ executor' = executor
      /\ mem' = IF call[c].g # executor[c] THEN Freed(mem, call[c].g) ELSE mem
  BY DEF Answer, Leave, Frees
<1>2. /\ call[c].g # NULL /\ executor[c] = cache[c] /\ cache[c] \in {NULL, call[c].g}
      /\ call \in [Conn -> Call]
  BY <1>1, OwnParts DEF StageOf, OwnInv, MemoryTypeOK
<1>3. call' \in [Conn -> Call] /\ call'[c] = Idle /\ \A k \in Conn \ {c} : call'[k] = call[k]
  BY <1>1, <1>2, IdleIs
<1>4. Uses(c) = {call[c].g} /\ Uses(c)' = {cache[c]} \ {NULL}
  BY <1>1, <1>2, <1>3, IdleIs DEF Uses
<1>5. DOMAIN mem' = (DOMAIN mem \ Uses(c)) \cup Uses(c)'
  <2>1. CASE cache[c] = NULL
    <3>1. mem' = Freed(mem, call[c].g)
      BY <1>1, <1>2, <2>1
    <3> QED
      BY <1>4, <2>1, <3>1, FreedDomain
  <2>2. CASE cache[c] = call[c].g
    <3>1. mem' = mem
      BY <1>1, <1>2, <2>2
    <3> QED
      BY <1>2, <1>4, <2>2, <3>1, OwnParts
  <2> QED
    BY <1>2, <2>1, <2>2
<1>6. MemoryOf(c)
  BY <1>2, <1>4, <1>5 DEF MemoryOf
<1>7. MemoryTypeOK' /\ OthersStay(c)
  BY <1>1, <1>2, <1>3, <1>4, <1>5 DEF OwnInv, MemoryTypeOK, OthersStay, OneOwner, Addr, Call
<1>8. StageOf(c)'
  BY <1>1, <1>2, <1>3, IdleIs DEF StageOf, LoadSteps
<1> QED
  BY <1>6, <1>7, <1>8, StepOfOne

\* The steps that let go of the graph that is kept.
LEMMA LetGoOwn ==
  ASSUME OwnInv, NEW c \in Conn, Unload(c) \/ Close(c)
  PROVE  OwnInv'
<1>1. /\ call[c] = Idle /\ call' = call /\ mem' = Freed(mem, cache[c])
      /\ cache' = [cache EXCEPT ![c] = NULL]
  BY DEF Unload, Close
<1>2. /\ executor' \in [Conn -> Addr \cup {NULL, NoExecutor}] /\ executor'[c] \in {NoExecutor, NULL}
      /\ \A k \in Conn \ {c} : executor'[k] = executor[k]
  BY DEF Unload, Close, OwnInv, MemoryTypeOK
<1>3. /\ cache' \in [Conn -> Addr \cup {NULL}] /\ cache'[c] = NULL
      /\ \A k \in Conn \ {c} : cache'[k] = cache[k]
  BY <1>1 DEF OwnInv, MemoryTypeOK
<1>4. Uses(c) = {cache[c]} \ {NULL} /\ Uses(c)' = {}
  BY <1>1, <1>3, IdleIs DEF Uses
<1>5. DOMAIN mem' = DOMAIN mem \ Uses(c)
  <2>1. DOMAIN mem \subseteq Addr /\ NULL \notin Addr
    BY OwnParts DEF MemoryTypeOK, Addr, NULL
  <2> QED
    BY <1>1, <1>4, <2>1, FreedDomain
<1>6. MemoryTypeOK' /\ OthersStay(c) /\ MemoryOf(c)
  BY <1>1, <1>2, <1>3, <1>4, <1>5 DEF OwnInv, MemoryTypeOK, OthersStay, MemoryOf, Addr, Call
<1>7. StageOf(c)'
  BY <1>1, <1>2, <1>3, IdleIs DEF StageOf, LoadSteps
<1> QED
  BY <1>6, <1>7, StepOfOne

-----------------------------------------------------------------------------
(* The theorem.                                                            *)

\* Nothing is in memory at first.
LEMMA OwnInit == Init => OwnInv
<1> SUFFICES ASSUME Init PROVE OwnInv
  OBVIOUS
<1>1. \A c \in Conn : cache[c] = NULL /\ executor[c] = NoExecutor /\ call[c] = Idle /\ Uses(c) = {}
  BY IdleIs DEF Init, Uses
<1>2. MemoryTypeOK /\ DOMAIN mem = {}
  BY IdleIs DEF Init, MemoryTypeOK
<1>3. Stages
  BY <1>1, IdleIs DEF Stages, StageOf, LoadSteps
<1> QED
  BY <1>1, <1>2, <1>3 DEF OwnInv, OneOwner

\* Every step keeps the owners.
LEMMA OwnNext == OwnInv /\ [Next]_vars => OwnInv'
<1> SUFFICES ASSUME OwnInv, [Next]_vars PROVE OwnInv'
  OBVIOUS
<1>1. ASSUME NEW c \in Conn, Change(c) \/ Begin(c) \/ Commit(c) \/ Rollback(c) PROVE OwnInv'
  <2>1. UNCHANGED <<cache, executor, call>>
    BY <1>1 DEF Change, Begin, Commit, Rollback
  <2>2. DOMAIN mem' = DOMAIN mem
    BY <1>1 DEF Change, Begin, Commit, Rollback, Commits
  <2> QED
    BY <2>1, <2>2, StepOfNone
<1>2. ASSUME UNCHANGED vars PROVE OwnInv'
  BY <1>2, StepOfNone DEF vars
<1>3. \/ \E c \in Conn : Change(c) \/ Begin(c) \/ Commit(c) \/ Rollback(c)
      \/ \E c \in Conn, x \in Contexts : Load(c, x) \/ Reload(c, x) \/ Cypher(c, x)
      \/ \E c \in Conn : LoadNames(c) \/ CountEdges(c) \/ FillEdges(c) \/ Answer(c)
                         \/ Unload(c) \/ Close(c)
      \/ UNCHANGED vars
  BY DEF Next
<1> QED
  BY <1>1, <1>2, <1>3, LoadOwn, ReloadOwn, CypherOwn, SelectOwn, FillEdgesOwn, AnswerOwn, LetGoOwn

\* Each graph in memory is that of one connection, which keeps it, is loading
\* it or computes with it, whatever calls are made and whatever fails in them:
\* gql_unload_graph, the end of an algorithm and the close of a connection free
\* it once, and nothing uses it afterwards (extension.c, graph_algorithms.c).
THEOREM OwnsOne == Spec => []OneOwner
<1>1. OwnInv => OneOwner
  BY DEF OwnInv
<1> QED
  BY <1>1, OwnInit, OwnNext, PTL DEF Spec

-----------------------------------------------------------------------------
(* What a load makes of tables that do not change: the rows in order, the  *)
(* hash table, the arrays.                                                 *)

\* Part of a finite set is smaller.
LEMMA PartIsSmaller ==
  ASSUME NEW B, IsFiniteSet(B), NEW A \in SUBSET B, NEW x \in B, x \notin A
  PROVE  /\ IsFiniteSet(A) /\ Cardinality(A) \in Nat /\ Cardinality(B) \in Nat
         /\ Cardinality(A) < Cardinality(B)
<1>1. /\ IsFiniteSet(A) /\ Cardinality(A) <= Cardinality(B)
      /\ Cardinality(B) = Cardinality(A) => B = A
  BY FS_Subset
<1>2. Cardinality(A) \in Nat /\ Cardinality(B) \in Nat
  BY <1>1, FS_CardinalityType
<1> QED
  BY <1>1, <1>2

\* What InOrder says of a set: o is it, the least member first.
Ascending(o, S) ==
  /\ Cardinality(S) \in Nat /\ DOMAIN o = 1 .. Cardinality(S)
  /\ \A i \in DOMAIN o : o[i] \in S /\ Cardinality({y \in S : y <= o[i]}) = i
  /\ \A i, j \in DOMAIN o : i < j => o[i] < o[j]
  /\ \A x \in S : \E i \in DOMAIN o : o[i] = x

\* InOrder lists the members of a set, each once, the least first.
LEMMA InOrderAscends ==
  ASSUME NEW S \in SUBSET Nat, IsFiniteSet(S)
  PROVE  Ascending(InOrder(S), S)
<1> DEFINE n == Cardinality(S)
           UpToIn(x) == {y \in S : y <= x}
           rank == [x \in S |-> Cardinality(UpToIn(x))]
           o == InOrder(S)
<1>1. n \in Nat /\ IsFiniteSet(1 .. n) /\ Cardinality(1 .. n) = n
  BY FS_CardinalityType, FS_Interval
<1>2. \A x \in S : IsFiniteSet(UpToIn(x)) /\ rank[x] \in 1 .. n
  <2> TAKE x \in S
  <2>1. UpToIn(x) \in SUBSET S /\ x \in UpToIn(x)
    OBVIOUS
  <2>2. IsFiniteSet(UpToIn(x)) /\ Cardinality(UpToIn(x)) <= n /\ Cardinality(UpToIn(x)) \in Nat
    BY <2>1, FS_Subset, FS_CardinalityType
  <2>3. Cardinality(UpToIn(x)) # 0
    BY <2>1, <2>2, FS_EmptySet
  <2> QED
    BY <1>1, <2>2, <2>3
<1>3. \A x, z \in S : x < z => rank[x] < rank[z]
  <2> SUFFICES ASSUME NEW x \in S, NEW z \in S, x < z PROVE rank[x] < rank[z]
    OBVIOUS
  <2>1. x \in Nat /\ z \in Nat /\ \A y \in S : y \in Nat
    OBVIOUS
  <2>3. UpToIn(x) \in SUBSET UpToIn(z)
    <3> SUFFICES ASSUME NEW y \in S, y <= x PROVE y <= z
      OBVIOUS
    <3> QED
      BY <2>1
  <2>4. z \in UpToIn(z) /\ z \notin UpToIn(x)
    BY <2>1
  <2>2. Cardinality(UpToIn(x)) < Cardinality(UpToIn(z))
    BY <1>2, <2>3, <2>4, PartIsSmaller
  <2> QED
    BY <2>2
<1>4. rank \in Injection(S, 1 .. n)
  <2>1. rank \in [S -> 1 .. n]
    BY <1>2
  <2>2. \A x, z \in S : rank[x] = rank[z] => x = z
    <3> SUFFICES ASSUME NEW x \in S, NEW z \in S, rank[x] = rank[z], x # z PROVE FALSE
      OBVIOUS
    <3>1. x < z \/ z < x
      OBVIOUS
    <3> HIDE DEF rank
    <3>2. rank[x] \in Nat
      BY <2>1
    <3> QED
      BY <1>3, <3>1, <3>2
  <2> HIDE DEF rank
  <2> QED
    BY <2>1, <2>2 DEF Injection, IsInjective
<1>5. rank \in Surjection(S, 1 .. n)
  <2> HIDE DEF rank
  <2> QED
    BY <1>1, <1>4, FS_Injection
<1>6. \A i \in 1 .. n : \E x \in S : rank[x] = i
  <2> HIDE DEF rank
  <2> QED
    BY <1>5 DEF Surjection
<1>7. DOMAIN o = 1 .. n /\ \A i \in 1 .. n : o[i] = CHOOSE x \in S : Cardinality({y \in S : y <= x}) = i
  BY DEF InOrder
<1>8. \A i \in 1 .. n : o[i] \in S /\ Cardinality({y \in S : y <= o[i]}) = i
  <2> TAKE i \in 1 .. n
  <2>1. \E x \in S : Cardinality({y \in S : y <= x}) = i
    BY <1>6
  <2> HIDE DEF o
  <2> QED
    BY <1>7, <2>1
<1>9. \A i \in 1 .. n : rank[o[i]] = i
  BY <1>8
<1>10. \A i, j \in 1 .. n : i < j => o[i] < o[j]
  <2> SUFFICES ASSUME NEW i \in 1 .. n, NEW j \in 1 .. n, i < j, ~(o[i] < o[j]) PROVE FALSE
    OBVIOUS
  <2>1. o[i] \in Nat /\ o[j] \in Nat
    BY <1>8
  <2>2. o[j] < o[i] \/ o[i] = o[j]
    BY <2>1
  <2>3. rank[o[i]] = i /\ rank[o[j]] = j /\ o[i] \in S /\ o[j] \in S
    BY <1>8, <1>9
  <2>4. i \in Nat /\ j \in Nat
    BY <1>1
  <2> HIDE DEF rank, o
  <2>5. CASE o[i] = o[j]
    BY <2>3, <2>4, <2>5
  <2>6. CASE o[j] < o[i]
    <3>1. rank[o[j]] < rank[o[i]]
      BY <1>3, <2>3, <2>6
    <3> QED
      BY <2>3, <2>4, <3>1
  <2> QED
    BY <2>2, <2>5, <2>6
<1>11. \A x \in S : \E i \in 1 .. n : o[i] = x
  <2> TAKE x \in S
  <2>1. rank[x] \in 1 .. n
    BY <1>2
  <2>2. o[rank[x]] \in S /\ rank[o[rank[x]]] = rank[x]
    BY <1>8, <1>9, <2>1
  <2>3. o[rank[x]] = x
    <3> HIDE DEF rank, o
    <3> QED
      BY <1>4, <2>2 DEF Injection, IsInjective
  <2> QED
    BY <2>1, <2>3
<1> HIDE DEF rank, o
<1> QED
  BY <1>1, <1>7, <1>8, <1>10, <1>11 DEF Ascending, o

\* The numbers from 1 to n are in order.
LEMMA InOrderInterval ==
  ASSUME NEW n \in Nat
  PROVE  InOrder(1 .. n) = [i \in 1 .. n |-> i]
<1> DEFINE o == InOrder(1 .. n)
<1>1. IsFiniteSet(1 .. n) /\ Cardinality(1 .. n) = n
  BY FS_Interval
<1>2. Ascending(o, 1 .. n)
  BY <1>1, InOrderAscends
<1>3. ASSUME NEW i \in 1 .. n PROVE o[i] = i
  <2>1. o[i] \in 1 .. n /\ Cardinality({y \in 1 .. n : y <= o[i]}) = i
    BY <1>1, <1>2, <1>3 DEF Ascending
  <2>2. {y \in 1 .. n : y <= o[i]} = 1 .. o[i]
    BY <2>1
  <2>3. Cardinality(1 .. o[i]) = o[i]
    BY <2>1, FS_Interval
  <2> QED
    BY <2>1, <2>2, <2>3
<1>4. o = [i \in 1 .. Cardinality(1 .. n) |-> CHOOSE x \in 1 .. n : Cardinality({y \in 1 .. n : y <= x}) = i]
  BY DEF InOrder
<1>5. o = [i \in 1 .. n |-> o[i]]
  BY <1>1, <1>4
<1> HIDE DEF o
<1>6. o = [i \in 1 .. n |-> i]
  BY <1>3, <1>5
<1> QED
  BY <1>6 DEF o

\* There is more room in the table than there are nodes.
LEMMA TableSizeIs ==
  ASSUME NEW n \in Nat
  PROVE  TableSize(n) \in Nat /\ n < TableSize(n)
BY LoadAssumption DEF TableSize

\* Probing goes through the whole table.
LEMMA ProbesAll ==
  ASSUME NEW size \in Nat \ {0}, NEW v \in Node
  PROVE  /\ \A k \in 0 .. size - 1 : At(size, v, k) \in 0 .. size - 1
         /\ \A p \in 0 .. size - 1 : \E k \in 0 .. size - 1 : At(size, v, k) = p
<1> DEFINE h == Hash[v] % size
<1>1. h \in 0 .. size - 1
  <2>1. Hash[v] \in Nat
    BY LoadAssumption
  <2> QED
    BY <2>1
<1>2. \A k \in 0 .. size - 1 : At(size, v, k) = IF h + k < size THEN h + k ELSE h + k - size
  <2> TAKE k \in 0 .. size - 1
  <2>1. Hash[v] \in Nat /\ k \in Int /\ size \in Int
    BY LoadAssumption
  <2> QED
    BY <1>1, <2>1 DEF At
<1> HIDE DEF h
<1>3. ASSUME NEW k \in 0 .. size - 1 PROVE At(size, v, k) \in 0 .. size - 1
  BY <1>1, <1>2
<1>4. ASSUME NEW p \in 0 .. size - 1 PROVE \E k \in 0 .. size - 1 : At(size, v, k) = p
  <2>1. CASE h <= p
    <3>1. p - h \in 0 .. size - 1 /\ At(size, v, p - h) = p
      BY <1>1, <1>2, <2>1
    <3> QED
      BY <3>1
  <2>2. CASE p < h
    <3>1. p - h + size \in 0 .. size - 1 /\ At(size, v, p - h + size) = p
      BY <1>1, <1>2, <2>2
    <3> QED
      BY <3>1
  <2> QED
    BY <1>1, <2>1, <2>2
<1> QED
  BY <1>3, <1>4

\* Where probing stops.
LEMMA PlaceIs ==
  ASSUME NEW size \in Nat \ {0}, NEW v \in Node, NEW Stops, NEW p \in 0 .. size - 1, p \in Stops
  PROVE  \E k \in 0 .. size - 1 :
           /\ Place(size, v, Stops) = At(size, v, k) /\ At(size, v, k) \in Stops
           /\ \A l \in 0 .. k - 1 : At(size, v, l) \notin Stops
<1> DEFINE K == {k \in 0 .. size - 1 : At(size, v, k) \in Stops}
           first == Min(K)
<1>1. K \in SUBSET Nat /\ K # {}
  BY ProbesAll
<1>2. first = CHOOSE x \in K : \A y \in K : x <= y
  BY DEF Min
<1>3. \E x \in K : \A y \in K : x <= y
  <2> HIDE DEF K
  <2> QED
    BY <1>1, LeastOf
<1>4. first \in K /\ \A y \in K : first <= y
  <2> HIDE DEF K, first
  <2> QED
    BY <1>2, <1>3
<1>5. Place(size, v, Stops) = At(size, v, first)
  BY DEF Place
<1> HIDE DEF first
<1>6. ASSUME NEW l \in 0 .. first - 1, At(size, v, l) \in Stops PROVE FALSE
  <2>1. first \in 0 .. size - 1
    BY <1>4
  <2>2. l \in K /\ l < first
    BY <1>6, <2>1
  <2> QED
    BY <1>4, <2>1, <2>2
<1> QED
  BY <1>4, <1>5, <1>6

\* Probing for v comes to i before it comes to a free place.
Reaches(t, size, v, i) ==
  \E k \in 0 .. size - 1 :
    t[At(size, v, k)] = i /\ \A l \in 0 .. k - 1 : t[At(size, v, l)] # 0

\* The table with the first n nodes.
Holds(t, ids, size, n) ==
  /\ t \in [0 .. size - 1 -> 0 .. n]
  /\ \A i \in 1 .. n : Reaches(t, size, ids[i], i)
  /\ IsFiniteSet({p \in 0 .. size - 1 : t[p] # 0}) /\ Cardinality({p \in 0 .. size - 1 : t[p] # 0}) <= n

\* A node put at the first free place is found there, and those before it still are.
LEMMA InsertedHolds ==
  ASSUME NEW ids \in Seq(Node), NEW size \in Nat, Len(ids) < size, NEW n \in 0 .. Len(ids) - 1,
         NEW t, Holds(t, ids, size, n)
  PROVE  Holds(Inserted(t, ids[n + 1], n + 1), ids, size, n + 1)
<1> DEFINE v == ids[n + 1]
           Free == {p \in 0 .. size - 1 : t[p] = 0}
           Full == {p \in 0 .. size - 1 : t[p] # 0}
           q == Place(size, v, Free)
           u == [t EXCEPT ![q] = n + 1]
<1>1. size \in Nat \ {0} /\ v \in Node /\ n \in Nat /\ n < size /\ Len(ids) \in Nat
  <2>1. n + 1 \in 1 .. Len(ids) /\ Len(ids) \in Nat
    OBVIOUS
  <2> QED
    BY <2>1, ElementOfSeq
<1>2. t \in [0 .. size - 1 -> 0 .. n] /\ DOMAIN t = 0 .. size - 1
      /\ IsFiniteSet(0 .. size - 1) /\ Cardinality(0 .. size - 1) = size
  <2>1. t \in [0 .. size - 1 -> 0 .. n]
    BY DEF Holds
  <2>2. IsFiniteSet(0 .. size - 1) /\ Cardinality(0 .. size - 1) = size
    BY ONLY size \in Nat, FS_Interval
  <2> QED
    BY <2>1, <2>2
<1>3. Inserted(t, v, n + 1) = u
  BY <1>2 DEF Inserted
<1>4. IsFiniteSet(Full) /\ Cardinality(Full) <= n /\ Cardinality(Full) \in Nat
  BY FS_CardinalityType DEF Holds
<1>5. PICK p \in 0 .. size - 1 : p \in Free
  <2> SUFFICES ASSUME \A p \in 0 .. size - 1 : t[p] # 0 PROVE FALSE
    OBVIOUS
  <2>1. Full = 0 .. size - 1
    OBVIOUS
  <2>2. Cardinality(Full) = size
    BY <1>2, <2>1
  <2> HIDE DEF Full
  <2> QED
    BY <1>1, <1>4, <2>2
<1>6. PICK k \in 0 .. size - 1 :
        q = At(size, v, k) /\ q \in Free /\ \A l \in 0 .. k - 1 : At(size, v, l) \notin Free
  <2> HIDE DEF Free, v
  <2>1. \E j \in 0 .. size - 1 :
          /\ Place(size, v, Free) = At(size, v, j) /\ At(size, v, j) \in Free
          /\ \A l \in 0 .. j - 1 : At(size, v, l) \notin Free
    BY <1>1, <1>5, PlaceIs
  <2> QED
    BY <2>1
<1>7. q \in 0 .. size - 1 /\ t[q] = 0
  BY <1>6
<1> HIDE DEF q
<1>8. u \in [0 .. size - 1 -> 0 .. n + 1] /\ u[q] = n + 1
      /\ \A p1 \in 0 .. size - 1 : p1 # q => u[p1] = t[p1]
  BY <1>1, <1>2, <1>7
<1>9. \A p1 \in 0 .. size - 1 : t[p1] # 0 => u[p1] = t[p1]
  BY <1>7, <1>8
<1> HIDE DEF u
<1>10. ASSUME NEW i \in 1 .. n + 1 PROVE Reaches(u, size, ids[i], i)
  <2>1. CASE i = n + 1
    <3>1. \A l \in 0 .. k - 1 : u[At(size, v, l)] # 0
      <4> TAKE l \in 0 .. k - 1
      <4>1. l \in 0 .. size - 1
        BY <1>1
      <4>2. At(size, v, l) \in 0 .. size - 1
        BY <1>1, <4>1, ProbesAll
      <4> QED
        BY <1>6, <1>9, <4>2
    <3> QED
      BY <1>6, <1>8, <2>1, <3>1 DEF Reaches
  <2>2. CASE i \in 1 .. n
    <3> DEFINE w == ids[i]
    <3>1. w \in Node
      <4>1. i \in 1 .. Len(ids)
        BY <1>1, <2>2
      <4> QED
        BY <4>1, ElementOfSeq
    <3>2. PICK j \in 0 .. size - 1 :
            t[At(size, w, j)] = i /\ \A l \in 0 .. j - 1 : t[At(size, w, l)] # 0
      BY <2>2 DEF Holds, Reaches
    <3>3. \A l \in 0 .. size - 1 : At(size, w, l) \in 0 .. size - 1
      BY <1>1, <3>1, ProbesAll
    <3> HIDE DEF w
    <3>4. u[At(size, w, j)] = i
      <4>1. At(size, w, j) \in 0 .. size - 1
        BY <3>3
      <4>2. i # 0
        BY <1>1
      <4> QED
        BY <1>9, <3>2, <4>1, <4>2
    <3>5. \A l \in 0 .. j - 1 : u[At(size, w, l)] # 0
      <4> TAKE l \in 0 .. j - 1
      <4>1. l \in 0 .. size - 1
        BY <1>1
      <4> QED
        BY <1>9, <3>2, <3>3, <4>1
    <3>6. Reaches(u, size, w, i)
      BY <3>4, <3>5 DEF Reaches
    <3> QED
      BY <3>6 DEF w
  <2> QED
    BY <1>1, <2>1, <2>2
<1>11. {p1 \in 0 .. size - 1 : u[p1] # 0} = Full \cup {q}
  BY <1>1, <1>7, <1>8
<1>12. IsFiniteSet(Full \cup {q}) /\ Cardinality(Full \cup {q}) <= n + 1
  <2> HIDE DEF Full
  <2>1. /\ IsFiniteSet(Full \cup {q})
        /\ Cardinality(Full \cup {q}) = IF q \in Full THEN Cardinality(Full) ELSE Cardinality(Full) + 1
    BY <1>4, FS_AddElement
  <2> QED
    BY <1>1, <1>4, <2>1
<1>13. Holds(u, ids, size, n + 1)
  <2> HIDE DEF Full
  <2> QED
    BY <1>8, <1>10, <1>11, <1>12 DEF Holds
<1> QED
  BY <1>3, <1>13

\* The tables after 0, 1, ... m nodes.
Tabled(ids, m, f) ==
  f = [n \in 0 .. m |-> IF n = 0 THEN [p \in 0 .. TableSize(Len(ids)) - 1 |-> 0]
                        ELSE Inserted(f[n - 1], ids[n], n)]

\* There are such tables.
LEMMA TabledExists ==
  ASSUME NEW ids, NEW n \in Nat
  PROVE  \E f : Tabled(ids, n, f)
<1> DEFINE Bad == {m \in Nat : ~ \E f : Tabled(ids, m, f)}
           none == [p \in 0 .. TableSize(Len(ids)) - 1 |-> 0]
<1>1. SUFFICES ASSUME Bad # {} PROVE FALSE
  OBVIOUS
<1>2. PICK m \in Bad : \A k \in Bad : m <= k
  <2>1. Bad \in SUBSET Nat
    OBVIOUS
  <2> HIDE DEF Bad
  <2> QED
    BY <1>1, <2>1, LeastOf
<1>3. CASE m = 0
  <2> DEFINE f == [k \in 0 .. 0 |-> none]
  <2>1. Tabled(ids, 0, f)
    BY DEF Tabled
  <2> QED
    BY <1>2, <1>3, <2>1
<1>4. CASE m # 0
  <2>1. m - 1 \in Nat /\ m - 1 \notin Bad
    BY <1>2, <1>4
  <2>2. PICK f : Tabled(ids, m - 1, f)
    BY <2>1
  <2> DEFINE x == Inserted(f[m - 1], ids[m], m)
             g == [k \in 0 .. m |-> IF k = m THEN x ELSE f[k]]
  <2> HIDE DEF none
  <2>3. \A k \in 0 .. m : g[k] = IF k = 0 THEN none ELSE Inserted(g[k - 1], ids[k], k)
    <3> TAKE k \in 0 .. m
    <3>1. k \in Nat /\ m \in Nat /\ k <= m
      BY <1>2
    <3>2. CASE k = m
      <4>1. k - 1 \in 0 .. m /\ k - 1 # m /\ k # 0
        BY <1>4, <3>1, <3>2
      <4>2. g[k] = x /\ g[k - 1] = f[m - 1]
        BY <3>2, <4>1
      <4> QED
        BY <3>2, <4>1, <4>2
    <3>3. CASE k # m
      <4>1. k \in 0 .. m - 1 /\ g[k] = f[k]
        BY <3>1, <3>3
      <4>2. f[k] = IF k = 0 THEN none ELSE Inserted(f[k - 1], ids[k], k)
        BY <2>2, <4>1 DEF Tabled, none
      <4>3. k # 0 => k - 1 \in 0 .. m /\ k - 1 # m
        BY <3>1
      <4>4. k # 0 => g[k - 1] = f[k - 1]
        BY <4>3
      <4> QED
        BY <4>1, <4>2, <4>4
    <3> QED
      BY <3>2, <3>3
  <2>4. g = [k \in 0 .. m |-> g[k]]
    OBVIOUS
  <2> HIDE DEF g, x
  <2>5. Tabled(ids, m, g)
    BY <2>3, <2>4 DEF Tabled, none
  <2> QED
    BY <1>2, <2>5
<1> QED
  BY <1>3, <1>4

\* The hash table holds every node.
LEMMA HashTableHolds ==
  ASSUME NEW ids \in Seq(Node)
  PROVE  Holds(HashTable(ids), ids, TableSize(Len(ids)), Len(ids))
<1> DEFINE z == Len(ids)
           size == TableSize(z)
           f == CHOOSE f : f = [n \in 0 .. z |-> IF n = 0 THEN [p \in 0 .. TableSize(z) - 1 |-> 0]
                                                 ELSE Inserted(f[n - 1], ids[n], n)]
           Bad == {n \in 0 .. z : ~Holds(f[n], ids, size, n)}
<1>1. z \in Nat /\ size \in Nat /\ z < size
  BY LenProperties, TableSizeIs
<1>2. Tabled(ids, z, f)
  BY <1>1, TabledExists DEF Tabled
<1>3. HashTable(ids) = f[z]
  BY DEF HashTable
<1> HIDE DEF f
<1>4. SUFFICES ASSUME Bad # {} PROVE FALSE
  BY <1>1, <1>3
<1>5. PICK n \in Bad : \A k \in Bad : n <= k
  <2>1. Bad \in SUBSET Nat
    BY <1>1
  <2> HIDE DEF Bad
  <2> QED
    BY <1>4, <2>1, LeastOf
<1>6. n \in 0 .. z /\ n \in Nat
  BY <1>1, <1>5
<1>7. f[n] = IF n = 0 THEN [p \in 0 .. size - 1 |-> 0] ELSE Inserted(f[n - 1], ids[n], n)
  BY <1>2, <1>6 DEF Tabled
<1>8. CASE n = 0
  <2> DEFINE none == [p \in 0 .. size - 1 |-> 0]
  <2>1. none \in [0 .. size - 1 -> 0 .. 0] /\ {p \in 0 .. size - 1 : none[p] # 0} = {}
    OBVIOUS
  <2>2. f[n] = none
    BY <1>7, <1>8
  <2> HIDE DEF none
  <2>3. Holds(none, ids, size, 0)
    <3>1. IsFiniteSet({}) /\ Cardinality({}) <= 0
      BY FS_EmptySet
    <3>2. \A i \in 1 .. 0 : Reaches(none, size, ids[i], i)
      OBVIOUS
    <3> QED
      BY <2>1, <3>1, <3>2 DEF Holds
  <2> QED
    BY <1>5, <1>8, <2>2, <2>3
<1>9. CASE n # 0
  <2>1. n - 1 \in 0 .. z /\ ~(n <= n - 1) /\ n - 1 \in 0 .. z - 1 /\ (n - 1) + 1 = n
    BY <1>1, <1>6, <1>9
  <2>2. Holds(f[n - 1], ids, size, n - 1)
    BY <1>5, <2>1
  <2>3. Holds(Inserted(f[n - 1], ids[(n - 1) + 1], (n - 1) + 1), ids, size, (n - 1) + 1)
    <3> HIDE DEF size
    <3> QED
      BY <1>1, <2>1, <2>2, InsertedHolds
  <2>4. f[n] = Inserted(f[n - 1], ids[n], n)
    BY <1>7, <1>9
  <2> QED
    BY <1>5, <2>1, <2>3, <2>4
<1> QED
  BY <1>8, <1>9

\* Each node is found at its index.
LEMMA FindIs ==
  ASSUME NEW ids \in Seq(Node), \A i, j \in 1 .. Len(ids) : ids[i] = ids[j] => i = j,
         NEW g, g.ids = ids, g.idx = HashTable(ids), NEW i \in 1 .. Len(ids)
  PROVE  Find(g, ids[i]) = i
<1> DEFINE n == Len(ids)
           size == TableSize(n)
           t == g.idx
           v == ids[i]
           Stops == {p \in DOMAIN t : t[p] = 0 \/ ids[t[p]] = v}
<1>1. n \in Nat /\ size \in Nat \ {0} /\ i # 0 /\ v \in Node
  <2>1. n \in Nat /\ i # 0
    BY LenProperties
  <2> QED
    BY <2>1, TableSizeIs, ElementOfSeq
<1>2. /\ t \in [0 .. size - 1 -> 0 .. n] /\ DOMAIN t = 0 .. size - 1
      /\ Reaches(t, size, v, i)
  <2>1. Holds(t, ids, size, n)
    BY HashTableHolds
  <2>2. t \in [0 .. size - 1 -> 0 .. n] /\ \A j \in 1 .. n : Reaches(t, size, ids[j], j)
    <3> HIDE DEF t, size, n
    <3> QED
      BY <2>1 DEF Holds
  <2> QED
    BY <2>2
<1>3. Cardinality(DOMAIN t) = size
  BY <1>1, <1>2, FS_Interval
<1>4. Find(g, v) = t[Place(size, v, Stops)]
  BY <1>3 DEF Find
<1> HIDE DEF size, v
<1>5. PICK k \in 0 .. size - 1 : t[At(size, v, k)] = i /\ \A l \in 0 .. k - 1 : t[At(size, v, l)] # 0
  BY <1>2 DEF Reaches
<1>6. \A l \in 0 .. size - 1 : At(size, v, l) \in 0 .. size - 1
  BY <1>1, ProbesAll
<1>7. At(size, v, k) \in 0 .. size - 1 /\ At(size, v, k) \in Stops
  BY <1>2, <1>5, <1>6 DEF v
<1> HIDE DEF Stops
<1>8. PICK j \in 0 .. size - 1 :
        /\ Place(size, v, Stops) = At(size, v, j) /\ At(size, v, j) \in Stops
        /\ \A l \in 0 .. j - 1 : At(size, v, l) \notin Stops
  BY <1>1, <1>7, PlaceIs
<1>9. j = k \/ j \in 0 .. k - 1
  <2>1. ~(k \in 0 .. j - 1)
    BY <1>7, <1>8
  <2> QED
    BY <1>1, <2>1
<1>10. t[At(size, v, j)] # 0
  BY <1>1, <1>5, <1>9
<1>11. t[At(size, v, j)] \in 1 .. n
  <2>1. At(size, v, j) \in 0 .. size - 1
    BY <1>6
  <2>2. t[At(size, v, j)] \in 0 .. n
    BY <1>2, <2>1
  <2> QED
    BY <1>1, <1>10, <2>2
<1>12. ids[t[At(size, v, j)]] = v
  BY <1>8, <1>10 DEF Stops
<1>13. t[At(size, v, j)] = i
  BY <1>11, <1>12 DEF v
<1> QED
  BY <1>4, <1>8, <1>13 DEF v

\* Edges by the index of the node they are stored for: F[k] is that of row k.
\* How many rows are put before row k.
Below(F, i) == {j \in DOMAIN F : F[j] <= i}
SameBefore(F, k) == {j \in 1 .. k - 1 : F[j] = F[k]}
Position(F, k) == Cardinality(Below(F, F[k] - 1)) + Cardinality(SameBefore(F, k))
Before(F, k) == {j \in DOMAIN F : F[j] < F[k] \/ (F[j] = F[k] /\ j < k)}

\* The places of a row are those of the rows of smaller nodes and of its own before it.
LEMMA PositionIs ==
  ASSUME NEW m \in Nat, NEW n \in Nat, NEW F \in [1 .. m -> 1 .. n], NEW k \in 1 .. m
  PROVE  /\ IsFiniteSet(Before(F, k)) /\ Position(F, k) = Cardinality(Before(F, k))
         /\ Position(F, k) \in 0 .. m - 1
         /\ IsFiniteSet(Below(F, F[k] - 1)) /\ Cardinality(Below(F, F[k] - 1)) \in Nat
         /\ IsFiniteSet(SameBefore(F, k)) /\ Cardinality(SameBefore(F, k)) \in Nat
<1> DEFINE A == Below(F, F[k] - 1)
           B == SameBefore(F, k)
           C == Before(F, k)
<1>1. IsFiniteSet(1 .. m) /\ Cardinality(1 .. m) = m
  BY FS_Interval
<1>2. F[k] \in Int /\ \A j \in 1 .. m : F[j] \in Int
  OBVIOUS
<1>3. A \subseteq 1 .. m /\ B \subseteq 1 .. m /\ C \subseteq 1 .. m /\ k \notin C
  BY <1>2 DEF Below, SameBefore, Before
<1>4. A \cup B = C
  BY <1>2 DEF Below, SameBefore, Before
<1>5. A \cap B = {}
  BY <1>2 DEF Below, SameBefore
<1> HIDE DEF A, B, C
<1>6. /\ IsFiniteSet(A) /\ Cardinality(A) \in Nat /\ IsFiniteSet(B) /\ Cardinality(B) \in Nat
      /\ IsFiniteSet(C)
  BY <1>1, <1>3, FS_Subset, FS_CardinalityType
<1>7. Cardinality(C) = Cardinality(A) + Cardinality(B)
  <2>1. Cardinality(A \cup B) = Cardinality(A) + Cardinality(B) - Cardinality(A \cap B)
    BY <1>6, FS_Union
  <2>2. Cardinality(A \cap B) = 0
    BY <1>5, FS_EmptySet
  <2> QED
    <3>1. Cardinality(A \cup B) = Cardinality(C)
      BY ONLY <1>4, Zenon
    <3> QED
      BY <1>6, <2>1, <2>2, <3>1
<1>8. Cardinality(C) < m /\ Cardinality(C) \in Nat
  BY <1>1, <1>3, PartIsSmaller
<1>9. Position(F, k) = Cardinality(A) + Cardinality(B)
  BY DEF Position, A, B
<1>10. Position(F, k) = Cardinality(C) /\ Position(F, k) \in 0 .. m - 1
  BY <1>7, <1>8, <1>9
<1> QED
  BY <1>6, <1>10 DEF A, B, C

\* Every place is that of one row.
LEMMA PositionsAll ==
  ASSUME NEW m \in Nat, NEW n \in Nat, NEW F \in [1 .. m -> 1 .. n]
  PROVE  /\ \A k, l \in 1 .. m : Position(F, k) = Position(F, l) => k = l
         /\ \A p \in 0 .. m - 1 : \E k \in 1 .. m : Position(F, k) = p
<1> DEFINE P == [k \in 1 .. m |-> Position(F, k)]
           Earlier(k, l) == F[k] < F[l] \/ (F[k] = F[l] /\ k < l)
<1>1. P \in [1 .. m -> 0 .. m - 1]
  BY PositionIs
<1>2. \A k, l \in 1 .. m : Earlier(k, l) => Position(F, k) # Position(F, l)
  <2> SUFFICES ASSUME NEW k \in 1 .. m, NEW l \in 1 .. m, Earlier(k, l)
               PROVE  Position(F, k) # Position(F, l)
    OBVIOUS
  <2>1. F[k] \in Int /\ F[l] \in Int /\ \A j \in 1 .. m : F[j] \in Int
    OBVIOUS
  <2>2. Before(F, k) \in SUBSET Before(F, l)
    BY <2>1 DEF Before
  <2>3. k \in Before(F, l) /\ k \notin Before(F, k)
    BY <2>1 DEF Before
  <2>4. /\ Cardinality(Before(F, k)) < Cardinality(Before(F, l))
        /\ Cardinality(Before(F, k)) \in Nat /\ Cardinality(Before(F, l)) \in Nat
    BY <2>2, <2>3, PositionIs, PartIsSmaller
  <2> QED
    <3>1. Position(F, k) = Cardinality(Before(F, k)) /\ Position(F, l) = Cardinality(Before(F, l))
      BY PositionIs
    <3> QED
      BY <2>4, <3>1
<1>3. \A k, l \in 1 .. m : k = l \/ Earlier(k, l) \/ Earlier(l, k)
  <2> TAKE k, l \in 1 .. m
  <2>1. F[k] \in Int /\ F[l] \in Int /\ k \in Int /\ l \in Int
    OBVIOUS
  <2> QED
    BY <2>1
<1>4. \A k, l \in 1 .. m : Position(F, k) = Position(F, l) => k = l
  <2> HIDE DEF Earlier
  <2> QED
    BY <1>2, <1>3
<1>5. P \in Injection(1 .. m, 0 .. m - 1)
  <2>1. \A k, l \in 1 .. m : P[k] = P[l] => k = l
    BY <1>4
  <2> HIDE DEF P
  <2> QED
    BY <1>1, <2>1 DEF Injection, IsInjective
<1>6. P \in Surjection(1 .. m, 0 .. m - 1)
  <2>1. IsFiniteSet(0 .. m - 1) /\ Cardinality(0 .. m - 1) = m /\ Cardinality(1 .. m) = m
    <3>1. /\ IsFiniteSet(0 .. m - 1)
          /\ Cardinality(0 .. m - 1) = IF 0 > m - 1 THEN 0 ELSE (m - 1) - 0 + 1
      <4>1. 0 \in Int /\ m - 1 \in Int
        OBVIOUS
      <4> QED
        BY ONLY <4>1, FS_Interval
    <3>2. Cardinality(1 .. m) = m
      BY FS_Interval
    <3> QED
      BY <3>1, <3>2
  <2> HIDE DEF P
  <2> QED
    BY <1>5, <2>1, FS_Injection
<1>7. \A p \in 0 .. m - 1 : \E k \in 1 .. m : P[k] = p
  <2> HIDE DEF P
  <2> QED
    BY <1>6 DEF Surjection
<1> QED
  BY <1>4, <1>7

\* The rows of one node are put one after the other.
RowsOf(F, i) == {k \in DOMAIN F : F[k] = i}

\* The rows of one node have places next to each other, in their order.
LEMMA PositionOfKth ==
  ASSUME NEW m \in Nat, NEW n \in Nat, NEW F \in [1 .. m -> 1 .. n], NEW i \in 1 .. n
  PROVE  /\ IsFiniteSet(RowsOf(F, i)) /\ Ascending(InOrder(RowsOf(F, i)), RowsOf(F, i))
         /\ Cardinality(Below(F, i - 1)) \in Nat
         /\ Cardinality(Below(F, i)) = Cardinality(Below(F, i - 1)) + Cardinality(RowsOf(F, i))
         /\ \A p \in 1 .. Cardinality(RowsOf(F, i)) :
              Position(F, InOrder(RowsOf(F, i))[p]) = Cardinality(Below(F, i - 1)) + p - 1
<1> DEFINE K == RowsOf(F, i)
<1>1. IsFiniteSet(1 .. m) /\ \A j \in 1 .. m : F[j] \in Int
  BY FS_Interval
<1>7. K = {k \in 1 .. m : F[k] = i}
  BY DEF RowsOf
<1> HIDE DEF K
<1>2. K \subseteq 1 .. m /\ Below(F, i - 1) \subseteq 1 .. m
  BY <1>7 DEF Below
<1>3. /\ IsFiniteSet(K) /\ Cardinality(K) \in Nat
      /\ IsFiniteSet(Below(F, i - 1)) /\ Cardinality(Below(F, i - 1)) \in Nat
  BY <1>1, <1>2, FS_Subset, FS_CardinalityType
<1>4. Ascending(InOrder(K), K)
  <2>1. K \in SUBSET Nat
    BY <1>2
  <2> QED
    BY <1>3, <2>1, InOrderAscends
<1>5. Cardinality(Below(F, i)) = Cardinality(Below(F, i - 1)) + Cardinality(K)
  <2>1. Below(F, i) = Below(F, i - 1) \cup K /\ Below(F, i - 1) \cap K = {}
    BY <1>1, <1>7 DEF Below
  <2>2. Cardinality(Below(F, i)) =
          Cardinality(Below(F, i - 1)) + Cardinality(K) - Cardinality(Below(F, i - 1) \cap K)
    BY <1>3, <2>1, FS_Union
  <2>3. Cardinality(Below(F, i - 1) \cap K) = 0
    BY <2>1, FS_EmptySet
  <2> QED
    BY <1>3, <2>2, <2>3
<1>6. ASSUME NEW p \in 1 .. Cardinality(K)
      PROVE  Position(F, InOrder(K)[p]) = Cardinality(Below(F, i - 1)) + p - 1
  <2> DEFINE k == InOrder(K)[p]
             Here == {y \in K : y <= k}
  <2>1. k \in K /\ Cardinality(Here) = p
    BY <1>4 DEF Ascending
  <2>2. k \in 1 .. m /\ F[k] = i
    BY <1>7, <2>1
  <2> HIDE DEF k
  <2>3. SameBefore(F, k) = Here \ {k} /\ k \in Here
    BY <1>7, <2>1, <2>2 DEF SameBefore
  <2>4. IsFiniteSet(Here)
    BY <1>3, FS_Subset
  <2>5. Cardinality(SameBefore(F, k)) = p - 1
    <3> HIDE DEF Here
    <3> QED
      BY <2>1, <2>3, <2>4, FS_RemoveElement
  <2>6. Position(F, k) = Cardinality(Below(F, i - 1)) + (p - 1)
    BY <2>2, <2>5 DEF Position
  <2> QED
    BY <1>3, <2>6 DEF k
<1> QED
  BY <1>3, <1>4, <1>5, <1>6 DEF K

\* Tables whose edges have their ends.
Sound(s) ==
  s \in Tables /\ \A e \in DOMAIN s.edges : {s.edges[e][1], s.edges[e][2]} \subseteq DOMAIN s.nodes

\* The rows of the nodes, each node once, and of the edges.
LEMMA NodeRowsAre ==
  ASSUME NEW s, Sound(s)
  PROVE  /\ NodeRows(s) \in Seq(Node) /\ Len(NodeRows(s)) \in Nat
         /\ DOMAIN NodeRows(s) = 1 .. Len(NodeRows(s))
         /\ \A i \in 1 .. Len(NodeRows(s)) : NodeRows(s)[i] \in DOMAIN s.nodes
         /\ \A i, j \in 1 .. Len(NodeRows(s)) : NodeRows(s)[i] = NodeRows(s)[j] => i = j
         /\ \A v \in DOMAIN s.nodes : \E i \in 1 .. Len(NodeRows(s)) : NodeRows(s)[i] = v
<1> DEFINE N == DOMAIN s.nodes
           o == InOrder(N)
           n == Cardinality(N)
<1>1. N \subseteq Node
  BY DEF Sound, Tables
<1>2. IsFiniteSet(N) /\ N \in SUBSET Nat
  BY <1>1, LoadAssumption, FS_Subset
<1>3. Ascending(o, N)
  BY <1>2, InOrderAscends
<1>4. NodeRows(s) = o
  BY DEF NodeRows
<1>5. o = [i \in 1 .. n |-> o[i]] /\ n \in Nat /\ DOMAIN o = 1 .. n
  BY <1>3 DEF InOrder, Ascending
<1> HIDE DEF o, n, N
<1>6. \A i \in 1 .. n : o[i] \in N /\ o[i] \in Node
  BY <1>1, <1>3, <1>5 DEF Ascending
<1>7. o \in Seq(Node) /\ Len(o) = n
  BY <1>5, <1>6
<1>8. \A i, j \in 1 .. n : o[i] = o[j] => i = j
  <2> SUFFICES ASSUME NEW i \in 1 .. n, NEW j \in 1 .. n, o[i] = o[j], i # j PROVE FALSE
    OBVIOUS
  <2>1. i < j \/ j < i
    BY <1>5
  <2>2. o[i] \in Nat /\ o[j] \in Nat
    BY <1>6, LoadAssumption
  <2> QED
    BY <1>3, <1>5, <2>1, <2>2 DEF Ascending
<1>9. \A v \in N : \E i \in 1 .. n : o[i] = v
  BY <1>3, <1>5 DEF Ascending
<1> QED
  BY <1>4, <1>5, <1>6, <1>7, <1>8, <1>9 DEF N

\* The rows of the edges, whose ends are nodes.
LEMMA EdgeRowsAre ==
  ASSUME NEW s, Sound(s)
  PROVE  \E m \in Nat :
           /\ DOMAIN EdgeRows(s) = 1 .. m
           /\ \A k \in 1 .. m : EdgeRows(s)[k][1] \in DOMAIN s.nodes /\ EdgeRows(s)[k][2] \in DOMAIN s.nodes
<1> DEFINE E == DOMAIN s.edges
           o == InOrder(E)
<1>1. E \subseteq Edge
  BY DEF Sound, Tables
<1>2. IsFiniteSet(E) /\ E \in SUBSET Nat
  BY <1>1, LoadAssumption, FS_Subset
<1>3. Ascending(o, E)
  BY <1>2, InOrderAscends
<1>4. EdgeRows(s) = [i \in DOMAIN o |-> s.edges[o[i]]]
  BY DEF EdgeRows, Pick
<1> HIDE DEF o
<1>5. /\ Cardinality(E) \in Nat /\ DOMAIN o = 1 .. Cardinality(E)
      /\ \A i \in DOMAIN o : o[i] \in E
  BY <1>3 DEF Ascending
<1>6. DOMAIN EdgeRows(s) = 1 .. Cardinality(E)
  BY <1>4, <1>5
<1>7. \A k \in 1 .. Cardinality(E) :
        EdgeRows(s)[k][1] \in DOMAIN s.nodes /\ EdgeRows(s)[k][2] \in DOMAIN s.nodes
  BY <1>4, <1>5 DEF Sound
<1> QED
  BY <1>5, <1>6, <1>7

-----------------------------------------------------------------------------
(* The csr_graph after each SELECT, if all of them read the tables s.      *)

Started(s) == [WithNodes(NodeRows(s)) EXCEPT !.of = {s}]
Named(s)   == WithNames(Started(s), s)
Counted(s) == WithCounts(Named(s), EdgeRows(s))
Loaded(s)  == WithEdges(Counted(s), EdgeRows(s))

Fields == DOMAIN NoGraph

\* What the later SELECTs leave as it is.
LEMMA GraphFields ==
  ASSUME NEW s, NEW g \in {Started(s), Named(s), Counted(s), Loaded(s)}
  PROVE  DOMAIN g = Fields /\ g.ids = NodeRows(s) /\ g.idx = HashTable(NodeRows(s)) /\ g.of = {s}
<1>1. {"ids", "idx", "names", "count", "ptr", "col", "beyond", "of"} = Fields
  BY DEF Fields, NoGraph
<1> DEFINE Keeps(a, b) == DOMAIN b = DOMAIN a /\ b.ids = a.ids /\ b.idx = a.idx /\ b.of = a.of
<1>2. /\ DOMAIN Started(s) = Fields /\ Started(s).ids = NodeRows(s)
      /\ Started(s).idx = HashTable(NodeRows(s)) /\ Started(s).of = {s}
  BY <1>1 DEF Started, WithNodes, Fields
<1>3. Keeps(Started(s), Named(s))
  BY <1>1, <1>2 DEF Named, WithNames
<1>4. Keeps(Named(s), Counted(s))
  BY <1>1, <1>2, <1>3 DEF Counted, WithCounts
<1>5. Keeps(Counted(s), Loaded(s))
  BY <1>1, <1>2, <1>3, <1>4 DEF Loaded, WithEdges
<1> QED
  BY <1>2, <1>3, <1>4, <1>5

\* The indices of the ends of each row.
Ends(s) == [k \in DOMAIN EdgeRows(s) |->
              <<Find(Started(s), EdgeRows(s)[k][1]), Find(Started(s), EdgeRows(s)[k][2])>>]

\* Every node of the tables is found, by each SELECT.
LEMMA FindsNodes ==
  ASSUME NEW s, Sound(s), NEW g \in {Started(s), Named(s), Counted(s), Loaded(s)},
         NEW v \in DOMAIN s.nodes
  PROVE  /\ Find(g, v) \in 1 .. Len(NodeRows(s)) /\ NodeRows(s)[Find(g, v)] = v
         /\ Find(g, v) = Find(Started(s), v)
<1> DEFINE ids == NodeRows(s)
<1>1. PICK i \in 1 .. Len(ids) : ids[i] = v
  BY NodeRowsAre
<1>2. \A h \in {g, Started(s)} : Find(h, ids[i]) = i
  <2> TAKE h \in {g, Started(s)}
  <2>1. h.ids = ids /\ h.idx = HashTable(ids)
    BY GraphFields
  <2>2. ids \in Seq(Node) /\ \A j, k \in 1 .. Len(ids) : ids[j] = ids[k] => j = k
    BY NodeRowsAre
  <2> HIDE DEF ids
  <2> QED
    BY <2>1, <2>2, FindIs
<1> QED
  BY <1>1, <1>2

\* Every end has the index of its node, in each SELECT.
LEMMA EndsAre ==
  ASSUME NEW s, Sound(s)
  PROVE  \E m \in Nat :
           /\ DOMAIN EdgeRows(s) = 1 .. m /\ Ends(s) \in Seq(Nat \X Nat) /\ Len(Ends(s)) = m
           /\ \A k \in 1 .. m, x \in {1, 2} :
                Ends(s)[k][x] \in 1 .. Len(NodeRows(s)) /\ NodeRows(s)[Ends(s)[k][x]] = EdgeRows(s)[k][x]
           /\ \A g \in {Named(s), Counted(s)} : IndexPairs(g, EdgeRows(s)) = Ends(s)
<1> DEFINE rows == EdgeRows(s)
           n == Len(NodeRows(s))
<1>1. PICK m \in Nat :
        /\ DOMAIN rows = 1 .. m
        /\ \A k \in 1 .. m : rows[k][1] \in DOMAIN s.nodes /\ rows[k][2] \in DOMAIN s.nodes
  BY EdgeRowsAre
<1>2. n \in Nat
  BY NodeRowsAre
<1> HIDE DEF rows
<1>3. Ends(s) = [k \in 1 .. m |-> <<Find(Started(s), rows[k][1]), Find(Started(s), rows[k][2])>>]
  BY <1>1 DEF Ends, rows
<1>4. \A k \in 1 .. m, x \in {1, 2} :
        Ends(s)[k][x] \in 1 .. n /\ NodeRows(s)[Ends(s)[k][x]] = rows[k][x]
  <2> TAKE k \in 1 .. m, x \in {1, 2}
  <2>1. Ends(s)[k][x] = Find(Started(s), rows[k][x]) /\ rows[k][x] \in DOMAIN s.nodes
    BY <1>1, <1>3
  <2> QED
    BY <2>1, FindsNodes
<1>5. Ends(s) \in Seq(Nat \X Nat) /\ Len(Ends(s)) = m
  <2>1. \A k \in 1 .. m : <<Find(Started(s), rows[k][1]), Find(Started(s), rows[k][2])>> \in Nat \X Nat
    <3> TAKE k \in 1 .. m
    <3>1. Find(Started(s), rows[k][1]) \in 1 .. n /\ Find(Started(s), rows[k][2]) \in 1 .. n
      BY <1>1, FindsNodes
    <3> HIDE DEF n
    <3> QED
      BY <1>2, <3>1
  <2> QED
    BY <1>3, <2>1
<1>6. ASSUME NEW g \in {Named(s), Counted(s)} PROVE IndexPairs(g, rows) = Ends(s)
  <2> DEFINE pairs == [k \in DOMAIN rows |-> <<Find(g, rows[k][1]), Find(g, rows[k][2])>>]
             S == {k \in DOMAIN rows : pairs[k][1] # 0 /\ pairs[k][2] # 0}
  <2>1. \A k \in 1 .. m :
          /\ Find(g, rows[k][1]) = Find(Started(s), rows[k][1]) /\ Find(g, rows[k][1]) # 0
          /\ Find(g, rows[k][2]) = Find(Started(s), rows[k][2]) /\ Find(g, rows[k][2]) # 0
    BY <1>1, FindsNodes
  <2>2. pairs = Ends(s)
    BY <1>1, <1>3, <2>1
  <2>3. S = 1 .. m
    BY <1>1, <2>1
  <2>4. InOrder(S) = [i \in 1 .. m |-> i]
    BY <2>3, InOrderInterval
  <2>5. IndexPairs(g, rows) = Pick(pairs, S)
    BY DEF IndexPairs
  <2> HIDE DEF pairs, S
  <2>6. Pick(pairs, S) = [i \in 1 .. m |-> pairs[i]]
    BY <2>4 DEF Pick
  <2>7. Ends(s) = [i \in 1 .. m |-> Ends(s)[i]]
    BY <1>3
  <2> QED
    BY <2>2, <2>5, <2>6, <2>7
<1> QED
  BY <1>1, <1>4, <1>5, <1>6 DEF rows

\* For each row the index it is stored under in direction d.
FromOf(s, d) == [k \in DOMAIN Ends(s) |-> From(d, Ends(s)[k])]

\* The arrays of direction d, for m edges and n nodes: how many rows are put
\* before those of a node, and each place has the other end of the one row that
\* is put there.
Arrays(s, d, m, n) ==
  /\ FromOf(s, d) \in [1 .. m -> 1 .. n]
  /\ \A i \in 0 .. n : Loaded(s).ptr[d][i] = Cardinality(Below(FromOf(s, d), i))
  /\ DOMAIN Loaded(s).col[d] = 0 .. m - 1
  /\ \A k \in 1 .. m :
       /\ Position(FromOf(s, d), k) \in 0 .. m - 1
       /\ Loaded(s).col[d][Position(FromOf(s, d), k)] = To(d, Ends(s)[k])
       /\ To(d, Ends(s)[k]) \in 1 .. n
       /\ NodeRows(s)[To(d, Ends(s)[k])] = To(d, EdgeRows(s)[k])
       /\ NodeRows(s)[FromOf(s, d)[k]] = From(d, EdgeRows(s)[k])

\* The sums are the numbers of rows up to a node, and each row is at its place.
LEMMA ArraysAre ==
  ASSUME NEW s, Sound(s)
  PROVE  \E m \in Nat, n \in Nat :
           /\ n = Len(NodeRows(s)) /\ DOMAIN EdgeRows(s) = 1 .. m /\ DOMAIN Ends(s) = 1 .. m
           /\ \A d \in Dir : Arrays(s, d, m, n)
           /\ Loaded(s).beyond = FALSE
<1> DEFINE n == Len(NodeRows(s))
           rs == Ends(s)
           g == Counted(s)
           F(d) == FromOf(s, d)
<1>1. PICK m \in Nat :
        /\ DOMAIN EdgeRows(s) = 1 .. m /\ rs \in Seq(Nat \X Nat) /\ Len(rs) = m
        /\ \A k \in 1 .. m, x \in {1, 2} :
             rs[k][x] \in 1 .. n /\ NodeRows(s)[rs[k][x]] = EdgeRows(s)[k][x]
        /\ \A h \in {Named(s), g} : IndexPairs(h, EdgeRows(s)) = rs
  BY EndsAre
<1>2. n \in Nat /\ DOMAIN rs = 1 .. m
  BY <1>1, NodeRowsAre, LenProperties
<1>3. \A d \in Dir, k \in 1 .. m :
        /\ From(d, rs[k]) \in 1 .. n /\ To(d, rs[k]) \in 1 .. n
        /\ NodeRows(s)[From(d, rs[k])] = From(d, EdgeRows(s)[k])
        /\ NodeRows(s)[To(d, rs[k])] = To(d, EdgeRows(s)[k])
  BY <1>1 DEF From, To
<1> HIDE DEF n, rs
<1>4. ASSUME NEW d \in Dir
      PROVE  /\ F(d) \in [1 .. m -> 1 .. n] /\ DOMAIN F(d) = 1 .. m
             /\ \A k \in 1 .. m : F(d)[k] = From(d, rs[k])
  BY <1>2, <1>3 DEF FromOf, rs
<1>5. /\ g.count = m
      /\ \A d \in Dir, i \in 0 .. n : g.ptr[d][i] = Cardinality(Below(F(d), i))
  <2>1. /\ DOMAIN Named(s) = Fields /\ Named(s).ids = NodeRows(s)
        /\ "count" \in Fields /\ "ptr" \in Fields
    BY GraphFields DEF Fields, NoGraph
  <2>2. g = [Named(s) EXCEPT !.count = Len(rs),
               !.ptr = [d \in Dir |-> [i \in 0 .. n |-> Cardinality({k \in DOMAIN rs : UpTo(d, rs[k], i)})]]]
    BY <1>1, <2>1 DEF Counted, WithCounts, n
  <2>3. /\ g.count = Len(rs)
        /\ \A d \in Dir, i \in 0 .. n : g.ptr[d][i] = Cardinality({k \in DOMAIN rs : UpTo(d, rs[k], i)})
    BY <2>1, <2>2
  <2>4. \A d \in Dir, i \in 0 .. n : {k \in DOMAIN rs : UpTo(d, rs[k], i)} = Below(F(d), i)
    BY <1>2, <1>4 DEF UpTo, Below
  <2> QED
    BY <1>1, <2>3, <2>4
<1> DEFINE Pos(d, k) == g.ptr[d][From(d, rs[k]) - 1]
                        + Cardinality({j \in 1 .. k - 1 : From(d, rs[j]) = From(d, rs[k])})
           PutAt(d, p) == {k \in DOMAIN rs : Pos(d, k) = p}
<1>6. /\ Loaded(s).ptr = g.ptr
      /\ Loaded(s).beyond = \E d \in Dir, k \in DOMAIN rs : Pos(d, k) >= m
      /\ Loaded(s).col = [d \in Dir |-> [p \in 0 .. m - 1 |->
                            IF PutAt(d, p) = {} THEN Unset ELSE To(d, rs[Max(PutAt(d, p))])]]
  <2>1. DOMAIN g = Fields /\ {"ptr", "col", "beyond"} \subseteq Fields
    BY GraphFields DEF Fields, NoGraph
  <2>2. Loaded(s) = [g EXCEPT
          !.col = [d \in Dir |-> [p \in 0 .. m - 1 |->
                     IF PutAt(d, p) = {} THEN Unset ELSE To(d, rs[Max(PutAt(d, p))])]],
          !.beyond = \E d \in Dir, k \in DOMAIN rs : Pos(d, k) >= m]
    BY <1>1, <1>5 DEF Loaded, WithEdges
  <2> HIDE DEF g, Pos, PutAt
  <2> QED
    BY <2>1, <2>2
<1>7. ASSUME NEW d \in Dir, NEW k \in 1 .. m PROVE Pos(d, k) = Position(F(d), k)
  <2>1. From(d, rs[k]) - 1 \in 0 .. n /\ F(d)[k] = From(d, rs[k])
    BY <1>2, <1>3, <1>4
  <2>2. {j \in 1 .. k - 1 : From(d, rs[j]) = From(d, rs[k])} = SameBefore(F(d), k)
    BY <1>4 DEF SameBefore
  <2> QED
    BY <1>5, <2>1, <2>2 DEF Position
<1> HIDE DEF Pos
<1>8. Loaded(s).beyond = FALSE
  <2>1. \A d \in Dir, k \in DOMAIN rs : ~(Pos(d, k) >= m)
    <3> TAKE d \in Dir, k \in DOMAIN rs
    <3>1. Position(F(d), k) \in 0 .. m - 1
      BY <1>2, <1>4, PositionIs
    <3> QED
      BY <1>2, <1>7, <3>1
  <2> QED
    BY <1>6, <2>1
<1>9. ASSUME NEW d \in Dir, NEW k \in 1 .. m
      PROVE  /\ Position(F(d), k) \in 0 .. m - 1
             /\ Loaded(s).col[d][Position(F(d), k)] = To(d, rs[k])
  <2> DEFINE p == Position(F(d), k)
  <2>1. p \in 0 .. m - 1
    BY <1>2, <1>4, PositionIs
  <2>2. \A l \in 1 .. m : Pos(d, l) = p => l = k
    BY <1>2, <1>4, <1>7, PositionsAll
  <2>3. PutAt(d, p) = {k}
    BY <1>2, <1>7, <2>2
  <2>4. Max({k}) = k
    BY DEF Max
  <2> HIDE DEF p, PutAt
  <2>5. Loaded(s).col[d][p] = IF PutAt(d, p) = {} THEN Unset ELSE To(d, rs[Max(PutAt(d, p))])
    BY <1>6, <2>1
  <2>6. Loaded(s).col[d][p] = To(d, rs[k])
    BY <2>3, <2>4, <2>5
  <2> QED
    BY <2>1, <2>6 DEF p
<1>10. \A d \in Dir : DOMAIN Loaded(s).col[d] = 0 .. m - 1
  BY <1>6
<1> HIDE DEF PutAt
<1>11. ASSUME NEW d \in Dir PROVE Arrays(s, d, m, n)
  <2>1. \A i \in 0 .. n : Loaded(s).ptr[d][i] = Cardinality(Below(F(d), i))
    BY <1>5, <1>6
  <2>2. \A k \in 1 .. m : NodeRows(s)[F(d)[k]] = From(d, EdgeRows(s)[k])
    BY <1>3, <1>4
  <2> QED
    BY <1>3, <1>4, <1>9, <1>10, <2>1, <2>2 DEF Arrays, rs
<1> QED
  BY <1>1, <1>2, <1>8, <1>11 DEF n, rs

\* The arrays are filled, and no more than filled.
LEMMA LoadedFilled ==
  ASSUME NEW s, Sound(s)
  PROVE  Filled(Loaded(s))
<1>1. PICK m \in Nat, n \in Nat :
        (\A d \in Dir : Arrays(s, d, m, n)) /\ Loaded(s).beyond = FALSE
  BY ArraysAre
<1>2. ASSUME NEW d \in Dir, NEW p \in DOMAIN Loaded(s).col[d] PROVE Loaded(s).col[d][p] # Unset
  <2>1. /\ FromOf(s, d) \in [1 .. m -> 1 .. n] /\ p \in 0 .. m - 1
        /\ \A k \in 1 .. m :
             /\ Loaded(s).col[d][Position(FromOf(s, d), k)] = To(d, Ends(s)[k])
             /\ To(d, Ends(s)[k]) \in 1 .. n
    BY <1>1 DEF Arrays
  <2>2. PICK k \in 1 .. m : Position(FromOf(s, d), k) = p
    <3> DEFINE F == FromOf(s, d)
    <3>1. F \in [1 .. m -> 1 .. n] /\ p \in 0 .. m - 1
      BY <2>1
    <3> HIDE DEF F
    <3>2. \A q \in 0 .. m - 1 : \E k \in 1 .. m : Position(F, k) = q
      BY <3>1, PositionsAll
    <3> QED
      BY <3>1, <3>2 DEF F
  <2>3. Loaded(s).col[d][p] \in 1 .. n
    BY <2>1, <2>2
  <2> QED
    BY <2>3 DEF Unset
<1> QED
  BY <1>1, <1>2 DEF Filled

\* The neighbours that are stored for a node are the other ends of its edges,
\* in the order of the rows.
LEMMA NeighboursAre ==
  ASSUME NEW s, Sound(s), NEW d \in Dir, NEW i \in 1 .. Len(NodeRows(s)),
         NEW out, out = Pick(EdgeRows(s), {k \in DOMAIN EdgeRows(s) : From(d, EdgeRows(s)[k]) = NodeRows(s)[i]})
  PROVE  Neighbours(Loaded(s), d, i) = [k \in DOMAIN out |-> To(d, out[k])]
<1> DEFINE g == Loaded(s)
           ids == NodeRows(s)
           rows == EdgeRows(s)
           F == FromOf(s, d)
<1>1. PICK m \in Nat, n \in Nat :
        n = Len(ids) /\ DOMAIN rows = 1 .. m /\ DOMAIN Ends(s) = 1 .. m /\ Arrays(s, d, m, n)
  BY ArraysAre
<1>2. /\ F \in [1 .. m -> 1 .. n]
      /\ \A j \in 0 .. n : g.ptr[d][j] = Cardinality(Below(F, j))
      /\ \A k \in 1 .. m :
           /\ g.col[d][Position(F, k)] = To(d, Ends(s)[k]) /\ To(d, Ends(s)[k]) \in 1 .. n
           /\ ids[To(d, Ends(s)[k])] = To(d, rows[k]) /\ ids[F[k]] = From(d, rows[k])
  BY <1>1 DEF Arrays
<1>3. \A j, k \in 1 .. n : ids[j] = ids[k] => j = k
  BY <1>1, NodeRowsAre
<1>4. i \in 1 .. n
  BY <1>1
<1>5. g.ids = ids
  BY GraphFields
<1> DEFINE K == RowsOf(F, i)
           o == InOrder(K)
           a == Cardinality(Below(F, i - 1))
<1> HIDE DEF g, ids, rows, F
<1>6. {k \in DOMAIN rows : From(d, rows[k]) = ids[i]} = K
  <2>1. \A k \in 1 .. m : From(d, rows[k]) = ids[i] <=> F[k] = i
    <3> SUFFICES ASSUME NEW k \in 1 .. m
                 PROVE  From(d, rows[k]) = ids[i] <=> F[k] = i
      OBVIOUS
    <3>1. F[k] \in 1 .. n /\ ids[F[k]] = From(d, rows[k])
      BY <1>2
    <3>2. ids[F[k]] = ids[i] => F[k] = i
      BY <1>3, <1>4, <3>1
    <3> QED
      BY <3>1, <3>2, Zenon
  <2> QED
    BY <1>1, <1>2, <2>1 DEF RowsOf
<1>7. /\ Ascending(o, K) /\ a \in Nat /\ Cardinality(Below(F, i)) = a + Cardinality(K)
      /\ \A p \in 1 .. Cardinality(K) : Position(F, o[p]) = a + p - 1
  <2>1. F \in [1 .. m -> 1 .. n]
    BY <1>2
  <2> QED
    BY <1>4, <2>1, PositionOfKth
<1>8. Cardinality(K) \in Nat /\ DOMAIN o = 1 .. Cardinality(K) /\ \A p \in DOMAIN o : o[p] \in K
  BY <1>7 DEF Ascending
<1>9. out = [p \in 1 .. Cardinality(K) |-> rows[o[p]]]
  <2>1. out = Pick(rows, K)
    BY <1>6 DEF rows, ids
  <2> HIDE DEF K
  <2> QED
    BY <1>8, <2>1 DEF Pick
<1>10. g.ptr[d][i - 1] = a /\ g.ptr[d][i] - g.ptr[d][i - 1] = Cardinality(K)
  <2>1. i - 1 \in 0 .. n /\ i \in 0 .. n
    BY <1>4
  <2>2. g.ptr[d][i - 1] = a /\ g.ptr[d][i] = a + Cardinality(K)
    BY <1>2, <1>7, <2>1
  <2> QED
    BY <1>7, <1>8, <2>2
<1> DEFINE Stored(p) == g.col[d][a + p - 1]
<1>11. ASSUME NEW p \in 1 .. Cardinality(K)
       PROVE  Stored(p) # Unset /\ ids[Stored(p)] = To(d, out[p])
  <2>1. o[p] \in 1 .. m /\ Position(F, o[p]) = a + p - 1
    BY <1>2, <1>7, <1>8 DEF RowsOf
  <2>2. Stored(p) = To(d, Ends(s)[o[p]]) /\ Stored(p) \in 1 .. n /\ ids[Stored(p)] = To(d, rows[o[p]])
    BY <1>2, <2>1
  <2>3. out[p] = rows[o[p]]
    BY <1>9
  <2> HIDE DEF Stored
  <2> QED
    BY <2>2, <2>3 DEF Unset
<1>12. Neighbours(g, d, i) =
         [p \in 1 .. Cardinality(K) |-> IF Stored(p) = Unset THEN None ELSE ids[Stored(p)]]
  BY <1>5, <1>10 DEF Neighbours
<1> HIDE DEF K, o, a, Stored
<1>13. Neighbours(g, d, i) = [p \in 1 .. Cardinality(K) |-> To(d, out[p])]
  BY <1>11, <1>12
<1>14. DOMAIN out = 1 .. Cardinality(K)
  BY <1>9
<1> QED
  BY <1>13, <1>14 DEF g

\* What the four SELECTs make of tables that do not change is their graph.
LEMMA LoadedIs ==
  ASSUME NEW s, Sound(s)
  PROVE  IsGraphOf(Loaded(s), s) /\ Filled(Loaded(s)) /\ Loaded(s).of = {s}
<1> DEFINE ids == NodeRows(s)
<1>1. Loaded(s).ids = ids /\ Loaded(s).of = {s} /\ Started(s).ids = ids
  BY GraphFields
<1>2. Loaded(s).names = [i \in DOMAIN ids |-> s.nodes[ids[i]]]
  <2>1. /\ DOMAIN Started(s) = Fields /\ DOMAIN Named(s) = Fields /\ DOMAIN Counted(s) = Fields
        /\ "names" \in Fields
    BY GraphFields DEF Fields, NoGraph
  <2>2. Named(s).names = [i \in DOMAIN ids |->
          IF ids[i] \in {v \in DOMAIN s.nodes : s.nodes[v] # None /\ Find(Started(s), v) = i}
          THEN s.nodes[ids[i]] ELSE None]
    BY <1>1, <2>1 DEF Named, WithNames
  <2>3. Loaded(s).names = Counted(s).names
    BY <2>1 DEF Loaded, WithEdges
  <2>4. Counted(s).names = Named(s).names
    BY <2>1 DEF Counted, WithCounts
  <2>5. \A i \in DOMAIN ids : ids[i] \in DOMAIN s.nodes /\ Find(Started(s), ids[i]) = i
    <3> TAKE i \in DOMAIN ids
    <3>1. i \in 1 .. Len(ids) /\ ids[i] \in DOMAIN s.nodes
      BY NodeRowsAre
    <3>2. Find(Started(s), ids[i]) \in 1 .. Len(ids) /\ ids[Find(Started(s), ids[i])] = ids[i]
      BY <3>1, FindsNodes
    <3> QED
      BY <3>1, <3>2, NodeRowsAre
  <2> HIDE DEF ids
  <2>6. \A i \in DOMAIN ids :
          (IF ids[i] \in {v \in DOMAIN s.nodes : s.nodes[v] # None /\ Find(Started(s), v) = i}
           THEN s.nodes[ids[i]] ELSE None) = s.nodes[ids[i]]
    BY <2>5
  <2> QED
    BY <2>2, <2>3, <2>4, <2>6
<1>3. \A d \in Dir, i \in DOMAIN ids :
        Neighbours(Loaded(s), d, i) =
          LET out == Pick(EdgeRows(s), {k \in DOMAIN EdgeRows(s) : From(d, EdgeRows(s)[k]) = ids[i]})
          IN [k \in DOMAIN out |-> To(d, out[k])]
  <2> TAKE d \in Dir, i \in DOMAIN ids
  <2> DEFINE out == Pick(EdgeRows(s), {k \in DOMAIN EdgeRows(s) : From(d, EdgeRows(s)[k]) = ids[i]})
  <2>1. i \in 1 .. Len(ids)
    BY NodeRowsAre
  <2>2. out = Pick(EdgeRows(s), {k \in DOMAIN EdgeRows(s) : From(d, EdgeRows(s)[k]) = NodeRows(s)[i]})
    OBVIOUS
  <2> HIDE DEF out
  <2>3. Neighbours(Loaded(s), d, i) = [k \in DOMAIN out |-> To(d, out[k])]
    BY <2>1, <2>2, NeighboursAre
  <2> QED
    BY <2>3 DEF out
<1>4. IsGraphOf(Loaded(s), s)
  BY <1>1, <1>2, <1>3 DEF IsGraphOf
<1> QED
  BY <1>1, <1>4, LoadedFilled
-----------------------------------------------------------------------------
(* What surrounds a call keeps the tables as they are while it loads.      *)

\* A connection that loads holds SHARED, and the tables have the ends of their
\* edges.
LockInv ==
  /\ Sound(db) /\ (reserved # NULL => Sound(work))
  /\ \A c \in Conn : call[c].step \in LoadSteps => c \in shared

\* A graph that has been loaded whole, from tables that stayed as they were.
Whole(g) == \E s \in g.of : Sound(s) /\ g = Loaded(s)

\* The graph that c is loading has what the SELECTs so far read of the tables as
\* c still sees them; any other it uses is whole.
GraphsOf(c) ==
  LET g == mem[call[c].g]
  IN /\ call[c].step = "names" => g = Started(View(c))
     /\ call[c].step = "count" => g = Named(View(c))
     /\ call[c].step = "edges" => g = Counted(View(c))
     /\ call[c].step \notin LoadSteps => \A a \in Uses(c) : Whole(mem[a])
Graphs == \A c \in Conn : GraphsOf(c)

LoadInv == OwnInv /\ LockInv /\ Graphs

\* What makes tables sound.
LEMMA SoundParts ==
  ASSUME NEW s, Sound(s)
  PROVE  /\ s = [nodes |-> s.nodes, edges |-> s.edges]
         /\ DOMAIN s.nodes \subseteq Node /\ s.nodes \in [DOMAIN s.nodes -> UserId \cup {None}]
         /\ DOMAIN s.edges \subseteq Edge /\ s.edges \in [DOMAIN s.edges -> Node \X Node]
         /\ \A e \in DOMAIN s.edges : s.edges[e][1] \in DOMAIN s.nodes /\ s.edges[e][2] \in DOMAIN s.nodes
BY DEF Sound, Tables

\* And what follows from them.
LEMMA SoundOf ==
  ASSUME NEW N \in SUBSET Node, NEW n \in [N -> UserId \cup {None}],
         NEW E \in SUBSET Edge, NEW m \in [E -> Node \X Node],
         \A e \in E : m[e][1] \in N /\ m[e][2] \in N
  PROVE  Sound([nodes |-> n, edges |-> m])
<1>1. [nodes |-> n, edges |-> m] \in Tables
  BY DEF Tables
<1> QED
  BY <1>1 DEF Sound

\* A change of the tables keeps the ends of the edges.
LEMMA ChangedSound ==
  ASSUME NEW s, Sound(s), NEW t \in Changed(s)
  PROVE  Sound(t)
<1> DEFINE N == DOMAIN s.nodes
           E == DOMAIN s.edges
<1>1. /\ s = [nodes |-> s.nodes, edges |-> s.edges]
      /\ N \in SUBSET Node /\ s.nodes \in [N -> UserId \cup {None}]
      /\ E \in SUBSET Edge /\ s.edges \in [E -> Node \X Node]
      /\ \A e \in E : s.edges[e][1] \in N /\ s.edges[e][2] \in N
  BY SoundParts
<1> DEFINE Nodes(f) == [s EXCEPT !.nodes = f]
           Edges(f) == [s EXCEPT !.edges = f]
<1>2. \A f : Nodes(f) = [nodes |-> f, edges |-> s.edges]
  BY <1>1
<1>3. \A f : Edges(f) = [nodes |-> s.nodes, edges |-> f]
  BY <1>1
<1> DEFINE New     == {Nodes(Put(s.nodes, v, n)) : v \in Node, n \in UserId \cup {None}}
           Bare    == {u \in N : \A e \in E : u \notin {s.edges[e][1], s.edges[e][2]}}
           Gone    == {Nodes(Restrict(s.nodes, N \ {v})) : v \in Bare}
           Joined  == {Edges(Put(s.edges, e, <<u, v>>)) : e \in Edge \ E, u \in N, v \in N}
           Severed == {Edges(Restrict(s.edges, E \ {e})) : e \in E}
<1>4a. Changed(s) = New \cup Gone \cup Joined \cup Severed
  BY ONLY DEF Changed
<1> HIDE DEF Nodes, Edges
<1>4. \/ \E v \in Node, n \in UserId \cup {None} : t = Nodes(Put(s.nodes, v, n))
      \/ \E v \in N : /\ \A e \in E : v \notin {s.edges[e][1], s.edges[e][2]}
                      /\ t = Nodes(Restrict(s.nodes, N \ {v}))
      \/ \E e \in Edge \ E, u \in N, v \in N : t = Edges(Put(s.edges, e, <<u, v>>))
      \/ \E e \in E : t = Edges(Restrict(s.edges, E \ {e}))
  <2>1. t \in New => \E v \in Node, n \in UserId \cup {None} : t = Nodes(Put(s.nodes, v, n))
    BY SMT
  <2>2. t \in Joined => \E e \in Edge \ E, u \in N, v \in N : t = Edges(Put(s.edges, e, <<u, v>>))
    BY SMT
  <2>3. t \in Severed => \E e \in E : t = Edges(Restrict(s.edges, E \ {e}))
    BY SMT
  <2>4. t \in Gone => \E v \in N : /\ \A e \in E : v \notin {s.edges[e][1], s.edges[e][2]}
                      /\ t = Nodes(Restrict(s.nodes, N \ {v}))
    BY SMT
  <2> HIDE DEF New, Gone, Joined, Severed
  <2> QED
    BY <1>4a, <2>1, <2>2, <2>3, <2>4
<1>5. ASSUME NEW v \in Node, NEW n \in UserId \cup {None},
             t = Nodes(Put(s.nodes, v, n))
      PROVE  Sound(t)
  <2>1. Put(s.nodes, v, n) \in [N \cup {v} -> UserId \cup {None}] /\ N \cup {v} \in SUBSET Node
    BY <1>1 DEF Put
  <2> QED
    BY <1>1, <1>2, <1>5, <2>1, SoundOf
<1>6. ASSUME NEW v \in N, \A e \in E : v \notin {s.edges[e][1], s.edges[e][2]},
             t = Nodes(Restrict(s.nodes, N \ {v}))
      PROVE  Sound(t)
  <2>1. Restrict(s.nodes, N \ {v}) \in [N \ {v} -> UserId \cup {None}] /\ N \ {v} \in SUBSET Node
    BY <1>1 DEF Restrict
  <2>2. \A e \in E : s.edges[e][1] \in N \ {v} /\ s.edges[e][2] \in N \ {v}
    BY <1>1, <1>6
  <2> QED
    BY <1>1, <1>2, <1>6, <2>1, <2>2, SoundOf
<1>7. ASSUME NEW e \in Edge \ E, NEW u \in N, NEW v \in N,
             t = Edges(Put(s.edges, e, <<u, v>>))
      PROVE  Sound(t)
  <2> DEFINE m == Put(s.edges, e, <<u, v>>)
  <2>1. m \in [E \cup {e} -> Node \X Node] /\ E \cup {e} \in SUBSET Edge
    BY <1>1 DEF Put
  <2>2. \A k \in E \cup {e} : m[k][1] \in N /\ m[k][2] \in N
    BY <1>1 DEF Put
  <2> HIDE DEF m
  <2> QED
    BY <1>1, <1>3, <1>7, <2>1, <2>2, SoundOf DEF m
<1>8. ASSUME NEW e \in E, t = Edges(Restrict(s.edges, E \ {e}))
      PROVE  Sound(t)
  <2> DEFINE m == Restrict(s.edges, E \ {e})
  <2>1. m \in [E \ {e} -> Node \X Node] /\ E \ {e} \in SUBSET Edge
    BY <1>1 DEF Restrict
  <2>2. \A k \in E \ {e} : m[k][1] \in N /\ m[k][2] \in N
    BY <1>1 DEF Restrict
  <2> HIDE DEF m
  <2> QED
    BY <1>1, <1>3, <1>8, <2>1, <2>2, SoundOf DEF m
<1> QED
  BY <1>4, <1>5, <1>6, <1>7, <1>8

\* What a connection sees is sound.
LEMMA ViewSound ==
  ASSUME LockInv, NEW c \in Conn
  PROVE  Sound(View(c))
BY CacheAssumption DEF LockInv, View

\* A step of c that changes no graph of another connection, and not what one
\* sees that is loading.
LEMMA StepOfGraphs ==
  ASSUME OwnInv, Graphs, NEW c \in Conn, OthersStay(c),
         \A a \in DOMAIN mem \ Uses(c) : mem'[a] = mem[a],
         \A k \in Conn \ {c} : call[k].step \in LoadSteps => View(k)' = View(k),
         GraphsOf(c)'
  PROVE  Graphs'
<1> SUFFICES ASSUME NEW k \in Conn, k # c PROVE GraphsOf(k)'
  BY DEF Graphs
<1>1. call'[k] = call[k] /\ Uses(k)' = Uses(k) /\ GraphsOf(k)
  BY DEF OthersStay, Graphs, Uses
<1>2. \A a \in Uses(k) : a \in DOMAIN mem \ Uses(c) /\ mem'[a] = mem[a]
  BY DEF OwnInv, OneOwner
<1>3. CASE call[k].step \in LoadSteps
  <2>1. call[k].g \in Uses(k)
    BY <1>3, OwnParts DEF StageOf, Uses
  <2>2. mem'[call'[k].g] = mem[call[k].g] /\ View(k)' = View(k)
    BY <1>1, <1>2, <1>3, <2>1
  <2> QED
    BY <1>1, <1>3, <2>2 DEF GraphsOf
<1>4. CASE call[k].step \notin LoadSteps
  <2>1. \A a \in Uses(k) : Whole(mem[a])
    BY <1>1, <1>4 DEF GraphsOf
  <2>2. \A a \in Uses(k)' : Whole(mem'[a])
    BY <1>1, <1>2, <2>1
  <2> QED
    BY <1>1, <1>4, <2>2 DEF GraphsOf, LoadSteps, Whole
<1> QED
  BY <1>3, <1>4

\* A connection that loads nothing has whole graphs only.
LEMMA NotLoading ==
  ASSUME NEW c \in Conn, call'[c].step \notin LoadSteps, \A a \in Uses(c)' : Whole(mem'[a])
  PROVE  GraphsOf(c)'
BY DEF GraphsOf, LoadSteps, Whole

-----------------------------------------------------------------------------
(* Each step.                                                              *)

\* No other connection is loading when one commits.
LEMMA CommitsAlone ==
  ASSUME LockInv, NEW c \in Conn, call[c] = Idle, CanCommit(c)
  PROVE  \A k \in Conn : call[k].step \notin LoadSteps
BY IdleIs DEF LockInv, CanCommit, LoadSteps

\* So its commit leaves every graph as it is.
LEMMA CommitsKeeps ==
  ASSUME LockInv, NEW c \in Conn, call[c] = Idle, CanCommit(c), NEW s, Commits(c, s)
  PROVE  \A a \in DOMAIN mem : mem'[a] = mem[a]
<1>1. \A k \in Conn : ~ Loading(k)
  BY CommitsAlone DEF Loading, LoadSteps
<1> QED
  BY <1>1 DEF Commits

\* Changes of the tables.
LEMMA ChangeLoad ==
  ASSUME LoadInv, NEW c \in Conn, Change(c)
  PROVE  LockInv' /\ Graphs'
<1>1. OwnInv /\ LockInv /\ Graphs /\ Sound(View(c)) /\ call[c] = Idle
      /\ UNCHANGED <<cache, executor, call>>
  BY ViewSound DEF LoadInv, Change
<1>2. PICK s \in Changed(View(c)) :
        IF c \in txn
        THEN /\ CanWrite(c) /\ work' = s /\ reserved' = c /\ shared' = shared \cup {c}
             /\ UNCHANGED <<db, mem>>
        ELSE CanCommit(c) /\ Commits(c, s) /\ UNCHANGED <<work, reserved, shared>>
  BY DEF Change
<1>3. Sound(s)
  BY <1>1, <1>2, ChangedSound
<1>4. LockInv'
  <2>1. Sound(db') /\ (reserved' # NULL => Sound(work')) /\ shared \subseteq shared'
    BY <1>1, <1>2, <1>3 DEF LockInv, Commits
  <2> QED
    BY <1>1, <2>1 DEF LockInv, Sound
<1>5. \A a \in DOMAIN mem : mem'[a] = mem[a]
  BY <1>1, <1>2, CommitsKeeps
<1>6. \A k \in Conn \ {c} : call[k].step \in LoadSteps => View(k)' = View(k)
  <2>1. CASE c \in txn
    BY <1>2, <2>1, CacheAssumption DEF CanWrite, View
  <2>2. CASE c \notin txn
    BY <1>1, <1>2, <2>2, CommitsAlone
  <2> QED
    BY <2>1, <2>2
<1>7. GraphsOf(c)'
  <2>1. call[c].step \notin LoadSteps /\ Uses(c)' = Uses(c) /\ Uses(c) \subseteq DOMAIN mem
    BY <1>1, IdleIs, OwnParts DEF Uses, LoadSteps
  <2>2. \A a \in Uses(c) : Whole(mem[a])
    BY <1>1, <2>1 DEF Graphs, GraphsOf
  <2> QED
    BY <1>1, <1>5, <2>1, <2>2, NotLoading
<1> QED
  BY <1>1, <1>4, <1>5, <1>6, <1>7, StepOfGraphs DEF OthersStay

\* The end of a transaction.
LEMMA EndTxnLoad ==
  ASSUME LoadInv, NEW c \in Conn, call[c] = Idle, EndTxn(c), Sound(db'),
         \A a \in DOMAIN mem : mem'[a] = mem[a],
         \A k \in Conn \ {c} : call[k].step \in LoadSteps => db' = db,
         UNCHANGED <<cache, executor, call>>
  PROVE  LockInv' /\ Graphs'
<1>1. OwnInv /\ LockInv /\ Graphs
  BY DEF LoadInv
<1>2. /\ shared' = shared \ {c}
      /\ reserved = c => reserved' = NULL /\ work' = None
      /\ reserved # c => UNCHANGED <<reserved, work>>
  BY DEF EndTxn
<1>3. LockInv'
  <2>1. reserved' # NULL => Sound(work')
    BY <1>1, <1>2 DEF LockInv
  <2>2. \A k \in Conn : call'[k].step \in LoadSteps => k \in shared'
    BY <1>1, <1>2, IdleIs DEF LockInv, LoadSteps
  <2> QED
    BY <2>1, <2>2 DEF LockInv, Sound
<1>4. \A k \in Conn \ {c} : call[k].step \in LoadSteps => View(k)' = View(k)
  BY <1>2, CacheAssumption DEF View
<1>5. GraphsOf(c)'
  <2>1. call[c].step \notin LoadSteps /\ Uses(c)' = Uses(c) /\ Uses(c) \subseteq DOMAIN mem
    BY <1>1, IdleIs, OwnParts DEF Uses, LoadSteps
  <2>2. \A a \in Uses(c) : Whole(mem[a])
    BY <1>1, <2>1 DEF Graphs, GraphsOf
  <2> QED
    BY <1>1, <2>1, <2>2, NotLoading
<1> QED
  BY <1>1, <1>3, <1>4, <1>5, StepOfGraphs DEF OthersStay

\* BEGIN, COMMIT and ROLLBACK.
LEMMA TxnLoad ==
  ASSUME LoadInv, NEW c \in Conn, Begin(c) \/ Commit(c) \/ Rollback(c)
  PROVE  LockInv' /\ Graphs'
<1>1. OwnInv /\ LockInv /\ Graphs /\ call[c] = Idle /\ UNCHANGED <<cache, executor, call>>
  BY DEF LoadInv, Begin, Commit, Rollback
<1>2. CASE Begin(c)
  <2>1. UNCHANGED <<db, work, reserved, shared, mem, cache, executor, call>>
    BY <1>2 DEF Begin
  <2>2. \A k \in Conn : GraphsOf(k)'
    BY <1>1, <2>1 DEF Graphs, GraphsOf, Uses, View, Whole
  <2> QED
    BY <1>1, <2>1, <2>2 DEF Graphs, LockInv, Sound
<1>3. CASE Rollback(c)
  <2>1. EndTxn(c) /\ UNCHANGED <<db, mem>>
    BY <1>3 DEF Rollback
  <2> QED
    BY <1>1, <2>1, EndTxnLoad DEF LockInv
<1>4. CASE Commit(c) /\ reserved = c
  <2>1. EndTxn(c) /\ CanCommit(c) /\ Commits(c, work)
    BY <1>4 DEF Commit
  <2>2. Sound(db')
    BY <1>1, <1>4, <2>1, CacheAssumption DEF LockInv, Commits
  <2> QED
    BY <1>1, <2>1, <2>2, CommitsAlone, CommitsKeeps, EndTxnLoad
<1>5. CASE Commit(c) /\ reserved # c
  <2>1. EndTxn(c) /\ UNCHANGED <<db, mem>>
    BY <1>5 DEF Commit
  <2> QED
    BY <1>1, <2>1, EndTxnLoad DEF LockInv
<1> QED
  BY <1>2, <1>3, <1>4, <1>5

\* Every SELECT is read to its end, and nothing is loaded without SHARED.
Isolated == RowsFail = FALSE /\ "bare" \notin Contexts

\* What a load leaves to the others: they stay, and so does what they see.
LEMMA OthersSee ==
  ASSUME OwnInv, LockInv, NEW c \in Conn, UNCHANGED <<db, work, reserved>>,
         \A k \in Conn \ {c} : call'[k] = call[k] /\ (k \in shared => k \in shared'),
         call'[c].step \in LoadSteps => c \in shared'
  PROVE  LockInv' /\ \A k \in Conn : View(k)' = View(k)
<1>1. \A k \in Conn : View(k)' = View(k)
  BY DEF View
<1>2. \A k \in Conn : call'[k].step \in LoadSteps => k \in shared'
  BY DEF LockInv
<1> QED
  BY <1>1, <1>2 DEF LockInv, Sound

\* What StartLoad puts into memory.
LEMMA StartLoadGraphs ==
  ASSUME LoadInv, Isolated, NEW c \in Conn, NEW op \in Ops \ {"none"}, NEW x \in Contexts, NEW m,
         call[c] = Idle, cache[c] = NULL \/ op = "reload",
         m = mem \/ m = Freed(mem, cache[c]),
         DOMAIN m = DOMAIN mem \ Uses(c), OthersStay(c), UNCHANGED <<db, work, reserved>>,
         StartLoad(c, op, x, m)
  PROVE  LockInv' /\ Graphs'
<1> DEFINE rows == NodeRows(View(c))
           a == FreeAddr(m)
<1>1. OwnInv /\ LockInv /\ Graphs /\ Sound(View(c))
  BY ViewSound DEF LoadInv
<1>2. IF rows = <<>>
      THEN /\ mem' = m /\ call' = [call EXCEPT ![c] = Idle]
           /\ shared' = IF c \in txn THEN shared \cup {c} ELSE shared
      ELSE /\ mem' = Put(m, a, Started(View(c)))
           /\ call' = [call EXCEPT ![c] = [op |-> op, step |-> "names", g |-> a]]
           /\ shared' = shared \cup {c}
  BY DEF StartLoad, Read, Isolated, Started
<1>3. call \in [Conn -> Call] /\ DOMAIN mem \subseteq Addr /\ MemoryTypeOK /\ Stages
      /\ UNION {Uses(k) : k \in Conn} = DOMAIN mem
  BY <1>1 DEF OwnInv, MemoryTypeOK, OneOwner
<1>4. a \in Addr /\ a \notin DOMAIN m /\ a # NULL
  BY <1>3, FreeAddrFree
<1>5. \A k \in DOMAIN m : m[k] = mem[k]
  BY DEF Freed, Restrict
<1>6. /\ DOMAIN mem' \subseteq Addr /\ cache'[c] = NULL /\ MemoryOf(c)
      /\ \/ call'[c] = Idle
         \/ call'[c].step = "names" /\ call'[c].op = op /\ call'[c].g # NULL
  BY <1>1, StartLoadOwn
<1> HIDE DEF rows, a
<1>7. CASE rows = <<>>
  <2>1. mem' = m /\ call'[c] = Idle /\ shared \subseteq shared'
    BY <1>2, <1>3, <1>7
  <2>2. Uses(c)' = {}
    BY <1>6, <2>1, IdleIs DEF Uses
  <2>3. LockInv' /\ \A k \in Conn : View(k)' = View(k)
    BY <1>1, <2>1, IdleIs, OthersSee DEF OthersStay, LoadSteps
  <2>4. GraphsOf(c)'
    BY <2>1, <2>2, IdleIs, NotLoading DEF LoadSteps
  <2>5. \A k \in DOMAIN mem \ Uses(c) : mem'[k] = mem[k]
    BY <1>5, <2>1
  <2> QED
    BY <1>1, <2>3, <2>4, <2>5, StepOfGraphs
<1>8. CASE rows # <<>>
  <2>1. /\ mem' = Put(m, a, Started(View(c))) /\ shared' = shared \cup {c}
        /\ call'[c] = [op |-> op, step |-> "names", g |-> a]
    BY <1>2, <1>3, <1>8
  <2>2. LockInv' /\ \A k \in Conn : View(k)' = View(k)
    BY <1>1, <2>1, OthersSee DEF OthersStay
  <2>3. mem'[a] = Started(View(c)) /\ \A k \in DOMAIN m : mem'[k] = m[k]
    BY <1>4, <2>1 DEF Put
  <2>4. GraphsOf(c)'
    BY <2>1, <2>2, <2>3 DEF GraphsOf, LoadSteps
  <2>5. \A k \in DOMAIN mem \ Uses(c) : mem'[k] = mem[k]
    BY <1>5, <2>3
  <2> QED
    BY <1>1, <2>2, <2>4, <2>5, StepOfGraphs
<1> QED
  BY <1>7, <1>8

\* The calls that may load a graph.
LEMMA CallLoad ==
  ASSUME LoadInv, Isolated, NEW c \in Conn, NEW x \in Contexts, Load(c, x) \/ Reload(c, x) \/ Cypher(c, x)
  PROVE  LockInv' /\ Graphs'
<1>1. /\ OwnInv /\ LockInv /\ Graphs /\ call[c] = Idle /\ UNCHANGED <<db, work, reserved>>
      /\ Uses(c) = {cache[c]} \ {NULL} /\ NULL \notin DOMAIN mem
  <2>1. OwnInv /\ LockInv /\ Graphs /\ call[c] = Idle /\ UNCHANGED <<db, work, reserved>>
    BY DEF LoadInv, Load, Reload, Cypher, MayCall
  <2>2. NULL \notin DOMAIN mem
    BY <2>1 DEF OwnInv, OneOwner, Uses
  <2> QED
    BY <2>1, <2>2, IdleIs DEF Uses
<1>2. CASE Load(c, x)
  <2>1. StartLoad(c, "load", x, mem) /\ executor' = executor /\ cache[c] = NULL
    BY <1>2 DEF Load
  <2>2. DOMAIN mem = DOMAIN mem \ Uses(c) /\ "load" \in Ops \ {"none"}
    BY <1>1, <2>1 DEF Ops
  <2>3. \A k \in Conn \ {c} : cache'[k] = cache[k] /\ call'[k] = call[k]
    BY <1>1, <2>1, <2>2, StartLoadOwn
  <2> QED
    BY <1>1, <2>1, <2>2, <2>3, StartLoadGraphs DEF OthersStay
<1>3. CASE Reload(c, x)
  <2>1. /\ StartLoad(c, "reload", x, Freed(mem, cache[c]))
        /\ executor' = [executor EXCEPT ![c] = NULL] \/ executor' = executor
    BY <1>3 DEF Reload, Forget
  <2>2. DOMAIN Freed(mem, cache[c]) = DOMAIN mem \ Uses(c) /\ "reload" \in Ops \ {"none"}
    BY <1>1, FreedDomain DEF Ops
  <2>3. \A k \in Conn \ {c} : cache'[k] = cache[k] /\ call'[k] = call[k]
    BY <1>1, <2>1, <2>2, StartLoadOwn
  <2>4. OthersStay(c)
    BY <1>1, <2>1, <2>3 DEF OthersStay, OwnInv, MemoryTypeOK
  <2> QED
    BY <1>1, <2>1, <2>2, <2>4, StartLoadGraphs
<1>4. CASE Cypher(c, x)
  <2>1. /\ executor'[c] = cache[c] /\ \A k \in Conn \ {c} : executor'[k] = executor[k]
    BY <1>1, <1>4 DEF Cypher, OwnInv, MemoryTypeOK
  <2>2. CASE cache[c] = NULL
    <3>1. StartLoad(c, "algorithm", x, mem)
      BY <1>4, <2>1, <2>2 DEF Cypher
    <3>2. DOMAIN mem = DOMAIN mem \ Uses(c) /\ "algorithm" \in Ops \ {"none"}
      BY <1>1, <2>2 DEF Ops
    <3>3. \A k \in Conn \ {c} : cache'[k] = cache[k] /\ call'[k] = call[k]
      BY <1>1, <2>2, <3>1, <3>2, StartLoadOwn
    <3> QED
      BY <1>1, <2>1, <2>2, <3>1, <3>2, <3>3, StartLoadGraphs DEF OthersStay
  <2>3. CASE cache[c] # NULL
    <3>1. /\ call' = [call EXCEPT ![c] = [op |-> "algorithm", step |-> "run", g |-> cache[c]]]
          /\ UNCHANGED <<mem, cache, shared>>
      BY <1>4, <2>1, <2>3 DEF Cypher
    <3>2. /\ call'[c] = [op |-> "algorithm", step |-> "run", g |-> cache[c]]
          /\ \A k \in Conn \ {c} : call'[k] = call[k]
      BY <1>1, <3>1 DEF OwnInv, MemoryTypeOK
    <3>3. LockInv' /\ \A k \in Conn : View(k)' = View(k)
      BY <1>1, <3>1, <3>2, OthersSee DEF LoadSteps
    <3>4. Uses(c)' = Uses(c) /\ \A a \in Uses(c) : Whole(mem[a])
      BY <1>1, <3>1, <3>2, IdleIs DEF Uses, Graphs, GraphsOf, LoadSteps
    <3>5. GraphsOf(c)'
      BY <3>1, <3>2, <3>4, NotLoading DEF LoadSteps
    <3> QED
      BY <1>1, <2>1, <3>1, <3>2, <3>3, <3>5, StepOfGraphs DEF OthersStay
  <2> QED
    BY <2>2, <2>3
<1> QED
  BY <1>2, <1>3, <1>4

\* The graph of a step of a load, and the others.
LEMMA OneGraph ==
  ASSUME OwnInv, NEW c \in Conn, call[c].step \in LoadSteps
  PROVE  call[c].g \in DOMAIN mem /\ Uses(c) = {call[c].g} /\ call[c] \in Call /\ call \in [Conn -> Call]
BY OwnParts DEF StageOf, Uses, OwnInv, MemoryTypeOK

\* The SELECTs of a load read the tables as they were when it began.
LEMMA SelectLoad ==
  ASSUME LoadInv, Isolated, NEW c \in Conn, LoadNames(c) \/ CountEdges(c)
  PROVE  LockInv' /\ Graphs'
<1> DEFINE a == call[c].g
           s == View(c)
<1>1. OwnInv /\ LockInv /\ Graphs /\ call[c].step \in LoadSteps /\ UNCHANGED <<dbVars, cache, executor>>
  BY DEF LoadInv, LoadNames, CountEdges, LoadSteps
<1>2. a \in DOMAIN mem /\ Uses(c) = {a} /\ call[c] \in Call /\ call \in [Conn -> Call]
  BY <1>1, OneGraph
<1>3. \/ call[c].step = "names" /\ call' = [call EXCEPT ![c].step = "count"]
         /\ mem' = [mem EXCEPT ![a] = WithNames(mem[a], s)]
      \/ call[c].step = "count" /\ call' = [call EXCEPT ![c].step = "edges"]
         /\ mem' = [mem EXCEPT ![a] = WithCounts(mem[a], EdgeRows(s))]
  BY DEF LoadNames, CountEdges, Read, Isolated
<1>4. /\ call'[c].g = a
      /\ \/ call[c].step = "names" /\ call'[c].step = "count" /\ mem'[a] = WithNames(mem[a], s)
         \/ call[c].step = "count" /\ call'[c].step = "edges" /\ mem'[a] = WithCounts(mem[a], EdgeRows(s))
  BY <1>2, <1>3 DEF Call
<1>5. /\ \A k \in Conn \ {c} : call'[k] = call[k]
      /\ \A k \in DOMAIN mem \ Uses(c) : mem'[k] = mem[k]
  BY <1>2, <1>3
<1>6. LockInv' /\ \A k \in Conn : View(k)' = View(k)
  BY <1>1, <1>5, OthersSee DEF LockInv, dbVars
<1>7. (call[c].step = "names" => mem[a] = Started(s)) /\ (call[c].step = "count" => mem[a] = Named(s))
  BY <1>1 DEF Graphs, GraphsOf
<1> HIDE DEF a, s
<1>8. \/ call'[c].step = "count" /\ mem'[a] = Named(s)
      \/ call'[c].step = "edges" /\ mem'[a] = Counted(s)
  BY <1>4, <1>7 DEF Named, Counted
<1>9. GraphsOf(c)'
  <2>1. View(c)' = s /\ mem'[call'[c].g] = mem'[a]
    BY <1>4, <1>6 DEF s
  <2> QED
    BY <1>8, <2>1 DEF GraphsOf, LoadSteps
<1> QED
  BY <1>1, <1>5, <1>6, <1>9, StepOfGraphs DEF OthersStay

\* The last SELECT makes the graph whole.
LEMMA FillLoad ==
  ASSUME LoadInv, Isolated, NEW c \in Conn, FillEdges(c)
  PROVE  LockInv' /\ Graphs'
<1> DEFINE a == call[c].g
           s == View(c)
<1>1. /\ OwnInv /\ LockInv /\ Graphs /\ UNCHANGED <<db, work, reserved, txn>>
      /\ call[c].step = "edges" /\ call[c].step \in LoadSteps /\ Sound(s)
  BY ViewSound DEF LoadInv, FillEdges, LoadSteps
<1>2. a \in DOMAIN mem /\ Uses(c) = {a} /\ call[c] \in Call /\ call \in [Conn -> Call]
  BY <1>1, OneGraph
<1>3. mem' = [mem EXCEPT ![a] = WithEdges(mem[a], EdgeRows(s))]
  BY DEF FillEdges, Read, Isolated
<1>4. mem[a] = Counted(s)
  BY <1>1 DEF Graphs, GraphsOf
<1>5. mem'[a] = Loaded(s) /\ \A k \in DOMAIN mem \ Uses(c) : mem'[k] = mem[k]
  BY <1>2, <1>3, <1>4 DEF Loaded
<1>6. Whole(mem'[a])
  BY <1>1, <1>5, LoadedIs DEF Whole
<1>7. /\ call'[c].step \notin LoadSteps /\ Uses(c)' \subseteq {a} /\ OthersStay(c)
      /\ \A k \in Conn \ {c} : k \in shared => k \in shared'
  <2>1. CASE call[c].op = "algorithm"
    <3>1. call' = [call EXCEPT ![c].step = "run"] /\ UNCHANGED <<shared, cache, executor>>
      BY <2>1 DEF FillEdges
    <3>2. call'[c].step = "run" /\ call'[c].g = a /\ \A k \in Conn \ {c} : call'[k] = call[k]
      BY <1>2, <3>1 DEF Call
    <3>3. cache[c] = NULL
      BY <1>1, OwnParts DEF StageOf
    <3> QED
      BY <3>1, <3>2, <3>3 DEF Uses, OthersStay, LoadSteps
  <2>2. CASE call[c].op # "algorithm"
    <3>1. Keep(c, call[c].op, a) /\ Leave(c)
      BY <2>2 DEF FillEdges
    <3>2. /\ call'[c] = Idle /\ \A k \in Conn \ {c} : call'[k] = call[k]
          /\ \A k \in Conn \ {c} : k \in shared => k \in shared'
      BY <1>2, <3>1 DEF Leave
    <3>3. /\ cache'[c] = a \/ cache'[c] = cache[c]
          /\ \A k \in Conn \ {c} : cache'[k] = cache[k] /\ executor'[k] = executor[k]
      BY <1>1, <3>1 DEF Keep, OwnInv, MemoryTypeOK
    <3>4. cache[c] = NULL
      BY <1>1, OwnParts DEF StageOf
    <3> QED
      BY <3>2, <3>3, <3>4, IdleIs DEF Uses, OthersStay, LoadSteps
  <2> QED
    BY <2>1, <2>2
<1>8. LockInv' /\ \A k \in Conn : View(k)' = View(k)
  BY <1>1, <1>7, OthersSee DEF OthersStay
<1>9. GraphsOf(c)'
  BY <1>6, <1>7, NotLoading
<1> QED
  BY <1>1, <1>5, <1>7, <1>8, <1>9, StepOfGraphs

\* The steps that free a graph, or leave it to be kept.
LEMMA FreeLoad ==
  ASSUME LoadInv, NEW c \in Conn, Answer(c) \/ Unload(c) \/ Close(c)
  PROVE  LockInv' /\ Graphs'
<1>1. /\ OwnInv /\ LockInv /\ Graphs /\ call[c].step \notin LoadSteps
      /\ UNCHANGED <<db, work, reserved, txn>>
  BY IdleIs DEF LoadInv, Answer, Unload, Close, dbVars, LoadSteps
<1>2. /\ call'[c] = Idle /\ cache'[c] \in {NULL, cache[c]} /\ OthersStay(c)
      /\ \A k \in Conn \ {c} : k \in shared => k \in shared'
  BY <1>1 DEF Answer, Leave, Unload, Close, OwnInv, MemoryTypeOK, OthersStay, dbVars
<1>3. Uses(c)' \subseteq Uses(c)
  BY <1>2, IdleIs DEF Uses
<1>4. mem' = mem \/ \E a \in Uses(c) \cup {NULL} : mem' = Freed(mem, a)
  BY <1>1, OwnParts DEF Answer, Unload, Close, Uses
<1>5. \A a \in DOMAIN mem' : mem'[a] = mem[a]
  BY <1>4 DEF Freed, Restrict
<1>6. DOMAIN mem' = (DOMAIN mem \ Uses(c)) \cup Uses(c)'
  <2>1. OwnInv'
    BY <1>1, AnswerOwn, LetGoOwn
  <2>2. \A k \in Conn \ {c} : Uses(k)' = Uses(k)
    BY <1>2 DEF OthersStay, Uses
  <2>3. UNION {Uses(k)' : k \in Conn} = Uses(c)' \cup UNION {Uses(k) : k \in Conn \ {c}}
    BY <2>2
  <2>4. UNION {Uses(k) : k \in Conn \ {c}} = DOMAIN mem \ Uses(c)
    BY <1>1 DEF OwnInv, OneOwner
  <2>5. DOMAIN mem' = UNION {Uses(k)' : k \in Conn}
    BY <2>1 DEF OwnInv, OneOwner
  <2> QED
    BY <2>3, <2>4, <2>5
<1>7. GraphsOf(c)'
  <2>1. \A a \in Uses(c) : Whole(mem[a])
    BY <1>1 DEF Graphs, GraphsOf
  <2> QED
    BY <1>2, <1>3, <1>5, <1>6, <2>1, IdleIs, NotLoading DEF LoadSteps
<1>8. LockInv' /\ \A k \in Conn : View(k)' = View(k)
  BY <1>1, <1>2, IdleIs, OthersSee DEF OthersStay, LoadSteps
<1> QED
  BY <1>1, <1>2, <1>5, <1>6, <1>7, <1>8, StepOfGraphs

-----------------------------------------------------------------------------
(* The theorem.                                                            *)

\* Nothing is loaded at first, and the tables are sound.
LEMMA LoadInit == Init => LoadInv
<1> SUFFICES ASSUME Init PROVE LoadInv
  OBVIOUS
<1>1. OwnInv
  BY OwnInit
<1>2. \A c \in Conn : call[c].step \notin LoadSteps /\ Uses(c) = {}
  BY IdleIs DEF Init, LoadSteps, Uses
<1>3. LockInv
  BY <1>2, CacheAssumption DEF Init, LockInv, Sound
<1>4. Graphs
  BY <1>2 DEF Graphs, GraphsOf, LoadSteps
<1> QED
  BY <1>1, <1>3, <1>4 DEF LoadInv

\* Every step keeps graphs and tables in line.
LEMMA LoadNext == Isolated /\ LoadInv /\ [Next]_vars => LoadInv'
<1> SUFFICES ASSUME Isolated, LoadInv, [Next]_vars PROVE LoadInv'
  OBVIOUS
<1>1. OwnInv'
  BY OwnNext DEF LoadInv
<1>2. ASSUME UNCHANGED vars PROVE LockInv' /\ Graphs'
  <2>1. \A c \in Conn : GraphsOf(c)'
    BY <1>2 DEF LoadInv, Graphs, GraphsOf, Uses, View, Whole, vars
  <2> QED
    BY <1>2, <2>1 DEF LoadInv, LockInv, Graphs, Sound, vars
<1>3. \/ \E c \in Conn : Change(c) \/ Begin(c) \/ Commit(c) \/ Rollback(c)
      \/ \E c \in Conn, x \in Contexts : Load(c, x) \/ Reload(c, x) \/ Cypher(c, x)
      \/ \E c \in Conn : LoadNames(c) \/ CountEdges(c) \/ FillEdges(c) \/ Answer(c)
                         \/ Unload(c) \/ Close(c)
      \/ UNCHANGED vars
  BY DEF Next
<1>4. LockInv' /\ Graphs'
  BY <1>2, <1>3, ChangeLoad, TxnLoad, CallLoad, SelectLoad, FillLoad, FreeLoad
<1> QED
  BY <1>1, <1>4 DEF LoadInv

\* What the invariant says of the graphs that have been loaded.
LEMMA InvLoadedWell == LoadInv => LoadedWell
<1> SUFFICES ASSUME LoadInv, NEW a \in DOMAIN mem, Complete(a)
             PROVE  (\E s \in mem[a].of : IsGraphOf(mem[a], s)) /\ Filled(mem[a])
  BY DEF LoadedWell, Snapshot, FillsItsArrays
<1>1. PICK c \in Conn : a \in Uses(c)
  BY DEF LoadInv, OwnInv, OneOwner
<1>2. call[c].step \notin LoadSteps
  <2>1. call[c].step \in LoadSteps => call[c].g = a
    BY <1>1, OneGraph DEF LoadInv
  <2> QED
    BY <2>1 DEF Complete, Loading, LoadSteps
<1>3. Whole(mem[a])
  BY <1>1, <1>2 DEF LoadInv, Graphs, GraphsOf
<1> QED
  BY <1>3, LoadedIs DEF Whole

\* If every SELECT of a load is read to its end and something around the call
\* holds the tables, then whatever other connections write, a graph that is kept
\* or computed with is that of the tables at one moment, and every place of its
\* arrays was written, none beyond them (csr_graph_load, graph_algorithms.c).
THEOREM LoadsWell ==
  ASSUME Isolated
  PROVE  Spec => []LoadedWell
<1>1. LoadInv /\ [Next]_vars => LoadInv'
  BY LoadNext
<1> QED
  BY <1>1, LoadInit, InvLoadedWell, PTL DEF Spec
=============================================================================
