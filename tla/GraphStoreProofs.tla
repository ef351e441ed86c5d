-------------------------- MODULE GraphStoreProofs --------------------------
(***************************************************************************)
(* Proofs about GraphStore, for any number of connections, names, tables   *)
(* and calls: which statements a call has left and in which order, that    *)
(* nothing dangles, that a property has one value, and that it is the one  *)
(* the last call made it.                                                  *)
(***************************************************************************)
EXTENDS GraphStore, FiniteSetTheorems, TLAPS

-----------------------------------------------------------------------------
(* What the statements a call has still to run have to do with each other. *)

Kinds == {"text", "int", "json"}
Statement == {<<v>> : v \in Verbs} \cup (Verbs \X Kinds)

Verb(T, i) == T[i][1]
Has(T, v) == \E i \in DOMAIN T : Verb(T, i) = v
HasTab(T, v, t) == \E i \in DOMAIN T : T[i] = <<v, t>>

\* Every program runs its statements in this order.
Place(t) == CHOOSE i \in 1 .. All : Tabs[i] = t
Order(stmt) ==
  CASE stmt[1] \in {"newNode", "newEdge", "noEdges", "dropEdges"} -> 0
    [] stmt[1] = "clearAll" -> Place(stmt[2])
    [] stmt[1] \in {"ensureKey", "lookupKey"} -> All + 1
    [] stmt[1] = "clear" -> All + 1 + Place(stmt[2])
    [] stmt[1] \in {"put", "dropNode", "dropEdge"} -> All + All + 2

\* What a program is made of: SET and CREATE of a node and of an edge, REMOVE,
\* DELETE of a node and of an edge.
Forms == {{"newNode", "clearAll", "ensureKey", "clear", "put"}, {"newEdge", "ensureKey", "put"},
          {"lookupKey", "clear"}, {"noEdges", "dropEdges", "clearAll", "dropNode"},
          {"clearAll", "dropEdge"}}

\* Statements in order, all between two places of it.
Ordered(T, first, final) ==
  /\ T \in Seq(Statement)
  /\ \A i \in DOMAIN T : Verb(T, i) \in {"clear", "clearAll"} =>
       T[i][2] \in TabSet /\ T[i] = <<Verb(T, i), T[i][2]>>
  /\ \A i, j \in DOMAIN T : i < j => Order(T[i]) < Order(T[j])
  /\ \A i \in DOMAIN T : Order(T[i]) \in first .. final

Shape(T) ==
  /\ Ordered(T, 0, All + All + 2)
  /\ \E form \in Forms : \A v : Has(T, v) => v \in form

\* The statements that are left when the first has run.
LEMMA ShapeTail ==
  ASSUME NEW T, Shape(T), T # <<>>
  PROVE  /\ Shape(Tail(T))
         /\ \A v : Has(Tail(T), v) => Has(T, v)
         /\ \A v : Has(T, v) /\ Verb(T, 1) # v => Has(Tail(T), v)
         /\ \A v, t : HasTab(T, v, t) /\ T[1] # <<v, t>> => HasTab(Tail(T), v, t)
         /\ \A v, t : HasTab(Tail(T), v, t) => HasTab(T, v, t)
<1> DEFINE R == Tail(T)
<1>1. T \in Seq(Statement) /\ R \in Seq(Statement) /\ Len(R) = Len(T) - 1 /\ Len(T) \in Nat \ {0}
      /\ DOMAIN R = 1 .. Len(R) /\ DOMAIN T = 1 .. Len(T)
      /\ \A i \in DOMAIN R : R[i] = T[i + 1] /\ i + 1 \in DOMAIN T
  BY DEF Shape, Ordered
<1> HIDE DEF R
<1>2. \A i \in DOMAIN R : Verb(R, i) = Verb(T, i + 1)
  BY <1>1 DEF Verb
<1>3. Ordered(R, 0, All + All + 2)
  <2>1. \A i \in DOMAIN R : Verb(R, i) \in {"clear", "clearAll"} =>
          R[i][2] \in TabSet /\ R[i] = <<Verb(R, i), R[i][2]>>
    BY <1>1, <1>2 DEF Shape, Ordered
  <2>2. ASSUME NEW i \in DOMAIN R, NEW j \in DOMAIN R, i < j PROVE Order(R[i]) < Order(R[j])
    BY <1>1, <2>2 DEF Shape, Ordered
  <2>3. \A i \in DOMAIN R : Order(R[i]) \in 0 .. (All + All + 2)
    BY <1>1 DEF Shape, Ordered
  <2> QED
    BY <1>1, <2>1, <2>2, <2>3 DEF Ordered
<1>7. \A v : Has(R, v) => Has(T, v)
  BY <1>1, <1>2 DEF Has
<1>8. \A v : Has(T, v) /\ Verb(T, 1) # v => Has(R, v)
  <2> SUFFICES ASSUME NEW v, NEW i \in DOMAIN T, Verb(T, i) = v, Verb(T, 1) # v PROVE Has(R, v)
    BY DEF Has
  <2>1. i - 1 \in DOMAIN R /\ Verb(R, i - 1) = v
    BY <1>1, <1>2
  <2> QED
    BY <2>1 DEF Has
<1>9. \A v, t : HasTab(T, v, t) /\ T[1] # <<v, t>> => HasTab(R, v, t)
  <2> SUFFICES ASSUME NEW v, NEW t, NEW i \in DOMAIN T, T[i] = <<v, t>>, T[1] # <<v, t>> PROVE HasTab(R, v, t)
    BY DEF HasTab
  <2>1. i # 1 /\ i - 1 \in DOMAIN R /\ R[i - 1] = <<v, t>>
    BY <1>1
  <2> QED
    BY <2>1 DEF HasTab
<1>10. \A v, t : HasTab(R, v, t) => HasTab(T, v, t)
  BY <1>1 DEF HasTab
<1>11. Shape(R)
  BY <1>3, <1>7 DEF Shape
<1> QED
  BY <1>7, <1>8, <1>9, <1>10, <1>11 DEF R

\* The tables, in the order of the loops.
LEMMA TablesAre ==
  /\ All \in Nat \ {0} /\ Tabs \in [1 .. All -> Kinds] /\ DOMAIN Tabs = 1 .. All
  /\ TabSet \subseteq Kinds /\ \A i \in 1 .. All : Tabs[i] \in TabSet /\ Place(Tabs[i]) = i
  /\ \A t \in TabSet : Place(t) \in 1 .. All /\ Tabs[Place(t)] = t
  /\ BeforeJson \in 0 .. All /\ \A t \in TabSet \ {"json"} : Place(t) \in 1 .. BeforeJson
<1>1. /\ All \in Nat \ {0} /\ Tabs \in [1 .. All -> Kinds] /\ DOMAIN Tabs = 1 .. All
  BY ConstantsAssumption DEF All, Kinds
<1>2. \A t \in TabSet : \E i \in 1 .. All : Tabs[i] = t
  BY <1>1 DEF TabSet
<1>3. \A t \in TabSet : Place(t) \in 1 .. All /\ Tabs[Place(t)] = t
  BY <1>2 DEF Place
<1>4. \A i \in 1 .. All : Tabs[i] \in TabSet
  BY <1>1 DEF TabSet
<1>5. \A i \in 1 .. All : Place(Tabs[i]) = i
  BY <1>1, <1>3, <1>4, ConstantsAssumption
<1>6. BeforeJson \in 0 .. All
  BY <1>1 DEF BeforeJson
<1>7. \A t \in TabSet \ {"json"} : Place(t) \in 1 .. BeforeJson
  BY <1>1, <1>3 DEF BeforeJson
<1> QED
  BY <1>1, <1>3, <1>4, <1>5, <1>6, <1>7 DEF TabSet

\* The order of the statements, verb by verb.
LEMMA OrderIs ==
  /\ \A v \in {"newNode", "newEdge", "noEdges", "dropEdges"} : Order(<<v>>) = 0
  /\ \A v \in {"ensureKey", "lookupKey"} : Order(<<v>>) = All + 1
  /\ \A v \in {"put", "dropNode", "dropEdge"} : Order(<<v>>) = All + All + 2
  /\ \A i \in 1 .. All : /\ Order(<<"clearAll", Tabs[i]>>) = 0 + i
                          /\ Order(<<"clear", Tabs[i]>>) = (All + 1) + i
BY TablesAre DEF Order

\* A statement alone.
LEMMA SingleIs ==
  ASSUME NEW v \in Verbs \ {"clear", "clearAll"}, NEW k \in Nat, Order(<<v>>) = k
  PROVE  /\ Ordered(<<<<v>>>>, k, k)
         /\ \A w : Has(<<<<v>>>>, w) <=> w = v
         /\ \A w, t : ~HasTab(<<<<v>>>>, w, t)
<1> DEFINE T == <<<<v>>>>
<1>1. T \in Seq(Statement) /\ DOMAIN T = {1} /\ T[1] = <<v>> /\ Verb(T, 1) = v
  BY DEF Statement, Verb
<1> HIDE DEF T
<1>2. \A w, t : <<w, t>> # <<v>>
  OBVIOUS
<1>3. Ordered(T, k, k)
  BY <1>1 DEF Ordered
<1> QED
  BY <1>1, <1>2, <1>3 DEF Has, HasTab, T

\* A loop over the tables.
LEMMA EachIs ==
  ASSUME NEW v \in {"clear", "clearAll"}, NEW n \in 0 .. All, NEW low \in Nat,
         \A i \in 1 .. All : Order(<<v, Tabs[i]>>) = low + i
  PROVE  /\ Ordered(Each(v, n), low + 1, low + All)
         /\ \A w : Has(Each(v, n), w) => w = v
         /\ \A t \in TabSet : HasTab(Each(v, n), v, t) <=> Place(t) <= n
         /\ \A w, t : HasTab(Each(v, n), w, t) => w = v
<1> DEFINE T == Each(v, n)
<1>1. T \in Seq(Statement) /\ DOMAIN T = 1 .. n /\ n <= All
      /\ \A i \in 1 .. n : T[i] = <<v, Tabs[i]>> /\ Verb(T, i) = v /\ i \in 1 .. All
  BY TablesAre DEF Each, Statement, Verbs, Verb
<1> HIDE DEF T
<1>2. \A i \in 1 .. n : Order(T[i]) = low + i
  BY <1>1
<1>3. Ordered(T, low + 1, low + All)
  <2>1. \A i \in DOMAIN T : T[i][2] \in TabSet /\ T[i] = <<Verb(T, i), T[i][2]>>
    BY <1>1, TablesAre
  <2>2. \A i \in DOMAIN T : Order(T[i]) \in (low + 1) .. (low + All)
    BY <1>1, <1>2, TablesAre
  <2>3. \A i, j \in DOMAIN T : i < j => Order(T[i]) < Order(T[j])
    BY <1>1, <1>2
  <2> QED
    BY <1>1, <2>1, <2>2, <2>3 DEF Ordered
<1>4. ASSUME NEW t \in TabSet PROVE HasTab(T, v, t) <=> Place(t) <= n
  <2>1. Place(t) \in 1 .. All /\ Tabs[Place(t)] = t
    BY TablesAre
  <2>2. Place(t) <= n => Place(t) \in DOMAIN T /\ T[Place(t)] = <<v, t>>
    BY <1>1, <2>1
  <2>3. ASSUME NEW i \in DOMAIN T, T[i] = <<v, t>> PROVE Place(t) = i
    BY <1>1, <2>3, TablesAre
  <2> QED
    BY <1>1, <2>2, <2>3 DEF HasTab
<1>5. \A w : Has(T, w) => w = v
  BY <1>1 DEF Has
<1>6. \A w, t : HasTab(T, w, t) => w = v
  BY <1>1 DEF HasTab
<1> QED
  BY <1>3, <1>4, <1>5, <1>6 DEF T

\* One after the other.
LEMMA CatIs ==
  ASSUME NEW S, NEW T, NEW a \in Nat, NEW b \in Nat, NEW c \in Nat, NEW d \in Nat,
         Ordered(S, a, b), Ordered(T, c, d), b < c, a <= b, c <= d
  PROVE  /\ Ordered(S \o T, a, d)
         /\ \A v : Has(S \o T, v) <=> Has(S, v) \/ Has(T, v)
         /\ \A v, t : HasTab(S \o T, v, t) <=> HasTab(S, v, t) \/ HasTab(T, v, t)
<1> DEFINE P == S \o T
<1>1. /\ S \in Seq(Statement) /\ T \in Seq(Statement) /\ P \in Seq(Statement)
      /\ DOMAIN S = 1 .. Len(S) /\ DOMAIN T = 1 .. Len(T) /\ DOMAIN P = 1 .. (Len(S) + Len(T))
      /\ \A i \in DOMAIN S : i \in DOMAIN P /\ P[i] = S[i]
      /\ \A i \in DOMAIN T : Len(S) + i \in DOMAIN P /\ P[Len(S) + i] = T[i]
      /\ Len(S) \in Nat /\ Len(T) \in Nat
  BY DEF Ordered
<1> HIDE DEF P
<1>2. ASSUME NEW i \in DOMAIN P, i \notin DOMAIN S
      PROVE  i - Len(S) \in DOMAIN T /\ P[i] = T[i - Len(S)]
  <2>1. i - Len(S) \in DOMAIN T /\ Len(S) + (i - Len(S)) = i
    BY <1>1, <1>2
  <2> QED
    BY <1>1, <2>1
<1>3. \A i \in DOMAIN P : Verb(P, i) \in {"clear", "clearAll"} =>
        P[i][2] \in TabSet /\ P[i] = <<Verb(P, i), P[i][2]>>
  BY <1>1, <1>2 DEF Ordered, Verb
<1>4. \A i \in DOMAIN P : Order(P[i]) \in a .. d
  BY <1>1, <1>2 DEF Ordered
<1>5. ASSUME NEW i \in DOMAIN P, NEW j \in DOMAIN P, i < j PROVE Order(P[i]) < Order(P[j])
  <2>1. CASE j \in DOMAIN S
    <3>1. i \in DOMAIN S /\ P[i] = S[i] /\ P[j] = S[j]
      BY <1>1, <1>5, <2>1
    <3> QED
      BY <1>5, <2>1, <3>1 DEF Ordered
  <2>2. CASE i \in DOMAIN S /\ j \notin DOMAIN S
    BY <1>1, <1>2, <2>2 DEF Ordered
  <2>3. CASE i \notin DOMAIN S
    <3>1. /\ i - Len(S) \in DOMAIN T /\ j - Len(S) \in DOMAIN T /\ i - Len(S) < j - Len(S)
          /\ P[i] = T[i - Len(S)] /\ P[j] = T[j - Len(S)]
      BY <1>1, <1>2, <1>5, <2>3
    <3> QED
      BY <3>1 DEF Ordered
  <2> QED
    BY <2>1, <2>2, <2>3
<1>6. \A v : Has(P, v) <=> Has(S, v) \/ Has(T, v)
  BY <1>1, <1>2 DEF Has, Verb
<1>7. \A v, t : HasTab(P, v, t) <=> HasTab(S, v, t) \/ HasTab(T, v, t)
  BY <1>1, <1>2 DEF HasTab
<1>8. Ordered(P, a, d)
  BY <1>1, <1>3, <1>4, <1>5 DEF Ordered
<1> QED
  BY <1>6, <1>7, <1>8 DEF P

\* SET of a node: all tables are cleared between the key and the value.
LEMMA SetNodeShape ==
  /\ Ordered(SetNodeProgram, All + 1, All + All + 2)
  /\ \A v : Has(SetNodeProgram, v) => v \in {"ensureKey", "clear", "put"}
  /\ Has(SetNodeProgram, "ensureKey") /\ Has(SetNodeProgram, "put")
  /\ \A t \in TabSet : HasTab(SetNodeProgram, "clear", t)
  /\ \A t : ~HasTab(SetNodeProgram, "clearAll", t)
<1>1. All \in Nat \ {0} /\ All \in 0 .. All /\ \A t \in TabSet : Place(t) <= All
  BY TablesAre
<1>2. /\ Ordered(<<<<"ensureKey">>>>, All + 1, All + 1)
      /\ \A w : Has(<<<<"ensureKey">>>>, w) <=> w = "ensureKey"
      /\ \A w, t : ~HasTab(<<<<"ensureKey">>>>, w, t)
  BY <1>1, OrderIs, SingleIs DEF Verbs
<1>3. /\ Ordered(Each("clear", All), All + 2, All + 1 + All)
      /\ \A w : Has(Each("clear", All), w) => w = "clear"
      /\ \A t \in TabSet : HasTab(Each("clear", All), "clear", t)
      /\ \A w, t : HasTab(Each("clear", All), w, t) => w = "clear"
  <2>0. All + 1 \in Nat
    BY <1>1
  <2>1. \A i \in 1 .. All : Order(<<"clear", Tabs[i]>>) = (All + 1) + i
    BY OrderIs
  <2>2. Ordered(Each("clear", All), (All + 1) + 1, (All + 1) + All)
    BY <1>1, <2>0, <2>1, EachIs
  <2>3. (All + 1) + 1 = All + 2
    BY <1>1
  <2> QED
    BY <1>1, <2>0, <2>1, <2>2, <2>3, EachIs
<1>4. /\ Ordered(<<<<"put">>>>, All + All + 2, All + All + 2)
      /\ \A w : Has(<<<<"put">>>>, w) <=> w = "put"
      /\ \A w, t : ~HasTab(<<<<"put">>>>, w, t)
  BY <1>1, OrderIs, SingleIs DEF Verbs
<1> DEFINE S == <<<<"ensureKey">>>> \o Each("clear", All)
<1>5. /\ Ordered(S, All + 1, All + 1 + All)
      /\ \A v : Has(S, v) <=> v = "ensureKey" \/ Has(Each("clear", All), v)
      /\ \A v, t : HasTab(S, v, t) <=> HasTab(Each("clear", All), v, t)
  BY <1>1, <1>2, <1>3, CatIs
<1>6. SetNodeProgram = S \o <<<<"put">>>>
  BY DEF SetNodeProgram
<1> HIDE DEF S
<1>7. /\ Ordered(SetNodeProgram, All + 1, All + All + 2)
      /\ \A v : Has(SetNodeProgram, v) <=> Has(S, v) \/ v = "put"
      /\ \A v, t : HasTab(SetNodeProgram, v, t) <=> HasTab(S, v, t)
  BY <1>1, <1>4, <1>5, <1>6, CatIs
<1> QED
  BY <1>3, <1>5, <1>7

\* SET of an edge.
LEMMA SetEdgeShape ==
  /\ Ordered(SetEdgeProgram, All + 1, All + All + 2)
  /\ \A v : Has(SetEdgeProgram, v) <=> v \in {"ensureKey", "put"}
  /\ \A v, t : ~HasTab(SetEdgeProgram, v, t)
<1>1. All \in Nat \ {0}
  BY TablesAre
<1>2. /\ Ordered(<<<<"ensureKey">>>>, All + 1, All + 1)
      /\ \A w : Has(<<<<"ensureKey">>>>, w) <=> w = "ensureKey"
      /\ \A w, t : ~HasTab(<<<<"ensureKey">>>>, w, t)
  BY <1>1, OrderIs, SingleIs DEF Verbs
<1>3. /\ Ordered(<<<<"put">>>>, All + All + 2, All + All + 2)
      /\ \A w : Has(<<<<"put">>>>, w) <=> w = "put"
      /\ \A w, t : ~HasTab(<<<<"put">>>>, w, t)
  BY <1>1, OrderIs, SingleIs DEF Verbs
<1>4. SetEdgeProgram = <<<<"ensureKey">>>> \o <<<<"put">>>>
  BY DEF SetEdgeProgram
<1> QED
  BY <1>1, <1>2, <1>3, <1>4, CatIs

\* Loops that clear.
LEMMA ClearAllIs ==
  ASSUME NEW n \in 0 .. All
  PROVE  /\ Ordered(Each("clearAll", n), 1, All)
         /\ \A w : Has(Each("clearAll", n), w) => w = "clearAll"
         /\ \A t \in TabSet : HasTab(Each("clearAll", n), "clearAll", t) <=> Place(t) <= n
         /\ \A w, t : HasTab(Each("clearAll", n), w, t) => w = "clearAll"
<1>1. All \in Nat \ {0}
  BY TablesAre
<1>2. \A i \in 1 .. All : Order(<<"clearAll", Tabs[i]>>) = 0 + i
  BY OrderIs
<1>3. Ordered(Each("clearAll", n), 0 + 1, 0 + All)
  BY <1>2, EachIs
<1>4. 0 + 1 = 1 /\ 0 + All = All
  BY <1>1
<1> QED
  BY <1>2, <1>3, <1>4, EachIs

\* REMOVE.
LEMMA RemoveShape ==
  /\ Ordered(RemoveProgram, All + 1, All + All + 1)
  /\ \A v : Has(RemoveProgram, v) => v \in {"lookupKey", "clear"}
  /\ Has(RemoveProgram, "lookupKey")
  /\ \A t \in TabSet : HasTab(RemoveProgram, "clear", t)
  /\ \A t : ~HasTab(RemoveProgram, "clearAll", t)
<1>1. All \in Nat \ {0} /\ All \in 0 .. All /\ \A t \in TabSet : Place(t) <= All
  BY TablesAre
<1>2. /\ Ordered(<<<<"lookupKey">>>>, All + 1, All + 1)
      /\ \A w : Has(<<<<"lookupKey">>>>, w) <=> w = "lookupKey"
      /\ \A w, t : ~HasTab(<<<<"lookupKey">>>>, w, t)
  BY <1>1, OrderIs, SingleIs DEF Verbs
<1>3. /\ Ordered(Each("clear", All), All + 2, All + All + 1)
      /\ \A w : Has(Each("clear", All), w) => w = "clear"
      /\ \A t \in TabSet : HasTab(Each("clear", All), "clear", t)
      /\ \A w, t : HasTab(Each("clear", All), w, t) => w = "clear"
  <2>0. All + 1 \in Nat
    BY <1>1
  <2>1. \A i \in 1 .. All : Order(<<"clear", Tabs[i]>>) = (All + 1) + i
    BY OrderIs
  <2>2. Ordered(Each("clear", All), (All + 1) + 1, (All + 1) + All)
    BY <1>1, <2>0, <2>1, EachIs
  <2>3. (All + 1) + 1 = All + 2 /\ (All + 1) + All = All + All + 1
    BY <1>1
  <2> QED
    BY <1>1, <2>0, <2>1, <2>2, <2>3, EachIs
<1>4. RemoveProgram = <<<<"lookupKey">>>> \o Each("clear", All)
  BY DEF RemoveProgram
<1> DEFINE C == Each("clear", All)
<1> HIDE DEF C
<1>5. /\ Ordered(RemoveProgram, All + 1, All + All + 1)
      /\ \A v : Has(RemoveProgram, v) <=> v = "lookupKey" \/ Has(C, v)
      /\ \A v, t : HasTab(RemoveProgram, v, t) <=> HasTab(C, v, t)
  <2>1. /\ All + 1 \in Nat /\ All + 2 \in Nat /\ All + All + 1 \in Nat
        /\ All + 1 < All + 2 /\ All + 1 <= All + 1 /\ All + 2 <= All + All + 1
    BY <1>1
  <2> QED
    BY <1>2, <1>3, <1>4, <2>1, CatIs DEF C
<1> QED
  BY <1>3, <1>5 DEF C

\* SET n = {...}: as SET, after a loop that clears.
LEMMA ReplaceShape ==
  /\ Ordered(ReplaceProgram, 1, All + All + 2)
  /\ \A v : Has(ReplaceProgram, v) => v \in {"clearAll", "ensureKey", "clear", "put"}
  /\ Has(ReplaceProgram, "ensureKey") /\ Has(ReplaceProgram, "put")
  /\ \A t \in TabSet : HasTab(ReplaceProgram, "clear", t) /\ HasTab(ReplaceProgram, "clearAll", t)
<1>1. All \in Nat \ {0} /\ All \in 0 .. All /\ \A t \in TabSet : Place(t) <= All
  BY TablesAre
<1> QED
  BY <1>1, ClearAllIs, SetNodeShape, CatIs DEF ReplaceProgram

\* CREATE of a node and of an edge: as SET, after the INSERT.
CreateNodeProgram == <<<<"newNode">>>> \o SetNodeProgram
CreateEdgeProgram == <<<<"newEdge">>>> \o SetEdgeProgram

\* The statements of a CREATE, in order.
LEMMA CreateShape ==
  /\ Ordered(CreateNodeProgram, 0, All + All + 2)
  /\ \A v : Has(CreateNodeProgram, v) <=> v = "newNode" \/ Has(SetNodeProgram, v)
  /\ \A v, t : HasTab(CreateNodeProgram, v, t) <=> HasTab(SetNodeProgram, v, t)
  /\ Ordered(CreateEdgeProgram, 0, All + All + 2)
  /\ \A v : Has(CreateEdgeProgram, v) <=> v \in {"newEdge", "ensureKey", "put"}
  /\ \A v, t : ~HasTab(CreateEdgeProgram, v, t)
<1>1. All \in Nat \ {0}
  BY TablesAre
<1>2. ASSUME NEW x \in {"newNode", "newEdge"}
      PROVE  /\ Ordered(<<<<x>>>>, 0, 0)
             /\ \A w : Has(<<<<x>>>>, w) <=> w = x
             /\ \A w, t : ~HasTab(<<<<x>>>>, w, t)
  <2>1. x \in Verbs \ {"clear", "clearAll"} /\ Order(<<x>>) = 0 /\ 0 \in Nat
    BY OrderIs DEF Verbs
  <2> QED
    BY <2>1, SingleIs
<1>3. /\ Ordered(CreateNodeProgram, 0, All + All + 2)
      /\ \A v : Has(CreateNodeProgram, v) <=> v = "newNode" \/ Has(SetNodeProgram, v)
      /\ \A v, t : HasTab(CreateNodeProgram, v, t) <=> HasTab(SetNodeProgram, v, t)
  BY <1>1, <1>2, SetNodeShape, CatIs DEF CreateNodeProgram
<1>4. /\ Ordered(CreateEdgeProgram, 0, All + All + 2)
      /\ \A v : Has(CreateEdgeProgram, v) <=> v \in {"newEdge", "ensureKey", "put"}
      /\ \A v, t : ~HasTab(CreateEdgeProgram, v, t)
  BY <1>1, <1>2, SetEdgeShape, CatIs DEF CreateEdgeProgram
<1> QED
  BY <1>3, <1>4

\* DELETE of a node: what is to be cleared is cleared before the node goes.
LEMMA DeleteNodeShape ==
  ASSUME NEW detach \in BOOLEAN
  PROVE  LET P == DeleteNodeProgram(detach) IN
         /\ Ordered(P, 0, All + All + 2)
         /\ \A v : Has(P, v) => v \in {"noEdges", "dropEdges", "clearAll", "dropNode"}
         /\ P # <<>> /\ Verb(P, 1) \in {"noEdges", "dropEdges"} /\ Has(P, "dropNode")
         /\ \A t \in TabSet : t # "json" => HasTab(P, "clearAll", t)
         /\ \A t \in TabSet : HasTab(P, "clearAll", Tabs[All]) => HasTab(P, "clearAll", t)
<1>1. /\ All \in Nat \ {0} /\ BeforeJson \in 0 .. All
      /\ \A t \in TabSet : Place(t) <= All
      /\ \A t \in TabSet \ {"json"} : Place(t) <= BeforeJson
      /\ Tabs[All] \in TabSet /\ Place(Tabs[All]) = All
  BY TablesAre
<1> DEFINE x == IF detach THEN "dropEdges" ELSE "noEdges"
           C == Each("clearAll", BeforeJson)
           P == DeleteNodeProgram(detach)
<1>2. /\ Ordered(<<<<x>>>>, 0, 0)
      /\ \A w : Has(<<<<x>>>>, w) <=> w = x
      /\ \A w, t : ~HasTab(<<<<x>>>>, w, t)
  <2>1. x \in Verbs \ {"clear", "clearAll"} /\ Order(<<x>>) = 0 /\ 0 \in Nat
    BY OrderIs DEF Verbs
  <2> HIDE DEF x
  <2> QED
    BY <2>1, SingleIs
<1>3. /\ Ordered(<<<<"dropNode">>>>, All + All + 2, All + All + 2)
      /\ \A w : Has(<<<<"dropNode">>>>, w) <=> w = "dropNode"
      /\ \A w, t : ~HasTab(<<<<"dropNode">>>>, w, t)
  BY <1>1, OrderIs, SingleIs DEF Verbs
<1>4. P = (<<<<x>>>> \o C) \o <<<<"dropNode">>>>
  BY DEF DeleteNodeProgram
<1>5. /\ Ordered(C, 1, All) /\ \A w : Has(C, w) => w = "clearAll"
      /\ \A t \in TabSet : HasTab(C, "clearAll", t) <=> Place(t) <= BeforeJson
      /\ \A w, t : HasTab(C, w, t) => w = "clearAll"
  BY <1>1, ClearAllIs
<1>6. x \in {"noEdges", "dropEdges"}
  OBVIOUS
<1> HIDE DEF x, C, P
<1> DEFINE S == <<<<x>>>> \o C
<1>7. /\ Ordered(S, 0, All)
      /\ \A v : Has(S, v) <=> v = x \/ Has(C, v)
      /\ \A v, t : HasTab(S, v, t) <=> HasTab(C, v, t)
  BY <1>1, <1>2, <1>5, CatIs
<1>8. S \in Seq(Statement) /\ S # <<>> /\ S[1] = <<x>>
  BY <1>2, <1>5 DEF Ordered
<1> HIDE DEF S
<1>9. /\ Ordered(P, 0, All + All + 2)
      /\ \A v : Has(P, v) <=> Has(S, v) \/ v = "dropNode"
      /\ \A v, t : HasTab(P, v, t) <=> HasTab(S, v, t)
  BY <1>1, <1>3, <1>4, <1>7, CatIs DEF S
<1>10. P # <<>> /\ P[1] = <<x>>
  BY <1>3, <1>4, <1>8 DEF S, Ordered
<1>11. Verb(P, 1) \in {"noEdges", "dropEdges"}
  BY <1>6, <1>10 DEF Verb
<1>12. \A v : Has(P, v) => v \in {"noEdges", "dropEdges", "clearAll", "dropNode"}
  BY <1>5, <1>6, <1>7, <1>9
<1>13. \A t \in TabSet : HasTab(P, "clearAll", t) <=> Place(t) <= BeforeJson
  BY <1>5, <1>7, <1>9
<1>14. \A t \in TabSet : HasTab(P, "clearAll", Tabs[All]) => HasTab(P, "clearAll", t)
  BY <1>1, <1>13
<1> QED
  BY <1>1, <1>9, <1>10, <1>11, <1>12, <1>13, <1>14 DEF P

\* DELETE of an edge.
LEMMA DeleteEdgeShape ==
  /\ Ordered(DeleteEdgeProgram, 0, All + All + 2)
  /\ \A v : Has(DeleteEdgeProgram, v) => v \in {"clearAll", "dropEdge"}
  /\ Has(DeleteEdgeProgram, "dropEdge")
  /\ \A t \in TabSet : HasTab(DeleteEdgeProgram, "clearAll", Tabs[All])
                       => HasTab(DeleteEdgeProgram, "clearAll", t)
<1>1. /\ All \in Nat \ {0} /\ BeforeJson \in 0 .. All
      /\ \A t \in TabSet : Place(t) <= All
      /\ Tabs[All] \in TabSet /\ Place(Tabs[All]) = All
  BY TablesAre
<1>2. /\ Ordered(<<<<"dropEdge">>>>, All + All + 2, All + All + 2)
      /\ \A w : Has(<<<<"dropEdge">>>>, w) <=> w = "dropEdge"
      /\ \A w, t : ~HasTab(<<<<"dropEdge">>>>, w, t)
  BY <1>1, OrderIs, SingleIs DEF Verbs
<1> DEFINE C == Each("clearAll", BeforeJson)
           P == DeleteEdgeProgram
<1>3. /\ Ordered(C, 1, All) /\ \A w : Has(C, w) => w = "clearAll"
      /\ \A t \in TabSet : HasTab(C, "clearAll", t) <=> Place(t) <= BeforeJson
      /\ \A w, t : HasTab(C, w, t) => w = "clearAll"
  BY <1>1, ClearAllIs
<1>4. P = C \o <<<<"dropEdge">>>>
  BY DEF DeleteEdgeProgram
<1> HIDE DEF C, P
<1>5. /\ Ordered(P, 1, All + All + 2)
      /\ \A v : Has(P, v) <=> Has(C, v) \/ v = "dropEdge"
      /\ \A v, t : HasTab(P, v, t) <=> HasTab(C, v, t)
  BY <1>1, <1>2, <1>3, <1>4, CatIs
<1>6. Ordered(P, 0, All + All + 2)
  BY <1>1, <1>5 DEF Ordered
<1>7. \A t \in TabSet : HasTab(P, "clearAll", Tabs[All]) => HasTab(P, "clearAll", t)
  BY <1>1, <1>3, <1>5
<1> QED
  BY <1>3, <1>5, <1>6, <1>7 DEF P

\* All of them have a shape.
LEMMA ProgramShapes ==
  /\ Shape(SetNodeProgram) /\ Shape(SetEdgeProgram) /\ Shape(RemoveProgram)
  /\ Shape(ReplaceProgram) /\ Shape(CreateNodeProgram) /\ Shape(CreateEdgeProgram)
  /\ \A detach \in BOOLEAN : Shape(DeleteNodeProgram(detach))
  /\ Shape(DeleteEdgeProgram)
<1>1. All \in Nat \ {0}
  BY TablesAre
<1>2. ASSUME NEW T, NEW a \in Nat, NEW b \in Nat, Ordered(T, a, b), b <= All + All + 2
      PROVE  Ordered(T, 0, All + All + 2)
  BY <1>1, <1>2 DEF Ordered
<1>3. Shape(SetNodeProgram)
  <2>1. Ordered(SetNodeProgram, 0, All + All + 2)
    BY <1>1, <1>2, SetNodeShape
  <2> QED
    BY <2>1, SetNodeShape DEF Shape, Forms
<1>4. Shape(SetEdgeProgram)
  <2>1. Ordered(SetEdgeProgram, 0, All + All + 2)
    BY <1>1, <1>2, SetEdgeShape
  <2> QED
    BY <2>1, SetEdgeShape DEF Shape, Forms
<1>5. Shape(RemoveProgram)
  <2>1. Ordered(RemoveProgram, 0, All + All + 2)
    BY <1>1, <1>2, RemoveShape
  <2> QED
    BY <2>1, RemoveShape DEF Shape, Forms
<1>6. Shape(ReplaceProgram)
  <2>1. Ordered(ReplaceProgram, 0, All + All + 2)
    BY <1>1, <1>2, ReplaceShape
  <2> QED
    BY <2>1, ReplaceShape DEF Shape, Forms
<1>7. Shape(CreateNodeProgram)
  BY CreateShape, SetNodeShape DEF Shape, Forms
<1>8. Shape(CreateEdgeProgram)
  BY CreateShape DEF Shape, Forms
<1>9. ASSUME NEW detach \in BOOLEAN PROVE Shape(DeleteNodeProgram(detach))
  BY DeleteNodeShape DEF Shape, Forms
<1>10. Shape(DeleteEdgeProgram)
  BY DeleteEdgeShape DEF Shape, Forms
<1> QED
  BY <1>3, <1>4, <1>5, <1>6, <1>7, <1>8, <1>9, <1>10

\* What the first statement tells of the others.
LEMMA HeadIs ==
  ASSUME NEW T, Shape(T), T # <<>>
  PROVE  LET v == Head(T)[1]
             R == Tail(T)
         IN /\ v \in Verbs /\ Has(T, v) /\ Verb(T, 1) = v /\ Head(T) = T[1]
            /\ v \in {"put", "dropNode", "dropEdge"} => Len(T) = 1
            /\ Len(T) = 1 => \A w : Has(T, w) => w = v
            /\ v \in {"clear", "clearAll"} =>
                 /\ Head(T)[2] \in TabSet /\ T[1] = <<v, Head(T)[2]>>
                 /\ ~HasTab(R, v, Head(T)[2])
                 /\ Head(T)[2] = Tabs[All] => ~Has(R, v)
            /\ v = "clear" => ~Has(T, "ensureKey") /\ ~Has(T, "lookupKey") /\ ~Has(T, "clearAll")
            /\ v \in {"ensureKey", "lookupKey"} =>
                 ~Has(R, "ensureKey") /\ ~Has(R, "lookupKey") /\ ~Has(R, "clearAll")
            /\ \A w \in {"newNode", "newEdge", "noEdges", "dropEdges"} : ~Has(R, w)
<1> DEFINE v == Head(T)[1]
           R == Tail(T)
<1>1. /\ T \in Seq(Statement) /\ R \in Seq(Statement) /\ Len(T) \in Nat \ {0}
      /\ DOMAIN T = 1 .. Len(T) /\ DOMAIN R = 1 .. (Len(T) - 1) /\ T[1] = Head(T)
      /\ \A i \in DOMAIN R : R[i] = T[i + 1] /\ i + 1 \in DOMAIN T /\ 1 < i + 1
      /\ 1 \in DOMAIN T /\ Verb(T, 1) = v /\ v \in Verbs
  BY DEF Shape, Ordered, Verb, Statement
<1> HIDE DEF R
<1>2. All \in Nat \ {0} /\ \A t \in TabSet : Place(t) \in 1 .. All
      /\ Tabs[All] \in TabSet /\ Place(Tabs[All]) = All
  BY TablesAre
<1>3. \A i \in DOMAIN T : Order(T[i]) \in 0 .. (All + All + 2) /\ (1 < i => Order(T[1]) < Order(T[i]))
  BY <1>1 DEF Shape, Ordered
<1>4. ASSUME NEW i \in DOMAIN T
      PROVE  /\ Verb(T, i) \in {"newNode", "newEdge", "noEdges", "dropEdges"} => Order(T[i]) = 0
             /\ Verb(T, i) = "clearAll" => /\ T[i][2] \in TabSet /\ T[i] = <<"clearAll", T[i][2]>>
                                          /\ Order(T[i]) = Place(T[i][2]) /\ Place(T[i][2]) \in 1 .. All
             /\ Verb(T, i) \in {"ensureKey", "lookupKey"} => Order(T[i]) = All + 1
             /\ Verb(T, i) = "clear" => /\ T[i][2] \in TabSet /\ T[i] = <<"clear", T[i][2]>>
                                       /\ Order(T[i]) = All + 1 + Place(T[i][2]) /\ Place(T[i][2]) \in 1 .. All
             /\ Verb(T, i) \in {"put", "dropNode", "dropEdge"} => Order(T[i]) = All + All + 2
  <2>1. Verb(T, i) \in {"clear", "clearAll"} => T[i][2] \in TabSet /\ T[i] = <<Verb(T, i), T[i][2]>>
    BY DEF Shape, Ordered
  <2> QED
    BY <1>2, <2>1 DEF Order, Verb
<1>5. \A i \in DOMAIN R : Verb(R, i) = Verb(T, i + 1)
  BY <1>1 DEF Verb
<1>6. v \in {"put", "dropNode", "dropEdge"} => Len(T) = 1
  <2>1. v \in {"put", "dropNode", "dropEdge"} /\ Len(T) # 1 => 2 \in DOMAIN T /\ Order(T[1]) = All + All + 2
    BY <1>1, <1>4
  <2> QED
    BY <1>2, <1>3, <2>1
<1>7. Len(T) = 1 => \A w : Has(T, w) => w = v
  BY <1>1 DEF Has
<1>8. ASSUME v \in {"clear", "clearAll"}
      PROVE  /\ Head(T)[2] \in TabSet /\ T[1] = <<v, Head(T)[2]>>
             /\ ~HasTab(R, v, Head(T)[2])
             /\ Head(T)[2] = Tabs[All] => ~Has(R, v)
  <2>1. Head(T)[2] \in TabSet /\ T[1] = <<v, Head(T)[2]>>
    BY <1>1, <1>4, <1>8
  <2>2. \A i \in DOMAIN R : R[i] # T[1]
    BY <1>1, <1>2, <1>3
  <2>3. ASSUME Head(T)[2] = Tabs[All], NEW i \in DOMAIN R, Verb(R, i) = v PROVE FALSE
    <3>1. i + 1 \in DOMAIN T /\ Verb(T, i + 1) = v /\ Order(T[1]) < Order(T[i + 1])
      BY <1>1, <1>3, <1>5, <2>3
    <3>2. CASE v = "clear"
      BY <1>1, <1>2, <1>4, <2>3, <3>1, <3>2
    <3>3. CASE v = "clearAll"
      BY <1>1, <1>2, <1>4, <2>3, <3>1, <3>3
    <3> QED
      BY <1>8, <3>2, <3>3
  <2> QED
    BY <2>1, <2>2, <2>3 DEF HasTab, Has
<1>9. ASSUME v = "clear" PROVE ~Has(T, "ensureKey") /\ ~Has(T, "lookupKey") /\ ~Has(T, "clearAll")
  <2> SUFFICES ASSUME NEW i \in DOMAIN T, Verb(T, i) \in {"ensureKey", "lookupKey", "clearAll"} PROVE FALSE
    BY DEF Has
  <2>1. i # 1 /\ 1 < i
    BY <1>1, <1>9
  <2> QED
    BY <1>1, <1>2, <1>3, <1>4, <1>9, <2>1
<1>10. ASSUME v \in {"ensureKey", "lookupKey"}
       PROVE  ~Has(R, "ensureKey") /\ ~Has(R, "lookupKey") /\ ~Has(R, "clearAll")
  <2> SUFFICES ASSUME NEW i \in DOMAIN R, Verb(R, i) \in {"ensureKey", "lookupKey", "clearAll"} PROVE FALSE
    BY DEF Has
  <2>1. i + 1 \in DOMAIN T /\ Verb(T, i + 1) \in {"ensureKey", "lookupKey", "clearAll"}
        /\ Order(T[1]) < Order(T[i + 1])
    BY <1>1, <1>3, <1>5
  <2> QED
    BY <1>1, <1>2, <1>4, <1>10, <2>1
<1>11. \A w \in {"newNode", "newEdge", "noEdges", "dropEdges"} : ~Has(R, w)
  <2> SUFFICES ASSUME NEW i \in DOMAIN R, Verb(R, i) \in {"newNode", "newEdge", "noEdges", "dropEdges"} PROVE FALSE
    BY DEF Has
  <2>1. i + 1 \in DOMAIN T /\ Order(T[i + 1]) = 0 /\ Order(T[1]) < Order(T[i + 1]) /\ Order(T[1]) \in Nat
    BY <1>1, <1>3, <1>4, <1>5
  <2> QED
    BY <2>1
<1>12. Has(T, v)
  BY <1>1 DEF Has
<1> QED
  BY <1>1, <1>6, <1>7, <1>8, <1>9, <1>10, <1>11, <1>12 DEF R

-----------------------------------------------------------------------------
(* Types                                                                   *)

Pairs == (1 .. MaxNode) \X (1 .. MaxNode)
CallType ==
  [todo : Seq(Statement), matching : BOOLEAN, of : Owners \cup {None}, ends : Pairs \cup {None},
   name : Names \cup {None}, tab : TabSet \cup {None}, key : Nat]
SaidType == [Owners -> [Names -> TabSet \cup {"unknown", None}]]
Entry == [name : Names, id : Nat \ {0}]

Typed ==
  /\ db \in Tables /\ said \in SaidType
  /\ saved \in [db : Tables, said : SaidType]
  /\ txn \in Conns \cup {None}
  /\ cache \in [Conns -> [Slots -> Entry \cup {None}]]

OfNode(r) == r.of # None /\ r.of[1] = "node"
OfEdge(r) == r.of # None /\ r.of[1] = "edge"
Keyed(T) == ~Has(T, "ensureKey") /\ ~Has(T, "lookupKey")

\* What the fields of a call have to do with the statements it has left.
Fits(r) == LET T == r.todo IN
  /\ Shape(T)
  /\ Has(T, "newNode") \/ Has(T, "newEdge") <=> r.of = None
  /\ r.of = None => Has(T, "ensureKey") /\ Has(T, "put")
  /\ Has(T, "newEdge") => r.ends \in Pairs /\ r.tab \in EdgeTabs
  /\ Has(T, "put") \/ Has(T, "clear") \/ ~Keyed(T) => r.name \in Names
  /\ Has(T, "put") => r.tab \in TabSet
  /\ Has(T, "put") /\ OfEdge(r) => r.tab \in EdgeTabs
  /\ (Has(T, "put") \/ Has(T, "clear")) /\ Keyed(T) => r.key # 0
  /\ Has(T, "dropNode") \/ Has(T, "noEdges") \/ Has(T, "dropEdges") => OfNode(r) /\ Has(T, "dropNode")
  /\ Has(T, "dropEdge") => OfEdge(r)
  /\ Has(T, "lookupKey") \/ (Has(T, "ensureKey") /\ (Has(T, "newNode") \/ OfNode(r))) =>
       \A t \in TabSet : HasTab(T, "clear", t)

\* What is left when the first statement has run.
LEMMA FitsTail ==
  ASSUME NEW r \in CallType, NEW q \in CallType, Fits(r), r.todo # <<>>, q.todo = Tail(r.todo),
         q.name = r.name, q.tab = r.tab,
         Head(r.todo)[1] \notin {"newNode", "newEdge"} => q.of = r.of,
         Head(r.todo)[1] = "newNode" => OfNode(q),
         Head(r.todo)[1] = "newEdge" => OfEdge(q),
         q.key = r.key \/ q.key # 0,
         Head(r.todo)[1] \in {"ensureKey", "lookupKey"} => q.key # 0
  PROVE  Fits(q)
<1> DEFINE T == r.todo
           R == q.todo
           v == Head(T)[1]
<1>1. /\ Shape(T) /\ Shape(R)
      /\ \A w : Has(R, w) => Has(T, w)
      /\ \A w : Has(T, w) /\ v # w => Has(R, w)
      /\ \A w, t : HasTab(T, w, t) /\ T[1] # <<w, t>> => HasTab(R, w, t)
  BY ShapeTail, HeadIs DEF Fits
<1>2. /\ v \in {"ensureKey", "lookupKey"} => ~Has(R, "ensureKey") /\ ~Has(R, "lookupKey")
      /\ \A w \in {"newNode", "newEdge", "noEdges", "dropEdges"} : ~Has(R, w)
      /\ v = "clear" => ~Has(T, "ensureKey") /\ ~Has(T, "lookupKey")
      /\ Has(T, v)
  BY <1>1, HeadIs
<1>3. T[1][1] = v
  BY <1>1, HeadIs DEF Verb
<1>4. \E form \in Forms : \A w : Has(T, w) => w \in form
  BY <1>1 DEF Shape
<1>5. /\ Has(T, "newNode") \/ Has(T, "newEdge") <=> r.of = None
      /\ r.of = None => Has(T, "ensureKey") /\ Has(T, "put")
      /\ Has(T, "newEdge") => r.ends \in Pairs /\ r.tab \in EdgeTabs
      /\ Has(T, "put") \/ Has(T, "clear") \/ ~Keyed(T) => r.name \in Names
      /\ Has(T, "put") => r.tab \in TabSet
      /\ Has(T, "put") /\ OfEdge(r) => r.tab \in EdgeTabs
      /\ (Has(T, "put") \/ Has(T, "clear")) /\ Keyed(T) => r.key # 0
      /\ Has(T, "dropNode") \/ Has(T, "noEdges") \/ Has(T, "dropEdges") => OfNode(r) /\ Has(T, "dropNode")
      /\ Has(T, "dropEdge") => OfEdge(r)
      /\ Has(T, "lookupKey") \/ (Has(T, "ensureKey") /\ (Has(T, "newNode") \/ OfNode(r))) =>
           \A t \in TabSet : HasTab(T, "clear", t)
  BY DEF Fits
<1> HIDE DEF T, R, v
<1>6. q.of # None
  <2>1. CASE v \in {"newNode", "newEdge"}
    BY <2>1 DEF OfNode, OfEdge, T, v
  <2>2. CASE v \notin {"newNode", "newEdge"}
    <3>1. ~Has(T, "newNode") /\ ~Has(T, "newEdge")
      BY <1>1, <1>2, <2>2
    <3> QED
      BY <1>5, <2>2, <3>1 DEF T, v
  <2> QED
    BY <2>1, <2>2
<1>7. Has(R, "dropNode") \/ Has(R, "noEdges") \/ Has(R, "dropEdges") => OfNode(q) /\ Has(R, "dropNode")
  <2>1. Has(R, "dropNode") => OfNode(r) /\ v \notin {"newNode", "newEdge"}
    BY <1>1, <1>2, <1>4, <1>5 DEF Forms
  <2> QED
    BY <1>2, <2>1 DEF OfNode, T, v
<1>8. Has(R, "dropEdge") => OfEdge(q)
  <2>1. Has(R, "dropEdge") => OfEdge(r) /\ v \notin {"newNode", "newEdge"}
    BY <1>1, <1>2, <1>4, <1>5 DEF Forms
  <2> QED
    BY <2>1 DEF OfEdge, T, v
<1>9. /\ Has(R, "put") \/ Has(R, "clear") \/ ~Keyed(R) => q.name \in Names
      /\ Has(R, "put") => q.tab \in TabSet
  BY <1>1, <1>5 DEF Keyed
<1>10. Has(R, "put") /\ OfEdge(q) => q.tab \in EdgeTabs
  BY <1>1, <1>2, <1>5 DEF OfEdge, OfNode, T, v
<1>11. (Has(R, "put") \/ Has(R, "clear")) /\ Keyed(R) => q.key # 0
  BY <1>1, <1>5 DEF Keyed, T, v
<1>12. Has(R, "lookupKey") \/ (Has(R, "ensureKey") /\ (Has(R, "newNode") \/ OfNode(q))) =>
         \A t \in TabSet : HasTab(R, "clear", t)
  <2> SUFFICES ASSUME Has(R, "lookupKey") \/ (Has(R, "ensureKey") /\ OfNode(q)),
                      NEW t \in TabSet
               PROVE  HasTab(R, "clear", t)
    BY <1>2
  <2>1. v # "clear"
    BY <1>1, <1>2
  <2>2. HasTab(T, "clear", t)
    <3>1. CASE Has(R, "lookupKey")
      BY <1>1, <1>5, <3>1
    <3>2. CASE Has(R, "ensureKey") /\ OfNode(q)
      <4>1. Has(T, "newNode") \/ OfNode(r)
        BY <1>2, <3>2 DEF OfNode, OfEdge, T, v
      <4> QED
        BY <1>1, <1>5, <3>2, <4>1
    <3> QED
      BY <3>1, <3>2
  <2>3. T[1] # <<"clear", t>>
    BY <1>3, <2>1
  <2> QED
    BY <1>1, <2>2, <2>3
<1> QED
  BY <1>1, <1>2, <1>6, <1>7, <1>8, <1>9, <1>10, <1>11, <1>12 DEF Fits, R

\* The calls in progress.
CallInv ==
  /\ call \in [Conns -> CallType]
  /\ \A c \in Conns : IF call[c].todo = <<>> THEN call[c] = Idle ELSE Fits(call[c])

\* A connection in no call.
LEMMA IdleIs ==
  /\ Idle \in CallType /\ Idle.todo = <<>> /\ Idle.of = None /\ Idle.ends = None
  /\ Idle.name = None /\ Idle.tab = None /\ Idle.key = 0 /\ Idle.matching = FALSE
BY DEF Idle, CallType

\* The call of c goes on after its first statement, and becomes what "with" has
\* of everything else.
WentOn(c, with) ==
  /\ \A d \in Conns \ {c} : call'[d] = call[d]
  /\ IF Len(call[c].todo) = 1 THEN call'[c] = Idle
     ELSE /\ call'[c].todo = Tail(call[c].todo) /\ call'[c].todo # <<>>
          /\ call'[c].of = with.of /\ call'[c].ends = with.ends /\ call'[c].name = with.name
          /\ call'[c].tab = with.tab /\ call'[c].key = with.key
          /\ call'[c].matching = with.matching

\* GoOn takes the first statement away, and ends the call after the last.
LEMMA GoOnIs ==
  ASSUME CallInv, NEW c \in Conns, NEW with \in CallType, GoOn(c, with),
         call[c].todo # <<>>, with.todo = call[c].todo,
         with.name = call[c].name, with.tab = call[c].tab,
         Head(call[c].todo)[1] \notin {"newNode", "newEdge"} => with.of = call[c].of,
         Head(call[c].todo)[1] = "newNode" => OfNode(with),
         Head(call[c].todo)[1] = "newEdge" => OfEdge(with),
         with.key = call[c].key \/ with.key # 0,
         Head(call[c].todo)[1] \in {"ensureKey", "lookupKey"} => with.key # 0
  PROVE  CallInv' /\ WentOn(c, with)
<1> DEFINE T == call[c].todo
           q == [with EXCEPT !.todo = Tail(with.todo)]
<1>1. call \in [Conns -> CallType] /\ call[c] \in CallType /\ Fits(call[c]) /\ T \in Seq(Statement)
  BY DEF CallInv, CallType
<1>2. call' = [call EXCEPT ![c] = IF Len(T) = 1 THEN Idle ELSE q]
  BY DEF GoOn
<1>3. Tail(T) \in Seq(Statement) /\ (Len(T) # 1 => Tail(T) # <<>>)
  <2> HIDE DEF T
  <2>1. T # <<>>
    BY DEF T
  <2>2. T \in Seq(Statement) /\ Len(T) \in Nat \ {0} /\ Tail(T) \in Seq(Statement) /\ Len(Tail(T)) = Len(T) - 1
    BY <1>1, <2>1
  <2> QED
    BY <2>2
<1>4. /\ q \in CallType /\ q.todo = Tail(T) /\ q.of = with.of /\ q.ends = with.ends /\ q.name = with.name
      /\ q.tab = with.tab /\ q.key = with.key /\ q.matching = with.matching
  BY <1>3 DEF CallType
<1> HIDE DEF q
<1>5. Fits(q)
  BY <1>1, <1>4, FitsTail DEF OfNode, OfEdge
<1>6. CASE Len(T) = 1
  <2>1. call'[c] = Idle /\ \A d \in Conns \ {c} : call'[d] = call[d]
    BY <1>1, <1>2, <1>6
  <2>2. call' \in [Conns -> CallType]
    BY <1>1, <1>2, <1>6, IdleIs
  <2>3. CallInv'
    BY <2>1, <2>2, IdleIs DEF CallInv
  <2> QED
    BY <1>6, <2>1, <2>3 DEF WentOn
<1>7. CASE Len(T) # 1
  <2>1. call'[c] = q /\ \A d \in Conns \ {c} : call'[d] = call[d]
    BY <1>1, <1>2, <1>7
  <2>2. call' \in [Conns -> CallType]
    BY <1>1, <1>2, <1>4, <1>7
  <2>3. CallInv'
    BY <1>3, <1>4, <1>5, <1>7, <2>1, <2>2 DEF CallInv
  <2> QED
    BY <1>3, <1>4, <1>7, <2>1, <2>3 DEF WentOn
<1> QED
  BY <1>6, <1>7

\* A statement that changes nothing of its call.
LEMMA GoOnSame ==
  ASSUME CallInv, NEW c \in Conns, GoOn(c, call[c]), call[c].todo # <<>>,
         Head(call[c].todo)[1] \notin {"newNode", "newEdge", "ensureKey", "lookupKey"}
  PROVE  CallInv' /\ WentOn(c, call[c])
<1>1. call[c] \in CallType
  BY DEF CallInv
<1> QED
  BY <1>1, GoOnIs

\* A call that ends.
LEMMA ReturnIs ==
  ASSUME CallInv, NEW c \in Conns, Return(c)
  PROVE  CallInv' /\ call'[c] = Idle /\ \A d \in Conns \ {c} : call'[d] = call[d]
<1>1. call \in [Conns -> CallType] /\ call' = [call EXCEPT ![c] = Idle]
  BY DEF CallInv, Return
<1>2. call' \in [Conns -> CallType] /\ call'[c] = Idle /\ \A d \in Conns \ {c} : call'[d] = call[d]
  BY <1>1, IdleIs
<1> QED
  BY <1>2, IdleIs DEF CallInv

\* A call that begins.
LEMMA StartIs ==
  ASSUME CallInv, NEW c \in Conns, NEW r \in CallType, Fits(r), r.todo # <<>>, Start(c, r)
  PROVE  /\ CallInv' /\ call'[c] = r /\ call[c] = Idle /\ \A d \in Conns \ {c} : call'[d] = call[d]
         /\ txn \in {None, c} /\ (~Interleave => \A d \in Conns : call[d] = Idle)
         /\ UNCHANGED <<db, said, saved, txn, cache>>
<1>1. call \in [Conns -> CallType] /\ call' = [call EXCEPT ![c] = r]
  BY DEF CallInv, Start
<1>2. call' \in [Conns -> CallType] /\ call'[c] = r /\ \A d \in Conns \ {c} : call'[d] = call[d]
  BY <1>1
<1> QED
  BY <1>2 DEF CallInv, Start, CanStart

TypeInv == Typed /\ CallInv

\* What else is so when a call begins: it is about something that is there, and
\* its program does everything in the order that the invariants below need.
Begun(r) == LET T == r.todo IN
  /\ r.of # None => Exists(r.of)
  /\ Has(T, "newEdge") => {r.ends[1], r.ends[2]} \subseteq db.nodes
  /\ Has(T, "put") \/ Has(T, "clear") => ~Keyed(T)
  /\ Has(T, "dropNode") => /\ Verb(T, 1) \in {"noEdges", "dropEdges"}
                           /\ \A t \in TabSet \ {"json"} : HasTab(T, "clearAll", t)
  /\ Has(T, "clear") => \A t \in TabSet : HasTab(T, "clear", t)
  /\ HasTab(T, "clearAll", Tabs[All]) => /\ r.of # None
                                        /\ \A t \in TabSet : HasTab(T, "clearAll", t)

\* Every call begins with a program whose statements fit together.
LEMMA CallsBegin ==
  ASSUME TypeInv, NEW c \in Conns, Calls(c)
  PROVE  \E r \in CallType : Fits(r) /\ Begun(r) /\ r.todo # <<>> /\ Start(c, r)
<1>1. /\ db \in Tables /\ db.nodes \subseteq 1 .. MaxNode /\ None \notin Owners
      /\ \A n \in 1 .. MaxNode : Node(n) \in Owners /\ Node(n)[1] = "node" /\ Node(n)[2] = n
      /\ \A e \in 1 .. MaxEdge : Edge(e) \in Owners /\ Edge(e)[1] = "edge"
      /\ EdgeTabs \subseteq TabSet
  BY ConstantsAssumption DEF TypeInv, Typed, Tables, Owners, Node, Edge, TabSet
<1>2. \A T \in Seq(Statement) : (\E v : Has(T, v)) => T # <<>>
  BY DEF Has
<1>3. ASSUME NEW T, Shape(T) PROVE T \in Seq(Statement)
  BY <1>3 DEF Shape, Ordered
<1>4. ASSUME NEW n \in 1 .. MaxNode, NEW a \in Names, NEW t \in TabSet, SetNode(c, n, a, t)
      PROVE  \E r \in CallType : Fits(r) /\ Begun(r) /\ r.todo # <<>> /\ Start(c, r)
  <2> DEFINE r == [Idle EXCEPT !.todo = SetNodeProgram, !.matching = TRUE,
                               !.of = Node(n), !.name = a, !.tab = t]
  <2>1. Shape(SetNodeProgram) /\ SetNodeProgram \in Seq(Statement) /\ SetNodeProgram # <<>>
    BY <1>2, <1>3, ProgramShapes, SetNodeShape
  <2>2. r \in CallType /\ r.todo = SetNodeProgram /\ r.of = Node(n) /\ r.name = a /\ r.tab = t
    BY <1>1, <2>1 DEF Idle, CallType
  <2>3. Start(c, r) /\ Exists(Node(n))
    BY <1>1, <1>4 DEF SetNode, Exists
  <2> HIDE DEF r
  <2>4. Fits(r)
    BY <1>1, <2>1, <2>2, SetNodeShape DEF Fits, OfEdge, OfNode, Keyed
  <2>5. Begun(r)
    BY <1>1, <2>2, <2>3, SetNodeShape DEF Begun, Keyed
  <2> QED
    BY <2>1, <2>2, <2>3, <2>4, <2>5
<1>5. ASSUME NEW n \in 1 .. MaxNode, NEW a \in Names, NEW t \in TabSet, Replace(c, n, a, t)
      PROVE  \E r \in CallType : Fits(r) /\ Begun(r) /\ r.todo # <<>> /\ Start(c, r)
  <2> DEFINE r == [Idle EXCEPT !.todo = ReplaceProgram, !.matching = TRUE,
                               !.of = Node(n), !.name = a, !.tab = t]
  <2>1. Shape(ReplaceProgram) /\ ReplaceProgram \in Seq(Statement) /\ ReplaceProgram # <<>>
    BY <1>2, <1>3, ProgramShapes, ReplaceShape
  <2>2. r \in CallType /\ r.todo = ReplaceProgram /\ r.of = Node(n) /\ r.name = a /\ r.tab = t
    BY <1>1, <2>1 DEF Idle, CallType
  <2>3. Start(c, r) /\ Exists(Node(n))
    BY <1>1, <1>5 DEF Replace, Exists
  <2> HIDE DEF r
  <2>4. Fits(r)
    BY <1>1, <2>1, <2>2, ReplaceShape DEF Fits, OfEdge, OfNode, Keyed
  <2>5. Begun(r)
    BY <1>1, <2>2, <2>3, ReplaceShape DEF Begun, Keyed
  <2> QED
    BY <2>1, <2>2, <2>3, <2>4, <2>5
<1>6. ASSUME NEW e \in 1 .. MaxEdge, NEW a \in Names, NEW t \in EdgeTabs, SetEdge(c, e, a, t)
      PROVE  \E r \in CallType : Fits(r) /\ Begun(r) /\ r.todo # <<>> /\ Start(c, r)
  <2> DEFINE r == [Idle EXCEPT !.todo = SetEdgeProgram, !.matching = TRUE,
                               !.of = Edge(e), !.name = a, !.tab = t]
  <2>1. Shape(SetEdgeProgram) /\ SetEdgeProgram \in Seq(Statement) /\ SetEdgeProgram # <<>>
    BY <1>2, <1>3, ProgramShapes, SetEdgeShape
  <2>2. r \in CallType /\ r.todo = SetEdgeProgram /\ r.of = Edge(e) /\ r.name = a /\ r.tab = t
    BY <1>1, <2>1 DEF Idle, CallType
  <2>3. Start(c, r) /\ Exists(Edge(e))
    BY <1>6 DEF SetEdge
  <2> HIDE DEF r
  <2>4. Fits(r)
    BY <1>1, <2>1, <2>2, SetEdgeShape DEF Fits, OfEdge, OfNode, Keyed
  <2>5. Begun(r)
    BY <1>1, <2>2, <2>3, SetEdgeShape DEF Begun, Keyed
  <2> QED
    BY <2>1, <2>2, <2>3, <2>4, <2>5
<1>7. ASSUME NEW o \in Owners, NEW a \in Names, Remove(c, o, a)
      PROVE  \E r \in CallType : Fits(r) /\ Begun(r) /\ r.todo # <<>> /\ Start(c, r)
  <2> DEFINE r == [Idle EXCEPT !.todo = RemoveProgram, !.matching = TRUE, !.of = o, !.name = a]
  <2>1. Shape(RemoveProgram) /\ RemoveProgram \in Seq(Statement) /\ RemoveProgram # <<>>
    BY <1>2, <1>3, ProgramShapes, RemoveShape
  <2>2. r \in CallType /\ r.todo = RemoveProgram /\ r.of = o /\ r.name = a
    BY <1>1, <2>1 DEF Idle, CallType
  <2>3. Start(c, r) /\ Exists(o)
    BY <1>7 DEF Remove
  <2> HIDE DEF r
  <2>4. Fits(r)
    BY <1>1, <2>1, <2>2, RemoveShape DEF Fits, OfEdge, OfNode, Keyed
  <2>5. Begun(r)
    BY <1>1, <2>2, <2>3, RemoveShape DEF Begun, Keyed
  <2> QED
    BY <2>1, <2>2, <2>3, <2>4, <2>5
<1>8. ASSUME NEW a \in Names, NEW t \in TabSet, CreateNode(c, a, t)
      PROVE  \E r \in CallType : Fits(r) /\ Begun(r) /\ r.todo # <<>> /\ Start(c, r)
  <2> DEFINE r == [Idle EXCEPT !.name = a, !.tab = t, !.todo = CreateNodeProgram]
  <2>1. Shape(CreateNodeProgram) /\ CreateNodeProgram \in Seq(Statement) /\ CreateNodeProgram # <<>>
    BY <1>2, <1>3, ProgramShapes, CreateShape
  <2>2. r \in CallType /\ r.todo = CreateNodeProgram /\ r.of = None /\ r.name = a /\ r.tab = t
    BY <1>1, <2>1 DEF Idle, CallType
  <2>3. Start(c, r)
    BY <1>8 DEF CreateNode, CreateNodeProgram
  <2> HIDE DEF r
  <2>4. Fits(r)
    BY <1>1, <2>1, <2>2, CreateShape, SetNodeShape DEF Fits, OfEdge, OfNode, Keyed
  <2>5. Begun(r)
    BY <1>1, <2>2, <2>3, CreateShape, SetNodeShape DEF Begun, Keyed
  <2> QED
    BY <2>1, <2>2, <2>3, <2>4, <2>5
<1>9. ASSUME NEW n \in 1 .. MaxNode, NEW m \in 1 .. MaxNode, NEW a \in Names, NEW t \in EdgeTabs,
             CreateEdge(c, n, m, a, t)
      PROVE  \E r \in CallType : Fits(r) /\ Begun(r) /\ r.todo # <<>> /\ Start(c, r)
  <2> DEFINE r == [Idle EXCEPT !.ends = <<n, m>>, !.name = a, !.tab = t, !.todo = CreateEdgeProgram]
  <2>1. Shape(CreateEdgeProgram) /\ CreateEdgeProgram \in Seq(Statement) /\ CreateEdgeProgram # <<>>
    BY <1>2, <1>3, ProgramShapes, CreateShape
  <2>2. /\ r \in CallType /\ r.todo = CreateEdgeProgram /\ r.of = None /\ r.name = a /\ r.tab = t
        /\ r.ends = <<n, m>> /\ r.ends \in Pairs
    BY <1>1, <2>1 DEF Idle, CallType, Pairs
  <2>3. Start(c, r) /\ {n, m} \subseteq db.nodes
    BY <1>9 DEF CreateEdge, CreateEdgeProgram
  <2> HIDE DEF r
  <2>4. Fits(r)
    BY <1>1, <2>1, <2>2, CreateShape DEF Fits, OfEdge, OfNode, Keyed
  <2>5. Begun(r)
    BY <1>1, <2>2, <2>3, CreateShape DEF Begun, Keyed
  <2> QED
    BY <2>1, <2>2, <2>3, <2>4, <2>5
<1>10. ASSUME NEW n \in 1 .. MaxNode, NEW detach \in BOOLEAN, DeleteNode(c, n, detach)
       PROVE  \E r \in CallType : Fits(r) /\ Begun(r) /\ r.todo # <<>> /\ Start(c, r)
  <2> DEFINE P == DeleteNodeProgram(detach)
             r == [Idle EXCEPT !.of = Node(n), !.todo = P]
  <2>1. Shape(P) /\ P \in Seq(Statement) /\ P # <<>>
    BY <1>2, <1>3, ProgramShapes, DeleteNodeShape
  <2>2. r \in CallType /\ r.todo = P /\ r.of = Node(n)
    BY <1>1, <2>1 DEF Idle, CallType
  <2>3. Start(c, r) /\ Exists(Node(n))
    BY <1>1, <1>10 DEF DeleteNode, Exists
  <2>4. /\ \A v : Has(P, v) => v \in {"noEdges", "dropEdges", "clearAll", "dropNode"}
        /\ Verb(P, 1) \in {"noEdges", "dropEdges"} /\ Has(P, "dropNode")
        /\ \A t \in TabSet : t # "json" => HasTab(P, "clearAll", t)
        /\ \A t \in TabSet : HasTab(P, "clearAll", Tabs[All]) => HasTab(P, "clearAll", t)
    BY DeleteNodeShape
  <2> HIDE DEF r, P
  <2>5. Fits(r)
    BY <1>1, <2>1, <2>2, <2>4 DEF Fits, OfEdge, OfNode, Keyed
  <2>6. Begun(r)
    BY <1>1, <2>2, <2>3, <2>4 DEF Begun, Keyed
  <2> QED
    BY <2>1, <2>2, <2>3, <2>5, <2>6
<1>11. ASSUME NEW e \in 1 .. MaxEdge, DeleteEdge(c, e)
       PROVE  \E r \in CallType : Fits(r) /\ Begun(r) /\ r.todo # <<>> /\ Start(c, r)
  <2> DEFINE r == [Idle EXCEPT !.of = Edge(e), !.todo = DeleteEdgeProgram]
  <2>1. Shape(DeleteEdgeProgram) /\ DeleteEdgeProgram \in Seq(Statement) /\ DeleteEdgeProgram # <<>>
    BY <1>2, <1>3, ProgramShapes, DeleteEdgeShape
  <2>2. r \in CallType /\ r.todo = DeleteEdgeProgram /\ r.of = Edge(e)
    BY <1>1, <2>1 DEF Idle, CallType
  <2>3. Start(c, r) /\ Exists(Edge(e))
    BY <1>11 DEF DeleteEdge
  <2> HIDE DEF r
  <2>4. Fits(r)
    BY <1>1, <2>1, <2>2, DeleteEdgeShape DEF Fits, OfEdge, OfNode, Keyed
  <2>5. Begun(r)
    BY <1>1, <2>2, <2>3, DeleteEdgeShape DEF Begun, Keyed
  <2> QED
    BY <2>1, <2>2, <2>3, <2>4, <2>5
<1> QED
  BY <1>4, <1>5, <1>6, <1>7, <1>8, <1>9, <1>10, <1>11 DEF Calls
-----------------------------------------------------------------------------
(* What each step does to the calls, and that the types are kept.          *)

\* A connection about to run a statement.
LEMMA AtIs ==
  ASSUME TypeInv, NEW c \in Conns, NEW v, At(c, v)
  PROVE  LET T == call[c].todo IN
         /\ T # <<>> /\ Fits(call[c]) /\ Shape(T) /\ Head(T)[1] = v /\ Has(T, v) /\ txn \in {None, c}
         /\ call[c] \in CallType /\ call[c].todo \in Seq(Statement)
BY HeadIs DEF TypeInv, CallInv, Fits, At, CallType

\* A key that was found: in the cache, or in property_keys.
LEMMA FindKeyDoes ==
  ASSUME TypeInv, NEW c \in Conns, FindKey(c)
  PROVE  /\ TypeInv' /\ UNCHANGED <<db, said, saved, txn>>
         /\ call[c].name \in Names
         /\ \E v \in {"ensureKey", "lookupKey"} : At(c, v)
         /\ \E k \in Nat \ {0} : /\ WentOn(c, [call[c] EXCEPT !.key = k])
                                 /\ \/ k = cache[c][Hash[call[c].name]].id /\ CacheHit(c, call[c].name)
                                       /\ UNCHANGED cache
                                    \/ k \in KeyIds(call[c].name) /\ Remember(c, call[c].name, k)
<1> DEFINE a == call[c].name
<1>1. PICK v \in {"ensureKey", "lookupKey"} : At(c, v)
  BY DEF FindKey
<1>2. /\ call[c].todo # <<>> /\ Fits(call[c]) /\ Has(call[c].todo, v) /\ Head(call[c].todo)[1] = v
      /\ call[c] \in CallType
  BY <1>1, AtIs
<1>3. a \in Names
  BY <1>2 DEF Fits, Keyed
<1>4. /\ Hash[a] \in Slots /\ cache \in [Conns -> [Slots -> Entry \cup {None}]]
      /\ cache[c][Hash[a]] \in Entry \cup {None} /\ db.keys \in Seq(Names)
  BY <1>3, ConstantsAssumption DEF TypeInv, Typed, Tables
<1>5. ASSUME NEW k \in Nat \ {0}, GoOn(c, [call[c] EXCEPT !.key = k])
      PROVE  CallInv' /\ WentOn(c, [call[c] EXCEPT !.key = k])
  <2> DEFINE with == [call[c] EXCEPT !.key = k]
  <2>1. with \in CallType /\ with.key = k /\ with.todo = call[c].todo /\ with.name = call[c].name
        /\ with.tab = call[c].tab /\ with.of = call[c].of
    BY <1>2 DEF CallType
  <2> HIDE DEF with
  <2>2. GoOn(c, with)
    BY <1>5 DEF with
  <2>3. CallInv' /\ WentOn(c, with)
    BY <1>2, <2>1, <2>2, GoOnIs DEF TypeInv
  <2> QED
    BY <2>3 DEF with
<1>6. CASE /\ CacheHit(c, a) /\ GoOn(c, [call[c] EXCEPT !.key = cache[c][Hash[a]].id]) /\ UNCHANGED cache
  <2>1. cache[c][Hash[a]].id \in Nat \ {0}
    BY <1>4, <1>6 DEF CacheHit, Entry
  <2>2. UNCHANGED <<db, said, saved, txn, cache>>
    BY <1>6 DEF FindKey
  <2>3. TypeInv'
    BY <1>5, <1>6, <2>1, <2>2 DEF TypeInv, Typed
  <2> QED
    BY <1>1, <1>3, <1>5, <1>6, <2>1, <2>2, <2>3
<1>7. CASE \E k \in KeyIds(a) : /\ ~CacheHit(c, a) /\ GoOn(c, [call[c] EXCEPT !.key = k]) /\ Remember(c, a, k)
  <2>1. PICK k \in KeyIds(a) : GoOn(c, [call[c] EXCEPT !.key = k]) /\ Remember(c, a, k)
    BY <1>7
  <2>2. k \in Nat \ {0}
    BY <1>4, <2>1 DEF KeyIds
  <2>3. UNCHANGED <<db, said, saved, txn>>
    BY DEF FindKey
  <2>4. cache' \in [Conns -> [Slots -> Entry \cup {None}]]
    BY <1>3, <1>4, <2>1, <2>2 DEF Remember, Entry
  <2>5. TypeInv'
    BY <1>5, <2>1, <2>2, <2>3, <2>4 DEF TypeInv, Typed
  <2> QED
    BY <1>1, <1>3, <1>5, <2>1, <2>2, <2>3, <2>5
<1> QED
  BY <1>6, <1>7 DEF FindKey

\* A key that was not found: SET makes it, REMOVE ends.
LEMMA MissKeyDoes ==
  ASSUME TypeInv, NEW c \in Conns, MissKey(c)
  PROVE  /\ TypeInv' /\ UNCHANGED <<said, saved, txn>>
         /\ call[c].name \in Names /\ KeyIds(call[c].name) = {}
         /\ \E v \in {"ensureKey", "lookupKey"} : At(c, v)
         /\ \/ /\ db' = [db EXCEPT !.keys = Append(@, call[c].name)]
               /\ Len(db.keys) + 1 \in Nat \ {0} /\ At(c, "ensureKey")
               /\ WentOn(c, [call[c] EXCEPT !.key = Len(db.keys) + 1])
               /\ Remember(c, call[c].name, Len(db.keys) + 1)
            \/ /\ call'[c] = Idle /\ \A d \in Conns \ {c} : call'[d] = call[d]
               /\ UNCHANGED <<db, cache>> /\ At(c, "lookupKey")
<1> DEFINE a == call[c].name
           k == Len(db.keys) + 1
<1>1. PICK v \in {"ensureKey", "lookupKey"} : At(c, v)
  BY DEF MissKey
<1>2. /\ call[c].todo # <<>> /\ Fits(call[c]) /\ Has(call[c].todo, v) /\ Head(call[c].todo)[1] = v
      /\ call[c] \in CallType
  BY <1>1, AtIs
<1>3. a \in Names
  BY <1>2 DEF Fits, Keyed
<1>4. /\ Hash[a] \in Slots /\ cache \in [Conns -> [Slots -> Entry \cup {None}]]
      /\ db \in Tables /\ db.keys \in Seq(Names) /\ k \in Nat \ {0}
  BY <1>3, ConstantsAssumption DEF TypeInv, Typed, Tables
<1>5. CASE /\ Writes(c, "ensureKey") /\ db' = [db EXCEPT !.keys = Append(@, a)]
           /\ Remember(c, a, k) /\ GoOn(c, [call[c] EXCEPT !.key = k])
  <2> DEFINE with == [call[c] EXCEPT !.key = k]
  <2>1. with \in CallType /\ with.key = k /\ with.todo = call[c].todo /\ with.name = call[c].name
        /\ with.tab = call[c].tab /\ with.of = call[c].of
    BY <1>2, <1>4 DEF CallType
  <2>2. db' \in Tables
    <3>1. Append(db.keys, a) \in Seq(Names)
      BY <1>3, <1>4
    <3> HIDE DEF a
    <3> QED
      BY <1>4, <1>5, <3>1 DEF Tables
  <2>3. cache' \in [Conns -> [Slots -> Entry \cup {None}]]
    BY <1>3, <1>4, <1>5 DEF Remember, Entry
  <2> HIDE DEF k
  <2>4. GoOn(c, with)
    BY <1>5
  <2> HIDE DEF with
  <2>5. CallInv' /\ WentOn(c, with)
    BY <1>2, <1>4, <2>1, <2>4, GoOnIs DEF TypeInv
  <2>6. TypeInv'
    BY <2>2, <2>3, <2>5 DEF TypeInv, Typed, MissKey
  <2> QED
    BY <1>1, <1>3, <1>4, <1>5, <2>5, <2>6 DEF MissKey, Writes, with, k
<1>6. CASE At(c, "lookupKey") /\ Return(c) /\ UNCHANGED <<db, cache>>
  <2>1. CallInv' /\ call'[c] = Idle /\ \A d \in Conns \ {c} : call'[d] = call[d]
    BY <1>6, ReturnIs DEF TypeInv
  <2>2. TypeInv'
    BY <1>6, <2>1 DEF TypeInv, Typed, MissKey
  <2> QED
    BY <1>1, <1>3, <1>6, <2>1, <2>2 DEF MissKey
<1> QED
  BY <1>5, <1>6 DEF MissKey

\* Statements that change neither the cache nor the fields of the call.
LEMMA SaidTypes ==
  ASSUME TypeInv, NEW c \in Conns, call[c].todo # <<>>
  PROVE  /\ SaidCleared(c) => said' \in SaidType
         /\ \A os : SaidDropped(os) => said' \in SaidType
         /\ said \in SaidType
<1>1. said \in SaidType
  BY DEF TypeInv, Typed
<1>2. \A os : SaidDropped(os) => said' \in SaidType
  BY <1>1 DEF SaidDropped, SaidType
<1>3. SaidCleared(c) => said' \in SaidType
  <2> DEFINE o == call[c].of
             f == [a \in Names |->
                     IF Head(call[c].todo)[1] = "clearAll" \/ a = call[c].name
                     THEN IF Head(call[c].todo)[2] = Tabs[Len(Tabs)] THEN None ELSE "unknown"
                     ELSE said[o][a]]
  <2>1. SaidCleared(c) => said' = [said EXCEPT ![o] = f]
    BY DEF SaidCleared
  <2>2. o \in Owners => f \in [Names -> TabSet \cup {"unknown", None}]
    BY <1>1 DEF SaidType
  <2> HIDE DEF f
  <2> QED
    BY <1>1, <2>1, <2>2 DEF SaidType
<1> QED
  BY <1>1, <1>2, <1>3

\* A DELETE of rows.
LEMMA ClearDoes ==
  ASSUME TypeInv, NEW c \in Conns, Clear(c)
  PROVE  /\ TypeInv' /\ WentOn(c, call[c]) /\ UNCHANGED <<saved, txn, cache>>
         /\ \E v \in {"clear", "clearAll"} : At(c, v)
         /\ db' = [db EXCEPT !.rows = @ \ Cleared(c)] /\ SaidCleared(c)
<1>1. PICK v \in {"clear", "clearAll"} : At(c, v)
  BY DEF Clear, Writes
<1>2. CallInv' /\ WentOn(c, call[c])
  BY <1>1, AtIs, GoOnSame DEF TypeInv, Clear
<1>3. db \in Tables /\ db' = [db EXCEPT !.rows = @ \ Cleared(c)]
  BY DEF TypeInv, Typed, Clear
<1>4. db' \in Tables
  BY <1>3 DEF Tables
<1>5. said' \in SaidType
  BY <1>1, AtIs, SaidTypes DEF Clear
<1>6. TypeInv'
  BY <1>2, <1>4, <1>5 DEF TypeInv, Typed, Clear
<1> QED
  BY <1>1, <1>2, <1>3, <1>6 DEF Clear

\* The INSERT of a value is the last statement of its call.
LEMMA PutDoes ==
  ASSUME TypeInv, NEW c \in Conns, Put(c)
  PROVE  LET row == [of |-> call[c].of, key |-> call[c].key, tab |-> call[c].tab] IN
         /\ TypeInv' /\ call'[c] = Idle /\ (\A d \in Conns \ {c} : call'[d] = call[d])
         /\ UNCHANGED <<saved, txn, cache>> /\ At(c, "put")
         /\ \A w : Has(call[c].todo, w) => w = "put"
         /\ row.of \in Owners /\ row.key \in Nat \ {0} /\ row.tab \in TabSet /\ call[c].name \in Names
         /\ db' = [db EXCEPT !.rows = @ \cup {row}]
         /\ said' = [said EXCEPT ![row.of][call[c].name] = row.tab]
<1> DEFINE T == call[c].todo
           row == [of |-> call[c].of, key |-> call[c].key, tab |-> call[c].tab]
<1>1. At(c, "put")
  BY DEF Put, Writes
<1>2. T # <<>> /\ Fits(call[c]) /\ Shape(T) /\ Head(T)[1] = "put" /\ Has(T, "put") /\ call[c] \in CallType
  BY <1>1, AtIs
<1>3. Len(T) = 1 /\ \A w : Has(T, w) => w = "put"
  BY <1>2, HeadIs
<1>4. row.of \in Owners /\ row.key \in Nat \ {0} /\ row.tab \in TabSet /\ call[c].name \in Names
      /\ row \in [of : Owners, key : Nat \ {0}, tab : TabSet]
  BY <1>2, <1>3 DEF Fits, Keyed, CallType
<1>5. CallInv' /\ WentOn(c, call[c])
  BY <1>2, GoOnSame DEF TypeInv, Put
<1>6. call'[c] = Idle /\ \A d \in Conns \ {c} : call'[d] = call[d]
  BY <1>3, <1>5 DEF WentOn
<1>7. db \in Tables /\ db' = [db EXCEPT !.rows = @ \cup {row}] /\ UNCHANGED <<saved, txn, cache>>
  BY DEF TypeInv, Typed, Put
<1>8. said' = [said EXCEPT ![row.of][call[c].name] = row.tab]
  BY DEF Put
<1> HIDE DEF row
<1>9. db' \in Tables
  BY <1>4, <1>7 DEF Tables
<1>10. said' \in SaidType
  BY <1>4, <1>8 DEF TypeInv, Typed, SaidType
<1>11. TypeInv'
  BY <1>5, <1>7, <1>9, <1>10 DEF TypeInv, Typed
<1> QED
  BY <1>1, <1>3, <1>4, <1>6, <1>7, <1>8, <1>11 DEF row

\* The INSERT of a node.
LEMMA NewNodeDoes ==
  ASSUME TypeInv, NEW c \in Conns, NewNode(c)
  PROVE  /\ TypeInv' /\ WentOn(c, [call[c] EXCEPT !.of = Node(NextNode)])
         /\ UNCHANGED <<said, saved, txn, cache>> /\ At(c, "newNode")
         /\ NextNode \in 1 .. MaxNode /\ Node(NextNode) \in Owners
         /\ db' = [db EXCEPT !.nodes = @ \cup {NextNode}, !.lastNode = NextNode]
<1>1. At(c, "newNode") /\ db.lastNode < MaxNode /\ UNCHANGED <<said, saved, txn, cache>>
      /\ db' = [db EXCEPT !.nodes = @ \cup {NextNode}, !.lastNode = NextNode]
      /\ GoOn(c, [call[c] EXCEPT !.of = Node(NextNode)])
  BY DEF NewNode, Writes
<1>2. call[c].todo # <<>> /\ Fits(call[c]) /\ Head(call[c].todo)[1] = "newNode" /\ call[c] \in CallType
  BY <1>1, AtIs
<1>3. db \in Tables /\ NextNode \in 1 .. MaxNode
  BY <1>1, ConstantsAssumption DEF TypeInv, Typed, Tables, NextNode
<1>4. db' \in Tables
  <2>1. db.nodes \cup {NextNode} \in SUBSET (1 .. MaxNode) /\ NextNode \in 0 .. MaxNode
    BY <1>3 DEF Tables
  <2> QED
    BY <1>1, <1>3, <2>1 DEF Tables
<1> DEFINE o == Node(NextNode)
           with == [call[c] EXCEPT !.of = o]
<1>5. o \in Owners /\ o # None /\ o[1] = "node"
  BY <1>3, ConstantsAssumption DEF Owners, Node
<1> HIDE DEF o
<1>6. with \in CallType /\ with.key = call[c].key /\ with.todo = call[c].todo /\ with.name = call[c].name
      /\ with.tab = call[c].tab /\ with.of = o
  BY <1>2, <1>5 DEF CallType
<1>7. GoOn(c, with)
  BY <1>1 DEF o
<1> HIDE DEF with
<1>8. OfNode(with)
  BY <1>5, <1>6 DEF OfNode
<1>9. CallInv' /\ WentOn(c, with)
  BY <1>2, <1>6, <1>7, <1>8, GoOnIs DEF TypeInv
<1>10. TypeInv'
  BY <1>1, <1>4, <1>9 DEF TypeInv, Typed
<1> QED
  BY <1>1, <1>3, <1>5, <1>9, <1>10 DEF with, o

\* The INSERT of an edge.
LEMMA NewEdgeDoes ==
  ASSUME TypeInv, NEW c \in Conns, NewEdge(c)
  PROVE  LET e == db.lastEdge + 1 IN
         /\ TypeInv' /\ WentOn(c, [call[c] EXCEPT !.of = Edge(e), !.ends = None])
         /\ UNCHANGED <<said, saved, txn, cache>> /\ At(c, "newEdge")
         /\ e \in 1 .. MaxEdge /\ Edge(e) \in Owners /\ call[c].ends \in Pairs
         /\ db' = [db EXCEPT !.lastEdge = e,
                      !.edges = @ \cup {[id |-> e, src |-> call[c].ends[1], dst |-> call[c].ends[2]]}]
<1> DEFINE e == db.lastEdge + 1
           x == [id |-> e, src |-> call[c].ends[1], dst |-> call[c].ends[2]]
<1>1. At(c, "newEdge") /\ e <= MaxEdge /\ UNCHANGED <<said, saved, txn, cache>>
      /\ db' = [db EXCEPT !.lastEdge = e, !.edges = @ \cup {x}]
      /\ GoOn(c, [call[c] EXCEPT !.of = Edge(e), !.ends = None])
  BY DEF NewEdge, Writes
<1>2. call[c].todo # <<>> /\ Fits(call[c]) /\ Head(call[c].todo)[1] = "newEdge" /\ call[c] \in CallType
      /\ Has(call[c].todo, "newEdge")
  BY <1>1, AtIs
<1>3. db \in Tables /\ e \in 1 .. MaxEdge /\ call[c].ends \in Pairs
  BY <1>1, <1>2, ConstantsAssumption DEF TypeInv, Typed, Tables, Fits
<1>4. x \in [id : 1 .. MaxEdge, src : 1 .. MaxNode, dst : 1 .. MaxNode]
  BY <1>3 DEF Pairs
<1> HIDE DEF x
<1>5. db' \in Tables
  <2>1. /\ db.edges \cup {x} \in SUBSET [id : 1 .. MaxEdge, src : 1 .. MaxNode, dst : 1 .. MaxNode]
        /\ e \in 0 .. MaxEdge
    BY <1>3, <1>4 DEF Tables
  <2> HIDE DEF e
  <2> QED
    BY <1>1, <1>3, <2>1 DEF Tables
<1> DEFINE o == Edge(e)
           with == [call[c] EXCEPT !.of = o, !.ends = None]
<1>6. o \in Owners /\ o # None /\ o[1] = "edge"
  BY <1>3, ConstantsAssumption DEF Owners, Edge
<1> HIDE DEF o
<1>7. with \in CallType /\ with.key = call[c].key /\ with.todo = call[c].todo /\ with.name = call[c].name
      /\ with.tab = call[c].tab /\ with.of = o
  BY <1>2, <1>6 DEF CallType
<1>8. GoOn(c, with)
  BY <1>1 DEF o
<1> HIDE DEF with
<1>9. OfEdge(with)
  BY <1>6, <1>7 DEF OfEdge
<1>10. CallInv' /\ WentOn(c, with)
  BY <1>2, <1>7, <1>8, <1>9, GoOnIs DEF TypeInv
<1>11. TypeInv'
  BY <1>1, <1>5, <1>10 DEF TypeInv, Typed
<1> QED
  BY <1>1, <1>3, <1>6, <1>10, <1>11 DEF with, o, x

\* The count of a node's edges.
LEMMA CheckNoEdgesDoes ==
  ASSUME TypeInv, NEW c \in Conns, CheckNoEdges(c)
  PROVE  /\ TypeInv' /\ UNCHANGED <<db, said, saved, txn, cache>> /\ At(c, "noEdges")
         /\ \/ WentOn(c, call[c]) /\ Touching(call[c].of[2]) = {}
            \/ call'[c] = Idle /\ \A d \in Conns \ {c} : call'[d] = call[d]
<1>1. At(c, "noEdges") /\ UNCHANGED <<db, said, saved, txn, cache>>
  BY DEF CheckNoEdges
<1>2. CASE GoOn(c, call[c]) /\ Touching(call[c].of[2]) = {}
  BY <1>1, <1>2, AtIs, GoOnSame DEF TypeInv, Typed
<1>3. CASE Return(c)
  BY <1>1, <1>3, ReturnIs DEF TypeInv, Typed
<1> QED
  BY <1>2, <1>3 DEF CheckNoEdges

\* The DELETE of a node's edges.
LEMMA DropEdgesDoes ==
  ASSUME TypeInv, NEW c \in Conns, DropEdges(c)
  PROVE  /\ TypeInv' /\ WentOn(c, call[c]) /\ UNCHANGED <<saved, txn, cache>> /\ At(c, "dropEdges")
         /\ db' = [db EXCEPT !.edges = @ \ Touching(call[c].of[2])]
         /\ SaidDropped({Edge(e.id) : e \in Touching(call[c].of[2])})
<1>1. /\ At(c, "dropEdges") /\ UNCHANGED <<saved, txn, cache>> /\ GoOn(c, call[c])
      /\ db' = [db EXCEPT !.edges = @ \ Touching(call[c].of[2])]
      /\ SaidDropped({Edge(e.id) : e \in Touching(call[c].of[2])})
  BY DEF DropEdges, Writes
<1>2. CallInv' /\ WentOn(c, call[c]) /\ said' \in SaidType
  BY <1>1, AtIs, GoOnSame, SaidTypes DEF TypeInv
<1>3. db' \in Tables
  BY <1>1 DEF TypeInv, Typed, Tables
<1> QED
  BY <1>1, <1>2, <1>3 DEF TypeInv, Typed

\* The DELETE of a node is the last statement of its call.
LEMMA DropNodeDoes ==
  ASSUME TypeInv, NEW c \in Conns, DropNode(c)
  PROVE  /\ TypeInv' /\ call'[c] = Idle /\ (\A d \in Conns \ {c} : call'[d] = call[d])
         /\ UNCHANGED <<saved, txn, cache>> /\ At(c, "dropNode")
         /\ \A w : Has(call[c].todo, w) => w = "dropNode"
         /\ db' = [db EXCEPT !.nodes = @ \ {call[c].of[2]}]
         /\ SaidDropped({call[c].of})
<1>1. /\ At(c, "dropNode") /\ UNCHANGED <<saved, txn, cache>> /\ GoOn(c, call[c])
      /\ db' = [db EXCEPT !.nodes = @ \ {call[c].of[2]}]
      /\ SaidDropped({call[c].of})
  BY DEF DropNode, Writes
<1>2. CallInv' /\ WentOn(c, call[c]) /\ said' \in SaidType
  BY <1>1, AtIs, GoOnSame, SaidTypes DEF TypeInv
<1>3. db' \in Tables
  BY <1>1 DEF TypeInv, Typed, Tables
<1>4. Len(call[c].todo) = 1 /\ \A w : Has(call[c].todo, w) => w = "dropNode"
  BY <1>1, AtIs, HeadIs
<1> QED
  BY <1>1, <1>2, <1>3, <1>4 DEF TypeInv, Typed, WentOn

\* The DELETE of an edge is the last statement of its call.
LEMMA DropEdgeDoes ==
  ASSUME TypeInv, NEW c \in Conns, DropEdge(c)
  PROVE  /\ TypeInv' /\ call'[c] = Idle /\ (\A d \in Conns \ {c} : call'[d] = call[d])
         /\ UNCHANGED <<saved, txn, cache>> /\ At(c, "dropEdge")
         /\ \A w : Has(call[c].todo, w) => w = "dropEdge"
         /\ db' = [db EXCEPT !.edges = {e \in @ : e.id # call[c].of[2]}]
         /\ SaidDropped({call[c].of})
<1>1. /\ At(c, "dropEdge") /\ UNCHANGED <<saved, txn, cache>> /\ GoOn(c, call[c])
      /\ db' = [db EXCEPT !.edges = {e \in @ : e.id # call[c].of[2]}]
      /\ SaidDropped({call[c].of})
  BY DEF DropEdge, Writes
<1>2. CallInv' /\ WentOn(c, call[c]) /\ said' \in SaidType
  BY <1>1, AtIs, GoOnSame, SaidTypes DEF TypeInv
<1>3. db' \in Tables
  BY <1>1 DEF TypeInv, Typed, Tables
<1>4. Len(call[c].todo) = 1 /\ \A w : Has(call[c].todo, w) => w = "dropEdge"
  BY <1>1, AtIs, HeadIs
<1> QED
  BY <1>1, <1>2, <1>3, <1>4 DEF TypeInv, Typed, WentOn

\* A statement that fails.
LEMMA FailDoes ==
  ASSUME TypeInv, NEW c \in Conns, Fail(c)
  PROVE  LET v == Head(call[c].todo)[1] IN
         /\ TypeInv' /\ UNCHANGED <<db, saved, txn, cache>>
         /\ call[c].todo # <<>> /\ Fits(call[c]) /\ Has(call[c].todo, v) /\ v \in MayFail
         /\ IF v \in {"clear", "clearAll", "noEdges"} THEN WentOn(c, call[c])
            ELSE call'[c] = Idle /\ \A d \in Conns \ {c} : call'[d] = call[d]
         /\ \/ v \in {"clear", "clearAll"} /\ SaidCleared(c)
            \/ /\ v = "lookupKey" /\ call[c].of \in Owners /\ call[c].name \in Names
               /\ said' = [said EXCEPT ![call[c].of][call[c].name] = None]
            \/ v \notin {"clear", "clearAll", "lookupKey"} /\ UNCHANGED said
<1> DEFINE T == call[c].todo
           v == Head(T)[1]
<1>1. T # <<>> /\ v \in MayFail /\ UNCHANGED <<db, saved, txn, cache>>
      /\ IF v \in Silent \ {"lookupKey"} THEN GoOn(c, call[c]) ELSE Return(c)
  BY DEF Fail
<1>0. \/ v \in {"clear", "clearAll"} /\ SaidCleared(c)
      \/ v = "lookupKey" /\ said' = [said EXCEPT ![call[c].of][call[c].name] = None]
      \/ v \notin {"clear", "clearAll", "lookupKey"} /\ UNCHANGED said
  BY Zenon DEF Fail
<1>2. Fits(call[c]) /\ Has(T, v) /\ call[c] \in CallType /\ Shape(T)
  BY <1>1, HeadIs DEF TypeInv, CallInv, Fits
<1> HIDE DEF v
<1>3. v = "lookupKey" => call[c].of \in Owners /\ call[c].name \in Names
  <2>1. v = "lookupKey" => ~Has(T, "newNode") /\ ~Has(T, "newEdge")
    BY <1>2 DEF Shape, Forms
  <2> QED
    BY <1>2, <2>1 DEF Fits, Keyed, CallType
<1>4. CallInv' /\ IF v \in {"clear", "clearAll", "noEdges"} THEN WentOn(c, call[c])
                  ELSE call'[c] = Idle /\ \A d \in Conns \ {c} : call'[d] = call[d]
  <2>1. CASE v \in {"clear", "clearAll", "noEdges"}
    <3>1. GoOn(c, call[c])
      BY <1>1, <2>1 DEF Silent
    <3> QED
      BY <1>1, <2>1, <3>1, GoOnSame DEF TypeInv, v
  <2>2. CASE v \notin {"clear", "clearAll", "noEdges"}
    <3>1. Return(c)
      BY <1>1, <2>2 DEF Silent
    <3> QED
      BY <2>2, <3>1, ReturnIs DEF TypeInv
  <2> QED
    BY <2>1, <2>2
<1>5. said' \in SaidType
  <2>1. CASE SaidCleared(c)
    BY <1>1, <2>1, SaidTypes
  <2>2. CASE v = "lookupKey" /\ said' = [said EXCEPT ![call[c].of][call[c].name] = None]
    BY <1>3, <2>2 DEF TypeInv, Typed, SaidType
  <2>3. CASE UNCHANGED said
    BY <2>3 DEF TypeInv, Typed
  <2> QED
    BY <1>0, <2>1, <2>2, <2>3
<1>6. TypeInv'
  BY <1>1, <1>4, <1>5 DEF TypeInv, Typed
<1>7. \/ v \in {"clear", "clearAll"} /\ SaidCleared(c)
      \/ /\ v = "lookupKey" /\ call[c].of \in Owners /\ call[c].name \in Names
         /\ said' = [said EXCEPT ![call[c].of][call[c].name] = None]
      \/ v \notin {"clear", "clearAll", "lookupKey"} /\ UNCHANGED said
  BY <1>0, <1>3, Zenon
<1> QED
  BY <1>1, <1>2, <1>4, <1>6, <1>7, Zenon DEF v, T

\* Transactions and the end of a connection keep the types.
LEMMA RestTyped ==
  ASSUME TypeInv, NEW c \in Conns
  PROVE  /\ Begin(c) => TypeInv'
         /\ Commit(c) => TypeInv'
         /\ Rollback(c) => TypeInv'
         /\ End(c) => TypeInv' /\ call'[c] = Idle /\ \A d \in Conns \ {c} : call'[d] = call[d]
<1>1. NothingSaid \in SaidType /\ NoTables \in Tables /\ NothingSaved \in [db : Tables, said : SaidType]
  <2>1. NothingSaid \in SaidType
    BY DEF NothingSaid, SaidType
  <2>2. NoTables \in Tables
    BY ConstantsAssumption DEF NoTables, Tables
  <2> QED
    BY <2>1, <2>2 DEF NothingSaved
<1>2. Restore => db' \in Tables /\ said' \in SaidType /\ txn' = None /\ saved' = NothingSaved
  BY DEF TypeInv, Typed, Restore
<1>3. Begin(c) => TypeInv'
  BY DEF TypeInv, Typed, CallInv, Begin
<1>4. Commit(c) => TypeInv'
  BY <1>1 DEF TypeInv, Typed, CallInv, Commit
<1>5. Rollback(c) => TypeInv'
  BY <1>1, <1>2 DEF TypeInv, Typed, CallInv, Rollback
<1>6. ASSUME End(c) PROVE TypeInv' /\ call'[c] = Idle /\ \A d \in Conns \ {c} : call'[d] = call[d]
  <2>1. CallInv' /\ call'[c] = Idle /\ \A d \in Conns \ {c} : call'[d] = call[d]
    BY <1>6, ReturnIs DEF TypeInv, End
  <2>2. cache' \in [Conns -> [Slots -> Entry \cup {None}]]
    BY <1>6 DEF TypeInv, Typed, End
  <2>3. Typed'
    BY <1>1, <1>2, <1>6, <2>2 DEF TypeInv, Typed, End
  <2> QED
    BY <2>1, <2>3 DEF TypeInv
<1> QED
  BY <1>3, <1>4, <1>5, <1>6

\* The first state has the types.
LEMMA InitTyped == Init => TypeInv
<1> SUFFICES ASSUME Init PROVE TypeInv
  OBVIOUS
<1>1. NothingSaid \in SaidType /\ NoTables \in Tables
  BY ConstantsAssumption DEF NothingSaid, SaidType, NoTables, Tables
<1>2. Typed
  BY <1>1 DEF Typed, Init
<1>3. CallInv
  BY IdleIs DEF CallInv, Init
<1> QED
  BY <1>2, <1>3 DEF TypeInv

\* Every step keeps the types.
LEMMA NextTyped == TypeInv /\ [Next]_vars => TypeInv'
<1> SUFFICES ASSUME TypeInv, [Next]_vars PROVE TypeInv'
  OBVIOUS
<1>1. CASE UNCHANGED vars
  BY <1>1 DEF vars, TypeInv, Typed, CallInv
<1>2. ASSUME NEW c \in Conns, Calls(c) PROVE TypeInv'
  <2>1. CallInv' /\ UNCHANGED <<db, said, saved, txn, cache>>
    BY <1>2, CallsBegin, StartIs, SMTT(30) DEF TypeInv
  <2> QED
    BY <2>1 DEF TypeInv, Typed
<1>3. ASSUME NEW c \in Conns, Statements(c) PROVE TypeInv'
  BY <1>3, FindKeyDoes, MissKeyDoes, ClearDoes, PutDoes, NewNodeDoes, NewEdgeDoes, CheckNoEdgesDoes,
     DropEdgesDoes, DropNodeDoes, DropEdgeDoes, FailDoes DEF Statements
<1> QED
  BY <1>1, <1>2, <1>3, RestTyped DEF Next

\* Every state has the shape the declarations of GraphStore describe.
THEOREM TypeCorrect == Spec => []TypeInv
BY InitTyped, NextTyped, PTL DEF Spec
-----------------------------------------------------------------------------
(* Calls that do not overlap                                               *)

\* One call at a time, and none beside another connection's transaction.
Solo == \A c \in Conns : call[c].todo # <<>> =>
          txn \in {None, c} /\ \A d \in Conns \ {c} : call[d] = Idle

\* What a statement leaves alone.
LEMMA StatementsLeave ==
  ASSUME TypeInv, NEW c \in Conns, Statements(c)
  PROVE  /\ UNCHANGED <<saved, txn>> /\ call[c].todo # <<>> /\ Fits(call[c])
         /\ \A d \in Conns \ {c} : call'[d] = call[d]
<1>1. ASSUME NEW v, At(c, v) PROVE call[c].todo # <<>> /\ Fits(call[c])
  BY <1>1, AtIs
<1>2. CASE FindKey(c)
  BY <1>1, <1>2, FindKeyDoes DEF WentOn
<1>3. CASE MissKey(c)
  BY <1>1, <1>3, MissKeyDoes DEF WentOn
<1>4. CASE Clear(c)
  BY <1>1, <1>4, ClearDoes DEF WentOn
<1>5. CASE Put(c)
  BY <1>1, <1>5, PutDoes
<1>6. CASE NewNode(c)
  BY <1>1, <1>6, NewNodeDoes DEF WentOn
<1>7. CASE NewEdge(c)
  BY <1>1, <1>7, NewEdgeDoes DEF WentOn
<1>8. CASE CheckNoEdges(c)
  BY <1>1, <1>8, CheckNoEdgesDoes DEF WentOn
<1>9. CASE DropEdges(c)
  BY <1>1, <1>9, DropEdgesDoes DEF WentOn
<1>10. CASE DropNode(c)
  BY <1>1, <1>10, DropNodeDoes
<1>11. CASE DropEdge(c)
  BY <1>1, <1>11, DropEdgeDoes
<1>12. CASE Fail(c)
  BY <1>12, FailDoes DEF WentOn
<1> QED
  BY <1>2, <1>3, <1>4, <1>5, <1>6, <1>7, <1>8, <1>9, <1>10, <1>11, <1>12 DEF Statements

\* Every step keeps calls apart, when a call begins only if no other is running.
LEMMA SoloStep ==
  ASSUME ~Interleave, TypeInv, Solo, [Next]_vars
  PROVE  Solo'
<1>0. call \in [Conns -> CallType] /\ \A c \in Conns : call[c].todo = <<>> <=> call[c] = Idle
  BY IdleIs DEF TypeInv, CallInv
<1>1. CASE UNCHANGED vars
  BY <1>1 DEF vars, Solo
<1>2. ASSUME NEW c \in Conns, Calls(c) PROVE Solo'
  BY <1>0, <1>2, CallsBegin, StartIs DEF TypeInv, Solo
<1>3. ASSUME NEW c \in Conns, Statements(c) PROVE Solo'
  <2>1. \A d \in Conns \ {c} : call'[d] = Idle
    BY <1>3, StatementsLeave DEF Solo
  <2>2. txn' \in {None, c}
    BY <1>3, StatementsLeave DEF Solo
  <2> QED
    BY <2>1, <2>2, IdleIs DEF Solo
<1>4. ASSUME NEW c \in Conns, Begin(c) PROVE Solo'
  BY <1>0, <1>4 DEF Begin, CanStart, Solo
<1>5. ASSUME NEW c \in Conns, Commit(c) \/ Rollback(c) PROVE Solo'
  BY <1>5 DEF Commit, Rollback, Restore, Solo
<1>6. ASSUME NEW c \in Conns, End(c) PROVE Solo'
  <2>1. call'[c] = Idle /\ \A d \in Conns \ {c} : call'[d] = call[d]
    BY <1>6, RestTyped
  <2>2. txn' \in {txn, None}
    BY <1>6 DEF End, Restore
  <2>3. ASSUME NEW d \in Conns, call'[d].todo # <<>>
        PROVE  txn' \in {None, d} /\ \A e \in Conns \ {d} : call'[e] = Idle
    <3>1. d # c /\ call[d].todo # <<>>
      BY <2>1, <2>3, IdleIs
    <3> QED
      BY <2>1, <2>2, <3>1 DEF Solo
  <2> QED
    BY <2>3 DEF Solo
<1> QED
  BY <1>1, <1>2, <1>3, <1>4, <1>5, <1>6 DEF Next
-----------------------------------------------------------------------------
(* Nothing names a node that is gone                                       *)

ExistsIn(d, o) == \/ o[1] = "node" /\ o[2] \in d.nodes
                  \/ o[1] = "edge" /\ \E e \in d.edges : e.id = o[2]
Loose(d, n) == \A e \in d.edges : e.src # n /\ e.dst # n
Cleaned(d, o, t) == \A r \in d.rows : ~(r.of = o /\ r.tab = t)

\* What the tables hold whenever nobody writes.
Sound(d) ==
  /\ \A e \in d.edges : {e.src, e.dst} \subseteq d.nodes
  /\ \A r \in d.rows : r.of[1] = "node" /\ r.tab # "json" => r.of[2] \in d.nodes

\* What a call is about is there; and when a DELETE has come past the edges, or
\* past a table, there are none left, or no rows in it.
CallRefs(c) ==
  LET r == call[c]
      T == r.todo
  IN T # <<>> =>
       /\ r.of # None => ExistsIn(db, r.of)
       /\ Has(T, "newEdge") => {r.ends[1], r.ends[2]} \subseteq db.nodes
       /\ Has(T, "dropNode") =>
            /\ Verb(T, 1) \in {"noEdges", "dropEdges"} \/ Loose(db, r.of[2])
            /\ \A t \in TabSet \ {"json"} : HasTab(T, "clearAll", t) \/ Cleaned(db, r.of, t)

RefInv == /\ Solo
          /\ Sound(db) /\ Sound(saved.db)
          /\ \A c \in Conns : CallRefs(c)

\* What CallRefs asks of the statements that are left.
LEMMA RefsGoOn ==
  ASSUME TypeInv, NEW c \in Conns, call[c].todo # <<>>, CallRefs(c), NEW with, WentOn(c, with),
         ExistsIn(db', with.of),
         Has(call[c].todo, "dropNode") =>
           /\ with.of = call[c].of /\ Loose(db', with.of[2])
           /\ \A t \in TabSet \ {"json"} :
                Cleaned(db, call[c].of, t) \/ call[c].todo[1] = <<"clearAll", t>>
                  => Cleaned(db', call[c].of, t)
  PROVE  CallRefs(c)'
<1> DEFINE T == call[c].todo
           R == Tail(T)
<1>1. Shape(T)
  BY DEF TypeInv, CallInv, Fits
<1>2. CASE call'[c] = Idle
  BY <1>2, IdleIs DEF CallRefs
<1>3. CASE call'[c] # Idle
  <2>1. call'[c].todo = R /\ call'[c].of = with.of
    BY <1>3 DEF WentOn
  <2>2. ~Has(R, "newEdge") /\ (Has(R, "dropNode") => Has(T, "dropNode"))
    BY <1>1, HeadIs, ShapeTail
  <2>3. ASSUME NEW t, HasTab(T, "clearAll", t), T[1] # <<"clearAll", t>> PROVE HasTab(R, "clearAll", t)
    BY <1>1, <2>3, ShapeTail
  <2> HIDE DEF R
  <2>4. Has(R, "dropNode") =>
          \A t \in TabSet \ {"json"} : HasTab(R, "clearAll", t) \/ Cleaned(db', with.of, t)
    BY <2>2, <2>3 DEF CallRefs
  <2> QED
    BY <2>1, <2>2, <2>4 DEF CallRefs
<1> QED
  BY <1>2, <1>3

\* Each statement keeps this, when a DELETE notices that a statement of its failed.
LEMMA RefsStatement ==
  ASSUME MayFail \cap {"clearAll", "noEdges"} = {}, TypeInv, Sound(db),
         NEW c \in Conns, CallRefs(c), Statements(c)
  PROVE  Sound(db') /\ CallRefs(c)'
<1> DEFINE T == call[c].todo
           r == call[c]
           v == Head(T)[1]
<1>1. T # <<>> /\ Fits(r) /\ Shape(T) /\ r \in CallType /\ db \in Tables
  BY StatementsLeave DEF Fits, TypeInv, Typed, CallInv
<1>2. /\ Has(T, v) /\ Verb(T, 1) = v
      /\ Has(T, "dropNode") => v \in {"noEdges", "dropEdges", "clearAll", "dropNode"}
      /\ Has(T, "dropNode") => OfNode(r) /\ ~Has(T, "newNode") /\ ~Has(T, "newEdge")
  BY <1>1, HeadIs DEF Shape, Forms, Fits
<1>3. ASSUME NEW w, At(c, w) PROVE v = w
  BY <1>3, AtIs
<1>4. v \notin {"newNode", "newEdge"} => r.of \in Owners /\ r.of # None /\ ExistsIn(db, r.of)
  <2>1. v \notin {"newNode", "newEdge"} => ~Has(T, "newNode") /\ ~Has(T, "newEdge")
    BY <1>1, HeadIs, ShapeTail
  <2> QED
    BY <1>1, <2>1 DEF Fits, CallRefs, CallType
<1>5. Has(T, "dropNode") /\ v \in {"clearAll", "dropNode"} => Loose(db, r.of[2])
  BY <1>1, <1>2 DEF CallRefs
<1> HIDE DEF T, v
<1>6. ASSUME call'[c] = Idle PROVE CallRefs(c)'
  BY <1>6, IdleIs DEF CallRefs
<1>7. ASSUME FindKey(c) PROVE Sound(db') /\ CallRefs(c)'
  <2>1. PICK k \in Nat \ {0} : WentOn(c, [r EXCEPT !.key = k])
    BY <1>7, FindKeyDoes
  <2>2. db' = db /\ v \in {"ensureKey", "lookupKey"}
    BY <1>3, <1>7, FindKeyDoes
  <2> DEFINE with == [r EXCEPT !.key = k]
  <2>3. with.of = r.of
    BY <1>1 DEF CallType
  <2> HIDE DEF with
  <2>4. CallRefs(c)'
    BY <1>1, <1>2, <1>4, <2>1, <2>2, <2>3, RefsGoOn DEF with, T
  <2> QED
    BY <2>2, <2>4
<1>8. ASSUME MissKey(c) PROVE Sound(db') /\ CallRefs(c)'
  <2>1. v \in {"ensureKey", "lookupKey"}
    BY <1>3, <1>8, MissKeyDoes
  <2>2. CASE call'[c] = Idle /\ UNCHANGED db
    BY <1>6, <2>2
  <2>3. CASE /\ db' = [db EXCEPT !.keys = Append(@, r.name)]
             /\ WentOn(c, [r EXCEPT !.key = Len(db.keys) + 1])
    <3> DEFINE with == [r EXCEPT !.key = Len(db.keys) + 1]
    <3>1. with.of = r.of
      BY <1>1 DEF CallType
    <3>2. db'.nodes = db.nodes /\ db'.edges = db.edges /\ db'.rows = db.rows
      BY <1>1, <2>3 DEF Tables
    <3>3. ExistsIn(db', r.of) /\ Sound(db')
      BY <1>4, <2>1, <3>2 DEF ExistsIn, Sound
    <3>4. WentOn(c, with)
      BY <2>3
    <3> HIDE DEF with
    <3>5. CallRefs(c)'
      BY <1>1, <1>2, <2>1, <3>1, <3>3, <3>4, RefsGoOn DEF T
    <3> QED
      BY <3>3, <3>5
  <2> QED
    BY <1>8, <2>2, <2>3, MissKeyDoes
<1>9. ASSUME Clear(c) PROVE Sound(db') /\ CallRefs(c)'
  <2>1. v \in {"clear", "clearAll"} /\ WentOn(c, r) /\ db' = [db EXCEPT !.rows = @ \ Cleared(c)]
    BY <1>3, <1>9, ClearDoes
  <2>2. db'.nodes = db.nodes /\ db'.edges = db.edges /\ db'.rows = db.rows \ Cleared(c)
    BY <1>1, <2>1 DEF Tables
  <2>3. ExistsIn(db', r.of) /\ Sound(db')
    BY <1>4, <2>1, <2>2 DEF ExistsIn, Sound
  <2>4. Has(T, "dropNode") => Loose(db', r.of[2])
    BY <1>2, <1>5, <2>1, <2>2 DEF Loose
  <2>5. ASSUME NEW t \in TabSet, Cleaned(db, r.of, t) \/ T[1] = <<"clearAll", t>>
        PROVE  Cleaned(db', r.of, t)
    <3>1. CASE Cleaned(db, r.of, t)
      BY <2>2, <3>1 DEF Cleaned
    <3>2. CASE T[1] = <<"clearAll", t>>
      <4>1. Head(T)[1] = "clearAll" /\ Head(T)[2] = t
        BY <1>1, <3>2, HeadIs
      <4>2. Cleared(c) = {x \in db.rows : x.of = r.of /\ x.tab = t}
        BY <4>1 DEF Cleared, T
      <4> QED
        BY <2>2, <4>2 DEF Cleaned
    <3> QED
      BY <2>5, <3>1, <3>2
  <2>6. CallRefs(c)'
    BY <1>1, <2>1, <2>3, <2>4, <2>5, RefsGoOn DEF T
  <2> QED
    BY <2>3, <2>6
<1>10. ASSUME Put(c) PROVE Sound(db') /\ CallRefs(c)'
  <2> DEFINE row == [of |-> r.of, key |-> r.key, tab |-> r.tab]
  <2>1. v = "put" /\ call'[c] = Idle /\ db' = [db EXCEPT !.rows = @ \cup {row}]
    BY <1>3, <1>10, PutDoes
  <2>2. row.of = r.of
    OBVIOUS
  <2> HIDE DEF row
  <2>3. db'.nodes = db.nodes /\ db'.edges = db.edges /\ db'.rows = db.rows \cup {row}
    BY <1>1, <2>1 DEF Tables
  <2>4. Sound(db')
    BY <1>4, <2>1, <2>2, <2>3 DEF ExistsIn, Sound
  <2> QED
    BY <1>6, <2>1, <2>4
<1>11. ASSUME NewNode(c) PROVE Sound(db') /\ CallRefs(c)'
  <2> DEFINE with == [r EXCEPT !.of = Node(NextNode)]
  <2>1. v = "newNode" /\ WentOn(c, with)
        /\ db' = [db EXCEPT !.nodes = @ \cup {NextNode}, !.lastNode = NextNode]
    BY <1>3, <1>11, NewNodeDoes
  <2>2. with.of = Node(NextNode)
    BY <1>1 DEF CallType
  <2> HIDE DEF with
  <2>3. db'.nodes = db.nodes \cup {NextNode} /\ db'.edges = db.edges /\ db'.rows = db.rows
    BY <1>1, <2>1 DEF Tables
  <2>4. Sound(db') /\ ExistsIn(db', Node(NextNode))
    BY <2>3 DEF ExistsIn, Sound, Node
  <2>5. CallRefs(c)'
    BY <1>1, <1>2, <2>1, <2>2, <2>4, RefsGoOn DEF T
  <2> QED
    BY <2>4, <2>5
<1>12. ASSUME NewEdge(c) PROVE Sound(db') /\ CallRefs(c)'
  <2> DEFINE e == db.lastEdge + 1
             x == [id |-> e, src |-> r.ends[1], dst |-> r.ends[2]]
             with == [r EXCEPT !.of = Edge(e), !.ends = None]
  <2>1. v = "newEdge" /\ WentOn(c, with) /\ db' = [db EXCEPT !.lastEdge = e, !.edges = @ \cup {x}]
    BY <1>3, <1>12, NewEdgeDoes
  <2>2. with.of = Edge(e) /\ x.id = e /\ x.src = r.ends[1] /\ x.dst = r.ends[2]
    BY <1>1 DEF CallType
  <2> HIDE DEF with, x, e
  <2>3. db'.nodes = db.nodes /\ db'.edges = db.edges \cup {x} /\ db'.rows = db.rows
    BY <1>1, <2>1 DEF Tables
  <2>4. {x.src, x.dst} \subseteq db.nodes
    BY <1>1, <1>2, <2>1, <2>2 DEF CallRefs, T
  <2>5. Sound(db') /\ ExistsIn(db', Edge(e))
    BY <2>2, <2>3, <2>4 DEF ExistsIn, Sound, Edge
  <2>6. CallRefs(c)'
    BY <1>1, <1>2, <2>1, <2>2, <2>5, RefsGoOn DEF T
  <2> QED
    BY <2>5, <2>6
<1>13. ASSUME CheckNoEdges(c) PROVE Sound(db') /\ CallRefs(c)'
  <2>1. v = "noEdges" /\ db' = db
    BY <1>3, <1>13, CheckNoEdgesDoes
  <2>2. CASE WentOn(c, r) /\ Touching(r.of[2]) = {}
    <3>1. Loose(db', r.of[2])
      BY <2>1, <2>2 DEF Touching, Loose
    <3>2. \A t \in TabSet : Cleaned(db, r.of, t) \/ T[1] = <<"clearAll", t>> => Cleaned(db', r.of, t)
      BY <1>2, <2>1 DEF Verb
    <3> QED
      BY <1>1, <1>4, <2>1, <2>2, <3>1, <3>2, RefsGoOn DEF T
  <2> QED
    BY <1>6, <1>13, <2>1, <2>2, CheckNoEdgesDoes
<1>14. ASSUME DropEdges(c) PROVE Sound(db') /\ CallRefs(c)'
  <2>1. v = "dropEdges" /\ WentOn(c, r) /\ db' = [db EXCEPT !.edges = @ \ Touching(r.of[2])]
    BY <1>3, <1>14, DropEdgesDoes
  <2>2. db'.nodes = db.nodes /\ db'.edges = db.edges \ Touching(r.of[2]) /\ db'.rows = db.rows
    BY <1>1, <2>1 DEF Tables
  <2>3. Loose(db', r.of[2]) /\ Sound(db')
    BY <2>2 DEF Touching, Loose, Sound
  <2>4. r.of[1] = "node"
    BY <1>1, <1>2, <2>1 DEF Fits, OfNode, T
  <2>5. ExistsIn(db', r.of)
    BY <1>4, <2>1, <2>2, <2>4 DEF ExistsIn
  <2>6. \A t \in TabSet : Cleaned(db, r.of, t) \/ T[1] = <<"clearAll", t>> => Cleaned(db', r.of, t)
    BY <1>2, <2>1, <2>2 DEF Verb, Cleaned
  <2>7. CallRefs(c)'
    BY <1>1, <2>1, <2>3, <2>5, <2>6, RefsGoOn DEF T
  <2> QED
    BY <2>3, <2>7
<1>15. ASSUME DropNode(c) PROVE Sound(db') /\ CallRefs(c)'
  <2>1. /\ v = "dropNode" /\ call'[c] = Idle /\ db' = [db EXCEPT !.nodes = @ \ {r.of[2]}]
        /\ \A w : Has(T, w) => w = "dropNode"
    BY <1>3, <1>15, DropNodeDoes DEF T
  <2>2. db'.nodes = db.nodes \ {r.of[2]} /\ db'.edges = db.edges /\ db'.rows = db.rows
    BY <1>1, <2>1 DEF Tables
  <2>3. ~\E t : HasTab(T, "clearAll", t)
    <3>1. ASSUME NEW t, HasTab(T, "clearAll", t) PROVE Has(T, "clearAll")
      BY <3>1 DEF HasTab, Has, Verb
    <3> QED
      BY <2>1, <3>1
  <2>4. Loose(db, r.of[2]) /\ \A t \in TabSet \ {"json"} : Cleaned(db, r.of, t)
    BY <1>1, <1>2, <1>5, <2>1, <2>3 DEF CallRefs, T
  <2>5. ASSUME NEW x \in db.rows, x.of[1] = "node", x.tab # "json", x.of[2] = r.of[2] PROVE FALSE
    <3>1. x.of \in Owners /\ x.tab \in TabSet /\ r.of \in Owners /\ r.of[1] = "node"
      BY <1>1, <1>2, <1>4, <2>1 DEF Tables, OfNode
    <3>2. x.of = r.of
      BY <2>5, <3>1 DEF Owners
    <3> QED
      BY <2>4, <2>5, <3>1, <3>2 DEF Cleaned
  <2>6. Sound(db')
    BY <2>2, <2>4, <2>5 DEF Sound, Loose
  <2> QED
    BY <1>6, <2>1, <2>6
<1>16. ASSUME DropEdge(c) PROVE Sound(db') /\ CallRefs(c)'
  <2>1. call'[c] = Idle /\ db' = [db EXCEPT !.edges = {e \in @ : e.id # r.of[2]}]
    BY <1>16, DropEdgeDoes
  <2>2. db'.nodes = db.nodes /\ db'.edges \subseteq db.edges /\ db'.rows = db.rows
    BY <1>1, <2>1 DEF Tables
  <2> QED
    BY <1>6, <2>1, <2>2 DEF Sound
<1>17. ASSUME Fail(c) PROVE Sound(db') /\ CallRefs(c)'
  <2>1. db' = db /\ v \in MayFail
    BY <1>17, FailDoes DEF v, T
  <2>2. CASE call'[c] = Idle
    BY <1>6, <2>1, <2>2
  <2>3. CASE v = "clear" /\ WentOn(c, r)
    BY <1>1, <1>2, <1>4, <2>1, <2>3, RefsGoOn DEF T
  <2>4. (v = "clear" /\ WentOn(c, r)) \/ call'[c] = Idle
    BY <1>17, <2>1, FailDoes DEF v, T
  <2> QED
    BY <2>1, <2>2, <2>3, <2>4
<1> QED
  BY <1>7, <1>8, <1>9, <1>10, <1>11, <1>12, <1>13, <1>14, <1>15, <1>16, <1>17 DEF Statements

\* Every step keeps the tables sound.
LEMMA RefsStep ==
  ASSUME ~Interleave, MayFail \cap {"clearAll", "noEdges"} = {}, TypeInv, RefInv, [Next]_vars
  PROVE  RefInv'
<1>0. /\ Solo' /\ call \in [Conns -> CallType] /\ Sound(NoTables)
      /\ \A c \in Conns : call[c].todo = <<>> <=> call[c] = Idle
  BY SoloStep, IdleIs DEF RefInv, TypeInv, CallInv, Sound, NoTables
<1>1. CASE UNCHANGED vars
  BY <1>0, <1>1 DEF vars, RefInv, CallRefs
<1>2. ASSUME NEW c \in Conns, Calls(c) PROVE RefInv'
  <2>1. PICK r \in CallType : Fits(r) /\ Begun(r) /\ r.todo # <<>> /\ Start(c, r)
    BY <1>2, CallsBegin
  <2>2. /\ call'[c] = r /\ \A d \in Conns \ {c} : call'[d] = Idle
        /\ UNCHANGED <<db, saved>>
    BY <2>1, StartIs DEF TypeInv
  <2>3. CallRefs(c)'
    BY <2>1, <2>2 DEF Begun, CallRefs, ExistsIn, Exists
  <2>4. \A d \in Conns \ {c} : CallRefs(d)'
    BY <2>2, IdleIs DEF CallRefs
  <2> QED
    BY <1>0, <2>2, <2>3, <2>4 DEF RefInv
<1>3. ASSUME NEW c \in Conns, Statements(c) PROVE RefInv'
  <2>1. Sound(db') /\ CallRefs(c)'
    BY <1>3, RefsStatement DEF RefInv
  <2>2. saved' = saved /\ \A d \in Conns \ {c} : call'[d] = Idle
    BY <1>3, StatementsLeave DEF RefInv, Solo
  <2>3. \A d \in Conns \ {c} : CallRefs(d)'
    BY <2>2, IdleIs DEF CallRefs
  <2> QED
    BY <1>0, <2>1, <2>2, <2>3 DEF RefInv
<1>4. ASSUME NEW c \in Conns, Begin(c) PROVE RefInv'
  BY <1>0, <1>4 DEF Begin, RefInv, CallRefs
<1>5. ASSUME NEW c \in Conns, Commit(c) PROVE RefInv'
  BY <1>0, <1>5 DEF Commit, RefInv, CallRefs, NothingSaved
<1>6. ASSUME NEW c \in Conns, Rollback(c) \/ End(c) PROVE RefInv'
  <2>1. call'[c] = Idle /\ \A d \in Conns \ {c} : call'[d] = call[d]
    BY <1>6, RestTyped DEF Rollback
  <2>2. CASE Restore /\ txn = c
    <3>1. db' = saved.db /\ saved'.db = NoTables
      BY <2>2 DEF Restore, NothingSaved
    <3>2. \A d \in Conns : call'[d] = Idle
      BY <1>0, <2>1, <2>2, ConstantsAssumption DEF RefInv, Solo
    <3>3. \A d \in Conns : CallRefs(d)'
      BY <3>2, IdleIs DEF CallRefs
    <3> QED
      BY <1>0, <3>1, <3>3 DEF RefInv
  <2>3. CASE UNCHANGED <<db, saved>>
    <3>1. \A d \in Conns : CallRefs(d)'
      BY <2>1, <2>3, IdleIs DEF CallRefs, RefInv
    <3> QED
      BY <1>0, <2>3, <3>1 DEF RefInv
  <2> QED
    BY <1>6, <2>2, <2>3 DEF Rollback, End
<1> QED
  BY <1>1, <1>2, <1>3, <1>4, <1>5, <1>6 DEF Next

\* The invariant is stronger than the property.
LEMMA RefsDangle == TypeInv /\ RefInv => NothingDangles
<1> SUFFICES ASSUME TypeInv, RefInv PROVE NothingDangles
  OBVIOUS
<1>1. EdgeEnds
  BY DEF RefInv, Sound, EdgeEnds
<1>2. RowsOwned
  BY DEF RefInv, Sound, RowsOwned, Exists
<1> QED
  BY <1>1, <1>2 DEF NothingDangles

\* Nothing names a node that is gone, whatever ends half way and whatever fails,
\* when calls do not overlap and a DELETE learns of its own failures.
THEOREM DeletesAreClean ==
  ASSUME ~Interleave, MayFail \cap {"clearAll", "noEdges"} = {}
  PROVE  Spec => []NothingDangles
<1>1. Init => RefInv
  BY IdleIs DEF Init, RefInv, Solo, Sound, NoTables, CallRefs
<1>2. TypeInv /\ RefInv /\ [Next]_vars => TypeInv' /\ RefInv'
  BY NextTyped, RefsStep
<1> QED
  BY <1>1, <1>2, InitTyped, RefsDangle, PTL DEF Spec
-----------------------------------------------------------------------------
(* A node has one value under a name                                       *)

RowOf(o, k, t) == [of |-> o, key |-> k, tab |-> t]

\* A name has one key, and a node one row under a key.
Single(d) ==
  /\ \A j, k \in DOMAIN d.keys : d.keys[j] = d.keys[k] => j = k
  /\ \A x, y \in d.rows : x.of = y.of /\ x.of[1] = "node" /\ x.key = y.key => x.tab = y.tab

\* A SET that knows its key has still to clear each table that has a row.
CallOne(c) ==
  LET r == call[c]
      T == r.todo
  IN T # <<>> /\ OfNode(r) /\ (Has(T, "put") \/ Has(T, "clear")) /\ Keyed(T) =>
       \A t \in TabSet : HasTab(T, "clear", t) \/ RowOf(r.of, r.key, t) \notin db.rows

OneInv == /\ Solo
          /\ Single(db) /\ Single(saved.db)
          /\ \A c \in Conns : CallOne(c)

\* What CallOne asks of the statements that are left.
LEMMA OneGoOn ==
  ASSUME TypeInv, NEW c \in Conns, call[c].todo # <<>>, CallOne(c), NEW with, WentOn(c, with),
         db'.rows \subseteq db.rows,
         LET v == Head(call[c].todo)[1] IN
         /\ v \notin {"newNode", "newEdge", "ensureKey", "lookupKey"} => with.key = call[c].key
         /\ v \notin {"newNode", "newEdge"} => with.of = call[c].of
         /\ v = "newEdge" => ~OfNode(with)
         /\ v = "clear" => RowOf(call[c].of, call[c].key, Head(call[c].todo)[2]) \notin db'.rows
  PROVE  CallOne(c)'
<1> DEFINE r == call[c]
           T == r.todo
           R == Tail(T)
           v == Head(T)[1]
<1>1. T # <<>> /\ Fits(r) /\ Shape(T) /\ T[1] = Head(T) /\ Has(T, v) /\ v \in Verbs
  BY HeadIs DEF TypeInv, CallInv, Fits
<1>2. CASE call'[c] = Idle
  BY <1>2, IdleIs DEF CallOne
<1>3. CASE call'[c] # Idle
  <2>1. call'[c].todo = R /\ call'[c].of = with.of /\ call'[c].key = with.key
    BY <1>3 DEF WentOn
  <2>2. /\ \A w : Has(R, w) => Has(T, w)
        /\ \A w : Has(T, w) /\ v # w => Has(R, w)
        /\ \A w, t : HasTab(T, w, t) /\ T[1] # <<w, t>> => HasTab(R, w, t)
    BY <1>1, ShapeTail DEF Verb
  <2> SUFFICES ASSUME OfNode(with), Has(R, "put") \/ Has(R, "clear"), Keyed(R), NEW t \in TabSet
               PROVE  HasTab(R, "clear", t) \/ RowOf(with.of, with.key, t) \notin db'.rows
    BY <2>1 DEF CallOne, OfNode
  <2> HIDE DEF R
  <2>3. CASE v = "newNode"
    <3>1. Has(T, "ensureKey")
      BY <1>1, <2>3 DEF Fits
    <3> QED
      BY <2>2, <2>3, <3>1 DEF Keyed
  <2>4. CASE v \in {"ensureKey", "lookupKey"}
    <3>1. HasTab(T, "clear", t)
      BY <1>1, <2>4 DEF Fits, OfNode
    <3>2. T[1] # <<"clear", t>>
      BY <1>1, <2>4
    <3> QED
      BY <2>2, <3>1, <3>2
  <2>5. CASE v \notin {"newNode", "newEdge", "ensureKey", "lookupKey"}
    <3>1. with.of = r.of /\ with.key = r.key /\ OfNode(r) /\ Keyed(T) /\ (Has(T, "put") \/ Has(T, "clear"))
      BY <2>2, <2>5 DEF Keyed, OfNode
    <3>2. HasTab(T, "clear", t) \/ RowOf(r.of, r.key, t) \notin db.rows
      BY <1>1, <3>1 DEF CallOne
    <3>3. CASE T[1] = <<"clear", t>>
      <4>1. v = "clear" /\ Head(T)[2] = t
        BY <1>1, <3>3
      <4> QED
        BY <3>1, <4>1
    <3>4. CASE T[1] # <<"clear", t>>
      BY <2>2, <3>1, <3>2, <3>4
    <3> QED
      BY <3>3, <3>4
  <2> QED
    BY <2>3, <2>4, <2>5
<1> QED
  BY <1>2, <1>3

\* Each statement keeps this, when SET notices that a DELETE of its failed.
LEMMA OneStatement ==
  ASSUME "clear" \notin MayFail, TypeInv, Single(db), NEW c \in Conns, CallOne(c), Statements(c)
  PROVE  Single(db') /\ CallOne(c)'
<1> DEFINE T == call[c].todo
           r == call[c]
           v == Head(T)[1]
<1>1. T # <<>> /\ Fits(r) /\ Shape(T) /\ r \in CallType /\ db \in Tables
  BY StatementsLeave DEF Fits, TypeInv, Typed, CallInv
<1>2. ASSUME NEW w, At(c, w) PROVE v = w
  BY <1>2, AtIs
<1>3. ASSUME call'[c] = Idle PROVE CallOne(c)'
  BY <1>3, IdleIs DEF CallOne
<1>4. ASSUME db'.keys = db.keys, db'.rows \subseteq db.rows PROVE Single(db')
  BY <1>4 DEF Single
<1> HIDE DEF T, v
<1>5. ASSUME FindKey(c) PROVE Single(db') /\ CallOne(c)'
  <2>1. PICK k \in Nat \ {0} : WentOn(c, [r EXCEPT !.key = k])
    BY <1>5, FindKeyDoes
  <2>2. db' = db /\ v \in {"ensureKey", "lookupKey"}
    BY <1>2, <1>5, FindKeyDoes
  <2> DEFINE with == [r EXCEPT !.key = k]
  <2>3. with.of = r.of
    BY <1>1 DEF CallType
  <2> HIDE DEF with
  <2>4. CallOne(c)'
    BY <1>1, <2>1, <2>2, <2>3, OneGoOn DEF with, T, v
  <2> QED
    BY <2>2, <2>4
<1>6. ASSUME MissKey(c) PROVE Single(db') /\ CallOne(c)'
  <2>1. v \in {"ensureKey", "lookupKey"} /\ KeyIds(r.name) = {} /\ r.name \in Names
    BY <1>2, <1>6, MissKeyDoes
  <2>2. CASE call'[c] = Idle /\ UNCHANGED db
    BY <1>3, <2>2
  <2>3. CASE /\ db' = [db EXCEPT !.keys = Append(@, r.name)]
             /\ WentOn(c, [r EXCEPT !.key = Len(db.keys) + 1])
    <3> DEFINE with == [r EXCEPT !.key = Len(db.keys) + 1]
               a == r.name
    <3>1. with.of = r.of
      BY <1>1 DEF CallType
    <3>2. db.keys \in Seq(Names) /\ db'.keys = Append(db.keys, a) /\ db'.rows = db.rows
      BY <1>1, <2>3 DEF Tables
    <3>3. WentOn(c, with)
      BY <2>3
    <3> HIDE DEF with, a
    <3>4. CallOne(c)'
      BY <1>1, <2>1, <3>1, <3>2, <3>3, OneGoOn DEF T, v
    <3>5. \A k \in DOMAIN db.keys : db.keys[k] # a
      BY <2>1 DEF KeyIds, a
    <3>6. ASSUME NEW j \in DOMAIN db'.keys, NEW k \in DOMAIN db'.keys, db'.keys[j] = db'.keys[k] PROVE j = k
      <4>1. /\ DOMAIN db'.keys = 1 .. (Len(db.keys) + 1) /\ DOMAIN db.keys = 1 .. Len(db.keys) /\ Len(db.keys) \in Nat
            /\ \A i \in DOMAIN db.keys : db'.keys[i] = db.keys[i]
            /\ db'.keys[Len(db.keys) + 1] = a
        BY <2>1, <3>2 DEF a
      <4>2. CASE j \in DOMAIN db.keys /\ k \in DOMAIN db.keys
        BY <3>6, <4>1, <4>2 DEF Single
      <4>3. CASE j \notin DOMAIN db.keys \/ k \notin DOMAIN db.keys
        BY <3>5, <3>6, <4>1, <4>3
      <4> QED
        BY <4>2, <4>3
    <3>7. Single(db')
      BY <3>2, <3>6 DEF Single
    <3> QED
      BY <3>4, <3>7
  <2> QED
    BY <1>6, <2>2, <2>3, MissKeyDoes
<1>7. ASSUME Clear(c) PROVE Single(db') /\ CallOne(c)'
  <2>1. v \in {"clear", "clearAll"} /\ WentOn(c, r) /\ db' = [db EXCEPT !.rows = @ \ Cleared(c)]
    BY <1>2, <1>7, ClearDoes
  <2>2. db'.keys = db.keys /\ db'.rows = db.rows \ Cleared(c)
    BY <1>1, <2>1 DEF Tables
  <2>3. v = "clear" => RowOf(r.of, r.key, Head(T)[2]) \notin db'.rows
    BY <2>2 DEF Cleared, RowOf, T, v
  <2> QED
    BY <1>1, <1>4, <2>1, <2>2, <2>3, OneGoOn DEF T, v
<1>8. ASSUME Put(c) PROVE Single(db') /\ CallOne(c)'
  <2> DEFINE row == RowOf(r.of, r.key, r.tab)
  <2>1. /\ v = "put" /\ call'[c] = Idle /\ db' = [db EXCEPT !.rows = @ \cup {row}]
        /\ r.of \in Owners /\ r.key \in Nat \ {0} /\ r.tab \in TabSet
        /\ \A w : Has(T, w) => w = "put"
    BY <1>2, <1>8, PutDoes DEF RowOf, T
  <2>2. row.of = r.of /\ row.key = r.key /\ row.tab = r.tab
    BY DEF RowOf
  <2>3. ASSUME NEW x \in db.rows, x.of = r.of, x.of[1] = "node", x.key = r.key PROVE FALSE
    <3>1. x \in [of : Owners, key : Nat \ {0}, tab : TabSet]
      BY <1>1 DEF Tables
    <3>2. x = RowOf(r.of, r.key, x.tab) /\ x.tab \in TabSet
      BY <2>3, <3>1 DEF RowOf
    <3>3. ~HasTab(T, "clear", x.tab)
      BY <2>1 DEF HasTab, Has, Verb
    <3>4. OfNode(r) /\ Has(T, "put") /\ Keyed(T)
      <4>1. Has(T, "put")
        BY <1>1, <2>1, HeadIs DEF v
      <4>2. r.of # None
        BY <2>1, ConstantsAssumption DEF Owners
      <4> QED
        BY <2>1, <2>3, <4>1, <4>2 DEF OfNode, Keyed
    <3> QED
      BY <1>1, <3>2, <3>3, <3>4 DEF CallOne, T
  <2> HIDE DEF row
  <2>4. db'.keys = db.keys /\ db'.rows = db.rows \cup {row}
    BY <1>1, <2>1 DEF Tables
  <2>5. Single(db')
    BY <2>2, <2>3, <2>4 DEF Single
  <2> QED
    BY <1>3, <2>1, <2>5
<1>9. ASSUME NewNode(c) PROVE Single(db') /\ CallOne(c)'
  <2> DEFINE with == [r EXCEPT !.of = Node(NextNode)]
  <2>1. v = "newNode" /\ WentOn(c, with)
        /\ db' = [db EXCEPT !.nodes = @ \cup {NextNode}, !.lastNode = NextNode]
    BY <1>2, <1>9, NewNodeDoes
  <2> HIDE DEF with
  <2>2. db'.keys = db.keys /\ db'.rows = db.rows
    BY <1>1, <2>1 DEF Tables
  <2> QED
    BY <1>1, <1>4, <2>1, <2>2, OneGoOn DEF T, v
<1>10. ASSUME NewEdge(c) PROVE Single(db') /\ CallOne(c)'
  <2> DEFINE e == db.lastEdge + 1
             x == [id |-> e, src |-> r.ends[1], dst |-> r.ends[2]]
             with == [r EXCEPT !.of = Edge(e), !.ends = None]
  <2>1. v = "newEdge" /\ WentOn(c, with) /\ db' = [db EXCEPT !.lastEdge = e, !.edges = @ \cup {x}]
    BY <1>2, <1>10, NewEdgeDoes
  <2>2. ~OfNode(with)
    BY <1>1 DEF CallType, OfNode, Edge
  <2> HIDE DEF with, x, e
  <2>3. db'.keys = db.keys /\ db'.rows = db.rows
    BY <1>1, <2>1 DEF Tables
  <2> QED
    BY <1>1, <1>4, <2>1, <2>2, <2>3, OneGoOn DEF T, v
<1>11. ASSUME CheckNoEdges(c) PROVE Single(db') /\ CallOne(c)'
  <2>1. v = "noEdges" /\ db' = db /\ (call'[c] = Idle \/ WentOn(c, r))
    BY <1>2, <1>11, CheckNoEdgesDoes
  <2>2. WentOn(c, r) => CallOne(c)'
    BY <1>1, <2>1, OneGoOn DEF T, v
  <2> QED
    BY <1>3, <2>1, <2>2
<1>12. ASSUME DropEdges(c) PROVE Single(db') /\ CallOne(c)'
  <2>1. v = "dropEdges" /\ WentOn(c, r) /\ db' = [db EXCEPT !.edges = @ \ Touching(r.of[2])]
    BY <1>2, <1>12, DropEdgesDoes
  <2>2. db'.keys = db.keys /\ db'.rows = db.rows
    BY <1>1, <2>1 DEF Tables
  <2> QED
    BY <1>1, <1>4, <2>1, <2>2, OneGoOn DEF T, v
<1>13. ASSUME DropNode(c) PROVE Single(db') /\ CallOne(c)'
  <2>1. call'[c] = Idle /\ db' = [db EXCEPT !.nodes = @ \ {r.of[2]}]
    BY <1>13, DropNodeDoes
  <2>2. db'.keys = db.keys /\ db'.rows = db.rows
    BY <1>1, <2>1 DEF Tables
  <2> QED
    BY <1>3, <1>4, <2>1, <2>2
<1>14. ASSUME DropEdge(c) PROVE Single(db') /\ CallOne(c)'
  <2>1. call'[c] = Idle /\ db' = [db EXCEPT !.edges = {e \in @ : e.id # r.of[2]}]
    BY <1>14, DropEdgeDoes
  <2>2. db'.keys = db.keys /\ db'.rows = db.rows
    BY <1>1, <2>1 DEF Tables
  <2> QED
    BY <1>3, <1>4, <2>1, <2>2
<1>15. ASSUME Fail(c) PROVE Single(db') /\ CallOne(c)'
  <2>1. db' = db /\ v \in MayFail
    BY <1>15, FailDoes DEF v, T
  <2>2. (v \in {"clearAll", "noEdges"} /\ WentOn(c, r)) \/ call'[c] = Idle
    BY <1>15, <2>1, FailDoes DEF v, T
  <2>3. v \in {"clearAll", "noEdges"} /\ WentOn(c, r) => CallOne(c)'
    BY <1>1, <2>1, OneGoOn DEF T, v
  <2> QED
    BY <1>3, <2>1, <2>2, <2>3
<1> QED
  BY <1>5, <1>6, <1>7, <1>8, <1>9, <1>10, <1>11, <1>12, <1>13, <1>14, <1>15 DEF Statements

\* Every step keeps one value under a name.
LEMMA OneStep ==
  ASSUME ~Interleave, "clear" \notin MayFail, TypeInv, OneInv, [Next]_vars
  PROVE  OneInv'
<1>0. /\ Solo' /\ call \in [Conns -> CallType] /\ Single(NoTables)
      /\ \A c \in Conns : call[c].todo = <<>> <=> call[c] = Idle
  BY SoloStep, IdleIs DEF OneInv, TypeInv, CallInv, Single, NoTables
<1>1. CASE UNCHANGED vars
  BY <1>0, <1>1 DEF vars, OneInv, CallOne
<1>2. ASSUME NEW c \in Conns, Calls(c) PROVE OneInv'
  <2>1. PICK r \in CallType : Fits(r) /\ Begun(r) /\ r.todo # <<>> /\ Start(c, r)
    BY <1>2, CallsBegin
  <2>2. /\ call'[c] = r /\ \A d \in Conns \ {c} : call'[d] = Idle
        /\ UNCHANGED <<db, saved>>
    BY <2>1, StartIs DEF TypeInv
  <2>3. CallOne(c)'
    BY <2>1, <2>2 DEF Begun, CallOne
  <2>4. \A d \in Conns \ {c} : CallOne(d)'
    BY <2>2, IdleIs DEF CallOne
  <2> QED
    BY <1>0, <2>2, <2>3, <2>4 DEF OneInv
<1>3. ASSUME NEW c \in Conns, Statements(c) PROVE OneInv'
  <2>1. Single(db') /\ CallOne(c)'
    BY <1>3, OneStatement DEF OneInv
  <2>2. saved' = saved /\ \A d \in Conns \ {c} : call'[d] = Idle
    BY <1>3, StatementsLeave DEF OneInv, Solo
  <2>3. \A d \in Conns \ {c} : CallOne(d)'
    BY <2>2, IdleIs DEF CallOne
  <2> QED
    BY <1>0, <2>1, <2>2, <2>3 DEF OneInv
<1>4. ASSUME NEW c \in Conns, Begin(c) PROVE OneInv'
  BY <1>0, <1>4 DEF Begin, OneInv, CallOne
<1>5. ASSUME NEW c \in Conns, Commit(c) PROVE OneInv'
  BY <1>0, <1>5 DEF Commit, OneInv, CallOne, NothingSaved
<1>6. ASSUME NEW c \in Conns, Rollback(c) \/ End(c) PROVE OneInv'
  <2>1. call'[c] = Idle /\ \A d \in Conns \ {c} : call'[d] = call[d]
    BY <1>6, RestTyped DEF Rollback
  <2>2. CASE Restore /\ txn = c
    <3>1. db' = saved.db /\ saved'.db = NoTables
      BY <2>2 DEF Restore, NothingSaved
    <3>2. \A d \in Conns : call'[d] = Idle
      BY <1>0, <2>1, <2>2, ConstantsAssumption DEF OneInv, Solo
    <3>3. \A d \in Conns : CallOne(d)'
      BY <3>2, IdleIs DEF CallOne
    <3> QED
      BY <1>0, <3>1, <3>3 DEF OneInv
  <2>3. CASE UNCHANGED <<db, saved>>
    <3>1. \A d \in Conns : CallOne(d)'
      BY <2>1, <2>3, IdleIs DEF CallOne, OneInv
    <3> QED
      BY <1>0, <2>3, <3>1 DEF OneInv
  <2> QED
    BY <1>6, <2>2, <2>3 DEF Rollback, End
<1> QED
  BY <1>1, <1>2, <1>3, <1>4, <1>5, <1>6 DEF Next

\* The invariant is stronger than the property.
LEMMA OneIsOne == TypeInv /\ OneInv => OneValue
<1> SUFFICES ASSUME TypeInv, OneInv, NEW n \in db.nodes, NEW a \in Names
             PROVE  Cardinality(Holding(Node(n), a)) <= 1
  BY DEF OneValue
<1> DEFINE H == Holding(Node(n), a)
<1>1. \A s, t \in H : s = t
  <2> SUFFICES ASSUME NEW s \in H, NEW t \in H PROVE s = t
    OBVIOUS
  <2>1. PICK j \in KeyIds(a) : RowOf(Node(n), j, s) \in db.rows
    BY DEF Holding, RowOf
  <2>2. PICK k \in KeyIds(a) : RowOf(Node(n), k, t) \in db.rows
    BY DEF Holding, RowOf
  <2>3. j = k
    BY DEF KeyIds, OneInv, Single
  <2> QED
    BY <2>1, <2>2, <2>3 DEF OneInv, Single, RowOf, Node
<1>2. CASE H = {}
  BY <1>2, FS_EmptySet
<1>3. CASE H # {}
  <2>1. PICK t : H = {t}
    BY <1>1, <1>3
  <2> QED
    BY <2>1, FS_Singleton
<1> QED
  BY <1>2, <1>3

\* A node has a value in one table at most, at every statement of a SET and
\* whatever ends half way, when calls do not overlap and SET learns of a DELETE
\* that failed.  Not even the ids the cache keeps after a ROLLBACK break it.
THEOREM NodesHaveOneValue ==
  ASSUME ~Interleave, "clear" \notin MayFail
  PROVE  Spec => []OneValue
<1>1. Init => OneInv
  BY IdleIs DEF Init, OneInv, Solo, Single, NoTables, CallOne
<1>2. TypeInv /\ OneInv /\ [Next]_vars => TypeInv' /\ OneInv'
  BY NextTyped, OneStep
<1> QED
  BY <1>1, <1>2, InitTyped, OneIsOne, PTL DEF Spec

-----------------------------------------------------------------------------
(* The values that are read.                                               *)

\* o has a row under the name a in the table t.
HasRow(d, o, a, t) == \E k \in DOMAIN d.keys : d.keys[k] = a /\ RowOf(o, k, t) \in d.rows

\* What was said of what is there is so.
Told(d, sd) ==
  \A o \in Owners, a \in Names : ExistsIn(d, o) /\ sd[o][a] # "unknown" =>
    \A t \in TabSet : HasRow(d, o, a, t) <=> t = sd[o][a]

Fresh(d, o) == \/ o[1] = "node" /\ o[2] > d.lastNode
               \/ o[1] = "edge" /\ o[2] > d.lastEdge

\* Rows have a key, those of an edge are in the tables of edges, ids are not used
\* twice, and nothing is known of an id that was never used.
Neat(d, sd) ==
  /\ \A x \in d.rows : x.key \in DOMAIN d.keys /\ (x.of[1] = "edge" => x.tab \in EdgeTabs)
  /\ \A e, f \in d.edges : e.id = f.id => e = f
  /\ \A n \in d.nodes : n <= d.lastNode
  /\ \A e \in d.edges : e.id <= d.lastEdge
  /\ \A o \in Owners : Fresh(d, o) =>
       (\A a \in Names : sd[o][a] = None) /\ (\A x \in d.rows : x.of # o)

\* A call's key is that of its name, and what it has still to clear is all there is.
CallSaid(c) ==
  LET r == call[c]
      T == r.todo
  IN T # <<>> =>
       /\ (Has(T, "put") \/ Has(T, "clear")) /\ Keyed(T) =>
            r.key \in DOMAIN db.keys /\ db.keys[r.key] = r.name
       /\ Has(T, "clear") /\ Keyed(T) =>
            \A t \in TabSet : HasTab(T, "clear", t) \/ RowOf(r.of, r.key, t) \notin db.rows
       /\ Has(T, "clear") /\ ~Keyed(T) => \A t \in TabSet : HasTab(T, "clear", t)
       /\ HasTab(T, "clearAll", Tabs[All]) =>
            /\ r.of # None
            /\ \A t \in TabSet : HasTab(T, "clearAll", t) \/ Cleaned(db, r.of, t)

\* What a connection remembers of keys is so.
Remembers(d, c) ==
  \A s \in Slots : cache[c][s] # None =>
    cache[c][s].id \in DOMAIN d.keys /\ d.keys[cache[c][s].id] = cache[c][s].name

SaidInv ==
  /\ RefInv /\ OneInv
  /\ Told(db, said) /\ Neat(db, said)
  /\ Told(saved.db, saved.said) /\ Neat(saved.db, saved.said)
  /\ \A c \in Conns : CallSaid(c) /\ Remembers(db, c)
  /\ txn # None => \A c \in Conns \ {txn} : Remembers(saved.db, c)

\* The last table is the last statement of its loop.
LEMMA LastIsLast ==
  ASSUME NEW T, Shape(T), T # <<>>, NEW v \in {"clear", "clearAll"}, Head(T)[1] = v,
         Head(T)[2] = Tabs[All], NEW t, HasTab(T, v, t)
  PROVE  t = Tabs[All]
<1>1. T[1] = <<v, Tabs[All]>> /\ ~Has(Tail(T), v)
  BY HeadIs
<1>2. T[1] # <<v, t>> => HasTab(Tail(T), v, t)
  BY ShapeTail
<1>3. HasTab(Tail(T), v, t) => Has(Tail(T), v)
  BY DEF HasTab, Has, Verb
<1> QED
  BY <1>1, <1>2, <1>3

\* What CallSaid asks of the statements that are left.
LEMMA SaidGoOn ==
  ASSUME TypeInv, NEW c \in Conns, call[c].todo # <<>>, CallSaid(c), NEW with, WentOn(c, with),
         with.name = call[c].name,
         db'.rows \subseteq db.rows,
         \A k \in DOMAIN db.keys : k \in DOMAIN db'.keys /\ db'.keys[k] = db.keys[k],
         LET v == Head(call[c].todo)[1] IN
         /\ v \notin {"ensureKey", "lookupKey"} => with.key = call[c].key
         /\ v \in {"ensureKey", "lookupKey"} =>
              with.key \in DOMAIN db'.keys /\ db'.keys[with.key] = with.name
         /\ v \notin {"newNode", "newEdge"} => with.of = call[c].of
         /\ v = "clear" => RowOf(call[c].of, call[c].key, Head(call[c].todo)[2]) \notin db'.rows
         /\ v = "clearAll" => Cleaned(db', call[c].of, Head(call[c].todo)[2])
  PROVE  CallSaid(c)'
<1> DEFINE r == call[c]
           T == r.todo
           R == Tail(T)
           v == Head(T)[1]
<1>1. T # <<>> /\ Fits(r) /\ Shape(T) /\ T[1] = Head(T) /\ Has(T, v) /\ v \in Verbs
  BY HeadIs DEF TypeInv, CallInv, Fits
<1>2. CASE call'[c] = Idle
  BY <1>2, IdleIs DEF CallSaid
<1>3. CASE call'[c] # Idle
  <2>1. call'[c].todo = R /\ call'[c].of = with.of /\ call'[c].key = with.key /\ call'[c].name = with.name
    BY <1>3 DEF WentOn
  <2>2. /\ \A w : Has(R, w) => Has(T, w)
        /\ \A w : Has(T, w) /\ v # w => Has(R, w)
        /\ \A w, t : HasTab(T, w, t) /\ T[1] # <<w, t>> => HasTab(R, w, t)
        /\ \A w, t : HasTab(R, w, t) => HasTab(T, w, t)
    BY <1>1, ShapeTail DEF Verb
  <2>3. /\ v = "clear" => Keyed(T) /\ ~Has(T, "clearAll")
        /\ v \in {"ensureKey", "lookupKey"} => Keyed(R) /\ ~Has(R, "clearAll")
    BY <1>1, HeadIs DEF Keyed
  <2>4. ~HasTab(R, "clearAll", Tabs[All]) \/ Has(R, "clearAll")
    BY DEF HasTab, Has, Verb
  <2>5. v \in {"newNode", "newEdge"} => r.of = None /\ Has(T, "ensureKey")
    BY <1>1 DEF Fits
  <2> HIDE DEF R
  <2>6. (Has(R, "put") \/ Has(R, "clear")) /\ Keyed(R) =>
          with.key \in DOMAIN db'.keys /\ db'.keys[with.key] = with.name
    <3>1. CASE v \in {"ensureKey", "lookupKey"}
      BY <3>1
    <3>2. CASE v \notin {"ensureKey", "lookupKey"}
      <4>1. Keyed(R) => Keyed(T)
        BY <2>2, <3>2 DEF Keyed
      <4> QED
        BY <1>1, <2>2, <3>2, <4>1 DEF CallSaid
    <3> QED
      BY <3>1, <3>2
  <2>7. Has(R, "clear") /\ ~Keyed(R) => \A t \in TabSet : HasTab(R, "clear", t)
    <3> SUFFICES ASSUME Has(R, "clear"), ~Keyed(R), NEW t \in TabSet PROVE HasTab(R, "clear", t)
      OBVIOUS
    <3>1. ~Keyed(T)
      BY <2>2 DEF Keyed
    <3>2. HasTab(T, "clear", t) /\ T[1] # <<"clear", t>>
      BY <1>1, <2>2, <2>3, <3>1 DEF CallSaid
    <3> QED
      BY <2>2, <3>2
  <2>8. ASSUME Has(R, "clear"), Keyed(R), NEW t \in TabSet
        PROVE  HasTab(R, "clear", t) \/ RowOf(with.of, with.key, t) \notin db'.rows
    <3>1. CASE Keyed(T)
      <4>1. v \notin {"newNode", "newEdge", "ensureKey", "lookupKey"}
        BY <1>1, <2>5, <3>1 DEF Keyed
      <4>2. HasTab(T, "clear", t) \/ RowOf(r.of, r.key, t) \notin db.rows
        BY <1>1, <2>2, <2>8, <3>1 DEF CallSaid
      <4>3. T[1] = <<"clear", t>> => v = "clear" /\ Head(T)[2] = t
        BY <1>1
      <4> QED
        BY <2>2, <4>1, <4>2, <4>3
    <3>2. CASE ~Keyed(T)
      <4>1. HasTab(T, "clear", t) /\ T[1] # <<"clear", t>>
        BY <1>1, <2>2, <2>3, <2>8, <3>2 DEF CallSaid
      <4> QED
        BY <2>2, <4>1
    <3> QED
      BY <3>1, <3>2
  <2>9. ASSUME HasTab(R, "clearAll", Tabs[All])
        PROVE  /\ with.of # None
               /\ \A t \in TabSet : HasTab(R, "clearAll", t) \/ Cleaned(db', with.of, t)
    <3>1. r.of # None /\ \A t \in TabSet : HasTab(T, "clearAll", t) \/ Cleaned(db, r.of, t)
      BY <1>1, <2>2, <2>9 DEF CallSaid
    <3>2. with.of = r.of
      BY <2>5, <3>1
    <3>3. ASSUME NEW t \in TabSet PROVE HasTab(R, "clearAll", t) \/ Cleaned(db', r.of, t)
      <4>1. T[1] = <<"clearAll", t>> => v = "clearAll" /\ Head(T)[2] = t
        BY <1>1
      <4>2. Cleaned(db, r.of, t) => Cleaned(db', r.of, t)
        BY DEF Cleaned
      <4> QED
        BY <2>2, <3>1, <4>1, <4>2
    <3> QED
      BY <3>1, <3>2, <3>3
  <2> QED
    BY <2>1, <2>6, <2>7, <2>8, <2>9 DEF CallSaid
<1> QED
  BY <1>2, <1>3

\* What every statement may count on.
LEMMA Before ==
  ASSUME TypeInv, SaidInv, NEW c \in Conns, Statements(c)
  PROVE  LET r == call[c]
             T == r.todo
             v == Head(T)[1]
         IN /\ T # <<>> /\ Fits(r) /\ Shape(T) /\ r \in CallType /\ db \in Tables /\ said \in SaidType
            /\ CallSaid(c) /\ CallOne(c) /\ CallRefs(c) /\ Has(T, v)
            /\ \A w : At(c, w) => v = w
            /\ v \notin {"newNode", "newEdge"} => r.of \in Owners /\ r.of # None /\ ExistsIn(db, r.of)
            /\ (v = "put" \/ v = "clear") =>
                 /\ r.key \in DOMAIN db.keys /\ db.keys[r.key] = r.name /\ r.name \in Names
                 /\ \A k \in DOMAIN db.keys : db.keys[k] = r.name => k = r.key
<1> DEFINE T == call[c].todo
           r == call[c]
           v == Head(T)[1]
<1>1. /\ T # <<>> /\ Fits(r) /\ Shape(T) /\ r \in CallType /\ db \in Tables /\ said \in SaidType
      /\ CallSaid(c) /\ CallOne(c) /\ CallRefs(c) /\ Single(db)
  BY StatementsLeave DEF Fits, TypeInv, Typed, CallInv, SaidInv, OneInv, RefInv
<1>2. /\ Has(T, v) /\ Verb(T, 1) = v
      /\ v = "clear" => Keyed(T)
      /\ v = "put" => \A w : Has(T, w) => w = "put"
  BY <1>1, HeadIs DEF Keyed
<1>3. ASSUME NEW w, At(c, w) PROVE v = w
  BY <1>3, AtIs
<1>4. v \notin {"newNode", "newEdge"} => r.of \in Owners /\ r.of # None /\ ExistsIn(db, r.of)
  <2>1. v \notin {"newNode", "newEdge"} => ~Has(T, "newNode") /\ ~Has(T, "newEdge")
    BY <1>1, HeadIs, ShapeTail
  <2> QED
    BY <1>1, <2>1 DEF Fits, CallRefs, CallType
<1>5. v = "put" => Keyed(T)
  BY <1>2 DEF Keyed
<1>6. v = "put" \/ v = "clear" =>
        /\ r.key \in DOMAIN db.keys /\ db.keys[r.key] = r.name /\ r.name \in Names
        /\ \A k \in DOMAIN db.keys : db.keys[k] = r.name => k = r.key
  BY <1>1, <1>2, <1>5 DEF CallSaid, Fits, Single
<1> QED
  BY <1>1, <1>2, <1>3, <1>4, <1>6

\* A DELETE of rows: what is said of them then is so.
LEMMA ClearSaid ==
  ASSUME TypeInv, SaidInv, NEW c \in Conns, Clear(c)
  PROVE  Told(db', said') /\ Neat(db', said') /\ CallSaid(c)'
<1> DEFINE T == call[c].todo
           r == call[c]
           v == Head(T)[1]
           o == r.of
           now == IF Head(T)[2] = Tabs[All] THEN None ELSE "unknown"
<1>1. /\ T # <<>> /\ Fits(r) /\ Shape(T) /\ r \in CallType /\ db \in Tables /\ said \in SaidType
      /\ CallSaid(c) /\ Has(T, v) /\ Statements(c)
      /\ \A w : At(c, w) => v = w
      /\ v = "clear" =>
           /\ r.key \in DOMAIN db.keys /\ db.keys[r.key] = r.name
           /\ \A k \in DOMAIN db.keys : db.keys[k] = r.name => k = r.key
  BY Before DEF Statements
<1>2. v \in {"clear", "clearAll"} /\ WentOn(c, r) /\ db' = [db EXCEPT !.rows = @ \ Cleared(c)]
      /\ SaidCleared(c)
  BY <1>1, ClearDoes
<1>3. o \in Owners /\ o # None /\ ExistsIn(db, o)
  BY <1>1, <1>2, Before
<1>4. /\ db'.nodes = db.nodes /\ db'.edges = db.edges /\ db'.keys = db.keys
      /\ db'.lastNode = db.lastNode /\ db'.lastEdge = db.lastEdge /\ db'.rows = db.rows \ Cleared(c)
  BY <1>1, <1>2 DEF Tables
<1>5. Cleared(c) = {x \in db.rows : /\ x.of = o /\ x.tab = Head(T)[2]
                                    /\ v = "clear" => x.key = r.key}
  BY DEF Cleared
<1>6. \A p \in Owners, a \in Names :
        said'[p][a] = IF p = o /\ (v = "clearAll" \/ a = r.name) THEN now ELSE said[p][a]
  <2> DEFINE f == [a \in Names |-> IF v = "clearAll" \/ a = r.name THEN now ELSE said[o][a]]
  <2>1. said' = [said EXCEPT ![o] = f]
    BY <1>2 DEF SaidCleared, All
  <2>2. \A a \in Names : f[a] = IF v = "clearAll" \/ a = r.name THEN now ELSE said[o][a]
    OBVIOUS
  <2> HIDE DEF f
  <2> QED
    BY <1>1, <1>3, <2>1, <2>2 DEF SaidType
<1>7. Head(T)[2] \in TabSet /\ T[1] = <<v, Head(T)[2]>>
  BY <1>1, <1>2, HeadIs
<1> HIDE DEF T, v, o
<1>8. ASSUME Head(T)[2] = Tabs[All], NEW t \in TabSet, NEW x \in db'.rows, x.of = o, x.tab = t,
             v = "clear" => x.key = r.key
      PROVE  FALSE
  <2>1. x \in db.rows /\ x \notin Cleared(c)
    BY <1>4
  <2>2. t # Tabs[All]
    BY <1>5, <1>8, <2>1
  <2>3. CASE v = "clear"
    <3>1. ~HasTab(T, "clear", t)
      BY <1>1, <1>8, <2>2, <2>3, LastIsLast DEF T, v
    <3>2. Has(T, "clear") /\ Keyed(T)
      BY <1>1, <2>3, HeadIs DEF T, v, Keyed
    <3>3. RowOf(o, r.key, t) \notin db.rows
      BY <1>1, <3>1, <3>2 DEF CallSaid, T, o
    <3>4. x = RowOf(o, r.key, t)
      BY <1>1, <1>8, <2>1, <2>3 DEF RowOf, Tables
    <3> QED
      BY <2>1, <3>3, <3>4
  <2>4. CASE v = "clearAll"
    <3>1. ~HasTab(T, "clearAll", t)
      BY <1>1, <1>8, <2>2, <2>4, LastIsLast DEF T, v
    <3>2. HasTab(T, "clearAll", Tabs[All])
      <4>1. 1 \in DOMAIN T
        BY <1>1 DEF T, CallType
      <4> QED
        BY <1>7, <1>8, <2>4, <4>1 DEF HasTab
    <3>3. Cleaned(db, o, t)
      BY <1>1, <3>1, <3>2 DEF CallSaid, T, o
    <3> QED
      BY <1>8, <2>1, <3>3 DEF Cleaned
  <2> QED
    BY <1>2, <2>3, <2>4
<1>9. Told(db', said')
  <2> SUFFICES ASSUME NEW p \in Owners, NEW a \in Names, ExistsIn(db', p), said'[p][a] # "unknown",
                      NEW t \in TabSet
               PROVE  HasRow(db', p, a, t) <=> t = said'[p][a]
    BY DEF Told
  <2>1. ExistsIn(db, p)
    BY <1>4 DEF ExistsIn
  <2>2. CASE p = o /\ (v = "clearAll" \/ a = r.name)
    <3>1. now = None /\ said'[p][a] = None /\ Head(T)[2] = Tabs[All]
      BY <1>6, <2>2
    <3>2. t # None
      BY TablesAre, ConstantsAssumption DEF Kinds
    <3>3. ASSUME NEW k \in DOMAIN db'.keys, db'.keys[k] = a, RowOf(p, k, t) \in db'.rows PROVE FALSE
      <4>1. v = "clear" => k = r.key
        BY <1>1, <1>4, <2>2, <3>3
      <4> QED
        BY <1>8, <2>2, <3>1, <3>3, <4>1 DEF RowOf
    <3> QED
      BY <3>1, <3>2, <3>3 DEF HasRow
  <2>3. CASE ~(p = o /\ (v = "clearAll" \/ a = r.name))
    <3>1. said'[p][a] = said[p][a]
      BY <1>6, <2>3
    <3>2. HasRow(db, p, a, t) <=> t = said[p][a]
      BY <2>1, <3>1 DEF SaidInv, Told
    <3>3. ASSUME NEW k \in DOMAIN db.keys, db.keys[k] = a, RowOf(p, k, t) \in db.rows
          PROVE  RowOf(p, k, t) \notin Cleared(c)
      BY <1>1, <1>2, <1>5, <2>3, <3>3 DEF RowOf
    <3>4. HasRow(db', p, a, t) <=> HasRow(db, p, a, t)
      BY <1>4, <3>3 DEF HasRow
    <3> QED
      BY <3>1, <3>2, <3>4
  <2> QED
    BY <2>2, <2>3
<1>10. Neat(db', said')
  <2>1. ~Fresh(db, o)
    BY <1>3 DEF SaidInv, Neat, Fresh, ExistsIn, Owners, Tables, TypeInv, Typed
  <2>2. \A p : Fresh(db', p) <=> Fresh(db, p)
    BY <1>4 DEF Fresh
  <2>3. \A p \in Owners, a \in Names : Fresh(db, p) => said'[p][a] = said[p][a]
    BY <1>6, <2>1
  <2> QED
    BY <1>4, <2>2, <2>3 DEF SaidInv, Neat
<1>11. CallSaid(c)'
  <2>1. v = "clear" => RowOf(o, r.key, Head(T)[2]) \notin db'.rows
    BY <1>4, <1>5 DEF RowOf
  <2>2. v = "clearAll" => Cleaned(db', o, Head(T)[2])
    BY <1>4, <1>5 DEF Cleaned
  <2> QED
    BY <1>1, <1>2, <1>4, <2>1, <2>2, SaidGoOn DEF T, v, o
<1> QED
  BY <1>9, <1>10, <1>11

\* The INSERT: the value is in the one table of the call.
LEMMA PutSaid ==
  ASSUME \A s, t \in EdgeTabs : s = t, TypeInv, SaidInv, NEW c \in Conns, Put(c)
  PROVE  Told(db', said') /\ Neat(db', said') /\ CallSaid(c)'
<1> DEFINE T == call[c].todo
           r == call[c]
           o == r.of
           row == RowOf(o, r.key, r.tab)
<1>1. /\ T # <<>> /\ Fits(r) /\ r \in CallType /\ db \in Tables /\ said \in SaidType
      /\ CallOne(c) /\ Statements(c)
  BY Before DEF Statements
<1>2. /\ Head(T)[1] = "put" /\ call'[c] = Idle /\ db' = [db EXCEPT !.rows = @ \cup {row}]
      /\ \A w : Has(T, w) => w = "put"
      /\ o \in Owners /\ r.tab \in TabSet /\ r.name \in Names
      /\ said' = [said EXCEPT ![o][r.name] = r.tab]
  BY <1>1, PutDoes, Before DEF RowOf
<1>3. /\ o # None /\ ExistsIn(db, o) /\ Has(T, "put")
      /\ r.key \in DOMAIN db.keys /\ db.keys[r.key] = r.name
      /\ \A k \in DOMAIN db.keys : db.keys[k] = r.name => k = r.key
  BY <1>1, <1>2, Before
<1>4. row.of = o /\ row.key = r.key /\ row.tab = r.tab
  BY DEF RowOf
<1>5. \A p, k, t : RowOf(p, k, t) = row <=> p = o /\ k = r.key /\ t = r.tab
  BY DEF RowOf
<1> HIDE DEF row, T, o
<1>6. /\ db'.nodes = db.nodes /\ db'.edges = db.edges /\ db'.keys = db.keys
      /\ db'.lastNode = db.lastNode /\ db'.lastEdge = db.lastEdge /\ db'.rows = db.rows \cup {row}
  BY <1>1, <1>2 DEF Tables
<1>7. ASSUME NEW t \in TabSet, RowOf(o, r.key, t) \in db.rows PROVE t = r.tab
  <2>1. CASE OfNode(r)
    <3>1. ~HasTab(T, "clear", t)
      BY <1>2 DEF HasTab, Has, Verb
    <3>2. Keyed(T)
      BY <1>2 DEF Keyed
    <3> QED
      BY <1>1, <1>3, <1>7, <2>1, <3>1, <3>2 DEF CallOne, T, o
  <2>2. CASE ~OfNode(r)
    <3>1. o[1] = "edge" /\ OfEdge(r)
      BY <1>2, <1>3, <2>2 DEF OfNode, OfEdge, Owners, o
    <3>2. r.tab \in EdgeTabs
      BY <1>1, <1>3, <3>1 DEF Fits, T
    <3>3. RowOf(o, r.key, t).of = o /\ RowOf(o, r.key, t).tab = t
      BY DEF RowOf
    <3>4. t \in EdgeTabs
      BY <1>7, <3>1, <3>3 DEF SaidInv, Neat
    <3> QED
      BY <3>2, <3>4
  <2> QED
    BY <2>1, <2>2
<1>8. \A p \in Owners, a \in Names :
        said'[p][a] = IF p = o /\ a = r.name THEN r.tab ELSE said[p][a]
  BY <1>1, <1>2 DEF SaidType
<1>9. Told(db', said')
  <2> SUFFICES ASSUME NEW p \in Owners, NEW a \in Names, ExistsIn(db', p), said'[p][a] # "unknown",
                      NEW t \in TabSet
               PROVE  HasRow(db', p, a, t) <=> t = said'[p][a]
    BY DEF Told
  <2>1. ExistsIn(db, p)
    BY <1>6 DEF ExistsIn
  <2>2. CASE p = o /\ a = r.name
    <3>1. said'[p][a] = r.tab
      BY <1>8, <2>2
    <3>2. t = r.tab => HasRow(db', p, a, t)
      BY <1>3, <1>5, <1>6, <2>2 DEF HasRow
    <3>3. HasRow(db', p, a, t) => t = r.tab
      BY <1>3, <1>5, <1>6, <1>7, <2>2 DEF HasRow
    <3> QED
      BY <3>1, <3>2, <3>3
  <2>3. CASE ~(p = o /\ a = r.name)
    <3>1. said'[p][a] = said[p][a]
      BY <1>8, <2>3
    <3>2. HasRow(db, p, a, t) <=> t = said[p][a]
      BY <2>1, <3>1 DEF SaidInv, Told
    <3>3. HasRow(db', p, a, t) <=> HasRow(db, p, a, t)
      BY <1>3, <1>5, <1>6, <2>3 DEF HasRow
    <3> QED
      BY <3>1, <3>2, <3>3
  <2> QED
    BY <2>2, <2>3
<1>10. Neat(db', said')
  <2>1. ~Fresh(db, o)
    BY <1>2, <1>3 DEF SaidInv, Neat, Fresh, ExistsIn, Owners, Tables, TypeInv, Typed
  <2>2. \A p : Fresh(db', p) <=> Fresh(db, p)
    BY <1>6 DEF Fresh
  <2>3. \A p \in Owners, a \in Names : Fresh(db, p) => said'[p][a] = said[p][a]
    BY <1>8, <2>1
  <2>4. o[1] = "edge" => r.tab \in EdgeTabs
    BY <1>1, <1>3 DEF Fits, OfEdge, T, o
  <2>5. \A x \in db'.rows : x.key \in DOMAIN db'.keys /\ (x.of[1] = "edge" => x.tab \in EdgeTabs)
    BY <1>3, <1>4, <1>6, <2>4 DEF SaidInv, Neat
  <2>6. \A p \in Owners : Fresh(db, p) => \A x \in db'.rows : x.of # p
    BY <1>4, <1>6, <2>1 DEF SaidInv, Neat
  <2> QED
    BY <1>6, <2>2, <2>3, <2>5, <2>6 DEF SaidInv, Neat
<1> QED
  BY <1>2, <1>9, <1>10, IdleIs DEF CallSaid

\* The look-up of a key, and a new key: values stay what they are.
LEMMA KeySaid ==
  ASSUME TypeInv, SaidInv, NEW c \in Conns, FindKey(c) \/ MissKey(c)
  PROVE  /\ Told(db', said') /\ Neat(db', said') /\ CallSaid(c)'
         /\ \A d \in Conns : Remembers(db, d)'
         /\ \A d \in Conns \ {c} : cache'[d] = cache[d]
<1> DEFINE T == call[c].todo
           r == call[c]
           v == Head(T)[1]
           a == r.name
<1>1. /\ T # <<>> /\ r \in CallType /\ db \in Tables /\ CallSaid(c) /\ Statements(c)
      /\ db.keys \in Seq(Names) /\ cache \in [Conns -> [Slots -> Entry \cup {None}]]
  BY Before DEF Statements, TypeInv, Typed, Tables
<1>2. v \in {"ensureKey", "lookupKey"} /\ a \in Names /\ UNCHANGED said
  <2>1. (\E w \in {"ensureKey", "lookupKey"} : At(c, w)) /\ a \in Names /\ UNCHANGED said
    BY FindKeyDoes, MissKeyDoes
  <2> QED
    BY <2>1, AtIs
<1>3. Hash[a] \in Slots
  BY <1>2, ConstantsAssumption
<1> HIDE DEF T, v, a
<1>4. ASSUME NEW k \in Nat \ {0}, WentOn(c, [r EXCEPT !.key = k]), db'.rows = db.rows,
             k \in DOMAIN db'.keys, db'.keys[k] = a,
             \A j \in DOMAIN db.keys : j \in DOMAIN db'.keys /\ db'.keys[j] = db.keys[j]
      PROVE  CallSaid(c)'
  <2> DEFINE with == [r EXCEPT !.key = k]
  <2>1. with.of = r.of /\ with.key = k /\ with.name = a
    BY <1>1 DEF CallType, a
  <2>2. WentOn(c, with)
    BY <1>4
  <2> HIDE DEF with
  <2> QED
    BY <1>1, <1>2, <1>4, <2>1, <2>2, SaidGoOn DEF T, v, a
<1>5. ASSUME NEW k, Remember(c, a, k), k \in DOMAIN db'.keys, db'.keys[k] = a,
             \A j \in DOMAIN db.keys : j \in DOMAIN db'.keys /\ db'.keys[j] = db.keys[j]
      PROVE  (\A d \in Conns : Remembers(db, d)') /\ \A d \in Conns \ {c} : cache'[d] = cache[d]
  <2>1. \A d \in Conns \ {c} : cache'[d] = cache[d]
    BY <1>1, <1>5 DEF Remember
  <2>2. \A s \in Slots : cache'[c][s] = IF s = Hash[a] THEN [name |-> a, id |-> k] ELSE cache[c][s]
    BY <1>1, <1>3, <1>5 DEF Remember
  <2>3. \A d \in Conns \ {c} : Remembers(db, d)'
    BY <1>5, <2>1 DEF Remembers, SaidInv
  <2>4. Remembers(db, c)'
    BY <1>5, <2>2 DEF Remembers, SaidInv
  <2> QED
    BY <2>1, <2>3, <2>4
<1>6. CASE FindKey(c)
  <2>1. db' = db /\ Told(db', said') /\ Neat(db', said')
    BY <1>2, <1>6, FindKeyDoes DEF SaidInv
  <2>2. PICK k \in Nat \ {0} : /\ WentOn(c, [r EXCEPT !.key = k])
                              /\ \/ k = cache[c][Hash[a]].id /\ CacheHit(c, a) /\ UNCHANGED cache
                                 \/ k \in KeyIds(a) /\ Remember(c, a, k)
    BY <1>6, FindKeyDoes DEF a
  <2>3. CASE k = cache[c][Hash[a]].id /\ CacheHit(c, a) /\ UNCHANGED cache
    <3>1. k \in DOMAIN db.keys /\ db.keys[k] = a
      BY <1>3, <2>3 DEF CacheHit, SaidInv, Remembers
    <3>2. CallSaid(c)'
      BY <1>4, <2>1, <2>2, <3>1
    <3> QED
      BY <2>1, <2>3, <3>2 DEF SaidInv, Remembers
  <2>4. CASE k \in KeyIds(a) /\ Remember(c, a, k)
    <3>1. k \in DOMAIN db.keys /\ db.keys[k] = a
      BY <2>4 DEF KeyIds
    <3> QED
      BY <1>4, <1>5, <2>1, <2>2, <2>4, <3>1
  <2> QED
    BY <2>2, <2>3, <2>4
<1>7. CASE MissKey(c)
  <2>1. CASE call'[c] = Idle /\ UNCHANGED <<db, cache>>
    BY <1>2, <2>1, IdleIs DEF CallSaid, SaidInv, Remembers
  <2>2. CASE /\ db' = [db EXCEPT !.keys = Append(@, a)]
             /\ WentOn(c, [r EXCEPT !.key = Len(db.keys) + 1])
             /\ Remember(c, a, Len(db.keys) + 1)
    <3> DEFINE k == Len(db.keys) + 1
    <3>1. /\ db'.nodes = db.nodes /\ db'.edges = db.edges /\ db'.keys = Append(db.keys, a)
          /\ db'.lastNode = db.lastNode /\ db'.lastEdge = db.lastEdge /\ db'.rows = db.rows
      BY <1>1, <2>2 DEF Tables
    <3>2. /\ k \in Nat \ {0} /\ DOMAIN db'.keys = DOMAIN db.keys \cup {k} /\ k \notin DOMAIN db.keys
          /\ db'.keys[k] = a /\ \A j \in DOMAIN db.keys : db'.keys[j] = db.keys[j]
      BY <1>1, <1>2, <3>1
    <3>3. WentOn(c, [r EXCEPT !.key = k]) /\ Remember(c, a, k)
      BY <2>2
    <3> HIDE DEF k
    <3>4. \A o, t : RowOf(o, k, t) \notin db.rows
      BY <3>2 DEF SaidInv, Neat, RowOf
    <3>5. \A o, b, t : HasRow(db', o, b, t) <=> HasRow(db, o, b, t)
      BY <3>1, <3>2, <3>4 DEF HasRow
    <3>6. Told(db', said')
      BY <1>2, <3>1, <3>5 DEF SaidInv, Told, ExistsIn
    <3>7. Neat(db', said')
      BY <1>2, <3>1, <3>2 DEF SaidInv, Neat, Fresh
    <3> QED
      BY <1>4, <1>5, <3>1, <3>2, <3>3, <3>6, <3>7
  <2> QED
    BY <1>7, <2>1, <2>2, MissKeyDoes DEF a
<1> QED
  BY <1>6, <1>7

\* A new node, or a new edge: nothing is said of it, and it has no rows.
LEMMA NewSaid ==
  ASSUME TypeInv, SaidInv, NEW c \in Conns, NewNode(c) \/ NewEdge(c)
  PROVE  Told(db', said') /\ Neat(db', said') /\ CallSaid(c)'
<1> DEFINE T == call[c].todo
           r == call[c]
           v == Head(T)[1]
<1>1. /\ T # <<>> /\ r \in CallType /\ db \in Tables /\ CallSaid(c) /\ Statements(c)
  BY Before DEF Statements
<1>2. v \in {"newNode", "newEdge"} /\ UNCHANGED said
  BY <1>1, Before, NewNodeDoes, NewEdgeDoes
<1> HIDE DEF T, v
<1>3. ASSUME NEW p \in Owners, Fresh(db, p), ~Fresh(db', p),
             \A o \in Owners : ExistsIn(db', o) => o = p \/ ExistsIn(db, o),
             db'.keys = db.keys, db'.rows = db.rows,
             \A o \in Owners : Fresh(db', o) => Fresh(db, o),
             \A e, f \in db'.edges : e.id = f.id => e = f,
             \A n \in db'.nodes : n <= db'.lastNode,
             \A e \in db'.edges : e.id <= db'.lastEdge
      PROVE  Told(db', said') /\ Neat(db', said')
  <2>1. \A o, a, t : HasRow(db', o, a, t) <=> HasRow(db, o, a, t)
    BY <1>3 DEF HasRow
  <2>2. ASSUME NEW a \in Names, NEW t \in TabSet PROVE ~HasRow(db, p, a, t) /\ said[p][a] = None /\ t # None
    <3>1. said[p][a] = None /\ \A x \in db.rows : x.of # p
      BY <1>3 DEF SaidInv, Neat
    <3>2. t # None
      BY TablesAre, ConstantsAssumption DEF Kinds
    <3> QED
      BY <3>1, <3>2 DEF HasRow, RowOf
  <2>3. Told(db', said')
    BY <1>2, <1>3, <2>1, <2>2 DEF SaidInv, Told
  <2>4. Neat(db', said')
    BY <1>2, <1>3 DEF SaidInv, Neat
  <2> QED
    BY <2>3, <2>4
<1>4. ASSUME NEW o \in Owners
      PROVE  /\ o[2] \in Nat /\ (o[1] = "node" \/ o[1] = "edge")
             /\ o[1] = "node" => o = Node(o[2])
             /\ o[1] = "edge" => o = Edge(o[2])
  BY DEF Owners, Node, Edge
<1>5. db.lastNode \in Nat /\ db.lastEdge \in Nat /\ db.nodes \subseteq Nat /\ \A e \in db.edges : e.id \in Nat
  BY <1>1, ConstantsAssumption DEF Tables
<1>6. CASE NewNode(c)
  <2> DEFINE with == [r EXCEPT !.of = Node(NextNode)]
             p == Node(NextNode)
  <2>1. /\ WentOn(c, with) /\ p \in Owners /\ NextNode = db.lastNode + 1
        /\ db' = [db EXCEPT !.nodes = @ \cup {NextNode}, !.lastNode = NextNode]
    BY <1>6, NewNodeDoes DEF NextNode
  <2>2. with.key = r.key /\ with.name = r.name
    BY <1>1 DEF CallType
  <2>3. p[1] = "node" /\ p[2] = NextNode
    BY DEF Node
  <2>4. /\ db'.nodes = db.nodes \cup {NextNode} /\ db'.lastNode = NextNode
        /\ db'.edges = db.edges /\ db'.lastEdge = db.lastEdge
        /\ db'.keys = db.keys /\ db'.rows = db.rows
    BY <1>1, <2>1 DEF Tables
  <2>5. \A o \in Owners : ExistsIn(db', o) => o = p \/ ExistsIn(db, o)
    BY <1>4, <2>4 DEF ExistsIn
  <2> HIDE DEF with, p
  <2>6. Fresh(db, p) /\ ~Fresh(db', p) /\ \A o \in Owners : Fresh(db', o) => Fresh(db, o)
    BY <1>4, <1>5, <2>1, <2>3, <2>4 DEF Fresh
  <2>7. /\ \A e, f \in db'.edges : e.id = f.id => e = f
        /\ \A n \in db'.nodes : n <= db'.lastNode
        /\ \A e \in db'.edges : e.id <= db'.lastEdge
    BY <1>5, <2>1, <2>4 DEF SaidInv, Neat
  <2>8. Told(db', said') /\ Neat(db', said')
    BY <1>3, <2>1, <2>4, <2>5, <2>6, <2>7
  <2>9. CallSaid(c)'
    BY <1>1, <1>2, <2>1, <2>2, <2>4, SaidGoOn DEF T, v
  <2> QED
    BY <2>8, <2>9
<1>7. CASE NewEdge(c)
  <2> DEFINE e == db.lastEdge + 1
             x == [id |-> e, src |-> r.ends[1], dst |-> r.ends[2]]
             with == [r EXCEPT !.of = Edge(e), !.ends = None]
             p == Edge(e)
  <2>1. /\ WentOn(c, with) /\ p \in Owners
        /\ db' = [db EXCEPT !.lastEdge = e, !.edges = @ \cup {x}]
    BY <1>7, NewEdgeDoes
  <2>2. with.key = r.key /\ with.name = r.name
    BY <1>1 DEF CallType
  <2>3. p[1] = "edge" /\ p[2] = e /\ x.id = e /\ e = db.lastEdge + 1
    BY DEF Edge
  <2> HIDE DEF e, x
  <2>4. /\ db'.edges = db.edges \cup {x} /\ db'.lastEdge = e
        /\ db'.nodes = db.nodes /\ db'.lastNode = db.lastNode
        /\ db'.keys = db.keys /\ db'.rows = db.rows
    BY <1>1, <2>1 DEF Tables
  <2>5. \A o \in Owners : ExistsIn(db', o) => o = p \/ ExistsIn(db, o)
    BY <1>4, <2>3, <2>4 DEF ExistsIn
  <2> HIDE DEF with, p
  <2>6. Fresh(db, p) /\ ~Fresh(db', p) /\ \A o \in Owners : Fresh(db', o) => Fresh(db, o)
    BY <1>4, <1>5, <2>1, <2>3, <2>4 DEF Fresh
  <2>7. /\ \A f, g \in db'.edges : f.id = g.id => f = g
        /\ \A n \in db'.nodes : n <= db'.lastNode
        /\ \A f \in db'.edges : f.id <= db'.lastEdge
    BY <1>5, <2>3, <2>4 DEF SaidInv, Neat
  <2>8. Told(db', said') /\ Neat(db', said')
    BY <1>3, <2>1, <2>4, <2>5, <2>6, <2>7
  <2>9. CallSaid(c)'
    BY <1>1, <1>2, <2>1, <2>2, <2>4, SaidGoOn DEF T, v
  <2> QED
    BY <2>8, <2>9
<1> QED
  BY <1>6, <1>7

\* What is dropped is not there, and nothing is said of it.
LEMMA DropSaid ==
  ASSUME TypeInv, SaidInv, NEW c \in Conns, DropEdges(c) \/ DropNode(c) \/ DropEdge(c)
  PROVE  Told(db', said') /\ Neat(db', said') /\ CallSaid(c)'
<1> DEFINE T == call[c].todo
           r == call[c]
           v == Head(T)[1]
<1>1. /\ T # <<>> /\ Fits(r) /\ Has(T, v) /\ r \in CallType /\ db \in Tables /\ CallSaid(c) /\ Statements(c)
      /\ said \in SaidType
  BY Before DEF Statements
<1>2. v \in {"dropEdges", "dropNode", "dropEdge"}
  BY <1>1, Before, DropEdgesDoes, DropNodeDoes, DropEdgeDoes
<1>3. r.of \in Owners
  BY <1>1, <1>2, Before
<1> HIDE DEF T, v
<1>4. ASSUME NEW os, SaidDropped(os), db'.nodes \subseteq db.nodes, db'.edges \subseteq db.edges,
             db'.keys = db.keys, db'.rows = db.rows,
             db'.lastNode = db.lastNode, db'.lastEdge = db.lastEdge,
             \A o \in Owners : o \in os => ~ExistsIn(db', o)
      PROVE  Told(db', said') /\ Neat(db', said')
  <2>1. \A o \in Owners, a \in Names : said'[o][a] = IF o \in os THEN None ELSE said[o][a]
    BY <1>4 DEF SaidDropped
  <2>2. \A o, a, t : HasRow(db', o, a, t) <=> HasRow(db, o, a, t)
    BY <1>4 DEF HasRow
  <2>3. \A o : ExistsIn(db', o) => ExistsIn(db, o)
    BY <1>4 DEF ExistsIn
  <2>4. Told(db', said')
    BY <1>4, <2>1, <2>2, <2>3 DEF SaidInv, Told
  <2>5. Neat(db', said')
    BY <1>4, <2>1 DEF SaidInv, Neat, Fresh
  <2> QED
    BY <2>4, <2>5
<1>5. CASE DropEdges(c)
  <2> DEFINE os == {Edge(e.id) : e \in Touching(r.of[2])}
  <2>1. WentOn(c, r) /\ db' = [db EXCEPT !.edges = @ \ Touching(r.of[2])] /\ SaidDropped(os)
    BY <1>5, DropEdgesDoes
  <2>2. /\ db'.nodes = db.nodes /\ db'.edges = db.edges \ Touching(r.of[2])
        /\ db'.keys = db.keys /\ db'.rows = db.rows
        /\ db'.lastNode = db.lastNode /\ db'.lastEdge = db.lastEdge
    BY <1>1, <2>1 DEF Tables
  <2>3. ASSUME NEW o \in Owners, o \in os PROVE ~ExistsIn(db', o)
    <3>1. PICK e \in Touching(r.of[2]) : o = Edge(e.id)
      BY <2>3
    <3>2. o[1] = "edge" /\ o[2] = e.id /\ e \in db.edges
      BY <3>1 DEF Edge, Touching
    <3>3. \A f \in db'.edges : f.id # e.id
      BY <2>2, <3>1, <3>2 DEF SaidInv, Neat
    <3> QED
      BY <3>2, <3>3 DEF ExistsIn
  <2> HIDE DEF os
  <2>4. Told(db', said') /\ Neat(db', said')
    BY <1>4, <2>1, <2>2, <2>3
  <2>5. v = "dropEdges"
    BY <1>5, AtIs, DropEdgesDoes DEF T, v
  <2>6. CallSaid(c)'
    BY <1>1, <2>1, <2>2, <2>5, SaidGoOn DEF T, v
  <2> QED
    BY <2>4, <2>6
<1>6. CASE DropNode(c)
  <2>1. call'[c] = Idle /\ db' = [db EXCEPT !.nodes = @ \ {r.of[2]}] /\ SaidDropped({r.of}) /\ v = "dropNode"
    BY <1>6, DropNodeDoes, AtIs DEF T, v
  <2>2. /\ db'.nodes = db.nodes \ {r.of[2]} /\ db'.edges = db.edges
        /\ db'.keys = db.keys /\ db'.rows = db.rows
        /\ db'.lastNode = db.lastNode /\ db'.lastEdge = db.lastEdge
    BY <1>1, <2>1 DEF Tables
  <2>3. r.of[1] = "node"
    BY <1>1, <2>1 DEF Fits, OfNode, T
  <2>4. ~ExistsIn(db', r.of)
    BY <2>2, <2>3 DEF ExistsIn
  <2>5. Told(db', said') /\ Neat(db', said')
    BY <1>4, <2>1, <2>2, <2>4
  <2> QED
    BY <2>1, <2>5, IdleIs DEF CallSaid
<1>7. CASE DropEdge(c)
  <2>1. call'[c] = Idle /\ db' = [db EXCEPT !.edges = {e \in @ : e.id # r.of[2]}] /\ SaidDropped({r.of})
        /\ v = "dropEdge"
    BY <1>7, DropEdgeDoes, AtIs DEF T, v
  <2>2. /\ db'.nodes = db.nodes /\ db'.edges = {e \in db.edges : e.id # r.of[2]}
        /\ db'.keys = db.keys /\ db'.rows = db.rows
        /\ db'.lastNode = db.lastNode /\ db'.lastEdge = db.lastEdge
    BY <1>1, <2>1 DEF Tables
  <2>3. r.of[1] = "edge"
    BY <1>1, <2>1 DEF Fits, OfEdge, T
  <2>4. ~ExistsIn(db', r.of)
    BY <2>2, <2>3 DEF ExistsIn
  <2>5. Told(db', said') /\ Neat(db', said')
    BY <1>4, <2>1, <2>2, <2>4
  <2> QED
    BY <2>1, <2>5, IdleIs DEF CallSaid
<1> QED
  BY <1>5, <1>6, <1>7

\* Each statement keeps all of this, when a call notices that a statement failed.
LEMMA SaidStatement ==
  ASSUME MayFail \cap Silent = {}, \A s, t \in EdgeTabs : s = t,
         TypeInv, SaidInv, NEW c \in Conns, Statements(c)
  PROVE  /\ Told(db', said') /\ Neat(db', said') /\ CallSaid(c)'
         /\ \A d \in Conns : Remembers(db, d)'
         /\ \A d \in Conns \ {c} : cache'[d] = cache[d]
<1> DEFINE T == call[c].todo
           r == call[c]
           v == Head(T)[1]
           Goal == /\ Told(db', said') /\ Neat(db', said') /\ CallSaid(c)'
                   /\ \A d \in Conns : Remembers(db, d)'
                   /\ \A d \in Conns \ {c} : cache'[d] = cache[d]
<1>1. /\ T # <<>> /\ db \in Tables /\ CallSaid(c) /\ r \in CallType
  BY Before
<1>2. ASSUME db'.keys = db.keys, cache' = cache PROVE \A d \in Conns : Remembers(db, d)'
  BY <1>2 DEF SaidInv, Remembers
<1>3. CASE FindKey(c) \/ MissKey(c)
  BY <1>3, KeySaid
<1>4. CASE Clear(c)
  <2>1. db'.keys = db.keys /\ cache' = cache
    BY <1>1, <1>4, ClearDoes DEF Tables
  <2> QED
    BY <1>2, <1>4, <2>1, ClearSaid
<1>5. CASE Put(c)
  <2>1. db'.keys = db.keys /\ cache' = cache
    BY <1>1, <1>5, PutDoes DEF Tables
  <2> QED
    BY <1>2, <1>5, <2>1, PutSaid
<1>6. CASE NewNode(c) \/ NewEdge(c)
  <2>1. db'.keys = db.keys /\ cache' = cache
    BY <1>1, <1>6, NewNodeDoes, NewEdgeDoes DEF Tables
  <2> QED
    BY <1>2, <1>6, <2>1, NewSaid
<1>7. CASE DropEdges(c) \/ DropNode(c) \/ DropEdge(c)
  <2>1. db'.keys = db.keys /\ cache' = cache
    BY <1>1, <1>7, DropEdgesDoes, DropNodeDoes, DropEdgeDoes DEF Tables
  <2> QED
    BY <1>2, <1>7, <2>1, DropSaid
<1>8. CASE CheckNoEdges(c)
  <2>1. UNCHANGED <<db, said, cache>> /\ v = "noEdges" /\ (WentOn(c, r) \/ call'[c] = Idle)
    BY <1>8, CheckNoEdgesDoes, AtIs
  <2>2. Told(db', said') /\ Neat(db', said')
    BY <2>1 DEF SaidInv
  <2>3. CASE WentOn(c, r)
    BY <1>1, <1>2, <2>1, <2>2, <2>3, SaidGoOn
  <2>4. CASE call'[c] = Idle
    BY <1>2, <2>1, <2>2, <2>4, IdleIs DEF CallSaid
  <2> QED
    BY <2>1, <2>3, <2>4
<1>9. CASE Fail(c)
  <2>1. UNCHANGED <<db, cache>> /\ v \in MayFail
    BY <1>9, FailDoes
  <2>2. v \notin {"clear", "clearAll", "noEdges", "lookupKey"}
    BY <2>1 DEF Silent
  <2>3. call'[c] = Idle /\ UNCHANGED said
    <3> HIDE DEF v
    <3> QED
      BY <1>9, <2>2, FailDoes DEF v
  <2>4. Told(db', said') /\ Neat(db', said')
    BY <2>1, <2>3 DEF SaidInv
  <2> QED
    BY <1>2, <2>1, <2>3, <2>4, IdleIs DEF CallSaid
<1> QED
  BY <1>3, <1>4, <1>5, <1>6, <1>7, <1>8, <1>9 DEF Statements

\* Every step keeps what was said in accord with the tables.
LEMMA SaidStep ==
  ASSUME ~Interleave, KeepKeys, MayFail \cap Silent = {}, \A s, t \in EdgeTabs : s = t,
         TypeInv, SaidInv, [Next]_vars
  PROVE  SaidInv'
<1>0. /\ RefInv' /\ OneInv'
      /\ Solo /\ Solo' /\ call \in [Conns -> CallType] /\ cache \in [Conns -> [Slots -> Entry \cup {None}]]
      /\ \A c \in Conns : call[c].todo = <<>> <=> call[c] = Idle
  <2>1. MayFail \cap {"clearAll", "noEdges"} = {} /\ "clear" \notin MayFail
    BY DEF Silent
  <2> QED
    BY <2>1, RefsStep, OneStep, SoloStep, IdleIs DEF SaidInv, RefInv, TypeInv, Typed, CallInv
<1>1. Told(NoTables, NothingSaid) /\ Neat(NoTables, NothingSaid)
  BY DEF Told, Neat, NoTables, NothingSaid, ExistsIn, Fresh
<1>2. \A c \in Conns : call'[c] = Idle => CallSaid(c)'
  BY IdleIs DEF CallSaid
<1>3. CASE UNCHANGED vars
  BY <1>0, <1>3 DEF vars, SaidInv, CallSaid, Remembers
<1>4. ASSUME NEW c \in Conns, Calls(c) PROVE SaidInv'
  <2>1. PICK r \in CallType : Fits(r) /\ Begun(r) /\ r.todo # <<>> /\ Start(c, r)
    BY <1>4, CallsBegin
  <2>2. /\ call'[c] = r /\ \A d \in Conns \ {c} : call'[d] = Idle
        /\ UNCHANGED <<db, said, saved, txn, cache>>
    BY <2>1, StartIs DEF TypeInv
  <2>3. CallSaid(c)'
    BY <2>1, <2>2 DEF Begun, CallSaid
  <2> QED
    BY <1>0, <1>2, <2>2, <2>3 DEF SaidInv, Remembers
<1>5. ASSUME NEW c \in Conns, Statements(c) PROVE SaidInv'
  <2>1. /\ Told(db', said') /\ Neat(db', said') /\ CallSaid(c)'
        /\ \A d \in Conns : Remembers(db, d)'
        /\ \A d \in Conns \ {c} : cache'[d] = cache[d]
    BY <1>5, SaidStatement
  <2>2. /\ saved' = saved /\ txn' = txn /\ txn \in {None, c}
        /\ \A d \in Conns \ {c} : call'[d] = Idle
    BY <1>0, <1>5, StatementsLeave DEF Solo
  <2>3. txn' # None => \A d \in Conns \ {txn'} : Remembers(saved.db, d)'
    BY <2>1, <2>2 DEF SaidInv, Remembers
  <2> QED
    BY <1>0, <1>2, <2>1, <2>2, <2>3 DEF SaidInv
<1>6. ASSUME NEW c \in Conns, Begin(c) PROVE SaidInv'
  <2>1. UNCHANGED <<db, said, cache, call>> /\ saved'.db = db /\ saved'.said = said
    BY <1>6 DEF Begin
  <2> QED
    BY <1>0, <2>1 DEF SaidInv, CallSaid, Remembers
<1>7. ASSUME NEW c \in Conns, Commit(c) PROVE SaidInv'
  <2>1. UNCHANGED <<db, said, cache, call>> /\ txn' = None
        /\ saved'.db = NoTables /\ saved'.said = NothingSaid
    BY <1>7 DEF Commit, NothingSaved
  <2> QED
    BY <1>0, <1>1, <2>1 DEF SaidInv, CallSaid, Remembers
<1>8. ASSUME NEW c \in Conns, Restore, txn = c, \A d \in Conns : call'[d] = Idle,
             \A d \in Conns : Remembers(db, d)'
      PROVE  SaidInv'
  <2>1. db' = saved.db /\ said' = saved.said /\ txn' = None
        /\ saved'.db = NoTables /\ saved'.said = NothingSaid
    BY <1>8 DEF Restore, NothingSaved
  <2> QED
    BY <1>0, <1>1, <1>2, <1>8, <2>1 DEF SaidInv
<1>9. ASSUME NEW c \in Conns, Rollback(c) PROVE SaidInv'
  <2>1. Restore /\ txn = c /\ db.keys = saved.db.keys /\ UNCHANGED <<cache, call>> /\ call[c] = Idle
    BY <1>9 DEF Rollback
  <2>2. \A d \in Conns : call'[d] = Idle
    BY <1>0, <2>1, ConstantsAssumption DEF Solo
  <2>3. \A d \in Conns : Remembers(db, d)'
    BY <2>1 DEF Restore, SaidInv, Remembers
  <2> QED
    BY <1>8, <2>1, <2>2, <2>3
<1>10. ASSUME NEW c \in Conns, End(c) PROVE SaidInv'
  <2>1. call'[c] = Idle /\ \A d \in Conns \ {c} : call'[d] = call[d]
    BY <1>10, RestTyped
  <2>2. /\ \A s \in Slots : cache'[c][s] = None
        /\ \A d \in Conns \ {c} : cache'[d] = cache[d]
    BY <1>0, <1>10 DEF End
  <2>3. CASE Restore /\ txn = c
    <3>1. \A d \in Conns : call'[d] = Idle
      BY <1>0, <2>1, <2>3, ConstantsAssumption DEF Solo
    <3>2. \A d \in Conns : Remembers(db, d)'
      BY <2>2, <2>3, ConstantsAssumption DEF Restore, SaidInv, Remembers
    <3> QED
      BY <1>8, <2>3, <3>1, <3>2
  <2>4. CASE UNCHANGED <<db, said, saved, txn>> /\ txn # c
    <3>1. \A d \in Conns : CallSaid(d)'
      BY <1>2, <2>1, <2>4 DEF SaidInv, CallSaid
    <3>2. \A d \in Conns : Remembers(db, d)'
      BY <2>2, <2>4 DEF SaidInv, Remembers
    <3>3. txn' # None => \A d \in Conns \ {txn'} : Remembers(saved.db, d)'
      BY <2>2, <2>4 DEF SaidInv, Remembers
    <3> QED
      BY <1>0, <2>4, <3>1, <3>2, <3>3 DEF SaidInv
  <2> QED
    BY <1>10, <2>3, <2>4 DEF End
<1> QED
  BY <1>3, <1>4, <1>5, <1>6, <1>7, <1>9, <1>10 DEF Next

\* The invariant is stronger than the property.
LEMMA SaidReads == TypeInv /\ SaidInv => ReadsLastSet
<1> SUFFICES ASSUME TypeInv, SaidInv, NEW o \in Owners, NEW a \in Names, Exists(o), said[o][a] # "unknown"
             PROVE  Value(o, a) = said[o][a]
  BY DEF ReadsLastSet
<1>1. ExistsIn(db, o)
  BY DEF Exists, ExistsIn
<1>2. \A t \in TabSet : t \in Holding(o, a) <=> t = said[o][a]
  BY <1>1 DEF SaidInv, Told, HasRow, RowOf, Holding, KeyIds
<1>3. Holding(o, a) \subseteq TabSet /\ said[o][a] \in TabSet \cup {None} /\ None \notin TabSet
  <2>1. said[o][a] \in TabSet \cup {"unknown", None}
    BY DEF TypeInv, Typed, SaidType
  <2>2. None \notin TabSet
    BY TablesAre, ConstantsAssumption DEF Kinds
  <2> QED
    BY <2>1, <2>2 DEF Holding
<1>4. CASE said[o][a] = None
  BY <1>2, <1>3, <1>4 DEF Value
<1>5. CASE said[o][a] \in TabSet
  <2> DEFINE t == said[o][a]
             P(i) == Tabs[i] \in Holding(o, a) /\ \A j \in 1 .. (i - 1) : Tabs[j] \notin Holding(o, a)
  <2>1. Holding(o, a) = {t}
    BY <1>2, <1>3, <1>5
  <2>2. Place(t) \in DOMAIN Tabs /\ P(Place(t))
    BY <1>5, <2>1, TablesAre
  <2>3. \A i \in DOMAIN Tabs : P(i) => Tabs[i] = t
    BY <2>1
  <2>4. Value(o, a) = Tabs[CHOOSE i \in DOMAIN Tabs : P(i)]
    BY <2>1 DEF Value
  <2> QED
    BY <2>2, <2>3, <2>4
<1> QED
  BY <1>3, <1>4, <1>5

\* A value is what the last call that returned made it, across connections,
\* rollbacks, calls that end half way and calls that fail and say so: when calls
\* do not overlap, no rolled back transaction made a key, no failure is passed
\* over in silence, and a value of an edge is always in the same table.
THEOREM ReadsAreRight ==
  ASSUME ~Interleave, KeepKeys, MayFail \cap Silent = {}, \A s, t \in EdgeTabs : s = t
  PROVE  Spec => []ReadsLastSet
<1>1. Init => SaidInv
  <2> SUFFICES ASSUME Init PROVE SaidInv
    OBVIOUS
  <2>1. Told(NoTables, NothingSaid) /\ Neat(NoTables, NothingSaid)
    BY DEF Told, Neat, NoTables, NothingSaid, ExistsIn, Fresh
  <2>2. RefInv /\ OneInv
    BY IdleIs DEF Init, RefInv, OneInv, Solo, Sound, Single, NoTables, CallRefs, CallOne
  <2>3. \A c \in Conns : CallSaid(c) /\ Remembers(db, c)
    BY IdleIs DEF Init, CallSaid, Remembers
  <2> QED
    BY <2>1, <2>2, <2>3 DEF SaidInv, Init
<1>2. TypeInv /\ SaidInv /\ [Next]_vars => TypeInv' /\ SaidInv'
  BY NextTyped, SaidStep
<1> QED
  BY <1>1, <1>2, InitTyped, SaidReads, PTL DEF Spec
=============================================================================
