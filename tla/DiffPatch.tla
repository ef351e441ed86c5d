----------------------------- MODULE DiffPatch -----------------------------
(***************************************************************************)
(* sqlite-diff and sqlite-patch (src/ext/diff/diff.c and patch.c).         *)
(*                                                                         *)
(* changeset_one_table compares a table of database A with the same table  *)
(* of database B and emits INSERT, DELETE and UPDATE instructions in the   *)
(* order of its query; sqlitediff_apply runs them one statement at a time  *)
(* in a savepoint of the target.  The target may be A, or A with changes   *)
(* of its own, and a patch may be applied again when the caller does not   *)
(* know how the last attempt ended.                                        *)
(*                                                                         *)
(* A table is a bag of rows with a key and two more columns, given by the  *)
(* number of copies of each row: keys that are NULL are equal to no key,   *)
(* so rows that have one may repeat.                                       *)
(***************************************************************************)
EXTENDS Integers, FiniteSets

CONSTANTS
  Key,       \* keys that are not NULL, numbers
  Val,       \* values of the other columns; Null may be one
  Schemas,   \* the tables and the ways they are used:
             \*   vals      values the columns take
             \*   loose     rows it may hold under a NULL key, as <<x, y>>
             \*   uniqueX   column x is UNIQUE
             \*   drift     the target may differ from A
             \*   maxTries  bound: times the patch is applied
  Class,     \* what `=` and IS NOT compare of a value (collation, 1 = 1.0)
  Null,      \* 0, below every key
  HasPk,     \* the table has a PRIMARY KEY
  PkLeads,   \* its column comes before column x
  MayFail    \* whether a statement may fail for reasons of its own

ASSUME ConstantsAssumption ==
  /\ Null = 0 /\ Key \subseteq Nat \ {0} /\ Class \in [Val -> Nat]
  /\ {HasPk, PkLeads, MayFail} \subseteq BOOLEAN
  /\ Schemas \subseteq [vals : SUBSET Val, loose : SUBSET (Val \X Val),
                        uniqueX : BOOLEAN, drift : BOOLEAN, maxTries : Nat]

RowsOf == [s \in Schemas |-> [key : Key \cup {Null}, x : s.vals, y : s.vals]]

\* A value is compared by its class; NULL only equals NULL, under IS.
Same(v, w) == Class[v] = Class[w]
SameRow(r, s) == r.key = s.key /\ Same(r.x, s.x) /\ Same(r.y, s.y)
In(t, r) == t[r] > 0

VARIABLES
  schema,   \* of the table that is compared
  a, b,     \* the databases sqlite-diff compared
  target,   \* the database sqlite-patch opens, as last committed
  origin,   \* history: the target before the first attempt
  db,       \* the target inside the savepoint
  todo,     \* instructions of the changeset that are still to be applied
  stage,    \* "idle", "applying", "failed", "released" or "rolledback"
  rc,       \* "OK" or "ERROR": what sqlitediff_apply answered last
  tries

vars == <<schema, a, b, target, origin, db, todo, stage, rc, tries>>

Row == RowsOf[schema]
Bag == [Row -> Nat]

\* Tables that have a row or none for every key, and some loose rows.
NoRow == <<>>
TableOf(f, loose) ==
  [r \in Row |-> IF \/ r.key = Null /\ <<r.x, r.y>> \in loose
                    \/ r.key # Null /\ f[r.key] = <<r.x, r.y>> THEN 1 ELSE 0]
Conflict(r, s) == \/ r.key = s.key /\ r.key # Null
                  \/ schema.uniqueX /\ Same(r.x, s.x) /\ r.x # Null
Table == {t \in {TableOf(f, l) : f \in [Key -> (schema.vals \X schema.vals) \cup {NoRow}],
                                     l \in SUBSET schema.loose} :
            \A r, s \in Row : r # s /\ In(t, r) /\ In(t, s) => ~Conflict(r, s)}

-----------------------------------------------------------------------------
(* changeset_one_table: the instructions that lead from s to t.            *)

Changed(r, n) == ~Same(r.x, n.x) \/ ~Same(r.y, n.y)

Updates(s, t) ==
  {[type |-> "UPDATE", old |-> p[1], new |-> p[2]] :
     p \in {q \in {r \in Row : In(s, r) /\ r.key # Null} \X {n \in Row : In(t, n)} :
              q[1].key = q[2].key /\ Changed(q[1], q[2])}}
MissingWhole(s, t) == {r \in Row : In(s, r) /\ ~\E n \in Row : In(t, n) /\ SameRow(n, r)}  \* seeded fault
Missing(s, t) == {r \in Row : In(s, r) /\ ~\E n \in Row : In(t, n) /\ n.key = r.key /\ r.key # Null}
Deletes(s, t) == {[type |-> "DELETE", old |-> r, new |-> r] : r \in Missing(s, t)}
Inserts(s, t) == {[type |-> "INSERT", old |-> n, new |-> n] : n \in Missing(t, s)}

ChangesetBackwards(s, t) == IF HasPk THEN Updates(t, s) \cup Deletes(t, s) \cup Inserts(t, s) ELSE {}  \* seeded fault
Changeset(s, t) == IF HasPk THEN Updates(s, t) \cup Deletes(s, t) \cup Inserts(s, t) ELSE {}

\* The column the ORDER BY names is the key only if the key comes first: else
\* it is the old value of x, which an INSERT leaves NULL.
SortKey(i) == IF PkLeads THEN i.old.key
              ELSE IF i.type = "INSERT" THEN Null ELSE Class[i.old.x]
\* Equal keys come in the order of the UNION ALL.
ArmInsertFirst == [UPDATE |-> 1, DELETE |-> 3, INSERT |-> 2]  \* seeded fault
Arm == [UPDATE |-> 1, DELETE |-> 2, INSERT |-> 3]
Before(i, j) == \/ SortKey(i) < SortKey(j)
                \/ SortKey(i) = SortKey(j) /\ Arm[i.type] < Arm[j.type]
First(i) == i \in todo /\ ~\E j \in todo : Before(j, i)

-----------------------------------------------------------------------------
(* Applying one instruction to table t.                                    *)

Add(t, r)      == [t EXCEPT ![r] = @ + 1]
RemoveAll(t, rs) == [r \in Row |-> IF r \in rs THEN 0 ELSE t[r]]
Blocked(t, n)  == \E r \in Row : In(t, r) /\ Conflict(r, n)

\* DELETE ... WHERE names every column.
DeleteMatches(t, i) == {r \in Row : In(t, r) /\ SameRow(r, i.old)}

\* UPDATE ... WHERE names the key and the columns that change, SET only these.
UpdateMatchesKey(t, i) == {r \in Row : In(t, r) /\ r.key = i.old.key}  \* seeded fault
UpdateMatches(t, i) ==
  {r \in Row : /\ In(t, r) /\ r.key = i.old.key
               /\ ~Same(i.old.x, i.new.x) => Same(r.x, i.old.x)
               /\ ~Same(i.old.y, i.new.y) => Same(r.y, i.old.y)}
Updated(r, i) ==
  [r EXCEPT !.x = IF Same(i.old.x, i.new.x) THEN @ ELSE i.new.x,
            !.y = IF Same(i.old.y, i.new.y) THEN @ ELSE i.new.y]

\* What the statement leaves, and whether a constraint stops it.
Violates(t, i) ==
  \/ i.type = "INSERT" /\ Blocked(t, i.new)
  \/ i.type = "UPDATE" /\ \E r \in UpdateMatches(t, i) : Blocked(RemoveAll(t, {r}), Updated(r, i))
Effect(t, i) ==
  CASE i.type = "INSERT" -> Add(t, i.new)
    [] i.type = "DELETE" -> RemoveAll(t, DeleteMatches(t, i))
    [] i.type = "UPDATE" ->
         LET m == UpdateMatches(t, i)
         IN IF m = {} THEN t
            ELSE LET r == CHOOSE r \in m : TRUE IN Add(RemoveAll(t, m), Updated(r, i))

-----------------------------------------------------------------------------
Init ==
  /\ schema \in Schemas
  /\ LET tables == Table
     IN /\ a \in tables /\ b \in tables
        /\ target \in IF schema.drift THEN tables ELSE {a}
  /\ origin = target /\ db = target
  /\ todo = {} /\ stage = "idle" /\ rc = "OK" /\ tries = 0

\* sqlite-patch opens the target; SAVEPOINT changeset_apply.
Begin ==
  /\ stage \in {"idle", "released", "rolledback"} /\ tries < schema.maxTries
  /\ tries' = tries + 1
  /\ stage' = "applying"
  /\ db' = target
  /\ todo' = Changeset(a, b)
  /\ UNCHANGED <<schema, a, b, target, origin, rc>>

\* applyInstruction: one row changes, or none if no row is as A had it.
Apply(i) ==
  /\ stage = "applying" /\ First(i)
  /\ ~Violates(db, i)
  /\ db' = Effect(db, i)
  /\ todo' = todo \ {i}
  /\ UNCHANGED <<schema, a, b, target, origin, stage, rc, tries>>

\* The statement fails: CHANGESET_CALLBACK_ERROR.
ApplyFails(i) ==
  /\ stage = "applying" /\ First(i)
  /\ Violates(db, i) \/ MayFail
  /\ stage' = "failed"
  /\ UNCHANGED <<schema, a, b, target, origin, db, todo, rc, tries>>

\* ROLLBACK TO: its result replaces the error.  The savepoint stays open until
\* the caller closes the database.
RollBack ==
  /\ stage = "failed"
  /\ stage' = "rolledback"
  /\ db' = target
  /\ rc' = "OK"
  /\ UNCHANGED <<schema, a, b, target, origin, todo, tries>>

\* RELEASE commits.
Release ==
  /\ stage = "applying" /\ todo = {}
  /\ stage' = "released"
  /\ target' = db
  /\ rc' = "OK"
  /\ UNCHANGED <<schema, a, b, origin, db, todo, tries>>

\* The commit fails: RELEASE answers an error and the close rolls back.
ReleaseFails ==
  /\ MayFail
  /\ stage = "applying" /\ todo = {}
  /\ stage' = "rolledback"
  /\ db' = target
  /\ rc' = "ERROR"
  /\ UNCHANGED <<schema, a, b, target, origin, todo, tries>>

\* The process dies before RELEASE: the journal brings the target back.
Crash ==
  /\ MayFail
  /\ stage \in {"applying", "failed"}
  /\ stage' = "rolledback"
  /\ db' = target
  /\ rc' = "ERROR"
  /\ UNCHANGED <<schema, a, b, target, origin, todo, tries>>

Next ==
  \/ Begin \/ RollBack \/ Release \/ ReleaseFails \/ Crash
  \/ \E i \in todo : Apply(i) \/ ApplyFails(i)

Spec == Init /\ [][Next]_vars

-----------------------------------------------------------------------------
(* Properties.                                                             *)

\* Every variable has its type.
TypeOK ==
  /\ schema \in Schemas
  /\ {a, b, target, origin, db} \subseteq Bag
  /\ todo \subseteq [type : {"UPDATE", "DELETE", "INSERT"}, old : Row, new : Row]
  /\ stage \in {"idle", "applying", "failed", "released", "rolledback"}
  /\ rc \in {"OK", "ERROR"}
  /\ tries \in 0 .. schema.maxTries

\* Tables with the same rows, up to values that compare equal.
Copies(t, r) == {s \in Row : In(t, s) /\ SameRow(s, r)}
SameTable(s, t) ==
  \A r \in Row : /\ Copies(s, r) = {} <=> Copies(t, r) = {}
                 /\ \A c \in Copies(s, r) \cap Copies(t, r) : s[c] = t[c]

\* "Applying the patch db.diff to db1 makes db2": a changeset that was released
\* on A leaves B, up to values that compare equal.
RoundTrip == stage = "released" /\ origin = a => SameTable(target, b)

\* ... to the value: more than the code keeps (README, known departures).
ExactRoundTrip == stage = "released" /\ origin = a => target = b

\* On A itself no statement of the changeset meets a constraint, unless a column
\* beside the key is UNIQUE.
AppliesCleanly ==
  stage = "applying" /\ target = a /\ ~schema.uniqueX => \A i \in todo : First(i) => ~Violates(db, i)

\* A row the target changed after A was taken is never overwritten or deleted:
\* its changed columns do not match the WHERE of an UPDATE or DELETE.
RowsAt(t, k) == {r \in Row : In(t, r) /\ r.key = k}
DriftKept ==
  stage = "released" /\ tries = 1 =>
    \A k \in Key : \A r \in RowsAt(origin, k), old \in RowsAt(a, k) :
      \/ RowsAt(target, k) = {r}
      \/ RowsAt(b, k) = {} /\ SameRow(r, old)
      \/ \E new \in RowsAt(b, k) :
           /\ ~Same(old.x, new.x) => Same(r.x, old.x)
           /\ ~Same(old.y, new.y) => Same(r.y, old.y)

\* A patch that is applied again changes nothing: each UPDATE and DELETE finds
\* no row as A had it, each INSERT stops the whole.
RetryChangesNothing == [][target' # target => ~SameTable(target, b)]_vars

\* An answer of OK means the patch was applied ("Could not apply changeset"):
\* more than the code keeps (README, known departures).
OkMeansApplied == stage = "rolledback" => rc # "OK"
=============================================================================
