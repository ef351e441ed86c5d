-------------------------- MODULE DiffPatchProofs --------------------------
(***************************************************************************)
(* Proofs about DiffPatch: what applying a changeset does to the table it  *)
(* was made from, to one that has changed since, and to one that has       *)
(* already been patched.                                                   *)
(***************************************************************************)
EXTENDS DiffPatch, TLAPS

Types == {"UPDATE", "DELETE", "INSERT"}
Instr == [type : Types, old : Row, new : Row]

\* A table that was read from a database: a row at most for each key.
Tidy(t) ==
  /\ t \in [Row -> {0, 1}]
  /\ \A r, s \in Row : In(t, r) /\ In(t, s) /\ r.key = s.key /\ r.key # Null => r = s
  /\ schema.loose = {} => \A r \in Row : r.key = Null => ~In(t, r)

NoRowAt(t, k) == \A r \in Row : r.key = k => ~In(t, r)

\* What changeset_one_table says of A and B with an instruction.
IsOf(i) ==
  /\ i \in Instr /\ i.new.key = i.old.key
  /\ i.type = "UPDATE" => /\ i.old.key # Null /\ In(a, i.old) /\ In(b, i.new)
                          /\ Changed(i.old, i.new)
  /\ i.type = "DELETE" => i.new = i.old /\ In(a, i.old) /\ (i.old.key # Null => NoRowAt(b, i.old.key))
  /\ i.type = "INSERT" => i.new = i.old /\ In(b, i.old) /\ (i.old.key # Null => NoRowAt(a, i.old.key))

Base == /\ TypeOK
        /\ Tidy(a) /\ Tidy(b) /\ Tidy(origin)
        /\ \A i \in todo : IsOf(i)

\* The rows of the schema at hand.
LEMMA RowIs ==
  ASSUME schema \in Schemas
  PROVE  /\ Row = [key : Key \cup {Null}, x : schema.vals, y : schema.vals]
         /\ schema.vals \subseteq Val /\ schema.loose \subseteq Val \X Val
         /\ schema.maxTries \in Nat
BY ConstantsAssumption DEF Row, RowsOf

\* Every table a run may start from is tidy.
LEMMA TablesTidy ==
  ASSUME schema \in Schemas, NEW t \in Table
  PROVE  Tidy(t)
<1>1. PICK f \in [Key -> (schema.vals \X schema.vals) \cup {NoRow}], l \in SUBSET schema.loose : t = TableOf(f, l)
  BY DEF Table
<1>2. t \in [Row -> {0, 1}]
  BY <1>1 DEF TableOf
<1>3. ASSUME NEW r \in Row, NEW s \in Row, In(t, r), In(t, s), r.key = s.key, r.key # Null PROVE r = s
  BY <1>3 DEF Table, Conflict
<1>4. ASSUME schema.loose = {}, NEW r \in Row, r.key = Null PROVE ~In(t, r)
  BY <1>1, <1>4 DEF TableOf, In
<1> QED
  BY <1>2, <1>3, <1>4 DEF Tidy

\* What the instructions of a changeset are.
LEMMA ChangesetIs ==
  ASSUME schema \in Schemas, NEW i \in Changeset(a, b)
  PROVE  IsOf(i)
<1>0. Row = [key : Key \cup {Null}, x : schema.vals, y : schema.vals]
  BY RowIs
<1>1. CASE i \in Updates(a, b)
  <2>1. PICK p \in {q \in {r \in Row : In(a, r) /\ r.key # Null} \X {n \in Row : In(b, n)} :
                      q[1].key = q[2].key /\ Changed(q[1], q[2])} :
               i = [type |-> "UPDATE", old |-> p[1], new |-> p[2]]
    BY <1>1 DEF Updates
  <2> QED
    BY <2>1 DEF IsOf, Instr, Types
<1>2. CASE i \in Deletes(a, b)
  <2>1. PICK r \in Missing(a, b) : i = [type |-> "DELETE", old |-> r, new |-> r]
    BY <1>2 DEF Deletes
  <2> QED
    BY <2>1 DEF IsOf, Instr, Types, Missing, NoRowAt
<1>3. CASE i \in Inserts(a, b)
  <2>1. PICK r \in Missing(b, a) : i = [type |-> "INSERT", old |-> r, new |-> r]
    BY <1>3 DEF Inserts
  <2> QED
    BY <2>1 DEF IsOf, Instr, Types, Missing, NoRowAt
<1> QED
  BY <1>1, <1>2, <1>3 DEF Changeset

\* What a statement does to the number of each row.
LEMMA EffectIs ==
  ASSUME schema \in Schemas, NEW t \in Bag, NEW i \in Instr
  PROVE  /\ Effect(t, i) \in Bag
         /\ \A r \in Row : Updated(r, i) \in Row
         /\ i.type = "INSERT" => \A q \in Row : Effect(t, i)[q] = IF q = i.new THEN t[q] + 1 ELSE t[q]
         /\ i.type = "DELETE" => \A q \in Row : Effect(t, i)[q] = IF q \in DeleteMatches(t, i) THEN 0 ELSE t[q]
         /\ i.type = "UPDATE" /\ UpdateMatches(t, i) = {} => Effect(t, i) = t
         /\ i.type = "UPDATE" /\ UpdateMatches(t, i) # {} =>
              \E r \in UpdateMatches(t, i) : \A q \in Row :
                Effect(t, i)[q] = (IF q \in UpdateMatches(t, i) THEN 0 ELSE t[q])
                                  + (IF q = Updated(r, i) THEN 1 ELSE 0)
<1>0. Row = [key : Key \cup {Null}, x : schema.vals, y : schema.vals]
  BY RowIs
<1>1. \A r \in Row : Updated(r, i) \in Row
  BY <1>0 DEF Updated, Instr
<1>2. CASE i.type = "INSERT"
  BY <1>1, <1>2 DEF Effect, Add, Bag, Instr
<1>3. CASE i.type = "DELETE"
  BY <1>1, <1>3 DEF Effect, RemoveAll, Bag
<1>4. CASE i.type = "UPDATE"
  <2> DEFINE m == UpdateMatches(t, i)
             r == CHOOSE r \in m : TRUE
  <2>1. CASE m = {}
    BY <1>1, <1>4, <2>1 DEF Effect
  <2>2. CASE m # {}
    <3>1. r \in m /\ r \in Row
      BY <2>2 DEF UpdateMatches
    <3>2. Effect(t, i) = Add(RemoveAll(t, m), Updated(r, i))
      BY <1>4, <2>2 DEF Effect
    <3>3. Updated(r, i) \in Row
      BY <1>1, <3>1
    <3> HIDE DEF m, r
    <3>4. /\ Effect(t, i) \in Bag
          /\ \A q \in Row : Effect(t, i)[q] = (IF q \in m THEN 0 ELSE t[q])
                                              + (IF q = Updated(r, i) THEN 1 ELSE 0)
      BY <3>2, <3>3 DEF Add, RemoveAll, Bag
    <3> QED
      BY <1>1, <1>4, <2>2, <3>1, <3>4 DEF m
  <2> QED
    BY <2>1, <2>2
<1> QED
  BY <1>2, <1>3, <1>4 DEF Instr, Types

\* A statement touches rows of its own key only.
LEMMA OwnKeyOnly ==
  ASSUME schema \in Schemas, NEW t \in Bag, NEW i, IsOf(i), NEW q \in Row, q.key # i.old.key
  PROVE  Effect(t, i)[q] = t[q]
<1>1. i \in Instr /\ i.new.key = i.old.key /\ t[q] \in Nat
  BY DEF IsOf, Bag
<1>2. Row = [key : Key \cup {Null}, x : schema.vals, y : schema.vals]
  BY RowIs
<1>3. q \notin DeleteMatches(t, i) /\ q \notin UpdateMatches(t, i)
  BY DEF DeleteMatches, UpdateMatches, SameRow
<1>4. \A r \in UpdateMatches(t, i) : r \in Row /\ q # Updated(r, i)
  BY <1>2 DEF UpdateMatches, Updated
<1> QED
  BY <1>1, <1>3, <1>4, EffectIs DEF Instr, Types
-----------------------------------------------------------------------------
(* Types, and where instructions come from.                                *)

\* What a step leaves alone.
LEMMA SameSchema ==
  ASSUME Base, [Next]_vars
  PROVE  /\ schema' = schema /\ a' = a /\ b' = b /\ origin' = origin
         /\ Row' = Row /\ Bag' = Bag
<1>1. schema' = schema /\ a' = a /\ b' = b /\ origin' = origin
  BY DEF Next, vars, Begin, RollBack, Release, ReleaseFails, Crash, Apply, ApplyFails
<1>2. Row' = Row
  BY <1>1 DEF Row
<1> QED
  BY <1>1, <1>2 DEF Bag

\* What is known of an instruction stays known.
LEMMA StillTidy ==
  ASSUME Base, [Next]_vars
  PROVE  /\ Tidy(a)' /\ Tidy(b)' /\ Tidy(origin)'
         /\ \A i : IsOf(i) => IsOf(i)'
<1>1. /\ schema' = schema /\ a' = a /\ b' = b /\ origin' = origin /\ Row' = Row
  BY SameSchema
<1>2. Tidy(a)' /\ Tidy(b)' /\ Tidy(origin)'
  BY <1>1 DEF Base, Tidy, In
<1>3. ASSUME NEW i, IsOf(i) PROVE IsOf(i)'
  BY <1>1, <1>3 DEF IsOf, Instr, In, Changed, Same, NoRowAt
<1> QED
  BY <1>2, <1>3

\* The first state.
LEMMA BaseInit == Init => Base
<1> SUFFICES ASSUME Init PROVE Base
  OBVIOUS
<1>1. schema \in Schemas /\ schema.maxTries \in Nat
  BY RowIs DEF Init
<1>2. /\ a \in Table /\ b \in Table /\ target \in Table
      /\ origin = target /\ db = target /\ todo = {} /\ stage = "idle" /\ rc = "OK" /\ tries = 0
  BY DEF Init
<1>3. Tidy(a) /\ Tidy(b) /\ Tidy(target)
  BY <1>1, <1>2, TablesTidy
<1>4. {a, b, target} \subseteq Bag
  BY <1>3 DEF Tidy, Bag
<1> QED
  BY <1>1, <1>2, <1>3, <1>4 DEF Base, TypeOK

\* Every step.
LEMMA BaseStep == Base /\ [Next]_vars => Base'
<1> SUFFICES ASSUME Base, [Next]_vars PROVE Base'
  OBVIOUS
<1>1. /\ schema' = schema /\ a' = a /\ b' = b /\ origin' = origin /\ Row' = Row /\ Bag' = Bag
  BY SameSchema
<1>2. /\ Tidy(a)' /\ Tidy(b)' /\ Tidy(origin)'
      /\ \A i : IsOf(i) => IsOf(i)'
  BY StillTidy
<1>3. schema \in Schemas /\ schema.maxTries \in Nat
  BY RowIs DEF Base, TypeOK
<1>4. (\A i \in todo' : IsOf(i)) /\ TypeOK'
  <2>1. CASE Begin
    <3>1. \A i \in todo' : IsOf(i)
      BY <1>3, <2>1, ChangesetIs DEF Begin
    <3>2. todo' \subseteq [type : Types, old : Row, new : Row]
      BY <3>1 DEF IsOf, Instr
    <3> QED
      BY <1>1, <1>3, <2>1, <3>1, <3>2 DEF Begin, Base, TypeOK, Types
  <2>2. ASSUME NEW i \in todo, Apply(i) PROVE (\A j \in todo' : IsOf(j)) /\ TypeOK'
    <3>1. Effect(db, i) \in Bag
      BY <1>3, EffectIs DEF Base, TypeOK, IsOf
    <3>2. /\ db' = Effect(db, i) /\ todo' = todo \ {i}
          /\ target' = target /\ stage' = stage /\ rc' = rc /\ tries' = tries
      BY <2>2 DEF Apply
    <3> QED
      BY <1>1, <3>1, <3>2 DEF Base, TypeOK
  <2>3. CASE \/ RollBack \/ Release \/ ReleaseFails \/ Crash \/ (\E i \in todo : ApplyFails(i)) \/ UNCHANGED vars
    BY <1>1, <2>3 DEF RollBack, Release, ReleaseFails, Crash, ApplyFails, vars, Base, TypeOK
  <2> QED
    BY <2>1, <2>2, <2>3 DEF Next
<1> QED
  BY <1>2, <1>4 DEF Base

\* The variables of DiffPatch keep their types, and what is left to apply comes
\* from comparing A with B.
THEOREM TypeCorrect == Spec => []TypeOK
<1>1. Base => TypeOK
  BY DEF Base
<1> QED
  BY <1>1, BaseInit, BaseStep, PTL DEF Spec
-----------------------------------------------------------------------------
(* A target that has changed since.                                        *)

\* In the target as it is or will be, d, no row was overwritten that A and the
\* target have not alike.
Spares(d) ==
  \A k \in Key : \A r \in RowsAt(origin, k), old \in RowsAt(a, k) :
    \/ RowsAt(d, k) = {r}
    \/ RowsAt(b, k) = {} /\ SameRow(r, old)
    \/ \E new \in RowsAt(b, k) :
         /\ ~Same(old.x, new.x) => Same(r.x, old.x)
         /\ ~Same(old.y, new.y) => Same(r.y, old.y)

DriftInv == /\ tries = 0 => target = origin
            /\ tries = 1 /\ stage \in {"applying", "failed", "rolledback"} => target = origin
            /\ tries = 1 /\ stage = "applying" => Spares(db)
            /\ tries = 1 /\ stage = "released" => Spares(target)
            /\ tries = 0 => stage = "idle"

\* An instruction spares what the target changed.
LEMMA SparesOn ==
  ASSUME Base, Spares(db), NEW i \in todo, ~Violates(db, i)
  PROVE  Spares(Effect(db, i))
<1> SUFFICES ASSUME NEW k \in Key, NEW r \in RowsAt(origin, k), NEW old \in RowsAt(a, k),
                    RowsAt(db, k) = {r},
                    ~(RowsAt(b, k) = {} /\ SameRow(r, old)),
                    ~\E new \in RowsAt(b, k) :
                       /\ ~Same(old.x, new.x) => Same(r.x, old.x)
                       /\ ~Same(old.y, new.y) => Same(r.y, old.y)
             PROVE  RowsAt(Effect(db, i), k) = {r}
  BY DEF Spares
<1>1. /\ IsOf(i) /\ i \in Instr /\ schema \in Schemas /\ db \in Bag /\ Tidy(a)
      /\ k # Null /\ old \in Row /\ In(a, old) /\ old.key = k
  BY ConstantsAssumption DEF Base, TypeOK, IsOf, RowsAt
<1>2. CASE \A q \in Row : q.key = k => Effect(db, i)[q] = db[q]
  BY <1>2 DEF RowsAt, In
<1>3. CASE i.old.key # k
  BY <1>1, <1>2, <1>3, OwnKeyOnly
<1>4. CASE i.old.key = k /\ i.type = "INSERT"
  BY <1>1, <1>4 DEF IsOf, NoRowAt
<1>5. CASE i.old.key = k /\ i.type = "DELETE"
  <2>1. i.old = old /\ RowsAt(b, k) = {}
    BY <1>1, <1>5 DEF IsOf, Tidy, NoRowAt, RowsAt, Instr
  <2>2. ~SameRow(r, old)
    BY <2>1
  <2>3. \A q \in Row : q.key = k => q \notin DeleteMatches(db, i)
    BY <2>1, <2>2 DEF DeleteMatches, RowsAt
  <2> QED
    BY <1>1, <1>2, <1>5, <2>3, EffectIs
<1>6. CASE i.old.key = k /\ i.type = "UPDATE"
  <2>1. i.old = old /\ i.new \in RowsAt(b, k)
    BY <1>1, <1>6 DEF IsOf, Tidy, RowsAt, Instr
  <2>2. r \notin UpdateMatches(db, i)
    BY <2>1 DEF UpdateMatches
  <2>3. UpdateMatches(db, i) = {}
    BY <1>6, <2>2 DEF UpdateMatches, RowsAt
  <2> QED
    BY <1>1, <1>2, <1>6, <2>3, EffectIs
<1> QED
  BY <1>1, <1>3, <1>4, <1>5, <1>6 DEF Instr, Types

\* Steps keep what DriftKept needs.
LEMMA DriftStep == Base /\ DriftInv /\ [Next]_vars => DriftInv'
<1> SUFFICES ASSUME Base, DriftInv, [Next]_vars PROVE DriftInv'
  OBVIOUS
<1>1. /\ schema' = schema /\ a' = a /\ b' = b /\ origin' = origin /\ Row' = Row
  BY SameSchema
<1>2. \A d : Spares(d) => Spares(d)'
  BY <1>1 DEF Spares, RowsAt, In, SameRow, Same
<1>3. tries \in Nat
  BY RowIs DEF Base, TypeOK
<1>4. CASE Begin
  <2>1. /\ tries' = tries + 1 /\ stage' = "applying" /\ db' = target /\ target' = target
    BY <1>4 DEF Begin
  <2>2. tries' = 1 => db' = origin /\ target' = origin'
    BY <1>1, <1>3, <2>1 DEF DriftInv
  <2>3. Spares(origin)
    <3>1. \A k \in Key : \A r \in RowsAt(origin, k) : RowsAt(origin, k) = {r}
      BY ConstantsAssumption DEF Base, Tidy, RowsAt
    <3> QED
      BY <3>1 DEF Spares
  <2>4. Spares(origin)'
    BY <1>1, <1>2, <2>3 DEF Spares
  <2>5. tries' = 1 => Spares(db)'
    BY <1>1, <2>2, <2>4 DEF Spares
  <2> QED
    BY <1>3, <2>1, <2>2, <2>5 DEF DriftInv
<1>5. ASSUME NEW i \in todo, Apply(i) PROVE DriftInv'
  <2>1. /\ stage = "applying" /\ ~Violates(db, i) /\ db' = Effect(db, i)
        /\ target' = target /\ stage' = stage /\ tries' = tries
    BY <1>5 DEF Apply
  <2>2. tries = 1 => Spares(Effect(db, i))
    BY <2>1, SparesOn DEF DriftInv
  <2>3. tries = 1 => Spares(db)'
    BY <1>2, <2>1, <2>2 DEF Spares
  <2> QED
    BY <1>1, <2>1, <2>3 DEF DriftInv
<1>6. CASE Release
  BY <1>1, <1>2, <1>6 DEF Release, DriftInv, Spares
<1>7. CASE RollBack \/ ReleaseFails \/ Crash \/ \E i \in todo : ApplyFails(i)
  BY <1>1, <1>7 DEF RollBack, ReleaseFails, Crash, ApplyFails, DriftInv
<1>8. CASE UNCHANGED vars
  BY <1>1, <1>2, <1>8 DEF vars, DriftInv, Spares
<1> QED
  BY <1>4, <1>5, <1>6, <1>7, <1>8 DEF Next

\* A row the target changed after A was taken is neither overwritten nor
\* deleted, in any table, whatever order the instructions come in.
THEOREM DriftKeptHolds == Spec => []DriftKept
<1>1. Init => DriftInv
  BY DEF Init, DriftInv
<1>2. Base /\ DriftInv => DriftKept
  BY DEF DriftInv, DriftKept, Spares
<1> QED
  BY <1>1, <1>2, BaseInit, BaseStep, DriftStep, PTL DEF Spec
-----------------------------------------------------------------------------
(* A target that has been patched.                                         *)

RetryInv == schema.loose = {} /\ stage = "applying" /\ SameTable(target, b) => db = target

\* Where the table is as in B, the instructions that can be applied do nothing.
LEMMA RetryOn ==
  ASSUME Base, schema.loose = {}, SameTable(db, b), NEW i \in todo, ~Violates(db, i)
  PROVE  Effect(db, i) = db
<1>1. /\ IsOf(i) /\ i \in Instr /\ schema \in Schemas /\ db \in Bag /\ Tidy(a) /\ Tidy(b)
      /\ Row = [key : Key \cup {Null}, x : schema.vals, y : schema.vals]
  BY RowIs DEF Base, TypeOK, IsOf
<1>2. i.old \in Row /\ i.new \in Row /\ i.old.key # Null
  BY <1>1 DEF IsOf, Tidy, Instr, Types
<1>3. ASSUME NEW r \in Row, In(db, r) PROVE \E n \in Row : In(b, n) /\ SameRow(n, r)
  BY <1>3 DEF SameTable, Copies, SameRow, Same
<1>4. ASSUME NEW n \in Row, In(b, n) PROVE \E r \in Row : In(db, r) /\ SameRow(r, n)
  BY <1>4 DEF SameTable, Copies, SameRow, Same
<1>5. CASE i.type = "DELETE"
  <2>1. DeleteMatches(db, i) = {}
    BY <1>1, <1>2, <1>3, <1>5 DEF DeleteMatches, IsOf, NoRowAt, SameRow
  <2> DEFINE E == Effect(db, i)
  <2>2. E \in Bag /\ \A q \in Row : E[q] = db[q]
    BY <1>1, <1>5, <2>1, EffectIs
  <2> HIDE DEF E
  <2>3. E \in Bag /\ db \in Bag /\ \A q \in Row : E[q] = db[q]
    BY <1>1, <2>2
  <2>4. E = db
    BY ONLY <2>3 DEF Bag
  <2> QED
    BY <2>4 DEF E
<1>6. CASE i.type = "INSERT"
  <2>1. In(b, i.new)
    BY <1>1, <1>6 DEF IsOf
  <2>2. PICK r \in Row : In(db, r) /\ SameRow(r, i.new)
    BY <1>2, <1>4, <2>1
  <2> QED
    BY <1>1, <1>2, <1>6, <2>2 DEF Violates, Blocked, Conflict, SameRow, IsOf
<1>7. CASE i.type = "UPDATE"
  <2>1. ASSUME NEW r \in UpdateMatches(db, i) PROVE FALSE
    <3>1. r \in Row /\ In(db, r) /\ r.key = i.old.key
      BY <2>1 DEF UpdateMatches
    <3>2. PICK n \in Row : In(b, n) /\ SameRow(n, r)
      BY <1>3, <3>1
    <3>3. n = i.new
      BY <1>1, <1>2, <1>7, <3>1, <3>2 DEF IsOf, Tidy, SameRow
    <3> QED
      BY <1>1, <1>7, <2>1, <3>2, <3>3 DEF IsOf, Changed, UpdateMatches, SameRow, Same
  <2> QED
    BY <1>1, <1>7, <2>1, EffectIs
<1> QED
  BY <1>1, <1>5, <1>6, <1>7 DEF Instr, Types

\* To be as B is a matter of the table and of B alone.
LEMMA StillSame ==
  ASSUME Base, [Next]_vars, target' = target
  PROVE  SameTable(target, b)' <=> SameTable(target, b)
BY SameSchema DEF SameTable, Copies, In, SameRow, Same

\* Steps keep RetryInv.
LEMMA RetryStep == Base /\ RetryInv /\ [Next]_vars => RetryInv'
<1> SUFFICES ASSUME Base, RetryInv, [Next]_vars, schema.loose = {}, (stage = "applying")',
                    SameTable(target, b)'
             PROVE  db' = target'
  BY SameSchema DEF RetryInv
<1>1. CASE Begin
  BY <1>1 DEF Begin
<1>2. ASSUME NEW i \in todo, Apply(i) PROVE db' = target'
  <2>1. /\ stage = "applying" /\ ~Violates(db, i) /\ db' = Effect(db, i) /\ target' = target
    BY <1>2 DEF Apply
  <2>2. db = target /\ SameTable(db, b)
    BY <2>1, StillSame DEF RetryInv
  <2> QED
    BY <2>1, <2>2, RetryOn
<1>3. CASE UNCHANGED vars
  BY <1>3, StillSame DEF vars, RetryInv
<1> QED
  BY <1>1, <1>2, <1>3 DEF Next, RollBack, Release, ReleaseFails, Crash, ApplyFails

\* A patch that is applied again changes nothing, wherever its first try ended,
\* for tables without rows under a NULL key.
THEOREM RetryChangesNothingHolds ==
  ASSUME \A s \in Schemas : s.loose = {}
  PROVE  Spec => RetryChangesNothing
<1>1. Init => RetryInv
  BY DEF Init, RetryInv
<1>2. Base /\ RetryInv /\ [Next]_vars => [target' # target => ~SameTable(target, b)]_vars
  <2> SUFFICES ASSUME Base, RetryInv, [Next]_vars, SameTable(target, b), target' # target
               PROVE  FALSE
    OBVIOUS
  <2>1. schema.loose = {}
    BY DEF Base, TypeOK
  <2>2. Release
    BY DEF Next, vars, Begin, RollBack, ReleaseFails, Crash, Apply, ApplyFails
  <2> QED
    BY <2>1, <2>2 DEF Release, RetryInv
<1> QED
  BY <1>1, <1>2, BaseInit, BaseStep, RetryStep, PTL DEF Spec, RetryChangesNothing
-----------------------------------------------------------------------------
(* The table the changeset was made from.                                  *)

Pending(k) == \E i \in todo : i.old.key = k

AsInA(d, k) == \A r \in Row : r.key = k => d[r] = a[r]
AsInB(d, k) ==
  \A r \in Row : r.key = k =>
    /\ In(d, r) => d[r] = 1 /\ \E n \in Row : In(b, n) /\ SameRow(n, r)
    /\ In(b, r) => \E n \in Row : In(d, n) /\ SameRow(n, r)

\* Rows with a key are as in A until their instruction is applied, then as in B.
KeyInv == stage = "applying" /\ target = a =>
  \A k \in Key : IF Pending(k) THEN AsInA(db, k) ELSE HasPk => AsInB(db, k)

\* A key has one instruction.
LEMMA OneEach ==
  ASSUME Base, NEW i \in todo, NEW j \in todo, i.old.key = j.old.key, i.old.key # Null
  PROVE  i = j
<1>1. IsOf(i) /\ IsOf(j) /\ i \in Instr /\ j \in Instr
  BY DEF Base, IsOf
<1>2. i.type = j.type
  BY <1>1 DEF IsOf, NoRowAt, Instr, Types
<1>3. i.old = j.old /\ i.new = j.new
  BY <1>1, <1>2 DEF IsOf, Base, Tidy, Instr, Types
<1> QED
  BY <1>1, <1>2, <1>3 DEF Instr

\* A key without an instruction has the same row in A and B.
LEMMA NoneNeeded ==
  ASSUME Base, HasPk, NEW k \in Key, \A i \in Changeset(a, b) : i.old.key # k
  PROVE  AsInB(a, k)
<1>1. k # Null /\ Tidy(a) /\ Tidy(b)
  BY ConstantsAssumption DEF Base
<1>2. ASSUME NEW r \in Row, NEW n \in Row, In(a, r), In(b, n), r.key = k, n.key = k PROVE SameRow(r, n)
  <2> DEFINE i == [type |-> "UPDATE", old |-> r, new |-> n]
             p == <<r, n>>
  <2>1. SUFFICES ASSUME Changed(r, n) PROVE FALSE
    BY <1>2 DEF Changed, SameRow
  <2>2. /\ p \in {q \in {s \in Row : In(a, s) /\ s.key # Null} \X {s \in Row : In(b, s)} :
                     q[1].key = q[2].key /\ Changed(q[1], q[2])}
        /\ i = [type |-> "UPDATE", old |-> p[1], new |-> p[2]]
    BY <1>1, <1>2, <2>1
  <2>3. i \in Updates(a, b)
    BY <2>2 DEF Updates
  <2> QED
    BY <1>2, <2>3 DEF Changeset
<1>3. ASSUME NEW r \in Row, In(a, r), r.key = k PROVE \E n \in Row : In(b, n) /\ n.key = k
  <2>1. SUFFICES ASSUME r \in Missing(a, b) PROVE FALSE
    BY <1>3 DEF Missing
  <2> DEFINE i == [type |-> "DELETE", old |-> r, new |-> r]
  <2>2. i \in Deletes(a, b) /\ i.old.key = k
    BY <1>3, <2>1 DEF Deletes
  <2> QED
    BY <2>2 DEF Changeset
<1>4. ASSUME NEW n \in Row, In(b, n), n.key = k PROVE \E r \in Row : In(a, r) /\ r.key = k
  <2>1. SUFFICES ASSUME n \in Missing(b, a) PROVE FALSE
    BY <1>4 DEF Missing
  <2> DEFINE i == [type |-> "INSERT", old |-> n, new |-> n]
  <2>2. i \in Inserts(a, b) /\ i.old.key = k
    BY <1>4, <2>1 DEF Inserts
  <2> QED
    BY <2>2 DEF Changeset
<1>5. \A r \in Row : In(a, r) => a[r] = 1
  BY <1>1 DEF Tidy, In
<1> QED
  BY <1>2, <1>3, <1>4, <1>5 DEF AsInB, SameRow, Same

\* An instruction makes the rows of its key what they are in B.
LEMMA MakesB ==
  ASSUME Base, NEW i \in todo, NEW k \in Key, i.old.key = k, AsInA(db, k)
  PROVE  AsInB(Effect(db, i), k)
<1> DEFINE E == Effect(db, i)
<1>1. /\ IsOf(i) /\ i \in Instr /\ schema \in Schemas /\ db \in Bag /\ Tidy(a) /\ Tidy(b) /\ k # Null
      /\ Row = [key : Key \cup {Null}, x : schema.vals, y : schema.vals]
      /\ i.old \in Row /\ i.new \in Row /\ i.old.key = k /\ i.new.key = k
  BY ConstantsAssumption, RowIs DEF Base, TypeOK, IsOf, Instr
<1>2. \A q \in Row : q.key = k => db[q] = a[q] /\ a[q] \in {0, 1} /\ b[q] \in {0, 1}
  BY <1>1 DEF AsInA, Tidy
<1>3. CASE i.type = "INSERT"
  <2>1. \A q \in Row : q.key = k => E[q] = IF q = i.new THEN 1 ELSE 0
    BY <1>1, <1>2, <1>3, EffectIs DEF IsOf, NoRowAt, In
  <2>2. \A q \in Row : q.key = k => (In(b, q) <=> q = i.new)
    BY <1>1, <1>3 DEF IsOf, Tidy
  <2> HIDE DEF E
  <2>3. AsInB(E, k)
    BY <1>1, <2>1, <2>2 DEF AsInB, In, SameRow, Same
  <2> QED
    BY <2>3 DEF E
<1>4. CASE i.type = "DELETE"
  <2>1. \A q \in Row : q.key = k => (In(db, q) <=> q = i.old)
    BY <1>1, <1>2, <1>4 DEF IsOf, Tidy, In
  <2>2. i.old \in DeleteMatches(db, i)
    BY <1>1, <2>1 DEF DeleteMatches, SameRow, Same
  <2>3. \A q \in Row : q.key = k => E[q] = 0
    BY <1>1, <1>2, <1>4, <2>1, <2>2, EffectIs DEF In
  <2>4. NoRowAt(b, k)
    BY <1>1, <1>4 DEF IsOf
  <2> HIDE DEF E
  <2>5. AsInB(E, k)
    BY <2>3, <2>4 DEF AsInB, In, NoRowAt
  <2> QED
    BY <2>5 DEF E
<1>5. CASE i.type = "UPDATE"
  <2> DEFINE u == Updated(i.old, i)
  <2>1. \A q \in Row : q.key = k => (In(db, q) <=> q = i.old)
    BY <1>1, <1>2, <1>5 DEF IsOf, Tidy, In
  <2>2. UpdateMatches(db, i) = {i.old}
    BY <1>1, <2>1 DEF UpdateMatches, Same
  <2>3. u \in Row /\ u.key = k /\ SameRow(u, i.new)
    BY <1>1 DEF Updated, SameRow, Same
  <2>4. \A q \in Row : E[q] = (IF q = i.old THEN 0 ELSE db[q]) + (IF q = u THEN 1 ELSE 0)
    BY <1>1, <1>5, <2>2, EffectIs
  <2> HIDE DEF u, E
  <2>5. \A q \in Row : q.key = k => E[q] = IF q = u THEN 1 ELSE 0
    BY <1>2, <2>1, <2>4 DEF In
  <2>6. \A q \in Row : q.key = k => (In(b, q) <=> q = i.new)
    BY <1>1, <1>5 DEF IsOf, Tidy
  <2>7. AsInB(E, k)
    BY <1>1, <2>3, <2>5, <2>6 DEF AsInB, In, SameRow, Same
  <2> QED
    BY <2>7 DEF E
<1> QED
  BY <1>1, <1>3, <1>4, <1>5 DEF Instr, Types

\* Steps keep KeyInv.
LEMMA KeyStep == Base /\ KeyInv /\ [Next]_vars => KeyInv'
<1> SUFFICES ASSUME Base, KeyInv, [Next]_vars, (stage = "applying" /\ target = a)', NEW k \in Key
             PROVE  (IF Pending(k) THEN AsInA(db, k) ELSE HasPk => AsInB(db, k))'
  BY DEF KeyInv
<1>1. /\ schema' = schema /\ a' = a /\ b' = b /\ Row' = Row /\ k # Null
  BY SameSchema, ConstantsAssumption
<1>2. CASE Begin
  <2>1. db' = a /\ todo' = Changeset(a, b)
    BY <1>1, <1>2 DEF Begin
  <2>2. HasPk /\ ~Pending(k)' => AsInB(a, k)
    BY <2>1, NoneNeeded DEF Pending
  <2> QED
    BY <1>1, <2>1, <2>2 DEF AsInA, AsInB, In, SameRow, Same
<1>3. ASSUME NEW i \in todo, Apply(i)
      PROVE  (IF Pending(k) THEN AsInA(db, k) ELSE HasPk => AsInB(db, k))'
  <2>1. /\ stage = "applying" /\ target = a /\ db' = Effect(db, i) /\ todo' = todo \ {i}
    BY <1>1, <1>3 DEF Apply
  <2>2. IsOf(i) /\ schema \in Schemas /\ db \in Bag
    BY DEF Base, TypeOK
  <2>3. CASE i.old.key = k
    <3>1. ~Pending(k)'
      BY <1>1, <2>1, <2>3, OneEach DEF Pending
    <3>2. AsInA(db, k)
      BY <2>1, <2>3 DEF KeyInv, Pending
    <3>3. AsInB(Effect(db, i), k)
      BY <2>3, <3>2, MakesB
    <3> QED
      BY <1>1, <2>1, <3>1, <3>3 DEF AsInB, In, SameRow, Same
  <2>4. CASE i.old.key # k
    <3>1. Pending(k)' <=> Pending(k)
      BY <2>1, <2>4 DEF Pending
    <3>2. \A q \in Row : q.key = k => db'[q] = db[q]
      BY <2>1, <2>2, <2>4, OwnKeyOnly
    <3>3. IF Pending(k) THEN AsInA(db, k) ELSE HasPk => AsInB(db, k)
      BY <2>1 DEF KeyInv
    <3>4. Pending(k) => AsInA(db, k)'
      BY <1>1, <3>2, <3>3 DEF AsInA
    <3>5. ~Pending(k) /\ HasPk => AsInB(db, k)'
      <4> SUFFICES ASSUME AsInB(db, k) PROVE AsInB(db, k)'
        BY <3>3
      <4> QED
        BY <1>1, <3>2 DEF AsInB, In, SameRow, Same
    <3> QED
      BY <3>1, <3>4, <3>5
  <2> QED
    BY <2>3, <2>4
<1>4. CASE UNCHANGED vars
  BY <1>1, <1>4 DEF vars, KeyInv, Pending, AsInA, AsInB, In, SameRow, Same
<1> QED
  BY <1>2, <1>3, <1>4 DEF Next, RollBack, Release, ReleaseFails, Crash, ApplyFails

\* On A no statement of the changeset meets a constraint, unless another column
\* is UNIQUE, in whatever order the instructions come.
THEOREM AppliesCleanlyHolds == Spec => []AppliesCleanly
<1>1. Init => KeyInv
  BY DEF Init, KeyInv
<1>2. Base /\ KeyInv => AppliesCleanly
  <2> SUFFICES ASSUME Base, KeyInv, stage = "applying", target = a, ~schema.uniqueX, NEW i \in todo
               PROVE  ~Violates(db, i)
    BY DEF AppliesCleanly
  <2>1. IsOf(i) /\ i \in Instr /\ Tidy(a) /\ Row = [key : Key \cup {Null}, x : schema.vals, y : schema.vals]
    BY RowIs DEF Base, TypeOK, IsOf
  <2>2. i.old \in Row /\ i.new \in Row /\ i.new.key = i.old.key
    BY <2>1 DEF IsOf, Instr
  <2>3. i.old.key # Null => \A r \in Row : r.key = i.old.key => db[r] = a[r]
    BY <2>1, <2>2 DEF KeyInv, Pending, AsInA
  <2>4. i.type = "INSERT" => ~Blocked(db, i.new)
    BY <2>1, <2>2, <2>3 DEF Blocked, Conflict, IsOf, NoRowAt, In
  <2>5. ASSUME i.type = "UPDATE", NEW r \in UpdateMatches(db, i), Blocked(RemoveAll(db, {r}), Updated(r, i))
        PROVE  FALSE
    <3>1. PICK s \in Row : In(RemoveAll(db, {r}), s) /\ Conflict(s, Updated(r, i))
      BY <2>5 DEF Blocked
    <3>2. r \in Row /\ In(db, r) /\ r.key = i.old.key /\ s # r /\ In(db, s)
      BY <3>1 DEF UpdateMatches, RemoveAll, In
    <3>3. s.key = i.old.key /\ s.key # Null
      BY <2>1, <3>1, <3>2 DEF Conflict, Updated
    <3> QED
      BY <2>1, <2>3, <3>2, <3>3 DEF Tidy, In
  <2> QED
    BY <2>4, <2>5 DEF Violates
<1> QED
  BY <1>1, <1>2, BaseInit, BaseStep, KeyStep, PTL DEF Spec
-----------------------------------------------------------------------------
(* Rows under a NULL key, and the whole table.                             *)

DelOf(r) == [type |-> "DELETE", old |-> r, new |-> r]
InsOf(r) == [type |-> "INSERT", old |-> r, new |-> r]

\* The rows of A go before those of B come, so that a DELETE that matches two
\* equal rows finds none that is to stay.
NullInv == stage = "applying" /\ target = a =>
  \A r \in Row : r.key = Null =>
    /\ In(db, r) => DelOf(r) \in todo \/ (db[r] = 1 /\ In(b, r) /\ InsOf(r) \notin todo)
    /\ In(b, r) => InsOf(r) \in todo \/ db[r] = 1
    /\ DelOf(r) \in todo => \A n \in Row : n.key = Null /\ In(b, n) => InsOf(n) \in todo

\* An instruction for a NULL key keeps NullInv.
LEMMA NullOn ==
  ASSUME Base, NullInv, PkLeads \/ schema.loose = {}, NEW i \in todo, Apply(i), i.old.key = Null,
         target = a
  PROVE  NullInv'
<1>1. /\ IsOf(i) /\ i \in Instr /\ i.old \in Row /\ schema \in Schemas /\ db \in Bag
      /\ Tidy(a) /\ Tidy(b)
  BY DEF Base, TypeOK, IsOf, Instr
<1>2. /\ stage = "applying" /\ First(i) /\ db' = Effect(db, i) /\ todo' = todo \ {i}
      /\ schema' = schema /\ a' = a /\ b' = b /\ Row' = Row
  BY DEF Apply, Row
<1>3. PkLeads
  BY <1>1 DEF IsOf, Tidy, Instr, Types
<1>4. \A q \in Row : db[q] \in Nat /\ b[q] \in {0, 1}
  BY <1>1 DEF Bag, Tidy
<1>5. CASE i.type = "DELETE"
  <2>1. i = DelOf(i.old)
    BY <1>1, <1>5 DEF IsOf, Instr, DelOf
  <2>2. \A n \in Row : n.key = Null /\ In(b, n) => InsOf(n) \in todo
    BY <1>1, <1>2, <2>1 DEF NullInv
  <2>3. \A q \in Row : db'[q] = IF q \in DeleteMatches(db, i) THEN 0 ELSE db[q]
    BY <1>1, <1>2, <1>5, EffectIs
  <2>4. i.old \notin DeleteMatches(db, i) => ~In(db, i.old)
    BY <1>1 DEF DeleteMatches, SameRow, Same
  <2>5. ~(db'[i.old] > 0)
    BY <1>1, <1>4, <2>3, <2>4 DEF In
  <2>6. \A r \in Row : DelOf(r) = i <=> r = i.old
    BY <2>1 DEF DelOf
  <2>7. \A r : InsOf(r) # i
    BY <1>5 DEF InsOf
  <2> SUFFICES ASSUME NEW r \in Row, r.key = Null
               PROVE  /\ db'[r] > 0 => DelOf(r) \in todo' \/ (db'[r] = 1 /\ b[r] > 0 /\ InsOf(r) \notin todo')
                      /\ b[r] > 0 => InsOf(r) \in todo' \/ db'[r] = 1
                      /\ DelOf(r) \in todo' => \A n \in Row : n.key = Null /\ b[n] > 0 => InsOf(n) \in todo'
    BY <1>2 DEF NullInv, In, DelOf, InsOf
  <2>8. db'[r] > 0 => db'[r] = db[r] /\ r # i.old
    BY <2>3, <2>5
  <2>9. db[r] > 0 => DelOf(r) \in todo \/ (db[r] = 1 /\ b[r] > 0 /\ InsOf(r) \notin todo)
    BY <1>2 DEF NullInv, In
  <2> QED
    BY <1>2, <2>2, <2>6, <2>7, <2>8, <2>9 DEF In
<1>6. CASE i.type = "INSERT"
  <2>1. i = InsOf(i.old) /\ In(b, i.old)
    BY <1>1, <1>6 DEF IsOf, Instr, InsOf
  <2>2. ASSUME NEW r \in Row, r.key = Null PROVE DelOf(r) \notin todo
    <3>1. Before(DelOf(r), i)
      BY <1>3, <1>6, <2>2 DEF Before, SortKey, Arm, DelOf
    <3> QED
      BY <1>2, <3>1 DEF First
  <2>3. \A q \in Row : db'[q] = IF q = i.old THEN db[q] + 1 ELSE db[q]
    BY <1>1, <1>2, <1>6, EffectIs DEF IsOf
  <2>4. db[i.old] = 0
    BY <1>1, <1>2, <1>4, <2>1, <2>2 DEF NullInv, In
  <2>5. \A r \in Row : InsOf(r) = i <=> r = i.old
    BY <2>1 DEF InsOf
  <2> SUFFICES ASSUME NEW r \in Row, r.key = Null
               PROVE  /\ db'[r] > 0 => (db'[r] = 1 /\ b[r] > 0 /\ InsOf(r) \notin todo')
                      /\ b[r] > 0 => InsOf(r) \in todo' \/ db'[r] = 1
    BY <1>2, <2>2 DEF NullInv, In, DelOf, InsOf
  <2>6. /\ db[r] > 0 => (db[r] = 1 /\ b[r] > 0 /\ InsOf(r) \notin todo)
        /\ b[r] > 0 => InsOf(r) \in todo \/ db[r] = 1
    BY <1>2, <2>2 DEF NullInv, In
  <2> QED
    BY <1>2, <2>1, <2>3, <2>4, <2>5, <2>6 DEF In
<1> QED
  BY <1>1, <1>5, <1>6 DEF IsOf, Instr, Types

\* Steps keep NullInv.
LEMMA NullStep ==
  ASSUME HasPk, PkLeads \/ schema.loose = {}
  PROVE  Base /\ NullInv /\ [Next]_vars => NullInv'
<1> SUFFICES ASSUME Base, NullInv, [Next]_vars, (stage = "applying" /\ target = a)' PROVE NullInv'
  BY DEF NullInv
<1>1. /\ schema' = schema /\ a' = a /\ b' = b /\ Row' = Row
  BY SameSchema
<1>2. CASE Begin
  <2>1. db' = a /\ todo' = Changeset(a, b)
    BY <1>1, <1>2 DEF Begin
  <2>2. ASSUME NEW r \in Row, r.key = Null
        PROVE  /\ In(a, r) => DelOf(r) \in Changeset(a, b)
               /\ In(b, r) => InsOf(r) \in Changeset(a, b)
    <3>1. In(a, r) => DelOf(r) \in Deletes(a, b)
      BY <2>2 DEF Deletes, Missing, DelOf
    <3>2. In(b, r) => InsOf(r) \in Inserts(a, b)
      BY <2>2 DEF Inserts, Missing, InsOf
    <3> QED
      BY <3>1, <3>2 DEF Changeset
  <2> QED
    BY <1>1, <2>1, <2>2 DEF NullInv, In, DelOf, InsOf
<1>3. ASSUME NEW i \in todo, Apply(i) PROVE NullInv'
  <2>1. /\ stage = "applying" /\ target = a /\ db' = Effect(db, i) /\ todo' = todo \ {i}
    BY <1>1, <1>3 DEF Apply
  <2>2. IsOf(i) /\ schema \in Schemas /\ db \in Bag
    BY DEF Base, TypeOK
  <2>3. CASE i.old.key = Null
    BY <1>3, <2>1, <2>3, NullOn
  <2>4. CASE i.old.key # Null
    <3>1. \A q \in Row : q.key = Null => db'[q] = db[q]
      BY <2>1, <2>2, <2>4, OwnKeyOnly
    <3>2. \A r \in Row : r.key = Null => DelOf(r) # i /\ InsOf(r) # i
      BY <2>4 DEF DelOf, InsOf
    <3> QED
      BY <1>1, <2>1, <3>1, <3>2 DEF NullInv, In, DelOf, InsOf
  <2> QED
    BY <2>3, <2>4
<1>4. CASE UNCHANGED vars
  BY <1>1, <1>4 DEF vars, NullInv, In, DelOf, InsOf
<1> QED
  BY <1>2, <1>3, <1>4 DEF Next, RollBack, Release, ReleaseFails, Crash, ApplyFails

\* When nothing is left to apply, the table is B.
LEMMA AllApplied ==
  ASSUME Base, KeyInv, NullInv, HasPk, stage = "applying", target = a, todo = {}
  PROVE  SameTable(db, b)
<1>1. /\ Tidy(b) /\ Row = [key : Key \cup {Null}, x : schema.vals, y : schema.vals]
  BY RowIs DEF Base, TypeOK
<1>2. ASSUME NEW q \in Row
      PROVE  /\ In(db, q) => db[q] = 1 /\ \E n \in Row : In(b, n) /\ SameRow(n, q)
             /\ In(b, q) => b[q] = 1 /\ \E n \in Row : In(db, n) /\ SameRow(n, q)
  <2>1. In(b, q) => b[q] = 1
    <3>1. b \in [Row -> {0, 1}]
      BY <1>1 DEF Tidy
    <3>2. b[q] \in {0, 1}
      BY ONLY <1>2, <3>1
    <3> QED
      BY <3>2 DEF In
  <2>2. CASE q.key = Null
    BY <2>1, <2>2 DEF NullInv, In, SameRow, Same
  <2>3. CASE q.key # Null
    <3>1. q.key \in Key /\ ~Pending(q.key)
      BY <1>1, <2>3 DEF Pending
    <3>2. AsInB(db, q.key)
      BY <3>1 DEF KeyInv
    <3> QED
      BY <2>1, <3>2 DEF AsInB
  <2> QED
    BY <2>2, <2>3
<1>3. ASSUME NEW r \in Row PROVE Copies(db, r) = {} <=> Copies(b, r) = {}
  <2>1. \A q \in Copies(db, r) : \E n \in Row : n \in Copies(b, r)
    BY <1>2 DEF Copies, SameRow, Same
  <2>2. \A q \in Copies(b, r) : \E n \in Row : n \in Copies(db, r)
    BY <1>2 DEF Copies, SameRow, Same
  <2> QED
    BY <2>1, <2>2
<1>4. \A r \in Row : \A c \in Copies(db, r) \cap Copies(b, r) : db[c] = b[c]
  BY <1>2 DEF Copies
<1> QED
  BY <1>3, <1>4 DEF SameTable

\* How the target of A's own table can have become what it is.
RoundInv ==
  origin = a =>
    /\ target # a => SameTable(target, b)
    /\ stage = "released" => SameTable(target, b)
    /\ target # a => tries >= 1
    /\ stage = "applying" => tries >= 1
    /\ stage = "applying" /\ target # a => tries >= 2

\* The schemas for which a changeset may be applied as often as one likes, or once.
Known == \A s \in Schemas : s.loose = {} \/ (PkLeads /\ s.maxTries <= 1)

\* Steps keep RoundInv.
LEMMA RoundStep ==
  ASSUME HasPk, Known
  PROVE  Base /\ RetryInv /\ KeyInv /\ NullInv /\ RoundInv /\ [Next]_vars => RoundInv'
<1> SUFFICES ASSUME Base, RetryInv, KeyInv, NullInv, RoundInv, [Next]_vars, origin = a PROVE RoundInv'
  BY SameSchema DEF RoundInv
<1>1. /\ schema' = schema /\ a' = a /\ b' = b /\ origin' = origin /\ Row' = Row
      /\ tries \in Nat /\ tries <= schema.maxTries /\ schema.maxTries \in Nat /\ schema \in Schemas
  BY SameSchema, RowIs DEF Base, TypeOK
<1>2. CASE Release
  <2>1. stage = "applying" /\ todo = {} /\ target' = db /\ stage' = "released" /\ tries' = tries
    BY <1>2 DEF Release
  <2>2. SameTable(db, b)
    <3>1. CASE target = a
      BY <2>1, <3>1, AllApplied
    <3>2. CASE target # a
      <4>1. schema.loose = {} /\ SameTable(target, b)
        BY <1>1, <2>1, <3>2 DEF RoundInv, Known
      <4> QED
        BY <2>1, <4>1 DEF RetryInv
    <3> QED
      BY <3>1, <3>2
  <2>3. SameTable(target, b)'
    BY <1>1, <2>1, <2>2 DEF SameTable, Copies, In, SameRow, Same
  <2> QED
    BY <1>1, <2>1, <2>3 DEF RoundInv
<1>3. CASE Begin
  BY <1>1, <1>3, StillSame DEF Begin, RoundInv
<1>4. CASE ~Release /\ ~Begin
  <2>1. /\ target' = target /\ tries' = tries
        /\ stage' = "released" => stage = "released"
        /\ stage' = "applying" => stage = "applying"
    BY <1>4 DEF Next, vars, RollBack, ReleaseFails, Crash, Apply, ApplyFails
  <2> QED
    BY <1>1, <2>1, StillSame DEF RoundInv
<1> QED
  BY <1>2, <1>3, <1>4

\* "Applying the patch db.diff to db1 makes db2", for tables that have a PRIMARY
\* KEY, whatever fails or dies on the way, if tables that may hold rows under a NULL
\* key have it in front and are patched once.
THEOREM RoundTripHolds ==
  ASSUME HasPk, Known
  PROVE  Spec => []RoundTrip
<1> DEFINE Inv == Base /\ RetryInv /\ KeyInv /\ NullInv /\ RoundInv
<1>1. Init => Inv
  BY BaseInit DEF Init, RetryInv, KeyInv, NullInv, RoundInv
<1>2. Inv /\ [Next]_vars => Inv'
  <2> SUFFICES ASSUME Inv, [Next]_vars PROVE Inv'
    OBVIOUS
  <2>1. PkLeads \/ schema.loose = {}
    BY DEF Known, Base, TypeOK
  <2>2. NullInv'
    BY <2>1, NullStep
  <2> QED
    BY <2>2, BaseStep, RetryStep, KeyStep, RoundStep
<1>3. Inv => RoundTrip
  BY DEF RoundInv, RoundTrip
<1> QED
  BY <1>1, <1>2, <1>3, PTL DEF Spec
=============================================================================
