------------------------ MODULE LuaStatementsProofs ------------------------
(***************************************************************************)
(* What holds of the Lua binding for any number of databases, statements   *)
(* and backups: types for every program, the rest for a program that keeps *)
(* all habits.                                                             *)
(***************************************************************************)
EXTENDS LuaStatements, TLAPS

DbRecord == [obj : Obj, open : BOOLEAN, conn : {"none", "open", "closed"}]
VmRecord == [obj : Obj, db : Db \cup {None}, open : BOOLEAN,
             stmt : {"none", "ready", "row", "halted", "finalized"},
             has_values : BOOLEAN, temp : BOOLEAN]
BuRecord == [obj : Obj, open : BOOLEAN, target : Db \cup {None}, source : Db \cup {None}]
CallRecord == [kind : {"none", "exec", "step", "next"}, on : Db \cup Vm \cup {None}]

\* The records Init starts with.
LEMMA EmptyRecords ==
  /\ NoDb \in DbRecord /\ NoDb.obj = "none" /\ NoDb.open = FALSE /\ NoDb.conn = "none"
  /\ NoVm \in VmRecord /\ NoVm.obj = "none" /\ NoVm.db = None /\ NoVm.open = FALSE
  /\ NoVm.stmt = "none" /\ NoVm.has_values = FALSE
  /\ NoBu \in BuRecord /\ NoBu.obj = "none" /\ NoBu.open = FALSE
  /\ Idle \in CallRecord /\ Idle.kind = "none" /\ Idle.on = None
BY DEF NoDb, NoVm, NoBu, Idle, DbRecord, VmRecord, BuRecord, CallRecord, Obj

\* TypeOK, with its record types by name.
LEMMA TypeIs ==
  TypeOK <=>
    /\ db \in [Db -> DbRecord] /\ vm \in [Vm -> VmRecord] /\ bu \in [Bu -> BuRecord]
    /\ \A v \in Vm : vm[v].obj = "live" => vm[v].db \in Db
    /\ tracked \in [Db -> SUBSET Vm] /\ held \subseteq Db \cup Vm \cup Bu
    /\ call \in CallRecord /\ exiting \in BOOLEAN
    /\ misuse \in {None, "freed userdata", "running statement", "close_vm", "closed connection"}
BY DEF TypeOK, DbRecord, VmRecord, BuRecord, CallRecord

\* Init has its types, and every step keeps them.
LEMMA TypeInit == Init => TypeOK
BY EmptyRecords, TypeIs DEF Init

\* What is left of a statement's record when it is finalized.
LEMMA CleanedIs ==
  ASSUME NEW r \in VmRecord
  PROVE  /\ Cleaned(r) \in VmRecord
         /\ Cleaned(r).open = FALSE /\ Cleaned(r).has_values = FALSE
         /\ Cleaned(r).obj = r.obj /\ Cleaned(r).db = r.db /\ Cleaned(r).temp = r.temp
         /\ Cleaned(r).stmt = IF r.open THEN "finalized" ELSE r.stmt
<1> DEFINE s == IF r.open THEN "finalized" ELSE r.stmt
<1>1. s \in {"none", "ready", "row", "halted", "finalized"}
  BY DEF VmRecord
<1>2. Cleaned(r) = [r EXCEPT !.has_values = FALSE, !.open = FALSE, !.stmt = s]
  BY DEF Cleaned, VmRecord
<1> HIDE DEF s
<1>3. Cleaned(r) \in VmRecord
  BY <1>1, <1>2 DEF VmRecord
<1> QED
  BY <1>3 DEF VmRecord, Cleaned

\* Untracked takes one statement from one table.
LEMMA UntrackedIs ==
  ASSUME TypeOK, NEW v \in Vm
  PROVE  /\ Untracked(v) \in [Db -> SUBSET Vm]
         /\ \A d \in Db : Untracked(v)[d] = IF d = vm[v].db THEN tracked[d] \ {v} ELSE tracked[d]
BY DEF Untracked, TypeOK

\* cleanupvm, field by field.
LEMMA CleanUpVmIs ==
  ASSUME TypeOK, NEW v \in Vm, CleanUpVm(v)
  PROVE  /\ vm' \in [Vm -> VmRecord] /\ tracked' \in [Db -> SUBSET Vm]
         /\ vm'[v] = Cleaned(vm[v])
         /\ \A w \in Vm \ {v} : vm'[w] = vm[w]
         /\ \A w \in Vm : vm'[w].obj = vm[w].obj /\ vm'[w].db = vm[w].db
         /\ \A d \in Db : tracked'[d] = IF d = vm[v].db THEN tracked[d] \ {v} ELSE tracked[d]
<1>1. vm \in [Vm -> VmRecord]
  BY TypeIs
<1>2. Cleaned(vm[v]) \in VmRecord
      /\ Cleaned(vm[v]).obj = vm[v].obj /\ Cleaned(vm[v]).db = vm[v].db
  BY <1>1, CleanedIs
<1> QED
  BY <1>1, <1>2, UntrackedIs DEF CleanUpVm

\* cleanupdb, field by field.
LEMMA CleanUpDbIs ==
  ASSUME TypeOK, NEW d \in Db, NEW o \in Obj, CleanUpDb(d, o)
  PROVE  /\ db' \in [Db -> DbRecord] /\ vm' \in [Vm -> VmRecord] /\ tracked' \in [Db -> SUBSET Vm]
         /\ db'[d].obj = o /\ db'[d].open = FALSE
         /\ db'[d].conn = IF Busy(d) THEN db[d].conn ELSE "closed"
         /\ \A e \in Db \ {d} : db'[e] = db[e]
         /\ \A w \in Vm : vm'[w] = IF w \in tracked[d] THEN Cleaned(vm[w]) ELSE vm[w]
         /\ \A w \in Vm : vm'[w].obj = vm[w].obj /\ vm'[w].db = vm[w].db
         /\ \A e \in Db : tracked'[e] = IF e = d THEN {} ELSE tracked[e]
<1>1. /\ vm \in [Vm -> VmRecord] /\ db \in [Db -> DbRecord] /\ tracked \in [Db -> SUBSET Vm]
  BY TypeIs
<1>2. \A w \in Vm : /\ Cleaned(vm[w]) \in VmRecord
                     /\ Cleaned(vm[w]).obj = vm[w].obj /\ Cleaned(vm[w]).db = vm[w].db
  BY <1>1, CleanedIs
<1>3. vm' = [w \in Vm |-> IF w \in tracked[d] THEN Cleaned(vm[w]) ELSE vm[w]]
  BY DEF CleanUpDb, CloseVms
<1> DEFINE c == IF Busy(d) THEN db[d].conn ELSE "closed"
<1>4. c \in {"none", "open", "closed"}
  BY <1>1 DEF DbRecord
<1>5. db' = [db EXCEPT ![d] = [obj |-> o, open |-> FALSE, conn |-> c]]
  BY DEF CleanUpDb
<1> HIDE DEF c
<1>6. db' \in [Db -> DbRecord]
      /\ db'[d] = [obj |-> o, open |-> FALSE, conn |-> c] /\ \A e \in Db \ {d} : db'[e] = db[e]
  BY <1>1, <1>4, <1>5 DEF DbRecord
<1>7. tracked' = [tracked EXCEPT ![d] = {}]
  BY DEF CleanUpDb
<1> QED
  BY <1>1, <1>2, <1>3, <1>6, <1>7 DEF c

\* Stepped and NextRow, field by field.
Answers == {"row", "done", "error"}
\* What the answer of a step leaves of its statement, and of the tables.
LEMMA AnswerIs ==
  ASSUME TypeOK, NEW v \in Vm, NEW k, NEW res \in Answers, Answer(v, k, res)
  PROVE  /\ vm' \in [Vm -> VmRecord] /\ tracked' \in [Db -> SUBSET Vm]
         /\ \A w \in Vm \ {v} : vm'[w] = vm[w]
         /\ vm'[v].obj = vm[v].obj /\ vm'[v].db = vm[v].db
         /\ vm'[v].has_values => vm'[v].stmt = "row"
         /\ \/ CleanUpVm(v)
            \/ /\ tracked' = tracked /\ vm'[v].open = vm[v].open
               /\ vm'[v].stmt \in {"ready", "row", "halted"}
<1>1. vm \in [Vm -> VmRecord] /\ tracked \in [Db -> SUBSET Vm]
  BY TypeIs
<1>2. CASE CleanUpVm(v)
  <2>1. vm[v] \in VmRecord
    BY <1>1
  <2>2. /\ Cleaned(vm[v]).obj = vm[v].obj /\ Cleaned(vm[v]).db = vm[v].db
        /\ Cleaned(vm[v]).has_values = FALSE
    BY <2>1, CleanedIs
  <2>3. vm'[v] = Cleaned(vm[v])
    BY <1>2, CleanUpVmIs
  <2>4. /\ vm' \in [Vm -> VmRecord] /\ tracked' \in [Db -> SUBSET Vm]
        /\ \A w \in Vm \ {v} : vm'[w] = vm[w]
    BY <1>2, CleanUpVmIs
  <2>5. vm'[v].has_values = FALSE /\ vm'[v].obj = vm[v].obj /\ vm'[v].db = vm[v].db
    BY <2>2, <2>3
  <2> QED
    BY <1>2, <2>4, <2>5
<1>3. ASSUME NEW h \in BOOLEAN, NEW s \in {"ready", "row", "halted"}, h => s = "row",
             vm' = [vm EXCEPT ![v].has_values = h, ![v].stmt = s], tracked' = tracked
      PROVE  /\ vm' \in [Vm -> VmRecord] /\ tracked' \in [Db -> SUBSET Vm]
             /\ \A w \in Vm \ {v} : vm'[w] = vm[w]
             /\ vm'[v].obj = vm[v].obj /\ vm'[v].db = vm[v].db
             /\ vm'[v].has_values => vm'[v].stmt = "row"
             /\ tracked' = tracked /\ vm'[v].open = vm[v].open
             /\ vm'[v].stmt \in {"ready", "row", "halted"}
  <2>1. vm' = [vm EXCEPT ![v] = [vm[v] EXCEPT !.has_values = h, !.stmt = s]]
    BY <1>1, <1>3
  <2>2. vm[v] \in VmRecord
    BY <1>1
  <2>3. [vm[v] EXCEPT !.has_values = h, !.stmt = s] \in VmRecord
    BY <2>2, <1>3 DEF VmRecord
  <2> QED
    BY <1>1, <1>3, <2>1, <2>2, <2>3 DEF VmRecord
<1>4. CASE k = "step"
  <2> DEFINE s == IF res = "row" THEN "row" ELSE "halted"
  <2>1. vm' = [vm EXCEPT ![v].has_values = (res = "row"), ![v].stmt = s] /\ tracked' = tracked
    BY <1>4 DEF Answer, Stepped
  <2>2. s \in {"ready", "row", "halted"} /\ (res = "row" => s = "row")
    OBVIOUS
  <2> HIDE DEF s
  <2> QED
    BY <1>3, <2>1, <2>2
<1>5. CASE k # "step" /\ ~CleanUpVm(v)
  <2> DEFINE s == CASE res = "row" -> "row" [] res = "done" -> "ready" [] res = "error" -> "halted"
  <2>1. vm' = [vm EXCEPT ![v].has_values = (res = "row"), ![v].stmt = s] /\ tracked' = tracked
    BY <1>5 DEF Answer, NextRow, HasValues
  <2>2. s \in {"ready", "row", "halted"} /\ (res = "row" => s = "row")
    BY DEF Answers
  <2> HIDE DEF s
  <2> QED
    BY <1>3, <2>1, <2>2
<1> QED
  BY <1>2, <1>4, <1>5
\* db:close_vm, field by field.
LEMMA CloseVmIs ==
  ASSUME TypeOK, NEW d \in Db, NEW temponly \in BOOLEAN, CloseVm(d, temponly)
  PROVE  /\ vm' \in [Vm -> VmRecord]
         /\ \A w \in Vm : /\ vm'[w].obj = vm[w].obj /\ vm'[w].db = vm[w].db
                          /\ \/ vm'[w] = vm[w]
                             \/ w \in tracked[d] /\ vm'[w].open = FALSE /\ vm'[w].stmt = "finalized"
                                /\ ("keeps" \in Habits => w \in held)
                                /\ ("leaves" \in Habits => ~Running(w))
<1> DEFINE vs == {v \in tracked[d] : vm[v].open /\ (temponly => vm[v].temp)}
<1>1. vm \in [Vm -> VmRecord]
  BY TypeIs
<1>2. /\ "keeps" \in Habits => vs \subseteq held
      /\ "leaves" \in Habits => \A v \in vs : ~Running(v)
      /\ vm' = [v \in Vm |-> IF v \in vs THEN [vm[v] EXCEPT !.open = FALSE, !.stmt = "finalized"] ELSE vm[v]]
  BY DEF CloseVm, Mindful
<1>3. \A v \in vs : v \in tracked[d]
  OBVIOUS
<1> HIDE DEF vs
<1>4. ASSUME NEW r \in VmRecord
      PROVE  LET c == [r EXCEPT !.open = FALSE, !.stmt = "finalized"]
             IN c \in VmRecord /\ c.obj = r.obj /\ c.db = r.db /\ c.open = FALSE /\ c.stmt = "finalized"
  BY DEF VmRecord
<1>5. ASSUME NEW w \in Vm
      PROVE  /\ vm'[w] \in VmRecord /\ vm'[w].obj = vm[w].obj /\ vm'[w].db = vm[w].db
             /\ \/ vm'[w] = vm[w]
                \/ w \in vs /\ vm'[w].open = FALSE /\ vm'[w].stmt = "finalized"
  <2>1. vm[w] \in VmRecord
    BY <1>1
  <2>2. vm'[w] = IF w \in vs THEN [vm[w] EXCEPT !.open = FALSE, !.stmt = "finalized"] ELSE vm[w]
    BY <1>2
  <2> QED
    BY <1>4, <2>1, <2>2
<1>6. vm' \in [Vm -> VmRecord]
  BY <1>2, <1>5
<1> QED
  BY <1>2, <1>3, <1>5, <1>6

\* db:prepare, field by field.
LEMMA PrepareIs ==
  ASSUME TypeOK, NEW d \in Db, NEW v \in Vm, NEW temp \in BOOLEAN, Prepare(d, v, temp)
  PROVE  /\ vm' \in [Vm -> VmRecord] /\ tracked' \in [Db -> SUBSET Vm]
         /\ \A w \in Vm \ {v} : vm'[w] = vm[w]
         /\ vm'[v].obj = "live" /\ vm'[v].db = d
         /\ vm'[v].open <=> vm'[v].stmt = "ready"
         /\ ~vm'[v].open => vm'[v].stmt = "none"
         /\ \/ held' = held \cup {v} /\ tracked' = [tracked EXCEPT ![d] = @ \cup {v}]
            \/ held' = held /\ tracked' = tracked /\ ~vm'[v].open
         /\ UNCHANGED <<db, bu, call, exiting, misuse>>
<1> DEFINE new == NewVm(d, temp)
           open == [new EXCEPT !.open = TRUE, !.stmt = "ready"]
<1>1. vm \in [Vm -> VmRecord] /\ tracked \in [Db -> SUBSET Vm]
  BY TypeIs
<1>2. /\ new \in VmRecord /\ new.obj = "live" /\ new.db = d /\ new.open = FALSE
      /\ new.stmt = "none"
      /\ open \in VmRecord /\ open.obj = "live" /\ open.db = d /\ open.open = TRUE
      /\ open.stmt = "ready"
  BY DEF NewVm, NoVm, VmRecord, Obj
<1>3. Cleaned(new) \in VmRecord /\ Cleaned(new).obj = "live" /\ Cleaned(new).db = d
      /\ Cleaned(new).open = FALSE /\ Cleaned(new).stmt = "none"
  BY <1>2, CleanedIs
<1>4. \/ /\ vm' = [vm EXCEPT ![v] = open] \/ vm' = [vm EXCEPT ![v] = new]
         /\ tracked' = [tracked EXCEPT ![d] = @ \cup {v}] /\ held' = held \cup {v}
      \/ /\ vm' = [vm EXCEPT ![v] = Cleaned(new)]
         /\ tracked' = tracked /\ held' = held
  BY DEF Prepare
<1> HIDE DEF new, open
<1>5. ASSUME NEW r \in VmRecord, vm' = [vm EXCEPT ![v] = r]
      PROVE  vm' \in [Vm -> VmRecord] /\ vm'[v] = r /\ \A w \in Vm \ {v} : vm'[w] = vm[w]
  BY <1>1, <1>5
<1>4a. UNCHANGED <<db, bu, call, exiting, misuse>>
  BY DEF Prepare
<1>6. CASE /\ vm' = [vm EXCEPT ![v] = open] \/ vm' = [vm EXCEPT ![v] = new]
           /\ tracked' = [tracked EXCEPT ![d] = @ \cup {v}] /\ held' = held \cup {v}
  <2>1. tracked' \in [Db -> SUBSET Vm]
    BY <1>1, <1>6
  <2>2. CASE vm' = [vm EXCEPT ![v] = open]
    BY <1>2, <1>4a, <1>5, <1>6, <2>1, <2>2
  <2>3. CASE vm' = [vm EXCEPT ![v] = new]
    BY <1>2, <1>4a, <1>5, <1>6, <2>1, <2>3
  <2> QED
    BY <1>6, <2>2, <2>3
<1>7. CASE vm' = [vm EXCEPT ![v] = Cleaned(new)] /\ tracked' = tracked /\ held' = held
  BY <1>1, <1>3, <1>4a, <1>5, <1>7
<1> QED
  BY <1>4, <1>6, <1>7

\* stmt:reset, field by field.
LEMMA ResetIs ==
  ASSUME TypeOK, NEW v \in Vm, Reset(v)
  PROVE  /\ vm' \in [Vm -> VmRecord]
         /\ \A w \in Vm \ {v} : vm'[w] = vm[w]
         /\ vm'[v].obj = vm[v].obj /\ vm'[v].db = vm[v].db /\ vm'[v].open = vm[v].open
         /\ vm'[v].stmt = "ready"
<1>1. vm \in [Vm -> VmRecord]
  BY TypeIs
<1>2. vm' = [vm EXCEPT ![v] = [vm[v] EXCEPT !.stmt = "ready"]]
  BY <1>1 DEF Reset
<1>3. vm[v] \in VmRecord
  BY <1>1
<1>4. [vm[v] EXCEPT !.stmt = "ready"] \in VmRecord
  BY <1>3 DEF VmRecord
<1> QED
  BY <1>1, <1>2, <1>3, <1>4 DEF VmRecord

\* dbvm_gc, field by field.
LEMMA CollectVmIs ==
  ASSUME TypeOK, NEW v \in Vm, CollectVm(v)
  PROVE  /\ vm' \in [Vm -> VmRecord] /\ tracked' \in [Db -> SUBSET Vm]
         /\ \A w \in Vm \ {v} : vm'[w] = vm[w]
         /\ vm'[v].obj = Gone /\ vm'[v].db = None /\ vm'[v].open = FALSE /\ vm'[v].stmt = "none"
         /\ \A d \in Db : tracked'[d] = IF vm[v].open /\ d = vm[v].db THEN tracked[d] \ {v} ELSE tracked[d]
<1>1. vm \in [Vm -> VmRecord] /\ tracked \in [Db -> SUBSET Vm]
  BY TypeIs
<1>2. vm' = [vm EXCEPT ![v] = [NoVm EXCEPT !.obj = Gone]]
      /\ tracked' = IF vm[v].open THEN Untracked(v) ELSE tracked
  BY DEF CollectVm
<1> DEFINE r == [NoVm EXCEPT !.obj = Gone]
<1>3. Gone \in Obj /\ Gone # "live"
  BY DEF Gone, Obj
<1>4. r \in VmRecord /\ r.obj = Gone /\ r.db = None /\ r.open = FALSE /\ r.stmt = "none"
  BY <1>3, EmptyRecords DEF NoVm, VmRecord
<1> HIDE DEF r
<1>5. vm' = [vm EXCEPT ![v] = r]
  BY <1>2 DEF r
<1>6. vm' \in [Vm -> VmRecord] /\ vm'[v] = r /\ \A w \in Vm \ {v} : vm'[w] = vm[w]
  BY <1>1, <1>4, <1>5
<1>7. tracked' \in [Db -> SUBSET Vm]
      /\ \A d \in Db : tracked'[d] = IF vm[v].open /\ d = vm[v].db THEN tracked[d] \ {v} ELSE tracked[d]
  BY <1>1, <1>2, UntrackedIs
<1> QED
  BY <1>4, <1>6, <1>7

-----------------------------------------------------------------------------
\* No action of the binding breaks a type.
LEMMA TypeStep == TypeOK /\ [Next]_vars => TypeOK'
<1> SUFFICES ASSUME TypeOK, [Next]_vars PROVE TypeOK'
  OBVIOUS
<1> DEFINE Typed == /\ db \in [Db -> DbRecord] /\ vm \in [Vm -> VmRecord] /\ bu \in [Bu -> BuRecord]
                    /\ \A v \in Vm : vm[v].obj = "live" => vm[v].db \in Db
                    /\ tracked \in [Db -> SUBSET Vm] /\ held \subseteq Db \cup Vm \cup Bu
                    /\ call \in CallRecord /\ exiting \in BOOLEAN
                    /\ misuse \in {None, "freed userdata", "running statement", "close_vm", "closed connection"}
<1>0. Typed
  BY TypeIs
<1> SUFFICES Typed'
  BY DEF TypeOK, DbRecord, VmRecord, BuRecord, CallRecord
<1>0a. Gone \in Obj /\ Gone # "live" /\ "live" \in Obj
  BY DEF Gone, Obj
<1>1. ASSUME NEW d \in Db, Open(d) PROVE Typed'
  <2>1. [obj |-> "live", open |-> TRUE, conn |-> "open"] \in DbRecord
        /\ [obj |-> "live", open |-> FALSE, conn |-> "closed"] \in DbRecord
    BY DEF DbRecord, Obj
  <2>2. db' \in [Db -> DbRecord]
    BY <1>0, <1>1, <2>1 DEF Open
  <2>3. held' \in {held, held \cup {d}} /\ UNCHANGED <<vm, bu, tracked, call, exiting, misuse>>
    BY <1>1 DEF Open
  <2> QED
    BY <1>0, <2>2, <2>3
<1>2. ASSUME NEW d \in Db, Close(d) PROVE Typed'
  <2>1. CleanUpDb(d, "live") /\ UNCHANGED <<bu, held, call, exiting>>
    BY <1>2 DEF Close
  <2>2. /\ db' \in [Db -> DbRecord] /\ vm' \in [Vm -> VmRecord] /\ tracked' \in [Db -> SUBSET Vm]
        /\ \A w \in Vm : vm'[w].obj = vm[w].obj /\ vm'[w].db = vm[w].db
    BY <1>0a, <2>1, CleanUpDbIs
  <2>3. misuse' \in {misuse, "freed userdata", "running statement", "close_vm", "closed connection"}
    BY <2>1 DEF CleanUpDb, Undefined
  <2> QED
    BY <1>0, <2>1, <2>2, <2>3
<1>3. ASSUME NEW d \in Db, NEW t \in BOOLEAN, CloseVm(d, t) PROVE Typed'
  <2>1. vm' \in [Vm -> VmRecord] /\ \A w \in Vm : vm'[w].obj = vm[w].obj /\ vm'[w].db = vm[w].db
    BY <1>3, CloseVmIs
  <2>2. misuse' \in {misuse, "close_vm"} /\ UNCHANGED <<db, bu, tracked, held, call, exiting>>
    BY <1>3 DEF CloseVm, Undefined
  <2> QED
    BY <1>0, <2>1, <2>2
<1>4. ASSUME NEW d \in Db, Exec(d) PROVE Typed'
  BY <1>0, <1>4 DEF Exec, CallRecord
<1>5. ASSUME NEW d \in Db, NEW v \in Vm, NEW t \in BOOLEAN, Prepare(d, v, t) PROVE Typed'
  <2>1. vm' \in [Vm -> VmRecord] /\ tracked' \in [Db -> SUBSET Vm]
        /\ UNCHANGED <<db, bu, call, exiting, misuse>>
    BY <1>5, PrepareIs
  <2>2. \A w \in Vm \ {v} : vm'[w] = vm[w]
    BY <1>5, PrepareIs
  <2>3. vm'[v].db = d
    BY <1>5, PrepareIs
  <2>4. held' = held \cup {v} \/ held' = held
    BY <1>5, PrepareIs
  <2> QED
    BY <1>0, <2>1, <2>2, <2>3, <2>4
<1>6. ASSUME NEW v \in Vm, Reset(v) PROVE Typed'
  BY <1>0, <1>6, ResetIs DEF Reset, Undefined
<1>7. ASSUME NEW v \in Vm, Finalize(v) PROVE Typed'
  BY <1>0, <1>7, CleanUpVmIs DEF Finalize, Undefined
<1>8. ASSUME NEW v \in Vm, NEW k \in {"step", "next"}, StepCalls(v, k) PROVE Typed'
  BY <1>0, <1>8 DEF StepCalls, CallRecord
<1>9. ASSUME NEW v \in Vm, NEW k \in {"step", "next"}, NEW r \in Answers, Step(v, k, r) PROVE Typed'
  <2>1. Answer(v, k, r) /\ UNCHANGED <<db, bu, held, call, exiting>>
        /\ misuse' \in {misuse, "running statement"}
    BY <1>9 DEF Step, Undefined
  <2>2. /\ vm' \in [Vm -> VmRecord] /\ tracked' \in [Db -> SUBSET Vm]
        /\ \A w \in Vm \ {v} : vm'[w] = vm[w]
        /\ vm'[v].obj = vm[v].obj /\ vm'[v].db = vm[v].db
    BY <2>1, AnswerIs
  <2>3. \A w \in Vm : vm'[w].obj = vm[w].obj /\ vm'[w].db = vm[w].db
    BY <2>2
  <2> QED
    BY <1>0, <2>1, <2>2, <2>3
<1>10. ASSUME NEW b \in Bu, NEW t \in Db, NEW s \in Db, BackupInit(b, t, s) PROVE Typed'
  BY <1>0, <1>10 DEF BackupInit, BuRecord, Obj
<1>11. ASSUME NEW b \in Bu, BackupStep(b) PROVE Typed'
  BY <1>0, <1>11 DEF BackupStep, Undefined
<1>12. ASSUME NEW b \in Bu, BackupFinish(b) PROVE Typed'
  BY <1>0, <1>12 DEF BackupFinish, Undefined, BuRecord
<1>13. ASSUME NEW x \in Db \cup Vm \cup Bu, Drop(x) PROVE Typed'
  BY <1>0, <1>13 DEF Drop
<1>14. CASE Exit
  BY <1>0, <1>14 DEF Exit
<1>15. CASE ExecReturns
  BY <1>0, <1>15, EmptyRecords DEF ExecReturns
<1>16. ASSUME NEW v \in Vm, NEW r \in Answers, StepReturns(v, r) PROVE Typed'
  <2>1. Answer(v, call.kind, r) /\ call' = Idle /\ UNCHANGED <<db, bu, held, exiting, misuse>>
    BY <1>16 DEF StepReturns
  <2>2. /\ vm' \in [Vm -> VmRecord] /\ tracked' \in [Db -> SUBSET Vm]
        /\ \A w \in Vm \ {v} : vm'[w] = vm[w]
        /\ vm'[v].obj = vm[v].obj /\ vm'[v].db = vm[v].db
    BY <2>1, AnswerIs
  <2>3. \A w \in Vm : vm'[w].obj = vm[w].obj /\ vm'[w].db = vm[w].db
    BY <2>2
  <2>4. Idle \in CallRecord
    BY EmptyRecords
  <2> QED
    BY <1>0, <2>1, <2>2, <2>3, <2>4
<1>17. ASSUME NEW d \in Db, CollectDb(d) PROVE Typed'
  <2>1. CASE db[d].open
    <3>1. CleanUpDb(d, Gone) /\ UNCHANGED <<bu, held, call, exiting>>
      BY <1>17, <2>1 DEF CollectDb
    <3> QED
      BY <1>0, <1>0a, <3>1, CleanUpDbIs DEF CleanUpDb, Undefined
  <2>2. CASE ~db[d].open
    <3>1. /\ db' = [db EXCEPT ![d] = [db[d] EXCEPT !.obj = Gone]]
          /\ UNCHANGED <<vm, tracked, misuse, bu, held, call, exiting>>
      BY <1>0, <1>17, <2>2 DEF CollectDb
    <3>2. db[d] \in DbRecord
      BY <1>0
    <3>3. [db[d] EXCEPT !.obj = Gone] \in DbRecord
      BY <1>0a, <3>2 DEF DbRecord
    <3> QED
      BY <1>0, <3>1, <3>3
  <2> QED
    BY <2>1, <2>2
<1>18. ASSUME NEW v \in Vm, CollectVm(v) PROVE Typed'
  BY <1>0, <1>0a, <1>18, CollectVmIs DEF CollectVm
<1>19. ASSUME NEW b \in Bu, CollectBu(b) PROVE Typed'
  BY <1>0, <1>0a, <1>19, EmptyRecords DEF CollectBu, Undefined, BuRecord, NoBu
<1>20. CASE UNCHANGED vars
  BY <1>0, <1>20 DEF vars
<1> QED
  BY <1>1, <1>2, <1>3, <1>4, <1>5, <1>6, <1>7, <1>8, <1>9, <1>10, <1>11, <1>12, <1>13, <1>14,
     <1>15, <1>16, <1>17, <1>18, <1>19, <1>20 DEF Next, Program, Return, Answers

\* TypeOK: the variables of LuaStatements keep their types, and a statement
\* that is live names its database.
THEOREM TypeCorrect == Spec => []TypeOK
BY TypeInit, TypeStep, PTL DEF Spec

-----------------------------------------------------------------------------
(* A program that keeps all habits.  Each of the four properties needs the  *)
(* others: a closed database is found Busy unless every statement it has is *)
(* in its table, and a table is safe to walk only while nothing in it was   *)
(* freed.  Owned has them all.                                              *)

Alive == {"ready", "row", "halted"}

\* A database has its connection while it is open.
Connected == \A d \in Db :
  /\ db[d].open => db[d].obj = "live"
  /\ db[d].conn = "open" <=> db[d].open

\* A statement is SQLite's while it is open, and in its database's table.
OpenVm == \A v \in Vm :
  /\ vm[v].open => vm[v].obj = "live" /\ v \in tracked[vm[v].db]
  /\ vm[v].open <=> vm[v].stmt \in Alive

\* What a table has belongs to its database, is open or held by the program,
\* and the database is open.
TableOf == \A d \in Db : \A v \in tracked[d] :
  /\ db[d].open
  /\ (vm[v].obj = "live" /\ vm[v].db = d) \/ (exiting /\ vm[v].obj = "done")
  /\ exiting \/ vm[v].open \/ v \in held

\* A backup that goes on has two open databases.
BackupOf == \A b \in Bu :
  bu[b].open => /\ bu[b].obj = "live"
                /\ bu[b].target \in Db /\ db[bu[b].target].open
                /\ bu[b].source \in Db /\ db[bu[b].source].open

\* What SQLite is calling back from is open.
CallOf ==
  /\ \A v \in Vm : call.on = v => vm[v].open
  /\ \A d \in Db : call.on = d => db[d].open
  /\ exiting => call.on = None

Owned == /\ Connected /\ OpenVm /\ TableOf /\ BackupOf /\ CallOf
         /\ ValuesOfRow /\ misuse = None

\* Nothing is open when a program begins.
LEMMA OwnedInit == Init => Owned
BY EmptyRecords, NoneAssumption
   DEF Init, Owned, Connected, OpenVm, TableOf, BackupOf, CallOf, ValuesOfRow, Alive

\* A step that leaves statements, tables and calls alone.
LEMMA OwnedSame ==
  ASSUME Owned, UNCHANGED <<db, vm, bu, tracked, call, exiting, misuse>>, held \subseteq held'
  PROVE  Owned'
BY DEF Owned, Connected, OpenVm, TableOf, BackupOf, CallOf, ValuesOfRow

\* One statement steps, is reset or is finalized.
LEMMA OwnedOne ==
  ASSUME TypeOK, TypeOK', Owned, NEW v \in Vm, vm[v].open,
         \A w \in Vm \ {v} : vm'[w] = vm[w],
         vm'[v].obj = vm[v].obj, vm'[v].db = vm[v].db,
         \/ vm'[v].open /\ vm'[v].stmt \in Alive /\ tracked' = tracked
         \/ /\ ~vm'[v].open /\ vm'[v].stmt \notin Alive
            /\ \A d \in Db : tracked'[d] = IF d = vm[v].db THEN tracked[d] \ {v} ELSE tracked[d],
         vm'[v].open /\ vm'[v].has_values => vm'[v].stmt \in {"row", "ready"},
         call'.on = None \/ (call' = call /\ call.on # v),
         UNCHANGED <<db, bu, held, exiting, misuse>>
  PROVE  Owned'
<1>1. Connected' /\ BackupOf' /\ misuse' = None
  BY DEF Owned, Connected, BackupOf
<1>2. vm[v].db \in Db /\ v \in tracked[vm[v].db]
  BY DEF Owned, OpenVm, TypeOK
<1>3. \A d \in Db : d # vm[v].db => v \notin tracked[d]
  BY DEF Owned, OpenVm, TableOf
<1>4. OpenVm'
  <2> SUFFICES ASSUME NEW w \in Vm
               PROVE  /\ vm'[w].open => vm'[w].obj = "live" /\ w \in tracked'[vm'[w].db]
                      /\ vm'[w].open <=> vm'[w].stmt \in Alive
    BY DEF OpenVm
  <2>1. CASE w = v
    BY <1>2, <2>1 DEF Owned, OpenVm
  <2>2. CASE w # v
    <3>1. vm[w].open => vm[w].db \in Db /\ w \in tracked[vm[w].db]
      BY DEF Owned, OpenVm, TypeOK
    <3>2. vm[w].open => w \in tracked'[vm[w].db]
      BY <2>2, <3>1
    <3> QED
      BY <2>2, <3>2 DEF Owned, OpenVm
  <2> QED
    BY <2>1, <2>2
<1>5. TableOf'
  BY <1>2, <1>3 DEF Owned, TableOf, TypeOK
<1>6. CallOf'
  BY NoneAssumption DEF Owned, CallOf
<1>7. ValuesOfRow'
  BY DEF Owned, ValuesOfRow
<1> QED
  BY <1>1, <1>4, <1>5, <1>6, <1>7 DEF Owned

\* A statement is finalized.
LEMMA OwnedCleaned ==
  ASSUME TypeOK, TypeOK', Owned, NEW v \in Vm, vm[v].open, CleanUpVm(v),
         call'.on = None \/ (call' = call /\ call.on # v),
         UNCHANGED <<db, bu, held, exiting, misuse>>
  PROVE  Owned'
<1>1. vm[v] \in VmRecord
  BY TypeIs
<1>2. vm'[v].open = FALSE /\ vm'[v].stmt = "finalized"
  BY <1>1, CleanUpVmIs, CleanedIs
<1>3. /\ \A w \in Vm \ {v} : vm'[w] = vm[w]
      /\ vm'[v].obj = vm[v].obj /\ vm'[v].db = vm[v].db
      /\ \A d \in Db : tracked'[d] = IF d = vm[v].db THEN tracked[d] \ {v} ELSE tracked[d]
  BY CleanUpVmIs
<1>4. vm'[v].stmt \notin Alive
  BY <1>2 DEF Alive
<1> QED
  BY <1>2, <1>3, <1>4, OwnedOne

\* A statement has answered row, done or error.
LEMMA OwnedAnswer ==
  ASSUME TypeOK, TypeOK', Owned, NEW v \in Vm, vm[v].open,
         NEW k, NEW res \in Answers, Answer(v, k, res),
         call'.on = None \/ (call' = call /\ call.on # v),
         UNCHANGED <<db, bu, held, exiting, misuse>>
  PROVE  Owned'
<1>1. CASE CleanUpVm(v)
  BY <1>1, OwnedCleaned
<1>2. CASE ~CleanUpVm(v)
  <2>1. tracked' = tracked /\ vm'[v].open = vm[v].open /\ vm'[v].stmt \in {"ready", "row", "halted"}
    BY <1>2, AnswerIs
  <2>2. /\ \A w \in Vm \ {v} : vm'[w] = vm[w]
        /\ vm'[v].obj = vm[v].obj /\ vm'[v].db = vm[v].db
        /\ vm'[v].has_values => vm'[v].stmt = "row"
    BY AnswerIs
  <2>3. vm'[v].open /\ vm'[v].stmt \in Alive
    BY <2>1 DEF Alive
  <2> QED
    BY <2>1, <2>2, <2>3, OwnedOne
<1> QED
  BY <1>1, <1>2

\* One database is closed, by the program or the collector.
LEMMA OwnedClosed ==
  ASSUME TypeOK, TypeOK', Owned, NEW d \in Db, NEW o \in Obj, db[d].open,
         UsedBy(d) = {}, ~Running(d), ~StopsRunning(d),
         CleanUpDb(d, o), UNCHANGED <<bu, held, call, exiting>>
  PROVE  Owned'
<1>1. /\ db'[d].open = FALSE /\ db'[d].conn = IF Busy(d) THEN db[d].conn ELSE "closed"
      /\ \A e \in Db \ {d} : db'[e] = db[e]
      /\ \A w \in Vm : vm'[w] = IF w \in tracked[d] THEN Cleaned(vm[w]) ELSE vm[w]
      /\ \A w \in Vm : vm'[w].obj = vm[w].obj /\ vm'[w].db = vm[w].db
      /\ \A e \in Db : tracked'[e] = IF e = d THEN {} ELSE tracked[e]
  BY CleanUpDbIs
<1>2. \A w \in tracked[d] : vm'[w].open = FALSE /\ vm'[w].stmt \notin Alive
  <2> SUFFICES ASSUME NEW w \in tracked[d] PROVE vm'[w].open = FALSE /\ vm'[w].stmt \notin Alive
    OBVIOUS
  <2>1. w \in Vm /\ vm[w] \in VmRecord
    BY TypeIs
  <2>2. vm'[w] = Cleaned(vm[w])
    BY <1>1, <2>1
  <2>3. vm'[w].stmt = IF vm[w].open THEN "finalized" ELSE vm[w].stmt
    BY <2>1, <2>2, CleanedIs
  <2>4. vm[w].open <=> vm[w].stmt \in Alive
    BY <2>1 DEF Owned, OpenVm
  <2> QED
    BY <2>1, <2>2, <2>3, <2>4, CleanedIs DEF Alive
<1>3. \A w \in Vm : vm[w].open => (vm[w].db = d <=> w \in tracked[d])
  BY DEF Owned, OpenVm, TableOf
<1>4. \A b \in Bu : bu[b].open => bu[b].target # d /\ bu[b].source # d
  BY DEF UsedBy, Active
<1>5. ~Busy(d)
  BY <1>3, <1>4 DEF Busy, CloseVms, Active, Owned, OpenVm, Alive
<1>6. Connected'
  BY <1>1, <1>5 DEF Owned, Connected
<1>7. OpenVm'
  <2> SUFFICES ASSUME NEW w \in Vm
               PROVE  /\ vm'[w].open => vm'[w].obj = "live" /\ w \in tracked'[vm'[w].db]
                      /\ vm'[w].open <=> vm'[w].stmt \in Alive
    BY DEF OpenVm
  <2>1. CASE w \in tracked[d]
    BY <1>2, <2>1
  <2>2. CASE w \notin tracked[d]
    <3>1. vm'[w] = vm[w]
      BY <1>1, <2>2
    <3>2. vm[w].open => vm[w].db \in Db \ {d}
      BY <1>3, <2>2 DEF Owned, OpenVm, TypeOK
    <3> QED
      BY <1>1, <3>1, <3>2 DEF Owned, OpenVm
  <2> QED
    BY <2>1, <2>2
<1>8. TableOf'
  <2> SUFFICES ASSUME NEW e \in Db, NEW w \in tracked'[e]
               PROVE  /\ db'[e].open
                      /\ (vm'[w].obj = "live" /\ vm'[w].db = e) \/ (exiting' /\ vm'[w].obj = "done")
                      /\ exiting' \/ vm'[w].open \/ w \in held'
    BY DEF TableOf
  <2>1. e # d /\ w \in tracked[e] /\ w \in Vm
    BY <1>1 DEF TypeOK
  <2>2. vm'[w].obj = vm[w].obj /\ vm'[w].db = vm[w].db
    BY <1>1, <2>1
  <2>3. vm'[w].open = vm[w].open \/ w \in tracked[d]
    BY <1>1, <2>1
  <2>4. w \in tracked[d] => exiting
    BY <2>1 DEF Owned, TableOf
  <2> QED
    BY <1>1, <2>1, <2>2, <2>3, <2>4 DEF Owned, TableOf
<1>9. BackupOf'
  BY <1>1, <1>4 DEF Owned, BackupOf
<1>10. CallOf'
  <2>1. ASSUME NEW v \in Vm, call.on = v PROVE vm'[v].open
    <3>1. vm[v].open
      BY <2>1 DEF Owned, CallOf
    <3>2. v \notin tracked[d]
      BY <2>1, <3>1 DEF StopsRunning, CloseVms, Running
    <3> QED
      BY <1>1, <3>1, <3>2
  <2>2. ASSUME NEW e \in Db, call.on = e PROVE db'[e].open
    BY <1>1, <2>2 DEF Owned, CallOf, Running
  <2> QED
    BY <2>1, <2>2 DEF Owned, CallOf
<1>11. ValuesOfRow'
  BY <1>1, <1>2 DEF Owned, ValuesOfRow
<1>12. misuse' = None
  BY DEF Owned, TableOf, CleanUpDb, Undefined, TouchesFreed, CloseVms
<1> QED
  BY <1>6, <1>7, <1>8, <1>9, <1>10, <1>11, <1>12 DEF Owned
\* Every action keeps Owned when the program keeps all habits.
LEMMA OwnedStep ==
  ASSUME Habits = AllHabits, TypeOK, TypeOK', Owned, [Next]_vars
  PROVE  Owned'
<1> USE DEF Mindful
<1>h. "keeps" \in Habits /\ "finishes" \in Habits /\ "leaves" \in Habits
  BY DEF AllHabits
<1>0. /\ db \in [Db -> DbRecord] /\ vm \in [Vm -> VmRecord] /\ bu \in [Bu -> BuRecord]
      /\ \A v \in Vm : vm[v].obj = "live" => vm[v].db \in Db
      /\ tracked \in [Db -> SUBSET Vm]
  BY TypeIs
<1>1. ASSUME NEW d \in Db, Open(d) PROVE Owned'
  <2>1. /\ db'[d].obj = "live" /\ (db'[d].conn = "open" <=> db'[d].open)
        /\ \A e \in Db \ {d} : db'[e] = db[e]
    BY <1>0, <1>1 DEF Open
  <2>2. ~db[d].open
    BY <1>1 DEF Open, Owned, Connected
  <2>3. UNCHANGED <<vm, bu, tracked, call, exiting, misuse>> /\ held \subseteq held'
    BY <1>1 DEF Open
  <2>4. \A e \in Db : db[e].open => db'[e].open
    BY <2>1, <2>2
  <2>5. Connected'
    BY <2>1 DEF Owned, Connected
  <2>6. TableOf' /\ OpenVm' /\ ValuesOfRow'
    BY <2>3, <2>4 DEF Owned, TableOf, OpenVm, ValuesOfRow
  <2>7. BackupOf' /\ CallOf'
    BY <2>3, <2>4 DEF Owned, BackupOf, CallOf
  <2> QED
    BY <2>3, <2>5, <2>6, <2>7 DEF Owned
<1>2. ASSUME NEW d \in Db, Close(d) PROVE Owned'
  <2>1. UsedBy(d) = {} /\ ~Running(d) /\ ~StopsRunning(d)
    BY <1>2, <1>h DEF Close
  <2>2. /\ db[d].open /\ CleanUpDb(d, "live") /\ "live" \in Obj
        /\ UNCHANGED <<bu, held, call, exiting>>
    BY <1>2 DEF Close, Obj
  <2> QED
    BY <2>1, <2>2, OwnedClosed
<1>3. ASSUME NEW d \in Db, NEW t \in BOOLEAN, CloseVm(d, t), ~exiting PROVE Owned'
  <2>2. \A w \in Vm : /\ vm'[w].obj = vm[w].obj /\ vm'[w].db = vm[w].db
                      /\ \/ vm'[w] = vm[w]
                         \/ /\ w \in tracked[d] /\ vm'[w].open = FALSE /\ vm'[w].stmt = "finalized"
                            /\ w \in held /\ ~Running(w)
    BY <1>3, <1>h, CloseVmIs
  <2>3. UNCHANGED <<db, bu, tracked, held, call, exiting>>
    BY <1>3 DEF CloseVm
  <2>4. misuse' = misuse
    BY <1>3, <1>h DEF CloseVm, Undefined, Owned, TableOf
  <2>5. Connected' /\ BackupOf'
    BY <2>3 DEF Owned, Connected, BackupOf
  <2>6. OpenVm'
    BY <2>2, <2>3 DEF Owned, OpenVm, Alive
  <2>7. TableOf'
    BY <1>0, <2>2, <2>3 DEF Owned, TableOf
  <2>8. CallOf'
    BY <2>2, <2>3 DEF Owned, CallOf, Running
  <2>9. ValuesOfRow'
    BY <2>2 DEF Owned, ValuesOfRow
  <2> QED
    BY <2>4, <2>5, <2>6, <2>7, <2>8, <2>9 DEF Owned
<1>4. ASSUME NEW d \in Db, Exec(d), ~exiting PROVE Owned'
  <2>1. CallOf'
    BY <1>4, UserdataAssumption DEF Exec, Owned, CallOf
  <2> QED
    BY <1>4, <2>1 DEF Exec, Owned, Connected, OpenVm, TableOf, BackupOf, ValuesOfRow
<1>5. ASSUME NEW d \in Db, NEW v \in Vm, NEW t \in BOOLEAN, Prepare(d, v, t) PROVE Owned'
  <2>1. db[d].open /\ vm[v].obj = "none"
    BY <1>5 DEF Prepare
  <2>2. ~vm[v].open /\ \A e \in Db : v \notin tracked[e]
    BY <2>1 DEF Owned, OpenVm, TableOf
  <2>3. UNCHANGED <<db, bu, call, exiting, misuse>>
    BY <1>5, PrepareIs
  <2>4. \A w \in Vm \ {v} : vm'[w] = vm[w]
    BY <1>5, PrepareIs
  <2>5. vm'[v].obj = "live" /\ vm'[v].db = d
    BY <1>5, PrepareIs
  <2>6. /\ vm'[v].open <=> vm'[v].stmt = "ready"
        /\ ~vm'[v].open => vm'[v].stmt = "none"
    BY <1>5, PrepareIs
  <2>7. \/ held' = held \cup {v} /\ tracked' = [tracked EXCEPT ![d] = @ \cup {v}]
        \/ held' = held /\ tracked' = tracked /\ ~vm'[v].open
    BY <1>5, PrepareIs
  <2>8. Connected' /\ BackupOf'
    BY <2>3 DEF Owned, Connected, BackupOf
  <2>7a. \A e \in Db : tracked[e] \subseteq tracked'[e] /\ tracked'[e] \subseteq tracked[e] \cup {v}
    BY <1>0, <2>7
  <2>7b. vm'[v].open => v \in tracked'[d]
    BY <1>0, <2>7
  <2>9. OpenVm'
    <3> SUFFICES ASSUME NEW w \in Vm
                 PROVE  /\ vm'[w].open => vm'[w].obj = "live" /\ w \in tracked'[vm'[w].db]
                        /\ vm'[w].open <=> vm'[w].stmt \in Alive
      BY DEF OpenVm
    <3>1. CASE w = v
      BY <2>5, <2>6, <2>7b, <3>1 DEF Alive
    <3>2. CASE w # v
      BY <1>0, <2>4, <2>7a, <3>2 DEF Owned, OpenVm
    <3> QED
      BY <3>1, <3>2
  <2>10. TableOf'
    <3> SUFFICES ASSUME NEW e \in Db, NEW w \in tracked'[e]
                 PROVE  /\ db'[e].open
                        /\ (vm'[w].obj = "live" /\ vm'[w].db = e) \/ (exiting' /\ vm'[w].obj = "done")
                        /\ exiting' \/ vm'[w].open \/ w \in held'
      BY DEF TableOf
    <3>1. CASE w = v
      <4>1. e = d /\ v \in held'
        BY <1>0, <2>2, <2>7, <3>1
      <4>2. db'[e].open
        BY <2>1, <2>3, <4>1
      <4>3. vm'[w].obj = "live" /\ vm'[w].db = e /\ w \in held'
        BY <2>5, <3>1, <4>1
      <4> QED
        BY <4>2, <4>3
    <3>2. CASE w # v
      <4>1. w \in tracked[e] /\ w \in Vm /\ vm'[w] = vm[w] /\ held \subseteq held'
        BY <1>0, <2>4, <2>7, <2>7a, <3>2
      <4> QED
        BY <2>3, <4>1 DEF Owned, TableOf
    <3> QED
      BY <3>1, <3>2
  <2>11. CallOf'
    BY <2>2, <2>3, <2>4 DEF Owned, CallOf
  <2>12. ValuesOfRow'
    BY <2>4, <2>6 DEF Owned, ValuesOfRow
  <2> QED
    BY <2>3, <2>8, <2>9, <2>10, <2>11, <2>12 DEF Owned
<1>6. ASSUME NEW v \in Vm, Reset(v) PROVE Owned'
  <2>1. vm[v].open /\ ~Running(v)
    BY <1>6, <1>h DEF Reset, Usable
  <2>2. UNCHANGED <<db, bu, tracked, held, call, exiting, misuse>>
    BY <1>6, <2>1 DEF Reset, Undefined
  <2>3. /\ \A w \in Vm \ {v} : vm'[w] = vm[w]
        /\ vm'[v].obj = vm[v].obj /\ vm'[v].db = vm[v].db /\ vm'[v].open
        /\ vm'[v].stmt = "ready"
    BY <1>6, <2>1, ResetIs
  <2>4. vm'[v].stmt \in Alive
    BY <2>3 DEF Alive
  <2> QED
    BY <2>1, <2>2, <2>3, <2>4, OwnedOne DEF Running<1>7. ASSUME NEW v \in Vm, Finalize(v) PROVE Owned'
  <2>1. vm[v].open /\ ~Running(v) /\ CleanUpVm(v)
    BY <1>7, <1>h DEF Finalize, Usable
  <2>2. UNCHANGED <<db, bu, held, call, exiting, misuse>>
    BY <1>7, <2>1 DEF Finalize, Undefined
  <2> QED
    BY <2>1, <2>2, OwnedCleaned DEF Running
<1>8. ASSUME NEW v \in Vm, NEW k \in {"step", "next"}, StepCalls(v, k), ~exiting PROVE Owned'
  <2>1. CallOf'
    BY <1>8, UserdataAssumption DEF StepCalls, Usable, Owned, CallOf
  <2> QED
    BY <1>8, <2>1 DEF StepCalls, Owned, Connected, OpenVm, TableOf, BackupOf, ValuesOfRow
<1>9. ASSUME NEW v \in Vm, NEW k, NEW r \in Answers, Step(v, k, r) PROVE Owned'
  <2>1. vm[v].open /\ ~Running(v) /\ Answer(v, k, r)
    BY <1>9, <1>h DEF Step, Usable
  <2>2. UNCHANGED <<db, bu, held, call, exiting, misuse>>
    BY <1>9, <2>1 DEF Step, Undefined
  <2> QED
    BY <2>1, <2>2, OwnedAnswer DEF Running
<1>10. ASSUME NEW b \in Bu, NEW t \in Db, NEW s \in Db, BackupInit(b, t, s) PROVE Owned'
  <2>1. BackupOf'
    BY <1>0, <1>10 DEF BackupInit, Owned, BackupOf
  <2> QED
    BY <1>10, <2>1 DEF BackupInit, Owned, Connected, OpenVm, TableOf, CallOf, ValuesOfRow
<1>11. ASSUME NEW b \in Bu, Active(b) PROVE ~ClosedUnder(b)
  BY <1>11 DEF Active, ClosedUnder, Owned, BackupOf, Connected
<1>12. ASSUME NEW b \in Bu, BackupStep(b) PROVE Owned'
  BY <1>11, <1>12, OwnedSame DEF BackupStep, Undefined
<1>13. ASSUME NEW b \in Bu, BackupFinish(b) PROVE Owned'
  <2>1. misuse' = misuse /\ UNCHANGED <<db, vm, tracked, held, call, exiting>>
    BY <1>11, <1>13 DEF BackupFinish, Undefined
  <2>2. BackupOf'
    <3> SUFFICES ASSUME NEW c \in Bu, bu'[c].open
                 PROVE  bu'[c].obj = bu[c].obj /\ bu[c].open
                        /\ bu'[c].target = bu[c].target /\ bu'[c].source = bu[c].source
      BY <2>1 DEF Owned, BackupOf
    <3>1. bu[b] \in BuRecord /\ bu' = [bu EXCEPT ![b] = [bu[b] EXCEPT !.open = FALSE]]
      BY <1>0, <1>13 DEF BackupFinish
    <3>2. c # b
      BY <1>0, <3>1 DEF BuRecord
    <3> QED
      BY <1>0, <3>1, <3>2
  <2> QED
    BY <2>1, <2>2 DEF Owned, Connected, OpenVm, TableOf, CallOf, ValuesOfRow
<1>14. ASSUME NEW x \in Db \cup Vm \cup Bu, Drop(x), ~exiting PROVE Owned'
  <2>1. x \in Vm /\ Tracking(x) => vm[x].open
    BY <1>14, <1>h DEF Drop
  <2>2. held' = held \ {x} /\ UNCHANGED <<db, vm, bu, tracked, call, exiting, misuse>>
    BY <1>14 DEF Drop
  <2>3. TableOf'
    <3> SUFFICES ASSUME NEW d \in Db, NEW v \in tracked[d] PROVE vm[v].open \/ v \in held'
      BY <2>2 DEF Owned, TableOf
    <3>1. vm[v].db = d /\ (vm[v].open \/ v \in held)
      BY <1>14 DEF Owned, TableOf
    <3>2. v = x => Tracking(x) /\ x \in Vm
      BY <1>0, <3>1, NoneAssumption DEF Tracking
    <3> QED
      BY <2>1, <2>2, <3>1, <3>2
  <2> QED
    BY <2>2, <2>3 DEF Owned, Connected, OpenVm, BackupOf, CallOf, ValuesOfRow
<1>15. CASE Exit
  <2>1. UNCHANGED <<db, vm, bu, tracked, call, misuse>> /\ ~exiting /\ exiting' = TRUE /\ call.on = None
    BY <1>15 DEF Exit, Idle
  <2>2. TableOf' /\ CallOf'
    BY <2>1 DEF Owned, TableOf, CallOf
  <2> QED
    BY <2>1, <2>2 DEF Owned, Connected, OpenVm, BackupOf, ValuesOfRow
<1>16. CASE ExecReturns
  <2>1. CallOf'
    BY <1>16, NoneAssumption, EmptyRecords DEF ExecReturns, CallOf
  <2> QED
    BY <1>16, <2>1 DEF ExecReturns, Owned, Connected, OpenVm, TableOf, BackupOf, ValuesOfRow
<1>17. ASSUME NEW v \in Vm, NEW r \in Answers, StepReturns(v, r) PROVE Owned'
  <2>1. vm[v].open
    BY <1>17 DEF StepReturns, Running, Owned, CallOf
  <2>2. Answer(v, call.kind, r) /\ call'.on = None /\ UNCHANGED <<db, bu, held, exiting, misuse>>
    BY <1>17, EmptyRecords DEF StepReturns
  <2> DEFINE k == call.kind
  <2> HIDE DEF k
  <2>3. Answer(v, k, r)
    BY <2>2 DEF k
  <2> QED
    BY <2>1, <2>2, <2>3, OwnedAnswer
<1>18. ASSUME NEW d \in Db, CollectDb(d) PROVE Owned'
  <2>1. UsedBy(d) = {}
    BY <1>18 DEF CollectDb, Kept, MadeFrom, UsedBy, Active, Owned, BackupOf
  <2>2. ~Running(d) /\ ~StopsRunning(d)
    <3>1. CASE exiting
      BY <1>0, <1>18, <3>1, NoneAssumption DEF CollectDb, Owned, CallOf, StopsRunning, CloseVms, Running
    <3>2. CASE ~exiting
      BY <1>18, <3>2 DEF CollectDb, Kept, StopsRunning, CloseVms
    <3> QED
      BY <3>1, <3>2
  <2>3. CASE db[d].open
    <3>1. CleanUpDb(d, Gone) /\ Gone \in Obj /\ UNCHANGED <<bu, held, call, exiting>>
      BY <1>18, <2>3 DEF CollectDb, Gone, Obj
    <3> QED
      BY <2>1, <2>2, <2>3, <3>1, OwnedClosed
  <2>4. CASE ~db[d].open
    <3>1. /\ db' = [db EXCEPT ![d] = [db[d] EXCEPT !.obj = Gone]]
          /\ UNCHANGED <<vm, tracked, misuse, bu, held, call, exiting>>
      BY <1>0, <1>18, <2>4 DEF CollectDb
    <3>2. db[d] \in DbRecord
      BY <1>0
    <3>3. /\ db'[d].open = db[d].open /\ db'[d].conn = db[d].conn
          /\ \A e \in Db \ {d} : db'[e] = db[e]
      BY <1>0, <3>1, <3>2 DEF DbRecord
    <3>4. Connected'
      BY <2>4, <3>3 DEF Owned, Connected
    <3>5. TableOf' /\ BackupOf' /\ CallOf'
      BY <3>1, <3>3 DEF Owned, TableOf, BackupOf, CallOf
    <3> QED
      BY <3>1, <3>4, <3>5 DEF Owned, OpenVm, ValuesOfRow
  <2> QED
    BY <2>3, <2>4
<1>19. ASSUME NEW v \in Vm, CollectVm(v) PROVE Owned'
  <2>1. v \notin held /\ vm[v].obj = "live" /\ call.on # v /\ UNCHANGED <<db, bu, held, call, exiting, misuse>>
    BY <1>19 DEF CollectVm, Running
  <2>2. /\ \A w \in Vm \ {v} : vm'[w] = vm[w]
        /\ vm'[v].obj = Gone /\ vm'[v].open = FALSE /\ vm'[v].stmt = "none"
        /\ \A d \in Db : tracked'[d] = IF vm[v].open /\ d = vm[v].db THEN tracked[d] \ {v} ELSE tracked[d]
    BY <1>19, CollectVmIs
  <2>3. ASSUME NEW d \in Db, v \in tracked'[d] PROVE exiting
    <3>1. v \in tracked[d] /\ ~(vm[v].open /\ d = vm[v].db)
      BY <2>2, <2>3
    <3>2. vm[v].db = d /\ (exiting \/ vm[v].open \/ v \in held)
      BY <2>1, <3>1 DEF Owned, TableOf
    <3> QED
      BY <2>1, <3>1, <3>2
  <2>4. OpenVm'
    <3> SUFFICES ASSUME NEW w \in Vm
                 PROVE  /\ vm'[w].open => vm'[w].obj = "live" /\ w \in tracked'[vm'[w].db]
                        /\ vm'[w].open <=> vm'[w].stmt \in Alive
      BY DEF OpenVm
    <3>1. CASE w = v
      BY <2>2, <3>1 DEF Alive
    <3>2. CASE w # v
      <4>1. vm'[w] = vm[w]
        BY <2>2, <3>2
      <4>2. /\ vm[w].open => vm[w].obj = "live" /\ w \in tracked[vm[w].db]
            /\ vm[w].open <=> vm[w].stmt \in Alive
        BY DEF Owned, OpenVm
      <4>3. vm[w].open => vm[w].db \in Db
        BY <1>0, <4>2
      <4>4. vm[w].open => w \in tracked'[vm[w].db]
        BY <2>2, <3>2, <4>2, <4>3
      <4> QED
        BY <4>1, <4>2, <4>4
    <3> QED
      BY <3>1, <3>2
  <2>5. TableOf'
    <3> SUFFICES ASSUME NEW d \in Db, NEW w \in tracked'[d]
                 PROVE  /\ db'[d].open
                        /\ (vm'[w].obj = "live" /\ vm'[w].db = d) \/ (exiting' /\ vm'[w].obj = "done")
                        /\ exiting' \/ vm'[w].open \/ w \in held'
      BY DEF TableOf
    <3>1. w \in tracked[d] /\ w \in Vm
      BY <1>0, <2>2
    <3>0. /\ db[d].open
          /\ (vm[w].obj = "live" /\ vm[w].db = d) \/ (exiting /\ vm[w].obj = "done")
          /\ exiting \/ vm[w].open \/ w \in held
      BY <3>1 DEF Owned, TableOf
    <3>2. CASE w = v
      <4>1. exiting
        BY <2>3, <3>2
      <4> QED
        BY <2>1, <2>2, <3>0, <3>2, <4>1 DEF Gone
    <3>3. CASE w # v
      BY <2>1, <2>2, <3>0, <3>1, <3>3
    <3> QED
      BY <3>2, <3>3
  <2>6. Connected' /\ BackupOf'
    BY <2>1 DEF Owned, Connected, BackupOf
  <2>7. CallOf' /\ ValuesOfRow'
    BY <2>1, <2>2 DEF Owned, CallOf, ValuesOfRow
  <2> QED
    BY <2>1, <2>4, <2>5, <2>6, <2>7 DEF Owned
<1>20. ASSUME NEW b \in Bu, CollectBu(b) PROVE Owned'
  <2>1. misuse' = misuse /\ UNCHANGED <<db, vm, tracked, held, call, exiting>>
    BY <1>11, <1>20 DEF CollectBu, Undefined
  <2>2. BackupOf'
    BY <1>0, <1>20 DEF CollectBu, NoBu, Owned, BackupOf
  <2> QED
    BY <2>1, <2>2 DEF Owned, Connected, OpenVm, TableOf, CallOf, ValuesOfRow
<1>21. CASE UNCHANGED vars
  BY <1>21, OwnedSame DEF vars
<1> QED
  BY <1>1, <1>2, <1>3, <1>4, <1>5, <1>6, <1>7, <1>8, <1>9, <1>10, <1>12, <1>13, <1>14,
     <1>15, <1>16, <1>17, <1>18, <1>19, <1>20, <1>21 DEF Next, Program, Return, Answers

\* Owned is an invariant.
LEMMA OwnedAlways ==
  ASSUME Habits = AllHabits
  PROVE  Spec => []Owned
BY OwnedInit, OwnedStep, TypeCorrect, PTL DEF Spec

\* NoMisuse: the code, and a program that keeps the three habits, never hand
\* SQLite what is gone, whatever the order of the collector and the callbacks.
THEOREM NeverMisused ==
  ASSUME Habits = AllHabits
  PROVE  Spec => []NoMisuse
<1>1. Owned => NoMisuse
  BY DEF Owned, NoMisuse
<1> QED
  BY <1>1, OwnedAlways, PTL

\* TracksOpen: the registry has every statement that is open and none that was
\* freed, so that db:close() finalizes them all.
THEOREM OpenIsTracked ==
  ASSUME Habits = AllHabits
  PROVE  Spec => []TracksOpen
<1>1. TypeOK /\ Owned => TracksOpen
  <2> SUFFICES ASSUME TypeOK, Owned PROVE TracksOpen
    OBVIOUS
  <2>1. \A v \in Vm : vm[v].open => Tracking(v)
    BY NoneAssumption DEF Owned, OpenVm, Tracking, TypeOK
  <2>2. \A d \in Db : \A v \in tracked[d] : vm[v].obj # "freed"
    BY DEF Owned, TableOf
  <2> QED
    BY <2>1, <2>2 DEF TracksOpen
<1> QED
  BY <1>1, OwnedAlways, TypeCorrect, PTL

\* NothingLost: every connection and every statement SQLite has can still be
\* closed by the program or the collector.
THEOREM NothingIsLost ==
  ASSUME Habits = AllHabits
  PROVE  Spec => []NothingLost
<1>1. Owned => NothingLost
  BY DEF Owned, Connected, OpenVm, Alive, NothingLost
<1> QED
  BY <1>1, OwnedAlways, PTL

\* ValuesOfRow: columns are never read from a statement that has ended.
THEOREM ValuesAreOfARow ==
  ASSUME Habits = AllHabits
  PROVE  Spec => []ValuesOfRow
<1>1. Owned => ValuesOfRow
  BY DEF Owned
<1> QED
  BY <1>1, OwnedAlways, PTL
=============================================================================
