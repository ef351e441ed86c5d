--------------------------- MODULE LuaStatements ---------------------------
(***************************************************************************)
(* Who owns connections, statements and backups in the Lua binding         *)
(* (src/binding/lua/lsqlite3.c).                                           *)
(*                                                                         *)
(* A Lua program holds userdata: databases (sdb), statements (sdb_vm) and  *)
(* backups (sdb_bu).  What it no longer holds is finalized and freed by    *)
(* the garbage collector, in an order nobody writes down; lua_close        *)
(* finalizes what is left.  Beside them the registry has a table for every *)
(* open database, from the addresses of its statements to the database,    *)
(* which keeps the database alive and tells db:close() what to finalize.   *)
(* An address does not keep a statement alive.                             *)
(*                                                                         *)
(* SQLite calls back into Lua in the middle of a step or an exec, and a    *)
(* callback may do whatever a program may do.                              *)
(*                                                                         *)
(* Values, SQL and errors are left out: a step answers row, done or error. *)
(***************************************************************************)
EXTENDS Integers, FiniteSets

CONSTANTS
  Db, Vm, Bu,   \* userdata: databases, statements, backups, numbered as made
  None,
  MaxMade,      \* bound: userdata a behaviour makes
  Habits        \* what the program takes care of; the code checks none of it

\* "keeps"     a statement that close_vm closed, or that was prepared from no
\*             SQL, is held until its database is closed
\* "finishes"  backups are finished before one of their databases is closed
\* "leaves"    callbacks leave alone what is running
AllHabits == {"keeps", "finishes", "leaves"}

ASSUME HabitsAssumption == Habits \subseteq AllHabits
ASSUME UserdataAssumption ==
  MaxMade \in Nat /\ Db \cup Vm \cup Bu \subseteq Nat /\ Db \cap Vm = {} /\ Db \cap Bu = {} /\ Vm \cap Bu = {}
ASSUME NoneAssumption == None \notin Db \cup Vm \cup Bu

VARIABLES
  db,       \* per sdb: the userdata, whether db->db is set, the connection
  vm,       \* per sdb_vm: the userdata, its fields, the SQLite statement
  bu,       \* per sdb_bu: the userdata, whether sbu->bu is set, its databases
  tracked,  \* registry: the statements a database's table has
  held,     \* userdata the program can reach
  call,     \* the step or exec SQLite is calling back from
  exiting,  \* lua_close has begun
  misuse    \* what undefined behaviour was met, or None

vars == <<db, vm, bu, tracked, held, call, exiting, misuse>>

\* Userdata is "none" before it is made, "live", "done" when its finalizer ran
\* in lua_close, and "freed".
NoDb == [obj |-> "none", open |-> FALSE, conn |-> "none"]
NoVm == [obj |-> "none", db |-> None, open |-> FALSE, stmt |-> "none",
         has_values |-> FALSE, temp |-> FALSE]
NoBu == [obj |-> "none", open |-> FALSE, target |-> None, source |-> None]
Idle == [kind |-> "none", on |-> None]

Init ==
  /\ db = [d \in Db |-> NoDb] /\ vm = [v \in Vm |-> NoVm] /\ bu = [b \in Bu |-> NoBu]
  /\ tracked = [d \in Db |-> {}]
  /\ held = {} /\ call = Idle /\ exiting = FALSE /\ misuse = None

Running(v)  == call.on = v
Active(b)   == bu[b].open
UsedBy(d)   == {b \in Bu : Active(b) /\ d \in {bu[b].target, bu[b].source}}
Mindful(h, ok) == h \in Habits => ok
Made == {d \in Db : db[d].obj # "none"} \cup {v \in Vm : vm[v].obj # "none"}
        \cup {b \in Bu : bu[b].obj # "none"}
CanMake == Cardinality(Made) < MaxMade
Undefined(bad, what) == misuse' = IF bad THEN what ELSE misuse

-----------------------------------------------------------------------------
(* cleanupvm and cleanupdb.                                                *)

\* The fields after cleanupvm.
Cleaned(r) ==
  [r EXCEPT !.has_values = FALSE, !.open = FALSE,
            !.stmt = IF r.open THEN "finalized" ELSE @]

UntrackedNever(v) == tracked  \* seeded fault
Untracked(v) == [tracked EXCEPT ![vm[v].db] = @ \ {v}]

CleanUpVm(v) ==
  /\ vm' = [vm EXCEPT ![v] = Cleaned(@)]
  /\ tracked' = Untracked(v)

\* What cleanupdb finalizes: whatever the registry has, touching its memory.
CloseVmsTemp(d) == {v \in tracked[d] : vm[v].temp}  \* seeded fault
CloseVms(d) == tracked[d]
TouchesFreed(d) == \E v \in CloseVms(d) : vm[v].obj = "freed"
StopsRunning(d) == \E v \in CloseVms(d) : Running(v) /\ vm[v].open

\* sqlite3_close answers BUSY while the connection has a statement or is the
\* source of a backup; the handle is forgotten all the same.
Busy(d) ==
  \/ \E v \in Vm \ CloseVms(d) : vm[v].db = d /\ vm[v].stmt \in {"ready", "row", "halted"}
  \/ Running(d)
  \/ \E b \in Bu : Active(b) /\ bu[b].source = d

CleanUpDb(d, obj) ==
  /\ db' = [db EXCEPT ![d] = [obj |-> obj, open |-> FALSE,
                              conn |-> IF Busy(d) THEN @.conn ELSE "closed"]]
  /\ vm' = [v \in Vm |-> IF v \in CloseVms(d) THEN Cleaned(vm[v]) ELSE vm[v]]
  /\ tracked' = [tracked EXCEPT ![d] = {}]
  /\ Undefined(TouchesFreed(d) \/ StopsRunning(d),
               IF TouchesFreed(d) THEN "freed userdata" ELSE "running statement")

-----------------------------------------------------------------------------
(* Databases.                                                              *)

\* lsqlite_open: the userdata comes first and is closed again on failure.
Open(d) ==
  /\ CanMake /\ db[d].obj = "none" /\ \A e \in Db : e < d => db[e].obj # "none"
  /\ \/ /\ db' = [db EXCEPT ![d] = [obj |-> "live", open |-> TRUE, conn |-> "open"]]
        /\ held' = held \cup {d}
     \/ /\ db' = [db EXCEPT ![d] = [obj |-> "live", open |-> FALSE, conn |-> "closed"]]
        /\ held' = held
  /\ UNCHANGED <<vm, bu, tracked, call, exiting, misuse>>

\* db:close().  Closing twice is an error of Lua (lsqlite_checkdb).
Close(d) ==
  /\ d \in held /\ db[d].open
  /\ Mindful("finishes", UsedBy(d) = {})
  /\ Mindful("leaves", ~Running(d) /\ ~StopsRunning(d))
  /\ CleanUpDb(d, "live")
  /\ UNCHANGED <<bu, held, call, exiting>>

\* db:close_vm(temponly): statements are finalized, and stay in the registry.
CloseVm(d, temponly) ==
  /\ d \in held /\ db[d].open
  /\ LET vs == {v \in tracked[d] : vm[v].open /\ (temponly => vm[v].temp)}
     IN /\ Mindful("leaves", \A v \in vs : ~Running(v))
        /\ Mindful("keeps", vs \subseteq held)
        /\ vm' = [v \in Vm |-> IF v \in vs THEN [vm[v] EXCEPT !.open = FALSE, !.stmt = "finalized"]
                               ELSE vm[v]]
        /\ Undefined(\/ \E v \in tracked[d] : vm[v].obj = "freed"
                     \/ \E v \in vs : Running(v), "close_vm")
  /\ UNCHANGED <<db, bu, tracked, held, call, exiting>>

\* db:exec() with a callback: the statement is SQLite's own.
Exec(d) ==
  /\ d \in held /\ db[d].open
  /\ call = Idle
  /\ call' = [kind |-> "exec", on |-> d]
  /\ UNCHANGED <<db, vm, bu, tracked, held, exiting, misuse>>

ExecReturns ==
  /\ call.kind = "exec"
  /\ call' = Idle
  /\ UNCHANGED <<db, vm, bu, tracked, held, exiting, misuse>>

-----------------------------------------------------------------------------
(* Statements.                                                             *)

\* newvm.
NewVmNoDb(d, temp) == [NoVm EXCEPT !.obj = "live", !.temp = temp]  \* seeded fault
NewVm(d, temp) == [NoVm EXCEPT !.obj = "live", !.db = d, !.temp = temp]

\* db:prepare(), and db:rows() and its kin, whose statement is temporary: newvm,
\* then sqlite3_prepare_v2.  No SQL gives no statement and no error; an error
\* cleans up and leaves the userdata to the collector.
Prepare(d, v, temp) ==
  /\ d \in held /\ db[d].open
  /\ CanMake /\ vm[v].obj = "none" /\ \A w \in Vm : w < v => vm[w].obj # "none"
  /\ LET new == NewVm(d, temp)
     IN \/ /\ vm' = [vm EXCEPT ![v] = [new EXCEPT !.open = TRUE, !.stmt = "ready"]]
           /\ tracked' = [tracked EXCEPT ![d] = @ \cup {v}]
           /\ held' = held \cup {v}
        \/ /\ vm' = [vm EXCEPT ![v] = new]
           /\ tracked' = [tracked EXCEPT ![d] = @ \cup {v}]
           /\ held' = held \cup {v}
        \/ /\ vm' = [vm EXCEPT ![v] = Cleaned(new)]
           /\ UNCHANGED <<tracked, held>>
  /\ UNCHANGED <<db, bu, call, exiting, misuse>>

Usable(v) == v \in held /\ vm[v].open   \* lsqlite_checkvm

\* stmt:step() has answered.
Stepped(v, res) ==
  /\ vm' = [vm EXCEPT ![v].has_values = (res = "row"),
                      ![v].stmt = IF res = "row" THEN "row" ELSE "halted"]
  /\ UNCHANGED tracked

\* The iterators: db_do_next_row.  At the end a temporary statement is
\* finalized and another is reset; after an error the other stays as it is.
HasValuesKept(v, res) == res = "row" \/ vm[v].has_values  \* seeded fault
HasValues(v, res) == res = "row"
NextRow(v, res) ==
  IF res = "row" \/ ~vm[v].temp
  THEN /\ vm' = [vm EXCEPT ![v].has_values = HasValues(v, res),
                           ![v].stmt = CASE res = "row" -> "row"
                                         [] res = "done" -> "ready"
                                         [] res = "error" -> "halted"]
       /\ UNCHANGED tracked
  ELSE CleanUpVm(v)

Answer(v, kind, res) == IF kind = "step" THEN Stepped(v, res) ELSE NextRow(v, res)

\* A step in the course of which SQLite does not call back.
Step(v, kind, res) ==
  /\ Usable(v)
  /\ Mindful("leaves", ~Running(v))
  /\ Answer(v, kind, res)
  /\ Undefined(Running(v), "running statement")
  /\ UNCHANGED <<db, bu, held, call, exiting>>

\* A step that calls a Lua function or hook, and its return.
StepCalls(v, kind) ==
  /\ Usable(v)
  /\ call = Idle
  /\ call' = [kind |-> kind, on |-> v]
  /\ UNCHANGED <<db, vm, bu, tracked, held, exiting, misuse>>

StepReturns(v, res) ==
  /\ Running(v)
  /\ Answer(v, call.kind, res)
  /\ call' = Idle
  /\ UNCHANGED <<db, bu, held, exiting, misuse>>

Reset(v) ==
  /\ Usable(v)
  /\ Mindful("leaves", ~Running(v))
  /\ vm' = [vm EXCEPT ![v].stmt = "ready"]
  /\ Undefined(Running(v), "running statement")
  /\ UNCHANGED <<db, bu, tracked, held, call, exiting>>

Finalize(v) ==
  /\ Usable(v)
  /\ Mindful("leaves", ~Running(v))
  /\ CleanUpVm(v)
  /\ Undefined(Running(v), "running statement")
  /\ UNCHANGED <<db, bu, held, call, exiting>>

-----------------------------------------------------------------------------
(* Backups.  The registry keeps both databases alive until it is finished. *)

BackupInit(b, target, source) ==
  /\ {target, source} \subseteq held /\ db[target].open /\ db[source].open
  /\ target # source
  /\ CanMake /\ bu[b].obj = "none"
  /\ bu' = [bu EXCEPT ![b] = [obj |-> "live", open |-> TRUE, target |-> target, source |-> source]]
  /\ held' = held \cup {b}
  /\ UNCHANGED <<db, vm, tracked, call, exiting, misuse>>

ClosedUnder(b) == \E d \in {bu[b].target, bu[b].source} : db[d].conn = "closed"

\* backup:step(), remaining() and pagecount().
BackupStep(b) ==
  /\ b \in held /\ Active(b)
  /\ Undefined(ClosedUnder(b), "closed connection")
  /\ UNCHANGED <<db, vm, bu, tracked, held, call, exiting>>

BackupFinish(b) ==
  /\ b \in held /\ Active(b)
  /\ bu' = [bu EXCEPT ![b].open = FALSE]
  /\ Undefined(ClosedUnder(b), "closed connection")
  /\ UNCHANGED <<db, vm, tracked, held, call, exiting>>

-----------------------------------------------------------------------------
(* The program lets go, the collector, and lua_close.                      *)

Tracking(v) == vm[v].db # None /\ v \in tracked[vm[v].db]

\* The program loses its last reference to x.
Drop(x) ==
  /\ x \in held
  /\ x \in Vm => Mindful("keeps", Tracking(x) => vm[x].open)
  /\ held' = held \ {x}
  /\ UNCHANGED <<db, vm, bu, tracked, call, exiting, misuse>>

\* A program ends: lua_close finalizes everything, latest first, and frees it.
Exit ==
  /\ ~exiting /\ call = Idle
  /\ exiting' = TRUE /\ held' = {}
  /\ UNCHANGED <<db, vm, bu, tracked, call, misuse>>

Gone == IF exiting THEN "done" ELSE "freed"

\* dbvm_gc ignores statements that are closed.
CollectVm(v) ==
  /\ vm[v].obj = "live" /\ v \notin held /\ ~Running(v)
  /\ vm' = [vm EXCEPT ![v] = [NoVm EXCEPT !.obj = Gone]]
  /\ tracked' = IF vm[v].open THEN Untracked(v) ELSE tracked
  /\ UNCHANGED <<db, bu, held, call, exiting, misuse>>

CollectBu(b) ==
  /\ bu[b].obj = "live" /\ b \notin held
  /\ bu' = [bu EXCEPT ![b] = [NoBu EXCEPT !.obj = Gone]]
  /\ Undefined(Active(b) /\ ClosedUnder(b), "closed connection")
  /\ UNCHANGED <<db, vm, tracked, held, call, exiting>>

\* A database is reachable through the tables of the registry.  In lua_close
\* its turn comes when what was made from it has had its own.
KeptByVms(d) == tracked[d] # {}  \* seeded fault
Kept(d) == tracked[d] # {} \/ UsedBy(d) # {}
MadeFrom(d) == {v \in Vm : vm[v].db = d /\ vm[v].obj = "live"}
               \cup {b \in Bu : bu[b].obj = "live" /\ d \in {bu[b].target, bu[b].source}}
CollectDb(d) ==
  /\ db[d].obj = "live" /\ d \notin held /\ ~Running(d)
  /\ IF exiting THEN MadeFrom(d) = {} ELSE ~Kept(d)
  /\ IF db[d].open THEN CleanUpDb(d, Gone)
     ELSE /\ db' = [db EXCEPT ![d].obj = Gone]
          /\ UNCHANGED <<vm, tracked, misuse>>
  /\ UNCHANGED <<bu, held, call, exiting>>

-----------------------------------------------------------------------------
Program ==
  \/ \E d \in Db : Open(d) \/ Close(d) \/ Exec(d) \/ \E t \in BOOLEAN : CloseVm(d, t)
  \/ \E d \in Db, v \in Vm, t \in BOOLEAN : Prepare(d, v, t)
  \/ \E v \in Vm : \/ Reset(v) \/ Finalize(v)
                   \/ \E k \in {"step", "next"} :
                        StepCalls(v, k) \/ \E r \in {"row", "done", "error"} : Step(v, k, r)
  \/ \E b \in Bu, t, s \in Db : BackupInit(b, t, s)
  \/ \E b \in Bu : BackupStep(b) \/ BackupFinish(b)
  \/ \E x \in Db \cup Vm \cup Bu : Drop(x)
  \/ Exit

Return == ExecReturns \/ \E v \in Vm, r \in {"row", "done", "error"} : StepReturns(v, r)

\* After undefined behaviour nothing more is said.
Next ==
  /\ misuse = None
  /\ \/ ~exiting /\ Program
     \/ Return
     \/ \E d \in Db : CollectDb(d)
     \/ \E v \in Vm : CollectVm(v)
     \/ \E b \in Bu : CollectBu(b)

\* Callbacks return, and the collector gets to everything it may collect.
Fairness ==
  /\ WF_vars(misuse = None /\ Return)
  /\ \A d \in Db : WF_vars(misuse = None /\ CollectDb(d))
  /\ \A v \in Vm : WF_vars(misuse = None /\ CollectVm(v))
  /\ \A b \in Bu : WF_vars(misuse = None /\ CollectBu(b))

Spec == Init /\ [][Next]_vars /\ Fairness

-----------------------------------------------------------------------------
(* Properties.                                                             *)

\* Every variable has its type, and a statement always has its database.
Obj == {"none", "live", "done", "freed"}
TypeOK ==
  /\ db \in [Db -> [obj : Obj, open : BOOLEAN, conn : {"none", "open", "closed"}]]
  /\ vm \in [Vm -> [obj : Obj, db : Db \cup {None}, open : BOOLEAN,
                    stmt : {"none", "ready", "row", "halted", "finalized"},
                    has_values : BOOLEAN, temp : BOOLEAN]]
  /\ \A v \in Vm : vm[v].obj = "live" => vm[v].db \in Db
  /\ bu \in [Bu -> [obj : Obj, open : BOOLEAN, target : Db \cup {None}, source : Db \cup {None}]]
  /\ tracked \in [Db -> SUBSET Vm]
  /\ held \subseteq Db \cup Vm \cup Bu
  /\ call \in [kind : {"none", "exec", "step", "next"}, on : Db \cup Vm \cup {None}]
  /\ exiting \in BOOLEAN
  /\ misuse \in {None, "freed userdata", "running statement", "close_vm", "closed connection"}

\* Whatever the program closes, finalizes and lets go of, and whenever the
\* collector comes, SQLite is never handed a connection or statement that is
\* gone, and no freed userdata is written to.
NoMisuse == misuse = None

\* The table "to keep track of 'open' virtual machines" (newdb) has every
\* statement that is open, so that db:close() finds it, and no userdata that
\* was freed.
TracksOpen ==
  /\ \A v \in Vm : vm[v].open => Tracking(v)
  /\ \A d \in Db : \A v \in tracked[d] : vm[v].obj # "freed"

\* No connection and no statement is left that nobody can close any more.
NothingLost ==
  /\ \A d \in Db : db[d].conn = "open" => db[d].obj = "live" /\ db[d].open
  /\ \A v \in Vm : vm[v].stmt \in {"ready", "row", "halted"} =>
                     vm[v].obj = "live" /\ vm[v].open

\* Column values are never read from a statement that has ended.
ValuesOfRow == \A v \in Vm : vm[v].open /\ vm[v].has_values => vm[v].stmt \in {"row", "ready"}

\* ... nor from one that was reset: more than the code keeps (README, known
\* departures).
ValuesOfCurrentRow == \A v \in Vm : vm[v].open /\ vm[v].has_values => vm[v].stmt = "row"

\* What the program cannot reach any more, nor anything made from it, is closed
\* in the end.
Abandoned(d) ==
  /\ d \notin held
  /\ \A v \in Vm : vm[v].db = d => v \notin held
  /\ \A b \in Bu : d \in {bu[b].target, bu[b].source} => b \notin held
Collected == \A d \in Db : (db[d].conn = "open" /\ Abandoned(d)) ~> db[d].conn = "closed"
=============================================================================
