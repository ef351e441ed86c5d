------------------------------ MODULE Sequence ------------------------------
(***************************************************************************)
(* nextval and curval (src/ext/sequence/sequence.c): numbers drawn from a  *)
(* row of sqlite_sequence by several connections.                          *)
(*                                                                         *)
(* nextval runs two statements: a SELECT of seq + 1, then an UPDATE that   *)
(* adds one.  What holds them together is what surrounds the call: nothing *)
(* for a bare SELECT nextval('s'), the SHARED lock of a statement that     *)
(* also reads a table, or an explicit transaction.  The locks are those of *)
(* a rollback journal: a commit needs that no other connection is SHARED.  *)
(* The row is also counted up by INSERTs into the AUTOINCREMENT table it   *)
(* belongs to.                                                             *)
(***************************************************************************)
EXTENDS Integers, FiniteSets

CONSTANTS
  Conn,       \* connections
  Contexts,   \* what may surround a call: subset of "bare", "reader", "txn"
  RowExists,  \* whether the row is there at first
  MaxRetry,   \* times a BUSY UPDATE is tried again, 10
  MaxSeq,     \* bound: numbers
  None

ASSUME ConstantsAssumption ==
  /\ Contexts \subseteq {"bare", "reader", "txn"}
  /\ RowExists \in BOOLEAN /\ MaxRetry \in Nat /\ MaxSeq \in Nat
  /\ None \notin Conn

Missing  == -1      \* no row in sqlite_sequence
NotFound == -101    \* SQLITE_DONE, returned as an error code
Busy     == -5      \* SQLITE_BUSY
NoAnswer == -2

VARIABLES
  seq,       \* the row, as committed
  work,      \* the row as the writer has it
  shared,    \* connections that hold SHARED between statements
  reserved,  \* the connection that has written and not committed
  pc,        \* "idle", or "selected" between the two statements
  ctx,       \* what surrounds a connection's statements
  result,    \* the number the SELECT found
  busy,      \* how often the UPDATE was BUSY
  given,     \* numbers handed out in the open transaction
  answer,    \* what the last call returned
  issued     \* history: how often each number was handed out for good

vars == <<seq, work, shared, reserved, pc, ctx, result, busy, given, answer, issued>>

Number == 1 .. MaxSeq

Init ==
  /\ seq = IF RowExists THEN 0 ELSE Missing
  /\ work = seq
  /\ shared = {} /\ reserved = None
  /\ pc = [c \in Conn |-> "idle"] /\ ctx = [c \in Conn |-> "bare"]
  /\ result = [c \in Conn |-> 0] /\ busy = [c \in Conn |-> 0]
  /\ given = [c \in Conn |-> {}]
  /\ answer = [c \in Conn |-> NoAnswer]
  /\ issued = [n \in Number |-> 0]

Row(c) == IF reserved = c THEN work ELSE seq

CanWrite(c) == reserved \in {None, c}

\* A commit needs that nobody else is SHARED.
CanCommit(c) == CanWrite(c) /\ shared \subseteq {c}

\* Once more for every number of ns.
Issue(ns) == issued' = [n \in Number |-> IF n \in ns THEN issued[n] + 1 ELSE issued[n]]

\* BEGIN: no lock is taken yet.
Begin(c) ==
  /\ "txn" \in Contexts /\ pc[c] = "idle" /\ ctx[c] = "bare"
  /\ ctx' = [ctx EXCEPT ![c] = "txn"]
  /\ UNCHANGED <<seq, work, shared, reserved, pc, result, busy, given, answer, issued>>

FoundCurrent(c) == Row(c)  \* seeded fault
Found(c)        == Row(c) + 1

\* SELECT seq + 1.
Select(c, x) ==
  /\ pc[c] = "idle"
  /\ x \in Contexts
  /\ (x = "txn") <=> (ctx[c] = "txn")
  /\ Row(c) \in 0 .. MaxSeq - 1
  /\ pc' = [pc EXCEPT ![c] = "selected"]
  /\ ctx' = [ctx EXCEPT ![c] = x]
  /\ result' = [result EXCEPT ![c] = Found(c)]
  /\ busy' = [busy EXCEPT ![c] = 0]
  /\ shared' = IF x = "bare" THEN shared ELSE shared \cup {c}
  /\ UNCHANGED <<seq, work, reserved, given, answer, issued>>

\* The SELECT finds no row: SQLITE_DONE stays in rc, and nothing is updated.
SelectNothing(c) ==
  /\ pc[c] = "idle"
  /\ Row(c) = Missing
  /\ answer' = [answer EXCEPT ![c] = NotFound]
  /\ shared' = IF ctx[c] = "txn" THEN shared \cup {c} ELSE shared
  /\ UNCHANGED <<seq, work, reserved, pc, ctx, result, busy, given, issued>>

\* UPDATE ... SET seq = seq + 1, committed with its statement.
UpdateCommits(c) ==
  /\ pc[c] = "selected" /\ ctx[c] # "txn"
  /\ CanCommit(c)
  /\ seq' = seq + 1
  /\ Issue({result[c]})
  /\ answer' = [answer EXCEPT ![c] = result[c]]
  /\ pc' = [pc EXCEPT ![c] = "idle"]
  /\ ctx' = [ctx EXCEPT ![c] = "bare"]
  /\ shared' = shared \ {c}
  /\ UNCHANGED <<work, reserved, result, busy, given>>

\* The same in an open transaction.
UpdateInTxn(c) ==
  /\ pc[c] = "selected" /\ ctx[c] = "txn"
  /\ CanWrite(c)
  /\ work' = Row(c) + 1
  /\ reserved' = c
  /\ given' = [given EXCEPT ![c] = @ \cup {result[c]}]
  /\ answer' = [answer EXCEPT ![c] = result[c]]
  /\ pc' = [pc EXCEPT ![c] = "idle"]
  /\ UNCHANGED <<seq, shared, ctx, result, busy, issued>>

\* One retry more (i++).
CountNothing(c) == UNCHANGED busy  \* seeded fault
CountTwo(c)     == busy' = [busy EXCEPT ![c] = @ + 2]  \* seeded fault
CountRetry(c)   == busy' = [busy EXCEPT ![c] = @ + 1]

\* The UPDATE is BUSY: sleep and try again, MaxRetry times, then fail.
UpdateBusy(c) ==
  /\ pc[c] = "selected"
  /\ IF ctx[c] = "txn" THEN ~CanWrite(c) ELSE ~CanCommit(c)
  /\ IF busy[c] < MaxRetry
     THEN /\ CountRetry(c)
          /\ UNCHANGED <<pc, ctx, shared, answer>>
     ELSE /\ pc' = [pc EXCEPT ![c] = "idle"]
          /\ ctx' = [ctx EXCEPT ![c] = IF @ = "txn" THEN @ ELSE "bare"]
          /\ shared' = IF ctx[c] = "txn" THEN shared ELSE shared \ {c}
          /\ answer' = [answer EXCEPT ![c] = Busy]
          /\ UNCHANGED busy
  /\ UNCHANGED <<seq, work, reserved, result, given, issued>>

EndTxn(c) ==
  /\ ctx' = [ctx EXCEPT ![c] = "bare"]
  /\ shared' = shared \ {c}
  /\ reserved' = IF reserved = c THEN None ELSE reserved
  /\ given' = [given EXCEPT ![c] = {}]
  /\ UNCHANGED <<work, pc, result, busy, answer>>

Commit(c) ==
  /\ ctx[c] = "txn" /\ pc[c] = "idle"
  /\ reserved = c => CanCommit(c)
  /\ seq' = Row(c)
  /\ Issue(given[c])
  /\ EndTxn(c)

Rollback(c) ==
  /\ ctx[c] = "txn" /\ pc[c] = "idle"
  /\ EndTxn(c)
  /\ UNCHANGED <<seq, issued>>

\* INSERT into the AUTOINCREMENT table draws its rowid from the same row.
Insert(c) ==
  /\ pc[c] = "idle" /\ ctx[c] = "bare"
  /\ CanCommit(c) /\ seq < MaxSeq
  /\ seq' = IF seq = Missing THEN 1 ELSE seq + 1
  /\ Issue({seq'})
  /\ UNCHANGED <<work, shared, reserved, pc, ctx, result, busy, given, answer>>

\* The process of c dies.
Crash(c) ==
  /\ c \in shared \/ reserved = c \/ pc[c] # "idle"
  /\ pc' = [pc EXCEPT ![c] = "idle"]
  /\ ctx' = [ctx EXCEPT ![c] = "bare"]
  /\ shared' = shared \ {c}
  /\ reserved' = IF reserved = c THEN None ELSE reserved
  /\ given' = [given EXCEPT ![c] = {}]
  /\ UNCHANGED <<seq, work, result, busy, answer, issued>>

Update(c) == UpdateCommits(c) \/ UpdateInTxn(c) \/ UpdateBusy(c)

Next ==
  \E c \in Conn :
    \/ Begin(c) \/ SelectNothing(c) \/ Update(c) \/ Commit(c) \/ Rollback(c)
    \/ Insert(c) \/ Crash(c)
    \/ \E x \in Contexts : Select(c, x)

Spec == Init /\ [][Next]_vars

\* nextval runs to its end, and an application that has begun a transaction
\* goes on trying to commit it.
FairSpec == Spec /\ \A c \in Conn : WF_vars(Update(c)) /\ SF_vars(Commit(c))

-----------------------------------------------------------------------------
(* Properties.                                                             *)

\* Every variable has its type.
TypeOK ==
  /\ seq \in Nat \cup {Missing} /\ work \in Nat \cup {Missing}
  /\ shared \subseteq Conn /\ reserved \in Conn \cup {None}
  /\ pc \in [Conn -> {"idle", "selected"}]
  /\ ctx \in [Conn -> {"bare", "reader", "txn"}]
  /\ result \in [Conn -> 0 .. MaxSeq] /\ busy \in [Conn -> 0 .. MaxRetry]
  /\ given \in [Conn -> SUBSET Number]
  /\ answer \in [Conn -> {NoAnswer, NotFound, Busy} \cup Number]
  /\ issued \in [Number -> Nat]

\* A number is handed out once ("a unique number from a sequence"), over
\* connections, committed transactions and rows of the table.
Unique == \A n \in Number : issued[n] <= 1

\* Every number up to the row was handed out once: a call that failed, was
\* rolled back or died took none ("the update of the sequence and the read
\* should happen at the same time").
NoneSkipped == \A n \in Number : n <= seq <=> issued[n] = 1

\* A call returns, though the caller it waits for may be waiting for it: the
\* retries of the UPDATE are bounded.
Returns == \A c \in Conn : pc[c] = "selected" ~> pc[c] = "idle"

\* A transaction that keeps trying commits or ends: readers in its way let go.
TxnEnds == \A c \in Conn : ctx[c] = "txn" ~> ctx[c] = "bare"

\* A claim the code does not keep (README, known departures):
\* "the first call to nextval() for a given sequence will always return 1."
FirstIsOne == \A c \in Conn : answer[c] # NotFound
=============================================================================
