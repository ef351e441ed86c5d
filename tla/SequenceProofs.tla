--------------------------- MODULE SequenceProofs ---------------------------
(***************************************************************************)
(* Proofs about Sequence, for every set of connections and every bound.    *)
(***************************************************************************)
EXTENDS Sequence, TLAPS

\* Between its two statements a call holds a number.
HoldsNumber == \A c \in Conn : pc[c] = "selected" => result[c] \in Number

TypeInv == TypeOK /\ HoldsNumber

\* No call is under way at first.
LEMMA TypeInit == Init => TypeInv
BY ConstantsAssumption DEF Init, TypeInv, TypeOK, HoldsNumber, Missing, NoAnswer, Number

\* Every step keeps the types, and a call between its statements its number.
LEMMA TypeStep == TypeInv /\ [Next]_vars => TypeInv'
<1> SUFFICES ASSUME TypeInv, [Next]_vars PROVE TypeInv'
  OBVIOUS
<1> USE ConstantsAssumption
    DEF TypeInv, TypeOK, HoldsNumber, Missing, NotFound, Busy, NoAnswer, Number
<1>1. ASSUME NEW c \in Conn, Begin(c) PROVE TypeInv'
  BY <1>1 DEF Begin
<1>2. ASSUME NEW c \in Conn, NEW x \in Contexts, Select(c, x) PROVE TypeInv'
  BY <1>2, SMTT(30) DEF Select, Found, Row
<1>3. ASSUME NEW c \in Conn, SelectNothing(c) PROVE TypeInv'
  BY <1>3 DEF SelectNothing
<1>4. ASSUME NEW c \in Conn, UpdateCommits(c) PROVE TypeInv'
  BY <1>4 DEF UpdateCommits, Issue
<1>5. ASSUME NEW c \in Conn, UpdateInTxn(c) PROVE TypeInv'
  BY <1>5 DEF UpdateInTxn, Row
<1>6. ASSUME NEW c \in Conn, UpdateBusy(c) PROVE TypeInv'
  <2>1. CASE busy[c] < MaxRetry
    BY <1>6, <2>1 DEF UpdateBusy, CountRetry
  <2>2. CASE ~(busy[c] < MaxRetry)
    BY <1>6, <2>2, ZenonT(60) DEF UpdateBusy, CountRetry
  <2> QED
    BY <2>1, <2>2
<1>7. ASSUME NEW c \in Conn, Commit(c) PROVE TypeInv'
  BY <1>7 DEF Commit, EndTxn, Issue, Row
<1>8. ASSUME NEW c \in Conn, Rollback(c) PROVE TypeInv'
  BY <1>8 DEF Rollback, EndTxn
<1>9. ASSUME NEW c \in Conn, Insert(c) PROVE TypeInv'
  BY <1>9 DEF Insert, Issue
<1>10. ASSUME NEW c \in Conn, Crash(c) PROVE TypeInv'
  BY <1>10 DEF Crash
<1>11. CASE UNCHANGED vars
  BY <1>11 DEF vars
<1> QED
  BY <1>1, <1>2, <1>3, <1>4, <1>5, <1>6, <1>7, <1>8, <1>9, <1>10, <1>11 DEF Next, Update

\* TypeOK: the variables of Sequence keep their types.
THEOREM TypeCorrect == Spec => []TypeOK
<1>1. TypeInv => TypeOK
  BY DEF TypeInv
<1> QED
  BY <1>1, TypeInit, TypeStep, PTL DEF Spec

-----------------------------------------------------------------------------
(* No call is bare: the row stays as the SELECT found it.                  *)

\* A call that has selected holds SHARED, and its number is the next one.
NextIsHeld == \A c \in Conn :
  pc[c] = "selected" => c \in shared /\ ctx[c] # "bare" /\ result[c] = Row(c) + 1

\* The numbers an open transaction gave out are those between the committed
\* row and its own.
GivenIsWork == \A c \in Conn :
  /\ reserved = c => /\ ctx[c] = "txn" /\ c \in shared
                     /\ seq \in Nat /\ work \in Nat /\ seq <= work
                     /\ given[c] = seq + 1 .. work
  /\ reserved # c => given[c] = {}

\* What was handed out for good are the numbers up to the committed row.
IssuedUpTo == \A n \in Number : issued[n] = IF n <= seq THEN 1 ELSE 0

RowInv == NextIsHeld /\ GivenIsWork /\ IssuedUpTo

\* The row is missing and nothing was handed out at first.
LEMMA RowInit == Init => RowInv
BY ConstantsAssumption
   DEF Init, RowInv, NextIsHeld, GivenIsWork, IssuedUpTo, Missing, Number

\* Every step keeps row, numbers handed out and transactions in line.
LEMMA RowStep ==
  ASSUME "bare" \notin Contexts
  PROVE  TypeInv /\ RowInv /\ [Next]_vars => RowInv'
<1> SUFFICES ASSUME TypeInv, RowInv, [Next]_vars PROVE RowInv'
  OBVIOUS
<1> USE ConstantsAssumption
    DEF TypeInv, TypeOK, RowInv, NextIsHeld, GivenIsWork, IssuedUpTo, Missing, Number, Row
<1>1. ASSUME NEW c \in Conn, Begin(c) PROVE RowInv'
  BY <1>1 DEF Begin
<1>2. ASSUME NEW c \in Conn, NEW x \in Contexts, Select(c, x) PROVE RowInv'
  BY <1>2 DEF Select, Found
<1>3. ASSUME NEW c \in Conn, SelectNothing(c) PROVE RowInv'
  BY <1>3 DEF SelectNothing
<1>4. ASSUME NEW c \in Conn, UpdateCommits(c) PROVE RowInv'
  <2>1. reserved = None /\ result[c] = seq + 1 /\ \A d \in Conn : pc[d] = "selected" => d = c
    BY <1>4 DEF UpdateCommits, CanCommit, CanWrite
  <2>2. IssuedUpTo'
    BY <1>4, <2>1 DEF UpdateCommits, Issue, HoldsNumber
  <2> QED
    BY <1>4, <2>1, <2>2 DEF UpdateCommits
<1>5. ASSUME NEW c \in Conn, UpdateInTxn(c) PROVE RowInv'
  <2>1. result[c] = Row(c) + 1 /\ result[c] \in Number /\ c \in shared
    BY <1>5 DEF UpdateInTxn, HoldsNumber
  <2>2. CASE reserved = c
    <3>1. given'[c] = seq + 1 .. work + 1 /\ work' = work + 1
      BY <1>5, <2>1, <2>2 DEF UpdateInTxn
    <3>2. reserved' = c /\ ctx'[c] = "txn" /\ c \in shared' /\ seq' = seq /\ seq <= work
      BY <1>5, <2>1, <2>2 DEF UpdateInTxn
    <3>3. seq \in Nat /\ seq' <= work' /\ work' \in Nat /\ given'[c] = seq' + 1 .. work'
      BY <2>2, <3>1, <3>2
    <3>4. \A d \in Conn : d # c => given'[d] = {}
      BY <1>5, <2>2 DEF UpdateInTxn
    <3>5. GivenIsWork'
      BY <3>2, <3>3, <3>4
    <3>6. NextIsHeld' /\ IssuedUpTo'
      BY <1>5, <2>2 DEF UpdateInTxn
    <3> QED
      BY <3>5, <3>6
  <2>3. CASE reserved # c
    <3>1. reserved = None /\ given[c] = {} /\ seq \in Nat /\ work' = seq + 1
      BY <1>5, <2>1, <2>3 DEF UpdateInTxn, CanWrite
    <3>2. given'[c] = seq + 1 .. seq + 1
      BY <1>5, <2>1, <2>3, <3>1 DEF UpdateInTxn
    <3> QED
      BY <1>5, <2>3, <3>1, <3>2 DEF UpdateInTxn
  <2> QED
    BY <2>2, <2>3
<1>6. ASSUME NEW c \in Conn, UpdateBusy(c) PROVE RowInv'
  BY <1>6 DEF UpdateBusy, CountRetry
<1>7. ASSUME NEW c \in Conn, Commit(c) PROVE RowInv'
  <2>1. CASE reserved = c
    BY <1>7, <2>1 DEF Commit, EndTxn, Issue, CanCommit, CanWrite
  <2>2. CASE reserved # c
    BY <1>7, <2>2 DEF Commit, EndTxn, Issue
  <2> QED
    BY <2>1, <2>2
<1>8. ASSUME NEW c \in Conn, Rollback(c) PROVE RowInv'
  BY <1>8 DEF Rollback, EndTxn
<1>9. ASSUME NEW c \in Conn, Insert(c) PROVE RowInv'
  <2>1. reserved = None /\ \A d \in Conn : pc[d] # "selected"
    BY <1>9 DEF Insert, CanCommit, CanWrite
  <2> QED
    BY <1>9, <2>1 DEF Insert, Issue
<1>10. ASSUME NEW c \in Conn, Crash(c) PROVE RowInv'
  BY <1>10 DEF Crash
<1>11. CASE UNCHANGED vars
  BY <1>11 DEF vars
<1> QED
  BY <1>1, <1>2, <1>3, <1>4, <1>5, <1>6, <1>7, <1>8, <1>9, <1>10, <1>11 DEF Next, Update

\* NoneSkipped: if every call is made in a transaction or by a statement that
\* reads a table, no number is handed out twice and none is skipped.
THEOREM NoneSkippedHolds == ASSUME "bare" \notin Contexts PROVE Spec => []NoneSkipped
<1>1. RowInv => NoneSkipped
  BY DEF RowInv, IssuedUpTo, NoneSkipped
<1>2. TypeInv /\ RowInv /\ [Next]_vars => RowInv'
  BY RowStep
<1> QED
  BY <1>1, <1>2, TypeInit, TypeStep, RowInit, PTL DEF Spec
=============================================================================
