---------------------------- MODULE Database_proofs ----------------------------
(***************************************************************************)
(* What holds of Database for every set of threads, every number of         *)
(* operations and every number of rows they write.                          *)
(***************************************************************************)
EXTENDS Database, FiniteSetTheorems, TLAPS

-----------------------------------------------------------------------------
(* The inductive invariant                                                   *)

Idle    == {"idle", "lockDrop", "drop", "dropped"}      \* not inside an operation
Naming  == {"storeId", "lockTable", "table", "tableCommit"}
Reading == {t \in Threads : pc[t] = "nextId"}

\* Each operation belongs to at most one thread, which has not ended it yet; one
\* that has not started has left no trace.
OperationsOwned ==
  /\ \A t \in Threads : pc[t] \in Idle <=> op[t] = 0
  /\ \A t \in Threads : op[t] <= started /\ (op[t] # 0 => outcome[op[t]] = "none")
  /\ \A t, u \in Threads : op[t] = op[u] /\ op[t] # 0 => t = u
  /\ \A n \in Operations : n > started => outcome[n] = "none" /\ wrote[n] = {}
  /\ \A n \in Operations : wrote[n] \subseteq {n} \X (1 .. RowsPerOperation)

\* Although threads may read the counter of temporary tables between another's
\* read and write, it stays behind the number of operations: each thread that is
\* about to read it has an operation that has not been counted yet.
IdsBounded ==
  /\ IsFiniteSet(Reading)
  /\ id + Cardinality(Reading) <= started
  /\ \A t \in Threads : pc[t] = "storeId" => name[t] + Cardinality(Reading) <= started
  /\ \A t \in Threads : pc[t] \in Naming => name[t] # 0

TypeInv == TypeOK /\ OperationsOwned /\ IdsBounded

-----------------------------------------------------------------------------
\* Where the threads wait, by name.
LEMMA WaitsValues ==
  /\ Waits.query = "lockQuery" /\ Waits.transaction = "lockTransaction"
  /\ Waits.table = "lockTable" /\ Waits.drop = "lockDrop"
  /\ Waits["query"] = "lockQuery" /\ Waits["transaction"] = "lockTransaction"
  /\ Waits["table"] = "lockTable" /\ Waits["drop"] = "lockDrop"
  /\ DOMAIN Waits = {"query", "transaction", "table", "drop"}
BY DEF Waits

\* A step is one of a thread, or changes nothing: the case split of the proofs.
LEMMA Cases ==
  ASSUME [Next]_vars
  PROVE  \/ \E t \in Threads :
              \/ \E what \in {"transaction", "query", "table", "drop"} : Call(t, what)
              \/ Execute(t) \/ ExecuteFails(t)
              \/ CreateQuery(t) \/ CreateTransaction(t) \/ BeginThrows(t)
              \/ Commit(t) \/ Rollback(t) \/ DestroyQuery(t)
              \/ ReadId(t) \/ StoreId(t) \/ CreateTable(t) \/ CommitTable(t)
              \/ DropTable(t) \/ ForgetTable(t)
         \/ UNCHANGED vars
BY DEF Next, Step, Terminated

\* Starting an operation keeps the types.
LEMMA CallTyped ==
  ASSUME TypeInv, NEW t \in Threads, NEW what \in {"transaction", "query", "table", "drop"},
         Call(t, what)
  PROVE  TypeInv'
<1> USE NobodyAssumption, BoundsAssumption, WaitsValues
    DEF TypeInv, Operations, sqlite, table, history
<1>1. TypeOK'
  <2>1. CASE what = "drop"
    BY <2>1 DEF TypeOK, Call, Locked
  <2>2. CASE what # "drop"
    <3>1. started' \in 0 .. MaxOperations /\ op' = [op EXCEPT ![t] = started']
      BY <2>2 DEF TypeOK, Call
    <3>2. PICK where \in {"nextId", "lockQuery", "lockTransaction", "lockTable"} :
            pc' = [pc EXCEPT ![t] = where]
      BY <2>2 DEF TypeOK, Call
    <3>3. QED
      BY <2>2, <3>1, <3>2 DEF TypeOK, Call, Locked
  <2>3. QED
    BY <2>1, <2>2
<1>2. OperationsOwned'
  BY DEF TypeOK, OperationsOwned, Call, Idle
<1>3. IdsBounded'
  <2>1. CASE what = "table"
    <3>1. Reading' = Reading \cup {t} /\ t \notin Reading
      BY <2>1 DEF TypeOK, Call, Reading
    <3>2. IsFiniteSet(Reading') /\ Cardinality(Reading') = Cardinality(Reading) + 1
      BY <3>1, FS_AddElement DEF IdsBounded
    <3>3. QED
      BY <2>1, <3>2, FS_CardinalityType DEF TypeOK, IdsBounded, Call, Naming
  <2>2. CASE what # "table"
    <3>1. Reading' = Reading
      BY <2>2 DEF TypeOK, Call, Reading
    <3>2. QED
      BY <2>2, <3>1, FS_CardinalityType DEF TypeOK, IdsBounded, Call, Naming
  <2>3. QED
    BY <2>1, <2>2
<1>4. QED
  BY <1>1, <1>2, <1>3

\* Waiting for the mutex, getting it and failing to begin keep the types.
LEMMA LockTyped ==
  ASSUME TypeInv, NEW t \in Threads,
         CreateQuery(t) \/ CreateTransaction(t) \/ BeginThrows(t)
  PROVE  TypeInv'
<1> USE NobodyAssumption, BoundsAssumption, WaitsValues
    DEF TypeInv, Operations, sqlite, table, history
<1>1. Reading' = Reading
  BY DEF TypeOK, Reading, CreateQuery, CreateTransaction, BeginThrows, Waiting
<1>2. CASE CreateQuery(t)
  BY <1>1, <1>2 DEF TypeOK, OperationsOwned, IdsBounded, CreateQuery, Locked, Idle, Naming, LockFree
<1>3. CASE CreateTransaction(t)
  <2>1. PICK what \in {"transaction", "table", "drop"} :
          pc[t] = Waits[what] /\ pc' = [pc EXCEPT ![t] = what]
    BY <1>3 DEF CreateTransaction
  <2>2. TypeOK'
    BY <1>3, <2>1 DEF TypeOK, CreateTransaction, BeginSql, Locked, LockFree, CanBegin
  <2>3. OperationsOwned' /\ IdsBounded'
    BY <1>1, <1>3, <2>1 DEF TypeOK, OperationsOwned, IdsBounded, CreateTransaction, Idle, Naming
  <2>4. QED
    BY <2>2, <2>3
<1>4. CASE BeginThrows(t)
  <2>1. TypeOK'
    BY <1>4 DEF TypeOK, BeginThrows, Waiting, Locked
  <2>2. OperationsOwned'
    BY <1>4 DEF TypeOK, OperationsOwned, BeginThrows, Waiting, Idle
  <2>3. IdsBounded'
    BY <1>1, <1>4 DEF TypeOK, IdsBounded, BeginThrows, Waiting, Naming
  <2>4. QED
    BY <2>1, <2>2, <2>3
<1>5. QED
  BY <1>2, <1>3, <1>4

\* A statement keeps the types.
LEMMA StatementTyped ==
  ASSUME TypeInv, NEW t \in Threads, Execute(t) \/ ExecuteFails(t)
  PROVE  TypeInv'
<1> USE NobodyAssumption, BoundsAssumption DEF TypeInv, sqlite, table, history
<1>0. op[t] \in Operations
  <2>1. pc[t] \in {"transaction", "query", "tableCommit"}
    BY DEF Execute, ExecuteFails
  <2>2. op[t] # 0 /\ op[t] \in 0 .. MaxOperations
    BY <2>1 DEF TypeOK, OperationsOwned, Idle
  <2>3. QED
    BY <2>2 DEF Operations
<1>1. Reading' = Reading
  BY DEF Reading, Execute, ExecuteFails
<1>2. CASE Execute(t)
  <2> DEFINE row == NextRow(op[t])
  <2>1. row \in Rows /\ row \in Items /\ row \in {op[t]} \X (1 .. RowsPerOperation)
    BY <1>0, <1>2 DEF Execute, NextRow, Rows, Items
  <2>2. wrote' = [wrote EXCEPT ![op[t]] = wrote[op[t]] \cup {row}]
    BY <1>2 DEF Execute
  <2> HIDE DEF row
  <2>3. TypeOK'
    BY <1>0, <1>2, <2>1, <2>2 DEF TypeOK, Execute, ChangeSql, row
  <2>4. OperationsOwned'
    BY <1>0, <1>2, <2>1, <2>2 DEF TypeOK, OperationsOwned, Execute, Operations
  <2>5. IdsBounded'
    BY <1>1, <1>2 DEF TypeOK, IdsBounded, Execute
  <2>6. QED
    BY <2>3, <2>4, <2>5
<1>3. CASE ExecuteFails(t)
  <2>1. erred' \subseteq Operations /\ pc' = pc /\ guard' = guard
    BY <1>0, <1>3 DEF TypeOK, ExecuteFails
  <2>3. open' \in BOOLEAN /\ committed' \subseteq Items /\ seen' \subseteq Items
        /\ (~open' => seen' = committed')
    <3>1. CASE open /\ RollbackSql
      BY <3>1 DEF TypeOK, RollbackSql
    <3>2. CASE UNCHANGED sqlite
      BY <3>2 DEF TypeOK
    <3>3. QED
      BY <1>3, <3>1, <3>2 DEF ExecuteFails
  <2>4. TypeOK'
    BY <1>3, <2>1, <2>3 DEF TypeOK, ExecuteFails
  <2>2. OperationsOwned' /\ IdsBounded'
    BY <1>1, <1>3 DEF TypeOK, OperationsOwned, IdsBounded, ExecuteFails
  <2>5. QED
    BY <2>2, <2>4
<1>4. QED
  BY <1>2, <1>3

\* What every statement of SQLite keeps.
SqlTyped ==
  open \in BOOLEAN /\ committed \subseteq Items /\ seen \subseteq Items /\ (~open => seen = committed)

\* The ends of a transaction keep it, and so does a change to a set of items.
LEMMA SqlKept ==
  ASSUME SqlTyped
  PROVE  /\ BeginSql \/ RollbackSql \/ CommitSql \/ Undo \/ UNCHANGED sqlite => SqlTyped'
         /\ \A items \in SUBSET Items : ChangeSql(items) => SqlTyped'
<1>1. ASSUME BeginSql \/ RollbackSql \/ CommitSql \/ UNCHANGED sqlite PROVE SqlTyped'
  BY <1>1 DEF SqlTyped, BeginSql, RollbackSql, CommitSql, sqlite
<1>2. Undo => SqlTyped'
  BY <1>1 DEF Undo
<1>3. ASSUME NEW items \in SUBSET Items, ChangeSql(items) PROVE SqlTyped'
  BY <1>3 DEF SqlTyped, ChangeSql
<1>4. QED
  BY <1>1, <1>2, <1>3

\* Ending an operation, in whatever way, keeps the types.
LEMMA EndTyped ==
  ASSUME TypeInv, NEW t \in Threads, Commit(t) \/ Rollback(t) \/ DestroyQuery(t) \/ CommitTable(t)
  PROVE  TypeInv'
<1> USE NobodyAssumption, BoundsAssumption DEF TypeInv, table, history
<1>1. pc[t] \in {"transaction", "query", "tableCommit"} /\ guard = t /\ op[t] \in Operations
  <2>1. pc[t] \in {"transaction", "query", "tableCommit"}
    BY DEF Commit, Rollback, DestroyQuery, CommitTable
  <2>2. op[t] # 0 /\ op[t] \in 0 .. MaxOperations /\ guard = t
    BY <2>1 DEF TypeOK, OperationsOwned, Idle, Locked
  <2>3. QED
    BY <2>1, <2>2 DEF Operations
<1>2. PICK how \in {"committed", "failed", "rolledBack", "read"} : End(t, how)
  BY DEF Commit, Rollback, DestroyQuery, CommitTable
<1>3. SqlTyped'
  BY SqlKept DEF TypeOK, SqlTyped, Commit, Rollback, DestroyQuery, CommitTable
<1>4. owned' \in [Threads -> SUBSET Operations]
  <2>1. CASE CommitTable(t)
    <3>1. name[t] \in Operations
      BY <2>1 DEF TypeOK, IdsBounded, CommitTable, Naming, Operations
    <3>2. QED
      BY <2>1, <3>1 DEF TypeOK, CommitTable
  <2>2. CASE ~CommitTable(t)
    BY <2>2 DEF TypeOK, Commit, Rollback, DestroyQuery
  <2>3. QED
    BY <2>1, <2>2
<1>5. UNCHANGED <<id, name, started, wrote, erred, clash, crashed>>
  BY DEF Commit, Rollback, DestroyQuery, CommitTable
<1>6. TypeOK'
  <2>1. guard' = Nobody /\ pc' = [pc EXCEPT ![t] = "idle"] /\ op' = [op EXCEPT ![t] = 0]
        /\ outcome' = [outcome EXCEPT ![op[t]] = how]
    BY <1>2 DEF End, Unlock
  <2>2. \A u \in Threads : pc'[u] \in Locked <=> guard' = u
    BY <1>1, <2>1 DEF TypeOK, Locked
  <2>3. QED
    BY <1>1, <1>3, <1>4, <1>5, <2>1, <2>2 DEF TypeOK, SqlTyped
<1>7. OperationsOwned'
  BY <1>1, <1>2, <1>5 DEF TypeOK, OperationsOwned, End, Idle, Operations
<1>8. IdsBounded'
  <2>1. Reading' = Reading
    BY <1>1, <1>2 DEF TypeOK, Reading, End
  <2>2. QED
    BY <1>1, <1>2, <1>5, <2>1 DEF TypeOK, IdsBounded, End, Naming
<1>9. QED
  BY <1>6, <1>7, <1>8

\* The steps of a temporary table keep the types.
LEMMA TableTyped ==
  ASSUME TypeInv, NEW t \in Threads,
         ReadId(t) \/ StoreId(t) \/ CreateTable(t) \/ DropTable(t) \/ ForgetTable(t)
  PROVE  TypeInv'
<1> USE NobodyAssumption, BoundsAssumption, WaitsValues DEF TypeInv, history
<1>1. CASE ReadId(t)
  <2>1. Reading' = Reading \ {t} /\ t \in Reading
    BY <1>1 DEF TypeOK, Reading, ReadId
  <2>2. IsFiniteSet(Reading') /\ Cardinality(Reading') = Cardinality(Reading) - 1
        /\ Cardinality(Reading) \in Nat /\ Cardinality(Reading') \in Nat
    BY <2>1, FS_RemoveElement, FS_CardinalityType DEF IdsBounded
  <2>3. name' = [name EXCEPT ![t] = id + 1] /\ id + 1 \in 0 .. MaxOperations /\ id + 1 # 0
    BY <1>1, <2>2 DEF TypeOK, IdsBounded, ReadId
  <2>4. TypeOK' /\ OperationsOwned'
    BY <1>1, <2>3 DEF TypeOK, OperationsOwned, ReadId, Locked, Idle, sqlite
  <2>5. IdsBounded'
    BY <1>1, <2>2, <2>3 DEF TypeOK, IdsBounded, ReadId, Naming
  <2>6. QED
    BY <2>4, <2>5
<1>2. CASE StoreId(t)
  <2>1. Reading' = Reading
    BY <1>2 DEF TypeOK, Reading, StoreId
  <2>2. TypeOK' /\ OperationsOwned'
    BY <1>2 DEF TypeOK, OperationsOwned, StoreId, Locked, Idle, sqlite
  <2>3. IdsBounded'
    BY <1>2, <2>1 DEF TypeOK, IdsBounded, StoreId, Naming
  <2>4. QED
    BY <2>2, <2>3
<1>3. CASE CreateTable(t)
  <2>1. Reading' = Reading
    BY <1>3 DEF TypeOK, Reading, CreateTable
  <2>2. name[t] \in Operations
    BY <1>3 DEF TypeOK, IdsBounded, CreateTable, Naming, Operations
  <2>3. SqlTyped'
    BY <1>3, <2>2, SqlKept DEF TypeOK, SqlTyped, CreateTable, Items
  <2>4. clash' \in BOOLEAN
    BY <1>3 DEF TypeOK, CreateTable
  <2>5. TypeOK'
    BY <1>3, <2>3, <2>4 DEF TypeOK, SqlTyped, CreateTable, Locked, table
  <2>6. OperationsOwned' /\ IdsBounded'
    BY <1>3, <2>1 DEF TypeOK, OperationsOwned, IdsBounded, CreateTable, Idle, Naming, table
  <2>7. QED
    BY <2>5, <2>6
<1>4. CASE DropTable(t)
  <2>1. Reading' = Reading
    BY <1>4 DEF TypeOK, Reading, DropTable
  <2>2. SqlTyped'
    BY <1>4, SqlKept DEF TypeOK, SqlTyped, DropTable
  <2>3. owned' \in [Threads -> SUBSET Operations]
    BY <1>4 DEF TypeOK, DropTable
  <2>4. TypeOK'
    BY <1>4, <2>2, <2>3 DEF TypeOK, SqlTyped, DropTable, Locked
  <2>5. OperationsOwned' /\ IdsBounded'
    BY <1>4, <2>1 DEF TypeOK, OperationsOwned, IdsBounded, DropTable, Idle, Naming
  <2>6. QED
    BY <2>4, <2>5
<1>5. CASE ForgetTable(t)
  <2>1. Reading' = Reading
    BY <1>5 DEF TypeOK, Reading, ForgetTable
  <2>2. SqlTyped'
    BY <1>5, SqlKept DEF TypeOK, SqlTyped, ForgetTable, DropEnds
  <2>3. TypeOK'
    BY <1>5, <2>2 DEF TypeOK, SqlTyped, ForgetTable, Unlock, Locked, table
  <2>4. OperationsOwned' /\ IdsBounded'
    BY <1>5, <2>1 DEF TypeOK, OperationsOwned, IdsBounded, ForgetTable, Idle, Naming, table
  <2>5. QED
    BY <2>3, <2>4
<1>6. QED
  BY <1>1, <1>2, <1>3, <1>4, <1>5

\* Every step keeps the types.
LEMMA TypeStep == TypeInv /\ [Next]_vars => TypeInv'
<1> SUFFICES ASSUME TypeInv, [Next]_vars PROVE TypeInv'
  OBVIOUS
<1>1. CASE UNCHANGED vars
  <2>1. TypeOK' /\ OperationsOwned'
    BY <1>1 DEF vars, sqlite, table, history, TypeInv, TypeOK, OperationsOwned
  <2>2. IdsBounded'
    BY <1>1 DEF vars, table, TypeInv, IdsBounded, Reading
  <2>3. QED
    BY <2>1, <2>2 DEF TypeInv
<1>2. QED
  BY <1>1, Cases, CallTyped, LockTyped, StatementTyped, EndTyped, TableTyped

\* In the initial state every variable has its type.
LEMMA InitTyped == Init => TypeInv
<1> SUFFICES ASSUME Init PROVE TypeInv
  OBVIOUS
<1>1. Reading = {}
  BY DEF Init, Reading
<1>2. TypeOK
  <2>1. \A t \in Threads : pc[t] \notin Locked /\ guard # t
    BY NobodyAssumption DEF Init, Locked
  <2>2. 0 \in 0 .. MaxOperations
    BY BoundsAssumption
  <2>3. QED
    BY <2>1, <2>2 DEF Init, TypeOK
<1>3. OperationsOwned
  BY BoundsAssumption DEF Init, OperationsOwned, Idle
<1>4. IdsBounded
  BY <1>1, FS_EmptySet DEF Init, IdsBounded, Naming
<1>5. QED
  BY <1>2, <1>3, <1>4 DEF TypeInv

\* Every variable keeps its type, the mutex is held by exactly the thread whose
\* object needs it, and the numbers of temporary tables, although two threads can
\* get the same, never run ahead of the operations.
THEOREM TypeCorrect == Spec => []TypeOK
<1>1. TypeInv => TypeOK
  BY DEF TypeInv
<1>2. QED
  BY <1>1, InitTyped, TypeStep, PTL DEF Spec

-----------------------------------------------------------------------------
(* Isolation and wedging                                                     *)

\* What an operation that is under way has done: one with a temporary table has
\* written no row, and its transaction is open until its statements can fail; the
\* rows of a transaction without an error are all in SQLite's transaction, which
\* is open, and not yet in the database.
UnderWay ==
  /\ \A t \in Threads : pc[t] \in {"table", "drop", "dropped"} => open
  /\ \A t \in Threads : pc[t] \notin {"transaction", "query"} /\ op[t] # 0 => wrote[op[t]] = {}
  /\ \A t \in Threads : pc[t] = "transaction" /\ op[t] \notin erred =>
       open /\ wrote[op[t]] \subseteq seen /\ wrote[op[t]] \cap committed = {}

\* The connection sees all of the database but a table that is just being dropped.
NothingHidden == committed \subseteq seen \/ \E t \in Threads : pc[t] = "dropped"

\* What operations that have ended left behind: rows of a transaction that failed
\* or was rolled back are at most in an open transaction that nobody can commit.
Ended ==
  \A n \in Operations \ erred :
    /\ outcome[n] = "committed" => wrote[n] \subseteq committed
    /\ outcome[n] \in {"failed", "rolledBack"} =>
         wrote[n] \cap committed = {} /\ (wrote[n] \cap seen = {} \/ Wedged)

\* The rows of an operation are written in order, and no other rows are seen.
RowsWritten ==
  /\ \A n \in Operations : \E k \in 0 .. RowsPerOperation : wrote[n] = {n} \X (1 .. k)
  /\ \A row \in Rows : row \in seen \cup committed => row \in wrote[row[1]]

DataInv == UnderWay /\ NothingHidden /\ Ended /\ WedgedByFailedCommit /\ RowsWritten

\* The thread that has the mutex is alone inside a transaction or query.
LEMMA OneInside ==
  ASSUME TypeInv, NEW t \in Threads, pc[t] \in Locked
  PROVE  /\ guard = t /\ \A u \in Threads \ {t} : pc[u] \notin Locked
         /\ Wedged <=> open /\ pc[t] = "query"
BY NobodyAssumption DEF TypeInv, TypeOK, Wedged

\* The operation of a thread that is in one has not ended.
LEMMA OwnOperation ==
  ASSUME TypeInv, NEW t \in Threads, pc[t] \notin Idle
  PROVE  /\ op[t] \in Operations /\ outcome[op[t]] = "none"
         /\ \A u \in Threads \ {t} : op[u] # op[t]
         /\ wrote[op[t]] \subseteq {op[t]} \X (1 .. RowsPerOperation)
<1>1. op[t] # 0 /\ op[t] \in 0 .. MaxOperations
  BY DEF TypeInv, TypeOK, OperationsOwned
<1>2. op[t] \in Operations
  BY <1>1, BoundsAssumption DEF Operations
<1>3. QED
  BY <1>1, <1>2 DEF TypeInv, OperationsOwned

\* The next row of an operation is new.
LEMMA NextRowIsNew ==
  ASSUME RowsWritten, NEW n \in Operations
  PROVE  NextRow(n) \notin wrote[n] /\ \E k \in Nat : wrote[n] \cup {NextRow(n)} = {n} \X (1 .. k)
                                                    /\ NextRow(n) = <<n, k>>
<1>1. PICK k \in 0 .. RowsPerOperation : wrote[n] = {n} \X (1 .. k)
  BY DEF RowsWritten
<1>2. k \in Nat
  OBVIOUS
<1>3. Cardinality({n}) = 1 /\ IsFiniteSet({n}) /\ Cardinality(1 .. k) = k /\ IsFiniteSet(1 .. k)
  <2>1. IsFiniteSet(1 .. k) /\ Cardinality(1 .. k) = IF 1 > k THEN 0 ELSE k - 1 + 1
    BY <1>2, FS_Interval
  <2>2. IsFiniteSet({n}) /\ Cardinality({n}) = 1
    BY FS_Singleton
  <2>3. QED
    BY <1>2, <2>1, <2>2
<1>4. Cardinality({n} \X (1 .. k)) = 1 * k
  BY <1>3, FS_Product
<1>5. NextRow(n) = <<n, k + 1>>
  BY <1>1, <1>2, <1>4 DEF NextRow
<1>6. NextRow(n) \notin wrote[n]
  BY <1>1, <1>2, <1>5
<1>7. wrote[n] \cup {NextRow(n)} = {n} \X (1 .. k + 1)
  BY <1>1, <1>2, <1>5
<1>8. QED
  BY <1>2, <1>5, <1>6, <1>7

\* A step before the mutex is taken, or of a query that takes or leaves it,
\* touches no data.
LEMMA WaitingKeepsData ==
  ASSUME TypeInv, DataInv, NEW t \in Threads,
         \/ \E what \in {"transaction", "query", "table", "drop"} : Call(t, what)
         \/ CreateQuery(t) \/ BeginThrows(t) \/ ReadId(t) \/ StoreId(t)
  PROVE  DataInv'
<1> USE NobodyAssumption, BoundsAssumption, WaitsValues DEF TypeInv, DataInv, sqlite, table, history
<1>1. UNCHANGED <<open, committed, seen, wrote, erred, outcome>>
  BY DEF Call, CreateQuery, BeginThrows, ReadId, StoreId
<1>2. /\ \A u \in Threads \ {t} : pc'[u] = pc[u] /\ op'[u] = op[u]
      /\ pc[t] \in {"idle", "nextId", "storeId", "lockQuery", "lockTransaction", "lockTable", "lockDrop"}
      /\ pc'[t] \in {"idle", "nextId", "storeId", "lockQuery", "lockTransaction", "lockTable", "lockDrop", "query"}
  BY DEF TypeOK, Call, CreateQuery, BeginThrows, ReadId, StoreId, Waiting
<1>3. Wedged' <=> Wedged
  BY <1>1, <1>2 DEF TypeOK, Locked, Wedged, Call, CreateQuery, BeginThrows, ReadId, StoreId, LockFree
<1>4. op'[t] # 0 /\ op'[t] # op[t] => wrote[op'[t]] = {}
  BY DEF TypeOK, OperationsOwned, Operations, Call, CreateQuery, BeginThrows, ReadId, StoreId
<1>5. UnderWay'
  BY <1>1, <1>2, <1>4 DEF UnderWay
<1>6. NothingHidden' /\ Ended' /\ WedgedByFailedCommit' /\ RowsWritten'
  BY <1>1, <1>2, <1>3 DEF NothingHidden, Ended, WedgedByFailedCommit, RowsWritten
<1>7. QED
  BY <1>5, <1>6

\* A transaction begins only on a connection that has none open.
LEMMA BeginKeepsData ==
  ASSUME TypeInv, DataInv, NEW t \in Threads, CreateTransaction(t)
  PROVE  DataInv'
<1> USE NobodyAssumption, WaitsValues DEF TypeInv, DataInv, table, history
<1>1. /\ UNCHANGED <<committed, seen, wrote, erred, outcome, op>>
      /\ ~open /\ open' /\ guard = Nobody /\ guard' = t /\ seen = committed
  BY DEF TypeOK, CreateTransaction, BeginSql, LockFree, CanBegin
<1>2. PICK what \in {"transaction", "table", "drop"} :
        pc[t] = Waits[what] /\ pc' = [pc EXCEPT ![t] = what]
  BY DEF CreateTransaction
<1>3. ~Wedged /\ ~Wedged'
  BY <1>1, <1>2 DEF TypeOK, Wedged
<1>4. op[t] # 0 => wrote[op[t]] = {}
  BY <1>2 DEF UnderWay
<1>5. UnderWay'
  BY <1>1, <1>2, <1>4 DEF TypeOK, UnderWay, OperationsOwned, Idle
<1>6. NothingHidden' /\ Ended' /\ WedgedByFailedCommit' /\ RowsWritten'
  BY <1>1, <1>3 DEF NothingHidden, Ended, WedgedByFailedCommit, RowsWritten
<1>7. QED
  BY <1>5, <1>6

\* A statement changes what its operation has written, and the database only
\* outside a transaction, where the connection sees what is in it.
LEMMA StatementKeepsData ==
  ASSUME TypeInv, DataInv, NEW t \in Threads, Execute(t) \/ ExecuteFails(t)
  PROVE  DataInv'
<1> USE DEF TypeInv, DataInv, table, history
<1>1. /\ pc[t] \in {"transaction", "query", "tableCommit"} /\ UNCHANGED <<guard, pc, op, outcome>>
      /\ \A u \in Threads \ {t} : pc[u] \notin Locked
  BY OneInside DEF Execute, ExecuteFails, Locked
<1>2. /\ op[t] \in Operations /\ outcome[op[t]] = "none"
      /\ \A u \in Threads \ {t} : op[u] # op[t]
  BY <1>1, OwnOperation DEF Idle
<1>3. CASE Execute(t)
  <2> DEFINE row == NextRow(op[t])
  <2>1. /\ wrote' = [wrote EXCEPT ![op[t]] = wrote[op[t]] \cup {row}]
        /\ seen' = seen \cup {row} /\ open' = open /\ erred' = erred
        /\ committed' = IF open THEN committed ELSE seen \cup {row}
    BY <1>3 DEF Execute, ChangeSql
  <2>2. \A n \in Operations \ {op[t]} : row \notin wrote[n] /\ wrote'[n] = wrote[n]
    BY <1>2, <2>1 DEF TypeOK, OperationsOwned, NextRow
  <2> HIDE DEF row
  <2>3. Wedged' <=> Wedged
    BY <1>1, <2>1 DEF Wedged
  <2>4. UnderWay'
    <3>1. row \in Rows /\ row[1] = op[t]
      BY <1>3 DEF Execute, row, NextRow
    <3>2. row \notin committed
      BY <1>2, <3>1, NextRowIsNew DEF RowsWritten, row
    <3>3. QED
      BY <1>1, <1>2, <1>3, <2>1, <2>2, <3>2 DEF TypeOK, UnderWay, Locked, Execute
  <2>5. NothingHidden'
    BY <1>1, <2>1 DEF TypeOK, NothingHidden
  <2>6. Ended'
    <3> SUFFICES ASSUME NEW n \in Operations \ erred, outcome[n] # "none"
                 PROVE  /\ outcome[n] = "committed" => wrote[n] \subseteq committed'
                        /\ outcome[n] \in {"failed", "rolledBack"} =>
                             wrote[n] \cap committed' = {} /\ (wrote[n] \cap seen' = {} \/ Wedged)
      BY <1>1, <1>2, <2>1, <2>2, <2>3 DEF TypeOK, Ended
    <3>1. row \notin wrote[n]
      BY <1>2, <2>2
    <3>2. CASE open
      BY <2>1, <3>1, <3>2 DEF Ended
    <3>3. CASE ~open
      BY <2>1, <3>1, <3>3 DEF TypeOK, Ended, Wedged
    <3>4. QED
      BY <3>2, <3>3
  <2>7. WedgedByFailedCommit'
    BY <1>1, <2>3 DEF WedgedByFailedCommit
  <2>8. RowsWritten'
    <3>1. \A n \in Operations : \E k \in 0 .. RowsPerOperation : wrote'[n] = {n} \X (1 .. k)
      <4>1. PICK k \in Nat : wrote'[op[t]] = {op[t]} \X (1 .. k) /\ row = <<op[t], k>>
        BY <1>2, <2>1, NextRowIsNew DEF TypeOK, row
      <4>2. k \in 0 .. RowsPerOperation
        BY <1>3, <4>1 DEF Execute, Rows, row
      <4>3. QED
        BY <2>2, <4>1, <4>2 DEF RowsWritten
    <3>2. ASSUME NEW new \in Rows, new \in seen' \cup committed' PROVE new \in wrote'[new[1]]
      <4>1. new[1] \in Operations /\ row[1] = op[t]
        BY DEF Rows, row, NextRow
      <4>2. new = row \/ new \in seen \cup committed
        BY <2>1, <3>2
      <4>3. QED
        BY <1>2, <2>1, <2>2, <4>1, <4>2 DEF TypeOK, RowsWritten
    <3>3. QED
      BY <3>1, <3>2 DEF RowsWritten
  <2>9. QED
    BY <2>4, <2>5, <2>6, <2>7, <2>8
<1>4. CASE ExecuteFails(t)
  <2>1. erred' = erred \cup {op[t]} /\ UNCHANGED <<wrote, committed>>
    BY <1>4 DEF ExecuteFails, RollbackSql, sqlite
  <2>2. (~open' /\ seen' = committed) \/ UNCHANGED <<open, seen>>
    BY <1>4 DEF ExecuteFails, RollbackSql, sqlite
  <2>3. Wedged' => Wedged /\ UNCHANGED <<open, seen>>
    BY <1>1, <2>2 DEF Wedged
  <2>4. UnderWay'
    BY <1>1, <1>2, <2>1, <2>2 DEF TypeOK, UnderWay, Locked
  <2>5. NothingHidden' /\ WedgedByFailedCommit' /\ RowsWritten'
    BY <1>1, <2>1, <2>2, <2>3 DEF NothingHidden, WedgedByFailedCommit, RowsWritten
  <2>6. Ended'
    <3>1. CASE UNCHANGED <<open, seen>>
      BY <1>1, <2>1, <3>1 DEF Ended, Wedged
    <3>2. CASE ~open' /\ seen' = committed
      BY <1>1, <2>1, <3>2 DEF Ended
    <3>3. QED
      BY <2>2, <3>1, <3>2
  <2>7. QED
    BY <2>4, <2>5, <2>6
<1>5. QED
  BY <1>3, <1>4

\* The end of a transaction, by the code that ends it.
LEMMA EndKeepsData ==
  ASSUME TypeInv, DataInv, NEW t \in Threads,
         Commit(t) \/ Rollback(t) \/ DestroyQuery(t) \/ CommitTable(t)
  PROVE  DataInv'
<1> USE DEF TypeInv, DataInv, sqlite, table, history
<1>1. /\ pc[t] \in {"transaction", "query", "tableCommit"} /\ pc[t] \in Locked /\ pc[t] \notin Idle
      /\ UNCHANGED <<wrote, erred>>
  BY DEF Commit, Rollback, DestroyQuery, CommitTable, Locked, Idle
<1>2. /\ guard = t /\ (Wedged <=> open /\ pc[t] = "query")
      /\ \A u \in Threads \ {t} : pc[u] \notin Locked
  BY <1>1, OneInside
<1>3. op[t] \in Operations /\ outcome[op[t]] = "none" /\ \A u \in Threads \ {t} : op[u] # op[t]
  BY <1>1, OwnOperation
<1>4. ASSUME NEW how, End(t, how)
      PROVE  /\ guard' = Nobody /\ outcome' = [outcome EXCEPT ![op[t]] = how]
             /\ pc' = [pc EXCEPT ![t] = "idle"] /\ op' = [op EXCEPT ![t] = 0]
             /\ (Wedged' <=> open')
  BY <1>4 DEF End, Unlock, Wedged
<1>5. committed \subseteq seen
  BY <1>1, <1>2 DEF NothingHidden, Locked
<1>6. UnderWay'
  <2>1. PICK how : End(t, how)
    BY DEF Commit, Rollback, DestroyQuery, CommitTable
  <2>2. QED
    BY <1>1, <1>2, <1>4, <2>1 DEF TypeOK, UnderWay, Locked
<1>7. CASE CommitSql /\ End(t, "committed") /\ pc[t] # "query"
  <2>1. wrote[op[t]] \subseteq seen \/ op[t] \in erred
    BY <1>1, <1>3, <1>7 DEF UnderWay, Idle, TypeOK, OperationsOwned
  <2>2. ~open' /\ committed' = seen /\ seen' = seen /\ ~Wedged
    BY <1>2, <1>7 DEF CommitSql
  <2>3. Ended'
    BY <1>1, <1>3, <1>4, <1>5, <1>7, <2>1, <2>2 DEF TypeOK, Ended
  <2>4. NothingHidden' /\ WedgedByFailedCommit' /\ RowsWritten'
    BY <1>1, <1>4, <1>7, <2>2 DEF NothingHidden, WedgedByFailedCommit, RowsWritten
  <2>5. QED
    BY <1>6, <2>3, <2>4
<1>8. CASE UNCHANGED sqlite /\ End(t, "failed") /\ pc[t] # "query"
  <2>1. (wrote[op[t]] \cap committed = {} /\ open) \/ wrote[op[t]] = {} \/ op[t] \in erred
    BY <1>1, <1>3, <1>8 DEF UnderWay, Idle, TypeOK, OperationsOwned
  <2>2. UNCHANGED <<open, committed, seen>> /\ ~Wedged
    BY <1>2, <1>8
  <2>3. Ended'
    BY <1>1, <1>3, <1>4, <1>8, <2>1, <2>2 DEF TypeOK, Ended
  <2>4. NothingHidden' /\ RowsWritten'
    BY <1>1, <1>5, <2>2 DEF NothingHidden, RowsWritten
  <2>5. WedgedByFailedCommit'
    BY <1>3, <1>4, <1>8 DEF TypeOK, WedgedByFailedCommit
  <2>6. QED
    BY <1>6, <2>3, <2>4, <2>5
<1>9. CASE Rollback(t)
  <2>1. End(t, "rolledBack") /\ committed' = committed /\ ~open' /\ ~Wedged
        /\ seen' = committed
    BY <1>2, <1>9 DEF TypeOK, Rollback, Undo, RollbackSql
  <2>2. wrote[op[t]] \cap committed = {} \/ op[t] \in erred
    BY <1>9 DEF UnderWay, Rollback
  <2>3. Ended'
    BY <1>1, <1>3, <1>4, <2>1, <2>2 DEF TypeOK, Ended
  <2>4. NothingHidden' /\ WedgedByFailedCommit' /\ RowsWritten'
    BY <1>1, <1>4, <2>1 DEF NothingHidden, WedgedByFailedCommit, RowsWritten
  <2>5. QED
    BY <1>6, <2>3, <2>4
<1>10. CASE DestroyQuery(t)
  <2>1. End(t, "read") /\ UNCHANGED <<open, committed, seen>> /\ pc[t] = "query"
    BY <1>10 DEF DestroyQuery
  <2>2. Wedged' <=> Wedged
    BY <1>2, <1>4, <2>1
  <2>3. Ended' /\ NothingHidden' /\ RowsWritten'
    BY <1>1, <1>3, <1>4, <1>5, <2>1, <2>2 DEF TypeOK, Ended, NothingHidden, RowsWritten
  <2>4. WedgedByFailedCommit'
    BY <1>3, <1>4, <2>1, <2>2 DEF TypeOK, WedgedByFailedCommit
  <2>5. QED
    BY <1>6, <2>3, <2>4
<1>11. QED
  BY <1>7, <1>8, <1>9, <1>10 DEF Commit, CommitTable

\* The steps of a temporary table: creating it is part of a transaction, and the
\* drop is always rolled back.
LEMMA TableKeepsData ==
  ASSUME TypeInv, DataInv, NEW t \in Threads, CreateTable(t) \/ DropTable(t) \/ ForgetTable(t)
  PROVE  DataInv'
<1> USE DEF TypeInv, DataInv, table, history
<1>1. /\ pc[t] \in {"table", "drop", "dropped"} /\ pc[t] \in Locked /\ open
      /\ UNCHANGED <<wrote, erred, op, outcome>>
  BY DEF CreateTable, DropTable, ForgetTable, Locked, UnderWay
<1>2. guard = t /\ ~Wedged /\ \A u \in Threads \ {t} : pc[u] \notin Locked
  BY <1>1, OneInside
<1>3. committed' = committed /\ (seen' = committed \/ \A row \in Rows : row \in seen' => row \in seen)
  <2>1. \A n : Table(n) \notin Rows
    BY BoundsAssumption DEF Table, Rows
  <2>2. CASE CreateTable(t)
    BY <1>1, <2>1, <2>2 DEF CreateTable, ChangeSql
  <2>3. CASE DropTable(t)
    BY <1>1, <2>3 DEF DropTable, ChangeSql
  <2>4. CASE ForgetTable(t)
    BY <2>4 DEF ForgetTable, DropEnds, RollbackSql
  <2>5. QED
    BY <2>2, <2>3, <2>4
<1>4. ~Wedged' /\ UnderWay' /\ NothingHidden'
  <2>1. CASE CreateTable(t)
    BY <1>1, <1>2, <2>1
    DEF TypeOK, Wedged, UnderWay, NothingHidden, CreateTable, ChangeSql, Locked
  <2>2. CASE DropTable(t)
    BY <1>1, <1>2, <2>2
    DEF TypeOK, Wedged, UnderWay, NothingHidden, DropTable, ChangeSql, Locked
  <2>3. CASE ForgetTable(t)
    BY <1>1, <1>2, <2>3
    DEF TypeOK, Wedged, UnderWay, NothingHidden, ForgetTable, DropEnds, RollbackSql, Unlock, Locked
  <2>4. QED
    BY <2>1, <2>2, <2>3
<1>5. Ended'
  BY <1>1, <1>2, <1>3, <1>4 DEF TypeOK, Ended
<1>6. WedgedByFailedCommit' /\ RowsWritten'
  BY <1>1, <1>3, <1>4 DEF WedgedByFailedCommit, RowsWritten
<1>7. QED
  BY <1>4, <1>5, <1>6

\* Every step keeps what is known of the data.
LEMMA DataStep == TypeInv /\ DataInv /\ [Next]_vars => DataInv'
<1> SUFFICES ASSUME TypeInv, DataInv, [Next]_vars PROVE DataInv'
  OBVIOUS
<1>1. CASE UNCHANGED vars
  BY <1>1 DEF vars, sqlite, history, DataInv, UnderWay, NothingHidden, Ended, Wedged,
              WedgedByFailedCommit, RowsWritten
<1>2. QED
  BY <1>1, Cases, WaitingKeepsData, BeginKeepsData, StatementKeepsData, EndKeepsData, TableKeepsData

\* Types and data together, of every behaviour.
LEMMA Invariance == Spec => [](TypeInv /\ DataInv)
<1>1. Init => DataInv
  <2> SUFFICES ASSUME Init PROVE DataInv
    OBVIOUS
  <2>1. UnderWay /\ NothingHidden /\ Ended /\ WedgedByFailedCommit
    BY DEF Init, UnderWay, NothingHidden, Ended, WedgedByFailedCommit, Wedged
  <2>2. RowsWritten
    <3>1. 0 \in 0 .. RowsPerOperation
      BY BoundsAssumption
    <3>2. \A n \in Operations : wrote[n] = {n} \X (1 .. 0)
      BY DEF Init
    <3>3. QED
      BY <3>1, <3>2 DEF Init, RowsWritten
  <2>3. QED
    BY <2>1, <2>2 DEF DataInv
<1>2. Init => TypeInv
  BY InitTyped
<1>3. QED
  BY <1>1, <1>2, TypeStep, DataStep, PTL DEF Spec

\* Only the thread with the mutex changes what a query reads.
LEMMA ReadsStable == TypeInv /\ [Next]_vars => StableReads
<1> SUFFICES ASSUME TypeInv, [Next]_vars, NEW t \in Threads,
                    pc[t] = "query", pc'[t] = "query", seen' # seen
             PROVE  Execute(t) \/ ExecuteFails(t)
  BY DEF StableReads
<1>1. \A u \in Threads \ {t} : pc[u] \notin Locked
  BY OneInside DEF Locked
<1>2. PICK u \in Threads : \/ Execute(u) \/ ExecuteFails(u) \/ Commit(u) \/ Rollback(u)
                           \/ CreateTable(u) \/ CommitTable(u) \/ DropTable(u) \/ ForgetTable(u)
  <2>1. ~UNCHANGED sqlite /\ ~UNCHANGED vars
    BY DEF vars, sqlite
  <2>2. \A u \in Threads : /\ \A what \in {"transaction", "query", "table", "drop"} : ~Call(u, what)
                           /\ ~CreateQuery(u) /\ ~CreateTransaction(u) /\ ~BeginThrows(u)
                           /\ ~DestroyQuery(u) /\ ~ReadId(u) /\ ~StoreId(u)
    BY <2>1 DEF Call, CreateQuery, CreateTransaction, BeginSql, BeginThrows, DestroyQuery,
                ReadId, StoreId, sqlite
  <2>3. QED
    BY <2>1, <2>2, Cases
<1>3. pc[u] \in Locked
  BY <1>2 DEF Execute, ExecuteFails, Commit, Rollback, CreateTable, CommitTable, DropTable,
              ForgetTable, Locked
<1>4. u = t
  BY <1>1, <1>3
<1>5. QED
  BY <1>2, <1>4 DEF Commit, Rollback, CreateTable, CommitTable, DropTable, ForgetTable

\* A transaction whose statements succeeded is in the database wholly or not at
\* all, for good, and a query sees nothing but its own changes while it lives.
THEOREM IsolationAlways == Spec => Isolation
<1>1. TypeInv /\ DataInv => AllOrNothing
  BY DEF TypeInv, TypeOK, DataInv, Ended, AllOrNothing
<1>2. QED
  BY <1>1, ReadsStable, Invariance, PTL DEF Spec, Isolation

\* The database only grows, and stays as it is while the connection is wedged.
LEMMA CommittedGrows ==
  TypeInv /\ DataInv /\ [Next]_vars =>
    /\ committed \subseteq committed'
    /\ Wedged => committed' = committed /\ (Wedged' \/ \E t \in Threads : ExecuteFails(t))
<1> SUFFICES ASSUME TypeInv, DataInv, [Next]_vars
             PROVE  /\ committed \subseteq committed'
                    /\ Wedged => /\ committed' = committed
                                 /\ Wedged' \/ \E t \in Threads : ExecuteFails(t)
  OBVIOUS
<1> USE NobodyAssumption, WaitsValues DEF TypeInv, DataInv, sqlite
<1>1. ASSUME NEW t \in Threads,
             \/ \E what \in {"transaction", "query", "table", "drop"} : Call(t, what)
             \/ BeginThrows(t) \/ ReadId(t) \/ StoreId(t) \/ CreateQuery(t) \/ DestroyQuery(t)
      PROVE  committed' = committed /\ (Wedged => Wedged')
  BY <1>1 DEF TypeOK, Wedged, Call, BeginThrows, Waiting, ReadId, StoreId, CreateQuery, DestroyQuery,
              LockFree, End, Unlock, Locked, table
<1>2. ASSUME NEW t \in Threads, CreateTransaction(t) PROVE committed' = committed /\ ~Wedged
  BY <1>2 DEF CreateTransaction, BeginSql, Wedged, CanBegin
<1>3. ASSUME NEW t \in Threads, Execute(t)
      PROVE  committed \subseteq committed' /\ (Wedged => committed' = committed /\ Wedged')
  BY <1>3 DEF TypeOK, Execute, ChangeSql, Wedged
<1>4. ASSUME NEW t \in Threads, ExecuteFails(t) PROVE committed' = committed
  BY <1>4 DEF ExecuteFails, RollbackSql
<1>5. ASSUME NEW t \in Threads,
             Commit(t) \/ Rollback(t) \/ CreateTable(t) \/ CommitTable(t) \/ DropTable(t) \/ ForgetTable(t)
      PROVE  ~Wedged /\ committed \subseteq committed'
  <2>1. pc[t] \in {"transaction", "table", "tableCommit", "drop", "dropped"} /\ pc[t] \in Locked
    BY <1>5 DEF Commit, Rollback, CreateTable, CommitTable, DropTable, ForgetTable, Locked
  <2>2. ~Wedged /\ \A u \in Threads \ {t} : pc[u] # "dropped"
    BY <2>1, OneInside DEF Locked
  <2>3. CASE Commit(t) \/ CommitTable(t)
    BY <2>2, <2>3 DEF NothingHidden, Commit, CommitTable, CommitSql
  <2>4. CASE Rollback(t) \/ CreateTable(t) \/ DropTable(t) \/ ForgetTable(t)
    <3>1. CASE Rollback(t) \/ ForgetTable(t)
      BY <2>2, <3>1 DEF Rollback, Undo, ForgetTable, DropEnds, RollbackSql
    <3>2. CASE CreateTable(t) \/ DropTable(t)
      <4>1. open
        BY <3>2 DEF UnderWay, CreateTable, DropTable
      <4>2. QED
        BY <2>2, <3>2, <4>1 DEF CreateTable, DropTable, ChangeSql
    <3>3. QED
      BY <2>4, <3>1, <3>2
  <2>5. QED
    BY <1>5, <2>2, <2>3, <2>4
<1>6. CASE UNCHANGED vars
  BY <1>6 DEF vars, Wedged
<1>7. QED
  BY <1>1, <1>2, <1>3, <1>4, <1>5, <1>6, Cases

\* A connection is wedged by a failed commit only, and then no step but SQLite's
\* own rollback brings it back, nor does any change the database.
THEOREM WedgingAlways == Spec => Wedging
<1>1. TypeInv /\ DataInv => WedgedByFailedCommit
  BY DEF DataInv
<1>2. TypeInv /\ DataInv /\ [Next]_vars
        => [Wedged => (Wedged' \/ \E t \in Threads : ExecuteFails(t)) /\ committed' = committed]_vars
  BY CommittedGrows
<1>3. QED
  BY <1>1, <1>2, Invariance, PTL DEF Spec, Wedging, WedgedForGood

\* No temporary table ever leaves the database.
THEOREM DroppedTablesStayAlways == Spec => DroppedTablesStay
<1>1. TypeInv /\ DataInv /\ [Next]_vars
        => [\A n \in Operations : Table(n) \in committed => Table(n) \in committed']_vars
  BY CommittedGrows
<1>2. QED
  BY <1>1, Invariance, PTL DEF Spec, DroppedTablesStay
=============================================================================
