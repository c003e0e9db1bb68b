------------------------------- MODULE Database -------------------------------
(***************************************************************************)
(* database/impl/sqlite: one SQLite connection shared by several threads.   *)
(* A Transaction object holds the mutex of the Database from its            *)
(* constructor to Commit(), Rollback() or its destructor; a Query holds it  *)
(* for life; a TemporaryTable uses two transactions, one to create its      *)
(* table and one to drop it.                                                *)
(*                                                                         *)
(* SQLite is external: `committed' is what a new connection would read,     *)
(* `seen' what this connection reads, and they differ only inside BEGIN ... *)
(* COMMIT.  Items are rows, written by numbered operations, and the         *)
(* temporary tables.  A thread has one Transaction or Query at a time and   *)
(* does not use it after Commit() or Rollback().                            *)
(***************************************************************************)
EXTENDS Naturals, FiniteSets

CONSTANTS Threads, Nobody,
          MaxOperations,     \* bound: operations started by all threads together
          RowsPerOperation   \* bound: rows one operation writes

ASSUME NobodyAssumption == Nobody \notin Threads
ASSUME BoundsAssumption == MaxOperations \in Nat /\ RowsPerOperation \in Nat

Operations == 1 .. MaxOperations
Rows       == Operations \X (1 .. RowsPerOperation)
Table(n)   == <<n, 0>>   \* tmp.tab_<n>, the item a create table adds
Items      == Rows \cup {Table(n) : n \in Operations}

VARIABLES guard,      \* the thread that holds m_guard
          open,       \* SQLite is between BEGIN and COMMIT or ROLLBACK
          committed,  \* the items in the database
          seen,       \* the items as this connection sees them
          id,         \* the counter of TemporaryTable.cpp
          pc,         \* what each thread is doing
          name,       \* the id its TemporaryTable constructor computed
          owned,      \* the TemporaryTable objects of each thread, by id
          op,         \* the operation a thread is in, or 0
          started,    \* operations started so far
          wrote,      \* history: the rows an operation wrote successfully
          erred,      \* history: operations of which an Execute() failed
          outcome,    \* history: how an operation ended
          clash,      \* history: a create table statement failed
          crashed     \* std::terminate() was called

sqlite  == <<open, committed, seen>>
table   == <<id, name, owned>>
history == <<wrote, erred, outcome, clash>>
vars == <<guard, sqlite, pc, table, op, started, history, crashed>>

-----------------------------------------------------------------------------
(* sqlite3pp: what each statement does to the connection.                    *)

BeginSql == open' = TRUE /\ UNCHANGED <<committed, seen>>

\* Outside a transaction a statement commits on its own.
ChangeSql(items) ==
  /\ seen' = items
  /\ committed' = IF open THEN committed ELSE items
  /\ UNCHANGED open

RollbackSql == open' = FALSE /\ seen' = committed /\ UNCHANGED committed

CommitSql == open' = FALSE /\ committed' = seen /\ UNCHANGED seen

-----------------------------------------------------------------------------
(* Taking and leaving the mutex.                                             *)

\* Where a thread waits for m_guard, by what it wants to do under it.
Waits == [query |-> "lockQuery", transaction |-> "lockTransaction",
          table |-> "lockTable", drop |-> "lockDrop"]

Waiting(t) == \E what \in DOMAIN Waits : pc[t] = Waits[what]

\* Database::CreateTransaction(), CreateQuery() and ~TemporaryTable() wait here.
Call(t, what) ==
  /\ ~crashed
  /\ pc[t] = "idle"
  /\ IF what = "drop"
       THEN owned[t] # {} /\ UNCHANGED <<started, op>>
       ELSE started < MaxOperations /\ started' = started + 1
                                    /\ op' = [op EXCEPT ![t] = started']
  /\ pc' = [pc EXCEPT ![t] = IF what = "table" THEN "nextId" ELSE Waits[what]]
  /\ UNCHANGED <<guard, sqlite, table, history, crashed>>

LockFree == guard = Nobody

CreateQuery(t) ==
  /\ pc[t] = Waits.query
  /\ LockFree
  /\ guard' = t
  /\ pc' = [pc EXCEPT ![t] = "query"]
  /\ UNCHANGED <<sqlite, table, op, started, history, crashed>>

\* Mutant: a BEGIN whose failure is ignored.
BeginIgnored == TRUE

CanBegin == ~open

\* BEGIN works only when the connection has no transaction open.
CreateTransaction(t) ==
  /\ LockFree /\ CanBegin
  /\ \E what \in {"transaction", "table", "drop"} :
       /\ pc[t] = Waits[what]
       /\ pc' = [pc EXCEPT ![t] = what]
  /\ BeginSql
  /\ guard' = t
  /\ UNCHANGED <<table, op, started, history, crashed>>

\* Mutant: a failed BEGIN is tried again and again.
BeginRetries(t) ==
  /\ Waiting(t) /\ pc[t] # Waits.query
  /\ LockFree /\ ~CanBegin
  /\ UNCHANGED vars

\* Otherwise the constructor of sqlite3pp::transaction throws, which unlocks
\* the mutex; out of a destructor the exception ends the process.
BeginThrows(t) ==
  /\ Waiting(t) /\ pc[t] # Waits.query
  /\ LockFree /\ ~CanBegin
  /\ crashed' = (pc[t] = Waits.drop)
  /\ pc' = [pc EXCEPT ![t] = "idle"]
  /\ op' = [op EXCEPT ![t] = 0]
  /\ UNCHANGED <<guard, sqlite, table, started, history>>

-----------------------------------------------------------------------------
(* Commands and queries                                                      *)

\* Rows are interchangeable: an operation writes its own in order.
NextRow(n) == <<n, Cardinality(wrote[n]) + 1>>

\* Query::Execute() or Command::Execute() of a statement that inserts a row.
Execute(t) ==
  /\ pc[t] \in {"transaction", "query"}
  /\ NextRow(op[t]) \in Rows
  /\ ChangeSql(seen \cup {NextRow(op[t])})
  /\ wrote' = [wrote EXCEPT ![op[t]] = @ \cup {NextRow(op[t])}]
  /\ UNCHANGED <<guard, pc, table, op, started, erred, outcome, clash, crashed>>

\* A failed statement leaves the transaction open, or SQLite has rolled all of
\* it back (disk full, I/O error, out of memory); Execute() tells neither, and
\* that of a query returns true all the same. The statements that TemporaryTable is
\* given come after its create table; what they write belongs to the table and is
\* not told apart from it, but they fail like any other.
ExecuteFails(t) ==
  /\ pc[t] \in {"transaction", "query", "tableCommit"}
  /\ erred' = erred \cup {op[t]}
  /\ (open /\ RollbackSql) \/ UNCHANGED sqlite
  /\ UNCHANGED <<guard, pc, table, op, started, wrote, outcome, clash, crashed>>

\* m_lock.reset(), or the end of the lock_guard's life.
\* Mutant: a lock that Commit() and Rollback() do not give back.
KeepLock == UNCHANGED guard

Unlock == guard' = Nobody

End(t, how) ==
  /\ Unlock
  /\ pc' = [pc EXCEPT ![t] = "idle"]
  /\ op' = [op EXCEPT ![t] = 0]
  /\ outcome' = [outcome EXCEPT ![op[t]] = how]

\* COMMIT may fail (SQLITE_BUSY) and leave SQLite's transaction open; it fails,
\* too, when there is none.  Either way m_active is false and the mutex is free,
\* so the destructor that follows has nothing to roll back.
Commit(t) ==
  /\ pc[t] = "transaction"
  /\ \/ open /\ CommitSql /\ End(t, "committed")
     \/ UNCHANGED sqlite /\ End(t, "failed")
  /\ UNCHANGED <<table, started, wrote, erred, clash, crashed>>

\* Mutant: a destructor that commits.
UndoCommits == IF open THEN CommitSql ELSE UNCHANGED sqlite

Undo == IF open THEN RollbackSql ELSE UNCHANGED sqlite

\* Rollback(), or the destructor of an active Transaction.
Rollback(t) ==
  /\ pc[t] = "transaction"
  /\ Undo
  /\ End(t, "rolledBack")
  /\ UNCHANGED <<table, started, wrote, erred, clash, crashed>>

DestroyQuery(t) ==
  /\ pc[t] = "query"
  /\ End(t, "read")
  /\ UNCHANGED <<sqlite, table, started, wrote, erred, clash, crashed>>

-----------------------------------------------------------------------------
(* TemporaryTable                                                            *)

\* ++id on a plain int that all threads share: a read ...
ReadId(t) ==
  /\ pc[t] = "nextId"
  /\ name' = [name EXCEPT ![t] = id + 1]
  /\ pc' = [pc EXCEPT ![t] = "storeId"]
  /\ UNCHANGED <<guard, sqlite, id, owned, op, started, history, crashed>>

\* ... and a write, between which another thread may read.
StoreId(t) ==
  /\ pc[t] = "storeId"
  /\ id' = name[t]
  /\ pc' = [pc EXCEPT ![t] = Waits.table]
  /\ UNCHANGED <<guard, sqlite, name, owned, op, started, history, crashed>>

\* create table; a release build ignores the failure that the assert() tells, and
\* those of the statements after it. (One that fails of anything but its name does
\* what a failure of theirs does.)
CreateTable(t) ==
  /\ pc[t] = "table"
  /\ ChangeSql(seen \cup {Table(name[t])})
  /\ clash' = (clash \/ Table(name[t]) \in seen)
  /\ pc' = [pc EXCEPT ![t] = "tableCommit"]
  /\ UNCHANGED <<guard, table, op, started, wrote, erred, outcome, crashed>>

\* The constructor ignores the result of Commit().
CommitTable(t) ==
  /\ pc[t] = "tableCommit"
  /\ \/ open /\ CommitSql /\ End(t, "committed")
     \/ UNCHANGED sqlite /\ End(t, "failed")
  /\ owned' = [owned EXCEPT ![t] = @ \cup {name[t]}]
  /\ UNCHANGED <<id, name, started, wrote, erred, clash, crashed>>

\* The drop table of a destructor, in a transaction nobody commits ...
DropTable(t) ==
  /\ pc[t] = "drop"
  /\ \E n \in owned[t] :
       /\ ChangeSql(seen \ {Table(n)})
       /\ owned' = [owned EXCEPT ![t] = @ \ {n}]
  /\ pc' = [pc EXCEPT ![t] = "dropped"]
  /\ UNCHANGED <<guard, id, name, op, started, history, crashed>>

\* Mutant: the destructor of TemporaryTable commits.
DropCommitted == CommitSql

\* ... and that its own destructor rolls back at the end of the expression.
DropEnds == RollbackSql

ForgetTable(t) ==
  /\ pc[t] = "dropped"
  /\ DropEnds
  /\ Unlock
  /\ pc' = [pc EXCEPT ![t] = "idle"]
  /\ UNCHANGED <<table, op, started, history, crashed>>

-----------------------------------------------------------------------------
Init ==
  /\ guard = Nobody /\ open = FALSE /\ committed = {} /\ seen = {} /\ id = 0
  /\ pc = [t \in Threads |-> "idle"]
  /\ name = [t \in Threads |-> 0] /\ owned = [t \in Threads |-> {}]
  /\ op = [t \in Threads |-> 0] /\ started = 0
  /\ wrote = [n \in Operations |-> {}] /\ erred = {}
  /\ outcome = [n \in Operations |-> "none"] /\ clash = FALSE /\ crashed = FALSE

Step(t) ==
  \/ CreateQuery(t) \/ CreateTransaction(t) \/ BeginThrows(t)
  \/ Commit(t) \/ Rollback(t) \/ DestroyQuery(t)
  \/ ReadId(t) \/ StoreId(t) \/ CreateTable(t) \/ CommitTable(t)
  \/ DropTable(t) \/ ForgetTable(t)

Terminated ==
  /\ crashed \/ (started = MaxOperations /\ \A t \in Threads : pc[t] = "idle")
  /\ UNCHANGED vars

Next ==
  \/ /\ ~crashed
     /\ \E t \in Threads :
          \/ \E what \in {"transaction", "query", "table", "drop"} : Call(t, what)
          \/ Execute(t) \/ ExecuteFails(t) \/ Step(t)
  \/ Terminated

Spec == Init /\ [][Next]_vars

\* A thread goes on with what it has begun: its caller ends every transaction
\* and destroys every query.  std::mutex is not fair, but the number of
\* operations is finite, so a waiting thread gets it in the end.
Fairness == \A t \in Threads : WF_vars(~crashed /\ Step(t))

FairSpec == Spec /\ Fairness

-----------------------------------------------------------------------------
(* Properties                                                                *)

Locked == {"transaction", "query", "table", "tableCommit", "drop", "dropped"}

\* Every variable has its type; m_guard is held by exactly the thread whose
\* object needs it, and outside a transaction the connection sees no more than
\* the database holds.
TypeOK ==
  /\ guard \in Threads \cup {Nobody} /\ open \in BOOLEAN
  /\ committed \subseteq Items /\ seen \subseteq Items /\ (~open => seen = committed)
  /\ id \in 0 .. MaxOperations /\ name \in [Threads -> 0 .. MaxOperations]
  /\ owned \in [Threads -> SUBSET Operations] /\ started \in 0 .. MaxOperations
  /\ pc \in [Threads -> {"idle", "nextId", "storeId", "lockQuery", "lockTransaction", "lockTable", "lockDrop"} \cup Locked]
  /\ op \in [Threads -> 0 .. MaxOperations]
  /\ wrote \in [Operations -> SUBSET Rows] /\ erred \subseteq Operations
  /\ outcome \in [Operations -> {"none", "committed", "failed", "rolledBack", "read"}]
  /\ clash \in BOOLEAN /\ crashed \in BOOLEAN
  /\ \A t \in Threads : pc[t] \in Locked <=> guard = t

\* A transaction whose statements all succeeded is all or nothing: every row is
\* in the database for good if Commit() returned true, and none ever gets there
\* if Commit() returned false or the transaction was rolled back -- also when
\* other threads use the connection afterwards.
AllOrNothing ==
  \A n \in Operations \ erred :
    CASE outcome[n] = "committed"              -> wrote[n] \subseteq committed
      [] outcome[n] \in {"failed", "rolledBack"} -> wrote[n] \cap committed = {}
      [] OTHER                                 -> TRUE

\* SQLite's transaction is open with nobody's Transaction object around it.
Wedged == open /\ (guard = Nobody \/ pc[guard] = "query")

\* Only a Commit() that returned false leaves the connection so.
WedgedByFailedCommit == Wedged => \E n \in Operations : outcome[n] = "failed"

\* After it nothing in this code brings the connection back, only SQLite when it
\* rolls back on an error: no further transaction starts, and what queries write,
\* although Execute() returns true, never gets to the database.
WedgedForGood ==
  [][Wedged => (Wedged' \/ \E t \in Threads : ExecuteFails(t)) /\ committed' = committed]_vars

\* Between the construction and the destruction of a Query, what it reads changes
\* only by its own statements, never by another thread's.
StableReads ==
  \A t \in Threads : pc[t] = "query" /\ pc'[t] = "query" =>
    seen' = seen \/ Execute(t) \/ ExecuteFails(t)

\* Every step does both: transactions do not see or keep halves of each other's
\* work.
Isolation == [][AllOrNothing' /\ StableReads]_vars

\* A wedged connection comes from a failed commit, and stays wedged.
Wedging == []WedgedByFailedCommit /\ WedgedForGood

\* Destroying a TemporaryTable leaves its table in the database: the drop table
\* is rolled back, so tables pile up until the connection is closed.
DroppedTablesStay ==
  [][\A n \in Operations : Table(n) \in committed => Table(n) \in committed']_vars

\* The constructor of TemporaryTable asserts that its create table succeeds.
CreateTableSucceeds == ~clash

\* A thread that waits for the mutex gets an object or an exception.
EveryCallReturns ==
  \A t \in Threads : Waiting(t) ~> (~Waiting(t) \/ crashed)
=============================================================================
