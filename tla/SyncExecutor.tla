------------------------------ MODULE SyncExecutor ------------------------------
(* util/executor/impl/sync.cpp: tasks run in the call that brings them. A task,  *)
(* and what it returns, may bring tasks of their own, and may throw.             *)
EXTENDS Integers, Sequences, SequencesExt

CONSTANTS MaxTasks,  \* bound: tasks brought
          MaxNested  \* bound: calls within calls

VARIABLES calls,     \* the calls that have not returned, outermost first: what each does
          busy,      \* beforeExecute less afterExecute
          escaped,   \* tasks that threw
          tasks      \* tasks brought so far

vars == <<calls, busy, escaped, tasks>>

Init == calls = <<>> /\ busy = 0 /\ escaped = 0 /\ tasks = 0

Call ==
  /\ tasks < MaxTasks /\ Len(calls) < MaxNested
  /\ calls' = Append(calls, "task")
  /\ busy' = busy + 1 /\ tasks' = tasks + 1
  /\ UNCHANGED escaped

TaskReturns ==
  /\ calls # <<>> /\ Last(calls) = "task"
  /\ calls' = Append(Front(calls), "result")
  /\ UNCHANGED <<busy, escaped, tasks>>

ResultReturns ==
  /\ calls # <<>> /\ Last(calls) = "result"
  /\ calls' = Front(calls) /\ busy' = busy - 1
  /\ UNCHANGED <<escaped, tasks>>

\* The exception leaves the innermost call as it is, and meets its caller.
Throw ==
  /\ calls # <<>>
  /\ calls' = Front(calls) /\ escaped' = escaped + 1
  /\ UNCHANGED <<busy, tasks>>

Next == Call \/ TaskReturns \/ ResultReturns \/ Throw

-----------------------------------------------------------------------------
(* Properties                                                                *)

\* The busy indicator of the client stays up for nothing but calls in progress
\* and tasks that threw, one for one, however calls are nested.
BusyExplained == busy = Len(calls) + escaped
=============================================================================
