---------------------------- MODULE AsyncExecutor ----------------------------
(***************************************************************************)
(* util/executor/impl/async.cpp with util/FunctorExecutionForwarder.cpp:    *)
(* tasks are put into a multimap by priority, worker threads run them, and  *)
(* three functors per task -- beforeExecute, the task's result, and         *)
(* afterExecute -- are forwarded to the GUI thread through queued signals   *)
(* of one forwarder object.  Stop() and the destructor run in the GUI       *)
(* thread; the destructor leaves the forwarder to a zero timer, so that it  *)
(* is deleted only by the event loop.                                       *)
(*                                                                         *)
(* Tasks are numbered in the order operator() accepts them.                 *)
(***************************************************************************)
EXTENDS Integers, Sequences, FiniteSets

CONSTANTS TaskCount,        \* how many tasks are submitted, at most
          Priorities,       \* the non-zero priorities in use
          DefaultPriority,  \* what priority 0 stands for, 1024 in the code
          ThreadCount       \* min(max(cpus - 2, 1), maxThreadCount)

ASSUME CountsAssumption     == TaskCount \in Nat /\ ThreadCount \in Nat
ASSUME PrioritiesAssumption == /\ Priorities \subseteq Nat \ {0}
                               /\ DefaultPriority \in Priorities

Tasks   == 1 .. TaskCount
Workers == 1 .. ThreadCount
NoTask  == 0

VARIABLES queue,      \* m_tasks: of each priority, the tasks in insertion order
          submitted,  \* the last task accepted
          wpc,        \* where a worker is
          cur,        \* taskOpt of a worker, or NoTask
          stop,       \* the stop_token of each jthread
          joined,     \* how many jthreads m_threads.clear() has destroyed
          gui,        \* what the GUI thread is doing with the executor
          events,     \* functors posted to the forwarder, not yet executed
          forwarder,  \* the forwarder exists
          busy,       \* beforeExecute calls minus afterExecute calls, in the GUI
          returned,   \* history: tasks whose task() returned a result
          ended,      \* history: tasks a worker has done with
          delivered   \* history: how often each result was executed in the GUI

taskVars  == <<queue, submitted>>
stopVars  == <<stop, joined, gui>>
guiVars   == <<forwarder, busy, delivered>>
hisVars   == <<returned, ended>>
vars == <<taskVars, wpc, cur, stopVars, events, guiVars, hisVars>>

Queued == UNION {{queue[p][i] : i \in DOMAIN queue[p]} : p \in Priorities}
Asleep == {w \in Workers : wpc[w] = "asleep"}

-----------------------------------------------------------------------------
(* operator(): the whole body runs under the mutex, notify_one() included,   *)
(* so that one sleeping worker, if there is one, goes back to its predicate. *)

\* Mutant: the submission forgets notify_one().
NotifyNone == UNCHANGED wpc

NotifyOne ==
  IF Asleep = {} THEN UNCHANGED wpc
                 ELSE \E w \in Asleep : wpc' = [wpc EXCEPT ![w] = "getTask"]

\* Any thread may submit, a task of this executor too, as long as it lives.
Alive == gui \in {"loop", "stop"} \/ \E w \in Workers : wpc[w] = "task"

\* multimap::emplace() inserts behind the elements with an equal key.
Insert(s, t) == Append(s, t)

\* Displacing empties a priority; the default priority cannot be displaced by
\* passing 0, but it can by passing its number.
Submit(priority, displace) ==
  LET t    == submitted + 1
      key  == IF priority = 0 THEN DefaultPriority ELSE priority
      kept == IF priority # 0 /\ displace THEN <<>> ELSE queue[key]
  IN
  /\ Alive
  /\ t \in Tasks
  /\ submitted' = t
  /\ queue' = [queue EXCEPT ![key] = Insert(kept, t)]
  /\ NotifyOne
  /\ UNCHANGED <<cur, stopVars, events, guiVars, hisVars>>

-----------------------------------------------------------------------------
(* Work()                                                                    *)

\* A worker that leaves the loop calls onDestroy() and ends.
Loop(w) ==
  /\ wpc[w] = "loop"
  /\ wpc' = [wpc EXCEPT ![w] = IF stop[w] THEN "exited" ELSE "getTask"]
  /\ UNCHANGED <<taskVars, cur, stopVars, events, guiVars, hisVars>>

\* Mutant: m_tasks.erase(it) forgotten.
NoErase(p) == queue

EraseBegin(p) == [queue EXCEPT ![p] = Tail(@)]

\* m_tasks.begin(): the lowest priority number, its oldest task.
TakeTask(w) ==
  /\ wpc[w] = "getTask"
  /\ \E p \in Priorities :
       /\ queue[p] # <<>>
       /\ \A q \in Priorities : queue[q] # <<>> => p <= q
       /\ cur' = [cur EXCEPT ![w] = Head(queue[p])]
       /\ queue' = EraseBegin(p)
  /\ wpc' = [wpc EXCEPT ![w] = "before"]
  /\ UNCHANGED <<submitted, stopVars, events, guiVars, hisVars>>

NoTaskQueued == \A p \in Priorities : queue[p] = <<>>

Sleep(w) ==
  /\ wpc[w] = "getTask"
  /\ NoTaskQueued /\ ~stop[w]
  /\ wpc' = [wpc EXCEPT ![w] = "asleep"]
  /\ UNCHANGED <<taskVars, cur, stopVars, events, guiVars, hisVars>>

\* Mutant: if (!taskOpt) continue; forgotten.
NoContinue(w) ==
  /\ wpc[w] = "getTask"
  /\ NoTaskQueued /\ stop[w]
  /\ wpc' = [wpc EXCEPT ![w] = "before"]
  /\ UNCHANGED <<taskVars, cur, stopVars, events, guiVars, hisVars>>

\* Mutant: a wait() that was not given the stop_token.
SleepAgain(w) ==
  /\ wpc[w] = "getTask"
  /\ NoTaskQueued /\ stop[w]
  /\ wpc' = [wpc EXCEPT ![w] = "asleep"]
  /\ UNCHANGED <<taskVars, cur, stopVars, events, guiVars, hisVars>>

GiveUp(w) ==
  /\ wpc[w] = "getTask"
  /\ NoTaskQueued /\ stop[w]
  /\ wpc' = [wpc EXCEPT ![w] = "loop"]
  /\ UNCHANGED <<taskVars, cur, stopVars, events, guiVars, hisVars>>

Spurious(w) ==
  /\ wpc[w] = "asleep"
  /\ wpc' = [wpc EXCEPT ![w] = "getTask"]
  /\ UNCHANGED <<taskVars, cur, stopVars, events, guiVars, hisVars>>

ForwardBefore(w) ==
  /\ wpc[w] = "before"
  /\ events' = Append(events, <<"before", cur[w]>>)
  /\ wpc' = [wpc EXCEPT ![w] = "task"]
  /\ UNCHANGED <<taskVars, cur, stopVars, guiVars, hisVars>>

\* task() returns the functor that delivers its result, or throws.
Return(w) ==
  /\ wpc[w] = "task"
  /\ returned' = returned \cup {cur[w]}
  /\ wpc' = [wpc EXCEPT ![w] = "result"]
  /\ UNCHANGED <<taskVars, cur, stopVars, events, guiVars, ended>>

\* Mutant: an exception skips afterExecute, as it does in sync.cpp.
ThrowPastAfter(w) ==
  /\ wpc[w] = "task"
  /\ ended' = ended \cup {cur[w]}
  /\ cur' = [cur EXCEPT ![w] = NoTask]
  /\ wpc' = [wpc EXCEPT ![w] = "loop"]
  /\ UNCHANGED <<taskVars, stopVars, events, guiVars, returned>>

Throw(w) ==
  /\ wpc[w] = "task"
  /\ wpc' = [wpc EXCEPT ![w] = "after"]
  /\ UNCHANGED <<taskVars, cur, stopVars, events, guiVars, hisVars>>

ForwardResult(w) ==
  /\ wpc[w] = "result"
  /\ events' = Append(events, <<"result", cur[w]>>)
  /\ wpc' = [wpc EXCEPT ![w] = "after"]
  /\ UNCHANGED <<taskVars, cur, stopVars, guiVars, hisVars>>

ForwardAfter(w) ==
  /\ wpc[w] = "after"
  /\ events' = Append(events, <<"after", cur[w]>>)
  /\ ended' = ended \cup {cur[w]}
  /\ cur' = [cur EXCEPT ![w] = NoTask]
  /\ wpc' = [wpc EXCEPT ![w] = "loop"]
  /\ UNCHANGED <<taskVars, stopVars, guiVars, returned>>

-----------------------------------------------------------------------------
(* The GUI thread: Stop(), the destructor, and the event loop.               *)

\* A second Stop() finds no thread left and changes nothing.
BeginStop ==
  /\ gui = "loop"
  /\ joined < ThreadCount
  /\ gui' = "stop"
  /\ UNCHANGED <<taskVars, wpc, cur, stop, joined, events, guiVars, hisVars>>

BeginDestroy ==
  /\ gui = "loop"
  /\ gui' = "dtor"
  /\ UNCHANGED <<taskVars, wpc, cur, stop, joined, events, guiVars, hisVars>>

Stopping == gui \in {"stop", "dtor"}

StopCallback(w) ==
  IF w \in Asleep THEN [v \in Workers |-> IF v \in Asleep THEN "getTask" ELSE wpc[v]]
                  ELSE wpc

\* m_threads.clear(): of each jthread in turn, a request_stop(), whose callback
\* is a notify_all() if the worker is inside the wait, and a join().
RequestStop ==
  LET w == joined + 1 IN
  /\ Stopping
  /\ joined < ThreadCount
  /\ ~stop[w]
  /\ stop' = [stop EXCEPT ![w] = TRUE]
  /\ wpc' = StopCallback(w)
  /\ UNCHANGED <<taskVars, cur, joined, gui, events, guiVars, hisVars>>

Join ==
  LET w == joined + 1 IN
  /\ Stopping
  /\ joined < ThreadCount
  /\ stop[w] /\ wpc[w] = "exited"
  /\ joined' = w
  /\ UNCHANGED <<taskVars, wpc, cur, stop, gui, events, guiVars, hisVars>>

AllJoined == joined = ThreadCount

\* Stop() returns; or the destructor starts the zero timer and ends.
StopDone ==
  /\ Stopping
  /\ AllJoined
  /\ IF gui = "stop"
       THEN gui' = "loop" /\ UNCHANGED events
       ELSE gui' = "gone" /\ events' = Append(events, <<"delete", NoTask>>)
  /\ UNCHANGED <<taskVars, wpc, cur, stop, joined, guiVars, hisVars>>

\* The event loop executes posted functors in order; deleting the forwarder
\* drops the ones still posted to it.
Deliver ==
  /\ gui \in {"loop", "gone"}
  /\ forwarder /\ events # <<>>
  /\ LET kind == Head(events)[1]
         t    == Head(events)[2]
     IN /\ busy' = CASE kind = "before" -> busy + 1
                     [] kind = "after"  -> busy - 1
                     [] OTHER           -> busy
        /\ delivered' = IF kind = "result" THEN [delivered EXCEPT ![t] = @ + 1] ELSE delivered
        /\ forwarder' = (kind # "delete")
        /\ events' = IF kind = "delete" THEN <<>> ELSE Tail(events)
  /\ UNCHANGED <<taskVars, wpc, cur, stopVars, hisVars>>

-----------------------------------------------------------------------------
Init ==
  /\ queue = [p \in Priorities |-> <<>>]
  /\ submitted = 0
  /\ wpc = [w \in Workers |-> "loop"] /\ cur = [w \in Workers |-> NoTask]
  /\ stop = [w \in Workers |-> FALSE] /\ joined = 0
  /\ gui = "loop" /\ events = <<>> /\ forwarder = TRUE
  /\ busy = 0 /\ returned = {} /\ ended = {} /\ delivered = [t \in Tasks |-> 0]

WorkerStep(w) ==
  \/ Loop(w) \/ TakeTask(w) \/ Sleep(w) \/ GiveUp(w)
  \/ ForwardBefore(w) \/ Return(w) \/ Throw(w) \/ ForwardResult(w) \/ ForwardAfter(w)

Terminated ==
  /\ ~forwarder
  /\ UNCHANGED vars

Next ==
  \/ \E priority \in Priorities \cup {0}, displace \in BOOLEAN : Submit(priority, displace)
  \/ \E w \in Workers : WorkerStep(w) \/ Spurious(w)
  \/ BeginStop \/ BeginDestroy \/ RequestStop \/ Join \/ StopDone \/ Deliver
  \/ Terminated

Spec == Init /\ [][Next]_vars

\* Every worker thread keeps running and every task ends; the GUI thread goes
\* on with a Stop() it is in and with its event loop.  Nobody is obliged to
\* submit, to stop or to destroy anything.
Fairness ==
  /\ \A w \in Workers : WF_vars(WorkerStep(w))
  /\ WF_vars(RequestStop \/ Join \/ StopDone)
  /\ WF_vars(Deliver)

FairSpec == Spec /\ Fairness

-----------------------------------------------------------------------------
(* Properties                                                                *)

WorkerPc == {"loop", "getTask", "asleep", "before", "task", "result", "after", "exited"}
Kinds    == {"before", "result", "after", "delete"}

\* Every variable of the executor has its type, and a worker holds a task
\* exactly from the moment it takes it to its forwarded afterExecute.
TypeOK ==
  /\ queue \in [Priorities -> Seq(Tasks)]
  /\ submitted \in 0 .. TaskCount
  /\ wpc \in [Workers -> WorkerPc] /\ cur \in [Workers -> Tasks \cup {NoTask}]
  /\ stop \in [Workers -> BOOLEAN] /\ joined \in 0 .. ThreadCount
  /\ gui \in {"loop", "stop", "dtor", "gone"} /\ forwarder \in BOOLEAN
  /\ events \in Seq(Kinds \X (Tasks \cup {NoTask}))
  /\ busy \in Int /\ returned \in SUBSET Tasks /\ ended \in SUBSET Tasks
  /\ delivered \in [Tasks -> Nat]
  /\ \A w \in Workers :
       cur[w] # NoTask <=> wpc[w] \in {"before", "task", "result", "after"}

\* While a worker sleeps, each queued task has a woken worker of its own on the
\* way to it: submissions are never served one after the other by one worker
\* next to sleeping ones.
NoIdleWhileWork ==
  Asleep # {} => Cardinality(Queued) <= Cardinality({w \in Workers : wpc[w] = "getTask"})

\* In the GUI, the busy indicator that beforeExecute raises and afterExecute
\* lowers never drops below zero nor exceeds the number of workers, although
\* the workers' functors arrive interleaved and tasks may throw. When the
\* forwarder is deleted, every result that a task returned has been executed,
\* once, and every beforeExecute has had its afterExecute: the delete is posted
\* after the last functor of the last worker.
NothingLost ==
  /\ busy \in 0 .. ThreadCount
  /\ ~forwarder => /\ busy = 0
                   /\ \A t \in Tasks : delivered[t] = IF t \in returned THEN 1 ELSE 0

\* The executor implements the life cycle of tasks: what has been displaced
\* never runs, nothing runs twice, and no task vanishes except by displacement.
TaskState == [t \in Tasks |->
  IF t > submitted THEN "new"
  ELSE IF t \in Queued THEN "queued"
  ELSE IF \E w \in Workers : cur[w] = t THEN "running"
  ELSE IF t \in ended THEN "finished"
  ELSE "discarded"]

Lifecycle == INSTANCE TaskLifecycle WITH state <- TaskState

ImplementsLifecycle == Lifecycle!Spec

Pending == {t \in returned : delivered[t] = 0}

\* Stop() and the destructor return, whatever the workers are doing, and results
\* that tasks have returned are all executed in the GUI thread after a while,
\* through Stop() and through the destruction of the executor.
WorkEnds == (Stopping ~> ~Stopping) /\ (Pending # {} ~> Pending = {})
=============================================================================
