------------------------------ MODULE ThreadPool ------------------------------
(***************************************************************************)
(* util/executor/ThreadPool.h: worker threads that take tasks from a deque, *)
(* client threads that call enqueue(), and the owner of the pool, a client  *)
(* that also calls wait() and the destructor.                               *)
(*                                                                         *)
(* One mutex and ONE condition variable serve three kinds of sleeper: a     *)
(* worker that wants a task, a client that wants room in the queue, and the *)
(* owner that wants an empty queue.  Every action below is either one       *)
(* critical section of m_tasksGuard (the predicate and what follows from it *)
(* up to the unlock, or up to going to sleep, which releases the mutex) or  *)
(* one step outside it.  In particular a notification is a step of its own: *)
(* the code sends it after the unlock.                                      *)
(***************************************************************************)
EXTENDS Naturals, Sequences

CONSTANTS Clients,       \* the threads that call enqueue()
          Owner,         \* the client that calls wait() and ~ThreadPool()
          Tasks,         \* each is enqueued at most once
          ThreadCount,   \* Initializer::threadCount
          MaxQueueSize,  \* Initializer::maxQueueSize
          None           \* the empty Task {}

ASSUME ClientsAssumption == Owner \in Clients
ASSUME CountsAssumption  == ThreadCount \in Nat /\ MaxQueueSize \in Nat \ {0}
ASSUME NoneAssumption    == None \notin Tasks

Workers == 1 .. ThreadCount

VARIABLES tasks,     \* m_tasks
          unsent,    \* the tasks no client has passed to enqueue() yet
          arg,       \* the argument of the enqueue() call a client is in
          cpc,       \* where a client is
          wpc,       \* where a worker is
          cur,       \* the task a worker has taken, or None
          stop,      \* the stop_token of each worker's jthread
          joined,    \* how many jthreads m_threads.clear() has destroyed
          done,      \* the tasks that have run to completion
          promised   \* history: accepted by the time wait() saw no task left

poolVars  == <<tasks, unsent, done>>
ownerVars == <<joined, promised>>
vars == <<tasks, unsent, arg, cpc, wpc, cur, stop, joined, done, promised>>

-----------------------------------------------------------------------------
(* The condition variable: the threads asleep on it, and what wakes them.    *)

AsleepClient(c) == cpc[c] \in {"blocked", "waiting"}
AsleepWorker(w) == wpc[w] = "asleep"

\* A woken thread goes back to the predicate it sleeps on.
Woken(p) == CASE p = "blocked" -> "enqueue"
              [] p = "waiting" -> "wait"
              [] p = "asleep"  -> "getTask"
              [] OTHER         -> p

WakeClients == [c \in Clients |-> Woken(cpc[c])]
WakeWorkers == [w \in Workers |-> Woken(wpc[w])]

\* A condition variable may wake a sleeper for no reason at all.
SpuriousClient(c) ==
  /\ AsleepClient(c)
  /\ cpc' = [cpc EXCEPT ![c] = Woken(@)]
  /\ UNCHANGED <<poolVars, ownerVars, arg, wpc, cur, stop>>

SpuriousWorker(w) ==
  /\ AsleepWorker(w)
  /\ wpc' = [wpc EXCEPT ![w] = Woken(@)]
  /\ UNCHANGED <<poolVars, ownerVars, arg, cpc, cur, stop>>

-----------------------------------------------------------------------------
(* enqueue()                                                                 *)

\* No call may start once the destructor runs: that would be the caller's bug.
Alive == cpc[Owner] \notin {"dtor", "gone"}

BeginEnqueue(c, t) ==
  /\ Alive
  /\ cpc[c] = "idle"
  /\ t \in unsent
  /\ unsent' = unsent \ {t}
  /\ arg' = [arg EXCEPT ![c] = t]
  /\ cpc' = [cpc EXCEPT ![c] = "enqueue"]
  /\ UNCHANGED <<tasks, done, ownerVars, wpc, cur, stop>>

Push(c, highPriority) ==
  /\ cpc[c] = "enqueue"
  /\ Len(tasks) < MaxQueueSize
  /\ tasks' = IF highPriority THEN <<arg[c]>> \o tasks ELSE Append(tasks, arg[c])
  /\ arg' = [arg EXCEPT ![c] = None]
  /\ cpc' = [cpc EXCEPT ![c] = "notify"]
  /\ UNCHANGED <<unsent, done, ownerVars, wpc, cur, stop>>

BlockFull(c) ==
  /\ cpc[c] = "enqueue"
  /\ Len(tasks) >= MaxQueueSize
  /\ cpc' = [cpc EXCEPT ![c] = "blocked"]
  /\ UNCHANGED <<poolVars, ownerVars, arg, wpc, cur, stop>>

\* notify_one() wakes any one sleeper, worker or client, if there is one.
NotifyWorker(c, w) ==
  /\ cpc[c] = "notify"
  /\ AsleepWorker(w)
  /\ wpc' = [wpc EXCEPT ![w] = Woken(@)]
  /\ cpc' = [cpc EXCEPT ![c] = "idle"]
  /\ UNCHANGED <<poolVars, ownerVars, arg, cur, stop>>

NotifyClient(c, d) ==
  /\ cpc[c] = "notify"
  /\ AsleepClient(d)
  /\ cpc' = [cpc EXCEPT ![c] = "idle", ![d] = Woken(@)]
  /\ UNCHANGED <<poolVars, ownerVars, arg, wpc, cur, stop>>

\* Mutant: enqueue() returns without notify_one().
SkipNotify(c) ==
  /\ cpc[c] = "notify"
  /\ cpc' = [cpc EXCEPT ![c] = "idle"]
  /\ UNCHANGED <<poolVars, ownerVars, arg, wpc, cur, stop>>

NotifyNobody(c) ==
  /\ cpc[c] = "notify"
  /\ \A w \in Workers : ~AsleepWorker(w)
  /\ \A d \in Clients : ~AsleepClient(d)
  /\ cpc' = [cpc EXCEPT ![c] = "idle"]
  /\ UNCHANGED <<poolVars, ownerVars, arg, wpc, cur, stop>>

-----------------------------------------------------------------------------
(* wait() and ~ThreadPool(): both end in the destruction of every jthread,   *)
(* first to last, each a request_stop() followed by a join().                *)

BeginWait ==
  /\ cpc[Owner] = "idle"
  /\ cpc' = [cpc EXCEPT ![Owner] = "wait"]
  /\ UNCHANGED <<poolVars, ownerVars, arg, wpc, cur, stop>>

Queued    == {tasks[i] : i \in DOMAIN tasks}
InProcess == {cur[w] : w \in {v \in Workers : cur[v] # None}}

SeeEmpty ==
  /\ cpc[Owner] = "wait"
  /\ tasks = <<>>
  /\ cpc' = [cpc EXCEPT ![Owner] = "clear"]
  /\ promised' = done \cup InProcess \cup Queued
  /\ UNCHANGED <<poolVars, arg, wpc, cur, stop, joined>>

BlockBusy ==
  /\ cpc[Owner] = "wait"
  /\ tasks # <<>>
  /\ cpc' = [cpc EXCEPT ![Owner] = "waiting"]
  /\ UNCHANGED <<poolVars, ownerVars, arg, wpc, cur, stop>>

\* The destructor needs every call on the pool to have returned.
BeginDestroy ==
  /\ cpc[Owner] \in {"idle", "returned"}
  /\ \A c \in Clients \ {Owner} : cpc[c] \in {"idle", "absent"}
  /\ cpc' = [cpc EXCEPT ![Owner] = "dtor"]
  /\ UNCHANGED <<poolVars, ownerVars, arg, wpc, cur, stop>>

Clearing == cpc[Owner] \in {"clear", "dtor"}

\* request_stop() runs the stop_callback of a worker that is inside the wait:
\* the callback is a notify_all() on the shared condition variable.
StopCallback(w) ==
  IF AsleepWorker(w) THEN wpc' = WakeWorkers /\ cpc' = WakeClients
                     ELSE UNCHANGED <<wpc, cpc>>

RequestStop ==
  LET w == joined + 1 IN
  /\ Clearing
  /\ joined < ThreadCount
  /\ ~stop[w]
  /\ stop' = [stop EXCEPT ![w] = TRUE]
  /\ StopCallback(w)
  /\ UNCHANGED <<poolVars, ownerVars, arg, cur>>

\* Mutant: the threads are detached instead of joined.
Detach ==
  /\ Clearing
  /\ joined < ThreadCount
  /\ stop[joined + 1]
  /\ joined' = joined + 1
  /\ UNCHANGED <<poolVars, promised, arg, cpc, wpc, cur, stop>>

Join ==
  LET w == joined + 1 IN
  /\ Clearing
  /\ joined < ThreadCount
  /\ stop[w] /\ wpc[w] = "exited"
  /\ joined' = w
  /\ UNCHANGED <<poolVars, promised, arg, cpc, wpc, cur, stop>>

ClearDone ==
  /\ Clearing
  /\ joined = ThreadCount
  /\ cpc' = [cpc EXCEPT ![Owner] = IF @ = "clear" THEN "returned" ELSE "gone"]
  /\ UNCHANGED <<poolVars, ownerVars, arg, wpc, cur, stop>>

-----------------------------------------------------------------------------
(* work(), getTask() and getTaskImpl()                                       *)

\* while (!stop.stop_requested())
Loop(w) ==
  /\ wpc[w] = "loop"
  /\ wpc' = [wpc EXCEPT ![w] = IF stop[w] THEN "exited" ELSE "getTask"]
  /\ UNCHANGED <<poolVars, ownerVars, arg, cpc, cur, stop>>

\* Mutant: m_tasks.pop_front() forgotten.
NoPop == tasks

PopFront == Tail(tasks)

\* The predicate decides, even after a stop request.
TakeTask(w) ==
  /\ wpc[w] = "getTask"
  /\ tasks # <<>>
  /\ cur' = [cur EXCEPT ![w] = Head(tasks)]
  /\ tasks' = PopFront
  /\ wpc' = [wpc EXCEPT ![w] = "notify"]
  /\ UNCHANGED <<unsent, done, ownerVars, arg, cpc, stop>>

Sleep(w) ==
  /\ wpc[w] = "getTask"
  /\ tasks = <<>>
  /\ ~stop[w]
  /\ wpc' = [wpc EXCEPT ![w] = "asleep"]
  /\ UNCHANGED <<poolVars, ownerVars, arg, cpc, cur, stop>>

GiveUp(w) ==
  /\ wpc[w] = "getTask"
  /\ tasks = <<>>
  /\ stop[w]
  /\ wpc' = [wpc EXCEPT ![w] = "notify"]
  /\ UNCHANGED <<poolVars, ownerVars, arg, cpc, cur, stop>>

\* Mutant: work() calls the task without testing it.
AlwaysRun(w) == "run"

\* if (const auto task = getTask(stop))
AfterGetTask(w) == IF cur[w] = None THEN "loop" ELSE "run"

\* Mutant: notify_all() left out of getTask().
NotifyNone(w) ==
  /\ wpc[w] = "notify"
  /\ wpc' = [wpc EXCEPT ![w] = AfterGetTask(w)]
  /\ UNCHANGED <<poolVars, ownerVars, arg, cpc, cur, stop>>

\* notify_all() at the end of getTask(), then task(t, stop) if there is one.
NotifyAll(w) ==
  /\ wpc[w] = "notify"
  /\ wpc' = [WakeWorkers EXCEPT ![w] = AfterGetTask(w)]
  /\ cpc' = WakeClients
  /\ UNCHANGED <<poolVars, ownerVars, arg, cur, stop>>

Run(w) ==
  /\ wpc[w] = "run"
  /\ done' = done \cup {cur[w]}
  /\ cur' = [cur EXCEPT ![w] = None]
  /\ wpc' = [wpc EXCEPT ![w] = "loop"]
  /\ UNCHANGED <<tasks, unsent, ownerVars, arg, cpc, stop>>

-----------------------------------------------------------------------------
\* Any of the other threads may be one that never calls the pool.
Init ==
  /\ tasks = <<>> /\ unsent = Tasks /\ done = {} /\ promised = {}
  /\ arg = [c \in Clients |-> None]
  /\ cpc \in [Clients -> {"idle", "absent"}] /\ cpc[Owner] = "idle"
  /\ wpc = [w \in Workers |-> "loop"] /\ cur = [w \in Workers |-> None]
  /\ stop = [w \in Workers |-> FALSE] /\ joined = 0

\* What the code of a thread does next, without the caller's choices.
EnqueueStep(c) ==
  \/ \E highPriority \in BOOLEAN : Push(c, highPriority)
  \/ BlockFull(c)
  \/ \E w \in Workers : NotifyWorker(c, w)
  \/ \E d \in Clients : NotifyClient(c, d)
  \/ NotifyNobody(c)

OwnerStep == SeeEmpty \/ BlockBusy \/ RequestStop \/ Join \/ ClearDone

WorkerStep(w) ==
  \/ Loop(w) \/ TakeTask(w) \/ Sleep(w) \/ GiveUp(w) \/ NotifyAll(w) \/ Run(w)

\* The pool is gone and nothing is left to do.
Terminated ==
  /\ cpc[Owner] = "gone"
  /\ UNCHANGED vars

Next ==
  \/ \E c \in Clients : \E t \in Tasks : BeginEnqueue(c, t)
  \/ \E c \in Clients : EnqueueStep(c) \/ SpuriousClient(c)
  \/ BeginWait \/ BeginDestroy \/ OwnerStep
  \/ \E w \in Workers : WorkerStep(w) \/ SpuriousWorker(w)
  \/ Terminated

Spec == Init /\ [][Next]_vars

\* A thread that can take its next step takes it: the operating system runs
\* every thread, a mutex held for a finite time is eventually acquired, and a
\* task returns.  No client is obliged to call anything, and no sleeper to
\* wake without a notification.
Fairness ==
  /\ \A c \in Clients : WF_vars(EnqueueStep(c))
  /\ WF_vars(OwnerStep)
  /\ \A w \in Workers : WF_vars(WorkerStep(w))

FairSpec == Spec /\ Fairness

-----------------------------------------------------------------------------
(* Properties                                                                *)

ClientPc == {"absent", "idle", "enqueue", "blocked", "notify",
             "wait", "waiting", "clear", "returned", "dtor", "gone"}
OwnerPc  == {"wait", "waiting", "clear", "returned", "dtor", "gone"}
WorkerPc == {"loop", "getTask", "asleep", "notify", "run", "exited"}

\* Every variable of the pool has its type; only the owner is in wait() or in
\* the destructor; a client carries a task exactly inside enqueue() and a
\* worker holds one exactly while it runs it.
TypeOK ==
  /\ tasks \in Seq(Tasks)
  /\ unsent \in SUBSET Tasks /\ done \in SUBSET Tasks /\ promised \in SUBSET Tasks
  /\ arg \in [Clients -> Tasks \cup {None}] /\ cpc \in [Clients -> ClientPc]
  /\ cur \in [Workers -> Tasks \cup {None}] /\ wpc \in [Workers -> WorkerPc]
  /\ stop \in [Workers -> BOOLEAN] /\ joined \in 0 .. ThreadCount
  /\ cpc[Owner] # "absent"
  /\ \A c \in Clients : /\ cpc[c] \in OwnerPc => c = Owner
                        /\ arg[c] # None <=> cpc[c] \in {"enqueue", "blocked"}
  /\ \A w \in Workers : /\ wpc[w] = "run" => cur[w] # None
                        /\ cur[w] # None => wpc[w] \in {"notify", "run"}

\* A client that sleeps in enqueue() although there is room again, or in wait()
\* although the queue is empty, is always about to be woken: the worker whose
\* pop made the difference still has its notify_all() to do.  It holds because
\* getTask() notifies all after every pop, outside the lock or not.
NoForgottenClient ==
  \A c \in Clients :
    \/ cpc[c] = "blocked" /\ Len(tasks) < MaxQueueSize
    \/ cpc[c] = "waiting" /\ tasks = <<>>
    => \E w \in Workers : wpc[w] = "notify"

AllWorkersAsleep == \A w \in Workers : AsleepWorker(w)

\* All calls on the pool come from the thread that owns it.
OwnerCallsAlone == \A c \in Clients \ {Owner} : cpc[c] = "absent"

\* While a task is queued and every worker sleeps, the notify_one() of the
\* enqueue() that pushed it is still to come.  True when all calls come from
\* one thread; with a second client the notification can wake that client.
NoLostWakeup ==
  OwnerCallsAlone /\ tasks # <<>> /\ AllWorkersAsleep => cpc[Owner] = "notify"

\* For any number of clients: a task can lie in the queue with every worker
\* asleep only while some client is inside enqueue() or wait(), that is, only
\* when the notify_one() meant for a worker was spent on another client.
StrandedOnlyBehindAClient ==
  tasks # <<>> /\ AllWorkersAsleep =>
    \E c \in Clients : cpc[c] \in {"enqueue", "blocked", "notify", "wait", "waiting"}

\* Nobody sleeps for good next to what he waits for, unless a client is inside.
SleepersWoken == NoForgottenClient /\ StrandedOnlyBehindAClient

\* wait() hands the contexts back only when every task accepted before it saw
\* the queue empty has run to completion, tasks still running at that moment
\* included, and no worker is left that could touch a context.
WaitDrains ==
  cpc[Owner] = "returned" => /\ promised \subseteq done
                             /\ \A w \in Workers : wpc[w] = "exited"

\* The detailed pool implements the life cycle of tasks: none is lost, run
\* twice, or run without having been accepted.
TaskState == [t \in Tasks |->
  IF t \in unsent \/ \E c \in Clients : arg[c] = t THEN "new"
  ELSE IF \E w \in Workers : cur[w] = t THEN "running"
  ELSE IF t \in Queued THEN "queued"
  ELSE IF t \in done THEN "finished"
  ELSE "lost"]

Lifecycle == INSTANCE TaskLifecycle WITH state <- TaskState

ImplementsLifecycle == Lifecycle!Spec

\* Every call returns: wait() and the destructor, which join the workers, and
\* enqueue(), which may have to wait for room in the queue.
EveryCallReturns ==
  /\ OwnerCallsAlone /\ cpc[Owner] = "wait" ~> cpc[Owner] = "returned"
  /\ OwnerCallsAlone /\ cpc[Owner] = "dtor" ~> cpc[Owner] = "gone"
  /\ OwnerCallsAlone /\ cpc[Owner] = "enqueue" ~> cpc[Owner] = "idle"

\* An accepted task runs, unless the pool is destroyed first.
AcceptedTaskRuns ==
  \A t \in Tasks : t \in Queued /\ OwnerCallsAlone ~> (t \in done \/ ~Alive)

\* While one thread makes all the calls, what has been begun comes to an end,
\* calls and tasks; with a second client the wakeups can go astray.
WorkEnds == EveryCallReturns /\ AcceptedTaskRuns
=============================================================================
