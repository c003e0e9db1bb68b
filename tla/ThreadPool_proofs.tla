-------------------------- MODULE ThreadPool_proofs --------------------------
(***************************************************************************)
(* What holds of ThreadPool for every number of clients, workers and tasks  *)
(* and every queue limit.                                                   *)
(***************************************************************************)
EXTENDS ThreadPool, SequenceTheorems, TLAPS

\* The head of a non-empty queue is a task, the rest is a queue.
LEMMA PopTyped == ASSUME tasks \in Seq(Tasks), tasks # <<>>
                  PROVE  Head(tasks) \in Tasks /\ Tail(tasks) \in Seq(Tasks)
OBVIOUS

\* Putting a task at either end of the queue gives a queue.
LEMMA PushTyped == ASSUME tasks \in Seq(Tasks), NEW t \in Tasks
                   PROVE  /\ <<t>> \o tasks \in Seq(Tasks) /\ Append(tasks, t) \in Seq(Tasks)
                          /\ Len(<<t>> \o tasks) = Len(tasks) + 1
                          /\ Len(Append(tasks, t)) = Len(tasks) + 1
OBVIOUS

\* Every step keeps the types.
LEMMA TypeStep == TypeOK /\ [Next]_vars => TypeOK'
<1> SUFFICES ASSUME TypeOK, [Next]_vars PROVE TypeOK'
  OBVIOUS
<1> USE ClientsAssumption, CountsAssumption, NoneAssumption
    DEF TypeOK, ClientPc, OwnerPc, WorkerPc, poolVars, ownerVars
<1>1. ASSUME NEW c \in Clients, NEW t \in Tasks, BeginEnqueue(c, t) PROVE TypeOK'
  BY <1>1 DEF BeginEnqueue
<1>2. ASSUME NEW c \in Clients, NEW h \in BOOLEAN, Push(c, h) PROVE TypeOK'
  <2>1. arg[c] \in Tasks
    BY <1>2 DEF Push
  <2>2. tasks' \in Seq(Tasks)
    BY <1>2, <2>1, PushTyped DEF Push
  <2>3. QED
    BY <1>2, <2>2 DEF Push
<1>3. ASSUME NEW c \in Clients, BlockFull(c) PROVE TypeOK'
  BY <1>3 DEF BlockFull
<1>4. ASSUME NEW c \in Clients, NEW w \in Workers, NotifyWorker(c, w) PROVE TypeOK'
  BY <1>4 DEF NotifyWorker, AsleepWorker, Woken
<1>5. ASSUME NEW c \in Clients, NEW d \in Clients, NotifyClient(c, d) PROVE TypeOK'
  BY <1>5 DEF NotifyClient, AsleepClient, Woken
<1>6. ASSUME NEW c \in Clients, NotifyNobody(c) PROVE TypeOK'
  BY <1>6 DEF NotifyNobody
<1>7. ASSUME NEW c \in Clients, SpuriousClient(c) PROVE TypeOK'
  BY <1>7 DEF SpuriousClient, AsleepClient, Woken
<1>8. ASSUME NEW w \in Workers, SpuriousWorker(w) PROVE TypeOK'
  BY <1>8 DEF SpuriousWorker, AsleepWorker, Woken
<1>9. CASE BeginWait
  BY <1>9 DEF BeginWait
<1>10. CASE BeginDestroy
  BY <1>10 DEF BeginDestroy
<1>11. CASE SeeEmpty
  <2>1. InProcess \subseteq Tasks /\ Queued = {}
    BY <1>11 DEF SeeEmpty, InProcess, Queued
  <2>2. QED
    BY <1>11, <2>1 DEF SeeEmpty
<1>12. CASE BlockBusy
  BY <1>12 DEF BlockBusy
<1>13. CASE RequestStop
  <2>1. joined + 1 \in Workers
    BY <1>13 DEF RequestStop, Workers
  <2>2. CASE AsleepWorker(joined + 1)
    BY <1>13, <2>1, <2>2 DEF RequestStop, StopCallback, WakeWorkers, WakeClients, Woken
  <2>3. CASE ~AsleepWorker(joined + 1)
    BY <1>13, <2>1, <2>3 DEF RequestStop, StopCallback
  <2>4. QED
    BY <2>2, <2>3
<1>14. CASE Join
  BY <1>14 DEF Join, Clearing
<1>15. CASE ClearDone
  BY <1>15 DEF ClearDone, Clearing
<1>16. ASSUME NEW w \in Workers, WorkerStep(w) PROVE TypeOK'
  <2>1. CASE Loop(w)
    BY <2>1 DEF Loop
  <2>2. CASE TakeTask(w)
    <3>1. Head(tasks) \in Tasks /\ tasks' \in Seq(Tasks)
      BY <2>2, PopTyped DEF TakeTask, PopFront
    <3>2. QED
      BY <2>2, <3>1 DEF TakeTask, PopFront
  <2>3. CASE Sleep(w)
    BY <2>3 DEF Sleep
  <2>4. CASE GiveUp(w)
    BY <2>4 DEF GiveUp
  <2>5. CASE NotifyAll(w)
    BY <2>5 DEF NotifyAll, AfterGetTask, WakeWorkers, WakeClients, Woken
  <2>6. CASE Run(w)
    BY <2>6 DEF Run
  <2>7. QED
    BY <1>16, <2>1, <2>2, <2>3, <2>4, <2>5, <2>6 DEF WorkerStep
<1>17. CASE UNCHANGED vars
  BY <1>17 DEF vars
<1>18. QED
  BY <1>1, <1>2, <1>3, <1>4, <1>5, <1>6, <1>7, <1>8, <1>9, <1>10, <1>11, <1>12,
     <1>13, <1>14, <1>15, <1>16, <1>17
  DEF Next, EnqueueStep, OwnerStep, Terminated

\* Every variable of the pool keeps its type, and the program counters agree
\* with the tasks that clients and workers hold.
THEOREM TypeCorrect == Spec => []TypeOK
<1>1. Init => TypeOK
  BY ClientsAssumption, CountsAssumption, NoneAssumption
  DEF Init, TypeOK, ClientPc, OwnerPc, WorkerPc
<1>2. QED
  BY <1>1, TypeStep, PTL DEF Spec

-----------------------------------------------------------------------------
\* A step either is one of a client, of the owner or of a worker, or changes
\* nothing: the case split of the proofs below.
LEMMA Cases ==
  ASSUME [Next]_vars
  PROVE  \/ \E c \in Clients : \/ \E t \in Tasks : BeginEnqueue(c, t)
                               \/ \E h \in BOOLEAN : Push(c, h)
                               \/ BlockFull(c) \/ NotifyNobody(c) \/ SpuriousClient(c)
                               \/ \E w \in Workers : NotifyWorker(c, w)
                               \/ \E d \in Clients : NotifyClient(c, d)
         \/ BeginWait \/ BeginDestroy \/ SeeEmpty \/ BlockBusy
         \/ RequestStop \/ Join \/ ClearDone
         \/ \E w \in Workers : \/ Loop(w) \/ TakeTask(w) \/ Sleep(w) \/ GiveUp(w)
                               \/ NotifyAll(w) \/ Run(w) \/ SpuriousWorker(w)
         \/ UNCHANGED vars
<1>1. CASE \E c \in Clients : \E t \in Tasks : BeginEnqueue(c, t)
  BY <1>1
<1>2. CASE \E c \in Clients : EnqueueStep(c) \/ SpuriousClient(c)
  BY <1>2 DEF EnqueueStep
<1>3. CASE \E w \in Workers : WorkerStep(w) \/ SpuriousWorker(w)
  BY <1>3 DEF WorkerStep
<1>4. CASE BeginWait \/ BeginDestroy \/ OwnerStep \/ Terminated \/ UNCHANGED vars
  BY <1>4 DEF OwnerStep, Terminated
<1>5. QED
  BY <1>1, <1>2, <1>3, <1>4 DEF Next

\* A pop is the only step that makes room or empties the queue, and it leaves
\* its worker with a notify_all() to send.
LEMMA ForgottenStep == TypeOK /\ NoForgottenClient /\ [Next]_vars => NoForgottenClient'
<1> SUFFICES ASSUME TypeOK, NoForgottenClient, [Next]_vars,
                    NEW c \in Clients,
                    \/ cpc'[c] = "blocked" /\ Len(tasks') < MaxQueueSize
                    \/ cpc'[c] = "waiting" /\ tasks' = <<>>
             PROVE  \E w \in Workers : wpc'[w] = "notify"
  BY DEF NoForgottenClient
<1> USE ClientsAssumption, CountsAssumption
    DEF TypeOK, NoForgottenClient, poolVars, ownerVars
<1>1. ASSUME NEW b \in Clients, NEW t \in Tasks, BeginEnqueue(b, t)
      PROVE \E w \in Workers : wpc'[w] = "notify"
  BY <1>1 DEF BeginEnqueue
<1>2. ASSUME NEW b \in Clients, NEW h \in BOOLEAN, Push(b, h)
      PROVE \E w \in Workers : wpc'[w] = "notify"
  <2>1. arg[b] \in Tasks
    BY <1>2, NoneAssumption DEF Push
  <2>2. tasks' \in Seq(Tasks) /\ Len(tasks') = Len(tasks) + 1
    BY <1>2, <2>1, PushTyped DEF Push
  <2>3. QED
    BY <1>2, <2>2 DEF Push
<1>3. ASSUME NEW b \in Clients, BlockFull(b) \/ NotifyNobody(b) \/ SpuriousClient(b)
      PROVE \E w \in Workers : wpc'[w] = "notify"
  BY <1>3 DEF BlockFull, NotifyNobody, SpuriousClient, AsleepClient, Woken
<1>4. ASSUME NEW b \in Clients, NEW w \in Workers, NotifyWorker(b, w)
      PROVE \E v \in Workers : wpc'[v] = "notify"
  BY <1>4 DEF NotifyWorker, AsleepWorker, Woken
<1>5. ASSUME NEW b \in Clients, NEW d \in Clients, NotifyClient(b, d)
      PROVE \E w \in Workers : wpc'[w] = "notify"
  BY <1>5 DEF NotifyClient, AsleepClient, Woken
<1>6. ASSUME BeginWait \/ BeginDestroy \/ SeeEmpty \/ BlockBusy \/ Join \/ ClearDone
      PROVE \E w \in Workers : wpc'[w] = "notify"
  BY <1>6 DEF BeginWait, BeginDestroy, SeeEmpty, BlockBusy, Join, ClearDone, Clearing
<1>7. ASSUME RequestStop PROVE \E w \in Workers : wpc'[w] = "notify"
  <2>1. joined + 1 \in Workers
    BY <1>7 DEF RequestStop, Workers
  <2>2. CASE AsleepWorker(joined + 1)
    BY <1>7, <2>1, <2>2 DEF RequestStop, StopCallback, WakeWorkers, WakeClients, Woken
  <2>3. CASE ~AsleepWorker(joined + 1)
    BY <1>7, <2>3 DEF RequestStop, StopCallback
  <2>4. QED
    BY <2>2, <2>3
<1>8. ASSUME NEW w \in Workers, TakeTask(w) \/ GiveUp(w)
      PROVE \E v \in Workers : wpc'[v] = "notify"
  BY <1>8 DEF TakeTask, PopFront, GiveUp
<1>9. ASSUME NEW w \in Workers, NotifyAll(w) PROVE \E v \in Workers : wpc'[v] = "notify"
  BY <1>9 DEF NotifyAll, AfterGetTask, WakeClients, Woken
<1>10. ASSUME NEW w \in Workers, Loop(w) \/ Sleep(w) \/ Run(w) \/ SpuriousWorker(w)
       PROVE \E v \in Workers : wpc'[v] = "notify"
  BY <1>10 DEF Loop, Sleep, Run, SpuriousWorker, AsleepWorker, Woken
<1>11. CASE UNCHANGED vars
  BY <1>11 DEF vars
<1>12. QED
  BY <1>1, <1>2, <1>3, <1>4, <1>5, <1>6, <1>7, <1>8, <1>9, <1>10, <1>11, Cases

\* No client sleeps on a condition that has become true without the wakeup
\* already being under way, for any number of clients.
THEOREM ClientsNotForgotten == Spec => []NoForgottenClient
<1>1. Init => NoForgottenClient
  BY DEF Init, NoForgottenClient
<1>2. QED
  BY <1>1, ForgottenStep, TypeCorrect, PTL DEF Spec

-----------------------------------------------------------------------------
\* Why wait() drains: from the empty queue on, the promised tasks are done or
\* in the hands of a worker, and a jthread is destroyed only after its worker
\* has left the loop, without a task.
DrainInv ==
  /\ cpc[Owner] \in {"clear", "returned"} => promised \subseteq done \cup InProcess
  /\ \A w \in Workers : w <= joined => wpc[w] = "exited"
  /\ cpc[Owner] = "returned" => joined = ThreadCount

\* Every step keeps the drain invariant.
LEMMA DrainStep == TypeOK /\ TypeOK' /\ DrainInv /\ [Next]_vars => DrainInv'
<1> SUFFICES ASSUME TypeOK, TypeOK', DrainInv, [Next]_vars PROVE DrainInv'
  OBVIOUS
<1> USE ClientsAssumption, CountsAssumption, NoneAssumption
    DEF TypeOK, DrainInv, InProcess, poolVars, ownerVars
<1>1. ASSUME NEW c \in Clients,
             \/ \E t \in Tasks : BeginEnqueue(c, t)
             \/ \E h \in BOOLEAN : Push(c, h)
             \/ BlockFull(c) \/ NotifyNobody(c) \/ SpuriousClient(c)
      PROVE DrainInv'
  BY <1>1 DEF BeginEnqueue, Push, BlockFull, NotifyNobody, SpuriousClient,
              AsleepClient, Woken
<1>2. ASSUME NEW c \in Clients, NEW w \in Workers, NotifyWorker(c, w) PROVE DrainInv'
  BY <1>2 DEF NotifyWorker, AsleepWorker, Woken
<1>3. ASSUME NEW c \in Clients, NEW d \in Clients, NotifyClient(c, d) PROVE DrainInv'
  BY <1>3 DEF NotifyClient, AsleepClient, Woken
<1>4. ASSUME BeginWait \/ BeginDestroy \/ SeeEmpty \/ BlockBusy PROVE DrainInv'
  BY <1>4 DEF BeginWait, BeginDestroy, SeeEmpty, BlockBusy, Queued
<1>5. ASSUME RequestStop PROVE DrainInv'
  <2>1. joined + 1 \in Workers
    BY <1>5 DEF RequestStop, Workers
  <2>2. CASE AsleepWorker(joined + 1)
    BY <1>5, <2>1, <2>2 DEF RequestStop, StopCallback, WakeWorkers, WakeClients, Woken, Clearing
  <2>3. CASE ~AsleepWorker(joined + 1)
    BY <1>5, <2>3 DEF RequestStop, StopCallback
  <2>4. QED
    BY <2>2, <2>3
<1>6. ASSUME Join \/ ClearDone PROVE DrainInv'
  BY <1>6 DEF Join, ClearDone, Clearing, Workers
<1>7. ASSUME NEW w \in Workers, Loop(w) \/ Sleep(w) \/ GiveUp(w) \/ SpuriousWorker(w)
      PROVE DrainInv'
  BY <1>7 DEF Loop, Sleep, GiveUp, SpuriousWorker, AsleepWorker, Woken
<1>8. ASSUME NEW w \in Workers, TakeTask(w) PROVE DrainInv'
  <2>1. cur[w] = None /\ Head(tasks) \in Tasks
    BY <1>8, PopTyped DEF TakeTask, PopFront
  <2>2. InProcess \subseteq InProcess'
    BY <1>8, <2>1 DEF TakeTask, PopFront
  <2>3. QED
    BY <1>8, <2>2 DEF TakeTask, PopFront
<1>9. ASSUME NEW w \in Workers, NotifyAll(w) PROVE DrainInv'
  BY <1>9 DEF NotifyAll, AfterGetTask, WakeWorkers, WakeClients, Woken
<1>10. ASSUME NEW w \in Workers, Run(w) PROVE DrainInv'
  <2>1. done \cup InProcess \subseteq (done \cup InProcess)'
    BY <1>10 DEF Run
  <2>2. QED
    BY <1>10, <2>1 DEF Run
<1>11. CASE UNCHANGED vars
  BY <1>11 DEF vars
<1>12. QED
  BY <1>1, <1>2, <1>3, <1>4, <1>5, <1>6, <1>7, <1>8, <1>9, <1>10, <1>11, Cases

\* wait() returns only after every promised task has run and every worker has
\* left, whatever other clients enqueue meanwhile.
THEOREM WaitDrainsAlways == Spec => []WaitDrains
<1>1. Init => DrainInv
  BY ClientsAssumption, CountsAssumption DEF Init, DrainInv, Workers
<1>2. TypeOK /\ DrainInv => WaitDrains
  <2> SUFFICES ASSUME TypeOK, DrainInv, cpc[Owner] = "returned"
               PROVE  promised \subseteq done /\ \A w \in Workers : wpc[w] = "exited"
    BY DEF WaitDrains
  <2>1. \A w \in Workers : wpc[w] = "exited"
    BY CountsAssumption DEF DrainInv, Workers
  <2>2. InProcess = {}
    BY <2>1 DEF TypeOK, InProcess
  <2>3. QED
    BY <2>1, <2>2 DEF DrainInv
<1>3. QED
  BY <1>1, <1>2, DrainStep, TypeCorrect, PTL DEF Spec
-----------------------------------------------------------------------------
\* A client between the start of enqueue() or wait() and its last step keeps
\* such a client about, unless its notify_one() wakes a worker.
LEMMA StrandedStep ==
  ASSUME ThreadCount # 0, TypeOK, StrandedOnlyBehindAClient, [Next]_vars
  PROVE  StrandedOnlyBehindAClient'
<1> DEFINE Inside == {"enqueue", "blocked", "notify", "wait", "waiting"}
<1> SUFFICES ASSUME tasks' # <<>>, \A w \in Workers : wpc'[w] = "asleep"
             PROVE  \E c \in Clients : cpc'[c] \in Inside
  BY DEF StrandedOnlyBehindAClient, AllWorkersAsleep, AsleepWorker
<1> USE ClientsAssumption, CountsAssumption DEF TypeOK, poolVars, ownerVars
<1>0. 1 \in Workers
  BY DEF Workers
<1>1. ASSUME tasks # <<>>, \A w \in Workers : wpc[w] = "asleep"
      PROVE  \E c \in Clients : cpc[c] \in Inside
  BY <1>1 DEF StrandedOnlyBehindAClient, AllWorkersAsleep, AsleepWorker
<1>2. ASSUME NEW c \in Clients,
             \/ \E t \in Tasks : BeginEnqueue(c, t)
             \/ BlockFull(c) \/ SpuriousClient(c) \/ NotifyNobody(c)
      PROVE  \E d \in Clients : cpc'[d] \in Inside
  BY <1>0, <1>1, <1>2
  DEF BeginEnqueue, BlockFull, SpuriousClient, NotifyNobody, AsleepClient, AsleepWorker, Woken
<1>3. ASSUME NEW c \in Clients, NEW h \in BOOLEAN, Push(c, h)
      PROVE  \E d \in Clients : cpc'[d] \in Inside
  BY <1>3 DEF Push
<1>4. ASSUME NEW c \in Clients, NEW w \in Workers, NotifyWorker(c, w)
      PROVE  \E d \in Clients : cpc'[d] \in Inside
  BY <1>4 DEF NotifyWorker, AsleepWorker, Woken
<1>5. ASSUME NEW c \in Clients, NEW d \in Clients, NotifyClient(c, d)
      PROVE  \E e \in Clients : cpc'[e] \in Inside
  <2>1. cpc'[d] \in {"enqueue", "wait"}
    BY <1>5 DEF NotifyClient, AsleepClient, Woken
  <2>2. QED
    BY <2>1
<1>6. ASSUME BeginWait \/ BeginDestroy \/ SeeEmpty \/ BlockBusy \/ Join \/ ClearDone
      PROVE  \E d \in Clients : cpc'[d] \in Inside
  BY <1>1, <1>6 DEF BeginWait, BeginDestroy, SeeEmpty, BlockBusy, Join, ClearDone, Clearing
<1>7. ASSUME RequestStop PROVE \E d \in Clients : cpc'[d] \in Inside
  <2>1. joined + 1 \in Workers
    BY <1>7 DEF RequestStop, Workers
  <2>2. ~AsleepWorker(joined + 1)
    BY <1>7, <2>1 DEF RequestStop, StopCallback, WakeWorkers, AsleepWorker, Woken
  <2>3. QED
    BY <1>1, <1>7, <2>2 DEF RequestStop, StopCallback
<1>8. ASSUME NEW w \in Workers, Loop(w) \/ TakeTask(w) \/ Sleep(w) \/ GiveUp(w)
                                \/ NotifyAll(w) \/ Run(w) \/ SpuriousWorker(w)
      PROVE  \E d \in Clients : cpc'[d] \in Inside
  BY <1>8 DEF Loop, TakeTask, PopFront, Sleep, GiveUp, NotifyAll, AfterGetTask, WakeWorkers, Run, SpuriousWorker,
              AsleepWorker, Woken
<1>9. CASE UNCHANGED vars
  BY <1>1, <1>9 DEF vars
<1>10. QED
  BY <1>2, <1>3, <1>4, <1>5, <1>6, <1>7, <1>8, <1>9, Cases

\* In a pool with at least one worker, a queued task is left to sleeping workers
\* only while some client is inside enqueue() or wait(), for any number of them.
THEOREM StrandedAlways ==
  ASSUME ThreadCount # 0 PROVE Spec => []StrandedOnlyBehindAClient
<1>1. Init => StrandedOnlyBehindAClient
  BY DEF Init, StrandedOnlyBehindAClient
<1>2. TypeOK /\ StrandedOnlyBehindAClient /\ [Next]_vars => StrandedOnlyBehindAClient'
  BY StrandedStep
<1>3. QED
  BY <1>1, <1>2, TypeCorrect, PTL DEF Spec

\* No step makes a client one that never calls.
LEMMA AloneStep ==
  ASSUME TypeOK, [Next]_vars, OwnerCallsAlone' PROVE OwnerCallsAlone
<1> SUFFICES ASSUME NEW c \in Clients, cpc'[c] = "absent" PROVE cpc[c] = "absent"
  BY DEF OwnerCallsAlone
<1> USE ClientsAssumption DEF TypeOK, ClientPc, poolVars, ownerVars
<1>1. ASSUME NEW b \in Clients,
             \/ \E t \in Tasks : BeginEnqueue(b, t)
             \/ \E h \in BOOLEAN : Push(b, h)
             \/ BlockFull(b) \/ SpuriousClient(b) \/ NotifyNobody(b)
             \/ \E w \in Workers : NotifyWorker(b, w)
             \/ \E d \in Clients : NotifyClient(b, d)
      PROVE  cpc[c] = "absent"
  BY <1>1
  DEF BeginEnqueue, Push, BlockFull, SpuriousClient, NotifyNobody, NotifyWorker, NotifyClient,
      AsleepClient, Woken
<1>2. ASSUME \/ BeginWait \/ BeginDestroy \/ SeeEmpty \/ BlockBusy
             \/ RequestStop \/ Join \/ ClearDone
      PROVE  cpc[c] = "absent"
  BY <1>2 DEF BeginWait, BeginDestroy, SeeEmpty, BlockBusy, RequestStop, StopCallback,
              WakeClients, Woken, Join, ClearDone, Clearing
<1>3. ASSUME NEW w \in Workers, Loop(w) \/ TakeTask(w) \/ Sleep(w) \/ GiveUp(w)
                                \/ NotifyAll(w) \/ Run(w) \/ SpuriousWorker(w)
      PROVE  cpc[c] = "absent"
  BY <1>3 DEF Loop, TakeTask, Sleep, GiveUp, NotifyAll, WakeClients, Woken, Run, SpuriousWorker
<1>4. CASE UNCHANGED vars
  BY <1>4 DEF vars
<1>5. QED
  BY <1>1, <1>2, <1>3, <1>4, Cases

\* With the owner as the only client that calls, the notify_one() of an
\* enqueue() finds no sleeper but workers.
LEMMA WakeupStep ==
  ASSUME ThreadCount # 0, TypeOK, TypeOK', NoLostWakeup, [Next]_vars
  PROVE  NoLostWakeup'
<1> SUFFICES ASSUME OwnerCallsAlone', tasks' # <<>>, \A w \in Workers : wpc'[w] = "asleep"
             PROVE  cpc'[Owner] = "notify"
  BY DEF NoLostWakeup, AllWorkersAsleep, AsleepWorker
<1> USE CountsAssumption DEF TypeOK, poolVars, ownerVars
<1>0. 1 \in Workers /\ OwnerCallsAlone
  BY AloneStep DEF Workers
<1>a. \A c \in Clients \ {Owner} : cpc[c] = "absent"
  BY <1>0 DEF OwnerCallsAlone
<1>1. ASSUME tasks # <<>>, \A w \in Workers : wpc[w] = "asleep"
      PROVE  cpc[Owner] = "notify"
  BY <1>0, <1>1 DEF NoLostWakeup, AllWorkersAsleep, AsleepWorker
<1>2. ASSUME NEW c \in Clients,
             \/ \E t \in Tasks : BeginEnqueue(c, t)
             \/ \E h \in BOOLEAN : Push(c, h)
             \/ BlockFull(c) \/ SpuriousClient(c) \/ NotifyNobody(c)
             \/ \E w \in Workers : NotifyWorker(c, w)
             \/ \E d \in Clients : NotifyClient(c, d)
      PROVE  cpc'[Owner] = "notify"
  BY <1>0, <1>a, <1>1, <1>2
  DEF BeginEnqueue, Push, BlockFull, SpuriousClient, NotifyNobody, NotifyWorker, NotifyClient,
      AsleepClient, AsleepWorker, Woken
<1>3. ASSUME BeginWait \/ BeginDestroy \/ SeeEmpty \/ BlockBusy \/ Join \/ ClearDone
      PROVE  cpc'[Owner] = "notify"
  BY <1>1, <1>3 DEF BeginWait, BeginDestroy, SeeEmpty, BlockBusy, Join, ClearDone, Clearing
<1>4. ASSUME RequestStop PROVE cpc'[Owner] = "notify"
  <2>1. joined + 1 \in Workers
    BY <1>4 DEF RequestStop, Workers
  <2>2. ~AsleepWorker(joined + 1)
    BY <1>4, <2>1 DEF RequestStop, StopCallback, WakeWorkers, AsleepWorker, Woken
  <2>3. QED
    BY <1>1, <1>4, <2>2 DEF RequestStop, StopCallback
<1>5. ASSUME NEW w \in Workers, Loop(w) \/ TakeTask(w) \/ Sleep(w) \/ GiveUp(w)
                                \/ NotifyAll(w) \/ Run(w) \/ SpuriousWorker(w)
      PROVE  cpc'[Owner] = "notify"
  BY <1>5 DEF Loop, TakeTask, PopFront, Sleep, GiveUp, NotifyAll, AfterGetTask, WakeWorkers, Run, SpuriousWorker,
              AsleepWorker, Woken
<1>6. CASE UNCHANGED vars
  BY <1>1, <1>6 DEF vars
<1>7. QED
  BY <1>2, <1>3, <1>4, <1>5, <1>6, Cases

\* No wakeup is lost while one thread makes all the calls, whatever the number
\* of workers and the queue limit.
THEOREM WakeupAlways ==
  ASSUME ThreadCount # 0 PROVE Spec => []NoLostWakeup
<1>1. Init => NoLostWakeup
  BY DEF Init, NoLostWakeup
<1>2. TypeOK /\ TypeOK' /\ NoLostWakeup /\ [Next]_vars => NoLostWakeup'
  BY WakeupStep
<1>3. QED
  BY <1>1, <1>2, TypeCorrect, PTL DEF Spec

-----------------------------------------------------------------------------
\* No client, and no worker next to a queued task, sleeps unless a wakeup is under
\* way or was spent on a client that is still inside the pool.
THEOREM SleepersWokenAlways ==
  ASSUME ThreadCount # 0 PROVE Spec => []SleepersWoken
<1>1. NoForgottenClient /\ StrandedOnlyBehindAClient => SleepersWoken
  BY DEF SleepersWoken
<1>2. QED
  BY <1>1, ClientsNotForgotten, StrandedAlways, PTL

-----------------------------------------------------------------------------
(* The pool implements TaskLifecycle, step by step.                          *)

Carried(t) == \E c \in Clients : arg[c] = t
Held(t)    == \E w \in Workers : cur[w] = t

\* Every task is at one place: not enqueued yet, with the client that enqueues
\* it, at one position of the queue, with one worker, or done.
OnePlace ==
  /\ \A t \in unsent : ~Carried(t) /\ ~Held(t) /\ t \notin Queued /\ t \notin done
  /\ \A t \in Tasks : Carried(t) => ~Held(t) /\ t \notin Queued /\ t \notin done
  /\ \A t \in Tasks : Held(t) => t \notin Queued /\ t \notin done
  /\ \A t \in Queued : t \notin done
  /\ \A c, d \in Clients : arg[c] = arg[d] => c = d \/ arg[c] = None
  /\ \A v, w \in Workers : cur[v] = cur[w] => v = w \/ cur[v] = None
  /\ \A i, j \in 1 .. Len(tasks) : tasks[i] = tasks[j] => i = j

\* Pushing a task to either end of the queue.
LEMMA PushPlaces ==
  ASSUME TypeOK, OnePlace, NEW c \in Clients, NEW h \in BOOLEAN, Push(c, h)
  PROVE  /\ arg[c] \in Tasks
         /\ \A t \in Tasks : Carried(t) <=> Carried(t)' \/ t = arg[c]
         /\ ~ \E d \in Clients : arg'[d] = arg[c]
         /\ Queued' = Queued \cup {arg[c]}
         /\ \A i, j \in 1 .. Len(tasks') : tasks'[i] = tasks'[j] => i = j
<1>1. arg[c] \in Tasks /\ arg' = [arg EXCEPT ![c] = None]
  BY NoneAssumption DEF Push, TypeOK
<1>2. (\A t \in Tasks : Carried(t) <=> Carried(t)' \/ t = arg[c]) /\ ~ \E d \in Clients : arg'[d] = arg[c]
  BY <1>1, NoneAssumption DEF Carried, TypeOK, OnePlace
<1>3. tasks \in Seq(Tasks) /\ Len(tasks) \in Nat /\ DOMAIN tasks = 1 .. Len(tasks)
  BY LenProperties DEF TypeOK
<1>4. arg[c] \notin Queued
  BY <1>1 DEF OnePlace, Carried
<1>5. \A i \in 1 .. Len(tasks) : tasks[i] \in Queued
  BY <1>3 DEF Queued
<1>6. CASE h
  <2>1. tasks' = <<arg[c]>> \o tasks
    BY <1>6 DEF Push
  <2>2. <<arg[c]>> \in Seq(Tasks) /\ Len(<<arg[c]>>) = 1
    BY <1>1
  <2>3. /\ tasks' \in Seq(Tasks) /\ Len(tasks') = Len(tasks) + 1 /\ tasks'[1] = arg[c]
        /\ \A i \in 2 .. Len(tasks) + 1 : tasks'[i] = tasks[i - 1]
    BY <1>3, <2>1, <2>2, ConcatProperties
  <2>4. DOMAIN tasks' = 1 .. Len(tasks) + 1
    BY <2>3, LenProperties
  <2>5. \A i \in DOMAIN tasks' : i = 1 \/ (i - 1 \in 1 .. Len(tasks) /\ i \in 2 .. Len(tasks) + 1)
    BY <1>3, <2>4
  <2>6. \A i \in 1 .. Len(tasks) : i + 1 \in DOMAIN tasks' /\ tasks'[i + 1] = tasks[i]
    BY <1>3, <2>3, <2>4
  <2>7. 1 \in DOMAIN tasks'
    BY <1>3, <2>4
  <2>8. Queued' = Queued \cup {arg[c]}
    <3>1. ASSUME NEW t \in Queued' PROVE t \in Queued \cup {arg[c]}
      <4>1. PICK i \in DOMAIN tasks' : tasks'[i] = t
        BY DEF Queued
      <4>2. t = arg[c] \/ (i - 1 \in DOMAIN tasks /\ tasks[i - 1] = t)
        BY <1>3, <2>3, <2>5, <4>1
      <4>3. QED
        BY <4>2 DEF Queued
    <3>2. Queued \subseteq Queued'
      BY <1>3, <2>6 DEF Queued
    <3>3. arg[c] \in Queued'
      BY <2>3, <2>7 DEF Queued
    <3>4. QED
      BY <3>1, <3>2, <3>3
  <2>9. ASSUME NEW i \in 1 .. Len(tasks'), NEW j \in 1 .. Len(tasks'), tasks'[i] = tasks'[j]
        PROVE  i = j
    <3>1. i \in DOMAIN tasks' /\ j \in DOMAIN tasks'
      BY <2>3, <2>4
    <3>2. CASE i = 1 /\ j # 1
      BY <1>4, <1>5, <2>3, <2>5, <2>9, <3>1, <3>2
    <3>3. CASE i # 1 /\ j = 1
      BY <1>4, <1>5, <2>3, <2>5, <2>9, <3>1, <3>3
    <3>4. CASE i # 1 /\ j # 1
      <4>1. /\ i - 1 \in 1 .. Len(tasks) /\ j - 1 \in 1 .. Len(tasks)
            /\ tasks[i - 1] = tasks[j - 1]
        BY <2>3, <2>5, <2>9, <3>1, <3>4
      <4>2. i - 1 = j - 1
        BY <4>1 DEF OnePlace
      <4>3. QED
        BY <4>2
    <3>5. QED
      BY <3>2, <3>3, <3>4
  <2>10. QED
    BY <1>1, <1>2, <2>8, <2>9
<1>7. CASE ~h
  <2>1. tasks' = Append(tasks, arg[c])
    BY <1>7 DEF Push
  <2>2. /\ tasks' \in Seq(Tasks) /\ Len(tasks') = Len(tasks) + 1
        /\ tasks'[Len(tasks) + 1] = arg[c]
        /\ \A i \in 1 .. Len(tasks) : tasks'[i] = tasks[i]
    BY <1>1, <1>3, <2>1, AppendProperties
  <2>3. DOMAIN tasks' = 1 .. Len(tasks) + 1
    BY <2>2, LenProperties
  <2>4. \A i \in DOMAIN tasks' : i = Len(tasks) + 1 \/ i \in 1 .. Len(tasks)
    BY <1>3, <2>3
  <2>5. Len(tasks) + 1 \in DOMAIN tasks' /\ \A i \in 1 .. Len(tasks) : i \in DOMAIN tasks'
    BY <1>3, <2>3
  <2>6. Queued' = Queued \cup {arg[c]}
    BY <1>3, <2>2, <2>4, <2>5 DEF Queued
  <2>7. \A i, j \in 1 .. Len(tasks') : tasks'[i] = tasks'[j] => i = j
    BY <1>4, <1>5, <2>2, <2>3, <2>4 DEF OnePlace
  <2>8. QED
    BY <1>1, <1>2, <2>6, <2>7
<1>8. QED
  BY <1>6, <1>7

\* Taking a task from the front.
LEMMA TakePlaces ==
  ASSUME TypeOK, OnePlace, NEW w \in Workers, TakeTask(w)
  PROVE  \E t \in Tasks :
           /\ t \in Queued /\ Queued' = Queued \ {t} /\ cur' = [cur EXCEPT ![w] = t]
           /\ \A i, j \in 1 .. Len(tasks') : tasks'[i] = tasks'[j] => i = j
<1>1. /\ tasks \in Seq(Tasks) /\ tasks # <<>> /\ Len(tasks) \in Nat \ {0}
      /\ DOMAIN tasks = 1 .. Len(tasks)
  BY LenProperties, EmptySeq DEF TypeOK, TakeTask
<1>2. tasks' = Tail(tasks) /\ cur' = [cur EXCEPT ![w] = Head(tasks)]
  BY DEF TakeTask, PopFront
<1>3. /\ Head(tasks) = tasks[1] /\ Head(tasks) \in Tasks
      /\ tasks' \in Seq(Tasks) /\ Len(tasks') = Len(tasks) - 1
      /\ \A i \in 1 .. Len(tasks) - 1 : tasks'[i] = tasks[i + 1]
  BY <1>1, <1>2, HeadTailProperties
<1>4. DOMAIN tasks' = 1 .. Len(tasks) - 1
  BY <1>3, LenProperties
<1>5. \A i \in 1 .. Len(tasks') : /\ i + 1 \in 1 .. Len(tasks) /\ i + 1 # 1
                                  /\ tasks'[i] = tasks[i + 1]
  BY <1>1, <1>3
<1>6. \A i \in 1 .. Len(tasks) : i = 1 \/ (i - 1 \in DOMAIN tasks' /\ tasks'[i - 1] = tasks[i])
  BY <1>1, <1>3, <1>4
<1>7. 1 \in 1 .. Len(tasks)
  BY <1>1
<1>8. \A i \in 1 .. Len(tasks) : tasks[i] = tasks[1] => i = 1
  BY <1>7 DEF OnePlace
<1>9. tasks[1] \in Queued
  BY <1>1, <1>7 DEF Queued
<1>10. ASSUME NEW t \in Queued' PROVE t \in Queued \ {tasks[1]}
  <2>1. PICK i \in 1 .. Len(tasks') : tasks'[i] = t
    BY <1>3, <1>4 DEF Queued
  <2>2. i + 1 \in 1 .. Len(tasks) /\ i + 1 # 1 /\ tasks[i + 1] = t
    BY <1>5, <2>1
  <2>3. QED
    BY <1>1, <1>8, <2>2 DEF Queued
<1>11. ASSUME NEW t \in Queued \ {tasks[1]} PROVE t \in Queued'
  <2>1. PICK i \in 1 .. Len(tasks) : tasks[i] = t
    BY <1>1 DEF Queued
  <2>2. i - 1 \in DOMAIN tasks' /\ tasks'[i - 1] = t
    BY <1>6, <2>1
  <2>3. QED
    BY <2>2 DEF Queued
<1>12. Queued' = Queued \ {tasks[1]}
  BY <1>10, <1>11
<1>13. ASSUME NEW i \in 1 .. Len(tasks'), NEW j \in 1 .. Len(tasks'), tasks'[i] = tasks'[j]
       PROVE  i = j
  <2>1. i + 1 = j + 1
    BY <1>5, <1>13 DEF OnePlace
  <2>2. QED
    BY <2>1
<1>14. QED
  BY <1>2, <1>3, <1>9, <1>12, <1>13

\* Every step keeps each task at one place.
LEMMA PlaceStep == TypeOK /\ TypeOK' /\ OnePlace /\ [Next]_vars => OnePlace'
<1> SUFFICES ASSUME TypeOK, TypeOK', OnePlace, [Next]_vars PROVE OnePlace'
  OBVIOUS
<1> USE NoneAssumption DEF poolVars, ownerVars
<1>0. /\ arg \in [Clients -> Tasks \cup {None}] /\ cur \in [Workers -> Tasks \cup {None}]
      /\ unsent \subseteq Tasks
  BY DEF TypeOK
<1>1. ASSUME UNCHANGED <<tasks, unsent, arg, cur, done>> PROVE OnePlace'
  BY <1>1 DEF OnePlace, Carried, Held, Queued
<1>2. ASSUME NEW c \in Clients, NEW t \in Tasks, BeginEnqueue(c, t) PROVE OnePlace'
  <2>1. /\ t \in unsent /\ unsent' = unsent \ {t} /\ arg' = [arg EXCEPT ![c] = t]
        /\ tasks' = tasks /\ done' = done /\ cur' = cur /\ Queued' = Queued /\ arg[c] = None
    BY <1>2 DEF BeginEnqueue, Queued, TypeOK
  <2>2. /\ \A s \in Tasks : Carried(s)' <=> Carried(s) \/ s = t
        /\ \A s \in Tasks : Held(s)' <=> Held(s)
    BY <1>0, <2>1 DEF Carried, Held
  <2>3. ~Carried(t) /\ ~Held(t) /\ t \notin Queued /\ t \notin done
    BY <2>1 DEF OnePlace
  <2>4. \A b, d \in Clients : arg'[b] = arg'[d] => b = d \/ arg'[b] = None
    BY <1>0, <2>1, <2>3 DEF OnePlace, Carried
  <2>5. QED
    BY <1>0, <2>1, <2>2, <2>3, <2>4 DEF OnePlace
<1>3. ASSUME NEW c \in Clients, NEW h \in BOOLEAN, Push(c, h) PROVE OnePlace'
  <2>1. /\ arg[c] \in Tasks
        /\ \A t \in Tasks : Carried(t) <=> Carried(t)' \/ t = arg[c]
        /\ ~ \E d \in Clients : arg'[d] = arg[c]
        /\ Queued' = Queued \cup {arg[c]}
        /\ \A i, j \in 1 .. Len(tasks') : tasks'[i] = tasks'[j] => i = j
    BY <1>3, PushPlaces
  <2>2. unsent' = unsent /\ done' = done /\ cur' = cur /\ arg' = [arg EXCEPT ![c] = None]
    BY <1>3 DEF Push
  <2>3. Carried(arg[c]) /\ ~Held(arg[c]) /\ arg[c] \notin done /\ arg[c] \notin unsent
    BY <1>0, <2>1 DEF OnePlace, Carried
  <2>4. \A t \in Tasks : Held(t)' <=> Held(t)
    BY <2>2 DEF Held
  <2>5. \A b, d \in Clients : arg'[b] = arg'[d] => b = d \/ arg'[b] = None
    BY <1>0, <2>2 DEF OnePlace
  <2>6. \A t \in Tasks : Carried(t)' => t # arg[c]
    BY <2>1 DEF Carried
  <2>7. QED
    BY <1>0, <2>1, <2>2, <2>3, <2>4, <2>5, <2>6 DEF OnePlace
<1>4. ASSUME NEW w \in Workers, TakeTask(w) PROVE OnePlace'
  <2>1. PICK t \in Tasks :
           /\ t \in Queued /\ Queued' = Queued \ {t} /\ cur' = [cur EXCEPT ![w] = t]
           /\ \A i, j \in 1 .. Len(tasks') : tasks'[i] = tasks'[j] => i = j
    BY <1>4, TakePlaces
  <2>2. unsent' = unsent /\ done' = done /\ arg' = arg /\ cur[w] = None
    BY <1>4 DEF TakeTask, TypeOK
  <2>3. /\ \A s \in Tasks : Carried(s)' <=> Carried(s)
        /\ \A s \in Tasks : Held(s)' <=> Held(s) \/ s = t
    BY <1>0, <2>1, <2>2 DEF Carried, Held
  <2>4. ~Carried(t) /\ ~Held(t) /\ t \notin done /\ t \notin unsent
    BY <2>1 DEF OnePlace
  <2>5. \A u, v \in Workers : cur'[u] = cur'[v] => u = v \/ cur'[u] = None
    BY <1>0, <2>1, <2>4 DEF OnePlace, Held
  <2>6. QED
    BY <1>0, <2>1, <2>2, <2>3, <2>4, <2>5 DEF OnePlace
<1>5. ASSUME NEW w \in Workers, Run(w) PROVE OnePlace'
  <2>1. /\ done' = done \cup {cur[w]} /\ cur' = [cur EXCEPT ![w] = None] /\ cur[w] \in Tasks
        /\ unsent' = unsent /\ arg' = arg /\ tasks' = tasks /\ Queued' = Queued
    BY <1>5 DEF Run, TypeOK, Queued
  <2>2. ~ \E v \in Workers : cur'[v] = cur[w]
    BY <1>0, <2>1 DEF OnePlace
  <2>3. /\ \A s \in Tasks : Carried(s)' <=> Carried(s)
        /\ \A s \in Tasks : Held(s)' => Held(s) /\ s # cur[w]
    BY <1>0, <2>1, <2>2 DEF Carried, Held
  <2>4. Held(cur[w]) /\ ~Carried(cur[w]) /\ cur[w] \notin Queued /\ cur[w] \notin unsent
    BY <2>1 DEF OnePlace, Held
  <2>5. \A u, v \in Workers : cur'[u] = cur'[v] => u = v \/ cur'[u] = None
    BY <1>0, <2>1 DEF OnePlace
  <2>6. QED
    BY <1>0, <2>1, <2>3, <2>4, <2>5 DEF OnePlace
<1>6. ASSUME NEW c \in Clients,
             \/ BlockFull(c) \/ NotifyNobody(c) \/ SpuriousClient(c)
             \/ \E w \in Workers : NotifyWorker(c, w)
             \/ \E d \in Clients : NotifyClient(c, d)
      PROVE  UNCHANGED <<tasks, unsent, arg, cur, done>>
  BY <1>6 DEF BlockFull, NotifyNobody, SpuriousClient, NotifyWorker, NotifyClient
<1>7. ASSUME BeginWait \/ BeginDestroy \/ SeeEmpty \/ BlockBusy \/ RequestStop \/ Join \/ ClearDone
      PROVE  UNCHANGED <<tasks, unsent, arg, cur, done>>
  BY <1>7 DEF BeginWait, BeginDestroy, SeeEmpty, BlockBusy, RequestStop, Join, ClearDone
<1>8. ASSUME NEW w \in Workers, Loop(w) \/ Sleep(w) \/ GiveUp(w) \/ NotifyAll(w) \/ SpuriousWorker(w)
      PROVE  UNCHANGED <<tasks, unsent, arg, cur, done>>
  BY <1>8 DEF Loop, Sleep, GiveUp, NotifyAll, SpuriousWorker
<1>9. CASE UNCHANGED vars
  BY <1>1, <1>9 DEF vars
<1>10. QED
  BY <1>1, <1>2, <1>3, <1>4, <1>5, <1>6, <1>7, <1>8, <1>9, Cases

\* Each task is at one place, in every state.
LEMMA PlacesKept == Spec => []OnePlace
<1>1. Init => OnePlace
  BY NoneAssumption DEF Init, OnePlace, Carried, Held, Queued
<1>2. QED
  BY <1>1, PlaceStep, TypeCorrect, PTL DEF Spec

Status(t) == IF t \in unsent \/ Carried(t) THEN "new"
             ELSE IF Held(t) THEN "running"
             ELSE IF t \in Queued THEN "queued"
             ELSE IF t \in done THEN "finished"
             ELSE "lost"

\* The abstract state, task by task.
LEMMA StateIsStatus ==
  /\ TaskState = [t \in Tasks |-> Status(t)]
  /\ TaskState' = [t \in Tasks |-> Status(t)']
  BY DEF TaskState, Status, Carried, Held

\* Calling enqueue() changes nothing of the life cycle yet.
LEMMA BeginRefines ==
  ASSUME TypeOK, OnePlace, NEW c \in Clients, NEW t \in Tasks, BeginEnqueue(c, t)
  PROVE  TaskState' = TaskState
<1>1. /\ t \in unsent /\ unsent' = unsent \ {t} /\ arg' = [arg EXCEPT ![c] = t]
      /\ tasks' = tasks /\ done' = done /\ cur' = cur /\ Queued' = Queued /\ arg[c] = None
  BY DEF BeginEnqueue, Queued, TypeOK, ownerVars
<1>2. /\ \A s \in Tasks : Carried(s)' <=> Carried(s) \/ s = t
      /\ \A s \in Tasks : Held(s)' <=> Held(s)
  BY <1>1, NoneAssumption DEF Carried, Held, TypeOK
<1>3. \A s \in Tasks : Status(s)' = Status(s)
  BY <1>1, <1>2 DEF Status
<1>4. QED
  BY <1>3, StateIsStatus

\* The push is the submission; it displaces nothing.
LEMMA PushRefines ==
  ASSUME TypeOK, OnePlace, NEW c \in Clients, NEW h \in BOOLEAN, Push(c, h)
  PROVE  \E t \in Tasks, displaced \in SUBSET Tasks : Lifecycle!Submit(t, displaced)
<1>1. PICK t \in Tasks : t = arg[c]
  BY PushPlaces
<1>2. /\ \A s \in Tasks : Carried(s) <=> Carried(s)' \/ s = t
      /\ ~Carried(t)' /\ Queued' = Queued \cup {t}
  BY <1>1, PushPlaces DEF Carried
<1>3. unsent' = unsent /\ done' = done /\ cur' = cur
  BY DEF Push, ownerVars
<1>4. \A s \in Tasks : Held(s)' <=> Held(s)
  BY <1>3 DEF Held
<1>5. ~Held(t) /\ t \notin unsent /\ Carried(t)
  BY <1>1 DEF OnePlace, Carried
<1>6. Status(t) = "new" /\ Status(t)' = "queued"
  BY <1>2, <1>3, <1>4, <1>5 DEF Status
<1>7. \A s \in Tasks \ {t} : Status(s)' = Status(s)
  BY <1>2, <1>3, <1>4 DEF Status
<1>8. /\ TaskState[t] = "new"
      /\ TaskState' = [s \in Tasks |-> IF s = t THEN "queued" ELSE IF s \in {} THEN "discarded"
                                       ELSE TaskState[s]]
  BY <1>6, <1>7, StateIsStatus
<1>9. Lifecycle!Submit(t, {})
  BY <1>8 DEF Lifecycle!Submit
<1>10. QED
  BY <1>9

\* A task that is taken is started.
LEMMA TakeRefines ==
  ASSUME TypeOK, OnePlace, NEW w \in Workers, TakeTask(w)
  PROVE  \E t \in Tasks : Lifecycle!Start(t)
<1>1. PICK t \in Tasks : t \in Queued /\ Queued' = Queued \ {t} /\ cur' = [cur EXCEPT ![w] = t]
  BY TakePlaces
<1>2. unsent' = unsent /\ done' = done /\ arg' = arg /\ cur[w] = None
  BY DEF TakeTask, TypeOK, ownerVars
<1>3. /\ \A s \in Tasks : Carried(s)' <=> Carried(s)
      /\ \A s \in Tasks : Held(s)' <=> Held(s) \/ s = t
  BY <1>1, <1>2, NoneAssumption DEF Carried, Held, TypeOK
<1>4. ~Carried(t) /\ ~Held(t) /\ t \notin unsent
  BY <1>1 DEF OnePlace
<1>5. Status(t) = "queued" /\ Status(t)' = "running"
  BY <1>1, <1>2, <1>3, <1>4 DEF Status
<1>6. \A s \in Tasks \ {t} : Status(s)' = Status(s)
  BY <1>1, <1>2, <1>3 DEF Status
<1>7. TaskState[t] = "queued" /\ TaskState' = [TaskState EXCEPT ![t] = "running"]
  BY <1>5, <1>6, StateIsStatus
<1>8. QED
  BY <1>7 DEF Lifecycle!Start

\* A task that has run is finished.
LEMMA RunRefines ==
  ASSUME TypeOK, OnePlace, NEW w \in Workers, Run(w)
  PROVE  \E t \in Tasks : Lifecycle!Finish(t)
<1>1. /\ done' = done \cup {cur[w]} /\ cur' = [cur EXCEPT ![w] = None] /\ cur[w] \in Tasks
      /\ unsent' = unsent /\ arg' = arg /\ tasks' = tasks /\ Queued' = Queued
  BY DEF Run, TypeOK, Queued, ownerVars
<1>2. PICK t \in Tasks : t = cur[w]
  BY <1>1
<1>3. /\ \A s \in Tasks : Carried(s)' <=> Carried(s)
      /\ \A s \in Tasks : Held(s) <=> Held(s)' \/ s = t
      /\ ~Held(t)'
  BY <1>1, <1>2, NoneAssumption DEF Carried, Held, TypeOK, OnePlace
<1>4. Held(t) /\ ~Carried(t) /\ t \notin Queued /\ t \notin unsent
  BY <1>2 DEF OnePlace, Held
<1>5. Status(t) = "running" /\ Status(t)' = "finished"
  BY <1>1, <1>2, <1>3, <1>4 DEF Status
<1>6. \A s \in Tasks \ {t} : Status(s)' = Status(s)
  BY <1>1, <1>2, <1>3 DEF Status
<1>7. TaskState[t] = "running" /\ TaskState' = [TaskState EXCEPT ![t] = "finished"]
  BY <1>5, <1>6, StateIsStatus
<1>8. QED
  BY <1>7 DEF Lifecycle!Finish

\* Every step is a step of the life cycle, or changes nothing of it.
LEMMA StepRefines ==
  TypeOK /\ OnePlace /\ [Next]_vars => [Lifecycle!Next]_TaskState
<1> SUFFICES ASSUME TypeOK, OnePlace, [Next]_vars PROVE Lifecycle!Next \/ TaskState' = TaskState
  OBVIOUS
<1> USE DEF poolVars, ownerVars
<1>1. ASSUME NEW c \in Clients, NEW t \in Tasks, BeginEnqueue(c, t) PROVE TaskState' = TaskState
  BY <1>1, BeginRefines
<1>2. ASSUME NEW c \in Clients, NEW h \in BOOLEAN, Push(c, h) PROVE Lifecycle!Next
  BY <1>2, PushRefines DEF Lifecycle!Next
<1>3. ASSUME NEW w \in Workers, TakeTask(w) PROVE Lifecycle!Next
  BY <1>3, TakeRefines DEF Lifecycle!Next
<1>4. ASSUME NEW w \in Workers, Run(w) PROVE Lifecycle!Next
  BY <1>4, RunRefines DEF Lifecycle!Next
<1>5. ASSUME UNCHANGED <<tasks, unsent, arg, cur, done>> PROVE TaskState' = TaskState
  BY <1>5 DEF TaskState, Queued
<1>6. ASSUME NEW c \in Clients,
             \/ BlockFull(c) \/ NotifyNobody(c) \/ SpuriousClient(c)
             \/ \E w \in Workers : NotifyWorker(c, w)
             \/ \E d \in Clients : NotifyClient(c, d)
      PROVE  UNCHANGED <<tasks, unsent, arg, cur, done>>
  BY <1>6 DEF BlockFull, NotifyNobody, SpuriousClient, NotifyWorker, NotifyClient
<1>7. ASSUME BeginWait \/ BeginDestroy \/ SeeEmpty \/ BlockBusy \/ RequestStop \/ Join \/ ClearDone
      PROVE  UNCHANGED <<tasks, unsent, arg, cur, done>>
  BY <1>7 DEF BeginWait, BeginDestroy, SeeEmpty, BlockBusy, RequestStop, Join, ClearDone
<1>8. ASSUME NEW w \in Workers, Loop(w) \/ Sleep(w) \/ GiveUp(w) \/ NotifyAll(w) \/ SpuriousWorker(w)
      PROVE  UNCHANGED <<tasks, unsent, arg, cur, done>>
  BY <1>8 DEF Loop, Sleep, GiveUp, NotifyAll, SpuriousWorker
<1>9. CASE UNCHANGED vars
  BY <1>5, <1>9 DEF vars
<1>10. QED
  BY <1>1, <1>2, <1>3, <1>4, <1>5, <1>6, <1>7, <1>8, <1>9, Cases

\* The pool implements the life cycle of tasks for any number of clients, tasks
\* and workers: none is lost, run twice or run without having been accepted.
THEOREM LifecycleImplemented == Spec => ImplementsLifecycle
<1>1. Init => Lifecycle!Init
  <2> SUFFICES ASSUME Init PROVE TaskState = [t \in Tasks |-> "new"]
    BY DEF Lifecycle!Init
  <2>1. \A t \in Tasks : Status(t) = "new"
    BY DEF Init, Status
  <2>2. QED
    BY <2>1, StateIsStatus
<1>2. QED
  BY <1>1, StepRefines, TypeCorrect, PlacesKept, PTL DEF Spec, ImplementsLifecycle, Lifecycle!Spec

=============================================================================
