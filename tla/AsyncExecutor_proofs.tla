------------------------ MODULE AsyncExecutor_proofs ------------------------
(***************************************************************************)
(* What holds of the asynchronous executor for every number of tasks and    *)
(* worker threads and every set of priorities.                              *)
(***************************************************************************)
EXTENDS AsyncExecutor, FiniteSetTheorems, SequenceTheorems, TLAPS

Events == Kinds \X (Tasks \cup {NoTask})

\* A step is a submission, a step of a worker or one of the GUI thread.
LEMMA Cases ==
  ASSUME [Next]_vars
  PROVE  \/ \E priority \in Priorities \cup {0}, displace \in BOOLEAN : Submit(priority, displace)
         \/ \E w \in Workers : \/ Loop(w) \/ TakeTask(w) \/ Sleep(w) \/ GiveUp(w) \/ Spurious(w)
                               \/ ForwardBefore(w) \/ Return(w) \/ Throw(w)
                               \/ ForwardResult(w) \/ ForwardAfter(w)
         \/ BeginStop \/ BeginDestroy \/ RequestStop \/ Join \/ StopDone \/ Deliver
         \/ UNCHANGED vars
<1>1. CASE \E w \in Workers : WorkerStep(w) \/ Spurious(w)
  BY <1>1 DEF WorkerStep
<1>2. CASE Terminated
  BY <1>2 DEF Terminated
<1>3. QED
  BY <1>1, <1>2 DEF Next

\* The priority and the queue that a submission works on.
LEMMA SubmitTyped ==
  ASSUME TypeOK, NEW priority \in Priorities \cup {0}, NEW displace \in BOOLEAN,
         Submit(priority, displace)
  PROVE  \E key \in Priorities, kept \in Seq(Tasks) :
           /\ kept = <<>> \/ kept = queue[key]
           /\ submitted + 1 \in Tasks /\ submitted' = submitted + 1
           /\ queue' = [queue EXCEPT ![key] = Append(kept, submitted + 1)]
<1> DEFINE key  == IF priority = 0 THEN DefaultPriority ELSE priority
           kept == IF priority # 0 /\ displace THEN <<>> ELSE queue[key]
<1>1. key \in Priorities
  BY PrioritiesAssumption
<1>2. kept \in Seq(Tasks) /\ (kept = <<>> \/ kept = queue[key])
  BY <1>1 DEF TypeOK
<1>3. /\ submitted + 1 \in Tasks /\ submitted' = submitted + 1
      /\ queue' = [queue EXCEPT ![key] = Append(kept, submitted + 1)]
  BY DEF Submit, Insert
<1> HIDE DEF key, kept
<1>4. QED
  BY <1>1, <1>2, <1>3

\* What TakeTask finds at the front of a priority's queue.
LEMMA TakeTyped ==
  ASSUME TypeOK, NEW w \in Workers, TakeTask(w)
  PROVE  \E p \in Priorities :
           /\ queue[p] # <<>> /\ Head(queue[p]) \in Tasks /\ Tail(queue[p]) \in Seq(Tasks)
           /\ cur' = [cur EXCEPT ![w] = Head(queue[p])]
           /\ queue' = [queue EXCEPT ![p] = Tail(queue[p])]
<1>1. PICK p \in Priorities : /\ queue[p] # <<>>
                              /\ cur' = [cur EXCEPT ![w] = Head(queue[p])]
                              /\ queue' = EraseBegin(p)
  BY DEF TakeTask
<1>2. queue[p] \in Seq(Tasks)
  BY DEF TypeOK
<1>3. Head(queue[p]) \in Tasks /\ Tail(queue[p]) \in Seq(Tasks)
  BY <1>1, <1>2, HeadTailProperties
<1>4. QED
  BY <1>1, <1>3 DEF EraseBegin

\* Appending a functor to the event queue.
LEMMA AppendEvent ==
  ASSUME events \in Seq(Events), NEW e \in Events
  PROVE  /\ Append(events, e) \in Seq(Events)
         /\ Len(Append(events, e)) = Len(events) + 1
         /\ \A i \in 1 .. Len(events) : Append(events, e)[i] = events[i]
         /\ Append(events, e)[Len(events) + 1] = e
  BY AppendProperties

\* Taking the first functor from the event queue.
LEMMA TailEvents ==
  ASSUME events \in Seq(Events), events # <<>>
  PROVE  /\ Head(events) = events[1] /\ events[1] \in Events
         /\ Tail(events) \in Seq(Events) /\ Len(events) \in Nat \ {0}
         /\ Len(Tail(events)) = Len(events) - 1
         /\ \A i \in 1 .. Len(events) - 1 : Tail(events)[i] = events[i + 1]
<1>1. Len(events) \in Nat \ {0}
  BY LenProperties, EmptySeq
<1>2. QED
  BY <1>1, HeadTailProperties

\* Waking all workers keeps their program counters.
LEMMA StopCallbackTyped ==
  ASSUME TypeOK, NEW w \in Workers
  PROVE  /\ StopCallback(w) \in [Workers -> WorkerPc]
         /\ \A v \in Workers : \/ StopCallback(w)[v] = wpc[v]
                               \/ wpc[v] = "asleep" /\ StopCallback(w)[v] = "getTask"
         /\ \/ StopCallback(w) = wpc
            \/ \A v \in Workers : StopCallback(w)[v] # "asleep"
  BY DEF TypeOK, StopCallback, Asleep, WorkerPc

\* A submission wakes at most one sleeper.
LEMMA NotifyTyped ==
  ASSUME TypeOK, NotifyOne
  PROVE  /\ wpc' \in [Workers -> WorkerPc]
         /\ \A v \in Workers : wpc'[v] = wpc[v] \/ (wpc[v] = "asleep" /\ wpc'[v] = "getTask")
  BY DEF TypeOK, NotifyOne, Asleep, WorkerPc

\* What the event loop does with the first functor.
LEMMA DeliverTyped ==
  ASSUME TypeOK, Deliver
  PROVE  \E kind \in Kinds, t \in Tasks \cup {NoTask} :
           /\ events # <<>> /\ Head(events) = <<kind, t>>
           /\ forwarder /\ forwarder' = (kind # "delete")
           /\ events' = IF kind = "delete" THEN <<>> ELSE Tail(events)
           /\ busy' = CASE kind = "before" -> busy + 1
                        [] kind = "after"  -> busy - 1
                        [] OTHER           -> busy
           /\ delivered' = [u \in Tasks |-> IF kind = "result" /\ u = t THEN delivered[u] + 1
                                                                     ELSE delivered[u]]
<1> DEFINE kind == Head(events)[1]
           t    == Head(events)[2]
<1>1. events # <<>> /\ Head(events) \in Events
  BY TailEvents DEF Deliver, TypeOK, Events
<1>2. kind \in Kinds /\ t \in Tasks \cup {NoTask} /\ Head(events) = <<kind, t>>
  BY <1>1 DEF Events
<1>3. /\ forwarder /\ forwarder' = (kind # "delete")
      /\ events' = IF kind = "delete" THEN <<>> ELSE Tail(events)
      /\ busy' = CASE kind = "before" -> busy + 1
                   [] kind = "after"  -> busy - 1
                   [] OTHER           -> busy
      /\ delivered' = IF kind = "result" THEN [delivered EXCEPT ![t] = @ + 1] ELSE delivered
  BY DEF Deliver
<1> HIDE DEF kind, t
<1>4. delivered' = [u \in Tasks |-> IF kind = "result" /\ u = t THEN delivered[u] + 1
                                                              ELSE delivered[u]]
  <2>1. delivered \in [Tasks -> Nat]
    BY DEF TypeOK
  <2>2. CASE kind = "result"
    BY <1>3, <2>1, <2>2
  <2>3. CASE kind # "result"
    BY <1>3, <2>1, <2>3
  <2>4. QED
    BY <2>2, <2>3
<1>5. QED
  BY <1>1, <1>2, <1>3, <1>4

\* Every step keeps the types.
LEMMA TypeStep == TypeOK /\ [Next]_vars => TypeOK'
<1> SUFFICES ASSUME TypeOK, [Next]_vars PROVE TypeOK'
  OBVIOUS
<1> USE CountsAssumption DEF taskVars, stopVars, guiVars, hisVars
<1>0. NoTask \notin Tasks /\ events \in Seq(Events)
  BY DEF NoTask, Tasks, TypeOK, Events
<1>1. ASSUME NEW priority \in Priorities \cup {0}, NEW displace \in BOOLEAN,
             Submit(priority, displace)
      PROVE  TypeOK'
  <2>1. PICK key \in Priorities, kept \in Seq(Tasks) :
          /\ submitted + 1 \in Tasks /\ submitted' = submitted + 1
          /\ queue' = [queue EXCEPT ![key] = Append(kept, submitted + 1)]
    BY <1>1, SubmitTyped
  <2>2. Append(kept, submitted + 1) \in Seq(Tasks)
    BY <2>1, AppendProperties
  <2>3. queue' \in [Priorities -> Seq(Tasks)]
    BY <2>1, <2>2 DEF TypeOK
  <2>4. submitted' \in 0 .. TaskCount
    BY <2>1 DEF Tasks
  <2>5. /\ wpc' \in [Workers -> WorkerPc]
        /\ \A v \in Workers : wpc'[v] = wpc[v] \/ (wpc[v] = "asleep" /\ wpc'[v] = "getTask")
    BY <1>1, NotifyTyped DEF Submit
  <2>6. QED
    BY <1>1, <2>3, <2>4, <2>5 DEF Submit, TypeOK
<1>2. ASSUME NEW w \in Workers, Loop(w) \/ Sleep(w) \/ GiveUp(w) \/ Spurious(w)
                                \/ Return(w) \/ Throw(w)
      PROVE  TypeOK'
  BY <1>0, <1>2 DEF Loop, Sleep, GiveUp, Spurious, Return, Throw, TypeOK, WorkerPc
<1>3. ASSUME NEW w \in Workers, TakeTask(w) PROVE TypeOK'
  <2>1. PICK p \in Priorities :
           /\ Head(queue[p]) \in Tasks /\ Tail(queue[p]) \in Seq(Tasks)
           /\ cur' = [cur EXCEPT ![w] = Head(queue[p])]
           /\ queue' = [queue EXCEPT ![p] = Tail(queue[p])]
    BY <1>3, TakeTyped
  <2>2. queue' \in [Priorities -> Seq(Tasks)] /\ cur' \in [Workers -> Tasks \cup {NoTask}]
    BY <2>1 DEF TypeOK
  <2>3. QED
    BY <1>0, <1>3, <2>1, <2>2 DEF TakeTask, TypeOK, WorkerPc
<1>4. ASSUME NEW w \in Workers, NEW kind \in {"before", "result", "after"},
             wpc[w] = IF kind = "before" THEN "before" ELSE IF kind = "result" THEN "result" ELSE "after",
             events' = Append(events, <<kind, cur[w]>>)
      PROVE  events' \in Seq(Kinds \X (Tasks \cup {NoTask})) /\ cur[w] \in Tasks
  <2>1. cur[w] \in Tasks
    BY <1>4 DEF TypeOK
  <2>2. <<kind, cur[w]>> \in Events
    BY <2>1 DEF Events, Kinds
  <2>3. QED
    BY <1>0, <1>4, <2>1, <2>2, AppendEvent DEF Events
<1>5. ASSUME NEW w \in Workers, ForwardBefore(w) PROVE TypeOK'
  BY <1>4, <1>5 DEF ForwardBefore, TypeOK, WorkerPc
<1>6. ASSUME NEW w \in Workers, ForwardResult(w) PROVE TypeOK'
  BY <1>4, <1>6 DEF ForwardResult, TypeOK, WorkerPc
<1>7. ASSUME NEW w \in Workers, ForwardAfter(w) PROVE TypeOK'
  BY <1>0, <1>4, <1>7 DEF ForwardAfter, TypeOK, WorkerPc
<1>8. CASE BeginStop \/ BeginDestroy
  BY <1>8 DEF BeginStop, BeginDestroy, TypeOK
<1>9. CASE RequestStop
  <2>1. joined + 1 \in Workers
    BY <1>9 DEF RequestStop, Workers, TypeOK
  <2>2. stop' \in [Workers -> BOOLEAN]
    BY <1>9 DEF RequestStop, TypeOK
  <2>3. /\ wpc' \in [Workers -> WorkerPc]
        /\ \A v \in Workers : wpc'[v] = wpc[v] \/ (wpc[v] = "asleep" /\ wpc'[v] = "getTask")
    BY <1>9, <2>1, StopCallbackTyped DEF RequestStop
  <2>4. QED
    BY <1>9, <2>2, <2>3 DEF RequestStop, TypeOK
<1>10. CASE Join
  BY <1>10 DEF Join, TypeOK
<1>11. CASE StopDone
  <2>1. <<"delete", NoTask>> \in Events
    BY DEF Events, Kinds
  <2>2. Append(events, <<"delete", NoTask>>) \in Seq(Events)
    BY <1>0, <2>1, AppendEvent
  <2>3. QED
    BY <1>11, <2>2 DEF StopDone, TypeOK, Events
<1>12. CASE Deliver
  <2>1. events # <<>>
    BY <1>12 DEF Deliver
  <2>2. Tail(events) \in Seq(Events)
    BY <1>0, <2>1, TailEvents
  <2>3. events' \in Seq(Kinds \X (Tasks \cup {NoTask}))
    BY <1>12, <2>2 DEF Deliver, Events
  <2>4. busy' \in Int
    BY <1>12 DEF Deliver, TypeOK
  <2>5. delivered' \in [Tasks -> Nat]
    <3>1. PICK kind \in Kinds, t \in Tasks \cup {NoTask} :
            delivered' = [u \in Tasks |-> IF kind = "result" /\ u = t THEN delivered[u] + 1
                                                                     ELSE delivered[u]]
      BY <1>12, DeliverTyped
    <3>2. QED
      BY <3>1 DEF TypeOK
  <2>6. QED
    BY <1>12, <2>3, <2>4, <2>5 DEF Deliver, TypeOK
<1>13. CASE UNCHANGED vars
  BY <1>13 DEF vars, TypeOK
<1>14. QED
  BY <1>1, <1>2, <1>3, <1>5, <1>6, <1>7, <1>8, <1>9, <1>10, <1>11, <1>12, <1>13, Cases

\* Every variable of the executor keeps its type, and a worker holds a task
\* exactly from the moment it takes it to its forwarded afterExecute.
THEOREM TypeCorrect == Spec => []TypeOK
<1>1. Init => TypeOK
  BY CountsAssumption DEF Init, TypeOK, NoTask, WorkerPc, Tasks
<1>2. QED
  BY <1>1, TypeStep, PTL DEF Spec

-----------------------------------------------------------------------------
\* The queues hold accepted tasks, each at one place; a task that has been taken
\* is in no queue and in the hands of one worker, and is not ended twice.
TaskInv ==
  /\ \A p, q \in Priorities : \A i \in 1 .. Len(queue[p]), j \in 1 .. Len(queue[q]) :
       queue[p][i] = queue[q][j] => p = q /\ i = j
  /\ \A t \in Queued : t <= submitted /\ t \notin ended /\ \A w \in Workers : cur[w] # t
  /\ \A w \in Workers : cur[w] <= submitted /\ cur[w] \notin ended
  /\ \A v, w \in Workers : cur[v] = cur[w] => v = w \/ cur[v] = NoTask
  /\ \A t \in ended : t <= submitted

\* What is queued are tasks.
LEMMA QueuedTyped == TypeOK => Queued \subseteq Tasks
<1> SUFFICES ASSUME TypeOK PROVE Queued \subseteq Tasks
  OBVIOUS
<1>1. ASSUME NEW p \in Priorities, NEW i \in DOMAIN queue[p] PROVE queue[p][i] \in Tasks
  <2>1. queue[p] \in Seq(Tasks)
    BY DEF TypeOK
  <2>2. QED
    BY <2>1, LenProperties, ElementOfSeq
<1>2. QED
  BY <1>1 DEF Queued

\* The same of the next state.
LEMMA QueuedTypedNext == TypeOK' => Queued' \subseteq Tasks
<1>1. TypeOK' => (Queued \subseteq Tasks)'
  BY QueuedTyped, PTL
<1>2. QED
  BY <1>1

\* The positions after a submission: the new task, and positions of before.
LEMMA SubmitPositions ==
  ASSUME TypeOK, NEW priority \in Priorities \cup {0}, NEW displace \in BOOLEAN,
         Submit(priority, displace)
  PROVE  \E key \in Priorities :
           /\ submitted' = submitted + 1 /\ submitted' \in Tasks
           /\ \A q \in Priorities : \A i \in 1 .. Len(queue'[q]) :
                \/ queue'[q][i] = submitted' /\ q = key /\ i = Len(queue'[q])
                \/ i \in 1 .. Len(queue[q]) /\ queue'[q][i] = queue[q][i]
           /\ \E i \in 1 .. Len(queue'[key]) : queue'[key][i] = submitted'
<1>1. PICK key \in Priorities, kept \in Seq(Tasks) :
        /\ kept = <<>> \/ kept = queue[key]
        /\ submitted + 1 \in Tasks /\ submitted' = submitted + 1
        /\ queue' = [queue EXCEPT ![key] = Append(kept, submitted + 1)]
  BY SubmitTyped
<1>2. queue \in [Priorities -> Seq(Tasks)]
  BY DEF TypeOK
<1>3. /\ Len(Append(kept, submitted + 1)) = Len(kept) + 1 /\ Len(kept) \in Nat
      /\ \A i \in 1 .. Len(kept) : Append(kept, submitted + 1)[i] = kept[i]
      /\ Append(kept, submitted + 1)[Len(kept) + 1] = submitted + 1
  BY <1>1, AppendProperties, LenProperties
<1>4. kept = <<>> => Len(kept) = 0
  OBVIOUS
<1>5. queue'[key] = Append(kept, submitted + 1) /\ \A q \in Priorities \ {key} : queue'[q] = queue[q]
  BY <1>1, <1>2
<1>6. \A i \in 1 .. Len(queue'[key]) :
        \/ queue'[key][i] = submitted' /\ i = Len(queue'[key])
        \/ i \in 1 .. Len(queue[key]) /\ queue'[key][i] = queue[key][i]
  <2> TAKE i \in 1 .. Len(queue'[key])
  <2>1. CASE i = Len(kept) + 1
    BY <1>1, <1>3, <1>5, <2>1
  <2>2. CASE i # Len(kept) + 1
    <3>1. i \in 1 .. Len(kept)
      BY <1>3, <1>5, <2>2
    <3>2. kept = queue[key]
      BY <1>1, <1>4, <3>1
    <3>3. QED
      BY <1>3, <1>5, <3>1, <3>2
  <2>3. QED
    BY <2>1, <2>2
<1>7. \E i \in 1 .. Len(queue'[key]) : queue'[key][i] = submitted'
  <2>1. Len(kept) + 1 \in 1 .. Len(queue'[key])
    BY <1>3, <1>5
  <2>2. QED
    BY <1>1, <1>3, <1>5, <2>1
<1>8. QED
  BY <1>1, <1>5, <1>6, <1>7

\* The positions after TakeTask are positions of before, except for the head.
LEMMA TakePositions ==
  ASSUME TypeOK, NEW w \in Workers, TakeTask(w)
  PROVE  \E p \in Priorities :
           /\ 1 \in 1 .. Len(queue[p]) /\ queue[p][1] \in Tasks
           /\ cur' = [cur EXCEPT ![w] = queue[p][1]]
           /\ \A q \in Priorities \ {p} : queue'[q] = queue[q]
           /\ Len(queue'[p]) = Len(queue[p]) - 1
           /\ \A i \in 1 .. Len(queue'[p]) : queue'[p][i] = queue[p][i + 1]
<1>1. PICK p \in Priorities :
           /\ queue[p] # <<>> /\ Head(queue[p]) \in Tasks /\ Tail(queue[p]) \in Seq(Tasks)
           /\ cur' = [cur EXCEPT ![w] = Head(queue[p])]
           /\ queue' = [queue EXCEPT ![p] = Tail(queue[p])]
  BY TakeTyped
<1>2. queue \in [Priorities -> Seq(Tasks)] /\ queue[p] \in Seq(Tasks)
  BY DEF TypeOK
<1>3. Len(queue[p]) \in Nat \ {0}
  BY <1>1, <1>2, LenProperties, EmptySeq
<1>4. /\ Head(queue[p]) = queue[p][1] /\ Len(Tail(queue[p])) = Len(queue[p]) - 1
      /\ \A i \in 1 .. Len(queue[p]) - 1 : Tail(queue[p])[i] = queue[p][i + 1]
  BY <1>1, <1>2, HeadTailProperties
<1>5. queue'[p] = Tail(queue[p]) /\ \A q \in Priorities \ {p} : queue'[q] = queue[q]
  BY <1>1, <1>2
<1>6. 1 \in 1 .. Len(queue[p]) /\ queue[p][1] \in Tasks /\ cur' = [cur EXCEPT ![w] = queue[p][1]]
  BY <1>1, <1>3, <1>4
<1>7. QED
  BY <1>4, <1>5, <1>6

\* The tasks queued after a submission: the new one, and some of before.
LEMMA QueuedAfterSubmit ==
  ASSUME TypeOK, NEW priority \in Priorities \cup {0}, NEW displace \in BOOLEAN,
         Submit(priority, displace)
  PROVE  submitted' \in Queued' /\ Queued' \subseteq Queued \cup {submitted'}
<1>1. PICK key \in Priorities :
        /\ submitted' = submitted + 1
        /\ \A q \in Priorities : \A i \in 1 .. Len(queue'[q]) :
             \/ queue'[q][i] = submitted' /\ q = key /\ i = Len(queue'[q])
             \/ i \in 1 .. Len(queue[q]) /\ queue'[q][i] = queue[q][i]
        /\ \E i \in 1 .. Len(queue'[key]) : queue'[key][i] = submitted'
  BY SubmitPositions
<1>2. queue \in [Priorities -> Seq(Tasks)] /\ queue' \in [Priorities -> Seq(Tasks)]
  BY TypeStep DEF TypeOK, Next
<1>3. \A q \in Priorities : DOMAIN queue[q] = 1 .. Len(queue[q]) /\ DOMAIN queue'[q] = 1 .. Len(queue'[q])
  BY <1>2, LenProperties
<1>4. submitted' \in Queued'
  BY <1>1, <1>3 DEF Queued
<1>5. ASSUME NEW t \in Queued' PROVE t \in Queued \cup {submitted'}
  <2>0. PICK q \in Priorities : \E i \in 1 .. Len(queue'[q]) : queue'[q][i] = t
    BY <1>3 DEF Queued
  <2>1. PICK i \in 1 .. Len(queue'[q]) : queue'[q][i] = t
    BY <2>0
  <2>2. CASE queue'[q][i] = submitted'
    BY <2>1, <2>2
  <2>3. CASE i \in 1 .. Len(queue[q]) /\ queue'[q][i] = queue[q][i]
    BY <1>3, <2>1, <2>3 DEF Queued
  <2>4. QED
    BY <1>1, <2>2, <2>3
<1>6. QED
  BY <1>4, <1>5

\* The tasks queued after TakeTask: all but the one taken.
LEMMA QueuedAfterTake ==
  ASSUME TypeOK, TaskInv, NEW w \in Workers, TakeTask(w)
  PROVE  \E t \in Queued : /\ t \in Tasks /\ cur' = [cur EXCEPT ![w] = t]
                           /\ Queued' = Queued \ {t}
<1>1. PICK p \in Priorities :
           /\ 1 \in 1 .. Len(queue[p]) /\ queue[p][1] \in Tasks
           /\ cur' = [cur EXCEPT ![w] = queue[p][1]]
           /\ \A q \in Priorities \ {p} : queue'[q] = queue[q]
           /\ Len(queue'[p]) = Len(queue[p]) - 1
           /\ \A i \in 1 .. Len(queue'[p]) : queue'[p][i] = queue[p][i + 1]
  BY TakePositions
<1>2. queue \in [Priorities -> Seq(Tasks)] /\ queue' \in [Priorities -> Seq(Tasks)]
  BY TypeStep DEF TypeOK, Next, WorkerStep
<1>3. \A q \in Priorities : /\ DOMAIN queue[q] = 1 .. Len(queue[q])
                            /\ DOMAIN queue'[q] = 1 .. Len(queue'[q]) /\ Len(queue[q]) \in Nat
  BY <1>2, LenProperties
<1>4. queue[p][1] \in Queued
  BY <1>1, <1>3 DEF Queued
<1>5. ASSUME NEW t \in Queued' PROVE t \in Queued \ {queue[p][1]}
  <2>0. PICK q \in Priorities : \E i \in 1 .. Len(queue'[q]) : queue'[q][i] = t
    BY <1>3 DEF Queued
  <2>1. PICK i \in 1 .. Len(queue'[q]) : queue'[q][i] = t
    BY <2>0
  <2>2. CASE q = p
    <3>1. i + 1 \in 1 .. Len(queue[p]) /\ i + 1 # 1 /\ queue[p][i + 1] = t
      BY <1>1, <1>3, <2>1, <2>2
    <3>2. t \in Queued
      BY <1>3, <3>1 DEF Queued
    <3>3. t # queue[p][1]
      BY <1>1, <3>1 DEF TaskInv
    <3>4. QED
      BY <3>2, <3>3
  <2>3. CASE q # p
    <3>1. i \in 1 .. Len(queue[q]) /\ queue[q][i] = t
      BY <1>1, <2>1, <2>3
    <3>2. t \in Queued
      BY <1>3, <3>1 DEF Queued
    <3>3. t # queue[p][1]
      BY <1>1, <2>3, <3>1 DEF TaskInv
    <3>4. QED
      BY <3>2, <3>3
  <2>4. QED
    BY <2>2, <2>3
<1>6. ASSUME NEW t \in Queued, t # queue[p][1] PROVE t \in Queued'
  <2>0. PICK q \in Priorities : \E i \in 1 .. Len(queue[q]) : queue[q][i] = t
    BY <1>3 DEF Queued
  <2>1. PICK i \in 1 .. Len(queue[q]) : queue[q][i] = t
    BY <2>0
  <2>2. CASE q = p
    <3>1. i # 1 /\ i - 1 \in 1 .. Len(queue'[p])
      BY <1>1, <1>3, <1>6, <2>1, <2>2
    <3>2. queue'[p][i - 1] = t
      BY <1>1, <2>1, <2>2, <3>1
    <3>3. QED
      BY <1>3, <3>1, <3>2 DEF Queued
  <2>3. CASE q # p
    BY <1>1, <1>3, <2>1, <2>3 DEF Queued
  <2>4. QED
    BY <2>2, <2>3
<1>7. QED
  BY <1>1, <1>4, <1>5, <1>6

\* Every step keeps the tasks apart.
LEMMA TaskStep == TypeOK /\ TaskInv /\ [Next]_vars => TaskInv'
<1> SUFFICES ASSUME TypeOK, TaskInv, [Next]_vars PROVE TaskInv'
  OBVIOUS
<1> USE DEF taskVars, stopVars, guiVars, hisVars
<1>0. NoTask \notin Tasks /\ submitted \in Nat /\ \A w \in Workers : cur[w] \in Nat
  BY CountsAssumption DEF NoTask, Tasks, TypeOK
<1>1. ASSUME NEW priority \in Priorities \cup {0}, NEW displace \in BOOLEAN,
             Submit(priority, displace)
      PROVE  TaskInv'
  <2>1. PICK key \in Priorities :
          /\ submitted' = submitted + 1 /\ submitted' \in Tasks
          /\ \A q \in Priorities : \A i \in 1 .. Len(queue'[q]) :
               \/ queue'[q][i] = submitted' /\ q = key /\ i = Len(queue'[q])
               \/ i \in 1 .. Len(queue[q]) /\ queue'[q][i] = queue[q][i]
    BY <1>1, SubmitPositions
  <2>2. Queued' \subseteq Queued \cup {submitted'}
    BY <1>1, QueuedAfterSubmit
  <2>3. cur' = cur /\ ended' = ended
    BY <1>1 DEF Submit
  <2>4. queue \in [Priorities -> Seq(Tasks)]
    BY DEF TypeOK
  <2>5. ASSUME NEW p \in Priorities, NEW i \in 1 .. Len(queue[p])
        PROVE  queue[p][i] # submitted'
    <3>1. queue[p][i] \in Queued
      BY <2>4, LenProperties DEF Queued
    <3>2. QED
      BY <1>0, <2>1, <3>1 DEF TaskInv
  <2>6. ASSUME NEW p \in Priorities, NEW q \in Priorities,
               NEW i \in 1 .. Len(queue'[p]), NEW j \in 1 .. Len(queue'[q]),
               queue'[p][i] = queue'[q][j]
        PROVE  p = q /\ i = j
    BY <2>1, <2>5, <2>6 DEF TaskInv
  <2>7. \A t \in Queued' : t <= submitted' /\ t \notin ended /\ \A w \in Workers : cur[w] # t
    <3>1. \A t \in ended : t \in Nat
      BY DEF TypeOK, Tasks
    <3>2. submitted' \notin ended /\ \A w \in Workers : cur[w] # submitted'
      BY <1>0, <2>1, <3>1 DEF TaskInv
    <3>3. \A t \in Queued : t \in Nat
      BY QueuedTyped DEF Tasks
    <3>4. QED
      BY <1>0, <2>1, <2>2, <3>2, <3>3 DEF TaskInv
  <2>8. QED
    BY <1>0, <2>1, <2>3, <2>6, <2>7 DEF TaskInv, Tasks, TypeOK
<1>2. ASSUME NEW w \in Workers, TakeTask(w) PROVE TaskInv'
  <2>1. PICK t \in Queued : /\ t \in Tasks /\ cur' = [cur EXCEPT ![w] = t]
                            /\ Queued' = Queued \ {t}
    BY <1>2, QueuedAfterTake
  <2>2. PICK r \in Priorities :
           /\ \A q \in Priorities \ {r} : queue'[q] = queue[q]
           /\ Len(queue'[r]) = Len(queue[r]) - 1
           /\ \A i \in 1 .. Len(queue'[r]) : queue'[r][i] = queue[r][i + 1]
    BY <1>2, TakePositions
  <2>3. submitted' = submitted /\ ended' = ended
    BY <1>2 DEF TakeTask
  <2>4. \A q \in Priorities : Len(queue[q]) \in Nat
    BY LenProperties DEF TypeOK
  <2>5. ASSUME NEW p \in Priorities, NEW q \in Priorities,
               NEW i \in 1 .. Len(queue'[p]), NEW j \in 1 .. Len(queue'[q]),
               queue'[p][i] = queue'[q][j]
        PROVE  p = q /\ i = j
    <3>1. PICK k \in 1 .. Len(queue[p]) : /\ queue[p][k] = queue'[p][i]
                                          /\ k = IF p = r THEN i + 1 ELSE i
      BY <2>2, <2>4
    <3>2. PICK m \in 1 .. Len(queue[q]) : /\ queue[q][m] = queue'[q][j]
                                          /\ m = IF q = r THEN j + 1 ELSE j
      BY <2>2, <2>4
    <3>3. p = q /\ k = m
      BY <2>5, <3>1, <3>2 DEF TaskInv
    <3>4. QED
      BY <3>1, <3>2, <3>3
  <2>6. \A u \in Queued' : u <= submitted /\ u \notin ended /\ \A v \in Workers : cur'[v] # u
    BY <2>1 DEF TaskInv, TypeOK
  <2>7. \A v \in Workers : cur'[v] <= submitted /\ cur'[v] \notin ended
    BY <2>1 DEF TaskInv, TypeOK
  <2>8. \A u, v \in Workers : cur'[u] = cur'[v] => u = v \/ cur'[u] = NoTask
    BY <2>1 DEF TaskInv, TypeOK
  <2>9. QED
    BY <2>3, <2>5, <2>6, <2>7, <2>8 DEF TaskInv
<1>3. ASSUME NEW w \in Workers, ForwardAfter(w) PROVE TaskInv'
  <2>1. cur[w] \in Tasks
    BY <1>3 DEF ForwardAfter, TypeOK
  <2>2. /\ ended' = ended \cup {cur[w]} /\ cur' = [cur EXCEPT ![w] = NoTask]
        /\ queue' = queue /\ submitted' = submitted /\ Queued' = Queued
    BY <1>3 DEF ForwardAfter, Queued
  <2>3. \A t \in Queued : t \notin ended' /\ \A v \in Workers : cur'[v] # t
    <3>1. NoTask \notin Queued
      BY <1>0, QueuedTyped
    <3>2. QED
      BY <2>2, <3>1 DEF TaskInv, TypeOK
  <2>4. \A v \in Workers : cur'[v] <= submitted /\ cur'[v] \notin ended'
    <3>1. NoTask \notin ended /\ NoTask <= submitted
      BY <1>0 DEF TypeOK, NoTask
    <3>2. QED
      BY <1>0, <2>1, <2>2, <3>1 DEF TaskInv, TypeOK
  <2>5. \A u, v \in Workers : cur'[u] = cur'[v] => u = v \/ cur'[u] = NoTask
    BY <2>2 DEF TaskInv, TypeOK
  <2>6. QED
    BY <2>2, <2>3, <2>4, <2>5 DEF TaskInv
<1>4. CASE UNCHANGED <<queue, submitted, cur, ended>>
  BY <1>4 DEF TaskInv, Queued
<1>5. ASSUME NEW w \in Workers, \/ Loop(w) \/ Sleep(w) \/ GiveUp(w) \/ Spurious(w)
                                \/ ForwardBefore(w) \/ Return(w) \/ Throw(w) \/ ForwardResult(w)
      PROVE  UNCHANGED <<queue, submitted, cur, ended>>
  BY <1>5 DEF Loop, Sleep, GiveUp, Spurious, ForwardBefore, Return, Throw, ForwardResult
<1>6. ASSUME BeginStop \/ BeginDestroy \/ RequestStop \/ Join \/ StopDone \/ Deliver \/ UNCHANGED vars
      PROVE  UNCHANGED <<queue, submitted, cur, ended>>
  BY <1>6 DEF BeginStop, BeginDestroy, RequestStop, Join, StopDone, Deliver, vars
<1>7. QED
  BY <1>1, <1>2, <1>3, <1>4, <1>5, <1>6, Cases

-----------------------------------------------------------------------------
\* Counting tasks and workers.
LEMMA Counting ==
  ASSUME NEW S, S \subseteq Tasks \/ S \subseteq Workers
  PROVE  /\ IsFiniteSet(S) /\ Cardinality(S) \in Nat
         /\ \A T \in SUBSET S : Cardinality(T) <= Cardinality(S)
         /\ \A x : x \notin S => Cardinality(S \cup {x}) = Cardinality(S) + 1
         /\ \A x : x \in S => Cardinality(S \ {x}) = Cardinality(S) - 1
<1>1. IsFiniteSet(Tasks) /\ IsFiniteSet(Workers)
  BY CountsAssumption, FS_Interval DEF Tasks, Workers
<1>2. IsFiniteSet(S)
  BY <1>1, FS_Subset
<1>3. Cardinality(S) \in Nat
  BY <1>2, FS_CardinalityType
<1>4. \A T \in SUBSET S : Cardinality(T) <= Cardinality(S)
  BY <1>2, FS_Subset
<1>5. \A x : x \notin S => Cardinality(S \cup {x}) = Cardinality(S) + 1
  BY <1>2, FS_AddElement
<1>6. \A x : x \in S => Cardinality(S \ {x}) = Cardinality(S) - 1
  BY <1>2, FS_RemoveElement
<1>7. QED
  BY <1>2, <1>3, <1>4, <1>5, <1>6

\* The workers on their way to a task.
OnTheWay == {w \in Workers : wpc[w] = "getTask"}

\* A sleeper is woken for each task that is queued; a worker takes a task when it
\* is on its way and falls asleep when nothing is queued.
LEMMA IdleStep ==
  TypeOK /\ TypeOK' /\ TaskInv /\ NoIdleWhileWork /\ [Next]_vars => NoIdleWhileWork'
<1> SUFFICES ASSUME TypeOK, TypeOK', TaskInv, NoIdleWhileWork, [Next]_vars, Asleep' # {}
             PROVE  Cardinality(Queued') <= Cardinality(OnTheWay')
  BY DEF NoIdleWhileWork, OnTheWay
<1> USE DEF taskVars, stopVars, guiVars, hisVars
<1>0. /\ Queued \subseteq Tasks /\ Queued' \subseteq Tasks
      /\ OnTheWay \subseteq Workers /\ OnTheWay' \subseteq Workers
      /\ Asleep # {} => Cardinality(Queued) <= Cardinality(OnTheWay)
  <2>1. Queued \subseteq Tasks
    BY QueuedTyped
  <2>2. Queued' \subseteq Tasks
    BY QueuedTypedNext
  <2>3. QED
    BY <2>1, <2>2 DEF OnTheWay, NoIdleWhileWork
<1> /\ Cardinality(Queued) \in Nat /\ Cardinality(Queued') \in Nat
    /\ Cardinality(OnTheWay) \in Nat /\ Cardinality(OnTheWay') \in Nat
  BY <1>0, Counting
<1>1. ASSUME Asleep # {}, Queued' = Queued, OnTheWay \subseteq OnTheWay'
      PROVE  Cardinality(Queued') <= Cardinality(OnTheWay')
  <2>1. Cardinality(OnTheWay) <= Cardinality(OnTheWay')
    BY <1>0, <1>1, Counting
  <2>2. QED
    BY <1>0, <1>1, <2>1
<1>2. ASSUME NEW priority \in Priorities \cup {0}, NEW displace \in BOOLEAN,
             Submit(priority, displace)
      PROVE  Cardinality(Queued') <= Cardinality(OnTheWay')
  <2>1. PICK w \in Asleep : wpc' = [wpc EXCEPT ![w] = "getTask"]
    BY <1>2 DEF Submit, NotifyOne, Asleep
  <2>2. w \notin OnTheWay /\ OnTheWay' = OnTheWay \cup {w}
    BY <2>1 DEF Asleep, OnTheWay, TypeOK
  <2>3. Cardinality(OnTheWay') = Cardinality(OnTheWay) + 1
    BY <1>0, <2>2, Counting
  <2>4. Queued' \subseteq Queued \cup {submitted'} /\ submitted' \in Tasks
    BY <1>2, QueuedAfterSubmit, SubmitPositions
  <2>5. Queued \cup {submitted'} \subseteq Tasks
    BY <1>0, <2>4
  <2>6. Cardinality(Queued') <= Cardinality(Queued \cup {submitted'})
    BY <2>4, <2>5, Counting
  <2>7. \/ Queued \cup {submitted'} = Queued
        \/ Cardinality(Queued \cup {submitted'}) = Cardinality(Queued) + 1
    BY <1>0, Counting
  <2>8. Cardinality(Queued) <= Cardinality(OnTheWay)
    BY <1>0, <2>1
  <2>9. QED
    BY <2>3, <2>6, <2>7, <2>8
<1>3. ASSUME NEW w \in Workers, TakeTask(w)
      PROVE  Cardinality(Queued') <= Cardinality(OnTheWay')
  <2>1. PICK t \in Queued : Queued' = Queued \ {t}
    BY <1>3, QueuedAfterTake
  <2>2. w \in OnTheWay /\ OnTheWay' = OnTheWay \ {w} /\ Asleep' = Asleep
    BY <1>3 DEF TakeTask, OnTheWay, Asleep, TypeOK
  <2>3. Cardinality(Queued') = Cardinality(Queued) - 1
    BY <1>0, <2>1, Counting
  <2>4. Cardinality(OnTheWay') = Cardinality(OnTheWay) - 1
    BY <1>0, <2>2, Counting
  <2>5. QED
    BY <1>0, <2>2, <2>3, <2>4
<1>4. ASSUME NEW w \in Workers, Sleep(w) \/ GiveUp(w)
      PROVE  Cardinality(Queued') <= Cardinality(OnTheWay')
  <2>1. Queued' = {}
    BY <1>4 DEF Sleep, GiveUp, NoTaskQueued, Queued
  <2>2. QED
    BY <2>1, FS_EmptySet
<1>5. ASSUME NEW w \in Workers, \/ Loop(w) \/ Spurious(w) \/ ForwardBefore(w) \/ Return(w)
                                \/ Throw(w) \/ ForwardResult(w) \/ ForwardAfter(w)
      PROVE  Cardinality(Queued') <= Cardinality(OnTheWay')
  <2>1. Queued' = Queued /\ OnTheWay \subseteq OnTheWay' /\ Asleep' \subseteq Asleep
    BY <1>5 DEF Loop, Spurious, ForwardBefore, Return, Throw, ForwardResult, ForwardAfter,
                Queued, OnTheWay, Asleep, TypeOK
  <2>2. QED
    BY <1>1, <2>1
<1>6. ASSUME RequestStop PROVE Cardinality(Queued') <= Cardinality(OnTheWay')
  <2>1. joined + 1 \in Workers
    BY <1>6 DEF RequestStop, Workers, TypeOK
  <2>2. wpc' = wpc \/ \A v \in Workers : wpc'[v] # "asleep"
    BY <1>6, <2>1, StopCallbackTyped DEF RequestStop
  <2>3. wpc' = wpc
    BY <2>2 DEF Asleep
  <2>4. Queued' = Queued /\ OnTheWay' = OnTheWay /\ Asleep' = Asleep
    BY <1>6, <2>3 DEF RequestStop, Queued, OnTheWay, Asleep
  <2>5. QED
    BY <1>1, <2>4
<1>7. ASSUME BeginStop \/ BeginDestroy \/ Join \/ StopDone \/ Deliver \/ UNCHANGED vars
      PROVE  Cardinality(Queued') <= Cardinality(OnTheWay')
  <2>1. Queued' = Queued /\ OnTheWay' = OnTheWay /\ Asleep' = Asleep
    BY <1>7 DEF BeginStop, BeginDestroy, Join, StopDone, Deliver, vars, Queued, OnTheWay, Asleep
  <2>2. QED
    BY <1>1, <2>1
<1>8. QED
  BY <1>2, <1>3, <1>4, <1>5, <1>6, <1>7, Cases

\* Tasks are kept apart, in every state.
LEMMA TasksApart == Spec => []TaskInv
<1>1. Init => TaskInv
  BY DEF Init, TaskInv, Queued, NoTask
<1>2. QED
  BY <1>1, TaskStep, TypeCorrect, PTL DEF Spec

\* While a worker sleeps, each queued task has a woken worker of its own on the
\* way to it, for any number of workers and priorities.
THEOREM NoIdleAlways == Spec => []NoIdleWhileWork
<1>1. Init => NoIdleWhileWork
  BY DEF Init, NoIdleWhileWork, Asleep
<1>2. QED
  BY <1>1, IdleStep, TasksApart, TypeCorrect, PTL DEF Spec

-----------------------------------------------------------------------------
\* Threads are destroyed after their workers have left, the executor after its
\* threads, and the forwarder after everything that was posted to it.
StopInv ==
  /\ \A w \in Workers : w <= joined => wpc[w] = "exited"
  /\ gui = "gone" => joined = ThreadCount
  /\ ~forwarder => gui = "gone" /\ events = <<>>
  /\ \A i \in 1 .. Len(events) : events[i][1] = "delete" => gui = "gone" /\ i = Len(events)

\* A worker that is still there keeps the executor and its forwarder.
LEMMA NotGone ==
  ASSUME TypeOK, StopInv, NEW w \in Workers, wpc[w] # "exited"
  PROVE  /\ gui # "gone" /\ forwarder /\ w > joined
         /\ \A i \in 1 .. Len(events) : events[i][1] # "delete"
<1>1. w > joined
  BY CountsAssumption DEF StopInv, TypeOK, Workers
<1>2. joined # ThreadCount
  BY <1>1, CountsAssumption DEF TypeOK, Workers
<1>3. QED
  BY <1>1, <1>2 DEF StopInv, TypeOK

Posted(kind, t) == \E i \in 1 .. Len(events) : events[i] = <<kind, t>>

\* What is posted after a functor has been posted.
LEMMA Post ==
  ASSUME TypeOK, NEW kind \in Kinds, NEW t \in Tasks \cup {NoTask},
         events' = Append(events, <<kind, t>>)
  PROVE  /\ Len(events) \in Nat /\ Len(events') = Len(events) + 1
         /\ \A i \in 1 .. Len(events) : events'[i] = events[i]
         /\ events'[Len(events) + 1] = <<kind, t>>
         /\ \A k, u : Posted(k, u)' <=> Posted(k, u) \/ (k = kind /\ u = t)
<1>1. events \in Seq(Events) /\ <<kind, t>> \in Events
  BY DEF TypeOK, Events
<1>2. /\ Len(events) \in Nat /\ Len(events') = Len(events) + 1
      /\ \A i \in 1 .. Len(events) : events'[i] = events[i]
      /\ events'[Len(events) + 1] = <<kind, t>>
  BY <1>1, AppendEvent, LenProperties
<1>3. ASSUME NEW k, NEW u, Posted(k, u)' PROVE Posted(k, u) \/ (k = kind /\ u = t)
  <2>1. PICK i \in 1 .. Len(events') : events'[i] = <<k, u>>
    BY <1>3 DEF Posted
  <2>2. CASE i = Len(events) + 1
    BY <1>2, <2>1, <2>2
  <2>3. CASE i \in 1 .. Len(events)
    BY <1>2, <2>1, <2>3 DEF Posted
  <2>4. QED
    BY <1>2, <2>2, <2>3
<1>4. ASSUME NEW k, NEW u, Posted(k, u) \/ (k = kind /\ u = t) PROVE Posted(k, u)'
  <2>1. CASE Posted(k, u)
    <3>1. PICK i \in 1 .. Len(events) : events[i] = <<k, u>>
      BY <2>1 DEF Posted
    <3>2. i \in 1 .. Len(events') /\ events'[i] = <<k, u>>
      BY <1>2, <3>1
    <3>3. QED
      BY <3>2 DEF Posted
  <2>2. CASE k = kind /\ u = t
    <3>1. Len(events) + 1 \in 1 .. Len(events')
      BY <1>2
    <3>2. QED
      BY <1>2, <2>2, <3>1 DEF Posted
  <2>3. QED
    BY <1>4, <2>1, <2>2
<1>5. QED
  BY <1>2, <1>3, <1>4

\* What is posted after the first functor has been taken.
LEMMA Pop ==
  ASSUME TypeOK, NEW kind, NEW t, events # <<>>, Head(events) = <<kind, t>>,
         events' = Tail(events)
  PROVE  /\ Len(events) \in Nat \ {0} /\ Len(events') = Len(events) - 1
         /\ 1 \in 1 .. Len(events) /\ events[1] = <<kind, t>>
         /\ \A i \in 1 .. Len(events') : i + 1 \in 1 .. Len(events) /\ events'[i] = events[i + 1]
         /\ \A k, u : Posted(k, u)' => Posted(k, u)
         /\ \A k, u : Posted(k, u) => Posted(k, u)' \/ (k = kind /\ u = t)
<1>1. events \in Seq(Events)
  BY DEF TypeOK, Events
<1>2. /\ Len(events) \in Nat \ {0} /\ Len(events') = Len(events) - 1 /\ events[1] = <<kind, t>>
      /\ \A i \in 1 .. Len(events) - 1 : events'[i] = events[i + 1]
  BY <1>1, TailEvents
<1>3. \A i \in 1 .. Len(events') : i + 1 \in 1 .. Len(events) /\ events'[i] = events[i + 1]
  BY <1>2
<1>4. \A k, u : Posted(k, u)' => Posted(k, u)
  BY <1>3 DEF Posted
<1>5. ASSUME NEW k, NEW u, Posted(k, u) PROVE Posted(k, u)' \/ (k = kind /\ u = t)
  <2>1. PICK i \in 1 .. Len(events) : events[i] = <<k, u>>
    BY <1>5 DEF Posted
  <2>2. CASE i = 1
    BY <1>2, <2>1, <2>2
  <2>3. CASE i # 1
    <3>1. i - 1 \in 1 .. Len(events')
      BY <1>2, <2>3
    <3>2. events'[i - 1] = events[i]
      BY <1>3, <3>1
    <3>3. QED
      BY <2>1, <3>1, <3>2 DEF Posted
  <2>4. QED
    BY <2>2, <2>3
<1>6. 1 \in 1 .. Len(events)
  BY <1>2
<1>7. QED
  BY <1>2, <1>3, <1>4, <1>5, <1>6

\* Every step keeps the order of destruction.
LEMMA StopStep == TypeOK /\ TypeOK' /\ StopInv /\ [Next]_vars => StopInv'
<1> SUFFICES ASSUME TypeOK, TypeOK', StopInv, [Next]_vars PROVE StopInv'
  OBVIOUS
<1> USE CountsAssumption DEF taskVars, stopVars, guiVars, hisVars
<1>1. ASSUME UNCHANGED <<joined, gui, forwarder, events>>,
             \A w \in Workers : wpc[w] = "exited" => wpc'[w] = "exited"
      PROVE  StopInv'
  BY <1>1 DEF StopInv
<1>2. ASSUME NEW priority \in Priorities \cup {0}, NEW displace \in BOOLEAN,
             Submit(priority, displace)
      PROVE  StopInv'
  <2>1. \A v \in Workers : wpc'[v] = wpc[v] \/ (wpc[v] = "asleep" /\ wpc'[v] = "getTask")
    BY <1>2, NotifyTyped DEF Submit
  <2>2. UNCHANGED <<joined, gui, forwarder, events>>
    BY <1>2 DEF Submit
  <2>3. QED
    BY <1>1, <2>1, <2>2
<1>3. ASSUME NEW w \in Workers, \/ Loop(w) \/ TakeTask(w) \/ Sleep(w) \/ GiveUp(w)
                                \/ Spurious(w) \/ Return(w) \/ Throw(w)
      PROVE  StopInv'
  <2>1. UNCHANGED <<joined, gui, forwarder, events>> /\ wpc[w] # "exited"
    BY <1>3 DEF Loop, TakeTask, Sleep, GiveUp, Spurious, Return, Throw
  <2>2. \A v \in Workers \ {w} : wpc'[v] = wpc[v]
    BY <1>3 DEF Loop, TakeTask, Sleep, GiveUp, Spurious, Return, Throw, TypeOK
  <2>3. QED
    BY <1>1, <2>1, <2>2
<1>4. ASSUME NEW w \in Workers, wpc[w] # "exited", NEW kind \in Kinds \ {"delete"},
             NEW t \in Tasks \cup {NoTask}, events' = Append(events, <<kind, t>>),
             UNCHANGED <<joined, gui, forwarder>>,
             \A v \in Workers \ {w} : wpc'[v] = wpc[v]
      PROVE  StopInv'
  <2>1. /\ gui # "gone" /\ forwarder /\ w > joined
        /\ \A i \in 1 .. Len(events) : events[i][1] # "delete"
    BY <1>4, NotGone
  <2>2. /\ Len(events) \in Nat /\ Len(events') = Len(events) + 1
        /\ \A i \in 1 .. Len(events) : events'[i] = events[i]
        /\ events'[Len(events) + 1] = <<kind, t>>
    BY <1>4, Post
  <2>3. \A i \in 1 .. Len(events') : events'[i][1] # "delete"
    BY <2>1, <2>2
  <2>4. \A v \in Workers : v <= joined => wpc'[v] = "exited"
    BY <1>4, <2>1 DEF StopInv, Workers, TypeOK
  <2>5. QED
    BY <1>4, <2>1, <2>3, <2>4 DEF StopInv
<1>5. ASSUME NEW w \in Workers, ForwardBefore(w) \/ ForwardResult(w) \/ ForwardAfter(w)
      PROVE  StopInv'
  <2>1. /\ wpc[w] # "exited" /\ UNCHANGED <<joined, gui, forwarder>>
        /\ \A v \in Workers \ {w} : wpc'[v] = wpc[v]
    BY <1>5 DEF ForwardBefore, ForwardResult, ForwardAfter, TypeOK
  <2>2. cur[w] \in Tasks \cup {NoTask}
    BY DEF TypeOK
  <2>3. \E kind \in Kinds \ {"delete"} : events' = Append(events, <<kind, cur[w]>>)
    BY <1>5 DEF ForwardBefore, ForwardResult, ForwardAfter, Kinds
  <2>4. QED
    BY <1>4, <2>1, <2>2, <2>3
<1>6. CASE BeginStop \/ BeginDestroy
  BY <1>6 DEF BeginStop, BeginDestroy, StopInv
<1>7. CASE RequestStop
  <2>1. joined + 1 \in Workers
    BY <1>7 DEF RequestStop, Workers, TypeOK
  <2>2. \A v \in Workers : wpc'[v] = wpc[v] \/ (wpc[v] = "asleep" /\ wpc'[v] = "getTask")
    BY <1>7, <2>1, StopCallbackTyped DEF RequestStop
  <2>3. UNCHANGED <<joined, gui, forwarder, events>>
    BY <1>7 DEF RequestStop
  <2>4. QED
    BY <1>1, <2>2, <2>3
<1>8. CASE Join
  <2>1. joined' = joined + 1 /\ wpc[joined + 1] = "exited" /\ gui # "gone"
        /\ UNCHANGED <<wpc, gui, forwarder, events>>
    BY <1>8 DEF Join, Stopping
  <2>2. \A w \in Workers : w <= joined' => wpc[w] = "exited"
    BY <2>1 DEF StopInv, Workers, TypeOK
  <2>3. QED
    BY <2>1, <2>2 DEF StopInv
<1>9. CASE StopDone
  <2>1. /\ joined = ThreadCount /\ gui # "gone" /\ UNCHANGED <<joined, wpc, forwarder>>
        /\ forwarder
    BY <1>9 DEF StopDone, Stopping, AllJoined, StopInv
  <2>2. \A i \in 1 .. Len(events) : events[i][1] # "delete"
    BY <2>1 DEF StopInv
  <2>3. CASE gui = "stop"
    BY <1>9, <2>1, <2>2, <2>3 DEF StopDone, StopInv
  <2>4. CASE gui # "stop"
    <3>1. gui' = "gone" /\ events' = Append(events, <<"delete", NoTask>>)
      BY <1>9, <2>4 DEF StopDone
    <3>2. "delete" \in Kinds /\ NoTask \in Tasks \cup {NoTask}
      BY DEF Kinds
    <3>3. /\ Len(events) \in Nat /\ Len(events') = Len(events) + 1
          /\ \A i \in 1 .. Len(events) : events'[i] = events[i]
      BY <3>1, <3>2, Post
    <3>4. \A i \in 1 .. Len(events') : events'[i][1] = "delete" => i = Len(events')
      BY <2>2, <3>3
    <3>5. QED
      BY <2>1, <3>1, <3>4 DEF StopInv
  <2>5. QED
    BY <2>3, <2>4
<1>10. CASE Deliver
  <2>1. PICK kind \in Kinds, t \in Tasks \cup {NoTask} :
          /\ events # <<>> /\ Head(events) = <<kind, t>>
          /\ forwarder /\ forwarder' = (kind # "delete")
          /\ events' = IF kind = "delete" THEN <<>> ELSE Tail(events)
    BY <1>10, DeliverTyped
  <2>2. UNCHANGED <<joined, gui, wpc>>
    BY <1>10 DEF Deliver
  <2>3. CASE kind = "delete"
    <3>1. 1 \in 1 .. Len(events) /\ events[1] = <<kind, t>>
      BY <2>1, TailEvents DEF TypeOK, Events
    <3>2. gui = "gone"
      BY <2>3, <3>1 DEF StopInv
    <3>3. events' = <<>>
      BY <2>1, <2>3
    <3>4. QED
      BY <2>2, <3>2, <3>3 DEF StopInv
  <2>4. CASE kind # "delete"
    <3>1. events' = Tail(events) /\ forwarder'
      BY <2>1, <2>4
    <3>2. /\ Len(events) \in Nat \ {0} /\ Len(events') = Len(events) - 1
          /\ \A i \in 1 .. Len(events') : i + 1 \in 1 .. Len(events) /\ events'[i] = events[i + 1]
      BY <2>1, <3>1, Pop
    <3>3. \A i \in 1 .. Len(events') : events'[i][1] = "delete" => gui = "gone" /\ i = Len(events')
      <4> TAKE i \in 1 .. Len(events')
      <4> HAVE events'[i][1] = "delete"
      <4>1. gui = "gone" /\ i + 1 = Len(events)
        BY <3>2 DEF StopInv
      <4>2. QED
        BY <3>2, <4>1
    <3>4. QED
      BY <2>2, <3>1, <3>3 DEF StopInv
  <2>5. QED
    BY <2>3, <2>4
<1>11. CASE UNCHANGED vars
  BY <1>11 DEF vars, StopInv
<1>12. QED
  BY <1>2, <1>3, <1>5, <1>6, <1>7, <1>8, <1>9, <1>10, <1>11, Cases

-----------------------------------------------------------------------------
Running(t)   == \E w \in Workers : cur[w] = t /\ wpc[w] \in {"task", "result", "after"}
Begun(t)     == t \in ended \/ Running(t)
HasResult(t) == \E w \in Workers : cur[w] = t /\ wpc[w] = "result"

\* Functors are posted once, by tasks that have begun, and afterExecute last.
PostedOnce   == \A i, j \in 1 .. Len(events) : events[i] = events[j] => i = j
PostedByTask == \A i \in 1 .. Len(events) : events[i][1] # "delete" => Begun(events[i][2])
AfterIsLast  == \A i \in 1 .. Len(events) : events[i][1] = "after" =>
                  /\ events[i][2] \in ended
                  /\ \A j \in 1 .. Len(events) : events[j][2] = events[i][2] => j <= i
AfterFollows == \A t \in ended : Posted("before", t) => Posted("after", t)

EventInv == PostedOnce /\ PostedByTask /\ AfterIsLast /\ AfterFollows

\* A functor of a task that has not ended keeps the order.
LEMMA EventPost ==
  ASSUME TypeOK, EventInv, NEW kind \in {"before", "result", "after"}, NEW t \in Tasks,
         t \notin ended, ~Posted(kind, t), events' = Append(events, <<kind, t>>),
         ended' = IF kind = "after" THEN ended \cup {t} ELSE ended,
         \A u : Begun(u) \/ u = t => Begun(u)'
  PROVE  EventInv'
<1>1. kind \in Kinds
  BY DEF Kinds
<1>2. /\ Len(events) \in Nat /\ Len(events') = Len(events) + 1
      /\ \A i \in 1 .. Len(events) : events'[i] = events[i]
      /\ events'[Len(events) + 1] = <<kind, t>>
      /\ \A k, u : Posted(k, u)' <=> Posted(k, u) \/ (k = kind /\ u = t)
  BY <1>1, Post
<1>3. \A i \in 1 .. Len(events') : i \in 1 .. Len(events) \/ i = Len(events) + 1
  BY <1>2
<1>4. \A i \in 1 .. Len(events) : events[i] # <<kind, t>>
  BY DEF Posted
<1>5. PostedOnce'
  BY <1>2, <1>3, <1>4 DEF EventInv, PostedOnce
<1>6. PostedByTask'
  <2>1. \A i \in 1 .. Len(events) : events[i][1] # "delete" => Begun(events[i][2])
    BY DEF EventInv, PostedByTask
  <2>2. \A i \in 1 .. Len(events') : events'[i][1] # "delete" =>
          events'[i][2] = t \/ Begun(events'[i][2])
    BY <1>2, <1>3, <2>1
  <2>3. QED
    BY <2>2 DEF PostedByTask
<1>7. AfterIsLast'
  <2> SUFFICES ASSUME NEW i \in 1 .. Len(events'), events'[i][1] = "after"
               PROVE  /\ events'[i][2] \in ended'
                      /\ \A j \in 1 .. Len(events') : events'[j][2] = events'[i][2] => j <= i
    BY DEF AfterIsLast
  <2>1. CASE i \in 1 .. Len(events)
    <3>1. /\ events[i][2] \in ended
          /\ \A j \in 1 .. Len(events) : events[j][2] = events[i][2] => j <= i
      BY <1>2, <2>1 DEF EventInv, AfterIsLast
    <3>2. events'[Len(events) + 1][2] # events'[i][2]
      BY <1>2, <2>1, <3>1
    <3>3. QED
      BY <1>2, <1>3, <2>1, <3>1, <3>2
  <2>2. CASE i = Len(events) + 1
    BY <1>2, <2>2
  <2>3. QED
    BY <1>3, <2>1, <2>2
<1>8. AfterFollows'
  BY <1>2 DEF EventInv, AfterFollows
<1>9. QED
  BY <1>5, <1>6, <1>7, <1>8 DEF EventInv

\* So does the execution of the first functor.
LEMMA EventPop ==
  ASSUME TypeOK, EventInv, NEW kind \in Kinds, NEW t, events # <<>>, Head(events) = <<kind, t>>,
         events' = Tail(events), ended' = ended, \A u : Begun(u) => Begun(u)'
  PROVE  EventInv'
<1>1. /\ Len(events) \in Nat \ {0} /\ Len(events') = Len(events) - 1
      /\ 1 \in 1 .. Len(events) /\ events[1] = <<kind, t>>
      /\ \A i \in 1 .. Len(events') : i + 1 \in 1 .. Len(events) /\ events'[i] = events[i + 1]
      /\ \A k, u : Posted(k, u)' => Posted(k, u)
      /\ \A k, u : Posted(k, u) => Posted(k, u)' \/ (k = kind /\ u = t)
  BY Pop
<1>2. PostedOnce'
  <2>1. ASSUME NEW i \in 1 .. Len(events'), NEW j \in 1 .. Len(events'), events'[i] = events'[j]
        PROVE  i = j
    <3>1. i + 1 = j + 1
      BY <1>1, <2>1 DEF EventInv, PostedOnce
    <3>2. QED
      BY <3>1
  <2>2. QED
    BY <2>1 DEF PostedOnce
<1>3. PostedByTask'
  BY <1>1 DEF EventInv, PostedByTask
<1>4. AfterIsLast'
  <2>1. ASSUME NEW i \in 1 .. Len(events'), events'[i][1] = "after"
        PROVE  /\ events'[i][2] \in ended'
               /\ \A j \in 1 .. Len(events') : events'[j][2] = events'[i][2] => j <= i
    <3>1. /\ events[i + 1][2] \in ended
          /\ \A j \in 1 .. Len(events) : events[j][2] = events[i + 1][2] => j <= i + 1
      BY <1>1, <2>1 DEF EventInv, AfterIsLast
    <3>2. ASSUME NEW j \in 1 .. Len(events'), events'[j][2] = events'[i][2] PROVE j <= i
      <4>1. j + 1 <= i + 1
        BY <1>1, <3>1, <3>2
      <4>2. QED
        BY <4>1
    <3>3. QED
      BY <1>1, <3>1, <3>2
  <2>2. QED
    BY <2>1 DEF AfterIsLast
<1>5. AfterFollows'
  <2>1. ASSUME NEW u \in ended, Posted("before", u)' PROVE Posted("after", u)'
    <3>1. Posted("before", u) /\ Posted("after", u)
      BY <1>1, <2>1 DEF EventInv, AfterFollows
    <3>2. ~(kind = "after" /\ u = t)
      <4> SUFFICES ASSUME kind = "after", u = t PROVE FALSE
        OBVIOUS
      <4>0. PICK j \in 1 .. Len(events') : events'[j] = <<"before", u>>
        BY <2>1 DEF Posted
      <4>1. j + 1 \in 1 .. Len(events) /\ events[j + 1] = <<"before", u>>
        BY <1>1, <4>0
      <4>2. j + 1 <= 1
        BY <1>1, <4>1 DEF EventInv, AfterIsLast
      <4>3. QED
        BY <4>2
    <3>3. QED
      BY <1>1, <3>1, <3>2
  <2>2. QED
    BY <2>1 DEF AfterFollows
<1>6. QED
  BY <1>2, <1>3, <1>4, <1>5 DEF EventInv

\* Steps that move no worker into or out of its task, except by an exception.
LEMMA Quiet ==
  ASSUME TypeOK, TypeOK', [Next]_vars,
         ~ \E w \in Workers : \/ ForwardBefore(w) \/ Return(w) \/ ForwardResult(w) \/ ForwardAfter(w),
         ~ StopDone, ~ Deliver
  PROVE  /\ UNCHANGED <<events, ended, returned, delivered, forwarder, busy>>
         /\ \A t : (Running(t)' <=> Running(t)) /\ (HasResult(t)' <=> HasResult(t))
         /\ \A w \in Workers : wpc'[w] = "task" => wpc[w] = "task" /\ cur'[w] = cur[w]
         /\ \A w \in Workers : \/ cur'[w] = cur[w]
                               \/ TakeTask(w) /\ cur'[w] \in Queued
<1> USE DEF taskVars, stopVars, guiVars, hisVars
<1> DEFINE Inside == {"task", "result", "after"}
<1>1. ASSUME \A v \in Workers : \/ cur'[v] = cur[v] /\ wpc'[v] = wpc[v]
                                \/ wpc[v] \notin Inside /\ wpc'[v] \notin Inside
                                \/ cur'[v] = cur[v] /\ wpc[v] = "task" /\ wpc'[v] = "after"
      PROVE  /\ \A t : (Running(t)' <=> Running(t)) /\ (HasResult(t)' <=> HasResult(t))
             /\ \A w \in Workers : wpc'[w] = "task" => wpc[w] = "task" /\ cur'[w] = cur[w]
  BY <1>1 DEF Running, HasResult
<1>2. ASSUME NEW priority \in Priorities \cup {0}, NEW displace \in BOOLEAN,
             Submit(priority, displace)
      PROVE  /\ \A v \in Workers : \/ cur'[v] = cur[v] /\ wpc'[v] = wpc[v]
                                   \/ wpc[v] \notin Inside /\ wpc'[v] \notin Inside
             /\ cur' = cur /\ UNCHANGED <<events, ended, returned, delivered, forwarder, busy>>
  <2>1. \A v \in Workers : wpc'[v] = wpc[v] \/ (wpc[v] = "asleep" /\ wpc'[v] = "getTask")
    BY <1>2, NotifyTyped DEF Submit
  <2>2. QED
    BY <1>2, <2>1 DEF Submit
<1>3. ASSUME NEW w \in Workers, Loop(w) \/ TakeTask(w) \/ Sleep(w) \/ GiveUp(w) \/ Spurious(w)
      PROVE  /\ \A v \in Workers : \/ cur'[v] = cur[v] /\ wpc'[v] = wpc[v]
                                   \/ wpc[v] \notin Inside /\ wpc'[v] \notin Inside
             /\ \A v \in Workers : cur'[v] = cur[v] \/ (v = w /\ TakeTask(w))
             /\ UNCHANGED <<events, ended, returned, delivered, forwarder, busy>>
  <2>1. UNCHANGED <<events, ended, returned, delivered, forwarder, busy>>
    BY <1>3 DEF Loop, TakeTask, Sleep, GiveUp, Spurious
  <2>2. \A v \in Workers : cur'[v] = cur[v] \/ (v = w /\ TakeTask(w))
    <3>1. CASE TakeTask(w)
      <4>1. \A v \in Workers \ {w} : cur'[v] = cur[v]
        BY <3>1 DEF TakeTask, TypeOK
      <4>2. QED
        BY <3>1, <4>1
    <3>2. CASE Loop(w) \/ Sleep(w) \/ GiveUp(w) \/ Spurious(w)
      <4>1. cur' = cur
        BY <3>2 DEF Loop, Sleep, GiveUp, Spurious
      <4>2. QED
        BY <4>1
    <3>3. QED
      BY <1>3, <3>1, <3>2
  <2>3. wpc[w] \notin Inside /\ wpc'[w] \notin Inside
    BY <1>3 DEF Loop, TakeTask, Sleep, GiveUp, Spurious, TypeOK
  <2>4. \A v \in Workers \ {w} : cur'[v] = cur[v] /\ wpc'[v] = wpc[v]
    BY <1>3 DEF Loop, TakeTask, Sleep, GiveUp, Spurious, TypeOK
  <2>5. QED
    BY <2>1, <2>2, <2>3, <2>4
<1>4. ASSUME NEW w \in Workers, TakeTask(w) PROVE cur'[w] \in Queued
  <2>1. PICK p \in Priorities :
           /\ 1 \in 1 .. Len(queue[p])
           /\ cur' = [cur EXCEPT ![w] = queue[p][1]]
    BY <1>4, TakePositions
  <2>2. DOMAIN queue[p] = 1 .. Len(queue[p])
    BY LenProperties DEF TypeOK
  <2>3. queue[p][1] \in Queued
    BY <2>1, <2>2 DEF Queued
  <2>4. cur'[w] = queue[p][1]
    BY <2>1 DEF TypeOK
  <2>5. QED
    BY <2>3, <2>4
<1>5. ASSUME NEW w \in Workers, Throw(w)
      PROVE  /\ \A v \in Workers : \/ cur'[v] = cur[v] /\ wpc'[v] = wpc[v]
                                   \/ cur'[v] = cur[v] /\ wpc[v] = "task" /\ wpc'[v] = "after"
             /\ cur' = cur
             /\ UNCHANGED <<events, ended, returned, delivered, forwarder, busy>>
  BY <1>5 DEF Throw, TypeOK
<1>6. ASSUME RequestStop
      PROVE  /\ \A v \in Workers : \/ cur'[v] = cur[v] /\ wpc'[v] = wpc[v]
                                   \/ wpc[v] \notin Inside /\ wpc'[v] \notin Inside
             /\ cur' = cur
             /\ UNCHANGED <<events, ended, returned, delivered, forwarder, busy>>
  <2>1. joined + 1 \in Workers
    BY <1>6, CountsAssumption DEF RequestStop, Workers, TypeOK
  <2>2. \A v \in Workers : wpc'[v] = wpc[v] \/ (wpc[v] = "asleep" /\ wpc'[v] = "getTask")
    BY <1>6, <2>1, StopCallbackTyped DEF RequestStop
  <2>3. QED
    BY <1>6, <2>2 DEF RequestStop
<1>7. ASSUME BeginStop \/ BeginDestroy \/ Join \/ UNCHANGED vars
      PROVE  wpc' = wpc /\ cur' = cur /\ UNCHANGED <<events, ended, returned, delivered, forwarder, busy>>
  BY <1>7 DEF BeginStop, BeginDestroy, Join, vars
<1> HIDE DEF Inside
<1>8. CASE \E priority \in Priorities \cup {0}, displace \in BOOLEAN : Submit(priority, displace)
  BY <1>1, <1>2, <1>8
<1>9. CASE \E w \in Workers : Loop(w) \/ TakeTask(w) \/ Sleep(w) \/ GiveUp(w) \/ Spurious(w)
  BY <1>1, <1>3, <1>4, <1>9
<1>10. CASE \E w \in Workers : Throw(w)
  BY <1>1, <1>5, <1>10
<1>11. CASE RequestStop
  BY <1>1, <1>6, <1>11
<1>12. CASE BeginStop \/ BeginDestroy \/ Join \/ UNCHANGED vars
  BY <1>1, <1>7, <1>12
<1>13. QED
  BY <1>8, <1>9, <1>10, <1>11, <1>12, Cases

\* A result is with its worker, in the event queue or executed, and only there.
ResultInv ==
  /\ \A t \in returned : Begun(t)
  /\ \A w \in Workers : wpc[w] = "task" => cur[w] \notin returned
  /\ \A t \in Tasks : HasResult(t) => t \in returned /\ ~Posted("result", t)
  /\ \A t \in Tasks : Posted("result", t) => t \in returned
  /\ \A t \in Tasks :
       delivered[t] = IF t \in returned /\ ~Posted("result", t) /\ ~HasResult(t) THEN 1 ELSE 0

\* Nothing has been heard of a task before its worker forwards beforeExecute.
LEMMA NotBegun ==
  ASSUME TypeOK, TaskInv, EventInv, ResultInv, NEW w \in Workers, wpc[w] = "before"
  PROVE  /\ cur[w] \in Tasks /\ ~Begun(cur[w]) /\ cur[w] \notin returned
         /\ \A kind \in Kinds \ {"delete"} : ~Posted(kind, cur[w])
<1>1. cur[w] \in Tasks /\ cur[w] # NoTask
  BY DEF TypeOK
<1>2. ~Begun(cur[w])
  BY <1>1 DEF TaskInv, Begun, Running
<1>3. \A kind \in Kinds \ {"delete"} : ~Posted(kind, cur[w])
  BY <1>2 DEF EventInv, PostedByTask, Posted
<1>4. QED
  BY <1>1, <1>2, <1>3 DEF ResultInv

\* Every step keeps the order of the functors.
LEMMA EventStep ==
  TypeOK /\ TypeOK' /\ TaskInv /\ StopInv /\ EventInv /\ ResultInv /\ [Next]_vars => EventInv'
<1> SUFFICES ASSUME TypeOK, TypeOK', TaskInv, StopInv, EventInv, ResultInv, [Next]_vars
             PROVE  EventInv'
  OBVIOUS
<1> USE DEF taskVars, stopVars, guiVars, hisVars
<1>0. ASSUME NEW w \in Workers, wpc[w] \in {"task", "result", "after"}
      PROVE  cur[w] \in Tasks /\ cur[w] \notin ended /\ Running(cur[w])
  BY <1>0 DEF TypeOK, TaskInv, Running
<1>1. ASSUME events' = events, ended' = ended, \A t : Begun(t) => Begun(t)' PROVE EventInv'
  BY <1>1 DEF EventInv, PostedOnce, PostedByTask, AfterIsLast, AfterFollows, Posted
<1>2. ASSUME NEW w \in Workers, ForwardBefore(w) PROVE EventInv'
  <2>1. /\ events' = Append(events, <<"before", cur[w]>>) /\ ended' = ended
        /\ cur' = cur /\ wpc' = [wpc EXCEPT ![w] = "task"]
    BY <1>2 DEF ForwardBefore
  <2>2. cur[w] \in Tasks /\ ~Begun(cur[w]) /\ ~Posted("before", cur[w])
    BY <1>2, NotBegun DEF ForwardBefore, Kinds
  <2>3. \A u : Begun(u) \/ u = cur[w] => Begun(u)'
    BY <2>1 DEF Begun, Running, TypeOK
  <2>4. QED
    BY <2>1, <2>2, <2>3, EventPost DEF Begun
<1>3. ASSUME NEW w \in Workers, ForwardResult(w) PROVE EventInv'
  <2>1. /\ events' = Append(events, <<"result", cur[w]>>) /\ ended' = ended
        /\ cur' = cur /\ wpc' = [wpc EXCEPT ![w] = "after"] /\ wpc[w] = "result"
    BY <1>3 DEF ForwardResult
  <2>2. cur[w] \in Tasks /\ cur[w] \notin ended /\ ~Posted("result", cur[w])
    BY <1>0, <2>1 DEF ResultInv, HasResult
  <2>3. \A u : Begun(u) \/ u = cur[w] => Begun(u)'
    BY <2>1 DEF Begun, Running, TypeOK
  <2>4. QED
    BY <2>1, <2>2, <2>3, EventPost
<1>4. ASSUME NEW w \in Workers, ForwardAfter(w) PROVE EventInv'
  <2>1. /\ events' = Append(events, <<"after", cur[w]>>) /\ ended' = ended \cup {cur[w]}
        /\ cur' = [cur EXCEPT ![w] = NoTask] /\ wpc' = [wpc EXCEPT ![w] = "loop"]
        /\ wpc[w] = "after"
    BY <1>4 DEF ForwardAfter
  <2>2. cur[w] \in Tasks /\ cur[w] \notin ended
    BY <1>0, <2>1
  <2>3. ~Posted("after", cur[w])
    BY <2>2 DEF EventInv, AfterIsLast, Posted
  <2>4. \A u : Begun(u) \/ u = cur[w] => Begun(u)'
    BY <2>1 DEF Begun, Running, TypeOK
  <2>5. QED
    BY <2>1, <2>2, <2>3, <2>4, EventPost
<1>5. ASSUME NEW w \in Workers, Return(w) PROVE EventInv'
  <2>1. events' = events /\ ended' = ended /\ cur' = cur /\ wpc' = [wpc EXCEPT ![w] = "result"]
    BY <1>5 DEF Return
  <2>2. \A t : Begun(t) => Begun(t)'
    BY <2>1 DEF Begun, Running, TypeOK
  <2>3. QED
    BY <1>1, <2>1, <2>2
<1>6. ASSUME StopDone PROVE EventInv'
  <2>1. UNCHANGED <<ended, cur, wpc>>
    BY <1>6 DEF StopDone
  <2>2. \A t : Begun(t) => Begun(t)'
    BY <2>1 DEF Begun, Running
  <2>3. CASE gui = "stop"
    BY <1>1, <1>6, <2>1, <2>2, <2>3 DEF StopDone
  <2>4. CASE gui # "stop"
    <3>1. events' = Append(events, <<"delete", NoTask>>) /\ gui # "gone"
      BY <1>6, <2>4 DEF StopDone, Stopping
    <3>2. "delete" \in Kinds /\ NoTask \in Tasks \cup {NoTask}
      BY DEF Kinds
    <3>3. /\ Len(events) \in Nat /\ Len(events') = Len(events) + 1
          /\ \A i \in 1 .. Len(events) : events'[i] = events[i]
          /\ events'[Len(events) + 1] = <<"delete", NoTask>>
          /\ \A k, u : Posted(k, u)' <=> Posted(k, u) \/ (k = "delete" /\ u = NoTask)
      BY <3>1, <3>2, Post
    <3>4. \A i \in 1 .. Len(events) : events[i][1] # "delete"
      BY <3>1 DEF StopInv
    <3>5. \A i \in 1 .. Len(events') : i \in 1 .. Len(events) \/ i = Len(events) + 1
      BY <3>3
    <3>6. PostedOnce'
      BY <3>3, <3>4, <3>5 DEF EventInv, PostedOnce
    <3>7. PostedByTask'
      BY <2>2, <3>3, <3>5 DEF EventInv, PostedByTask
    <3>8. NoTask \notin ended
      BY DEF TypeOK, NoTask, Tasks
    <3>9. AfterIsLast'
      <4>1. ASSUME NEW i \in 1 .. Len(events'), events'[i][1] = "after"
            PROVE  /\ events'[i][2] \in ended
                   /\ \A j \in 1 .. Len(events') : events'[j][2] = events'[i][2] => j <= i
        <5>1. i \in 1 .. Len(events) /\ events'[i] = events[i]
          BY <3>3, <3>5, <4>1
        <5>2. /\ events[i][2] \in ended
              /\ \A j \in 1 .. Len(events) : events[j][2] = events[i][2] => j <= i
          BY <4>1, <5>1 DEF EventInv, AfterIsLast
        <5>3. events'[Len(events) + 1][2] # events[i][2]
          BY <3>3, <3>8, <5>2
        <5>4. QED
          BY <3>3, <3>5, <5>1, <5>2, <5>3
      <4>2. QED
        BY <2>1, <4>1 DEF AfterIsLast
    <3>10. AfterFollows'
      BY <2>1, <3>3 DEF EventInv, AfterFollows
    <3>11. QED
      BY <3>6, <3>7, <3>9, <3>10 DEF EventInv
  <2>5. QED
    BY <2>3, <2>4
<1>7. ASSUME Deliver PROVE EventInv'
  <2>1. PICK kind \in Kinds, t \in Tasks \cup {NoTask} :
          /\ events # <<>> /\ Head(events) = <<kind, t>>
          /\ events' = IF kind = "delete" THEN <<>> ELSE Tail(events)
    BY <1>7, DeliverTyped
  <2>2. UNCHANGED <<ended, cur, wpc>>
    BY <1>7 DEF Deliver
  <2>3. \A u : Begun(u) => Begun(u)'
    BY <2>2 DEF Begun, Running
  <2>4. CASE kind # "delete"
    BY <2>1, <2>2, <2>3, <2>4, EventPop
  <2>5. CASE kind = "delete"
    <3>1. events' = <<>>
      BY <2>1, <2>5
    <3>2. QED
      BY <3>1 DEF EventInv, PostedOnce, PostedByTask, AfterIsLast, AfterFollows, Posted
  <2>6. QED
    BY <2>4, <2>5
<1>8. ASSUME ~ \E w \in Workers : ForwardBefore(w) \/ Return(w) \/ ForwardResult(w) \/ ForwardAfter(w),
             ~ StopDone, ~ Deliver
      PROVE  EventInv'
  <2>1. events' = events /\ ended' = ended /\ \A t : Running(t)' <=> Running(t)
    BY <1>8, Quiet
  <2>2. \A t : Begun(t) => Begun(t)'
    BY <2>1 DEF Begun
  <2>3. QED
    BY <1>1, <2>1, <2>2
<1>9. QED
  BY <1>2, <1>3, <1>4, <1>5, <1>6, <1>7, <1>8

\* The functor that has been executed is not posted any more, and the deletion of
\* the forwarder is the last one.
LEMMA PoppedOnce ==
  ASSUME TypeOK, EventInv, NEW kind, NEW t, events # <<>>, Head(events) = <<kind, t>>,
         events' = Tail(events)
  PROVE  ~Posted(kind, t)'
<1> SUFFICES ASSUME Posted(kind, t)' PROVE FALSE
  OBVIOUS
<1>1. /\ 1 \in 1 .. Len(events) /\ events[1] = <<kind, t>>
      /\ \A i \in 1 .. Len(events') : i + 1 \in 1 .. Len(events) /\ events'[i] = events[i + 1]
  BY Pop
<1>2. PICK i \in 1 .. Len(events') : events'[i] = <<kind, t>>
  BY DEF Posted
<1>3. i + 1 = 1
  BY <1>1, <1>2 DEF EventInv, PostedOnce
<1>4. QED
  BY <1>3

\* When the forwarder is deleted, nothing but its deletion is posted.
LEMMA DeleteAlone ==
  ASSUME TypeOK, StopInv, NEW t, events # <<>>, Head(events) = <<"delete", t>>
  PROVE  gui = "gone" /\ \A k \in Kinds \ {"delete"} : \A u : ~Posted(k, u)
<1>1. 1 \in 1 .. Len(events) /\ events[1] = <<"delete", t>> /\ Len(events) \in Nat
  BY TailEvents DEF TypeOK, Events
<1>2. gui = "gone" /\ Len(events) = 1
  <2>1. events[1][1] = "delete"
    BY <1>1
  <2>2. \A i \in 1 .. Len(events) : events[i][1] = "delete" => gui = "gone" /\ i = Len(events)
    BY DEF StopInv
  <2>3. QED
    BY <1>1, <2>1, <2>2
<1>3. \A i \in 1 .. Len(events) : events[i] = <<"delete", t>>
  BY <1>1, <1>2
<1>4. ASSUME NEW k \in Kinds \ {"delete"}, NEW u, Posted(k, u) PROVE FALSE
  BY <1>3, <1>4 DEF Posted
<1>5. QED
  BY <1>2, <1>4

\* Every step keeps the accounts of the results.
LEMMA ResultStep ==
  TypeOK /\ TypeOK' /\ TaskInv /\ StopInv /\ EventInv /\ ResultInv /\ [Next]_vars => ResultInv'
<1> SUFFICES ASSUME TypeOK, TypeOK', TaskInv, StopInv, EventInv, ResultInv, [Next]_vars
             PROVE  ResultInv'
  OBVIOUS
<1> USE DEF taskVars, stopVars, guiVars, hisVars
<1>0. /\ delivered \in [Tasks -> Nat] /\ wpc \in [Workers -> WorkerPc]
      /\ cur \in [Workers -> Tasks \cup {NoTask}]
  BY DEF TypeOK
<1>1. ASSUME UNCHANGED <<returned, delivered>>,
             \A t : Begun(t) => Begun(t)',
             \A t \in Tasks : HasResult(t)' <=> HasResult(t),
             \A t \in Tasks : Posted("result", t)' <=> Posted("result", t),
             \A w \in Workers : wpc'[w] = "task" => cur'[w] \notin returned
      PROVE  ResultInv'
  BY <1>1 DEF ResultInv
<1>2. \A w \in Workers : wpc[w] = "task" => cur[w] \notin returned
  BY DEF ResultInv
<1>3. ASSUME NEW w \in Workers, ForwardBefore(w) PROVE ResultInv'
  <2>1. /\ events' = Append(events, <<"before", cur[w]>>) /\ UNCHANGED <<returned, delivered, ended>>
        /\ cur' = cur /\ wpc' = [wpc EXCEPT ![w] = "task"] /\ wpc[w] = "before"
    BY <1>3 DEF ForwardBefore
  <2>2. cur[w] \in Tasks /\ cur[w] \notin returned /\ "before" \in Kinds
    BY <2>1, NotBegun DEF Kinds
  <2>3. \A t : Begun(t) => Begun(t)'
    BY <1>0, <2>1 DEF Begun, Running
  <2>4. \A t : HasResult(t)' <=> HasResult(t)
    BY <1>0, <2>1 DEF HasResult
  <2>5. \A t : Posted("result", t)' <=> Posted("result", t)
    BY <2>1, <2>2, Post
  <2>6. \A v \in Workers : wpc'[v] = "task" => cur'[v] \notin returned
    BY <1>0, <1>2, <2>1, <2>2
  <2>7. QED
    BY <1>1, <2>1, <2>3, <2>4, <2>5, <2>6
<1>4. ASSUME NEW w \in Workers, Return(w) PROVE ResultInv'
  <2>1. /\ events' = events /\ UNCHANGED <<delivered, ended>> /\ returned' = returned \cup {cur[w]}
        /\ cur' = cur /\ wpc' = [wpc EXCEPT ![w] = "result"] /\ wpc[w] = "task"
    BY <1>4 DEF Return
  <2>2. cur[w] \in Tasks /\ cur[w] \notin returned /\ ~Posted("result", cur[w]) /\ Running(cur[w])
    BY <2>1 DEF TypeOK, ResultInv, Running
  <2>3. \A t : Begun(t) => Begun(t)'
    BY <1>0, <2>1 DEF Begun, Running
  <2>4. \A t : HasResult(t)' <=> HasResult(t) \/ t = cur[w]
    BY <1>0, <2>1 DEF HasResult
  <2>5. \A t : Posted("result", t)' <=> Posted("result", t)
    BY <2>1 DEF Posted
  <2>6. \A v \in Workers : wpc'[v] = "task" => cur'[v] \notin returned'
    BY <1>0, <1>2, <2>1, <2>2 DEF TaskInv, NoTask, Tasks
  <2>7. QED
    BY <2>1, <2>2, <2>3, <2>4, <2>5, <2>6 DEF ResultInv, Begun
<1>5. ASSUME NEW w \in Workers, ForwardResult(w) PROVE ResultInv'
  <2>1. /\ events' = Append(events, <<"result", cur[w]>>) /\ UNCHANGED <<returned, delivered, ended>>
        /\ cur' = cur /\ wpc' = [wpc EXCEPT ![w] = "after"] /\ wpc[w] = "result"
    BY <1>5 DEF ForwardResult
  <2>2. cur[w] \in Tasks /\ HasResult(cur[w]) /\ "result" \in Kinds /\ cur[w] # NoTask
    BY <2>1 DEF TypeOK, HasResult, Kinds
  <2>3. \A t : Begun(t) => Begun(t)'
    BY <1>0, <2>1 DEF Begun, Running
  <2>4. \A t : HasResult(t)' <=> (HasResult(t) /\ t # cur[w])
    BY <1>0, <2>1, <2>2 DEF HasResult, TaskInv
  <2>5. \A t : Posted("result", t)' <=> Posted("result", t) \/ t = cur[w]
    BY <2>1, <2>2, Post
  <2>6. \A v \in Workers : wpc'[v] = "task" => cur'[v] \notin returned
    BY <1>0, <1>2, <2>1
  <2>7. QED
    BY <2>1, <2>2, <2>3, <2>4, <2>5, <2>6 DEF ResultInv
<1>6. ASSUME NEW w \in Workers, ForwardAfter(w) PROVE ResultInv'
  <2>1. /\ events' = Append(events, <<"after", cur[w]>>) /\ ended' = ended \cup {cur[w]}
        /\ cur' = [cur EXCEPT ![w] = NoTask] /\ wpc' = [wpc EXCEPT ![w] = "loop"]
        /\ wpc[w] = "after" /\ UNCHANGED <<returned, delivered>>
    BY <1>6 DEF ForwardAfter
  <2>2. cur[w] \in Tasks /\ "after" \in Kinds
    BY <2>1 DEF TypeOK, Kinds
  <2>3. \A t : Begun(t) => Begun(t)'
    BY <1>0, <2>1 DEF Begun, Running
  <2>4. \A t : HasResult(t)' <=> HasResult(t)
    BY <1>0, <2>1 DEF HasResult
  <2>5. \A t : Posted("result", t)' <=> Posted("result", t)
    BY <2>1, <2>2, Post
  <2>6. \A v \in Workers : wpc'[v] = "task" => cur'[v] \notin returned
    BY <1>0, <1>2, <2>1
  <2>7. QED
    BY <1>1, <2>1, <2>3, <2>4, <2>5, <2>6
<1>7. ASSUME StopDone PROVE ResultInv'
  <2>1. UNCHANGED <<returned, delivered, ended, cur, wpc>>
    BY <1>7 DEF StopDone
  <2>2. \A t : Posted("result", t)' <=> Posted("result", t)
    <3>1. CASE events' = events
      BY <3>1 DEF Posted
    <3>2. CASE events' = Append(events, <<"delete", NoTask>>)
      <4>1. "delete" \in Kinds /\ NoTask \in Tasks \cup {NoTask}
        BY DEF Kinds
      <4>2. QED
        BY <3>2, <4>1, Post
    <3>3. QED
      BY <1>7, <3>1, <3>2 DEF StopDone
  <2>3. \A t : (Begun(t)' <=> Begun(t)) /\ (HasResult(t)' <=> HasResult(t))
    BY <2>1 DEF Begun, Running, HasResult
  <2>4. QED
    BY <1>1, <1>2, <2>1, <2>2, <2>3
<1>8. ASSUME Deliver PROVE ResultInv'
  <2>1. PICK kind \in Kinds, t \in Tasks \cup {NoTask} :
          /\ events # <<>> /\ Head(events) = <<kind, t>>
          /\ events' = IF kind = "delete" THEN <<>> ELSE Tail(events)
          /\ delivered' = [u \in Tasks |-> IF kind = "result" /\ u = t THEN delivered[u] + 1
                                                                    ELSE delivered[u]]
    BY <1>8, DeliverTyped
  <2>2. UNCHANGED <<returned, ended, cur, wpc>>
    BY <1>8 DEF Deliver
  <2>3. \A u : (Begun(u)' <=> Begun(u)) /\ (HasResult(u)' <=> HasResult(u))
    BY <2>2 DEF Begun, Running, HasResult
  <2>4. CASE kind = "result"
    <3>1. events' = Tail(events)
      BY <2>1, <2>4
    <3>2. Posted("result", t)
      BY <2>1, <2>4, <3>1, Pop DEF Posted
    <3>3. ~Posted("result", t)'
      BY <2>1, <2>4, <3>1, PoppedOnce
    <3>4. \A u : u # t => (Posted("result", u)' <=> Posted("result", u))
      BY <2>1, <2>4, <3>1, Pop
    <3>5. \A v \in Workers : wpc'[v] = "task" => cur'[v] \notin returned
      BY <1>2, <2>2
    <3>6. \A u \in Tasks :
            delivered'[u] = IF u \in returned /\ ~Posted("result", u)' /\ ~HasResult(u) THEN 1 ELSE 0
      <4> TAKE u \in Tasks
      <4>1. delivered[u] = IF u \in returned /\ ~Posted("result", u) /\ ~HasResult(u) THEN 1 ELSE 0
        BY DEF ResultInv
      <4>2. CASE u = t
        <5>1. u \in returned /\ ~HasResult(u)
          BY <3>2, <4>2 DEF ResultInv
        <5>2. delivered'[u] = 1
          BY <2>1, <2>4, <3>2, <4>1, <4>2
        <5>3. QED
          BY <3>3, <4>2, <5>1, <5>2
      <4>3. CASE u # t
        <5>1. delivered'[u] = delivered[u]
          BY <2>1, <4>3
        <5>2. QED
          BY <3>4, <4>1, <4>3, <5>1
      <4>4. QED
        BY <4>2, <4>3
    <3>7. \A u : Posted("result", u)' => Posted("result", u)
      BY <3>2, <3>4
    <3>8. QED
      BY <2>2, <2>3, <3>5, <3>6, <3>7 DEF ResultInv
  <2>5. CASE kind # "result"
    <3>1. delivered' = delivered
      BY <1>0, <2>1, <2>5
    <3>2. \A u : Posted("result", u)' <=> Posted("result", u)
      <4>1. CASE kind = "delete"
        <5>1. events' = <<>> /\ "result" \in Kinds
          BY <2>1, <4>1 DEF Kinds
        <5>2. \A u : ~Posted("result", u)
          BY <2>1, <4>1, <5>1, DeleteAlone
        <5>3. \A u : ~Posted("result", u)'
          BY <5>1 DEF Posted
        <5>4. QED
          BY <5>2, <5>3
      <4>2. CASE kind # "delete"
        BY <2>1, <2>5, <4>2, Pop
      <4>3. QED
        BY <4>1, <4>2
    <3>3. QED
      BY <1>1, <1>2, <2>2, <2>3, <3>1, <3>2
  <2>6. QED
    BY <2>4, <2>5
<1>9. ASSUME ~ \E w \in Workers : ForwardBefore(w) \/ Return(w) \/ ForwardResult(w) \/ ForwardAfter(w),
             ~ StopDone, ~ Deliver
      PROVE  ResultInv'
  <2>1. /\ UNCHANGED <<events, ended, returned, delivered>>
        /\ \A t : (Running(t)' <=> Running(t)) /\ (HasResult(t)' <=> HasResult(t))
        /\ \A w \in Workers : wpc'[w] = "task" => wpc[w] = "task" /\ cur'[w] = cur[w]
    BY <1>9, Quiet
  <2>2. \A t : (Begun(t)' <=> Begun(t)) /\ (Posted("result", t)' <=> Posted("result", t))
    BY <2>1 DEF Begun, Posted
  <2>3. QED
    BY <1>1, <1>2, <2>1, <2>2
<1>10. QED
  BY <1>3, <1>4, <1>5, <1>6, <1>7, <1>8, <1>9

-----------------------------------------------------------------------------
\* Tasks the GUI has heard of or will, and those it counts as busy.
InPlay(t) == Posted("after", t) \/ Running(t)
OpenTasks == {t \in Tasks : InPlay(t) /\ ~Posted("before", t)}

AllInv == TypeOK /\ TaskInv /\ StopInv /\ EventInv /\ ResultInv

\* busy counts the tasks whose beforeExecute the GUI has executed, but not yet
\* their afterExecute.
OpenCounted == busy = Cardinality(OpenTasks)

\* Every step keeps the count.
LEMMA OpenStep == AllInv /\ TypeOK' /\ OpenCounted /\ [Next]_vars => OpenCounted'
<1> SUFFICES ASSUME AllInv, TypeOK', OpenCounted, [Next]_vars PROVE OpenCounted'
  OBVIOUS
<1> TypeOK /\ TaskInv /\ StopInv /\ EventInv /\ ResultInv
  BY DEF AllInv
<1> USE DEF taskVars, stopVars, guiVars, hisVars
<1>0. wpc \in [Workers -> WorkerPc] /\ cur \in [Workers -> Tasks \cup {NoTask}]
  BY DEF TypeOK
<1>1. ASSUME busy' = busy,
             \A t \in Tasks : InPlay(t)' /\ ~Posted("before", t)' <=> InPlay(t) /\ ~Posted("before", t)
      PROVE  OpenCounted'
  <2>1. OpenTasks' = OpenTasks
    BY <1>1 DEF OpenTasks
  <2>2. QED
    BY <1>1, <2>1 DEF OpenCounted
<1>2. ASSUME NEW w \in Workers, ForwardBefore(w) PROVE OpenCounted'
  <2>1. /\ events' = Append(events, <<"before", cur[w]>>) /\ busy' = busy
        /\ cur' = cur /\ wpc' = [wpc EXCEPT ![w] = "task"] /\ wpc[w] = "before"
    BY <1>2 DEF ForwardBefore
  <2>2. cur[w] \in Tasks /\ ~InPlay(cur[w]) /\ "before" \in Kinds
    BY <2>1, NotBegun DEF Kinds, InPlay, Begun
  <2>3. \A t : Running(t)' <=> Running(t) \/ t = cur[w]
    BY <1>0, <2>1 DEF Running
  <2>4. \A k, u : Posted(k, u)' <=> Posted(k, u) \/ (k = "before" /\ u = cur[w])
    BY <2>1, <2>2, Post
  <2>5. QED
    BY <1>1, <2>1, <2>2, <2>3, <2>4 DEF InPlay
<1>3. ASSUME NEW w \in Workers, ForwardResult(w) \/ Return(w) PROVE OpenCounted'
  <2>1. busy' = busy
    BY <1>3 DEF ForwardResult, Return
  <2>2. \A t : Running(t)' <=> Running(t)
    BY <1>0, <1>3 DEF ForwardResult, Return, Running
  <2>3. \A k, u : k # "result" => (Posted(k, u)' <=> Posted(k, u))
    <3>1. CASE events' = events
      BY <3>1 DEF Posted
    <3>2. CASE events' = Append(events, <<"result", cur[w]>>)
      <4>1. "result" \in Kinds /\ cur[w] \in Tasks \cup {NoTask}
        BY <1>0 DEF Kinds
      <4>2. QED
        BY <3>2, <4>1, Post
    <3>3. QED
      BY <1>3, <3>1, <3>2 DEF ForwardResult, Return
  <2>4. QED
    BY <1>1, <2>1, <2>2, <2>3 DEF InPlay
<1>4. ASSUME NEW w \in Workers, ForwardAfter(w) PROVE OpenCounted'
  <2>1. /\ events' = Append(events, <<"after", cur[w]>>) /\ busy' = busy
        /\ cur' = [cur EXCEPT ![w] = NoTask] /\ wpc' = [wpc EXCEPT ![w] = "loop"]
        /\ wpc[w] = "after"
    BY <1>4 DEF ForwardAfter
  <2>2. cur[w] \in Tasks /\ "after" \in Kinds /\ Running(cur[w])
    BY <2>1 DEF TypeOK, Kinds, Running
  <2>3. \A t : Running(t) <=> Running(t)' \/ t = cur[w]
    BY <1>0, <2>1, <2>2 DEF Running
  <2>4. \A k, u : Posted(k, u)' <=> Posted(k, u) \/ (k = "after" /\ u = cur[w])
    BY <2>1, <2>2, Post
  <2>5. QED
    BY <1>1, <2>1, <2>2, <2>3, <2>4 DEF InPlay
<1>5. ASSUME StopDone PROVE OpenCounted'
  <2>1. UNCHANGED <<busy, cur, wpc>>
    BY <1>5 DEF StopDone
  <2>2. \A t : Running(t)' <=> Running(t)
    BY <2>1 DEF Running
  <2>3. \A k, u : k # "delete" => (Posted(k, u)' <=> Posted(k, u))
    <3>1. CASE events' = events
      BY <3>1 DEF Posted
    <3>2. CASE events' = Append(events, <<"delete", NoTask>>)
      <4>1. "delete" \in Kinds /\ NoTask \in Tasks \cup {NoTask}
        BY DEF Kinds
      <4>2. QED
        BY <3>2, <4>1, Post
    <3>3. QED
      BY <1>5, <3>1, <3>2 DEF StopDone
  <2>4. QED
    BY <1>1, <2>1, <2>2, <2>3 DEF InPlay
<1>6. ASSUME Deliver PROVE OpenCounted'
  <2>1. PICK kind \in Kinds, t \in Tasks \cup {NoTask} :
          /\ events # <<>> /\ Head(events) = <<kind, t>>
          /\ events' = IF kind = "delete" THEN <<>> ELSE Tail(events)
          /\ busy' = CASE kind = "before" -> busy + 1
                       [] kind = "after"  -> busy - 1
                       [] OTHER           -> busy
    BY <1>6, DeliverTyped
  <2>2. UNCHANGED <<cur, wpc, ended>>
    BY <1>6 DEF Deliver
  <2>3. \A u : Running(u)' <=> Running(u)
    BY <2>2 DEF Running
  <2>4. OpenTasks \subseteq Tasks /\ IsFiniteSet(OpenTasks) /\ Cardinality(OpenTasks) \in Nat
    BY Counting DEF OpenTasks
  <2>5. CASE kind = "delete"
    <3>1. events' = <<>> /\ busy' = busy
      BY <2>1, <2>5
    <3>2. "before" \in Kinds \ {"delete"} /\ "after" \in Kinds \ {"delete"}
      BY DEF Kinds
    <3>3. \A u : ~Posted("before", u) /\ ~Posted("after", u)
      BY <2>1, <2>5, <3>2, DeleteAlone
    <3>4. \A k, u : ~Posted(k, u)'
      BY <3>1 DEF Posted
    <3>5. QED
      BY <1>1, <2>3, <3>1, <3>3, <3>4 DEF InPlay
  <2>6. ASSUME kind # "delete"
        PROVE  /\ \A k, u : Posted(k, u)' => Posted(k, u)
               /\ \A k, u : Posted(k, u) => Posted(k, u)' \/ (k = kind /\ u = t)
               /\ ~Posted(kind, t)'
               /\ 1 \in 1 .. Len(events) /\ events[1] = <<kind, t>> /\ Posted(kind, t)
               /\ Begun(t)
    <3>1. events' = Tail(events)
      BY <2>1, <2>6
    <3>2. /\ \A k, u : Posted(k, u)' => Posted(k, u)
          /\ \A k, u : Posted(k, u) => Posted(k, u)' \/ (k = kind /\ u = t)
          /\ 1 \in 1 .. Len(events) /\ events[1] = <<kind, t>>
      BY <2>1, <3>1, Pop
    <3>3. ~Posted(kind, t)'
      BY <2>1, <3>1, PoppedOnce
    <3>4. Posted(kind, t)
      BY <3>2 DEF Posted
    <3>5. Begun(t)
      BY <2>6, <3>2 DEF EventInv, PostedByTask
    <3>6. QED
      BY <3>2, <3>3, <3>4, <3>5
  <2>7. t \in Tasks \/ kind = "delete"
    BY <1>0, <2>6 DEF Begun, Running, TypeOK, NoTask, Tasks
  <2>8. CASE kind = "before"
    <3>1. busy' = busy + 1 /\ t \in Tasks
      BY <2>1, <2>7, <2>8
    <3>2. InPlay(t) /\ t \notin OpenTasks
      BY <2>6, <2>8 DEF Begun, InPlay, EventInv, AfterFollows, OpenTasks
    <3>3. \A u : /\ InPlay(u)' <=> InPlay(u)
                 /\ Posted("before", u)' <=> (Posted("before", u) /\ u # t)
      BY <2>3, <2>6, <2>8 DEF InPlay
    <3>4. OpenTasks' = OpenTasks \cup {t}
      BY <3>1, <3>2, <3>3 DEF OpenTasks
    <3>5. Cardinality(OpenTasks') = Cardinality(OpenTasks) + 1
      BY <2>4, <3>2, <3>4, Counting
    <3>6. QED
      BY <3>1, <3>5 DEF OpenCounted
  <2>9. CASE kind = "after"
    <3>1. busy' = busy - 1 /\ t \in Tasks
      BY <2>1, <2>7, <2>9
    <3>2. t \in ended
      BY <2>6, <2>9 DEF EventInv, AfterIsLast
    <3>3. ~Running(t)
      BY <3>2 DEF Running, TaskInv
    <3>4. ~Posted("before", t)
      <4> SUFFICES ASSUME Posted("before", t) PROVE FALSE
        OBVIOUS
      <4>1. PICK j \in 1 .. Len(events) : events[j] = <<"before", t>>
        BY DEF Posted
      <4>2. j <= 1
        BY <2>6, <2>9, <4>1 DEF EventInv, AfterIsLast
      <4>3. j = 1
        BY <4>2
      <4>4. QED
        BY <2>6, <2>9, <4>1, <4>3
    <3>5. t \in OpenTasks
      BY <2>6, <2>9, <3>1, <3>4 DEF OpenTasks, InPlay
    <3>6. \A u : /\ InPlay(u)' <=> (InPlay(u) /\ u # t)
                 /\ Posted("before", u)' <=> Posted("before", u)
      BY <2>3, <2>6, <2>9, <3>3 DEF InPlay
    <3>7. OpenTasks' = OpenTasks \ {t}
      BY <3>6 DEF OpenTasks
    <3>8. Cardinality(OpenTasks') = Cardinality(OpenTasks) - 1
      BY <2>4, <3>5, <3>7, Counting
    <3>9. QED
      BY <3>1, <3>8 DEF OpenCounted
  <2>10. CASE kind = "result"
    <3>1. busy' = busy
      BY <2>1, <2>10
    <3>2. \A u : /\ Posted("before", u)' <=> Posted("before", u)
                 /\ Posted("after", u)' <=> Posted("after", u)
      BY <2>6, <2>10
    <3>3. QED
      BY <1>1, <2>3, <3>1, <3>2 DEF InPlay
  <2>11. QED
    BY <2>5, <2>8, <2>9, <2>10 DEF Kinds
<1>7. ASSUME ~ \E w \in Workers : ForwardBefore(w) \/ Return(w) \/ ForwardResult(w) \/ ForwardAfter(w),
             ~ StopDone, ~ Deliver
      PROVE  OpenCounted'
  <2>1. UNCHANGED <<events, busy>> /\ \A t : Running(t)' <=> Running(t)
    BY <1>7, Quiet
  <2>2. \A k, u : Posted(k, u)' <=> Posted(k, u)
    BY <2>1 DEF Posted
  <2>3. QED
    BY <1>1, <2>1, <2>2 DEF InPlay
<1>8. QED
  BY <1>2, <1>3, <1>4, <1>5, <1>6, <1>7

-----------------------------------------------------------------------------
AfterBefore(t, u) == \E i, j \in 1 .. Len(events) :
                       i < j /\ events[i] = <<"after", t>> /\ events[j] = <<"before", u>>

\* Of two tasks of one worker, the afterExecute of the earlier one is posted
\* before the beforeExecute of the later one.
OneByOne(owner) ==
  /\ \A w \in Workers : cur[w] # NoTask => owner[cur[w]] = w
  /\ \A t \in Tasks : InPlay(t) => owner[t] \in Workers
  /\ \A t, u \in Tasks : t # u /\ owner[t] = owner[u] /\ InPlay(t) /\ InPlay(u)
                           => AfterBefore(t, u) \/ AfterBefore(u, t)

WorkersApart == \E owner \in [Tasks -> 0 .. ThreadCount] : OneByOne(owner)

\* Posting keeps the order of what was posted.
LEMMA StillAfterBefore ==
  ASSUME TypeOK, NEW kind \in Kinds, NEW t \in Tasks \cup {NoTask},
         events' = Append(events, <<kind, t>>)
  PROVE  /\ \A u, v : AfterBefore(u, v) => AfterBefore(u, v)'
         /\ kind = "before" => \A u : Posted("after", u) => AfterBefore(u, t)'
<1>1. /\ Len(events) \in Nat /\ Len(events') = Len(events) + 1
      /\ \A i \in 1 .. Len(events) : events'[i] = events[i]
      /\ events'[Len(events) + 1] = <<kind, t>>
  BY Post
<1>2. \A i \in 1 .. Len(events) : i \in 1 .. Len(events') /\ i < Len(events) + 1
  BY <1>1
<1>3. Len(events) + 1 \in 1 .. Len(events')
  BY <1>1
<1>4. ASSUME NEW u, NEW v, AfterBefore(u, v) PROVE AfterBefore(u, v)'
  <2>1. PICK i, j \in 1 .. Len(events) :
          i < j /\ events[i] = <<"after", u>> /\ events[j] = <<"before", v>>
    BY <1>4 DEF AfterBefore
  <2>2. QED
    BY <1>1, <1>2, <2>1 DEF AfterBefore
<1>5. ASSUME kind = "before", NEW u, Posted("after", u) PROVE AfterBefore(u, t)'
  <2>1. PICK i \in 1 .. Len(events) : events[i] = <<"after", u>>
    BY <1>5 DEF Posted
  <2>2. QED
    BY <1>1, <1>2, <1>3, <1>5, <2>1 DEF AfterBefore
<1>6. QED
  BY <1>4, <1>5

\* Every step keeps the tasks of one worker in order: TakeTask gives the task to
\* its worker, all other steps leave the owners as they are.
LEMMA ApartStep == AllInv /\ TypeOK' /\ WorkersApart /\ [Next]_vars => WorkersApart'
<1> SUFFICES ASSUME AllInv, TypeOK', [Next]_vars,
                    NEW owner \in [Tasks -> 0 .. ThreadCount], OneByOne(owner)
             PROVE  WorkersApart'
  BY DEF WorkersApart
<1> TypeOK /\ TaskInv /\ StopInv /\ EventInv /\ ResultInv
  BY DEF AllInv
<1> USE DEF taskVars, stopVars, guiVars, hisVars
<1>0. wpc \in [Workers -> WorkerPc] /\ cur \in [Workers -> Tasks \cup {NoTask}] /\ NoTask \notin Tasks
  BY DEF TypeOK, NoTask, Tasks
<1>1. ASSUME \A w \in Workers : cur'[w] = cur[w] \/ cur'[w] = NoTask,
             \A t \in Tasks : InPlay(t)' => InPlay(t),
             \A t, u \in Tasks : AfterBefore(t, u) => AfterBefore(t, u)'
      PROVE  WorkersApart'
  <2>1. OneByOne(owner)'
    BY <1>1 DEF OneByOne
  <2>2. QED
    BY <2>1 DEF WorkersApart
<1>2. ASSUME NEW w \in Workers, ForwardBefore(w) PROVE WorkersApart'
  <2>1. /\ events' = Append(events, <<"before", cur[w]>>)
        /\ cur' = cur /\ wpc' = [wpc EXCEPT ![w] = "task"] /\ wpc[w] = "before"
    BY <1>2 DEF ForwardBefore
  <2>2. cur[w] \in Tasks /\ "before" \in Kinds
    BY <2>1, NotBegun DEF Kinds
  <2>3. \A t : Running(t)' <=> Running(t) \/ t = cur[w]
    BY <1>0, <2>1 DEF Running
  <2>4. \A k, u : Posted(k, u)' <=> Posted(k, u) \/ (k = "before" /\ u = cur[w])
    BY <2>1, <2>2, Post
  <2>5. \A t : InPlay(t)' <=> InPlay(t) \/ t = cur[w]
    BY <2>3, <2>4 DEF InPlay
  <2>6. /\ \A u, v : AfterBefore(u, v) => AfterBefore(u, v)'
        /\ \A u : Posted("after", u) => AfterBefore(u, cur[w])'
    BY <2>1, <2>2, StillAfterBefore
  <2>7. owner[cur[w]] = w
    BY <1>0, <2>2 DEF OneByOne
  <2>8. \A u \in Tasks : Running(u) /\ owner[u] = w => u = cur[w]
    BY <1>0 DEF OneByOne, Running
  <2>9. \A u \in Tasks : InPlay(u) /\ owner[u] = w /\ u # cur[w] => AfterBefore(u, cur[w])'
    BY <2>6, <2>8 DEF InPlay
  <2>10. \A v \in Workers : cur'[v] # NoTask => owner[cur'[v]] = v
    BY <2>1 DEF OneByOne
  <2>11. \A t \in Tasks : InPlay(t)' => owner[t] \in Workers
    BY <2>5, <2>7 DEF OneByOne
  <2>12. ASSUME NEW t \in Tasks, NEW u \in Tasks, t # u, owner[t] = owner[u], InPlay(t)', InPlay(u)'
         PROVE  AfterBefore(t, u)' \/ AfterBefore(u, t)'
    <3>1. CASE t = cur[w]
      BY <2>1, <2>5, <2>7, <2>9, <2>12, <3>1
    <3>2. CASE u = cur[w]
      BY <2>1, <2>5, <2>7, <2>9, <2>12, <3>2
    <3>3. CASE t # cur[w] /\ u # cur[w]
      BY <2>5, <2>6, <2>12, <3>3 DEF OneByOne
    <3>4. QED
      BY <3>1, <3>2, <3>3
  <2>13. OneByOne(owner)'
    BY <2>10, <2>11, <2>12 DEF OneByOne
  <2>14. QED
    BY <2>13 DEF WorkersApart
<1>3. ASSUME NEW kind \in Kinds \ {"before"}, NEW t \in Tasks \cup {NoTask},
             events' = Append(events, <<kind, t>>) \/ events' = events,
             \A w \in Workers : cur'[w] = cur[w] \/ cur'[w] = NoTask,
             \A u : Running(u)' => Running(u),
             kind = "after" => Running(t)
      PROVE  WorkersApart'
  <2>1. CASE events' = events
    <3>1. /\ \A k, u : Posted(k, u)' <=> Posted(k, u)
          /\ \A u, v : AfterBefore(u, v)' <=> AfterBefore(u, v)
      BY <2>1 DEF Posted, AfterBefore
    <3>2. QED
      BY <1>1, <1>3, <3>1 DEF InPlay
  <2>2. CASE events' = Append(events, <<kind, t>>)
    <3>1. /\ \A k, u : Posted(k, u)' <=> Posted(k, u) \/ (k = kind /\ u = t)
          /\ \A u, v : AfterBefore(u, v) => AfterBefore(u, v)'
      BY <2>2, Post, StillAfterBefore
    <3>2. QED
      BY <1>1, <1>3, <3>1 DEF InPlay
  <2>3. QED
    BY <1>3, <2>1, <2>2
<1>4. ASSUME NEW w \in Workers, Return(w) \/ ForwardResult(w) PROVE WorkersApart'
  <2>1. cur' = cur /\ (events' = Append(events, <<"result", cur[w]>>) \/ events' = events)
    BY <1>4 DEF Return, ForwardResult
  <2>2. \A u : Running(u)' => Running(u)
    BY <1>0, <1>4 DEF Return, ForwardResult, Running
  <2>3. "result" \in Kinds \ {"before"} /\ cur[w] \in Tasks \cup {NoTask}
    BY <1>0 DEF Kinds
  <2>4. QED
    BY <1>3, <2>1, <2>2, <2>3
<1>5. ASSUME NEW w \in Workers, ForwardAfter(w) PROVE WorkersApart'
  <2>1. /\ events' = Append(events, <<"after", cur[w]>>)
        /\ cur' = [cur EXCEPT ![w] = NoTask] /\ wpc' = [wpc EXCEPT ![w] = "loop"]
        /\ wpc[w] = "after"
    BY <1>5 DEF ForwardAfter
  <2>2. (\A u : Running(u)' => Running(u)) /\ Running(cur[w])
    BY <1>0, <2>1 DEF Running
  <2>3. "after" \in Kinds \ {"before"} /\ cur[w] \in Tasks \cup {NoTask}
    BY <1>0 DEF Kinds
  <2>4. \A v \in Workers : cur'[v] = cur[v] \/ cur'[v] = NoTask
    BY <1>0, <2>1
  <2>5. QED
    BY <1>3, <2>1, <2>2, <2>3, <2>4
<1>6. ASSUME StopDone PROVE WorkersApart'
  <2>1. /\ UNCHANGED <<cur, wpc>>
        /\ events' = Append(events, <<"delete", NoTask>>) \/ events' = events
    BY <1>6 DEF StopDone
  <2>2. \A u : Running(u)' => Running(u)
    BY <2>1 DEF Running
  <2>3. "delete" \in Kinds \ {"before"} /\ NoTask \in Tasks \cup {NoTask}
    BY DEF Kinds
  <2>4. QED
    BY <1>3, <2>1, <2>2, <2>3
<1>7. ASSUME Deliver PROVE WorkersApart'
  <2>1. PICK kind \in Kinds, t \in Tasks \cup {NoTask} :
          /\ events # <<>> /\ Head(events) = <<kind, t>>
          /\ events' = IF kind = "delete" THEN <<>> ELSE Tail(events)
    BY <1>7, DeliverTyped
  <2>2. UNCHANGED <<cur, wpc>>
    BY <1>7 DEF Deliver
  <2>3. \A u : Running(u)' <=> Running(u)
    BY <2>2 DEF Running
  <2>4. CASE kind = "delete"
    <3>1. gui = "gone"
      BY <2>1, <2>4, DeleteAlone
    <3>2. \A w \in Workers : wpc[w] = "exited"
      BY <3>1, CountsAssumption DEF StopInv, Workers
    <3>3. \A u : ~Posted("after", u)'
      BY <2>1, <2>4 DEF Posted
    <3>4. \A u : ~InPlay(u)'
      BY <2>3, <3>2, <3>3 DEF InPlay, Running
    <3>5. OneByOne(owner)'
      BY <2>2, <3>4 DEF OneByOne
    <3>6. QED
      BY <3>5 DEF WorkersApart
  <2>5. CASE kind # "delete"
    <3>1. events' = Tail(events)
      BY <2>1, <2>5
    <3>2. /\ Len(events) \in Nat \ {0} /\ Len(events') = Len(events) - 1
          /\ 1 \in 1 .. Len(events) /\ events[1] = <<kind, t>>
          /\ \A i \in 1 .. Len(events') : i + 1 \in 1 .. Len(events) /\ events'[i] = events[i + 1]
          /\ \A k, u : Posted(k, u)' => Posted(k, u)
      BY <2>1, <3>1, Pop
    <3>3. ~Posted(kind, t)'
      BY <2>1, <3>1, PoppedOnce
    <3>4. \A u : InPlay(u)' => InPlay(u)
      BY <2>3, <3>2 DEF InPlay
    <3>5. ASSUME NEW u \in Tasks, NEW v \in Tasks, InPlay(u)', AfterBefore(u, v)
          PROVE  AfterBefore(u, v)'
      <4>1. PICK i, j \in 1 .. Len(events) :
              i < j /\ events[i] = <<"after", u>> /\ events[j] = <<"before", v>>
        BY <3>5 DEF AfterBefore
      <4>2. i # 1
        <5> SUFFICES ASSUME i = 1 PROVE FALSE
          OBVIOUS
        <5>1. kind = "after" /\ u = t
          BY <3>2, <4>1
        <5>2. u \in ended
          BY <4>1 DEF EventInv, AfterIsLast
        <5>3. ~Running(u)
          BY <5>2 DEF Running, TaskInv
        <5>4. QED
          BY <2>3, <3>3, <3>5, <5>1, <5>3 DEF InPlay
      <4>3. i - 1 \in 1 .. Len(events') /\ j - 1 \in 1 .. Len(events') /\ i - 1 < j - 1
        BY <3>2, <4>1, <4>2
      <4>4. events'[i - 1] = events[i] /\ events'[j - 1] = events[j]
        BY <3>2, <4>3
      <4>5. QED
        BY <4>1, <4>3, <4>4 DEF AfterBefore
    <3>6. OneByOne(owner)'
      BY <2>2, <3>4, <3>5 DEF OneByOne
    <3>7. QED
      BY <3>6 DEF WorkersApart
  <2>6. QED
    BY <2>4, <2>5
<1>8. ASSUME NEW w \in Workers, TakeTask(w) PROVE WorkersApart'
  <2>1. PICK t \in Queued : /\ t \in Tasks /\ cur' = [cur EXCEPT ![w] = t]
    BY <1>8, QueuedAfterTake
  <2>2. events' = events /\ wpc[w] = "getTask" /\ wpc' = [wpc EXCEPT ![w] = "before"]
    BY <1>8 DEF TakeTask
  <2>3. \A u : Running(u)' <=> Running(u)
    BY <1>0, <2>1, <2>2 DEF Running
  <2>4. /\ \A k, u : Posted(k, u)' <=> Posted(k, u)
        /\ \A u, v : AfterBefore(u, v)' <=> AfterBefore(u, v)
    BY <2>2 DEF Posted, AfterBefore
  <2>5. \A u : InPlay(u)' <=> InPlay(u)
    BY <2>3, <2>4 DEF InPlay
  <2>6. t \notin ended /\ \A v \in Workers : cur[v] # t
    BY <2>1 DEF TaskInv
  <2>7. ~InPlay(t)
    BY <2>6 DEF InPlay, Running, EventInv, AfterIsLast, Posted
  <2>8. w \in 0 .. ThreadCount
    BY DEF Workers
  <2> DEFINE owners == [owner EXCEPT ![t] = w]
  <2>9. owners \in [Tasks -> 0 .. ThreadCount]
    BY <2>8
  <2>10. owners[t] = w /\ \A u \in Tasks \ {t} : owners[u] = owner[u]
    BY <2>1
  <2> HIDE DEF owners
  <2>11. \A v \in Workers : cur'[v] # NoTask => owners[cur'[v]] = v
    <3>1. cur'[w] = t /\ \A v \in Workers \ {w} : cur'[v] = cur[v]
      BY <1>0, <2>1
    <3>2. \A v \in Workers \ {w} : cur[v] # NoTask => cur[v] \in Tasks \ {t} /\ owner[cur[v]] = v
      BY <1>0, <2>6 DEF OneByOne
    <3>3. QED
      BY <2>10, <3>1, <3>2
  <2>12. \A u \in Tasks : InPlay(u)' => owners[u] \in Workers
    BY <2>5, <2>7, <2>10 DEF OneByOne
  <2>13. \A u, v \in Tasks : u # v /\ owners[u] = owners[v] /\ InPlay(u)' /\ InPlay(v)'
                               => AfterBefore(u, v)' \/ AfterBefore(v, u)'
    BY <2>4, <2>5, <2>7, <2>10 DEF OneByOne
  <2>14. OneByOne(owners)'
    BY <2>11, <2>12, <2>13 DEF OneByOne
  <2>15. QED
    BY <2>9, <2>14 DEF WorkersApart
<1>9. ASSUME ~ \E w \in Workers : ForwardBefore(w) \/ Return(w) \/ ForwardResult(w) \/ ForwardAfter(w),
             ~ StopDone, ~ Deliver, ~ \E w \in Workers : TakeTask(w)
      PROVE  WorkersApart'
  <2>1. events' = events /\ (\A t : Running(t)' <=> Running(t)) /\ \A w \in Workers : cur'[w] = cur[w]
    BY <1>9, Quiet
  <2>2. "delete" \in Kinds \ {"before"} /\ NoTask \in Tasks \cup {NoTask}
    BY DEF Kinds
  <2>3. QED
    BY <1>3, <2>1, <2>2
<1>10. QED
  BY <1>2, <1>4, <1>5, <1>6, <1>7, <1>8, <1>9

\* At every moment the busy tasks belong to different workers.
LEMMA BusyBounded ==
  ASSUME AllInv, OpenCounted, WorkersApart
  PROVE  busy \in 0 .. ThreadCount
<1>1. PICK owner \in [Tasks -> 0 .. ThreadCount] : OneByOne(owner)
  BY DEF WorkersApart
<1> DEFINE f == [t \in OpenTasks |-> owner[t]]
<1>2. f \in [OpenTasks -> Workers]
  BY <1>1 DEF OpenTasks, OneByOne
<1>3. ASSUME NEW t \in OpenTasks, NEW u \in OpenTasks, f[t] = f[u] PROVE t = u
  <2>1. t \in Tasks /\ u \in Tasks /\ owner[t] = owner[u] /\ InPlay(t) /\ InPlay(u)
    BY <1>3 DEF OpenTasks
  <2>2. ~AfterBefore(t, u) /\ ~AfterBefore(u, t)
    BY DEF OpenTasks, AfterBefore, Posted
  <2>3. QED
    BY <1>1, <2>1, <2>2 DEF OneByOne
<1>4. f \in Injection(OpenTasks, Workers)
  BY <1>2, <1>3 DEF Injection, IsInjective
<1>5. IsFiniteSet(Workers) /\ Cardinality(Workers) = ThreadCount
  BY CountsAssumption, FS_Interval DEF Workers
<1> HIDE DEF f
<1>6. Cardinality(OpenTasks) <= ThreadCount
  BY <1>4, <1>5, FS_Injection
<1>7. OpenTasks \subseteq Tasks /\ Cardinality(OpenTasks) \in Nat
  BY Counting DEF OpenTasks
<1>8. QED
  BY <1>6, <1>7, CountsAssumption DEF OpenCounted

\* When the forwarder is gone, so are the workers and everything that was posted.
LEMMA AllExecuted ==
  ASSUME AllInv, OpenCounted, ~forwarder
  PROVE  /\ busy = 0
         /\ \A t \in Tasks : delivered[t] = IF t \in returned THEN 1 ELSE 0
<1>1. gui = "gone" /\ events = <<>> /\ \A w \in Workers : wpc[w] = "exited"
  BY CountsAssumption DEF AllInv, StopInv, Workers
<1>2. \A k, t : ~Posted(k, t)
  BY <1>1 DEF Posted
<1>3. \A t : ~Running(t) /\ ~HasResult(t)
  BY <1>1 DEF Running, HasResult
<1>4. OpenTasks = {}
  BY <1>2, <1>3 DEF OpenTasks, InPlay
<1>5. busy = 0
  BY <1>4, FS_EmptySet DEF OpenCounted
<1>6. \A t \in Tasks : delivered[t] = IF t \in returned THEN 1 ELSE 0
  BY <1>2, <1>3 DEF AllInv, ResultInv
<1>7. QED
  BY <1>5, <1>6

\* The whole invariant holds in every state.
LEMMA Invariance == Spec => [](AllInv /\ OpenCounted /\ WorkersApart)
<1>1. Init => AllInv /\ OpenCounted /\ WorkersApart
  <2> SUFFICES ASSUME Init PROVE AllInv /\ OpenCounted /\ WorkersApart
    OBVIOUS
  <2>1. /\ events = <<>> /\ Len(events) = 0 /\ ended = {} /\ returned = {} /\ Queued = {}
        /\ \A w \in Workers : cur[w] = NoTask /\ wpc[w] = "loop"
        /\ delivered = [t \in Tasks |-> 0]
    BY DEF Init, Queued
  <2>2. /\ \A k, t : ~Posted(k, t)
        /\ \A t : ~Running(t) /\ ~HasResult(t) /\ ~Begun(t) /\ ~InPlay(t)
    BY <2>1 DEF Posted, Running, HasResult, Begun, InPlay
  <2>3. TypeOK
    BY CountsAssumption DEF Init, TypeOK, NoTask, WorkerPc, Tasks
  <2>4. TaskInv
    BY DEF Init, TaskInv, Queued, NoTask
  <2>5. StopInv
    BY CountsAssumption DEF Init, StopInv, Workers
  <2>6. EventInv
    BY <2>1 DEF EventInv, PostedOnce, PostedByTask, AfterIsLast, AfterFollows
  <2>7. ResultInv
    BY <2>1, <2>2 DEF ResultInv
  <2>8. OpenCounted
    <3>1. OpenTasks = {} /\ busy = 0
      BY <2>2 DEF OpenTasks, Init
    <3>2. QED
      BY <3>1, FS_EmptySet DEF OpenCounted
  <2>9. WorkersApart
    <3>1. [t \in Tasks |-> 0] \in [Tasks -> 0 .. ThreadCount]
      BY CountsAssumption
    <3>2. OneByOne([t \in Tasks |-> 0])
      BY <2>1, <2>2 DEF OneByOne
    <3>3. QED
      BY <3>1, <3>2 DEF WorkersApart
  <2>10. QED
    BY <2>3, <2>4, <2>5, <2>6, <2>7, <2>8, <2>9 DEF AllInv
<1>2. AllInv /\ OpenCounted /\ WorkersApart /\ [Next]_vars => (AllInv /\ OpenCounted /\ WorkersApart)'
  <2> SUFFICES ASSUME AllInv, OpenCounted, WorkersApart, [Next]_vars
               PROVE  (AllInv /\ OpenCounted /\ WorkersApart)'
    OBVIOUS
  <2>1. TypeOK'
    BY TypeStep DEF AllInv
  <2>2. TaskInv' /\ StopInv' /\ EventInv' /\ ResultInv'
    BY <2>1, TaskStep, StopStep, EventStep, ResultStep DEF AllInv
  <2>3. OpenCounted' /\ WorkersApart'
    BY <2>1, OpenStep, ApartStep
  <2>4. QED
    BY <2>1, <2>2, <2>3 DEF AllInv
<1>3. QED
  BY <1>1, <1>2, PTL DEF Spec

\* The busy indicator stays between zero and the number of workers, and when the
\* forwarder is deleted every result has been executed once and every
\* beforeExecute has had its afterExecute, for any number of tasks and workers.
THEOREM NothingLostAlways == Spec => []NothingLost
<1>1. AllInv /\ OpenCounted /\ WorkersApart => NothingLost
  BY BusyBounded, AllExecuted DEF NothingLost
<1>2. QED
  BY <1>1, Invariance, PTL

-----------------------------------------------------------------------------
(* The executor implements TaskLifecycle, step by step.                      *)

Held(t) == \E w \in Workers : cur[w] = t

Status(t) == IF t > submitted THEN "new"
             ELSE IF t \in Queued THEN "queued"
             ELSE IF Held(t) THEN "running"
             ELSE IF t \in ended THEN "finished"
             ELSE "discarded"

\* The abstract state, task by task.
LEMMA StateIsStatus ==
  /\ TaskState = [t \in Tasks |-> Status(t)]
  /\ TaskState' = [t \in Tasks |-> Status(t)']
  BY DEF TaskState, Status, Held

\* A submission is an abstract one that displaces what has left the queue.
LEMMA SubmitRefines ==
  ASSUME TypeOK, TaskInv, NEW priority \in Priorities \cup {0}, NEW displace \in BOOLEAN,
         Submit(priority, displace)
  PROVE  \E t \in Tasks, displaced \in SUBSET Tasks : Lifecycle!Submit(t, displaced)
<1> DEFINE t == submitted + 1
           displaced == Queued \ Queued'
<1>0. submitted \in Nat
  BY CountsAssumption DEF TypeOK
<1>1. t \in Tasks /\ submitted' = t /\ submitted \in Nat
  BY <1>0, SubmitPositions
<1>2. t \in Queued' /\ Queued' \subseteq Queued \cup {t}
  BY <1>1, QueuedAfterSubmit
<1>3. cur' = cur /\ ended' = ended
  BY DEF Submit, hisVars
<1>4. Queued \subseteq Tasks
  BY QueuedTyped
<1>5. \A s \in Queued : s <= submitted /\ s \notin ended /\ ~Held(s)
  BY DEF TaskInv, Held
<1>6. \A s : Held(s)' <=> Held(s)
  BY <1>3 DEF Held
<1> HIDE DEF t, displaced
<1>7. Status(t) = "new"
  BY <1>1 DEF Status, Tasks, t
<1>8. \A d \in displaced : Status(d) = "queued" /\ d \in Tasks
  BY <1>1, <1>4, <1>5 DEF Status, Tasks, displaced
<1>9. ASSUME NEW s \in Tasks
      PROVE  Status(s)' = IF s = t THEN "queued" ELSE IF s \in displaced THEN "discarded" ELSE Status(s)
  <2>1. s \in Nat /\ t = submitted + 1
    BY DEF Tasks, t
  <2>2. CASE s = t
    BY <1>1, <1>2, <2>1, <2>2 DEF Status
  <2>3. CASE s \in displaced
    BY <1>1, <1>3, <1>5, <1>6, <2>1, <2>3 DEF Status, displaced
  <2>4. CASE s # t /\ s \notin displaced
    <3>1. (s \in Queued' <=> s \in Queued) /\ (s > submitted' <=> s > submitted)
      BY <1>1, <1>2, <1>4, <1>5, <2>1, <2>4 DEF displaced
    <3>2. QED
      BY <1>3, <1>6, <2>4, <3>1 DEF Status
  <2>5. QED
    BY <2>2, <2>3, <2>4
<1>10. \A d \in displaced : TaskState[d] = "queued"
  BY <1>8, StateIsStatus
<1>11. TaskState[t] = "new"
  BY <1>1, <1>7, StateIsStatus
<1>12. TaskState' = [s \in Tasks |-> IF s = t THEN "queued"
                                   ELSE IF s \in displaced THEN "discarded"
                                   ELSE TaskState[s]]
  BY <1>9, StateIsStatus
<1>13. Lifecycle!Submit(t, displaced)
  BY <1>10, <1>11, <1>12 DEF Lifecycle!Submit
<1>14. displaced \in SUBSET Tasks
  BY <1>8
<1>15. QED
  BY <1>1, <1>13, <1>14

\* A task that is taken is started.
LEMMA TakeRefines ==
  ASSUME TypeOK, TaskInv, NEW w \in Workers, TakeTask(w)
  PROVE  \E t \in Tasks : Lifecycle!Start(t)
<1>1. PICK t \in Queued : /\ t \in Tasks /\ cur' = [cur EXCEPT ![w] = t]
                          /\ Queued' = Queued \ {t}
  BY QueuedAfterTake
<1>2. wpc[w] = "getTask" /\ submitted' = submitted /\ ended' = ended
  BY DEF TakeTask, hisVars
<1>3. cur[w] = NoTask /\ NoTask \notin Tasks
  BY <1>2 DEF TypeOK, NoTask, Tasks
<1>4. \A s \in Tasks : Held(s)' <=> Held(s) \/ s = t
  BY <1>1, <1>3 DEF TypeOK, Held
<1>5. t <= submitted /\ t \in Nat /\ submitted \in Nat
  BY <1>1 DEF TaskInv, TypeOK, Tasks
<1>6. Status(t) = "queued" /\ Status(t)' = "running"
  BY <1>1, <1>2, <1>4, <1>5 DEF Status
<1>7. \A s \in Tasks \ {t} : Status(s)' = Status(s)
  BY <1>1, <1>2, <1>4 DEF Status
<1>8. TaskState[t] = "queued" /\ TaskState' = [TaskState EXCEPT ![t] = "running"]
  BY <1>1, <1>6, <1>7, StateIsStatus
<1>9. QED
  BY <1>1, <1>8 DEF Lifecycle!Start

\* A task whose afterExecute has been forwarded is finished.
LEMMA AfterRefines ==
  ASSUME TypeOK, TaskInv, NEW w \in Workers, ForwardAfter(w)
  PROVE  \E t \in Tasks : Lifecycle!Finish(t)
<1> DEFINE t == cur[w]
<1>1. /\ cur' = [cur EXCEPT ![w] = NoTask] /\ ended' = ended \cup {t}
      /\ submitted' = submitted /\ Queued' = Queued /\ wpc[w] = "after"
  BY DEF ForwardAfter, taskVars, Queued
<1>2. t \in Tasks /\ NoTask \notin Tasks
  BY <1>1 DEF TypeOK, NoTask, Tasks
<1>3. t <= submitted /\ t \in Nat /\ submitted \in Nat /\ t \notin Queued
  BY <1>2 DEF TaskInv, TypeOK, Tasks
<1>4. \A s \in Tasks : Held(s) <=> Held(s)' \/ s = t
  BY <1>1, <1>2 DEF TypeOK, Held
<1>5. ~ \E v \in Workers : cur'[v] = t
  BY <1>1, <1>2 DEF TypeOK, TaskInv
<1>6. PICK u \in Tasks : u = t
  BY <1>2
<1>7. Held(u) /\ ~Held(u)' /\ u \in ended' /\ u \notin Queued /\ u <= submitted /\ u \in Nat
  BY <1>1, <1>3, <1>5, <1>6 DEF Held
<1>8. Status(u) = "running" /\ Status(u)' = "finished"
  BY <1>1, <1>3, <1>7 DEF Status
<1>9. \A s \in Tasks \ {u} : Held(s)' <=> Held(s)
  BY <1>4, <1>6
<1>10. \A s \in Tasks \ {u} : Status(s)' = Status(s)
  BY <1>1, <1>6, <1>9 DEF Status
<1>11. TaskState[u] = "running" /\ TaskState' = [TaskState EXCEPT ![u] = "finished"]
  BY <1>8, <1>10, StateIsStatus
<1>12. QED
  BY <1>11 DEF Lifecycle!Finish

\* Every step is a step of the life cycle, or changes nothing of it.
LEMMA StepRefines ==
  TypeOK /\ TaskInv /\ [Next]_vars => [Lifecycle!Next]_TaskState
<1> SUFFICES ASSUME TypeOK, TaskInv, [Next]_vars PROVE Lifecycle!Next \/ TaskState' = TaskState
  OBVIOUS
<1> USE DEF taskVars, stopVars, guiVars, hisVars
<1>1. ASSUME NEW priority \in Priorities \cup {0}, NEW displace \in BOOLEAN,
             Submit(priority, displace)
      PROVE  Lifecycle!Next
  BY <1>1, SubmitRefines DEF Lifecycle!Next
<1>2. ASSUME NEW w \in Workers, TakeTask(w) PROVE Lifecycle!Next
  BY <1>2, TakeRefines DEF Lifecycle!Next
<1>3. ASSUME NEW w \in Workers, ForwardAfter(w) PROVE Lifecycle!Next
  BY <1>3, AfterRefines DEF Lifecycle!Next
<1>4. ASSUME UNCHANGED <<queue, submitted, cur, ended>> PROVE TaskState' = TaskState
  BY <1>4 DEF TaskState, Queued
<1>5. ASSUME NEW w \in Workers, \/ Loop(w) \/ Sleep(w) \/ GiveUp(w) \/ Spurious(w)
                                \/ ForwardBefore(w) \/ Return(w) \/ Throw(w) \/ ForwardResult(w)
      PROVE  UNCHANGED <<queue, submitted, cur, ended>>
  BY <1>5 DEF Loop, Sleep, GiveUp, Spurious, ForwardBefore, Return, Throw, ForwardResult
<1>6. ASSUME BeginStop \/ BeginDestroy \/ RequestStop \/ Join \/ StopDone \/ Deliver \/ UNCHANGED vars
      PROVE  UNCHANGED <<queue, submitted, cur, ended>>
  BY <1>6 DEF BeginStop, BeginDestroy, RequestStop, Join, StopDone, Deliver, vars
<1>7. QED
  BY <1>1, <1>2, <1>3, <1>4, <1>5, <1>6, Cases

\* The executor implements the life cycle of tasks for any number of them: what
\* has been displaced never runs, nothing runs twice, no task vanishes otherwise.
THEOREM LifecycleImplemented == Spec => ImplementsLifecycle
<1>1. Init => Lifecycle!Init
  <2> SUFFICES ASSUME Init PROVE TaskState = [t \in Tasks |-> "new"]
    BY DEF Lifecycle!Init
  <2>1. submitted = 0 /\ \A t \in Tasks : t > 0
    BY DEF Init, Tasks
  <2>2. \A t \in Tasks : Status(t) = "new"
    BY <2>1 DEF Status
  <2>3. QED
    BY <2>2, StateIsStatus
<1>2. QED
  BY <1>1, StepRefines, TypeCorrect, TasksApart, PTL DEF Spec, ImplementsLifecycle, Lifecycle!Spec

=============================================================================
