---------------------------- MODULE TaskLifecycle ----------------------------
(***************************************************************************)
(* What ThreadPool and both IExecutor implementations promise about a task, *)
(* whatever threads, locks and queues they use: it is accepted once, it is  *)
(* started at most once, it is never started after it has been discarded,   *)
(* and only a task that was started finishes.  ThreadPool and AsyncExecutor *)
(* are shown to implement this module.                                      *)
(***************************************************************************)
CONSTANT Tasks

VARIABLE state   \* what has become of each task

States == {"new", "queued", "discarded", "running", "finished"}

Init == state = [t \in Tasks |-> "new"]

\* Accepting a task may push others that still wait out of the queue.
Submit(t, displaced) ==
  /\ state[t] = "new"
  /\ \A d \in displaced : state[d] = "queued"
  /\ state' = [s \in Tasks |-> IF s = t THEN "queued"
                               ELSE IF s \in displaced THEN "discarded"
                               ELSE state[s]]

Start(t) ==
  /\ state[t] = "queued"
  /\ state' = [state EXCEPT ![t] = "running"]

Finish(t) ==
  /\ state[t] = "running"
  /\ state' = [state EXCEPT ![t] = "finished"]

Next == \E t \in Tasks :
          \/ \E displaced \in SUBSET Tasks : Submit(t, displaced)
          \/ Start(t)
          \/ Finish(t)

Spec == Init /\ [][Next]_state
=============================================================================
