------------------------------- MODULE Observers -------------------------------
(***************************************************************************)
(* fnd/observable.h and fnd/observer.h: which observers an observable tells, *)
(* and which observables an observer will take leave of, are kept on both    *)
(* sides, and either side may be destroyed first.  Perform() iterates over   *)
(* an unordered_set while the observers it calls do as they like, which is   *)
(* undefined if they insert into the set or erase the element it is at.      *)
(***************************************************************************)
EXTENDS Naturals, Sequences, FiniteSets, SequencesExt

CONSTANTS Observables, Watchers,
          MaxLoops     \* bound: nested Perform()

VARIABLES here,          \* the observables that exist
          watching,      \* the observers that exist
          observers,     \* m_observers and m_observersMap of an observable
          observables,   \* m_observables of an observer
          loops,         \* the Perform() in progress: of whom, who was told, who is being told
          undefined

vars == <<here, watching, observers, observables, loops, undefined>>

Nobody == "nobody"

\* The program runs, or an observer that is being told does.
InCallback == loops # <<>> /\ Last(loops).at # Nobody
CanAct     == ~undefined /\ (loops = <<>> \/ InCallback)

Iterated(o)   == \E i \in DOMAIN loops : loops[i].of = o
IteratorAt(o) == {loops[i].at : i \in {j \in DOMAIN loops : loops[j].of = o}}

-----------------------------------------------------------------------------

\* emplace() on both sides; inserting while some Perform() iterates is undefined.
Register(o, w) ==
  /\ CanAct
  /\ o \in here /\ w \in watching \ observers[o]
  /\ observables' = [observables EXCEPT ![w] = @ \cup {o}]
  /\ observers' = [observers EXCEPT ![o] = @ \cup {w}]
  /\ undefined' = Iterated(o)
  /\ UNCHANGED <<here, watching, loops>>

Removed(o, w) == observers[o] \ {w}

Unregister(o, w) ==
  /\ CanAct
  /\ o \in here /\ w \in watching \cap observers[o]
  /\ observables' = [observables EXCEPT ![w] = @ \ {o}]
  /\ observers' = [observers EXCEPT ![o] = Removed(o, w)]
  /\ undefined' = (w \in IteratorAt(o))
  /\ UNCHANGED <<here, watching, loops>>

\* Mutant: only the observables that do not iterate are told.
HandleWhileIdle(o, w) == IF Iterated(o) THEN observers[o] ELSE Removed(o, w)

HandleObserverDestructed(o, w) == Removed(o, w)

\* ~Observer()
DestroyObserver(w) ==
  /\ CanAct
  /\ w \in watching
  /\ watching' = watching \ {w}
  /\ observers' = [o \in Observables |-> IF o \in observables[w] THEN HandleObserverDestructed(o, w)
                                                                  ELSE observers[o]]
  /\ observables' = [observables EXCEPT ![w] = {}]
  /\ undefined' = \E o \in observables[w] : w \in IteratorAt(o)
  /\ UNCHANGED <<here, loops>>

\* ~Observable()
DestroyObservable(o) ==
  /\ CanAct
  /\ o \in here
  /\ here' = here \ {o}
  /\ observables' = [w \in Watchers |-> IF w \in observers[o] THEN observables[w] \ {o}
                                                              ELSE observables[w]]
  /\ observers' = [observers EXCEPT ![o] = {}]
  /\ undefined' = Iterated(o)
  /\ UNCHANGED <<watching, loops>>

-----------------------------------------------------------------------------
(* Perform()                                                                 *)

Perform(o) ==
  /\ CanAct
  /\ o \in here /\ Len(loops) < MaxLoops
  /\ loops' = Append(loops, [of |-> o, told |-> {}, at |-> Nobody])
  /\ UNCHANGED <<here, watching, observers, observables, undefined>>

\* The next element, in an order of the set's own; those erased meanwhile are
\* skipped.
Tell(w) ==
  LET loop == Last(loops) IN
  /\ ~undefined /\ loops # <<>> /\ loop.at = Nobody
  /\ w \in observers[loop.of] \ loop.told
  /\ loops' = [loops EXCEPT ![Len(loops)] =
                               [of |-> loop.of, told |-> loop.told \cup {w}, at |-> w]]
  /\ UNCHANGED <<here, watching, observers, observables, undefined>>

CallbackReturns ==
  /\ ~undefined /\ InCallback
  /\ loops' = [loops EXCEPT ![Len(loops)].at = Nobody]
  /\ UNCHANGED <<here, watching, observers, observables, undefined>>

Performed ==
  /\ ~undefined /\ loops # <<>> /\ ~InCallback
  /\ observers[Last(loops).of] \subseteq Last(loops).told
  /\ loops' = Front(loops)
  /\ UNCHANGED <<here, watching, observers, observables, undefined>>

Init ==
  /\ here = Observables /\ watching = Watchers
  /\ observers = [o \in Observables |-> {}] /\ observables = [w \in Watchers |-> {}]
  /\ loops = <<>> /\ undefined = FALSE

Next ==
  \/ \E o \in Observables, w \in Watchers : Register(o, w) \/ Unregister(o, w)
  \/ \E o \in Observables : DestroyObservable(o) \/ Perform(o)
  \/ \E w \in Watchers : DestroyObserver(w) \/ Tell(w)
  \/ CallbackReturns \/ Performed

-----------------------------------------------------------------------------
(* Properties                                                                *)

TypeOK ==
  /\ here \subseteq Observables /\ watching \subseteq Watchers /\ undefined \in BOOLEAN
  /\ observers \in [Observables -> SUBSET Watchers]
  /\ observables \in [Watchers -> SUBSET Observables]
  /\ loops \in SeqOf([of : Observables, told : SUBSET Watchers, at : Watchers \cup {Nobody}],
                     MaxLoops)

\* In whatever order observers and observables register, take leave and are
\* destroyed, and from inside whatever callback, both sides agree about who is
\* registered with whom, and neither refers to one that does not exist any more:
\* until an observer changes the very set that its own call, or one around it,
\* is iterating over.
RegistriesAgree ==
  ~undefined =>
    /\ \A o \in Observables, w \in Watchers : o \in observables[w] <=> w \in observers[o]
    /\ \A o \in Observables : observers[o] # {} => o \in here
    /\ \A w \in Watchers : observables[w] # {} => w \in watching
    /\ \A i \in DOMAIN loops : loops[i].of \in here /\ loops[i].at \in watching \cup {Nobody}
=============================================================================
