------------------------------- MODULE Settings -------------------------------
(***************************************************************************)
(* settings/Settings.cpp and SettingsGroup of settings/ISettings.h: threads *)
(* share one Settings object.  QSettings and m_group hold ONE current group *)
(* for all of them; a recursive mutex guards every method, and a            *)
(* SettingsGroup keeps it from its constructor to its destructor -- except  *)
(* between BeginGroup(), which unlocks on return, and the m_lock member.    *)
(*                                                                         *)
(* One key is modelled; a place is the path of groups it is stored under.   *)
(***************************************************************************)
EXTENDS Naturals, Sequences, FiniteSets, SequencesExt

CONSTANTS Threads, Groups,
          Values,      \* what Set() is given; NoValue is an invalid QVariant
          NoValue,
          MaxDepth,    \* bound: groups one thread opens inside each other
          MaxCalls     \* bound: Set() and Remove() calls and groups in all

ASSUME ValuesAssumption == NoValue \notin Values
ASSUME BoundsAssumption == MaxDepth \in Nat /\ MaxCalls \in Nat

\* Windows of several threads can stack their groups on each other.
Places == SeqOf(Groups, MaxCalls)

VARIABLES path,      \* m_group, and the group stack inside QSettings
          mine,      \* the groups each thread has opened, outermost first
          holds,     \* how often a thread has locked the mutex
          pc,        \* where a thread is
          pending,   \* value and sync of the Set() a thread is in
          store,     \* the value stored at each place
          told,      \* history: the last value the observers heard for a place
          silent,    \* history: places last changed without telling the observers
          stray,     \* history: a change went to another place than its group's
          windowed,  \* history: a thread used the object inside another's window
          used       \* calls made

vars == <<path, mine, holds, pc, pending, store, told, silent, stray, windowed, used>>

\* The recursive mutex is free or belongs to t.
CanLock(t) == \A u \in Threads \ {t} : holds[u] = 0

\* Some other thread is between BeginGroup() and the lock of its SettingsGroup.
Window(t) == \E u \in Threads \ {t} : pc[u] = "between"

-----------------------------------------------------------------------------
(* SettingsGroup                                                             *)

BeginGroup(t, g) ==
  /\ pc[t] = "idle" /\ CanLock(t)
  /\ Len(mine[t]) < MaxDepth
  /\ used < MaxCalls /\ used' = used + 1
  /\ path' = Append(path, g)
  /\ mine' = [mine EXCEPT ![t] = Append(@, g)]
  /\ pc' = [pc EXCEPT ![t] = "between"]
  /\ windowed' = (windowed \/ Window(t))
  /\ UNCHANGED <<holds, pending, store, told, silent, stray>>

LockGroup(t) ==
  /\ pc[t] = "between" /\ CanLock(t)
  /\ holds' = [holds EXCEPT ![t] = @ + 1]
  /\ pc' = [pc EXCEPT ![t] = "idle"]
  /\ UNCHANGED <<path, mine, pending, store, told, silent, stray, windowed, used>>

\* Mutant: EndGroup() forgets m_group.pop_back().
KeepPath == path

\* Mutant: the lock of a group outlives it.
KeepLock(n) == n

Unlock(n) == n - 1

PopPath == Front(path)

\* ~SettingsGroup(): EndGroup() still runs under the lock.
EndGroup(t) ==
  /\ pc[t] = "idle" /\ mine[t] # <<>>
  /\ path' = PopPath
  /\ mine' = [mine EXCEPT ![t] = Front(@)]
  /\ holds' = [holds EXCEPT ![t] = Unlock(@)]
  /\ windowed' = (windowed \/ Window(t))
  /\ UNCHANGED <<pc, pending, store, told, silent, stray, used>>

-----------------------------------------------------------------------------
(* Set(): the comparison and the write lock the mutex one after the other.   *)

Compare(t, value, sync) ==
  /\ pc[t] = "idle" /\ CanLock(t)
  /\ used < MaxCalls
  /\ used' = used + 1
  /\ IF store[path] = value
       THEN UNCHANGED <<pc, pending>>
       ELSE /\ pc' = [pc EXCEPT ![t] = "write"]
            /\ pending' = [pending EXCEPT ![t] = [value |-> value, sync |-> sync]]
  /\ windowed' = (windowed \/ Window(t))
  /\ UNCHANGED <<path, mine, holds, store, told, silent, stray>>

TellNew(old, new) == new

\* setValue(), and with sync the observers hear of it under the same lock.
Write(t) ==
  LET value == pending[t].value IN
  /\ pc[t] = "write" /\ CanLock(t)
  /\ store' = [store EXCEPT ![path] = value]
  /\ IF pending[t].sync
       THEN /\ told' = [told EXCEPT ![path] = TellNew(store[path], value)]
            /\ silent' = silent \ {path}
       ELSE silent' = silent \cup {path} /\ UNCHANGED told
  /\ stray' = (stray \/ path # mine[t])
  /\ windowed' = (windowed \/ Window(t))
  /\ pc' = [pc EXCEPT ![t] = "idle"]
  /\ UNCHANGED <<path, mine, holds, pending, used>>

\* Remove() takes a key, or the name of a group with all that is below it, out of
\* the current group, and tells nobody.
Here     == {path}
Below(g) == {p \in Places : IsPrefix(Append(path, g), p)}

RemoveKeys(t, gone) ==
  /\ pc[t] = "idle" /\ CanLock(t)
  /\ used < MaxCalls /\ used' = used + 1
  /\ store' = [p \in Places |-> IF p \in gone THEN NoValue ELSE store[p]]
  /\ silent' = silent \cup {p \in gone : store[p] # NoValue}
  /\ stray' = (stray \/ path # mine[t])
  /\ windowed' = (windowed \/ Window(t))
  /\ UNCHANGED <<path, mine, holds, pc, pending, told>>

-----------------------------------------------------------------------------
Init ==
  /\ path = <<>> /\ mine = [t \in Threads |-> <<>>] /\ holds = [t \in Threads |-> 0]
  /\ pc = [t \in Threads |-> "idle"]
  /\ pending = [t \in Threads |-> [value |-> NoValue, sync |-> FALSE]]
  /\ store = [p \in Places |-> NoValue] /\ told = [p \in Places |-> NoValue]
  /\ silent = {} /\ stray = FALSE /\ windowed = FALSE /\ used = 0

Step(t) == LockGroup(t) \/ EndGroup(t) \/ Write(t)

Terminated == (\A t \in Threads : mine[t] = <<>> /\ pc[t] = "idle") /\ UNCHANGED vars

Next ==
  \/ \E t \in Threads :
       \/ \E g \in Groups : BeginGroup(t, g)
       \/ \E value \in Values, sync \in BOOLEAN : Compare(t, value, sync)
       \/ RemoveKeys(t, Here)
       \/ \E g \in Groups : RemoveKeys(t, Below(g))
       \/ Step(t)
  \/ Terminated

Spec == Init /\ [][Next]_vars

-----------------------------------------------------------------------------
(* Properties                                                                *)

\* The groups that are open, each with its depth.
OpenGroups == {open \in Threads \X (1 .. MaxDepth) : open[2] <= Len(mine[open[1]])}

\* Every variable has its type, the mutex has at most one owner, and the current
\* path is as long as all open groups together.
TypeOK ==
  /\ path \in Places /\ mine \in [Threads -> SeqOf(Groups, MaxDepth)]
  /\ holds \in [Threads -> 0 .. MaxDepth] /\ pc \in [Threads -> {"idle", "between", "write"}]
  /\ pending \in [Threads -> [value : Values \cup {NoValue}, sync : BOOLEAN]]
  /\ store \in [Places -> Values \cup {NoValue}] /\ told \in [Places -> Values \cup {NoValue}]
  /\ silent \subseteq Places /\ stray \in BOOLEAN /\ windowed \in BOOLEAN /\ used \in 0 .. MaxCalls
  /\ \A t, u \in Threads : holds[t] > 0 /\ holds[u] > 0 => t = u
  /\ Len(path) = Cardinality(OpenGroups)

\* A value is written to, or removed from, another place than the group its
\* thread has opened only if some thread used the object while another was between
\* BeginGroup() and its lock: apart from that window the mutex keeps the one
\* current group right, for nested groups and for calls outside any group.
WindowIsTheOnlyCause == stray => windowed

\* What observers have heard last of a place is what is stored there, unless its
\* last change is one nobody is told of, a Set() without sync or a Remove(): two
\* threads that write the same place are heard in the order of their writes.
ObserversCurrent == \A p \in Places : p \notin silent => told[p] = store[p]
=============================================================================
