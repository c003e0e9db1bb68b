---------------------------- MODULE Program_proofs ----------------------------
(***************************************************************************)
(* What holds of the settings, of the registries, headers, windows and scroll *)
(* bars, and the types of the helpers, each for every value of its constants  *)
(* and for the program in which they are side by side.                        *)
(***************************************************************************)
EXTENDS Helpers_proofs

-----------------------------------------------------------------------------
(* Settings                                                                  *)

\* A thread holds the mutex once for each of its groups, but for the one it is
\* just opening.
LocksCounted ==
  \A t \in Threads : Len(mine[t]) = IF pc[t] = "between" THEN holds[t] + 1 ELSE holds[t]

\* As long as nobody used the object inside another's window, the current group is
\* that of the thread that is alone in having one.
Alone(t) == \A u \in Threads \ {t} : mine[u] = <<>>
RightPath == windowed \/ \A t \in Threads : Alone(t) => path = mine[t]

SettingsInv ==
  /\ TypeOK /\ IsFiniteSet(OpenGroups) /\ Len(path) <= used
  /\ LocksCounted /\ RightPath /\ WindowIsTheOnlyCause /\ ObserversCurrent

\* Only the empty sequence has no element.
LEMMA EmptyIsShort ==
  ASSUME NEW S, NEW s \in Seq(S)
  PROVE  s = <<>> <=> Len(s) = 0
  BY EmptySeq

LEMMA EmptyIsBounded ==
  ASSUME NEW S, NEW n \in Nat
  PROVE  <<>> \in SeqOf(S, n)
<1>1. PICK s : s = <<>>
  OBVIOUS
<1>2. s \in Seq(S) /\ Len(s) <= n
  BY <1>1, EmptySeq
<1>3. QED
  BY <1>1, <1>2, SeqOfIsSeq

LEMMA SettingsInit == Init => SettingsInv
<1> SUFFICES ASSUME Init PROVE SettingsInv
  OBVIOUS
<1>1. <<>> \in Seq(Groups) /\ Len(<<>>) = 0
  BY EmptySeq
<1>2. <<>> \in Places /\ <<>> \in SeqOf(Groups, MaxDepth)
  BY EmptyIsBounded, BoundsAssumption DEF Places
<1>3. OpenGroups = {}
  BY <1>1, BoundsAssumption DEF OpenGroups, Init
<1>4. IsFiniteSet(OpenGroups) /\ Cardinality(OpenGroups) = 0
  BY <1>3, FS_EmptySet
<1>5. TypeOK
  <2>1. path \in Places /\ mine \in [Threads -> SeqOf(Groups, MaxDepth)]
    BY <1>2 DEF Init
  <2>2. Len(path) = Cardinality(OpenGroups)
    BY <1>1, <1>4 DEF Init
  <2>3. /\ holds \in [Threads -> 0 .. MaxDepth] /\ used \in 0 .. MaxCalls
        /\ \A t, u \in Threads : holds[t] > 0 /\ holds[u] > 0 => t = u
    BY BoundsAssumption DEF Init
  <2>4. QED
    BY <2>1, <2>2, <2>3 DEF Init, TypeOK
<1>6. QED
  BY <1>1, <1>4, <1>5 DEF SettingsInv, Init, LocksCounted, RightPath, WindowIsTheOnlyCause, ObserversCurrent

\* What the sequences are made of, and how long they are.
LEMMA SettingsTyped ==
  ASSUME TypeOK
  PROVE  /\ path \in Seq(Groups) /\ Len(path) \in Nat
         /\ \A t \in Threads : /\ mine[t] \in Seq(Groups) /\ Len(mine[t]) \in Nat
                               /\ Len(mine[t]) <= MaxDepth /\ holds[t] \in Nat
<1>1. path \in Seq(Groups)
  BY SeqOfIsSeq, BoundsAssumption DEF TypeOK, Places
<1>2. ASSUME NEW t \in Threads PROVE mine[t] \in Seq(Groups) /\ Len(mine[t]) <= MaxDepth
  <2>1. mine[t] \in SeqOf(Groups, MaxDepth)
    BY DEF TypeOK
  <2>2. QED
    BY <2>1, SeqOfIsSeq, BoundsAssumption
<1>3. \A t \in Threads : holds[t] \in Nat
  BY BoundsAssumption DEF TypeOK
<1>4. QED
  BY <1>1, <1>2, <1>3, LenProperties

\* One more group is open, or one less.
LEMMA OneMoreGroup ==
  ASSUME TypeOK, IsFiniteSet(OpenGroups), NEW t \in Threads, NEW s,
         mine' = [mine EXCEPT ![t] = s], Len(s) = Len(mine[t]) + 1, Len(s) <= MaxDepth
  PROVE  IsFiniteSet(OpenGroups)' /\ Cardinality(OpenGroups)' = Cardinality(OpenGroups) + 1
<1>1. Len(mine[t]) \in Nat /\ MaxDepth \in Nat
  BY SettingsTyped, BoundsAssumption
<1>2. DOMAIN mine = Threads
  BY DEF TypeOK
<1>3. \A u \in Threads : Len(mine'[u]) = IF u = t THEN Len(mine[t]) + 1 ELSE Len(mine[u])
  BY <1>2
<1>4. <<t, Len(mine[t]) + 1>> \notin OpenGroups
  BY <1>1 DEF OpenGroups
<1>5. OpenGroups' = OpenGroups \cup {<<t, Len(mine[t]) + 1>>}
  <2>1. ASSUME NEW u \in Threads, NEW depth \in 1 .. MaxDepth
        PROVE  <<u, depth>> \in OpenGroups' <=> <<u, depth>> \in OpenGroups \cup {<<t, Len(mine[t]) + 1>>}
    BY <1>1, <1>3 DEF OpenGroups
  <2>2. <<t, Len(mine[t]) + 1>> \in Threads \X (1 .. MaxDepth)
    BY <1>1
  <2>3. OpenGroups \subseteq Threads \X (1 .. MaxDepth) /\ OpenGroups' \subseteq Threads \X (1 .. MaxDepth)
    BY DEF OpenGroups
  <2>4. QED
    BY <2>1, <2>2, <2>3
<1>6. QED
  BY <1>4, <1>5, FS_AddElement

LEMMA OneLessGroup ==
  ASSUME TypeOK, IsFiniteSet(OpenGroups), NEW t \in Threads, NEW s,
         mine' = [mine EXCEPT ![t] = s], Len(s) = Len(mine[t]) - 1, Len(s) \in Nat
  PROVE  /\ IsFiniteSet(OpenGroups)' /\ Cardinality(OpenGroups) \in Nat \ {0}
         /\ Cardinality(OpenGroups)' = Cardinality(OpenGroups) - 1
<1>1. Len(mine[t]) \in 1 .. MaxDepth /\ MaxDepth \in Nat
  BY SettingsTyped, BoundsAssumption
<1>2. DOMAIN mine = Threads
  BY DEF TypeOK
<1>3. \A u \in Threads : Len(mine'[u]) = IF u = t THEN Len(mine[t]) - 1 ELSE Len(mine[u])
  BY <1>2
<1>4. <<t, Len(mine[t])>> \in OpenGroups
  BY <1>1 DEF OpenGroups
<1>5. OpenGroups' = OpenGroups \ {<<t, Len(mine[t])>>}
  <2>1. ASSUME NEW u \in Threads, NEW depth \in 1 .. MaxDepth
        PROVE  <<u, depth>> \in OpenGroups' <=> <<u, depth>> \in OpenGroups \ {<<t, Len(mine[t])>>}
    BY <1>1, <1>3 DEF OpenGroups
  <2>2. OpenGroups \subseteq Threads \X (1 .. MaxDepth) /\ OpenGroups' \subseteq Threads \X (1 .. MaxDepth)
    BY DEF OpenGroups
  <2>3. QED
    BY <2>1, <2>2
<1>6. Cardinality(OpenGroups) \in Nat /\ Cardinality(OpenGroups) # 0
  BY <1>4, FS_CardinalityType, FS_EmptySet
<1>7. QED
  BY <1>4, <1>5, <1>6, FS_RemoveElement

\* Who can lock the mutex while nobody else is in his window is alone.
LEMMA OthersHaveNone ==
  ASSUME TypeOK, LocksCounted, NEW t \in Threads,
         \A u \in Threads \ {t} : holds[u] = 0, ~Window(t)
  PROVE  Alone(t)
<1>1. ASSUME NEW u \in Threads \ {t} PROVE mine[u] = <<>>
  <2>1. Len(mine[u]) = 0
    BY DEF LocksCounted, Window
  <2>2. QED
    BY <2>1, SettingsTyped, EmptyIsShort
<1>2. QED
  BY <1>1 DEF Alone

LEMMA BeginGroupKeeps ==
  ASSUME SettingsInv, NEW t \in Threads, NEW g \in Groups, BeginGroup(t, g)
  PROVE  SettingsInv'
<1> DEFINE opened == Append(mine[t], g)
           deeper == Append(path, g)
<1>1. TypeOK /\ IsFiniteSet(OpenGroups) /\ Len(path) <= used /\ Len(path) = Cardinality(OpenGroups)
  BY DEF SettingsInv, TypeOK
<1>2. /\ opened \in Seq(Groups) /\ Len(opened) = Len(mine[t]) + 1 /\ opened # <<>> /\ Len(mine[t]) \in Nat
      /\ deeper \in Seq(Groups) /\ Len(deeper) = Len(path) + 1 /\ Len(path) \in Nat
  BY <1>1, SettingsTyped, AppendLonger
<1>3. mine' = [mine EXCEPT ![t] = opened] /\ path' = deeper /\ used' = used + 1 /\ used < MaxCalls
  BY DEF BeginGroup
<1>4. Alone(t) => deeper = Append(mine[t], g) \/ windowed
  BY DEF SettingsInv, RightPath
<1> HIDE DEF opened, deeper
<1>5. opened \in SeqOf(Groups, MaxDepth) /\ Len(opened) <= MaxDepth
  BY <1>2, SeqOfIsSeq, BoundsAssumption DEF BeginGroup
<1>6. used \in Nat /\ MaxCalls \in Nat /\ Len(deeper) <= used + 1 /\ used + 1 <= MaxCalls
  BY <1>1, <1>2, <1>3, BoundsAssumption DEF TypeOK
<1>7. deeper \in Places
  BY <1>2, <1>6, SeqOfIsSeq DEF Places
<1>8. IsFiniteSet(OpenGroups)' /\ Cardinality(OpenGroups)' = Cardinality(OpenGroups) + 1
  BY <1>1, <1>2, <1>3, <1>5, OneMoreGroup
<1>9. Len(path') = Cardinality(OpenGroups)'
  BY <1>1, <1>2, <1>3, <1>8
<1>10. TypeOK'
  <2>1. path' \in Places /\ mine' \in [Threads -> SeqOf(Groups, MaxDepth)]
    BY <1>1, <1>3, <1>5, <1>7 DEF TypeOK
  <2>2. pc' \in [Threads -> {"idle", "between", "write"}] /\ used' \in 0 .. MaxCalls /\ windowed' \in BOOLEAN
    BY <1>1, <1>3, <1>6 DEF TypeOK, BeginGroup, Window
  <2>3. QED
    BY <1>1, <1>9, <2>1, <2>2 DEF TypeOK, BeginGroup
<1>11. LocksCounted'
  <2>1. \A u \in Threads : /\ mine'[u] = (IF u = t THEN opened ELSE mine[u]) /\ holds'[u] = holds[u]
                           /\ pc'[u] = (IF u = t THEN "between" ELSE pc[u])
    BY <1>1, <1>3 DEF TypeOK, BeginGroup
  <2>2. Len(mine[t]) = holds[t]
    BY DEF SettingsInv, LocksCounted, BeginGroup
  <2>3. QED
    BY <1>2, <2>1, <2>2 DEF SettingsInv, LocksCounted
<1>12. RightPath'
  <2> SUFFICES ASSUME ~windowed' PROVE RightPath'
    BY DEF RightPath
  <2>1. ~windowed /\ Alone(t)
    BY <1>1, OthersHaveNone DEF SettingsInv, BeginGroup, CanLock
  <2>2. deeper = opened
    BY <1>4, <2>1 DEF opened
  <2>3. ASSUME NEW u \in Threads, Alone(u)' PROVE u = t
    BY <1>1, <1>2, <1>3, <2>3 DEF Alone, TypeOK
  <2>4. mine'[t] = opened
    BY <1>1, <1>3 DEF TypeOK
  <2>5. QED
    BY <1>3, <2>2, <2>3, <2>4 DEF RightPath
<1>13. WindowIsTheOnlyCause' /\ ObserversCurrent'
  BY DEF SettingsInv, WindowIsTheOnlyCause, ObserversCurrent, BeginGroup
<1>14. Len(path') <= used'
  BY <1>3, <1>6
<1>15. QED
  BY <1>8, <1>10, <1>11, <1>12, <1>13, <1>14 DEF SettingsInv

LEMMA LockGroupKeeps ==
  ASSUME SettingsInv, NEW t \in Threads, LockGroup(t)
  PROVE  SettingsInv'
<1>1. TypeOK /\ IsFiniteSet(OpenGroups)
  BY DEF SettingsInv
<1>2. Len(mine[t]) = holds[t] + 1 /\ Len(mine[t]) <= MaxDepth /\ holds[t] \in Nat
  BY <1>1, SettingsTyped DEF SettingsInv, LocksCounted, LockGroup
<1>3. /\ \A u \in Threads : /\ holds'[u] = (IF u = t THEN holds[t] + 1 ELSE holds[u])
                            /\ pc'[u] = (IF u = t THEN "idle" ELSE pc[u])
      /\ \A u \in Threads \ {t} : holds[u] = 0
  BY <1>1 DEF TypeOK, LockGroup, CanLock
<1>4. UNCHANGED <<mine, path, used, windowed, stray, told, store, silent, pending, OpenGroups>>
  BY DEF LockGroup, OpenGroups
<1>5. TypeOK'
  <2>1. holds' \in [Threads -> 0 .. MaxDepth] /\ pc' \in [Threads -> {"idle", "between", "write"}]
    BY <1>1, <1>2, <1>3, BoundsAssumption DEF TypeOK, LockGroup
  <2>2. \A v, u \in Threads : holds'[v] > 0 /\ holds'[u] > 0 => v = u
    BY <1>3
  <2>3. QED
    BY <1>1, <1>4, <2>1, <2>2 DEF TypeOK
<1>6. LocksCounted'
  BY <1>2, <1>3, <1>4 DEF SettingsInv, LocksCounted
<1>7. RightPath' /\ WindowIsTheOnlyCause' /\ ObserversCurrent'
  BY <1>4 DEF SettingsInv, RightPath, Alone, WindowIsTheOnlyCause, ObserversCurrent
<1>8. QED
  BY <1>4, <1>5, <1>6, <1>7 DEF SettingsInv

LEMMA CompareKeeps ==
  ASSUME SettingsInv, NEW t \in Threads, NEW v \in Values, NEW sync \in BOOLEAN, Compare(t, v, sync)
  PROVE  SettingsInv'
<1>1. TypeOK /\ IsFiniteSet(OpenGroups) /\ Len(path) \in Nat /\ Len(path) <= used
  BY SettingsTyped DEF SettingsInv
<1>2. UNCHANGED <<mine, path, holds, stray, told, store, silent, OpenGroups>>
  BY DEF Compare, OpenGroups
<1>3. /\ used' \in 0 .. MaxCalls /\ Len(path') <= used' /\ windowed' \in BOOLEAN /\ (windowed => windowed')
  BY <1>1, BoundsAssumption DEF TypeOK, Compare, Window
<1>4. /\ pc' \in [Threads -> {"idle", "between", "write"}]
      /\ pending' \in [Threads -> [value : Values \cup {NoValue}, sync : BOOLEAN]]
  <2> DEFINE new == [value |-> v, sync |-> sync]
  <2>1. new \in [value : Values \cup {NoValue}, sync : BOOLEAN]
    OBVIOUS
  <2>2. CASE UNCHANGED <<pc, pending>>
    BY <1>1, <2>2 DEF TypeOK
  <2>3. CASE pc' = [pc EXCEPT ![t] = "write"] /\ pending' = [pending EXCEPT ![t] = new]
    <3> HIDE DEF new
    <3>1. QED
      BY <1>1, <2>1, <2>3 DEF TypeOK
  <2>4. QED
    BY <2>2, <2>3 DEF Compare
<1>5. TypeOK'
  BY <1>1, <1>2, <1>3, <1>4 DEF TypeOK
<1>6. \A u \in Threads : pc'[u] = "between" <=> pc[u] = "between"
  BY <1>1 DEF TypeOK, Compare
<1>7. LocksCounted'
  BY <1>2, <1>6 DEF SettingsInv, LocksCounted
<1>8. RightPath' /\ WindowIsTheOnlyCause' /\ ObserversCurrent'
  BY <1>2, <1>3 DEF SettingsInv, RightPath, Alone, WindowIsTheOnlyCause, ObserversCurrent
<1>9. QED
  BY <1>2, <1>1, <1>3, <1>5, <1>7, <1>8 DEF SettingsInv

LEMMA EndGroupKeeps ==
  ASSUME SettingsInv, NEW t \in Threads, EndGroup(t)
  PROVE  SettingsInv'
<1> DEFINE left == Front(mine[t])
           higher == Front(path)
<1>1. TypeOK /\ IsFiniteSet(OpenGroups) /\ Len(path) <= used /\ Len(path) = Cardinality(OpenGroups)
  BY DEF SettingsInv, TypeOK
<1>2. /\ left \in Seq(Groups) /\ Len(left) = Len(mine[t]) - 1 /\ Len(mine[t]) \in Nat \ {0}
      /\ Len(mine[t]) <= MaxDepth
  BY <1>1, SettingsTyped, FrontProperties DEF EndGroup
<1>3. mine' = [mine EXCEPT ![t] = left] /\ path' = higher
  BY DEF EndGroup, PopPath
<1>4. IsFiniteSet(OpenGroups)' /\ Cardinality(OpenGroups)' = Cardinality(OpenGroups) - 1
      /\ Cardinality(OpenGroups) \in Nat \ {0}
  <2> HIDE DEF left
  <2>1. Len(left) \in Nat
    BY <1>2
  <2>2. QED
    BY <1>1, <1>2, <1>3, <2>1, OneLessGroup
<1>5. higher \in Seq(Groups) /\ Len(higher) = Len(path) - 1 /\ Len(path) \in Nat
  <2>1. path # <<>>
    BY <1>1, <1>4, SettingsTyped, EmptyIsShort
  <2>2. QED
    BY <1>1, <2>1, SettingsTyped, FrontProperties
<1>6. ~windowed' => Alone(t) /\ path = mine[t]
  <2> SUFFICES ASSUME ~windowed' PROVE Alone(t) /\ path = mine[t]
    OBVIOUS
  <2>1. holds[t] > 0 /\ \A u \in Threads : holds[u] \in Nat
    BY <1>1, <1>2, SettingsTyped DEF SettingsInv, LocksCounted, EndGroup
  <2>2. \A u \in Threads \ {t} : holds[u] = 0
    BY <1>1, <2>1 DEF TypeOK
  <2>3. Alone(t)
    BY <1>1, <2>2, OthersHaveNone DEF SettingsInv, EndGroup
  <2>4. QED
    BY <2>3 DEF SettingsInv, RightPath, EndGroup
<1>7. ~windowed' => higher = left
  BY <1>6
<1> HIDE DEF left, higher
<1>8. left \in SeqOf(Groups, MaxDepth)
  BY <1>2, SeqOfIsSeq, BoundsAssumption
<1>9. higher \in Places /\ Len(higher) <= used
  <2>1. Len(higher) <= MaxCalls /\ Len(higher) <= used
    BY <1>1, <1>5, BoundsAssumption DEF TypeOK
  <2>2. QED
    BY <1>5, <2>1, SeqOfIsSeq, BoundsAssumption DEF Places
<1>10. Len(path') = Cardinality(OpenGroups)'
  BY <1>1, <1>3, <1>4, <1>5
<1>11. /\ Len(mine[t]) = holds[t] /\ holds[t] - 1 \in 0 .. MaxDepth
       /\ \A u \in Threads : /\ holds'[u] = (IF u = t THEN holds[t] - 1 ELSE holds[u])
                             /\ mine'[u] = (IF u = t THEN left ELSE mine[u])
       /\ pc' = pc /\ pc[t] = "idle"
  <2>1. Len(mine[t]) = holds[t] /\ pc' = pc /\ pc[t] = "idle"
    BY DEF SettingsInv, LocksCounted, EndGroup
  <2>2. holds[t] - 1 \in 0 .. MaxDepth
    BY <1>2, <2>1, BoundsAssumption
  <2>3. QED
    BY <1>1, <1>3, <2>1, <2>2 DEF TypeOK, EndGroup, Unlock
<1>12. TypeOK'
  <2>1. path' \in Places /\ mine' \in [Threads -> SeqOf(Groups, MaxDepth)]
    BY <1>1, <1>3, <1>8, <1>9 DEF TypeOK
  <2>2. holds' \in [Threads -> 0 .. MaxDepth] /\ windowed' \in BOOLEAN
    BY <1>1, <1>11 DEF TypeOK, EndGroup, Unlock, Window
  <2>3. \A v, u \in Threads : holds'[v] > 0 /\ holds'[u] > 0 => v = u
    <3>1. \A u \in Threads : holds[u] \in Nat /\ (holds'[u] > 0 => holds[u] > 0)
      BY <1>1, <1>11, SettingsTyped
    <3>2. QED
      BY <1>1, <3>1 DEF TypeOK
  <2>4. QED
    BY <1>1, <1>10, <2>1, <2>2, <2>3 DEF TypeOK, EndGroup
<1>13. LocksCounted'
  BY <1>2, <1>11 DEF SettingsInv, LocksCounted
<1>14. RightPath'
  <2> SUFFICES ASSUME ~windowed', NEW u \in Threads, Alone(u)' PROVE path' = mine'[u]
    BY DEF RightPath
  <2>1. CASE u = t
    BY <1>3, <1>7, <1>11, <2>1
  <2>2. CASE u # t
    <3>1. left = <<>> /\ mine[u] = <<>>
      BY <1>6, <1>11, <2>2 DEF Alone
    <3>2. QED
      BY <1>3, <1>7, <1>11, <2>2, <3>1
  <2>3. QED
    BY <2>1, <2>2
<1>15. WindowIsTheOnlyCause' /\ ObserversCurrent' /\ used' = used
  BY DEF SettingsInv, WindowIsTheOnlyCause, ObserversCurrent, EndGroup
<1>16. QED
  BY <1>3, <1>4, <1>9, <1>12, <1>13, <1>14, <1>15 DEF SettingsInv

LEMMA WriteKeeps ==
  ASSUME SettingsInv, NEW t \in Threads, Write(t)
  PROVE  SettingsInv'
<1>1. TypeOK /\ IsFiniteSet(OpenGroups) /\ Len(path) <= used
  BY DEF SettingsInv
<1>2. UNCHANGED <<path, mine, holds, pending, used, OpenGroups>>
  BY DEF Write, OpenGroups
<1>3. path \in Places /\ pending[t].value \in Values \cup {NoValue}
  BY <1>1 DEF TypeOK
<1>4. store' \in [Places -> Values \cup {NoValue}] /\ told' \in [Places -> Values \cup {NoValue}]
  BY <1>1, <1>3 DEF TypeOK, Write, TellNew
<1>5. silent' \subseteq Places /\ ObserversCurrent'
  BY <1>1, <1>3 DEF SettingsInv, TypeOK, ObserversCurrent, Write, TellNew
<1>6. windowed' \in BOOLEAN /\ stray' \in BOOLEAN /\ (windowed => windowed')
  BY <1>1 DEF TypeOK, Write, Window
<1>7. pc' \in [Threads -> {"idle", "between", "write"}]
      /\ \A u \in Threads : pc'[u] = "between" <=> pc[u] = "between"
  BY <1>1 DEF TypeOK, Write
<1>8. TypeOK'
  BY <1>1, <1>2, <1>4, <1>5, <1>6, <1>7 DEF TypeOK
<1>9. LocksCounted' /\ RightPath'
  BY <1>2, <1>6, <1>7 DEF SettingsInv, LocksCounted, RightPath, Alone
<1>10. WindowIsTheOnlyCause'
  <2> SUFFICES ASSUME ~windowed' PROVE ~stray'
    BY DEF WindowIsTheOnlyCause
  <2>1. Alone(t)
    BY <1>1, OthersHaveNone DEF SettingsInv, Write, CanLock
  <2>2. path = mine[t]
    BY <2>1 DEF SettingsInv, RightPath, Write
  <2>3. QED
    BY <2>2 DEF SettingsInv, WindowIsTheOnlyCause, Write
<1>11. QED
  BY <1>1, <1>2, <1>5, <1>8, <1>9, <1>10 DEF SettingsInv

LEMMA RemoveKeeps ==
  ASSUME SettingsInv, NEW t \in Threads, NEW gone \in SUBSET Places, RemoveKeys(t, gone)
  PROVE  SettingsInv'
<1>1. TypeOK /\ IsFiniteSet(OpenGroups) /\ Len(path) <= used
  BY DEF SettingsInv
<1>2. UNCHANGED <<path, mine, holds, pc, pending, told, OpenGroups>>
  BY DEF RemoveKeys, OpenGroups
<1>3. store' \in [Places -> Values \cup {NoValue}] /\ silent' \subseteq Places
  BY <1>1 DEF TypeOK, RemoveKeys
<1>4. ObserversCurrent'
  BY <1>1 DEF SettingsInv, TypeOK, ObserversCurrent, RemoveKeys
<1>5. windowed' \in BOOLEAN /\ stray' \in BOOLEAN /\ (windowed => windowed')
  BY <1>1 DEF TypeOK, RemoveKeys, Window
<1>6. used' \in 0 .. MaxCalls /\ used < used' /\ used \in Nat /\ Len(path) \in Nat
  BY <1>1, BoundsAssumption, SettingsTyped DEF TypeOK, RemoveKeys
<1>7. TypeOK'
  BY <1>1, <1>2, <1>3, <1>5, <1>6 DEF TypeOK
<1>8. LocksCounted' /\ RightPath'
  BY <1>2, <1>5 DEF SettingsInv, LocksCounted, RightPath, Alone
<1>9. WindowIsTheOnlyCause'
  <2> SUFFICES ASSUME ~windowed' PROVE ~stray'
    BY DEF WindowIsTheOnlyCause
  <2>1. Alone(t)
    BY <1>1, OthersHaveNone DEF SettingsInv, RemoveKeys, CanLock
  <2>2. path = mine[t]
    BY <2>1 DEF SettingsInv, RightPath, RemoveKeys
  <2>3. QED
    BY <2>2 DEF SettingsInv, WindowIsTheOnlyCause, RemoveKeys
<1>10. Len(path') <= used'
  BY <1>1, <1>2, <1>6
<1>11. QED
  BY <1>1, <1>2, <1>4, <1>7, <1>8, <1>9, <1>10 DEF SettingsInv

LEMMA SettingsStep == SettingsInv /\ [Next]_vars => SettingsInv'
<1> SUFFICES ASSUME SettingsInv, [Next]_vars PROVE SettingsInv'
  OBVIOUS
<1>1. CASE UNCHANGED vars
  BY <1>1 DEF vars, SettingsInv, TypeOK, OpenGroups, LocksCounted, RightPath, Alone,
              WindowIsTheOnlyCause, ObserversCurrent
<1>2. ASSUME SettingsInv PROVE Here \in SUBSET Places /\ \A g \in Groups : Below(g) \in SUBSET Places
  BY DEF SettingsInv, TypeOK, Here, Below
<1>3. QED
  BY <1>1, <1>2, BeginGroupKeeps, LockGroupKeeps, EndGroupKeeps, CompareKeeps, WriteKeeps, RemoveKeeps
     DEF Next, Step, Terminated

\* The settings keep their types, for any number of threads: no two of them have the
\* mutex, and the current path is as long as all open groups together.
THEOREM SettingsTypeCorrect == Spec => []TypeOK
<1>1. SettingsInv => TypeOK
  BY DEF SettingsInv
<1>2. QED
  BY <1>1, SettingsInit, SettingsStep, PTL DEF Spec

\* A write or a removal goes to another group than that of its thread only if
\* somebody used the settings between BeginGroup() and the lock of a SettingsGroup.
THEOREM WindowIsTheOnlyCauseAlways == Spec => []WindowIsTheOnlyCause
<1>1. SettingsInv => WindowIsTheOnlyCause
  BY DEF SettingsInv
<1>2. QED
  BY <1>1, SettingsInit, SettingsStep, PTL DEF Spec

\* Observers have heard last what is stored, whichever threads write, except at
\* places whose last change is one nobody is told of.
THEOREM ObserversCurrentAlways == Spec => []ObserversCurrent
<1>1. SettingsInv => ObserversCurrent
  BY DEF SettingsInv
<1>2. QED
  BY <1>1, SettingsInit, SettingsStep, PTL DEF Spec

-----------------------------------------------------------------------------
(* Observers                                                                 *)

Loop == [of : Observables, told : SUBSET Watchers, at : Watchers \cup {Registry!Nobody}]

\* RegistriesAgree, and whoever is being told is registered.
Agreed ==
  /\ \A o \in Observables, w \in Watchers :
       /\ o \in observables[w] <=> w \in observers[o]
       /\ w \in observers[o] => o \in here /\ w \in watching
  /\ \A i \in DOMAIN loops :
       /\ loops[i].of \in here
       /\ loops[i].at # Registry!Nobody =>
            loops[i].at \in watching /\ loops[i].at \in observers[loops[i].of]

\* The types, with sequences that are easier to reason about.
RegistryTyped ==
  /\ here \subseteq Observables /\ watching \subseteq Watchers /\ undefined \in BOOLEAN
  /\ observers \in [Observables -> SUBSET Watchers]
  /\ observables \in [Watchers -> SUBSET Observables]
  /\ loops \in Seq(Loop) /\ Len(loops) <= MaxLoops

RegistryInv == RegistryTyped /\ (undefined \/ Agreed)

\* The loops, one by one.
LEMMA LoopsTyped ==
  ASSUME Registry!TypeOK
  PROVE  /\ loops \in Seq(Loop) /\ Len(loops) \in Nat /\ Len(loops) <= MaxLoops
         /\ DOMAIN loops = 1 .. Len(loops) /\ \A i \in DOMAIN loops : loops[i] \in Loop
<1>1. loops \in SeqOf(Loop, MaxLoops)
  BY DEF Registry!TypeOK, Registry!SeqOf, SeqOf, Loop
<1>2. loops \in Seq(Loop) /\ Len(loops) <= MaxLoops
  BY <1>1, SeqOfIsSeq, LoopsAssumption
<1>3. QED
  BY <1>2, LenProperties, ElementOfSeq

LEMMA RegistryTypes == Registry!TypeOK <=> RegistryTyped
<1>1. RegistryTyped => loops \in SeqOf(Loop, MaxLoops)
  BY SeqOfIsSeq, LoopsAssumption DEF RegistryTyped
<1>2. SeqOf(Loop, MaxLoops) = Registry!SeqOf([of : Observables, told : SUBSET Watchers,
                                              at : Watchers \cup {Registry!Nobody}], MaxLoops)
  BY DEF Registry!SeqOf, SeqOf, Loop
<1>3. RegistryTyped => Registry!TypeOK
  BY <1>1, <1>2 DEF RegistryTyped, Registry!TypeOK
<1>4. Registry!TypeOK => RegistryTyped
  BY LoopsTyped DEF RegistryTyped, Registry!TypeOK
<1>5. QED
  BY <1>3, <1>4

LEMMA RegistryInit == Registry!Init => RegistryInv
<1> SUFFICES ASSUME Registry!Init PROVE RegistryInv
  OBVIOUS
<1>1. loops = <<>> /\ <<>> \in Seq(Loop) /\ Len(<<>>) = 0
  BY EmptySeq DEF Registry!Init
<1>2. Len(loops) <= MaxLoops /\ loops \in Seq(Loop) /\ DOMAIN loops = {}
  BY <1>1, LoopsAssumption
<1>3. RegistryTyped
  BY <1>2 DEF Registry!Init, RegistryTyped
<1>4. Agreed
  BY <1>2 DEF Agreed, Registry!Init
<1>5. QED
  BY <1>3, <1>4, RegistryTypes DEF RegistryInv

\* The types of the two sides, where the loops stay as they are.
LEMMA SidesTyped ==
  ASSUME RegistryTyped, UNCHANGED loops,
         here' \subseteq Observables, watching' \subseteq Watchers, undefined' \in BOOLEAN,
         observers' \in [Observables -> SUBSET Watchers],
         observables' \in [Watchers -> SUBSET Observables]
  PROVE  RegistryTyped'
BY DEF RegistryTyped

LEMMA RegisterKeeps ==
  ASSUME RegistryInv, NEW o \in Observables, NEW w \in Watchers, Registry!Register(o, w)
  PROVE  RegistryInv'
<1>1. RegistryTyped /\ Agreed /\ \A i \in DOMAIN loops : loops[i] \in Loop
  BY LoopsTyped, RegistryTypes DEF RegistryInv, Registry!Register, Registry!CanAct
<1>2. \A v \in Watchers, x \in Observables :
        /\ x \in observables'[v] <=> x \in observables[v] \/ (x = o /\ v = w)
        /\ v \in observers'[x] <=> v \in observers[x] \/ (x = o /\ v = w)
  BY <1>1 DEF RegistryTyped, Registry!Register
<1>3. RegistryTyped'
  <2>1. observers' \in [Observables -> SUBSET Watchers] /\ observables' \in [Watchers -> SUBSET Observables]
    BY <1>1 DEF RegistryTyped, Registry!Register
  <2>2. UNCHANGED <<here, watching, loops>> /\ undefined' \in BOOLEAN
    BY DEF Registry!Register, Registry!Iterated
  <2>3. QED
    BY <1>1, <2>1, <2>2, SidesTyped DEF RegistryTyped
<1>4. Agreed'
  BY <1>1, <1>2 DEF Agreed, Registry!Register, Loop
<1>5. QED
  BY <1>3, <1>4 DEF RegistryInv

LEMMA UnregisterKeeps ==
  ASSUME RegistryInv, NEW o \in Observables, NEW w \in Watchers, Registry!Unregister(o, w)
  PROVE  RegistryInv'
<1>1. RegistryTyped /\ Agreed /\ \A i \in DOMAIN loops : loops[i] \in Loop
  BY LoopsTyped, RegistryTypes DEF RegistryInv, Registry!Unregister, Registry!CanAct
<1>2. \A v \in Watchers, x \in Observables :
        /\ x \in observables'[v] <=> x \in observables[v] /\ ~(x = o /\ v = w)
        /\ v \in observers'[x] <=> v \in observers[x] /\ ~(x = o /\ v = w)
  BY <1>1 DEF RegistryTyped, Registry!Unregister, Registry!Removed
<1>3. RegistryTyped'
  <2>1. observers' \in [Observables -> SUBSET Watchers] /\ observables' \in [Watchers -> SUBSET Observables]
    BY <1>1 DEF RegistryTyped, Registry!Unregister, Registry!Removed
  <2>2. UNCHANGED <<here, watching, loops>> /\ undefined' \in BOOLEAN
    BY DEF Registry!Unregister
  <2>3. QED
    BY <1>1, <2>1, <2>2, SidesTyped DEF RegistryTyped
<1>4. ~undefined' => \A i \in DOMAIN loops : loops[i].of = o => loops[i].at # w
  BY DEF Registry!Unregister, Registry!IteratorAt
<1>5. ~undefined' => Agreed'
  BY <1>1, <1>2, <1>4 DEF Agreed, Registry!Unregister, Loop
<1>6. QED
  BY <1>3, <1>5 DEF RegistryInv

LEMMA DestroyObserverKeeps ==
  ASSUME RegistryInv, NEW w \in Watchers, Registry!DestroyObserver(w)
  PROVE  RegistryInv'
<1>1. RegistryTyped /\ Agreed /\ \A i \in DOMAIN loops : loops[i] \in Loop
  BY LoopsTyped, RegistryTypes DEF RegistryInv, Registry!DestroyObserver, Registry!CanAct
<1>2. \A v \in Watchers, x \in Observables :
        /\ x \in observables'[v] <=> x \in observables[v] /\ v # w
        /\ v \in observers'[x] <=> v \in observers[x] /\ v # w
  BY <1>1 DEF RegistryTyped, Agreed, Registry!DestroyObserver, Registry!HandleObserverDestructed,
              Registry!Removed
<1>3. RegistryTyped'
  <2>1. observers' \in [Observables -> SUBSET Watchers]
    BY <1>1 DEF RegistryTyped, Registry!DestroyObserver, Registry!HandleObserverDestructed, Registry!Removed
  <2>2. observables' \in [Watchers -> SUBSET Observables] /\ watching' \subseteq Watchers
    BY <1>1 DEF RegistryTyped, Registry!DestroyObserver
  <2>3. UNCHANGED <<here, loops>> /\ undefined' \in BOOLEAN
    BY DEF Registry!DestroyObserver
  <2>4. QED
    BY <1>1, <2>1, <2>2, <2>3, SidesTyped DEF RegistryTyped
<1>4. ~undefined' => \A i \in DOMAIN loops : loops[i].at = w => loops[i].of \notin observables[w]
  BY DEF Registry!DestroyObserver, Registry!IteratorAt
<1>5. ~undefined' => Agreed'
  BY <1>1, <1>2, <1>4 DEF Agreed, Registry!DestroyObserver, Loop
<1>6. QED
  BY <1>3, <1>5 DEF RegistryInv

LEMMA DestroyObservableKeeps ==
  ASSUME RegistryInv, NEW o \in Observables, Registry!DestroyObservable(o)
  PROVE  RegistryInv'
<1>1. RegistryTyped /\ Agreed /\ \A i \in DOMAIN loops : loops[i] \in Loop
  BY LoopsTyped, RegistryTypes DEF RegistryInv, Registry!DestroyObservable, Registry!CanAct
<1>2. \A v \in Watchers, x \in Observables :
        /\ x \in observables'[v] <=> x \in observables[v] /\ x # o
        /\ v \in observers'[x] <=> v \in observers[x] /\ x # o
  BY <1>1 DEF RegistryTyped, Agreed, Registry!DestroyObservable
<1>3. RegistryTyped'
  <2>1. observers' \in [Observables -> SUBSET Watchers] /\ observables' \in [Watchers -> SUBSET Observables]
    BY <1>1 DEF RegistryTyped, Registry!DestroyObservable
  <2>2. UNCHANGED <<watching, loops>> /\ undefined' \in BOOLEAN /\ here' \subseteq Observables
    BY <1>1 DEF RegistryTyped, Registry!DestroyObservable, Registry!Iterated
  <2>3. QED
    BY <1>1, <2>1, <2>2, SidesTyped DEF RegistryTyped
<1>4. ~undefined' => \A i \in DOMAIN loops : loops[i].of # o
  BY DEF Registry!DestroyObservable, Registry!Iterated
<1>5. ~undefined' => Agreed'
  BY <1>1, <1>2, <1>4 DEF Agreed, Registry!DestroyObservable, Loop
<1>6. QED
  BY <1>3, <1>5 DEF RegistryInv

\* The types and the agreement, where only the loops change.
LEMMA LoopsChange ==
  ASSUME RegistryTyped, Agreed, UNCHANGED <<here, watching, observers, observables, undefined>>,
         loops' \in Seq(Loop), Len(loops') <= MaxLoops,
         \A i \in DOMAIN loops' :
           /\ loops'[i].of \in here
           /\ loops'[i].at # Registry!Nobody =>
                loops'[i].at \in watching /\ loops'[i].at \in observers[loops'[i].of]
  PROVE  RegistryInv'
<1>1. RegistryTyped'
  BY DEF RegistryTyped
<1>2. Agreed'
  BY DEF Agreed
<1>3. QED
  BY <1>1, <1>2 DEF RegistryInv

LEMMA PerformKeeps ==
  ASSUME RegistryInv, NEW o \in Observables, Registry!Perform(o)
  PROVE  RegistryInv'
<1> DEFINE begun == [of |-> o, told |-> {}, at |-> Registry!Nobody]
<1>1. RegistryTyped /\ Agreed
  BY DEF RegistryInv, Registry!Perform, Registry!CanAct
<1>2. loops \in Seq(Loop) /\ begun \in Loop /\ loops' = Append(loops, begun)
  BY <1>1 DEF RegistryTyped, Loop, Registry!Perform
<1>3. begun.of = o /\ begun.at = Registry!Nobody
  OBVIOUS
<1> HIDE DEF begun
<1>4. /\ Append(loops, begun) \in Seq(Loop)
      /\ Len(Append(loops, begun)) = Len(loops) + 1 /\ Len(loops) \in Nat
      /\ DOMAIN Append(loops, begun) = 1 .. Len(loops) + 1 /\ DOMAIN loops = 1 .. Len(loops)
      /\ \A i \in 1 .. Len(loops) : Append(loops, begun)[i] = loops[i]
      /\ Append(loops, begun)[Len(loops) + 1] = begun
  BY <1>2, AppendProperties, LenProperties
<1>5. PICK after : after = Append(loops, begun)
  OBVIOUS
<1>6. after \in Seq(Loop) /\ Len(after) <= MaxLoops
  BY <1>4, <1>5, LoopsAssumption DEF Registry!Perform
<1>7. ASSUME NEW i \in DOMAIN after
      PROVE  /\ after[i].of \in here
             /\ after[i].at # Registry!Nobody =>
                  after[i].at \in watching /\ after[i].at \in observers[after[i].of]
  <2>1. CASE i = Len(loops) + 1
    BY <1>3, <1>4, <1>5, <2>1 DEF Registry!Perform
  <2>2. CASE i \in 1 .. Len(loops)
    BY <1>1, <1>4, <1>5, <2>2 DEF Agreed
  <2>3. i \in 1 .. Len(loops) + 1
    BY <1>4, <1>5
  <2>4. QED
    BY <1>4, <2>1, <2>2, <2>3
<1>8. UNCHANGED <<here, watching, observers, observables, undefined>> /\ loops' = after
  BY <1>2, <1>5 DEF Registry!Perform
<1>9. QED
  BY <1>1, <1>6, <1>7, <1>8, LoopsChange

\* The innermost loop goes on with another element, or with none.
LEMMA InnermostChanges ==
  ASSUME RegistryTyped, Agreed, UNCHANGED <<here, watching, observers, observables, undefined>>,
         loops # <<>>, NEW new \in Loop, loops' = [loops EXCEPT ![Len(loops)] = new],
         new.of = loops[Len(loops)].of,
         new.at # Registry!Nobody => new.at \in watching /\ new.at \in observers[new.of]
  PROVE  RegistryInv'
<1>1. loops \in Seq(Loop) /\ Len(loops) <= MaxLoops
  BY DEF RegistryTyped
<1>2. Len(loops) \in Nat \ {0} /\ DOMAIN loops = 1 .. Len(loops)
  BY <1>1, EmptyIsShort, LenProperties
<1>3. loops' \in Seq(Loop) /\ Len(loops') = Len(loops) /\ DOMAIN loops' = DOMAIN loops
  BY <1>1, <1>2, ExceptSeq
<1>4. \A i \in DOMAIN loops : loops'[i] = IF i = Len(loops) THEN new ELSE loops[i]
  BY <1>1, <1>2
<1>5. ASSUME NEW i \in DOMAIN loops'
      PROVE  /\ loops'[i].of \in here
             /\ loops'[i].at # Registry!Nobody =>
                  loops'[i].at \in watching /\ loops'[i].at \in observers[loops'[i].of]
  BY <1>2, <1>3, <1>4 DEF Agreed
<1>6. QED
  BY <1>1, <1>3, <1>5, LoopsChange

LEMMA TellKeeps ==
  ASSUME RegistryInv, NEW w \in Watchers, Registry!Tell(w)
  PROVE  RegistryInv'
<1> DEFINE loop == loops[Len(loops)]
           new  == [of |-> loop.of, told |-> loop.told \cup {w}, at |-> w]
<1>1. RegistryTyped /\ Agreed /\ loops # <<>>
  BY DEF RegistryInv, Registry!Tell
<1>2. loops \in Seq(Loop) /\ Registry!Last(loops) = loop
  BY <1>1 DEF RegistryTyped, Registry!Last
<1>3. Len(loops) \in DOMAIN loops /\ loop \in Loop
  BY <1>1, <1>2, EmptyIsShort, LenProperties, ElementOfSeq
<1>4. new \in Loop /\ new.of = loop.of /\ new.at = w
  BY <1>3 DEF Loop
<1>5. loop.of \in Observables /\ w \in observers[loop.of]
  BY <1>2, <1>3 DEF Registry!Tell, Loop
<1>6. w \in watching
  BY <1>1, <1>5 DEF Agreed
<1>7. loops' = [loops EXCEPT ![Len(loops)] = new]
  BY <1>2 DEF Registry!Tell
<1>8. UNCHANGED <<here, watching, observers, observables, undefined>>
  BY DEF Registry!Tell
<1> HIDE DEF loop, new
<1>9. QED
  BY <1>1, <1>4, <1>5, <1>6, <1>7, <1>8, InnermostChanges DEF loop

LEMMA CallbackReturnsKeeps ==
  ASSUME RegistryInv, Registry!CallbackReturns
  PROVE  RegistryInv'
<1> DEFINE loop == loops[Len(loops)]
           new  == [loop EXCEPT !.at = Registry!Nobody]
<1>1. RegistryTyped /\ Agreed /\ loops # <<>>
  BY DEF RegistryInv, Registry!CallbackReturns, Registry!InCallback
<1>2. loops \in Seq(Loop)
  BY <1>1 DEF RegistryTyped
<1>3. Len(loops) \in DOMAIN loops /\ loop \in Loop
  BY <1>1, <1>2, EmptyIsShort, LenProperties, ElementOfSeq
<1>4. new \in Loop /\ new.of = loop.of /\ new.at = Registry!Nobody
  BY <1>3 DEF Loop
<1>5. loops' = [loops EXCEPT ![Len(loops)] = new]
  BY <1>3 DEF Registry!CallbackReturns
<1>6. UNCHANGED <<here, watching, observers, observables, undefined>>
  BY DEF Registry!CallbackReturns
<1> HIDE DEF loop, new
<1>7. QED
  BY <1>1, <1>4, <1>5, <1>6, InnermostChanges DEF loop

LEMMA PerformedKeeps ==
  ASSUME RegistryInv, Registry!Performed
  PROVE  RegistryInv'
<1>1. RegistryTyped /\ Agreed /\ loops # <<>>
  BY DEF RegistryInv, Registry!Performed
<1>2. loops \in Seq(Loop) /\ Len(loops) <= MaxLoops /\ loops' = Front(loops)
  BY <1>1 DEF RegistryTyped, Registry!Performed, Registry!Front, Front
<1>3. PICK after : after = Front(loops)
  OBVIOUS
<1>4. /\ Len(loops) \in Nat \ {0} /\ after \in Seq(Loop) /\ Len(after) = Len(loops) - 1
      /\ \A i \in 1 .. Len(loops) - 1 : after[i] = loops[i]
  BY <1>1, <1>2, <1>3, FrontProperties
<1>5. DOMAIN loops = 1 .. Len(loops) /\ DOMAIN after = 1 .. Len(loops) - 1
  BY <1>2, <1>4, LenProperties
<1>6. Len(after) <= MaxLoops
  BY <1>2, <1>4, LoopsAssumption
<1>7. ASSUME NEW i \in DOMAIN after
      PROVE  /\ after[i].of \in here
             /\ after[i].at # Registry!Nobody =>
                  after[i].at \in watching /\ after[i].at \in observers[after[i].of]
  BY <1>1, <1>4, <1>5 DEF Agreed
<1>8. UNCHANGED <<here, watching, observers, observables, undefined>> /\ loops' = after
  BY <1>2, <1>3 DEF Registry!Performed
<1>9. QED
  BY <1>1, <1>4, <1>6, <1>7, <1>8, LoopsChange

LEMMA RegistryStep == RegistryInv /\ [Registry!Next]_observerVars => RegistryInv'
<1> SUFFICES ASSUME RegistryInv, [Registry!Next]_observerVars PROVE RegistryInv'
  OBVIOUS
<1>1. CASE UNCHANGED observerVars
  BY <1>1 DEF observerVars, RegistryInv, RegistryTyped, Agreed
<1>2. CASE Registry!Next
  BY <1>2, RegisterKeeps, UnregisterKeeps, DestroyObserverKeeps, DestroyObservableKeeps,
     PerformKeeps, TellKeeps, CallbackReturnsKeeps, PerformedKeeps DEF Registry!Next
<1>3. QED
  BY <1>1, <1>2

\* What the two sides keep, as the property says it.
LEMMA RegistryInvAgrees == RegistryInv => Registry!RegistriesAgree
<1> SUFFICES ASSUME RegistryInv, ~undefined PROVE Registry!RegistriesAgree
  BY DEF Registry!RegistriesAgree
<1>1. RegistryTyped /\ Agreed
  BY DEF RegistryInv
<1>2. \A w \in Watchers : observables[w] # {} => w \in watching
  <2> SUFFICES ASSUME NEW w \in Watchers, NEW o \in observables[w] PROVE w \in watching
    OBVIOUS
  <2>1. o \in Observables
    BY <1>1 DEF RegistryTyped
  <2>2. QED
    BY <1>1, <2>1 DEF Agreed
<1>3. \A o \in Observables : observers[o] # {} => o \in here
  <2> SUFFICES ASSUME NEW o \in Observables, NEW w \in observers[o] PROVE o \in here
    OBVIOUS
  <2>1. w \in Watchers
    BY <1>1 DEF RegistryTyped
  <2>2. QED
    BY <1>1, <2>1 DEF Agreed
<1>4. QED
  BY <1>1, <1>2, <1>3 DEF Agreed, Registry!RegistriesAgree

-----------------------------------------------------------------------------
(* Objects connector                                                         *)

Offered(i, signal, slot) == signal \in DOMAIN g_signals[i] /\ slot \in DOMAIN g_slots[i]

ConnectorTyped ==
  /\ living \subseteq Objects
  /\ wired \subseteq Signals \X Slots /\ severed \subseteq Signals \X Slots
  /\ DOMAIN g_signals = IDs /\ DOMAIN g_slots = IDs
  /\ \A i \in IDs : DOMAIN g_signals[i] \subseteq Signals /\ DOMAIN g_slots[i] \subseteq Slots

\* Every number of offers is a positive one.
OffersCounted ==
  \A i \in IDs : Connector!IsABag(g_signals[i]) /\ Connector!IsABag(g_slots[i])

OffersLive ==
  \A i \in IDs : \A offer \in DOMAIN g_signals[i] \cup DOMAIN g_slots[i] : Owner(offer) \in living

\* Connected are those that are offered together, and that under one ID only: or the
\* withdrawal from one would part what another still connects.  What the withdrawal
\* from an ID where it was not offered has cut is out of this for good.
WiredOffered ==
  \A signal \in Signals, slot \in Slots :
    <<signal, slot>> \in wired => \E i \in IDs : Offered(i, signal, slot)

OfferedWired ==
  \A i \in IDs, signal \in Signals, slot \in Slots :
    Offered(i, signal, slot) => <<signal, slot>> \in wired \/ <<signal, slot>> \in severed

OnlyOnce ==
  \A i \in IDs, j \in IDs, signal \in Signals, slot \in Slots :
    Offered(i, signal, slot) /\ Offered(j, signal, slot) =>
      i = j \/ <<signal, slot>> \in severed

ConnectorInv == ConnectorTyped /\ OffersCounted /\ OffersLive
      /\ WiredOffered /\ OfferedWired /\ OnlyOnce

LEMMA OneMoreOffer ==
  ASSUME NEW list, NEW offer, NEW new, Connector!IsABag(list),
         new = Connector!(+)(list, Connector!SetToBag({offer}))
  PROVE  Connector!IsABag(new) /\ DOMAIN new = DOMAIN list \cup {offer}
  BY DEF Connector!IsABag, Connector!(+), Connector!SetToBag

LEMMA FewerOffers ==
  ASSUME NEW list, NEW rest \in SUBSET DOMAIN list, NEW new, Connector!IsABag(list),
         new = Connector!Restrict(list, rest)
  PROVE  Connector!IsABag(new) /\ DOMAIN new = rest
  BY DEF Connector!IsABag, Connector!Restrict

LEMMA ConnectorInit == Connector!Init => ConnectorInv
<1> SUFFICES ASSUME Connector!Init PROVE ConnectorInv
  OBVIOUS
<1>1. Connector!IsABag(Connector!EmptyBag) /\ DOMAIN Connector!EmptyBag = {}
  BY DEF Connector!IsABag, Connector!EmptyBag, Connector!SetToBag
<1>2. \A i \in IDs : g_signals[i] = Connector!EmptyBag /\ g_slots[i] = Connector!EmptyBag
  BY DEF Connector!Init
<1>3. ConnectorTyped /\ OffersCounted
  BY <1>1, <1>2 DEF ConnectorTyped, OffersCounted, Connector!Init
<1>4. OffersLive /\ WiredOffered /\ OfferedWired /\ OnlyOnce
  BY <1>1, <1>2 DEF OffersLive, WiredOffered, OfferedWired, OnlyOnce, Offered, Connector!Init
<1>5. QED
  BY <1>3, <1>4 DEF ConnectorInv

LEMMA RegisterEmitterKeeps ==
  ASSUME ConnectorInv, NEW ID \in IDs, NEW signal \in Signals,
         Connector!registerEmitter(ID, signal)
  PROVE  ConnectorInv'
<1>1. ConnectorTyped /\ OffersCounted /\ OffersLive
      /\ WiredOffered /\ OfferedWired /\ OnlyOnce
  BY DEF ConnectorInv
<1>2. UNCHANGED <<living, g_slots, severed>> /\ Owner(signal) \in living
  BY DEF Connector!registerEmitter
<1>3. DOMAIN g_signals' = IDs /\ \A i \in IDs \ {ID} : g_signals'[i] = g_signals[i]
  BY <1>1 DEF ConnectorTyped, Connector!registerEmitter
<1>4. Connector!IsABag(g_signals'[ID]) /\ DOMAIN g_signals'[ID] = DOMAIN g_signals[ID] \cup {signal}
  <2>1. g_signals'[ID] = Connector!(+)(g_signals[ID], Connector!SetToBag({signal}))
    BY <1>1 DEF ConnectorTyped, Connector!registerEmitter
  <2>2. Connector!IsABag(g_signals[ID])
    BY <1>1 DEF OffersCounted
  <2>3. QED
    BY <2>1, <2>2, OneMoreOffer
<1>5. \A slot \in DOMAIN g_slots[ID] : <<signal, slot>> \notin wired
  BY DEF Connector!registerEmitter, Connector!CanConnect, Connector!BagToSet
<1>6. wired' = wired \cup ({signal} \X DOMAIN g_slots[ID])
  BY DEF Connector!registerEmitter, Connector!BagToSet
<1>7. \A i \in IDs, s \in Signals, t \in Slots :
        Offered(i, s, t)' <=> Offered(i, s, t) \/ (i = ID /\ s = signal /\ t \in DOMAIN g_slots[ID])
  BY <1>2, <1>3, <1>4 DEF Offered
<1>8. ConnectorTyped'
  BY <1>1, <1>2, <1>3, <1>4, <1>6 DEF ConnectorTyped
<1>9. OffersCounted'
  BY <1>1, <1>2, <1>3, <1>4 DEF OffersCounted
<1>10. OffersLive'
  BY <1>1, <1>2, <1>3, <1>4 DEF OffersLive
<1>11. WiredOffered' /\ OfferedWired'
  <2>1. WiredOffered'
    BY <1>1, <1>6, <1>7 DEF WiredOffered
  <2>2. OfferedWired'
    BY <1>1, <1>2, <1>6, <1>7 DEF OfferedWired
  <2>3. QED
    BY <2>1, <2>2
<1>12. OnlyOnce'
  <2> SUFFICES ASSUME NEW i \in IDs, NEW j \in IDs, NEW s \in Signals, NEW t \in Slots,
                      Offered(i, s, t)', Offered(j, s, t)'
               PROVE  i = j \/ <<s, t>> \in severed
    BY <1>2 DEF OnlyOnce
  <2>1. ASSUME s = signal /\ t \in DOMAIN g_slots[ID]
        PROVE  (~Offered(i, s, t) /\ ~Offered(j, s, t)) \/ <<s, t>> \in severed
    BY <1>1, <1>5, <2>1 DEF WiredOffered, OfferedWired
  <2>2. QED
    BY <1>1, <1>7, <2>1 DEF OnlyOnce
<1>13. QED
  BY <1>8, <1>9, <1>10, <1>11, <1>12 DEF ConnectorInv

LEMMA RegisterReceiverKeeps ==
  ASSUME ConnectorInv, NEW ID \in IDs, NEW slot \in Slots,
         Connector!registerReceiver(ID, slot)
  PROVE  ConnectorInv'
<1>1. ConnectorTyped /\ OffersCounted /\ OffersLive
      /\ WiredOffered /\ OfferedWired /\ OnlyOnce
  BY DEF ConnectorInv
<1>2. UNCHANGED <<living, g_signals, severed>> /\ Owner(slot) \in living
  BY DEF Connector!registerReceiver
<1>3. DOMAIN g_slots' = IDs /\ \A i \in IDs \ {ID} : g_slots'[i] = g_slots[i]
  BY <1>1 DEF ConnectorTyped, Connector!registerReceiver
<1>4. Connector!IsABag(g_slots'[ID]) /\ DOMAIN g_slots'[ID] = DOMAIN g_slots[ID] \cup {slot}
  <2>1. g_slots'[ID] = Connector!(+)(g_slots[ID], Connector!SetToBag({slot}))
    BY <1>1 DEF ConnectorTyped, Connector!registerReceiver
  <2>2. Connector!IsABag(g_slots[ID])
    BY <1>1 DEF OffersCounted
  <2>3. QED
    BY <2>1, <2>2, OneMoreOffer
<1>5. \A signal \in DOMAIN g_signals[ID] : <<signal, slot>> \notin wired
  BY DEF Connector!registerReceiver, Connector!CanConnect, Connector!BagToSet
<1>6. wired' = wired \cup ((DOMAIN g_signals[ID]) \X {slot})
  BY DEF Connector!registerReceiver, Connector!BagToSet
<1>7. \A i \in IDs, s \in Signals, t \in Slots :
        Offered(i, s, t)' <=> Offered(i, s, t) \/ (i = ID /\ s \in DOMAIN g_signals[ID] /\ t = slot)
  BY <1>2, <1>3, <1>4 DEF Offered
<1>8. ConnectorTyped'
  BY <1>1, <1>2, <1>3, <1>4, <1>6 DEF ConnectorTyped
<1>9. OffersCounted'
  BY <1>1, <1>2, <1>3, <1>4 DEF OffersCounted
<1>10. OffersLive'
  BY <1>1, <1>2, <1>3, <1>4 DEF OffersLive
<1>11. WiredOffered' /\ OfferedWired'
  <2>1. WiredOffered'
    BY <1>1, <1>6, <1>7 DEF WiredOffered
  <2>2. OfferedWired'
    BY <1>1, <1>2, <1>6, <1>7 DEF OfferedWired
  <2>3. QED
    BY <2>1, <2>2
<1>12. OnlyOnce'
  <2> SUFFICES ASSUME NEW i \in IDs, NEW j \in IDs, NEW s \in Signals, NEW t \in Slots,
                      Offered(i, s, t)', Offered(j, s, t)'
               PROVE  i = j \/ <<s, t>> \in severed
    BY <1>2 DEF OnlyOnce
  <2>1. ASSUME s \in DOMAIN g_signals[ID] /\ t = slot
        PROVE  (~Offered(i, s, t) /\ ~Offered(j, s, t)) \/ <<s, t>> \in severed
    BY <1>1, <1>5, <2>1 DEF WiredOffered, OfferedWired
  <2>2. QED
    BY <1>1, <1>7, <2>1 DEF OnlyOnce
<1>13. QED
  BY <1>8, <1>9, <1>10, <1>11, <1>12 DEF ConnectorInv

LEMMA UnregisterEmitterKeeps ==
  ASSUME ConnectorInv, NEW ID \in IDs, NEW signal \in Signals,
         Connector!unregisterEmitter(ID, signal)
  PROVE  ConnectorInv'
<1>1. ConnectorTyped /\ OffersCounted /\ OffersLive
      /\ WiredOffered /\ OfferedWired /\ OnlyOnce
  BY DEF ConnectorInv
<1>2. UNCHANGED <<living, g_slots>>
  BY DEF Connector!unregisterEmitter
<1>3. DOMAIN g_signals' = IDs /\ \A i \in IDs \ {ID} : g_signals'[i] = g_signals[i]
  BY <1>1 DEF ConnectorTyped, Connector!unregisterEmitter
<1>4. Connector!IsABag(g_signals'[ID]) /\ DOMAIN g_signals'[ID] = DOMAIN g_signals[ID] \ {signal}
  <2>1. g_signals'[ID] = Connector!Restrict(g_signals[ID], DOMAIN g_signals[ID] \ {signal})
    BY <1>1 DEF ConnectorTyped, Connector!unregisterEmitter, Connector!Without
  <2>2. DOMAIN g_signals[ID] \ {signal} \in SUBSET DOMAIN g_signals[ID]
    OBVIOUS
  <2>3. QED
    BY <1>1, <2>1, <2>2, FewerOffers DEF OffersCounted
<1>5. /\ wired' = wired \ ({signal} \X DOMAIN g_slots[ID])
      /\ severed' = severed \cup IF signal \in DOMAIN g_signals[ID] THEN {}
                                 ELSE wired \cap ({signal} \X DOMAIN g_slots[ID])
  BY DEF Connector!unregisterEmitter, Connector!BagToSet, Connector!BagIn
<1>6. \A i \in IDs, s \in Signals, t \in Slots :
        Offered(i, s, t)' <=> Offered(i, s, t) /\ ~(i = ID /\ s = signal)
  BY <1>2, <1>3, <1>4 DEF Offered
<1>7. ConnectorTyped'
  BY <1>1, <1>2, <1>3, <1>4, <1>5 DEF ConnectorTyped
<1>8. OffersCounted'
  BY <1>1, <1>2, <1>3, <1>4 DEF OffersCounted
<1>9. OffersLive'
  BY <1>1, <1>2, <1>3, <1>4 DEF OffersLive
<1>10. WiredOffered' /\ OfferedWired'
  <2> SUFFICES ASSUME NEW s \in Signals, NEW t \in Slots
               PROVE  /\ <<s, t>> \in wired' => \E i \in IDs : Offered(i, s, t)'
                      /\ \A i \in IDs : Offered(i, s, t)' => <<s, t>> \in wired' \/ <<s, t>> \in severed'
    BY DEF WiredOffered, OfferedWired
  <2>1. CASE s = signal /\ t \in DOMAIN g_slots[ID]
    <3>1. <<s, t>> \notin wired'
      BY <1>5, <2>1
    <3>2. CASE signal \in DOMAIN g_signals[ID]
      BY <1>1, <1>5, <1>6, <2>1, <3>1, <3>2 DEF OnlyOnce, Offered
    <3>3. CASE ~(signal \in DOMAIN g_signals[ID])
      <4>1. <<s, t>> \in wired => <<s, t>> \in severed'
        BY <1>5, <2>1, <3>3
      <4>2. \A i \in IDs : Offered(i, s, t)' => Offered(i, s, t)
        BY <1>6
      <4>3. QED
        BY <1>1, <1>5, <3>1, <4>1, <4>2 DEF WiredOffered, OfferedWired
    <3>4. QED
      BY <3>2, <3>3
  <2>2. CASE ~(s = signal /\ t \in DOMAIN g_slots[ID])
    <3>1. /\ <<s, t>> \in wired' <=> <<s, t>> \in wired
          /\ severed \subseteq severed'
      BY <1>5, <2>2
    <3>2. \A i \in IDs : Offered(i, s, t)' <=> Offered(i, s, t)
      BY <1>6, <2>2 DEF Offered
    <3>3. QED
      BY <1>1, <3>1, <3>2 DEF WiredOffered, OfferedWired
  <2>3. QED
    BY <2>1, <2>2
<1>11. OnlyOnce'
  BY <1>1, <1>5, <1>6 DEF OnlyOnce
<1>12. QED
  BY <1>7, <1>8, <1>9, <1>10, <1>11 DEF ConnectorInv

LEMMA UnregisterReceiverKeeps ==
  ASSUME ConnectorInv, NEW ID \in IDs, NEW slot \in Slots,
         Connector!unregisterReceiver(ID, slot)
  PROVE  ConnectorInv'
<1>1. ConnectorTyped /\ OffersCounted /\ OffersLive
      /\ WiredOffered /\ OfferedWired /\ OnlyOnce
  BY DEF ConnectorInv
<1>2. UNCHANGED <<living, g_signals>>
  BY DEF Connector!unregisterReceiver
<1>3. DOMAIN g_slots' = IDs /\ \A i \in IDs \ {ID} : g_slots'[i] = g_slots[i]
  BY <1>1 DEF ConnectorTyped, Connector!unregisterReceiver
<1>4. Connector!IsABag(g_slots'[ID]) /\ DOMAIN g_slots'[ID] = DOMAIN g_slots[ID] \ {slot}
  <2>1. g_slots'[ID] = Connector!Restrict(g_slots[ID], DOMAIN g_slots[ID] \ {slot})
    BY <1>1 DEF ConnectorTyped, Connector!unregisterReceiver, Connector!Without
  <2>2. DOMAIN g_slots[ID] \ {slot} \in SUBSET DOMAIN g_slots[ID]
    OBVIOUS
  <2>3. QED
    BY <1>1, <2>1, <2>2, FewerOffers DEF OffersCounted
<1>5. /\ wired' = wired \ ((DOMAIN g_signals[ID]) \X {slot})
      /\ severed' = severed \cup IF slot \in DOMAIN g_slots[ID] THEN {}
                                 ELSE wired \cap ((DOMAIN g_signals[ID]) \X {slot})
  BY DEF Connector!unregisterReceiver, Connector!BagToSet, Connector!BagIn
<1>6. \A i \in IDs, s \in Signals, t \in Slots :
        Offered(i, s, t)' <=> Offered(i, s, t) /\ ~(i = ID /\ t = slot)
  BY <1>2, <1>3, <1>4 DEF Offered
<1>7. ConnectorTyped'
  BY <1>1, <1>2, <1>3, <1>4, <1>5 DEF ConnectorTyped
<1>8. OffersCounted'
  BY <1>1, <1>2, <1>3, <1>4 DEF OffersCounted
<1>9. OffersLive'
  BY <1>1, <1>2, <1>3, <1>4 DEF OffersLive
<1>10. WiredOffered' /\ OfferedWired'
  <2> SUFFICES ASSUME NEW s \in Signals, NEW t \in Slots
               PROVE  /\ <<s, t>> \in wired' => \E i \in IDs : Offered(i, s, t)'
                      /\ \A i \in IDs : Offered(i, s, t)' => <<s, t>> \in wired' \/ <<s, t>> \in severed'
    BY DEF WiredOffered, OfferedWired
  <2>1. CASE s \in DOMAIN g_signals[ID] /\ t = slot
    <3>1. <<s, t>> \notin wired'
      BY <1>5, <2>1
    <3>2. CASE slot \in DOMAIN g_slots[ID]
      BY <1>1, <1>5, <1>6, <2>1, <3>1, <3>2 DEF OnlyOnce, Offered
    <3>3. CASE ~(slot \in DOMAIN g_slots[ID])
      <4>1. <<s, t>> \in wired => <<s, t>> \in severed'
        BY <1>5, <2>1, <3>3
      <4>2. \A i \in IDs : Offered(i, s, t)' => Offered(i, s, t)
        BY <1>6
      <4>3. QED
        BY <1>1, <1>5, <3>1, <4>1, <4>2 DEF WiredOffered, OfferedWired
    <3>4. QED
      BY <3>2, <3>3
  <2>2. CASE ~(s \in DOMAIN g_signals[ID] /\ t = slot)
    <3>1. /\ <<s, t>> \in wired' <=> <<s, t>> \in wired
          /\ severed \subseteq severed'
      BY <1>5, <2>2
    <3>2. \A i \in IDs : Offered(i, s, t)' <=> Offered(i, s, t)
      BY <1>6, <2>2 DEF Offered
    <3>3. QED
      BY <1>1, <3>1, <3>2 DEF WiredOffered, OfferedWired
  <2>3. QED
    BY <2>1, <2>2
<1>11. OnlyOnce'
  BY <1>1, <1>5, <1>6 DEF OnlyOnce
<1>12. QED
  BY <1>7, <1>8, <1>9, <1>10, <1>11 DEF ConnectorInv

\* Of the offers of an object nothing is left, wherever they were.
LEMMA ForgottenOffers ==
  ASSUME NEW lists, NEW object, NEW i \in IDs, Connector!IsABag(lists[i])
  PROVE  /\ Connector!IsABag(Connector!Forgotten(lists, object)[i])
         /\ DOMAIN Connector!Forgotten(lists, object)[i] = {offer \in DOMAIN lists[i] : Owner(offer) # object}
<1> DEFINE rest == {offer \in DOMAIN lists[i] : Owner(offer) # object}
<1>1. Connector!Forgotten(lists, object)[i] = Connector!Restrict(lists[i], rest)
  BY DEF Connector!Forgotten
<1>2. rest \in SUBSET DOMAIN lists[i]
  OBVIOUS
<1> HIDE DEF rest
<1>3. QED
  BY <1>1, <1>2, FewerOffers DEF rest

LEMMA DestroyKeeps ==
  ASSUME ConnectorInv, NEW object \in Objects, Connector!Destroy(object)
  PROVE  ConnectorInv'
<1>1. ConnectorTyped /\ OffersCounted /\ OffersLive
      /\ WiredOffered /\ OfferedWired /\ OnlyOnce
  BY DEF ConnectorInv
<1>2. g_signals' = Connector!Forgotten(g_signals, object) /\ g_slots' = Connector!Forgotten(g_slots, object)
  BY DEF Connector!Destroy
<1>3. \A i \in IDs : Connector!IsABag(g_signals[i]) /\ Connector!IsABag(g_slots[i])
  BY <1>1 DEF OffersCounted
<1>4. DOMAIN g_signals' = IDs /\ DOMAIN g_slots' = IDs
  BY <1>2 DEF Connector!Forgotten
<1>5. \A i \in IDs : /\ Connector!IsABag(g_signals'[i])
                     /\ DOMAIN g_signals'[i] = {offer \in DOMAIN g_signals[i] : Owner(offer) # object}
  BY <1>2, <1>3, ForgottenOffers
<1>6. \A i \in IDs : /\ Connector!IsABag(g_slots'[i])
                     /\ DOMAIN g_slots'[i] = {offer \in DOMAIN g_slots[i] : Owner(offer) # object}
  BY <1>2, <1>3, ForgottenOffers
<1>7. living' = living \ {object} /\ wired' \subseteq wired /\ severed' = severed
  BY DEF Connector!Destroy
<1>8. \A signal \in Signals, slot \in Slots :
        <<signal, slot>> \in wired' <=> /\ <<signal, slot>> \in wired
                                        /\ Owner(signal) # object /\ Owner(slot) # object
  BY DEF Connector!Destroy
<1>9. \A i \in IDs, signal \in Signals, slot \in Slots :
        Offered(i, signal, slot)' <=> /\ Offered(i, signal, slot)
                                      /\ Owner(signal) # object /\ Owner(slot) # object
  BY <1>5, <1>6 DEF Offered
<1>10. ConnectorTyped'
  BY <1>1, <1>4, <1>5, <1>6, <1>7 DEF ConnectorTyped
<1>11. OffersCounted'
  BY <1>5, <1>6 DEF OffersCounted
<1>12. OffersLive'
  BY <1>1, <1>5, <1>6, <1>7 DEF OffersLive
<1>13. WiredOffered' /\ OfferedWired'
  <2>1. WiredOffered'
    BY <1>1, <1>8, <1>9 DEF WiredOffered
  <2>2. OfferedWired'
    BY <1>1, <1>7, <1>8, <1>9 DEF OfferedWired
  <2>3. QED
    BY <2>1, <2>2
<1>14. OnlyOnce'
  BY <1>1, <1>7, <1>9 DEF OnlyOnce
<1>15. QED
  BY <1>10, <1>11, <1>12, <1>13, <1>14 DEF ConnectorInv

LEMMA ConnectorStep == ConnectorInv /\ [Connector!Next]_objectVars => ConnectorInv'
<1> SUFFICES ASSUME ConnectorInv, [Connector!Next]_objectVars PROVE ConnectorInv'
  OBVIOUS
<1>1. CASE UNCHANGED objectVars
  BY <1>1 DEF objectVars, ConnectorInv, ConnectorTyped, OffersCounted, OffersLive, WiredOffered, OfferedWired,
              OnlyOnce, Offered
<1>2. CASE Connector!Next
  BY <1>2, RegisterEmitterKeeps, RegisterReceiverKeeps, UnregisterEmitterKeeps,
     UnregisterReceiverKeeps, DestroyKeeps DEF Connector!Next
<1>3. QED
  BY <1>1, <1>2

LEMMA ConnectorInvTyped == ConnectorInv => Connector!TypeOK
BY DEF ConnectorInv, ConnectorTyped, OffersCounted, Connector!TypeOK, Connector!BagToSet

LEMMA ConnectorInvWires == ConnectorInv => Connector!WiredAllToAll
<1> SUFFICES ASSUME ConnectorInv PROVE Connector!WiredAllToAll
  OBVIOUS
<1> DEFINE offers(i) == (DOMAIN g_signals[i]) \X (DOMAIN g_slots[i])
<1>1. ConnectorTyped /\ OffersLive /\ WiredOffered /\ OfferedWired
  BY DEF ConnectorInv
<1>2. ASSUME NEW pair \in wired PROVE \E i \in IDs : pair \in offers(i)
  <2>1. PICK signal \in Signals, slot \in Slots : pair = <<signal, slot>>
    BY <1>1 DEF ConnectorTyped
  <2>2. QED
    BY <1>1, <2>1 DEF WiredOffered, OfferedWired, Offered
<1>3. ASSUME NEW i \in IDs, NEW pair \in offers(i) PROVE pair \in wired \/ pair \in severed
  <2>1. PICK signal \in DOMAIN g_signals[i], slot \in DOMAIN g_slots[i] : pair = <<signal, slot>>
    OBVIOUS
  <2>2. signal \in Signals /\ slot \in Slots
    BY <1>1 DEF ConnectorTyped
  <2>3. QED
    BY <1>1, <2>1, <2>2 DEF WiredOffered, OfferedWired, Offered
<1> DEFINE together == UNION {offers(i) : i \in IDs}
<1>4. wired \subseteq together
  <2> HIDE DEF offers
  <2>1. QED
    BY <1>2
<1>5. together \ wired \subseteq severed
  <2> HIDE DEF offers
  <2>1. QED
    BY <1>3
<1>6. Connector!WiredAllToAll <=> /\ wired \subseteq together /\ together \ wired \subseteq severed
                                  /\ OffersLive
  BY DEF Connector!WiredAllToAll, Connector!BagToSet, OffersLive
<1> HIDE DEF together
<1>7. QED
  BY <1>1, <1>4, <1>5, <1>6

-----------------------------------------------------------------------------
(* Window                                                                    *)

\* What is stored is what was saved last; of a large window, not where it was.
SavedLast ==
  last = Unset \/ /\ store.state = last.state /\ store.splitter = last.parting
                  /\ last.state = "normal" => store.geometry = last.place

\* A window that is hidden is as it was saved, unless it is a new one.
HiddenAsSaved ==
  life # "none" /\ ~visible =>
    /\ state \in Restorable!Large => last # Unset /\ state = last.state
    /\ state = "normal" /\ store.geometry = Unset => place = Center
    /\ life = "loaded" /\ last # Unset => parting \in {last.parting} \cup last.due

OwnSizes == [w \in Widgets |-> OwnSize(w)]

\* The sizes that were collected are those the widgets were designed with.
SizesCollected ==
  /\ base = Unset  => fontSize = OwnSizes
  /\ base # Unset => base = OwnSizes

WindowInv ==
  /\ Restorable!TypeOK /\ initialized = visible
  /\ Center \in screens /\ (stretching => last = Unset \/ "stretched" \in last.due)
  /\ last # Unset => last \in [state : Restorable!States, place : Rectangles,
                               parting : Partings \cup {"initial", "stretched"},
                               due : SUBSET {"stretched"}]
  /\ SavedLast /\ HiddenAsSaved /\ SizesCollected
  /\ Restorable!FontsScaledOnce

LEMMA WindowInit == Restorable!Init => WindowInv
<1> SUFFICES ASSUME Restorable!Init PROVE WindowInv
  OBVIOUS
<1> USE WindowAssumption DEF Restorable!Init
<1>1. Restorable!TypeOK
  BY DEF Restorable!TypeOK, Restorable!States, Restorable!Large
<1>2. QED
  BY <1>1 DEF WindowInv, SavedLast, HiddenAsSaved, SizesCollected, OwnSizes,
     Restorable!FontsScaledOnce, Restorable!Large

LEMMA ProductPositive == \A m, n \in Nat \ {0} : m * n \in Nat \ {0}
OBVIOUS

\* Whenever the fonts are scaled they are scaled from the sizes of the design.
LEMMA ScaledFromDesign ==
  ASSUME WindowInv, Restorable!OnFontChanged
  PROVE  /\ base' = OwnSizes /\ base' \in [Widgets -> Nat \ {0}] /\ base' # Unset
         /\ fontSize' \in [Widgets -> Nat \ {0}]
         /\ store.font # Unset => fontSize' = [w \in Widgets |-> OwnSize(w) * store.font]
<1>1. OwnSizes \in [Widgets -> Nat \ {0}] /\ OwnSizes # Unset
  BY WindowAssumption DEF OwnSizes
<1>2. Restorable!CollectWidgets = OwnSizes
  BY DEF WindowInv, SizesCollected, Restorable!CollectWidgets
<1>3. PICK points \in Nat \ {0} : points = (IF store.font = Unset THEN fontSize[Root] ELSE store.font)
  <2>1. store.font \in FontSizes \cup {Unset} /\ fontSize[Root] \in Nat \ {0}
    BY WindowAssumption DEF WindowInv, Restorable!TypeOK
  <2>2. QED
    BY <2>1, WindowAssumption
<1>4. fontSize' = [w \in Widgets |-> OwnSize(w) * points]
  <2>1. fontSize' = [w \in Widgets |-> OwnSizes[w] * points]
    BY <1>2, <1>3 DEF Restorable!OnFontChanged
  <2>2. QED
    BY <2>1 DEF OwnSizes
<1>5. \A w \in Widgets : OwnSize(w) * points \in Nat \ {0}
  BY ProductPositive, WindowAssumption
<1>6. base' = OwnSizes
  BY <1>2 DEF Restorable!OnFontChanged
<1>7. QED
  BY <1>1, <1>3, <1>4, <1>5, <1>6

\* OnHide() saves all there is to be restored.
LEMMA HideKeeps ==
  ASSUME WindowInv, Restorable!OnHide, Restorable!Hide \/ Restorable!Close
  PROVE  WindowInv'
<1>1. /\ UNCHANGED <<state, place, parting, screens, base, fontSize>>
      /\ initialized' = FALSE /\ visible' = FALSE /\ UNCHANGED stretching /\ stretching \in BOOLEAN /\ Restorable!Due \in SUBSET {"stretched"}
      /\ \/ life' = life /\ visible /\ UNCHANGED fontTimer
         \/ life' = "none" /\ fontTimer' = FALSE
  BY DEF Restorable!OnHide, Restorable!Hide, Restorable!Close, Restorable!Due, WindowInv, Restorable!TypeOK
<1>2. /\ state \in Restorable!States /\ place \in Rectangles
      /\ parting \in Partings \cup {"initial", "stretched"}
  BY DEF WindowInv, Restorable!TypeOK
<1>3. /\ store' \in [geometry : Rectangles \cup {Unset}, state : Restorable!States,
                     splitter : Partings \cup {"initial", "stretched", Unset},
                     font : FontSizes \cup {Unset}]
      /\ store'.font = store.font
      /\ initialized => /\ store'.state = state /\ store'.splitter = parting
                        /\ state \notin Restorable!Large => store'.geometry = place
                        /\ last' = [state |-> state, place |-> place, parting |-> parting,
                                    due |-> Restorable!Due]
      /\ ~initialized => UNCHANGED <<store, last>>
  <2>1. store \in [geometry : Rectangles \cup {Unset}, state : Restorable!States,
                   splitter : Partings \cup {"initial", "stretched", Unset},
                   font : FontSizes \cup {Unset}]
    BY DEF WindowInv, Restorable!TypeOK
  <2>2. CASE initialized
    BY <1>2, <2>1, <2>2 DEF Restorable!OnHide
  <2>3. CASE ~initialized
    BY <2>1, <2>3 DEF Restorable!OnHide
  <2>4. QED
    BY <2>2, <2>3
<1>4. Restorable!TypeOK'
  BY <1>1, <1>3 DEF WindowInv, Restorable!TypeOK
<1>5. (SizesCollected /\ Restorable!FontsScaledOnce)'
  BY <1>1, <1>3 DEF WindowInv, SizesCollected, Restorable!FontsScaledOnce
<1>6. CASE initialized
  <2>1. last' \in [state : Restorable!States, place : Rectangles,
                   parting : Partings \cup {"initial", "stretched"}, due : SUBSET {"stretched"}]
    <3>1. last' = [state |-> state, place |-> place, parting |-> parting, due |-> Restorable!Due]
      BY <1>3, <1>6
    <3>2. Restorable!Due \in SUBSET {"stretched"}
      BY <1>1
    <3>3. QED
      BY <1>2, <3>1, <3>2
  <2>2. last' # Unset
    BY <2>1, WindowAssumption DEF Restorable!States, Restorable!Large
  <2>3. last'.state = state /\ last'.place = place /\ last'.parting = parting /\ last'.due = Restorable!Due
    BY <1>3, <1>6
  <2>4. SavedLast'
    BY <1>3, <1>6, <2>3 DEF SavedLast, Restorable!Large
  <2>5. HiddenAsSaved'
    <3>1. state = "normal" => store'.geometry # Unset
      BY <1>2, <1>3, <1>6, WindowAssumption DEF Restorable!Large
    <3>2. QED
      BY <1>1, <2>2, <2>3, <3>1 DEF HiddenAsSaved
  <2>6. QED
    BY <1>1, <1>4, <1>5, <2>1, <2>3, <2>4, <2>5 DEF WindowInv, Restorable!Due
<1>7. CASE ~initialized
  <2>1. life' = "none" /\ UNCHANGED <<store, last>>
    BY <1>1, <1>3, <1>7 DEF WindowInv
  <2>2. (SavedLast /\ HiddenAsSaved)'
    BY <2>1 DEF WindowInv, SavedLast, HiddenAsSaved
  <2>3. QED
    BY <1>1, <1>4, <1>5, <2>1, <2>2 DEF WindowInv
<1>8. QED
  BY <1>6, <1>7

LEMMA ShowKeeps ==
  ASSUME WindowInv, Restorable!Show
  PROVE  WindowInv'
<1>1. /\ ~initialized /\ Restorable!OnFontChanged
      /\ visible' /\ initialized' /\ ~minimized'
      /\ UNCHANGED <<store, life, parting, fontTimer, stretching, screens, last>>
      /\ life = "loaded"
  BY DEF WindowInv, Restorable!Show, Restorable!OnShow, Restorable!TypeOK
<1>2. place' \in Rectangles /\ state' \in Restorable!States
  BY WindowAssumption
     DEF WindowInv, Restorable!Show, Restorable!OnShow, Restorable!TypeOK, Restorable!OntoScreen,
         Restorable!Large, Restorable!States
<1>3. Restorable!TypeOK'
  BY <1>1, <1>2, ScaledFromDesign DEF WindowInv, Restorable!TypeOK
<1>4. (SizesCollected /\ Restorable!FontsScaledOnce)'
  BY <1>1, ScaledFromDesign DEF SizesCollected, Restorable!FontsScaledOnce
<1>5. (SavedLast /\ HiddenAsSaved)'
  BY <1>1 DEF WindowInv, SavedLast, HiddenAsSaved
<1>6. QED
  BY <1>1, <1>3, <1>4, <1>5 DEF WindowInv

LEMMA FontKeeps ==
  ASSUME WindowInv, Restorable!FontTimeout \/ \E points \in FontSizes : Restorable!SetFont(points)
  PROVE  WindowInv'
<1>1. CASE Restorable!FontTimeout
  <2>1. /\ Restorable!OnFontChanged /\ ~fontTimer'
        /\ UNCHANGED <<store, life, initialized, visible, minimized, state, place, parting,
                       stretching, screens, last>>
    BY <1>1 DEF Restorable!FontTimeout
  <2>2. QED
    BY <2>1, ScaledFromDesign
       DEF WindowInv, SizesCollected, SavedLast, HiddenAsSaved, Restorable!FontsScaledOnce,
           Restorable!TypeOK
<1>2. CASE \E points \in FontSizes : Restorable!SetFont(points)
  <2>1. PICK points \in FontSizes : Restorable!SetFont(points)
    BY <1>2
  <2>2. Restorable!TypeOK' /\ store'.state = store.state /\ store'.geometry = store.geometry
        /\ store'.splitter = store.splitter
    BY <2>1 DEF WindowInv, Restorable!TypeOK, Restorable!SetFont
  <2>3. /\ UNCHANGED <<life, initialized, visible, state, place, parting, fontSize, base,
                      stretching, screens, last>>
        /\ fontTimer' = (life # "none") /\ store' = [store EXCEPT !.font = points]
    BY <2>1 DEF Restorable!SetFont
  <2>4. (SavedLast /\ HiddenAsSaved /\ SizesCollected)'
    BY <2>2, <2>3 DEF WindowInv, SavedLast, HiddenAsSaved, SizesCollected
  <2>5. Restorable!FontsScaledOnce'
    BY <2>3 DEF Restorable!FontsScaledOnce
  <2>6. QED
    BY <2>2, <2>3, <2>4, <2>5 DEF WindowInv
<1>3. QED
  BY <1>1, <1>2

LEMMA LifeKeeps ==
  ASSUME WindowInv, Restorable!Create \/ Restorable!LoadGeometry \/ Restorable!Stretch \/ Restorable!Kill
  PROVE  WindowInv'
<1> USE WindowAssumption DEF WindowInv, SizesCollected, SavedLast, HiddenAsSaved, Restorable!FontsScaledOnce
<1>1. CASE Restorable!Create
  <2>1. Restorable!TypeOK'
    BY <1>1 DEF Restorable!Create, Restorable!TypeOK, Restorable!States
  <2>2. QED
    BY <1>1, <2>1 DEF Restorable!Create, OwnSizes, Restorable!Large, Restorable!TypeOK
<1>2. CASE Restorable!LoadGeometry
  <2>1. Restorable!TypeOK'
    BY <1>2 DEF Restorable!LoadGeometry, Restorable!TypeOK
  <2>2. QED
    BY <1>2, <2>1 DEF Restorable!LoadGeometry, Restorable!TypeOK
<1>3. CASE Restorable!Stretch
  <2>1. Restorable!TypeOK'
    BY <1>3 DEF Restorable!Stretch, Restorable!TypeOK
  <2>2. QED
    BY <1>3, <2>1 DEF Restorable!Stretch
<1>4. CASE Restorable!Kill
  <2>1. Restorable!TypeOK'
    BY <1>4 DEF Restorable!Kill, Restorable!TypeOK
  <2>2. QED
    BY <1>4, <2>1 DEF Restorable!Kill
<1>5. QED
  BY <1>1, <1>2, <1>3, <1>4

LEMMA UserKeeps ==
  ASSUME WindowInv,
         \/ \E to \in Rectangles, split \in Partings : Restorable!Move(to, split)
         \/ \E to \in Restorable!States : Restorable!ChangeState(to)
         \/ \E to \in {s \in SUBSET Rectangles : Center \in s} : Restorable!ChangeScreens(to)
  PROVE  WindowInv'
<1> USE DEF WindowInv, SizesCollected, SavedLast, HiddenAsSaved, Restorable!FontsScaledOnce
<1>1. CASE \E to \in Rectangles, split \in Partings : Restorable!Move(to, split)
  BY <1>1 DEF Restorable!Move, Restorable!TypeOK
<1>2. CASE \E to \in Restorable!States : Restorable!ChangeState(to)
  BY <1>2 DEF Restorable!ChangeState, Restorable!TypeOK
<1>3. CASE \E to \in {s \in SUBSET Rectangles : Center \in s} : Restorable!ChangeScreens(to)
  BY <1>3 DEF Restorable!ChangeScreens, Restorable!TypeOK
<1>4. QED
  BY <1>1, <1>2, <1>3

LEMMA WindowStep == WindowInv /\ [Restorable!Next]_Restorable!vars => WindowInv'
<1> SUFFICES ASSUME WindowInv, [Restorable!Next]_Restorable!vars PROVE WindowInv'
  OBVIOUS
<1>1. CASE UNCHANGED Restorable!vars
  BY <1>1 DEF WindowInv, SizesCollected, SavedLast, HiddenAsSaved, Restorable!FontsScaledOnce,
     Restorable!TypeOK, Restorable!vars
<1>2. CASE Restorable!Hide \/ Restorable!Close
  BY <1>2, HideKeeps DEF Restorable!Hide, Restorable!Close
<1>3. QED
  BY <1>1, <1>2, ShowKeeps, FontKeeps, LifeKeeps, UserKeeps DEF Restorable!Next

\* A window that is shown is taken from what was saved.
LEMMA WindowShows == WindowInv => Restorable!ShowsSaved
<1> SUFFICES ASSUME WindowInv, Restorable!Show
             PROVE  /\ state' = "normal" => place' \in screens
                    /\ last # Unset =>
                         /\ state' = last.state
                         /\ parting' \in {last.parting} \cup last.due
                         /\ state' = "normal" /\ last.place \in screens => place' = last.place
  BY DEF Restorable!ShowsSaved
<1>1. /\ life = "loaded" /\ ~visible /\ parting' = parting
      /\ place' = IF state \notin Restorable!Large /\ store.geometry # Unset
                  THEN Restorable!OntoScreen(store.geometry) ELSE place
      /\ state' = IF state \notin Restorable!Large /\ store.state \in Restorable!Large
                  THEN store.state ELSE state
  BY DEF WindowInv, Restorable!Show, Restorable!OnShow
<1>2. QED
  BY <1>1, WindowAssumption
     DEF WindowInv, SavedLast, HiddenAsSaved, Restorable!OntoScreen, Restorable!Large,
         Restorable!States, Restorable!TypeOK

-----------------------------------------------------------------------------
(* Scroll bars                                                               *)

\* The row of each option is that of the action with its name, and what is stored of
\* the row is what the user wants of the name.
OptionsInv ==
  /\ enabled \in [Bar!Rows -> BOOLEAN] /\ wanted \in [Bar!Names -> BOOLEAN]
  /\ \A i \in Bar!ActionAt : enabled[Bar!RowOf(i)] = wanted[Menu[i]]
  /\ \/ options = <<>>
     \/ /\ options \in [1 .. Cardinality(Bar!ActionAt) -> [name : STRING, checked : BOOLEAN]]
        /\ \A r \in 1 .. Cardinality(Bar!ActionAt) :
             \E i \in Bar!ActionAt : Bar!RowOf(i) = r - 1 /\ options[r].name = Menu[i]

HidingInv ==
  /\ hiding \in BOOLEAN /\ entered \in BOOLEAN /\ cursor \in Bar!Inside \cup Bar!Outside
  /\ timer \in [Bar!Bars -> BOOLEAN] /\ policy \in [Bar!Bars -> {"asNeeded", "alwaysOff"}]
  /\ ~hiding => \A bar \in Bar!Bars : ~timer[bar] /\ policy[bar] = "asNeeded"
  /\ Bar!NoForgottenBar

BarInv == HidingInv /\ OptionsInv

Before(i) == {k \in Bar!ActionAt : k < i}

LEMMA BarCardinality == \A S : Bar!Cardinality(S) = Cardinality(S)
BY DEF Cardinality, Bar!Cardinality

LEMMA ActionsCounted ==
  /\ IsFiniteSet(Bar!ActionAt) /\ Cardinality(Bar!ActionAt) \in Nat
  /\ Bar!ActionAt \subseteq Nat /\ IsFiniteSet(Bar!Rows)
  /\ Cardinality(Bar!Rows) = Cardinality(Bar!ActionAt)
  /\ \A i \in Bar!ActionAt : /\ IsFiniteSet(Before(i)) /\ Bar!RowOf(i) = Cardinality(Before(i))
                             /\ Bar!RowOf(i) \in Bar!Rows
<1>1. Len(Menu) \in Nat /\ DOMAIN Menu = 1 .. Len(Menu)
  BY MenuAssumption, LenProperties
<1>2. IsFiniteSet(1 .. Len(Menu)) /\ Bar!ActionAt \subseteq 1 .. Len(Menu)
  <2>1. IsFiniteSet(1 .. Len(Menu))
    BY <1>1, FS_Interval
  <2>2. QED
    BY <1>1, <2>1 DEF Bar!ActionAt
<1>3. IsFiniteSet(Bar!ActionAt) /\ Cardinality(Bar!ActionAt) \in Nat
  BY <1>2, FS_Subset, FS_CardinalityType
<1>4. IsFiniteSet(Bar!Rows) /\ Cardinality(Bar!Rows) = Cardinality(Bar!ActionAt)
  <2>1. PICK n \in Nat, zero \in Nat : n = Cardinality(Bar!ActionAt) /\ zero = 0
    BY <1>3
  <2>2. /\ n - 1 \in Int /\ (n - 1 < 0 <=> n = 0) /\ n - 1 - 0 + 1 = n
        /\ zero > n - 1 => n = 0
        /\ n - 1 - zero + 1 = n
    BY <2>1
  <2>3. IsFiniteSet(zero .. n - 1) /\ Cardinality(zero .. n - 1) = n
    <3>1. PICK end \in Int : end = n - 1
      BY <2>2
    <3>2. /\ IsFiniteSet(zero .. end)
          /\ Cardinality(zero .. end) = IF zero > end THEN 0 ELSE end - zero + 1
      BY FS_Interval
    <3>3. (IF zero > end THEN 0 ELSE end - zero + 1) = n
      BY <3>1, <2>2
    <3>4. QED
      BY <3>1, <3>2, <3>3
  <2>4. QED
    BY <2>1, <2>3, BarCardinality DEF Bar!Rows
<1>5. ASSUME NEW i \in Bar!ActionAt
      PROVE  /\ IsFiniteSet(Before(i)) /\ Bar!RowOf(i) = Cardinality(Before(i))
             /\ Bar!RowOf(i) \in Bar!Rows
  <2>1. Before(i) \in SUBSET Bar!ActionAt /\ i \notin Before(i) /\ i \in Int
    BY <1>2 DEF Before
  <2>2. IsFiniteSet(Before(i)) /\ Cardinality(Before(i)) \in Nat
        /\ Cardinality(Before(i)) <= Cardinality(Bar!ActionAt)
        /\ Cardinality(Before(i)) # Cardinality(Bar!ActionAt)
    BY <1>3, <2>1, FS_Subset, FS_CardinalityType
  <2>3. Bar!RowOf(i) = Cardinality(Before(i))
    BY BarCardinality DEF Bar!RowOf, Before
  <2>4. Cardinality(Before(i)) \in 0 .. Cardinality(Bar!ActionAt) - 1
    BY <1>3, <2>2
  <2>5. QED
    BY <2>2, <2>3, <2>4, BarCardinality DEF Bar!Rows
<1>6. QED
  BY <1>2, <1>3, <1>4, <1>5

\* Rows number the actions, none of them twice and none left out.
LEMMA RowsNumberActions ==
  /\ \A i, j \in Bar!ActionAt : Bar!RowOf(i) = Bar!RowOf(j) => i = j
  /\ \A r \in Bar!Rows : \E i \in Bar!ActionAt : Bar!RowOf(i) = r
<1>1. ASSUME NEW i \in Bar!ActionAt, NEW j \in Bar!ActionAt, i < j
      PROVE  Bar!RowOf(i) # Bar!RowOf(j)
  <2>1. i \in Int /\ j \in Int
    BY ActionsCounted
  <2>2. Before(i) \in SUBSET Before(j) /\ i \in Before(j) /\ i \notin Before(i)
    <3>1. \A k \in Bar!ActionAt : k < i => k < j
      BY <1>1, <2>1, ActionsCounted
    <3>2. ~(i < i)
      BY <2>1
    <3>3. QED
      BY <1>1, <3>1, <3>2 DEF Before
  <2>3. Cardinality(Before(i)) # Cardinality(Before(j))
    BY <2>2, ActionsCounted, FS_Subset
  <2>4. QED
    BY <2>3, ActionsCounted
<1>2. ASSUME NEW i \in Bar!ActionAt, NEW j \in Bar!ActionAt, Bar!RowOf(i) = Bar!RowOf(j)
      PROVE  i = j
  <2>1. i \in Int /\ j \in Int /\ (i < j \/ j < i \/ i = j)
    BY ActionsCounted
  <2>2. QED
    BY <2>1, <1>1, <1>2
<1> DEFINE row == [i \in Bar!ActionAt |-> Bar!RowOf(i)]
<1>3. row \in Injection(Bar!ActionAt, Bar!Rows)
  BY <1>2, ActionsCounted DEF Injection, IsInjective
<1>4. row \in Surjection(Bar!ActionAt, Bar!Rows)
  BY <1>3, ActionsCounted, FS_Injection
<1>5. QED
  BY <1>2, <1>4 DEF Surjection

LEMMA BarInit == Bar!Init => BarInv
<1> SUFFICES ASSUME Bar!Init PROVE BarInv
  OBVIOUS
<1>1. OptionsInv
  BY ActionsCounted DEF Bar!Init, OptionsInv, Bar!Names
<1>2. HidingInv
  BY DEF Bar!Init, HidingInv, Bar!NoForgottenBar, Bar!Inside, Bar!Outside
<1>3. QED
  BY <1>1, <1>2 DEF BarInv

LEMMA BarsKeep ==
  ASSUME HidingInv, Bar!NextBars
  PROVE  HidingInv'
<1> USE DEF HidingInv, Bar!NoForgottenBar, Bar!Untouched
<1>1. ASSUME NEW there \in Bar!Inside, Bar!Enter(there)
      PROVE  HidingInv'
  BY <1>1 DEF Bar!Enter, Bar!StopTimers, Bar!Inside, Bar!Outside
<1>2. ASSUME NEW there \in Bar!Inside, Bar!MouseMove(there)
      PROVE  HidingInv'
  BY <1>2 DEF Bar!MouseMove, Bar!Inside, Bar!Outside, Bar!PolicyAt, Bar!TimerAt
<1>3. ASSUME NEW there \in Bar!Outside, Bar!Leave(there)
      PROVE  HidingInv'
  BY <1>3 DEF Bar!Leave, Bar!StartTimers
<1>4. ASSUME NEW there \in Bar!Outside, Bar!MoveOutside(there)
      PROVE  HidingInv'
  BY <1>4 DEF Bar!MoveOutside
<1>5. ASSUME NEW bar \in Bar!Bars, Bar!Timeout(bar)
      PROVE  HidingInv'
  BY <1>5 DEF Bar!Timeout, Bar!PolicyAt, Bar!TimerAt
<1>6. QED
  BY <1>1, <1>2, <1>3, <1>4, <1>5 DEF Bar!NextBars

LEMMA ToggleKeeps ==
  ASSUME OptionsInv, NEW row, Bar!Toggle(row)
  PROVE  OptionsInv'
<1> DEFINE checked == ~options[row].checked
<1>1. /\ row \in 1 .. Cardinality(Bar!ActionAt)
      /\ options \in [1 .. Cardinality(Bar!ActionAt) -> [name : STRING, checked : BOOLEAN]]
      /\ \A r \in 1 .. Cardinality(Bar!ActionAt) :
             \E i \in Bar!ActionAt : Bar!RowOf(i) = r - 1 /\ options[r].name = Menu[i]
  <2>1. row \in DOMAIN options
    BY DEF Bar!Toggle
  <2>2. options # <<>>
    BY <2>1
  <2>3. QED
    BY <2>1, <2>2 DEF OptionsInv
<1>2. PICK i \in Bar!ActionAt : Bar!RowOf(i) = row - 1 /\ options[row].name = Menu[i]
  BY <1>1
<1>3. /\ checked \in BOOLEAN
      /\ options' = [options EXCEPT ![row] = [options[row] EXCEPT !.checked = checked]]
      /\ enabled' = [enabled EXCEPT ![Bar!RowOf(i)] = checked]
      /\ wanted'  = [wanted EXCEPT ![Menu[i]] = checked]
  BY <1>1, <1>2 DEF Bar!Toggle
<1>4. /\ options' \in [1 .. Cardinality(Bar!ActionAt) -> [name : STRING, checked : BOOLEAN]]
      /\ \A r \in 1 .. Cardinality(Bar!ActionAt) : options'[r].name = options[r].name
  <2>1. [options[row] EXCEPT !.checked = checked] \in [name : STRING, checked : BOOLEAN]
        /\ [options[row] EXCEPT !.checked = checked].name = options[row].name
    BY <1>1, <1>3
  <2>2. QED
    BY <1>1, <1>3, <2>1
<1>5. enabled' \in [Bar!Rows -> BOOLEAN] /\ wanted' \in [Bar!Names -> BOOLEAN]
  BY <1>3 DEF OptionsInv
<1>6. ASSUME NEW j \in Bar!ActionAt
      PROVE  enabled'[Bar!RowOf(j)] = wanted'[Menu[j]]
  <2>1. /\ Bar!RowOf(j) \in Bar!Rows /\ Menu[j] \in Bar!Names
        /\ enabled \in [Bar!Rows -> BOOLEAN] /\ wanted \in [Bar!Names -> BOOLEAN]
        /\ enabled[Bar!RowOf(j)] = wanted[Menu[j]]
    BY ActionsCounted DEF OptionsInv, Bar!Names
  <2>2. CASE j = i
    BY <1>3, <2>1, <2>2
  <2>3. CASE j # i
    <3>1. Bar!RowOf(j) # Bar!RowOf(i) /\ Menu[j] # Menu[i]
      BY <2>3, RowsNumberActions, MenuAssumption DEF Bar!ActionAt
    <3>2. QED
      BY <1>3, <2>1, <3>1
  <2>4. QED
    BY <2>2, <2>3
<1>7. QED
  BY <1>1, <1>4, <1>5, <1>6 DEF OptionsInv

LEMMA ContextMenuKeeps ==
  ASSUME OptionsInv, Bar!ContextMenu
  PROVE  OptionsInv'
<1> DEFINE n == Cardinality(Bar!ActionAt)
           IsAt(r, i) == Cardinality({k \in Bar!ActionAt : k < i}) = r - 1
           actionOf(r) == CHOOSE i \in Bar!ActionAt : IsAt(r, i)
<1>1. options' = [r \in 1 .. n |-> [name |-> Menu[actionOf(r)], checked |-> Bar!EnabledAt(actionOf(r))]]
  BY BarCardinality DEF Bar!ContextMenu, Bar!Strings
<1>2. ASSUME NEW r \in 1 .. n
      PROVE  actionOf(r) \in Bar!ActionAt /\ Bar!RowOf(actionOf(r)) = r - 1
  <2>1. r - 1 \in Bar!Rows
    BY ActionsCounted, BarCardinality DEF Bar!Rows
  <2>2. PICK i \in Bar!ActionAt : Bar!RowOf(i) = r - 1
    BY <2>1, RowsNumberActions
  <2>3. IsAt(r, i)
    BY <2>2, BarCardinality DEF Bar!RowOf
  <2>4. actionOf(r) \in Bar!ActionAt /\ IsAt(r, actionOf(r))
    BY <2>3
  <2>5. QED
    BY <2>4, BarCardinality DEF Bar!RowOf
<1>3. \A i \in Bar!ActionAt : Menu[i] \in STRING /\ Bar!EnabledAt(i) \in BOOLEAN
  <2>1. \A i \in DOMAIN Menu : Menu[i] \in STRING
    BY MenuAssumption, LenProperties
  <2>2. QED
    BY <2>1, ActionsCounted DEF Bar!EnabledAt, OptionsInv, Bar!ActionAt
<1> HIDE DEF actionOf
<1>4. options' \in [1 .. n -> [name : STRING, checked : BOOLEAN]]
  BY <1>1, <1>2, <1>3
<1>5. \A r \in 1 .. n : options'[r].name = Menu[actionOf(r)]
  BY <1>1
<1>6. UNCHANGED <<enabled, wanted>>
  BY DEF Bar!ContextMenu
<1>7. QED
  BY <1>2, <1>4, <1>5, <1>6 DEF OptionsInv

LEMMA BarStep == BarInv /\ [Bar!Next]_Bar!vars => BarInv'
<1> SUFFICES ASSUME BarInv, [Bar!Next]_Bar!vars PROVE BarInv'
  OBVIOUS
<1> USE DEF BarInv
<1>1. UNCHANGED Bar!bars => HidingInv'
  BY DEF HidingInv, Bar!bars, Bar!NoForgottenBar
<1>2. UNCHANGED Bar!menus => OptionsInv'
  BY DEF OptionsInv, Bar!menus
<1>3. CASE Bar!NextBars /\ UNCHANGED <<Bar!slider, Bar!menus>>
  BY <1>2, <1>3, BarsKeep
<1>4. CASE Bar!NextSlider /\ UNCHANGED <<Bar!bars, Bar!menus>>
  BY <1>1, <1>2, <1>4
<1>5. CASE Bar!NextMenus /\ UNCHANGED <<Bar!bars, Bar!slider>>
  <2>1. Bar!CloseMenus => OptionsInv'
    BY DEF Bar!CloseMenus, OptionsInv
  <2>2. QED
    BY <1>1, <1>5, <2>1, ContextMenuKeeps, ToggleKeeps DEF Bar!NextMenus
<1>6. CASE UNCHANGED Bar!vars
  BY <1>1, <1>2, <1>6 DEF Bar!vars
<1>7. QED
  BY <1>3, <1>4, <1>5, <1>6 DEF Bar!Next

\* The menu is made of what is stored at the rows of its actions.
LEMMA MenuShows == BarInv => Bar!ShowsWanted
<1> SUFFICES ASSUME BarInv, Bar!ContextMenu, NEW i \in Bar!ActionAt
             PROVE  menu'[i] = wanted[Menu[i]]
  BY DEF Bar!ShowsWanted
<1>1. Bar!RowOf(i) \in DOMAIN enabled
  BY ActionsCounted DEF BarInv, OptionsInv
<1>2. menu'[i] = enabled[Bar!RowOf(i)]
  BY <1>1 DEF Bar!ContextMenu, Bar!EnabledAt, Bar!ActionAt
<1>3. QED
  BY <1>2 DEF BarInv, OptionsInv

\* The slider stays between its ends, and an open menu is as long as the standard one.
BarTyped ==
  /\ value \in 0 .. LastPosition /\ recent \in BOOLEAN
  /\ menu = <<>> \/ menu \in [DOMAIN Menu -> BOOLEAN]

LEMMA BarTypedBegin == Bar!Init => BarTyped
<1>1. LastPosition \in Nat
  BY MenuAssumption
<1>2. Bar!Init => value \in {0, LastPosition}
  BY DEF Bar!Init
<1>3. Bar!Init => value \in 0 .. LastPosition
  BY <1>1, <1>2
<1>4. QED
  BY <1>3 DEF Bar!Init, BarTyped

LEMMA SliderMoves ==
  ASSUME value \in 0 .. LastPosition, recent \in BOOLEAN, Bar!NextSlider
  PROVE  value' \in 0 .. LastPosition /\ recent' \in BOOLEAN
<1>1. ASSUME NEW up \in BOOLEAN, NEW control \in BOOLEAN, Bar!ArrowClick(up, control)
      PROVE  value' \in 0 .. LastPosition /\ recent' \in BOOLEAN
  <2>1. \/ value' \in {0, LastPosition, value}
        \/ value # 0 /\ value' = value - 1
        \/ value # LastPosition /\ value' = value + 1
    BY <1>1 DEF Bar!ArrowClick
  <2>2. PICK end \in Nat : end = LastPosition
    BY MenuAssumption
  <2>3. value' \in 0 .. LastPosition
    BY <2>1, <2>2
  <2>4. QED
    BY <1>1, <2>3 DEF Bar!ArrowClick
<1>2. QED
  BY <1>1 DEF Bar!NextSlider, Bar!Wait400

LEMMA BarTypedStep == BarInv /\ BarTyped /\ [Bar!Next]_Bar!vars => BarTyped'
<1> SUFFICES ASSUME BarInv, BarTyped, [Bar!Next]_Bar!vars PROVE BarTyped'
  OBVIOUS
<1>1. UNCHANGED Bar!slider \/ Bar!NextSlider
  BY DEF Bar!Next, Bar!vars
<1>2. value' \in 0 .. LastPosition /\ recent' \in BOOLEAN
  BY <1>1, SliderMoves DEF BarTyped, Bar!slider
<1>3. UNCHANGED Bar!menus \/ Bar!NextMenus
  BY DEF Bar!Next, Bar!vars
<1>4. menu' = <<>> \/ menu' \in [DOMAIN Menu -> BOOLEAN]
  <2>1. CASE UNCHANGED menu
    BY <2>1 DEF BarTyped
  <2>2. CASE Bar!ContextMenu
    <3>1. \A i \in Bar!ActionAt : Bar!EnabledAt(i) \in BOOLEAN
      BY DEF Bar!EnabledAt, BarInv, OptionsInv
    <3>2. QED
      BY <2>2, <3>1 DEF Bar!ContextMenu, Bar!ActionAt
  <2>3. CASE Bar!CloseMenus
    BY <2>3 DEF Bar!CloseMenus
  <2>4. QED
    BY <1>3, <2>1, <2>2, <2>3 DEF Bar!NextMenus, Bar!Toggle, Bar!menus
<1>5. QED
  BY <1>2, <1>4 DEF BarTyped

LEMMA BarTypeShown == BarInv /\ BarTyped => Bar!TypeOK
<1> SUFFICES ASSUME BarInv, BarTyped PROVE Bar!TypeOK
  OBVIOUS
<1>1. Len(<<>>) = 0
  BY EmptySeq
<1>2. Len(menu) \in {0, Len(Menu)}
  <2>1. CASE menu = <<>>
    BY <1>1, <2>1
  <2>2. CASE menu # <<>>
    <3>1. Len(Menu) \in Nat /\ menu \in [1 .. Len(Menu) -> BOOLEAN]
      BY <2>2, MenuAssumption, LenProperties DEF BarTyped
    <3>2. QED
      BY <3>1, SeqDef, LenProperties
  <2>3. QED
    BY <2>1, <2>2
<1>3. Len(options) \in {0, Bar!Cardinality(Bar!ActionAt)}
  <2>1. CASE options = <<>>
    BY <1>1, <2>1
  <2>2. CASE options # <<>>
    <3>1. PICK n \in Nat : n = Cardinality(Bar!ActionAt)
      BY ActionsCounted
    <3>2. options \in [1 .. n -> [name : STRING, checked : BOOLEAN]]
      BY <2>2, <3>1 DEF BarInv, OptionsInv
    <3>3. Len(options) = n
      BY <3>2, SeqDef, LenProperties
    <3>4. QED
      BY <3>1, <3>3, BarCardinality
  <2>3. QED
    BY <2>1, <2>2
<1>4. QED
  BY <1>2, <1>3 DEF BarInv, BarTyped, HidingInv, OptionsInv, Bar!TypeOK

-----------------------------------------------------------------------------
(* Headers                                                                   *)

HeaderInv == Header!TypeOK /\ Header!Grid

LEMMA CellsAre ==
  /\ HeaderRows \in Nat /\ HeaderColumns \in Nat
  /\ \A cell \in Header!Cells : /\ cell = <<cell[1], cell[2]>>
                                /\ cell[1] \in 0 .. HeaderRows - 1
                                /\ cell[2] \in 0 .. HeaderColumns - 1
BY HeaderAssumption DEF Header!Cells

\* Where the sections are.
LEMMA SectionsAre ==
  /\ Header!Horizontal  => Header!Sections = 0 .. HeaderColumns - 1
  /\ ~Header!Horizontal => Header!Sections = 0 .. HeaderRows - 1
BY DEF Header!Sections

LEMMA HeaderBegins == Header!Init => HeaderInv
<1> SUFFICES ASSUME Header!Init PROVE HeaderInv
  OBVIOUS
<1>1. /\ orientation \in {"horizontal", "vertical"}
      /\ rowSpan = <<>> /\ columnSpan = <<>>
      /\ height = [cell \in Header!Cells |-> IF Header!Horizontal THEN LevelSize ELSE DefaultSize]
      /\ width = [cell \in Header!Cells |-> IF Header!Horizontal THEN DefaultSize ELSE LevelSize]
      /\ sectionSize = [s \in Header!Sections |-> DefaultSize]
      /\ spans = 0 /\ resizes = 0
  BY DEF Header!Init
<1>2. Header!TypeOK
  BY <1>1, HeaderAssumption DEF Header!TypeOK
<1>3. Header!Grid
  BY <1>1, CellsAre, SectionsAre DEF Header!Grid
<1>4. QED
  BY <1>2, <1>3 DEF HeaderInv

\* A span of columns is cut where the header ends; one of rows can be anything.
LEMMA SpanFits ==
  ASSUME NEW cell \in Header!Cells, NEW count \in Nat
  PROVE  /\ Header!FittingRows(cell[1], count) \in Int
         /\ count # 0 => Header!FittingColumns(cell[2], count) \in 1 .. HeaderColumns - cell[2]
<1>1. PICK row \in Nat, column \in Nat : row = cell[1] /\ column = cell[2]
  BY CellsAre
<1>2. HeaderRows \in Nat /\ HeaderColumns \in Nat /\ row < HeaderRows /\ column < HeaderColumns
  BY <1>1, CellsAre
<1>3. /\ Header!FittingRows(row, count) \in Int
      /\ count # 0 => Header!FittingColumns(column, count) \in 1 .. HeaderColumns - column
  BY <1>2 DEF Header!FittingRows, Header!FittingColumns
<1>4. QED
  BY <1>1, <1>3

LEMMA SpanSet ==
  ASSUME HeaderInv, NEW cell \in Header!Cells, NEW rowCount \in Nat, NEW columnCount \in Nat,
         Header!SetSpan(cell[1], cell[2], rowCount, columnCount)
  PROVE  HeaderInv'
<1> DEFINE Rowed == Header!With(rowSpan, cell, Header!FittingRows(cell[1], rowCount))
           Columned == Header!With(columnSpan, cell, Header!FittingColumns(cell[2], columnCount))
<1>1. /\ spans < MaxSpans /\ spans' = spans + 1
      /\ rowSpan' = IF rowCount = 0 THEN rowSpan ELSE Rowed
      /\ columnSpan' = IF columnCount = 0 THEN columnSpan ELSE Columned
      /\ UNCHANGED <<orientation, height, width, sectionSize, resizes>>
  BY CellsAre DEF Header!SetSpan
<1>2. Header!Grid'
  BY <1>1 DEF HeaderInv, Header!Grid, Header!Horizontal
<1>3. DOMAIN rowSpan' \subseteq Header!Cells /\ rowSpan' \in [DOMAIN rowSpan' -> Int]
  <2>1. CASE rowCount = 0
    BY <1>1, <2>1 DEF HeaderInv, Header!TypeOK
  <2>2. CASE rowCount # 0
    <3>1. /\ rowSpan' = Rowed /\ DOMAIN Rowed = DOMAIN rowSpan \cup {cell}
          /\ \A c \in DOMAIN Rowed : Rowed[c] \in Int
      BY <1>1, <2>2, SpanFits DEF HeaderInv, Header!TypeOK, Header!With
    <3>2. Rowed \in [DOMAIN Rowed -> Int]
      BY <3>1 DEF Header!With
    <3>3. QED
      BY <3>1, <3>2 DEF HeaderInv, Header!TypeOK
  <2>3. QED
    BY <2>1, <2>2
<1>4. /\ DOMAIN columnSpan' \subseteq Header!Cells
      /\ \A c \in DOMAIN columnSpan' : columnSpan'[c] \in 1 .. HeaderColumns - c[2]
  <2>1. CASE columnCount = 0
    BY <1>1, <2>1 DEF HeaderInv, Header!TypeOK
  <2>2. CASE columnCount # 0
    <3>1. /\ columnSpan' = Columned /\ DOMAIN Columned = DOMAIN columnSpan \cup {cell}
          /\ Header!FittingColumns(cell[2], columnCount) \in 1 .. HeaderColumns - cell[2]
          /\ \A c \in DOMAIN Columned :
               Columned[c] = IF c = cell THEN Header!FittingColumns(cell[2], columnCount)
                                         ELSE columnSpan[c]
      BY <1>1, <2>2, SpanFits DEF Header!With
    <3>2. QED
      BY <3>1 DEF HeaderInv, Header!TypeOK
  <2>3. QED
    BY <2>1, <2>2
<1>5. spans' \in 0 .. MaxSpans
  BY <1>1, HeaderAssumption DEF HeaderInv, Header!TypeOK
<1>6. Header!Sections' = Header!Sections
  BY <1>1 DEF Header!Sections, Header!Horizontal
<1>7. Header!TypeOK'
  BY <1>1, <1>3, <1>4, <1>5, <1>6 DEF HeaderInv, Header!TypeOK
<1>8. QED
  BY <1>2, <1>7 DEF HeaderInv

LEMMA SectionSized ==
  ASSUME HeaderInv, NEW section \in Header!Sections, NEW pixels \in SizeHints,
         Header!Resize, Header!ResizeSection(section, pixels)
  PROVE  HeaderInv'
<1>1. /\ UNCHANGED <<orientation, rowSpan, columnSpan, spans>> /\ resizes' \in 0 .. MaxResizes
      /\ Header!Sections' = Header!Sections /\ Header!Horizontal' = Header!Horizontal
  BY HeaderAssumption DEF Header!Resize, HeaderInv, Header!TypeOK, Header!Sections, Header!Horizontal
<1>2. pixels \in Nat \ {0} /\ sectionSize' = [sectionSize EXCEPT ![section] = pixels]
  BY HeaderAssumption DEF Header!ResizeSection
<1>3. sectionSize' \in [Header!Sections -> Nat \ {0}]
  BY <1>2 DEF HeaderInv, Header!TypeOK
<1>4. CASE Header!Horizontal
  <2>1. /\ width' = [cell \in Header!Cells |-> IF cell[2] = section THEN pixels ELSE width[cell]]
        /\ height' = height
    BY <1>4 DEF Header!ResizeSection
  <2>2. width' \in [Header!Cells -> Nat \ {0}]
    BY <1>2, <2>1 DEF HeaderInv, Header!TypeOK
  <2>3. Header!TypeOK'
    BY <1>1, <1>3, <2>1, <2>2 DEF HeaderInv, Header!TypeOK
  <2>4. Header!Grid'
    BY <1>1, <1>2, <1>4, <2>1, CellsAre, SectionsAre DEF HeaderInv, Header!TypeOK, Header!Grid
  <2>5. QED
    BY <2>3, <2>4 DEF HeaderInv
<1>5. CASE ~Header!Horizontal
  <2>1. /\ height' = [cell \in Header!Cells |-> IF cell[1] = section THEN pixels ELSE height[cell]]
        /\ width' = width
    BY <1>5 DEF Header!ResizeSection
  <2>2. height' \in [Header!Cells -> Nat \ {0}]
    BY <1>2, <2>1 DEF HeaderInv, Header!TypeOK
  <2>3. Header!TypeOK'
    BY <1>1, <1>3, <2>1, <2>2 DEF HeaderInv, Header!TypeOK
  <2>4. Header!Grid'
    BY <1>1, <1>2, <1>5, <2>1, CellsAre, SectionsAre DEF HeaderInv, Header!TypeOK, Header!Grid
  <2>5. QED
    BY <2>3, <2>4 DEF HeaderInv
<1>6. QED
  BY <1>4, <1>5

\* A line of cells across the sections has a size of its own.
LEMMA LineSized ==
  ASSUME HeaderInv, NEW line \in Nat, NEW pixels \in SizeHints, Header!Resize,
         sectionSize' = sectionSize,
         \/ /\ Header!Horizontal /\ width' = width
            /\ height' = [cell \in Header!Cells |-> IF cell[1] = line THEN pixels ELSE height[cell]]
         \/ /\ ~Header!Horizontal /\ height' = height
            /\ width' = [cell \in Header!Cells |-> IF cell[2] = line THEN pixels ELSE width[cell]]
  PROVE  HeaderInv'
<1>1. /\ UNCHANGED <<orientation, rowSpan, columnSpan, spans>> /\ resizes' \in 0 .. MaxResizes
      /\ Header!Sections' = Header!Sections /\ Header!Horizontal' = Header!Horizontal
  BY HeaderAssumption DEF Header!Resize, HeaderInv, Header!TypeOK, Header!Sections, Header!Horizontal
<1>2. pixels \in Nat \ {0}
  BY HeaderAssumption
<1>3. height' \in [Header!Cells -> Nat \ {0}] /\ width' \in [Header!Cells -> Nat \ {0}]
  BY <1>2 DEF HeaderInv, Header!TypeOK
<1>4. Header!TypeOK'
  BY <1>1, <1>3 DEF HeaderInv, Header!TypeOK
<1>5. Header!Grid'
  BY <1>1 DEF HeaderInv, Header!Grid
<1>6. QED
  BY <1>4, <1>5 DEF HeaderInv

LEMMA HeaderStep == HeaderInv /\ [Header!Next]_headerVars => HeaderInv'
<1> SUFFICES ASSUME HeaderInv, [Header!Next]_headerVars PROVE HeaderInv'
  OBVIOUS
<1>1. CASE UNCHANGED headerVars
  <2>1. Header!Sections' = Header!Sections /\ Header!Horizontal' = Header!Horizontal
    BY <1>1 DEF headerVars, Header!Sections, Header!Horizontal
  <2>2. QED
    BY <1>1, <2>1 DEF headerVars, HeaderInv, Header!TypeOK, Header!Grid
<1>2. ASSUME NEW cell \in Header!Cells, NEW rowCount \in RowSpans \cup {0},
             NEW columnCount \in ColumnSpans \cup {0},
             Header!SetSpan(cell[1], cell[2], rowCount, columnCount)
      PROVE  HeaderInv'
  <2>1. rowCount \in Nat /\ columnCount \in Nat
    BY HeaderAssumption
  <2>2. QED
    BY <1>2, <2>1, SpanSet
<1>3. ASSUME NEW cell \in Header!Cells, Header!SetSectionSpan(cell[1], cell[2]) PROVE HeaderInv'
  <2>1. PICK rowCount \in Nat, columnCount \in Nat :
               Header!SetSpan(cell[1], cell[2], rowCount, columnCount)
    BY <1>3, CellsAre DEF Header!SetSectionSpan
  <2>2. QED
    BY <2>1, SpanSet
<1>4. ASSUME NEW pixels \in SizeHints, NEW section \in Header!Sections,
             Header!SectionResized(section, pixels)
      PROVE  HeaderInv'
  BY <1>4, SectionSized DEF Header!SectionResized
<1>5. ASSUME NEW pixels \in SizeHints, NEW row \in 0 .. HeaderRows - 1, Header!SetRowHeight(row, pixels)
      PROVE  HeaderInv'
  <2>1. row \in Nat /\ Header!Resize
    BY <1>5, CellsAre DEF Header!SetRowHeight
  <2>2. CASE Header!Horizontal
    BY <1>5, <2>1, <2>2, LineSized DEF Header!SetRowHeight
  <2>3. CASE ~Header!Horizontal
    BY <1>5, <2>1, <2>3, SectionSized, SectionsAre DEF Header!SetRowHeight
  <2>4. QED
    BY <2>2, <2>3
<1>6. ASSUME NEW pixels \in SizeHints, NEW column \in 0 .. HeaderColumns - 1,
             Header!SetColumnWidth(column, pixels)
      PROVE  HeaderInv'
  <2>1. column \in Nat /\ Header!Resize
    BY <1>6, CellsAre DEF Header!SetColumnWidth
  <2>2. CASE Header!Horizontal
    BY <1>6, <2>1, <2>2, SectionSized, SectionsAre DEF Header!SetColumnWidth
  <2>3. CASE ~Header!Horizontal
    BY <1>6, <2>1, <2>3, LineSized DEF Header!SetColumnWidth
  <2>4. QED
    BY <2>2, <2>3
<1>7. QED
  BY <1>1, <1>2, <1>3, <1>4, <1>5, <1>6 DEF Header!Next

-----------------------------------------------------------------------------
(* Types of the stream adapter, for any client                               *)

StreamTyped == Stream!TypeOK /\ file \in Seq(Int)

LEMMA StreamIs ==
  ASSUME StreamTyped
  PROVE  /\ content \in Seq(Int) /\ file \in Seq(Int) /\ unread \in Seq(Int)
         /\ Len(content) \in Nat /\ Len(file) \in Nat /\ Len(unread) \in Nat
         /\ Len(content) <= Size /\ Len(unread) < BufferSize
         /\ pos \in 0 .. Len(content) /\ at \in 0 .. Len(file)
         /\ careless \in BOOLEAN /\ writes \in 0 .. MaxWrites
         /\ Size \in Nat /\ BufferSize \in Nat \ {0} /\ MaxBlock \in Nat /\ MaxWrites \in Nat
BY LenProperties, StreamAssumption DEF StreamTyped, Stream!TypeOK

LEMMA StreamBegins == Stream!Init => StreamTyped
<1> SUFFICES ASSUME Stream!Init PROVE StreamTyped
  OBVIOUS
<1>1. PICK n \in 0 .. Size : content = [i \in 1 .. n |-> -i]
  BY DEF Stream!Init
<1>2. n \in Nat /\ n <= Size
  BY StreamAssumption
<1>3. content \in [1 .. n -> Int]
  BY <1>1, <1>2
<1>4. content \in Seq(Int) /\ Len(content) = n
  BY <1>2, <1>3, SeqDef, LenProperties
<1>5. unread \in Seq(Int) /\ Len(unread) = 0
  BY EmptySeq DEF Stream!Init
<1>6. file = content /\ pos = 0 /\ at = 0 /\ careless = FALSE /\ writes = 0
  BY DEF Stream!Init
<1>7. /\ Len(content) <= Size /\ pos \in 0 .. Len(content) /\ Len(unread) < BufferSize
      /\ at \in 0 .. Len(file) /\ writes \in 0 .. MaxWrites
  <2>1. MaxWrites \in Nat /\ BufferSize \in Nat \ {0} /\ Len(file) = n
    BY <1>4, <1>6, StreamAssumption
  <2>2. pos = 0 /\ at = 0 /\ writes = 0
    BY <1>6
  <2>3. QED
    BY <1>2, <1>4, <1>5, <2>1, <2>2
<1>8. careless \in BOOLEAN /\ file \in Seq(Int)
  BY <1>4, <1>6
<1>9. QED
  BY <1>4, <1>5, <1>7, <1>8 DEF StreamTyped, Stream!TypeOK

\* A block ends where the bytes end at the latest.
LEMMA BlockEnds ==
  ASSUME NEW bytes \in Seq(Int), NEW from \in 0 .. Len(bytes), NEW n \in Nat
  PROVE  /\ Stream!Block(bytes, from, n) \in Seq(Int)
         /\ Len(Stream!Block(bytes, from, n)) \in 0 .. n
         /\ from + Len(Stream!Block(bytes, from, n)) \in 0 .. Len(bytes)
<1>1. /\ Stream!Block(bytes, from, n) \in Seq(Int)
      /\ Len(Stream!Block(bytes, from, n)) = IF from + n <= Len(bytes) THEN n ELSE Len(bytes) - from
  BY BlockProperties
<1>2. Len(bytes) \in Nat
  BY LenProperties
<1>3. QED
  BY <1>1, <1>2

LEMMA StreamMoves ==
  ASSUME StreamTyped, UNCHANGED <<content, file, writes>>, careless' \in BOOLEAN,
         pos' \in 0 .. Len(content), at' \in 0 .. Len(file),
         unread' \in Seq(Int), Len(unread') < BufferSize
  PROVE  StreamTyped'
BY DEF StreamTyped, Stream!TypeOK

LEMMA MixingBoolean == ASSUME StreamTyped, Stream!Mixing PROVE careless' \in BOOLEAN
BY DEF StreamTyped, Stream!TypeOK, Stream!Mixing

LEMMA BlockRead ==
  ASSUME StreamTyped, NEW n \in 1 .. MaxBlock, Stream!Read(n)
  PROVE  StreamTyped'
<1>1. n \in Nat
  BY StreamIs
<1>2. pos' \in 0 .. Len(content) /\ at' \in 0 .. Len(file)
  BY <1>1, StreamIs, BlockEnds DEF Stream!Read
<1>3. QED
  BY <1>2, StreamIs, MixingBoolean, StreamMoves DEF Stream!Read

LEMMA BlockWritten ==
  ASSUME StreamTyped, NEW n \in 1 .. MaxBlock, Stream!Write(n)
  PROVE  StreamTyped'
<1> DEFINE new == [i \in 1 .. n |-> writes + 1]
<1>1. n \in Nat /\ writes + 1 \in Int
  BY StreamIs
<1>2. new \in [1 .. n -> Int]
  BY <1>1
<1>3. new \in Seq(Int) /\ Len(new) = n
  BY <1>1, <1>2, SeqDef, LenProperties
<1>4. /\ writes < MaxWrites /\ writes' = writes + 1 /\ pos + n <= Size /\ at + n <= Size
      /\ content' = Stream!Overwritten(content, pos, new) /\ pos' = pos + n
      /\ file' = Stream!Overwritten(file, at, new) /\ at' = at + n
      /\ Stream!Mixing /\ unread' = unread
  BY DEF Stream!Write
<1> HIDE DEF new
<1>5. /\ content' \in Seq(Int) /\ Len(content') >= pos + n /\ Len(content') \in {Len(content), pos + n}
      /\ file' \in Seq(Int) /\ Len(file') >= at + n
  BY <1>3, <1>4, StreamIs, OverwrittenProperties
<1>6. Len(content') \in Nat /\ Len(file') \in Nat
  BY <1>5, LenProperties
<1>7. pos' \in 0 .. Len(content') /\ at' \in 0 .. Len(file') /\ Len(content') <= Size
  <2>1. /\ pos \in Nat /\ at \in Nat /\ Len(content) \in Nat /\ Len(content) <= Size
        /\ Size \in Nat
    BY StreamIs
  <2>2. pos' = pos + n /\ at' = at + n /\ pos + n <= Size
    BY <1>4
  <2>3. QED
    BY <1>1, <1>5, <1>6, <2>1, <2>2
<1>8. writes' \in 0 .. MaxWrites /\ careless' \in BOOLEAN
  BY <1>4, StreamIs, MixingBoolean
<1>9. QED
  BY <1>4, <1>5, <1>7, <1>8, StreamIs DEF StreamTyped, Stream!TypeOK

LEMMA StreamSought ==
  ASSUME StreamTyped, NEW to \in Int, NEW expected \in Int,
         Stream!Seek(to, expected), careless' \in BOOLEAN
  PROVE  StreamTyped'
<1>1. /\ to <= Size /\ expected <= Size /\ UNCHANGED <<unread, writes>>
      /\ content' = Stream!Grown(content, to) /\ pos' = IF to >= 0 THEN to ELSE pos
      /\ file' = Stream!Grown(file, expected) /\ at' = IF expected >= 0 THEN expected ELSE at
  BY DEF Stream!Seek
<1>2. /\ content' \in Seq(Int) /\ Len(content') = IF Len(content) >= to THEN Len(content) ELSE to
      /\ file' \in Seq(Int) /\ Len(file') = IF Len(file) >= expected THEN Len(file) ELSE expected
  BY <1>1, StreamIs, GrownProperties
<1>3. pos' \in 0 .. Len(content') /\ at' \in 0 .. Len(file') /\ Len(content') <= Size
  <2>1. /\ pos \in Int /\ 0 <= pos /\ pos <= Len(content) /\ Len(content) \in Int
        /\ at \in Int /\ 0 <= at /\ at <= Len(file) /\ Len(file) \in Int
        /\ Len(content) <= Size
    BY StreamIs
  <2>2. pos' \in 0 .. Len(content')
    BY <1>1, <1>2, <2>1
  <2>3. at' \in 0 .. Len(file')
    BY <1>1, <1>2, <2>1
  <2>4. Len(content') <= Size
    BY <1>1, <1>2, <2>1
  <2>5. QED
    BY <2>2, <2>3, <2>4
<1>4. /\ unread' \in Seq(Int) /\ Len(unread') < BufferSize /\ writes' \in 0 .. MaxWrites
  BY <1>1, StreamIs
<1>5. QED
  BY <1>2, <1>3, <1>4 DEF StreamTyped, Stream!TypeOK

LEMMA CharacterRead == ASSUME StreamTyped, Stream!Get PROVE StreamTyped'
<1> DEFINE buffer == IF unread = <<>> THEN Stream!Block(content, pos, BufferSize) ELSE unread
<1>1. /\ pos' = IF unread = <<>> THEN pos + Len(buffer) ELSE pos
      /\ unread' = IF buffer = <<>> THEN <<>> ELSE Tail(buffer)
      /\ at' = at + Len(Stream!Block(file, at, 1))
      /\ UNCHANGED <<content, file, careless, writes>>
  BY DEF Stream!Get
<1>2. /\ Stream!Block(content, pos, BufferSize) \in Seq(Int)
      /\ Len(Stream!Block(content, pos, BufferSize)) \in 0 .. BufferSize
      /\ pos + Len(Stream!Block(content, pos, BufferSize)) \in 0 .. Len(content)
  BY StreamIs, BlockEnds
<1>3. /\ buffer \in Seq(Int) /\ Len(buffer) \in Nat /\ Len(buffer) <= BufferSize
      /\ (IF unread = <<>> THEN pos + Len(buffer) ELSE pos) \in 0 .. Len(content)
  BY <1>2, StreamIs
<1> HIDE DEF buffer
<1>4. pos' \in 0 .. Len(content)
  BY <1>1, <1>3
<1>5. at' \in 0 .. Len(file)
  <2>1. PICK n \in Nat : n = 1
    OBVIOUS
  <2>2. at + Len(Stream!Block(file, at, n)) \in 0 .. Len(file)
    BY StreamIs, BlockEnds
  <2>3. QED
    BY <1>1, <2>1, <2>2
<1>6. unread' \in Seq(Int) /\ Len(unread') < BufferSize
  <2>1. CASE buffer = <<>>
    <3>1. <<>> \in Seq(Int) /\ Len(<<>>) = 0
      BY EmptySeq
    <3>2. QED
      BY <1>1, <2>1, <3>1, StreamIs
  <2>2. CASE buffer # <<>>
    <3>1. Tail(buffer) \in Seq(Int) /\ Len(Tail(buffer)) = Len(buffer) - 1
      BY <1>3, <2>2, HeadTailProperties
    <3>2. QED
      BY <1>1, <1>3, <2>2, <3>1, StreamIs
  <2>3. QED
    BY <2>1, <2>2
<1>7. QED
  BY <1>1, <1>4, <1>5, <1>6, StreamIs, StreamMoves

LEMMA StreamTypedStep == StreamTyped /\ [Stream!Next]_Stream!vars => StreamTyped'
<1> SUFFICES ASSUME StreamTyped, [Stream!Next]_Stream!vars PROVE StreamTyped'
  OBVIOUS
<1>1. ASSUME NEW off \in 0 .. Size, Stream!SeekBegin(off) PROVE StreamTyped'
  BY <1>1, StreamIs, MixingBoolean, StreamSought DEF Stream!SeekBegin
<1>2. ASSUME NEW off \in -MaxBlock .. MaxBlock, Stream!SeekCurrent(off) PROVE StreamTyped'
  <2>1. pos + off \in Int /\ at + off \in Int
    BY StreamIs
  <2>2. QED
    BY <1>2, <2>1, MixingBoolean, StreamSought DEF Stream!SeekCurrent, Stream!FromHere
<1>3. ASSUME NEW off \in -1 .. 0, Stream!SeekEnd(off) PROVE StreamTyped'
  <2>1. careless' \in BOOLEAN
    BY <1>3, StreamIs DEF Stream!SeekEnd
  <2>2. Len(content) - off \in Int /\ Len(file) + off \in Int
    BY StreamIs
  <2>3. QED
    BY <1>3, <2>1, <2>2, StreamSought DEF Stream!SeekEnd
<1>4. CASE UNCHANGED Stream!vars
  BY <1>4 DEF Stream!vars, StreamTyped, Stream!TypeOK
<1>5. QED
  BY <1>1, <1>2, <1>3, <1>4, BlockRead, BlockWritten, CharacterRead DEF Stream!Next

-----------------------------------------------------------------------------
(* Types of the settings files, while Copy() is where FilesInv says          *)

Holds(kept) == \A e \in DOMAIN kept : kept[e] \in FileValues

LEMMA HoldsIs == \A kept : Holds(kept) <=> Files!Range(kept) \subseteq FileValues
BY DEF Holds, Files!Range

FilesTyped ==
  /\ Holds(base) /\ Holds(file) /\ Holds(source) /\ Holds(target)
  /\ copying = "" => frames = <<>>
  /\ DOMAIN replacement \subseteq Replaced /\ calls \in 0 .. FileCalls

LEMMA EmptyHolds == Holds(<<>>) /\ DOMAIN <<>> = {}
<1>1. DOMAIN <<>> = {}
  BY EmptySeq, LenProperties
<1>2. QED
  BY <1>1 DEF Holds

LEMMA StoredHolds ==
  ASSUME NEW kept, Holds(kept), NEW at1, NEW key, NEW new \in FileValues
  PROVE  Holds(Files!Stored(kept, at1, key, new))
BY DEF Holds, Files!Stored

LEMMA WithoutHolds ==
  ASSUME NEW kept, Holds(kept), NEW at1, NEW key
  PROVE  Holds(Files!Without(kept, at1, key))
BY DEF Holds, Files!Without, Files!Restrict

LEMMA FilesTypedBegin == Files!Init => FilesTyped
<1>1. 0 \in 0 .. FileCalls
  BY FilesAssumption
<1>2. Files!Init => calls = 0 /\ DOMAIN replacement \subseteq Replaced
  BY DEF Files!Init
<1>3. QED
  BY <1>1, <1>2, EmptyHolds DEF Files!Init, FilesTyped, Holds

LEMMA OneMoreCall ==
  ASSUME FilesTyped, calls < FileCalls, calls' = calls + 1
  PROVE  calls' \in 0 .. FileCalls
<1>1. calls \in 0 .. FileCalls
  BY DEF FilesTyped
<1>2. QED
  BY <1>1, FilesAssumption

LEMMA ValueCopied ==
  ASSUME FilesInv, FilesTyped, NEW key \in FileKeys, Files!CopyKey(key)
  PROVE  FilesTyped'
<1>1. copying \in {"save", "load"} /\ copying # "" /\ InCopy
  BY DEF FilesInv, Files!CopyKey, Files!Idle
<1>2. key \in frames[Len(frames)].keys
  BY DEF Files!CopyKey, Files!Last
<1>3. IF copying = "save" THEN <<path, key>> \in DOMAIN base ELSE <<filePath, key>> \in DOMAIN file
  <2>1. <<From \o filePath, key>> \in DOMAIN source
    BY <1>1, <1>2 DEF InCopy
  <2>2. From \o filePath = IF copying = "save" THEN path ELSE filePath
    BY <1>1, BothPlaces
  <2>3. QED
    BY <1>1, <2>1, <2>2 DEF InCopy
<1>4. Holds(base') /\ Holds(file')
  <2>1. CASE copying = "save"
    BY <1>3, <2>1, StoredHolds DEF FilesTyped, Holds, Files!CopyKey
  <2>2. CASE copying # "save"
    BY <1>3, <2>2, StoredHolds DEF FilesTyped, Holds, Files!CopyKey
  <2>3. QED
    BY <2>1, <2>2
<1>5. UNCHANGED <<replacement, copying, source, target, calls>>
  BY DEF Files!CopyKey
<1>6. QED
  BY <1>1, <1>4, <1>5 DEF FilesTyped, Holds

LEMMA FilesTypedStep == FilesInv /\ FilesTyped /\ [Files!Next]_Files!vars => FilesTyped'
<1> SUFFICES ASSUME FilesInv, FilesTyped, [Files!Next]_Files!vars PROVE FilesTyped'
  OBVIOUS
<1> USE DEF FilesTyped
<1>1. ASSUME NEW g, Files!BeginGroup(g) PROVE FilesTyped'
  BY <1>1 DEF Files!BeginGroup, Holds
<1>2. ASSUME NEW g, Files!EnterGroup(g) PROVE FilesTyped'
  BY <1>2 DEF Files!EnterGroup, Files!Idle, Holds
<1>3. CASE Files!EndGroup
  BY <1>3 DEF Files!EndGroup, Holds
<1>4. ASSUME NEW key, NEW new \in FileValues, NEW decorated, Files!Set(key, new, decorated)
      PROVE  FilesTyped'
  <2>1. Holds(base') /\ DOMAIN replacement' \subseteq Replaced
    BY <1>4, StoredHolds DEF Files!Set
  <2>2. QED
    BY <1>4, <2>1, OneMoreCall DEF Files!Set, Files!Idle, Holds
<1>5. ASSUME NEW key, NEW decorated, Files!Removing(key, decorated) PROVE FilesTyped'
  <2>1. Holds(base') /\ DOMAIN replacement' \subseteq Replaced
    BY <1>5, WithoutHolds DEF Files!Removing, Files!Restrict
  <2>2. QED
    BY <1>5, <2>1, OneMoreCall DEF Files!Removing, Files!Idle, Holds
<1>6. CASE Files!Save
  BY <1>6, EmptyHolds, OneMoreCall DEF Files!Save, Holds
<1>7. CASE Files!Load
  BY <1>7, OneMoreCall DEF Files!Load, Holds
<1>8. CASE Files!LeaveGroup
  BY <1>8 DEF Files!LeaveGroup, Files!Idle, Holds
<1>9. CASE Files!Copied
  BY <1>9, EmptyHolds DEF Files!Copied, Holds
<1>10. CASE UNCHANGED Files!vars
  BY <1>10 DEF Files!vars, Holds
<1>11. QED
  BY <1>1, <1>2, <1>3, <1>4, <1>5, <1>6, <1>7, <1>8, <1>9, <1>10, ValueCopied DEF Files!Next

LEMMA FilesTypeShown == FilesInv /\ FilesTyped => Files!TypeOK
<1> SUFFICES ASSUME FilesInv, FilesTyped PROVE Files!TypeOK
  OBVIOUS
<1>1. copying # "" => frames # <<>>
  <2>1. SUFFICES ASSUME InCopy PROVE frames # <<>>
    BY DEF FilesInv
  <2>2. PICK n \in Nat : Len(frames) = n + 1
    BY <2>1, FramesTyped
  <2>3. Len(frames) # 0
    BY <2>2
  <2>4. QED
    BY <2>3, EmptySeq
<1>2. copying \in {"", "save", "load"} /\ (copying = "" <=> frames = <<>>)
  BY <1>1 DEF FilesInv, FilesTyped
<1>3. \A kept \in {base, file, source, target} : Files!Range(kept) \subseteq FileValues
  BY HoldsIs DEF FilesTyped
<1>4. QED
  BY <1>2, <1>3 DEF FilesTyped, Files!TypeOK

-----------------------------------------------------------------------------
(* The program                                                               *)

\* The invariant of the component picked.
PartInv ==
  /\ part = "settings"  => SettingsInv
  /\ part = "observers" => RegistryInv
  /\ part = "objects"   => ConnectorInv
  /\ part = "window"    => WindowInv
  /\ part = "bar"       => BarInv /\ BarTyped
  /\ part = "header"    => HeaderInv
  /\ part = "stream"    => StreamTyped
  /\ part = "files"     => FilesTyped

LEMMA PartInitHolds == PartInit => PartInv
BY SettingsInit, RegistryInit, ConnectorInit, WindowInit, BarInit, BarTypedBegin, HeaderBegins,
   StreamBegins, FilesTypedBegin DEF PartInit, PartInv

\* One component makes steps, and no step picks another; those of the stream and of the
\* settings files are among the steps of the helpers.
PickedSteps ==
  /\ part' = part
  /\ part = "settings"  => [Next]_vars
  /\ part = "observers" => [Registry!Next]_observerVars
  /\ part = "objects"   => [Connector!Next]_objectVars
  /\ part = "window"    => [Restorable!Next]_Restorable!vars
  /\ part = "bar"       => [Bar!Next]_Bar!vars
  /\ part = "header"    => [Header!Next]_headerVars

LEMMA PartSteps == [PartNext]_partVars => PickedSteps
<1> SUFFICES ASSUME [PartNext]_partVars PROVE PickedSteps
  OBVIOUS
<1>1. UNCHANGED partVars => PickedSteps
  BY DEF PickedSteps, partVars, sharedVars, settingsOnly, vars, observerVars, objectVars,
     windowOnly, Restorable!vars, barVars, Bar!vars, Bar!bars, Bar!slider, Bar!menus, headerVars
<1>2. CASE PartNext
  <2>1. part' = part
    BY <1>2 DEF PartNext, partVars, OthersSettings, OthersHeader, OthersRestorable, OthersBar,
       OthersRegistry, OthersConnector, OthersStream, OthersSequence, OthersFiles, OthersOrder,
       OthersSync, OthersCounter, OthersPlatform, OthersDjvu
  <2>2. /\ part = "settings"  => Next
        /\ part = "observers" => Registry!Next \/ UNCHANGED partVars
        /\ part = "objects"   => Connector!Next \/ UNCHANGED partVars
        /\ part = "window"    => Restorable!Next \/ UNCHANGED partVars
        /\ part = "bar"       => Bar!Next \/ UNCHANGED partVars
        /\ part = "header"    => Header!Next \/ UNCHANGED partVars
    BY <1>2 DEF PartNext
  <2>3. CASE UNCHANGED partVars
    BY <1>1, <2>3
  <2>4. CASE ~UNCHANGED partVars
    BY <2>1, <2>2, <2>4 DEF PickedSteps
  <2>5. QED
    BY <2>3, <2>4
<1>3. QED
  BY <1>1, <1>2

\* That only groups of the file are entered is an invariant of the settings files.
LEMMA PartInvAlways == PartSpec => []PartInv
<1>1. PartInv /\ HelpersInv /\ [PartNext]_partVars => PartInv'
  <2>1. PartInv /\ HelpersInv /\ PickedSteps /\ PickedHelpers => PartInv'
    BY SettingsStep, RegistryStep, ConnectorStep, WindowStep, BarStep, BarTypedStep, HeaderStep,
       StreamTypedStep, FilesTypedStep DEF PartInv, HelpersInv, PickedSteps, PickedHelpers
  <2>2. QED
    BY <2>1, PartSteps, HelperSteps
<1>2. QED
  BY <1>1, PartInitHolds, HelpersInvAlways, PTL DEF PartSpec

\* What two sides keep of one thing agrees, in every behaviour of the program: for any
\* threads, groups and bounds of the settings, any observables, observers and nesting,
\* and any objects, IDs and offers.
THEOREM BothSidesAgreeAlways == PartSpec => []BothSidesAgree
<1>1. PartInv => BothSidesAgree
  BY RegistryInvAgrees, ConnectorInvWires DEF PartInv, SettingsInv, BothSidesAgree
<1>2. QED
  BY <1>1, PartInvAlways, PTL

\* Windows come back as they were saved, whenever they are shown, with their fonts
\* scaled once; no bar that should hide is forgotten, and the context menu shows what
\* the user wants to see of it: for any widgets, sizes, places, splitters and menus.
THEOREM GuiRestoredAlways == PartSpec => GuiRestored
<1>1. PartInv => /\ part = "window" => Restorable!FontsScaledOnce
                 /\ part = "bar"    => Bar!NoForgottenBar
  BY DEF PartInv, WindowInv, BarInv, HidingInv
<1>2. PartInv /\ [PartNext]_partVars =>
        /\ [part = "window" => Restorable!ShowsSaved]_partVars
        /\ [part = "bar" => Bar!ShowsWanted]_partVars
  BY WindowShows, MenuShows DEF PartInv
<1>3. PartSpec => [][PartNext]_partVars
  BY PTL DEF PartSpec
<1>4. QED
  BY <1>1, <1>2, <1>3, PartInvAlways, PTL DEF GuiRestored

\* Every component keeps its types, in every behaviour of the program: the mutex of the
\* settings its one owner, a header a size for every cell and a stream its device where
\* its buffer ends; for any bounds and any header.
THEOREM PartTypeCorrect == PartSpec => []PartTypeOK
<1>1. PartInv /\ HelpersInv => PartTypeOK
  BY RegistryTypes, ConnectorInvTyped, BarTypeShown, FilesTypeShown
     DEF PartInv, HelpersInv, SettingsInv, RegistryInv, WindowInv, HeaderInv, StreamTyped,
         PartTypeOK
<1>2. QED
  BY <1>1, PartInvAlways, HelpersInvAlways, PTL

\* The sizes a header reports form a grid: the cells of a line have the size of the line
\* and those of a section the size of the section, whatever is merged, resized by the
\* user or set by the program, see setRowHeight(), setColumnWidth() and
\* onSectionResized() of MultiHeaderView.cpp.
THEOREM HeaderGridAlways == PartSpec => [](part = "header" => Header!Grid)
<1>1. PartInv => (part = "header" => Header!Grid)
  BY DEF PartInv, HeaderInv
<1>2. QED
  BY <1>1, PartInvAlways, PTL
=============================================================================
