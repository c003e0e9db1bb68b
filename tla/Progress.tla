-------------------------------- MODULE Progress --------------------------------
(* util/progress.cpp: a progress that several threads increment. An item without *)
(* a comment is logged when the percentage has changed, one with a comment       *)
(* always. The totals are positive, and so are the increments.                   *)
EXTENDS Integers, Sequences, SequencesExt

CONSTANTS Threads, Steps,   \* the increments a thread may make
          total,            \* m_total
          MaxCount          \* bound: what is counted, which may be more than the total

VARIABLES m_count, m_currentPct,
          pc,       \* what a thread is at: "out", "compare" or "leave"
          pct,      \* currentPct of Increment()
          logged    \* the percentages logged

vars == <<m_count, m_currentPct, pc, pct, logged>>

Percent(count) == (count * 100) \div total

Init ==
  /\ m_count = 0 /\ m_currentPct = 0 /\ logged = <<>>
  /\ pc = [t \in Threads |-> "out"] /\ pct = [t \in Threads |-> 0]

Increment(t, value) ==
  /\ pc[t] = "out" /\ m_count + value <= MaxCount
  /\ m_count' = m_count + value
  /\ pct' = [pct EXCEPT ![t] = Percent(m_count')]
  /\ pc' = [pc EXCEPT ![t] = "compare"]
  /\ UNCHANGED <<m_currentPct, logged>>

Log(t, commented) ==
  /\ pc[t] = "compare"
  /\ logged' = IF commented \/ m_currentPct # pct[t] THEN Append(logged, pct[t]) ELSE logged
  /\ pc' = [pc EXCEPT ![t] = "leave"]
  /\ UNCHANGED <<m_count, m_currentPct, pct>>

\* The guard of Increment() runs last.
Leave(t) ==
  /\ pc[t] = "leave"
  /\ m_currentPct' = pct[t]
  /\ pc' = [pc EXCEPT ![t] = "out"]
  /\ UNCHANGED <<m_count, pct, logged>>

Next ==
  \E t \in Threads :
    \/ \E value \in Steps : Increment(t, value)
    \/ \E commented \in BOOLEAN : Log(t, commented)
    \/ Leave(t)

-----------------------------------------------------------------------------
(* Properties                                                                *)

\* Once everybody is out of Increment(), no item is lost and the last percentage
\* has been logged, though a slower thread may have logged an earlier one after it.
EndIsTold ==
  (\A t \in Threads : pc[t] = "out") /\ m_count > 0 /\ Percent(m_count) > 0
    => Percent(m_count) \in Range(logged)
=============================================================================
