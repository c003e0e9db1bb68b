------------------------------ MODULE XmlPlatform ------------------------------
(* util/xml/Initializer.cpp: whoever uses Xerces holds an XMLPlatformInitializer; *)
(* the first one initializes the library and the last one terminates it. Parsers  *)
(* and validators come and go in any threads.                                     *)
EXTENDS Integers

CONSTANTS Users   \* the parsers and validators, each in a thread of its own

VARIABLES g_counter,
          guard,     \* g_xercescGuard: its owner, or "none"
          platform,  \* Initialize() less Terminate()
          user       \* user -> "gone", "coming", "counted", "there", "going", "discounted"

vars == <<g_counter, guard, platform, user>>

Init ==
  /\ g_counter = 0 /\ guard = "none" /\ platform = 0
  /\ user = [u \in Users |-> "gone"]

Lock(u) ==
  /\ guard = "none" /\ user[u] \in {"gone", "there"}
  /\ guard' = u
  /\ user' = [user EXCEPT ![u] = IF @ = "gone" THEN "coming" ELSE "going"]
  /\ UNCHANGED <<g_counter, platform>>

\* The two operators of the counter; another thread sees the counter changed
\* before the library is.
Count(u) ==
  /\ user[u] = "coming"
  /\ g_counter' = g_counter + 1
  /\ user' = [user EXCEPT ![u] = "counted"]
  /\ UNCHANGED <<guard, platform>>

Discount(u) ==
  /\ user[u] = "going"
  /\ g_counter' = g_counter - 1
  /\ user' = [user EXCEPT ![u] = "discounted"]
  /\ UNCHANGED <<guard, platform>>

Initialize(u) ==
  /\ user[u] = "counted"
  /\ platform' = IF g_counter = 1 THEN platform + 1 ELSE platform
  /\ guard' = "none"
  /\ user' = [user EXCEPT ![u] = "there"]
  /\ UNCHANGED g_counter

Terminate(u) ==
  /\ user[u] = "discounted"
  /\ platform' = IF g_counter = 0 THEN platform - 1 ELSE platform
  /\ guard' = "none"
  /\ user' = [user EXCEPT ![u] = "gone"]
  /\ UNCHANGED g_counter

Next == \E u \in Users : Lock(u) \/ Count(u) \/ Discount(u) \/ Initialize(u) \/ Terminate(u)

-----------------------------------------------------------------------------
(* Properties                                                                *)

\* Xerces is initialized while somebody has a parser, once, and is terminated
\* when nobody has one or is about to.
PlatformInUse ==
  /\ platform \in {0, 1}
  /\ (\E u \in Users : user[u] = "there") => platform = 1
  /\ (\A u \in Users : user[u] = "gone") => platform = 0
=============================================================================
