--------------------------- MODULE ObjectsConnector ---------------------------
(***************************************************************************)
(* util/ObjectsConnector.cpp: objects offer signals and slots under an ID,   *)
(* before or after those they are to be connected with.  Qt is external: it  *)
(* keeps a connection once (Qt::UniqueConnection) and drops it with either   *)
(* object.  A signal or a slot stands for the object and the name of it; the *)
(* lists of them are bags, since their order decides nothing.                *)
(*                                                                         *)
(* The assertions are guards: nobody is connected with himself, and no       *)
(* signal is offered to a slot that it is connected with already.            *)
(***************************************************************************)
EXTENDS Naturals, Bags, Functions

CONSTANTS Objects, IDs,
          Signals, Slots,
          Owner(_),       \* the object of a signal or slot
          MaxOffers       \* bound: signals or slots offered under one ID

VARIABLES living,      \* the objects that have not been destroyed
          g_signals,   \* the signals offered under an ID
          g_slots,
          wired,       \* the connections
          severed      \* history: connections that the withdrawal from another ID cut

vars == <<living, g_signals, g_slots, wired, severed>>

\* connect() succeeds for each of these counterparts.
CanConnect(one, others, pairs) ==
  /\ \A other \in BagToSet(others) : others[other] = 1 /\ Owner(other) # Owner(one)
  /\ pairs \cap wired = {}

\* list::remove() takes all that are equal.
Without(list, one) == Restrict(list, DOMAIN list \ {one})

-----------------------------------------------------------------------------

registerEmitter(ID, signal) ==
  LET new == {signal} \X BagToSet(g_slots[ID]) IN
  /\ Owner(signal) \in living /\ BagCardinality(g_signals[ID]) < MaxOffers
  /\ CanConnect(signal, g_slots[ID], new)
  /\ wired' = wired \cup new
  /\ g_signals' = [g_signals EXCEPT ![ID] = @ (+) SetToBag({signal})]
  /\ UNCHANGED <<living, g_slots, severed>>

registerReceiver(ID, slot) ==
  LET new == BagToSet(g_signals[ID]) \X {slot} IN
  /\ Owner(slot) \in living /\ BagCardinality(g_slots[ID]) < MaxOffers
  /\ CanConnect(slot, g_signals[ID], new)
  /\ wired' = wired \cup new
  /\ g_slots' = [g_slots EXCEPT ![ID] = @ (+) SetToBag({slot})]
  /\ UNCHANGED <<living, g_signals, severed>>

\* Whether the signal is offered under this ID is not asked: the connections with
\* all slots of the ID are cut, those too that another ID stands for.
unregisterEmitter(ID, signal) ==
  LET cut == {signal} \X BagToSet(g_slots[ID]) IN
  /\ Owner(signal) \in living
  /\ \A slot \in BagToSet(g_slots[ID]) : Owner(slot) # Owner(signal)
  /\ wired' = wired \ cut
  /\ severed' = severed \cup IF BagIn(signal, g_signals[ID]) THEN {} ELSE wired \cap cut
  /\ g_signals' = [g_signals EXCEPT ![ID] = Without(@, signal)]
  /\ UNCHANGED <<living, g_slots>>

unregisterReceiver(ID, slot) ==
  LET cut == BagToSet(g_signals[ID]) \X {slot} IN
  /\ Owner(slot) \in living
  /\ \A signal \in BagToSet(g_signals[ID]) : Owner(slot) # Owner(signal)
  /\ wired' = wired \ cut
  /\ severed' = severed \cup IF BagIn(slot, g_slots[ID]) THEN {} ELSE wired \cap cut
  /\ g_slots' = [g_slots EXCEPT ![ID] = Without(@, slot)]
  /\ UNCHANGED <<living, g_signals>>

\* The handlers of `destroyed' that registerMetaType() has connected.
Forgotten(offers, object) ==
  [ID \in IDs |-> Restrict(offers[ID], {one \in DOMAIN offers[ID] : Owner(one) # object})]

Destroy(object) ==
  /\ object \in living
  /\ living' = living \ {object}
  /\ g_signals' = Forgotten(g_signals, object)
  /\ g_slots' = Forgotten(g_slots, object)
  /\ wired' = {w \in wired : object \notin {Owner(w[1]), Owner(w[2])}}
  /\ UNCHANGED severed

Init ==
  /\ living = Objects
  /\ g_signals = [ID \in IDs |-> EmptyBag] /\ g_slots = [ID \in IDs |-> EmptyBag]
  /\ wired = {} /\ severed = {}

Next ==
  \/ \E ID \in IDs, signal \in Signals : registerEmitter(ID, signal) \/ unregisterEmitter(ID, signal)
  \/ \E ID \in IDs, slot \in Slots : registerReceiver(ID, slot) \/ unregisterReceiver(ID, slot)
  \/ \E object \in Objects : Destroy(object)

-----------------------------------------------------------------------------
(* Properties                                                                *)

TypeOK ==
  /\ living \subseteq Objects /\ wired \subseteq Signals \X Slots /\ severed \subseteq Signals \X Slots
  /\ DOMAIN g_signals = IDs /\ DOMAIN g_slots = IDs
  /\ \A ID \in IDs : /\ IsABag(g_signals[ID]) /\ BagToSet(g_signals[ID]) \subseteq Signals
                     /\ IsABag(g_slots[ID]) /\ BagToSet(g_slots[ID]) \subseteq Slots

\* A signal is connected with a slot only while both are offered under one ID, and
\* then always, whichever came first, however often either was offered, and whatever
\* other IDs they were offered under, withdrawn from, or destroyed with -- unless
\* one of them was withdrawn from an ID it was not offered under.
WiredAllToAll ==
  LET together == UNION {BagToSet(g_signals[ID]) \X BagToSet(g_slots[ID]) : ID \in IDs} IN
  /\ wired \subseteq together /\ together \ wired \subseteq severed
  /\ \A ID \in IDs : \A one \in BagToSet(g_signals[ID]) \cup BagToSet(g_slots[ID]) : Owner(one) \in living
=============================================================================
