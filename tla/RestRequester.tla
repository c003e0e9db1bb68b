---------------------------- MODULE RestRequester ----------------------------
(***************************************************************************)
(* network/rest: Github::Requester, the BaseConnection it observes and the  *)
(* Qt connection that fetches pages.  Everything runs in one thread, but    *)
(* Connection::GetPage() waits for its reply in a nested QEventLoop, so a   *)
(* new request may start while others wait, and so may one started by the   *)
(* client's callback.  The Get() calls in progress form a stack: replies    *)
(* arrive in any order, and only the innermost call can go on.              *)
(*                                                                         *)
(* A JSON object is represented by the request it answers.  The connection  *)
(* collects every object and array it receives, but only the first object   *)
(* is ever read, so that is all of the collection the model keeps.          *)
(***************************************************************************)
EXTENDS Naturals, Sequences, SequencesExt

CONSTANTS Clients,
          MaxRequests,   \* bound: requests made
          MaxPages       \* bound: pages of one answer

ASSUME BoundsAssumption == MaxRequests \in Nat /\ MaxPages \in Nat \ {0}

\* RequestType, of which only one has an entry in `handlers'.
HandledTypes   == {"GetLatestRelease"}
UnhandledTypes == {"GetUserInfo"}   \* stands for all the others
RequestTypes   == HandledTypes \cup UnhandledTypes

NoObject == 0

VARIABLES stack,      \* the Get() calls in progress, outermost first
          client,     \* m_client
          type,       \* m_type
          first,      \* the first object in m_impl->data, or NoObject
          alive,      \* the clients that have not expired
          calls,      \* history: the client of each request made
          delivered,  \* history: the calls of HandleLatestRelease()
          unhandled   \* FindSecond() did not find the type: its assertion fails

vars == <<stack, client, type, first, alive, calls, delivered, unhandled>>

Top == Last(stack)

\* Events are processed by the outermost loop, by the loop of the innermost
\* GetPage() while it waits, and the client's callback may call anything.
CanCall == stack # <<>> => Top.state \in {"waiting", "handled"}
InLoop  == stack # <<>> /\ Top.state = "waiting"

-----------------------------------------------------------------------------
\* BaseConnection::Get() does not touch the values it has collected before.
KeepData == first

\* Mutant: only the first request sets the receiver.
FirstClient(c) == IF calls = <<>> THEN c ELSE client

NewClient(c) == c

\* Mutant: the loop of a new call is not nested in those of the older ones.
PushBelow(call) == <<call>> \o stack

Push(call) == Append(stack, call)

\* Every request method of Requester: DoRequest(), Get(), the first GetPage().
DoRequest(c, what) ==
  /\ CanCall
  /\ Len(calls) < MaxRequests
  /\ client' = NewClient(c)
  /\ type' = what
  /\ calls' = Append(calls, c)
  /\ first' = KeepData
  /\ stack' = Push([call |-> Len(calls'), page |-> 1, state |-> "waiting", next |-> FALSE])
  /\ UNCHANGED <<alive, delivered, unhandled>>

\* Arrays are collected as well, but never read.
OnDataReceived(call, object) == IF object /\ first = NoObject THEN call ELSE first

\* Whether the headers of the last reply link to a next page.
GetNextPage == Top.next

\* readChannelFinished of the reply to any waiting call: an object, or an array
\* or nothing that parses, with or without a link to a next page.
Reply(i, object, next) ==
  /\ InLoop
  /\ stack[i].state = "waiting"
  /\ next => stack[i].page < MaxPages
  /\ first' = OnDataReceived(stack[i].call, object)
  /\ stack' = [stack EXCEPT ![i].state = "replied", ![i].next = next]
  /\ UNCHANGED <<client, type, alive, calls, delivered, unhandled>>

\* Mutant: the link to the next page is not taken over, the same page is fetched again.
SamePage ==
  /\ stack # <<>> /\ Top.state = "replied" /\ Top.next
  /\ stack' = [stack EXCEPT ![Len(stack)].state = "waiting"]
  /\ UNCHANGED <<client, type, first, alive, calls, delivered, unhandled>>

\* `next' of a page becomes the query of the following GetPage().
NextPage ==
  /\ stack # <<>> /\ Top.state = "replied" /\ GetNextPage
  /\ stack' = [stack EXCEPT ![Len(stack)].page = @ + 1, ![Len(stack)].state = "waiting"]
  /\ UNCHANGED <<client, type, first, alive, calls, delivered, unhandled>>

\* After the last page: Perform() on the first object there is, if any, and
\* HandleReceivedData() with whatever m_client and m_type are now.
HandleReceivedData ==
  /\ stack # <<>> /\ Top.state = "replied" /\ ~GetNextPage
  /\ stack' = [stack EXCEPT ![Len(stack)].state = "handled"]
  /\ IF first = NoObject \/ client \notin alive
       THEN UNCHANGED <<delivered, unhandled>>
       ELSE IF type \in HandledTypes
       THEN /\ delivered' = delivered \cup {[by |-> Top.call, to |-> client, of |-> first]}
            /\ UNCHANGED unhandled
       ELSE unhandled' = TRUE /\ UNCHANGED delivered
  /\ UNCHANGED <<client, type, first, alive, calls>>

Pop == Front(stack)

Return ==
  /\ stack # <<>> /\ Top.state = "handled"
  /\ stack' = Pop
  /\ UNCHANGED <<client, type, first, alive, calls, delivered, unhandled>>

\* The last shared_ptr to a client goes away; m_client is a weak_ptr.
Expire(c) ==
  /\ CanCall
  /\ c \in alive
  /\ alive' = alive \ {c}
  /\ UNCHANGED <<stack, client, type, first, calls, delivered, unhandled>>

-----------------------------------------------------------------------------
Init ==
  /\ stack = <<>> /\ client \in Clients /\ type = "None" /\ first = NoObject
  /\ alive = Clients /\ calls = <<>> /\ delivered = {} /\ unhandled = FALSE

SomeReply == \E i \in DOMAIN stack, object, next \in BOOLEAN : Reply(i, object, next)

Terminated == stack = <<>> /\ UNCHANGED vars

Next ==
  \/ \E c \in Clients, what \in RequestTypes : DoRequest(c, what)
  \/ SomeReply \/ NextPage \/ HandleReceivedData \/ Return
  \/ \E c \in Clients : Expire(c)
  \/ Terminated

Spec == Init /\ [][Next]_vars

\* Every request is answered or fails in the end, and the thread goes on.
Fairness == WF_vars(SomeReply) /\ WF_vars(NextPage \/ HandleReceivedData \/ Return)

FairSpec == Spec /\ Fairness

-----------------------------------------------------------------------------
(* Properties                                                                *)

\* Every variable has its type; the calls in progress are nested, the later the
\* inner, and only the innermost can have been handled.
TypeOK ==
  /\ stack \in Seq([call : 1 .. MaxRequests, page : 1 .. MaxPages,
                    state : {"waiting", "replied", "handled"}, next : BOOLEAN])
  /\ client \in Clients /\ type \in RequestTypes \cup {"None"}
  /\ first \in 0 .. MaxRequests
  /\ alive \subseteq Clients /\ calls \in Seq(Clients)
  /\ delivered \subseteq [by : 1 .. MaxRequests, to : Clients, of : 1 .. MaxRequests]
  /\ unhandled \in BOOLEAN
  /\ \A i, j \in DOMAIN stack : i < j => stack[i].call < stack[j].call

\* How far a result can go astray: to another client than the one that asked only
\* if that one has made a newer request, whatever is nested in what.  That it can
\* go to another at all is a fault of the code, see ResultGoesToAsker.
NewestTakesAll ==
  \A d \in delivered :
    d.to = calls[d.by] \/ \E n \in DOMAIN calls : n > d.by /\ calls[n] = d.to

\* Every request method returns to its caller in the end.
EveryCallReturns ==
  \A n \in 1 .. MaxRequests :
    (\E i \in DOMAIN stack : stack[i].call = n) ~> ~(\E i \in DOMAIN stack : stack[i].call = n)

\* The documentation of the request methods calls the client the receiver of the
\* request's result: what a client is told is what its request gave.
ClientReceivesItsResult ==
  \A d \in delivered : d.of = d.by

\* The same words, read the other way: what a request gave is told to the client
\* that made it, though another may have asked for something in the meantime.
ResultGoesToAsker ==
  \A d \in delivered : d.of = d.by => d.to = calls[d.by]
=============================================================================
