---------------------------- MODULE Network_proofs ----------------------------
(* What holds of the REST client and of the downloader, and of the program    *)
(* in which they are side by side.                                           *)
EXTENDS MCNetwork, SequenceTheorems, TLAPS

-----------------------------------------------------------------------------
(* The REST client, for any clients and any nesting of the requests          *)

\* Why nobody but a newer requester gets a result: m_client is the client of the
\* newest request, and every call in progress or answered is at most that old.
NewestIsClient ==
  /\ Len(calls) <= MaxRequests
  /\ calls # <<>> => client = calls[Len(calls)]
  /\ \A i \in DOMAIN stack : stack[i].call <= Len(calls)
  /\ \A d \in delivered : d.by \in DOMAIN calls

Frame == [call : 1 .. MaxRequests, page : 1 .. MaxPages,
          state : {"waiting", "replied", "handled"}, next : BOOLEAN]

\* A reply with a link to a next page is not that of the last one.
Linked(frame) == frame.state = "replied" /\ frame.next => frame.page < MaxPages

PagesLinked == \A i \in DOMAIN stack : Linked(stack[i])

Inv == TypeOK /\ PagesLinked /\ NewestIsClient /\ NewestTakesAll

\* What the elements of the stack are.
LEMMA FramesTyped ==
  ASSUME NEW s \in Seq(Frame), NEW i \in DOMAIN s
  PROVE  /\ i \in 1 .. Len(s) /\ Len(s) \in Nat /\ s[i] \in Frame
         /\ s[i].call \in 1 .. MaxRequests /\ s[i].call \in Nat
<1>1. Len(s) \in Nat /\ DOMAIN s = 1 .. Len(s)
  BY LenProperties
<1>2. s[i] \in Frame
  BY <1>1, ElementOfSeq
<1>3. QED
  BY <1>1, <1>2, BoundsAssumption DEF Frame

\* All of a sequence but its last element.
LEMMA FrontProperties ==
  ASSUME NEW S, NEW s \in Seq(S), s # <<>>
  PROVE  /\ Len(s) \in DOMAIN s /\ Last(s) = s[Len(s)] /\ Last(s) \in S
         /\ Front(s) \in Seq(S) /\ Len(Front(s)) = Len(s) - 1
         /\ \A i \in DOMAIN Front(s) : i \in DOMAIN s /\ Front(s)[i] = s[i]
<1>1. Len(s) \in Nat /\ Len(s) # 0 /\ DOMAIN s = 1 .. Len(s)
  BY LenProperties, EmptySeq
<1>2. PICK n \in Nat : Len(s) = n + 1
  <2>1. Len(s) - 1 \in Nat /\ Len(s) = (Len(s) - 1) + 1
    BY <1>1
  <2>2. QED
    BY <2>1
<1>3. Front(s) = SubSeq(s, 1, n) /\ Last(s) = s[n + 1]
  BY <1>1, <1>2 DEF Front, Last
<1>4. \A i \in 1 .. n + 1 : s[i] \in S
  BY <1>1, <1>2, ElementOfSeq
<1>5. /\ SubSeq(s, 1, n) \in Seq(S)
      /\ Len(SubSeq(s, 1, n)) = IF 1 <= n THEN n - 1 + 1 ELSE 0
      /\ \A i \in 1 .. n - 1 + 1 : SubSeq(s, 1, n)[i] = s[1 + i - 1]
  BY <1>2, <1>4, SubSeqProperties
<1>6. Len(SubSeq(s, 1, n)) = n
  BY <1>2, <1>5
<1>7. DOMAIN SubSeq(s, 1, n) = 1 .. n
  BY <1>5, <1>6, LenProperties
<1>8. \A i \in 1 .. n : SubSeq(s, 1, n)[i] = s[i]
  BY <1>2, <1>5
<1>9. QED
  BY <1>1, <1>2, <1>3, <1>4, <1>5, <1>6, <1>7, <1>8

\* The innermost call is a call in progress, and the others stay when it returns.
LEMMA TopTyped ==
  ASSUME stack \in Seq(Frame), stack # <<>>
  PROVE  /\ Len(stack) \in DOMAIN stack /\ Top = stack[Len(stack)] /\ Top \in Frame
         /\ Pop \in Seq(Frame) /\ \A i \in DOMAIN Pop : i \in DOMAIN stack /\ Pop[i] = stack[i]
BY FrontProperties DEF Top, Pop

\* A new request is the innermost call and makes its client the receiver.
LEMMA RequestKeeps ==
  ASSUME Inv, NEW c \in Clients, NEW what \in RequestTypes, DoRequest(c, what)
  PROVE  Inv'
<1> USE BoundsAssumption DEF Inv
<1> DEFINE frame == [call |-> Len(calls) + 1, page |-> 1, state |-> "waiting", next |-> FALSE]
<1>1. /\ calls' = Append(calls, c) /\ calls \in Seq(Clients) /\ calls' \in Seq(Clients)
      /\ Len(calls') = Len(calls) + 1 /\ calls'[Len(calls')] = c
      /\ \A i \in DOMAIN calls : i \in DOMAIN calls' /\ calls'[i] = calls[i]
  BY DEF TypeOK, DoRequest
<1>2. frame \in Frame
  BY <1>1 DEF DoRequest, Frame
<1>3. stack' = Append(stack, frame) /\ stack \in Seq(Frame)
  BY <1>1 DEF TypeOK, DoRequest, Push, Frame
<1> HIDE DEF frame
<1>4. /\ stack' \in Seq(Frame) /\ Len(stack') = Len(stack) + 1 /\ stack'[Len(stack')] = frame
      /\ \A i \in DOMAIN stack' : i = Len(stack') \/ (i \in DOMAIN stack /\ stack'[i] = stack[i])
  BY <1>2, <1>3
<1>5. \A i, j \in DOMAIN stack' : i < j => stack'[i].call < stack'[j].call
  <2>1. frame.call = Len(calls) + 1
    BY DEF frame
  <2>2. \A i \in DOMAIN stack : stack[i].call \in Nat /\ stack[i].call <= Len(calls)
    BY <1>3, FramesTyped DEF NewestIsClient
  <2>3. QED
    <3> SUFFICES ASSUME NEW i \in DOMAIN stack', NEW j \in DOMAIN stack', i < j
                 PROVE  stack'[i].call < stack'[j].call
      OBVIOUS
    <3>1. i \in 1 .. Len(stack') /\ j \in 1 .. Len(stack') /\ Len(stack') \in Nat
      BY <1>4, FramesTyped
    <3>2. i \in DOMAIN stack /\ stack'[i] = stack[i]
      BY <1>4, <3>1
    <3>3. CASE j = Len(stack')
      BY <1>1, <1>4, <2>1, <2>2, <3>2, <3>3
    <3>4. CASE j # Len(stack')
      BY <1>4, <3>2, <3>4 DEF TypeOK
    <3>5. QED
      BY <3>3, <3>4
<1>6. TypeOK'
  BY <1>4, <1>5, <1>1 DEF TypeOK, DoRequest, NewClient, KeepData, Frame
<1>7. NewestIsClient'
  <2>1. \A i \in DOMAIN stack' : stack'[i].call <= Len(calls')
    <3>1. frame.call = Len(calls')
      BY <1>1 DEF frame
    <3>2. \A i \in DOMAIN stack : stack[i].call \in Nat /\ stack[i].call <= Len(calls)
      BY <1>3, FramesTyped DEF NewestIsClient
    <3>3. QED
      BY <1>1, <1>4, <3>1, <3>2
  <2>2. Len(calls') <= MaxRequests /\ client' = calls'[Len(calls')]
    BY <1>1 DEF DoRequest, NewClient
  <2>3. \A d \in delivered' : d.by \in DOMAIN calls'
    BY <1>1 DEF NewestIsClient, DoRequest
  <2>4. QED
    BY <2>1, <2>2, <2>3 DEF NewestIsClient
<1>8. NewestTakesAll'
  BY <1>1 DEF TypeOK, NewestIsClient, NewestTakesAll, DoRequest
<1>9. PagesLinked'
  <2>1. Linked(frame)
    BY DEF Linked, frame
  <2>2. QED
    BY <1>3, <1>4, <2>1 DEF PagesLinked
<1>10. QED
  BY <1>6, <1>7, <1>8, <1>9

\* A step that moves one call on, where it is in the stack, keeps the invariant
\* if it keeps what has been delivered.
LEMMA MoveKeeps ==
  ASSUME Inv, NEW i \in DOMAIN stack, NEW frame \in Frame,
         frame.call = stack[i].call, Linked(frame),
         stack' = [stack EXCEPT ![i] = frame],
         first' \in 0 .. MaxRequests, delivered' = delivered, unhandled' \in BOOLEAN,
         UNCHANGED <<client, type, alive, calls>>
  PROVE  Inv'
<1>1. stack \in Seq(Frame)
  BY DEF Inv, TypeOK, Frame
<1>2. DOMAIN stack = 1 .. Len(stack)
  BY <1>1, LenProperties
<1>3. stack' \in Seq(Frame)
  BY <1>1, <1>2, ExceptSeq
<1>4. /\ DOMAIN stack' = DOMAIN stack
      /\ \A j \in DOMAIN stack : stack'[j] = (IF j = i THEN frame ELSE stack[j])
                                 /\ stack'[j].call = stack[j].call
  BY <1>1
<1>5. TypeOK'
  BY <1>3, <1>4 DEF Inv, TypeOK, Frame
<1>6. PagesLinked'
  BY <1>4 DEF Inv, PagesLinked
<1>7. NewestIsClient' /\ NewestTakesAll'
  BY <1>4 DEF Inv, NewestIsClient, NewestTakesAll
<1>8. QED
  BY <1>5, <1>6, <1>7 DEF Inv

\* A reply to any waiting call collects an object of that call at most.
LEMMA ReplyKeeps ==
  ASSUME Inv, NEW i \in DOMAIN stack, NEW object \in BOOLEAN, NEW next \in BOOLEAN,
         Reply(i, object, next)
  PROVE  Inv'
<1> DEFINE frame == [stack[i] EXCEPT !.state = "replied", !.next = next]
<1>1. stack[i] \in Frame /\ stack[i].call \in 1 .. MaxRequests
  BY FramesTyped DEF Inv, TypeOK, Frame
<1>2. /\ frame \in Frame /\ frame.call = stack[i].call /\ frame.page = stack[i].page
      /\ frame.next = next
  BY <1>1 DEF Frame
<1>3. stack' = [stack EXCEPT ![i] = frame]
  BY <1>1 DEF Reply, Frame
<1>4. Linked(frame)
  BY <1>2 DEF Reply, Linked
<1>5. /\ first' \in 0 .. MaxRequests /\ unhandled' \in BOOLEAN
      /\ UNCHANGED <<client, type, alive, calls, delivered>>
  BY <1>1, BoundsAssumption DEF Inv, TypeOK, Reply, OnDataReceived
<1> HIDE DEF frame
<1>6. QED
  BY <1>2, <1>3, <1>4, <1>5, MoveKeeps

\* The innermost call goes on to the page its reply links to.
LEMMA NextPageKeeps == ASSUME Inv, NextPage PROVE Inv'
<1> DEFINE i == Len(stack)
           frame == [stack[i] EXCEPT !.page = stack[i].page + 1, !.state = "waiting"]
<1>1. i \in DOMAIN stack /\ Top = stack[i] /\ stack[i] \in Frame
  BY TopTyped DEF Inv, TypeOK, Frame, NextPage
<1>2. stack[i].page + 1 \in 1 .. MaxPages
  BY <1>1, BoundsAssumption DEF Inv, PagesLinked, Linked, NextPage, GetNextPage, Frame
<1>3. frame \in Frame /\ frame.call = stack[i].call /\ frame.state = "waiting"
  BY <1>1, <1>2 DEF Frame
<1>4. stack' = [stack EXCEPT ![i] = frame] /\ Linked(frame)
  BY <1>1, <1>3 DEF NextPage, Frame, Linked
<1>5. /\ first' \in 0 .. MaxRequests /\ unhandled' \in BOOLEAN
      /\ UNCHANGED <<client, type, alive, calls, delivered>>
  BY DEF Inv, TypeOK, NextPage
<1> HIDE DEF i, frame
<1>6. QED
  BY <1>1, <1>3, <1>4, <1>5, MoveKeeps

\* A result goes to the client of the newest request, and the call it belongs to
\* has been made.
LEMMA HandleKeeps == ASSUME Inv, HandleReceivedData PROVE Inv'
<1> DEFINE i == Len(stack)
           frame == [stack[i] EXCEPT !.state = "handled"]
<1>1. i \in DOMAIN stack /\ Top = stack[i] /\ stack[i] \in Frame
  BY TopTyped DEF Inv, TypeOK, Frame, HandleReceivedData
<1>2. frame \in Frame /\ frame.call = stack[i].call /\ frame.state = "handled"
  BY <1>1 DEF Frame
<1>3. stack' = [stack EXCEPT ![i] = frame] /\ Linked(frame)
  BY <1>1, <1>2 DEF HandleReceivedData, Frame, Linked
<1>4. UNCHANGED <<client, type, first, alive, calls>> /\ unhandled' \in BOOLEAN
  BY DEF Inv, TypeOK, HandleReceivedData
<1>5. CASE delivered' = delivered
  <2>1. first' \in 0 .. MaxRequests
    BY <1>4 DEF Inv, TypeOK
  <2> HIDE DEF i, frame
  <2>2. QED
    BY <1>1, <1>2, <1>3, <1>4, <1>5, <2>1, MoveKeeps
<1>6. CASE delivered' # delivered
  <2> DEFINE new == [by |-> Top.call, to |-> client, of |-> first]
  <2>1. delivered' = delivered \cup {new} /\ first # NoObject
    BY <1>6 DEF HandleReceivedData
  <2>2. /\ Top.call \in 1 .. MaxRequests /\ Top.call <= Len(calls) /\ first \in 1 .. MaxRequests
        /\ calls \in Seq(Clients) /\ client \in Clients
    BY <1>1, <2>1, FramesTyped DEF Inv, TypeOK, NewestIsClient, Frame, NoObject
  <2>3. /\ Top.call \in DOMAIN calls /\ Len(calls) \in DOMAIN calls
        /\ client = calls[Len(calls)] /\ Len(calls) \in Nat
    BY <2>2, BoundsAssumption DEF Inv, NewestIsClient
  <2>4. /\ new.by = Top.call /\ new.to = client
        /\ new \in [by : 1 .. MaxRequests, to : Clients, of : 1 .. MaxRequests]
    BY <2>2
  <2> HIDE DEF new, i, frame
  <2>5. /\ stack' \in Seq(Frame) /\ DOMAIN stack' = DOMAIN stack
        /\ \A j \in DOMAIN stack : stack'[j] = (IF j = i THEN frame ELSE stack[j])
                                   /\ stack'[j].call = stack[j].call
    <3>1. stack \in Seq(Frame)
      BY DEF Inv, TypeOK, Frame
    <3>2. DOMAIN stack = 1 .. Len(stack)
      BY <3>1, LenProperties
    <3>3. QED
      BY <1>1, <1>2, <1>3, <3>1, <3>2, ExceptSeq
  <2>6. TypeOK'
    BY <1>4, <2>1, <2>4, <2>5 DEF Inv, TypeOK, Frame
  <2>7. PagesLinked'
    BY <1>3, <2>5 DEF Inv, PagesLinked
  <2>8. NewestIsClient'
    BY <1>4, <2>1, <2>3, <2>4, <2>5 DEF Inv, NewestIsClient
  <2>9. NewestTakesAll'
    <3>1. new.to = calls[new.by] \/ \E n \in DOMAIN calls : n > new.by /\ calls[n] = new.to
      <4>1. CASE Top.call = Len(calls)
        BY <2>3, <2>4, <4>1
      <4>2. CASE Top.call # Len(calls)
        BY <2>2, <2>3, <2>4, <4>2, BoundsAssumption
      <4>3. QED
        BY <4>1, <4>2
    <3>2. QED
      BY <1>4, <2>1, <3>1 DEF Inv, NewestTakesAll
  <2>10. QED
    BY <2>6, <2>7, <2>8, <2>9 DEF Inv
<1>7. QED
  BY <1>5, <1>6

\* The innermost call returns, or a client expires.
LEMMA ReturnKeeps ==
  ASSUME Inv, Return \/ \E c \in Clients : Expire(c)
  PROVE  Inv'
<1>1. CASE Return
  <2>1. /\ stack' \in Seq(Frame)
        /\ \A i \in DOMAIN stack' : i \in DOMAIN stack /\ stack'[i] = stack[i]
    BY <1>1, TopTyped DEF Inv, TypeOK, Frame, Return
  <2>2. TypeOK'
    BY <1>1, <2>1 DEF Inv, TypeOK, Frame, Return
  <2>3. PagesLinked' /\ NewestIsClient' /\ NewestTakesAll'
    BY <1>1, <2>1 DEF Inv, PagesLinked, NewestIsClient, NewestTakesAll, Return
  <2>4. QED
    BY <2>2, <2>3 DEF Inv
<1>2. CASE \E c \in Clients : Expire(c)
  BY <1>2 DEF Inv, TypeOK, PagesLinked, NewestIsClient, NewestTakesAll, Expire
<1>3. QED
  BY <1>1, <1>2

\* No request has been made yet.
LEMMA InitHolds == Init => Inv
<1> SUFFICES ASSUME Init PROVE Inv
  OBVIOUS
<1>1. stack \in Seq(Frame) /\ calls \in Seq(Clients) /\ DOMAIN stack = {} /\ Len(calls) = 0
  BY EmptySeq DEF Init
<1>2. TypeOK
  <2>1. first \in 0 .. MaxRequests /\ \A i, j \in DOMAIN stack : i < j => stack[i].call < stack[j].call
    BY <1>1, BoundsAssumption DEF Init, NoObject
  <2>2. QED
    BY <1>1, <2>1 DEF Init, TypeOK, Frame
<1>3. QED
  BY <1>1, <1>2, BoundsAssumption DEF Init, Inv, PagesLinked, NewestIsClient, NewestTakesAll

\* One step, of the requester or of somebody else.
LEMMA StepKeeps == ASSUME Inv, [Next]_vars PROVE Inv'
<1>1. CASE UNCHANGED vars
  BY <1>1 DEF vars, Inv, TypeOK, PagesLinked, NewestIsClient, NewestTakesAll
<1>2. QED
  BY <1>1, RequestKeeps, ReplyKeeps, NextPageKeeps, HandleKeeps, ReturnKeeps
  DEF Next, SomeReply, Terminated

\* The invariant holds of every behaviour.
LEMMA Invariance == Spec => []Inv
<1>1. Inv /\ [Next]_vars => Inv'
  BY StepKeeps
<1>2. QED
  BY <1>1, InitHolds, PTL DEF Spec

\* Every variable keeps its type, and the calls in progress are nested by age.
THEOREM TypeCorrect == Spec => []TypeOK
<1>1. Inv => TypeOK
  BY DEF Inv
<1>2. QED
  BY <1>1, Invariance, PTL

\* However deep requests are nested, in one another's waiting loops and in the
\* callbacks of clients, no result goes to a client that has neither made the
\* request nor a newer one.
THEOREM NewestTakesAllAlways == Spec => []NewestTakesAll
<1>1. Inv => NewestTakesAll
  BY DEF Inv
<1>2. QED
  BY <1>1, Invariance, PTL

-----------------------------------------------------------------------------
(* The downloader, for any addresses and errors, and any number of downloads *)
(*                                                                         *)
(* Why: the entry of a reply says the same as the reply, no two replies      *)
(* have one number, and a number that was reported belongs to no reply but   *)
(* the one whose callback is running.  It is the third that the address of   *)
(* a reply, used again, would break, if its entry were not erased with it.   *)

\* What m_replies knows of a reply is what the reply itself knows.
EntriesMatch ==
  \A x \in DOMAIN replies :
    /\ entries[x].id = replies[x].number
    /\ entries[x].code = replies[x].failed
    /\ replies[x].number <= lastId

\* A number that Download() returned is the number of one reply.
NumbersApart ==
  \A x, y \in DOMAIN replies : replies[x].number = replies[y].number => x = y

\* The callback that runs is that of a reply not deleted yet.
CallingLives ==
  /\ calling \in DOMAIN replies \cup {Downloads!Nowhere}
  /\ calling # Downloads!Nowhere => open

\* Who was called back has no reply left but the one that is being deleted.
ToldIsOver ==
  \A t \in told :
    /\ t.to <= lastId
    /\ \A x \in DOMAIN replies : replies[x].number = t.to => x = calling

DownloadsInv ==
  /\ Downloads!TypeOK
  /\ EntriesMatch /\ NumbersApart /\ CallingLives /\ ToldIsOver
  /\ Downloads!CalledBackOnce

-----------------------------------------------------------------------------

\* A reply record that changes in its state, its error and its deletion.
Replies == [number : Downloads!Ids, state : {"running", "failed", "finished"}, doomed : BOOLEAN, failed : Downloads!Codes]

LEMMA DownloadsInit == Downloads!Init => DownloadsInv
BY DownloadsAssumption DEF Downloads!Init, DownloadsInv, Downloads!TypeOK, EntriesMatch,
    NumbersApart, CallingLives, ToldIsOver, Downloads!CalledBackOnce

LEMMA DownloadStep ==
  ASSUME DownloadsInv, NEW x \in Addresses, Downloads!Download(x)
  PROVE  DownloadsInv'
<1> DEFINE new == [number |-> lastId', state |-> "running", doomed |-> FALSE, failed |-> Downloads!NoError]
           entry == [id |-> lastId', code |-> Downloads!NoError]
<1>1. lastId' = lastId + 1 /\ lastId \in Nat /\ lastId' \in Downloads!Ids /\ lastId' \in 0 .. MaxDownloads
  BY DownloadsAssumption DEF Downloads!Download, DownloadsInv, Downloads!TypeOK, Downloads!Ids
<1>2. new \in Replies /\ new.number = lastId' /\ new.failed = Downloads!NoError
  BY <1>1 DEF Replies, Downloads!Codes
<1>3. entry \in [id : Downloads!Ids, code : Downloads!Codes] /\ entry.id = lastId' /\ entry.code = Downloads!NoError
  BY <1>1 DEF Downloads!Codes
<1>4. /\ DOMAIN replies' = DOMAIN replies \cup {x}
      /\ replies'[x] = new
      /\ \A y \in DOMAIN replies : replies'[y] = replies[y] /\ y # x
  BY DEF Downloads!Download
<1>5. /\ DOMAIN entries' = DOMAIN entries \cup {x}
      /\ entries'[x] = entry
      /\ \A y \in DOMAIN entries : entries'[y] = entries[y]
  BY DEF Downloads!Download, Downloads!TryEmplace, DownloadsInv, Downloads!TypeOK
<1> HIDE DEF new, entry
<1>6. UNCHANGED <<open, calling, told>>
  BY DEF Downloads!Download
<1>7. Downloads!TypeOK'
  BY <1>1, <1>2, <1>3, <1>4, <1>5, <1>6 DEF DownloadsInv, Downloads!TypeOK, Replies
<1>8. EntriesMatch'
  BY <1>1, <1>2, <1>3, <1>4, <1>5 DEF DownloadsInv, Downloads!TypeOK, EntriesMatch, Downloads!Ids
<1>9. NumbersApart'
  BY <1>1, <1>2, <1>4 DEF DownloadsInv, Downloads!TypeOK, EntriesMatch, NumbersApart,
      Downloads!Ids
<1>10. CallingLives'
  BY <1>4, <1>6 DEF DownloadsInv, CallingLives
<1>11. ToldIsOver'
  BY <1>1, <1>2, <1>4, <1>6 DEF DownloadsInv, Downloads!TypeOK, ToldIsOver, Downloads!Ids
<1>12. Downloads!CalledBackOnce'
  BY <1>6 DEF DownloadsInv, Downloads!CalledBackOnce
<1> QED BY <1>7, <1>8, <1>9, <1>10, <1>11, <1>12 DEF DownloadsInv

\* What keeps the numbers of the replies and of the entries, and an error of the
\* one equal to that of the other, keeps the invariant.
LEMMA ReplyChanges ==
  ASSUME DownloadsInv,
         DOMAIN replies' = DOMAIN replies, DOMAIN entries' = DOMAIN entries,
         \A x \in DOMAIN replies : /\ replies'[x] \in Replies
                                   /\ entries'[x] \in [id : Downloads!Ids, code : Downloads!Codes]
                                   /\ replies'[x].number = replies[x].number
                                   /\ entries'[x].id = entries[x].id
                                   /\ entries'[x].code = replies'[x].failed,
         UNCHANGED <<open, lastId, calling, told>>
  PROVE  DownloadsInv'
<1>1. Downloads!TypeOK'
  BY DEF DownloadsInv, Downloads!TypeOK, Replies
<1>2. EntriesMatch' /\ NumbersApart' /\ CallingLives' /\ ToldIsOver' /\ Downloads!CalledBackOnce'
  BY DEF DownloadsInv, Downloads!TypeOK, EntriesMatch, NumbersApart, CallingLives, ToldIsOver,
      Downloads!CalledBackOnce
<1> QED BY <1>1, <1>2 DEF DownloadsInv

LEMMA ErrorStep ==
  ASSUME DownloadsInv, NEW x \in Addresses, NEW code \in Errors, Downloads!ErrorOccurred(x, code)
  PROVE  DownloadsInv'
<1>1. x \in DOMAIN replies /\ x \in DOMAIN entries /\ code \in Downloads!Codes
  BY DEF Downloads!ErrorOccurred, DownloadsInv, Downloads!TypeOK, Downloads!Codes
<1>2. \A y \in DOMAIN replies : /\ replies[y] \in Replies
                                /\ entries[y] \in [id : Downloads!Ids, code : Downloads!Codes]
                                /\ entries[y].code = replies[y].failed
  BY DEF DownloadsInv, Downloads!TypeOK, EntriesMatch, Replies
<1>3. DOMAIN replies' = DOMAIN replies /\ DOMAIN entries' = DOMAIN entries
  BY DEF Downloads!ErrorOccurred, Downloads!KeepError
<1>4. ASSUME NEW y \in DOMAIN replies
      PROVE  /\ replies'[y] \in Replies
             /\ entries'[y] \in [id : Downloads!Ids, code : Downloads!Codes]
             /\ replies'[y].number = replies[y].number
             /\ entries'[y].id = entries[y].id
             /\ entries'[y].code = replies'[y].failed
  <2>1. CASE y = x
    <3>1. replies'[y] = [replies[y] EXCEPT !.state = "failed", !.failed = code, !.doomed = TRUE]
      BY <1>1, <2>1 DEF Downloads!ErrorOccurred
    <3>2. entries'[y] = [entries[y] EXCEPT !.code = code]
      BY <1>1, <2>1 DEF Downloads!ErrorOccurred, Downloads!KeepError
    <3> QED BY <1>1, <1>2, <3>1, <3>2 DEF Replies
  <2>2. CASE y # x
    <3>1. replies'[y] = replies[y] /\ entries'[y] = entries[y]
      BY <1>1, <1>3, <2>2 DEF Downloads!ErrorOccurred, Downloads!KeepError, DownloadsInv,
          Downloads!TypeOK
    <3> QED BY <1>2, <3>1
  <2> QED BY <2>1, <2>2
<1>5. UNCHANGED <<open, lastId, calling, told>>
  BY DEF Downloads!ErrorOccurred
<1> QED BY <1>3, <1>4, <1>5, ReplyChanges

LEMMA FinishedStep ==
  ASSUME DownloadsInv, NEW x \in Addresses, Downloads!Finished(x)
  PROVE  DownloadsInv'
<1>1. x \in DOMAIN replies
  BY DEF Downloads!Finished
<1>2. \A y \in DOMAIN replies : /\ replies[y] \in Replies
                                /\ entries[y] \in [id : Downloads!Ids, code : Downloads!Codes]
                                /\ entries[y].code = replies[y].failed
  BY DEF DownloadsInv, Downloads!TypeOK, EntriesMatch, Replies
<1>3. DOMAIN replies' = DOMAIN replies /\ entries' = entries
  BY DEF Downloads!Finished
<1>4. ASSUME NEW y \in DOMAIN replies
      PROVE  /\ replies'[y] \in Replies
             /\ replies'[y].number = replies[y].number
             /\ replies'[y].failed = replies[y].failed
  <2>1. CASE y = x
    <3>1. replies'[y] = [replies[y] EXCEPT !.state = "finished", !.doomed = TRUE]
      BY <1>1, <2>1 DEF Downloads!Finished
    <3> QED BY <1>2, <3>1 DEF Replies
  <2>2. CASE y # x
    <3>1. replies'[y] = replies[y]
      BY <1>1, <2>2 DEF Downloads!Finished
    <3> QED BY <1>2, <3>1
  <2> QED BY <2>1, <2>2
<1>5. UNCHANGED <<open, lastId, calling, told>>
  BY DEF Downloads!Finished
<1> QED BY <1>2, <1>3, <1>4, <1>5, ReplyChanges

LEMMA StopStep ==
  ASSUME DownloadsInv, NEW x \in Addresses, Downloads!Stop(x)
  PROVE  DownloadsInv'
<1>1. x \in DOMAIN replies /\ x \in DOMAIN entries /\ Downloads!Canceled \in Downloads!Codes
  BY DEF Downloads!Stop, DownloadsInv, Downloads!TypeOK, Downloads!Codes
<1>2. \A y \in DOMAIN replies : /\ replies[y] \in Replies
                                /\ entries[y] \in [id : Downloads!Ids, code : Downloads!Codes]
                                /\ entries[y].code = replies[y].failed
  BY DEF DownloadsInv, Downloads!TypeOK, EntriesMatch, Replies
<1>3. DOMAIN replies' = DOMAIN replies /\ DOMAIN entries' = DOMAIN entries
  BY DEF Downloads!Stop, Downloads!KeepError
<1>4. ASSUME NEW y \in DOMAIN replies
      PROVE  /\ replies'[y] \in Replies
             /\ entries'[y] \in [id : Downloads!Ids, code : Downloads!Codes]
             /\ replies'[y].number = replies[y].number
             /\ entries'[y].id = entries[y].id
             /\ entries'[y].code = replies'[y].failed
  <2>1. CASE y = x
    <3>1. replies'[y] = [replies[y] EXCEPT !.state = "finished", !.failed = Downloads!Canceled, !.doomed = TRUE]
      BY <1>1, <2>1 DEF Downloads!Stop
    <3>2. entries'[y] = [entries[y] EXCEPT !.code = Downloads!Canceled]
      BY <1>1, <2>1 DEF Downloads!Stop, Downloads!KeepError
    <3> QED BY <1>1, <1>2, <3>1, <3>2 DEF Replies
  <2>2. CASE y # x
    <3>1. replies'[y] = replies[y] /\ entries'[y] = entries[y]
      BY <1>1, <1>3, <2>2 DEF Downloads!Stop, Downloads!KeepError, DownloadsInv, Downloads!TypeOK
    <3> QED BY <1>2, <3>1
  <2> QED BY <2>1, <2>2
<1>5. UNCHANGED <<open, lastId, calling, told>>
  BY DEF Downloads!Stop
<1> QED BY <1>3, <1>4, <1>5, ReplyChanges

\* The callback runs in the destructor: its number has not been told before,
\* since calling was nowhere.
LEMMA DeleteStep ==
  ASSUME DownloadsInv, NEW x \in Addresses, Downloads!Delete(x)
  PROVE  DownloadsInv'
<1> DEFINE t == [to |-> replies[x].number, id |-> entries[x].id, code |-> entries[x].code,
                 failed |-> replies[x].failed, open |-> open]
<1>1. /\ x \in DOMAIN replies /\ x \in DOMAIN entries
      /\ open = TRUE /\ calling = Downloads!Nowhere /\ calling' = x
      /\ UNCHANGED <<open, lastId, replies, entries>>
  BY DEF Downloads!Delete, Downloads!InLoop, DownloadsInv, Downloads!TypeOK
<1>2. told' = told \cup {t}
  BY <1>1 DEF Downloads!Delete, Downloads!Callback
<1>3. replies[x] \in Replies /\ entries[x] \in [id : Downloads!Ids, code : Downloads!Codes]
  BY <1>1 DEF DownloadsInv, Downloads!TypeOK, Replies
<1>4. /\ t \in [to : Downloads!Ids, id : Downloads!Ids, code : Downloads!Codes, failed : Downloads!Codes, open : BOOLEAN]
      /\ t.to = replies[x].number /\ t.id = t.to /\ t.code = t.failed /\ t.open
  BY <1>1, <1>3 DEF Replies, DownloadsInv, EntriesMatch
<1> HIDE DEF t
<1>5. \A u \in told : u.to # t.to
  BY <1>1, <1>4, DownloadsAssumption DEF DownloadsInv, ToldIsOver, Downloads!Nowhere
<1>6. Downloads!TypeOK'
  BY <1>1, <1>2, <1>4 DEF DownloadsInv, Downloads!TypeOK
<1>7. EntriesMatch' /\ NumbersApart' /\ CallingLives'
  BY <1>1 DEF DownloadsInv, EntriesMatch, NumbersApart, CallingLives
<1>8. ToldIsOver'
  <2>1. ASSUME NEW u \in told', NEW y \in DOMAIN replies', replies'[y].number = u.to
        PROVE  y = calling'
    <3>1. CASE u \in told
      BY <1>1, <2>1, <3>1, DownloadsAssumption DEF DownloadsInv, ToldIsOver, Downloads!TypeOK,
          Downloads!Nowhere
    <3>2. CASE u = t
      BY <1>1, <1>4, <2>1, <3>2 DEF DownloadsInv, NumbersApart
    <3> QED BY <1>2, <3>1, <3>2
  <2>2. \A u \in told' : u.to <= lastId'
    BY <1>1, <1>2, <1>4 DEF DownloadsInv, ToldIsOver, EntriesMatch
  <2> QED BY <2>1, <2>2 DEF ToldIsOver
<1>9. Downloads!CalledBackOnce'
  BY <1>2, <1>4, <1>5 DEF DownloadsInv, Downloads!CalledBackOnce
<1> QED BY <1>6, <1>7, <1>8, <1>9 DEF DownloadsInv

\* The reply that has told is gone, and its entry with it.
LEMMA DeletedStep ==
  ASSUME DownloadsInv, Downloads!Deleted
  PROVE  DownloadsInv'
<1>1. /\ calling # Downloads!Nowhere /\ calling' = Downloads!Nowhere
      /\ UNCHANGED <<open, lastId, told>>
  BY DEF Downloads!Deleted
<1>2. /\ DOMAIN replies' = DOMAIN replies \ {calling}
      /\ \A y \in DOMAIN replies' : replies'[y] = replies[y]
  BY DEF Downloads!Deleted, Downloads!Without, Downloads!Restrict
<1>3. /\ DOMAIN entries' = DOMAIN entries \ {calling}
      /\ \A y \in DOMAIN entries' : entries'[y] = entries[y]
  BY DEF Downloads!Deleted, Downloads!EraseEntry, Downloads!Without, Downloads!Restrict
<1>4. Downloads!TypeOK'
  BY <1>1, <1>2, <1>3 DEF DownloadsInv, Downloads!TypeOK
<1>5. EntriesMatch' /\ NumbersApart' /\ CallingLives' /\ ToldIsOver' /\ Downloads!CalledBackOnce'
  BY <1>1, <1>2, <1>3 DEF DownloadsInv, Downloads!TypeOK, EntriesMatch, NumbersApart,
      CallingLives, ToldIsOver, Downloads!CalledBackOnce
<1> QED BY <1>4, <1>5 DEF DownloadsInv

\* m_replies is cleared first: nobody is told of what is given up.
LEMMA DestroyStep ==
  ASSUME DownloadsInv, Downloads!Destroy
  PROVE  DownloadsInv'
<1>1. /\ open' = FALSE /\ replies' = <<>> /\ entries' = <<>> /\ calling = Downloads!Nowhere
      /\ UNCHANGED <<lastId, calling>>
  BY DEF Downloads!Destroy, Downloads!InLoop
<1>2. DOMAIN Downloads!Cleared = {}
  BY DEF Downloads!Cleared
<1>3. \A x \in DOMAIN replies : Downloads!Callback(x, Downloads!Cleared, FALSE) = {}
  BY <1>2 DEF Downloads!Callback
<1>4. told' = told
  BY <1>3 DEF Downloads!Destroy
<1>5. DOMAIN replies' = {} /\ DOMAIN entries' = {}
  BY <1>1
<1>6. Downloads!TypeOK'
  BY <1>1, <1>4, <1>5 DEF DownloadsInv, Downloads!TypeOK
<1>7. EntriesMatch' /\ NumbersApart' /\ CallingLives' /\ ToldIsOver' /\ Downloads!CalledBackOnce'
  BY <1>1, <1>4, <1>5 DEF DownloadsInv, EntriesMatch, NumbersApart, CallingLives, ToldIsOver,
      Downloads!CalledBackOnce
<1> QED BY <1>6, <1>7 DEF DownloadsInv

\* One step of the downloader, or one of something else in the program.
LEMMA DownloadsStep == ASSUME DownloadsInv, [Downloads!Next]_downloadVars PROVE DownloadsInv'
<1>1. CASE UNCHANGED downloadVars
  BY <1>1 DEF downloadVars, DownloadsInv, Downloads!TypeOK, EntriesMatch, NumbersApart,
      CallingLives, ToldIsOver, Downloads!CalledBackOnce
<1>2. ASSUME NEW x \in Addresses, Downloads!Download(x) PROVE DownloadsInv'
  BY <1>2, DownloadStep
<1>3. ASSUME NEW x \in Addresses, Downloads!Stop(x) PROVE DownloadsInv'
  BY <1>3, StopStep
<1>4. ASSUME NEW x \in Addresses, Downloads!Finished(x) PROVE DownloadsInv'
  BY <1>4, FinishedStep
<1>5. ASSUME NEW x \in Addresses, NEW code \in Errors, Downloads!ErrorOccurred(x, code) PROVE DownloadsInv'
  BY <1>5, ErrorStep
<1>6. ASSUME NEW x \in Addresses, Downloads!Delete(x) PROVE DownloadsInv'
  BY <1>6, DeleteStep
<1>7. CASE Downloads!Deleted
  BY <1>7, DeletedStep
<1>8. CASE Downloads!Destroy
  BY <1>8, DestroyStep
<1> QED BY <1>1, <1>2, <1>3, <1>4, <1>5, <1>6, <1>7, <1>8 DEF Downloads!Next, Downloads!Ends,
    Downloads!DeleteOne

-----------------------------------------------------------------------------
(* The REST client and the downloader, side by side                         *)

PartInv == Inv /\ DownloadsInv

\* The component that was picked makes its steps, the other none.
LEMMA PartInvAlways == PartSpec => []PartInv
<1>1. PartInit => PartInv
  BY InitHolds, DownloadsInit DEF PartInit, PartInv
<1>2. PartInv /\ [PartNext]_partVars => PartInv'
  <2> SUFFICES ASSUME PartInv, [PartNext]_partVars PROVE PartInv'
    OBVIOUS
  <2>1. [Next]_vars /\ [Downloads!Next]_downloadVars
    BY DEF PartNext, RestNext, DownloadNext, partVars
  <2> QED
    BY <2>1, StepKeeps, DownloadsStep DEF PartInv
<1> QED
  BY <1>1, <1>2, PTL DEF PartSpec

\* Side by side, both components keep their types.
THEOREM PartTypeCorrect == PartSpec => []PartTypeOK
<1>1. PartInv => PartTypeOK
  BY DEF PartInv, Inv, DownloadsInv, PartTypeOK
<1> QED
  BY <1>1, PartInvAlways, PTL

\* Whoever asked for a download hears of it at most once, with his own number
\* and his own error, and hears nothing after the downloader is gone, wherever
\* replies are allocated.
THEOREM PartCalledBackOnce == PartSpec => []CalledBackOnce
<1>1. PartInv => CalledBackOnce
  BY DEF PartInv, DownloadsInv, CalledBackOnce
<1> QED
  BY <1>1, PartInvAlways, PTL

\* Next to the downloader, too, results go to the newest client only.
THEOREM PartNewestTakesAll == PartSpec => []NewestTakesAll
<1>1. PartInv => NewestTakesAll
  BY DEF PartInv, Inv
<1> QED
  BY <1>1, PartInvAlways, PTL
=============================================================================
