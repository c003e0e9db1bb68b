------------------------------ MODULE Downloader ------------------------------
(***************************************************************************)
(* network/network/downloader.cpp.  A download owes its caller one callback, *)
(* which comes with the destruction of its reply: `finished' and             *)
(* `errorOccurred' only ask for the deletion, the event loop deletes later,  *)
(* and a callback may start downloads before its own has ended.              *)
(*                                                                         *)
(* m_replies is keyed by the ADDRESS of a reply, which the next reply may    *)
(* get; the sockets below (QNetworkAccessManager) are external.              *)
(***************************************************************************)
EXTENDS Naturals, Functions

CONSTANTS Addresses,     \* where replies are allocated
          Errors,        \* QNetworkReply::NetworkError
          MaxDownloads   \* bound: downloads requested

NoError  == "NoError"
Canceled == "OperationCanceledError"
Codes    == Errors \cup {NoError, Canceled}
Ids      == 1 .. MaxDownloads

VARIABLES open,       \* the downloader has not been destroyed
          lastId,     \* m_id
          replies,    \* the replies that exist, by address
          entries,    \* m_replies
          calling,    \* the address whose callback is running, or none
          told        \* history: the callbacks

vars == <<open, lastId, replies, entries, calling, told>>

Nowhere == "nowhere"

\* Handlers and deletions run in the event loop, requests also inside a callback.
InLoop == open /\ calling = Nowhere

-----------------------------------------------------------------------------

Without(f, a) == Restrict(f, DOMAIN f \ {a})

\* try_emplace() leaves an entry alone that is there already.
TryEmplace(f, a, e) == [b \in DOMAIN f \cup {a} |-> IF b \in DOMAIN f THEN f[b] ELSE e]

\* `number' is who called, for the history: the lambda has the callback.
Download(a) ==
  /\ open /\ a \notin DOMAIN replies /\ lastId < MaxDownloads
  /\ lastId' = lastId + 1
  /\ replies' = [b \in DOMAIN replies \cup {a} |->
                   IF b = a THEN [number |-> lastId', state |-> "running", doomed |-> FALSE,
                                  failed |-> NoError]
                            ELSE replies[b]]
  /\ entries' = TryEmplace(entries, a, [id |-> lastId', code |-> NoError])
  /\ UNCHANGED <<open, calling, told>>

KeepError(a, code) == [entries EXCEPT ![a].code = code]

\* errorOccurred: the handler keeps the code and asks for the deletion.
ErrorOccurred(a, code) ==
  /\ InLoop /\ a \in DOMAIN replies /\ replies[a].state = "running"
  /\ entries' = KeepError(a, code)
  /\ replies' = [replies EXCEPT ![a].state = "failed", ![a].failed = code, ![a].doomed = TRUE]
  /\ UNCHANGED <<open, lastId, calling, told>>

\* finished follows success and error alike, unless the reply is deleted first.
Finished(a) ==
  /\ InLoop /\ a \in DOMAIN replies /\ replies[a].state \in {"running", "failed"}
  /\ replies' = [replies EXCEPT ![a].state = "finished", ![a].doomed = TRUE]
  /\ UNCHANGED <<open, lastId, entries, calling, told>>

\* The caller stops a download in its progress function: close() cancels the
\* reply, which reports an error and is finished at once.
Stop(a) ==
  /\ InLoop /\ a \in DOMAIN replies /\ replies[a].state = "running"
  /\ entries' = KeepError(a, Canceled)
  /\ replies' = [replies EXCEPT ![a] = [@ EXCEPT !.state = "finished", !.failed = Canceled,
                                                 !.doomed = TRUE]]
  /\ UNCHANGED <<open, lastId, calling, told>>

\* What the handler of `destroyed' tells the caller whose reply was at a.
Callback(a, known, exists) ==
  IF a \in DOMAIN known
    THEN {[to |-> replies[a].number, id |-> known[a].id, code |-> known[a].code,
           failed |-> replies[a].failed, open |-> exists]}
    ELSE {}

\* The event loop deletes a reply: the callback runs inside its destructor.
Delete(a) ==
  /\ InLoop /\ a \in DOMAIN replies /\ replies[a].doomed
  /\ told' = told \cup Callback(a, entries, open)
  /\ calling' = a
  /\ UNCHANGED <<open, lastId, replies, entries>>

\* Mutant: the entry outlives its reply, whose address is used again.
KeepEntry(a) == entries

EraseEntry(a) == Without(entries, a)

\* The callback has returned, and the memory of the reply is free.
Deleted ==
  /\ calling # Nowhere
  /\ entries' = EraseEntry(calling)
  /\ replies' = Without(replies, calling)
  /\ calling' = Nowhere
  /\ UNCHANGED <<open, lastId, told>>

Cleared == <<>>

\* ~Impl(): the manager is destroyed, and its replies with it, after m_replies
\* has been cleared.  Nobody destroys a downloader inside its callback.
Destroy ==
  /\ InLoop
  /\ open' = FALSE
  /\ told' = told \cup UNION {Callback(a, Cleared, FALSE) : a \in DOMAIN replies}
  /\ replies' = <<>> /\ entries' = <<>>
  /\ UNCHANGED <<lastId, calling>>

-----------------------------------------------------------------------------

Init == open = TRUE /\ lastId = 0 /\ replies = <<>> /\ entries = <<>> /\ calling = Nowhere /\ told = {}

Ends == \E a \in Addresses : Finished(a) \/ \E code \in Errors : ErrorOccurred(a, code)

DeleteOne == \E a \in Addresses : Delete(a)

Next ==
  \/ \E a \in Addresses : Download(a) \/ Stop(a)
  \/ Ends \/ DeleteOne \/ Deleted \/ Destroy

\* Replies end, by success, by an error or by a timeout, the event loop deletes
\* what it was asked to, and callbacks return.
Fairness ==
  /\ \A a \in Addresses : WF_vars(Finished(a) \/ \E code \in Errors : ErrorOccurred(a, code))
  /\ \A a \in Addresses : WF_vars(Delete(a))
  /\ WF_vars(Deleted)

-----------------------------------------------------------------------------
(* Properties                                                                *)

\* Every variable has its type, and only a reply that exists has an entry.
TypeOK ==
  /\ open \in BOOLEAN /\ lastId \in 0 .. MaxDownloads
  /\ DOMAIN replies \subseteq Addresses
  /\ \A a \in DOMAIN replies :
       replies[a] \in [number : Ids, state : {"running", "failed", "finished"},
                       doomed : BOOLEAN, failed : Codes]
  /\ DOMAIN entries = DOMAIN replies
  /\ \A a \in DOMAIN entries : entries[a] \in [id : Ids, code : Codes]
  /\ calling \in Addresses \cup {Nowhere}
  /\ told \subseteq [to : Ids, id : Ids, code : Codes, failed : Codes, open : BOOLEAN]

\* Whoever asked for a download hears of it at most once, with the number that
\* Download() returned and the error of his own reply, wherever earlier replies
\* were allocated and whatever other callbacks start; and he hears nothing of
\* what is given up when the downloader is destroyed.
CalledBackOnce ==
  /\ \A t \in told : t.id = t.to /\ t.code = t.failed /\ t.open
  /\ \A t, u \in told : t.to = u.to => t = u

\* Every download is reported, unless the downloader is destroyed before.
EveryDownloadAnswered ==
  \A n \in Ids : lastId >= n ~> ~open \/ \E t \in told : t.to = n
=============================================================================
