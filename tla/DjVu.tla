---------------------------------- MODULE DjVu ----------------------------------
(***************************************************************************)
(* djvu/djvu.cpp: covers of DjVu books.  The library decodes a document and *)
(* its first page in threads of its own and puts messages in the one queue  *)
(* of its context, which all documents share, one after the other; what a   *)
(* document leaves in the queue is met by the next one.                     *)
(***************************************************************************)
EXTENDS Naturals, Sequences, SequencesExt

CONSTANTS MaxCovers,  \* bound: covers asked for
          MaxQueue    \* bound: messages in the queue when a document is opened

VARIABLES installed,  \* DJVU_PARSER and COVER_GETTER are set
          queue,      \* the messages: "newstream", "docinfo", "pageinfo", "error", "other"
          given,      \* the document has been given its stream
          document,   \* status of the job: "none", "started", "ok" or "failed"
          page,
          pc,         \* "idle", or what getCover() waits for: a message
          waiting,    \* "check" of the status, "wait" for any message, "peek"
          answer,     \* the last answer: "none", "nothing" or "cover"
          leftError,  \* an error was in the queue when the document was opened
          covers

vars == <<installed, queue, given, document, page, pc, waiting, answer, leftError, covers>>

Init ==
  /\ installed \in BOOLEAN   \* whether the library and its entry points were found
  /\ queue = <<>> /\ given = FALSE /\ document = "none" /\ page = "none"
  /\ pc = "idle" /\ waiting = "check" /\ answer = "none" /\ leftError = FALSE /\ covers = 0

\* Initializer::~Initializer()
Uninstall ==
  /\ pc = "idle" /\ installed
  /\ installed' = FALSE
  /\ UNCHANGED <<queue, given, document, page, pc, waiting, answer, leftError, covers>>

\* getCover() returns; document and page are released, their messages are not.
Return(result) ==
  /\ answer' = result
  /\ pc' = "idle" /\ waiting' = "check" /\ document' = "none" /\ page' = "none"

\* GetCoverStub(), and a decoder that cannot be created.
NoDecoder ==
  /\ pc = "idle" /\ covers < MaxCovers
  /\ Return("nothing") /\ covers' = covers + 1
  /\ UNCHANGED <<installed, queue, given, leftError>>

OpenDocument ==
  /\ pc = "idle" /\ covers < MaxCovers /\ installed /\ Len(queue) < MaxQueue
  /\ document' = "started" /\ given' = FALSE
  /\ leftError' = Contains(queue, "error")
  /\ queue' = Append(queue, "newstream")
  /\ pc' = "newstream" /\ waiting' = "wait" /\ covers' = covers + 1
  /\ UNCHANGED <<installed, page, answer>>

-----------------------------------------------------------------------------
(* WaitForDjvuMessage()                                                      *)

MessageWait ==
  /\ pc # "idle" /\ waiting = "wait" /\ queue # <<>>
  /\ waiting' = "peek"
  /\ UNCHANGED <<installed, queue, given, document, page, pc, answer, leftError, covers>>

\* Mutant: one message is enough.
AnyMessage(message) == TRUE

\* The messages that end the wait: the one waited for, and errors.
EndsWait(message) == message \in {pc, "error"}

\* After the wait for the stream OpenDocument() goes on to its status.
Peek ==
  LET message == Head(queue) IN
  /\ pc # "idle" /\ waiting = "peek"
  /\ IF queue = <<>> THEN waiting' = "check" /\ UNCHANGED <<queue, given>>
     ELSE /\ queue' = Tail(queue)
          /\ waiting' = IF EndsWait(message) THEN "check" ELSE "peek"
          /\ given' = (given \/ (message = "newstream" /\ pc = "newstream"))
  /\ pc' = IF waiting' = "check" /\ pc = "newstream" THEN "docinfo" ELSE pc
  /\ UNCHANGED <<installed, document, page, answer, leftError, covers>>

\* The loop of getCover() or of OpenDocument() goes on while its job does.
StillGoing ==
  /\ waiting = "check"
  /\ \/ pc = "docinfo" /\ document = "started"
     \/ pc = "pageinfo" /\ page = "started"
  /\ waiting' = "wait"
  /\ UNCHANGED <<installed, queue, given, document, page, pc, answer, leftError, covers>>

OpenPage ==
  /\ waiting = "check" /\ pc = "docinfo" /\ document # "started"
  /\ \/ /\ page' = "started" /\ pc' = "pageinfo"
        /\ UNCHANGED <<document, waiting, answer>>
     \/ Return("nothing")
  /\ UNCHANGED <<installed, queue, given, leftError, covers>>

\* A failed page has no size. One that is too small, and one that is not drawn or
\* saved, gives no cover either.
Render ==
  /\ waiting = "check" /\ pc = "pageinfo" /\ page # "started"
  /\ \/ Return("nothing")
     \/ page = "ok" /\ Return("cover")
  /\ UNCHANGED <<installed, queue, given, leftError, covers>>

-----------------------------------------------------------------------------
(* The library                                                               *)

\* A job ends, and its messages are put, errors among them. Drawing has messages too.
DecodeDocument ==
  /\ document = "started" /\ given
  /\ \/ document' = "ok" /\ \E m \in {<<"docinfo">>, <<"error", "docinfo">>} : queue' = queue \o m
     \/ document' = "failed"
        /\ \E m \in {<<"error", "docinfo">>, <<"docinfo", "error">>} : queue' = queue \o m
  /\ UNCHANGED <<installed, given, page, pc, waiting, answer, leftError, covers>>

DecodePage ==
  /\ page = "started"
  /\ \/ page' = "ok" /\ document = "ok"
        /\ \E m \in {<<"pageinfo">>, <<"pageinfo", "other">>, <<"error", "pageinfo">>} :
             queue' = queue \o m
     \/ page' = "failed"
        /\ \E m \in {<<"error", "pageinfo">>, <<"pageinfo", "error">>} : queue' = queue \o m
  /\ UNCHANGED <<installed, given, document, pc, waiting, answer, leftError, covers>>

Library == DecodeDocument \/ DecodePage

Parser == MessageWait \/ Peek \/ StillGoing \/ OpenPage \/ Render

Next == Uninstall \/ NoDecoder \/ OpenDocument \/ Parser \/ Library

-----------------------------------------------------------------------------
(* Properties                                                                *)

\* getCover() waits for a document that is never given its stream, and so for
\* ever, only if an earlier document left an error in the queue.
StuckByLeftError == pc \in {"docinfo", "pageinfo"} /\ ~given => leftError

=============================================================================
