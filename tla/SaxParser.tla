------------------------------- MODULE SaxParser -------------------------------
(***************************************************************************)
(* util/xml/SaxParser.cpp: what a handler is told while Xerces reads a      *)
(* document, one action per event of Xerces.  The class a handler derives   *)
(* is given by the constant operators, which take the handler as it is and  *)
(* return a record: "self", the handler after the call, and "go", what the  *)
(* call returns.  Which event comes next is up to the document.             *)
(***************************************************************************)
EXTENDS Naturals, Sequences

CONSTANTS OnProcessingInstruction(_),     \* handler
          OnStartElement(_, _, _, _),     \* handler, name, path, attributes
          OnEndElement(_, _, _),          \* handler, name, path
          OnCharacters(_, _),             \* handler, path
          OnError(_)                      \* handler

VARIABLES stack,       \* m_stack, the names of the open elements
          characters,  \* m_characters: "none", "blank" or "text"
          stopped,     \* m_stopped of the stream
          handler

vars == <<stack, characters, stopped, handler>>

Tag(path) == path[Len(path)]

\* ProcessCharacters(): blank characters are dropped, whatever they separate.
Flushed ==
  IF characters = "text" THEN OnCharacters(handler, stack) ELSE [self |-> handler, go |-> TRUE]

\* What Xerces does after a stop reaches no handler.
Going == ~stopped

Told(result) == handler' = result.self /\ stopped' = ~result.go

ProcessingInstruction ==
  /\ Going
  /\ Told(IF Flushed.go THEN OnProcessingInstruction(Flushed.self) ELSE Flushed)
  /\ characters' = "none"
  /\ UNCHANGED stack

StartElement(name, attributes) ==
  LET path == Append(stack, name) IN
  /\ Going
  /\ Told(IF Flushed.go THEN OnStartElement(Flushed.self, name, path, attributes) ELSE Flushed)
  /\ stack' = IF Flushed.go THEN path ELSE stack
  /\ characters' = "none"

\* The one event that goes on to the handler after the characters stopped it.
EndElement ==
  LET result == OnEndElement(Flushed.self, Tag(stack), stack) IN
  /\ Going
  /\ stack # <<>>
  /\ Told([result EXCEPT !.go = @ /\ Flushed.go])
  /\ stack' = SubSeq(stack, 1, Len(stack) - 1)
  /\ characters' = "none"

Characters(kind) ==
  /\ Going
  /\ characters' = IF characters = "text" THEN "text" ELSE kind
  /\ UNCHANGED <<stack, stopped, handler>>

\* error() and fatalError() do not flush what was read before.
Error ==
  /\ Going
  /\ Told(OnError(handler))
  /\ UNCHANGED <<stack, characters>>

Init(first) == stack = <<>> /\ characters = "none" /\ stopped = FALSE /\ handler = first
=============================================================================
