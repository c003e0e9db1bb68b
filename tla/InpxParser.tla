------------------------------ MODULE InpxParser ------------------------------
(* util/Fb2InpxParser.cpp: the handler of SaxParser that collects, out of an FB2 *)
(* book, the line which stands for the book in the index of a collection. A text  *)
(* is there or not; authors are the numbers of their elements, each with the      *)
(* parts of the name that have a text.                                           *)
EXTENDS Naturals, Sequences, FiniteSets

CONSTANTS
  SeqNumbers,  \* numbers of a book in its series, as they are written
  MaxElements  \* bound: elements of a book, the frame around them not counted

VARIABLES
  stack, characters, stopped, handler,  \* of SaxParser
  elements,    \* the elements begun so far, but for the frame
  frame,       \* the parts of the frame that were begun
  told,        \* history: the elements and where they stand, in the order of the document
  withText     \* history: those with a text

vars == <<stack, characters, stopped, handler, elements, frame, told, withText>>

\* As in SequencesExt, all of which an instance would bring into every proof.
Front(s)       == SubSeq(s, 1, Len(s) - 1)
Last(s)        == s[Len(s)]
IsPrefix(s, t) == Len(s) <= Len(t) /\ SubSeq(s, 1, Len(s)) = SubSeq(t, 1, Len(s))

Description == <<"FictionBook", "description">>
TitleInfo   == Append(Description, "title-info")
Author      == Append(TitleInfo, "author")
AuthorDoc   == Description \o <<"document-info", "author">>
Annotation  == Append(TitleInfo, "annotation")
Sequence    == Append(TitleInfo, "sequence")
Year        == Description \o <<"publish-info", "year">>
NameParts   == {"first-name", "last-name", "middle-name"}
\* Elements whose text replaces the one before.
Fields      == {Append(TitleInfo, name) : name \in {"book-title", "lang", "keywords"}} \cup {Year}

-------------------------------------------------------------------------------
(* The handler; "fields" are those that have a text. *)

InpxHandler == [authors |-> <<>>, insertAuthorMode |-> FALSE, annotationMode |-> FALSE,
                annotation |-> 0, size |-> 0, genres |-> 0, series |-> 0, seqNumber |-> "",
                fields |-> {}, error |-> FALSE]

True(p) == [self |-> p, go |-> TRUE]

OnProcessingInstruction(p) == True(p)

\* GetSeqNumber(): a number that is none, or not positive, is left out.
GetSeqNumber(number) == IF number \in {"0", "x"} THEN "" ELSE number

\* An attribute is [n |-> the number of the element, number |-> that in the series].
OnStartElementAuthor(p, attribute) ==
  [p EXCEPT !.insertAuthorMode = TRUE, !.authors = Append(@, [n |-> attribute.n, parts |-> {}])]

OnStartElementAuthorDoc(p, attribute) ==
  IF p.authors = <<>> THEN OnStartElementAuthor(p, attribute) ELSE p

OnStartElementSequence(p, attribute) ==
  [p EXCEPT !.series = attribute.n, !.seqNumber = GetSeqNumber(attribute.number)]

OnStartElement(p, name, path, attribute) ==
  True(CASE path = Author     -> OnStartElementAuthor(p, attribute)
         [] path = AuthorDoc  -> OnStartElementAuthorDoc(p, attribute)
         [] path = Sequence   -> OnStartElementSequence(p, attribute)
         [] path = Annotation -> [p EXCEPT !.annotationMode = TRUE]
         [] OTHER             -> p)

EndMode(p) == [p EXCEPT !.insertAuthorMode = FALSE]

OnEndElementAuthor(p) ==
  EndMode(IF p.insertAuthorMode /\ Last(p.authors).parts = {}
          THEN [p EXCEPT !.authors = Front(@)] ELSE p)

OnEndElement(p, name, path) ==
  True(CASE path \in {Author, AuthorDoc} -> OnEndElementAuthor(p)
         [] path = Annotation -> [p EXCEPT !.annotationMode = FALSE]
         [] OTHER -> p)

WithPart(author, part) == [author EXCEPT !.parts = @ \cup {part}]

ParseName(p, part) ==
  IF ~p.insertAuthorMode THEN p
  ELSE [p EXCEPT !.authors = Append(Front(@), WithPart(Last(@), part))]

ParseField(p, path) == [p EXCEPT !.fields = @ \cup {path}]

OnCharacters(p, path) ==
  LET noted == [p EXCEPT !.annotation = IF p.annotationMode THEN @ + 1 ELSE @, !.size = @ + 1]
  IN True(
    CASE path = Append(TitleInfo, "genre") -> [noted EXCEPT !.genres = @ + 1]
      [] Front(path) \in {Author, AuthorDoc} /\ Last(path) \in NameParts ->
           ParseName(noted, Last(path))
      [] path \in Fields -> ParseField(noted, path)
      [] OTHER -> noted)

OnError(p) == [self |-> [p EXCEPT !.error = TRUE], go |-> FALSE]

Reader == INSTANCE SaxParser

\* Parse(): no line for a book with an error, else one field after the other. The
\* date is that of the file, or of the archive.
Parse(isDeleted, fileHasTime) ==
  IF handler.error THEN <<>>
  ELSE <<handler.authors, handler.genres, Append(TitleInfo, "book-title") \in handler.fields,
         handler.series, handler.seqNumber, handler.size, isDeleted,
         IF fileHasTime THEN "file" ELSE "archive", handler.fields>>

-------------------------------------------------------------------------------
(* The document: the sections of the description come in the order of the format. *)

Frame == <<<<"FictionBook">>, Description, TitleInfo, Front(AuthorDoc), Front(Year),
           <<"FictionBook", "body">>>>

Children(path) ==
  CASE path = TitleInfo -> {"genre", "author", "book-title", "annotation", "sequence"}
    [] path = Front(AuthorDoc) -> {"author"}
    [] path = Front(Year) -> {"year"}
    [] path \in {Author, AuthorDoc} -> {"first-name", "last-name"}
    [] path \in {Annotation, <<"FictionBook", "body">>} -> {"p"}
    [] OTHER -> {}

StartFrame ==
  \E i \in 1 .. Len(Frame) :
    /\ i > frame /\ Front(Frame[i]) = stack /\ (i <= 2 => i = frame + 1)
    /\ Reader!StartElement(Last(Frame[i]), [n |-> 0, number |-> ""])
    /\ frame' = i
    /\ UNCHANGED <<elements, told, withText>>

StartPiece ==
  \E name \in Children(stack), number \in SeqNumbers :
    /\ name # "sequence" => number = "0"
    /\ elements < MaxElements
    /\ Reader!StartElement(name, [n |-> elements + 1, number |-> number])
    /\ elements' = elements + 1
    /\ told' = Append(told, Append(stack, name))
    /\ UNCHANGED <<frame, withText>>

\* The text of the element that was begun last.
ReadText ==
  /\ elements > 0 /\ stack = told[elements] /\ elements \notin withText
  /\ Children(stack) = {}
  /\ Reader!Characters("text")
  /\ withText' = withText \cup {elements}
  /\ UNCHANGED <<elements, frame, told>>

EndPiece == stack # <<>> /\ Reader!EndElement /\ UNCHANGED <<elements, frame, told, withText>>

ReadError == stack # <<>> /\ Reader!Error /\ UNCHANGED <<elements, frame, told, withText>>

Finished == (stopped \/ (frame > 0 /\ stack = <<>>)) /\ UNCHANGED vars

Init == Reader!Init(InpxHandler) /\ elements = 0 /\ frame = 0 /\ told = <<>> /\ withText = {}

Next == StartFrame \/ StartPiece \/ ReadText \/ EndPiece \/ ReadError \/ Finished

Spec == Init /\ [][Next]_vars

-------------------------------------------------------------------------------
(* Properties *)

\* The elements of a book that the line is made of.
Names == {"FictionBook", "description", "title-info", "document-info", "publish-info", "body",
          "genre", "author", "book-title", "annotation", "sequence", "year", "p",
          "first-name", "last-name"}

\* The parser fills in an author only inside the element of that author, and takes
\* notes of the annotation only inside it.
TypeOK ==
  /\ stack \in Seq(Names) /\ elements \in 0 .. MaxElements /\ withText \subseteq 1 .. elements
  /\ handler.authors \in Seq([n : 1 .. MaxElements, parts : SUBSET NameParts])
  /\ handler.insertAuthorMode => \E author \in {Author, AuthorDoc} : IsPrefix(author, stack)
  /\ handler.annotationMode <=> IsPrefix(Annotation, stack)

\* The parts of the name of author i that have a text.
PartsOf(i) ==
  {Last(told[j]) : j \in {k \in withText : /\ k > i /\ Front(told[k]) = told[i]
                                          /\ \A l \in i + 1 .. k : told[l] # told[i]}}

\* The authors of one place that have a name.
Named(author) ==
  LET numbers == SelectSeq([i \in DOMAIN told |-> i],
                           LAMBDA i : told[i] = author /\ PartsOf(i) # {})
  IN [k \in DOMAIN numbers |-> [n |-> numbers[k], parts |-> PartsOf(numbers[k])]]

\* The line has the authors of the title that have a name, in their order; if there
\* is none, the first author of the document that has one; and every text of the
\* book is counted for its size.
AuthorsOfTheBook ==
  frame > 0 /\ stack = <<>> /\ ~stopped =>
    /\ handler.authors =
         IF Named(Author) # <<>> THEN Named(Author)
         ELSE IF Named(AuthorDoc) # <<>> THEN <<Named(AuthorDoc)[1]>> ELSE <<>>
    /\ handler.size = Cardinality(withText)
    /\ handler.annotation = Cardinality({i \in withText : IsPrefix(Annotation, told[i])})
    /\ Parse(FALSE, TRUE) # <<>>
=============================================================================
