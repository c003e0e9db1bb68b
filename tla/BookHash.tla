------------------------------- MODULE BookHash -------------------------------
(***************************************************************************)
(* util/bookhash/hashfb2.cpp: Fb2Parser, a handler of SaxParser that walks   *)
(* through an FB2 book and collects its words per section, its pictures, the *)
(* cover, the title and the annotation.  Every text stands for one word, so  *)
(* the histogram of a section is a number; a picture is the binary element   *)
(* it comes from, numbered in the order of the book.                         *)
(***************************************************************************)
EXTENDS Naturals, Sequences, FiniteSets

CONSTANTS Ids,       \* names of pictures
          MaxPieces  \* bound: elements and texts of a book

VARIABLES stack, characters, stopped, handler,  \* of SaxParser
          pieces,   \* the elements and texts begun so far
          texts,    \* history: body texts seen inside the root and each open section
          hollow    \* history: binaries that ended without data

vars == <<stack, characters, stopped, handler, pieces, texts, hollow>>

\* As in SequencesExt, all of which an instance would bring into every proof.
Front(s)       == SubSeq(s, 1, Len(s) - 1)
Last(s)        == s[Len(s)]
IsPrefix(s, t) == Len(s) <= Len(t) /\ SubSeq(s, 1, Len(s)) = SubSeq(t, 1, Len(s))

NoId == "none"

Body           == <<"FictionBook", "body">>
TitleInfo      == <<"FictionBook", "description", "title-info">>
Title          == Append(TitleInfo, "book-title")
Annotation     == Append(TitleInfo, "annotation")
CoverpageImage == TitleInfo \o <<"coverpage", "image">>
Binaries       == {<<"FictionBook", "binary">>, Append(Body, "binary")}

-----------------------------------------------------------------------------
(* Fb2Parser.  "open" has a histogram for the root and each open section,    *)
(* "closed" depth and histogram of the sections that have ended.             *)

Fb2Parser ==
  [open |-> <<0>>, closed |-> <<>>, picId |-> NoId, isBinary |-> FALSE, isAnnotation |-> FALSE,
   coverPage |-> NoId, cover |-> NoId, images |-> <<>>, annotation |-> 0, title |-> FALSE]

True(p) == [self |-> p, go |-> TRUE]

HashInstruction(p) == True(p)

HashStartElement(p, name, path, id) ==
  True(CASE name = "section"       -> [p EXCEPT !.open = Append(@, 0)]
         [] path \in Binaries      -> [p EXCEPT !.isBinary = TRUE, !.picId = id]
         [] path = Annotation      -> [p EXCEPT !.isAnnotation = TRUE]
         [] path = CoverpageImage  -> [p EXCEPT !.coverPage = id]
         [] OTHER                  -> p)

ToParent(open) == Front(open)

HashEndElement(p, name, path) ==
  True(CASE path \in Binaries   -> [p EXCEPT !.isBinary = FALSE]
         [] name = "section"    -> [p EXCEPT !.closed = Append(@, <<Len(p.open) - 1, Last(p.open)>>),
                                             !.open = ToParent(@)]
         [] path = Annotation   -> [p EXCEPT !.isAnnotation = FALSE]
         [] OTHER               -> p)

AddPicture(p) ==
  IF p.picId = p.coverPage
  THEN [p EXCEPT !.cover = p.picId, !.picId = NoId]
  ELSE [p EXCEPT !.images = Append(@, p.picId), !.picId = NoId]

\* The section and all those around it.
CountUpwards(open) == [k \in DOMAIN open |-> open[k] + 1]

AddWord(p, path) ==
  LET noted == IF p.isAnnotation THEN [p EXCEPT !.annotation = @ + 1] ELSE p IN
  CASE path = Title         -> [noted EXCEPT !.title = TRUE]
    [] IsPrefix(Body, path) -> [noted EXCEPT !.open = CountUpwards(@)]
    [] OTHER                -> noted

\* Mutant: a picture without data stays the one that data is expected for.
KeepPicture(p) == p

DropPicture(p) == [p EXCEPT !.picId = NoId]

\* A text that follows a picture without data is taken for its data, and lost.
HashCharacters(p, path) ==
  True(IF p.picId = NoId THEN AddWord(p, path)
       ELSE IF p.isBinary /\ path \in Binaries THEN AddPicture(p)
       ELSE DropPicture(p))

HashError(p) == [self |-> p, go |-> FALSE]

Reader == INSTANCE SaxParser
  WITH OnProcessingInstruction <- HashInstruction, OnStartElement <- HashStartElement,
       OnEndElement <- HashEndElement, OnCharacters <- HashCharacters, OnError <- HashError

-----------------------------------------------------------------------------
(* The document: sections and pictures nested as the format allows, pictures *)
(* also inside a body.                                                       *)

Children(name) ==
  CASE name = "FictionBook" -> {"description", "body"}
    [] name = "description" -> {"title-info"}
    [] name = "title-info"  -> {"book-title", "annotation", "coverpage"}
    [] name = "annotation"  -> {"p"}
    [] name \in {"body", "section"} -> {"section", "p"}
    [] OTHER -> {}

HasText == {"book-title", "p", "binary"}

\* The history of a text that is read to its end.
Read ==
  IF characters = "text" /\ IsPrefix(Body, stack) /\ stack \notin Binaries
  THEN CountUpwards(texts) ELSE texts

Start(name, id) ==
  /\ pieces < MaxPieces
  /\ Reader!StartElement(name, id)
  /\ pieces' = pieces + 1
  /\ texts' = IF name = "section" THEN Append(Read, 0) ELSE Read
  /\ UNCHANGED hollow

StartBook == stack = <<>> /\ pieces = 0 /\ Start("FictionBook", NoId)

StartNode == stack # <<>> /\ \E name \in Children(Last(stack)) : Start(name, NoId)

StartBinary == \E id \in Ids : /\ Append(stack, "binary") \in Binaries
                               /\ Start("binary", id)

StartImage == \E id \in Ids : /\ Append(stack, "image") = CoverpageImage
                              /\ Start("image", id)

ReadCharacters(kind) ==
  /\ stack # <<>>
  /\ kind = "text" => Last(stack) \in HasText /\ pieces < MaxPieces
  /\ Reader!Characters(kind)
  /\ pieces' = IF kind = "text" THEN pieces + 1 ELSE pieces
  /\ UNCHANGED <<texts, hollow>>

EndNode ==
  /\ Reader!EndElement
  /\ texts' = IF Last(stack) = "section" THEN Front(Read) ELSE Read
  /\ hollow' = IF stack \in Binaries /\ characters # "text" THEN hollow + 1 ELSE hollow
  /\ UNCHANGED pieces

\* Not amid the data of a picture.
ReadInstruction ==
  /\ stack # <<>> /\ stack \notin Binaries
  /\ Reader!ProcessingInstruction
  /\ texts' = Read
  /\ UNCHANGED <<pieces, hollow>>

ReadError == Reader!Error /\ UNCHANGED <<pieces, texts, hollow>>

Finished == (stopped \/ pieces = MaxPieces \/ stack = <<>>) /\ UNCHANGED vars

Init ==
  /\ Reader!Init(Fb2Parser)
  /\ pieces = 0 /\ texts = <<0>> /\ hollow = 0

Next ==
  \/ StartBook \/ StartNode \/ StartBinary \/ StartImage \/ EndNode
  \/ ReadInstruction \/ ReadError \/ Finished
  \/ \E kind \in {"blank", "text"} : ReadCharacters(kind)

Spec == Init /\ [][Next]_vars

-----------------------------------------------------------------------------
(* Properties                                                                *)

\* The elements of a book.
Names == {"FictionBook", "description", "body", "title-info", "book-title", "annotation",
          "coverpage", "image", "binary", "section", "p"}

\* Every variable has its type; the parser is inside exactly the sections that
\* are open in the document, and knows when it is in a picture or the annotation.
TypeOK ==
  /\ stack \in Seq(Names) /\ characters \in {"none", "blank", "text"} /\ stopped \in BOOLEAN
  /\ handler.open \in Seq(Nat) /\ handler.closed \in Seq(Nat \X Nat)
  /\ handler.picId \in Ids \cup {NoId} /\ handler.coverPage \in Ids \cup {NoId}
  /\ handler.images \in Seq(Ids) /\ handler.annotation \in Nat /\ handler.title \in BOOLEAN
  /\ pieces \in 0 .. MaxPieces /\ hollow \in Nat
  /\ Len(handler.open) = 1 + Cardinality({i \in DOMAIN stack : stack[i] = "section"})
  /\ handler.isBinary <=> stack \in Binaries
  /\ handler.isAnnotation <=> IsPrefix(Annotation, stack)

\* In the histogram of each open section, and of the book, every text read
\* inside it is counted once, wherever sections begin and end between texts;
\* each picture without data can cost one text that follows it, and no more.
TextsCounted ==
  \A k \in DOMAIN handler.open :
    handler.open[k] <= texts[k] /\ texts[k] <= handler.open[k] + hollow
=============================================================================
