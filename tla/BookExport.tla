------------------------------- MODULE BookExport -------------------------------
(***************************************************************************)
(* util/ImageRestore.cpp, PrepareToExport() of an FB2 book: the pictures     *)
(* kept outside the book and, by BinaryParser, those inside it are collected *)
(* in "covers"; SaxPrinter, a handler of SaxParser, then copies the document *)
(* through an XmlWriter and on the way puts the pictures in, replaces the    *)
(* author, title and series, and leaves its name in program-used.  After an  *)
(* error the book is exported as it is.                                      *)
(***************************************************************************)
EXTENDS XmlWriter

CONSTANTS Ids,        \* names of pictures
          CoverName,  \* the name under which the archive of covers offers one
          Metadata,   \* "none", of a "book" without a series, or of a "series"
          Processings \* sets of "RemoveCovers", "RemoveImages" and "Recode"

ASSUME CoverAssumption == CoverName \in Ids

VARIABLES stack, characters, stopped, handler,   \* of SaxParser
          book,    \* of the document read so far: how deep the outermost open element
                   \* with text is, and whether it was ever "marked" or "loose"
          given,   \* the covers that SaxPrinter is given
          left,    \* the binaries of the document still to come
          phase    \* how far the document has been read

bookVars == <<book, given>>
vars == <<stack, characters, stopped, handler, book, given, left, phase>>

-----------------------------------------------------------------------------
(* The paths and names that SaxPrinter knows.                                *)

FictionBook  == <<"FictionBook">>
Description  == Append(FictionBook, "description")
DocumentInfo == Append(Description, "document-info")
ProgramUsed  == Append(DocumentInfo, "program-used")
TitleInfo    == Append(Description, "title-info")
Replaced     == {Append(TitleInfo, name) : name \in {"author", "book-title", "sequence"}}

-----------------------------------------------------------------------------
(* Pictures.  A body is a "picture", "broken" or "empty".                    *)

ToBeRemoved(isCover, processing) ==
  (IF isCover THEN "RemoveCovers" ELSE "RemoveImages") \in processing

\* RecodeImage() has something to write.
Recodes(image, processing) ==
  image.body = "picture" /\ ~ToBeRemoved(image.isCover, processing)

\* ExtractBookImages(): the body in the archives of covers, if it is not "none", and
\* the pictures by name in those of images. A cover displaces a picture of its
\* name, as the zip archive of either kind has displaced the 7z archive before.
FromArchives(cover, pictures, processing) ==
  LET covers == IF cover = "none" \/ ToBeRemoved(TRUE, processing) THEN {} ELSE {CoverName}
      images == IF ToBeRemoved(FALSE, processing) THEN {} ELSE DOMAIN pictures
  IN [id \in covers \cup images |->
        IF id \in covers THEN [isCover |-> TRUE, body |-> cover]
                         ELSE [isCover |-> FALSE, body |-> pictures[id]]]

\* BinaryParser: the binaries of the book that are not to be removed and have
\* characters, unless an archive has offered one of that name, be it broken.
BinaryParser(covers, binaries, cover, processing) ==
  LET found == {id \in DOMAIN binaries : /\ binaries[id] # "empty"
                                         /\ ~ToBeRemoved(id = cover, processing)}
  IN [id \in DOMAIN covers \cup found |->
        IF id \in DOMAIN covers THEN covers[id]
                                ELSE [isCover |-> id = cover, body |-> binaries[id]]]

-----------------------------------------------------------------------------
(* SaxPrinter.  "recoded", "copied" and "again" tell which binaries it has   *)
(* written: encoded anew, copied from the document, and any a second time.   *)

SaxPrinter(covers, metadata, processing) ==
  [metadata |-> metadata, imageProcessing |-> processing, writer |-> Writer(TRUE), covers |-> covers,
   hasError |-> FALSE, hasProgramUsed |-> FALSE, specialNode |-> FALSE,
   recoded |-> {}, copied |-> {}, again |-> FALSE]

True(p) == [self |-> p, go |-> TRUE]

WriteAuthor(w) ==
  WriteEndElement(
    WriteNode(WriteNode(WriteNode(WriteStartElement(w, "author"),
      "first-name", FALSE), "middle-name", TRUE), "last-name", FALSE))

WriteTitle(w) == WriteNode(w, "book-title", FALSE)

WriteSeries(w, metadata) ==
  IF metadata # "series" THEN w
  ELSE WriteEndElement(WriteAttribute(WriteAttribute(WriteStartElement(w, "sequence"))))

WriteBinary(w) ==
  WriteEndElement(WriteCharacters(WriteAttribute(WriteAttribute(WriteStartElement(w, "binary")))))

WriteRecoded(id, p) ==
  IF ~Recodes(p.covers[id], p.imageProcessing) THEN p
  ELSE [p EXCEPT !.writer = WriteBinary(@),
                 !.recoded = @ \cup {id},
                 !.again = @ \/ id \in p.recoded \cup p.copied]

Without(covers, id) == [i \in DOMAIN covers \ {id} |-> covers[i]]

\* Mutant: the picture stays among the covers after it has been written.
WriteImageKeeping(p, id) ==
  IF id \notin DOMAIN p.covers THEN [p EXCEPT !.specialNode = TRUE]
  ELSE [WriteRecoded(id, p) EXCEPT !.specialNode = TRUE]

\* A binary of the document gives way to the known picture of its name.
WriteImage(p, id) ==
  IF id \notin DOMAIN p.covers THEN [p EXCEPT !.specialNode = TRUE]
  ELSE [WriteRecoded(id, p) EXCEPT !.specialNode = TRUE, !.covers = Without(@, id)]

\* The pictures the document had no binary for, at the end of the book.  Each of
\* their binaries leaves the writer as the first one did.
WriteImages(p) ==
  LET known == {id \in DOMAIN p.covers : Recodes(p.covers[id], p.imageProcessing)}
  IN [p EXCEPT !.writer = IF known = {} THEN @ ELSE WriteBinary(@),
               !.recoded = @ \cup known,
               !.again = @ \/ known \cap (p.recoded \cup p.copied) # {},
               !.covers = [i \in {} |-> 0]]

PrinterProcessingInstruction(p) == True([p EXCEPT !.writer = WriteProcessingInstruction(@)])

TakesOver(p, name, id) == name = "binary" /\ p.covers # [i \in {} |-> 0]

CopyStart(p, name, id) ==
  IF name # "binary" THEN [p EXCEPT !.writer = WriteStartElement(@, name)]
  ELSE [p EXCEPT !.writer = WriteAttribute(WriteStartElement(@, name)),
                 !.copied = @ \cup {id},
                 !.again = @ \/ id \in p.recoded \cup p.copied]

AddMetadata(p, path) ==
  IF path # TitleInfo \/ p.metadata = "none" THEN p
  ELSE [p EXCEPT !.writer = WriteSeries(WriteTitle(WriteAuthor(@)), p.metadata)]

PrinterStartElement(p, name, path, id) ==
  True(IF p.specialNode \/ (p.metadata # "none" /\ path \in Replaced) THEN [p EXCEPT !.specialNode = TRUE]
       ELSE IF TakesOver(p, name, id) THEN WriteImage(p, id)
       ELSE AddMetadata(CopyStart(p, name, id), path))

\* Mutant: any end tag ends the node that is left out.
LeaveAtAnyEnd(p, name, path) == FALSE

StaysSpecial(p, name, path) == name # "binary" /\ path \notin Replaced

WriteProgramUsed(w) == WriteNode(w, "program-used", FALSE)

\* At the end of document-info, and without one at the end of description.
Stamp(p, path) ==
  CASE p.hasProgramUsed -> p
    [] ~p.hasProgramUsed /\ path = DocumentInfo ->
         [p EXCEPT !.writer = WriteProgramUsed(@), !.hasProgramUsed = TRUE]
    [] ~p.hasProgramUsed /\ path = Description ->
         [p EXCEPT !.writer = WriteEndElement(WriteProgramUsed(WriteStartElement(@, "document-info"))),
                   !.hasProgramUsed = TRUE]
    [] OTHER -> p

PrinterEndElement(p, name, path) ==
  LET stamped == Stamp(p, path)
      filled  == IF path = FictionBook THEN WriteImages(stamped) ELSE stamped
  IN True(IF p.specialNode THEN [p EXCEPT !.specialNode = StaysSpecial(p, name, path)]
          ELSE [filled EXCEPT !.writer = WriteEndElement(@)])

PrinterCharacters(p, path) ==
  True(IF p.specialNode THEN p
       ELSE [p EXCEPT !.writer = WriteCharacters(@), !.hasProgramUsed = @ \/ path = ProgramUsed])

PrinterError(p) == [self |-> [p EXCEPT !.hasError = TRUE], go |-> FALSE]

Reader == INSTANCE SaxParser
  WITH OnProcessingInstruction <- PrinterProcessingInstruction, OnStartElement <- PrinterStartElement,
       OnEndElement <- PrinterEndElement, OnCharacters <- PrinterCharacters, OnError <- PrinterError

-----------------------------------------------------------------------------
(* The document.  It is well-formed until an error is met.  A sequence would *)
(* be one more node like book-title.                                        *)

\* The names of the elements, of those that SaxPrinter adds too.
Names == {"FictionBook", "description", "title-info", "document-info", "author", "first-name",
          "middle-name", "last-name", "book-title", "sequence", "program-used", "body", "p",
          "strong", "binary"}

Children(name) ==
  CASE name = "FictionBook"   -> {"description", "body"}
    [] name = "description"   -> {"title-info", "document-info"}
    [] name = "title-info"    -> {"author", "book-title"}
    [] name = "document-info" -> {"program-used"}
    [] name = "author"        -> {"first-name"}
    [] name = "body"          -> {"p"}
    [] name = "p"             -> {"strong"}
    [] OTHER                  -> {}

HasText == {"first-name", "book-title", "program-used", "p", "strong"}

StartBook ==
  /\ phase = "before"
  /\ Reader!StartElement("FictionBook", Unnamed)
  /\ phase' = "inside"
  /\ UNCHANGED <<bookVars, left>>

\* An element that belongs inside text makes the book "loose" if it comes before
\* all text around it.
StartNode ==
  /\ phase = "inside"
  /\ \E name \in Children(Top(stack)) :
       /\ Reader!StartElement(name, Unnamed)
       /\ book' = [book EXCEPT !.loose = @ \/ (name \in Unbreakable /\ book.textAt = 0)]
  /\ UNCHANGED <<given, left, phase>>

StartBinary(id) ==
  /\ phase = "inside" /\ stack = FictionBook
  /\ id \in left
  /\ Reader!StartElement("binary", id)
  /\ left' = left \ {id}
  /\ UNCHANGED <<bookVars, phase>>

\* The characters of a node.  Whether a binary has any is not tied to its body
\* here: copied or left out, the writer has to cope with both.
ReadCharacters(kind) ==
  /\ phase = "inside"
  /\ kind = "text" => Top(stack) \in HasText \cup {"binary"}
  /\ Reader!Characters(kind)
  /\ book' = [book EXCEPT !.textAt = IF kind = "text" /\ @ = 0 THEN Len(stack) ELSE @]
  /\ UNCHANGED <<given, left, phase>>

EndNode ==
  /\ phase = "inside"
  /\ stack = FictionBook => left = {}
  /\ Reader!EndElement
  /\ phase' = IF stack = FictionBook THEN "after" ELSE phase
  /\ book' = [book EXCEPT !.textAt = IF @ = Len(stack) THEN 0 ELSE @]
  /\ UNCHANGED <<given, left>>

\* One that comes inside the book makes it "marked".
ReadInstruction ==
  /\ phase # "done"
  /\ Reader!ProcessingInstruction
  /\ book' = [book EXCEPT !.marked = @ \/ phase = "inside"]
  /\ UNCHANGED <<given, left, phase>>

ReadError ==
  /\ phase # "done"
  /\ Reader!Error
  /\ UNCHANGED <<bookVars, left, phase>>

\* Parse() returns.
Finish ==
  /\ phase = "after" \/ stopped
  /\ phase' = "done"
  /\ UNCHANGED <<stack, characters, stopped, handler, bookVars, left>>

\* PrepareToExport_fb2() reads the stream as it is when there is nothing to do.
Init ==
  \E binaries \in UNION {[names -> {"picture", "broken", "empty"}] : names \in SUBSET Ids},
     cover \in Ids, offered \in {"none", "picture", "broken"},
     pictures \in UNION {[names -> {"picture", "broken"}] : names \in SUBSET Ids},
     metadata \in Metadata, processing \in Processings :
    LET offers == FromArchives(offered, pictures, processing)
        covers == IF processing = {} /\ metadata = "none" THEN offers
                  ELSE BinaryParser(offers, binaries, cover, processing)
    IN /\ DOMAIN covers # {} \/ processing # {} \/ metadata # "none"
       /\ book = [textAt |-> 0, marked |-> FALSE, loose |-> FALSE]
       /\ given = covers /\ left = DOMAIN binaries /\ phase = "before"
       /\ Reader!Init(SaxPrinter(covers, metadata, processing))

Next ==
  \/ StartBook \/ StartNode \/ EndNode \/ ReadInstruction \/ ReadError \/ Finish
  \/ \E id \in Ids : StartBinary(id)
  \/ \E kind \in {"blank", "text"} : ReadCharacters(kind)

Spec == Init /\ [][Next]_vars

-----------------------------------------------------------------------------
(* Properties                                                                *)

Exported == phase = "done" /\ ~handler.hasError

\* Every variable has its type; the sets of pictures are sets of names.
TypeOK ==
  /\ stack \in Seq(Names) /\ characters \in {"none", "blank", "text"} /\ stopped \in BOOLEAN
  /\ handler.covers \in [DOMAIN handler.covers -> [isCover : BOOLEAN, body : {"picture", "broken"}]]
  /\ DOMAIN handler.covers \subseteq DOMAIN given
  /\ handler.recoded \cup handler.copied \cup left \subseteq Ids
  /\ phase \in {"before", "inside", "after", "done"}
  /\ handler.writer.unbreakableCount \in Nat /\ handler.writer.characterDepth <= Len(stack)

\* The writer is inside the same elements as the reader, or, while a node is
\* left out, inside those that lead to it: end tags always close what they
\* were meant for, through replaced metadata, pictures and stamps.
InStep ==
  IF handler.specialNode
  THEN \E n \in 0 .. Len(stack) - 1 :
         /\ handler.writer.elements = SubSeq(stack, 1, n)
         /\ SubSeq(stack, 1, n + 1) \in Replaced \cup {Append(FictionBook, "binary")}
  ELSE handler.writer.elements = stack

\* What is exported without an error is a complete well-formed document, unless
\* the original has a processing instruction inside the book, which may land
\* inside a start tag. Indentation touches text only in a book with such an
\* instruction, or where an element that belongs inside text comes before all of
\* it: BreakLine() knows of no text then, neither before <strong> in
\* <p><strong>a</strong><strong>b</strong></p> nor between the two.
OutputSound ==
  /\ handler.writer.out.sound \/ book.marked
  /\ handler.writer.out.torn => book.marked \/ book.loose
  /\ Exported => /\ ~stopped /\ stack = <<>>
                 /\ handler.writer.elements = <<>> /\ ~handler.writer.tagOpened

\* No binary is written twice, and of the pictures that were known from the
\* start an export without errors has every one that can be decoded, whether
\* the document has a binary for it or not.
KnownImagesOnce ==
  /\ ~handler.again
  /\ Exported => handler.recoded = {id \in DOMAIN given : Recodes(given[id], handler.imageProcessing)}

\* When the parser returns the program has left its name in the book.
ProgramUsedAtEnd == phase = "done" => handler.hasProgramUsed
=============================================================================
