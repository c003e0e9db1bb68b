------------------------------ MODULE StoredHash ------------------------------
(* util/bookhash/hashparser.cpp: HashParserImpl, a handler of SaxParser that    *)
(* collects what a file of hashes has about each book and reports it when the     *)
(* book ends; and hashxml.cpp: XmlHashGetter, the observer that waits for the     *)
(* book of one file and then stops the parser. Every element of the document is a *)
(* number of its own, which stands for its attributes; a text is there or not.    *)
EXTENDS Naturals, Sequences, FiniteSets

CONSTANTS
  Files,      \* names of books
  Ids,        \* ids of sections
  Wanted,     \* the file that is looked for
  MaxPieces   \* bound: elements and texts of a document

VARIABLES
  stack, characters, stopped, handler,  \* of SaxParser
  pieces,     \* the elements and texts begun so far
  told        \* history: what the book that is open has, in the order of the document

vars == <<stack, characters, stopped, handler, pieces, told>>

\* As in SequencesExt, all of which an instance would bring into every proof.
Front(s) == SubSeq(s, 1, Len(s) - 1)
Last(s)  == s[Len(s)]

Nothing == 0    \* an empty string

Books      == <<"books">>
Book       == Append(Books, "book")
Cover      == Append(Book, "cover")
Image      == Append(Book, "image")
Origin     == Append(Book, "origin")
Histogram  == Book \o <<"histogram", "item">>
Annotation == Book \o <<"annotation", "p">>

-------------------------------------------------------------------------------
(* HashParserImpl. "sections" has the paths of ids of the tree of sections, each  *)
(* with its attributes, "current" is the path of m_currentSection.              *)

NoBook == [book |-> Nothing, file |-> "", origin |-> Nothing,
           cover |-> [pHash |-> Nothing, hash |-> FALSE], images |-> <<>>,
           sections |-> [path \in {} |-> Nothing], words |-> <<>>, annotation |-> 0]

HashParser == [data |-> NoBook, current |-> <<>>, reports |-> <<>>, item |-> NoBook]

True(p) == [self |-> p, go |-> TRUE]

OnProcessingInstruction(p) == True(p)
OnError(p) == [self |-> p, go |-> FALSE]

\* children.try_emplace(): a section with the id of another one replaces its numbers.
AddSection(sections, path, n) ==
  [s \in DOMAIN sections \cup {path} |-> IF s = path THEN n ELSE sections[s]]

\* An attribute is [n |-> the number of the element, id |-> its file or id].
OnStartElement(p, name, path, attribute) ==
  LET n == attribute.n
      section == Append(p.current, attribute.id)
  IN True(
    CASE path = Book      -> [p EXCEPT !.data.book = n, !.data.file = attribute.id,
                                       !.data.sections = NoBook.sections, !.current = <<>>]
      [] path = Origin    -> [p EXCEPT !.data.origin = n]
      [] name = "section" -> [p EXCEPT !.data.sections = AddSection(@, section, n),
                                       !.current = section]
      [] path = Cover     -> [p EXCEPT !.data.cover.pHash = n]
      [] path = Image     -> [p EXCEPT !.data.images = Append(@, [pHash |-> n, hash |-> FALSE])]
      [] path = Histogram -> [p EXCEPT !.data.words = Append(@, n)]
      [] OTHER            -> p)

\* A bug to try: the cover and the origin, which not every book has, are not reset.
KeepOptional(data) == [NoBook EXCEPT !.cover = data.cover, !.origin = data.origin]

Reset(data) == NoBook

\* OnBookParsed() of XmlHashGetter: the item takes the book over, but neither its
\* origin nor its sections, and the parser stops.
OnBookParsed(p) ==
  IF p.data.file # Wanted THEN True([p EXCEPT !.reports = Append(@, p.data)])
  ELSE [self |-> [p EXCEPT !.reports = Append(@, p.data),
                           !.item = [p.data EXCEPT !.origin = NoBook.origin,
                                                   !.sections = NoBook.sections]],
        go |-> FALSE]

OnEndElement(p, name, path) ==
  IF path = Book
  THEN LET answer == OnBookParsed(p)
       IN IF answer.go
          THEN True([answer.self EXCEPT !.data = Reset(@), !.current = <<>>])
          ELSE answer
  ELSE True(IF name = "section" THEN [p EXCEPT !.current = Front(@)] ELSE p)

OnCharacters(p, path) ==
  True(CASE path = Cover      -> [p EXCEPT !.data.cover.hash = TRUE]
         [] path = Image      -> [p EXCEPT !.data.images =
                                    Append(Front(@), [Last(@) EXCEPT !.hash = TRUE])]
         [] path = Annotation -> [p EXCEPT !.data.annotation = @ + 1]
         [] OTHER             -> p)

Reader == INSTANCE SaxParser

\* ParseXmlHash() throws if the parser has found no book of that file.
ParseXmlHash == IF handler.item = NoBook THEN "not found" ELSE "found"

-------------------------------------------------------------------------------
(* The document *)

Children(name) ==
  CASE name = "books" -> {"book"}
    [] name = "book" -> {"cover", "image", "origin", "section", "histogram", "annotation"}
    [] name = "section" -> {"section"}
    [] name = "histogram" -> {"item"}
    [] name = "annotation" -> {"p"}
    [] OTHER -> {}

\* The cover, the origin and the other parts of a book come once; pictures and
\* sections may repeat.
Once == {"cover", "origin", "histogram", "annotation"}

Attributes(name) == IF name = "book" THEN Files ELSE IF name = "section" THEN Ids ELSE {""}

Start(name, id) ==
  /\ pieces < MaxPieces
  /\ ~\E i \in DOMAIN told : name \in Once /\ told[i].name = name
  /\ Reader!StartElement(name, [n |-> pieces + 1, id |-> id])
  /\ pieces' = pieces + 1
  /\ told' = LET e == [name |-> name, n |-> pieces + 1, id |-> id, in |-> stack]
             IN IF name \in {"books", "book"} THEN <<e>> ELSE Append(told, e)

StartBooks == stack = <<>> /\ pieces = 0 /\ Start("books", "")

StartPiece ==
  /\ stack # <<>>
  /\ \E name \in Children(Last(stack)) : \E id \in Attributes(name) : Start(name, id)

ReadText ==
  /\ stack \in {Cover, Image, Annotation} /\ pieces < MaxPieces /\ characters # "text"
  /\ Last(told).name = Last(stack)
  /\ Reader!Characters("text")
  /\ pieces' = pieces + 1
  /\ told' = Append(told, [name |-> "text", n |-> pieces + 1, id |-> "", in |-> stack])

ReadBlank == stack # <<>> /\ Reader!Characters("blank") /\ UNCHANGED <<pieces, told>>

EndPiece == Reader!EndElement /\ UNCHANGED <<pieces, told>>

ReadError == Reader!Error /\ UNCHANGED <<pieces, told>>

Finished == (stopped \/ pieces = MaxPieces \/ stack = <<>>) /\ UNCHANGED vars

Init == Reader!Init(HashParser) /\ pieces = 0 /\ told = <<>>

Next == StartBooks \/ StartPiece \/ ReadText \/ ReadBlank \/ EndPiece \/ ReadError \/ Finished

Spec == Init /\ [][Next]_vars

-------------------------------------------------------------------------------
(* Properties *)

\* The elements of a file of hashes.
Names == {"books", "book", "cover", "image", "origin", "section", "histogram", "item",
          "annotation", "p"}

\* The current section is one of the tree whenever a book is open, as deep as the
\* sections that are open in the document.
TypeOK ==
  /\ stack \in Seq(Names) /\ stopped \in BOOLEAN /\ pieces \in 0 .. MaxPieces
  /\ handler.data.book \in 0 .. MaxPieces /\ handler.data.file \in Files \cup {""}
  /\ stopped \/ Len(handler.current) = Cardinality({i \in DOMAIN stack : stack[i] = "section"})
  /\ handler.current # <<>> => handler.current \in DOMAIN handler.data.sections

Elements(name) == SelectSeq(told, LAMBDA e : e.name = name)
Number(name) == IF Elements(name) = <<>> THEN Nothing ELSE Elements(name)[1].n
\* The text of an element follows it.
HasText(n) ==
  n # Nothing /\ \E i \in DOMAIN Elements("text") : Elements("text")[i].n = n + 1
Numbers(name) == [i \in DOMAIN Elements(name) |-> Elements(name)[i].n]

\* When a book has ended, the report has the pieces of this book, each with the
\* text that stands in it, and none of the books before; XmlHashGetter is reached by
\* no book after the one it waits for, and has that one.
BookReportedWhole ==
  /\ stack = Books /\ Elements("book") # <<>> =>
       LET report == Last(handler.reports)
       IN /\ report.book = told[1].n /\ report.file = told[1].id
          /\ report.origin = Number("origin")
          /\ report.cover = [pHash |-> Number("cover"), hash |-> HasText(Number("cover"))]
          /\ report.images = [i \in DOMAIN Elements("image") |->
                                [pHash |-> Elements("image")[i].n,
                                 hash |-> HasText(Elements("image")[i].n)]]
          /\ report.words = Numbers("item")
          /\ report.annotation =
               Len(SelectSeq(Elements("text"), LAMBDA e : e.in = Annotation))
          /\ \A path \in DOMAIN report.sections :
               \E i \in DOMAIN Numbers("section") : report.sections[path] = Numbers("section")[i]
  /\ \A i \in DOMAIN handler.reports :
       handler.reports[i].file = Wanted =>
         /\ i = Len(handler.reports) /\ stopped /\ ParseXmlHash = "found"
         /\ handler.item.book = handler.reports[i].book
=============================================================================
