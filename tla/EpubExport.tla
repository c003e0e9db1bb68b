------------------------------ MODULE EpubExport ------------------------------
(* util/ImageRestore.cpp, PrepareToExport() of an EPUB book: the pictures that    *)
(* archives next to the book's keep for it are put where the image index of the   *)
(* book says, the rest of the book is what EpubParser made of it, and all of it   *)
(* goes into a new archive.                                                      *)
EXTENDS Integers, Sequences, FiniteSetsExt

CONSTANTS
  Names,        \* of pictures in an archive of images
  NumberIn,     \* QString::toInt() of each name: 0 if it is no number
  BookPictures, \* paths of pictures in a book, as sequences of names
  BookTexts,    \* paths of its other files
  CoverName,    \* Global::COVER
  MaxOffered    \* bound on the pictures that the archives have together

CoverNumber == -1                      \* of the cover in an image index
Bodies      == {"picture", "broken"}   \* whether a body can be decoded; an empty one cannot
PictureProcessings == {{}, {"RemoveCovers"}, {"RemoveImages"}, {"RemoveCovers", "RemoveImages"}}

\* In the order in which they are asked: of covers and of images, zip before 7z.
Archives    == 1 .. 4
OfCovers(i) == i <= 2

VARIABLES
  processing,   \* of the settings
  offered,      \* for each archive, the bodies it has for this book, by name
  index,        \* the image index of the book: paths by number
  images,       \* the pictures of ParseResult, by path
  texts,        \* the other files of ParseResult
  front,        \* its images.front() if coverExists, else <<>>
  output        \* the new archive: <<>> before, then one set of entries

inputVars == <<processing, offered, index, images, texts, front>>
vars == <<inputVars, output>>

PartialFunctions(S, T) == UNION {[D -> T] : D \in SUBSET S}

\* An archive of covers has at most one picture for a book.
Init ==
  /\ processing \in PictureProcessings
  /\ \E coverZip, cover7z \in PartialFunctions({CoverName}, Bodies),
        imageZip, image7z \in PartialFunctions(Names, Bodies) :
       /\ offered = <<coverZip, cover7z, imageZip, image7z>>
       /\ MapThenSumSet(LAMBDA i : Cardinality(DOMAIN offered[i]), Archives) <= MaxOffered
  /\ index \in PartialFunctions({NumberIn[name] : name \in Names} \cup {CoverNumber}, BookPictures)
  /\ images \in PartialFunctions(BookPictures, Bodies)
  /\ texts \in SUBSET BookTexts
  /\ front \in DOMAIN images \cup {<<>>}
  /\ output = <<>>

-------------------------------------------------------------------------------

\* RecodeImage() has something to write.
Recodes(isCover, body) ==
  /\ (IF isCover THEN "RemoveCovers" ELSE "RemoveImages") \notin processing
  /\ body = "picture"

\* ParseCover() and ParseImages(): what an archive is asked for.
Asked(i) ==
  {name \in DOMAIN offered[i] :
     (IF OfCovers(i) THEN "RemoveCovers" ELSE "RemoveImages") \notin processing}

\* ExtractBookImages(): covers.try_emplace() keeps what came first, be it broken.
First(name) == Min({i \in Archives : name \in Asked(i)})

ExtractBookImages ==
  [name \in UNION {Asked(i) : i \in Archives} |->
     [isCover |-> OfCovers(First(name)), body |-> offered[First(name)][name]]]

NumberOf(name, isCover) == IF isCover THEN CoverNumber ELSE NumberIn[name]

\* A file of the new archive. Two may have one path: "from" keeps them apart.
Entry(path, from, isCover) == [path |-> path, from |-> from, isCover |-> isCover]

\* The pictures of the archives, where the index says.
Restored ==
  LET covers == ExtractBookImages
      Number(name) == NumberOf(name, covers[name].isCover)
  IN {Entry(index[Number(name)], <<"archives", name>>, covers[name].isCover) :
        name \in {n \in DOMAIN covers : /\ Number(n) \in DOMAIN index
                                        /\ Recodes(covers[n].isCover, covers[n].body)}}

\* EpubParser cuts the directory that all files of the book are in, and again as
\* long as there is one, if there are texts.
Files     == DOMAIN images \cup texts
Shared(n) == \A f, g \in Files : Len(f) > n /\ SubSeq(f, 1, n) = SubSeq(g, 1, n)
Depth ==
  IF texts = {} THEN 0
  ELSE LET text == CHOOSE t \in texts : TRUE
       IN Min({n \in 0 .. Len(text) : ~Shared(n + 1)})
Cut(path) == SubSeq(path, Depth + 1, Len(path))

\* The files of the book, the cover first.
Own ==
  {Entry(Cut(path), <<"texts">>, FALSE) : path \in texts} \cup
  {Entry(Cut(path), <<"images">>, path = front) :
     path \in {i \in DOMAIN images : Recodes(i = front, images[i])}}

\* PrepareToExport_epub()
PrepareToExport ==
  /\ output = <<>>
  /\ output' = <<Restored \cup Own>>
  /\ UNCHANGED inputVars

Next == PrepareToExport
Spec == Init /\ [][Next]_vars

-------------------------------------------------------------------------------
(* Properties *)

Entries  == output[1]
At(path) == {e \in Entries : e.path = path}

\* The pictures of the archives that have a number: those that are kept, decoded
\* and in no archive asked before.
Known(number) ==
  {s \in Archives \X (Names \cup {CoverName}) :
     LET i == s[1]  name == s[2]
     IN /\ name \in Asked(i) /\ \A j \in 1 .. i - 1 : name \notin Asked(j)
        /\ offered[i][name] = "picture"
        /\ IF OfCovers(i) THEN number = CoverNumber ELSE number = NumberIn[name]}

TakenOut == \A number \in DOMAIN index : index[number] \notin {Cut(path) : path \in Files}
Distinct == \A m, n \in DOMAIN index : index[m] = index[n] => m = n

\* Nothing is in the export that the settings take away, neither out of the
\* archives nor out of the book. In a book whose index names pictures that were
\* taken out of it, each at a path of its own, every text and every decodable
\* picture of the book is there once, at its place below the directories that all
\* files share; and at the path that the index gives for a number are the
\* pictures of the archives with that number, the cover's -1: one, if no two names
\* read as the same number, and none if the first archive has a broken one.
EpubRestored ==
  output # <<>> =>
    /\ \A e \in Entries : /\ e.isCover => "RemoveCovers" \notin processing
                          /\ e.from # <<"texts">> /\ ~e.isCover => "RemoveImages" \notin processing
    /\ TakenOut /\ Distinct =>
         /\ \A path \in texts : At(Cut(path)) = {Entry(Cut(path), <<"texts">>, FALSE)}
         /\ \A path \in DOMAIN images :
              At(Cut(path)) = IF Recodes(path = front, images[path])
                              THEN {Entry(Cut(path), <<"images">>, path = front)} ELSE {}
         /\ \A number \in DOMAIN index :
              At(index[number]) = {Entry(index[number], <<"archives", s[2]>>, OfCovers(s[1])) :
                                     s \in Known(number)}
=============================================================================
