------------------------------- MODULE MCBooks -------------------------------
(* The components that books are stored, read, hashed and compared with share *)
(* no state and are checked side by side: the initial state picks one of      *)
(* them, and the variables of the others stay as they are. Components of which *)
(* only one is picked share the variables that have the same name.            *)
EXTENDS Archive

CONSTANTS EpubPictures, Pages, ItemIds, CoverIds, MaxElements, MaxFields, NotHere,  \* EpubParser
          PictureIds, MaxPieces,                     \* BookHash
          HashFiles, WantedFile, SectionIds, MaxHashPieces,  \* StoredHash
          SeqNumbers, MaxBookElements,               \* InpxParser
          Digests, PHash(_), CoverDigests, MaxImages,      \* BookCompare
          Folders, BookFiles, BaseName(_), MaxBooks  \* BookRemoval

VARIABLES part,                                   \* the component picked
          stack, characters, stopped, handler,    \* SaxParser
          pieces, texts, hollow,                  \* BookHash
          told,                                   \* StoredHash
          elements, frame, withText,              \* InpxParser
          left, right, l, r, lIds, rIds, phase, flags,               \* BookCompare
          mode, body, shows, section, passed, open, text, functor, fields, coverId,
          coverPath, manifest, spineItemRefFound, doc, images, coverExists,  \* EpubParser
          bodies, own, coversZip, imagesZip, hist, md5, sections, item,      \* BookDigest
          shelf, wanted, toDo, before, thrown                                \* BookRemoval

readerVars  == <<stack, characters, stopped, handler>>
inpxOnly    == <<elements, frame, withText>>
compareOnly == <<right, l, r, lIds, rIds, flags>>
epubOnly    == <<mode, body, shows, section, passed, open, text, functor, fields, coverId,
                 coverPath, manifest, spineItemRefFound, doc, images, coverExists>>
digestOnly  == <<bodies, own, coversZip, imagesZip, hist, md5, sections, item>>
removalOnly == <<shelf, wanted, toDo, before, thrown>>
partVars    == <<part, vars, readerVars, pieces, texts, hollow, told, inpxOnly, left, phase,
                 compareOnly, epubOnly, digestOnly, removalOnly>>

\* An archive with a file at the top and a directory with two files.
MCFileNames == {<<"a">>, <<"d", "a">>, <<"d", "b">>}
MCDirNames  == {<<"d">>}

MCPictureIds == {"i1", "i2"}

Hash == INSTANCE BookHash WITH Ids <- PictureIds

Stored == INSTANCE StoredHash WITH
  Files <- HashFiles, Ids <- SectionIds, Wanted <- WantedFile, MaxPieces <- MaxHashPieces

Inpx == INSTANCE InpxParser WITH MaxElements <- MaxBookElements

\* Twice two pictures that look the same, ones at distances below and above the
\* threshold, and pairs of equal distance.
MCDigests  == 1 .. 6
MCPHash(d) == <<0, 0, 10, 10, 20, 30>>[d]

Compare == INSTANCE BookCompare WITH Covers <- CoverDigests

Epub == INSTANCE EpubParser WITH Pictures <- EpubPictures, Ids <- ItemIds

\* One short word and two that count as equally long.
MCLength(w) == <<3, 9, 12>>[w]

Digest == INSTANCE BookDigest WITH
  Words <- 1 .. 3, Length <- MCLength, TopWords <- 2, TextFiles <- {"t1", "t2"},
  Names <- {2, 10}, Book <- "1", Other <- "12", MaxWords <- 2

\* Two archives of one base name, and two books of one base name among three.
MCFolders        == {<<"f", "7z">>, <<"f", "zip">>}
MCBookFiles      == {<<"a", "fb2">>, <<"a", "epub">>, <<"b", "fb2">>}
MCBaseName(name) == name[1]

Removal == INSTANCE BookRemoval WITH Files <- BookFiles

\* An empty name of a picture is taken for none, and pictures have archives of
\* their own, in directories below that of the books.
ASSUME HashAssumption    == Hash!NoId \notin PictureIds /\ MaxPieces \in Nat
ASSUME PiecesAssumption  == MaxHashPieces \in Nat /\ MaxBookElements \in Nat
ASSUME CompareAssumption ==
  Digests \subseteq Nat /\ MaxImages \in Nat /\ \A d \in Digests \cup CoverDigests : PHash(d) \in Nat
ASSUME EpubAssumption    == NotHere \notin EpubPictures \cup Pages /\ IsFiniteSet(EpubPictures)
ASSUME RemovalAssumption == Folders \cap Removal!Pictures = {}

-----------------------------------------------------------------------------

IdleArchive ==
  /\ disk = <<>> /\ exists = FALSE /\ kind = "none" /\ listed = FALSE
  /\ files = <<>> /\ used = FALSE /\ opened = 0 /\ asked = {}

IdleReader == stack = <<>> /\ characters = "none" /\ stopped = FALSE /\ handler = <<>>

IdleInpx == elements = 0 /\ frame = 0 /\ withText = {}

IdleCompare == right = <<>> /\ l = 1 /\ r = 1 /\ lIds = {} /\ rIds = {} /\ flags = {}

IdleEpub ==
  /\ mode = {} /\ body = {} /\ shows = <<>> /\ section = 0 /\ passed = 0 /\ open = ""
  /\ text = FALSE /\ functor = "" /\ fields = <<>> /\ coverId = NotHere /\ coverPath = NotHere
  /\ manifest = <<>> /\ spineItemRefFound = FALSE /\ doc = <<>> /\ images = <<>>
  /\ coverExists = FALSE

IdleDigest ==
  /\ bodies = <<>> /\ own = <<>> /\ coversZip = {} /\ imagesZip = {} /\ hist = <<>>
  /\ md5 = <<>> /\ sections = <<>> /\ item = <<>>

IdleRemoval == shelf = <<>> /\ wanted = {} /\ toDo = <<>> /\ before = <<>> /\ thrown = FALSE

CompareInit ==
  /\ part = "compare" /\ Compare!Init
  /\ IdleArchive /\ IdleReader /\ IdleInpx /\ IdleEpub /\ IdleDigest /\ IdleRemoval
  /\ pieces = 0 /\ texts = <<>> /\ hollow = 0 /\ told = <<>>

PartInit ==
  \/ CompareInit
  \/ /\ part = "archive" /\ Init /\ IdleReader /\ IdleInpx /\ IdleCompare /\ IdleEpub /\ IdleDigest
     /\ pieces = 0 /\ texts = <<>> /\ hollow = 0 /\ told = <<>> /\ left = <<>> /\ phase = "" /\ IdleRemoval
  \/ /\ part = "hash" /\ Hash!Init /\ IdleArchive /\ IdleInpx /\ IdleCompare /\ IdleEpub /\ IdleDigest
     /\ told = <<>> /\ left = <<>> /\ phase = "" /\ IdleRemoval
  \/ /\ part = "stored" /\ Stored!Init /\ IdleArchive /\ IdleInpx /\ IdleCompare /\ IdleEpub
     /\ IdleDigest /\ texts = <<>> /\ hollow = 0 /\ left = <<>> /\ phase = "" /\ IdleRemoval
  \/ /\ part = "inpx" /\ Inpx!Init /\ IdleArchive /\ IdleCompare /\ IdleEpub /\ IdleDigest
     /\ pieces = 0 /\ texts = <<>> /\ hollow = 0 /\ left = <<>> /\ phase = "" /\ IdleRemoval
  \/ /\ part = "epub" /\ Epub!Init /\ IdleArchive /\ IdleReader /\ IdleInpx /\ IdleCompare
     /\ IdleDigest /\ pieces = 0 /\ hollow = 0 /\ told = <<>> /\ left = <<>> /\ IdleRemoval
  \/ /\ part = "digest" /\ Digest!Init /\ IdleArchive /\ IdleReader /\ IdleInpx /\ IdleCompare
     /\ IdleEpub /\ pieces = 0 /\ texts = <<>> /\ hollow = 0 /\ told = <<>> /\ phase = "" /\ IdleRemoval
  \/ /\ part = "removal" /\ Removal!Init /\ IdleArchive /\ IdleReader /\ IdleInpx /\ IdleCompare
     /\ IdleEpub /\ IdleDigest /\ pieces = 0 /\ texts = <<>> /\ hollow = 0 /\ told = <<>> /\ left = <<>>

\* Documents and archives are read to their end; the rest has nothing to wait for.
Done == part \in {"epub", "digest", "removal"} /\ UNCHANGED partVars

PartNext ==
  \/ /\ part = "archive" /\ Next
     /\ UNCHANGED <<part, readerVars, pieces, texts, hollow, told, inpxOnly, left, phase,
                    compareOnly, epubOnly, digestOnly, removalOnly>>
  \/ /\ part = "hash" /\ Hash!Next
     /\ UNCHANGED <<part, vars, told, inpxOnly, left, phase, compareOnly, epubOnly, digestOnly, removalOnly>>
  \/ /\ part = "stored" /\ Stored!Next
     /\ UNCHANGED <<part, vars, texts, hollow, inpxOnly, left, phase, compareOnly, epubOnly,
                    digestOnly, removalOnly>>
  \/ /\ part = "inpx" /\ Inpx!Next
     /\ UNCHANGED <<part, vars, pieces, texts, hollow, left, phase, compareOnly, epubOnly,
                    digestOnly, removalOnly>>
  \/ /\ part = "compare" /\ Compare!Next
     /\ UNCHANGED <<part, vars, readerVars, pieces, texts, hollow, told, inpxOnly, epubOnly,
                    digestOnly, removalOnly>>
  \/ /\ part = "epub" /\ Epub!Next
     /\ UNCHANGED <<part, vars, readerVars, pieces, hollow, told, inpxOnly, left, compareOnly,
                    digestOnly, removalOnly>>
  \/ /\ part = "digest" /\ Digest!Next
     /\ UNCHANGED <<part, vars, readerVars, pieces, texts, hollow, told, inpxOnly, phase,
                    compareOnly, epubOnly, removalOnly>>
  \/ /\ part = "removal" /\ Removal!Next
     /\ UNCHANGED <<part, vars, readerVars, pieces, texts, hollow, told, inpxOnly, left,
                    compareOnly, epubOnly, digestOnly>>
  \/ Done

PartSpec    == PartInit /\ [][PartNext]_partVars
CompareSpec == CompareInit /\ [][PartNext]_partVars

-----------------------------------------------------------------------------

\* The variables of each component have their types: the items of the archive's
\* list exist, the parsers are inside exactly the sections that are open, and of
\* the pictures that look for a counterpart equally many have found one.
PartTypeOK ==
  /\ TypeOK
  /\ part = "hash"    => Hash!TypeOK
  /\ part = "stored"  => Stored!TypeOK
  /\ part = "inpx"    => Inpx!TypeOK
  /\ part = "compare" => Compare!TypeOK
  /\ part = "epub"    => Epub!TypeOK

\* Fb2Parser counts every text of a section once, see BookHash.
TextsCounted == part = "hash" => Hash!TextsCounted

\* After every step the list of an archive shows what is in it, and removing takes
\* away what was asked for and nothing else, see Archive.
ArchiveKept == [][ListIsTheArchive' /\ RemoveIsExact]_partVars

\* The report of a stored book has all of it and nothing else, and the line of a
\* book has its authors, see StoredHash and InpxParser.
ReportedWhole ==
  /\ part = "stored" => Stored!BookReportedWhole
  /\ part = "inpx"   => Inpx!AuthorsOfTheBook

\* Books called the same look the same, and conversely; books not called different
\* are contained in one another up to similarity, see BookCompare.
VerdictsMeanIt == part = "compare" => Compare!SameMeansSame /\ Compare!IncludesMeansIncludes

\* The book that is said to include the other has more pictures or the cover.
IncluderHasMore == part = "compare" => Compare!IncluderHasMore

\* The cover of an EPUB book is the one that it declares, and every other file of
\* it comes back once, see EpubParser.
EpubReadWhole == part = "epub" => Epub!CoverIsDeclared /\ Epub!NothingTwice

\* The digests of a book do not depend on the order of its files, and compare like
\* those they were made of after they have been stored, see BookDigest.
DigestsRight == part = "digest" => Digest!OrderForgotten /\ Digest!StoredAlike

\* Removing books takes away exactly them and their pictures, see BookRemoval.
RemovedExactly == part = "removal" => Removal!RemovedExactly
=============================================================================
