------------------------------ MODULE BookRemoval ------------------------------
(***************************************************************************)
(* util/BookUtil.cpp: books are removed from the archives they are in, and   *)
(* their pictures from the archives of covers and images that belong to      *)
(* those by their base name.  What is to be removed is collected first, for  *)
(* all archives, and then removed from one after the other; an archive that  *)
(* cannot be opened throws, and those after it are left as they are.         *)
(*                                                                         *)
(* Of an archive only what Remove() is given names for: files at the top and *)
(* directories, with everything in them (see Archive).                       *)
(***************************************************************************)
EXTENDS FiniteSets, Functions

CONSTANTS Folders,        \* archives of books
          Files,          \* names of books
          BaseName(_),    \* QFileInfo::completeBaseName() of either
          MaxBooks        \* bound: books to be removed

VARIABLES shelf,     \* the archives that exist, and the names in each
          wanted,    \* the books to be removed, with their archives
          toDo,      \* the collected names by archive: of books or pictures
          phase,     \* "collect", or which of the two is removed: "books", "pictures"
          before,    \* history: the shelf at the beginning
          thrown     \* history: an archive could not be opened

vars == <<shelf, wanted, toDo, phase, before, thrown>>

Types == {"covers", "images"}

Covers(folder) == <<"covers", BaseName(folder)>>
Images(folder) == <<"images", BaseName(folder)>>
Pictures       == {<<type, BaseName(folder)>> : type \in Types, folder \in Folders}

\* A cover is a file without extension, the images of a book are in a directory.
PictureName(type, file) == IF type = "covers" THEN <<BaseName(file)>> ELSE <<BaseName(file), "">>

-----------------------------------------------------------------------------

CollectBookFiles ==
  [folder \in {book[1] : book \in wanted} |-> {book[2] : book \in {b \in wanted : b[1] = folder}}]

\* Mutant: of books in archives of one base name only the last ones' pictures.
OfOneArchive(bookFiles, base) == {CHOOSE folder \in DOMAIN bookFiles : BaseName(folder) = base}

OfArchives(bookFiles, base) == {folder \in DOMAIN bookFiles : BaseName(folder) = base}

\* Only archives that exist now are looked into.
CollectImageFiles(bookFiles) ==
  [picture \in {p \in Pictures \cap DOMAIN shelf : \E folder \in DOMAIN bookFiles : BaseName(folder) = p[2]} |->
     UNION {{PictureName(picture[1], file) : file \in bookFiles[folder]}
              : folder \in OfArchives(bookFiles, picture[2])}]

Collect ==
  /\ phase = "collect"
  /\ toDo' = [books |-> CollectBookFiles, pictures |-> CollectImageFiles(CollectBookFiles)]
  /\ phase' \in {"books", "pictures"}
  /\ UNCHANGED <<shelf, wanted, before, thrown>>

\* One archive of RemoveFiles(): Remove(), and an archive without files goes.
RemoveFrom(archive) ==
  LET left == shelf[archive] \ toDo[phase][archive] IN
  /\ archive \in DOMAIN toDo[phase] \cap DOMAIN shelf
  /\ shelf' = IF left = {} THEN Restrict(shelf, DOMAIN shelf \ {archive})
                           ELSE [shelf EXCEPT ![archive] = left]
  /\ toDo' = [toDo EXCEPT ![phase] = Restrict(@, DOMAIN @ \ {archive})]
  /\ UNCHANGED <<wanted, phase, before, thrown>>

\* Any archive may be locked or damaged, one that is not there always fails.
RemoveFails ==
  /\ DOMAIN toDo[phase] # {}
  /\ toDo' = [toDo EXCEPT ![phase] = <<>>]
  /\ thrown' = TRUE
  /\ UNCHANGED <<shelf, wanted, phase, before>>

\* The program removes books and pictures in the order it likes.
RemoveOthers ==
  /\ DOMAIN toDo[phase] = {}
  /\ phase' = IF phase = "books" THEN "pictures" ELSE "books"
  /\ DOMAIN toDo[phase'] # {}
  /\ UNCHANGED <<shelf, wanted, toDo, before, thrown>>

RemoveFiles ==
  /\ phase # "collect"
  /\ \/ \E archive \in DOMAIN toDo[phase] : RemoveFrom(archive)
     \/ RemoveFails
     \/ RemoveOthers

\* Any archives of books, with or without the pictures of some.
Init ==
  /\ \E present \in SUBSET (Folders \cup Pictures) :
       \E files \in [present -> (SUBSET Files) \ {{}}] :
         shelf = [a \in present |-> IF a \in Folders THEN files[a]
                                    ELSE {PictureName(a[1], file) : file \in files[a]}]
  /\ wanted \in {w \in SUBSET (Folders \X Files) : Cardinality(w) \in 1 .. MaxBooks}
  /\ toDo = [books |-> <<>>, pictures |-> <<>>]
  /\ phase = "collect" /\ before = shelf /\ thrown = FALSE

Next == Collect \/ RemoveFiles

-----------------------------------------------------------------------------
(* Properties                                                                *)

\* What stands in an archive for a book that is to be removed.
Wanted(archive) ==
  IF archive \in Folders THEN {book[2] : book \in {b \in wanted : b[1] = archive}}
  ELSE {PictureName(archive[1], book[2]) : book \in {b \in wanted : BaseName(b[1]) = archive[2]}}

Left(archive) == IF archive \in DOMAIN shelf THEN shelf[archive] ELSE {}

\* Nothing is removed but the books asked for and what is kept under their names
\* with the pictures of their archive, also when an archive fails half way; when
\* none fails all of it is gone, and so is every archive that has become empty.
RemovedExactly ==
  /\ DOMAIN shelf \subseteq DOMAIN before /\ {} \notin {shelf[a] : a \in DOMAIN shelf}
  /\ \A a \in DOMAIN before : before[a] \ Wanted(a) \subseteq Left(a) /\ Left(a) \subseteq before[a]
  /\ phase # "collect" /\ toDo.books = <<>> /\ toDo.pictures = <<>> /\ ~thrown =>
       \A a \in DOMAIN shelf : shelf[a] \cap Wanted(a) = {}
=============================================================================
